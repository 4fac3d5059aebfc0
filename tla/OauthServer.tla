---------------------------- MODULE OauthServer ----------------------------
(***************************************************************************)
(* The web server of "Sign in with Google": oauth_server.cc on top of the  *)
(* part of libmicrohttpd it runs, one polling thread with select, no       *)
(* timeout, no TLS, an inter-thread channel (ITC) to wake the thread. This *)
(* module has the thread, the connections, the clients, and the two calls  *)
(* of the main thread, start and stop; OauthFlow has the main thread.      *)
(*                                                                         *)
(* Each case of MHD_connection_handle_idle is an action, so that the main  *)
(* thread's stop can fall between any two of them.                         *)
(***************************************************************************)
EXTENDS Naturals, Sequences

CONSTANTS
    Conns,            \* connections (sockets) that can be open at a time
    ConnectionLimit,  \* MHD_MAX_CONNECTIONS_DEFAULT
    MaxRequests       \* bound: requests all clients send together

ASSUME LimitAssumption == ConnectionLimit \in Nat \ {0}

ASSUME RequestsAssumption == MaxRequests \in Nat

VARIABLES
    daemon,    \* OauthServer::daemon is not null
    shutdown,  \* MHD_Daemon::shutdown
    itc,       \* the channel holds a signal
    at_limit,  \* MHD_Daemon::at_limit
    pc,        \* where the polling thread is
    conns,     \* the list of connections, oldest first
    cleanup,   \* the list of closed connections to be freed
    todo,      \* connections call_handlers is still to be called for
    fast,      \* writes the fast track of call_handlers may still try
    con,       \* the struct MHD_Connection of each
    posted,    \* signals emitted to the main thread, not yet delivered
    backlog,   \* connections the listening socket holds, not yet accepted
    cli,       \* the other end of each socket
    requests   \* requests not yet sent

daemonVars == <<daemon, shutdown, itc, at_limit>>
listVars == <<conns, cleanup>>
threadVars == <<pc, todo, fast>>
clientVars == <<backlog, cli, requests>>
serverVars == <<daemonVars, listVars, threadVars, con, posted, clientVars>>

-----------------------------------------------------------------------------
(* Data *)

(* What a client asks for: a GET of / with a state and a code, anything    *)
(* else without a body that handle_fail is called for (an error, a         *)
(* favicon), a request with a body, and one that cannot be parsed.         *)
Kinds == {"code", "error", "post", "malformed"}

(* The pieces a request is read in: its head, named by the kind, and a     *)
(* body. While a head is incomplete the thread waits for the rest of it as *)
(* it waits for a head.                                                    *)
Split(k) == IF k = "post" THEN <<k, "body">> ELSE <<k>>

(* The signal answer_to_connection emits for a request. *)
SignalOf(k) == IF k = "code" THEN "callbackReceived" ELSE "authError"

(* A connection as internal_add_connection leaves it. `st' is one of the   *)
(* MHD_CONNECTION_STATEs in which the thread may wait or a case of         *)
(* handle_idle is worth a step; INIT stands also for the states up to      *)
(* HEADERS_PROCESSED, in which a head is read and looked at, and           *)
(* BODY_READY for HEADERS_SENT before it. `calls' is no part of the        *)
(* struct: the handler's calls since the last request_completed.           *)
Fresh == [st |-> "INIT", aware |-> FALSE, ctx |-> FALSE, resp |-> FALSE,
          keep |-> FALSE, read_closed |-> FALSE, buf |-> <<>>,
          kind |-> "code", calls |-> 0]

Closed == [Fresh EXCEPT !.st = "CLOSED"]

NoClient == [sock |-> "none", out |-> <<>>, inbox |-> <<>>]

ServerInit ==
    /\ daemon = FALSE /\ shutdown = FALSE /\ itc = FALSE /\ at_limit = FALSE
    /\ pc = "none" /\ conns = <<>> /\ cleanup = {} /\ todo = <<>> /\ fast = 0
    /\ con = [c \in Conns |-> Closed]
    /\ posted = <<>>
    /\ backlog = <<>>
    /\ cli = [c \in Conns |-> NoClient]
    /\ requests = MaxRequests

-----------------------------------------------------------------------------
(* The main thread's calls *)

(* OauthServer::start with MHD_start_daemon, which may return NULL. *)
start ==
    IF daemon
    THEN UNCHANGED <<daemonVars, pc>>
    ELSE \/ /\ daemon' = TRUE /\ shutdown' = FALSE
            /\ itc' = FALSE /\ at_limit' = FALSE
            /\ pc' = "loop"
         \/ UNCHANGED <<daemonVars, pc>>

(* MHD_stop_daemon: the flag, then the signal, then the join, after which  *)
(* the listening socket is closed and clients not yet accepted with it.    *)
StopFlag == shutdown' = TRUE

(* Setting the flag and not waking the thread. *)
StopSilent == itc' = itc

StopSignal == itc' = TRUE

StopJoin ==
    /\ pc = "exited"
    /\ pc' = "none"
    /\ daemon' = FALSE
    /\ cli' = [c \in Conns |-> NoClient] /\ backlog' = <<>>

-----------------------------------------------------------------------------
(* Operations on a connection *)

(* request_completed is called for a request the handler knows of: it     *)
(* frees con_info and clears the pointer to it.                            *)
NotifyCompleted(r) ==
    IF r.aware
    THEN [r EXCEPT !.aware = FALSE, !.ctx = FALSE, !.calls = 0]
    ELSE r

(* A close that forgets to tell the program. *)
CloseQuiet(r) == [Closed EXCEPT !.ctx = r.ctx, !.calls = r.calls]

(* MHD_connection_close_: of a closed connection only what the handler     *)
(* knows of it matters.                                                    *)
Close(r) ==
    NotifyCompleted([Closed EXCEPT !.aware = r.aware, !.ctx = r.ctx,
                                   !.calls = r.calls])

(* The end of a request that was answered: closed, or kept for another,    *)
(* with what has been read already.                                        *)
FinishRequest(r) ==
    LET done == [NotifyCompleted(r) EXCEPT !.resp = FALSE]
    IN  IF ~r.keep \/ r.read_closed
        THEN [Close(done) EXCEPT !.ctx = FALSE]
        ELSE [done EXCEPT !.st = "INIT", !.keep = FALSE, !.ctx = FALSE,
                          !.kind = Fresh.kind]

(* MHD_connection_update_event_loop_info: what select waits for. *)
Wants(st) ==
    CASE st \in {"INIT", "CONTINUE_SENT"} -> "READ"
      [] st \in {"HEADERS_SENDING", "BODY_READY"} -> "WRITE"
      [] st = "CLOSED" -> "CLEANUP"
      [] OTHER -> "BLOCK"

Readable(c) == cli[c].inbox # <<>> \/ cli[c].sock = "shut"

-----------------------------------------------------------------------------
(* The polling thread *)

(* MHD_polling_thread: `while (! daemon->shutdown)'. *)
PollingThread ==
    /\ pc = "loop"
    /\ pc' = IF shutdown THEN "closeall" ELSE "select"
    /\ UNCHANGED <<daemonVars, listVars, todo, fast, con, posted, clientVars>>

(* The listening socket is watched below the limit only. *)
Listening == Len(conns) # ConnectionLimit /\ ~at_limit

(* select returns: a signal, a client, data, room to send, or at once when *)
(* a connection has work that waits for nothing. One that was closed after *)
(* its case of handle_idle (transmit_error_response) is in none of the     *)
(* sets and has to wait for another event.                                 *)
Wakes ==
    \/ itc
    \/ Listening /\ backlog # <<>>
    \/ \E i \in DOMAIN conns :
          LET c == conns[i]
          IN  \/ Wants(con[c].st) = "READ" /\ Readable(c)
              \/ Wants(con[c].st) \in {"WRITE", "BLOCK"}

(* MHD_select up to the accept: the flag is looked at again, and the       *)
(* channel emptied only when the round goes on.                            *)
MHD_select ==
    /\ pc = "select" /\ Wakes
    /\ pc' = IF shutdown THEN "loop" ELSE "accept"
    /\ itc' = (itc /\ shutdown)
    /\ UNCHANGED <<daemon, shutdown, at_limit, listVars, todo, fast, con,
                   posted, clientVars>>

(* MHD_accept_connection and internal_add_connection. accept may find      *)
(* nobody, or fail for want of resources; a connection that cannot be      *)
(* allocated is closed.                                                    *)
Accepted ==
    /\ con' = [con EXCEPT ![Head(backlog)] =
                          [Fresh EXCEPT !.calls = con[Head(backlog)].calls]]
    /\ conns' = Append(conns, Head(backlog))
    /\ backlog' = Tail(backlog)
    /\ UNCHANGED <<cli, at_limit>>

Refused ==
    /\ cli' = [cli EXCEPT ![Head(backlog)] = NoClient]
    /\ backlog' = Tail(backlog)
    /\ UNCHANGED <<con, conns, at_limit>>

(* Suspending accept also when no connection is left to end. *)
OutAtFirst ==
    /\ at_limit' = TRUE
    /\ UNCHANGED <<backlog, cli, con, conns>>

OutOfResources ==
    /\ at_limit' = (conns # <<>>)
    /\ UNCHANGED <<backlog, cli, con, conns>>

MHD_accept_connection ==
    /\ pc = "accept"
    /\ \/ /\ Listening /\ backlog # <<>>
          /\ Accepted \/ Refused \/ OutOfResources
       \/ UNCHANGED <<backlog, cli, con, conns, at_limit>>
    /\ pc' = "round" /\ todo' = conns'
    /\ UNCHANGED <<daemon, shutdown, itc, cleanup, fast, posted, requests>>

(* The end of internal_run_from_select: MHD_cleanup_connections frees the  *)
(* closed connections and closes their sockets.                            *)
MHD_cleanup_connections ==
    /\ pc = "round" /\ todo = <<>>
    /\ pc' = "loop"
    /\ cleanup' = {}
    /\ at_limit' = (at_limit /\ cleanup = {})
    /\ cli' = [c \in Conns |-> IF c \in cleanup THEN NoClient ELSE cli[c]]
    /\ UNCHANGED <<daemon, shutdown, itc, conns, todo, fast, con, posted,
                   backlog, requests>>

(* close_all_connections, after the loop. *)
close_all_connections ==
    LET gone == {conns[i] : i \in DOMAIN conns} \cup cleanup
    IN  /\ pc = "closeall"
        /\ pc' = "exited"
        /\ conns' = <<>> /\ cleanup' = {}
        /\ con' = [c \in Conns |-> IF c \in gone THEN Close(con[c])
                                                 ELSE con[c]]
        /\ cli' = [c \in Conns |-> IF c \in gone THEN NoClient ELSE cli[c]]
        /\ at_limit' = (at_limit /\ gone = {})
        /\ UNCHANGED <<daemon, shutdown, itc, todo, fast, posted, backlog,
                       requests>>

-----------------------------------------------------------------------------
(* One connection in a round: call_handlers *)

Cur == Head(todo)

Put(r) == con' = [con EXCEPT ![Cur] = r]

Stays == UNCHANGED <<daemonVars, listVars, backlog, requests>>

(* MHD_connection_handle_read: what has arrived, or the end of it. *)
MHD_connection_handle_read ==
    \/ /\ cli[Cur].inbox # <<>>
       /\ Put([con[Cur] EXCEPT !.buf = @ \o cli[Cur].inbox])
       /\ cli' = [cli EXCEPT ![Cur].inbox = <<>>]
    \/ /\ cli[Cur].sock = "shut"
       /\ Put(Close([con[Cur] EXCEPT !.read_closed = TRUE]))
       /\ UNCHANGED cli

(* MHD_connection_handle_write: some or all of it is sent, or none to a    *)
(* client that has gone.                                                   *)
Sent(r) == IF r.st = "HEADERS_SENDING"
           THEN [r EXCEPT !.st = "BODY_READY"]
           ELSE [r EXCEPT !.st = "FOOTERS_SENT"]

MHD_connection_handle_write ==
    /\ Wants(con[Cur].st) = "WRITE"
    /\ \/ Put(Sent(con[Cur]))
       \/ UNCHANGED con
       \/ cli[Cur].sock = "shut" /\ Put(Close(con[Cur]))
    /\ UNCHANGED cli

(* The handlers in the order the loop's readiness asks for; an error on    *)
(* the socket closes the connection at once. Only a request whose head was *)
(* read at once takes the fast track; for another it is as if nothing      *)
(* could be sent yet.                                                      *)
CallHandlers ==
    /\ pc = "round" /\ todo # <<>>
    /\ \/ /\ Wants(con[Cur].st) = "READ"
          /\ MHD_connection_handle_read
          /\ fast' = IF con[Cur].st = "INIT" THEN 2 ELSE 0
       \/ MHD_connection_handle_write /\ fast' = 0
       \/ /\ cli[Cur].sock = "shut" /\ Put(Close(con[Cur]))
          /\ fast' = 0 /\ UNCHANGED cli
       \/ fast' = 0 /\ UNCHANGED <<con, cli>>
    /\ pc' = "idle"
    /\ Stays /\ UNCHANGED <<todo, posted>>

(* The end of a handle_idle: the fast track writes at once, first the      *)
(* headers and then the body, or the next connection has its turn.         *)
EndIdle(st) ==
    \/ /\ \/ st = "HEADERS_SENDING" /\ fast = 2 /\ fast' = 1
          \/ st = "BODY_READY" /\ fast > 0 /\ fast' = 0
       /\ pc' = "fast" /\ UNCHANGED todo
    \/ /\ ~ (st = "HEADERS_SENDING" /\ fast = 2)
       /\ ~ (st = "BODY_READY" /\ fast > 0)
       /\ pc' = "round" /\ todo' = Tail(todo) /\ fast' = 0

Continues == pc' = "idle" /\ UNCHANGED <<todo, fast>>

FastTrack ==
    /\ pc = "fast"
    /\ MHD_connection_handle_write
    /\ Continues /\ Stays /\ UNCHANGED posted

-----------------------------------------------------------------------------
(* MHD_connection_handle_idle, one action per case *)

In(st) == pc = "idle" /\ con[Cur].st = st

Next1(r) == Head(r.buf)

Took(r) == [r EXCEPT !.buf = Tail(@)]

(* The states in which the connection waits for the network. *)
IdleWaits ==
    /\ pc = "idle"
    /\ \/ con[Cur].st \in {"HEADERS_SENDING", "BODY_READY"}
       \/ con[Cur].st \in {"INIT", "CONTINUE_SENT"}
          /\ con[Cur].buf = <<>>
    /\ EndIdle(con[Cur].st)
    /\ Stays /\ UNCHANGED <<con, posted, cli>>

(* call_connection_handler with answer_to_connection: without con_info it  *)
(* is allocated and nothing else done; with it a signal is emitted.        *)
Called(r) == [r EXCEPT !.aware = TRUE, !.ctx = TRUE, !.calls = @ + 1]

Emits(r) == posted' = IF r.ctx THEN Append(posted, SignalOf(r.kind))
                                ELSE posted

(* INIT to HEADERS_PROCESSED: the headers say whether the connection may   *)
(* be kept and whether a body follows, and the handler is called for the   *)
(* first time.                                                             *)
FirstCall ==
    LET r == con[Cur]
    IN  /\ In("INIT") /\ r.buf # <<>> /\ Next1(r) # "malformed"
        /\ \E keep \in BOOLEAN :
              Put([Called(Took(r)) EXCEPT
                     !.st = IF Next1(r) = "post" THEN "CONTINUE_SENT"
                                                 ELSE "FOOTERS_RECEIVED",
                     !.kind = Next1(r), !.keep = keep])
        /\ Emits(r)
        /\ Continues /\ Stays /\ UNCHANGED cli

(* A first line that cannot be parsed closes the connection; for a header  *)
(* line that cannot be, transmit_error_response is called.                 *)
IdleMalformed ==
    LET r == con[Cur]
    IN  /\ In("INIT") /\ r.buf # <<>> /\ Next1(r) = "malformed"
        /\ \/ Put(Close(r)) /\ Continues
           \/ /\ Put([Took(r) EXCEPT !.st = "FOOTERS_RECEIVED",
                                     !.read_closed = TRUE])
              /\ pc' = "refuse" /\ UNCHANGED <<todo, fast>>
        /\ Stays /\ UNCHANGED <<posted, cli>>

(* CONTINUE_SENT: process_request_body calls with the body. *)
BodyCall ==
    LET r == con[Cur]
    IN  /\ In("CONTINUE_SENT") /\ r.buf # <<>>
        /\ Put(Called(Took(r)))
        /\ Emits(r)
        /\ pc' = "queue" /\ UNCHANGED <<todo, fast>>
        /\ Stays /\ UNCHANGED cli

(* FOOTERS_RECEIVED: the final call. *)
FinalCall ==
    LET r == con[Cur]
    IN  /\ In("FOOTERS_RECEIVED")
        /\ Put(Called(r))
        /\ Emits(r)
        /\ pc' = "queue" /\ UNCHANGED <<todo, fast>>
        /\ Stays /\ UNCHANGED cli

(* Going on to send what a shutdown kept from being queued. *)
QueueBlind ==
    LET r == con[Cur]
    IN  /\ pc = "queue"
        /\ \/ /\ r.st = "CONTINUE_SENT"
              /\ Put(Close(r)) /\ Continues
           \/ /\ r.st = "FOOTERS_RECEIVED"
              /\ Put([r EXCEPT !.resp = ~shutdown, !.st = "HEADERS_SENDING"])
              /\ EndIdle("HEADERS_SENDING")
        /\ Stays /\ UNCHANGED <<posted, cli>>

(* send_page with MHD_queue_response. Before the body has been read it     *)
(* fails and the connection is closed; during a shutdown it does nothing   *)
(* and says it succeeded; else the headers are built, unless there is no   *)
(* memory for them.                                                        *)
MHD_queue_response ==
    LET r == con[Cur]
    IN  /\ pc = "queue"
        /\ \/ /\ r.st = "CONTINUE_SENT"
              /\ Put(Close(r)) /\ Continues
           \/ /\ r.st = "FOOTERS_RECEIVED" /\ shutdown
              /\ UNCHANGED con /\ EndIdle(r.st)
           \/ /\ r.st = "FOOTERS_RECEIVED" /\ ~shutdown
              /\ Put([r EXCEPT !.resp = TRUE, !.st = "HEADERS_SENDING"])
              /\ EndIdle("HEADERS_SENDING")
           \/ /\ r.st = "FOOTERS_RECEIVED" /\ ~shutdown
              /\ Put(Close(r)) /\ Continues
        /\ Stays /\ UNCHANGED <<posted, cli>>

(* The rest of transmit_error_response. During a shutdown there is no      *)
(* response to build headers from: the assertion before it fails, or, when *)
(* assertions are compiled out, the null pointer is followed.              *)
TransmitError ==
    LET r == con[Cur]
    IN  /\ pc = "refuse"
        /\ IF shutdown
           THEN pc' = "crashed" /\ UNCHANGED <<con, todo, fast>>
           ELSE \/ /\ Put([r EXCEPT !.resp = TRUE, !.keep = FALSE,
                                   !.st = "HEADERS_SENDING"])
                   /\ EndIdle("HEADERS_SENDING")
                \/ Put(Close(r)) /\ EndIdle("CLOSED")
        /\ Stays /\ UNCHANGED <<posted, cli>>

(* FOOTERS_SENT: the request is complete. *)
IdleFootersSent ==
    /\ In("FOOTERS_SENT")
    /\ Put(FinishRequest(con[Cur]))
    /\ Continues /\ Stays /\ UNCHANGED <<posted, cli>>

(* Taking the element at place i out of a list. *)
DLL_remove(list, i) ==
    [j \in 1 .. Len(list) - 1 |-> IF j < i THEN list[j] ELSE list[j + 1]]

(* CLOSED: cleanup_connection moves it to the list of closed ones. *)
IdleClosed ==
    /\ In("CLOSED")
    /\ \E i \in DOMAIN conns :
          conns[i] = Cur /\ conns' = DLL_remove(conns, i)
    /\ cleanup' = cleanup \cup {Cur}
    /\ pc' = "round" /\ todo' = Tail(todo) /\ fast' = 0
    /\ UNCHANGED <<daemonVars, con, posted, clientVars>>

-----------------------------------------------------------------------------
(* The clients, and all of the server *)

(* The socket the system hands out: which of the free ones makes no        *)
(* difference.                                                             *)
FreeSocket(c) == c = CHOOSE d \in Conns : cli[d].sock = "none"

(* A request, over a connection that is open or a new one. *)
Ask(c) ==
    /\ requests > 0 /\ requests' = requests - 1
    /\ \E k \in Kinds :
          cli' = [cli EXCEPT ![c] = [sock |-> "open",
                                     out |-> Tail(Split(k)),
                                     inbox |-> Append(@.inbox, k)]]
    /\ \/ /\ cli[c].sock = "none" /\ FreeSocket(c) /\ pc # "none"
          /\ backlog' = Append(backlog, c)
       \/ /\ cli[c].sock = "open" /\ cli[c].out = <<>>
          /\ UNCHANGED backlog

Send(c) ==
    /\ cli[c].out # <<>>
    /\ cli' = [cli EXCEPT ![c].inbox = Append(@, Head(cli[c].out)),
                          ![c].out = Tail(@)]
    /\ UNCHANGED <<backlog, requests>>

Leave(c) ==
    /\ cli[c].sock = "open" /\ \A i \in DOMAIN backlog : backlog[i] # c
    /\ cli' = [cli EXCEPT ![c].sock = "shut", ![c].out = <<>>]
    /\ UNCHANGED <<backlog, requests>>

Client ==
    /\ \E c \in Conns : Ask(c) \/ Send(c) \/ Leave(c)
    /\ pc # "crashed"
    /\ UNCHANGED <<daemonVars, listVars, threadVars, con, posted>>

Thread ==
    \/ PollingThread \/ MHD_select \/ MHD_accept_connection
    \/ MHD_cleanup_connections \/ close_all_connections
    \/ CallHandlers \/ FastTrack
    \/ IdleWaits \/ IdleMalformed
    \/ FirstCall \/ BodyCall \/ FinalCall
    \/ MHD_queue_response \/ TransmitError
    \/ IdleFootersSent \/ IdleClosed
=============================================================================
