----------------------------- MODULE OauthFlow -----------------------------
(***************************************************************************)
(* "Sign in with Google": the main thread's side, googleflow.cc and the    *)
(* handlers of chromeover_login_page.cc, composed with the web server of   *)
(* OauthServer. The server's thread emits signals; Qt queues them and the  *)
(* main thread delivers them in order, a batch at a time: once it has      *)
(* begun it goes on until the queue is empty, also with what is queued     *)
(* meanwhile, before it looks at the user again. Of the login to the site  *)
(* service only the signals finished() and failed() are here: they come at *)
(* any time, in any order and any number of times once a login has begun,  *)
(* which includes all that module Meepo says of them.                      *)
(***************************************************************************)
EXTENDS OauthServer

VARIABLES
    main,      \* the main thread: in its event loop, or inside stop()
    caller,    \* the handler that called stopServer()
    batch,     \* queued signals are being delivered
    http_server_started,  \* GoogleFlow
    tokens,    \* token requests without a reply
    begun,     \* Meepo::start or startGoogle has been called
    finished,  \* ChromeoverLoginPage; when it calls start is Meepo's subject
    page       \* the login page is shown, or has been left

flowVars == <<main, caller, batch, http_server_started, tokens, begun,
              finished, page>>

vars == <<serverVars, flowVars>>

Init ==
    /\ ServerInit
    /\ main = "events" /\ caller = "none" /\ batch = FALSE
    /\ http_server_started = FALSE /\ tokens = 0 /\ begun = FALSE
    /\ finished = FALSE
    /\ page = "login"

Running == pc # "crashed"

(* The user and timers are heard between batches only. *)
Input == main = "events" /\ ~batch /\ Running /\ page = "login"

-----------------------------------------------------------------------------
(* Stopping the server *)

(* The end of stopServer(), and of the handler that called it. *)
Stopped(by) ==
    /\ http_server_started' = FALSE
    /\ main' = "events" /\ caller' = "none"
    /\ page' = IF by = "validatePage" THEN "left" ELSE page

(* stopServer(): OauthServer::stop returns at once without a server, else  *)
(* the flag is set and MHD_stop_daemon goes on below.                      *)
stopServer(by) ==
    IF daemon
    THEN /\ StopFlag
         /\ main' = "signal" /\ caller' = by
         /\ UNCHANGED <<daemon, itc, at_limit, http_server_started, page>>
    ELSE Stopped(by) /\ UNCHANGED daemonVars

SignalThread ==
    /\ main = "signal" /\ Running
    /\ StopSignal /\ main' = "join"
    /\ UNCHANGED <<daemon, shutdown, at_limit, listVars, threadVars, con,
                   posted, clientVars, caller, batch, http_server_started,
                   tokens, begun, finished, page>>

JoinThread ==
    /\ main = "join"
    /\ StopJoin
    /\ Stopped(caller)
    /\ batch' = (batch /\ posted # <<>>)
    /\ UNCHANGED <<shutdown, itc, at_limit, listVars, todo, fast, con, posted,
                   requests, tokens, begun, finished>>

-----------------------------------------------------------------------------
(* What the main thread handles *)

(* The Google button: handleGoogleSigninPart1. *)
handleGoogleSigninPart1 ==
    /\ Input
    /\ IF http_server_started
       THEN UNCHANGED <<daemonVars, pc, http_server_started>>
       ELSE start /\ http_server_started' = TRUE
    /\ UNCHANGED <<listVars, todo, fast, con, posted, clientVars, main,
                   caller, batch, tokens, begun, finished, page>>

(* A queued signal is taken; when its handler returns the batch goes on    *)
(* with what is queued by then.                                            *)
Delivers ==
    /\ main = "events" /\ Running /\ posted # <<>>
    /\ posted' = Tail(posted)
    /\ batch' = (main' # "events" \/ posted' # <<>>)

(* callbackReceived: handleGoogleSigninPart2 asks for a token if the state *)
(* is the one that was sent.                                               *)
handleGoogleSigninPart2 ==
    /\ UNCHANGED main
    /\ Delivers /\ Head(posted) = "callbackReceived"
    /\ tokens' \in {tokens, tokens + 1}
    /\ UNCHANGED <<daemonVars, listVars, threadVars, con, clientVars,
                   caller, http_server_started, begun, finished,
                   page>>

(* authError: handleGoogleSigninError and handleGoogleSigninFail. *)
handleGoogleSigninFail ==
    /\ stopServer("handleGoogleSigninFail")
    /\ Delivers /\ Head(posted) = "authError"
    /\ UNCHANGED <<listVars, threadVars, con, clientVars, tokens, begun,
                   finished>>

(* The token request has a reply, good or not, which is not looked at:     *)
(* handleGoogleSigninFinished calls startGoogle unless a login runs.       *)
handleGoogleSigninFinished ==
    /\ main = "events" /\ Running /\ tokens > 0
    /\ tokens' = tokens - 1
    /\ begun' = TRUE
    /\ UNCHANGED <<serverVars, main, caller, batch, http_server_started,
                   finished, page>>

(* Next: validatePage. Without a result a login begins, unless one runs.   *)
validatePage ==
    /\ Input
    /\ IF finished
       THEN /\ stopServer("validatePage")
            /\ UNCHANGED begun
       ELSE /\ begun' = TRUE
            /\ UNCHANGED <<daemonVars, main, caller, http_server_started,
                           page>>
    /\ UNCHANGED <<listVars, threadVars, con, posted, clientVars, batch,
                   tokens, finished>>

(* A reply to a request of some login has come, and Meepo emits finished() *)
(* or failed(): requests are never cancelled, so also after the page was   *)
(* re-armed or left, and more than once for a login.                       *)
MeepoEmits == main = "events" /\ Running /\ begun /\ UNCHANGED begun

(* handleMeepoFinished calls next(): on the login page by way of its       *)
(* validatePage, on another one the server is no longer concerned.         *)
handleMeepoFinished ==
    /\ MeepoEmits
    /\ finished' = TRUE
    /\ \/ page = "login" /\ stopServer("validatePage")
       \/ /\ page = "left"
          /\ UNCHANGED <<daemonVars, main, caller, http_server_started, page>>
    /\ UNCHANGED <<listVars, threadVars, con, posted, clientVars, batch,
                   tokens>>

(* Stopping the server also when the site service refuses a login. *)
FailedStops ==
    /\ MeepoEmits
    /\ stopServer("handleGoogleSigninFail")
    /\ UNCHANGED <<listVars, threadVars, con, posted, clientVars, batch,
                   tokens, finished>>

(* handleMeepoFailed: without sites the page is finished and the error     *)
(* page follows from a timer; else the user may try again.                 *)
handleMeepoFailed ==
    /\ MeepoEmits
    /\ finished' \in {finished, TRUE}
    /\ UNCHANGED <<serverVars, main, caller, batch, http_server_started,
                   tokens, page>>

-----------------------------------------------------------------------------
MainThread ==
    \/ SignalThread \/ JoinThread
    \/ handleGoogleSigninPart1 \/ handleGoogleSigninPart2
    \/ handleGoogleSigninFail \/ handleGoogleSigninFinished
    \/ validatePage \/ handleMeepoFinished \/ handleMeepoFailed

Server == (Thread \/ Client) /\ UNCHANGED flowVars

Next == MainThread \/ Server

(* Both threads are scheduled; the user, the clients and the network need  *)
(* do nothing.                                                             *)
Fairness ==
    /\ WF_vars(Thread /\ UNCHANGED flowVars)
    /\ WF_vars(SignalThread) /\ WF_vars(JoinThread)
    /\ WF_vars(handleGoogleSigninPart2) /\ WF_vars(handleGoogleSigninFail)

Spec == Init /\ [][Next]_vars /\ Fairness

-----------------------------------------------------------------------------
(* Properties *)

(* What the server promises, refined: see RequestLife. con_info is freed   *)
(* once for every request that got one, the second call that signs in or   *)
(* fails happens once, and nothing of it outlives stop().                  *)
Life == INSTANCE RequestLife WITH
    up <- daemon,
    req <- [c \in Conns |-> CASE con[c].calls = 0 -> "none"
                              [] con[c].calls = 1 -> "begun"
                              [] con[c].calls = 2 -> "answered"
                              [] OTHER -> "answered again"]

KeepsPromise == Life!Spec

(* Accepting is suspended for want of resources only while a connection is *)
(* left whose end lets it go on (daemon.c:3112 and 3268).                  *)
AcceptResumes == at_limit => conns # <<>> \/ cleanup # {}

(* A connection whose headers or body are being sent has the response they *)
(* come from, whatever a stop does meanwhile.                              *)
SendsAResponse ==
    \A i \in DOMAIN conns :
        con[conns[i]].st \in {"HEADERS_SENDING", "BODY_READY", "FOOTERS_SENT"}
        => con[conns[i]].resp

(* An error of an earlier server never stops a later one: when a server    *)
(* starts no error waits to be delivered.                                  *)
NoStaleError ==
    [][~daemon /\ daemon' =>
       \A i \in DOMAIN posted : posted[i] # "authError"]_vars

(* stop(), which the main thread waits for, returns: the polling thread    *)
(* sees the shutdown however it is interrupted, unless the program has     *)
(* ended in transmit_error_response.                                       *)
StopReturns == main # "events" ~> (main = "events" \/ ~Running)
=============================================================================
