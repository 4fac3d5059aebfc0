--------------------------- MODULE OauthFlowProofs ---------------------------
(***************************************************************************)
(* The safety properties of the sign-in, OauthFlow on OauthServer, and     *)
(* that the server implements RequestLife: for any number of connections,  *)
(* any limit and any number of requests.                                   *)
(***************************************************************************)
EXTENDS OauthFlow, TLAPS

On(c, list) == \E i \in DOMAIN list : list[i] = c

Distinct(list) == \A i, j \in DOMAIN list : list[i] = list[j] => i = j

Sending == {"HEADERS_SENDING", "BODY_READY", "FOOTERS_SENT"}

States == {"INIT", "CONTINUE_SENT", "FOOTERS_RECEIVED", "CLOSED"} \cup Sending

Pieces == Kinds \cup {"body"}

Connection ==
  [st : States, aware : BOOLEAN, ctx : BOOLEAN, resp : BOOLEAN, keep : BOOLEAN,
   read_closed : BOOLEAN, buf : Seq(Pieces), kind : Pieces, calls : Nat]

Peer ==
  [sock : {"none", "open", "shut"}, out : Seq(Pieces), inbox : Seq(Pieces)]

\* The types of the variables the proofs are about.
TypeInv ==
  /\ conns \in Seq(Conns) /\ todo \in Seq(Conns) /\ backlog \in Seq(Conns)
  /\ cleanup \subseteq Conns
  /\ con \in [Conns -> Connection]
  /\ cli \in [Conns -> Peer]
  /\ posted \in Seq({"callbackReceived", "authError"})

\* A socket is in one list at most and there only once, and is nobody else's
\* meanwhile; call_handlers is called for connections of the list, each once.
ListInv ==
  /\ Distinct(conns) /\ Distinct(todo) /\ Distinct(backlog)
  /\ \A c \in Conns : On(c, conns) => c \notin cleanup /\ ~On(c, backlog)
  /\ \A c \in cleanup : ~On(c, backlog)
  /\ \A c \in Conns :
       On(c, conns) \/ c \in cleanup \/ On(c, backlog) => cli[c].sock # "none"
  /\ \A c \in Conns : On(c, todo) => On(c, conns)

\* Where the thread is, and what that says of the connection it is at.
ThreadInv ==
  /\ pc # "none" => daemon
  /\ pc \in {"exited", "none"} => conns = <<>> /\ cleanup = {}
  /\ pc \in {"none", "loop", "select", "accept", "closeall", "exited"} => todo = <<>>
  /\ pc \in {"idle", "fast", "queue", "refuse"} => todo # <<>>
  /\ pc = "queue" => /\ con[Cur].st \in {"CONTINUE_SENT", "FOOTERS_RECEIVED"}
                     /\ con[Cur].calls = 2
  /\ pc = "refuse" => con[Cur].st = "FOOTERS_RECEIVED" /\ con[Cur].calls = 0

\* A request that was answered while the server was being stopped: it has no
\* response and is not looked at again before everything is closed.
Stranded(c) ==
  shutdown /\ ~On(c, todo) /\ pc \notin {"select", "accept"}

\* How often the handler has been called, by the state of the connection.
CallInv(c) ==
  LET r == con[c]
  IN  /\ ~On(c, conns) => r.st = "CLOSED"
      /\ r.aware <=> r.calls # 0
      /\ r.st \in {"INIT", "CLOSED"} => r.calls = 0
      /\ r.st = "CONTINUE_SENT" =>
           r.calls = 1 \/ (r.calls = 2 /\ pc = "queue" /\ c = Cur)
      /\ r.st = "FOOTERS_RECEIVED" =>
           \/ r.calls = 1
           \/ r.calls = 2 /\ ((pc = "queue" /\ c = Cur) \/ Stranded(c))
           \/ r.calls = 0 /\ ((pc = "refuse" /\ c = Cur) \/ pc = "crashed")
      /\ r.st \in Sending => r.calls \in {0, 2} /\ r.resp

CallsInv == \A c \in Conns : CallInv(c)

\* Who waits for the server's end, and what becomes of the signals that are
\* still queued then: they are delivered in the batch that is going on, or the
\* page is left and no server is started any more.
FlowInv ==
  /\ main # "events" =>
       \/ caller = "validatePage"
       \/ caller = "handleGoogleSigninFail" /\ batch
  /\ ~daemon /\ On("authError", posted) => batch \/ page = "left"

ServerInv == TypeInv /\ ListInv /\ ThreadInv /\ CallsInv

-----------------------------------------------------------------------------
(* Lists                                                                   *)

\* A new element at the end.
LEMMA AppendOn ==
  ASSUME NEW S, NEW s \in Seq(S), NEW x \in S
  PROVE  /\ Append(s, x) \in Seq(S)
         /\ \A c : On(c, Append(s, x)) <=> On(c, s) \/ c = x
         /\ Distinct(s) /\ ~On(x, s) => Distinct(Append(s, x))
<1>1. /\ Append(s, x) \in Seq(S) /\ Len(Append(s, x)) = Len(s) + 1
      /\ DOMAIN Append(s, x) = 1 .. Len(s) + 1 /\ DOMAIN s = 1 .. Len(s)
      /\ Len(s) \in Nat
  OBVIOUS
<1>2. /\ \A i \in 1 .. Len(s) : Append(s, x)[i] = s[i]
      /\ Append(s, x)[Len(s) + 1] = x
  OBVIOUS
<1>3. ASSUME NEW c PROVE On(c, Append(s, x)) <=> On(c, s) \/ c = x
  BY <1>1, <1>2 DEF On
<1>4. ASSUME Distinct(s), ~On(x, s) PROVE Distinct(Append(s, x))
  BY <1>1, <1>2, <1>4 DEF On, Distinct
<1> QED
  BY <1>1, <1>3, <1>4

\* Without the first element.
LEMMA TailOn ==
  ASSUME NEW S, NEW s \in Seq(S), s # <<>>
  PROVE  /\ Head(s) \in S /\ On(Head(s), s)
         /\ Tail(s) \in Seq(S)
         /\ \A c : On(c, Tail(s)) => On(c, s)
         /\ \A c : On(c, s) => c = Head(s) \/ On(c, Tail(s))
         /\ Distinct(s) => Distinct(Tail(s)) /\ ~On(Head(s), Tail(s))
<1>1. /\ Len(s) \in Nat \ {0} /\ DOMAIN s = 1 .. Len(s) /\ Head(s) = s[1]
      /\ Tail(s) \in Seq(S) /\ DOMAIN Tail(s) = 1 .. Len(s) - 1
      /\ \A i \in 1 .. Len(s) - 1 : Tail(s)[i] = s[i + 1]
  OBVIOUS
<1>2. Head(s) \in S /\ On(Head(s), s)
  BY <1>1 DEF On
<1>3. ASSUME NEW c PROVE On(c, Tail(s)) => On(c, s)
  BY <1>1 DEF On
<1>4. ASSUME NEW c, On(c, s) PROVE c = Head(s) \/ On(c, Tail(s))
  <2>1. PICK i \in 1 .. Len(s) : s[i] = c
    BY <1>1, <1>4 DEF On
  <2>2. CASE i = 1
    BY <1>1, <2>1, <2>2
  <2>3. CASE i # 1
    <3>1. i - 1 \in 1 .. Len(s) - 1 /\ Tail(s)[i - 1] = s[i]
      BY <1>1, <2>1, <2>3
    <3> QED
      BY <1>1, <2>1, <3>1 DEF On
  <2> QED
    BY <2>2, <2>3
<1>5. ASSUME Distinct(s) PROVE Distinct(Tail(s)) /\ ~On(Head(s), Tail(s))
  <2>1. \A i \in 1 .. Len(s) - 1 : i + 1 \in 1 .. Len(s) /\ i + 1 # 1
    BY <1>1
  <2> QED
    BY <1>1, <1>5, <2>1 DEF Distinct, On
<1> QED
  BY <1>1, <1>2, <1>3, <1>4, <1>5

\* Without the element at a place.
LEMMA RemoveOn ==
  ASSUME NEW S, NEW s \in Seq(S), NEW k \in DOMAIN s, Distinct(s)
  PROVE  /\ DLL_remove(s, k) \in Seq(S) /\ Distinct(DLL_remove(s, k))
         /\ \A c : On(c, DLL_remove(s, k)) <=> On(c, s) /\ c # s[k]
<1> DEFINE t == DLL_remove(s, k)
<1>1. Len(s) \in Nat \ {0} /\ DOMAIN s = 1 .. Len(s) /\ k \in 1 .. Len(s)
  OBVIOUS
<1>2. /\ DOMAIN t = 1 .. Len(s) - 1
      /\ \A j \in 1 .. Len(s) - 1 : t[j] = IF j < k THEN s[j] ELSE s[j + 1]
  BY <1>1 DEF DLL_remove
<1>3. t \in Seq(S)
  <2>1. Len(s) - 1 \in Nat /\ \A j \in 1 .. Len(s) - 1 : t[j] \in S
    BY <1>1, <1>2
  <2> QED
    BY <1>1, <2>1 DEF DLL_remove
<1>4. Distinct(t)
  <2> DEFINE at(j) == IF j < k THEN j ELSE j + 1
  <2>1. \A j \in 1 .. Len(s) - 1 : at(j) \in 1 .. Len(s) /\ t[j] = s[at(j)]
    BY <1>1, <1>2
  <2>2. \A i, j \in 1 .. Len(s) - 1 : at(i) = at(j) => i = j
    BY <1>1
  <2> HIDE DEF at, t
  <2> QED
    BY <1>1, <1>2, <2>1, <2>2 DEF Distinct
<1>5. ASSUME NEW c, On(c, t) PROVE On(c, s) /\ c # s[k]
  BY <1>1, <1>2, <1>5 DEF On, Distinct
<1>6. ASSUME NEW c, On(c, s), c # s[k] PROVE On(c, t)
  <2>1. PICK i \in 1 .. Len(s) : s[i] = c
    BY <1>1, <1>6 DEF On
  <2>2. CASE i < k
    BY <1>1, <1>2, <2>1, <2>2 DEF On
  <2>3. CASE i > k
    <3>1. i - 1 \in 1 .. Len(s) - 1 /\ t[i - 1] = s[i]
      BY <1>1, <1>2, <2>1, <2>3
    <3> QED
      BY <1>2, <2>1, <3>1 DEF On
  <2> QED
    BY <1>1, <1>6, <2>1, <2>2, <2>3
<1> QED
  BY <1>3, <1>4, <1>5, <1>6

\* Nothing is on the empty list.
LEMMA EmptyOn == Distinct(<<>>) /\ \A c : ~On(c, <<>>)
  BY DEF Distinct, On

-----------------------------------------------------------------------------
(* Operations on a connection                                              *)

\* A new and a closed connection.
LEMMA FreshFacts ==
  /\ Fresh \in Connection /\ Closed \in Connection
  /\ Fresh.st = "INIT" /\ ~Fresh.aware /\ Fresh.calls = 0
  /\ Closed.st = "CLOSED" /\ ~Closed.aware /\ Closed.calls = 0
<1>1. <<>> \in Seq(Pieces)
  OBVIOUS
<1>2. Fresh \in Connection
  BY <1>1 DEF Fresh, Connection, States, Pieces, Kinds
<1>3. Closed \in Connection
  BY <1>2 DEF Closed, Connection, States
<1> QED
  BY <1>2, <1>3 DEF Fresh, Closed

\* The program is told: it no longer knows of the request.
LEMMA NotifyFacts ==
  ASSUME NEW r \in Connection, r.aware <=> r.calls # 0
  PROVE  /\ NotifyCompleted(r) \in Connection
         /\ ~NotifyCompleted(r).aware /\ NotifyCompleted(r).calls = 0
         /\ NotifyCompleted(r).st = r.st
<1>1. CASE r.aware
  BY <1>1 DEF NotifyCompleted, Connection
<1>2. CASE ~r.aware
  BY <1>2 DEF NotifyCompleted, Connection
<1> QED
  BY <1>1, <1>2

\* A closed connection is one the handler no longer knows of.
LEMMA CloseFacts ==
  ASSUME NEW r \in Connection, r.aware <=> r.calls # 0
  PROVE  /\ Close(r) \in Connection
         /\ Close(r).st = "CLOSED" /\ ~Close(r).aware /\ Close(r).calls = 0
<1> DEFINE q == [Closed EXCEPT !.aware = r.aware, !.ctx = r.ctx, !.calls = r.calls]
<1>1. /\ q \in Connection /\ q.st = "CLOSED"
      /\ q.aware = r.aware /\ q.calls = r.calls
  BY FreshFacts DEF Connection
<1> HIDE DEF q
<1>2. Close(r) = NotifyCompleted(q)
  BY DEF Close, q
<1> QED
  BY <1>1, <1>2, NotifyFacts

\* The end of a request: the handler no longer knows of it.
LEMMA FinishFacts ==
  ASSUME NEW r \in Connection, r.aware <=> r.calls # 0
  PROVE  /\ FinishRequest(r) \in Connection
         /\ FinishRequest(r).st \in {"INIT", "CLOSED"}
         /\ ~FinishRequest(r).aware /\ FinishRequest(r).calls = 0
<1> DEFINE done == [NotifyCompleted(r) EXCEPT !.resp = FALSE]
           closed == [Close(done) EXCEPT !.ctx = FALSE]
           kept == [done EXCEPT !.st = "INIT", !.keep = FALSE, !.ctx = FALSE,
                                !.kind = Fresh.kind]
<1>1. done \in Connection /\ ~done.aware /\ done.calls = 0
  BY NotifyFacts DEF Connection
<1>2. closed \in Connection /\ closed.st = "CLOSED" /\ ~closed.aware /\ closed.calls = 0
  <2> HIDE DEF done
  <2>1. /\ Close(done) \in Connection
        /\ Close(done).st = "CLOSED" /\ ~Close(done).aware /\ Close(done).calls = 0
    BY <1>1, CloseFacts
  <2> QED
    BY <2>1 DEF Connection
<1>3. kept \in Connection /\ kept.st = "INIT" /\ ~kept.aware /\ kept.calls = 0
  <2> HIDE DEF done
  <2> QED
    BY <1>1, FreshFacts DEF Connection, States
<1>4. FinishRequest(r) = IF ~r.keep \/ r.read_closed THEN closed ELSE kept
  BY DEF FinishRequest
<1> HIDE DEF closed, kept
<1> QED
  BY <1>2, <1>3, <1>4

-----------------------------------------------------------------------------
(* A step of call_handlers: the connection whose turn it is becomes r      *)

InRound == {"round", "idle", "fast", "queue", "refuse"}

\* How far the handler's calls go in one step.
Counted(old, r) ==
  \/ r.calls = old \/ r.calls = 0
  \/ old = 0 /\ r.calls = 1
  \/ old = 1 /\ r.calls = 2

\* What a step leaves of the connection and of the thread.
Left(r) ==
  /\ r.aware <=> r.calls # 0
  /\ r.st \in {"INIT", "CLOSED"} => r.calls = 0
  /\ r.st = "CONTINUE_SENT" => r.calls = 1 \/ (r.calls = 2 /\ pc' = "queue")
  /\ r.st = "FOOTERS_RECEIVED" =>
       \/ r.calls = 1
       \/ r.calls = 2 /\ (pc' = "queue" \/ (shutdown /\ todo' = Tail(todo)))
       \/ r.calls = 0 /\ pc' \in {"refuse", "crashed"}
  /\ r.st \in Sending => r.calls \in {0, 2} /\ r.resp
  /\ pc' = "queue" => r.st \in {"CONTINUE_SENT", "FOOTERS_RECEIVED"} /\ r.calls = 2
  /\ pc' = "refuse" => r.st = "FOOTERS_RECEIVED" /\ r.calls = 0

\* What no such step touches.
Around ==
  /\ pc \in InRound /\ todo # <<>>
  /\ UNCHANGED <<daemonVars, listVars, backlog>>
  /\ cli' \in [Conns -> Peer] /\ \A c \in Conns : cli'[c].sock = cli[c].sock
  /\ posted' \in Seq({"callbackReceived", "authError"})
  /\ \/ pc' \in {"idle", "fast", "queue", "refuse", "crashed"} /\ todo' = todo
     \/ pc' = "round" /\ todo' = Tail(todo)

Turn(r) ==
  /\ Around /\ Left(r) /\ Counted(con[Cur].calls, r)
  /\ r \in Connection /\ con' = [con EXCEPT ![Cur] = r]

\* The connection whose turn it is.
LEMMA CurFacts ==
  ASSUME ServerInv, pc \in InRound, todo # <<>>
  PROVE  /\ Cur \in Conns /\ On(Cur, conns) /\ On(Cur, todo)
         /\ con[Cur] \in Connection /\ cli[Cur] \in Peer
         /\ con[Cur].aware <=> con[Cur].calls # 0
         /\ CallInv(Cur)
<1>1. Cur \in Conns /\ On(Cur, todo)
  BY TailOn DEF ServerInv, TypeInv, Cur
<1>2. CallInv(Cur)
  BY <1>1 DEF ServerInv, CallsInv
<1> QED
  BY <1>1, <1>2 DEF ServerInv, TypeInv, ListInv, CallInv

\* Such a step preserves the server's invariant.
LEMMA TurnKeeps ==
  ASSUME ServerInv, NEW r, Turn(r)
  PROVE  ServerInv'
<1> USE DEF Turn, Around, daemonVars, listVars
<1>1. Cur \in Conns /\ On(Cur, conns)
  BY CurFacts
<1>2. /\ Tail(todo) \in Seq(Conns) /\ Distinct(Tail(todo)) /\ ~On(Cur, Tail(todo))
      /\ \A c : On(c, Tail(todo)) => On(c, todo)
  BY TailOn DEF ServerInv, TypeInv, ListInv, Cur
<1>3. TypeInv'
  BY <1>1, <1>2 DEF ServerInv, TypeInv
<1>4. ListInv'
  BY <1>2 DEF ServerInv, ListInv
<1>5. con'[Cur] = r /\ \A c \in Conns \ {Cur} : con'[c] = con[c]
  BY <1>1 DEF ServerInv, TypeInv
<1>6. todo' = todo => Cur' = Cur
  BY DEF Cur
<1>7. ThreadInv'
  <2>1. daemon' /\ pc' \notin {"exited", "none", "loop", "select", "accept", "closeall"}
    BY DEF ServerInv, ThreadInv, InRound
  <2>2. pc' \in {"idle", "fast", "queue", "refuse"} => todo' = todo /\ Cur' = Cur
    BY <1>6
  <2>3. pc' = "queue" => /\ con'[Cur'].st \in {"CONTINUE_SENT", "FOOTERS_RECEIVED"}
                         /\ con'[Cur'].calls = 2
    BY <1>5, <2>2 DEF Left
  <2>4. pc' = "refuse" => con'[Cur'].st = "FOOTERS_RECEIVED" /\ con'[Cur'].calls = 0
    BY <1>5, <2>2 DEF Left
  <2> QED
    BY <2>1, <2>2, <2>3, <2>4 DEF ThreadInv
<1>8. ASSUME NEW c \in Conns, c # Cur PROVE CallInv(c)'
  <2>1. CallInv(c)
    BY DEF ServerInv, CallsInv
  <2>2. Stranded(c) => Stranded(c)'
    BY <1>2 DEF Stranded
  <2>3. pc # "crashed"
    BY DEF InRound
  <2> QED
    BY <1>5, <1>8, <2>1, <2>2, <2>3 DEF CallInv
<1>9. ASSUME NEW c \in Conns, c = Cur PROVE CallInv(c)'
  <2>1. Left(r) /\ con'[c] = r /\ On(c, conns')
    BY <1>1, <1>5, <1>9
  <2>2. shutdown /\ todo' = Tail(todo) => Stranded(c)' \/ todo' = todo
    BY <1>2, <1>9 DEF Stranded
  <2>3. pc' = "queue" => c = Cur'
    BY <1>6, <1>9
  <2>4. pc' = "refuse" => c = Cur'
    BY <1>6, <1>9
  <2>5. todo # Tail(todo)
    BY <1>2, TailOn DEF ServerInv, TypeInv, Cur
  <2> QED
    BY <2>1, <2>2, <2>3, <2>4, <2>5 DEF Left, CallInv
<1>10. CallsInv'
  BY <1>8, <1>9 DEF CallsInv
<1> QED
  BY <1>3, <1>4, <1>7, <1>10 DEF ServerInv

\* A connection that is left as it is.
LEMMA SameConnection ==
  ASSUME ServerInv, pc \in InRound, todo # <<>>, UNCHANGED con
  PROVE  con' = [con EXCEPT ![Cur] = con[Cur]]
  BY CurFacts DEF ServerInv, TypeInv

\* The end of a handle_idle and the case that goes on with it.
LEMMA EndIdleFacts ==
  ASSUME NEW st, EndIdle(st) \/ Continues
  PROVE  \/ pc' \in {"idle", "fast"} /\ todo' = todo
         \/ pc' = "round" /\ todo' = Tail(todo)
  BY DEF EndIdle, Continues

\* What is sent has been answered, and what cannot be sent is closed.
LEMMA WriteFacts ==
  ASSUME ServerInv, pc \in InRound, todo # <<>>, MHD_connection_handle_write,
         pc' = "idle"
  PROVE  \E r \in Connection :
           /\ con' = [con EXCEPT ![Cur] = r]
           /\ Left(r) /\ r.calls \in {0, con[Cur].calls}
<1> DEFINE r0 == con[Cur]
<1>1. /\ r0 \in Connection /\ (r0.aware <=> r0.calls # 0)
      /\ r0.st \in {"HEADERS_SENDING", "BODY_READY"}
      /\ r0.calls \in {0, 2} /\ r0.resp
  <2>1. Wants(r0.st) = "WRITE" /\ r0.st \in States
    BY CurFacts DEF MHD_connection_handle_write, Connection
  <2>2. r0.st \in {"HEADERS_SENDING", "BODY_READY"}
    BY <2>1 DEF Wants
  <2> QED
    BY <2>2, CurFacts DEF CallInv, Sending
<1>2. CASE Put(Sent(r0))
  <2>1. /\ Sent(r0) \in Connection /\ Sent(r0).st \in {"BODY_READY", "FOOTERS_SENT"}
        /\ Sent(r0).aware = r0.aware /\ Sent(r0).calls = r0.calls
        /\ Sent(r0).resp = r0.resp
    BY <1>1 DEF Sent, Connection, States, Sending
  <2> QED
    BY <1>1, <1>2, <2>1 DEF Put, Left, Sending
<1>3. CASE UNCHANGED con
  BY <1>1, <1>3, SameConnection DEF Left, Sending
<1>4. CASE Put(Close(r0))
  BY <1>1, <1>4, CloseFacts DEF Put, Left, Sending
<1> QED
  BY <1>2, <1>3, <1>4 DEF MHD_connection_handle_write

\* call_handlers: reading, writing or closing.
LEMMA CallHandlersTurn ==
  ASSUME ServerInv, CallHandlers PROVE \E r : Turn(r)
<1> USE DEF CallHandlers, Stays, daemonVars, listVars, InRound
<1> DEFINE r0 == con[Cur]
<1>1. /\ Cur \in Conns /\ r0 \in Connection /\ (r0.aware <=> r0.calls # 0)
      /\ cli[Cur] \in Peer /\ CallInv(Cur) /\ On(Cur, todo)
  BY CurFacts
<1>2. ASSUME cli' \in [Conns -> Peer] /\ \A c \in Conns : cli'[c].sock = cli[c].sock
      PROVE  Around
  BY <1>2 DEF Around, ServerInv, TypeInv
<1>3. cli' = cli => Around
  BY <1>2 DEF ServerInv, TypeInv
<1>4. Left(r0)
  BY <1>1 DEF CallInv, Left, Stranded
<1>5. CASE cli[Cur].inbox # <<>> /\ Put([r0 EXCEPT !.buf = @ \o cli[Cur].inbox])
           /\ cli' = [cli EXCEPT ![Cur].inbox = <<>>]
  <2> DEFINE r == [r0 EXCEPT !.buf = @ \o cli[Cur].inbox]
  <2>1. r0.buf \o cli[Cur].inbox \in Seq(Pieces)
    <3>1. cli[Cur].inbox \in Seq(Pieces) /\ r0.buf \in Seq(Pieces)
      BY <1>1 DEF Peer, Connection
    <3> QED
      BY <3>1
  <2>2. /\ r \in Connection /\ r.st = r0.st /\ r.aware = r0.aware
        /\ r.calls = r0.calls /\ r.resp = r0.resp
    BY <1>1, <2>1 DEF Connection
  <2>3. Around
    <3> DEFINE p == [cli[Cur] EXCEPT !.inbox = <<>>]
    <3>0. <<>> \in Seq(Pieces)
      OBVIOUS
    <3>1. p \in Peer /\ p.sock = cli[Cur].sock
      BY <1>1, <3>0 DEF Peer
    <3>2. cli' = [cli EXCEPT ![Cur] = p]
      BY <1>5
    <3> HIDE DEF p
    <3> QED
      BY <1>1, <1>2, <3>1, <3>2 DEF ServerInv, TypeInv
  <2> HIDE DEF r
  <2>4. Left(r)
    BY <1>4, <2>2 DEF Left
  <2>5. con' = [con EXCEPT ![Cur] = r]
    BY <1>5 DEF Put, r
  <2> QED
    BY <2>2, <2>3, <2>4, <2>5 DEF Turn, Counted
<1>6. CASE Put(Close([r0 EXCEPT !.read_closed = TRUE])) /\ UNCHANGED cli
  <2> DEFINE q == [r0 EXCEPT !.read_closed = TRUE]
  <2>1. q \in Connection /\ (q.aware <=> q.calls # 0)
    BY <1>1 DEF Connection
  <2>2. con' = [con EXCEPT ![Cur] = Close(q)]
    BY <1>6 DEF Put
  <2> HIDE DEF q
  <2> QED
    BY <1>3, <1>6, <2>1, <2>2, CloseFacts DEF Turn, Left, Counted, Sending
<1>7. CASE MHD_connection_handle_write
  <2>1. Around
    BY <1>3, <1>7 DEF MHD_connection_handle_write
  <2> QED
    BY <1>7, <2>1, WriteFacts DEF Turn, Counted
<1>8. CASE Put(Close(r0)) /\ UNCHANGED cli
  BY <1>1, <1>3, <1>8, CloseFacts DEF Put, Turn, Left, Counted, Sending
<1>9. CASE UNCHANGED <<con, cli>>
  BY <1>1, <1>3, <1>4, <1>9, SameConnection DEF Turn, Counted
<1> QED
  BY <1>5, <1>6, <1>7, <1>8, <1>9 DEF MHD_connection_handle_read

\* The fast track: a write.
LEMMA FastTrackTurn ==
  ASSUME ServerInv, FastTrack PROVE \E r : Turn(r)
<1> USE DEF FastTrack, Stays, Continues, daemonVars, listVars, InRound
<1>1. todo # <<>>
  BY DEF ServerInv, ThreadInv
<1>2. Around
  BY <1>1 DEF Around, ServerInv, TypeInv, MHD_connection_handle_write
<1> QED
  BY <1>1, <1>2, WriteFacts DEF Turn, Counted

\* What holds of the connection in a step of handle_idle that leaves the
\* clients alone.
LEMMA IdleFacts ==
  ASSUME ServerInv, pc \in {"idle", "queue", "refuse"}, Stays, UNCHANGED cli,
         posted' \in Seq({"callbackReceived", "authError"}),
         \/ pc' \in {"idle", "fast", "queue", "refuse", "crashed"} /\ todo' = todo
         \/ pc' = "round" /\ todo' = Tail(todo)
  PROVE  /\ Around /\ pc \in InRound /\ todo # <<>>
         /\ Cur \in Conns /\ con[Cur] \in Connection
         /\ con[Cur].aware <=> con[Cur].calls # 0
         /\ CallInv(Cur) /\ On(Cur, todo)
<1> USE DEF Stays, daemonVars, listVars
<1>1. pc \in InRound /\ todo # <<>>
  BY DEF ServerInv, ThreadInv, InRound
<1>2. Around
  BY <1>1 DEF Around, ServerInv, TypeInv
<1> QED
  BY <1>1, <1>2, CurFacts

\* The signal a call emits, if any.
LEMMA EmitsFacts ==
  ASSUME ServerInv, NEW r, Emits(r)
  PROVE  posted' \in Seq({"callbackReceived", "authError"})
<1>1. SignalOf(r.kind) \in {"callbackReceived", "authError"}
  BY DEF SignalOf
<1>2. posted \in Seq({"callbackReceived", "authError"})
  BY DEF ServerInv, TypeInv
<1> QED
  BY <1>1, <1>2, AppendOn DEF Emits

\* What a call of the handler makes of a connection.
LEMMA CalledFacts ==
  ASSUME NEW r \in Connection
  PROVE  /\ Called(r) \in Connection /\ Called(r).aware
         /\ Called(r).calls = r.calls + 1 /\ Called(r).st = r.st
         /\ Called(r).resp = r.resp
<1>1. r.calls + 1 \in Nat
  BY DEF Connection
<1>2. Called(r) = [r EXCEPT !.aware = TRUE, !.ctx = TRUE, !.calls = r.calls + 1]
  BY DEF Called
<1> QED
  BY <1>1, <1>2 DEF Connection

\* Taking a piece out of the buffer.
LEMMA TookFacts ==
  ASSUME NEW r \in Connection, r.buf # <<>>
  PROVE  /\ Took(r) \in Connection /\ Next1(r) \in Pieces
         /\ Took(r).aware = r.aware /\ Took(r).calls = r.calls
         /\ Took(r).st = r.st /\ Took(r).resp = r.resp
<1>1. r.buf \in Seq(Pieces)
  BY DEF Connection
<1>2. Tail(r.buf) \in Seq(Pieces) /\ Head(r.buf) \in Pieces
  BY <1>1
<1> QED
  BY <1>2 DEF Took, Next1, Connection

\* Waiting for the network.
LEMMA IdleWaitsTurn ==
  ASSUME ServerInv, IdleWaits PROVE \E r : Turn(r)
<1> USE DEF IdleWaits
<1>1. /\ Around /\ pc \in InRound /\ todo # <<>>
      /\ con[Cur] \in Connection /\ CallInv(Cur)
  BY EndIdleFacts, IdleFacts DEF ServerInv, TypeInv
<1>2. Left(con[Cur])
  BY <1>1, EndIdleFacts DEF CallInv, Left, Sending
<1> QED
  BY <1>1, <1>2, SameConnection DEF Turn, Counted

\* The first call.
LEMMA FirstCallTurn ==
  ASSUME ServerInv, FirstCall PROVE \E r : Turn(r)
<1> USE DEF FirstCall, In
<1> DEFINE r0 == con[Cur]
<1>1. /\ Around /\ r0 \in Connection /\ CallInv(Cur)
      /\ r0.calls = 0 /\ r0.buf # <<>> /\ pc' = "idle"
  BY IdleFacts, EmitsFacts DEF Continues, CallInv
<1>2. PICK keep \in BOOLEAN :
        Put([Called(Took(r0)) EXCEPT
               !.st = IF Next1(r0) = "post" THEN "CONTINUE_SENT"
                                            ELSE "FOOTERS_RECEIVED",
               !.kind = Next1(r0), !.keep = keep])
  OBVIOUS
<1> DEFINE q == Called(Took(r0))
           r == [q EXCEPT !.st = IF Next1(r0) = "post" THEN "CONTINUE_SENT"
                                                       ELSE "FOOTERS_RECEIVED",
                          !.kind = Next1(r0), !.keep = keep]
<1>3. q \in Connection /\ q.aware /\ q.calls = 1 /\ Next1(r0) \in Pieces
  BY <1>1, TookFacts, CalledFacts
<1> HIDE DEF q
<1>4. /\ r \in Connection /\ r.aware /\ r.calls = 1
      /\ r.st \in {"CONTINUE_SENT", "FOOTERS_RECEIVED"}
  BY <1>2, <1>3 DEF Connection, States
<1>5. con' = [con EXCEPT ![Cur] = r]
  BY <1>2 DEF Put, q
<1> HIDE DEF r
<1>6. Left(r) /\ Counted(r0.calls, r)
  BY <1>1, <1>4 DEF Left, Counted, Sending
<1> QED
  BY <1>1, <1>4, <1>5, <1>6 DEF Turn

\* The call with the body.
LEMMA BodyCallTurn ==
  ASSUME ServerInv, BodyCall PROVE \E r : Turn(r)
<1> USE DEF BodyCall, In
<1> DEFINE r0 == con[Cur]
           r == Called(Took(r0))
<1>1. /\ Around /\ r0 \in Connection /\ CallInv(Cur)
      /\ r0.calls = 1 /\ r0.st = "CONTINUE_SENT" /\ r0.buf # <<>> /\ pc' = "queue"
  BY IdleFacts, EmitsFacts DEF CallInv
<1>2. r \in Connection /\ r.aware /\ r.calls = 2 /\ r.st = "CONTINUE_SENT"
  BY <1>1, TookFacts, CalledFacts
<1>3. con' = [con EXCEPT ![Cur] = r]
  BY DEF Put
<1> HIDE DEF r
<1>4. Left(r) /\ Counted(r0.calls, r)
  BY <1>1, <1>2 DEF Left, Counted, Sending
<1> QED
  BY <1>1, <1>2, <1>3, <1>4 DEF Turn

\* The final call.
LEMMA FinalCallTurn ==
  ASSUME ServerInv, FinalCall PROVE \E r : Turn(r)
<1> USE DEF FinalCall, In
<1> DEFINE r0 == con[Cur]
           r == Called(r0)
<1>1. /\ Around /\ r0 \in Connection /\ CallInv(Cur) /\ On(Cur, todo)
      /\ r0.st = "FOOTERS_RECEIVED" /\ pc' = "queue"
  BY IdleFacts, EmitsFacts
<1>2. r0.calls = 1
  BY <1>1 DEF CallInv, Stranded
<1>3. r \in Connection /\ r.aware /\ r.calls = 2 /\ r.st = "FOOTERS_RECEIVED"
  BY <1>1, <1>2, CalledFacts
<1>4. con' = [con EXCEPT ![Cur] = r]
  BY DEF Put
<1> HIDE DEF r
<1>5. Left(r) /\ Counted(r0.calls, r)
  BY <1>1, <1>2, <1>3 DEF Left, Counted, Sending
<1> QED
  BY <1>1, <1>3, <1>4, <1>5 DEF Turn

\* A connection that is closed in its turn.
LEMMA CloseTurn ==
  ASSUME ServerInv, Around, Put(Close(con[Cur])),
         pc' \in {"idle", "round"}
  PROVE  \E r : Turn(r)
<1> DEFINE r0 == con[Cur]
           r == Close(r0)
<1>1. r0 \in Connection /\ (r0.aware <=> r0.calls # 0)
  BY CurFacts DEF Around
<1>2. r \in Connection /\ r.st = "CLOSED" /\ ~r.aware /\ r.calls = 0
  BY <1>1, CloseFacts
<1>3. con' = [con EXCEPT ![Cur] = r]
  BY DEF Put
<1> HIDE DEF r
<1>4. Left(r) /\ Counted(r0.calls, r)
  BY <1>2 DEF Left, Counted, Sending
<1> QED
  BY <1>2, <1>3, <1>4 DEF Turn

\* A connection that gets a response in its turn, and goes on to send it.
LEMMA SendTurn ==
  ASSUME ServerInv, Around, NEW r \in Connection,
         con' = [con EXCEPT ![Cur] = r],
         r.st = "HEADERS_SENDING", r.resp,
         r.aware = con[Cur].aware, r.calls = con[Cur].calls, r.calls \in {0, 2},
         pc' \in {"fast", "round"}
  PROVE  \E q : Turn(q)
<1>1. con[Cur].aware <=> con[Cur].calls # 0
  BY CurFacts DEF Around
<1>2. Left(r) /\ Counted(con[Cur].calls, r)
  BY <1>1 DEF Left, Counted, Sending
<1> QED
  BY <1>2 DEF Turn

\* A request that cannot be parsed.
LEMMA IdleMalformedTurn ==
  ASSUME ServerInv, IdleMalformed PROVE \E r : Turn(r)
<1> USE DEF IdleMalformed, In
<1> DEFINE r0 == con[Cur]
<1>1. /\ Around /\ r0 \in Connection /\ (r0.aware <=> r0.calls # 0) /\ CallInv(Cur)
      /\ r0.calls = 0 /\ r0.buf # <<>>
  BY IdleFacts DEF Continues, CallInv, ServerInv, TypeInv
<1>2. CASE Put(Close(r0)) /\ Continues
  BY <1>1, <1>2, CloseTurn DEF Continues
<1>3. CASE /\ Put([Took(r0) EXCEPT !.st = "FOOTERS_RECEIVED", !.read_closed = TRUE])
           /\ pc' = "refuse"
  <2> DEFINE q == Took(r0)
             r == [q EXCEPT !.st = "FOOTERS_RECEIVED", !.read_closed = TRUE]
  <2>1. q \in Connection /\ q.aware = r0.aware /\ q.calls = 0
    BY <1>1, TookFacts
  <2> HIDE DEF q
  <2>2. /\ r \in Connection /\ r.st = "FOOTERS_RECEIVED"
        /\ r.aware = r0.aware /\ r.calls = 0
    BY <2>1 DEF Connection, States
  <2>3. con' = [con EXCEPT ![Cur] = r]
    BY <1>3 DEF Put, q
  <2> HIDE DEF r
  <2>4. Left(r) /\ Counted(r0.calls, r)
    BY <1>1, <1>3, <2>2 DEF Left, Counted, Sending
  <2> QED
    BY <1>1, <2>2, <2>3, <2>4 DEF Turn
<1> QED
  BY <1>2, <1>3

\* The answer, which a shutdown keeps from being queued.
LEMMA QueueTurn ==
  ASSUME ServerInv, MHD_queue_response PROVE \E r : Turn(r)
<1> USE DEF MHD_queue_response
<1> DEFINE r0 == con[Cur]
<1>1. /\ Around /\ r0 \in Connection /\ (r0.aware <=> r0.calls # 0)
      /\ pc \in InRound /\ todo # <<>>
  BY IdleFacts, EndIdleFacts DEF ServerInv, TypeInv
<1>2. r0.calls = 2
  BY DEF ServerInv, ThreadInv
<1>3. CASE Put(Close(r0)) /\ Continues
  BY <1>1, <1>3, CloseTurn DEF Continues
<1>4. CASE /\ r0.st = "FOOTERS_RECEIVED" /\ shutdown
           /\ UNCHANGED con /\ EndIdle(r0.st)
  <2>1. pc' = "round" /\ todo' = Tail(todo)
    BY <1>4 DEF EndIdle
  <2>2. Left(r0) /\ Counted(r0.calls, r0)
    BY <1>1, <1>2, <1>4, <2>1 DEF Left, Counted, Sending
  <2>3. con' = [con EXCEPT ![Cur] = r0]
    BY <1>1, <1>4, SameConnection
  <2> QED
    BY <1>1, <2>2, <2>3 DEF Turn
<1>5. CASE /\ Put([r0 EXCEPT !.resp = TRUE, !.st = "HEADERS_SENDING"])
           /\ EndIdle("HEADERS_SENDING")
  <2> DEFINE r == [r0 EXCEPT !.resp = TRUE, !.st = "HEADERS_SENDING"]
  <2>1. /\ r \in Connection /\ r.st = "HEADERS_SENDING" /\ r.resp
        /\ r.aware = r0.aware /\ r.calls = r0.calls
    BY <1>1 DEF Connection, States, Sending
  <2>2. con' = [con EXCEPT ![Cur] = r] /\ pc' \in {"fast", "round"}
    BY <1>5 DEF Put, EndIdle
  <2> HIDE DEF r
  <2> QED
    BY <1>1, <1>2, <2>1, <2>2, SendTurn
<1> QED
  BY <1>3, <1>4, <1>5

\* The error page for what cannot be parsed.
LEMMA TransmitErrorTurn ==
  ASSUME ServerInv, TransmitError PROVE \E r : Turn(r)
<1> USE DEF TransmitError
<1> DEFINE r0 == con[Cur]
<1>1. /\ Around /\ r0 \in Connection /\ (r0.aware <=> r0.calls # 0)
      /\ pc \in InRound /\ todo # <<>>
  BY IdleFacts, EndIdleFacts DEF ServerInv, TypeInv
<1>2. r0.calls = 0 /\ r0.st = "FOOTERS_RECEIVED"
  BY DEF ServerInv, ThreadInv
<1>3. CASE pc' = "crashed" /\ UNCHANGED con
  <2>1. Left(r0) /\ Counted(r0.calls, r0)
    BY <1>1, <1>2, <1>3 DEF Left, Counted, Sending
  <2>2. con' = [con EXCEPT ![Cur] = r0]
    BY <1>1, <1>3, SameConnection
  <2> QED
    BY <1>1, <2>1, <2>2 DEF Turn
<1>4. CASE /\ Put([r0 EXCEPT !.resp = TRUE, !.keep = FALSE, !.st = "HEADERS_SENDING"])
           /\ EndIdle("HEADERS_SENDING")
  <2> DEFINE r == [r0 EXCEPT !.resp = TRUE, !.keep = FALSE, !.st = "HEADERS_SENDING"]
  <2>1. /\ r \in Connection /\ r.st = "HEADERS_SENDING" /\ r.resp
        /\ r.aware = r0.aware /\ r.calls = r0.calls
    BY <1>1 DEF Connection, States, Sending
  <2>2. con' = [con EXCEPT ![Cur] = r] /\ pc' \in {"fast", "round"}
    BY <1>4 DEF Put, EndIdle
  <2> HIDE DEF r
  <2> QED
    BY <1>1, <1>2, <2>1, <2>2, SendTurn
<1>5. CASE Put(Close(r0)) /\ EndIdle("CLOSED")
  BY <1>1, <1>5, CloseTurn DEF EndIdle
<1> QED
  BY <1>3, <1>4, <1>5

\* The end of a request.
LEMMA FootersSentTurn ==
  ASSUME ServerInv, IdleFootersSent PROVE \E r : Turn(r)
<1> USE DEF IdleFootersSent, In
<1> DEFINE r0 == con[Cur]
           r == FinishRequest(r0)
<1>1. /\ Around /\ r0 \in Connection /\ (r0.aware <=> r0.calls # 0)
      /\ pc' = "idle"
  BY IdleFacts DEF Continues, ServerInv, TypeInv
<1>2. /\ r \in Connection /\ r.st \in {"INIT", "CLOSED"}
      /\ ~r.aware /\ r.calls = 0
  BY <1>1, FinishFacts
<1>3. con' = [con EXCEPT ![Cur] = r]
  BY DEF Put
<1> HIDE DEF r
<1>4. Left(r) /\ Counted(r0.calls, r)
  BY <1>1, <1>2 DEF Left, Counted, Sending
<1> QED
  BY <1>1, <1>2, <1>3, <1>4 DEF Turn

-----------------------------------------------------------------------------
(* The steps of the polling thread between two rounds                      *)

\* Where the thread is about to accept, every call has been answered.
LEMMA NoneStranded ==
  ASSUME ServerInv, pc \in {"select", "accept"}, NEW c \in Conns
  PROVE  /\ con[c].st \in {"CONTINUE_SENT", "FOOTERS_RECEIVED"} => con[c].calls = 1
         /\ CallInv(c)
<1>1. CallInv(c)
  BY DEF ServerInv, CallsInv
<1> QED
  BY <1>1 DEF CallInv, Stranded

\* A socket nobody has.
LEMMA NoClientPeer == NoClient \in Peer /\ NoClient.sock = "none"
<1>1. <<>> \in Seq(Pieces)
  OBVIOUS
<1> QED
  BY <1>1 DEF NoClient, Peer

\* while (! daemon->shutdown)
LEMMA PollingKeeps ==
  ASSUME ServerInv, PollingThread PROVE ServerInv'
<1> USE DEF PollingThread, daemonVars, listVars, clientVars
<1>1. TypeInv' /\ ListInv'
  BY DEF ServerInv, TypeInv, ListInv
<1>2. ThreadInv'
  BY DEF ServerInv, ThreadInv
<1>3. ASSUME NEW c \in Conns PROVE CallInv(c)'
  <2>1. CallInv(c)
    BY DEF ServerInv, CallsInv
  <2> QED
    BY <2>1 DEF CallInv, Stranded
<1> QED
  BY <1>1, <1>2, <1>3 DEF ServerInv, CallsInv

\* select returns.
LEMMA SelectKeeps ==
  ASSUME ServerInv, MHD_select PROVE ServerInv'
<1> USE DEF MHD_select, listVars, clientVars
<1>1. TypeInv' /\ ListInv'
  BY DEF ServerInv, TypeInv, ListInv
<1>2. ThreadInv'
  BY DEF ServerInv, ThreadInv
<1>3. ASSUME NEW c \in Conns PROVE CallInv(c)'
  BY NoneStranded DEF CallInv
<1> QED
  BY <1>1, <1>2, <1>3 DEF ServerInv, CallsInv

\* A client is accepted, refused or left waiting, and the round begins.
LEMMA AcceptKeeps ==
  ASSUME ServerInv, MHD_accept_connection
  PROVE  ServerInv' /\ \A c \in Conns : con'[c].calls = con[c].calls
<1> USE DEF MHD_accept_connection
<1>1. /\ conns \in Seq(Conns) /\ backlog \in Seq(Conns) /\ todo = <<>>
      /\ con \in [Conns -> Connection] /\ cli \in [Conns -> Peer]
      /\ daemon /\ pc' = "round" /\ todo' = conns' /\ UNCHANGED cleanup
      /\ posted' \in Seq({"callbackReceived", "authError"})
  BY DEF ServerInv, TypeInv, ThreadInv
<1>2. CASE UNCHANGED <<backlog, cli, con, conns>>
  <2>1. TypeInv' /\ ListInv' /\ ThreadInv'
    BY <1>1, <1>2 DEF ServerInv, TypeInv, ListInv, ThreadInv
  <2>2. ASSUME NEW c \in Conns PROVE CallInv(c)'
    BY <1>2, NoneStranded DEF CallInv
  <2> QED
    BY <1>2, <2>1, <2>2 DEF ServerInv, CallsInv
<1>3. ASSUME backlog # <<>>
      PROVE  /\ Head(backlog) \in Conns /\ On(Head(backlog), backlog)
             /\ Tail(backlog) \in Seq(Conns) /\ Distinct(Tail(backlog))
             /\ ~On(Head(backlog), Tail(backlog))
             /\ \A c : On(c, Tail(backlog)) => On(c, backlog)
  BY <1>1, <1>3, TailOn DEF ServerInv, ListInv
<1>4. CASE backlog # <<>> /\ Refused
  <2> DEFINE h == Head(backlog)
  <2>1. cli' = [cli EXCEPT ![h] = NoClient] /\ backlog' = Tail(backlog)
        /\ UNCHANGED <<con, conns>>
    BY <1>4 DEF Refused
  <2>2. NoClient \in Peer
    BY NoClientPeer
  <2>3. h \in Conns /\ ~On(h, conns) /\ h \notin cleanup
    BY <1>3, <1>4 DEF ServerInv, ListInv
  <2> HIDE DEF h
  <2>4. \A c \in Conns \ {h} : cli'[c] = cli[c]
    BY <1>1, <2>1
  <2>5. TypeInv'
    BY <1>1, <1>3, <1>4, <2>1, <2>2 DEF ServerInv, TypeInv
  <2>6. ListInv'
    BY <1>1, <1>3, <1>4, <2>1, <2>3, <2>4 DEF ServerInv, ListInv, h
  <2>7. ThreadInv'
    BY <1>1, <2>1 DEF ServerInv, ThreadInv
  <2>8. ASSUME NEW c \in Conns PROVE CallInv(c)'
    BY <2>1, NoneStranded DEF CallInv
  <2> QED
    BY <2>1, <2>5, <2>6, <2>7, <2>8 DEF ServerInv, CallsInv
<1>5. CASE backlog # <<>> /\ Accepted
  <2> DEFINE h == Head(backlog)
             r == [Fresh EXCEPT !.calls = con[h].calls]
  <2>1. /\ con' = [con EXCEPT ![h] = r] /\ conns' = Append(conns, h)
        /\ backlog' = Tail(backlog) /\ cli' = cli
    BY <1>5 DEF Accepted
  <2>2. h \in Conns /\ ~On(h, conns) /\ h \notin cleanup /\ On(h, backlog)
    BY <1>3, <1>5 DEF ServerInv, ListInv
  <2>3. con[h].calls = 0
    BY <2>2, NoneStranded DEF CallInv
  <2>4. /\ r \in Connection /\ r.st = "INIT" /\ ~r.aware /\ r.calls = 0
    BY <2>3, FreshFacts DEF Connection
  <2> HIDE DEF r
  <2>5. con'[h] = r /\ \A c \in Conns \ {h} : con'[c] = con[c]
    BY <1>1, <2>1, <2>2
  <2>6. /\ conns' \in Seq(Conns) /\ Distinct(conns')
        /\ \A c : On(c, conns') <=> On(c, conns) \/ c = h
    BY <1>1, <2>1, <2>2, AppendOn DEF ServerInv, ListInv
  <2>7. /\ backlog' \in Seq(Conns) /\ Distinct(backlog') /\ ~On(h, backlog')
        /\ \A c : On(c, backlog') => On(c, backlog)
    BY <1>3, <1>5, <2>1
  <2> HIDE DEF h
  <2>8. TypeInv'
    BY <1>1, <2>1, <2>2, <2>4, <2>6, <2>7 DEF ServerInv, TypeInv
  <2>9. ListInv'
    BY <1>1, <2>1, <2>2, <2>6, <2>7 DEF ServerInv, ListInv
  <2>10. ThreadInv'
    BY <1>1 DEF ServerInv, ThreadInv
  <2>11. ASSUME NEW c \in Conns, c # h PROVE CallInv(c)'
    BY <2>5, <2>6, <2>11, NoneStranded DEF CallInv
  <2>12. ASSUME NEW c \in Conns, c = h PROVE CallInv(c)'
    BY <2>4, <2>5, <2>6, <2>12 DEF CallInv, Sending
  <2> QED
    BY <2>3, <2>4, <2>5, <2>8, <2>9, <2>10, <2>11, <2>12 DEF ServerInv, CallsInv
<1> QED
  BY <1>2, <1>4, <1>5 DEF OutOfResources

\* The closed connections are freed.
LEMMA CleanupKeeps ==
  ASSUME ServerInv, MHD_cleanup_connections PROVE ServerInv'
<1> USE DEF MHD_cleanup_connections
<1>1. TypeInv'
  BY NoClientPeer DEF ServerInv, TypeInv
<1>2. ListInv'
  BY DEF ServerInv, TypeInv, ListInv
<1>3. ThreadInv'
  BY DEF ServerInv, ThreadInv
<1>4. ASSUME NEW c \in Conns PROVE CallInv(c)'
  <2>1. CallInv(c)
    BY DEF ServerInv, CallsInv
  <2> QED
    BY <2>1 DEF CallInv, Stranded
<1> QED
  BY <1>1, <1>2, <1>3, <1>4 DEF ServerInv, CallsInv

\* After the loop every connection is closed, and every request completed.
LEMMA CloseAllKeeps ==
  ASSUME ServerInv, close_all_connections
  PROVE  ServerInv' /\ \A c \in Conns : con'[c].calls = 0
<1> USE DEF close_all_connections
<1> DEFINE gone == {conns[i] : i \in DOMAIN conns} \cup cleanup
<1>1. /\ con \in [Conns -> Connection] /\ cli \in [Conns -> Peer] /\ todo = <<>>
      /\ daemon /\ todo' = todo /\ backlog' = backlog /\ posted' = posted
      /\ pc' = "exited" /\ conns' = <<>> /\ cleanup' = {} /\ daemon' = daemon
      /\ con' = [c \in Conns |-> IF c \in gone THEN Close(con[c]) ELSE con[c]]
      /\ cli' = [c \in Conns |-> IF c \in gone THEN NoClient ELSE cli[c]]
  BY DEF ServerInv, TypeInv, ThreadInv
<1>2. \A c \in Conns : c \in gone <=> On(c, conns) \/ c \in cleanup
  BY DEF On
<1> HIDE DEF gone
<1>3. ASSUME NEW c \in Conns
      PROVE  /\ con'[c] \in Connection /\ con'[c].st = "CLOSED"
             /\ ~con'[c].aware /\ con'[c].calls = 0
  <2>1. CallInv(c) /\ con[c] \in Connection
    BY <1>1 DEF ServerInv, CallsInv
  <2>2. CASE c \in gone
    BY <1>1, <2>1, <2>2, CloseFacts DEF CallInv
  <2>3. CASE c \notin gone
    BY <1>1, <1>2, <2>1, <2>3 DEF CallInv
  <2> QED
    BY <2>2, <2>3
<1>4. TypeInv'
  BY <1>1, <1>3, NoClientPeer DEF ServerInv, TypeInv
<1>5. ListInv'
  BY <1>1, <1>2, EmptyOn DEF ServerInv, ListInv
<1>6. ThreadInv'
  BY <1>1 DEF ThreadInv
<1>7. CallsInv'
  BY <1>3 DEF CallsInv, CallInv, Sending
<1> QED
  BY <1>3, <1>4, <1>5, <1>6, <1>7 DEF ServerInv

\* A closed connection leaves the list.
LEMMA IdleClosedKeeps ==
  ASSUME ServerInv, IdleClosed PROVE ServerInv' /\ UNCHANGED con
<1> USE DEF IdleClosed, In, daemonVars, clientVars
<1>1. PICK k \in DOMAIN conns : conns[k] = Cur /\ conns' = DLL_remove(conns, k)
  OBVIOUS
<1>2. todo # <<>> /\ daemon
  BY DEF ServerInv, ThreadInv
<1>3. /\ Cur \in Conns /\ On(Cur, conns) /\ con[Cur].st = "CLOSED"
      /\ con[Cur].calls = 0
  BY <1>2, CurFacts DEF InRound, CallInv
<1>4. /\ conns' \in Seq(Conns) /\ Distinct(conns')
      /\ \A c : On(c, conns') <=> On(c, conns) /\ c # Cur
  BY <1>1, RemoveOn DEF ServerInv, TypeInv, ListInv
<1>5. /\ todo' = Tail(todo)
      /\ todo' \in Seq(Conns) /\ Distinct(todo') /\ ~On(Cur, todo')
      /\ \A c : On(c, todo') => On(c, todo)
  BY <1>2, TailOn DEF ServerInv, TypeInv, ListInv, Cur
<1> DEFINE h == Cur
<1>6. cleanup' = cleanup \cup {h}
  OBVIOUS
<1> HIDE DEF h
<1>7. TypeInv'
  BY <1>3, <1>4, <1>5, <1>6 DEF ServerInv, TypeInv, h
<1>8. ListInv'
  BY <1>3, <1>4, <1>5, <1>6 DEF ServerInv, ListInv, h
<1>9. ThreadInv'
  BY <1>2 DEF ThreadInv
<1>10. ASSUME NEW c \in Conns PROVE CallInv(c)'
  <2>1. CallInv(c)
    BY DEF ServerInv, CallsInv
  <2>2. Stranded(c) => Stranded(c)'
    BY <1>5 DEF Stranded
  <2> QED
    BY <1>3, <1>4, <2>1, <2>2 DEF CallInv
<1> QED
  BY <1>7, <1>8, <1>9, <1>10 DEF ServerInv, CallsInv

\* A client asks, sends the rest or leaves.
LEMMA ClientKeeps ==
  ASSUME ServerInv, Client PROVE ServerInv' /\ UNCHANGED con
<1> USE DEF Client, daemonVars, listVars, threadVars
<1>1. PICK d \in Conns : Ask(d) \/ Send(d) \/ Leave(d)
  OBVIOUS
<1>2. /\ backlog \in Seq(Conns) /\ cli \in [Conns -> Peer] /\ cli[d] \in Peer
      /\ cli[d].out \in Seq(Pieces) /\ cli[d].inbox \in Seq(Pieces)
  BY DEF ServerInv, TypeInv, Peer
<1>3. \E p \in Peer : /\ cli' = [cli EXCEPT ![d] = p]
                      /\ p.sock = "none" => cli[d].sock = "none" /\ Send(d)
  <2>1. CASE Ask(d)
    <3>1. PICK k \in Kinds : cli' = [cli EXCEPT ![d] =
                               [sock |-> "open", out |-> Tail(Split(k)),
                                inbox |-> Append(cli[d].inbox, k)]]
      BY <2>1 DEF Ask
    <3>2. Append(cli[d].inbox, k) \in Seq(Pieces)
      BY <1>2 DEF Pieces
    <3>3. Tail(Split(k)) \in Seq(Pieces)
      <4>1. k \in Pieces /\ "body" \in Pieces
        BY DEF Pieces
      <4>2. <<k, "body">> \in Seq(Pieces) /\ <<k>> \in Seq(Pieces)
        BY <4>1
      <4>3. <<k, "body">> # <<>> /\ <<k>> # <<>>
        OBVIOUS
      <4>4. Split(k) \in Seq(Pieces) /\ Split(k) # <<>>
        BY <4>2, <4>3 DEF Split
      <4> QED
        BY <4>4, TailOn
    <3> DEFINE p == [sock |-> "open", out |-> Tail(Split(k)),
                     inbox |-> Append(cli[d].inbox, k)]
    <3>4. p \in Peer /\ p.sock = "open"
      BY <3>2, <3>3 DEF Peer
    <3>5. cli' = [cli EXCEPT ![d] = p]
      BY <3>1
    <3> HIDE DEF p
    <3> QED
      BY <3>4, <3>5
  <2>2. CASE Send(d)
    <3>1. /\ Head(cli[d].out) \in Pieces /\ Tail(cli[d].out) \in Seq(Pieces)
          /\ Append(cli[d].inbox, Head(cli[d].out)) \in Seq(Pieces)
      BY <1>2, <2>2 DEF Send
    <3> DEFINE p == [cli[d] EXCEPT !.inbox = Append(cli[d].inbox, Head(cli[d].out)),
                                   !.out = Tail(cli[d].out)]
    <3>2. p \in Peer /\ p.sock = cli[d].sock
      BY <1>2, <3>1 DEF Peer
    <3>3. cli' = [cli EXCEPT ![d] = p]
      BY <1>2, <2>2 DEF Send
    <3> HIDE DEF p
    <3> QED
      BY <2>2, <3>2, <3>3
  <2>3. CASE Leave(d)
    <3> DEFINE p == [cli[d] EXCEPT !.sock = "shut", !.out = <<>>]
    <3>0. <<>> \in Seq(Pieces)
      OBVIOUS
    <3>1. p \in Peer /\ p.sock = "shut"
      BY <1>2, <3>0 DEF Peer
    <3>2. cli' = [cli EXCEPT ![d] = p]
      BY <1>2, <2>3 DEF Leave
    <3> HIDE DEF p
    <3> QED
      BY <3>1, <3>2
  <2> QED
    BY <1>1, <2>1, <2>2, <2>3
<1>4. PICK p \in Peer : /\ cli' = [cli EXCEPT ![d] = p]
                        /\ p.sock = "none" => cli[d].sock = "none" /\ Send(d)
  BY <1>3
<1>5. cli'[d] = p /\ cli' \in [Conns -> Peer] /\ \A c \in Conns \ {d} : cli'[c] = cli[c]
  BY <1>2, <1>4
<1>6. \/ backlog' = backlog
      \/ backlog' = Append(backlog, d) /\ cli[d].sock = "none" /\ p.sock # "none"
  <2>1. CASE Ask(d)
    <3>1. cli'[d].sock = "open"
      BY <1>2, <2>1 DEF Ask
    <3> QED
      BY <1>5, <2>1, <3>1 DEF Ask
  <2>2. CASE Send(d) \/ Leave(d)
    BY <2>2 DEF Send, Leave
  <2> QED
    BY <1>1, <2>1, <2>2
<1>7. /\ Append(backlog, d) \in Seq(Conns)
      /\ \A c : On(c, Append(backlog, d)) <=> On(c, backlog) \/ c = d
      /\ Distinct(backlog) /\ ~On(d, backlog) => Distinct(Append(backlog, d))
  BY <1>2, AppendOn
<1>8. TypeInv'
  BY <1>5, <1>6, <1>7 DEF ServerInv, TypeInv
<1>9. ListInv'
  <2>1. CASE backlog' = backlog
    BY <1>4, <1>5, <2>1 DEF ServerInv, ListInv
  <2>2. CASE backlog' # backlog
    <3>1. backlog' = Append(backlog, d) /\ cli[d].sock = "none" /\ p.sock # "none"
      BY <1>6, <2>2
    <3>2. ~On(d, conns) /\ d \notin cleanup /\ ~On(d, backlog)
      BY <3>1 DEF ServerInv, ListInv
    <3>3. Distinct(backlog')
      BY <1>7, <3>1, <3>2 DEF ServerInv, ListInv
    <3>4. \A c : On(c, backlog') <=> On(c, backlog) \/ c = d
      BY <1>7, <3>1
    <3> QED
      BY <1>5, <3>1, <3>2, <3>3, <3>4 DEF ServerInv, ListInv, TypeInv
  <2> QED
    BY <2>1, <2>2
<1>10. ThreadInv'
  BY DEF ServerInv, ThreadInv, Cur
<1>11. ASSUME NEW c \in Conns PROVE CallInv(c)'
  <2>1. CallInv(c)
    BY DEF ServerInv, CallsInv
  <2> QED
    BY <2>1 DEF CallInv, Stranded, Cur
<1> QED
  BY <1>8, <1>9, <1>10, <1>11 DEF ServerInv, CallsInv

-----------------------------------------------------------------------------
(* The main thread                                                         *)

\* What the main thread does between start() and stop() leaves the server
\* alone, but for the flag it sets and the signals it takes.
LEMMA QuietKeeps ==
  ASSUME ServerInv, UNCHANGED <<daemon, pc, todo, conns, cleanup, con, backlog, cli>>,
         shutdown => shutdown', posted' \in Seq({"callbackReceived", "authError"})
  PROVE  ServerInv'
<1>1. TypeInv' /\ ListInv'
  BY DEF ServerInv, TypeInv, ListInv
<1>2. ThreadInv'
  BY DEF ServerInv, ThreadInv, Cur
<1>3. ASSUME NEW c \in Conns PROVE CallInv(c)'
  <2>1. CallInv(c)
    BY DEF ServerInv, CallsInv
  <2> QED
    BY <2>1 DEF CallInv, Stranded, Cur
<1> QED
  BY <1>1, <1>2, <1>3 DEF ServerInv, CallsInv

\* No connection is left when no thread runs.
LEMMA NobodyLeft ==
  ASSUME ServerInv, pc \in {"exited", "none"}, NEW c \in Conns
  PROVE  con[c].st = "CLOSED" /\ con[c].calls = 0 /\ ~con[c].aware
<1>1. CallInv(c) /\ ~On(c, conns)
  BY EmptyOn DEF ServerInv, CallsInv, ThreadInv
<1> QED
  BY <1>1 DEF CallInv

\* The Google button.
LEMMA StartKeeps ==
  ASSUME ServerInv, handleGoogleSigninPart1
  PROVE  /\ ServerInv' /\ UNCHANGED con
         /\ daemon' = daemon \/ (~daemon /\ daemon' = TRUE)
<1> USE DEF handleGoogleSigninPart1, listVars, clientVars
<1>1. CASE UNCHANGED <<daemonVars, pc>>
  BY <1>1, QuietKeeps DEF daemonVars, ServerInv, TypeInv
<1>2. CASE ~UNCHANGED <<daemonVars, pc>>
  <2>1. ~daemon /\ daemon' = TRUE /\ pc' = "loop"
    BY <1>2 DEF start
  <2>2. pc = "none"
    BY <2>1 DEF ServerInv, ThreadInv
  <2>3. TypeInv' /\ ListInv'
    BY DEF ServerInv, TypeInv, ListInv
  <2>4. ThreadInv'
    BY <2>1, <2>2 DEF ServerInv, ThreadInv
  <2>5. ASSUME NEW c \in Conns PROVE CallInv(c)'
    BY <2>2, NobodyLeft DEF CallInv, Sending
  <2> QED
    BY <2>1, <2>3, <2>4, <2>5 DEF ServerInv, CallsInv
<1> QED
  BY <1>1, <1>2

\* stop() returns.
LEMMA JoinKeeps ==
  ASSUME ServerInv, JoinThread
  PROVE  ServerInv' /\ UNCHANGED con /\ daemon /\ daemon' = FALSE
<1> USE DEF JoinThread, StopJoin, listVars
<1>1. daemon /\ conns = <<>> /\ cleanup = {} /\ todo = <<>>
  BY DEF ServerInv, ThreadInv
<1>2. <<>> \in Seq(Conns)
  OBVIOUS
<1>3. TypeInv'
  BY <1>2, NoClientPeer DEF ServerInv, TypeInv
<1>4. ListInv'
  BY <1>1, EmptyOn DEF ServerInv, ListInv
<1>5. ThreadInv'
  BY <1>1 DEF ThreadInv
<1>6. ASSUME NEW c \in Conns PROVE CallInv(c)'
  BY NobodyLeft DEF CallInv, Sending
<1> QED
  BY <1>1, <1>3, <1>4, <1>5, <1>6 DEF ServerInv, CallsInv

\* stopServer(), up to the signal.
LEMMA StopFacts ==
  ASSUME NEW by, stopServer(by)
  PROVE  UNCHANGED <<daemon, at_limit>> /\ (shutdown => shutdown')
  BY DEF stopServer, StopFlag, daemonVars

\* Everything the main thread does, but start() and the end of stop(): no
\* request is touched.
Quiet ==
  /\ UNCHANGED <<daemon, at_limit, pc, todo, conns, cleanup, con, backlog, cli>>
  /\ shutdown => shutdown'
  /\ posted' = posted \/ (posted # <<>> /\ posted' = Tail(posted))

\* The main thread's other two steps are start() and the end of stop().
LEMMA MainCases ==
  ASSUME ServerInv, MainThread
  PROVE  Quiet \/ handleGoogleSigninPart1 \/ JoinThread
<1> USE DEF listVars, threadVars, clientVars
<1>1. CASE SignalThread
  BY <1>1 DEF SignalThread, Quiet
<1>2. CASE handleGoogleSigninPart2
  BY <1>2 DEF handleGoogleSigninPart2, Delivers, Quiet, daemonVars
<1>3. CASE handleGoogleSigninFail
  BY <1>3, StopFacts DEF handleGoogleSigninFail, Delivers, Quiet
<1>4. CASE handleGoogleSigninFinished
  BY <1>4 DEF handleGoogleSigninFinished, Quiet, serverVars, daemonVars
<1>5. CASE validatePage
  BY <1>5, StopFacts DEF validatePage, Quiet, daemonVars
<1>6. CASE handleMeepoFinished
  BY <1>6, StopFacts DEF handleMeepoFinished, Quiet, daemonVars
<1>7. CASE handleMeepoFailed
  BY <1>7 DEF handleMeepoFailed, Quiet, serverVars, daemonVars
<1> QED
  BY <1>1, <1>2, <1>3, <1>4, <1>5, <1>6, <1>7 DEF MainThread

\* A quiet step preserves the server's invariant.
LEMMA MainQuietKeeps ==
  ASSUME ServerInv, Quiet PROVE ServerInv'
<1> DEFINE S == {"callbackReceived", "authError"}
<1>1. posted \in Seq(S)
  BY DEF ServerInv, TypeInv
<1>2. posted # <<>> => Tail(posted) \in Seq(S)
  <2> HIDE DEF S
  <2> QED
    BY <1>1, TailOn
<1>3. posted' \in Seq(S)
  BY <1>1, <1>2 DEF Quiet
<1> QED
  BY <1>3, QuietKeeps DEF Quiet

-----------------------------------------------------------------------------
(* All steps                                                               *)

\* What a step is: of the main thread, of a client, of the thread between
\* rounds, or the turn of a connection.
LEMMA StepCases ==
  ASSUME ServerInv, [Next]_vars
  PROVE  \/ UNCHANGED vars
         \/ Quiet \/ handleGoogleSigninPart1 \/ JoinThread
         \/ Client \/ PollingThread \/ MHD_select \/ MHD_accept_connection
         \/ MHD_cleanup_connections \/ close_all_connections \/ IdleClosed
         \/ \E r : Turn(r)
<1>1. CASE CallHandlers \/ FastTrack \/ IdleWaits \/ IdleMalformed
           \/ FirstCall \/ BodyCall \/ FinalCall
  BY <1>1, CallHandlersTurn, FastTrackTurn, IdleWaitsTurn, IdleMalformedTurn,
     FirstCallTurn, BodyCallTurn, FinalCallTurn
<1>2. CASE MHD_queue_response \/ TransmitError \/ IdleFootersSent
  BY <1>2, QueueTurn, TransmitErrorTurn, FootersSentTurn
<1> QED
  BY <1>1, <1>2, MainCases DEF Next, Server, Thread

\* The inductive step of the server's invariant.
LEMMA ServerStep ==
  ASSUME ServerInv, [Next]_vars PROVE ServerInv'
<1>1. CASE UNCHANGED vars
  <2>1. posted' \in Seq({"callbackReceived", "authError"})
    BY <1>1 DEF vars, serverVars, ServerInv, TypeInv
  <2> QED
    BY <1>1, <2>1, QuietKeeps DEF vars, serverVars, daemonVars, listVars,
       threadVars, clientVars
<1>2. CASE Quiet \/ handleGoogleSigninPart1 \/ JoinThread
  BY <1>2, MainQuietKeeps, StartKeeps, JoinKeeps
<1>3. CASE Client \/ PollingThread \/ MHD_select \/ MHD_accept_connection
  BY <1>3, ClientKeeps, PollingKeeps, SelectKeeps, AcceptKeeps
<1>4. CASE MHD_cleanup_connections \/ close_all_connections \/ IdleClosed
  BY <1>4, CleanupKeeps, CloseAllKeeps, IdleClosedKeeps
<1>5. CASE \E r : Turn(r)
  BY <1>5, TurnKeeps
<1> QED
  BY <1>1, <1>2, <1>3, <1>4, <1>5, StepCases

\* The initial states satisfy it.
LEMMA ServerStart ==
  ASSUME Init PROVE ServerInv
<1> USE DEF Init, ServerInit
<1>1. <<>> \in Seq(Conns) /\ <<>> \in Seq({"callbackReceived", "authError"})
  OBVIOUS
<1>2. TypeInv
  BY <1>1, FreshFacts, NoClientPeer DEF TypeInv
<1>3. ListInv
  BY EmptyOn DEF ListInv
<1>4. ThreadInv
  BY DEF ThreadInv
<1>5. ASSUME NEW c \in Conns PROVE CallInv(c)
  BY FreshFacts DEF CallInv, Sending
<1> QED
  BY <1>2, <1>3, <1>4, <1>5 DEF ServerInv, CallsInv

-----------------------------------------------------------------------------
(* The theorems                                                            *)

\* The server's invariant holds of every behaviour: a socket is in one list
\* only, the thread is where the lists say, and the handler has been called as
\* often as the state of the connection says.
THEOREM ServerSafe == Spec => []ServerInv
<1>1. Init => ServerInv
  BY ServerStart
<1>2. ServerInv /\ [Next]_vars => ServerInv'
  BY ServerStep
<1> QED
  BY <1>1, <1>2, PTL DEF Spec

\* A connection whose headers or body are being sent has a response, whatever
\* stop() does between two of the thread's steps (MHD_queue_response returns
\* MHD_YES without queueing anything during a shutdown).
THEOREM AlwaysAResponse == Spec => []SendsAResponse
<1>1. ServerInv => SendsAResponse
  <2> SUFFICES ASSUME ServerInv, NEW i \in DOMAIN conns,
                      con[conns[i]].st \in Sending
               PROVE  con[conns[i]].resp
    BY DEF SendsAResponse, Sending
  <2>1. conns[i] \in Conns
    BY DEF ServerInv, TypeInv
  <2>2. CallInv(conns[i])
    BY <2>1 DEF ServerInv, CallsInv
  <2> QED
    BY <2>2 DEF CallInv
<1> QED
  BY <1>1, ServerSafe, PTL

\* Accepting is never suspended with no connection left whose end resumes it
\* (the daemon's at_limit), so the listening socket is not given up for good.
THEOREM AcceptGoesOn == Spec => []AcceptResumes
<1>1. Init => AcceptResumes
  BY DEF Init, ServerInit, AcceptResumes
<1>2. ServerInv /\ AcceptResumes /\ [Next]_vars => AcceptResumes'
  <2> SUFFICES ASSUME ServerInv, AcceptResumes, [Next]_vars PROVE AcceptResumes'
    OBVIOUS
  <2>1. CASE UNCHANGED <<at_limit, conns, cleanup>>
    BY <2>1 DEF AcceptResumes
  <2>2. CASE handleGoogleSigninPart1
    BY <2>2 DEF handleGoogleSigninPart1, start, listVars, daemonVars, AcceptResumes
  <2>3. CASE MHD_accept_connection
    <3>1. conns # <<>> => conns' # <<>>
      BY <2>3 DEF MHD_accept_connection, Accepted, Refused, OutOfResources,
                  ServerInv, TypeInv
    <3>2. cleanup' = cleanup /\ (at_limit' = at_limit \/ at_limit' = (conns # <<>>))
      BY <2>3 DEF MHD_accept_connection, Accepted, Refused, OutOfResources
    <3> QED
      BY <3>1, <3>2 DEF AcceptResumes
  <2>4. CASE MHD_cleanup_connections
    BY <2>4 DEF MHD_cleanup_connections, AcceptResumes
  <2>5. CASE close_all_connections
    <3>1. conns # <<>> => 1 \in DOMAIN conns
      BY DEF ServerInv, TypeInv
    <3>2. ~at_limit'
      BY <2>5, <3>1 DEF close_all_connections, AcceptResumes
    <3> QED
      BY <3>2 DEF AcceptResumes
  <2>6. CASE IdleClosed
    BY <2>6 DEF IdleClosed, AcceptResumes
  <2>7. CASE \E r : Turn(r)
    BY <2>1, <2>7 DEF Turn, Around, daemonVars, listVars
  <2>8. CASE UNCHANGED vars \/ Client \/ Quiet \/ JoinThread
    BY <2>1, <2>8 DEF vars, serverVars, Client, Quiet, JoinThread, daemonVars, listVars
  <2>9. CASE PollingThread \/ MHD_select
    BY <2>1, <2>9 DEF PollingThread, MHD_select, daemonVars, listVars
  <2> QED
    BY <2>2, <2>3, <2>4, <2>5, <2>6, <2>7, <2>8, <2>9, StepCases
<1> QED
  BY <1>1, <1>2, ServerSafe, PTL DEF Spec

\* What the server's thread and the clients do to the signals: they are emitted
\* by a server that is up.
LEMMA ServerSignals ==
  ASSUME ServerInv, Server
  PROVE  daemon' = daemon /\ (posted' = posted \/ daemon)
<1>1. CASE Client \/ PollingThread \/ MHD_select
  BY <1>1 DEF Client, PollingThread, MHD_select, daemonVars
<1>2. CASE MHD_accept_connection \/ MHD_cleanup_connections
  BY <1>2 DEF MHD_accept_connection, MHD_cleanup_connections
<1>3. CASE close_all_connections \/ IdleClosed
  BY <1>3 DEF close_all_connections, IdleClosed, daemonVars
<1>4. CASE CallHandlers \/ FastTrack \/ IdleWaits \/ IdleMalformed
  BY <1>4 DEF CallHandlers, FastTrack, IdleWaits, IdleMalformed, Stays, daemonVars
<1>5. CASE MHD_queue_response \/ TransmitError \/ IdleFootersSent
  BY <1>5 DEF MHD_queue_response, TransmitError, IdleFootersSent, Stays, daemonVars
<1>6. CASE FirstCall \/ BodyCall \/ FinalCall
  BY <1>6 DEF FirstCall, BodyCall, FinalCall, In, Stays, daemonVars, ServerInv, ThreadInv
<1> QED
  BY <1>1, <1>2, <1>3, <1>4, <1>5, <1>6 DEF Server, Thread

\* The inductive step of the main thread's invariant.
LEMMA FlowStep ==
  ASSUME ServerInv, FlowInv, [Next]_vars PROVE FlowInv'
<1>1. CASE UNCHANGED vars
  BY <1>1 DEF FlowInv, vars, serverVars, flowVars, daemonVars
<1>2. CASE Server
  BY <1>2, ServerSignals DEF Server, flowVars, FlowInv
<1>3. CASE SignalThread
  BY <1>3 DEF SignalThread, FlowInv
<1>4. CASE JoinThread
  <2>1. On("authError", posted) => posted # <<>>
    BY EmptyOn
  <2> QED
    BY <1>4, <2>1 DEF JoinThread, Stopped, FlowInv
<1>5. CASE handleGoogleSigninPart1
  BY <1>5 DEF handleGoogleSigninPart1, Input, start, daemonVars, FlowInv
<1>6. CASE handleGoogleSigninPart2
  <2>1. On("authError", posted') => posted' # <<>>
    BY EmptyOn
  <2> QED
    BY <1>6, <2>1 DEF handleGoogleSigninPart2, Delivers, FlowInv
<1>7. CASE handleGoogleSigninFail
  <2>1. On("authError", posted') => posted' # <<>>
    BY EmptyOn
  <2> QED
    BY <1>7, <2>1 DEF handleGoogleSigninFail, Delivers, stopServer, Stopped, FlowInv
<1>8. CASE handleGoogleSigninFinished \/ handleMeepoFailed
  BY <1>8 DEF handleGoogleSigninFinished, handleMeepoFailed, serverVars, daemonVars,
              FlowInv
<1>9. CASE validatePage
  BY <1>9 DEF validatePage, stopServer, Stopped, daemonVars, FlowInv
<1>10. CASE handleMeepoFinished
  BY <1>10 DEF handleMeepoFinished, MeepoEmits, stopServer, Stopped, daemonVars, FlowInv
<1> QED
  BY <1>1, <1>2, <1>3, <1>4, <1>5, <1>6, <1>7, <1>8, <1>9, <1>10 DEF Next, MainThread

\* When a server starts no error of an earlier one waits to be delivered: what
\* a stopped server leaves in Qt's queue is delivered before the button is heard
\* again, or the page is left.
THEOREM ErrorsAreOfThisServer == Spec => NoStaleError
<1>1. Init => FlowInv
  BY EmptyOn DEF Init, ServerInit, FlowInv
<1>2. ServerInv /\ FlowInv /\ [Next]_vars => FlowInv'
  BY FlowStep
<1>3. ASSUME ServerInv, FlowInv, [Next]_vars, ~daemon, daemon'
      PROVE  \A i \in DOMAIN posted : posted[i] # "authError"
  <2>1. CASE handleGoogleSigninPart1
    BY <1>3, <2>1 DEF handleGoogleSigninPart1, Input, FlowInv, On
  <2>2. CASE Server \/ UNCHANGED vars
    BY <1>3, <2>2, ServerSignals DEF vars, serverVars, daemonVars
  <2>3. CASE Quiet
    BY <1>3, <2>3 DEF Quiet
  <2>4. CASE JoinThread
    BY <1>3, <2>4 DEF JoinThread, StopJoin
  <2> QED
    BY <1>3, <2>1, <2>2, <2>3, <2>4, MainCases DEF Next
<1>4. ServerInv /\ FlowInv /\ [Next]_vars =>
        [~daemon /\ daemon' =>
           \A i \in DOMAIN posted : posted[i] # "authError"]_vars
  BY <1>3
<1> QED
  BY <1>1, <1>2, <1>4, ServerSafe, PTL DEF Spec, NoStaleError

-----------------------------------------------------------------------------
(* The server implements RequestLife                                       *)

\* Where a request is after n calls of the handler.
Stage(n) == CASE n = 0 -> "none" [] n = 1 -> "begun" [] n = 2 -> "answered"
              [] OTHER -> "answered again"

Req == [c \in Conns |-> Stage(con[c].calls)]

\* The stages are told apart.
LEMMA StageFacts ==
  /\ Stage(0) = "none" /\ Stage(1) = "begun" /\ Stage(2) = "answered"
  /\ \A n \in Nat : Stage(n) = "none" => n = 0
<1>1. \A n \in Nat : n # 0 => Stage(n) \in {"begun", "answered", "answered again"}
  BY DEF Stage
<1>2. Stage(0) = "none"
  BY DEF Stage
<1>3. Stage(1) = "begun"
  BY DEF Stage
<1>4. Stage(2) = "answered"
  BY DEF Stage
<1> QED
  BY <1>1, <1>2, <1>3, <1>4

\* RequestLife's actions, said of Req.
LEMMA LifeIs ==
  /\ Life!Init <=> daemon = FALSE /\ Req = [c \in Conns |-> "none"]
  /\ UNCHANGED <<daemon, Req>> => UNCHANGED Life!vars
  /\ (~daemon /\ daemon' = TRUE /\ UNCHANGED Req) => Life!Start
  /\ (/\ daemon /\ (\A c \in Conns : Req[c] = "none")
      /\ daemon' = FALSE /\ UNCHANGED Req) => Life!Stop
  /\ \A c : (/\ daemon /\ daemon' = daemon /\ Req[c] = "none"
             /\ Req' = [Req EXCEPT ![c] = "begun"]) => Life!Begin(c)
  /\ \A c : (/\ daemon /\ daemon' = daemon /\ Req[c] = "begun"
             /\ Req' = [Req EXCEPT ![c] = "answered"]) => Life!Answer(c)
  /\ \A S : (/\ daemon /\ daemon' = daemon /\ (\A c \in S : Req[c] # "none")
             /\ Req' = [c \in Conns |-> IF c \in S THEN "none" ELSE Req[c]])
            => Life!Complete(S)
<1> USE DEF Req, Stage
<1>1. Life!Init <=> daemon = FALSE /\ Req = [c \in Conns |-> "none"]
  BY Zenon DEF Life!Init
<1>2. UNCHANGED <<daemon, Req>> => UNCHANGED Life!vars
  BY Zenon DEF Life!vars
<1>3. (~daemon /\ daemon' = TRUE /\ UNCHANGED Req) => Life!Start
  BY Zenon DEF Life!Start
<1>4. (/\ daemon /\ (\A c \in Conns : Req[c] = "none")
       /\ daemon' = FALSE /\ UNCHANGED Req) => Life!Stop
  BY Zenon DEF Life!Stop
<1>5. ASSUME NEW c, daemon, daemon' = daemon, Req[c] = "none",
             Req' = [Req EXCEPT ![c] = "begun"]
      PROVE  Life!Begin(c)
  BY <1>5, Zenon DEF Life!Begin
<1>6. ASSUME NEW c, daemon, daemon' = daemon, Req[c] = "begun",
             Req' = [Req EXCEPT ![c] = "answered"]
      PROVE  Life!Answer(c)
  BY <1>6, Zenon DEF Life!Answer
<1>7. ASSUME NEW S, daemon, daemon' = daemon, \A c \in S : Req[c] # "none",
             Req' = [c \in Conns |-> IF c \in S THEN "none" ELSE Req[c]]
      PROVE  Life!Complete(S)
  BY <1>7, Zenon DEF Life!Complete
<1> QED
  BY <1>1, <1>2, <1>3, <1>4, <1>5, <1>6, <1>7

\* A step that neither calls the handler nor completes a request.
LEMMA LifeStutters ==
  ASSUME UNCHANGED daemon, \A c \in Conns : con'[c].calls = con[c].calls
  PROVE  UNCHANGED <<daemon, Req>> /\ UNCHANGED Life!vars
<1>1. Req' = Req
  BY DEF Req
<1> QED
  BY <1>1, LifeIs

\* The turn of a connection is a first call, a second call, the end of the
\* request, or none of these.
LEMMA LifeTurn ==
  ASSUME ServerInv, NEW r, Turn(r)
  PROVE  [Life!Next]_(Life!vars)
<1> USE DEF Turn, Around, daemonVars
<1>1. Cur \in Conns /\ daemon /\ daemon' = daemon /\ con[Cur].calls \in Nat
  BY CurFacts DEF ServerInv, ThreadInv, InRound, Connection
<1>2. PICK d \in Conns : d = Cur
  BY <1>1
<1>3. con'[d] = r /\ \A c \in Conns \ {d} : con'[c] = con[c]
  BY <1>1, <1>2 DEF ServerInv, TypeInv
<1> DEFINE n == con[d].calls
<1>4. Req[d] = Stage(n) /\ Req' = [Req EXCEPT ![d] = Stage(r.calls)]
  <2>1. \A c \in Conns : Req'[c] = [Req EXCEPT ![d] = Stage(r.calls)][c]
    BY <1>3 DEF Req
  <2> QED
    BY <2>1 DEF Req
<1>5. CASE r.calls = n
  BY <1>1, <1>3, <1>5, LifeStutters
<1>6. CASE n = 0 /\ r.calls = 1
  <2>1. Life!Begin(d)
    BY <1>1, <1>4, <1>6, StageFacts, LifeIs
  <2> QED
    BY <2>1 DEF Life!Next
<1>7. CASE n = 1 /\ r.calls = 2
  <2>1. Life!Answer(d)
    BY <1>1, <1>4, <1>7, StageFacts, LifeIs
  <2> QED
    BY <2>1 DEF Life!Next
<1>8. CASE n # 0 /\ r.calls = 0
  <2>1. Req[d] # "none" /\ Stage(r.calls) = "none"
    BY <1>1, <1>2, <1>4, <1>8, StageFacts
  <2>2. Req' = [c \in Conns |-> IF c \in {d} THEN "none" ELSE Req[c]]
    BY <1>4, <2>1 DEF Req
  <2>3. Life!Complete({d})
    BY <1>1, <2>1, <2>2, LifeIs
  <2> QED
    BY <2>3 DEF Life!Next
<1> QED
  BY <1>2, <1>5, <1>6, <1>7, <1>8 DEF Counted

\* Closing every connection completes the requests that were begun.
LEMMA LifeCloseAll ==
  ASSUME ServerInv, close_all_connections
  PROVE  [Life!Next]_(Life!vars)
<1>1. daemon /\ daemon' = daemon /\ \A c \in Conns : con'[c].calls = 0
  BY CloseAllKeeps DEF close_all_connections, ServerInv, ThreadInv
<1>2. PICK S \in SUBSET Conns : S = {c \in Conns : Req[c] # "none"}
  OBVIOUS
<1>3. Req' = [c \in Conns |-> "none"]
  BY <1>1, StageFacts DEF Req
<1>4. [c \in Conns |-> IF c \in S THEN "none" ELSE Req[c]] = [c \in Conns |-> "none"]
  BY <1>2
<1>5. Life!Complete(S)
  BY <1>1, <1>2, <1>3, <1>4, LifeIs
<1> QED
  BY <1>5 DEF Life!Next

\* Every step of the sign-in is one RequestLife allows, or none of it.
LEMMA LifeStep ==
  ASSUME ServerInv, [Next]_vars
  PROVE  [Life!Next]_(Life!vars)
<1>1. CASE \E r : Turn(r)
  BY <1>1, LifeTurn
<1>2. CASE close_all_connections
  BY <1>2, LifeCloseAll
<1>3. CASE handleGoogleSigninPart1
  <2>1. UNCHANGED con /\ (daemon' = daemon \/ (~daemon /\ daemon' = TRUE))
    BY <1>3, StartKeeps
  <2>2. UNCHANGED Req
    BY <2>1 DEF Req
  <2> QED
    BY <2>1, <2>2, LifeIs DEF Life!Next
<1>4. CASE JoinThread
  <2>1. UNCHANGED con /\ daemon /\ daemon' = FALSE
    BY <1>4, JoinKeeps
  <2>2. \A c \in Conns : Req[c] = "none"
    BY <1>4, NobodyLeft, StageFacts DEF JoinThread, StopJoin, Req
  <2>3. UNCHANGED Req
    BY <2>1 DEF Req
  <2> QED
    BY <2>1, <2>2, <2>3, LifeIs DEF Life!Next
<1>5. CASE MHD_accept_connection
  BY <1>5, AcceptKeeps, LifeStutters DEF MHD_accept_connection
<1>6. CASE Quiet \/ UNCHANGED vars
  BY <1>6, LifeStutters DEF Quiet, vars, serverVars, daemonVars
<1>7. CASE Client \/ PollingThread \/ MHD_select
  BY <1>7, LifeStutters DEF Client, PollingThread, MHD_select, daemonVars
<1>8. CASE MHD_cleanup_connections \/ IdleClosed
  BY <1>8, LifeStutters DEF MHD_cleanup_connections, IdleClosed, daemonVars
<1> QED
  BY <1>1, <1>2, <1>3, <1>4, <1>5, <1>6, <1>7, <1>8, StepCases

\* What the web server promises is kept: for every request the handler is called
\* first, then once more to answer, then request_completed, in this order, and
\* none is open when stop() returns.
THEOREM PromiseKept == Spec => KeepsPromise
<1>1. Init => Life!Init
  <2> SUFFICES ASSUME Init PROVE Life!Init
    OBVIOUS
  <2>1. daemon = FALSE /\ Req = [c \in Conns |-> "none"]
    BY FreshFacts, StageFacts DEF Init, ServerInit, Req
  <2> QED
    BY <2>1, LifeIs
<1>2. ServerInv /\ [Next]_vars => [Life!Next]_(Life!vars)
  BY LifeStep
<1> QED
  BY <1>1, <1>2, ServerSafe, PTL DEF Spec, KeepsPromise, Life!Spec
=============================================================================
