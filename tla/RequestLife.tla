---------------------------- MODULE RequestLife ----------------------------
(***************************************************************************)
(* What the web server of the sign-in promises the program that starts it: *)
(* the handler (answer_to_connection) is called for the first time, then   *)
(* once to answer, and then request_completed is called, for every request *)
(* and in this order; the last of the three is never left out for a        *)
(* request that began; and nothing is called outside start() and stop().   *)
(***************************************************************************)

CONSTANT Conns   \* the connections a server can hold at a time

VARIABLES
    up,   \* start() has succeeded and stop() has not returned
    req   \* how far the request of each connection has come

vars == <<up, req>>

Init == up = FALSE /\ req = [c \in Conns |-> "none"]

(* start(): a server begins without requests. *)
Start == ~up /\ up' = TRUE /\ UNCHANGED req

(* The first call of the handler, which allocates con_info. *)
Begin(c) ==
    /\ up /\ req[c] = "none"
    /\ req' = [req EXCEPT ![c] = "begun"]
    /\ UNCHANGED up

(* The second call of the handler, which emits a signal. *)
Answer(c) ==
    /\ up /\ req[c] = "begun"
    /\ req' = [req EXCEPT ![c] = "answered"]
    /\ UNCHANGED up

(* request_completed, which frees con_info, for each connection of S. A    *)
(* request may end before it is answered.                                  *)
Complete(S) ==
    /\ up /\ \A c \in S : req[c] # "none"
    /\ req' = [c \in Conns |-> IF c \in S THEN "none" ELSE req[c]]
    /\ UNCHANGED up

(* stop() returns: every request that began is completed. *)
Stop == /\ up /\ \A c \in Conns : req[c] = "none"
        /\ up' = FALSE /\ UNCHANGED req

Next ==
    \/ Start \/ Stop
    \/ \E c \in Conns : Begin(c) \/ Answer(c)
    \/ \E S \in SUBSET Conns : Complete(S)

Spec == Init /\ [][Next]_vars
=============================================================================
