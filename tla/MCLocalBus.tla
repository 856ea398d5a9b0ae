------------------------------ MODULE MCLocalBus ------------------------------
(***************************************************************************)
(* Two instances, "a" and "b", for TLC; "a" runs once, "b" is restarted.   *)
(***************************************************************************)
EXTENDS LocalBusContract

CONSTANTS a, b, a1, b1, b2, b3, r1, r2, r3

TwoInstances == {a, b}
Two == {a1, b1, b2}
Three == {a1, b1, b2, b3}
Hosts == [p \in Runtimes |-> IF p = a1 THEN a ELSE b]
\* "a" asks, "b" answers.
Senders == [r \in Requests |-> a]
Receivers == [r \in Requests |-> b]
\* Narrows the search for a counterexample: the asking side only asks, in
\* order, and stays live.
QuietSender ==
    /\ ~lease[a].stale /\ status[a1] # "down" /\ dismissed = {}
    /\ \A p \in Runtimes : status[p] # "down"
    /\ \A r \in Requests : ~Present(processing, Rsp(r)) /\ ~Present(acked, Rsp(r))
=============================================================================
