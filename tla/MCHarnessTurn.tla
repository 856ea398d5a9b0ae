---------------------------- MODULE MCHarnessTurn ----------------------------
(* Instances of HarnessTurn for TLC. *)
EXTENDS HarnessTurn

CONSTANTS h1, h2

(* The main turn with a team. *)

\* Two calls for the main turn, one for a helper.
TeamLimits == [t \in Turns |-> IF t = Main THEN [rounds |-> 1, calls |-> 2, bytes |-> 2]
                               ELSE [rounds |-> 1, calls |-> 1, bytes |-> 1]]

TeamChecks == [c \in CheckNames |-> 0]

Batch(n, calls) == [loads |-> n, calls |-> calls]

TeamBatches == {Batch(0, <<"write", "write">>), Batch(1, <<"team">>)}

(* The main turn alone. *)

AloneLimits == [t \in Turns |-> [rounds |-> 3, calls |-> 4, bytes |-> 4]]

AloneChecks == [c \in CheckNames |-> IF c \in {"failure", "grounding", "execution"} THEN 1
                                     ELSE IF c = "tasks" THEN 2 ELSE 0]

AloneBatches == {Batch(0, <<"write", "read">>), Batch(1, <<"read", "team", "write">>),
                 Batch(0, <<"junk", "write">>), Batch(1, <<>>)}
=============================================================================
