----------------------------- MODULE MCSession -----------------------------
(***************************************************************************)
(* Instances of Processes and Checkpoints for TLC: the tools of a session  *)
(* that leave something behind.  They share no state, so a behaviour is of *)
(* one of them, chosen at the start: background commands (the module as    *)
(* extended), a file written by one call at a time (Alone), or by two      *)
(* calls at once (Pair).                                                   *)
(***************************************************************************)
EXTENDS Processes, TLC

CONSTANTS w1, w2, a, b, c, absent, torn

VARIABLES part, file, call, records, review, saves, mine, left, base

edits == <<file, call, records, review, saves, mine, left, base>>

Contents == {a, b, c}
ASSUME MarksAssumption == absent \notin Contents /\ torn \notin Contents /\ absent # torn

Symmetry == Permutations(Contents)

Alone == INSTANCE Checkpoints WITH
    Writers <- {w1}, MaxEdits <- 2, MaxSaves <- 1, Absent <- absent, Torn <- torn
Pair == INSTANCE Checkpoints WITH
    Writers <- {w1, w2}, MaxEdits <- 1, MaxSaves <- 1, Absent <- absent, Torn <- torn

SessionInit ==
    /\ Init
    /\ \/ part = "commands" /\ Alone!Init /\ file = absent
       \/ part = "alone" /\ Alone!Init
       \/ part = "pair" /\ Pair!Init

SessionNext ==
    \/ part = "commands" /\ Next /\ UNCHANGED <<part, edits>>
    \/ part = "alone" /\ Alone!Next /\ UNCHANGED <<part, vars>>
    \/ part = "pair" /\ Pair!Next /\ UNCHANGED <<part, vars>>

SessionSpec == SessionInit /\ [][SessionNext]_<<part, vars, edits>>

\* The values of the state, of whichever part runs.
SessionTypeOK ==
    /\ TypeOK
    /\ IF part = "pair" THEN Pair!TypeOK ELSE Alone!TypeOK

\* The properties of Checkpoints, stated there: what a user saved survives, unless
\* it was saved unnoticed, rejecting everything undoes everything, and a rejection
\* never overwrites a change.
Preserved == Alone!Preserved
RejectAllUndoes == Alone!RejectAllUndoes
RefusesChanged == Alone!RefusesChanged
=============================================================================
