---------------------------- MODULE MCPeerTurns ----------------------------
(* Instances of PeerTurns for TLC. *)
EXTENDS PeerTurns, TLC

CONSTANTS p1, p2, r1, r2, yes, no

RuntimesTwo == {p1, p2}
OtherRequest == {r2}
RequestsTwo == {r1, r2}
AnswersTwo == {yes, no}

\* Answers are interchangeable.
Symmetry == Permutations(Answers)
=============================================================================
