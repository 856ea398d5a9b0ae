--------------------------- MODULE MCBackgroundJobs ---------------------------
(* Instances of BackgroundJobs for TLC. *)
EXTENDS BackgroundJobs, TLC

CONSTANTS j1, p1, p2, p3

\* Processes that may die are alike.
Alike == Permutations(MayCrash)
=============================================================================
