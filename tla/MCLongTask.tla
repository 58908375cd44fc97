------------------------------ MODULE MCLongTask ------------------------------
(* Instances of LongTask for TLC. *)
EXTENDS LongTask, TLC

CONSTANTS d1, d2

TwoDaemons == {d1, d2}
\* Daemons are places: which one a task is given makes no difference.
Places == Permutations(TwoDaemons)
=============================================================================
