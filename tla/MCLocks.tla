------------------------------- MODULE MCLocks -------------------------------
(* Instances of Locks for TLC. Nothing bounds a run: the operations repeat   *)
(* for ever over finitely many states.                                       *)
EXTENDS Locks, TLC

Symmetry == Permutations(Workers) \cup Permutations(Sessions)
=============================================================================
