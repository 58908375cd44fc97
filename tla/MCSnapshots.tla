----------------------------- MODULE MCSnapshots -----------------------------
(* Instances of Snapshots for TLC. *)
EXTENDS Snapshots, TLC

CONSTANTS f1, f2, c1, c2, c3

W(turn, f, before, after) ==
  [turn |-> turn, file |-> f, before |-> before, after |-> after]

\* One file over two turns, and a new file with a content the other had.
Plain == <<W(1, f1, c1, c2), W(2, f1, c2, c3), W(2, f2, Absent, c1)>>
\* A new file, written twice in its turn.
Fresh == <<W(1, f1, Absent, c1), W(1, f1, c1, c2), W(2, f2, c3, Empty)>>
\* A content comes back.
Back == <<W(1, f1, Absent, c1), W(2, f1, c1, c2), W(2, f1, c2, c1)>>
SomeHistories == {Plain, Fresh, Back}
TwoFiles == {f1, f2}
OneFile == {f1}
EveryOp == AllOps
Symmetry == Permutations(Threads)
=============================================================================
