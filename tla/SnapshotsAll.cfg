SPECIFICATION Spec
CONSTANTS
  f1 = f1
  f2 = f2
  c1 = c1
  c2 = c2
  c3 = c3
  Empty = Empty
  Absent = Absent
  Files <- TwoFiles
  Contents = {c1, c2, c3, Empty}
  Foreign = {c3}
  Unreadable <- OneFile
  Histories <- SomeHistories
  Threads = {u1, u2}
  Ops <- EveryOp
  MaxCmds = 3
  MaxBeside = 2
  MaxWrites = 1
  Written = {c3}
  MaxOld = 1
SYMMETRY Symmetry
INVARIANTS TypeOK MarksAgree ListRestored BlobsKept
PROPERTY UnforcedKeepsEdits
CHECK_DEADLOCK FALSE
