SPECIFICATION LocksSpec
CONSTANTS
  Workers = {t1}
  Sessions = {s1}
  Fresh = Fresh
  Ops = {"find"}
INVARIANT FindReturns
