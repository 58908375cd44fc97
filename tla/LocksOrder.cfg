SPECIFICATION FairSpec
CONSTANTS
  Workers = {t1, t2, t3}
  Sessions = {s1}
  Fresh = Fresh
  Ops = {"send", "edit", "delete", "switch", "keys", "gate", "subagents", "error"}
INVARIANTS LocksTypeOK NoDeadlock
PROPERTY SectionsEnd
