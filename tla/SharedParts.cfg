SPECIFICATION PartsSpec
CONSTANTS
  None = None
  Blank = Blank
  o1 = o1
  o2 = o2
  t1 = t1
  t2 = t2
  k1 = k1
  k2 = k2
  s1 = s1
  s2 = s2
  s3 = s3
  Sessions = {s1, s2, s3}
  Items = {t1, t2}
  Legacy = {s1, s2}
  Parent <- Family
  Dirs = {"A", "B"}
  First = "A"
  Procs = {o1, o2}
  MaxFiles = 4
  MaxOps = 4
  Users = {o1, o2}
  Servers = {s1}
  Names = {"n"}
  Callers = {t1, t2}
  MaxSpawn = 2
  MaxId = 2
  Events = {"e1", "e2"}
  Pids = {"p1", "p2"}
  Killers = {"k"}
  Keys = {k1, k2}
  MaxChromes = 2
  MaxPages = 2
  MaxCalls = 2
  Visitors = {k1}
  Sites = {"x", "y"}
  Torn = Torn
  Tokens = {t1, t2}
  MaxScripts = 2
  Planners = {s1, s2}
  Plans = {t1, t2}
  PlanParent <- Couple
  MaxLog <- Lengths
  MaxBeside = 3
  MaxClock = 5
INVARIANTS PartsTypeOK SavedIsThere  StartedIsHeld
SYMMETRY Symmetry
CHECK_DEADLOCK FALSE
