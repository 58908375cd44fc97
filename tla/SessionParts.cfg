SPECIFICATION BoundedSpec
CONSTANTS
  N = 2
  Binary = {}
  Touched = {1}
  Threads = {t1}
  Clearers = {c1}
  MaxEdits = 2
  MaxBuilds = 2
  MaxFaults = 1
  MaxLog = 6
  MaxCalls = 2
  MaxProposals = 2
  MaxMsgs = 2
  MaxChunks = 2
  MaxTries = 2
  MaxCards = 1
  MaxBeside = 2
  MaxPipe = 2
  Agent = Agent
  Absent = Absent
  None = None
INVARIANTS PartsTypeOK UsersWorkIsKept ContextIsSound RunIsShown
CHECK_DEADLOCK FALSE
