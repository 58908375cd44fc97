SPECIFICATION Spec
CONSTANTS
  w1 = w1
  w2 = w2
  r1 = r1
  Kids <- OneEach
  Residents <- OneResident
  Threads = {t1, t2}
  Agent = Agent
  NoKid = NoKid
  Calls <- EveryCall
  Ops <- EveryOp
  Limit = 2
  MaxPolls = 1
  MaxCalls = 2
  MaxCmds = 2
INVARIANTS TypeOK RunningIsDriven
PROPERTY TerminalIsKept
CHECK_DEADLOCK FALSE
