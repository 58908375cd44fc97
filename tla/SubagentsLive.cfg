SPECIFICATION FairSpec
CONSTANTS
  w1 = w1
  w2 = w2
  r1 = r1
  Kids <- OneEach
  Residents <- OneResident
  Threads = {t1}
  Agent = Agent
  NoKid = NoKid
  Calls = {"spawn", "wait", "waitCollabs", "restart", "reject"}
  Ops <- MostOps
  Limit = 2
  MaxPolls = 1
  MaxCalls = 2
  MaxCmds = 2
PROPERTIES ChildSettles WaitReturns
CHECK_DEADLOCK FALSE
