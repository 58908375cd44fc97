SPECIFICATION FairSpec
CONSTANTS
  d1 = d1
  d2 = d2
  Tasks = {t1}
  Daemons <- TwoDaemons
  Threads = {u1}
  Agent = Agent
  None = None
  MaxStep = 2
  MaxCmds = 3
INVARIANTS TypeOK UndrivenWasEnded ToldPushesOnce CompletedIsArchived
PROPERTY StoppedIsLeft
CHECK_DEADLOCK FALSE
