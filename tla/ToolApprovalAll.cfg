SPECIFICATION FairSpec
CONSTANTS
  Sessions = {s1, s2}
  Children = {s1}
  Calls <- ManyCalls
  Reviewed <- ReviewedCalls
  Threads = {t1, t2}
  Ops = {"send", "answer", "mode", "limit", "forget", "stop"}
  Limit = 1
  Extra = 1
  MaxChecks = 1
  MaxCmds = 3
  MaxEvents = 1
  Keys = {k1, k2, k3}
  k1 = k1
  k2 = k2
  k3 = k3
  NoKey = NoKey
  NoCall = NoCall
  NoId = NoId
INVARIANTS TypeOK ForcedRunsAreAllowed RefusedNeverRuns WaitersAreListed
PROPERTIES AnswersStayInSession TurnsEnd
CHECK_DEADLOCK FALSE
