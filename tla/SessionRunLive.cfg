SPECIFICATION FairSpec
CONSTANTS
  Msgs = {m1, m2}
  Loops = {l1, l2, l3}
  Cmds = {c1, c2}
  Ops = {"send", "guide", "delete"}
  Outcomes = {"answered", "stepsRefused", "failed"}
  DbMayFail = TRUE
  MaxCmds = 4
  MaxTurns = 1
  Idle = Idle
  Starting = Starting
  NoMsg = NoMsg
  NoLoop = NoLoop
PROPERTIES ActiveEnds QueuedDuringRunIsTaken
CHECK_DEADLOCK FALSE
