SPECIFICATION Spec
CONSTANTS
  Msgs = {m1, m2}
  Loops = {l1, l2, l3}
  Cmds = {c1, c2}
  Ops = {"send", "guide", "stop", "retry"}
  Outcomes = {"answered", "failed"}
  DbMayFail = FALSE
  MaxCmds = 3
  MaxTurns = 0
  Idle = Idle
  Starting = Starting
  NoMsg = NoMsg
  NoLoop = NoLoop
SYMMETRY Symmetry
PROPERTIES RunsNeverReopen
CHECK_DEADLOCK FALSE
