SPECIFICATION Spec
CONSTANTS
  Msgs = {m1, m2, m3}
  Loops = {l1, l2, l3}
  Cmds = {c1, c2}
  Ops = {"send", "guide", "delete", "edit", "continue"}
  Outcomes = {"answered", "stepsRefused", "failed"}
  DbMayFail = TRUE
  MaxCmds = 3
  MaxTurns = 1
  Idle = Idle
  Starting = Starting
  NoMsg = NoMsg
  NoLoop = NoLoop
SYMMETRY Symmetry
INVARIANTS TypeOK OneDriver RunningRunsAreDriven
PROPERTIES FailureHoldsQueue ExecutesSerially
CHECK_DEADLOCK FALSE
