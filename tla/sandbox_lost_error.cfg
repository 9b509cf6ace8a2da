CONSTANTS
  Runs = 1
  Calls = 1
  Ops = {"pause"}
  Chatter = 0
  MayFail = TRUE
  MayDie = FALSE
SPECIFICATION SandboxSpec
CHECK_DEADLOCK FALSE
PROPERTY SandboxWaitReturns
