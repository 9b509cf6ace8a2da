SPECIFICATION FairSpec
CONSTANTS
  Helpers = {}
  Clients = {c1}
  Ops = {"pause", "cancel"}
  MaxWork = 1
  MaxRuns = 1
  HasTimeout = FALSE
  MayFail = FALSE
  ResetAlone = TRUE
CHECK_DEADLOCK FALSE
PROPERTY CancelEndsRun
