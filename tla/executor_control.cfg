SPECIFICATION ControlSpec
CONSTANTS
  c2 = c2
  Helpers = {h1}
  Clients = {c1, c2}
  Ops = {"pause", "resume", "cancel", "serialize"}
  MaxWork = 1
  MaxRuns = 2
  HasTimeout = TRUE
  MayFail = TRUE
  ResetAlone = TRUE
CHECK_DEADLOCK FALSE
INVARIANTS TypeOK RestoreIsExclusive RunIsClosed IndInv QuietMeansRest
PROPERTIES ImplementsLifecycle WaitReturns PausingSettles
