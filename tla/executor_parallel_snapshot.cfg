SPECIFICATION Spec
CONSTANTS
  Helpers = {h1, h2}
  Clients = {c1}
  Ops = {"pause", "serialize"}
  MaxWork = 2
  MaxRuns = 1
  HasTimeout = FALSE
  MayFail = FALSE
  ResetAlone = TRUE
CHECK_DEADLOCK FALSE
INVARIANT SnapshotIsQuiescent
