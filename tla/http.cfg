SPECIFICATION FairSpec
CONSTANTS
  Nobody = Nobody
  Clients = {1, 2}
  Fds = {3, 4}
  Workers = 1
  AdmitCap = 1
  MaxTasks = 1
  MaxFrames = 1
  Replies = {"keep", "close", "stream", "part"}
CHECK_DEADLOCK FALSE
INVARIANTS TypeOK SnapshotStaysOpen UnregisterHitsDead ShutdownClosesAll AdmittedIsPolled
PROPERTIES ClientIsHeard
