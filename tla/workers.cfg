CONSTANTS
  Posting = {"p", "q"}
  Capacity = 1
  Sizes = {1, 2}
  Posts = 1
  Working = {"w", "x"}
  Joiners = {"a"}
  Parts = 2
  Racers = {"a", "b"}
  Shares = 1
  Inputs = 3
  Solves = {1, 2}
  Natives = {"dp"}
  Libraries <- SomeLibraries
  Situations <- SomeSituations
  RingSize = 2
  SegmentSize <- SomeSizes
  QueueProducers <- SomePushers
  QueueConsumers <- SomePoppers
  PushCalls <- SomePushes
  PopCalls <- SomePops
  Clearing = {"MPSC", "SPSC"}
SPECIFICATION Spec
CHECK_DEADLOCK FALSE
INVARIANTS GracefulStopDrains QuietFlushSeesAll JoinMeansDone SandboxTellsTheTruth AbortIsReported
PROPERTIES PluginsStayOpen RingsAreFifo SegmentsAreFifo WaitersReturn
