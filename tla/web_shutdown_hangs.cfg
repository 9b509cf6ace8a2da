SPECIFICATION Spec
CONSTANTS
  Tasks = {1, 2}
  Keys = {1, 2}
  Producers = {1, 2}
  Observers = {1, 2}
  Publishers <- ThePublishers
  Callers = {c1}
  Streams = {}
  Kinds = {"start"}
  HasHub = FALSE
  MayThrow = FALSE
CHECK_DEADLOCK FALSE
INVARIANT JoinIsBounded
