SPECIFICATION TasksSpec
CONSTANTS
  c1 = c1
  c2 = c2
  s1 = s1
  Tasks = {1, 2}
  Keys = {1, 2}
  Producers = {1, 2}
  Observers = {1, 2}
  Publishers <- ThePublishers
  Callers = {c1}
  Streams = {}
  Kinds = {"start"}
  HasHub = FALSE
  MayThrow = FALSE
CHECK_DEADLOCK FALSE
INVARIANTS TypesHold TasksOverlapSafely RecordsAgree StreamIsTold ExitArrives
PROPERTIES VerdictIsFinal DestructorReturns
