SPECIFICATION Spec
CHECK_DEADLOCK FALSE
INVARIANTS
  ContainersAgree CachesAreFresh ReferencesHold CleanIsSaved
  ReportedPlansReplay ReportedPlansAreCheapest GreedyStrategiesFind InputsAreFaithful
  RequestsAreServedRight
PROPERTIES RollbacksAreExact
