SPECIFICATION Spec
CONSTANTS
  Nil = Nil
  Hour = 2
  DurationLimit = 8
  People <- MCPeople
  Identities <- MCOneIdentity
  BaselineInputs <- MCTwoApart
  PlanInputs <- MCLongPlans
  Readings <- MCGoodAndHot
  FutureTolerance = 1
  FetchAt = {}
  PermitYear = 2
  MaxVersion = 8
  MaxTime = 4
  MaxBatch = 1
  MaxObservations = 4
  MaxRevisions = 1
INVARIANTS IntervalsCovered
CHECK_DEADLOCK FALSE
