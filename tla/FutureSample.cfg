SPECIFICATION Spec
CONSTANTS
  Nil = Nil
  Hour = 2
  DurationLimit = 1000
  People <- MCPeople
  Identities <- MCOneIdentity
  BaselineInputs <- MCTrialBaselines
  PlanInputs <- MCTrialPlans
  Readings <- MCGoodAndHot
  FutureTolerance = 2
  FetchAt = {}
  PermitYear = 2
  MaxVersion = 8
  MaxTime = 4
  MaxBatch = 1
  MaxObservations = 4
  MaxRevisions = 1
INVARIANTS LedgerReadable
CHECK_DEADLOCK FALSE
