SPECIFICATION Spec
CONSTANTS
  Nil = Nil
  Hour = 2
  DurationLimit = 1000
  People <- MCPeople
  Identities <- MCWorkflowIdentities
  BaselineInputs <- MCWorkflowBaselines
  PlanInputs <- MCWorkflowPlans
  Readings <- MCWorkflowReadings
  FutureTolerance = 1
  FetchAt = {"TrialReady", "AwaitingReview"}
  PermitYear = 1
  MaxVersion = 13
  MaxTime = 3
  MaxBatch = 1
  MaxObservations = 3
  MaxRevisions = 2
INVARIANTS CurrentIsLatest VersionIdentifiesPackage ApprovalBindsData ApprovalIndependent IntervalsCovered ReviewHistoryReadable PermitChecksOut
PROPERTIES CaseFileMoves
CHECK_DEADLOCK FALSE
