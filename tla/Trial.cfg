SPECIFICATION Spec
CONSTANTS
  Nil = Nil
  Hour = 2
  DurationLimit = 1000
  People <- MCPeople
  Identities <- MCOneIdentity
  BaselineInputs <- MCTrialBaselines
  PlanInputs <- MCTrialPlans
  Readings <- MCTrialReadings
  FutureTolerance = 1
  FetchAt = {"AwaitingReview"}
  PermitYear = 2
  MaxVersion = 11
  MaxTime = 3
  MaxBatch = 2
  MaxObservations = 4
  MaxRevisions = 1
CHECK_DEADLOCK FALSE
INVARIANTS TypeOK CaseInv DossierInv EffectiveWithinBaseline ResolvedByRetest OpenOnlyInRemediation WindowFilled LedgerReferencesSound SummaryForecastsReview
PROPERTIES RecordOnlyGrows StrandedForever LedgerPagesStable WorkflowSpec
