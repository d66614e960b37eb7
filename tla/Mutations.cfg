SPECIFICATION FairSpec
CONSTANTS
  Nil = Nil
  Torn = Torn
  c1 = c1
  c2 = c2
  h1 = h1
  h2 = h2
  k = k
  k2 = k2
  Cases = {c1}
  Handlers = {h1, h2}
  StoreKeys <- MCStoreKeys
  Requests <- MCMutations
  Born <- MCBorn
  MaxSends = 3
  MaxEnds = 1
  MaxFaults = 1
INVARIANTS TypeOK ServiceInv AppliedAtExpectedVersion ResultsAreOfTheirKey SuccessMeansApplied BatchRetrySafe BatchAppliedOnce AuditInOrder
PROPERTIES EveryRequestEnds VersionedCasesSpec
CHECK_DEADLOCK FALSE
