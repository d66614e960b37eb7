SPECIFICATION Spec
CONSTANTS
  Nil = Nil
  Torn = Torn
  c1 = c1
  c2 = c2
  h1 = h1
  h2 = h2
  k = k
  k2 = k2
  Cases = {c1, c2}
  Handlers = {h1, h2}
  StoreKeys <- MCStoreKeys
  Requests <- MCCreations
  Born <- MCNoneBorn
  MaxSends = 4
  MaxEnds = 1
  MaxFaults = 1
SYMMETRY MCHandlersAlike
INVARIANTS CreatedOnce ResultsAreOfTheirKey SuccessMeansApplied
CHECK_DEADLOCK FALSE
