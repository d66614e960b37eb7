SPECIFICATION Spec
CONSTANTS
  Nil = Nil
  Torn = Torn
  c1 = c1
  c2 = c2
  h1 = h1
  h2 = h2
  k = k
  k2 = k2
  Cases = {c1, c2}
  Handlers = {h1, h2}
  StoreKeys <- MCStoreKeys
  Requests <- MCLostResult
  Born <- MCBorn
  MaxSends = 2
  MaxEnds = 1
  MaxFaults = 0
INVARIANTS BatchRetriedAfterCrash
CHECK_DEADLOCK FALSE
