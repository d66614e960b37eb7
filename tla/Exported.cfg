SPECIFICATION Spec
CONSTANTS
  Nil = Nil
  Foreign = Foreign
  Default = Default
  Outside = Outside
  Elsewhere = Elsewhere
  k1 = k1
  k2 = k2
  PermitYear = 2
  Clients = {k1, k2}
  Born <- MCBorn
  Filters <- MCFilters
  PageSize = 1
  CodeLists <- MCCodeLists
  Exports <- MCIntoDirectory
  Lag = 1
  MaxCases = 4
  MaxTime = 3
  MaxSaves = 1
  MaxQueries = 2
SYMMETRY MCClientsAlike
INVARIANTS QueriesAnswered
CHECK_DEADLOCK FALSE
