SPECIFICATION ImpatientSpec
CONSTANTS
  Goroutines = {g1, g2}
  Limits = {1, 2}
  Programs = {"me", "collect", "analyze"}
  MaxRows = 2
INVARIANTS
  TypeOK
  ConnectionsAccounted
PROPERTIES
  EveryProgramReturns
