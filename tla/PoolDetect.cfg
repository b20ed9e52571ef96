SPECIFICATION ImpatientSpec
CONSTANTS
  Goroutines = {g1, g2}
  Limits = {1}
  Programs = {"me", "detect"}
  MaxRows = 1
PROPERTIES
  MeAlwaysReturns
CHECK_DEADLOCK FALSE
