SPECIFICATION Spec
CONSTANTS
  Enabled = TRUE
  Evaluations = {e1, e2}
  Hosts = {h1}
  Pools = {p1, p2}
  Capacities = {0, 80, 90}
  CapacityWarning = 0
  CapacityCritical = 0
  CooldownMinutes = 2
  DefaultWarning = 80
  DefaultCritical = 90
  DefaultCooldown = 60
  Channels = {mail}
  MaxClock = 3
  MaxAlerts = 3
INVARIANTS
  TypeOK
  CooldownRespected
PROPERTIES
  MutedOnlyAfterAlert
SYMMETRY Symmetry
