SPECIFICATION Spec
CONSTANTS
  MaxVersion = 2
  Asks = {u1}
  StaleLoads = FALSE
  MaxReconnects = 1
  MaxCrashes = 0
  MaxBadWrites = 0
  MaxLost = 0
PROPERTY AnnouncedByNextProcess
CHECK_DEADLOCK FALSE
