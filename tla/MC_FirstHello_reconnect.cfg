SPECIFICATION Spec
CONSTANTS
  MaxResends = 0
  MaxRejects = 0
  MaxLost = 0
  MaxReconnects = 1
  MaxCrashes = 0
INVARIANT NeverDoubleGreets
CHECK_DEADLOCK FALSE
