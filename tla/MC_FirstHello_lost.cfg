SPECIFICATION Spec
CONSTANTS
  MaxResends = 0
  MaxRejects = 0
  MaxLost = 1
  MaxReconnects = 0
  MaxCrashes = 0
INVARIANT ExactlyOneHello
CHECK_DEADLOCK FALSE
