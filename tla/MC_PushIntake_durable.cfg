SPECIFICATION Spec
CONSTANTS
  NPushes = 3
  Restarters = {1}
  MaxIds = 2
  MaxLosses = 0
  MaxCrashes = 0
  MaxBadWrites = 1
INVARIANT DurableBeforeDispatch
CHECK_DEADLOCK FALSE
