SPECIFICATION Spec
CONSTANTS
  NItems = 2
  NoCursor = NoCursor
  MaxFaults = 1
  MaxDrains = 0
  MaxCrashes = 0
  MaxBadWrites = 0
INVARIANTS RetryLosesNothing
