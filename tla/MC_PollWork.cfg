SPECIFICATION FairSpec
CONSTANTS
  NItems = 3
  NoCursor = NoCursor
  MaxFaults = 2
  MaxDrains = 2
  MaxCrashes = 1
  MaxBadWrites = 1
INVARIANT SavedCursorIsExact
PROPERTIES ImplementsDelivery EventuallyDispatched
