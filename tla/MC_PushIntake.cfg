SPECIFICATION FairSpec
CONSTANTS
  NPushes = 3
  Restarters = {1}
  MaxIds = 2
  MaxLosses = 2
  MaxCrashes = 1
  MaxBadWrites = 1
INVARIANTS HandledOnce
PROPERTIES ImplementsDelivery RestartsEnd EventuallyHandled
CHECK_DEADLOCK FALSE
