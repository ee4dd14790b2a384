SPECIFICATION FairSpec
CONSTANTS
  MaxVersion = 3
  Asks = {u1, u2}
  StaleLoads = TRUE
  MaxReconnects = 1
  MaxCrashes = 1
  MaxBadWrites = 1
  MaxLost = 1
INVARIANTS AnnouncedOnce RemindedOnce
PROPERTIES CompleteMeansNewCode StartIsAnswered
CHECK_DEADLOCK FALSE
