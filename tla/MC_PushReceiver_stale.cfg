SPECIFICATION ReceiverFairSpec
CONSTANTS
  AbortCount = 3
  SilentIn = {"login", "started"}
  MaxFaults = 1
  MaxStops = 0
PROPERTY StaleConnectionNoticed
CHECK_DEADLOCK FALSE
