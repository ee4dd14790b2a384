SPECIFICATION ReceiverFairSpec
CONSTANTS
  AbortCount = 3
  SilentIn = {"started"}
  MaxFaults = 6
  MaxStops = 1
PROPERTIES NewConnectionKept HearsAgain
CHECK_DEADLOCK FALSE
