SPECIFICATION ConnectFairSpec
CONSTANTS
  MaxResends = 1
  MaxRejects = 1
  MaxLost = 1
  MaxReconnects = 1
  MaxCrashes = 1
  Vouched = {v}
  Invited = {i}
  Attempts = 2
  MaxTroubles = 2
INVARIANTS OneHelloEach OneAcceptAtATime
PROPERTIES GreetedOnceFinalized VouchTaken
CHECK_DEADLOCK FALSE
