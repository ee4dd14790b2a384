SPECIFICATION ConnectFairSpec
CONSTANTS
  MaxResends = 1
  MaxRejects = 1
  MaxLost = 1
  MaxReconnects = 1
  MaxCrashes = 1
  Vouched = {v}
  Invited = {i}
  Attempts = 2
  MaxTroubles = 2
PROPERTY InviteTaken
CHECK_DEADLOCK FALSE
