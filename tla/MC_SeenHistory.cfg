SPECIFICATION SeenSpec
CONSTANTS
  Senders = {"alice", "olga"}
  Principal = "olga"
  Me = "agent"
  ReplyStyle = "thread"
  Window = 2
  MaxPosts = 3
  MaxFlips = 1
  MaxExpiries = 1
  MaxReads = 1
INVARIANT MarkMeansShown
PROPERTY WakeKnowsItsHistory
CHECK_DEADLOCK FALSE
