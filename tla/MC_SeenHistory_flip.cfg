SPECIFICATION SeenSpec
CONSTANTS
  Senders = {"alice", "olga"}
  Principal = "olga"
  Me = "agent"
  ReplyStyle = "channel"
  Window = 2
  MaxPosts = 2
  MaxFlips = 1
  MaxExpiries = 0
  MaxReads = 0
INVARIANT SameKeySameContext
CHECK_DEADLOCK FALSE
