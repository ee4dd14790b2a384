SPECIFICATION FairSpec
CONSTANTS
  Triggers = {t1}
  Sessions = {s1}
  Rooms = {r1}
  RoomOf <- MCRoomOf
  HomeRoom <- MCHomeRoom
  None = None
  MaxEntries = 2
  MaxSpurious = 1
  MaxResets = 1
  t1 = t1
  t2 = t2
  s1 = s1
  s2 = s2
  r1 = r1
  r2 = r2
PROPERTIES EventuallyDark
CHECK_DEADLOCK FALSE
