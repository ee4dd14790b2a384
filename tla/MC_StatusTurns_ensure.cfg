SPECIFICATION Spec
CONSTANTS
  Triggers = {t1, t2}
  Sessions = {s1, s2}
  Rooms = {r1, r2}
  RoomOf <- MCRoomOf
  HomeRoom <- MCHomeRoom
  None = None
  MaxEntries = 3
  MaxSpurious = 0
  MaxResets = 0
  t1 = t1
  t2 = t2
  s1 = s1
  s2 = s2
  r1 = r1
  r2 = r2
INVARIANTS OneLinePerTurn
CHECK_DEADLOCK FALSE
