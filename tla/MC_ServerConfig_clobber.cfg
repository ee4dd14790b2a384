SPECIFICATION Spec
CONSTANTS
  Sections = {wake, instr}
  Absent = Absent
  Installed = Installed
  Edits = {e1, e2}
  AppEdits = {a1}
  Wakes = {w1}
  None = None
  Touches <- MCTouches
  MaxFaults = 2
  MaxRestarts = 0
  e1 = e1
  e2 = e2
  wake = wake
  instr = instr
PROPERTIES PendingNotOverwritten
CHECK_DEADLOCK FALSE
