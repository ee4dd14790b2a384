SPECIFICATION Spec
CONSTANTS
  Sections = {wake, instr}
  Absent = Absent
  Installed = Installed
  Edits = {e1, e2}
  AppEdits = {}
  Wakes = {w1}
  None = None
  Touches <- MCTouches
  MaxFaults = 1
  MaxRestarts = 1
  e1 = e1
  e2 = e2
  wake = wake
  instr = instr
PROPERTIES UnpushedEditOutlivesRestart
CHECK_DEADLOCK FALSE
