SPECIFICATION Spec
CONSTANTS
  Agents = {a1, a2}
  Humans = {h}
  System = god
  Modes = {"mention"}
  Naming = TRUE
  MaxEngaged = 1
  MaxMessages = 2
  MaxAgain = 0
  MaxPolicies = 0
INVARIANT AgentsWakeByMentionOnly
SYMMETRY AgentSymmetry
CHECK_DEADLOCK FALSE
