SPECIFICATION Spec
CONSTANTS
  Agents = {a1, a2}
  Humans = {h}
  System = god
  Modes = {"mention", "all"}
  Naming = FALSE
  MaxEngaged = 1
  MaxMessages = 3
  MaxAgain = 1
  MaxPolicies = 1
INVARIANTS NoStorm EngagedByMention
PROPERTY FreshTurnEngaged
SYMMETRY AgentSymmetry
CHECK_DEADLOCK FALSE
