SPECIFICATION FairSpec
CONSTANTS
  Channels <- MCChannels
  Rooms <- MCRooms
  Rows <- MCRows
  Aliases <- MCAliases
  Bundles <- MCBundles
  Autos <- MCAutos
  Tools <- MCTools
  Ungateable <- MCUngateable
  Members <- MCMembers
  Default <- MCDefault
  Features <- MCFeatures
  FeatureNames <- MCFeatures
  Gate = "advanced_tool_controls"
  SlashFlag = "slash_commands"
  DefaultOn <- MCDefaultOn
  Alias <- MCAlias
  Ungated <- MCUngated
  Toolsets <- MCToolsets
  Servers <- MCServers
  Sources <- MCSources
  Verbs <- MCVerbs
  Fillers <- MCFillers
  Shape <- MCShape
  Near <- MCNear
  Messages <- MCMessages
  Policies <- MCPolicies
  Documents <- MCDocuments
  FirstFiles <- MCFirstFiles
  Turns = {t1, t2}
  None = None
  Handlers = {h1, h2}
  MaxEdits = 2
  MaxInputs = 3
  MaxWriteFaults = 1
INVARIANTS ResolvedAsGranted AnsweredAsPromised EchoHolds StaleIsOwed ViewAgrees SameInEveryOrder
PROPERTIES NoDanglingGrant EditsOneChannel WakesDispatch
CHECK_DEADLOCK FALSE
