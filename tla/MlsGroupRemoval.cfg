SPECIFICATION FairSpec
CONSTANTS
  Me = "me"
  Members <- MCMembers
  Ops <- MCOps
  Commits <- RemovalCommits
  Commit <- RemovalCatalogue
  Broken = {}
  EpochOf <- RemovalEpochs
  Messages = {}
  MessageTip <- NoMessages
  StartFrontier = {}
  Retained = 3
  Calls = {1}
  Serial = TRUE
  None = None
  Admits <- MCAdmits
  Allows <- MCAllows
  Reach <- MCReach
  Priority <- MCPriority
  Withheld <- MCWithheld
  MaxGeneration = 0
  MaxRestarts = 0
PROPERTIES
  Converges
CHECK_DEADLOCK FALSE
