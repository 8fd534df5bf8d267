SPECIFICATION Spec
CONSTANTS
  Me = "me"
  Members <- MCMembers
  Ops <- MCOps
  Commits <- OwnCommits
  Commit <- OwnCatalogue
  Broken = {}
  EpochOf <- OwnEpochs
  Messages = {"hello"}
  MessageTip <- OneMessage
  StartFrontier = {}
  Retained = 3
  Calls = {1}
  Serial = TRUE
  None = None
  Admits <- MCAdmits
  Allows <- MCAllows
  Reach <- MCReach
  Priority <- MCPriority
  Withheld <- MCWithheld
  MaxGeneration = 0
  MaxRestarts = 0
INVARIANTS
  MessagesOpenedOnce
CHECK_DEADLOCK FALSE
