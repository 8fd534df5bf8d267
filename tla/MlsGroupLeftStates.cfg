SPECIFICATION Spec
CONSTANTS
  Me = "me"
  Members <- MCMembers
  Ops <- MCOps
  Commits <- OwnCommits
  Commit <- OwnCatalogue
  Broken = {}
  EpochOf <- OwnEpochs
  Messages = {}
  MessageTip <- NoMessages
  StartFrontier = {}
  Retained = 3
  Calls = {1}
  Serial = TRUE
  None = None
  Admits <- MCAdmits
  Allows <- MCAllows
  Reach <- MCReach
  Priority <- MCPriority
  Withheld <- MCWithheld
  MaxGeneration = 0
  MaxRestarts = 0
INVARIANTS
  LeftStatesAhead
CHECK_DEADLOCK FALSE
