SPECIFICATION FairSpec
CONSTANTS
  Me = "me"
  Members <- MCMembers
  Ops <- BothOps
  Commits <- RivalCommits
  Commit <- RivalCatalogue
  Broken = {4}
  EpochOf <- RivalEpochs
  Messages = {"hello"}
  MessageTip <- OneMessage
  StartFrontier = {}
  Retained = 3
  Calls = {1}
  Serial = TRUE
  None = None
  Admits <- MCAdmits
  Allows <- MCAllows
  Reach <- MCReach
  Priority <- MCPriority
  Withheld <- MCWithheld
  MaxGeneration = 0
  MaxRestarts = 0
INVARIANTS
  RivalsTotallyOrdered
PROPERTIES
  Converges
CHECK_DEADLOCK FALSE
