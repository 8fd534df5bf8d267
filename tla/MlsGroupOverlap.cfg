SPECIFICATION Spec
CONSTANTS
  Me = "me"
  Members <- MCMembers
  Ops <- BothOps
  Commits <- RetakeCommits
  Commit <- RetakeCatalogue
  Broken = {}
  EpochOf <- RetakeEpochs
  Messages = {}
  MessageTip <- NoMessages
  StartFrontier = {}
  Retained = 3
  Calls = {1, 2}
  Serial = FALSE
  None = None
  Admits <- MCAdmits
  Allows <- MCAllows
  Reach <- MCReach
  Priority <- MCPriority
  Withheld <- MCWithheld
  MaxGeneration = 1
  MaxRestarts = 0
INVARIANTS
  TakenEpochsLeft
CHECK_DEADLOCK FALSE
