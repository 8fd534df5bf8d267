SPECIFICATION Spec
CONSTANTS
  Me = "me"
  Members <- MCMembers
  Ops <- MCOps
  Commits <- GroupCommits
  Commit <- GroupCatalogue
  Broken = {}
  EpochOf <- GroupEpochs
  Messages = {}
  MessageTip <- NoMessages
  StartFrontier = {}
  Retained = 2
  Calls = {1}
  Serial = TRUE
  None = None
  Admits <- MCAdmits
  Allows <- MCAllows
  Reach <- MCReach
  Priority <- MCPriority
  Withheld <- MCWithheld
  MaxGeneration = 1
  MaxRestarts = 1
INVARIANTS
  TypeOK
  Lineage
  BranchPermitted
  OldStatesDropped
  SuspectsKept
  NoSuspectWhileWaiting
PROPERTIES
  OwnCommitsStand
  LeftStatesResumed
  SettledStays
CHECK_DEADLOCK FALSE
