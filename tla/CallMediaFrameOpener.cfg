SPECIFICATION Spec
CONSTANTS
  Size = 2
  Epochs <- MCEpochs
  Sealers = {"a", "b", "c"}
  Frames <- MCFrames
  Authentic <- MCAuthentic
  MaxEpochs = 2
  MaxSealers = 1
  Calls = {1, 2}
  None = None
INVARIANTS
  TypeOK
  WindowsExact
  SealersEarned
  OlderDropped
PROPERTIES
  RefusedForCause
  Delivers
CHECK_DEADLOCK FALSE
