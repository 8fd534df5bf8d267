SPECIFICATION Spec
CONSTANTS
    Packages = {p1}
    None = None
    Handles = {h1, h2}
    MaxMembers = 2
    MaxBorn = 3
INVARIANTS
    TypeOK
    NeverBehind
    PackageStartsOneHistory
    KeysWhileNeeded
    UsableKeepsSecrets
PROPERTIES
    OneHistory
    TransitionEnds
CHECK_DEADLOCK FALSE
