SPECIFICATION Spec
CONSTANTS
    Honest <- OneHonest
    Bad <- OneBad
    Policies <- MCPolicies
    Operations = {o1, o2}
    Messages = {c1}
    Owner = "a"
    Nonces = {n1, n2}
    MaxRevision = 2
    MaxRecords = 2
    None = None
INVARIANTS
    TypeOK
    OneChain
    AdoptedWasApproved
PROPERTIES
    ConfirmedIsCurrent
SYMMETRY MCSymmetry
CHECK_DEADLOCK FALSE
