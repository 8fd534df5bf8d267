SPECIFICATION Spec
CONSTANTS
    Entries <- MCEntries
    Bad <- OneBadKey
    MaxMade = 2
    MaxNow = 7
    MaxClockSkew = 2
    ReplayWindow = 4
    None = None
INVARIANTS
    TypeOK
    AcceptedAsMade
    OneRecordPerName
    EnrolledInPossession
    ServedOnce
CHECK_DEADLOCK FALSE
