SPECIFICATION Spec
CONSTANTS
    Schedules = {s1}
    ScheduleDays = 3
    Day = 2
    Retentions = {1, 2}
    MaxRetention = 1
    MaxNow = 7
    MaxRevision = 1
    MaxEnvelopes = 1
    MaxOpens = 1
    None = None
INVARIANTS
    TypeOK
    ReadableUntilExpiry
    GoneForGood
    OneMailboxPerMoment
PROPERTIES
    OpensWithKeptKeys
CHECK_DEADLOCK FALSE
