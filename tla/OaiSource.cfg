SPECIFICATION FairSpec
CONSTANTS
    MaxTime = 2
    DayLength = 2
    Ids = {1, 2}
    Absent = Absent
    NoToken = NoToken
    Never = Never
    Token = Token
    Faults = {"down", "empty", "malformed", "badRecord", "expired",
              "writeFails", "importFails", "statusFails", "crash"}
    MaxFaults = 1
INVARIANTS
    TypeOK
    OnlyLostAreMissed
PROPERTIES
    CopyNeverRegresses
    EventuallyMirrored
