SPECIFICATION Spec
CONSTANTS
    Users = {user1, user2}
    Addresses = {plain, odd}
    Transfers = {ftp, incomplete}
    Malformed = {odd}
    BadTransfers = {incomplete}
    Requests = {request1, request2}
    NoRequest = NoRequest
    NoRow = NoRow
    MaxRows = 2
    MaxFiles = 2
SYMMETRY Symmetry
CHECK_DEADLOCK FALSE
INVARIANTS
    TypeOK
    OnlyHinderedMiss
    OnlySubscribersAreServed
    DoubledOnlyByRace
