SPECIFICATION Spec
CONSTANTS
    MaxTime = 2
    DayLength = 2
    Ids = {1, 2}
    Absent = Absent
    NoToken = NoToken
    Never = Never
    Token = Token
    Faults = {"badRecord"}
    MaxFaults = 1
INVARIANTS
    CheckpointSound
