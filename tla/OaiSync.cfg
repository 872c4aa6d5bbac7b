SPECIFICATION SyncSpec
CONSTANTS
    MaxTime = 2
    DayLength = 2
    Ids <- MCIds
    Tags = {"met"}
    ExportTags = {"met"}
    SetTags <- MCSetTags
    SetSpecs = {"metset"}
    Queries <- DayQueries
    MaxRecords = 1
    TokenLife = 0
    Validation = TRUE
    Clients = {c1}
    ImportedRows <- AllRows
    Absent = Absent
    NoToken = NoToken
    Never = Never
    Faults = {}
    MaxFaults = 0
    Writers <- MCWriters
    QuietMidnight = TRUE
    SetSpec = "metset"
    DefaultTag = "met"
INVARIANTS
    SyncTypeOK
    SyncCheckpointSound
