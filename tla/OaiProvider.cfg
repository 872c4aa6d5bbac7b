SPECIFICATION FairSpec
CONSTANTS
    MaxTime = 1
    DayLength = 2
    Ids <- MCIds
    Tags = {"met"}
    ExportTags = {"met"}
    SetTags <- MCSetTags
    SetSpecs = {"metset"}
    Queries <- NarrowQuery
    MaxRecords = 1
    TokenLife = 1
    Validation = TRUE
    Clients = {c1}
    ImportedRows <- StampedRows
    Absent = Absent
    NoToken = NoToken
INVARIANTS
    TypeOK
    PagingComplete
    RepeatsOnlyAfterChange
PROPERTIES
    WalkEnds
