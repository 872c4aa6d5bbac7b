SPECIFICATION Spec
CONSTANTS
    MaxTime = 1
    DayLength = 2
    Ids <- MCIds
    Tags = {"met"}
    ExportTags = {"met"}
    SetTags <- MCSetTags
    SetSpecs = {"metset"}
    Queries <- NarrowQuery
    MaxRecords = 1
    TokenLife = 0
    Validation = TRUE
    Clients = {c1}
    ImportedRows <- StampedRows
    Absent = Absent
    NoToken = NoToken
PROPERTIES
    DeletedMeansDeleted
