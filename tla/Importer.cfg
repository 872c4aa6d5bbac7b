SPECIFICATION FairSpec
CONSTANTS
    level1 = level1
    level2 = level2
    Names <- MCNames
    ParentOf <- MCParentOf
    NoName = NoName
    Versions <- DeletingVersions
    Processes = {p1, p2}
    Absent = Absent
    Torn = Torn
    Nobody = Nobody
    Faults = {"writeFails", "statementFails", "isoFails", "crash"}
    MaxFaults = 1
    MaxId = 3
    MaxWork = 3
CHECK_DEADLOCK FALSE
INVARIANTS
    TypeOK
    UndisturbedImportsMirror
    ToldOfIndexed
PROPERTIES
    ImplementsCatalogue
    JobsEnd
