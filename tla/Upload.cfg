SPECIFICATION FairSpec
CONSTANTS
    form1 = form1
    ftp1 = ftp1
    ftp2 = ftp2
    alien = alien
    stray = stray
    part1 = part1
    part2 = part2
    part3 = part3
    odd = odd
    owned = owned
    orphan = orphan
    unlisted = unlisted
    WebNames = {form1}
    FtpNames = {ftp1, ftp2, alien, stray}
    Parts = {part1, part2, part3, odd}
    Misnamed = {odd}
    Contents <- MCContents
    Datasets <- MCDatasets
    DatasetOf <- MCDatasetOf
    OwnedDatasets = {owned}
    FtpDatasets = {owned, orphan}
    Workers = {w1, w2}
    Monitor = Monitor
    None = None
    Faults = {"crash", "lease", "queue", "move"}
    MaxFaults = 1
    MaxPuts = 2
CHECK_DEADLOCK FALSE
INVARIANTS
    TypeOK
    NothingVanishes
    MetadataMatch
    NoFalseAlarm
PROPERTIES
    OnlyLatestIsPublished
    SoundIsAccepted
