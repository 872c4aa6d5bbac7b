SPECIFICATION FairSpec
CONSTANTS
    local = local
    remote = remote
    to1 = to1
    to2 = to2
    unfit = unfit
    Files = {local, remote}
    Remote = {remote}
    Large = {remote}
    Recipients = {to1, to2, unfit}
    Unfit = {unfit}
    Requests <- MCRequests
    Workers = {w1, w2}
    NoWork = NoWork
    NoFile = NoFile
    MaxJobs = 2
    MaxTime = 1
    MaxFaults = 1
CHECK_DEADLOCK FALSE
INVARIANTS
    TypeOK
    LinksLeadToOwnFiles
    CompleteOrTold
PROPERTIES
    EveryJobIsAnswered
