SPECIFICATION Spec
CONSTANTS
    small = small
    medium = medium
    series = series
    map = map
    Files = {small, medium}
    Parents = {series}
    Leaves = {map}
    ChildrenOf <- MCChildrenOf
    SizeOf <- MCSizeOf
    MaxSize = 2
    MaxFiles = 2
    MaxFilesOfGuests = 1
    Slots = {r1, r2}
    Idle = Idle
    Lists <- MCLists
    MaxRequests = 4
SYMMETRY Symmetry
CHECK_DEADLOCK FALSE
INVARIANTS
    TypeOK
    BasketIsKept
    NeverOverfilled
