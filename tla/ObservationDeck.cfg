SPECIFICATION Spec
CONSTANTS
    Actions = {1, 2, 3}
    Stamp <- Stamps
    Batch = 2
    Ring = 2
    Limit = 1
    MaxFails = 2
    MaxDrops = 3
    MaxListings = 1
INVARIANTS
    BufferIsNewest
    ListedOnce
PROPERTY StreamEnds
CHECK_DEADLOCK FALSE
