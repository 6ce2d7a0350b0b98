SPECIFICATION Spec
CONSTANTS
    Actions = {1, 2, 3}
    Stamp <- Stamps
    Batch = 2
    Ring = 2
    Limit = 1
    MaxFails = 2
    MaxDrops = 0
    MaxListings = 0
INVARIANT ReplayIsWhole
CHECK_DEADLOCK FALSE
