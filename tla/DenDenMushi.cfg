CONSTANTS
    Consumers = {c1, c2}
    Handlers = 2
    MaxRetries = 2
    BatchSize = 2
    MaxMessages = 2
    MaxCrashes = 1
SPECIFICATION FairSpec
INVARIANTS
    TypeOK
    NothingLost
    RetriesBounded
PROPERTIES
    DeliversEvents
    EventuallySettled
CHECK_DEADLOCK FALSE
