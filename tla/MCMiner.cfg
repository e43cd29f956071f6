CONSTANTS
    Rows = {cpu, gpu}
    MaxPending = 2
    MaxBackoff = 2
    MaxRead = 2
    PoolCalls = FALSE
    MaxSent = 2
    MaxFound = 1
    MaxSessions = 2
    MaxEpoch = 1
    MaxWire = 1
SPECIFICATION Spec
SYMMETRY RowSymmetry
INVARIANTS
    CountersAddUp
    BookedAsAnswered
    OwnSessionOnly
PROPERTIES
    DrainWaits
    PublishedAddsUp
CHECK_DEADLOCK FALSE
