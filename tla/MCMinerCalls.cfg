CONSTANTS
    Rows = {cpu}
    MaxPending = 2
    MaxBackoff = 1
    MaxRead = 2
    PoolCalls = TRUE
    MaxSent = 2
    MaxFound = 1
    MaxSessions = 2
    MaxEpoch = 1
    MaxWire = 2
SPECIFICATION Spec
INVARIANTS
    BookedAsAnswered
CHECK_DEADLOCK FALSE
