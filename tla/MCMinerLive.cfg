CONSTANTS
    Rows = {cpu}
    MaxPending = 1
    MaxBackoff = 2
    MaxRead = 1
    PoolCalls = TRUE
    MaxSent = 1
    MaxFound = 1
    MaxSessions = 2
    MaxEpoch = 2
    MaxWire = 1
SPECIFICATION Spec
INVARIANT WorkIsNewest
PROPERTY Terminates
CHECK_DEADLOCK FALSE
