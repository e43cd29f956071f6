CONSTANTS
    EventCap = 2
    QueueCap = 3
    MaxEvents = 2
    MaxUpdates = 0
SPECIFICATION Spec
INVARIANTS
    AllWritten
CHECK_DEADLOCK FALSE
