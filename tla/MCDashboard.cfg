CONSTANTS
    EventCap = 2
    QueueCap = 3
    MaxEvents = 7
    MaxUpdates = 2
SPECIFICATION Spec
INVARIANTS
    LogInOrder
    NewestKept
PROPERTIES
    DestructorReturns
CHECK_DEADLOCK FALSE
