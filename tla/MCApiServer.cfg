CONSTANTS
    Clients = {a, b}
    RequestSize = 2
    MaxRequest = 3
    ReplySize = 2
    NotFound = NotFound
    NoClient = NoClient
    MaxUpdates = 2
SPECIFICATION Spec
INVARIANTS
    ReplyIsCurrent
PROPERTIES
    DestructorReturns
    EveryClientHasItsTurn
CHECK_DEADLOCK FALSE
