CONSTANTS
    NSlots = 2
    Batch <- MCBatch
    Span = 4
    Rows = 2
    TimeMod = 3
    MaxGen = 2
    JobTime <- MCJobTime
    MaxQueue = 1
    Winning <- MCWinning
SPECIFICATION Spec
INVARIANTS
    NoOverlap
    NoDuplicateShare
    NoGap
 
CHECK_DEADLOCK FALSE
