CONSTANTS
    Cards = {"n1", "n2", "a1", "a2"}
    AmdCards = {"a1", "a2"}
    Address <- MCAddress
    NoPci = NoPci
    NoCard = NoCard
    FanCount = 2
    Accepts <- MCAccepts
    Base = 4
    HashBytes = 4
    HighBytes = 2
    One = 60
    Refused = Refused
    Space = 8
    Word = 4
    Capacity = 2
    BlockDim = 2
    AvxLanes = 2
    Starts = {0, 3, 6}
    MaxScans = 3
    Scenarios <- MCScenarios
    MaxGpus = 3
    MaxThreads = 1
    Logical = 2
SPECIFICATION Spec
INVARIANTS
    CheckedBeforeWritten
    NoFanLeftManual
    AppliedAsAsked
    EachCardOnce
    ScanIsExact
    CandidatesAreExact
    EndIsClean
CHECK_DEADLOCK FALSE
