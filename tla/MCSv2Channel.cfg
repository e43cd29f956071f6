CONSTANTS
    JobIds = {j1, j2, j3}
    Hashes = {h1, h2}
    NoHash = NoHash
    MaxJobs = 2
    MaxPending = 3
    MaxGen = 2
    MaxSeq = 3
    PoolJobs = {j1, j2}
    PoolHashes = {h1}
SPECIFICATION ChannelSpec
INVARIANTS
    ValidBuildsOnTip
    OneValidJobPerId
    CurrentIsValid
    AcceptedAreAcknowledged
    ConformingPoolKeepsSession
    VerdictsAgree
PROPERTIES
    ImplementsLedger
    EveryShareSettles
CHECK_DEADLOCK FALSE
