CONSTANTS
    a = a
    b = b
    c = c
    x = x
    y = y
    JobIds = {a, b, c}
    En1s = {x, y}
    Targets = {t}
    None = None
    MaxJobs = 2
    MaxGen = 4
SYMMETRY MCSymmetry
SPECIFICATION Spec
INVARIANTS
    CleanInvalidatesOlder
    ReusedIdReplaces
    FreshCoinbase
    CurrentIsValid
CHECK_DEADLOCK FALSE
