SPECIFICATION LiveSpec
CONSTANTS
    r1 = r1
    c1 = c1
    w1 = w1
    None = None
    Reference = {r1, r2}
    Matching = {r1}
    Request = {q1}
    Robot = {b1}
    Caller = {c1, c2}
    Worker = {w1, w2}
    MaxRows = 2
    MaxBatches = 2
    ClaimLimit = 2
    ExpireLimit = 1
    MaxRetryCount = 0
    MaxCrashes = 1
    MaxLockLosses = 1
PROPERTIES
    NoRowIsStuck
    ClaimedOnce
CHECK_DEADLOCK FALSE
