SPECIFICATION DeploymentSpec
CONSTANTS
    None = None
    Reference = {r1, r2}
    Matching = {r1, r2}
    Request = {q1}
    Robot = {b1, b2}
    Caller = {c1, c2}
    Worker = {w1}
    MaxRows = 5
    MaxBatches = 3
    ClaimLimit = 2
    ExpireLimit = 2
    MaxRetryCount = 1
    MaxCrashes = 1
    MaxLockLosses = 1
SYMMETRY AllSymmetry
INVARIANTS
    ExpiredReplaced
    SearchCovered
    CompletedIsSearchable
    AskedExactlyOnce
    CompletedIsOwn
    FirstLineSettles
CHECK_DEADLOCK FALSE
