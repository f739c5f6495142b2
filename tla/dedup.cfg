SPECIFICATION DeploymentSpec
CONSTANTS
    r1 = r1
    r2 = r2
    r3 = r3
    r4 = r4
    id1 = id1
    id2 = id2
    NoRef = NoRef
    NoDecision = NoDecision
    Reference = {r1, r2, r3, r4}
    Worker = {w1}
    Handler = {h1}
    Decision = {1, 2, 3, 4, 5, 6}
    TrustedIds <- Trusted
    OtherIds <- Others
    TestEnv = TRUE
    ReservedIds = 2
    MaxRetries = 0
    MaxCrashes = 1
    MaxLockLosses = 1
INVARIANTS
    NoChaining
    OneTreePerIdentifier
    ReadersAgree
PROPERTIES
    SerialCommitIsIndexed
    DecidedOnce
CHECK_DEADLOCK FALSE
