SPECIFICATION FairSpec
CONSTANTS
    m1 = m1
    m2 = m2
    m3 = m3
    p1 = p1
    s1 = s1
    s2 = s2
    Message = {m1, m2, m3}
    Label <- Labels
    Size <- Sizes
    Delayed = {m2}
    LongRunning = {m1}
    Process = {p1}
    Slot = {s1, s2}
    Home <- Homes
    NoMessage = NoMessage
    NoSlot = NoSlot
    MaxDeliveries = 2
    MaxFaults = 2
INVARIANTS
    RenewedRunsOnce
PROPERTIES
    DeliversAtLeastOnce
    EveryMessageSettles
CHECK_DEADLOCK FALSE
