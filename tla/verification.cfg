INIT MCInit
NEXT MCNext
SYMMETRY RequestSymmetry
CHECK_DEADLOCK FALSE
CONSTANTS
    a1 = a1
    a2 = a2
    a3 = a3
    v1 = v1
    v2 = v2
    v3 = v3
    k1 = k1
    k2 = k2
    Send = {a1, a2}
    Verify = {v1, v2}
    Key = {k1, k2}
    Purpose = {"registration", "login"}
    Unified = {"registration", "login"}
    ResendDelay = 1
    Lifetime = 1
    Retention = 1
    MaxFailures = 1
    MaxClock = 2
INVARIANTS
    EveryGuessCounts
    OneUsePerCode
    ResendDelayIsKept
    RepeatsDeliverOnce
