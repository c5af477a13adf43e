INIT MCInit
NEXT MCNext
CHECK_DEADLOCK FALSE
CONSTANTS
    b1 = b1
    b2 = b2
    d1 = d1
    d2 = d2
    m1 = m1
    l1 = l1
    w1 = w1
    w2 = w2
    BackupId = {b1,b2}
    Device = {d1,d2}
    Lineage = {l1}
    Worker = {w1,w2}
    Part = {m1}
    MaxEpoch = 1
    MaxRevision = 1
    LineageQuota = 1
    RetentionCount = 1
    AccountQuota = 2
    MaxRequests = 2
INVARIANTS
    SealedIsKept
    DeletionIsStaged
    NoForgottenObject
    QuotasHold
PROPERTIES
    DestroyedForGood
