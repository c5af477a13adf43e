SPECIFICATION DeletionSpec
CHECK_DEADLOCK FALSE
CONSTANTS
    b1 = b1
    d1 = d1
    d2 = d2
    m1 = m1
    l1 = l1
    w1 = w1
    BackupId = {b1}
    Device = {d1}
    Lineage = {l1}
    Worker = {w1}
    Part = {m1}
    MaxEpoch = 1
    MaxRevision = 1
    LineageQuota = 1
    RetentionCount = 1
    AccountQuota = 1
    MaxRequests = 1
PROPERTY AccountDeletionCompletes
