INIT MCInit
NEXT MCNext
SYMMETRY WorkerSymmetry
CONSTANTS
    u1 = u1
    u2 = u2
    d1 = d1
    d2 = d2
    s1 = s1
    s2 = s2
    s3 = s3
    w1 = w1
    w2 = w2
    w3 = w3
    User = {u1, u2}
    Device = {d1, d2}
    Session = {s1, s2, s3}
    Worker = {w1, w2}
    ActiveLimit = 1
    Requests = {"authorize", "refresh", "change_password", "self_revoke", "device_revoke"}
INVARIANTS
    OneTipPerFamily
    ActiveDevicesWithinLimit
