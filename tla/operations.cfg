INIT MCInit
NEXT MCNext
CONSTANTS
    u1 = u1  u2 = u2  d1 = d1  d2 = d2  s1 = s1  s2 = s2  p1 = p1  p2 = p2
    b1 = b1  b2 = b2  r1 = r1  r2 = r2  k1 = k1  k2 = k2  m1 = m1
    v1 = v1  v2 = v2  v3 = v3  n1 = n1  n2 = n2  x1 = x1  x2 = x2
    o1 = o1  o2 = o2  c1 = c1  c2 = c2  a1 = a1  a2 = a2  y1 = y1  h1 = h1  h2 = h2
    User = {u1, u2}
    Device = {d1, d2}
    Session = {s1, s2}
    Password = {p1, p2}
    ActiveLimit = 1
    MaxRevision = 3
    Operation = {o1, o2}
    Key = {k1, k2}
    Asked <- MCAsked
    Browser = {b1, b2}
    Grant = {r1, r2}
    StateKey = {k1, k2}
    Message = {m1}
    Value = {v1, v2, v3}
    Kind <- MCKind
    Server = {n1, n2}
    Receipt = {x1, x2}
    OldKey = k1
    NewKey = k2
    SmallestKey = k2
    Command = {c1, c2}
    CheckKey = {y1}
    Admin = {a1, a2}
    HealthCode = {h1, h2}
    Healthy = h1
    OnlineFor = 1
    commandLifetime = 2
    MaxWait = 1
    MaxClock = 3
    Id = {1, 2, 3}
    MaxTime = 2
    PageLimit = {1, 2}
    CursorKey = {k1, k2}
INVARIANTS
    OneEventPerOperation
    AnswersAgree
    UsedOnce
    IdentitiesHold
    DevicesAreOwned
    ChecksSettleOnce
    PagesAreComplete
    OperatorReadsAgree
PROPERTIES
    ImplementsRegister
CHECK_DEADLOCK FALSE
