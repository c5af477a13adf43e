INIT MCInit
NEXT MCNext
CHECK_DEADLOCK FALSE
CONSTANTS
    u1 = u1
    u2 = u2
    ws = ws
    org = org
    p1 = p1
    p2 = p2
    mA = mA
    mB = mB
    t1 = t1
    dev = dev
    sup = sup
    op = op
    h1 = h1
    d1 = d1
    d2 = d2
    v1 = v1
    v2 = v2
    v3 = v3
    i1 = i1
    i2 = i2
    k1 = k1
    k2 = k2
    k3 = k3
    c1 = c1
    c2 = c2
    f1 = f1
    s1 = s1
    s2 = s2
    s3 = s3
    x1 = x1
    od = od
    ov1 = ov1
    ov2 = ov2
    q1 = q1
    q2 = q2
    ch = ch
    oi = oi
    ok1 = ok1
    ok2 = ok2
    NoOne = NoOne
    Nobody = Nobody
    User = {u1, u2}
    WsTeam = {ws}
    OrgTeam = {org}
    Owner <- MCOwner
    Definition = {d1, d2}
    Version = {v1, v2, v3}
    Install = {i1, i2}
    Key = {k1, k2, k3}
    Slot = {c1, c2}
    Profile = {f1}
    Provider = {p1, p2}
    ModelName = {mA, mB}
    Tool = {t1}
    Manifest <- MCManifest
    OrgPolicy <- MCOrgPolicy
    MaxPolicies = 2
    Submission = {s1, s2, s3}
    Candidate = {x1}
    Admin = {dev, sup, op}
    AdminRole <- MCAdminRole
    OffDefinition = {od}
    OffVersion = {ov1, ov2}
    PlatformSubmission = {q1, q2}
    Channel = {ch}
    Holder = {h1}
    Bucket <- MCBucket
    Desktop <- MCDesktop
    Rollout <- MCRollout
    Minimum <- MCMinimum
    OffInstall = {oi}
    OffKey = {ok1, ok2}
    MaxRevisions = 4
    MaxDraftRevision = 3
    Scopes = {"personal", "racing", "publishing", "workspace", "candidates", "organization", "submissions", "policies", "drafting", "releasing", "installing"}
INVARIANTS
    CatalogueInOrder
    PoliciesFollow
    ReviewsHold
    ReleaseHistoryHolds
    AgentReadsAgree
PROPERTIES
    DecisionsStand
    ReleasesMoveForward
