INIT MCInit
NEXT MCNext
CHECK_DEADLOCK FALSE
CONSTANTS
    u1 = u1
    u2 = u2
    u3 = u3
    u4 = u4
    w1 = w1
    w2 = w2
    o1 = o1
    o2 = o2
    d1 = d1
    d2 = d2
    i1 = i1
    i2 = i2
    i3 = i3
    k1 = k1
    n1 = n1
    n2 = n2
    User = {u1, u2, u3, u4}
    WorkspaceId = {w1, w2}
    WsInvitation = {i1, i2}
    WsKey = {k1}
    ActiveOwnedLimit = 1
    WsMemberLimit = 2
    PendingInviteLimit = 1
    WsMaxRevision = 3
    Org = {o1, o2}
    Department = {d1, d2}
    DepartmentName = {n1, n2}
    OrgInvitation = {i1, i2, i3}
    OrgKey = {k1}
    OwnedLimit = 1
    OrgMemberLimit = 3
    DepartmentLimit = 1
    OrgPendingLimit = 1
    OrgMaxRevision = 4
INVARIANTS OneOwner AccountsLeaveNothing PolicyHistoryIsComplete LimitsHold TenancyReadsAgree
PROPERTIES DissolvedIsFinal MembershipsAreGuarded
