------------------------------ MODULE MCTenancy ------------------------------
(***************************************************************************)
(* Small instances of Tenancy.  A behaviour stays in one scope, so that    *)
(* one run covers several small instances.                                 *)
(***************************************************************************)
EXTENDS Tenancy

CONSTANTS u1, u2, u3, u4, w1, w2, o1, o2, d1, d2, i1, i2, i3, k1, n1, n2

VARIABLE scope

MCInit == TenancyInit /\ scope \in {"ws_calls", "ws_accounts", "ws_quota", "ws_crowd", "org_members",
                                   "org_departments", "org_owners", "org_admins", "org_crowd"}
MCSteps == TenancyNext /\ UNCHANGED scope

NoWs == \A w \in WorkspaceId : workspace[w].status = "none"
NoOrgs == \A o \in Org : organization[o].status = "none"
AllActive == \A u \in User : account[u] = "active"

\* Only these accounts act.
Only(us) ==
    \A u \in User \ us : /\ account[u] = "active" /\ call[u] = NoCall
                         /\ \A w \in WorkspaceId : Role(w, u) = "none"
                         /\ \A o \in Org : RoleIn(o, u) = "none"
OneWs == NoOrgs /\ workspace[w2].status = "none" /\ workspace[w1].owner \in {u1, NoOne} /\ Cardinality(wsRecord) <= 1
OneOrg == /\ NoWs /\ organization[o2].status = "none"
          /\ Cardinality({r \in orgRecord : r.op # "dissolve"}) <= 1
FirstInvitation == \A i \in OrgInvitation \ {i1} : orgInvitation[i].status = "none"
NoDepartments == \A o \in Org, d \in Department : department[o][d].status = "none"
MemberRevisions(n) == \A o \in Org, u \in User : orgMember[o][u].revision <= n
OrgRevisions(n) == \A o \in Org : organization[o].policy <= 1 /\ organization[o].revision <= n

\* An organization that only u1 creates, whose invitations come in order.
Founded ==
    /\ OneOrg /\ NoDepartments /\ OrgRevisions(1) /\ stocked = {}
    /\ \A u \in User \ {u1} : RoleIn(o1, u) # "owner"
    /\ orgInvitation[i2].status # "none" => orgInvitation[i1].status # "none"
    /\ orgInvitation[i3].status # "none" => orgInvitation[i2].status # "none"

InScope ==
    CASE scope = "ws_calls" ->
           /\ OneWs /\ Only({u1, u2}) /\ workspace[w1].revision <= 3
           /\ wsInvitation[i2] # NoInvitation =>
                  workspace[w1].revision <= 1 /\ wsInvitation[i1].status = "accepted"
           /\ account[u2] = "active" /\ account[u1] \in {"active", "disabled"}
      [] scope = "ws_accounts" ->
           /\ OneWs /\ Only({u1, u2}) /\ wsInvitation[i2] = NoInvitation
           /\ workspace[w1].revision <= 2
           /\ \A u \in User : member[w1][u].revision <= 1
      [] scope = "ws_quota" ->
           /\ NoOrgs /\ Only({u1}) /\ \A i \in WsInvitation : wsInvitation[i] = NoInvitation
      [] scope = "ws_crowd" ->
           /\ OneWs /\ Only({u1, u2, u3}) /\ AllActive /\ workspace[w1].revision <= 1
           /\ \A u \in User : member[w1][u].revision <= 1 /\ call[u].op \in {"none", "invite", "accept"}
      [] scope = "org_members" ->
           /\ OneOrg /\ Only({u1, u2}) /\ FirstInvitation /\ NoDepartments
           /\ MemberRevisions(3) /\ organization[o1].revision <= 3
      [] scope = "org_departments" ->
           /\ OneOrg /\ Only({u1, u2}) /\ FirstInvitation /\ AllActive /\ stocked = {}
           /\ organization[o1].revision <= 2 /\ MemberRevisions(3) /\ organization[o1].policy <= 1
           /\ \A d \in Department : department[o1][d].revision <= 2
      [] scope = "org_owners" ->
           /\ NoWs /\ Only({u1, u2}) /\ FirstInvitation /\ NoDepartments /\ Cardinality(orgRecord) <= 1
           /\ stocked = {} /\ MemberRevisions(3) /\ OrgRevisions(3)
           /\ \A u \in User : account[u] \in {"active", "pending"}
      [] scope = "org_admins" ->
           /\ Founded /\ Only({u1, u2, u3}) /\ MemberRevisions(3) /\ orgInvitation[i3].status = "none"
           /\ \A u \in {u2, u3} : account[u] # "disabled" /\ RoleIn(o1, u) # "auditor"
      [] scope = "org_crowd" -> Founded /\ AllActive /\ MemberRevisions(1)

\* A step that stays within the scope's bounds
MCNext == MCSteps /\ InScope'
=============================================================================
