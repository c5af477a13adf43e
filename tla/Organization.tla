----------------------------- MODULE Organization -----------------------------
(***************************************************************************)
(* Organizations (internal/organization): membership and roles, ownership, *)
(* departments, invitations, published policies, and the life cycle        *)
(* active, archived, dissolved.  Every mutation locks the caller's account *)
(* and then the organization row, so a mutation is one step.  A command    *)
(* carries the revisions of the rows its client read.                      *)
(***************************************************************************)
EXTENDS Accounts, Integers, FiniteSets, FiniteSetsExt

CONSTANTS
    Org, Department, DepartmentName, OrgInvitation, OrgKey,
    OwnedLimit, OrgMemberLimit, DepartmentLimit, OrgPendingLimit,
    OrgMaxRevision     \* bound on revisions and policy versions

ASSUME OrganizationParameters ==
    /\ IsFiniteSet(User) /\ IsFiniteSet(Org) /\ IsFiniteSet(Department) /\ IsFiniteSet(OrgInvitation)
    /\ OwnedLimit \in Nat \ {0} /\ OrgMemberLimit \in Nat \ {0} /\ DepartmentLimit \in Nat \ {0}
    /\ OrgPendingLimit \in Nat \ {0} /\ OrgMaxRevision \in Nat \ {0}

VARIABLES
    organization,   \* organizations: status, revision, version of the current policy
    snapshots,      \* organization_policy_snapshots: <<organization, version>>
    orgMember,      \* organization_memberships: role ("none" without a row), department, revision
    department,     \* organization_departments: status ("none" without a row), name, revision
    orgInvitation,  \* organization_invitations
    orgRecord,      \* organization_idempotency_records
    stocked         \* organizations with agents, pending submissions or installations of theirs

orgVars == <<account, organization, snapshots, orgMember, department, orgInvitation, orgRecord, stocked>>

OrgRole == {"owner", "admin", "auditor", "member"}
NoDepartment == "no department"
NoName == "no name"
NoOrg == "no organization"
NoMember == [role |-> "none", department |-> NoDepartment, revision |-> 0]
NoDeptRow == [status |-> "none", name |-> NoName, revision |-> 0]
NoOrgInvitation == [org |-> NoOrg, status |-> "none", lapsed |-> FALSE]

OrgStatus(o) == organization[o].status
OrgExists(o) == OrgStatus(o) \in {"active", "archived"}
RoleIn(o, u) == orgMember[o][u].role
MembersOf(o) == {u \in User : RoleIn(o, u) # "none"}
OwnersOf(o) == {u \in User : RoleIn(o, u) = "owner"}
OwnedOrganizations(u) == {o \in Org : OrgExists(o) /\ RoleIn(o, u) = "owner"}
OrgPending(o) == {i \in OrgInvitation : orgInvitation[i].org = o /\ orgInvitation[i].status = "pending"}
ActiveDepartments(o) == {d \in Department : department[o][d].status = "active"}

\* Another active department has the name (its key; a change of case is a rename).
activeDepartmentNameExists(o, name, d) ==
    \E e \in ActiveDepartments(o) \ {d} : department[o][e].name = name

\* loadLockedOrganization: the organization is not dissolved, the caller is a member.
Locked(u, o) == ActiveActor(u) /\ OrgExists(o) /\ RoleIn(o, u) # "none"

\* requireActiveOrganizationMutation with allowAdmin.
requireActiveOrganizationMutation(u, o) ==
    Locked(u, o) /\ OrgStatus(o) = "active" /\ RoleIn(o, u) \in {"owner", "admin"}

\* authorizeMemberPatch; role is the new role, or the old one when only the
\* department changes.
authorizeMemberPatch(o, u, t, role) ==
    /\ RoleIn(o, t) # "owner" /\ role # "owner"
    /\ RoleIn(o, u) = "admin" => RoleIn(o, t) # "admin" /\ role # "admin"

\* readOrganizationOperationIdempotency finds nothing: the command is new.
Fresh(u, op, k) == ~\E r \in orgRecord : r.actor = u /\ r.op = op /\ r.key = k
\* about is the resource that a repeat is answered with.
OrgRecordRow(u, op, k, o, about) == [actor |-> u, op |-> op, key |-> k, org |-> o, about |-> about]
insertOrganizationIdempotency(u, op, k, o, about) ==
    orgRecord' = orgRecord \cup {OrgRecordRow(u, op, k, o, about)}

Bump(o) == organization' = [organization EXCEPT ![o].revision = @ + 1]
Ranked(row, role) == [row EXCEPT !.role = role, !.revision = @ + 1]
SetOrgMember(o, u, row) == orgMember' = [orgMember EXCEPT ![o][u] = row]
SettleInvitations(from, new) ==
    orgInvitation' = [i \in OrgInvitation |->
        IF i \in from THEN [orgInvitation[i] EXCEPT !.status = new] ELSE orgInvitation[i]]
------------------------------------------------------------------------------
(* The repository's transactions. *)

create(u, o, k) ==
    /\ ActiveActor(u) /\ Fresh(u, "create", k)
    /\ Cardinality(OwnedOrganizations(u)) < OwnedLimit
    /\ OrgStatus(o) = "none"
    /\ organization' = [organization EXCEPT ![o] = [status |-> "active", revision |-> 1, policy |-> 1]]
    /\ snapshots' = snapshots \cup {<<o, 1>>}
    /\ SetOrgMember(o, u, [role |-> "owner", department |-> NoDepartment, revision |-> 1])
    /\ insertOrganizationIdempotency(u, "create", k, o, o)
    /\ UNCHANGED <<department, orgInvitation>>

rename(u, o, revision) ==
    /\ requireActiveOrganizationMutation(u, o)
    /\ organization[o].revision = revision
    /\ Bump(o)
    /\ UNCHANGED <<snapshots, orgMember, department, orgInvitation, orgRecord>>

patchMember(u, o, t, role, d, revision) ==
    LET old == orgMember[o][t]
    IN  /\ requireActiveOrganizationMutation(u, o)
        /\ old.role # "none" /\ old.revision = revision
        /\ authorizeMemberPatch(o, u, t, role)
        /\ d # NoDepartment => department[o][d].status = "active"
        /\ <<role, d>> # <<old.role, old.department>>
        /\ SetOrgMember(o, t, [role |-> role, department |-> d, revision |-> revision + 1])
        /\ UNCHANGED <<organization, snapshots, department, orgInvitation, orgRecord>>

removeMember(u, o, t, revision) ==
    /\ requireActiveOrganizationMutation(u, o)
    /\ RoleIn(o, t) \notin {"none", "owner"} /\ orgMember[o][t].revision = revision
    /\ RoleIn(o, u) = "admin" => RoleIn(o, t) # "admin"
    /\ SetOrgMember(o, t, NoMember)
    /\ UNCHANGED <<organization, snapshots, department, orgInvitation, orgRecord>>

leave(u, o) ==
    /\ Locked(u, o) /\ OrgStatus(o) = "active" /\ RoleIn(o, u) # "owner"
    /\ SetOrgMember(o, u, NoMember)
    /\ UNCHANGED <<organization, snapshots, department, orgInvitation, orgRecord>>

createDepartment(u, o, d, name) ==
    /\ requireActiveOrganizationMutation(u, o)
    /\ Cardinality(ActiveDepartments(o)) < DepartmentLimit
    /\ ~activeDepartmentNameExists(o, name, d)
    /\ department[o][d].status = "none"
    /\ department' = [department EXCEPT ![o][d] = [status |-> "active", name |-> name, revision |-> 1]]
    /\ UNCHANGED <<organization, snapshots, orgMember, orgInvitation, orgRecord>>

renameDepartment(u, o, d, name, revision) ==
    /\ requireActiveOrganizationMutation(u, o)
    /\ department[o][d].status = "active" /\ department[o][d].revision = revision
    /\ ~activeDepartmentNameExists(o, name, d)
    /\ department' = [department EXCEPT ![o][d].name = name, ![o][d].revision = @ + 1]
    /\ UNCHANGED <<organization, snapshots, orgMember, orgInvitation, orgRecord>>

changeDepartmentLifecycle(u, o, d, new, revision) ==
    LET row == department[o][d]
    IN  /\ requireActiveOrganizationMutation(u, o)
        /\ row.revision = revision
        /\ \/ /\ new = "archived" /\ row.status = "active"
              /\ \A t \in User : orgMember[o][t].department # d
           \/ /\ new = "active" /\ row.status = "archived"
              /\ Cardinality(ActiveDepartments(o)) < DepartmentLimit
              /\ ~activeDepartmentNameExists(o, row.name, d)
        /\ department' = [department EXCEPT ![o][d].status = new, ![o][d].revision = @ + 1]
        /\ UNCHANGED <<organization, snapshots, orgMember, orgInvitation, orgRecord>>

\* Mutant: promotes the target and leaves the old owner's row.
transferOwnerTwice(u, o, t, k, revision, ownerRevision, targetRevision) ==
    /\ Locked(u, o) /\ Fresh(u, "transfer", k) /\ RoleIn(o, u) = "owner"
    /\ organization[o].revision = revision /\ orgMember[o][u].revision = ownerRevision
    /\ account[t] = "active"
    /\ RoleIn(o, t) = "admin" /\ orgMember[o][t].revision = targetRevision
    /\ SetOrgMember(o, t, Ranked(orgMember[o][t], "owner"))
    /\ Bump(o)
    /\ insertOrganizationIdempotency(u, "transfer", k, o, o)
    /\ UNCHANGED <<snapshots, department, orgInvitation>>

\* Mutant: does not lock the target's account and look at its status.
transferOwnerToAnyone(u, o, t, k, revision, ownerRevision, targetRevision) ==
    /\ Locked(u, o) /\ Fresh(u, "transfer", k) /\ RoleIn(o, u) = "owner"
    /\ organization[o].revision = revision /\ orgMember[o][u].revision = ownerRevision
    /\ RoleIn(o, t) = "admin" /\ orgMember[o][t].revision = targetRevision
    /\ orgMember' = [orgMember EXCEPT
           ![o][u] = Ranked(orgMember[o][u], "admin"),
           ![o][t] = Ranked(orgMember[o][t], "owner")]
    /\ Bump(o)
    /\ insertOrganizationIdempotency(u, "transfer", k, o, o)
    /\ UNCHANGED <<snapshots, department, orgInvitation>>

\* The target's account is locked after the organization and must be active.
transferOwner(u, o, t, k, revision, ownerRevision, targetRevision) ==
    /\ Locked(u, o) /\ Fresh(u, "transfer", k) /\ RoleIn(o, u) = "owner"
    /\ organization[o].revision = revision /\ orgMember[o][u].revision = ownerRevision
    /\ account[t] = "active"
    /\ RoleIn(o, t) = "admin" /\ orgMember[o][t].revision = targetRevision
    /\ orgMember' = [orgMember EXCEPT
           ![o][u] = Ranked(orgMember[o][u], "admin"),
           ![o][t] = Ranked(orgMember[o][t], "owner")]
    /\ Bump(o)
    /\ insertOrganizationIdempotency(u, "transfer", k, o, o)
    /\ UNCHANGED <<snapshots, department, orgInvitation>>

\* Mutant: writes the snapshot and leaves the organization at the old one.
publishPolicyDetached(u, o, k, revision, version) ==
    /\ requireActiveOrganizationMutation(u, o) /\ Fresh(u, "policy", k)
    /\ organization[o].revision = revision
    /\ version = organization[o].policy + 1
    /\ <<o, version>> \notin snapshots
    /\ snapshots' = snapshots \cup {<<o, version>>}
    /\ Bump(o)
    /\ insertOrganizationIdempotency(u, "policy", k, o, version)
    /\ UNCHANGED <<orgMember, department, orgInvitation>>

publishPolicy(u, o, k, revision, version) ==
    /\ requireActiveOrganizationMutation(u, o) /\ Fresh(u, "policy", k)
    /\ organization[o].revision = revision
    /\ version = organization[o].policy + 1
    /\ <<o, version>> \notin snapshots
    /\ snapshots' = snapshots \cup {<<o, version>>}
    /\ organization' = [organization EXCEPT ![o].policy = version, ![o].revision = @ + 1]
    /\ insertOrganizationIdempotency(u, "policy", k, o, version)
    /\ UNCHANGED <<orgMember, department, orgInvitation>>

archive(u, o, k, revision) ==
    /\ Locked(u, o) /\ Fresh(u, "archive", k) /\ RoleIn(o, u) = "owner"
    /\ OrgStatus(o) = "active" /\ organization[o].revision = revision
    /\ organization' = [organization EXCEPT ![o].status = "archived", ![o].revision = @ + 1]
    /\ SettleInvitations(OrgPending(o), "revoked")
    /\ insertOrganizationIdempotency(u, "archive", k, o, o)
    /\ UNCHANGED <<snapshots, orgMember, department>>

\* The organization itself counts as owned, so the comparison is strict.
restore(u, o, k, revision) ==
    /\ Locked(u, o) /\ Fresh(u, "restore", k) /\ RoleIn(o, u) = "owner"
    /\ OrgStatus(o) = "archived" /\ organization[o].revision = revision
    /\ ~(Cardinality(OwnedOrganizations(u)) > OwnedLimit)
    /\ organization' = [organization EXCEPT ![o].status = "active", ![o].revision = @ + 1]
    /\ insertOrganizationIdempotency(u, "restore", k, o, o)
    /\ UNCHANGED <<snapshots, orgMember, department, orgInvitation>>

\* Mutant: does not ask the guard of the organization's agents.
dissolveUnguarded(u, o, k, revision) ==
    /\ Locked(u, o) /\ Fresh(u, "dissolve", k) /\ RoleIn(o, u) = "owner"
    /\ OrgStatus(o) = "archived" /\ organization[o].revision = revision
    /\ MembersOf(o) = {u} /\ OrgPending(o) = {} /\ orgMember[o][u].department = NoDepartment
    /\ organization' = [organization EXCEPT ![o].status = "dissolved", ![o].revision = @ + 1]
    /\ orgMember' = [orgMember EXCEPT ![o] = [t \in User |-> NoMember]]
    /\ department' = [department EXCEPT ![o] = [d \in Department |-> NoDeptRow]]
    /\ SettleInvitations({i \in OrgInvitation : orgInvitation[i].org = o}, "deleted")
    /\ orgRecord' = {r \in orgRecord : r.org # o} \cup {OrgRecordRow(u, "dissolve", k, o, o)}
    /\ UNCHANGED snapshots

\* Every row of the organization goes but its own, its policies and the record.
dissolve(u, o, k, revision) ==
    /\ Locked(u, o) /\ Fresh(u, "dissolve", k) /\ RoleIn(o, u) = "owner"
    /\ OrgStatus(o) = "archived" /\ organization[o].revision = revision
    /\ o \notin stocked
    /\ MembersOf(o) = {u} /\ OrgPending(o) = {} /\ orgMember[o][u].department = NoDepartment
    /\ organization' = [organization EXCEPT ![o].status = "dissolved", ![o].revision = @ + 1]
    /\ orgMember' = [orgMember EXCEPT ![o] = [t \in User |-> NoMember]]
    /\ department' = [department EXCEPT ![o] = [d \in Department |-> NoDeptRow]]
    /\ SettleInvitations({i \in OrgInvitation : orgInvitation[i].org = o}, "deleted")
    /\ orgRecord' = {r \in orgRecord : r.org # o} \cup {OrgRecordRow(u, "dissolve", k, o, o)}
    /\ UNCHANGED snapshots

createInvitation(u, o, i, k) ==
    LET overdue == {j \in OrgPending(o) : orgInvitation[j].lapsed}
    IN  /\ requireActiveOrganizationMutation(u, o) /\ Fresh(u, "invite", k)
        /\ Cardinality(OrgPending(o) \ overdue) < OrgPendingLimit
        /\ orgInvitation[i].status = "none"
        /\ orgInvitation' = [j \in OrgInvitation |->
               IF j = i THEN [org |-> o, status |-> "pending", lapsed |-> FALSE]
               ELSE IF j \in overdue THEN [orgInvitation[j] EXCEPT !.status = "expired"]
               ELSE orgInvitation[j]]
        /\ insertOrganizationIdempotency(u, "invite", k, o, i)
        /\ UNCHANGED <<organization, snapshots, orgMember, department>>

revokeInvitation(u, o, i) ==
    /\ requireActiveOrganizationMutation(u, o)
    /\ i \in OrgPending(o) /\ ~orgInvitation[i].lapsed
    /\ SettleInvitations({i}, "revoked")
    /\ UNCHANGED <<organization, snapshots, orgMember, department, orgRecord>>

\* The conditions on the invitation and its organization, read under their locks.
Open(i) ==
    /\ orgInvitation[i].status = "pending" /\ ~orgInvitation[i].lapsed
    /\ OrgStatus(orgInvitation[i].org) = "active"

acceptInvitation(u, i, k) ==
    LET o == orgInvitation[i].org
    IN  /\ ActiveActor(u) /\ Fresh(u, "accept", k)
        /\ Open(i)
        /\ \/ RoleIn(o, u) # "none" /\ UNCHANGED orgMember
           \/ /\ RoleIn(o, u) = "none" /\ Cardinality(MembersOf(o)) < OrgMemberLimit
              /\ SetOrgMember(o, u, [role |-> "member", department |-> NoDepartment, revision |-> 1])
        /\ SettleInvitations({i}, "accepted")
        /\ insertOrganizationIdempotency(u, "accept", k, o, u)
        /\ UNCHANGED <<organization, snapshots, department>>
------------------------------------------------------------------------------
(* The service.  The client read the rows just before, so the revisions it *)
(* sends are the current ones; older ones are refused and leave no trace.  *)

Outer == UNCHANGED <<account, stocked>>
Revisable(o) == organization[o].revision < OrgMaxRevision
MemberRevisable(o, u) == orgMember[o][u].revision < OrgMaxRevision
DeptRevisable(o, d) == department[o][d].revision < OrgMaxRevision

OrgCreate(u, o, k) == create(u, o, k) /\ Outer

OrgRename(u, o) == Revisable(o) /\ rename(u, o, organization[o].revision) /\ Outer

PatchMember(u, o, t, role, d) ==
    MemberRevisable(o, t) /\ patchMember(u, o, t, role, d, orgMember[o][t].revision) /\ Outer

OrgRemoveMember(u, o, t) == removeMember(u, o, t, orgMember[o][t].revision) /\ Outer

OrgLeave(u, o) == leave(u, o) /\ Outer

CreateDepartment(u, o, d, name) == createDepartment(u, o, d, name) /\ Outer

RenameDepartment(u, o, d, name) ==
    DeptRevisable(o, d) /\ renameDepartment(u, o, d, name, department[o][d].revision) /\ Outer

ArchiveOrRestoreDepartment(u, o, d, new) ==
    /\ DeptRevisable(o, d)
    /\ changeDepartmentLifecycle(u, o, d, new, department[o][d].revision)
    /\ Outer

TransferOwner(u, o, t, k) ==
    /\ t # u /\ Revisable(o) /\ MemberRevisable(o, u) /\ MemberRevisable(o, t)
    /\ transferOwner(u, o, t, k, organization[o].revision, orgMember[o][u].revision,
                     orgMember[o][t].revision)
    /\ Outer

PublishPolicy(u, o, k) ==
    /\ Revisable(o)
    /\ publishPolicy(u, o, k, organization[o].revision, organization[o].policy + 1)
    /\ Outer

OrgArchive(u, o, k) == Revisable(o) /\ archive(u, o, k, organization[o].revision) /\ Outer

OrgRestore(u, o, k) == Revisable(o) /\ restore(u, o, k, organization[o].revision) /\ Outer

Dissolve(u, o, k) == Revisable(o) /\ dissolve(u, o, k, organization[o].revision) /\ Outer

OrgCreateInvitation(u, o, k) == (\E i \in OrgInvitation : createInvitation(u, o, i, k)) /\ Outer

OrgRevokeInvitation(u, o, i) == revokeInvitation(u, o, i) /\ Outer

OrgAcceptInvitation(u, i, k) == acceptInvitation(u, i, k) /\ Outer
------------------------------------------------------------------------------
(* Agents of the organization, time, cleanup and account deletion. *)

\* Agents appear in an active organization (agentcontrol) and may be withdrawn.
Stock(o) ==
    /\ stocked' = IF o \in stocked THEN stocked \ {o} ELSE stocked \cup {o}
    /\ OrgStatus(o) = "active"
    /\ UNCHANGED <<account, organization, snapshots, orgMember, department, orgInvitation, orgRecord>>

OrgLapse(i) ==
    /\ orgInvitation[i].status = "pending" /\ ~orgInvitation[i].lapsed
    /\ orgInvitation' = [orgInvitation EXCEPT ![i].lapsed = TRUE]
    /\ UNCHANGED <<account, organization, snapshots, orgMember, department, orgRecord, stocked>>

\* The organizations' part of cleanupExpiredRows.
expireOrganizationRows(old) ==
    /\ SettleInvitations({i \in OrgInvitation :
           orgInvitation[i].status = "pending" /\ orgInvitation[i].lapsed}, "expired")
    /\ orgRecord' = orgRecord \ old
    /\ UNCHANGED <<organization, snapshots, orgMember, department, stocked>>

\* What FinalizeDeletion does to organizations: the account owns none, and leaves all.
EraseFromOrganizations(u) ==
    /\ orgMember' = [o \in Org |-> [t \in User |->
           IF t = u /\ RoleIn(o, t) # "owner" THEN NoMember ELSE orgMember[o][t]]]
    /\ orgRecord' = {r \in orgRecord : r.actor # u}
    /\ UNCHANGED <<organization, snapshots, department, orgInvitation, stocked>>
------------------------------------------------------------------------------
(* Reads.  Each list is one statement and sees one state. *)

\* requireOrganizationMembership: the role, or a refusal.
requireOrganizationMembership(u, o) == OrgExists(o) /\ RoleIn(o, u) # "none"
FullReader(u, o) ==
    requireOrganizationMembership(u, o) /\ RoleIn(o, u) \in {"owner", "admin", "auditor"}

\* An overdue invitation that cleanup has not marked yet reads as expired.
scanOrganizationInvitation(i) ==
    IF orgInvitation[i].status = "pending" /\ orgInvitation[i].lapsed THEN "expired"
    ELSE orgInvitation[i].status

\* loadOrganizationSummary joins the current policy and refuses what
\* scanOrganizationSummary cannot read.
Summary(u, o) ==
    {s \in {[org |-> o, role |-> RoleIn(o, u), members |-> Cardinality(MembersOf(o)),
             departments |-> Cardinality(ActiveDepartments(o)), policy |-> organization[o].policy]} :
        /\ requireOrganizationMembership(u, o)
        /\ <<o, s.policy>> \in snapshots /\ s.members >= 1 /\ s.policy > 0}

\* loadDissolvedOrganizationSummary: the answer to a repeated dissolution.
DissolvedSummary(o) ==
    {organization[o].policy : p \in {q \in {organization[o]} :
        q.status = "dissolved" /\ <<o, q.policy>> \in snapshots /\ q.policy > 0}}

ListForActor(u) == UNION {Summary(u, o) : o \in Org}

OrgListMembers(u, o) ==
    {[user |-> t, row |-> orgMember[o][t]] : t \in
        {t \in User : requireOrganizationMembership(u, o) /\ RoleIn(o, t) # "none"}}

ListDepartments(u, o) ==
    {[id |-> d, status |-> department[o][d].status,
      members |-> Cardinality({t \in User : orgMember[o][t].department = d})] : d \in
        {d \in Department : requireOrganizationMembership(u, o) /\ department[o][d].status # "none"}}

CurrentPolicy(u, o) ==
    {v \in {organization[o].policy} : requireOrganizationMembership(u, o) /\ <<o, v>> \in snapshots}

ListPolicySnapshots(u, o) ==
    {v \in 1..OrgMaxRevision : FullReader(u, o) /\ <<o, v>> \in snapshots}

GetPolicySnapshot(u, o, v) == {x \in {v} : FullReader(u, o) /\ <<o, x>> \in snapshots}

listInvitations(u, o) ==
    {[id |-> i, status |-> scanOrganizationInvitation(i)] : i \in
        {i \in OrgInvitation : /\ orgInvitation[i].org = o /\ orgInvitation[i].status # "deleted"
                               /\ requireOrganizationMembership(u, o)
                               /\ RoleIn(o, u) \in {"owner", "admin"}}}

\* What a repeated command is answered with: commitOrganizationSummaryReplay,
\* the snapshot it published, the invitation it created, the membership.
Replayed(r) ==
    CASE r.op = "dissolve" -> DissolvedSummary(r.about)
      [] r.op = "policy" -> GetPolicySnapshot(r.actor, r.org, r.about)
      [] r.op = "invite" -> {i \in {r.about} : orgInvitation[i].org = r.org
                                               /\ orgInvitation[i].status # "deleted"}
      [] OTHER -> Summary(r.actor, r.org)
------------------------------------------------------------------------------
OrgInit ==
    /\ organization = [o \in Org |-> [status |-> "none", revision |-> 0, policy |-> 0]]
    /\ snapshots = {}
    /\ orgMember = [o \in Org |-> [u \in User |-> NoMember]]
    /\ department = [o \in Org |-> [d \in Department |-> NoDeptRow]]
    /\ orgInvitation = [i \in OrgInvitation |-> NoOrgInvitation]
    /\ orgRecord = {}
    /\ stocked = {}

OrgMemberStep(u, o) ==
    \/ OrgRename(u, o) \/ OrgLeave(u, o)
    \/ \E t \in User : OrgRemoveMember(u, o, t)
    \/ \E t \in User, role \in OrgRole, d \in Department \cup {NoDepartment} :
          PatchMember(u, o, t, role, d)
    \/ \E d \in Department, name \in DepartmentName :
          CreateDepartment(u, o, d, name) \/ RenameDepartment(u, o, d, name)
    \/ \E d \in Department, new \in {"active", "archived"} : ArchiveOrRestoreDepartment(u, o, d, new)
    \/ \E i \in OrgInvitation : OrgRevokeInvitation(u, o, i)

OrgKeyedStep(u, o, k) ==
    \/ OrgCreate(u, o, k) \/ PublishPolicy(u, o, k) \/ OrgCreateInvitation(u, o, k)
    \/ OrgArchive(u, o, k) \/ OrgRestore(u, o, k) \/ Dissolve(u, o, k)
    \/ \E t \in User : TransferOwner(u, o, t, k)

OrgNext ==
    \/ \E u \in User, o \in Org : OrgMemberStep(u, o) \/ \E k \in OrgKey : OrgKeyedStep(u, o, k)
    \/ \E u \in User, i \in OrgInvitation, k \in OrgKey : OrgAcceptInvitation(u, i, k)
    \/ \E o \in Org : Stock(o)
    \/ \E i \in OrgInvitation : OrgLapse(i)
------------------------------------------------------------------------------
OrgTypeOK ==
    /\ organization \in [Org -> [status : {"none", "active", "archived", "dissolved"},
                                 revision : 0..OrgMaxRevision, policy : 0..OrgMaxRevision]]
    /\ snapshots \subseteq Org \X (1..OrgMaxRevision)
    /\ orgMember \in [Org -> [User -> [role : OrgRole \cup {"none"}, revision : 0..OrgMaxRevision,
                                      department : Department \cup {NoDepartment}]]]
    /\ department \in [Org -> [Department -> [status : {"none", "active", "archived"},
                            name : DepartmentName \cup {NoName}, revision : 0..OrgMaxRevision]]]
    /\ stocked \subseteq Org

\* An active or archived organization has exactly one owner, a dissolved one has
\* no member: what the deferred constraint trigger demands at every commit is
\* what transfers, removals, departures and account deletions leave.
OneOwner ==
    \A o \in Org : IF OrgExists(o) THEN Cardinality(OwnersOf(o)) = 1 ELSE MembersOf(o) = {}

\* No account that asked for its deletion, or was erased, owns an organization:
\* the request is refused while it owns one, and a transfer cannot make it owner.
\* (An account an administrator disabled keeps what it owns.)
OwnersStay ==
    \A o \in Org, u \in User : u \in OwnersOf(o) => account[u] \in {"active", "disabled"}

\* Members are assigned to active departments only, and active departments of an
\* organization have different names, within their limit.
DepartmentsConsistent ==
    \A o \in Org :
        /\ \A u \in User : orgMember[o][u].department \in ActiveDepartments(o) \cup {NoDepartment}
        /\ \A d, e \in ActiveDepartments(o) : department[o][d].name = department[o][e].name => d = e
        /\ Cardinality(ActiveDepartments(o)) <= DepartmentLimit

\* The published policies of an organization are the versions 1 to the current
\* one without a gap, through archive, restore and dissolution.
PolicyHistoryIsComplete ==
    \A o \in Org : {v \in 1..OrgMaxRevision : <<o, v>> \in snapshots} = 1..organization[o].policy

\* Invitations can be accepted only while the organization is active, and never
\* push it beyond its limits.
InvitationsBounded ==
    \A o \in Org : /\ OrgStatus(o) # "active" => OrgPending(o) = {}
                   /\ Cardinality(OrgPending(o)) <= OrgPendingLimit
                   /\ Cardinality(MembersOf(o)) <= OrgMemberLimit

\* Reads agree with one another and with what a write will do.  A member gets a
\* summary whose counts are those of the lists and whose policy is the newest
\* listed; every full reader can open each listed policy; members are listed in
\* departments that count them; an invitation shown as pending can be accepted.
OrgReadsAgree ==
    \A u \in User, o \in Org : RoleIn(o, u) # "none" =>
        \E s \in ListForActor(u) :
            /\ s.org = o /\ s.members = Cardinality(OrgListMembers(u, o))
            /\ s.departments = Cardinality({d \in ListDepartments(u, o) : d.status = "active"})
            /\ CurrentPolicy(u, o) = {s.policy}
            /\ FullReader(u, o) => s.policy = Max(ListPolicySnapshots(u, o))
            /\ \A v \in ListPolicySnapshots(u, o) : GetPolicySnapshot(u, o, v) # {}
            /\ \A m \in OrgListMembers(u, o) : m.row.department # NoDepartment =>
                   \E d \in ListDepartments(u, o) : d.id = m.row.department /\ d.members > 0
            /\ \A i \in listInvitations(u, o) : i.status = "pending" => Open(i.id)

\* A repeated command of an active caller is answered from its record.  A
\* dissolution or a new invitation is, whatever happened since: the dissolved
\* organization keeps its summary, and no other record outlives an organization.
\* The rest are answered while the caller is a member, a published policy while
\* the caller may read policies.
RetriesAnswered ==
    \A r \in orgRecord :
        /\ r.op # "dissolve" => OrgExists(r.org)
        /\ Replayed(r) = {} =>
              \/ r.op = "policy" /\ ~FullReader(r.actor, r.org)
              \/ r.op \notin {"policy", "invite", "dissolve"} /\ RoleIn(r.org, r.actor) = "none"

\* A dissolved organization holds no agents, and never changes again but for the
\* cleanup of its last idempotency record.
DissolvedIsFinal ==
    [][\A o \in Org : OrgStatus(o) = "dissolved" =>
          /\ o \notin stocked'
          /\ organization'[o] = organization[o] /\ orgMember'[o] = orgMember[o]
          /\ department'[o] = department[o]
          /\ {v \in 1..OrgMaxRevision : <<o, v>> \in snapshots'} =
             {v \in 1..OrgMaxRevision : <<o, v>> \in snapshots}]_orgVars

\* While the owner's account is not active, admins keep each other: the row of an
\* admin changes only when that admin leaves or with the deletion of the account.
AdminsKeepRank ==
    \A o \in Org, t \in User :
        /\ RoleIn(o, t) = "admin" /\ orgMember'[o][t] # orgMember[o][t]
        /\ \A u \in OwnersOf(o) : ~ActiveActor(u)
        => orgMember'[o][t] = NoMember /\ account[t] \in {"active", "elapsed"}
=============================================================================
