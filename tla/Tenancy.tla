------------------------------- MODULE Tenancy -------------------------------
(***************************************************************************)
(* Accounts, workspaces and organizations together: the account operations *)
(* that depend on what an account owns, and what they do to it             *)
(* (internal/account/lifecycle_repository.go).                             *)
(***************************************************************************)
EXTENDS Workspace, Organization

tenancyVars == <<wsVars, orgVars>>

wsOwn == <<workspace, member, wsInvitation, wsRecord, call>>
orgOwn == <<organization, snapshots, orgMember, department, orgInvitation, orgRecord, stocked>>

\* lockOwnedOrganizations: the organizations that keep the account from going.
lockOwnedOrganizations(u) == OwnedOrganizations(u)

RequestDeletion(u) ==
    /\ account[u] = "active"
    /\ lockOwnedOrganizations(u) = {}
    /\ SetAccount(u, "pending")
    /\ UNCHANGED <<wsOwn, orgOwn>>

FinalizeDeletion(u) ==
    /\ account[u] = "elapsed"
    /\ lockOwnedOrganizations(u) = {}
    /\ SetAccount(u, "finalized")
    /\ EraseFromWorkspaces(u) /\ EraseFromOrganizations(u)
    /\ UNCHANGED call

\* One transaction of the maintenance pass.
cleanupExpiredRows ==
    /\ \E old \in SUBSET wsRecord : expireWorkspaceRows(old)
    /\ \E old \in SUBSET orgRecord : expireOrganizationRows(old)
    /\ UNCHANGED account

\* The recovery window is seven days; a call, which lasts seconds, has ended long
\* before it does.
StatusStep(u) ==
    /\ DisableUser(u) \/ EnableUser(u) \/ RecoverDeletion(u) \/ (RecoveryWindowEnds(u) /\ call[u] = NoCall)
    /\ UNCHANGED <<wsOwn, orgOwn>>

TenancyInit == account = [u \in User |-> "active"] /\ WsInit /\ OrgInit

TenancyNext ==
    \/ WsNext /\ UNCHANGED orgOwn
    \/ OrgNext /\ UNCHANGED wsOwn
    \/ cleanupExpiredRows
    \/ \E u \in User : RequestDeletion(u) \/ FinalizeDeletion(u) \/ StatusStep(u)

TenancySpec == TenancyInit /\ [][TenancyNext]_tenancyVars

\* An erased account is in no workspace and no organization, owns none, and has
\* no idempotency record; what it owned alone is gone with it.
ErasedLeavesNothing ==
    \A u \in User : account[u] = "finalized" =>
        /\ \A w \in WorkspaceId : Role(w, u) = "none" /\ ~(Exists(w) /\ workspace[w].owner = u)
        /\ \A o \in Org : RoleIn(o, u) = "none"
        /\ \A r \in wsRecord : r.actor # u
        /\ \A r \in orgRecord : r.actor # u

\* Accounts leave nothing behind: one that asked for its deletion owns no
\* organization, and an erased one is found nowhere (RequestDeletion,
\* FinalizeDeletion).
AccountsLeaveNothing == OwnersStay /\ ErasedLeavesNothing

\* Whatever calls are in flight at once, the limits on owned workspaces,
\* members, departments and pending invitations hold, and invitations and
\* departments are only used while what they belong to is active.
LimitsHold == WsQuotasHold /\ ArchivedIsClosed /\ InvitationsBounded /\ DepartmentsConsistent

\* Lists, summaries and answers to repeated commands agree with one another and
\* with what the next write will do, in workspaces and in organizations.
TenancyReadsAgree == WsReadsAgree /\ OrgReadsAgree /\ WsRetriesAnswered /\ RetriesAnswered

\* A membership changes only as its guards allow, although calls act on what
\* they read before: an archived workspace keeps its members, a role change or
\* removal meets the role its caller saw, and admins keep their rank while the
\* organization's owner is away.
MembershipsAreGuarded ==
    [][ArchivedKeepsMembers /\ SeenIsWhatChanges /\ AdminsKeepRank]_tenancyVars
=============================================================================
