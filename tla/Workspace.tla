------------------------------ MODULE Workspace ------------------------------
(***************************************************************************)
(* Shared workspaces (internal/workspace).  A call of the service takes    *)
(* three steps.  It authorizes the caller on what it reads through the     *)
(* pool; its transaction reads the accounts of the caller and of the owner *)
(* without locking them; and under the locks on the workspace and on the   *)
(* caller's membership it decides and writes.  Between the steps, calls of *)
(* other members, account operations and cleanup may run.                  *)
(***************************************************************************)
EXTENDS Accounts, Integers, FiniteSets, FiniteSetsExt

CONSTANTS
    WorkspaceId, WsInvitation, WsKey,
    ActiveOwnedLimit, WsMemberLimit, PendingInviteLimit,
    WsMaxRevision      \* bound on revisions, of workspaces and of memberships

ASSUME WorkspaceParameters ==
    /\ IsFiniteSet(User) /\ IsFiniteSet(WorkspaceId) /\ IsFiniteSet(WsInvitation)
    /\ ActiveOwnedLimit \in Nat \ {0} /\ WsMemberLimit \in Nat \ {0}
    /\ PendingInviteLimit \in Nat \ {0} /\ WsMaxRevision \in Nat \ {0}

VARIABLES
    workspace,     \* workspaces: status ("none" before, "deleted" after the row), owner, revision
    member,        \* workspace_memberships: role ("none" without a row) and revision
    wsInvitation,  \* workspace_invitations: workspace, status, and whether expires_at has passed
    wsRecord,      \* workspace_idempotency_records
    call           \* the service call each user has in progress, and whether its transaction
                   \* has read the accounts

wsVars == <<account, workspace, member, wsInvitation, wsRecord, call>>

WsRole == {"none", "owner", "admin", "member"}
NoRow == [role |-> "none", revision |-> 0]
NoOne == "no one"
Nowhere == "nowhere"
NoWorkspace == [status |-> "none", owner |-> NoOne, revision |-> 0]
NoInvitation == [ws |-> Nowhere, status |-> "none", lapsed |-> FALSE]
NoCall == [op |-> "none"]

\* The permissions table.
Permitted(op) ==
    CASE op \in {"rename", "invite", "revoke", "remove"} -> {"owner", "admin"}
      [] op \in {"role", "archive", "restore"} -> {"owner"}
      [] op = "leave" -> {"admin", "member"}
      [] op = "read" -> {"owner", "admin", "member"}

Role(w, u) == member[w][u].role
Members(w) == {u \in User : Role(w, u) # "none"}
Exists(w) == workspace[w].status \in {"active", "archived"}
ActiveOwned(u) == {w \in WorkspaceId : workspace[w].owner = u /\ workspace[w].status = "active"}
WsPending(w) == {i \in WsInvitation : wsInvitation[i].ws = w /\ wsInvitation[i].status = "pending"}

\* scanWorkspace refuses a row whose Owner membership does not match.
OwnerMatches(w) == {u \in User : Role(w, u) = "owner"} = {workspace[w].owner}

OwnerActive(w) == account[workspace[w].owner] = "active"

MutationState(w) ==
    IF workspace[w].status = "archived" THEN "archived"
    ELSE IF OwnerActive(w) THEN "writable"
    ELSE "owner_unavailable"

\* What loadWorkspace returns for the caller, or a refusal.
Loaded(u, w) == Exists(w) /\ Role(w, u) # "none" /\ OwnerMatches(w)

\* Mutant: trusts the status the service read.
WritableAsRead(u, w, roles) == Loaded(u, w) /\ Role(w, u) \in roles

\* What a transaction knows under its locks.  The accounts are not locked: that
\* they were active is what Admit read before.
Writable(u, w, roles) == Loaded(u, w) /\ workspace[w].status = "active" /\ Role(w, u) \in roles

\* readWorkspaceIdempotency and readOperationIdempotency.
WsRecorded(u, op, k) == {r \in wsRecord : r.actor = u /\ r.op = op /\ r.key = k}
Record(u, op, k, about, w) ==
    wsRecord' = wsRecord \cup {[actor |-> u, op |-> op, key |-> k, about |-> about, ws |-> w]}

SetMember(w, u, row) == member' = [member EXCEPT ![w][u] = row]
Settle(w, new) ==
    wsInvitation' = [i \in WsInvitation |->
        IF i \in WsPending(w) THEN [wsInvitation[i] EXCEPT !.status = new] ELSE wsInvitation[i]]
------------------------------------------------------------------------------
(* The repository's transactions, from the lock on the workspace on.  A    *)
(* record names the resource that a repeat is answered with.               *)

\* lockActiveActor locks the creator's account.
wsCreate(u, w, k) ==
    /\ ActiveActor(u)
    /\ WsRecorded(u, "create", k) = {}
    /\ Cardinality(ActiveOwned(u)) < ActiveOwnedLimit
    /\ workspace[w].status = "none"
    /\ workspace' = [workspace EXCEPT ![w] = [status |-> "active", owner |-> u, revision |-> 1]]
    /\ SetMember(w, u, [role |-> "owner", revision |-> 1])
    /\ Record(u, "create", k, w, w)
    /\ UNCHANGED wsInvitation

wsRename(u, w, revision) ==
    /\ Writable(u, w, {"owner", "admin"})
    /\ workspace[w].revision = revision
    /\ workspace' = [workspace EXCEPT ![w].revision = @ + 1]
    /\ UNCHANGED <<member, wsInvitation, wsRecord>>

wsArchive(u, w, revision) ==
    /\ Writable(u, w, {"owner"})
    /\ workspace[w].revision = revision
    /\ workspace' = [workspace EXCEPT ![w].status = "archived", ![w].revision = @ + 1]
    /\ Settle(w, "revoked")
    /\ UNCHANGED <<member, wsRecord>>

\* Mutant: trusts the count made when the workspace was created.
wsRestoreUncounted(u, w, revision) ==
    /\ Loaded(u, w) /\ workspace[w].status = "archived" /\ Role(w, u) = "owner"
    /\ workspace[w].revision = revision
    /\ workspace' = [workspace EXCEPT ![w].status = "active", ![w].revision = @ + 1]
    /\ UNCHANGED <<member, wsInvitation, wsRecord>>

wsRestore(u, w, revision) ==
    /\ Loaded(u, w) /\ workspace[w].status = "archived" /\ Role(w, u) = "owner"
    /\ workspace[w].revision = revision
    /\ Cardinality(ActiveOwned(u)) < ActiveOwnedLimit
    /\ workspace' = [workspace EXCEPT ![w].status = "active", ![w].revision = @ + 1]
    /\ UNCHANGED <<member, wsInvitation, wsRecord>>

wsChangeMemberRole(u, w, t, role, revision) ==
    /\ Writable(u, w, {"owner"})
    /\ Role(w, t) \notin {"none", "owner", role}
    /\ member[w][t].revision = revision
    /\ SetMember(w, t, [role |-> role, revision |-> revision + 1])
    /\ UNCHANGED <<workspace, wsInvitation, wsRecord>>

wsRemoveMember(u, w, t, revision) ==
    /\ Writable(u, w, {"owner", "admin"})
    /\ Role(w, t) \notin {"none", "owner"}
    /\ Role(w, u) = "admin" => Role(w, t) = "member"
    /\ member[w][t].revision = revision
    /\ SetMember(w, t, NoRow)
    /\ UNCHANGED <<workspace, wsInvitation, wsRecord>>

wsLeave(u, w) ==
    /\ Writable(u, w, {"admin", "member"})
    /\ SetMember(w, u, NoRow)
    /\ UNCHANGED <<workspace, wsInvitation, wsRecord>>

\* Overdue invitations are marked expired before the pending ones are counted.
wsCreateInvitation(u, w, i, k) ==
    LET overdue == {j \in WsPending(w) : wsInvitation[j].lapsed}
    IN  /\ Writable(u, w, {"owner", "admin"})
        /\ WsRecorded(u, "invite", k) = {}
        /\ Cardinality(WsPending(w) \ overdue) < PendingInviteLimit
        /\ wsInvitation[i].status = "none"
        /\ wsInvitation' = [j \in WsInvitation |->
               IF j = i THEN [ws |-> w, status |-> "pending", lapsed |-> FALSE]
               ELSE IF j \in overdue THEN [wsInvitation[j] EXCEPT !.status = "expired"]
               ELSE wsInvitation[j]]
        /\ Record(u, "invite", k, i, w)
        /\ UNCHANGED <<workspace, member>>

\* An overdue invitation that is still pending can be revoked.
wsRevokeInvitation(u, w, i) ==
    /\ Writable(u, w, {"owner", "admin"})
    /\ i \in WsPending(w)
    /\ wsInvitation' = [wsInvitation EXCEPT ![i].status = "revoked"]
    /\ UNCHANGED <<workspace, member, wsRecord>>

\* The conditions on the invitation and its workspace under their locks.
Acceptable(i) ==
    LET w == wsInvitation[i].ws
    IN  /\ wsInvitation[i].status = "pending" /\ ~wsInvitation[i].lapsed
        /\ workspace[w].status = "active" /\ OwnerMatches(w)

\* A caller who already is a member uses the invitation up and keeps the row.
wsAcceptInvitation(u, i, k) ==
    LET w == wsInvitation[i].ws
    IN  /\ WsRecorded(u, "accept", k) = {}
        /\ Acceptable(i)
        /\ \/ Role(w, u) # "none" /\ UNCHANGED member
           \/ /\ Role(w, u) = "none" /\ Cardinality(Members(w)) < WsMemberLimit
              /\ SetMember(w, u, [role |-> "member", revision |-> 1])
        /\ wsInvitation' = [wsInvitation EXCEPT ![i].status = "accepted"]
        /\ Record(u, "accept", k, u, w)
        /\ UNCHANGED workspace
------------------------------------------------------------------------------
(* The service. *)

authorize(u, w, op) == ActiveActor(u) /\ Loaded(u, w) /\ Role(w, u) \in Permitted(op)

authorizeMutable(u, w, op) == authorize(u, w, op) /\ MutationState(w) = "writable"

\* findTargetMember and the checks on the row it finds.
TargetSeen(u, w, t, op, role) ==
    /\ Role(w, t) \notin {"none", "owner", role}
    /\ op = "remove" /\ Role(w, u) = "admin" => Role(w, t) = "member"

Begin(u, c) ==
    /\ call[u] = NoCall
    /\ call' = [call EXCEPT ![u] = c]
    /\ UNCHANGED <<account, workspace, member, wsInvitation, wsRecord>>

\* The transaction's reads of accounts: requireActiveActor's, and that of the
\* owner in loadWorkspace's statement, which locks the workspace and the
\* membership but not the owner's row.
Admit(u) ==
    /\ call[u] # NoCall /\ ~call[u].admitted
    /\ ActiveActor(u) /\ OwnerActive(call[u].ws)
    /\ call' = [call EXCEPT ![u].admitted = TRUE]
    /\ UNCHANGED <<account, workspace, member, wsInvitation, wsRecord>>

Executing(u, op) ==
    /\ call[u].op = op /\ call[u].admitted
    /\ call' = [call EXCEPT ![u] = NoCall]
    /\ UNCHANGED account

CreateWorkspace(u, w, k) == call[u] = NoCall /\ wsCreate(u, w, k) /\ UNCHANGED <<account, call>>

RenameWorkspace(u, w) ==
    \/ /\ authorizeMutable(u, w, "rename") /\ workspace[w].revision < WsMaxRevision
       /\ Begin(u, [op |-> "rename", admitted |-> FALSE, ws |-> w, revision |-> workspace[w].revision])
    \/ Executing(u, "rename") /\ call[u].ws = w /\ wsRename(u, w, call[u].revision)

ArchiveWorkspace(u, w) ==
    \/ /\ authorizeMutable(u, w, "archive") /\ workspace[w].revision < WsMaxRevision
       /\ Begin(u, [op |-> "archive", admitted |-> FALSE, ws |-> w, revision |-> workspace[w].revision])
    \/ Executing(u, "archive") /\ call[u].ws = w /\ wsArchive(u, w, call[u].revision)

RestoreWorkspace(u, w) ==
    \/ /\ authorize(u, w, "restore") /\ workspace[w].status = "archived"
       /\ workspace[w].revision < WsMaxRevision
       /\ Begin(u, [op |-> "restore", admitted |-> FALSE, ws |-> w, revision |-> workspace[w].revision])
    \/ Executing(u, "restore") /\ call[u].ws = w /\ wsRestore(u, w, call[u].revision)

ChangeMemberRole(u, w, t, role) ==
    \/ /\ authorizeMutable(u, w, "role") /\ TargetSeen(u, w, t, "role", role)
       /\ member[w][t].revision < WsMaxRevision
       /\ Begin(u, [op |-> "role", admitted |-> FALSE, ws |-> w, target |-> t, role |-> role,
                    revision |-> member[w][t].revision, seen |-> Role(w, t)])
    \/ /\ Executing(u, "role") /\ call[u].ws = w /\ call[u].target = t /\ call[u].role = role
       /\ wsChangeMemberRole(u, w, t, role, call[u].revision)

WsServiceRemoveMember(u, w, t) ==
    \/ /\ authorizeMutable(u, w, "remove") /\ TargetSeen(u, w, t, "remove", "none")
       /\ Begin(u, [op |-> "remove", admitted |-> FALSE, ws |-> w, target |-> t,
                    revision |-> member[w][t].revision, seen |-> Role(w, t)])
    \/ /\ Executing(u, "remove") /\ call[u].ws = w /\ call[u].target = t
       /\ wsRemoveMember(u, w, t, call[u].revision)

LeaveWorkspace(u, w) ==
    \/ authorizeMutable(u, w, "leave") /\ Begin(u, [op |-> "leave", admitted |-> FALSE, ws |-> w])
    \/ Executing(u, "leave") /\ call[u].ws = w /\ wsLeave(u, w)

WsServiceCreateInvitation(u, w, k) ==
    \/ authorizeMutable(u, w, "invite") /\ Begin(u, [op |-> "invite", admitted |-> FALSE, ws |-> w, key |-> k])
    \/ /\ Executing(u, "invite") /\ call[u].ws = w /\ call[u].key = k
       /\ \E i \in WsInvitation : wsCreateInvitation(u, w, i, k)

WsServiceRevokeInvitation(u, w, i) ==
    \/ authorizeMutable(u, w, "revoke") /\ i \in WsPending(w)
       /\ Begin(u, [op |-> "revoke", admitted |-> FALSE, ws |-> w, invitation |-> i])
    \/ /\ Executing(u, "revoke") /\ call[u].ws = w /\ call[u].invitation = i
       /\ wsRevokeInvitation(u, w, i)

\* The service reads nothing before the transaction; requireActiveActor and the
\* statement that locks the invitation and its workspace read the accounts.
WsServiceAcceptInvitation(u, i, k) ==
    \/ /\ ActiveActor(u) /\ wsInvitation[i].status \notin {"none", "deleted"}
       /\ OwnerActive(wsInvitation[i].ws)
       /\ Begin(u, [op |-> "accept", admitted |-> TRUE, ws |-> wsInvitation[i].ws, invitation |-> i, key |-> k])
    \/ /\ Executing(u, "accept") /\ call[u].invitation = i /\ call[u].key = k
       /\ wsAcceptInvitation(u, i, k)

\* The repository refuses the call, or the client or the database fails it.
WsRefused(u) ==
    /\ call[u] # NoCall
    /\ call' = [call EXCEPT ![u] = NoCall]
    /\ UNCHANGED <<account, workspace, member, wsInvitation, wsRecord>>
------------------------------------------------------------------------------
(* Time, cleanup and account deletion. *)

WsLapse(i) ==
    /\ wsInvitation[i].status = "pending" /\ ~wsInvitation[i].lapsed
    /\ wsInvitation' = [wsInvitation EXCEPT ![i].lapsed = TRUE]
    /\ UNCHANGED <<account, workspace, member, wsRecord, call>>

\* The workspaces' part of cleanupExpiredRows; old are the records past their 24 hours.
expireWorkspaceRows(old) ==
    /\ wsInvitation' = [i \in WsInvitation |->
           IF wsInvitation[i].status = "pending" /\ wsInvitation[i].lapsed
           THEN [wsInvitation[i] EXCEPT !.status = "expired"] ELSE wsInvitation[i]]
    /\ wsRecord' = wsRecord \ old
    /\ UNCHANGED <<workspace, member, call>>

\* What FinalizeDeletion does to workspaces: the ones the account owns go, with
\* their rows, and the account leaves the others.
EraseFromWorkspaces(u) ==
    LET owned == {w \in WorkspaceId : Exists(w) /\ workspace[w].owner = u}
    IN  /\ workspace' = [w \in WorkspaceId |->
               IF w \in owned THEN [workspace[w] EXCEPT !.status = "deleted"] ELSE workspace[w]]
        /\ member' = [w \in WorkspaceId |-> [t \in User |->
               IF w \in owned \/ (t = u /\ Role(w, t) # "owner") THEN NoRow ELSE member[w][t]]]
        /\ wsInvitation' = [i \in WsInvitation |->
               IF wsInvitation[i].ws \in owned THEN [wsInvitation[i] EXCEPT !.status = "deleted"]
               ELSE wsInvitation[i]]
        /\ wsRecord' = {r \in wsRecord : r.actor # u /\ r.ws \notin owned}
------------------------------------------------------------------------------
(* Reads.  Each is one statement on the pool, so it sees one state. *)

\* Mutant: shows the stored status.
scanInvitationStored(i) == wsInvitation[i].status

\* An overdue invitation that cleanup has not marked yet reads as expired.
scanInvitation(i) ==
    IF wsInvitation[i].status = "pending" /\ wsInvitation[i].lapsed THEN "expired"
    ELSE wsInvitation[i].status

findMember(w, u) == {m \in {[user |-> u, role |-> Role(w, u)]} : m.role # "none"}

\* One unreadable workspace fails the whole list.
ListWorkspaces(u) ==
    LET joined == {w \in WorkspaceId : Exists(w) /\ Role(w, u) # "none"}
    IN  IF ActiveActor(u) /\ joined = {w \in joined : Loaded(u, w)}
        THEN {[ws |-> w, role |-> Role(w, u), count |-> Cardinality(Members(w)),
               state |-> MutationState(w)] : w \in joined}
        ELSE {}

ListMembers(u, w) ==
    IF ActiveActor(u) /\ Loaded(u, w) THEN UNION {findMember(w, t) : t \in User} ELSE {}

ListInvitations(u, w) ==
    IF authorize(u, w, "invite")
    THEN {[id |-> i, status |-> scanInvitation(i)] : i \in {j \in WsInvitation : wsInvitation[j].ws = w}}
    ELSE {}

\* What a repeated command is answered with.  A repeated creation or acceptance
\* reads the workspace, and the membership; a repeated invitation passes the
\* service's authorizeMutable again and reads the invitation (loadInvitation).
MayInvite(u, w) == MutationState(w) = "writable" /\ Role(w, u) \in Permitted("invite")
WsReplay(r) ==
    CASE r.op = "create" -> {w \in {r.about} : Loaded(r.actor, w)}
      [] r.op = "accept" -> {m \in findMember(r.ws, r.about) : Loaded(r.actor, r.ws)}
      [] r.op = "invite" -> {i \in {r.about} : /\ Loaded(r.actor, r.ws) /\ MayInvite(r.actor, r.ws)
                                               /\ wsInvitation[i].ws = r.ws
                                               /\ wsInvitation[i].status # "deleted"}
------------------------------------------------------------------------------
WsInit ==
    /\ workspace = [w \in WorkspaceId |-> NoWorkspace]
    /\ member = [w \in WorkspaceId |-> [u \in User |-> NoRow]]
    /\ wsInvitation = [i \in WsInvitation |-> NoInvitation]
    /\ wsRecord = {}
    /\ call = [u \in User |-> NoCall]

WsCall(u, w) ==
    \/ RenameWorkspace(u, w) \/ ArchiveWorkspace(u, w) \/ RestoreWorkspace(u, w)
    \/ LeaveWorkspace(u, w)
    \/ \E t \in User : WsServiceRemoveMember(u, w, t)
    \/ \E t \in User, role \in {"admin", "member"} : ChangeMemberRole(u, w, t, role)
    \/ \E k \in WsKey : CreateWorkspace(u, w, k) \/ WsServiceCreateInvitation(u, w, k)
    \/ \E i \in WsInvitation : WsServiceRevokeInvitation(u, w, i)

WsNext ==
    \/ \E u \in User, w \in WorkspaceId : WsCall(u, w)
    \/ \E u \in User, i \in WsInvitation, k \in WsKey : WsServiceAcceptInvitation(u, i, k)
    \/ \E u \in User : Admit(u) \/ WsRefused(u)
    \/ \E i \in WsInvitation : WsLapse(i)
------------------------------------------------------------------------------
WsTypeOK ==
    /\ workspace \in [WorkspaceId -> [status : {"none", "active", "archived", "deleted"},
                                      owner : User \cup {NoOne}, revision : 0..WsMaxRevision]]
    /\ member \in [WorkspaceId -> [User -> [role : WsRole, revision : 0..WsMaxRevision]]]
    /\ wsInvitation \in [WsInvitation ->
           [ws : WorkspaceId \cup {Nowhere}, lapsed : BOOLEAN,
            status : {"none", "pending", "accepted", "revoked", "expired", "deleted"}]]
    /\ \A r \in wsRecord : r.actor \in User /\ r.ws \in WorkspaceId /\ r.key \in WsKey

\* A workspace always has exactly one Owner membership, and it is that of the
\* account in owner_user_id: the deferred constraint trigger never has a reason
\* to abort what the repository and account deletion do.
OwnerIsFixed == \A w \in WorkspaceId : Exists(w) => OwnerMatches(w)

\* Quotas.ActiveOwned, Members and PendingInvitations hold whatever calls are
\* in flight at once: restoring, creating and accepting count again inside
\* their transaction.
WsQuotasHold ==
    /\ \A u \in User : Cardinality(ActiveOwned(u)) <= ActiveOwnedLimit
    /\ \A w \in WorkspaceId : /\ Cardinality(Members(w)) <= WsMemberLimit
                             /\ Cardinality(WsPending(w)) <= PendingInviteLimit

\* An archived workspace has no invitation left to accept: one that a service
\* call authorized before the archive does not come into being after it.
ArchivedIsClosed ==
    \A w \in WorkspaceId : workspace[w].status # "active" => WsPending(w) = {}

\* The reads of a member agree with one another and with what a write will do:
\* the count in the list is the number of members listed, one of them the
\* owner, and an invitation shown as pending is one that wsAcceptInvitation
\* takes from an account with room, unless the workspace shows that it cannot
\* be written.
WsReadsAgree ==
    \A u \in User, w \in WorkspaceId : ActiveActor(u) /\ Role(w, u) # "none" =>
        \E row \in ListWorkspaces(u) :
            /\ row.ws = w /\ row.role = Role(w, u)
            /\ row.count = Cardinality(ListMembers(u, w))
            /\ Cardinality({m \in ListMembers(u, w) : m.role = "owner"}) = 1
            /\ \A i \in ListInvitations(u, w) : i.status = "pending" /\ row.state = "writable" =>
                   Acceptable(i.id)

\* A repeated command of an active caller is answered from its record, which
\* never outlives the workspace.  A creator is answered whatever happened since;
\* one who accepted an invitation must still be a member, and one who created an
\* invitation must still be owner or admin of a workspace that can be written.
WsRetriesAnswered ==
    \A r \in wsRecord :
        /\ Exists(r.ws)
        /\ WsReplay(r) = {} =>
              \/ r.op = "accept" /\ Role(r.ws, r.actor) = "none"
              \/ r.op = "invite" /\ ~MayInvite(r.actor, r.ws)

\* While a workspace is archived no call changes its members, whenever it was
\* authorized and whatever its transaction read of the accounts: the status is
\* decided under the lock on the workspace.  Only account deletion changes them.
\* (An owner's account is not locked, so a call that read it as active may
\* still commit after it is disabled.)
ArchivedKeepsMembers ==
    \A w \in WorkspaceId : workspace[w].status = "archived" /\ member'[w] # member[w] =>
        \E u \in User : account[u] = "elapsed" /\ account'[u] = "finalized"

\* A role change or removal is applied to the role the service showed its
\* caller, although the member may leave and come back in between: the revision
\* restarts at 1, but each revision of a membership has one possible role.
SeenIsWhatChanges ==
    \A u \in User :
        call[u].op \in {"role", "remove"} /\ member' # member /\ call'[u] = NoCall =>
            member[call[u].ws][call[u].target].role = call[u].seen
=============================================================================
