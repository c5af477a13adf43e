------------------------- MODULE SessionLifecycle -------------------------
(***************************************************************************)
(* Accounts, devices, refresh-token families and offline entitlements, at  *)
(* the grain of single SQL statements.                                     *)
(*                                                                         *)
(* A worker is one request handler with one PostgreSQL connection.  Its    *)
(* record in tx holds the transaction it is in: where it is (pc), the row  *)
(* and advisory locks it holds, the rows the snapshot of its sweeping      *)
(* UPDATE selected (todo) and the ones already locked by it (done).        *)
(* Isolation is READ COMMITTED: a statement sees what was committed when   *)
(* it started; a row it has to wait for is read again once it is locked,   *)
(* but rows committed meanwhile are not added.  Writes become visible to   *)
(* others at commit, so the tables below hold committed rows only.         *)
(***************************************************************************)
EXTENDS Integers, FiniteSets

CONSTANTS
    User, Device, Session,   \* accounts, installations, ids of session rows
    Worker,                  \* concurrent request handlers
    ActiveLimit,             \* devices an account may have active at a time
    Requests                 \* operations the clients of this instance send

ASSUME NonEmpty == User # {} /\ Device # {} /\ Session # {}
ASSUME LimitIsNat == ActiveLimit \in Nat
ASSUME DevicesAreFinite == IsFiniteSet(Device)

VARIABLES
    users,      \* users.status; personal_spaces.status always follows it
    devices,    \* devices row of an installation: owner and status
    sessions,   \* sessions rows
    offline,    \* per device, the users with an unrevoked entitlement on it
    tx          \* per worker, the transaction in progress

vars == <<users, devices, sessions, offline, tx>>
tables == <<users, devices, sessions, offline>>

(***************************************************************************)
(* Operations, grouped by the rows their UPDATE sessions statement names.  *)
(***************************************************************************)
FamilyOps == {"refresh", "revoke_family", "logout", "cli_revoke_session",
              "admin_revoke_session"}
DeviceOps == {"device_revoke", "admin_revoke_device", "self_revoke"}
UserOps   == {"change_password", "reset_password", "revoke_all_sessions",
              "force_password_reset", "request_deletion", "disable_user",
              "finalize_deletion"}
LiftOps   == {"recover_deletion", "enable_user"}
Ops == FamilyOps \cup DeviceOps \cup UserOps \cup LiftOps \cup {"authorize", "none"}

Pcs == {"idle", "advisory", "readUser", "lockUser", "read", "lockSource",
        "lockDevice", "insertDevice", "updateDevices", "snapshot", "sweep",
        "keyUser", "keyDevice", "commit", "issue"}

\* Lock modes a transaction may hold: the advisory lock of its user, the users
\* row FOR UPDATE or FOR KEY SHARE, rows of devices FOR UPDATE, FOR NO KEY
\* UPDATE or FOR KEY SHARE, and the source session row FOR UPDATE.
Modes == {"advisory", "userX", "userK", "deviceX", "deviceW", "deviceK", "source"}

Row == [status: {"unissued", "live", "revoked", "deleted"},
        user: User, device: Device, family: Session,
        replaced: BOOLEAN, replayed: BOOLEAN, expired: BOOLEAN]

Transaction == [op: Ops, pc: Pcs, user: User, device: Device, source: Session,
                fresh: SUBSET Session, seen: BOOLEAN,
                plan: {"none", "rotate", "replay", "invalid"},
                holds: SUBSET Modes, devs: SUBSET Device,
                todo: SUBSET Session, done: SUBSET Session]

AnyUser == CHOOSE u \in User : TRUE
AnyDevice == CHOOSE d \in Device : TRUE
AnySession == CHOOSE s \in Session : TRUE

Idle == [op |-> "none", pc |-> "idle", user |-> AnyUser, device |-> AnyDevice,
         source |-> AnySession, fresh |-> {}, seen |-> FALSE, plan |-> "none",
         holds |-> {}, devs |-> {}, todo |-> {}, done |-> {}]

Present(s) == sessions[s].status \in {"live", "revoked"}
Live(s) == sessions[s].status = "live"
Active(u) == {d \in Device : devices[d] = [owner |-> u, status |-> "active"]}

\* Ids not used by any row, committed or not; the finite pool is a bound of the
\* instance and an INSERT that finds it empty fails.
FreshIds == {s \in Session : /\ sessions[s].status = "unissued"
                              /\ \A v \in Worker : s \notin tx[v].fresh}

\* What the session middleware asks PostgreSQL on every authenticated request.
AccessActive(s) ==
    /\ Live(s)
    /\ ~sessions[s].expired
    /\ users[sessions[s].user] = "active"
    /\ devices[sessions[s].device] = [owner |-> sessions[s].user, status |-> "active"]

(***************************************************************************)
(* Locks.                                                                  *)
(***************************************************************************)
Holds(v, mode) == mode \in tx[v].holds
RowsOf(t) == t.done \cup (IF "source" \in t.holds THEN {t.source} ELSE {})
Rows(v) == RowsOf(tx[v])

\* Rows of devices the UPDATE devices (or DELETE) statement of t selects.
DeviceTargets(t) ==
    IF t.op = "device_revoke"
    THEN {t.device}
    ELSE {d \in Device : /\ devices[d].owner = t.user
                         /\ devices[d].status # "absent"
                         /\ t.op = "change_password" => d # sessions[t.source].device}

\* Rows the sweeping UPDATE of w can lock at once.
Free(w) == {s \in tx[w].todo : \A v \in Worker \ {w} : s \notin Rows(v)}

\* Workers holding a lock that conflicts with the one w asks for next.
Blockers(w) ==
    LET t == tx[w]
        SameUser(v) == tx[v].user = t.user
        Touches(v, D) == tx[v].devs \cap D # {}
    IN {v \in Worker \ {w} :
          \/ t.pc = "advisory" /\ SameUser(v) /\ Holds(v, "advisory")
          \/ t.pc = "lockUser" /\ SameUser(v) /\ (Holds(v, "userX") \/ Holds(v, "userK"))
          \/ t.pc \in {"keyUser", "issue"} /\ SameUser(v) /\ Holds(v, "userX")
          \/ t.pc \in {"lockDevice", "insertDevice"} /\ Touches(v, {t.device})
          \/ t.pc \in {"keyDevice", "issue"} /\ Touches(v, {t.device}) /\ Holds(v, "deviceX")
          \/ t.pc = "updateDevices" /\ Touches(v, DeviceTargets(t))
               /\ (Holds(v, "deviceX") \/ Holds(v, "deviceW") \/ t.op = "finalize_deletion")
          \/ t.pc = "lockSource" /\ t.source \in Rows(v)
          \/ t.pc = "sweep" /\ Free(w) = {} /\ t.todo \cap Rows(v) # {}}

(***************************************************************************)
(* What each statement checks; a transaction that fails the check is       *)
(* rolled back and its error is returned.                                  *)
(***************************************************************************)
AccountStates(op) ==
    CASE op \in {"device_revoke", "change_password", "request_deletion",
                 "force_password_reset", "disable_user"} -> {"active"}
      [] op = "reset_password" -> {"active", "pending_deletion", "deletion_due"}
      [] op = "recover_deletion" -> {"pending_deletion"}
      [] op = "finalize_deletion" -> {"deletion_due"}
      [] op = "enable_user" -> {"disabled"}
      [] OTHER -> {"active", "pending_deletion", "deletion_due", "disabled", "finalized"}

HasCapacity(u) == Cardinality(Active(u)) < ActiveLimit

\* Mutant of MayAuthorize: any account may claim the row.
MayAuthorizeAnyOwner(u, d) == devices[d].status # "active" => HasCapacity(u)

\* device.AuthorizeInTx on an installation whose devices row exists.
MayAuthorize(u, d) ==
    /\ devices[d].owner = u \/ devices[d].status = "revoked"
    /\ devices[d].status # "active" => HasCapacity(u)

Admissible(t) ==
    CASE t.pc = "readUser" -> users[t.user] = "active"
      [] t.pc = "lockUser" ->
           /\ users[t.user] \in AccountStates(t.op)
           /\ t.op = "revoke_all_sessions" =>
                \E s \in Session : Live(s) /\ sessions[s].user = t.user
      [] t.pc = "lockDevice" ->
           IF t.op = "authorize"
           THEN IF devices[t.device].status = "absent"
                THEN HasCapacity(t.user)
                ELSE MayAuthorize(t.user, t.device)
           ELSE devices[t.device] = [owner |-> t.user, status |-> "active"]
      [] t.pc = "insertDevice" -> devices[t.device].status = "absent"
      [] t.pc = "updateDevices" ->
           t.op = "device_revoke" => /\ devices[t.device].owner = t.user
                                     /\ devices[t.device].status = "active"
      [] t.pc = "lockSource" ->
           /\ Present(t.source)
           /\ t.op \in {"admin_revoke_session", "change_password"} => Live(t.source)
           /\ t.op = "change_password" => ~sessions[t.source].expired
      [] t.pc = "keyUser" ->
           /\ FreshIds # {}
           /\ t.op = "authorize" => users[t.user] = "active"   \* createSession's EXISTS
      [] OTHER -> TRUE

\* The statement after the one at pc.
After(op, pc) ==
    CASE pc = "advisory" ->
           IF op = "authorize" THEN "readUser"
           ELSE IF op = "cli_revoke_session" THEN "lockSource" ELSE "lockUser"
      [] pc = "readUser" -> "lockDevice"
      [] pc = "lockUser" ->
           IF op \in {"change_password", "admin_revoke_session"} THEN "lockSource"
           ELSE IF op = "admin_revoke_device" THEN "lockDevice"
           ELSE IF op \in {"device_revoke", "request_deletion", "disable_user",
                           "finalize_deletion"} THEN "updateDevices"
           ELSE IF op \in LiftOps THEN "commit" ELSE "snapshot"
      [] pc = "read" -> "lockSource"
      [] pc = "lockDevice" -> IF op = "authorize" THEN "keyUser" ELSE "snapshot"
      [] pc = "insertDevice" -> "keyUser"
      [] pc = "lockSource" -> IF op = "change_password" THEN "updateDevices" ELSE "snapshot"
      [] pc = "updateDevices" -> "snapshot"
      [] pc = "keyUser" -> IF op = "authorize" THEN "commit" ELSE "keyDevice"
      [] OTHER -> "commit"

\* Sessions selected by the UPDATE sessions statement of t.
Scope(t) ==
    {s \in Session :
       /\ Present(s)
       /\ t.op \in FamilyOps => sessions[s].family = sessions[t.source].family
       /\ t.op \in DeviceOps => sessions[s].device = t.device
       /\ t.op \in UserOps \ {"finalize_deletion"} => sessions[s].user = t.user
       /\ t.op = "finalize_deletion" => sessions[s].device \in t.devs
       /\ t.op = "change_password" => s # t.source
       /\ t.op \in {"device_revoke", "reset_password", "revoke_all_sessions",
                    "force_password_reset"} => Live(s)}

(***************************************************************************)
(* Requests: one action per operation a client, the operator console or a  *)
(* job sends.  A request names rows that exist when it is sent.            *)
(***************************************************************************)
Begin(w, op, first, u, d, s) ==
    /\ tx[w].pc = "idle"
    /\ op \in Requests
    /\ tx' = [tx EXCEPT ![w] = [Idle EXCEPT !.op = op, !.pc = first, !.user = u,
                                            !.device = d, !.source = s]]
    /\ UNCHANGED tables

OnSession(w, op, first) ==
    \E s \in Session :
        /\ Present(s)
        /\ Begin(w, op, first, sessions[s].user, sessions[s].device, s)

OnDevice(w, op, first) ==
    \E d \in Device :
        /\ devices[d].status = "active"
        /\ Begin(w, op, first, devices[d].owner, d, AnySession)

OnUser(w, op) ==
    \E u \in User :
        Begin(w, op, "advisory", u, AnyDevice, AnySession)

Refresh(w) == OnSession(w, "refresh", "read")
RevokeByToken(w) == OnSession(w, "logout", "lockSource")
CliRevokeSession(w) == OnSession(w, "cli_revoke_session", "advisory")
AdminRevokeSession(w) == OnSession(w, "admin_revoke_session", "advisory")
ChangePassword(w) == OnSession(w, "change_password", "advisory")
DeviceRevoke(w) == OnDevice(w, "device_revoke", "advisory")
AdminRevokeDevice(w) == OnDevice(w, "admin_revoke_device", "advisory")
SelfRevoke(w) == OnDevice(w, "self_revoke", "lockDevice")
ResetPassword(w) == OnUser(w, "reset_password")
RevokeAllSessions(w) == OnUser(w, "revoke_all_sessions")
ForcePasswordReset(w) == OnUser(w, "force_password_reset")
RequestDeletion(w) == OnUser(w, "request_deletion")
RecoverDeletion(w) == OnUser(w, "recover_deletion")
FinalizeDeletion(w) == OnUser(w, "finalize_deletion")
DisableUser(w) == OnUser(w, "disable_user")
EnableUser(w) == OnUser(w, "enable_user")

\* The transaction of the authorization-code exchange: device.AuthorizeInTx
\* followed by session.StartInTx.
Authorize(w) ==
    \E u \in User, d \in Device :
        Begin(w, "authorize", "advisory", u, d, AnySession)

(***************************************************************************)
(* Statements.                                                             *)
(***************************************************************************)
Granted(w, pc) == tx[w].pc = pc /\ Blockers(w) = {} /\ Admissible(tx[w])

\* Move w past its statement, holding the locks H and, in devices, the rows D.
Moved(t, pc, H, D) == [t EXCEPT !.pc = pc, !.holds = H, !.devs = D]
Proceed(w, H, D) ==
    /\ tx' = [tx EXCEPT ![w] = Moved(tx[w], After(tx[w].op, tx[w].pc),
                                     tx[w].holds \cup H, D)]
    /\ UNCHANGED tables

\* Mutant of LockAdvisory: the call of pg_advisory_xact_lock is missing.
LockAdvisoryMissing(w) == Granted(w, "advisory") /\ Proceed(w, {}, tx[w].devs)

LockAdvisory(w) == Granted(w, "advisory") /\ Proceed(w, {"advisory"}, tx[w].devs)

\* AuthorizeInTx reads users.status without locking the row.
ReadUser(w) == Granted(w, "readUser") /\ Proceed(w, {}, tx[w].devs)

\* Mutant of LockUser: the SELECT lacks FOR UPDATE.
LockUserUnlocked(w) == Granted(w, "lockUser") /\ Proceed(w, {}, tx[w].devs)

LockUser(w) == Granted(w, "lockUser") /\ Proceed(w, {"userX"}, tx[w].devs)

\* Rotate's SELECT ... FOR UPDATE OF s starts: the joined users and devices
\* rows are those of this snapshot even if the session row is waited for.
ReadForRotate(w) ==
    /\ tx[w].pc = "read"
    /\ tx' = [tx EXCEPT ![w].pc = After(tx[w].op, "read"),
                        ![w].seen = /\ users[tx[w].user] = "active"
                                    /\ devices[tx[w].device].status = "active"]
    /\ UNCHANGED tables

LockSource(w) ==
    /\ tx[w].op # "refresh"
    /\ Granted(w, "lockSource")
    /\ Proceed(w, {"source"}, tx[w].devs)

\* Mutant of DecideRotation: the SELECT lacks FOR UPDATE OF s.
DecideRotationUnlocked(w) ==
    /\ tx[w].op = "refresh"
    /\ Granted(w, "lockSource")
    /\ LET row == sessions[tx[w].source]
           Step(plan, pc) == tx' = [tx EXCEPT ![w].pc = pc, ![w].plan = plan]
       IN \/ row.replaced /\ Step("replay", "snapshot")
          \/ /\ ~row.replaced
             /\ row.status = "revoked" \/ row.expired \/ ~tx[w].seen
             /\ Step("invalid", "snapshot")
          \/ /\ ~row.replaced /\ row.status = "live" /\ ~row.expired /\ tx[w].seen
             /\ Step("rotate", "keyUser")
    /\ UNCHANGED tables

\* Rotate holds the source row: replay, invalid session, or a successor.
DecideRotation(w) ==
    /\ tx[w].op = "refresh"
    /\ Granted(w, "lockSource")
    /\ LET row == sessions[tx[w].source]
           Step(plan, pc) == tx' = [tx EXCEPT ![w].pc = pc, ![w].plan = plan,
                                              ![w].holds = @ \cup {"source"}]
       IN \/ row.replaced /\ Step("replay", "snapshot")
          \/ /\ ~row.replaced
             /\ row.status = "revoked" \/ row.expired \/ ~tx[w].seen
             /\ Step("invalid", "snapshot")
          \/ /\ ~row.replaced /\ row.status = "live" /\ ~row.expired /\ tx[w].seen
             /\ Step("rotate", "keyUser")
    /\ UNCHANGED tables

\* SELECT ... FROM devices ... FOR UPDATE; when AuthorizeInTx finds no row it
\* has locked nothing and goes on to its INSERT.
LockDevice(w) ==
    /\ Granted(w, "lockDevice")
    /\ devices[tx[w].device].status # "absent"
    /\ Proceed(w, {"deviceX"}, {tx[w].device})

MissDevice(w) ==
    /\ Granted(w, "lockDevice")
    /\ devices[tx[w].device].status = "absent"
    /\ tx' = [tx EXCEPT ![w].pc = "insertDevice"]
    /\ UNCHANGED tables

\* INSERT INTO devices: waits for an uncommitted row with the same
\* installation id and fails on a committed one.
InsertDevice(w) == Granted(w, "insertDevice") /\ Proceed(w, {"deviceX"}, {tx[w].device})

UpdateDevices(w) ==
    /\ Granted(w, "updateDevices")
    /\ Proceed(w, {IF tx[w].op = "finalize_deletion" THEN "deviceX" ELSE "deviceW"},
               DeviceTargets(tx[w]))

\* UPDATE sessions takes its snapshot ...
Snapshot(w) ==
    /\ tx[w].pc = "snapshot"
    /\ tx' = [tx EXCEPT ![w].pc = "sweep", ![w].todo = Scope(tx[w])]
    /\ UNCHANGED tables

\* ... and locks the selected rows one after the other.
Sweep(w) ==
    /\ tx[w].pc = "sweep"
    /\ \E s \in Free(w) :
         tx' = [tx EXCEPT ![w].todo = @ \ {s}, ![w].done = @ \cup {s}]
    /\ UNCHANGED tables

\* INSERT INTO sessions: its foreign keys lock the users row, then the devices
\* row, FOR KEY SHARE.
KeyUser(w) ==
    /\ Granted(w, "keyUser")
    /\ tx' = [tx EXCEPT ![w].pc = After(tx[w].op, "keyUser"),
                        ![w].holds = @ \cup {"userK"},
                        ![w].fresh = {CHOOSE s \in FreshIds : TRUE}]
    /\ UNCHANGED tables

KeyDevice(w) == Granted(w, "keyDevice") /\ Proceed(w, {"deviceK"}, {tx[w].device})

(***************************************************************************)
(* Commits.                                                                *)
(***************************************************************************)
NewRow(u, d, f) ==
    [status |-> "live", user |-> u, device |-> d, family |-> f,
     replaced |-> FALSE, replayed |-> FALSE, expired |-> FALSE]

Revoked(s, t) ==
    [sessions[s] EXCEPT !.status = "revoked",
                        !.replayed = @ \/ (t.plan = "replay" /\ s = t.source)]

\* Devices the transaction leaves revoked.
RevokedDevices(t) ==
    IF t.op \in {"admin_revoke_device", "self_revoke"} THEN {t.device}
    ELSE IF t.op \in {"device_revoke", "change_password", "request_deletion",
                      "disable_user"} THEN t.devs
    ELSE {}

\* Users whose entitlements on device d the transaction revokes.
RevokedEntitlements(t, d) ==
    CASE t.op \in DeviceOps -> IF d = t.device THEN User ELSE {}
      [] t.op = "change_password" ->
           IF d = sessions[t.source].device THEN {} ELSE {t.user}
      [] t.op \in {"revoke_all_sessions", "force_password_reset",
                   "request_deletion", "disable_user"} -> {t.user}
      [] OTHER -> {}

StatusAfter(t) ==
    CASE t.op = "request_deletion" -> "pending_deletion"
      [] t.op = "disable_user" -> "disabled"
      [] t.op = "finalize_deletion" -> "finalized"
      [] t.op \in LiftOps -> "active"
      [] OTHER -> users[t.user]

End(w) == tx' = [tx EXCEPT ![w] = Idle]

CommitRevocation(w) ==
    LET t == tx[w] IN
    /\ t.pc = "sweep" /\ t.todo = {} /\ t.op # "finalize_deletion"
    /\ users' = [users EXCEPT ![t.user] = StatusAfter(t)]
    /\ devices' = [d \in Device |-> IF d \in RevokedDevices(t)
                                   THEN [devices[d] EXCEPT !.status = "revoked"]
                                   ELSE devices[d]]
    /\ sessions' = [s \in Session |-> IF s \in t.done THEN Revoked(s, t) ELSE sessions[s]]
    /\ offline' = [d \in Device |-> offline[d] \ RevokedEntitlements(t, d)]
    /\ End(w)

\* FinalizeDeletion deletes the account's devices; the deletes cascade to
\* their sessions and entitlements.
CommitFinalize(w) ==
    LET t == tx[w] IN
    /\ t.pc = "sweep" /\ t.todo = {} /\ t.op = "finalize_deletion"
    /\ users' = [users EXCEPT ![t.user] = StatusAfter(t)]
    /\ devices' = [d \in Device |-> IF d \in t.devs
                                   THEN [devices[d] EXCEPT !.status = "absent"]
                                   ELSE devices[d]]
    /\ sessions' = [s \in Session |-> IF s \in t.done
                                     THEN [sessions[s] EXCEPT !.status = "deleted"]
                                     ELSE sessions[s]]
    /\ offline' = [d \in Device |-> IF d \in t.devs THEN {} ELSE offline[d]]
    /\ End(w)

\* Mutant of CommitLift: the account's sessions are restored with it.
CommitLiftRevives(w) ==
    /\ tx[w].pc = "commit" /\ tx[w].op \in LiftOps
    /\ users' = [users EXCEPT ![tx[w].user] = "active"]
    /\ LET mine == {s \in Session : Present(s) /\ sessions[s].user = tx[w].user}
       IN /\ sessions' = [s \in Session |-> IF s \in mine
                                            THEN [sessions[s] EXCEPT !.status = "live"]
                                            ELSE sessions[s]]
          /\ devices' = [d \in Device |-> IF \E s \in mine : sessions[s].device = d
                                          THEN [devices[d] EXCEPT !.status = "active"]
                                          ELSE devices[d]]
    /\ End(w)
    /\ UNCHANGED offline

\* RecoverDeletion and enableUserLifecycle restore the account and its space,
\* never its devices or sessions.
CommitLift(w) ==
    /\ tx[w].pc = "commit" /\ tx[w].op \in LiftOps
    /\ users' = [users EXCEPT ![tx[w].user] = StatusAfter(tx[w])]
    /\ End(w)
    /\ UNCHANGED <<devices, sessions, offline>>

CommitAuthorize(w) ==
    LET t == tx[w] IN
    /\ t.pc = "commit" /\ t.op = "authorize"
    /\ devices' = [devices EXCEPT ![t.device] = [owner |-> t.user, status |-> "active"]]
    /\ sessions' = [s \in Session |-> IF s \in t.fresh THEN NewRow(t.user, t.device, s)
                                     ELSE sessions[s]]
    /\ offline' = [offline EXCEPT ![t.device] = @ \cup {t.user}]
    /\ End(w)
    /\ UNCHANGED users

\* Rotate commits the successor and the source's replaced_at; the handler goes
\* on to sign tokens and record the entitlement outside any transaction.
CommitRotate(w) ==
    LET t == tx[w] IN
    /\ t.pc = "commit" /\ t.op = "refresh"
    /\ sessions' = [s \in Session |->
                       IF s \in t.fresh
                       THEN NewRow(t.user, t.device, sessions[t.source].family)
                       ELSE IF s = t.source THEN [sessions[s] EXCEPT !.replaced = TRUE]
                       ELSE sessions[s]]
    /\ tx' = [tx EXCEPT ![w] = [Idle EXCEPT !.op = "refresh", !.pc = "issue",
                                            !.user = t.user, !.device = t.device,
                                            !.source = t.source]]
    /\ UNCHANGED <<users, devices, offline>>

\* The autocommitted INSERT INTO offline_entitlement_issuances.
IssueEntitlement(w) ==
    /\ Granted(w, "issue")
    /\ devices[tx[w].device].status # "absent"
    /\ offline' = [offline EXCEPT ![tx[w].device] = @ \cup {tx[w].user}]
    /\ End(w)
    /\ UNCHANGED <<users, devices, sessions>>

\* Signing or recording failed: RevokeFamily, one autocommitted UPDATE.
IssueFails(w) ==
    /\ tx[w].pc = "issue"
    /\ tx' = [tx EXCEPT ![w].op = "revoke_family", ![w].pc = "snapshot"]
    /\ UNCHANGED tables

(***************************************************************************)
(* Failures and time.                                                      *)
(***************************************************************************)
\* Mutant of Reject: an error return that does not roll back.
RejectLeaks(w) == tx[w].pc # "idle" /\ FALSE /\ UNCHANGED vars

\* A check of the code fails: the transaction is rolled back.
Reject(w) ==
    /\ tx[w].pc # "idle" /\ Blockers(w) = {} /\ ~Admissible(tx[w])
    /\ End(w)
    /\ UNCHANGED tables

\* PostgreSQL aborts a transaction of a cycle of waiting transactions.
Deadlocked(w) ==
    \E C \in SUBSET Worker : w \in C /\ \A v \in C : Blockers(v) \cap C # {}

AbortDeadlocked(w) == Deadlocked(w) /\ End(w) /\ UNCHANGED tables

\* The handler dies or loses its connection; PostgreSQL rolls back.
Crash(w) == tx[w].pc # "idle" /\ End(w) /\ UNCHANGED tables

Expire(s) ==
    /\ Present(s) /\ ~sessions[s].expired
    /\ sessions' = [sessions EXCEPT ![s].expired = TRUE]
    /\ UNCHANGED <<users, devices, offline, tx>>

\* Seven days after RequestDeletion.
CloseWindow(u) ==
    /\ users[u] = "pending_deletion"
    /\ users' = [users EXCEPT ![u] = "deletion_due"]
    /\ UNCHANGED <<devices, sessions, offline, tx>>

(***************************************************************************)
(* Specification.                                                          *)
(***************************************************************************)
Init ==
    /\ users = [u \in User |-> "active"]
    /\ devices = [d \in Device |-> [owner |-> AnyUser, status |-> "absent"]]
    /\ sessions = [s \in Session |->
                     [status |-> "unissued", user |-> AnyUser, device |-> AnyDevice,
                      family |-> s, replaced |-> FALSE, replayed |-> FALSE,
                      expired |-> FALSE]]
    /\ offline = [d \in Device |-> {}]
    /\ tx = [w \in Worker |-> Idle]

Request(w) ==
    \/ Refresh(w) \/ RevokeByToken(w) \/ CliRevokeSession(w) \/ AdminRevokeSession(w)
    \/ ChangePassword(w) \/ DeviceRevoke(w) \/ AdminRevokeDevice(w) \/ SelfRevoke(w)
    \/ ResetPassword(w) \/ RevokeAllSessions(w) \/ ForcePasswordReset(w)
    \/ RequestDeletion(w) \/ RecoverDeletion(w) \/ FinalizeDeletion(w)
    \/ DisableUser(w) \/ EnableUser(w) \/ Authorize(w)

Statement(w) ==
    \/ LockAdvisory(w) \/ ReadUser(w) \/ LockUser(w) \/ ReadForRotate(w)
    \/ LockSource(w) \/ DecideRotation(w) \/ LockDevice(w) \/ MissDevice(w)
    \/ InsertDevice(w) \/ UpdateDevices(w) \/ Snapshot(w) \/ Sweep(w) \/ KeyUser(w) \/ KeyDevice(w)

Commit(w) ==
    \/ CommitRevocation(w) \/ CommitFinalize(w) \/ CommitLift(w)
    \/ CommitAuthorize(w) \/ CommitRotate(w)

\* What a worker does without help: its own steps, its handler's reaction to a
\* failed check, and the deadlock detector's.
Step(w) ==
    \/ Statement(w) \/ Commit(w) \/ IssueEntitlement(w) \/ IssueFails(w)
    \/ Reject(w) \/ AbortDeadlocked(w)

Next ==
    \/ \E w \in Worker : Request(w) \/ Step(w) \/ Crash(w)
    \/ \E s \in Session : Expire(s)
    \/ \E u \in User : CloseWindow(u)

Spec == Init /\ [][Next]_vars

\* A handler keeps running, and PostgreSQL grants row and advisory locks in the
\* order they were asked for, so a worker that can proceed again and again does.
FairSpec == Spec /\ \A w \in Worker : SF_vars(Step(w))

(***************************************************************************)
(* Properties.                                                             *)
(***************************************************************************)
TypeOK ==
    /\ users \in [User -> {"active", "pending_deletion", "deletion_due",
                           "disabled", "finalized"}]
    /\ devices \in [Device -> [owner: User, status: {"absent", "active", "revoked"}]]
    /\ sessions \in [Session -> Row]
    /\ offline \in [Device -> SUBSET User]
    /\ tx \in [Worker -> Transaction]

\* Every session row that is not revoked belongs to an active account and to a
\* device that is active and owned by that account.  Rotate locks neither the
\* account nor the device and trusts the statuses its SELECT joined, so this
\* rests on the users and devices row locks of the revoking transactions
\* conflicting with the foreign-key locks of Rotate's INSERT.
LiveSessionsAreBacked ==
    \A s \in Session : Live(s) =>
        /\ users[sessions[s].user] = "active"
        /\ devices[sessions[s].device] = [owner |-> sessions[s].user, status |-> "active"]

\* A refresh-token family never forks: at most one of its sessions is neither
\* replaced nor revoked, whatever refreshes race on it.
OneTipPerFamily ==
    \A s, t \in Session :
        /\ Live(s) /\ ~sessions[s].replaced
        /\ Live(t) /\ ~sessions[t].replaced
        /\ sessions[s].family = sessions[t].family
        => s = t

\* No account ever has more active devices than the limit hasCapacity checks
\* before the device becomes active.
ActiveDevicesWithinLimit == \A u \in User : Cardinality(Active(u)) <= ActiveLimit

\* A committed revocation of an account, of a device, or of a session through
\* the operator API leaves no live session in its scope, including sessions
\* that refreshes were inserting while it ran.
RevocationIsComplete ==
    [][\A w \in Worker :
         /\ CommitRevocation(w)
         /\ tx[w].op \in UserOps \cup DeviceOps \cup {"admin_revoke_session"}
         => \A s \in Scope(tx[w]) : sessions'[s].status # "live"]_vars

\* What the middleware's query says of a session
AccessOf(s) == IF sessions[s].status = "unissued" THEN "unissued"
               ELSE IF AccessActive(s) THEN "active" ELSE "ended"
Access == [s \in Session |-> AccessOf(s)]
Abstract == INSTANCE SessionAccess WITH access <- Access

\* The promise of SessionAccess: access is granted once per session and, once
\* ended, never comes back, through account recovery, re-enabling the account
\* or authorizing the device anew (AccessActive).
GrantsAccessOnce == Abstract!Spec

\* Every request ends: a cycle of lock waits is broken and no handler waits
\* for a lock for ever.
EveryRequestEnds == \A w \in Worker : tx[w].pc # "idle" ~> tx[w].pc = "idle"

\* Reuse of a replaced refresh token leaves no live session in its family.  The
\* code does not keep this when refreshes overlap (README.md, "Refuted statements").
ReplayRevokesWholeFamily ==
    \A s, t \in Session :
        sessions[s].replayed /\ sessions[t].family = sessions[s].family => ~Live(t)

\* A revoked device has no unrevoked offline entitlement.  The code does not keep
\* this either: a refresh records its entitlement after its commit.
RevokedDeviceHasNoEntitlement ==
    \A d \in Device : devices[d].status = "revoked" => offline[d] = {}
=============================================================================
