---------------------------- MODULE AdminControl ----------------------------
(***************************************************************************)
(* Administrative operations on users, devices and sessions                *)
(* (internal/admin/control_repository.go).  Execute runs one transaction:  *)
(* it inserts the operation's row, reads whose account the target belongs  *)
(* to, locks that account, applies the action, writes the audit event and  *)
(* the outcome, and commits.  The row is invisible until the commit; a     *)
(* second Execute of the same operation waits on it and then replays.      *)
(***************************************************************************)
EXTENDS Principals

CONSTANTS Operation,
          Key,          \* keys of the protector's ring
          Asked         \* the requests that callers make

VARIABLES adminTx,      \* the transaction an operation is executed in
          adminOp,      \* admin_operations
          adminAudit,   \* audit events written for an operation
          adminReply,   \* the outcome an operation's last caller was told
          adminRing     \* the keys the servers hold

adminVars == <<adminTx, adminOp, adminAudit, adminReply, adminRing>>

UserAction == {"disable_user", "enable_user", "revoke_all_sessions", "force_password_reset"}
Request ==
    [action : UserAction, target : User, expected : 1..MaxRevision]
        \cup [action : {"revoke_device"}, target : Device, expected : 1..MaxRevision]
        \cup [action : {"revoke_session"}, target : Session, expected : 1..MaxRevision]

ASSUME AskedAssumption == Asked \subseteq Request

NoTx == [at |-> "idle"]
NoOp == [status |-> "none"]
Missing == "missing"

\* validateOperation, over what finishSucceeded and finishRejected store
validateOperation(row) ==
    \/ row.status = "succeeded" /\ row.code = "" /\ row.revision >= 1
    \/ row.status \in {"failed", "conflict"} /\ row.code # "" /\ row.revision = 0

\* operationReplayResult: what the row means to the caller
operationReplayResult(row) ==
    [status |-> row.status, code |-> row.code, revision |-> row.revision]

Unavailable == [status |-> "unavailable"]
KeyReused == [status |-> "reused"]
NoReply == [reply |-> Unavailable]

\* RequestFingerprint: none without the key
RequestFingerprint(k, q) == IF k \in adminRing THEN <<k, q>> ELSE <<>>

\* findOperation: by its id, and readable (scanStoredOperation)
findOperation(o) == adminOp[o] # NoOp /\ validateOperation(adminOp[o])

\* A mutant: the stored request is not compared.
replayUncompared(o, q) ==
    IF RequestFingerprint(adminOp[o].key, q) = <<>> THEN Unavailable ELSE operationReplayResult(adminOp[o])

\* replayOperation: the fingerprint is computed with the key the row names, and
\* a key that left the ring makes the row unreadable.
replayOperation(o, q) ==
    LET fingerprint == RequestFingerprint(adminOp[o].key, q)
    IN IF fingerprint = <<>> THEN Unavailable
       ELSE IF fingerprint # <<adminOp[o].key, adminOp[o].request>> THEN KeyReused
       ELSE operationReplayResult(adminOp[o])

\* GetOperation, which names no request
GetOperation(o) == IF findOperation(o) THEN operationReplayResult(adminOp[o]) ELSE Unavailable

\* resolveControlTargetUser
resolveControlTargetUser(q) ==
    LET owner == CASE q.action = "revoke_device" -> device[q.target].owner
                   [] q.action = "revoke_session" -> sess[q.target].user
                   [] OTHER -> IF user[q.target].status = "none" THEN Missing ELSE q.target
    IN IF owner \in User THEN owner ELSE Missing

\* controlNotFoundCode
controlNotFoundCode(q) ==
    CASE q.action = "revoke_device" -> "DEVICE_NOT_FOUND"
      [] q.action = "revoke_session" -> "SESSION_NOT_FOUND"
      [] OTHER -> "USER_NOT_FOUND"

\* The switch of applyAction once the account is locked: why the action is
\* not carried out, "" when it is.
Obstacle(q, u) ==
    CASE q.action = "revoke_device" ->
             IF device[q.target] = NoDevice THEN "DEVICE_NOT_FOUND"
             ELSE IF device[q.target].owner # u THEN "unavailable"
             ELSE IF device[q.target].status = "revoked" THEN "DEVICE_ALREADY_REVOKED" ELSE ""
      [] q.action = "revoke_session" ->
             IF sess[q.target] = NoRow THEN "SESSION_NOT_FOUND"
             ELSE IF ~sess[q.target].live THEN "SESSION_ALREADY_REVOKED" ELSE ""
      [] q.action = "revoke_all_sessions" ->
             IF \E s \in SessionsOf(u) : sess[s].live THEN "" ELSE "NO_ACTIVE_SESSIONS"
      [] q.action \in {"force_password_reset", "disable_user"} ->
             IF Active(u) THEN "" ELSE "USER_STATE_CONFLICT"
      [] q.action = "enable_user" ->
             IF user[u].status = "disabled" THEN "" ELSE "USER_STATE_CONFLICT"

\* A mutant: the revision the caller saw is not compared.
rejectionUnversioned(q, u) ==
    IF u = Missing THEN controlNotFoundCode(q) ELSE Obstacle(q, u)

\* The error applyAction returns, "" when there is none
rejection(q, u) ==
    IF u = Missing THEN controlNotFoundCode(q)
    ELSE IF user[u].revision # q.expected THEN "USER_STATE_CONFLICT"
    ELSE Obstacle(q, u)

\* durableDomainFailure: what is stored as the outcome; every other error rolls back.
durableDomainFailure(code) == code \notin {"", "unavailable"}

NotFoundCode == {"DEVICE_NOT_FOUND", "SESSION_NOT_FOUND", "USER_NOT_FOUND"}

\* The lifecycle function applyAction calls
mutate(q, u) ==
    \/ q.action = "disable_user" /\ disableUserLifecycle(u)
    \/ q.action = "enable_user" /\ enableUserLifecycle(u)
    \/ q.action = "revoke_all_sessions" /\ revokeAllSessionsLifecycle(u)
    \/ q.action = "force_password_reset" /\ forcePasswordResetLifecycle(u)
    \/ q.action = "revoke_device" /\ revokeDeviceLifecycle(u, q.target)
    \/ q.action = "revoke_session" /\ revokeSessionFamilyLifecycle(u, sess[q.target].family)

\* insertControlAudit
insertControlAudit(o, outcome) == adminAudit' = [adminAudit EXCEPT ![o][outcome] = @ + 1]

\* Execute of the service: only an outcome that can be validated is passed on.
answer(o, q, reply) ==
    adminReply' = [adminReply EXCEPT ![o] =
        IF reply \in {Unavailable, KeyReused} THEN NoReply ELSE [request |-> q, reply |-> reply]]

Finish(o, row) ==
    /\ adminOp' = [adminOp EXCEPT ![o] = row]
    /\ answer(o, row.request, operationReplayResult(row))
    /\ adminTx' = [adminTx EXCEPT ![o] = NoTx]

\* finishRejected
finishRejected(o, t, code) ==
    /\ Finish(o, [request |-> t.request, key |-> t.key, user |-> t.user, code |-> code, revision |-> 0,
                  status |-> IF code \in NotFoundCode THEN "failed" ELSE "conflict"])
    /\ insertControlAudit(o, "denied")

\* finishSucceeded
finishSucceeded(o, t) ==
    /\ Finish(o, [request |-> t.request, key |-> t.key, user |-> t.user, code |-> "",
                  revision |-> user[t.user].revision + 1, status |-> "succeeded"])
    /\ insertControlAudit(o, "success")

-----------------------------------------------------------------------------
AdInit ==
    /\ adminTx = [o \in Operation |-> NoTx]
    /\ adminOp = [o \in Operation |-> NoOp]
    /\ adminAudit = [o \in Operation |-> [success |-> 0, denied |-> 0]]
    /\ adminReply = [o \in Operation |-> NoReply]
    /\ adminRing = Key

\* A mutant: the row of the operation is not looked up first.
insertOverExisting(o, q, k) ==
    /\ adminTx[o] = NoTx
    /\ k \in adminRing
    /\ adminTx' = [adminTx EXCEPT ![o] = [at |-> "inserted", request |-> q, key |-> k]]
    /\ UNCHANGED <<principals, adminOp, adminAudit, adminReply, adminRing>>

\* Execute up to insertExecuting; k is the active key of the server that runs it.
insertExecuting(o, q, k) ==
    /\ adminTx[o] = NoTx /\ ~findOperation(o)
    /\ k \in adminRing
    /\ adminTx' = [adminTx EXCEPT ![o] = [at |-> "inserted", request |-> q, key |-> k]]
    /\ UNCHANGED <<principals, adminOp, adminAudit, adminReply, adminRing>>

\* Execute finds the operation's row, before or after it waited to insert its own.
Replay(o, q) ==
    /\ adminTx[o] = NoTx /\ findOperation(o)
    /\ answer(o, q, replayOperation(o, q))
    /\ UNCHANGED <<principals, adminTx, adminOp, adminAudit, adminRing>>

\* applyAction reads the target's account before it locks it.
Resolve(o) ==
    /\ adminTx[o].at = "inserted"
    /\ LET t == adminTx[o]
       IN adminTx' = [adminTx EXCEPT ![o] = [at |-> "resolved", request |-> t.request, key |-> t.key,
                                             user |-> resolveControlTargetUser(t.request)]]
    /\ UNCHANGED <<principals, adminOp, adminAudit, adminReply, adminRing>>

\* The rest of Execute, under the account's lock
Execute(o) ==
    /\ adminTx[o].at = "resolved"
    /\ LET t == adminTx[o]
           code == rejection(t.request, t.user)
       IN \/ /\ code = ""
             /\ mutate(t.request, t.user)
             /\ finishSucceeded(o, t)
          \/ /\ durableDomainFailure(code)
             /\ finishRejected(o, t, code)
             /\ UNCHANGED principals
    /\ UNCHANGED adminRing

\* Any error that is not a domain failure rolls everything back: a target that
\* moved to another account since Resolve, a lost connection, a failed statement.
Rollback(o) ==
    /\ adminTx[o] # NoTx
    /\ adminTx' = [adminTx EXCEPT ![o] = NoTx]
    /\ answer(o, adminTx[o].request, Unavailable)
    /\ UNCHANGED <<principals, adminOp, adminAudit, adminRing>>

\* DisableAccount, EnableAccount and RevokeSession at the command line
DisableAccount(u) == Active(u) /\ disableUserLifecycle(u) /\ UNCHANGED adminVars
EnableAccount(u) == user[u].status = "disabled" /\ enableUserLifecycle(u) /\ UNCHANGED adminVars
RevokeSession(s) ==
    /\ sess[s] # NoRow
    /\ revokeSessionFamilyLifecycle(sess[s].user, sess[s].family)
    /\ UNCHANGED adminVars

\* A key leaves the ring of every server; one remains.
RetireKey(k) ==
    /\ k \in adminRing /\ adminRing # {k}
    /\ adminRing' = adminRing \ {k}
    /\ UNCHANGED <<principals, adminTx, adminOp, adminAudit, adminReply>>

AdOperations ==
    \/ \E o \in Operation :
          \/ \E q \in Asked : Replay(o, q) \/ \E k \in Key : insertExecuting(o, q, k)
          \/ Resolve(o) \/ Execute(o) \/ Rollback(o)
    \/ \E k \in Key : RetireKey(k)

CommandLine ==
    \/ \E u \in User : DisableAccount(u) \/ EnableAccount(u)
    \/ \E s \in Session : RevokeSession(s) \/ (PurgeSession(s) /\ UNCHANGED adminVars)

AdNext == AdOperations \/ CommandLine

-----------------------------------------------------------------------------
Promise == INSTANCE RevisionRegister WITH
    register <- [u \in User |-> user[u].revision],
    settled <- [o \in Operation |->
        IF adminOp[o] = NoOp THEN [status |-> "none"]
        ELSE IF adminOp[o].status # "succeeded" THEN [status |-> "refused"]
        ELSE [status |-> "succeeded", user |-> adminOp[o].user,
              expected |-> adminOp[o].request.expected, revision |-> adminOp[o].revision]]

\* Administration implements the register: whatever transactions, retries,
\* rollbacks and command-line operators do in between, an operation moves its
\* user's administrative_revision from exactly the value the caller had seen,
\* at most once, and its outcome is never rewritten
\* (ControlRepository.Execute, control_repository.go:645).
ImplementsRegister == Promise!RrSpec

\* Every stored operation is one its readers accept, has exactly one audit event
\* of its outcome, and one that is not stored has none: a rollback takes the
\* event with it (finishSucceeded, finishRejected, scanStoredOperation).
OneEventPerOperation ==
    \A o \in Operation :
        IF adminOp[o] = NoOp THEN adminAudit[o] = [success |-> 0, denied |-> 0]
        ELSE /\ validateOperation(adminOp[o])
             /\ adminAudit[o] = IF adminOp[o].status = "succeeded"
                                THEN [success |-> 1, denied |-> 0] ELSE [success |-> 0, denied |-> 1]

\* All callers of one operation with one request are told the same outcome, and
\* nobody is told an outcome of a request they did not make, through retries,
\* lost answers and keys leaving the ring; a poll shows that outcome too
\* (replayOperation, GetOperation).
AnswersAgree ==
    \A o \in Operation :
        adminReply[o] # NoReply =>
            /\ adminOp[o] # NoOp
            /\ adminReply[o].request = adminOp[o].request
            /\ adminReply[o].reply = GetOperation(o)

\* While an account is disabled it has no active device and no live session: no
\* sign-in that was under way when it was disabled can finish afterwards
\* (disableUserLifecycle and AuthorizeInTx take the same lock).
DisabledIsSilent ==
    \A u \in User :
        user[u].status \in {"disabled", "pending_deletion"} =>
            /\ \A d \in DevicesOf(u) : device[d].status # "active"
            /\ \A s \in SessionsOf(u) : ~sess[s].live
=============================================================================
