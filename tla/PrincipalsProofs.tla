-------------------------- MODULE PrincipalsProofs --------------------------
(***************************************************************************)
(* What sign-in, accounts, identities, key rotation and Desktop control    *)
(* preserve of the rows they share and of their own, for every set of      *)
(* users, devices, sessions, values, servers and receipts.  The theorems   *)
(* about their composition are in OperationsProofs.                        *)
(***************************************************************************)
EXTENDS AccountIdentity, DesktopControl, TLAPS

-----------------------------------------------------------------------------
(* The rows of users: what an UPDATE does to them, whatever a credential is *)

UserRow(r) ==
    /\ r = [status |-> r.status, revision |-> r.revision, credential |-> r.credential]
    /\ r.revision \in Nat \ {0}

UserRows ==
    /\ user = [u \in User |-> user[u]]
    /\ \A u \in User : UserRow(user[u])

\* What an UPDATE of users does to the column status
Status1(u, status) == \A x \in User : user'[x].status = IF x = u THEN status ELSE user[x].status
SameStatus == \A x \in User : user'[x].status = user[x].status

LEMMA RowColumns ==
    ASSUME NEW r, UserRow(r), NEW s, NEW c
    PROVE  /\ [r EXCEPT !.status = s].status = s
           /\ [r EXCEPT !.status = s, !.credential = c].status = s
           /\ [r EXCEPT !.credential = c].status = r.status
           /\ UserRow([r EXCEPT !.status = s]) /\ UserRow([r EXCEPT !.credential = c])
           /\ [r EXCEPT !.revision = r.revision + 1].status = r.status
<1>1. r = [status |-> r.status, revision |-> r.revision, credential |-> r.credential]
  BY Zenon DEF UserRow
<1>2. [r EXCEPT !.status = s] = [status |-> s, revision |-> r.revision, credential |-> r.credential]
  BY <1>1
<1>3. [r EXCEPT !.credential = c] = [status |-> r.status, revision |-> r.revision, credential |-> c]
  BY <1>1
<1>4. ASSUME NEW q, q = [r EXCEPT !.status = s, !.credential = c]
      PROVE  q = [status |-> s, revision |-> r.revision, credential |-> c]
  BY <1>1, <1>4, Zenon
<1>5. [r EXCEPT !.revision = r.revision + 1].status = r.status
  BY <1>1, Zenon
<1> QED BY <1>2, <1>3, <1>4, <1>5, Zenon DEF UserRow

LEMMA RowWritten ==
    ASSUME UserRows, NEW u, NEW row, user' = [user EXCEPT ![u] = row], NEW s, u \in User => row.status = s
    PROVE  Status1(u, s)
BY Zenon DEF UserRows, Status1

LEMMA SameRowWritten ==
    ASSUME UserRows, NEW u, NEW row, user' = [user EXCEPT ![u] = row], u \in User => row.status = user[u].status
    PROVE  SameStatus
BY Zenon DEF UserRows, SameStatus

LEMMA StatusWritten ==
    ASSUME UserRows, NEW u, NEW s, NEW c
    PROVE  /\ user' = [user EXCEPT ![u].status = s] => Status1(u, s)
           /\ user' = [user EXCEPT ![u].status = s, ![u].credential = c] => Status1(u, s)
           /\ user' = [user EXCEPT ![u] = [user[u] EXCEPT !.status = s, !.credential = c]] => Status1(u, s)
           /\ user' = [user EXCEPT ![u].credential = c] => SameStatus
<1> DEFINE rs == [user[u] EXCEPT !.status = s]
           rsc == [user[u] EXCEPT !.status = s, !.credential = c]
           rc == [user[u] EXCEPT !.credential = c]
<1>1. u \in User => rs.status = s /\ rsc.status = s /\ rc.status = user[u].status
  <2>1. u \in User => UserRow(user[u])
    BY Zenon DEF UserRows
  <2> QED BY <2>1, RowColumns
<1>2. /\ [user EXCEPT ![u].status = s] = [user EXCEPT ![u] = rs]
      /\ [user EXCEPT ![u].status = s, ![u].credential = c] = [user EXCEPT ![u] = rsc]
      /\ [user EXCEPT ![u].credential = c] = [user EXCEPT ![u] = rc]
  BY Zenon DEF UserRows
<1>3. user' = [user EXCEPT ![u] = rs] => Status1(u, s)
  <2> HIDE DEF rs
  <2> QED BY <1>1, RowWritten, Zenon
<1>4. user' = [user EXCEPT ![u] = rsc] => Status1(u, s)
  <2> HIDE DEF rsc
  <2> QED BY <1>1, RowWritten, Zenon
<1>5. user' = [user EXCEPT ![u] = rc] => SameStatus
  <2> HIDE DEF rc
  <2> QED BY <1>1, SameRowWritten, Zenon
<1> QED BY <1>2, <1>3, <1>4, <1>5, Zenon

LEMMA IncrementStatus ==
    ASSUME UserRows, NEW u, NEW s, NEW c
    PROVE  /\ incrementAdministrativeRevision(u, user[u]) => SameStatus
           /\ incrementAdministrativeRevision(u, [user[u] EXCEPT !.status = s]) => Status1(u, s)
           /\ incrementAdministrativeRevision(u, [user[u] EXCEPT !.credential = c]) => SameStatus
<1> DEFINE next(r) == [r EXCEPT !.revision = r.revision + 1]
           rs == [user[u] EXCEPT !.status = s]
           rc == [user[u] EXCEPT !.credential = c]
<1>1. u \in User => /\ next(user[u]).status = user[u].status
                    /\ next(rs).status = s
                    /\ next(rc).status = user[u].status
  <2>1. u \in User => UserRow(user[u])
    BY Zenon DEF UserRows
  <2>2. u \in User => UserRow(rs) /\ UserRow(rc) /\ rs.status = s /\ rc.status = user[u].status
    BY <2>1, RowColumns, Zenon
  <2> HIDE DEF rs, rc
  <2> QED BY <2>1, <2>2, RowColumns, Zenon
<1>2. ASSUME NEW row, incrementAdministrativeRevision(u, row) PROVE user' = [user EXCEPT ![u] = next(row)]
  BY <1>2, Zenon DEF incrementAdministrativeRevision
<1> HIDE DEF next
<1>3. incrementAdministrativeRevision(u, user[u]) => SameStatus
  BY <1>1, <1>2, SameRowWritten, Zenon
<1>4. incrementAdministrativeRevision(u, rs) => Status1(u, s)
  <2> HIDE DEF rs
  <2> QED BY <1>1, <1>2, RowWritten, Zenon
<1>5. incrementAdministrativeRevision(u, rc) => SameStatus
  <2> HIDE DEF rc
  <2> QED BY <1>1, <1>2, SameRowWritten, ZenonT(40)
<1> QED BY <1>3, <1>4, <1>5, Zenon

-----------------------------------------------------------------------------
(* What an UPDATE of users does to administrative_revision *)

SameRevisions == \A u \in User : user'[u].revision = user[u].revision

\* q is r after an UPDATE that leaves administrative_revision alone.
Rewritten(r, q, s, c) ==
    q \in {r, [r EXCEPT !.status = s], [r EXCEPT !.credential = c],
           [r EXCEPT !.status = s, !.credential = c]}

LEMMA RowStep ==
    ASSUME NEW r, UserRow(r), NEW s, NEW c, NEW q, Rewritten(r, q, s, c)
    PROVE  UserRow(q) /\ q.revision = r.revision
<1>1. CASE q = r
  BY <1>1, Zenon
<1>2. CASE q = [r EXCEPT !.status = s]
  <2>1. q = [status |-> s, revision |-> r.revision, credential |-> r.credential]
    BY <1>2, Zenon DEF UserRow
  <2> QED BY <2>1, Zenon DEF UserRow
<1>3. CASE q = [r EXCEPT !.credential = c]
  <2>1. q = [status |-> r.status, revision |-> r.revision, credential |-> c]
    BY <1>3, Zenon DEF UserRow
  <2> QED BY <2>1, Zenon DEF UserRow
<1>4. CASE q = [r EXCEPT !.status = s, !.credential = c]
  <2>1. q = [status |-> s, revision |-> r.revision, credential |-> c]
    BY <1>4, Zenon DEF UserRow
  <2> QED BY <2>1, Zenon DEF UserRow
<1> QED BY <1>1, <1>2, <1>3, <1>4, Zenon DEF Rewritten

\* An UPDATE of other columns than administrative_revision
ColumnsStep ==
    \E x, s, c :
        \/ user' = [user EXCEPT ![x].status = s]
        \/ user' = [user EXCEPT ![x].credential = c]
        \/ user' = [user EXCEPT ![x].status = s, ![x].credential = c]
        \/ user' = [user EXCEPT ![x] = [@ EXCEPT !.status = s, !.credential = c]]

LEMMA ColumnsKeepRevisions ==
    ASSUME UserRows, ColumnsStep
    PROVE  UserRows' /\ SameRevisions
<1>1. user' = [u \in User |-> user'[u]]
  BY Zenon DEF UserRows, ColumnsStep
<1>2. \E s, c : \A u \in User : Rewritten(user[u], user'[u], s, c)
  <2>1. PICK x, s, c :
            \/ user' = [user EXCEPT ![x].status = s]
            \/ user' = [user EXCEPT ![x].credential = c]
            \/ user' = [user EXCEPT ![x].status = s, ![x].credential = c]
            \/ user' = [user EXCEPT ![x] = [@ EXCEPT !.status = s, !.credential = c]]
    BY Zenon DEF ColumnsStep
  <2>2. \A u \in User : Rewritten(user[u], user'[u], s, c)
    BY <2>1, ZenonT(40) DEF UserRows, Rewritten
  <2> QED BY <2>2, Zenon
<1>3. \A u \in User : UserRow(user'[u]) /\ user'[u].revision = user[u].revision
  BY <1>2, RowStep DEF UserRows
<1> QED BY <1>1, <1>3, Zenon DEF UserRows, SameRevisions

\* The register of user u moves by one, the others stay.
Moves(u) ==
    \A x \in User : user'[x].revision = IF x = u THEN user[x].revision + 1 ELSE user[x].revision

LEMMA IncrementMoves ==
    ASSUME UserRows, NEW u, NEW s, NEW c, NEW row,
           u \in User => Rewritten(user[u], row, s, c),
           incrementAdministrativeRevision(u, row)
    PROVE  UserRows' /\ Moves(u)
<1>1. user' = [user EXCEPT ![u] = [row EXCEPT !.revision = row.revision + 1]]
  BY Zenon DEF incrementAdministrativeRevision
<1>2. CASE u \notin User
  BY <1>1, <1>2, Zenon DEF UserRows, Moves
<1>3. CASE u \in User
  <2>1. UserRow(row) /\ row.revision = user[u].revision
    BY <1>3, RowStep DEF UserRows
  <2>2. user'[u] = [row EXCEPT !.revision = row.revision + 1]
    BY <1>1, <1>3, Zenon DEF UserRows
  <2>3. user'[u] = [status |-> row.status, revision |-> row.revision + 1, credential |-> row.credential]
    BY <2>1, <2>2, Zenon DEF UserRow
  <2>4. UserRow(user'[u]) /\ user'[u].revision = user[u].revision + 1
    BY <2>1, <2>3 DEF UserRow
  <2>5. user' = [x \in User |-> user'[x]] /\ \A x \in User \ {u} : user'[x] = user[x]
    BY <1>1, Zenon DEF UserRows
  <2> QED BY <2>4, <2>5, Zenon DEF UserRows, Moves
<1> QED BY <1>2, <1>3, Zenon

\* Each of the lifecycle functions moves the register of its user.
LEMMA LifecycleMoves ==
    ASSUME UserRows, NEW u, NEW d, NEW f,
           \/ disableUserLifecycle(u) \/ enableUserLifecycle(u) \/ revokeAllSessionsLifecycle(u)
           \/ forcePasswordResetLifecycle(u) \/ revokeDeviceLifecycle(u, d)
           \/ revokeSessionFamilyLifecycle(u, f)
    PROVE  UserRows' /\ Moves(u)
<1>1. \E row, s, c : Rewritten(user[u], row, s, c) /\ incrementAdministrativeRevision(u, row)
  <2>1. CASE disableUserLifecycle(u) \/ enableUserLifecycle(u)
    <3>1. PICK s : incrementAdministrativeRevision(u, [user[u] EXCEPT !.status = s])
      BY <2>1, Zenon DEF disableUserLifecycle, enableUserLifecycle
    <3>2. Rewritten(user[u], [user[u] EXCEPT !.status = s], s, s)
      BY Zenon DEF Rewritten
    <3> QED BY <3>1, <3>2, Zenon
  <2>2. CASE forcePasswordResetLifecycle(u)
    <3>1. PICK c : incrementAdministrativeRevision(u, [user[u] EXCEPT !.credential = c])
      BY <2>2, Zenon DEF forcePasswordResetLifecycle
    <3>2. Rewritten(user[u], [user[u] EXCEPT !.credential = c], c, c)
      BY Zenon DEF Rewritten
    <3> QED BY <3>1, <3>2, Zenon
  <2>3. CASE revokeAllSessionsLifecycle(u) \/ revokeDeviceLifecycle(u, d) \/ revokeSessionFamilyLifecycle(u, f)
    <3>1. incrementAdministrativeRevision(u, user[u])
      BY <2>3, Zenon DEF revokeAllSessionsLifecycle, revokeDeviceLifecycle, revokeSessionFamilyLifecycle
    <3>2. Rewritten(user[u], user[u], u, u)
      BY Zenon DEF Rewritten
    <3> QED BY <3>1, <3>2, Zenon
  <2> QED BY <2>1, <2>2, <2>3, Zenon
<1> QED BY <1>1, IncrementMoves, Zenon

-----------------------------------------------------------------------------
(* Steps of the other components *)

LEMMA SignKeepsUsers == SignNext => user' = user
BY ZenonT(40) DEF SignNext, logout, Expire, Begin, readApprover, Approve, hold, exchangeFails, Lapse, purgeGrant,
       Exchange, SelfRevoke, selfRevoke, selfRevokeRefused, purgeNonce, Age, RetireStateKey, RevokeOwn,
       principals

LEMMA DesktopKeepsUsers == DcNext => user' = user
<1>1. ASSUME NEW u, NEW d, NEW now, Heartbeat(u, d, now) PROVE user' = user
  BY <1>1, Zenon DEF Heartbeat, AcceptHeartbeat, ClaimNextCommand, principals
<1>2. ASSUME NEW u, NEW d, NEW c, NEW r, NEW now, SubmitResult(u, d, c, r, now) PROVE user' = user
  BY <1>2, Zenon DEF SubmitResult, AdvanceCommand, ResultAgain, principals
<1>3. ASSUME NEW d, NEW k, NEW now, NEW a, QueueReplayed(d, k, now) \/ QueueRead(a, d, k, now) PROVE user' = user
  BY <1>3, Zenon DEF QueueReplayed, QueueRead, principals
<1>4. ASSUME NEW a, NEW c, NEW now, QueueInsert(a, c) \/ QueueAborted(a) \/ GetCommand(c, now) PROVE user' = user
  BY <1>4, Zenon DEF QueueInsert, QueueAborted, GetCommand, principals
<1> QED BY <1>1, <1>2, <1>3, <1>4, Zenon DEF DcNext, Tick, principals

LEMMA IdentityKeepsRevisions == IdNext => user' = user \/ ColumnsStep
<1>1. ASSUME NEW b, UpdatePasswordHash(b) PROVE ColumnsStep
  BY <1>1, Zenon DEF UpdatePasswordHash, ColumnsStep
<1>2. ASSUME NEW n, NEW x, NEW p, register(n, x, p) PROVE ColumnsStep
  BY <1>2, Zenon DEF register, ColumnsStep
<1>3. ASSUME NEW n, NEW x, NEW u, NEW p, ResetPassword(n, x, u, p) PROVE ColumnsStep
  BY <1>3, Zenon DEF ResetPassword, resetPassword, ColumnsStep
<1>4. ASSUME NEW n, NEW x, NEW u, RequestDeletion(n, x, u) PROVE ColumnsStep
  BY <1>4, Zenon DEF RequestDeletion, requestDeletion, ColumnsStep
<1>5. ASSUME NEW n, NEW x, NEW u, RecoverDeletion(n, x, u) PROVE ColumnsStep
  BY <1>5, Zenon DEF RecoverDeletion, recoverDeletion, ColumnsStep
<1>6. ASSUME NEW u, NEW s, NEW p, ChangePassword(u, s, p) PROVE ColumnsStep
  BY <1>6, Zenon DEF ChangePassword, changePassword, ColumnsStep
<1>7. ASSUME NEW u, FinalizeDeletion(u) PROVE ColumnsStep
  BY <1>7, Zenon DEF FinalizeDeletion, ColumnsStep
<1>8. Logins => user' = user \/ ColumnsStep
  <2>1. ASSUME NEW n, NEW b, NEW v, NEW u, NEW p, NEW x,
               AuthenticatePassword(n, b, v, u, p) \/ AuthenticateVerification(n, b, x, u)
        PROVE  user' = user
    BY <2>1, Zenon DEF AuthenticatePassword, AuthenticateVerification, principals
  <2>2. ASSUME NEW n, NEW b, \/ CompleteVerificationLogin(n, b) \/ login(b) \/ stage(b)
                             \/ discardStagedBrowserSession(b)
        PROVE  user' = user
    BY <2>2, Zenon DEF CompleteVerificationLogin, login, stage, discardStagedBrowserSession, principals
  <2> QED BY <1>1, <2>1, <2>2, Zenon DEF Logins
<1>9. Rotation => user' = user
  BY Zenon DEF Rotation, ExpandRing, SwitchActive, RetireOldKey, Reindex, SetRing, principals
<1>10. Accounts => user' = user \/ ColumnsStep
  BY <1>2, <1>3, <1>4, <1>5, <1>6, <1>7, ZenonT(40)
     DEF Accounts, beginAdding, addingFails, Register, BindIdentity, reauthenticateUser, RemoveIdentity, principals
<1> QED BY <1>8, <1>9, <1>10, Zenon DEF IdNext

-----------------------------------------------------------------------------
(* Devices and sessions *)

DeviceRow == {NoDevice} \cup [owner : User, status : {"active", "inactive", "revoked"}]
SessionRow == {NoRow} \cup [user : User, device : Device, family : Session, live : BOOLEAN]

PrRows ==
    /\ UserRows
    /\ device \in [Device -> DeviceRow]
    /\ sess \in [Session -> SessionRow]

\* An active device has an active owner, and a live session runs on an active
\* device of its user's.
Backed ==
    /\ \A d \in Device : device[d].status = "active" => Active(device[d].owner)
    /\ \A s \in Session :
          sess[s].live => device[sess[s].device] = [owner |-> sess[s].user, status |-> "active"]

LEMMA DeviceFields ==
    ASSUME NEW r \in DeviceRow
    PROVE  /\ r = NoDevice => r.owner = "nobody" /\ r.status = "none"
           /\ r # NoDevice => /\ r.owner \in User /\ r.status \in {"active", "inactive", "revoked"}
                              /\ r = [owner |-> r.owner, status |-> r.status]
           /\ r.status = "active" => r # NoDevice
           /\ r.owner \in User => r # NoDevice
BY PrincipalsAssumption DEF DeviceRow, NoDevice

LEMMA SessionFields ==
    ASSUME NEW r \in SessionRow
    PROVE  /\ r = NoRow => r.user = "nobody" /\ ~r.live
           /\ r # NoRow => r.user \in User /\ r.device \in Device /\ r.family \in Session
           /\ r.live \in BOOLEAN
           /\ r.live => r # NoRow
           /\ r.user \in User => r # NoRow
<1>1. NoRow.user = "nobody" /\ NoRow.live = FALSE
  BY Zenon DEF NoRow
<1>2. CASE r = NoRow
  BY <1>1, <1>2, PrincipalsAssumption, Zenon
<1>3. CASE r \in [user : User, device : Device, family : Session, live : BOOLEAN]
  <2>1. r.user \in User /\ r.device \in Device /\ r.family \in Session /\ r.live \in BOOLEAN
    BY <1>3, Zenon
  <2> QED BY <1>1, <2>1, PrincipalsAssumption, Zenon
<1> QED BY <1>2, <1>3, Zenon DEF SessionRow

\* Sessions are revoked: no other column changes.
Ended(rows) ==
    \A s \in Session :
        /\ sess'[s].user = sess[s].user /\ sess'[s].device = sess[s].device
        /\ sess'[s].live => sess[s].live /\ s \notin rows

LEMMA RevokeEnds ==
    ASSUME PrRows, NEW rows, Revoke(rows)
    PROVE  sess' \in [Session -> SessionRow] /\ Ended(rows)
<1>1. ASSUME NEW s \in Session
      PROVE  /\ sess'[s] \in SessionRow
             /\ sess'[s].user = sess[s].user /\ sess'[s].device = sess[s].device
             /\ sess'[s].live => sess[s].live /\ s \notin rows
  <2>1. sess[s] \in SessionRow
    BY Zenon DEF PrRows
  <2>2. CASE ~(sess[s].live /\ s \in rows)
    <3>1. sess'[s] = sess[s]
      BY <2>2, Zenon DEF Revoke
    <3> QED BY <2>1, <2>2, <3>1, Zenon
  <2>3. CASE sess[s].live /\ s \in rows
    <3>1. sess'[s] = [sess[s] EXCEPT !.live = FALSE]
      BY <2>3, Zenon DEF Revoke
    <3>2. sess[s] \in [user : User, device : Device, family : Session, live : BOOLEAN]
      BY <2>1, <2>3, SessionFields, Zenon DEF SessionRow
    <3>3. /\ sess'[s] \in [user : User, device : Device, family : Session, live : BOOLEAN]
          /\ sess'[s].user = sess[s].user /\ sess'[s].device = sess[s].device /\ ~sess'[s].live
      BY <3>1, <3>2, Zenon
    <3> QED BY <3>3, Zenon DEF SessionRow
  <2> QED BY <2>2, <2>3, Zenon
<1>2. sess' = [s \in Session |-> sess'[s]]
  BY Zenon DEF Revoke
<1> QED BY <1>1, <1>2, Zenon DEF Ended

\* Devices are revoked.
Closed(rows) ==
    \A d \in Device : device'[d] = IF d \in rows THEN [owner |-> device[d].owner, status |-> "revoked"]
                                   ELSE device[d]

LEMMA RevokeCloses ==
    ASSUME PrRows, NEW rows, \A d \in rows \cap Device : device[d] # NoDevice, RevokeDevices(rows)
    PROVE  device' \in [Device -> DeviceRow] /\ Closed(rows)
<1>1. ASSUME NEW d \in Device
      PROVE  /\ device'[d] \in DeviceRow
             /\ device'[d] = IF d \in rows THEN [owner |-> device[d].owner, status |-> "revoked"] ELSE device[d]
  <2>1. device[d] \in DeviceRow
    BY Zenon DEF PrRows
  <2>2. CASE d \notin rows
    BY <2>1, <2>2, Zenon DEF RevokeDevices
  <2>3. CASE d \in rows
    <3>1. device[d] = [owner |-> device[d].owner, status |-> device[d].status] /\ device[d].owner \in User
      BY <2>1, <2>3, DeviceFields, Zenon
    <3>2. device'[d] = [device[d] EXCEPT !.status = "revoked"]
      BY <2>3, Zenon DEF RevokeDevices
    <3>3. device'[d] = [owner |-> device[d].owner, status |-> "revoked"]
      BY <3>1, <3>2, Zenon
    <3> QED BY <2>3, <3>1, <3>3 DEF DeviceRow
  <2> QED BY <2>2, <2>3, Zenon
<1>2. device' = [d \in Device |-> device'[d]]
  BY Zenon DEF RevokeDevices
<1> QED BY <1>1, <1>2, Zenon DEF Closed

-----------------------------------------------------------------------------
(* What keeps sessions backed by devices and devices by accounts *)

\* Devices and sessions are revoked, and an account is shut with all its devices.
LEMMA RevokingKeepsBacked ==
    ASSUME PrRows, Backed, NEW gone, NEW rows, Closed(gone), Ended(rows),
           \A s \in Session : sess[s].live /\ sess[s].device \in gone => s \in rows,
           \A u \in User : Active(u) /\ ~Active(u)' => DevicesOf(u) \subseteq gone
    PROVE  Backed'
<1>1. ASSUME NEW d \in Device, device'[d].status = "active" PROVE Active(device[d].owner)'
  <2>0. [owner |-> device[d].owner, status |-> "revoked"].status = "revoked"
    BY Zenon
  <2>1. device'[d] = device[d] /\ d \notin gone
    BY <1>1, <2>0, Zenon DEF Closed
  <2>2. Active(device[d].owner) /\ device[d].owner \in User
    BY <1>1, <2>1, DeviceFields, Zenon DEF Backed, PrRows
  <2> QED BY <2>1, <2>2, Zenon DEF DevicesOf, Active
<1>2. ASSUME NEW s \in Session, sess'[s].live
      PROVE  device'[sess'[s].device] = [owner |-> sess'[s].user, status |-> "active"]
  <2>1. sess[s].live /\ s \notin rows /\ sess'[s].user = sess[s].user /\ sess'[s].device = sess[s].device
    BY <1>2, Zenon DEF Ended
  <2>2. sess[s].device \in Device
    BY <2>1, SessionFields, Zenon DEF PrRows
  <2> QED BY <2>1, <2>2, ZenonT(40) DEF Closed, Backed
<1> QED BY <1>1, <1>2, Zenon DEF Backed

\* An exchange: the installation becomes the user's and gets a session.
LEMMA ExchangeKeepsBacked ==
    ASSUME PrRows, Backed, user' = user,
           NEW u \in User, NEW d \in Device, NEW s \in Session, AuthorizeInTx(u, d), StartInTx(u, d, s)
    PROVE  PrRows' /\ Backed'
<1>1. \A x \in Device : device'[x] = IF x = d THEN [owner |-> u, status |-> "active"] ELSE device[x]
  BY Zenon DEF AuthorizeInTx, PrRows
<1>2. \A x \in Session : sess'[x] = IF x = s THEN [user |-> u, device |-> d, family |-> s, live |-> TRUE]
                                   ELSE sess[x]
  BY Zenon DEF StartInTx, PrRows
<1>3. PrRows'
  <2>1. device' \in [Device -> DeviceRow]
    BY Zenon DEF AuthorizeInTx, PrRows, DeviceRow
  <2>2. [user |-> u, device |-> d, family |-> s, live |-> TRUE] \in SessionRow
    BY Zenon DEF SessionRow
  <2>3. sess' \in [Session -> SessionRow]
    BY <2>2, Zenon DEF StartInTx, PrRows
  <2> QED BY <2>1, <2>3, Zenon DEF PrRows, UserRows
<1>4. ASSUME NEW x \in Device, device'[x].status = "active" PROVE Active(device[x].owner)'
  BY <1>1, <1>4, SMTT(40) DEF AuthorizeInTx, Backed, Active
<1>5. ASSUME NEW x \in Session, sess'[x].live
      PROVE  device'[sess'[x].device] = [owner |-> sess'[x].user, status |-> "active"]
  <2>1. CASE x = s
    BY <1>1, <1>2, <2>1, SMTT(40)
  <2>2. CASE x # s
    <3>1. /\ sess'[x] = sess[x] /\ sess[x].device \in Device
          /\ device[sess[x].device] = [owner |-> sess[x].user, status |-> "active"]
      BY <1>2, <1>5, <2>2, SessionFields, Zenon DEF Backed, PrRows
    <3>2. CASE sess[x].device # d
      BY <1>1, <3>1, <3>2, Zenon
    <3>3. CASE sess[x].device = d
      <4>1. device[d].owner = sess[x].user /\ device[d].status = "active" /\ device[d] # NoDevice
        BY <3>1, <3>3 DEF NoDevice
      <4>2. sess[x].user = u
        BY <4>1, Zenon DEF AuthorizeInTx, Transfers
      <4> QED BY <1>1, <3>1, <3>3, <4>2, Zenon
    <3> QED BY <3>2, <3>3, Zenon
  <2> QED BY <2>1, <2>2, Zenon
<1> QED BY <1>3, <1>4, <1>5, Zenon DEF Backed

\* An erased account takes its devices and their sessions along.
LEMMA ErasingKeepsBacked ==
    ASSUME PrRows, Backed, UserRows', NEW u \in User, eraseDevices(u), \A x \in User \ {u} : Active(x)' <=> Active(x)
    PROVE  PrRows' /\ Backed'
<1>1. \A d \in Device : device'[d] = IF device[d].owner = u THEN NoDevice ELSE device[d]
  BY Zenon DEF eraseDevices, DevicesOf
<1>2. \A s \in Session : sess'[s] = IF sess[s].device \in DevicesOf(u) THEN NoRow ELSE sess[s]
  BY Zenon DEF eraseDevices
<1>3. PrRows'
  BY Zenon DEF eraseDevices, PrRows, DeviceRow, SessionRow
<1>4. ASSUME NEW d \in Device, device'[d].status = "active" PROVE Active(device[d].owner)'
  <2>1. device'[d] = device[d] /\ device[d].owner # u
    BY <1>1, <1>4, SMTT(40) DEF NoDevice
  <2>2. Active(device[d].owner) /\ device[d].owner \in User
    BY <1>4, <2>1, DeviceFields, Zenon DEF Backed, PrRows
  <2> QED BY <2>1, <2>2, Zenon DEF Active
<1>5. ASSUME NEW s \in Session, sess'[s].live
      PROVE  device'[sess'[s].device] = [owner |-> sess'[s].user, status |-> "active"]
  <2>1. ~NoRow.live
    BY Zenon DEF NoRow
  <2>2. sess'[s] = sess[s] /\ sess[s].device \notin DevicesOf(u)
    BY <1>2, <1>5, <2>1, Zenon
  <2>3. sess[s].device \in Device /\ device[sess[s].device] = [owner |-> sess[s].user, status |-> "active"]
    BY <1>5, <2>2, SessionFields, Zenon DEF Backed, PrRows
  <2> QED BY <1>1, <2>2, <2>3, Zenon DEF DevicesOf
<1> QED BY <1>3, <1>4, <1>5, Zenon DEF Backed

-----------------------------------------------------------------------------
(* Browser sessions, authorization requests and self-revocations *)

\* A sign-in past its first step knows its user, and only one with a code was
\* made with a receipt.
WebRow ==
    {w \in [phase : {"none", "open", "failed", "ended", "rehash", "checked", "proved", "staged"},
            user : User \cup {"nobody"}, short : BOOLEAN, persistent : BOOLEAN,
            of : Password \cup Receipt \cup {"none"}] :
        /\ w.phase # "none" => w.user \in User
        /\ w.phase \in {"rehash", "checked"} => w.of \notin Receipt}

\* Only an approved request is held, and a consumed one has given one session.
GrantRow ==
    {g \in [status : {"saved", "approved", "consumed", "purged"}, device : Device, key : StateKey,
            approver : User \cup {"none"}, user : User \cup {"none"},
            lapsed : BOOLEAN, code : BOOLEAN, held : BOOLEAN, started : SUBSET Session] :
        /\ g.status \in {"approved", "consumed"} => g.user \in User
        /\ g.status \in {"saved", "approved"} => g.started = {}
        /\ g.status = "consumed" => g.started # {}
        /\ g.held => g.status = "approved"
        /\ \A s, t \in g.started : s = t}

\* A self-revocation that took effect left its nonce, until it can no longer be
\* delivered.
MessageRow ==
    {m \in [device : Device, fresh : BOOLEAN, found : User \cup {"none"}, nonce : BOOLEAN, done : {0, 1}] :
        m.done = 1 => m.nonce \/ (~m.fresh /\ m.found = "none")}

SignRows ==
    /\ web \in [Browser -> WebRow]
    /\ grant \in [Grant -> {NoGrant} \cup GrantRow]
    /\ message \in [Message -> MessageRow]

LEMMA GrantFields ==
    ASSUME NEW g \in {NoGrant} \cup GrantRow, g # NoGrant \/ g.status # "none"
    PROVE  g \in GrantRow /\ g # NoGrant
<1>1. NoGrant.status = "none"
  BY Zenon DEF NoGrant
<1>2. \A x \in GrantRow : x.status # "none"
  BY Zenon DEF GrantRow
<1> QED BY <1>1, <1>2, Zenon

LEMMA GrantUpdated ==
    ASSUME SignRows, NEW r \in Grant, NEW g \in GrantRow, grant' = [grant EXCEPT ![r] = g], UNCHANGED <<web, message>>
    PROVE  SignRows'
BY Zenon DEF SignRows

LEMMA WebUpdated ==
    ASSUME SignRows, NEW b \in Browser, NEW w \in WebRow, web' = [web EXCEPT ![b] = w], UNCHANGED <<grant, message>>
    PROVE  SignRows'
BY Zenon DEF SignRows

LEMMA MessageUpdated ==
    ASSUME SignRows, NEW m \in Message, NEW x \in MessageRow, message' = [message EXCEPT ![m] = x],
           UNCHANGED <<web, grant>>
    PROVE  SignRows'
BY Zenon DEF SignRows

LEMMA InitSignRows == PrInit /\ SignInit => SignRows
<1> SUFFICES ASSUME PrInit, SignInit PROVE SignRows
  BY Zenon
<1>1. NoWeb \in WebRow
  BY Zenon DEF NoWeb, WebRow
<1>2. [phase : {"open"}, user : {u \in User : Active(u)}, short : {TRUE}, persistent : {TRUE}, of : {"none"}]
         \subseteq WebRow
  BY IdentityAssumption, Zenon DEF WebRow
<1>3. [device : Device, fresh : {TRUE}, found : {"none"}, nonce : {FALSE}, done : {0}] \subseteq MessageRow
  <2> SUFFICES ASSUME NEW m \in [device : Device, fresh : {TRUE}, found : {"none"}, nonce : {FALSE}, done : {0}]
               PROVE  m \in MessageRow
    BY Zenon
  <2>1. m \in [device : Device, fresh : BOOLEAN, found : User \cup {"none"}, nonce : BOOLEAN, done : {0, 1}]
    BY Zenon
  <2>2. m.done # 1
    OBVIOUS
  <2> QED BY <2>1, <2>2, Zenon DEF MessageRow
<1> QED BY <1>1, <1>2, <1>3, Zenon DEF SignInit, SignRows

GrantColumns ==
    [status : {"saved", "approved", "consumed", "purged"}, device : Device, key : StateKey,
     approver : User \cup {"none"}, user : User \cup {"none"},
     lapsed : BOOLEAN, code : BOOLEAN, held : BOOLEAN, started : SUBSET Session]

\* The UPDATEs of a request
LEMMA GrantUpdates ==
    ASSUME NEW g \in GrantRow
    PROVE  /\ \A u \in User : g.status = "saved" => [g EXCEPT !.approver = u] \in GrantRow
           /\ \A u \in User, c \in BOOLEAN :
                 g.status = "saved" => [g EXCEPT !.status = "approved", !.user = u, !.code = c] \in GrantRow
           /\ g.status = "approved" => [g EXCEPT !.held = TRUE] \in GrantRow
           /\ [g EXCEPT !.held = FALSE] \in GrantRow
           /\ [g EXCEPT !.lapsed = TRUE] \in GrantRow
           /\ ~g.held => [g EXCEPT !.status = "purged"] \in GrantRow
           /\ \A s \in Session :
                 g.held => [g EXCEPT !.status = "consumed", !.held = FALSE, !.started = g.started \cup {s}] \in GrantRow
<1>1. g \in GrantColumns
  BY Zenon DEF GrantRow, GrantColumns
<1>2. ASSUME NEW u \in User, g.status = "saved" PROVE [g EXCEPT !.approver = u] \in GrantRow
  <2> DEFINE q == [g EXCEPT !.approver = u]
  <2>1. q \in GrantColumns /\ q.status = g.status /\ q.user = g.user /\ q.started = g.started /\ q.held = g.held
    BY <1>1, Zenon DEF GrantColumns
  <2> HIDE DEF q
  <2> QED BY <2>1, Zenon DEF GrantRow, GrantColumns
<1>3. ASSUME NEW u \in User, NEW c \in BOOLEAN, g.status = "saved"
      PROVE  [g EXCEPT !.status = "approved", !.user = u, !.code = c] \in GrantRow
  <2> DEFINE q == [g EXCEPT !.status = "approved", !.user = u, !.code = c]
  <2>1. q \in GrantColumns /\ q.status = "approved" /\ q.user = u /\ q.started = g.started /\ q.held = g.held
    BY <1>1, Zenon DEF GrantColumns
  <2> HIDE DEF q
  <2> QED BY <1>3, <2>1, Zenon DEF GrantRow, GrantColumns
<1>4. ASSUME g.status = "approved" PROVE [g EXCEPT !.held = TRUE] \in GrantRow
  <2> DEFINE q == [g EXCEPT !.held = TRUE]
  <2>1. q \in GrantColumns /\ q.status = g.status /\ q.user = g.user /\ q.started = g.started /\ q.held
    BY <1>1, Zenon DEF GrantColumns
  <2> HIDE DEF q
  <2> QED BY <1>4, <2>1, Zenon DEF GrantRow, GrantColumns
<1>5. [g EXCEPT !.held = FALSE] \in GrantRow
  <2> DEFINE q == [g EXCEPT !.held = FALSE]
  <2>1. q \in GrantColumns /\ q.status = g.status /\ q.user = g.user /\ q.started = g.started /\ ~q.held
    BY <1>1, Zenon DEF GrantColumns
  <2> HIDE DEF q
  <2> QED BY <2>1, Zenon DEF GrantRow, GrantColumns
<1>6. [g EXCEPT !.lapsed = TRUE] \in GrantRow
  <2> DEFINE q == [g EXCEPT !.lapsed = TRUE]
  <2>1. q \in GrantColumns /\ q.status = g.status /\ q.user = g.user /\ q.started = g.started /\ q.held = g.held
    BY <1>1, Zenon DEF GrantColumns
  <2> HIDE DEF q
  <2> QED BY <2>1, Zenon DEF GrantRow, GrantColumns
<1>7. ASSUME ~g.held PROVE [g EXCEPT !.status = "purged"] \in GrantRow
  <2> DEFINE q == [g EXCEPT !.status = "purged"]
  <2>1. q \in GrantColumns /\ q.status = "purged" /\ q.user = g.user /\ q.started = g.started /\ q.held = g.held
    BY <1>1, Zenon DEF GrantColumns
  <2> HIDE DEF q
  <2> QED BY <1>7, <2>1, Zenon DEF GrantRow, GrantColumns
<1>8. ASSUME NEW s \in Session, g.held
      PROVE  [g EXCEPT !.status = "consumed", !.held = FALSE, !.started = g.started \cup {s}] \in GrantRow
  <2> DEFINE q == [g EXCEPT !.status = "consumed", !.held = FALSE, !.started = g.started \cup {s}]
  <2>1. g.started = {} /\ g.user \in User
    BY <1>8, Zenon DEF GrantRow
  <2>2. q \in GrantColumns /\ q.status = "consumed" /\ q.user = g.user /\ q.started = {s} /\ ~q.held
    BY <1>1, <2>1, Zenon DEF GrantColumns
  <2> HIDE DEF q
  <2> QED BY <2>1, <2>2, Zenon DEF GrantRow, GrantColumns
<1> QED BY <1>2, <1>3, <1>4, <1>5, <1>6, <1>7, <1>8, Zenon

LEMMA RequestSteps ==
    ASSUME SignRows, NEW r \in Grant,
           \/ \E d \in Device, k \in StateKey : Begin(r, d, k)
           \/ \E b \in Browser : readApprover(r, b)
           \/ Approve(r) \/ hold(r) \/ exchangeFails(r) \/ Lapse(r) \/ purgeGrant(r)
           \/ \E s \in Session : Exchange(r, s)
    PROVE  SignRows'
<1> DEFINE g == grant[r]
<1>0. g \in {NoGrant} \cup GrantRow /\ grant = [x \in Grant |-> grant[x]]
  BY Zenon DEF SignRows
<1>1. ASSUME NEW d \in Device, NEW k \in StateKey, Begin(r, d, k) PROVE SignRows'
  <2> DEFINE q == [status |-> "saved", device |-> d, key |-> k, approver |-> "none", user |-> "none",
                   lapsed |-> FALSE, code |-> FALSE, held |-> FALSE, started |-> {}]
  <2>1. q \in GrantRow
    BY Zenon DEF GrantRow
  <2>2. grant' = [grant EXCEPT ![r] = q] /\ UNCHANGED <<web, message>>
    BY <1>1, Zenon DEF Begin, Save
  <2> HIDE DEF q
  <2> QED BY <2>1, <2>2, GrantUpdated, ZenonT(40)
<1>2. ASSUME NEW b \in Browser, readApprover(r, b) PROVE SignRows'
  <2>1. /\ g.status = "saved" /\ web[b].phase = "open" /\ UNCHANGED <<web, message>>
        /\ grant' = [grant EXCEPT ![r] = [g EXCEPT !.approver = web[b].user]]
    BY <1>0, <1>2, Zenon DEF readApprover, Read
  <2>2. g \in GrantRow /\ web[b].user \in User
    BY <1>0, <2>1, GrantFields, Zenon DEF SignRows, WebRow
  <2>3. [g EXCEPT !.approver = web[b].user] \in GrantRow
    BY <2>1, <2>2, GrantUpdates, Zenon
  <2> QED BY <2>1, <2>3, GrantUpdated, Zenon
<1>3. ASSUME Approve(r) PROVE SignRows'
  <2>1. /\ g # NoGrant /\ g.status = "saved" /\ g.approver # "none" /\ UNCHANGED <<web, message>>
        /\ grant' = [grant EXCEPT ![r] = [[g EXCEPT !.status = "approved", !.user = g.approver] EXCEPT !.code = decryptState(r)]]
    BY <1>3, Zenon DEF Approve, approvable, approved
  <2>2. g \in GrantRow /\ g.approver \in User
    BY <1>0, <2>1, GrantFields, Zenon DEF GrantRow
  <2>3. decryptState(r) \in BOOLEAN
    BY DEF decryptState
  <2> DEFINE c == decryptState(r)
  <2> HIDE DEF c
  <2>4. [[g EXCEPT !.status = "approved", !.user = g.approver] EXCEPT !.code = c]
            = [g EXCEPT !.status = "approved", !.user = g.approver, !.code = c]
    BY <2>2, Zenon DEF GrantRow
  <2>5. [g EXCEPT !.status = "approved", !.user = g.approver, !.code = c] \in GrantRow
    BY <2>1, <2>2, <2>3, GrantUpdates, ZenonT(40) DEF c
  <2> QED BY <2>1, <2>4, <2>5, GrantUpdated, Zenon DEF c
<1>4. ASSUME hold(r) PROVE SignRows'
  <2>1. /\ g.status = "approved" /\ UNCHANGED <<web, message>>
        /\ grant' = [grant EXCEPT ![r] = [g EXCEPT !.held = TRUE]]
    BY <1>0, <1>4, Zenon DEF hold
  <2>2. g \in GrantRow
    BY <1>0, <2>1, GrantFields, Zenon
  <2> QED BY <2>1, <2>2, GrantUpdates, GrantUpdated, Zenon
<1>5. ASSUME exchangeFails(r) PROVE SignRows'
  <2>1. /\ g.status # "none" /\ UNCHANGED <<web, message>>
        /\ grant' = [grant EXCEPT ![r] = [g EXCEPT !.held = FALSE]]
    BY <1>0, <1>5, Zenon DEF exchangeFails
  <2>2. g \in GrantRow
    BY <1>0, <2>1, GrantFields, Zenon
  <2> QED BY <2>1, <2>2, GrantUpdates, GrantUpdated, Zenon
<1>6. ASSUME Lapse(r) PROVE SignRows'
  <2>1. /\ g.status # "none" /\ UNCHANGED <<web, message>>
        /\ grant' = [grant EXCEPT ![r] = [g EXCEPT !.lapsed = TRUE]]
    BY <1>0, <1>6, Zenon DEF Lapse
  <2>2. g \in GrantRow
    BY <1>0, <2>1, GrantFields, Zenon
  <2> QED BY <2>1, <2>2, GrantUpdates, GrantUpdated, Zenon
<1>7. ASSUME purgeGrant(r) PROVE SignRows'
  <2>1. /\ g.status # "none" /\ ~g.held /\ UNCHANGED <<web, message>>
        /\ grant' = [grant EXCEPT ![r] = [g EXCEPT !.status = "purged"]]
    BY <1>0, <1>7, Zenon DEF purgeGrant
  <2>2. g \in GrantRow
    BY <1>0, <2>1, GrantFields, Zenon
  <2> QED BY <2>1, <2>2, GrantUpdates, GrantUpdated, Zenon
<1>8. ASSUME NEW s \in Session, Exchange(r, s) PROVE SignRows'
  <2>1. /\ g.status # "none" /\ g.held /\ UNCHANGED <<web, message>>
        /\ grant' = [grant EXCEPT ![r] = [g EXCEPT !.status = "consumed", !.held = FALSE, !.started = g.started \cup {s}]]
    BY <1>0, <1>8, Zenon DEF Exchange
  <2>2. g \in GrantRow
    BY <1>0, <2>1, GrantFields, Zenon
  <2> QED BY <2>1, <2>2, GrantUpdates, GrantUpdated, ZenonT(40)
<1> QED BY <1>1, <1>2, <1>3, <1>4, <1>5, <1>6, <1>7, <1>8, Zenon

LEMMA MessageUpdates ==
    ASSUME NEW m \in MessageRow
    PROVE  /\ \A u \in User : m.fresh => [m EXCEPT !.found = u] \in MessageRow
           /\ m.found # "none" /\ ~m.nonce => /\ m.done = 0
                                              /\ [m EXCEPT !.found = "none", !.nonce = TRUE, !.done = m.done + 1] \in MessageRow
           /\ [m EXCEPT !.found = "none"] \in MessageRow
           /\ ~m.fresh /\ m.found = "none" => [m EXCEPT !.nonce = FALSE] \in MessageRow
           /\ \A f \in BOOLEAN : (f => m.fresh) => [m EXCEPT !.fresh = f] \in MessageRow
<1> DEFINE Columns == [device : Device, fresh : BOOLEAN, found : User \cup {"none"}, nonce : BOOLEAN, done : {0, 1}]
           ok(x) == x.done = 1 => x.nonce \/ (~x.fresh /\ x.found = "none")
<1>0. MessageRow = {x \in Columns : ok(x)}
  BY Zenon DEF MessageRow
<1>1. m \in Columns /\ ok(m)
  BY Zenon DEF MessageRow
<1>2. ASSUME NEW u \in User, m.fresh PROVE [m EXCEPT !.found = u] \in MessageRow
  <2> DEFINE q == [m EXCEPT !.found = u]
  <2>1. q \in Columns /\ q.done = m.done /\ q.nonce = m.nonce /\ q.fresh = m.fresh
    BY <1>1, Zenon
  <2> HIDE DEF q
  <2> QED BY <1>0, <1>1, <1>2, <2>1, Zenon
<1>3. ASSUME m.found # "none", ~m.nonce
      PROVE  m.done = 0 /\ [m EXCEPT !.found = "none", !.nonce = TRUE, !.done = m.done + 1] \in MessageRow
  <2> DEFINE q == [m EXCEPT !.found = "none", !.nonce = TRUE, !.done = 1]
  <2>0. m.done = 0 /\ m.done + 1 = 1
    BY <1>1, <1>3
  <2>1. q \in Columns /\ q.nonce
    BY <1>1, Zenon
  <2>2. [m EXCEPT !.found = "none", !.nonce = TRUE, !.done = m.done + 1] = q
    BY <2>0, Zenon
  <2> HIDE DEF q
  <2> QED BY <1>0, <2>0, <2>1, <2>2, Zenon
<1>4. [m EXCEPT !.found = "none"] \in MessageRow
  <2> DEFINE q == [m EXCEPT !.found = "none"]
  <2>1. q \in Columns /\ q.done = m.done /\ q.nonce = m.nonce /\ q.fresh = m.fresh /\ q.found = "none"
    BY <1>1, Zenon
  <2> HIDE DEF q
  <2> QED BY <1>0, <1>1, <2>1, Zenon
<1>5. ASSUME ~m.fresh, m.found = "none" PROVE [m EXCEPT !.nonce = FALSE] \in MessageRow
  <2> DEFINE q == [m EXCEPT !.nonce = FALSE]
  <2>1. q \in Columns /\ q.done = m.done /\ q.fresh = m.fresh /\ q.found = m.found
    BY <1>1, Zenon
  <2> HIDE DEF q
  <2> QED BY <1>0, <1>5, <2>1, Zenon
<1>6. ASSUME NEW f \in BOOLEAN, f => m.fresh PROVE [m EXCEPT !.fresh = f] \in MessageRow
  <2> DEFINE q == [m EXCEPT !.fresh = f]
  <2>1. q \in Columns /\ q.done = m.done /\ q.nonce = m.nonce /\ q.fresh = f /\ q.found = m.found
    BY <1>1, Zenon
  <2> HIDE DEF q
  <2> QED BY <1>0, <1>1, <1>6, <2>1, Zenon
<1> QED BY <1>2, <1>3, <1>4, <1>5, <1>6, Zenon

LEMMA MessageSteps ==
    ASSUME PrRows, SignRows, NEW m \in Message,
           SelfRevoke(m) \/ selfRevoke(m) \/ selfRevokeRefused(m) \/ purgeNonce(m) \/ Age(m)
    PROVE  SignRows'
<1> DEFINE x == message[m]
<1>0. x \in MessageRow /\ message = [y \in Message |-> message[y]] /\ x.device \in Device
  BY Zenon DEF SignRows, MessageRow
<1>1. ASSUME SelfRevoke(m) PROVE SignRows'
  <2>1. /\ x.fresh /\ device[x.device] # NoDevice /\ UNCHANGED <<web, grant>>
        /\ message' = [message EXCEPT ![m] = [x EXCEPT !.found = device[x.device].owner]]
    BY <1>0, <1>1, Zenon DEF SelfRevoke, FindForSelfRevoke
  <2>2. device[x.device].owner \in User
    BY <1>0, <2>1, DeviceFields, Zenon DEF PrRows
  <2> QED BY <1>0, <2>1, <2>2, MessageUpdates, MessageUpdated, Zenon
<1>2. ASSUME selfRevoke(m) PROVE SignRows'
  <2>1. /\ x.found # "none" /\ ~x.nonce /\ UNCHANGED <<web, grant>>
        /\ message' = [message EXCEPT ![m] = [x EXCEPT !.found = "none", !.nonce = TRUE, !.done = x.done + 1]]
    BY <1>0, <1>2, Zenon DEF selfRevoke
  <2> QED BY <1>0, <2>1, MessageUpdates, MessageUpdated, Zenon
<1>3. ASSUME selfRevokeRefused(m) PROVE SignRows'
  <2>1. UNCHANGED <<web, grant>> /\ message' = [message EXCEPT ![m] = [x EXCEPT !.found = "none"]]
    BY <1>0, <1>3, Zenon DEF selfRevokeRefused
  <2> QED BY <1>0, <2>1, MessageUpdates, MessageUpdated, Zenon
<1>4. ASSUME purgeNonce(m) PROVE SignRows'
  <2>1. /\ ~x.fresh /\ x.found = "none" /\ UNCHANGED <<web, grant>>
        /\ message' = [message EXCEPT ![m] = [x EXCEPT !.nonce = FALSE]]
    BY <1>0, <1>4, Zenon DEF purgeNonce
  <2> QED BY <1>0, <2>1, MessageUpdates, MessageUpdated, Zenon
<1>5. ASSUME Age(m) PROVE SignRows'
  <2>1. UNCHANGED <<web, grant>> /\ message' = [message EXCEPT ![m] = [x EXCEPT !.fresh = FALSE]]
    BY <1>0, <1>5, Zenon DEF Age
  <2> QED BY <1>0, <2>1, MessageUpdates, MessageUpdated, Zenon
<1> QED BY <1>1, <1>2, <1>3, <1>4, <1>5, Zenon

\* Steps of a sign-in: what they do to its browser session
LEMMA WebUpdates ==
    ASSUME NEW w \in WebRow
    PROVE  /\ [w EXCEPT !.short = FALSE] \in WebRow /\ [w EXCEPT !.persistent = FALSE] \in WebRow
           /\ \A short \in BOOLEAN : w.user \in User => [w EXCEPT !.phase = "failed", !.short = short] \in WebRow
           /\ \A phase \in {"open", "staged"} :
                 w.user \in User => /\ [w EXCEPT !.phase = phase, !.short = TRUE, !.persistent = TRUE] \in WebRow
                                    /\ [w EXCEPT !.phase = phase] \in WebRow
           /\ w.user \in User => /\ [w EXCEPT !.phase = "ended", !.short = FALSE, !.persistent = FALSE] \in WebRow
                                 /\ [w EXCEPT !.phase = "ended"] \in WebRow
           /\ w.phase = "rehash" => [w EXCEPT !.phase = "checked"] \in WebRow
           /\ \A u \in User, p \in Password, phase \in {"rehash", "checked"} :
                 [w EXCEPT !.phase = phase, !.user = u, !.of = p] \in WebRow
           /\ \A u \in User, x \in Receipt : [w EXCEPT !.phase = "proved", !.user = u, !.of = x] \in WebRow
<1> DEFINE Columns == [phase : {"none", "open", "failed", "ended", "rehash", "checked", "proved", "staged"},
                       user : User \cup {"nobody"}, short : BOOLEAN, persistent : BOOLEAN,
                       of : Password \cup Receipt \cup {"none"}]
           ok(x) == (x.phase # "none" => x.user \in User) /\ (x.phase \in {"rehash", "checked"} => x.of \notin Receipt)
<1>0. WebRow = {x \in Columns : ok(x)}
  BY Zenon DEF WebRow
<1>1. w \in Columns /\ ok(w)
  BY Zenon DEF WebRow
<1>2. [w EXCEPT !.short = FALSE] \in WebRow
  <2> DEFINE q == [w EXCEPT !.short = FALSE]
  <2>1. q \in Columns /\ q.phase = w.phase /\ q.user = w.user /\ q.of = w.of
    BY <1>1, Zenon
  <2> HIDE DEF q
  <2> QED BY <1>0, <1>1, <2>1, ZenonT(40)
<1>3. [w EXCEPT !.persistent = FALSE] \in WebRow
  <2> DEFINE q == [w EXCEPT !.persistent = FALSE]
  <2>1. q \in Columns /\ q.phase = w.phase /\ q.user = w.user /\ q.of = w.of
    BY <1>1, Zenon
  <2> HIDE DEF q
  <2> QED BY <1>0, <1>1, <2>1, Zenon
<1>4. ASSUME NEW short \in BOOLEAN, w.user \in User PROVE [w EXCEPT !.phase = "failed", !.short = short] \in WebRow
  <2> DEFINE q == [w EXCEPT !.phase = "failed", !.short = short]
  <2>1. q \in Columns /\ q.phase = "failed" /\ q.user = w.user
    BY <1>1, Zenon
  <2> HIDE DEF q
  <2> QED BY <1>0, <1>4, <2>1, ZenonT(40)
<1>5. ASSUME NEW phase \in {"open", "staged"}, w.user \in User
      PROVE  /\ [w EXCEPT !.phase = phase, !.short = TRUE, !.persistent = TRUE] \in WebRow
             /\ [w EXCEPT !.phase = phase] \in WebRow
  <2> DEFINE q == [w EXCEPT !.phase = phase, !.short = TRUE, !.persistent = TRUE]
             t == [w EXCEPT !.phase = phase]
  <2>1. q \in Columns /\ q.phase = phase /\ q.user = w.user
    BY <1>1, Zenon
  <2>2. t \in Columns /\ t.phase = phase /\ t.user = w.user
    BY <1>1, Zenon
  <2> HIDE DEF q, t
  <2> QED BY <1>0, <1>5, <2>1, <2>2, ZenonT(40)
<1>6. ASSUME w.user \in User
      PROVE  /\ [w EXCEPT !.phase = "ended", !.short = FALSE, !.persistent = FALSE] \in WebRow
             /\ [w EXCEPT !.phase = "ended"] \in WebRow
  <2> DEFINE q == [w EXCEPT !.phase = "ended", !.short = FALSE, !.persistent = FALSE]
             t == [w EXCEPT !.phase = "ended"]
  <2>1. q \in Columns /\ q.phase = "ended" /\ q.user = w.user
    BY <1>1, Zenon
  <2>2. t \in Columns /\ t.phase = "ended" /\ t.user = w.user
    BY <1>1, Zenon
  <2> HIDE DEF q, t
  <2> QED BY <1>0, <1>6, <2>1, <2>2, ZenonT(40)
<1>7. ASSUME w.phase = "rehash" PROVE [w EXCEPT !.phase = "checked"] \in WebRow
  <2> DEFINE q == [w EXCEPT !.phase = "checked"]
  <2>1. q \in Columns /\ q.user = w.user /\ q.of = w.of
    BY <1>1, Zenon
  <2> HIDE DEF q
  <2> QED BY <1>0, <1>1, <1>7, <2>1, Zenon
<1>8. ASSUME NEW u \in User, NEW p \in Password, NEW phase \in {"rehash", "checked"}
      PROVE  [w EXCEPT !.phase = phase, !.user = u, !.of = p] \in WebRow
  <2> DEFINE q == [w EXCEPT !.phase = phase, !.user = u, !.of = p]
  <2>1. q \in Columns /\ q.user = u /\ q.of = p
    BY <1>1, Zenon
  <2> HIDE DEF q
  <2> QED BY <1>0, <2>1, IdentityAssumption, Zenon
<1>9. ASSUME NEW u \in User, NEW x \in Receipt PROVE [w EXCEPT !.phase = "proved", !.user = u, !.of = x] \in WebRow
  <2> DEFINE q == [w EXCEPT !.phase = "proved", !.user = u, !.of = x]
  <2>1. q \in Columns /\ q.user = u /\ q.phase = "proved"
    BY <1>1, Zenon
  <2> HIDE DEF q
  <2> QED BY <1>0, <2>1, Zenon
<1> QED BY <1>2, <1>3, <1>4, <1>5, <1>6, <1>7, <1>8, <1>9, ZenonT(40)

LEMMA StartSteps ==
    ASSUME SignRows, NEW b \in Browser, NEW phase \in {"open", "staged"}, web[b].phase \in {"checked", "proved"},
           Start(b, phase)
    PROVE  \E w \in WebRow : /\ web' = [web EXCEPT ![b] = w]
                             /\ w.of = web[b].of /\ w.phase \in {phase, "failed"}
<1>1. web[b] \in WebRow /\ web[b].user \in User /\ web = [x \in Browser |-> web[x]]
  BY Zenon DEF SignRows, WebRow
<1>2. CASE web' = [web EXCEPT ![b].phase = phase, ![b].short = TRUE, ![b].persistent = TRUE]
  <2> DEFINE w == [web[b] EXCEPT !.phase = phase, !.short = TRUE, !.persistent = TRUE]
  <2>1. w \in WebRow
    BY <1>1, WebUpdates, Zenon
  <2>2. web' = [web EXCEPT ![b] = w]
    BY <1>1, <1>2, Zenon
  <2>3. w.of = web[b].of /\ w.phase = phase
    BY <1>1, Zenon DEF WebRow
  <2> HIDE DEF w
  <2> QED BY <2>1, <2>2, <2>3, Zenon
<1>3. ASSUME NEW kept \in BOOLEAN, web' = [web EXCEPT ![b].phase = "failed", ![b].short = kept]
      PROVE  \E w \in WebRow : /\ web' = [web EXCEPT ![b] = w]
                               /\ w.of = web[b].of /\ w.phase \in {phase, "failed"}
  <2> DEFINE w == [web[b] EXCEPT !.phase = "failed", !.short = kept]
  <2>1. w \in WebRow
    BY <1>1, WebUpdates, Zenon
  <2>2. web' = [web EXCEPT ![b] = w]
    BY <1>1, <1>3, Zenon
  <2>3. w.of = web[b].of /\ w.phase = "failed"
    BY <1>1, Zenon DEF WebRow
  <2> HIDE DEF w
  <2> QED BY <2>1, <2>2, <2>3, Zenon
<1> QED BY <1>2, <1>3, Zenon DEF Start

LEMMA EndSteps ==
    ASSUME SignRows, NEW b \in Browser, web[b].phase # "none", End(b)
    PROVE  \E w \in WebRow : web' = [web EXCEPT ![b] = w] /\ w.phase = "ended"
<1>1. web[b] \in WebRow /\ web[b].user \in User /\ web = [x \in Browser |-> web[x]]
  BY Zenon DEF SignRows, WebRow
<1>2. CASE web' = [web EXCEPT ![b].phase = "ended", ![b].short = FALSE, ![b].persistent = FALSE]
  <2> DEFINE w == [web[b] EXCEPT !.phase = "ended", !.short = FALSE, !.persistent = FALSE]
  <2>1. w \in WebRow
    BY <1>1, WebUpdates, Zenon
  <2>2. web' = [web EXCEPT ![b] = w]
    BY <1>1, <1>2, Zenon
  <2>3. w.phase = "ended"
    BY <1>1, Zenon DEF WebRow
  <2> HIDE DEF w
  <2> QED BY <2>1, <2>2, <2>3, Zenon
<1>3. CASE web' = [web EXCEPT ![b].phase = "ended"]
  <2> DEFINE w == [web[b] EXCEPT !.phase = "ended"]
  <2>1. w \in WebRow
    BY <1>1, WebUpdates, Zenon
  <2>2. web' = [web EXCEPT ![b] = w]
    BY <1>1, <1>3, Zenon
  <2>3. w.phase = "ended"
    BY <1>1, Zenon DEF WebRow
  <2> HIDE DEF w
  <2> QED BY <2>1, <2>2, <2>3, Zenon
<1> QED BY <1>2, <1>3, Zenon DEF End

\* No sign-in with a receipt gets through.
NoneOpens ==
    \A b \in Browser :
        web'[b].phase = "open" =>
            web'[b].of \notin Receipt \/ (web[b].phase = "open" /\ web'[b].of = web[b].of)

LEMMA WebStep ==
    ASSUME SignRows, NEW b \in Browser, NEW w \in WebRow, web' = [web EXCEPT ![b] = w], UNCHANGED <<grant, message>>,
           w.phase = "open" => w.of \notin Receipt \/ (web[b].phase = "open" /\ w.of = web[b].of)
    PROVE  SignRows' /\ NoneOpens
<1>1. \A x \in Browser : web'[x] = IF x = b THEN w ELSE web[x]
  BY Zenon DEF SignRows
<1> QED BY <1>1, WebUpdated, Zenon DEF NoneOpens

LEMMA BrowserSteps ==
    ASSUME SignRows, NEW b \in Browser,
           \/ logout(b) \/ Expire(b) \/ UpdatePasswordHash(b) \/ login(b) \/ stage(b) \/ discardStagedBrowserSession(b)
           \/ \E n \in Server, v \in Value, u \in User, p \in Password : AuthenticatePassword(n, b, v, u, p)
           \/ \E n \in Server, x \in Receipt, u \in User : AuthenticateVerification(n, b, x, u)
    PROVE  SignRows' /\ NoneOpens
<1>1. web[b] \in WebRow /\ web = [x \in Browser |-> web[x]]
  BY Zenon DEF SignRows
<1>2. CASE logout(b) \/ discardStagedBrowserSession(b)
  <2>1. web[b].phase # "none" /\ End(b) /\ UNCHANGED <<grant, message>>
    BY <1>2, Zenon DEF logout, Read, discardStagedBrowserSession
  <2>2. PICK w \in WebRow : web' = [web EXCEPT ![b] = w] /\ w.phase = "ended"
    BY <2>1, EndSteps, Zenon
  <2> QED BY <2>1, <2>2, WebStep, Zenon
<1>3. CASE Expire(b)
  <2> DEFINE q == [web[b] EXCEPT !.short = FALSE]
             t == [web[b] EXCEPT !.persistent = FALSE]
  <2>1. UNCHANGED <<grant, message>> /\ (web' = [web EXCEPT ![b] = q] \/ web' = [web EXCEPT ![b] = t])
    BY <1>1, <1>3, Zenon DEF Expire
  <2>2. q \in WebRow /\ t \in WebRow
    BY <1>1, WebUpdates, Zenon
  <2>3. q.phase = web[b].phase /\ q.of = web[b].of /\ t.phase = web[b].phase /\ t.of = web[b].of
    BY <1>1, Zenon DEF WebRow
  <2> HIDE DEF q, t
  <2> QED BY <2>1, <2>2, <2>3, WebStep, Zenon
<1>4. CASE UpdatePasswordHash(b)
  <2> DEFINE q == [web[b] EXCEPT !.phase = "checked"]
  <2>1. UNCHANGED <<grant, message>> /\ web' = [web EXCEPT ![b] = q] /\ web[b].phase = "rehash"
    BY <1>1, <1>4, Zenon DEF UpdatePasswordHash
  <2>2. q \in WebRow
    BY <1>1, <2>1, WebUpdates, Zenon
  <2>3. q.phase = "checked"
    BY <1>1, Zenon DEF WebRow
  <2> HIDE DEF q
  <2> QED BY <2>1, <2>2, <2>3, WebStep, Zenon
<1>5. CASE login(b)
  <2>1. web[b].phase = "checked" /\ Start(b, "open") /\ UNCHANGED <<grant, message>>
    BY <1>5, Zenon DEF login
  <2>2. PICK w \in WebRow : /\ web' = [web EXCEPT ![b] = w]
                            /\ w.of = web[b].of /\ w.phase \in {"open", "failed"}
    BY <2>1, StartSteps, Zenon
  <2>3. web[b].of \notin Receipt
    BY <1>1, <2>1, Zenon DEF WebRow
  <2> QED BY <2>1, <2>2, <2>3, WebStep, Zenon
<1>6. CASE stage(b)
  <2>1. web[b].phase = "proved" /\ Start(b, "staged") /\ UNCHANGED <<grant, message>>
    BY <1>6, Zenon DEF stage
  <2>2. PICK w \in WebRow : /\ web' = [web EXCEPT ![b] = w]
                            /\ w.of = web[b].of /\ w.phase \in {"staged", "failed"}
    BY <2>1, StartSteps, Zenon
  <2> QED BY <2>1, <2>2, WebStep, Zenon
<1>7. ASSUME NEW n \in Server, NEW v \in Value, NEW u \in User, NEW p \in Password, AuthenticatePassword(n, b, v, u, p)
      PROVE  SignRows' /\ NoneOpens
  <2> DEFINE phase == IF needsRehash(u) THEN "rehash" ELSE "checked"
             q == [web[b] EXCEPT !.phase = phase, !.user = u, !.of = p]
  <2>1. UNCHANGED <<grant, message>> /\ web' = [web EXCEPT ![b] = q]
    BY <1>1, <1>7, ZenonT(40) DEF AuthenticatePassword
  <2>2. q \in WebRow
    BY <1>1, WebUpdates, Zenon
  <2>3. q.phase = phase
    BY <1>1, Zenon DEF WebRow
  <2> HIDE DEF q
  <2> QED BY <2>1, <2>2, <2>3, WebStep, Zenon
<1>8. ASSUME NEW n \in Server, NEW x \in Receipt, NEW u \in User, AuthenticateVerification(n, b, x, u)
      PROVE  SignRows' /\ NoneOpens
  <2> DEFINE q == [web[b] EXCEPT !.phase = "proved", !.user = u, !.of = x]
  <2>1. UNCHANGED <<grant, message>> /\ web' = [web EXCEPT ![b] = q]
    BY <1>1, <1>8, ZenonT(40) DEF AuthenticateVerification
  <2>2. q \in WebRow
    BY <1>1, WebUpdates, Zenon
  <2>3. q.phase = "proved"
    BY <1>1, Zenon DEF WebRow
  <2> HIDE DEF q
  <2> QED BY <2>1, <2>2, <2>3, WebStep, Zenon
<1> QED BY <1>2, <1>3, <1>4, <1>5, <1>6, <1>7, <1>8, Zenon

-----------------------------------------------------------------------------
(* Receipts *)

ReceiptRow ==
    [purpose : {"registration", "login", "password_reset", "bind_identity", "account_deletion", "deletion_recovery"},
     value : Value, spent : BOOLEAN]

\* An open browser session that was made with a receipt has spent it alone.
OpenedOnce ==
    \A b \in Browser :
        web[b].phase = "open" /\ web[b].of \in Receipt =>
            /\ receipt[web[b].of].spent
            /\ \A other \in Browser : web[other].phase = "open" /\ web[other].of = web[b].of => other = b

ReceiptRows == receipt \in [Receipt -> ReceiptRow]

\* Receipts stay what they are, and spent ones stay spent.
ReceiptsKept ==
    /\ ReceiptRows'
    /\ \A x \in Receipt : receipt[x].spent => receipt'[x].spent

LEMMA ReceiptSpent ==
    ASSUME ReceiptRows, NEW x \in Receipt, markReceiptConsumed(x)
    PROVE  ReceiptsKept /\ receipt'[x].spent
<1>1. receipt' = [receipt EXCEPT ![x] = [receipt[x] EXCEPT !.spent = TRUE]]
  BY Zenon DEF markReceiptConsumed, ReceiptRows
<1>2. [receipt[x] EXCEPT !.spent = TRUE] \in ReceiptRow /\ [receipt[x] EXCEPT !.spent = TRUE].spent
  BY Zenon DEF ReceiptRows, ReceiptRow
<1> QED BY <1>1, <1>2, Zenon DEF ReceiptRows, ReceiptsKept

LEMMA OpenedOnceKept ==
    ASSUME OpenedOnce, NoneOpens, ReceiptsKept
    PROVE  OpenedOnce'
BY Zenon DEF OpenedOnce, NoneOpens, ReceiptsKept

LEMMA LoginCompletes ==
    ASSUME SignRows, ReceiptRows, OpenedOnce, NEW n, NEW b \in Browser, CompleteVerificationLogin(n, b)
    PROVE  SignRows' /\ ReceiptsKept /\ OpenedOnce'
<1> DEFINE q == [web[b] EXCEPT !.phase = "open"]
           x == web[b].of
<1>1. /\ web[b] \in WebRow /\ web = [y \in Browser |-> web[y]] /\ web[b].phase = "staged"
      /\ UNCHANGED <<grant, message>> /\ web' = [web EXCEPT ![b] = q]
  BY Zenon DEF SignRows, CompleteVerificationLogin
<1>2. q \in WebRow /\ q.phase = "open" /\ q.of = x
  <2>1. web[b].user \in User
    BY <1>1, Zenon DEF WebRow
  <2>2. q \in WebRow
    BY <1>1, <2>1, WebUpdates, Zenon
  <2>3. q.phase = "open" /\ q.of = x
    BY <1>1, Zenon DEF WebRow
  <2> QED BY <2>2, <2>3, Zenon
<1>3. receipt[x] = [purpose |-> "login", value |-> receipt[x].value, spent |-> FALSE] /\ markReceiptConsumed(x)
  BY Zenon DEF CompleteVerificationLogin, ConsumeLoginReceipt, proves, lockAvailableReceipt
<1> HIDE DEF q
<1>4. SignRows'
  BY <1>1, <1>2, WebUpdated, Zenon
<1>5. \A y \in Browser : web'[y] = IF y = b THEN q ELSE web[y]
  BY <1>1, Zenon DEF SignRows
<1>6. CASE x \in Receipt
  <2>1. ~receipt[x].spent
    BY <1>3, SMTT(40)
  <2>2. ReceiptsKept /\ receipt'[x].spent
    BY <1>3, <1>6, ReceiptSpent, Zenon
  <2>3. \A y \in Browser : ~(web[y].phase = "open" /\ web[y].of = x)
    BY <1>6, <2>1, Zenon DEF OpenedOnce
  <2>4. ASSUME NEW y \in Browser, web'[y].phase = "open", web'[y].of \in Receipt
        PROVE  /\ receipt'[web'[y].of].spent
               /\ \A other \in Browser : web'[other].phase = "open" /\ web'[other].of = web'[y].of => other = y
    <3>1. CASE y = b
      BY <1>2, <1>5, <2>2, <2>3, <3>1, Zenon
    <3>2. CASE y # b
      BY <1>2, <1>5, <2>2, <2>3, <2>4, <3>2, ZenonT(40) DEF OpenedOnce, ReceiptsKept
    <3> QED BY <3>1, <3>2, Zenon
  <2> QED BY <1>4, <2>2, <2>4, Zenon DEF OpenedOnce
<1>7. CASE x \notin Receipt
  <2>1. receipt' = receipt
    BY <1>3, <1>7, Zenon DEF markReceiptConsumed, ReceiptRows
  <2> QED BY <1>2, <1>4, <1>5, <1>7, <2>1, ZenonT(40) DEF OpenedOnce, ReceiptsKept, ReceiptRows
<1> QED BY <1>6, <1>7, Zenon

-----------------------------------------------------------------------------
(* What every component does to users, devices, sessions and sign-ins *)

\* The part of the inductive invariant about the shared rows and sign-ins
AccessInv == PrRows /\ Backed /\ SignRows /\ ReceiptRows /\ OpenedOnce

LEMMA PrincipalsOnly ==
    ASSUME AccessInv, PrRows', Backed', UNCHANGED <<web, grant, message, receipt>>
    PROVE  AccessInv'
BY Zenon DEF AccessInv, SignRows, ReceiptRows, OpenedOnce

\* Devices and sessions are revoked, and at most the account they belong to is shut.
LEMMA RevokingStep ==
    ASSUME PrRows, Backed, UserRows', NEW gone, NEW rows, RevokeDevices(gone), Revoke(rows),
           \A d \in gone \cap Device : device[d] # NoDevice,
           \A s \in Session : sess[s].live /\ sess[s].device \in gone => s \in rows,
           \A u \in User : Active(u) /\ ~Active(u)' => DevicesOf(u) \subseteq gone
    PROVE  PrRows' /\ Backed'
<1>1. device' \in [Device -> DeviceRow] /\ Closed(gone)
  BY RevokeCloses, Zenon
<1>2. sess' \in [Session -> SessionRow] /\ Ended(rows)
  BY RevokeEnds, Zenon
<1>3. Backed'
  BY <1>1, <1>2, RevokingKeepsBacked, Zenon
<1> QED BY <1>1, <1>2, <1>3, Zenon DEF PrRows

\* Sessions are revoked; devices stay.
LEMMA SessionsRevoked ==
    ASSUME PrRows, Backed, UserRows', NEW rows, device' = device, Revoke(rows),
           \A u \in User : Active(u) => Active(u)'
    PROVE  PrRows' /\ Backed'
<1>1. Closed({})
  BY Zenon DEF Closed
<1>2. sess' \in [Session -> SessionRow] /\ Ended(rows)
  BY RevokeEnds, Zenon
<1>3. Backed'
  BY <1>1, <1>2, RevokingKeepsBacked, Zenon
<1> QED BY <1>2, <1>3, Zenon DEF PrRows

\* Only users change, and none is shut.
LEMMA UsersWritten ==
    ASSUME PrRows, Backed, UserRows', UNCHANGED <<device, sess>>, \A u \in User : Active(u) => Active(u)'
    PROVE  PrRows' /\ Backed'
<1>1. PrRows'
  BY Zenon DEF PrRows
<1>2. ASSUME NEW d \in Device, device[d].status = "active" PROVE Active(device[d].owner)'
  <2>1. Active(device[d].owner) /\ device[d].owner \in User
    BY <1>2, DeviceFields, Zenon DEF PrRows, Backed
  <2> QED BY <2>1, Zenon DEF Active
<1> QED BY <1>1, <1>2, Zenon DEF Backed

\* The devices of a user exist, and their sessions are the user's.
LEMMA OwnedDevices ==
    ASSUME PrRows, Backed, NEW u \in User
    PROVE  /\ \A d \in DevicesOf(u) : device[d] # NoDevice
           /\ \A s \in Session : sess[s].live /\ sess[s].device \in DevicesOf(u) => s \in SessionsOf(u)
<1>1. \A d \in DevicesOf(u) : device[d] # NoDevice
  BY DeviceFields, Zenon DEF PrRows, DevicesOf
<1>2. ASSUME NEW s \in Session, sess[s].live, sess[s].device \in DevicesOf(u) PROVE s \in SessionsOf(u)
  <2>1. device[sess[s].device] = [owner |-> sess[s].user, status |-> "active"]
    BY <1>2, Zenon DEF Backed
  <2>2. device[sess[s].device].owner = u
    BY <1>2, Zenon DEF DevicesOf
  <2> QED BY <2>1, <2>2, SMTT(40) DEF SessionsOf
<1> QED BY <1>1, <1>2, Zenon

\* The lifecycle functions of administration
LEMMA LifecycleKeepsBacked ==
    ASSUME PrRows, Backed, NEW u \in User, NEW d, NEW f,
           \/ disableUserLifecycle(u) \/ enableUserLifecycle(u) \/ revokeAllSessionsLifecycle(u)
           \/ forcePasswordResetLifecycle(u)
           \/ revokeDeviceLifecycle(u, d) /\ (d \in Device => device[d] # NoDevice)
           \/ revokeSessionFamilyLifecycle(u, f)
    PROVE  PrRows' /\ Backed'
<1>0. UserRows /\ UserRows'
  BY LifecycleMoves, Zenon DEF PrRows
<1>1. CASE disableUserLifecycle(u)
  <2>1. Status1(u, "disabled")
    BY <1>0, <1>1, IncrementStatus, Zenon DEF disableUserLifecycle
  <2>2. \A x \in User : Active(x) /\ ~Active(x)' => DevicesOf(x) \subseteq DevicesOf(u)
    BY <2>1, Zenon DEF Status1, Active
  <2>3. RevokeDevices(DevicesOf(u)) /\ Revoke(SessionsOf(u))
    BY <1>1, Zenon DEF disableUserLifecycle
  <2> QED BY <1>0, <2>2, <2>3, OwnedDevices, RevokingStep, Zenon
<1>2. CASE enableUserLifecycle(u)
  <2>1. Status1(u, "active")
    BY <1>0, <1>2, IncrementStatus, Zenon DEF enableUserLifecycle
  <2>2. \A x \in User : Active(x) => Active(x)'
    BY <2>1, Zenon DEF Status1, Active
  <2>3. UNCHANGED <<device, sess>>
    BY <1>2, Zenon DEF enableUserLifecycle
  <2> QED BY <1>0, <2>2, <2>3, UsersWritten, Zenon
<1>3. CASE revokeAllSessionsLifecycle(u) \/ forcePasswordResetLifecycle(u) \/ revokeSessionFamilyLifecycle(u, f)
  <2>1. SameStatus
    BY <1>0, <1>3, IncrementStatus, Zenon
       DEF revokeAllSessionsLifecycle, forcePasswordResetLifecycle, revokeSessionFamilyLifecycle
  <2>2. \A x \in User : Active(x) => Active(x)'
    BY <2>1, Zenon DEF SameStatus, Active
  <2>3. device' = device /\ \E rows : Revoke(rows)
    BY <1>3, Zenon DEF revokeAllSessionsLifecycle, forcePasswordResetLifecycle, revokeSessionFamilyLifecycle
  <2> QED BY <1>0, <2>2, <2>3, SessionsRevoked, Zenon
<1>4. CASE revokeDeviceLifecycle(u, d) /\ (d \in Device => device[d] # NoDevice)
  <2>1. SameStatus
    BY <1>0, <1>4, IncrementStatus, Zenon DEF revokeDeviceLifecycle
  <2>2. \A x \in User : Active(x) => Active(x)'
    BY <2>1, Zenon DEF SameStatus, Active
  <2>3. RevokeDevices({d}) /\ Revoke(SessionsOn(d))
    BY <1>4, Zenon DEF revokeDeviceLifecycle
  <2>4. \A s \in Session : sess[s].live /\ sess[s].device \in {d} => s \in SessionsOn(d)
    BY Zenon DEF SessionsOn
  <2> QED BY <1>0, <1>4, <2>2, <2>3, <2>4, RevokingStep, Zenon
<1> QED BY <1>1, <1>2, <1>3, <1>4, Zenon

LEMMA UnchangedAccess ==
    ASSUME AccessInv, UNCHANGED <<user, device, sess, web, grant, message, receipt>>
    PROVE  AccessInv'
<1>1. PrRows'
  BY Zenon DEF AccessInv, PrRows, UserRows
<1>2. Backed'
  BY Zenon DEF AccessInv, Backed, Active
<1> QED BY <1>1, <1>2, PrincipalsOnly, Zenon

LEMMA PurgeAccess ==
    ASSUME PrRows, Backed, NEW s \in Session, PurgeSession(s)
    PROVE  PrRows' /\ Backed'
<1>1. UNCHANGED <<user, device>> /\ sess' = [sess EXCEPT ![s] = NoRow]
  BY Zenon DEF PurgeSession
<1>2. PrRows'
  BY <1>1, Zenon DEF PrRows, UserRows, SessionRow
<1>3. ~NoRow.live /\ \A x \in Session : sess'[x] = IF x = s THEN NoRow ELSE sess[x]
  BY <1>1, Zenon DEF PrRows, NoRow
<1>4. \A x \in Session : sess'[x].live => x # s /\ sess'[x] = sess[x]
  BY <1>3, Zenon
<1> QED BY <1>1, <1>2, <1>4, Zenon DEF Backed, Active

LEMMA RevokeOneDevice ==
    ASSUME PrRows, Backed, user' = user, NEW d \in Device, device[d] # NoDevice, RevokeDevices({d}), Revoke(SessionsOn(d))
    PROVE  PrRows' /\ Backed'
<1>1. UserRows' /\ \A u \in User : Active(u) => Active(u)'
  BY Zenon DEF PrRows, UserRows, Active
<1>2. \A s \in Session : sess[s].live /\ sess[s].device \in {d} => s \in SessionsOn(d)
  BY Zenon DEF SessionsOn
<1> QED BY <1>1, <1>2, RevokingStep, Zenon

LEMMA SignAccess ==
    ASSUME AccessInv, SignNext, UNCHANGED idVars
    PROVE  AccessInv'
<1>0. PrRows /\ Backed /\ SignRows /\ ReceiptRows /\ OpenedOnce /\ UNCHANGED <<user, receipt>>
  BY SignKeepsUsers, Zenon DEF AccessInv, idVars
<1>1. ASSUME SignRows', NoneOpens, UNCHANGED <<device, sess>> PROVE AccessInv'
  <2>1. PrRows' /\ Backed'
    BY <1>0, <1>1, Zenon DEF PrRows, UserRows, Backed, Active
  <2>2. ReceiptsKept
    BY <1>0, Zenon DEF ReceiptsKept, ReceiptRows
  <2> QED BY <1>0, <1>1, <2>1, <2>2, OpenedOnceKept, Zenon DEF AccessInv, ReceiptsKept
<1>2. ASSUME SignRows', web' = web, PrRows', Backed' PROVE AccessInv'
  BY <1>0, <1>2, Zenon DEF AccessInv, ReceiptRows, OpenedOnce
<1>3. ASSUME NEW b \in Browser, logout(b) \/ Expire(b) PROVE AccessInv'
  <2>1. UNCHANGED <<device, sess>>
    BY <1>3, Zenon DEF logout, Expire, principals
  <2> QED BY <1>0, <1>1, <1>3, <2>1, BrowserSteps, Zenon
<1>4. ASSUME NEW r \in Grant,
             \/ \E d \in Device, k \in StateKey : Begin(r, d, k)
             \/ \E b \in Browser : readApprover(r, b)
             \/ Approve(r) \/ hold(r) \/ exchangeFails(r) \/ Lapse(r) \/ purgeGrant(r)
      PROVE  AccessInv'
  <2>1. SignRows'
    BY <1>0, <1>4, RequestSteps, Zenon
  <2>2. UNCHANGED <<device, sess, web>>
    BY <1>4, Zenon DEF Begin, readApprover, Approve, hold, exchangeFails, Lapse, purgeGrant, principals
  <2>3. NoneOpens
    BY <2>2, Zenon DEF NoneOpens
  <2> QED BY <1>1, <2>1, <2>2, <2>3, Zenon
<1>5. ASSUME NEW r \in Grant, NEW s \in Session, Exchange(r, s) PROVE AccessInv'
  <2>1. SignRows' /\ web' = web
    BY <1>0, <1>5, RequestSteps, Zenon DEF Exchange
  <2>2. grant[r] \in {NoGrant} \cup GrantRow /\ grant[r].status \in {"approved", "consumed"}
    BY <1>0, <1>5, Zenon DEF Exchange, SignRows
  <2>3. grant[r].user \in User /\ grant[r].device \in Device
    BY <2>2, GrantFields, Zenon DEF GrantRow
  <2>4. AuthorizeInTx(grant[r].user, grant[r].device) /\ StartInTx(grant[r].user, grant[r].device, s)
    BY <1>5, Zenon DEF Exchange, finalize
  <2>5. PrRows' /\ Backed'
    BY <1>0, <2>3, <2>4, ExchangeKeepsBacked, Zenon
  <2> QED BY <1>2, <2>1, <2>5, Zenon
<1>6. ASSUME NEW m \in Message, SelfRevoke(m) \/ selfRevokeRefused(m) \/ purgeNonce(m) \/ Age(m) PROVE AccessInv'
  <2>1. SignRows'
    BY <1>0, <1>6, MessageSteps, Zenon
  <2>2. UNCHANGED <<device, sess, web>>
    BY <1>6, Zenon DEF SelfRevoke, selfRevokeRefused, purgeNonce, Age, principals
  <2>3. NoneOpens
    BY <2>2, Zenon DEF NoneOpens
  <2> QED BY <1>1, <2>1, <2>2, <2>3, Zenon
<1>7. ASSUME NEW m \in Message, selfRevoke(m) PROVE AccessInv'
  <2>1. SignRows' /\ web' = web
    BY <1>0, <1>7, MessageSteps, Zenon DEF selfRevoke
  <2>2. message[m].device \in Device
    BY <1>0, Zenon DEF SignRows, MessageRow
  <2>3. device[message[m].device] # NoDevice
    BY <1>7, SMTT(40) DEF selfRevoke, NoDevice
  <2>4. PrRows' /\ Backed'
    BY <1>0, <1>7, <2>2, <2>3, RevokeOneDevice, Zenon DEF selfRevoke
  <2> QED BY <1>2, <2>1, <2>4, Zenon
<1>8. ASSUME NEW k, RetireStateKey(k) PROVE AccessInv'
  BY <1>0, <1>8, UnchangedAccess, Zenon DEF RetireStateKey, principals
<1>9. ASSUME NEW u \in User, NEW d \in Device, RevokeOwn(u, d), UNCHANGED signVars PROVE AccessInv'
  <2>1. device[d] # NoDevice
    BY <1>0, <1>9, DeviceFields, Zenon DEF RevokeOwn, PrRows
  <2>2. PrRows' /\ Backed'
    BY <1>0, <1>9, <2>1, RevokeOneDevice, Zenon DEF RevokeOwn
  <2> QED BY <1>0, <1>9, <2>2, PrincipalsOnly, Zenon DEF signVars
<1> QED BY <1>3, <1>4, <1>5, <1>6, <1>7, <1>8, <1>9, Zenon DEF SignNext

LEMMA ErasedSignIns ==
    ASSUME SignRows, ReceiptRows, NEW u, FinalizeDeletion(u)
    PROVE  SignRows' /\ ReceiptsKept /\ web' = web
<1>1. web' = web
  BY Zenon DEF FinalizeDeletion
<1>2. message' \in [Message -> MessageRow]
  <2>1. ASSUME NEW m \in Message
        PROVE  [message[m] EXCEPT !.fresh = message[m].fresh /\ message[m].device \notin DevicesOf(u)] \in MessageRow
    <3>1. message[m] \in MessageRow /\ message[m].fresh \in BOOLEAN
      BY Zenon DEF SignRows, MessageRow
    <3> QED BY <3>1, MessageUpdates, Zenon
  <2>2. message' = [m \in Message |->
                       [message[m] EXCEPT !.fresh = message[m].fresh /\ message[m].device \notin DevicesOf(u)]]
    BY Zenon DEF FinalizeDeletion
  <2> QED BY <2>1, <2>2, Zenon
<1>3. grant' \in [Grant -> {NoGrant} \cup GrantRow]
  <2>1. ASSUME NEW r \in Grant, grant[r] # NoGrant, grant[r].user = u
        PROVE  [grant[r] EXCEPT !.status = "purged"] \in GrantRow
    <3>1. grant[r] \in GrantRow
      BY <2>1, GrantFields, Zenon DEF SignRows
    <3>2. ~grant[r].held
      BY <2>1, Zenon DEF FinalizeDeletion
    <3> QED BY <3>1, <3>2, GrantUpdates, Zenon
  <2>2. grant' = [r \in Grant |-> IF grant[r] # NoGrant /\ grant[r].user = u
                                  THEN [grant[r] EXCEPT !.status = "purged"] ELSE grant[r]]
    BY Zenon DEF FinalizeDeletion
  <2> QED BY <2>1, <2>2, Zenon DEF SignRows
<1>4. ReceiptsKept
  <2>1. PICK gone : receipt' = [x \in Receipt |-> [receipt[x] EXCEPT !.spent = receipt[x].spent \/ x \in gone]]
    BY Zenon DEF FinalizeDeletion
  <2>2. ASSUME NEW x \in Receipt
        PROVE  receipt'[x] \in ReceiptRow /\ (receipt[x].spent => receipt'[x].spent)
    <3>1. receipt[x] \in ReceiptRow /\ receipt'[x] = [receipt[x] EXCEPT !.spent = receipt[x].spent \/ x \in gone]
      BY <2>1, Zenon DEF ReceiptRows
    <3> QED BY <3>1, Zenon DEF ReceiptRow
  <2>3. receipt' = [x \in Receipt |-> receipt'[x]]
    BY <2>1, Zenon
  <2> QED BY <2>2, <2>3, Zenon DEF ReceiptsKept, ReceiptRows
<1> QED BY <1>1, <1>2, <1>3, <1>4, Zenon DEF SignRows

\* A step of AccountIdentity that leaves the browser sessions alone
LEMMA AccountsOnly ==
    ASSUME AccessInv, PrRows', Backed', UNCHANGED <<web, grant, message>>, ReceiptsKept
    PROVE  AccessInv'
<1>1. NoneOpens
  BY Zenon DEF NoneOpens
<1> QED BY <1>1, OpenedOnceKept, Zenon DEF AccessInv, SignRows, ReceiptsKept

LEMMA AccountsAccess ==
    ASSUME AccessInv, UserRows', Accounts
    PROVE  AccessInv'
<1>0. PrRows /\ Backed /\ SignRows /\ ReceiptRows /\ OpenedOnce /\ UserRows
  BY Zenon DEF AccessInv, PrRows
<1>1. ASSUME NEW n, NEW x, NEW u, NEW v, NEW p, NEW q, NEW st,
             beginAdding(n, q, u, v) \/ addingFails(n) \/ reauthenticateUser(u, p, st) \/ RemoveIdentity(u, x)
      PROVE  AccessInv'
  <2>1. UNCHANGED <<principals, web, grant, message, receipt>>
    BY <1>1, Zenon DEF beginAdding, addingFails, reauthenticateUser, RemoveIdentity, signVars
  <2> QED BY <2>1, UnchangedAccess, Zenon DEF principals
<1>2. ASSUME NEW n, NEW x \in Receipt, BindIdentity(n, x) PROVE AccessInv'
  <2>1. UNCHANGED <<user, device, sess, web, grant, message>> /\ markReceiptConsumed(x)
    BY <1>2, Zenon DEF BindIdentity, bindIdentity, principals, signVars
  <2>2. PrRows' /\ Backed'
    BY <1>0, <2>1, Zenon DEF PrRows, UserRows, Backed, Active
  <2> QED BY <1>0, <2>1, <2>2, ReceiptSpent, AccountsOnly, Zenon
<1>3. ASSUME NEW n, NEW x \in Receipt, NEW p, Register(n, x, p) PROVE AccessInv'
  <2>1. PICK y \in {Direct, x} : register(n, y, p)
    BY <1>3, Zenon DEF Register
  <2> DEFINE u == adding[n].user
  <2>2. /\ UNCHANGED <<device, sess, web, grant, message>>
        /\ user' = [user EXCEPT ![u] = [user[u] EXCEPT !.status = "active", !.credential = Fresh(p)]]
        /\ IF y = Direct THEN UNCHANGED receipt ELSE markReceiptConsumed(y)
    BY <2>1, Zenon DEF register, signVars
  <2>3. Status1(u, "active")
    BY <1>0, <2>2, StatusWritten, Zenon
  <2>4. \A z \in User : Active(z) => Active(z)'
    BY <2>3, Zenon DEF Status1, Active
  <2>5. PrRows' /\ Backed'
    BY <1>0, <2>2, <2>4, UsersWritten, Zenon
  <2>6. ReceiptsKept
    <3>1. CASE y = Direct
      BY <1>0, <2>2, <3>1, Zenon DEF ReceiptsKept, ReceiptRows
    <3>2. CASE y # Direct
      BY <1>0, <2>1, <2>2, <3>2, ReceiptSpent, Zenon
    <3> QED BY <3>1, <3>2, Zenon
  <2> QED BY <2>2, <2>5, <2>6, AccountsOnly, Zenon
<1>4. ASSUME NEW n, NEW x \in Receipt, NEW u, NEW p, ResetPassword(n, x, u, p) PROVE AccessInv'
  <2>1. /\ UNCHANGED <<device, web, grant, message>> /\ markReceiptConsumed(x) /\ Revoke(SessionsOf(u))
        /\ user' = [user EXCEPT ![u].credential = Fresh(p)]
    BY <1>4, Zenon DEF ResetPassword, resetPassword, proves, signVars
  <2>2. SameStatus
    BY <1>0, <2>1, StatusWritten, Zenon
  <2>3. \A z \in User : Active(z) => Active(z)'
    BY <2>2, Zenon DEF SameStatus, Active
  <2>4. PrRows' /\ Backed'
    BY <1>0, <2>1, <2>3, SessionsRevoked, Zenon
  <2> QED BY <1>0, <2>1, <2>4, ReceiptSpent, AccountsOnly, Zenon
<1>5. ASSUME NEW n, NEW x \in Receipt, NEW u \in User, RequestDeletion(n, x, u) PROVE AccessInv'
  <2>1. /\ UNCHANGED <<web, grant, message>> /\ markReceiptConsumed(x)
        /\ RevokeDevices(DevicesOf(u)) /\ Revoke(SessionsOf(u))
        /\ user' = [user EXCEPT ![u].status = "pending_deletion"]
    BY <1>5, Zenon DEF RequestDeletion, requestDeletion, proves, signVars
  <2>2. Status1(u, "pending_deletion")
    BY <1>0, <2>1, StatusWritten, Zenon
  <2>3. \A z \in User : Active(z) /\ ~Active(z)' => DevicesOf(z) \subseteq DevicesOf(u)
    BY <2>2, Zenon DEF Status1, Active
  <2>4. PrRows' /\ Backed'
    BY <1>0, <2>1, <2>3, OwnedDevices, RevokingStep, Zenon
  <2> QED BY <1>0, <2>1, <2>4, ReceiptSpent, AccountsOnly, Zenon
<1>6. ASSUME NEW n, NEW x \in Receipt, NEW u, RecoverDeletion(n, x, u) PROVE AccessInv'
  <2>1. /\ UNCHANGED <<device, sess, web, grant, message>> /\ markReceiptConsumed(x)
        /\ user' = [user EXCEPT ![u].status = "active"]
    BY <1>6, Zenon DEF RecoverDeletion, recoverDeletion, proves, signVars
  <2>2. Status1(u, "active")
    BY <1>0, <2>1, StatusWritten, Zenon
  <2>3. \A z \in User : Active(z) => Active(z)'
    BY <2>2, Zenon DEF Status1, Active
  <2>4. PrRows' /\ Backed'
    BY <1>0, <2>1, <2>3, UsersWritten, Zenon
  <2> QED BY <1>0, <2>1, <2>4, ReceiptSpent, AccountsOnly, Zenon
<1>7. ASSUME NEW u \in User, NEW s \in Session, NEW p, ChangePassword(u, s, p) PROVE AccessInv'
  <2> DEFINE gone == DevicesOf(u) \ {sess[s].device}
             rows == SessionsOf(u) \ {s}
  <2>1. /\ UNCHANGED <<web, grant, message, receipt>> /\ RevokeDevices(gone) /\ Revoke(rows)
        /\ user' = [user EXCEPT ![u].credential = Fresh(p)]
    BY <1>7, Zenon DEF ChangePassword, changePassword, signVars
  <2>2. SameStatus
    BY <1>0, <2>1, StatusWritten, Zenon
  <2>3. \A z \in User : Active(z) => Active(z)'
    BY <2>2, Zenon DEF SameStatus, Active
  <2>4. /\ \A d \in gone : device[d] # NoDevice
        /\ \A z \in Session : sess[z].live /\ sess[z].device \in gone => z \in rows
    BY <1>0, OwnedDevices, Zenon
  <2> HIDE DEF gone, rows
  <2>5. PrRows' /\ Backed'
    BY <1>0, <2>1, <2>3, <2>4, RevokingStep, Zenon
  <2> QED BY <2>1, <2>5, PrincipalsOnly, Zenon
<1>8. ASSUME NEW u \in User, FinalizeDeletion(u) PROVE AccessInv'
  <2>1. eraseDevices(u) /\ user' = [user EXCEPT ![u].status = "finalized", ![u].credential = Fresh(Unknown)]
    BY <1>8, Zenon DEF FinalizeDeletion
  <2>2. Status1(u, "finalized")
    BY <1>0, <2>1, StatusWritten, Zenon
  <2>3. \A z \in User \ {u} : Active(z)' <=> Active(z)
    BY <2>2, Zenon DEF Status1, Active
  <2>4. PrRows' /\ Backed'
    BY <1>0, <2>1, <2>3, ErasingKeepsBacked, Zenon
  <2>5. SignRows' /\ ReceiptsKept /\ web' = web
    BY <1>0, <1>8, ErasedSignIns, Zenon
  <2>6. OpenedOnce'
    BY <1>0, <2>5, OpenedOnceKept, Zenon DEF NoneOpens
  <2> QED BY <2>4, <2>5, <2>6, Zenon DEF AccessInv, ReceiptsKept
<1> QED BY <1>1, <1>2, <1>3, <1>4, <1>5, <1>6, <1>7, <1>8, Zenon DEF Accounts

LEMMA IdentityAccess ==
    ASSUME AccessInv, IdNext
    PROVE  AccessInv'
<1>0. PrRows /\ Backed /\ SignRows /\ ReceiptRows /\ OpenedOnce /\ UserRows
  BY Zenon DEF AccessInv, PrRows
<1>1. UserRows'
  <2>1. user' = user \/ ColumnsStep
    BY IdentityKeepsRevisions, Zenon
  <2>2. CASE user' = user
    BY <1>0, <2>2, Zenon DEF UserRows
  <2> QED BY <1>0, <2>1, <2>2, ColumnsKeepRevisions, Zenon
<1>2. ASSUME Rotation PROVE AccessInv'
  <2>1. UNCHANGED <<principals, web, grant, message, receipt>>
    BY <1>2, Zenon DEF Rotation, ExpandRing, SwitchActive, RetireOldKey, Reindex, SetRing, signVars
  <2> QED BY <2>1, UnchangedAccess, Zenon DEF principals
<1>3. ASSUME SignRows', NoneOpens, UNCHANGED <<principals, receipt>> PROVE AccessInv'
  <2>1. PrRows' /\ Backed'
    BY <1>0, <1>1, <1>3, Zenon DEF PrRows, Backed, Active, principals
  <2>2. ReceiptsKept
    BY <1>0, <1>3, Zenon DEF ReceiptsKept, ReceiptRows
  <2> QED BY <1>0, <1>3, <2>1, <2>2, OpenedOnceKept, Zenon DEF AccessInv, ReceiptsKept
<1>4. ASSUME NEW b \in Browser, UpdatePasswordHash(b) PROVE AccessInv'
  <2>1. SignRows' /\ NoneOpens
    BY <1>0, <1>4, BrowserSteps, Zenon
  <2>2. /\ UNCHANGED <<device, sess, receipt>>
        /\ user' = [user EXCEPT ![web[b].user].credential = Fresh(web[b].of)]
    BY <1>4, Zenon DEF UpdatePasswordHash, idVars
  <2>3. SameStatus
    BY <1>0, <2>2, StatusWritten, Zenon
  <2>4. \A z \in User : Active(z) => Active(z)'
    BY <2>3, Zenon DEF SameStatus, Active
  <2>5. PrRows' /\ Backed'
    BY <1>0, <1>1, <2>2, <2>4, UsersWritten, Zenon
  <2>6. ReceiptsKept
    BY <1>0, <2>2, Zenon DEF ReceiptsKept, ReceiptRows
  <2> QED BY <1>0, <2>1, <2>5, <2>6, OpenedOnceKept, Zenon DEF AccessInv, ReceiptsKept
<1>5. ASSUME NEW b \in Browser,
             \/ login(b) \/ stage(b) \/ discardStagedBrowserSession(b)
             \/ \E n \in Server, v \in Value, u \in User, p \in Password : AuthenticatePassword(n, b, v, u, p)
             \/ \E n \in Server, x \in Receipt, u \in User : AuthenticateVerification(n, b, x, u)
      PROVE  AccessInv'
  <2>1. SignRows' /\ NoneOpens
    BY <1>0, <1>5, BrowserSteps, Zenon
  <2>2. UNCHANGED <<principals, receipt>>
    BY <1>5, Zenon DEF login, stage, discardStagedBrowserSession, AuthenticatePassword, AuthenticateVerification, idVars
  <2> QED BY <1>3, <2>1, <2>2, Zenon
<1>6. ASSUME NEW n, NEW b \in Browser, CompleteVerificationLogin(n, b) PROVE AccessInv'
  <2>1. SignRows' /\ ReceiptsKept /\ OpenedOnce'
    BY <1>0, <1>6, LoginCompletes, Zenon
  <2>2. PrRows' /\ Backed'
    BY <1>0, <1>1, <1>6, Zenon DEF CompleteVerificationLogin, principals, PrRows, Backed, Active
  <2> QED BY <2>1, <2>2, Zenon DEF AccessInv, ReceiptsKept
<1> QED BY <1>1, <1>2, <1>4, <1>5, <1>6, AccountsAccess, Zenon DEF IdNext, Logins

-----------------------------------------------------------------------------
(* Desktop control *)

InstanceRow == [owner : User, beat : Int, capable : BOOLEAN, created : Int]
CommandRow ==
    [state : Open \cup Settled, device : Device, key : CheckKey, created : Int, expires : Int,
     claimed : Int, completed : Int, code : HealthCode \cup {"none"}, by : User \cup {"none"}]
AuditRow == [requested : Nat, completed : Nat]
ReadRow == [at : {"read"}, device : Device, key : CheckKey, now : Int]

DesktopRows ==
    /\ clock \in 0..MaxClock
    /\ instance \in [Device -> {NoInstance} \cup InstanceRow]
    /\ command \in [Command -> {NoCommand, Gone} \cup CommandRow]
    /\ checkAudit \in [Command -> AuditRow]
    /\ queueing \in [Admin -> {Idling} \cup ReadRow]
    /\ told \subseteq [device : Device, key : CheckKey, command : Command]

\* What a device reported and was asked belongs to its owner.
DesktopOwned ==
    /\ \A d \in Device : instance[d] # NoInstance => instance[d].owner = device[d].owner
    /\ \A c \in Rows : /\ device[command[c].device] # NoDevice
                       /\ command[c].by \in {"none", device[command[c].device].owner}

\* One row for a device and a key; whoever queued is told of it.
CommandsFit ==
    /\ \A c \in Command : command[c] = NoCommand => checkAudit[c] = [requested |-> 0, completed |-> 0]
    /\ \A c, e \in Rows : command[c].device = command[e].device /\ command[c].key = command[e].key => c = e
    /\ \A t \in told : /\ command[t.command] # NoCommand
                       /\ t.command \in Rows => command[t.command].device = t.device /\ command[t.command].key = t.key

DesktopInv == DesktopRows /\ DesktopOwned /\ CommandsFit /\ ResultsInTime /\ OneEventPerCheck

LEMMA CommandFields ==
    ASSUME DesktopRows, NEW c \in Command
    PROVE  /\ c \in Rows <=> command[c] \in CommandRow
           /\ c \in Rows <=> command[c] # NoCommand /\ command[c] # Gone
           /\ command[c].state \in Open => c \in Rows
           /\ NoCommand # Gone
<1>1. NoCommand.state = "none" /\ Gone.state = "gone"
  BY Zenon DEF NoCommand, Gone
<1>2. "none" \notin Open \cup Settled /\ "gone" \notin Open \cup Settled
  BY Zenon DEF Open, Settled
<1>3. \A r \in CommandRow : r.state \in Open \cup Settled
  BY Zenon DEF CommandRow
<1>4. command[c] \in {NoCommand, Gone} \cup CommandRow
  BY Zenon DEF DesktopRows
<1> QED BY <1>1, <1>2, <1>3, <1>4, Zenon DEF Rows

\* An expired command, and the events of a command with n more of completion
Lapsed(r, now) == [r EXCEPT !.state = "expired", !.completed = now]
Completed(a, n) == [requested |-> a.requested, completed |-> a.completed + n]

\* What a step does to one command and its events
CommandKept(c) == command'[c] = command[c] /\ checkAudit'[c] = checkAudit[c]

CommandMoves(c) ==
    /\ command[c] \in CommandRow /\ command'[c] \in CommandRow
    /\ command'[c].device = command[c].device /\ command'[c].key = command[c].key
    /\ command'[c].expires = command[c].expires
    /\ command[c].state \notin Settled /\ CanTransition(command[c].state, command'[c].state)
    /\ command'[c].by \in {command[c].by, device[command[c].device].owner}
    /\ command'[c].state \in {"succeeded", "failed"} => command'[c].completed < command'[c].expires
    /\ command'[c].state = "expired" => command'[c].completed >= command'[c].expires
    /\ checkAudit'[c] = Completed(checkAudit[c], IF command'[c].state \in Settled THEN 1 ELSE 0)

CommandStarts(c) ==
    /\ command[c] = NoCommand /\ command'[c] \in CommandRow
    /\ command'[c].state = "queued" /\ command'[c].by = "none"
    /\ device[command'[c].device] # NoDevice
    /\ checkAudit'[c] = [requested |-> 1, completed |-> 0]

CommandGone(c) == command[c] \in CommandRow /\ command'[c] = Gone /\ checkAudit'[c] = checkAudit[c]

CommandStep(c) == CommandKept(c) \/ CommandMoves(c) \/ CommandStarts(c) \/ CommandGone(c)

\* Overdue commands expire.
LEMMA ExpiredRows ==
    ASSUME DesktopRows, NEW rows, NEW now \in Int, NEW c \in Command
    PROVE  /\ ~(c \in rows /\ Overdue(c, now)) =>
                 /\ expireOverdueCommands(rows, now)[c] = command[c]
                 /\ expireAudit(rows, now)[c] = checkAudit[c]
           /\ c \in rows /\ Overdue(c, now) =>
                 /\ c \in Rows
                 /\ expireOverdueCommands(rows, now)[c] = Lapsed(command[c], now)
                 /\ expireAudit(rows, now)[c] = Completed(checkAudit[c], 1)
<1>0. checkAudit[c] \in AuditRow
  BY Zenon DEF DesktopRows
<1>1. CASE ~(c \in rows /\ Overdue(c, now))
  <2>1. expireOverdueCommands(rows, now)[c] = command[c]
    BY <1>1, Zenon DEF expireOverdueCommands
  <2>2. expireAudit(rows, now)[c] = [checkAudit[c] EXCEPT !.completed = checkAudit[c].completed + 0]
    BY <1>1, Zenon DEF expireAudit
  <2>3. checkAudit[c].completed + 0 = checkAudit[c].completed
    BY <1>0 DEF AuditRow
  <2>4. [checkAudit[c] EXCEPT !.completed = checkAudit[c].completed] = checkAudit[c]
    BY <1>0, Zenon DEF AuditRow
  <2> QED BY <1>1, <2>1, <2>2, <2>3, <2>4, Zenon
<1>2. CASE c \in rows /\ Overdue(c, now)
  <2>1. expireOverdueCommands(rows, now)[c] = Lapsed(command[c], now)
    BY <1>2, Zenon DEF expireOverdueCommands, Lapsed
  <2>2. expireAudit(rows, now)[c] = [checkAudit[c] EXCEPT !.completed = checkAudit[c].completed + 1]
    BY <1>2, Zenon DEF expireAudit
  <2>3. [checkAudit[c] EXCEPT !.completed = checkAudit[c].completed + 1] = Completed(checkAudit[c], 1)
    BY <1>0 DEF AuditRow, Completed
  <2>4. c \in Rows
    BY <1>2, CommandFields, Zenon DEF Overdue
  <2> QED BY <1>2, <2>1, <2>2, <2>3, <2>4, Zenon
<1> QED BY <1>1, <1>2, Zenon

LEMMA ExpiryStep ==
    ASSUME DesktopRows, NEW rows, NEW now \in Int, NEW c \in Command,
           command'[c] = expireOverdueCommands(rows, now)[c], checkAudit'[c] = expireAudit(rows, now)[c]
    PROVE  CommandKept(c) \/ CommandMoves(c)
<1>1. CASE ~(c \in rows /\ Overdue(c, now))
  BY <1>1, ExpiredRows, Zenon DEF CommandKept
<1>2. CASE c \in rows /\ Overdue(c, now)
  <2> DEFINE q == Lapsed(command[c], now)
  <2>1. c \in Rows /\ command'[c] = q /\ command[c] \in CommandRow
    BY <1>2, ExpiredRows, CommandFields, Zenon
  <2>2. /\ q \in CommandRow /\ q.state = "expired" /\ q.completed = now /\ q.device = command[c].device
        /\ q.key = command[c].key /\ q.expires = command[c].expires /\ q.by = command[c].by
    BY <2>1, Zenon DEF CommandRow, Settled, Lapsed
  <2>3. command[c].state \in Open /\ command[c].expires <= now
    BY <1>2, Zenon DEF Overdue
  <2>4. CanTransition(command[c].state, "expired") /\ command[c].state \notin Settled /\ "expired" \in Settled
    BY <2>3, Zenon DEF CanTransition, Open, Settled
  <2>5. checkAudit'[c] = Completed(checkAudit[c], 1)
    BY <1>2, ExpiredRows, Zenon
  <2>6. command[c].expires \in Int
    BY <2>1, Zenon DEF CommandRow
  <2> HIDE DEF q
  <2> QED BY <2>1, <2>2, <2>3, <2>4, <2>5, <2>6, Zenon DEF CommandMoves
<1> QED BY <1>1, <1>2, Zenon

CommandTables == command' = [c \in Command |-> command'[c]] /\ checkAudit' = [c \in Command |-> checkAudit'[c]]

LEMMA CommandsTyped ==
    ASSUME DesktopRows, CommandTables, \A c \in Command : CommandStep(c)
    PROVE  command' \in [Command -> {NoCommand, Gone} \cup CommandRow] /\ checkAudit' \in [Command -> AuditRow]
<1>1. ASSUME NEW c \in Command
      PROVE  command'[c] \in {NoCommand, Gone} \cup CommandRow /\ checkAudit'[c] \in AuditRow
  <2>1. command[c] \in {NoCommand, Gone} \cup CommandRow /\ checkAudit[c] \in AuditRow
    BY Zenon DEF DesktopRows
  <2>2. CASE CommandKept(c) \/ CommandGone(c)
    BY <2>1, <2>2, Zenon DEF CommandKept, CommandGone
  <2>3. CASE CommandMoves(c)
    <3>1. \A n \in {0, 1} : Completed(checkAudit[c], n) \in AuditRow
      BY <2>1 DEF Completed, AuditRow
    <3> QED BY <2>3, <3>1, Zenon DEF CommandMoves
  <2>4. CASE CommandStarts(c)
    BY <2>4 DEF CommandStarts, AuditRow
  <2> QED BY <2>2, <2>3, <2>4, Zenon DEF CommandStep
<1> QED BY <1>1, Zenon DEF CommandTables

\* Every step of a command keeps its events and its times right.
LEMMA ChecksKept ==
    ASSUME DesktopInv, DesktopRows', \A c \in Command : CommandStep(c)
    PROVE  /\ ResultsInTime' /\ OneEventPerCheck'
           /\ \A c \in Command : command'[c] = NoCommand => checkAudit'[c] = [requested |-> 0, completed |-> 0]
<1>1. ASSUME NEW c \in Command, c \in Rows'
      PROVE  /\ command'[c].state \in {"succeeded", "failed"} => command'[c].completed < command'[c].expires
             /\ command'[c].state = "expired" => command'[c].completed >= command'[c].expires
             /\ checkAudit'[c] = [requested |-> 1, completed |-> IF command'[c].state \in Settled THEN 1 ELSE 0]
  <2>1. command'[c] \in CommandRow /\ command'[c] # NoCommand /\ command'[c] # Gone
    <3>1. command'[c] \in {NoCommand, Gone} \cup CommandRow
      BY Zenon DEF DesktopRows
    <3>2. command'[c].state \in Open \cup Settled
      BY <1>1, Zenon DEF Rows
    <3>3. NoCommand.state \notin Open \cup Settled /\ Gone.state \notin Open \cup Settled
      BY Zenon DEF NoCommand, Gone, Open, Settled
    <3> QED BY <3>1, <3>2, <3>3, Zenon
  <2>2. CASE CommandKept(c)
    <3>1. c \in Rows
      BY <2>1, <2>2, CommandFields, Zenon DEF CommandKept, DesktopInv
    <3> QED BY <2>2, <3>1, Zenon DEF CommandKept, DesktopInv, ResultsInTime, OneEventPerCheck
  <2>3. CASE CommandMoves(c)
    <3>1. c \in Rows /\ command[c].state \notin Settled
      BY <2>3, CommandFields, Zenon DEF CommandMoves, DesktopInv
    <3>2. checkAudit[c] = [requested |-> 1, completed |-> 0]
      BY <3>1, Zenon DEF DesktopInv, OneEventPerCheck
    <3>3. \A n \in {0, 1} : Completed(checkAudit[c], n) = [requested |-> 1, completed |-> n]
      BY <3>2 DEF Completed
    <3> QED BY <2>3, <3>3, Zenon DEF CommandMoves
  <2>4. CASE CommandStarts(c)
    BY <2>4, Zenon DEF CommandStarts, Settled
  <2>5. CASE CommandGone(c)
    BY <2>1, <2>5, Zenon DEF CommandGone
  <2> QED BY <2>2, <2>3, <2>4, <2>5, Zenon DEF CommandStep
<1>2. ASSUME NEW c \in Command, command'[c] = NoCommand
      PROVE  checkAudit'[c] = [requested |-> 0, completed |-> 0]
  <2>1. NoCommand \notin CommandRow /\ NoCommand # Gone
    <3>1. NoCommand.state = "none" /\ Gone.state = "gone"
      BY Zenon DEF NoCommand, Gone
    <3>2. \A r \in CommandRow : r.state # "none"
      BY Zenon DEF CommandRow, Open, Settled
    <3> QED BY <3>1, <3>2, Zenon
  <2>2. CommandKept(c)
    BY <1>2, <2>1, Zenon DEF CommandStep, CommandMoves, CommandStarts, CommandGone
  <2> QED BY <1>2, <2>2, Zenon DEF CommandKept, DesktopInv, CommandsFit
<1>3. Rows' \subseteq Command
  BY Zenon DEF Rows
<1> QED BY <1>1, <1>2, <1>3, Zenon DEF ResultsInTime, OneEventPerCheck

\* A row that is not new was there before, for the same device and key.
LEMMA OldRows ==
    ASSUME DesktopRows, DesktopRows', NEW c \in Command, c \in Rows', CommandStep(c), ~CommandStarts(c)
    PROVE  c \in Rows /\ command'[c].device = command[c].device /\ command'[c].key = command[c].key
<1>1. command'[c].state \in Open \cup Settled
  BY Zenon DEF Rows
<1>2. Gone.state \notin Open \cup Settled
  BY Zenon DEF Gone, Open, Settled
<1>3. CASE CommandKept(c)
  BY <1>1, <1>3, Zenon DEF CommandKept, Rows
<1>4. CASE CommandMoves(c)
  BY <1>4, CommandFields, Zenon DEF CommandMoves
<1>5. CASE CommandGone(c)
  BY <1>1, <1>2, <1>5, Zenon DEF CommandGone
<1> QED BY <1>3, <1>4, <1>5, Zenon DEF CommandStep

\* At most one command starts, for a device and a key that have none.
FreshStart ==
    \A c, e \in Command :
        CommandStarts(c) /\ c # e =>
            /\ ~CommandStarts(e)
            /\ e \in Rows => ~(command[e].device = command'[c].device /\ command[e].key = command'[c].key)

LEMMA FitKept ==
    ASSUME DesktopInv, DesktopRows', \A c \in Command : CommandStep(c), FreshStart,
           \A t \in told' \ told : /\ t.command \in Rows'
                                   /\ command'[t.command].device = t.device /\ command'[t.command].key = t.key
    PROVE  CommandsFit'
<1>0. DesktopRows /\ CommandsFit
  BY Zenon DEF DesktopInv
<1>1. ASSUME NEW c \in Rows', NEW e \in Rows', command'[c].device = command'[e].device, command'[c].key = command'[e].key
      PROVE  c = e
  <2>1. c \in Command /\ e \in Command
    BY Zenon DEF Rows
  <2>2. CASE CommandStarts(c) \/ CommandStarts(e)
    BY <1>0, <1>1, <2>1, <2>2, OldRows DEF FreshStart
  <2>3. CASE ~CommandStarts(c) /\ ~CommandStarts(e)
    BY <1>0, <1>1, <2>1, <2>3, OldRows DEF CommandsFit
  <2> QED BY <2>2, <2>3, Zenon
<1>2. ASSUME NEW t \in told'
      PROVE  /\ command'[t.command] # NoCommand
             /\ t.command \in Rows' => command'[t.command].device = t.device /\ command'[t.command].key = t.key
  <2>0. t.command \in Command
    BY Zenon DEF DesktopRows
  <2>1. CASE t \notin told
    <3>1. t.command \in Rows' /\ command'[t.command].device = t.device /\ command'[t.command].key = t.key
      BY <2>1, Zenon
    <3>2. command'[t.command].state \in Open \cup Settled /\ NoCommand.state \notin Open \cup Settled
      BY <3>1, Zenon DEF Rows, NoCommand, Open, Settled
    <3> QED BY <3>1, <3>2, Zenon
  <2>2. CASE t \in told
    <3>1. /\ command[t.command] # NoCommand
          /\ t.command \in Rows => command[t.command].device = t.device /\ command[t.command].key = t.key
      BY <1>0, <2>2, Zenon DEF CommandsFit
    <3>2. ~CommandStarts(t.command) /\ CommandStep(t.command)
      BY <2>0, <3>1, Zenon DEF CommandStarts
    <3>3. command'[t.command] # NoCommand
      <4>1. NoCommand.state = "none" /\ Gone.state = "gone" /\ \A r \in CommandRow : r.state # "none"
        BY Zenon DEF NoCommand, Gone, CommandRow, Open, Settled
      <4> QED BY <3>1, <3>2, <4>1, Zenon DEF CommandStep, CommandKept, CommandMoves, CommandGone
    <3> QED BY <1>0, <2>0, <3>1, <3>2, <3>3, OldRows, Zenon
  <2> QED BY <2>1, <2>2, Zenon
<1> QED BY <1>1, <1>2, ChecksKept, Zenon DEF CommandsFit

CommandsMove == \A c \in Command : CommandStep(c)

\* A step of Desktop control, in which commands move as they may
LEMMA CommandsStep ==
    ASSUME DesktopInv, device' = device, UNCHANGED <<clock, instance>>,
           CommandTables, \A c \in Command : CommandStep(c), FreshStart,
           queueing' \in [Admin -> {Idling} \cup ReadRow],
           told' \subseteq [device : Device, key : CheckKey, command : Command],
           \A t \in told' \ told : /\ t.command \in Rows'
                                   /\ command'[t.command].device = t.device /\ command'[t.command].key = t.key
    PROVE  DesktopInv' /\ CommandsMove
<1>1. DesktopRows'
  BY CommandsTyped, Zenon DEF DesktopInv, DesktopRows
<1>2. ResultsInTime' /\ OneEventPerCheck' /\ CommandsFit'
  BY <1>1, ChecksKept, FitKept, Zenon
<1>3. ASSUME NEW c \in Rows'
      PROVE  device[command'[c].device] # NoDevice /\ command'[c].by \in {"none", device[command'[c].device].owner}
  <2>0. c \in Command /\ CommandStep(c) /\ DesktopRows
    BY Zenon DEF Rows, DesktopInv
  <2>1. CASE CommandStarts(c)
    BY <2>1, Zenon DEF CommandStarts
  <2>2. CASE ~CommandStarts(c)
    <3>1. c \in Rows /\ command'[c].device = command[c].device
      BY <1>1, <2>0, <2>2, OldRows, Zenon
    <3>2. command'[c].by \in {command[c].by, device[command[c].device].owner}
      <4>1. command'[c].state \in Open \cup Settled /\ Gone.state \notin Open \cup Settled
        BY Zenon DEF Rows, Gone, Open, Settled
      <4> QED BY <2>0, <2>2, <4>1, Zenon DEF CommandStep, CommandKept, CommandMoves, CommandGone
    <3> QED BY <3>1, <3>2, Zenon DEF DesktopInv, DesktopOwned
  <2> QED BY <2>1, <2>2, Zenon
<1>4. DesktopOwned'
  BY <1>3, Zenon DEF DesktopInv, DesktopOwned
<1> QED BY <1>1, <1>2, <1>4, Zenon DEF DesktopInv, CommandsMove

LEMMA NoStart ==
    ASSUME \A c \in Command : CommandKept(c) \/ CommandMoves(c)
    PROVE  FreshStart /\ \A c \in Command : CommandStep(c)
<1>1. ASSUME NEW c \in Command PROVE ~CommandStarts(c)
  <2>1. NoCommand.state = "none" /\ \A r \in CommandRow : r.state # "none"
    BY Zenon DEF NoCommand, CommandRow, Open, Settled
  <2> QED BY <2>1, Zenon DEF CommandKept, CommandMoves, CommandStarts
<1> QED BY <1>1, Zenon DEF FreshStart, CommandStep

\* Expiry alone, and what is told of rows there are
LEMMA ExpiryOnly ==
    ASSUME DesktopInv, device' = device, UNCHANGED <<clock, instance>>, NEW now \in Int, NEW rows,
           command' = expireOverdueCommands(rows, now), checkAudit' = expireAudit(rows, now),
           queueing' \in [Admin -> {Idling} \cup ReadRow],
           told' \subseteq [device : Device, key : CheckKey, command : Command],
           \A t \in told' \ told : t.command \in findCommandByIdempotency(t.device, t.key)
    PROVE  DesktopInv' /\ CommandsMove
<1>0. DesktopRows
  BY Zenon DEF DesktopInv
<1>1. CommandTables
  BY Zenon DEF CommandTables, expireOverdueCommands, expireAudit
<1>2. \A c \in Command : CommandKept(c) \/ CommandMoves(c)
  BY <1>0, ExpiryStep, Zenon
<1>3. ASSUME NEW t \in told' \ told
      PROVE  t.command \in Rows' /\ command'[t.command].device = t.device /\ command'[t.command].key = t.key
  <2>1. t.command \in Rows /\ t.command \in Command /\ command[t.command].device = t.device /\ command[t.command].key = t.key
    BY Zenon DEF findCommandByIdempotency, CommandsOf, Rows
  <2>2. CASE CommandKept(t.command)
    BY <2>1, <2>2, Zenon DEF CommandKept, Rows
  <2>3. CASE CommandMoves(t.command)
    <3>1. command'[t.command] \in CommandRow
      BY <2>3, Zenon DEF CommandMoves
    <3>2. command'[t.command].state \in Open \cup Settled
      BY <3>1, Zenon DEF CommandRow
    <3> QED BY <2>1, <2>3, <3>2, Zenon DEF CommandMoves, Rows
  <2> QED BY <1>2, <2>1, <2>2, <2>3, Zenon
<1> QED BY <1>1, <1>2, <1>3, NoStart, CommandsStep, Zenon

LEMMA ClaimStep ==
    ASSUME DesktopInv, PrRows, NEW u \in User, NEW d \in Device, NEW now \in Int, ClaimNextCommand(u, d, now)
    PROVE  DesktopInv' /\ CommandsMove
<1> DEFINE E == expireOverdueCommands(CommandsOf(d), now)
<1>0. DesktopRows /\ UNCHANGED <<device, clock, instance, queueing, told>> /\ checkAudit' = expireAudit(CommandsOf(d), now)
  BY Zenon DEF DesktopInv, ClaimNextCommand, principals
<1>1. CASE command' = E
  BY <1>0, <1>1, ExpiryOnly, Zenon DEF DesktopInv, DesktopRows
<1>2. ASSUME NEW c \in CommandsOf(d), command[c].state = "queued", command[c].expires > now,
             command' = [E EXCEPT ![c].state = "claimed", ![c].claimed = now, ![c].by = u]
      PROVE  DesktopInv' /\ CommandsMove
  <2>1. c \in Command /\ c \in Rows /\ command[c] \in CommandRow /\ command[c].device = d
    BY <1>0, CommandFields, Zenon DEF CommandsOf, Rows
  <2>2. E = [x \in Command |-> E[x]]
    BY Zenon DEF expireOverdueCommands
  <2>3. ~Overdue(c, now)
    BY <1>2, <2>1 DEF Overdue, CommandRow
  <2>4. E[c] = command[c] /\ checkAudit'[c] = checkAudit[c]
    BY <1>0, <2>1, <2>3, ExpiredRows, Zenon
  <2> DEFINE q == [command[c] EXCEPT !.state = "claimed", !.claimed = now, !.by = u]
  <2> HIDE DEF E
  <2>5. \A x \in Command : command'[x] = IF x = c THEN q ELSE E[x]
    BY <1>2, <2>1, <2>2, <2>4, Zenon
  <2>6. CommandTables
    BY <1>0, <1>2, <2>2, Zenon DEF CommandTables, expireAudit
  <2>7. ASSUME NEW x \in Command, x # c PROVE CommandKept(x) \/ CommandMoves(x)
    BY <1>0, <2>5, <2>7, ExpiryStep, Zenon DEF E
  <2>8. CommandMoves(c)
    <3>1. /\ q \in CommandRow /\ q.state = "claimed" /\ q.device = command[c].device
          /\ q.key = command[c].key /\ q.expires = command[c].expires /\ q.by = u
      BY <2>1, Zenon DEF CommandRow, Open
    <3>2. device[command[c].device].owner = u
      <4>1. device[d] = [owner |-> u, status |-> "active"]
        BY Zenon DEF ClaimNextCommand, requireActiveDevice
      <4> QED BY <2>1, <4>1
    <3>3. CanTransition("queued", "claimed") /\ "claimed" \notin Settled /\ "queued" \notin Settled
      BY Zenon DEF CanTransition, Settled
    <3>4. checkAudit[c] = Completed(checkAudit[c], 0)
      <4>1. checkAudit[c] \in AuditRow
        BY <1>0, <2>1, Zenon DEF DesktopRows
      <4> QED BY <4>1 DEF AuditRow, Completed
    <3>5. command'[c] = q
      BY <2>1, <2>5, Zenon
    <3> HIDE DEF q
    <3> QED BY <1>2, <2>1, <2>4, <3>1, <3>2, <3>3, <3>4, <3>5, Zenon DEF CommandMoves
  <2> QED BY <1>0, <2>6, <2>7, <2>8, NoStart, CommandsStep, Zenon DEF DesktopRows
<1> QED BY <1>1, <1>2, Zenon DEF ClaimNextCommand

LEMMA AdvanceStep ==
    ASSUME DesktopInv, PrRows, NEW u \in User, NEW d \in Device, NEW c \in Command, NEW r \in CommandResult,
           NEW now \in Int, AdvanceCommand(u, d, c, r, now)
    PROVE  DesktopInv' /\ CommandsMove
<1> DEFINE E == expireOverdueCommands(CommandsOf(d), now)
           A == expireAudit(CommandsOf(d), now)
           at == IF r.state = "running" THEN command[c].completed ELSE now
           q == [command[c] EXCEPT !.state = r.state, !.code = r.code, !.completed = at]
           n == IF r.state \in Settled THEN 1 ELSE 0
<1>0. DesktopRows /\ UNCHANGED <<device, clock, instance, queueing, told>>
  BY Zenon DEF DesktopInv, AdvanceCommand, principals
<1>1. c \in CommandsOf(d) /\ ~Overdue(c, now) /\ CanTransition(command[c].state, r.state)
  BY Zenon DEF AdvanceCommand
<1>2. c \in Rows /\ command[c] \in CommandRow /\ command[c].device = d
  BY <1>0, <1>1, CommandFields, Zenon DEF CommandsOf
<1>3. E = [x \in Command |-> E[x]] /\ A = [x \in Command |-> A[x]]
  BY Zenon DEF expireOverdueCommands, expireAudit
<1>4. E[c] = command[c] /\ A[c] = checkAudit[c]
  BY <1>0, <1>1, ExpiredRows, Zenon
<1>5. /\ command' = [E EXCEPT ![c].state = r.state, ![c].code = r.code,
                              ![c].completed = IF r.state = "running" THEN @ ELSE now]
      /\ checkAudit' = [A EXCEPT ![c].completed = @ + n]
  BY Zenon DEF AdvanceCommand
<1> HIDE DEF E, A
<1>6. \A x \in Command : command'[x] = IF x = c THEN q ELSE E[x]
  BY <1>2, <1>3, <1>4, <1>5, Zenon DEF CommandRow
<1>7. \A x \in Command : checkAudit'[x] = IF x = c THEN Completed(checkAudit[c], n) ELSE A[x]
  <2>1. checkAudit[c] \in AuditRow
    BY <1>0, Zenon DEF DesktopRows
  <2>2. [checkAudit[c] EXCEPT !.completed = checkAudit[c].completed + n] = Completed(checkAudit[c], n)
    BY <2>1 DEF AuditRow, Completed
  <2> QED BY <1>3, <1>4, <1>5, <2>2, Zenon
<1>8. CommandTables
  BY <1>3, <1>5, Zenon DEF CommandTables
<1>9. ASSUME NEW x \in Command, x # c PROVE CommandKept(x) \/ CommandMoves(x)
  BY <1>0, <1>6, <1>7, <1>9, ExpiryStep, ZenonT(40) DEF E, A
<1>10. CommandMoves(c)
  <2>1. r.state \in {"running", "succeeded", "failed"} /\ r.code \in HealthCode \cup {"none"}
    BY DesktopAssumption DEF CommandResult
  <2>2. at \in Int
    BY <1>2, Zenon DEF CommandRow
  <2>3. /\ q \in CommandRow /\ q.state = r.state /\ q.completed = at /\ q.device = command[c].device
        /\ q.key = command[c].key /\ q.expires = command[c].expires /\ q.by = command[c].by
    <3> HIDE DEF at
    <3> QED BY <1>2, <2>1, <2>2, Zenon DEF CommandRow, Open, Settled
  <2>4. command[c].state \notin Settled /\ command[c].state \in Open
    BY <1>1, Zenon DEF CanTransition, Settled, Open
  <2>5. now < command[c].expires
    BY <1>1, <1>2, <2>4 DEF Overdue, CommandRow
  <2>6. r.state \in {"succeeded", "failed"} => at = now
    BY Zenon
  <2>7. command'[c] = q /\ checkAudit'[c] = Completed(checkAudit[c], n)
    BY <1>6, <1>7, Zenon
  <2> HIDE DEF q, at
  <2> QED BY <1>1, <1>2, <2>1, <2>3, <2>4, <2>5, <2>6, <2>7, Zenon DEF CommandMoves
<1> QED BY <1>0, <1>8, <1>9, <1>10, NoStart, CommandsStep, Zenon DEF DesktopRows

LEMMA InsertStep ==
    ASSUME DesktopInv, PrRows, NEW a \in Admin, NEW c \in Command, QueueInsert(a, c)
    PROVE  DesktopInv' /\ CommandsMove
<1> DEFINE t == queueing[a]
           E == expireOverdueCommands(Rows, t.now)
           A == expireAudit(Rows, t.now)
           taken == findCommandByIdempotency(t.device, t.key)
           answer1 == [device |-> t.device, key |-> t.key, command |-> c]
<1>0. /\ DesktopRows /\ UNCHANGED <<device, clock, instance>> /\ t # Idling /\ device[t.device] # NoDevice
      /\ told' = told \cup {answer1} /\ queueing' = [queueing EXCEPT ![a] = Idling]
  BY Zenon DEF DesktopInv, QueueInsert, principals, tell
<1>1. t \in ReadRow
  BY <1>0, Zenon DEF DesktopRows
<1>2. t.device \in Device /\ t.key \in CheckKey /\ t.now \in Int
  BY <1>1, Zenon DEF ReadRow
<1>3. /\ queueing' \in [Admin -> {Idling} \cup ReadRow]
      /\ told' \subseteq [device : Device, key : CheckKey, command : Command]
  BY <1>0, <1>2 DEF DesktopRows
<1>4. answer1.device = t.device /\ answer1.key = t.key /\ answer1.command = c
  BY Zenon
<1> HIDE DEF answer1
<1>5. CASE c \in taken /\ command' = E /\ checkAudit' = A
  <2>1. \A x \in told' \ told : x.command \in findCommandByIdempotency(x.device, x.key)
    BY <1>0, <1>4, <1>5, Zenon
  <2> QED BY <1>0, <1>2, <1>3, <1>5, <2>1, ExpiryOnly, Zenon
<1>6. CASE /\ taken = {} /\ command[c] = NoCommand
           /\ command' = [E EXCEPT ![c] = Queued(t)] /\ checkAudit' = [A EXCEPT ![c].requested = @ + 1]
  <2>1. E = [x \in Command |-> E[x]] /\ A = [x \in Command |-> A[x]]
    BY Zenon DEF expireOverdueCommands, expireAudit
  <2>2. A[c] = [requested |-> 0, completed |-> 0] /\ c \notin Rows
    <3>1. c \notin Rows
      BY <1>0, <1>6, CommandFields, Zenon
    <3>2. A[c] = checkAudit[c]
      BY <1>0, <1>2, <3>1, ExpiredRows, Zenon
    <3> QED BY <1>6, <3>1, <3>2, Zenon DEF DesktopInv, CommandsFit
  <2> HIDE DEF E, A
  <2>3. \A x \in Command : command'[x] = IF x = c THEN Queued(t) ELSE E[x]
    BY <1>6, <2>1, Zenon
  <2>4. /\ checkAudit'[c] = [requested |-> 1, completed |-> 0]
        /\ \A x \in Command \ {c} : checkAudit'[x] = A[x]
    BY <1>6, <2>1, <2>2
  <2>5. CommandTables
    BY <1>6, <2>1, Zenon DEF CommandTables
  <2>6. ASSUME NEW x \in Command, x # c PROVE CommandKept(x) \/ CommandMoves(x)
    BY <1>0, <1>2, <2>3, <2>4, <2>6, ExpiryStep, ZenonT(40) DEF E, A
  <2>7. /\ Queued(t) \in CommandRow /\ Queued(t).state = "queued" /\ Queued(t).by = "none"
        /\ Queued(t).device = t.device /\ Queued(t).key = t.key
    BY <1>2, DesktopAssumption DEF Queued, CommandRow, Open
  <2>8. CommandStarts(c) /\ command'[c] = Queued(t)
    BY <1>0, <1>6, <2>3, <2>4, <2>7, Zenon DEF CommandStarts
  <2>9. NoCommand \notin CommandRow
    BY Zenon DEF NoCommand, CommandRow, Open, Settled
  <2>10. ASSUME NEW x \in Command, x # c PROVE ~CommandStarts(x)
    BY <2>6, <2>9, <2>10, Zenon DEF CommandKept, CommandMoves, CommandStarts
  <2>11. \A e \in Rows : ~(command[e].device = t.device /\ command[e].key = t.key)
    BY <1>6, Zenon DEF findCommandByIdempotency, CommandsOf
  <2>12. FreshStart /\ \A x \in Command : CommandStep(x)
    BY <2>6, <2>7, <2>8, <2>10, <2>11, Zenon DEF FreshStart, CommandStep
  <2>13. ASSUME NEW x \in told' \ told
         PROVE  x.command \in Rows' /\ command'[x.command].device = x.device /\ command'[x.command].key = x.key
    <3>1. x = answer1
      BY <1>0, Zenon
    <3>2. c \in Rows'
      BY <2>7, <2>8, Zenon DEF Rows, Open
    <3> QED BY <1>4, <2>7, <2>8, <3>1, <3>2, Zenon
  <2> QED BY <1>0, <1>3, <2>5, <2>12, <2>13, CommandsStep, Zenon
<1> QED BY <1>5, <1>6, Zenon DEF QueueInsert

\* Nothing happens to commands.
LEMMA CommandsUntouched ==
    ASSUME DesktopInv, DesktopRows', UNCHANGED <<device, command, checkAudit, told>>,
           \A d \in Device : instance'[d] # NoInstance => instance'[d].owner = device[d].owner
    PROVE  DesktopInv' /\ CommandsMove
<1>1. Rows' = Rows
  BY Zenon DEF Rows
<1>2. CommandsFit' /\ ResultsInTime' /\ OneEventPerCheck'
  BY <1>1, ZenonT(40) DEF DesktopInv, CommandsFit, ResultsInTime, OneEventPerCheck
<1>3. DesktopOwned'
  BY <1>1, Zenon DEF DesktopInv, DesktopOwned
<1> QED BY <1>2, <1>3, Zenon DEF DesktopInv, CommandsMove, CommandStep, CommandKept

LEMMA ReadingIsTime ==
    ASSUME DesktopRows
    PROVE  Reading \subseteq Int
BY DEF Reading

LEMMA HeartbeatStep ==
    ASSUME DesktopInv, PrRows, NEW u \in User, NEW d \in Device, NEW now \in Int, NEW capable \in BOOLEAN,
           AcceptHeartbeat(u, d, now, capable)
    PROVE  DesktopInv' /\ CommandsMove
<1> DEFINE since == IF instance[d] = NoInstance THEN now ELSE instance[d].created
           q == [owner |-> u, beat |-> now, capable |-> capable, created |-> since]
<1>0. DesktopRows /\ UNCHANGED <<device, clock, command, checkAudit, queueing, told>>
  BY Zenon DEF DesktopInv, AcceptHeartbeat, principals
<1>1. instance' = [instance EXCEPT ![d] = q] /\ device[d] = [owner |-> u, status |-> "active"]
  BY Zenon DEF AcceptHeartbeat, requireActiveDevice
<1>2. since \in Int
  BY <1>0, Zenon DEF DesktopRows, InstanceRow
<1>3. q \in InstanceRow /\ q.owner = u
  BY <1>2, Zenon DEF InstanceRow
<1> HIDE DEF q
<1>4. DesktopRows'
  BY <1>0, <1>1, <1>3, Zenon DEF DesktopRows
<1>5. \A x \in Device : instance'[x] # NoInstance => instance'[x].owner = device[x].owner
  BY <1>0, <1>1, <1>3 DEF DesktopRows, DesktopInv, DesktopOwned
<1> QED BY <1>0, <1>4, <1>5, CommandsUntouched, Zenon

LEMMA DesktopStep ==
    ASSUME DesktopInv, PrRows, DcNext
    PROVE  DesktopInv' /\ CommandsMove /\ UNCHANGED principals
<1>0. DesktopRows /\ Reading \subseteq Int
  BY ReadingIsTime, Zenon DEF DesktopInv
<1>1. ASSUME NEW u \in User, NEW d \in Device, NEW now \in Int, Heartbeat(u, d, now) PROVE DesktopInv' /\ CommandsMove /\ UNCHANGED principals
  <2>1. UNCHANGED principals
    BY <1>1, Zenon DEF Heartbeat, AcceptHeartbeat, ClaimNextCommand
  <2> QED BY <1>1, <2>1, HeartbeatStep, ClaimStep, Zenon DEF Heartbeat
<1>2. ASSUME NEW u \in User, NEW d \in Device, NEW c \in Command, NEW r \in CommandResult, NEW now \in Int,
             SubmitResult(u, d, c, r, now)
      PROVE  DesktopInv' /\ CommandsMove /\ UNCHANGED principals
  <2>1. UNCHANGED principals
    BY <1>2, Zenon DEF SubmitResult, AdvanceCommand, ResultAgain
  <2>2. ASSUME ResultAgain(u, d, c, r, now) PROVE DesktopInv' /\ CommandsMove
    <3>1. /\ command' = expireOverdueCommands(CommandsOf(d), now) /\ checkAudit' = expireAudit(CommandsOf(d), now)
          /\ UNCHANGED <<device, clock, instance, queueing, told>>
      BY <2>2, Zenon DEF ResultAgain, principals
    <3> QED BY <1>0, <3>1, ExpiryOnly, Zenon DEF DesktopRows
  <2> QED BY <1>2, <2>1, <2>2, AdvanceStep, Zenon DEF SubmitResult
<1>3. ASSUME NEW d \in Device, NEW k \in CheckKey, NEW now \in Int, QueueReplayed(d, k, now)
      PROVE  DesktopInv' /\ CommandsMove /\ UNCHANGED principals
  <2>1. PICK c \in findCommandByIdempotency(d, k) : told' = told \cup {[device |-> d, key |-> k, command |-> c]}
    BY <1>3, Zenon DEF QueueReplayed, tell
  <2>2. /\ command' = expireOverdueCommands(Rows, now) /\ checkAudit' = expireAudit(Rows, now)
        /\ UNCHANGED <<principals, clock, instance, queueing>>
    BY <1>3, Zenon DEF QueueReplayed
  <2>3. c \in Command
    BY Zenon DEF findCommandByIdempotency, CommandsOf, Rows
  <2>4. told' \subseteq [device : Device, key : CheckKey, command : Command]
    BY <1>0, <2>1, <2>3 DEF DesktopRows
  <2>5. ASSUME NEW t \in told' \ told PROVE t.command \in findCommandByIdempotency(t.device, t.key)
    <3>1. t = [device |-> d, key |-> k, command |-> c]
      BY <2>1, Zenon
    <3>2. t.device = d /\ t.key = k /\ t.command = c
      BY <3>1, Zenon
    <3> QED BY <3>2, Zenon
  <2> QED BY <1>0, <2>2, <2>4, <2>5, ExpiryOnly, Zenon DEF DesktopRows, principals
<1>4. ASSUME NEW a \in Admin, NEW d \in Device, NEW k \in CheckKey, NEW now \in Int, QueueRead(a, d, k, now)
      PROVE  DesktopInv' /\ CommandsMove /\ UNCHANGED principals
  <2>1. /\ queueing' = [queueing EXCEPT ![a] = [at |-> "read", device |-> d, key |-> k, now |-> now]]
        /\ UNCHANGED <<principals, clock, instance, command, checkAudit, told>>
    BY <1>4, Zenon DEF QueueRead
  <2>2. [at |-> "read", device |-> d, key |-> k, now |-> now] \in ReadRow
    BY Zenon DEF ReadRow
  <2>3. DesktopRows'
    BY <1>0, <2>1, <2>2, Zenon DEF DesktopRows
  <2> QED BY <2>1, <2>3, CommandsUntouched, Zenon DEF DesktopInv, DesktopOwned, principals
<1>5. ASSUME NEW a \in Admin, QueueAborted(a) PROVE DesktopInv' /\ CommandsMove /\ UNCHANGED principals
  <2>1. /\ queueing' = [queueing EXCEPT ![a] = Idling]
        /\ UNCHANGED <<principals, clock, instance, command, checkAudit, told>>
    BY <1>5, Zenon DEF QueueAborted
  <2>2. DesktopRows'
    BY <1>0, <2>1, Zenon DEF DesktopRows
  <2> QED BY <2>1, <2>2, CommandsUntouched, Zenon DEF DesktopInv, DesktopOwned, principals
<1>6. ASSUME NEW a \in Admin, NEW c \in Command, QueueInsert(a, c) PROVE DesktopInv' /\ CommandsMove /\ UNCHANGED principals
  <2>1. UNCHANGED principals
    BY <1>6, Zenon DEF QueueInsert
  <2> QED BY <1>6, <2>1, InsertStep, Zenon
<1>7. ASSUME NEW c \in Command, NEW now \in Int, GetCommand(c, now) PROVE DesktopInv' /\ CommandsMove /\ UNCHANGED principals
  <2>1. /\ command' = expireOverdueCommands(Rows, now) /\ checkAudit' = expireAudit(Rows, now)
        /\ UNCHANGED <<principals, clock, instance, queueing, told>>
    BY <1>7, Zenon DEF GetCommand
  <2> QED BY <1>0, <2>1, ExpiryOnly, Zenon DEF DesktopRows, principals
<1>8. ASSUME Tick PROVE DesktopInv' /\ CommandsMove /\ UNCHANGED principals
  <2>1. clock' \in 0..MaxClock /\ UNCHANGED <<principals, instance, command, checkAudit, queueing, told>>
    BY <1>0, <1>8, DesktopAssumption DEF Tick, DesktopRows
  <2>2. DesktopRows'
    BY <1>0, <2>1, Zenon DEF DesktopRows
  <2> QED BY <2>1, <2>2, CommandsUntouched, Zenon DEF DesktopInv, DesktopOwned, principals
<1> QED BY <1>0, <1>1, <1>2, <1>3, <1>4, <1>5, <1>6, <1>7, <1>8, Zenon DEF DcNext

\* What Desktop control loses with a device
LEMMA DesktopFollowsStep ==
    ASSUME DesktopInv, PrRows, PrRows', DesktopFollows
    PROVE  DesktopInv' /\ CommandsMove
<1> DEFINE gone == {d \in Device : device[d] # NoDevice /\ device'[d].owner # device[d].owner}
<1>0. /\ DesktopRows /\ DesktopOwned /\ UNCHANGED <<clock, checkAudit, queueing, told>>
      /\ instance' = [d \in Device |-> IF d \in gone THEN NoInstance ELSE instance[d]]
      /\ command' = [c \in Command |-> IF c \in Rows /\ command[c].device \in gone THEN Gone ELSE command[c]]
  BY Zenon DEF DesktopFollows, clearDesktopControlState, DesktopInv
<1>1. DesktopRows'
  BY <1>0, Zenon DEF DesktopRows
<1>2. \A d \in Device \ gone : device[d] # NoDevice => device'[d] # NoDevice /\ device'[d].owner = device[d].owner
  BY DeviceFields, Zenon DEF PrRows
<1> HIDE DEF gone
<1>3. ASSUME NEW c \in Command PROVE CommandKept(c) \/ CommandGone(c)
  BY <1>0, CommandFields, Zenon DEF CommandKept, CommandGone
<1>4. \A c \in Command : CommandStep(c) /\ ~CommandStarts(c)
  <2>1. Gone \notin CommandRow /\ NoCommand \notin CommandRow
    BY Zenon DEF Gone, NoCommand, CommandRow, Open, Settled
  <2> QED BY <1>3, <2>1, ZenonT(40) DEF CommandStep, CommandKept, CommandGone, CommandStarts
<1>5. CommandsFit' /\ ResultsInTime' /\ OneEventPerCheck'
  <2>1. FreshStart
    BY <1>4, Zenon DEF FreshStart
  <2> QED BY <1>0, <1>1, <1>4, <2>1, ChecksKept, FitKept, Zenon
<1>6. ASSUME NEW d \in Device, instance'[d] # NoInstance PROVE instance'[d].owner = device'[d].owner
  <2>1. d \notin gone /\ instance'[d] = instance[d] /\ instance[d].owner = device[d].owner
    BY <1>0, <1>6, Zenon DEF DesktopOwned
  <2>2. instance[d].owner \in User
    BY <1>0, <1>6, <2>1, Zenon DEF DesktopRows, InstanceRow
  <2>3. device[d] # NoDevice
    BY <2>1, <2>2, DeviceFields, Zenon DEF PrRows
  <2> QED BY <1>2, <2>1, <2>3, Zenon
<1>7. ASSUME NEW c \in Rows'
      PROVE  device'[command'[c].device] # NoDevice /\ command'[c].by \in {"none", device'[command'[c].device].owner}
  <2>1. c \in Command /\ c \in Rows
    BY <1>0, <1>1, <1>4, OldRows, Zenon DEF Rows
  <2>2. command'[c].state \in Open \cup Settled /\ Gone.state \notin Open \cup Settled
    BY Zenon DEF Rows, Gone, Open, Settled
  <2>3. command'[c] = command[c] /\ command[c].device \notin gone
    BY <1>0, <2>1, <2>2, Zenon
  <2>4. command[c].device \in Device
    BY <1>0, <2>1, CommandFields, Zenon DEF CommandRow
  <2> QED BY <1>0, <1>2, <2>1, <2>3, <2>4, Zenon DEF DesktopOwned
<1>8. DesktopOwned'
  BY <1>6, <1>7, Zenon DEF DesktopOwned
<1> QED BY <1>1, <1>4, <1>5, <1>8, Zenon DEF DesktopInv, CommandsMove

LEMMA InitDesktopInv == DcInit => DesktopInv
<1> SUFFICES ASSUME DcInit PROVE DesktopInv
  BY Zenon
<1>1. DesktopRows
  BY DesktopAssumption DEF DcInit, DesktopRows, AuditRow
<1>2. Rows = {}
  BY Zenon DEF DcInit, Rows, NoCommand, Open, Settled
<1> QED BY <1>1, <1>2, Zenon
        DEF DcInit, DesktopInv, DesktopOwned, CommandsFit, ResultsInTime, OneEventPerCheck

LEMMA StutterDesktop ==
    ASSUME DesktopInv, UNCHANGED <<device, desktopVars>>
    PROVE  DesktopInv' /\ CommandsMove
<1>1. DesktopRows'
  BY Zenon DEF DesktopInv, DesktopRows, desktopVars
<1> QED BY <1>1, CommandsUntouched, Zenon DEF DesktopInv, DesktopOwned, desktopVars

-----------------------------------------------------------------------------
(* Identities and the rotation of their keys *)

\* A finite set has finitely many pictures, and as many as members where f tells
\* these apart.
Pictured(S, f) ==
    /\ IsFiniteSet({f[x] : x \in S})
    /\ (\A x, y \in S : f[x] = f[y] => x = y) => Cardinality({f[x] : x \in S}) = Cardinality(S)

\* What the arguments need of finite sets is a hypothesis of the lemmas, which
\* the library's theorems discharge in OperationsProofs (CountingHolds).
Counting ==
    /\ Cardinality({}) = 0
    /\ \A x : Cardinality({x}) = 1
    /\ \A S : IsFiniteSet(S) => \A T \in SUBSET S : IsFiniteSet(T) /\ Cardinality(T) <= Cardinality(S)
    /\ \A S, x : IsFiniteSet(S) => IsFiniteSet(S \cup {x})
    /\ \A S, f : IsFiniteSet(S) => Pictured(S, f)

LEMMA NoneCounted == ASSUME Counting PROVE Cardinality({}) = 0
BY Zenon DEF Counting

LEMMA OneCounted == ASSUME Counting, NEW x PROVE Cardinality({x}) = 1
BY Zenon DEF Counting

LEMMA PartsFinite ==
    ASSUME Counting, NEW S, IsFiniteSet(S), NEW T \in SUBSET S
    PROVE  IsFiniteSet(T) /\ Cardinality(T) <= Cardinality(S)
BY Zenon DEF Counting

LEMMA AddedFinite == ASSUME Counting, NEW S, IsFiniteSet(S), NEW x PROVE IsFiniteSet(S \cup {x})
BY Zenon DEF Counting

LEMMA ImageFinite == ASSUME Counting, NEW S, IsFiniteSet(S), NEW f PROVE IsFiniteSet({f[x] : x \in S})
<1>1. Pictured(S, f)
  BY Zenon DEF Counting
<1> QED BY <1>1, Zenon DEF Pictured

LEMMA SameCount ==
    ASSUME Counting, NEW S, IsFiniteSet(S), NEW f, \A x, y \in S : f[x] = f[y] => x = y
    PROVE  Cardinality({f[x] : x \in S}) = Cardinality(S)
<1>1. Pictured(S, f)
  BY Zenon DEF Counting
<1> QED BY <1>1, Zenon DEF Pictured

AddRow == [at : {"register", "bind"}, user : User, value : Value, lock : Value \X Both]

IdRows ==
    /\ identity \subseteq [value : Value, key : Both, user : User] /\ IsFiniteSet(identity)
    /\ ring = [n \in Server |-> ring[n]]
    /\ adding = [n \in Server |-> adding[n]]

\* The stages of a rotation that a server goes through
RingFits(n) ==
    \/ ring[n].keys = {OldKey} /\ ring[n].active = OldKey
    \/ ring[n].keys = Both /\ ring[n].active \in Both
    \/ ring[n].keys = {NewKey} /\ ring[n].active = NewKey

\* How far the servers can be apart: once one writes under the new key all have
\* it, and once one has dropped the old key all write under the new one and no
\* row needs the old one.
RingsFit ==
    /\ \A n \in Server : RingFits(n)
    /\ \A n, m \in Server : ring[n].active = NewKey => NewKey \in ring[m].keys
    /\ \A n, m \in Server : ring[n].keys = {NewKey} => ring[m].active = NewKey
    /\ \A n \in Server, row \in identity : ring[n].keys = {NewKey} => row.key = NewKey
    /\ \A n \in Server, row \in identity : row.key = NewKey => NewKey \in ring[n].keys

ValuesFit == \A row, other \in identity : row.value = other.value => row = other

\* A server that adds a value holds the lock of its scope, and a row that
\* another server has added meanwhile has the index that is about to be inserted.
AddingFits(n) ==
    adding[n] # Idle =>
        /\ adding[n] \in AddRow
        /\ adding[n].lock = lockIdentityScope(n, adding[n].value)
        /\ \A row \in identity : row.value = adding[n].value => row.key = ring[n].active
        /\ \A m \in Server \ {n} : adding[m] # Idle => adding[m].lock # adding[n].lock

KeyInv == IdRows /\ RingsFit /\ ValuesFit /\ \A n \in Server : AddingFits(n)

LEMMA Recognised ==
    ASSUME IdRows, RingsFit, NEW row \in identity, NEW n \in Server
    PROVE  row.key \in ring[n].keys
<1>1. row.key \in Both
  BY Zenon DEF IdRows
<1> QED BY <1>1, Zenon DEF RingsFit, RingFits, Both

LEMMA NotStored ==
    ASSUME IdRows, RingsFit, NEW n \in Server, NEW v, ~identityExists(n, v)
    PROVE  \A row \in identity : row.value # v
<1> SUFFICES ASSUME NEW row \in identity, row.value = v PROVE FALSE
  BY Zenon
<1>1. row.key \in ring[n].keys
  BY Recognised, Zenon
<1>2. Index(row) \in LookupCandidates(n, v)
  BY <1>1, ZenonT(40) DEF Index, LookupCandidates
<1> QED BY <1>2, Zenon DEF identityExists, FindCredential

\* Two servers that add one value have different rings, and yet one active key:
\* the unique index decides between them.
LEMMA SameActive ==
    ASSUME KeyInv, NEW n \in Server, NEW m \in Server \ {n}, adding[n] # Idle, adding[m] # Idle,
           adding[n].value = adding[m].value
    PROVE  ring[n].active = ring[m].active
<1>1. lockIdentityScope(n, adding[n].value) # lockIdentityScope(m, adding[n].value)
  BY ZenonT(40) DEF KeyInv, AddingFits
<1>2. RingFits(n) /\ RingFits(m)
  BY Zenon DEF KeyInv, RingsFit
<1>3. SmallestKey \in Both
  BY IdentityAssumption, Zenon DEF Both
<1>4. /\ ring[n].active = NewKey => NewKey \in ring[m].keys
      /\ ring[m].active = NewKey => NewKey \in ring[n].keys
      /\ ring[n].keys = {NewKey} => ring[m].active = NewKey
      /\ ring[m].keys = {NewKey} => ring[n].active = NewKey
  BY Zenon DEF KeyInv, RingsFit
<1> QED BY <1>1, <1>2, <1>3, <1>4, ZenonT(40) DEF lockIdentityScope, RingFits, Both

\* A server drops its lock, or keeps what it does, and rows only go.
LEMMA Shrunk ==
    ASSUME Counting, KeyInv, identity' \subseteq identity, ring' = ring, adding' = [n \in Server |-> adding'[n]],
           \A n \in Server : adding'[n] \in {adding[n], Idle}
    PROVE  KeyInv'
<1>0. IsFiniteSet(identity')
  BY PartsFinite, Zenon DEF KeyInv, IdRows
<1>1. IdRows' /\ RingsFit' /\ ValuesFit'
  BY <1>0, ZenonT(40) DEF KeyInv, IdRows, RingsFit, RingFits, ValuesFit
<1>2. ASSUME NEW n \in Server, adding'[n] # Idle PROVE AddingFits(n)'
  <2>1. adding'[n] = adding[n] /\ AddingFits(n) /\ \A m \in Server : adding'[m] # Idle => adding'[m] = adding[m]
    BY <1>2, Zenon DEF KeyInv
  <2> QED BY <1>2, <2>1, Zenon DEF AddingFits, lockIdentityScope
<1> QED BY <1>1, <1>2, Zenon DEF KeyInv, AddingFits

LEMMA Untouched ==
    ASSUME Counting, KeyInv, UNCHANGED <<identity, ring, adding>>
    PROVE  KeyInv'
<1>1. adding' = [n \in Server |-> adding'[n]]
  BY ZenonT(40) DEF KeyInv, IdRows
<1> QED BY <1>1, Shrunk, Zenon

LEMMA BeginStep ==
    ASSUME KeyInv, NEW n \in Server, NEW what \in {"register", "bind"}, NEW u \in User, NEW v \in Value,
           beginAdding(n, what, u, v)
    PROVE  KeyInv'
<1> DEFINE lock == lockIdentityScope(n, v)
           t == [at |-> what, user |-> u, value |-> v, lock |-> lock]
<1>1. /\ UNCHANGED <<identity, ring>> /\ adding[n] = Idle /\ lock \notin Held /\ ~identityExists(n, v)
      /\ adding' = [adding EXCEPT ![n] = t]
  BY Zenon DEF beginAdding
<1>2. lock \in Value \X Both
  BY IdentityAssumption, Zenon DEF KeyInv, RingsFit, RingFits, lockIdentityScope, Both
<1>3. t \in AddRow /\ t.value = v /\ t.lock = lock
  BY <1>2, Zenon DEF AddRow
<1>4. \A m \in Server : adding[m] # Idle => adding[m].lock # lock
  BY <1>1, Zenon DEF Held
<1>5. \A row \in identity : row.value # v
  BY <1>1, NotStored, ZenonT(40) DEF KeyInv
<1>6. lock = lockIdentityScope(n, t.value)
  BY <1>3, Zenon
<1> HIDE DEF t, lock
<1>7. adding'[n] = t /\ \A m \in Server \ {n} : adding'[m] = adding[m]
  BY <1>1, Zenon DEF KeyInv, IdRows
<1>8. IdRows' /\ RingsFit' /\ ValuesFit'
  BY <1>1, Zenon DEF KeyInv, IdRows, RingsFit, RingFits, ValuesFit
<1>9. AddingFits(n)'
  BY <1>1, <1>3, <1>4, <1>5, <1>6, <1>7, ZenonT(40) DEF AddingFits, lockIdentityScope
<1>10. ASSUME NEW m \in Server \ {n} PROVE AddingFits(m)'
  <2>1. AddingFits(m)
    BY Zenon DEF KeyInv
  <2>2. adding[m] # Idle => adding[m].lock # adding'[n].lock
    BY <1>3, <1>4, <1>7, ZenonT(40)
  <2> QED BY <1>1, <1>7, <2>1, <2>2, ZenonT(40) DEF AddingFits, lockIdentityScope
<1> QED BY <1>8, <1>9, <1>10, Zenon DEF KeyInv

\* The insert: the unique index suffices although another server may be adding
\* the value under another lock.
LEMMA Inserted ==
    ASSUME Counting, KeyInv, NEW n \in Server, adding[n] # Idle,
           InsertIdentity(n, adding[n].value, adding[n].user), ring' = ring,
           adding' = [adding EXCEPT ![n] = Idle]
    PROVE  /\ KeyInv' /\ \A row \in identity : row.value # adding[n].value
           /\ identity' = identity \cup {Seal(n, adding[n].value, adding[n].user)}
<1> DEFINE v == adding[n].value
           new == Seal(n, adding[n].value, adding[n].user)
<1>1. /\ new \in [value : Value, key : Both, user : User]
      /\ new.value = v /\ new.key = ring[n].active /\ Index(new) = <<v, ring[n].active>>
  <2>1. v \in Value /\ adding[n].user \in User
    BY Zenon DEF KeyInv, AddingFits, AddRow
  <2>2. ring[n].active \in Both
    BY Zenon DEF KeyInv, RingsFit, RingFits, Both
  <2> QED BY <2>1, <2>2, Zenon DEF Seal, Index
<1>2. identity' = identity \cup {new} /\ \A row \in identity : Index(row) # Index(new)
  BY Zenon DEF InsertIdentity
<1> HIDE DEF new
<1>3. \A row \in identity : row.value # v
  <2> SUFFICES ASSUME NEW row \in identity, row.value = v PROVE FALSE
    BY Zenon
  <2>1. row.key = ring[n].active
    BY Zenon DEF KeyInv, AddingFits
  <2> QED BY <1>1, <1>2, <2>1, ZenonT(40) DEF Index
<1>4. \A m \in Server : adding'[m] = IF m = n THEN Idle ELSE adding[m]
  BY Zenon DEF KeyInv, IdRows
<1>5. IdRows'
  BY <1>1, <1>2, AddedFinite, ZenonT(40) DEF KeyInv, IdRows
<1>6. ValuesFit'
  BY <1>1, <1>2, <1>3, Zenon DEF KeyInv, ValuesFit
<1>7. RingsFit'
  <2>1. ring[n].active \in Both
    BY Zenon DEF KeyInv, RingsFit, RingFits, Both
  <2> QED BY <1>1, <1>2, <2>1, ZenonT(40) DEF KeyInv, RingsFit, RingFits
<1>8. ASSUME NEW m \in Server, adding'[m] # Idle PROVE AddingFits(m)'
  <2>1. m # n /\ adding'[m] = adding[m] /\ AddingFits(m)
    BY <1>4, <1>8, ZenonT(40) DEF KeyInv
  <2>2. v = adding[m].value => ring[n].active = ring[m].active
    BY <1>8, <2>1, SameActive, Zenon
  <2>3. \A row \in identity' : row.value = adding[m].value => row.key = ring[m].active
    BY <1>1, <1>2, <1>8, <2>1, <2>2, ZenonT(40) DEF AddingFits
  <2> QED BY <1>4, <1>8, <2>1, <2>3, Zenon DEF AddingFits, lockIdentityScope
<1> QED BY <1>2, <1>3, <1>5, <1>6, <1>7, <1>8, Zenon DEF KeyInv, AddingFits, new

LEMMA RotationStep ==
    ASSUME Counting, KeyInv, Rotation
    PROVE  KeyInv'
<1>1. ASSUME NEW n \in Server, NEW keys, NEW active, SetRing(n, keys, active), RingsFit'
      PROVE  KeyInv'
  <2>1. UNCHANGED <<identity, adding>> /\ adding[n] = Idle /\ ring' = [ring EXCEPT ![n] = [keys |-> keys, active |-> active]]
    BY <1>1, Zenon DEF SetRing
  <2>2. IdRows' /\ ValuesFit' /\ \A m \in Server \ {n} : ring'[m] = ring[m]
    BY <2>1, ZenonT(40) DEF KeyInv, IdRows, ValuesFit
  <2>3. ASSUME NEW m \in Server, adding'[m] # Idle PROVE AddingFits(m)'
    BY <2>1, <2>2, <2>3 DEF KeyInv, AddingFits, lockIdentityScope
  <2> QED BY <1>1, <2>2, <2>3, ZenonT(40) DEF KeyInv, AddingFits
<1>2. ASSUME NEW n \in Server, NEW keys, NEW active, SetRing(n, keys, active)
      PROVE  /\ identity' = identity /\ ring'[n].keys = keys /\ ring'[n].active = active
             /\ \A m \in Server \ {n} : ring'[m] = ring[m]
  BY <1>2, Zenon DEF SetRing, KeyInv, IdRows
<1>3. OldKey # NewKey /\ RingsFit
  BY IdentityAssumption, Zenon DEF KeyInv
<1>4. ASSUME NEW n \in Server, ExpandRing(n) PROVE KeyInv'
  <2>1. ring[n].keys = {OldKey} /\ SetRing(n, Both, OldKey)
    BY <1>4, Zenon DEF ExpandRing
  <2>2. RingsFit'
    BY <1>2, <1>3, <2>1 DEF RingsFit, RingFits, Both
  <2> QED BY <1>1, <2>1, <2>2, Zenon
<1>5. ASSUME NEW n \in Server, SwitchActive(n) PROVE KeyInv'
  <2>1. /\ \A m \in Server : NewKey \in ring[m].keys
        /\ ring[n].active = OldKey /\ SetRing(n, Both, NewKey)
    BY <1>5, Zenon DEF SwitchActive
  <2>2. RingsFit'
    BY <1>2, <1>3, <2>1 DEF RingsFit, RingFits, Both
  <2> QED BY <1>1, <2>1, <2>2, Zenon
<1>6. ASSUME NEW n \in Server, RetireOldKey(n) PROVE KeyInv'
  <2>1. /\ \A m \in Server : ring[m].active = NewKey
        /\ \A row \in identity : row.key = NewKey
        /\ SetRing(n, {NewKey}, NewKey)
    BY <1>6, Zenon DEF RetireOldKey
  <2>2. RingsFit'
    BY <1>2, <1>3, <2>1 DEF RingsFit, RingFits, Both
  <2> QED BY <1>1, <2>1, <2>2, Zenon
<1>7. ASSUME NEW row \in identity, Reindex(row) PROVE KeyInv'
  <2> DEFINE new == [row EXCEPT !.key = NewKey]
  <2>1. /\ UNCHANGED <<ring, adding>> /\ \A n \in Server : ring[n].active = NewKey
        /\ identity' = (identity \ {row}) \cup {new}
    BY <1>7, Zenon DEF Reindex
  <2>2. row \in [value : Value, key : Both, user : User]
    BY Zenon DEF KeyInv, IdRows
  <2>3. new \in [value : Value, key : Both, user : User] /\ new.value = row.value /\ new.key = NewKey
    BY <2>2, Zenon DEF Both
  <2> HIDE DEF new
  <2>4. IdRows' /\ ValuesFit'
    <3>1. IsFiniteSet(identity')
      BY <2>1, AddedFinite, PartsFinite, Zenon DEF KeyInv, IdRows
    <3> QED BY <2>1, <2>3, <3>1 DEF KeyInv, IdRows, ValuesFit
  <2>5. RingsFit'
    BY <2>1, <2>3, Zenon DEF KeyInv, RingsFit, RingFits
  <2>6. ASSUME NEW n \in Server PROVE AddingFits(n)'
    BY <2>1, <2>3, Zenon DEF KeyInv, AddingFits, lockIdentityScope
  <2> QED BY <2>4, <2>5, <2>6, Zenon DEF KeyInv
<1> QED BY <1>4, <1>5, <1>6, <1>7, Zenon DEF Rotation

-----------------------------------------------------------------------------
(* Accounts and their identities *)

\* An account that can still be used, and one that has no row or no data left
Used(u) == user[u].status \in {"active", "pending_deletion", "disabled"}
Bare(u) == user[u].status \in {"none", "finalized"}

StatusFits ==
    \A u \in User : (Used(u) /\ IdentitiesOf(u) # {}) \/ (Bare(u) /\ IdentitiesOf(u) = {})

KindsFit ==
    \A row, other \in identity :
        row.user = other.user /\ Kind[row.value] = Kind[other.value] => row.value = other.value

IdInv == KeyInv /\ KindsFit /\ StatusFits

\* Accounts move between statuses of one sort.
SameSort == \A u \in User : (Used(u)' <=> Used(u)) /\ (Bare(u)' <=> Bare(u))

LEMMA SortKept == SameStatus => SameSort
BY Zenon DEF SameStatus, SameSort, Used, Bare

LEMMA SortMoves ==
    ASSUME NEW u \in User, Used(u), NEW s \in {"active", "pending_deletion", "disabled"}, Status1(u, s)
    PROVE  SameSort
BY Zenon DEF Status1, SameSort, Used, Bare

\* A step that leaves the identities alone
LEMMA IdentitiesUntouched ==
    ASSUME Counting, IdInv, UNCHANGED <<identity, ring, adding>>, SameSort
    PROVE  IdInv'
<1>1. KeyInv' /\ KindsFit'
  BY Untouched, Zenon DEF IdInv, KindsFit
<1>2. StatusFits'
  BY Zenon DEF IdInv, StatusFits, SameSort, IdentitiesOf
<1> QED BY <1>1, <1>2, Zenon DEF IdInv

\* An identity that is inserted for a user without one of its kind
LEMMA IdentityAdded ==
    ASSUME Counting, IdInv, NEW n \in Server, adding[n] # Idle,
           InsertIdentity(n, adding[n].value, adding[n].user), ring' = ring,
           adding' = [adding EXCEPT ![n] = Idle],
           \A row \in IdentitiesOf(adding[n].user) : Kind[row.value] # Kind[adding[n].value],
           \A u \in User : (Used(u)' <=> Used(u) \/ u = adding[n].user) /\ (Bare(u)' <=> Bare(u) /\ u # adding[n].user)
    PROVE  IdInv'
<1> DEFINE u == adding[n].user
           v == adding[n].value
           new == Seal(n, v, u)
<1>1. new.user = u /\ new.value = v
  BY Zenon DEF Seal
<1>2. KeyInv' /\ identity' = identity \cup {new}
  BY Inserted, ZenonT(40) DEF IdInv
<1> HIDE DEF new
<1>3. KindsFit'
  BY <1>1, <1>2 DEF IdInv, KindsFit, IdentitiesOf
<1>4. new \in identity' /\ \A row \in identity' : row \in identity \/ row = new
  BY <1>2, Zenon
<1>5. StatusFits'
  <2> SUFFICES ASSUME NEW w \in User
               PROVE  \/ Used(w)' /\ \E row \in identity' : row.user = w
                      \/ Bare(w)' /\ \A row \in identity' : row.user # w
    BY Zenon DEF StatusFits, IdentitiesOf
  <2>1. \/ Used(w) /\ \E row \in identity : row.user = w
        \/ Bare(w) /\ \A row \in identity : row.user # w
    BY Zenon DEF IdInv, StatusFits, IdentitiesOf
  <2> QED BY <1>1, <1>2, <1>4, <2>1, Zenon
<1> QED BY <1>2, <1>3, <1>5, ZenonT(40) DEF IdInv

\* Identities that are deleted: not the last one of an account that stays, and
\* all of one that is erased
LEMMA IdentitiesDeleted ==
    ASSUME Counting, IdInv, NEW gone, identity' = identity \ gone, UNCHANGED <<ring, adding>>,
           \A u \in User : \/ Used(u)' /\ ~(IdentitiesOf(u) \subseteq gone)
                           \/ Bare(u)' /\ IdentitiesOf(u) \subseteq gone
    PROVE  IdInv'
<1>1. KeyInv'
  <2>1. adding' = [n \in Server |-> adding'[n]]
    BY Zenon DEF IdInv, KeyInv, IdRows
  <2> QED BY <2>1, Shrunk, Zenon DEF IdInv
<1>2. KindsFit'
  BY Zenon DEF IdInv, KindsFit
<1>3. StatusFits'
  BY Zenon DEF IdInv, StatusFits, IdentitiesOf
<1> QED BY <1>1, <1>2, <1>3, Zenon DEF IdInv

\* A row that is re-indexed keeps its value and its user.
LEMMA ReindexKeeps ==
    ASSUME IdInv, NEW row \in identity, Reindex(row)
    PROVE  KindsFit' /\ StatusFits'
<1> DEFINE new == [row EXCEPT !.key = NewKey]
<1>1. row \in [value : Value, key : Both, user : User]
  BY Zenon DEF IdInv, KeyInv, IdRows
<1>2. new.value = row.value /\ new.user = row.user
  BY <1>1, Zenon
<1>3. identity' = (identity \ {row}) \cup {new} /\ user' = user
  BY Zenon DEF Reindex, principals
<1> HIDE DEF new
<1>4. KindsFit'
  BY <1>2, <1>3 DEF IdInv, KindsFit
<1>5. ASSUME NEW u \in User
      PROVE  (\E x \in identity' : x.user = u) <=> \E x \in identity : x.user = u
  BY <1>2, <1>3, Zenon
<1>6. StatusFits'
  BY <1>3, <1>5 DEF IdInv, StatusFits, IdentitiesOf, Used, Bare
<1> QED BY <1>4, <1>6, Zenon

LEMMA RemoveStep ==
    ASSUME Counting, IdInv, NEW u \in User, NEW row \in identity, RemoveIdentity(u, row)
    PROVE  IdInv'
<1>1. /\ user' = user /\ UNCHANGED <<ring, adding>> /\ identity' = identity \ {row}
      /\ row \in IdentitiesOf(u) /\ Cardinality(IdentitiesOf(u)) > 1
  BY Zenon DEF RemoveIdentity, removeIdentity, principals
<1>2. ASSUME NEW w \in User, IdentitiesOf(w) \subseteq {row}, IdentitiesOf(w) # {} PROVE FALSE
  <2>2. w = u /\ IdentitiesOf(u) = {row}
    BY <1>1, <1>2, Zenon DEF IdentitiesOf
  <2>3. Cardinality(IdentitiesOf(u)) = 1
    BY <2>2, OneCounted, Zenon
  <2> QED BY <1>1, <2>3
<1>3. \A w \in User : (Used(w)' <=> Used(w)) /\ (Bare(w)' <=> Bare(w))
  BY <1>1, Zenon DEF Used, Bare
<1>4. \A w \in User : \/ Used(w)' /\ ~(IdentitiesOf(w) \subseteq {row})
                      \/ Bare(w)' /\ IdentitiesOf(w) \subseteq {row}
  BY <1>2, <1>3, Zenon DEF IdInv, StatusFits
<1> QED BY <1>1, <1>4, IdentitiesDeleted, Zenon

LEMMA FinalizeStep ==
    ASSUME Counting, IdInv, UserRows, NEW u \in User, FinalizeDeletion(u)
    PROVE  IdInv'
<1>1. /\ user' = [user EXCEPT ![u].status = "finalized", ![u].credential = Fresh(Unknown)]
      /\ identity' = identity \ IdentitiesOf(u) /\ UNCHANGED <<ring, adding>>
  BY Zenon DEF FinalizeDeletion
<1>2. Status1(u, "finalized")
  BY <1>1, StatusWritten, Zenon
<1>3. ASSUME NEW w \in User
      PROVE  \/ Used(w)' /\ ~(IdentitiesOf(w) \subseteq IdentitiesOf(u))
             \/ Bare(w)' /\ IdentitiesOf(w) \subseteq IdentitiesOf(u)
  <2>1. CASE w = u
    BY <1>2, <2>1, ZenonT(40) DEF Status1, Bare
  <2>2. CASE w # u
    <3>1. (Used(w)' <=> Used(w)) /\ (Bare(w)' <=> Bare(w))
      BY <1>2, <2>2, ZenonT(40) DEF Status1, Used, Bare
    <3>2. \/ Used(w) /\ ~(IdentitiesOf(w) \subseteq IdentitiesOf(u))
          \/ Bare(w) /\ IdentitiesOf(w) \subseteq IdentitiesOf(u)
      BY <2>2, Zenon DEF IdInv, StatusFits, IdentitiesOf
    <3> QED BY <3>1, <3>2, Zenon
  <2> QED BY <2>1, <2>2, Zenon
<1> QED BY <1>1, <1>3, IdentitiesDeleted, Zenon

LEMMA RegisterStep ==
    ASSUME Counting, IdInv, UserRows, NEW n \in Server, NEW x, NEW p, Register(n, x, p)
    PROVE  IdInv'
<1> DEFINE u == adding[n].user
<1>1. PICK y : register(n, y, p)
  BY Zenon DEF Register
<1>2. /\ user[u].status = "none" /\ InsertIdentity(n, adding[n].value, u) /\ ring' = ring
      /\ user' = [user EXCEPT ![u] = [user[u] EXCEPT !.status = "active", !.credential = Fresh(p)]]
      /\ adding' = [adding EXCEPT ![n] = Idle]
  BY <1>1, Zenon DEF register
<1>3. adding[n] # Idle
  BY DEF Register, Idle
<1>4. u \in User
  BY <1>3, Zenon DEF IdInv, KeyInv, AddingFits, AddRow
<1>5. Status1(u, "active")
  BY <1>2, StatusWritten, Zenon
<1>6. IdentitiesOf(u) = {}
  BY <1>2, <1>4, Zenon DEF IdInv, StatusFits, Used
<1>7. \A w \in User : (Used(w)' <=> Used(w) \/ w = u) /\ (Bare(w)' <=> Bare(w) /\ w # u)
  BY <1>2, <1>5 DEF Status1, Used, Bare
<1> QED BY <1>2, <1>3, <1>6, <1>7, IdentityAdded, ZenonT(40)

LEMMA BindStep ==
    ASSUME Counting, IdInv, NEW n \in Server, NEW x, BindIdentity(n, x)
    PROVE  IdInv'
<1> DEFINE u == adding[n].user
<1>1. /\ user' = user /\ Active(u) /\ InsertIdentity(n, adding[n].value, u) /\ ring' = ring
      /\ adding' = [adding EXCEPT ![n] = Idle]
      /\ \A row \in IdentitiesOf(u) : Kind[row.value] # Kind[adding[n].value]
  BY Zenon DEF BindIdentity, bindIdentity, principals
<1>2. adding[n] # Idle
  BY DEF BindIdentity, Idle
<1>3. \A w \in User : (Used(w)' <=> Used(w) \/ w = u) /\ (Bare(w)' <=> Bare(w) /\ w # u)
  BY <1>1, Zenon DEF Active, Used, Bare
<1> QED BY <1>1, <1>2, <1>3, IdentityAdded, Zenon

LEMMA IdentityStep ==
    ASSUME Counting, IdInv, UserRows, IdNext
    PROVE  IdInv'
<1>1. ASSUME NEW n \in Server, NEW u \in User, NEW v \in Value,
             beginAdding(n, "register", u, v) \/ beginAdding(n, "bind", u, v)
      PROVE  IdInv'
  <2>1. KeyInv'
    BY <1>1, BeginStep, Zenon DEF IdInv
  <2>2. UNCHANGED <<user, identity>>
    BY <1>1, Zenon DEF beginAdding, principals
  <2> QED BY <2>1, <2>2, Zenon DEF IdInv, KindsFit, StatusFits, Used, Bare, IdentitiesOf
<1>2. ASSUME NEW n \in Server, addingFails(n) PROVE IdInv'
  <2>1. UNCHANGED <<user, identity, ring>> /\ adding' = [adding EXCEPT ![n] = Idle]
    BY <1>2, Zenon DEF addingFails, principals
  <2>2. adding' = [m \in Server |-> adding'[m]] /\ \A m \in Server : adding'[m] \in {adding[m], Idle}
    BY <2>1, ZenonT(40) DEF IdInv, KeyInv, IdRows
  <2>3. KeyInv'
    BY <2>1, <2>2, Shrunk, Zenon DEF IdInv
  <2> QED BY <2>1, <2>3, ZenonT(40) DEF IdInv, KindsFit, StatusFits, Used, Bare, IdentitiesOf
<1>3. ASSUME UNCHANGED <<identity, ring, adding>>, SameStatus PROVE IdInv'
  BY <1>3, SortKept, IdentitiesUntouched, ZenonT(40)
<1>4. ASSUME NEW n, NEW x, NEW u, NEW p, ResetPassword(n, x, u, p) PROVE IdInv'
  <2>1. UNCHANGED <<identity, ring, adding>> /\ user' = [user EXCEPT ![u].credential = Fresh(p)]
    BY <1>4, ZenonT(40) DEF ResetPassword, resetPassword
  <2> QED BY <1>3, <2>1, StatusWritten, Zenon
<1>5. ASSUME NEW n, NEW x, NEW u \in User, RequestDeletion(n, x, u) PROVE IdInv'
  <2>1. UNCHANGED <<identity, ring, adding>> /\ user' = [user EXCEPT ![u].status = "pending_deletion"] /\ Active(u)
    BY <1>5, Zenon DEF RequestDeletion, requestDeletion
  <2>2. Status1(u, "pending_deletion") /\ Used(u)
    BY <2>1, StatusWritten, Zenon DEF Active, Used
  <2> QED BY <2>1, <2>2, SortMoves, IdentitiesUntouched, Zenon
<1>6. ASSUME NEW n, NEW x, NEW u \in User, RecoverDeletion(n, x, u) PROVE IdInv'
  <2>1. /\ UNCHANGED <<identity, ring, adding>> /\ user' = [user EXCEPT ![u].status = "active"]
        /\ user[u].status = "pending_deletion"
    BY <1>6, Zenon DEF RecoverDeletion, recoverDeletion
  <2>2. Status1(u, "active") /\ Used(u)
    BY <2>1, StatusWritten, ZenonT(40) DEF Used
  <2> QED BY <2>1, <2>2, SortMoves, IdentitiesUntouched, ZenonT(40)
<1>7. ASSUME NEW u, NEW s, NEW p, ChangePassword(u, s, p) PROVE IdInv'
  <2>1. UNCHANGED <<identity, ring, adding>> /\ user' = [user EXCEPT ![u].credential = Fresh(p)]
    BY <1>7, Zenon DEF ChangePassword, changePassword
  <2> QED BY <1>3, <2>1, StatusWritten, Zenon
<1>8. ASSUME NEW u, NEW p, NEW status, reauthenticateUser(u, p, status) PROVE IdInv'
  BY <1>3, <1>8, ZenonT(40) DEF reauthenticateUser, principals, SameStatus
<1>9. ASSUME NEW b, UpdatePasswordHash(b) PROVE IdInv'
  <2>1. UNCHANGED <<identity, ring, adding>> /\ user' = [user EXCEPT ![web[b].user].credential = Fresh(web[b].of)]
    BY <1>9, ZenonT(40) DEF UpdatePasswordHash, idVars
  <2> QED BY <1>3, <2>1, StatusWritten, Zenon
<1>10. ASSUME NEW b, \/ login(b) \/ stage(b) \/ discardStagedBrowserSession(b)
                     \/ \E n, v, u, p : AuthenticatePassword(n, b, v, u, p)
                     \/ \E n, x, u : AuthenticateVerification(n, b, x, u)
                     \/ \E n : CompleteVerificationLogin(n, b)
       PROVE  IdInv'
  <2>1. UNCHANGED <<identity, ring, adding, user>>
    BY <1>10, Zenon DEF login, stage, discardStagedBrowserSession, AuthenticatePassword,
                        AuthenticateVerification, CompleteVerificationLogin, idVars, principals
  <2> QED BY <1>3, <2>1, Zenon DEF SameStatus
<1>11. ASSUME Rotation PROVE IdInv'
  <2>1. KeyInv'
    BY <1>11, RotationStep, ZenonT(40) DEF IdInv
  <2>2. CASE UNCHANGED <<user, identity>>
    BY <2>1, <2>2, Zenon DEF IdInv, KindsFit, StatusFits, Used, Bare, IdentitiesOf
  <2>3. ASSUME NEW row \in identity, Reindex(row) PROVE IdInv'
    BY <2>1, <2>3, ReindexKeeps, ZenonT(40) DEF IdInv
  <2> QED BY <1>11, <2>2, <2>3, Zenon DEF Rotation, ExpandRing, SwitchActive, RetireOldKey, SetRing, principals
<1>12. Accounts => IdInv'
  BY <1>1, <1>2, <1>4, <1>5, <1>6, <1>7, <1>8, RegisterStep, BindStep, RemoveStep, FinalizeStep, Zenon DEF Accounts
<1>13. Logins => IdInv'
  BY <1>9, <1>10, Zenon DEF Logins
<1> QED BY <1>11, <1>12, <1>13, Zenon DEF IdNext

LEMMA InitIdInv ==
    ASSUME Counting
    PROVE  PrInit /\ IdInit => IdInv
<1> SUFFICES ASSUME PrInit, IdInit PROVE IdInv
  BY Zenon
<1> DEFINE have == {u \in User : user[u].status # "none"}
           first(f, u) == [value |-> f[u], key |-> OldKey, user |-> u]
<1>1. PICK name \in [have -> Value] :
          /\ \A u, other \in have : name[u] = name[other] => u = other
          /\ identity = {first(name, u) : u \in have}
  BY Zenon DEF IdInit
<1>2. \A u \in have : /\ first(name, u) \in [value : Value, key : Both, user : User]
                      /\ first(name, u).value = name[u] /\ first(name, u).key = OldKey /\ first(name, u).user = u
  BY <1>1, Zenon DEF Both
<1> HIDE DEF first
<1>3. \A row \in identity : \E u \in have : row = first(name, u)
  BY <1>1, Zenon
<1>4. /\ ring = [n \in Server |-> [keys |-> {OldKey}, active |-> OldKey]]
      /\ adding = [n \in Server |-> Idle]
  BY Zenon DEF IdInit
<1>5. IdRows
  <2>1. IsFiniteSet(have)
    BY PrincipalsAssumption, PartsFinite, Zenon
  <2> DEFINE f == [u \in have |-> first(name, u)]
  <2>2. identity = {f[u] : u \in have}
    BY <1>1, Zenon
  <2>3. IsFiniteSet(identity)
    <3> HIDE DEF f, have
    <3> QED BY <2>1, <2>2, ImageFinite, Zenon
  <2> QED BY <1>2, <1>3, <1>4, <2>3 DEF IdRows
<1>6. RingsFit
  <2>1. \A n \in Server : ring[n].keys = {OldKey} /\ ring[n].active = OldKey
    BY <1>4, Zenon
  <2>2. ASSUME NEW row \in identity PROVE row.key = OldKey
    <3> HIDE DEF have
    <3>1. PICK u \in have : row = first(name, u)
      BY <1>3, Zenon
    <3> QED BY <1>2, <3>1, Zenon
  <2>3. OldKey # NewKey /\ {OldKey} # {NewKey}
    BY IdentityAssumption, Zenon
  <2> QED BY <2>1, <2>2, <2>3, ZenonT(40) DEF RingsFit, RingFits
<1>7. ValuesFit /\ KindsFit
  BY <1>1, <1>2, <1>3 DEF ValuesFit, KindsFit
<1>8. StatusFits
  <2> SUFFICES ASSUME NEW u \in User
               PROVE  \/ Used(u) /\ \E row \in identity : row.user = u
                      \/ Bare(u) /\ \A row \in identity : row.user # u
    BY Zenon DEF StatusFits, IdentitiesOf
  <2>1. user[u].status \in {"none", "active"}
    BY DEF PrInit
  <2>2. CASE u \in have
    BY <1>1, <1>2, <2>1, <2>2, ZenonT(40) DEF Used
  <2>3. CASE u \notin have
    BY <1>2, <1>3, <2>1, <2>3 DEF Bare
  <2> QED BY <2>2, <2>3, Zenon
<1> QED BY <1>4, <1>5, <1>6, <1>7, <1>8, Zenon DEF IdInv, KeyInv, AddingFits

LEMMA IdInvHolds == IdInv => IdentityIsUnique /\ AccountsKeepIdentity
<1> SUFFICES ASSUME IdInv PROVE IdentityIsUnique /\ AccountsKeepIdentity
  BY Zenon
<1>1. IdentityIsUnique
  <2>1. \A row, other \in identity : row.value = other.value => row.user = other.user
    BY Zenon DEF IdInv, KeyInv, ValuesFit
  <2>2. \A row \in identity, n \in Server : row.key \in ring[n].keys
    BY Recognised, Zenon DEF IdInv, KeyInv
  <2> QED BY <2>1, <2>2, Zenon DEF IdentityIsUnique
<1>2. ASSUME NEW u \in User, Active(u) PROVE Profile(u).found /\ Profile(u).kinds # {}
  <2>1. IdentitiesOf(u) # {}
    BY <1>2, ZenonT(40) DEF IdInv, StatusFits, Bare, Active
  <2>2. Profile(u).found
    BY <1>2, <2>1, Zenon DEF Profile
  <2>3. Profile(u).kinds = {Kind[row.value] : row \in IdentitiesOf(u)}
    BY Zenon DEF Profile
  <2> QED BY <2>1, <2>2, <2>3, ZenonT(40)
<1>3. \A u \in User : /\ user[u].status \in {"pending_deletion", "disabled"} => IdentitiesOf(u) # {}
                      /\ user[u].status \in {"none", "finalized"} => IdentitiesOf(u) = {}
  BY Zenon DEF IdInv, StatusFits, Used, Bare
<1>4. \A u \in User : \A row, other \in IdentitiesOf(u) :
          Kind[row.value] = Kind[other.value] => row.value = other.value
  BY Zenon DEF IdInv, KindsFit, IdentitiesOf
<1> QED BY <1>1, <1>2, <1>3, <1>4, Zenon DEF AccountsKeepIdentity
=============================================================================
