------------------------------ MODULE Principals ------------------------------
(***************************************************************************)
(* The rows that administration, sign-in and Desktop control share: users, *)
(* devices and sessions.  Every operator is the effect of a piece of a     *)
(* transaction that holds the user's advisory lock or the device's row.    *)
(* How session transactions interleave statement by statement, refresh     *)
(* included, is SessionLifecycle.                                          *)
(***************************************************************************)
EXTENDS Integers, FiniteSets

CONSTANTS User, Device, Session,
          Password,
          ActiveLimit,          \* active devices a user may have
          MaxRevision           \* bound on administrative_revision

\* Tables are finite, rows are named by ids, which differ from the marks for no
\* row, and the first administrative_revision is 1.
ASSUME PrincipalsAssumption ==
    /\ IsFiniteSet(User) /\ IsFiniteSet(Device)
    /\ {"nobody", "none", "missing"} \cap User = {}
    /\ MaxRevision \in Nat \ {0}

VARIABLES user, device, sess

principals == <<user, device, sess>>

\* finalized: erased; users.status is disabled and deletion_finalized_at is set
UserStatus == {"none", "active", "pending_deletion", "disabled", "finalized"}

\* A password nobody knows, as forcePasswordResetLifecycle writes it
Unknown == "unknown"

\* stale: the stored hash was computed with earlier parameters.
Credential == [password : Password \cup {Unknown}, stale : BOOLEAN]
Fresh(p) == [password |-> p, stale |-> FALSE]

NoDevice == [owner |-> "nobody", status |-> "none"]
NoRow == [user |-> "nobody", device |-> "none", family |-> "none", live |-> FALSE]

Active(u) == user[u].status = "active"
DevicesOf(u) == {d \in Device : device[d].owner = u}
SessionsOf(u) == {s \in Session : sess[s].user = u}
SessionsOn(d) == {s \in Session : sess[s].device = d}
Family(f) == {s \in Session : sess[s].family = f}

Revoke(rows) ==
    sess' = [s \in Session |-> IF sess[s].live /\ s \in rows THEN [sess[s] EXCEPT !.live = FALSE] ELSE sess[s]]
RevokeDevices(rows) ==
    device' = [d \in Device |-> IF d \in rows THEN [device[d] EXCEPT !.status = "revoked"] ELSE device[d]]

\* Accounts with devices and sessions, several rows of one family among them
PrInit ==
    /\ user \in [User -> [status : {"none", "active"}, revision : {1},
                          credential : [password : Password, stale : BOOLEAN]]]
    /\ device \in [Device -> {NoDevice} \cup [owner : {u \in User : Active(u)}, status : {"active", "inactive"}]]
    /\ sess \in [Session -> {NoRow} \cup
                    {[user |-> device[d].owner, device |-> d, family |-> f, live |-> TRUE] :
                        d \in {x \in Device : device[x].status = "active"}, f \in Session}]
    /\ \A u \in User : Cardinality({d \in DevicesOf(u) : device[d].status = "active"}) <= ActiveLimit

\* incrementAdministrativeRevision, with the columns the caller's UPDATE sets
incrementAdministrativeRevision(u, row) ==
    /\ user[u].revision < MaxRevision
    /\ user' = [user EXCEPT ![u] = [row EXCEPT !.revision = row.revision + 1]]

disableUserLifecycle(u) ==
    /\ incrementAdministrativeRevision(u, [user[u] EXCEPT !.status = "disabled"])
    /\ RevokeDevices(DevicesOf(u))
    /\ Revoke(SessionsOf(u))

enableUserLifecycle(u) ==
    /\ incrementAdministrativeRevision(u, [user[u] EXCEPT !.status = "active"])
    /\ UNCHANGED <<device, sess>>

revokeDeviceLifecycle(u, d) ==
    /\ RevokeDevices({d})
    /\ Revoke(SessionsOn(d))
    /\ incrementAdministrativeRevision(u, user[u])

revokeSessionFamilyLifecycle(u, f) ==
    /\ Revoke(Family(f) \cap SessionsOf(u))
    /\ incrementAdministrativeRevision(u, user[u])
    /\ UNCHANGED device

revokeAllSessionsLifecycle(u) ==
    /\ Revoke(SessionsOf(u))
    /\ incrementAdministrativeRevision(u, user[u])
    /\ UNCHANGED device

forcePasswordResetLifecycle(u) ==
    /\ incrementAdministrativeRevision(u, [user[u] EXCEPT !.credential = Fresh(Unknown)])
    /\ Revoke(SessionsOf(u))
    /\ UNCHANGED device

-----------------------------------------------------------------------------
(* Devices and sessions as their owner changes them *)

hasCapacity(u) == Cardinality({d \in DevicesOf(u) : device[d].status = "active"}) < ActiveLimit

\* Whether the authorization moves the installation to another user
Transfers(u, d) == device[d] # NoDevice /\ device[d].owner # u

\* AuthorizeInTx: an installation stays with its owner until it is revoked.
\* Installations with backup state cannot move either (EncryptedBackup).
AuthorizeInTx(u, d) ==
    /\ Active(u)
    /\ Transfers(u, d) => device[d].status = "revoked"
    /\ device[d].status # "active" => hasCapacity(u)
    /\ device' = [device EXCEPT ![d] = [owner |-> u, status |-> "active"]]

\* StartInTx: the first row of a new family
StartInTx(u, d, s) ==
    /\ sess[s] = NoRow
    /\ sess' = [sess EXCEPT ![s] = [user |-> u, device |-> d, family |-> s, live |-> TRUE]]

\* Revoke, called by a device's owner
RevokeOwn(u, d) ==
    /\ Active(u) /\ device[d].owner = u /\ device[d].status # "revoked"
    /\ RevokeDevices({d})
    /\ Revoke(SessionsOn(d))
    /\ UNCHANGED user

\* The maintenance pass deletes an expired session, live or not.
PurgeSession(s) ==
    /\ sess[s] # NoRow
    /\ sess' = [sess EXCEPT ![s] = NoRow]
    /\ UNCHANGED <<user, device>>

\* List: the devices an active owner sees
List(u) == {d \in DevicesOf(u) : Active(u) /\ device[d].status = "active"}
=============================================================================
