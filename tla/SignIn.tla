------------------------------- MODULE SignIn -------------------------------
(***************************************************************************)
(* How a Desktop installation gets its session: a browser session in Redis *)
(* (internal/browser/session.go), an authorization request that a signed-in *)
(* browser approves and a device exchanges (internal/oauth), and the       *)
(* device's signed request to revoke itself (internal/device).             *)
(***************************************************************************)
EXTENDS Principals

CONSTANTS Browser, Grant, StateKey, Message

VARIABLES web,          \* browser sessions, and how far their sign-in is
          grant,        \* oauth_requests with their authorization code
          stateRing,    \* keys that open the encrypted state
          message       \* signed self-revocation requests and their nonces

signVars == <<web, grant, stateRing, message>>

NoWeb == [phase |-> "none", user |-> "nobody", short |-> FALSE, persistent |-> FALSE, of |-> "none"]
NoGrant == [status |-> "none"]

-----------------------------------------------------------------------------
(* Browser sessions.  of is what the sign-in was made with, for AccountIdentity. *)

\* Start: two SETs; when the second fails the first is deleted, and that can
\* fail too.  The secrets reach the browser only when Start succeeds.
Start(b, phase) ==
    \/ web' = [web EXCEPT ![b].phase = phase, ![b].short = TRUE, ![b].persistent = TRUE]
    \/ \E kept \in BOOLEAN : web' = [web EXCEPT ![b].phase = "failed", ![b].short = kept]

\* readStoredSession of the short key, then of the persistent one
Read(b) == web[b].phase = "open" /\ (web[b].short \/ web[b].persistent)

\* End deletes both keys in one call; the cookies are cleared even when it fails.
End(b) ==
    \/ web' = [web EXCEPT ![b].phase = "ended", ![b].short = FALSE, ![b].persistent = FALSE]
    \/ web' = [web EXCEPT ![b].phase = "ended"]

\* logout
logout(b) == Read(b) /\ End(b) /\ UNCHANGED <<principals, grant, stateRing, message>>

\* Redis drops a key whose time has come; the short one lives less long.
Expire(b) ==
    /\ \/ web[b].short /\ web' = [web EXCEPT ![b].short = FALSE]
       \/ ~web[b].short /\ web[b].persistent /\ web' = [web EXCEPT ![b].persistent = FALSE]
    /\ UNCHANGED <<principals, grant, stateRing, message>>

-----------------------------------------------------------------------------
(* Authorization requests *)

\* Save
Save(r, row) == grant[r] = NoGrant /\ grant' = [grant EXCEPT ![r] = row]

\* encryptState and decryptState, of a request's state
encryptState(k) == k \in stateRing
decryptState(r) == grant[r].key \in stateRing

\* Begin
Begin(r, d, k) ==
    /\ encryptState(k)
    /\ Save(r, [status |-> "saved", device |-> d, key |-> k, approver |-> "none", user |-> "none",
                lapsed |-> FALSE, code |-> FALSE, held |-> FALSE, started |-> {}])
    /\ UNCHANGED <<principals, web, stateRing, message>>

\* The approve handler reads the browser session and then calls Approve.
readApprover(r, b) ==
    /\ grant[r].status = "saved" /\ grant[r].approver = "none"
    /\ Read(b)
    /\ grant' = [grant EXCEPT ![r].approver = web[b].user]
    /\ UNCHANGED <<principals, web, stateRing, message>>

\* Approve of the repository, under the request's row (readAuthorizationForUpdate)
approvable(r, u) == grant[r].status = "saved" /\ ~grant[r].lapsed /\ Active(u)
approved(r, u) == [grant[r] EXCEPT !.status = "approved", !.user = u]

\* Approve: the code reaches the browser only if the state can be decrypted
\* after the approval was committed.
Approve(r) ==
    LET u == grant[r].approver
    IN /\ grant[r] # NoGrant /\ u # "none" /\ approvable(r, u)
       /\ grant' = [grant EXCEPT ![r] = [approved(r, u) EXCEPT !.code = decryptState(r)]]
       /\ UNCHANGED <<principals, web, stateRing, message>>

\* A mutant: the request is not locked and a consumed one is not refused.
holdUnlocked(r) ==
    /\ grant[r].status \in {"approved", "consumed"} /\ grant[r].code /\ ~grant[r].lapsed
    /\ grant' = [grant EXCEPT ![r].held = TRUE]
    /\ UNCHANGED <<principals, web, stateRing, message>>

\* Exchange up to finalize: the code and the request are locked.
hold(r) ==
    /\ grant[r].status = "approved" /\ grant[r].code /\ ~grant[r].lapsed /\ ~grant[r].held
    /\ Active(grant[r].user)
    /\ grant' = [grant EXCEPT ![r].held = TRUE]
    /\ UNCHANGED <<principals, web, stateRing, message>>

\* The function that the service's Exchange passes on: the request's installation
\* becomes the approver's, and gets its session.
finalize(u, d, s) == AuthorizeInTx(u, d) /\ StartInTx(u, d, s)

\* finalize, then the marks and the commit
Exchange(r, s) ==
    /\ grant[r].status \in {"approved", "consumed"} /\ grant[r].held
    /\ finalize(grant[r].user, grant[r].device, s)
    /\ grant' = [grant EXCEPT ![r].status = "consumed", ![r].held = FALSE, ![r].started = @ \cup {s}]
    /\ UNCHANGED <<user, web, stateRing, message>>

\* An error of finalize, or a lost connection: everything is rolled back.
exchangeFails(r) ==
    /\ grant[r].status # "none" /\ grant[r].held
    /\ grant' = [grant EXCEPT ![r].held = FALSE]
    /\ UNCHANGED <<principals, web, stateRing, message>>

Lapse(r) ==
    /\ grant[r].status \notin {"none", "purged"} /\ ~grant[r].lapsed
    /\ grant' = [grant EXCEPT ![r].lapsed = TRUE]
    /\ UNCHANGED <<principals, web, stateRing, message>>

\* The maintenance pass deletes expired codes and requests; it waits for locks.
purgeGrant(r) ==
    /\ grant[r].status \notin {"none", "purged"} /\ grant[r].lapsed /\ ~grant[r].held
    /\ grant' = [grant EXCEPT ![r].status = "purged"]
    /\ UNCHANGED <<principals, web, stateRing, message>>

RetireStateKey(k) ==
    /\ k \in stateRing /\ stateRing # {k}
    /\ stateRing' = stateRing \ {k}
    /\ UNCHANGED <<principals, web, grant, message>>

-----------------------------------------------------------------------------
(* Self-revocation: a message is signed once and may be delivered often. *)

FindForSelfRevoke(d) == device[d] # NoDevice

\* SelfRevoke of the service up to the transaction: the timestamp is checked,
\* then the device is read for its key and its owner.
SelfRevoke(m) ==
    /\ message[m].fresh /\ message[m].found = "none"
    /\ FindForSelfRevoke(message[m].device)
    /\ message' = [message EXCEPT ![m].found = device[message[m].device].owner]
    /\ UNCHANGED <<principals, web, grant, stateRing>>

\* SelfRevoke of the repository, under the device's row
selfRevoke(m) ==
    LET d == message[m].device
    IN /\ message[m].found # "none" /\ ~message[m].nonce
       /\ device[d].owner = message[m].found /\ device[d].status = "active"
       /\ message' = [message EXCEPT ![m].found = "none", ![m].nonce = TRUE, ![m].done = @ + 1]
       /\ RevokeDevices({d})
       /\ Revoke(SessionsOn(d))
       /\ UNCHANGED <<user, web, grant, stateRing>>

\* SelfRevoke refuses: the nonce was used, or the device moved or is not active.
selfRevokeRefused(m) ==
    /\ message[m].found # "none"
    /\ message[m].nonce \/ device[message[m].device] # [owner |-> message[m].found, status |-> "active"]
    /\ message' = [message EXCEPT ![m].found = "none"]
    /\ UNCHANGED <<principals, web, grant, stateRing>>

\* The maintenance pass deletes nonces after selfRevocationNonceRetention, which
\* is longer than a message is accepted or a request for it lasts.
purgeNonce(m) ==
    /\ message[m].nonce /\ ~message[m].fresh /\ message[m].found = "none"
    /\ message' = [message EXCEPT ![m].nonce = FALSE]
    /\ UNCHANGED <<principals, web, grant, stateRing>>

Age(m) ==
    /\ message[m].fresh
    /\ message' = [message EXCEPT ![m].fresh = FALSE]
    /\ UNCHANGED <<principals, web, grant, stateRing>>

-----------------------------------------------------------------------------
SignInit ==
    /\ web \in [Browser -> {NoWeb} \cup
                    [phase : {"open"}, user : {u \in User : Active(u)}, short : {TRUE}, persistent : {TRUE}, of : {"none"}]]
    /\ grant = [r \in Grant |-> NoGrant]
    /\ stateRing = StateKey
    /\ message \in [Message -> [device : Device, fresh : {TRUE}, found : {"none"}, nonce : {FALSE}, done : {0}]]

SignNext ==
    \/ \E b \in Browser : logout(b) \/ Expire(b)
    \/ \E r \in Grant :
          \/ \E d \in Device, k \in StateKey : Begin(r, d, k)
          \/ \E b \in Browser : readApprover(r, b)
          \/ Approve(r) \/ hold(r) \/ exchangeFails(r) \/ Lapse(r) \/ purgeGrant(r)
          \/ \E s \in Session : Exchange(r, s)
    \/ \E m \in Message : \/ SelfRevoke(m) \/ selfRevoke(m) \/ selfRevokeRefused(m)
                          \/ purgeNonce(m) \/ Age(m)
    \/ \E k \in StateKey : RetireStateKey(k)
    \/ \E u \in User, d \in Device : RevokeOwn(u, d) /\ UNCHANGED signVars

-----------------------------------------------------------------------------
\* One approval gives one session at most, however often and however
\* concurrently its code is exchanged, and a request counts as consumed exactly
\* when it gave one (Exchange, oauth/repository.go:96).
OneSessionPerApproval ==
    \A r \in Grant :
        grant[r] # NoGrant =>
            /\ Cardinality(grant[r].started) <= 1
            /\ grant[r].status \in {"saved", "approved"} => grant[r].started = {}
            /\ grant[r].status = "consumed" => grant[r].started # {}

\* A live session runs on a device its user sees in their list and can revoke
\* there: device transfers, revocations, self-revocations and exchanges in any
\* order leave no session behind on an installation that is revoked or someone
\* else's (AuthorizeInTx, Revoke, SelfRevoke and List, device/repository.go).
LiveSessionsOwned ==
    \A s \in Session :
        sess[s].live => sess[s].device \in List(sess[s].user)

\* A signed self-revocation takes effect once: delivered again after the device
\* was authorized anew, or after its nonce was deleted, it revokes nothing
\* (SelfRevoke, device/repository.go:303; selfRevocationNonceRetention).
SelfRevocationOnce == \A m \in Message : message[m].done <= 1
=============================================================================
