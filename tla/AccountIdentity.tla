--------------------------- MODULE AccountIdentity ---------------------------
(***************************************************************************)
(* Accounts, the identities that name them, their passwords and the        *)
(* receipts that prove an identity (internal/account).  An identity row    *)
(* carries the HMAC of its value under one key of a server's ring, so a    *)
(* value is recognised only by servers that hold the key.  Key rotation    *)
(* follows docs/runbooks/key-rotation.md: rings are expanded first, the    *)
(* active key is switched when every server has both, and the old key is   *)
(* retired when no row needs it.                                           *)
(***************************************************************************)
EXTENDS SignIn

CONSTANTS Value,            \* normalised identities
          Kind,             \* [Value -> kind]
          Server, Receipt,
          OldKey, NewKey,   \* lookup key ids
          SmallestKey       \* the one of them that sorts first

\* A receipt is neither a password nor the mark for none; the rotation is
\* between two keys.
ASSUME IdentityAssumption ==
    /\ Receipt \cap (Password \cup {"none"}) = {}
    /\ OldKey # NewKey /\ SmallestKey \in {OldKey, NewKey}

VARIABLES identity,     \* identities: [value, key, user]
          ring,         \* each server's lookup keys and its active one
          adding,       \* a server's transaction that adds an identity
          receipt,      \* verification_challenges that were answered
          confirmed     \* users with a request in flight whose password was
                        \* checked, and the status they had then

idVars == <<identity, ring, adding, receipt, confirmed>>

Idle == [at |-> "idle"]

\* LookupCandidates and Seal's lookup index
LookupCandidates(n, v) == {<<v, k>> : k \in ring[n].keys}
Seal(n, v, u) == [value |-> v, key |-> ring[n].active, user |-> u]
Index(row) == <<row.value, row.key>>
IdentitiesOf(u) == {row \in identity : row.user = u}

\* FindCredential and FindCredentialByUserID: whose credential a login reads
FindCredential(n, v) == {row.user : row \in {x \in identity : Index(x) \in LookupCandidates(n, v)}}
FindCredentialByUserID(u) == user[u].credential

\* Verify; the flag is whether the hash is stale.
Verify(u, p) == FindCredentialByUserID(u).password = p
needsRehash(u) == FindCredentialByUserID(u).stale

\* Profile: an account without an identity row has none.
Profile(u) == [found |-> IdentitiesOf(u) # {} /\ Active(u), kinds |-> {Kind[row.value] : row \in IdentitiesOf(u)}]

\* A mutant: the lock is taken under the active key.
lockActiveKey(n, v) == <<v, ring[n].active>>

\* lockIdentityScope: the candidate with the smallest key id
lockIdentityScope(n, v) ==
    <<v, IF SmallestKey \in ring[n].keys THEN SmallestKey ELSE ring[n].active>>

\* identityExists and findUserByClaims
identityExists(n, v) == FindCredential(n, v) # {}
findUserByClaims(n, v, u) == u \in FindCredential(n, v)

\* lockAvailableReceipt and markReceiptConsumed
lockAvailableReceipt(x, purpose, v) ==
    receipt[x] = [purpose |-> purpose, value |-> v, spent |-> FALSE]
markReceiptConsumed(x) == receipt' = [receipt EXCEPT ![x].spent = TRUE]

-----------------------------------------------------------------------------
(* Adding an identity: Register and BindIdentity.  The scope lock is held   *)
(* from the existence check to the commit; the user's lock and the receipt  *)
(* are too, so what they guard is read at the commit here.                  *)

Held == {adding[n].lock : n \in {x \in Server : adding[x] # Idle}}

beginAdding(n, what, u, v) ==
    /\ adding[n] = Idle
    /\ lockIdentityScope(n, v) \notin Held
    /\ ~identityExists(n, v)
    /\ adding' = [adding EXCEPT ![n] = [at |-> what, user |-> u, value |-> v, lock |-> lockIdentityScope(n, v)]]
    /\ UNCHANGED <<principals, signVars, identity, ring, receipt, confirmed>>

\* The unique index on kind and lookup HMAC
InsertIdentity(n, v, u) ==
    /\ \A row \in identity : Index(row) # Index(Seal(n, v, u))
    /\ identity' = identity \cup {Seal(n, v, u)}

\* Register of the repository, after the scope lock; Direct stands for no receipt.
Direct == "direct"
register(n, x, p) ==
    LET t == adding[n]
    IN /\ user[t.user].status = "none"
       /\ IF x = Direct THEN UNCHANGED receipt
          ELSE lockAvailableReceipt(x, "registration", t.value) /\ markReceiptConsumed(x)
       /\ InsertIdentity(n, t.value, t.user)
       /\ user' = [user EXCEPT ![t.user] = [@ EXCEPT !.status = "active", !.credential = Fresh(p)]]
       /\ adding' = [adding EXCEPT ![n] = Idle]
       /\ UNCHANGED <<device, sess, signVars, ring, confirmed>>

\* Register: with direct registration an e-mail address, otherwise a receipt
Register(n, x, p) ==
    /\ adding[n].at = "register"
    /\ \/ Kind[adding[n].value] = "email" /\ register(n, Direct, p)
       \/ receipt[x].purpose = "registration" /\ register(n, x, p)

\* BindIdentity of the repository; one identity of a kind per user
bindIdentity(n, x, u, v) ==
    /\ Active(u)
    /\ lockAvailableReceipt(x, "bind_identity", v)
    /\ \A row \in IdentitiesOf(u) : Kind[row.value] # Kind[v]
    /\ InsertIdentity(n, v, u)
    /\ markReceiptConsumed(x)

\* A request whose password was checked goes on to its transaction.
Confirmed(u, status) ==
    /\ <<u, status>> \in confirmed
    /\ confirmed' = confirmed \ {<<u, status>>}

\* BindIdentity, after reauthenticateUser
BindIdentity(n, x) ==
    LET t == adding[n]
    IN /\ t.at = "bind"
       /\ Confirmed(t.user, "active")
       /\ bindIdentity(n, x, t.user, t.value)
       /\ adding' = [adding EXCEPT ![n] = Idle]
       /\ UNCHANGED <<principals, signVars, ring>>

\* A refusal, a failed statement or a lost connection
addingFails(n) ==
    /\ adding[n] # Idle
    /\ adding' = [adding EXCEPT ![n] = Idle]
    /\ UNCHANGED <<principals, signVars, identity, ring, receipt, confirmed>>

-----------------------------------------------------------------------------
(* Operations that check the password first *)

\* reauthenticateUser: the credential is read before the transaction.
reauthenticateUser(u, p, status) ==
    /\ user[u].status = status /\ Verify(u, p)
    /\ confirmed' = confirmed \cup {<<u, status>>}
    /\ UNCHANGED <<principals, signVars, identity, ring, adding, receipt>>

\* RemoveIdentity of the repository
removeIdentity(u, row) ==
    /\ Active(u)
    /\ row \in IdentitiesOf(u) /\ Cardinality(IdentitiesOf(u)) > 1
    /\ identity' = identity \ {row}

RemoveIdentity(u, row) ==
    /\ Confirmed(u, "active") /\ removeIdentity(u, row)
    /\ UNCHANGED <<principals, signVars, ring, adding, receipt>>

\* ChangePassword of the repository: everything but the current session and its
\* device is revoked.
changePassword(u, s, p) ==
    /\ Active(u) /\ sess[s].live /\ sess[s].user = u
    /\ user' = [user EXCEPT ![u].credential = Fresh(p)]
    /\ RevokeDevices(DevicesOf(u) \ {sess[s].device})
    /\ Revoke(SessionsOf(u) \ {s})

ChangePassword(u, s, p) ==
    /\ Confirmed(u, "active") /\ changePassword(u, s, p)
    /\ UNCHANGED <<signVars, identity, ring, adding, receipt>>

\* A receipt of this purpose for an identity of the user's, spent by the transaction
proves(n, x, u, purpose) ==
    /\ lockAvailableReceipt(x, purpose, receipt[x].value)
    /\ findUserByClaims(n, receipt[x].value, u)
    /\ markReceiptConsumed(x)

\* ResetPassword of the repository
resetPassword(n, x, u, p) ==
    /\ proves(n, x, u, "password_reset")
    /\ user[u].status \in {"active", "pending_deletion"}
    /\ user' = [user EXCEPT ![u].credential = Fresh(p)]
    /\ Revoke(SessionsOf(u))

\* ResetPassword, with a receipt instead of the password
ResetPassword(n, x, u, p) ==
    /\ receipt[x].purpose = "password_reset" /\ resetPassword(n, x, u, p)
    /\ UNCHANGED <<device, signVars, identity, ring, adding, confirmed>>

\* RequestDeletion of the repository; organizations the user owns are Tenancy's.
requestDeletion(n, x, u) ==
    /\ Active(u)
    /\ proves(n, x, u, "account_deletion")
    /\ user' = [user EXCEPT ![u].status = "pending_deletion"]
    /\ RevokeDevices(DevicesOf(u))
    /\ Revoke(SessionsOf(u))

RequestDeletion(n, x, u) ==
    /\ Confirmed(u, "active") /\ requestDeletion(n, x, u)
    /\ UNCHANGED <<signVars, identity, ring, adding>>

\* RecoverDeletion of the repository, within the recovery window
recoverDeletion(n, x, u) ==
    /\ user[u].status = "pending_deletion"
    /\ proves(n, x, u, "deletion_recovery")
    /\ user' = [user EXCEPT ![u].status = "active"]

\* RecoverDeletion checks the password of the account that waits to be deleted.
RecoverDeletion(n, x, u) ==
    /\ Confirmed(u, "pending_deletion") /\ recoverDeletion(n, x, u)
    /\ UNCHANGED <<device, sess, signVars, identity, ring, adding>>

\* Sessions hang on their device.
eraseDevices(u) ==
    /\ device' = [d \in Device |-> IF d \in DevicesOf(u) THEN NoDevice ELSE device[d]]
    /\ sess' = [s \in Session |-> IF sess[s].device \in DevicesOf(u) THEN NoRow ELSE sess[s]]

\* FinalizeDeletion, after the recovery window; what it erases elsewhere is in
\* Tenancy and AgentControl.  Nonces hang on their device too, and challenges
\* go only with the identity's own index.
FinalizeDeletion(u) ==
    /\ user[u].status = "pending_deletion"
    /\ \A r \in Grant : grant[r] # NoGrant /\ grant[r].user = u => ~grant[r].held
    /\ user' = [user EXCEPT ![u].status = "finalized", ![u].credential = Fresh(Unknown)]
    /\ eraseDevices(u)
    /\ message' = [m \in Message |-> [message[m] EXCEPT !.fresh = @ /\ message[m].device \notin DevicesOf(u)]]
    /\ grant' = [r \in Grant |-> IF grant[r] # NoGrant /\ grant[r].user = u
                                 THEN [grant[r] EXCEPT !.status = "purged"] ELSE grant[r]]
    /\ \E gone \in SUBSET {x \in Receipt : \E row \in IdentitiesOf(u) : row.value = receipt[x].value} :
          receipt' = [x \in Receipt |-> [receipt[x] EXCEPT !.spent = @ \/ x \in gone]]
    /\ identity' = identity \ IdentitiesOf(u)
    /\ UNCHANGED <<web, stateRing, ring, adding, confirmed>>

-----------------------------------------------------------------------------
(* Signing in to the browser *)

\* AuthenticatePassword up to the check: the credential is read, and kept.
AuthenticatePassword(n, b, v, u, p) ==
    /\ web[b] = NoWeb
    /\ u \in FindCredential(n, v) /\ Active(u) /\ Verify(u, p)
    /\ web' = [web EXCEPT ![b].phase = IF needsRehash(u) THEN "rehash" ELSE "checked",
                          ![b].user = u, ![b].of = p]
    /\ UNCHANGED <<principals, grant, stateRing, message, idVars>>

\* UpdatePasswordHash writes the password that was checked, whatever is stored now.
UpdatePasswordHash(b) ==
    /\ web[b].phase = "rehash"
    /\ user[web[b].user].status # "finalized"
    /\ user' = [user EXCEPT ![web[b].user].credential = Fresh(web[b].of)]
    /\ web' = [web EXCEPT ![b].phase = "checked"]
    /\ UNCHANGED <<device, sess, grant, stateRing, message, idVars>>

\* login: the browser session is started once the password was accepted.
login(b) ==
    /\ web[b].phase = "checked"
    /\ Start(b, "open")
    /\ UNCHANGED <<principals, grant, stateRing, message, idVars>>

\* AuthenticateVerification: the receipt's signature is checked, not its row.
AuthenticateVerification(n, b, x, u) ==
    /\ web[b] = NoWeb
    /\ receipt[x].purpose = "login"
    /\ findUserByClaims(n, receipt[x].value, u) /\ Active(u)
    /\ web' = [web EXCEPT ![b].phase = "proved", ![b].user = u, ![b].of = x]
    /\ UNCHANGED <<principals, grant, stateRing, message, idVars>>

\* loginWithCode stages the browser session first.
stage(b) ==
    /\ web[b].phase = "proved"
    /\ Start(b, "staged")
    /\ UNCHANGED <<principals, grant, stateRing, message, idVars>>

ConsumeLoginReceipt(n, x, u) == Active(u) /\ proves(n, x, u, "login")

\* CompleteVerificationLogin, then loginWithCode sends the staged cookies
CompleteVerificationLogin(n, b) ==
    /\ web[b].phase = "staged"
    /\ ConsumeLoginReceipt(n, web[b].of, web[b].user)
    /\ web' = [web EXCEPT ![b].phase = "open"]
    /\ UNCHANGED <<principals, grant, stateRing, message, identity, ring, adding, confirmed>>

\* discardStagedBrowserSession, when completing the login failed
discardStagedBrowserSession(b) ==
    /\ web[b].phase = "staged"
    /\ End(b)
    /\ UNCHANGED <<principals, grant, stateRing, message, idVars>>

-----------------------------------------------------------------------------
(* Key rotation, one server at a time, as the runbook has it *)

Both == {OldKey, NewKey}
SetRing(n, keys, active) ==
    /\ ring' = [ring EXCEPT ![n] = [keys |-> keys, active |-> active]]
    /\ adding[n] = Idle
    /\ UNCHANGED <<principals, signVars, identity, adding, receipt, confirmed>>

ExpandRing(n) == ring[n].keys = {OldKey} /\ SetRing(n, Both, OldKey)
SwitchActive(n) ==
    /\ \A other \in Server : NewKey \in ring[other].keys
    /\ ring[n].active = OldKey
    /\ SetRing(n, Both, NewKey)
RetireOldKey(n) ==
    /\ \A other \in Server : ring[other].active = NewKey
    /\ \A row \in identity : row.key = NewKey
    /\ ring[n].keys = Both
    /\ SetRing(n, {NewKey}, NewKey)

\* The reviewed maintenance operation that re-indexes a row
Reindex(row) ==
    /\ \A n \in Server : ring[n].active = NewKey
    /\ row.key = OldKey
    /\ identity' = (identity \ {row}) \cup {[row EXCEPT !.key = NewKey]}
    /\ UNCHANGED <<principals, signVars, ring, adding, receipt, confirmed>>

-----------------------------------------------------------------------------
\* The accounts that exist at first have one identity each.
IdInit ==
    /\ \E name \in [{u \in User : user[u].status # "none"} -> Value] :
          /\ \A u, other \in DOMAIN name : name[u] = name[other] => u = other
          /\ identity = {[value |-> name[u], key |-> OldKey, user |-> u] : u \in DOMAIN name}
    /\ ring = [n \in Server |-> [keys |-> {OldKey}, active |-> OldKey]]
    /\ adding = [n \in Server |-> Idle]
    /\ receipt \in [Receipt -> [purpose : {"registration", "login", "password_reset", "bind_identity",
                                           "account_deletion", "deletion_recovery"},
                                value : Value, spent : {FALSE}]]
    /\ confirmed = {}

Accounts ==
    \/ \E n \in Server :
          \/ \E u \in User, v \in Value : user[u].status = "none" /\ beginAdding(n, "register", u, v)
          \/ \E u \in User, v \in Value : <<u, "active">> \in confirmed /\ beginAdding(n, "bind", u, v)
          \/ addingFails(n)
          \/ \E x \in Receipt :
                \/ \E p \in Password : Register(n, x, p) \/ \E u \in User : ResetPassword(n, x, u, p)
                \/ BindIdentity(n, x)
                \/ \E u \in User : RequestDeletion(n, x, u) \/ RecoverDeletion(n, x, u)
    \/ \E u \in User, p \in Password :
          \/ \E status \in {"active", "pending_deletion"} : reauthenticateUser(u, p, status)
          \/ \E s \in Session : ChangePassword(u, s, p)
    \/ \E u \in User : FinalizeDeletion(u) \/ \E row \in identity : RemoveIdentity(u, row)

Logins ==
    \/ \E n \in Server, b \in Browser :
          \/ \E v \in Value, u \in User, p \in Password : AuthenticatePassword(n, b, v, u, p)
          \/ \E x \in Receipt, u \in User : AuthenticateVerification(n, b, x, u)
          \/ CompleteVerificationLogin(n, b)
    \/ \E b \in Browser : UpdatePasswordHash(b) \/ login(b) \/ stage(b) \/ discardStagedBrowserSession(b)

Rotation ==
    \/ \E n \in Server : ExpandRing(n) \/ SwitchActive(n) \/ RetireOldKey(n)
    \/ \E row \in identity : Reindex(row)

IdNext == Accounts \/ Logins \/ Rotation

-----------------------------------------------------------------------------
\* A normalised identity names one account at most, and every server recognises
\* every stored identity, at every moment of a key rotation done as the runbook
\* says, although servers with different rings may lock and index one value
\* differently (lockIdentityScope, identityExists, account/repository.go).
IdentityIsUnique ==
    /\ \A row, other \in identity : row.value = other.value => row.user = other.user
    /\ \A row \in identity, n \in Server : row.key \in ring[n].keys

\* An account that can still be used has at least one identity and at most one
\* of each kind, so that its profile can be read, and an account that was erased
\* has none (RemoveIdentity, BindIdentity, FinalizeDeletion, Profile).
AccountsKeepIdentity ==
    \A u \in User :
        /\ user[u].status \in {"pending_deletion", "disabled"} => IdentitiesOf(u) # {}
        /\ Active(u) => Profile(u).found /\ Profile(u).kinds # {}
        /\ user[u].status \in {"none", "finalized"} => IdentitiesOf(u) = {}
        /\ \A row, other \in IdentitiesOf(u) : Kind[row.value] = Kind[other.value] => row.value = other.value

\* A login receipt signs in one browser: sign-ins that stage their sessions at
\* the same time with one receipt do not both get through, and none gets
\* through without spending it (loginWithCode, ConsumeLoginReceipt).
OneLoginPerReceipt ==
    \A x \in Receipt :
        LET opened == {b \in Browser : web[b].of = x /\ web[b].phase = "open"}
        IN Cardinality(opened) <= 1 /\ (opened # {} => receipt[x].spent)

\* After an administrator forced a password reset no known password signs in
\* until the owner has set a new one (forcePasswordResetLifecycle,
\* admin/repository.go:381).
ForcedResetHolds ==
    [][\A u \in User :
          user[u].credential.password = Unknown /\ user'[u].credential.password # Unknown =>
              \/ \E x \in Receipt : receipt[x].purpose = "password_reset" /\ ~receipt[x].spent /\ receipt'[x].spent
              \/ <<u, "active">> \in confirmed /\ <<u, "active">> \notin confirmed'
              \/ user[u].status = "none"]_<<user, receipt, confirmed>>
=============================================================================
