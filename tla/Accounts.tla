------------------------------- MODULE Accounts -------------------------------
(***************************************************************************)
(* The accounts that own and join workspaces and organizations: the column *)
(* users.status.  Sessions, devices and identities are in other modules.   *)
(***************************************************************************)
CONSTANT User

VARIABLE account

\* pending: deletion requested.  elapsed: and the recovery window is over.
\* disabled: by an administrator.  finalized: erased, the row is disabled too.
AccountStatus == {"active", "pending", "elapsed", "disabled", "finalized"}

\* lockActiveOrganizationActor, requireActiveActor, lockActiveActor: the caller's
\* account is active (its device is, or the access token had not authenticated it).
ActiveActor(u) == account[u] = "active"

SetAccount(u, s) == account' = [account EXCEPT ![u] = s]

DisableUser(u) == account[u] = "active" /\ SetAccount(u, "disabled")

EnableUser(u) == account[u] = "disabled" /\ SetAccount(u, "active")

RecoverDeletion(u) == account[u] = "pending" /\ SetAccount(u, "active")

RecoveryWindowEnds(u) == account[u] = "pending" /\ SetAccount(u, "elapsed")
=============================================================================
