-------------------------- MODULE MCBackupCleanup --------------------------
(***************************************************************************)
(* One backup of one device, for the properties of EncryptedBackup that    *)
(* need fairness.  The device stays active and its installation stays on   *)
(* its version; MCEncryptedBackup has the instances in which they do not.  *)
(***************************************************************************)
EXTENDS EncryptedBackup, TLC

CONSTANTS b1, d1, d2, m1, l1, w1

Settled == upgraded = {} /\ (account # "disabled" => \A d \in Device : authDevice[d] = "active")

\* The account exists throughout.
CleanupSpec == BkInit /\ [][BkNext /\ Settled' /\ account' = "active"]_bkVars /\ BkFairness

\* The account is deleted, and may be recovered first.
DeletionSpec == BkInit /\ [][BkNext /\ Settled']_bkVars /\ BkFairness
=============================================================================
