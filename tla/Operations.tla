----------------------------- MODULE Operations -----------------------------
(***************************************************************************)
(* Administration, sign-in, accounts and Desktop control over the same     *)
(* users, devices and sessions.  A step of one component changes the       *)
(* shared rows and what hangs on them: a device that moves to another      *)
(* user, or is deleted with its account, takes its Desktop state along.    *)
(***************************************************************************)
EXTENDS AdminControl, AccountIdentity, DesktopControl

vars == <<principals, adminVars, signVars, idVars, desktopVars>>

OpInit == PrInit /\ AdInit /\ SignInit /\ IdInit /\ DcInit

AdStep == AdOperations /\ DesktopFollows /\ UNCHANGED <<signVars, idVars>>
CommandLineStep == CommandLine /\ DesktopFollows /\ UNCHANGED <<signVars, idVars>>
SignStep == SignNext /\ DesktopFollows /\ UNCHANGED <<adminVars, idVars>>
IdStep == IdNext /\ DesktopFollows /\ UNCHANGED adminVars
DcStep == DcNext /\ UNCHANGED <<adminVars, signVars, idVars>>

OpNext == AdStep \/ CommandLineStep \/ SignStep \/ IdStep \/ DcStep

OpSpec == OpInit /\ [][OpNext]_vars

-----------------------------------------------------------------------------
(* What the administrator's console reads (admin/control_repository.go) *)

\* attachMaskedIdentities: one masked value for each kind
attachMaskedIdentities(u) == {Kind[row.value] : row \in IdentitiesOf(u)}

\* userAggregateProjection, as GetUser reads it
GetUser(u) ==
    [status |-> IF user[u].status = "finalized" THEN "disabled" ELSE user[u].status,
     finalized |-> user[u].status = "finalized",
     revision |-> user[u].revision,
     devices |-> Cardinality(DevicesOf(u)),
     activeDevices |-> Cardinality({d \in DevicesOf(u) : device[d].status = "active"}),
     sessions |-> Cardinality({s \in SessionsOf(u) : sess[s].live}),
     masked |-> attachMaskedIdentities(u)]

\* scanControlUser accepts the row.
scanControlUser(shown) ==
    /\ shown.status \in {"active", "pending_deletion", "disabled"}
    /\ shown.revision >= 1 /\ shown.activeDevices <= shown.devices

\* A mutant: only the active key is tried.
LookupUserActiveKey(n, v) == {row.user : row \in {x \in identity : Index(x) = <<v, ring[n].active>>}}

\* LookupUser tries the index of every key.
LookupUser(n, v) == {row.user : row \in {x \in identity : Index(x) \in LookupCandidates(n, v)}}

\* What the console shows of an account is what its operations act on: the row
\* can be read, an operation that suits the shown status and carries the shown
\* revision is not refused, every identity is shown, and every server finds an
\* account by each of its identities, in the middle of a key rotation too
\* (GetUser, LookupUser, applyAction).
ConsoleAgrees ==
    /\ \A u \in {x \in User : user[x].status # "none"} :
          LET shown == GetUser(u)
              accepted(action) == rejection([action |-> action, target |-> u, expected |-> shown.revision], u) = ""
          IN /\ scanControlUser(shown)
             /\ shown.sessions > 0 => accepted("revoke_all_sessions")
             /\ shown.status = "active" => accepted("disable_user") /\ accepted("force_password_reset")
             /\ shown.status = "disabled" /\ ~shown.finalized => accepted("enable_user")
             /\ Cardinality(shown.masked) = Cardinality(IdentitiesOf(u))
    /\ \A row \in identity, n \in Server : LookupUser(n, row.value) = {row.user}

\* What may be used once takes effect once, whatever is sent again or at the same
\* time: an approval gives one session, a login receipt one browser session and
\* a signed self-revocation one revocation (Exchange, ConsumeLoginReceipt and
\* SelfRevoke).
UsedOnce == OneSessionPerApproval /\ OneLoginPerReceipt /\ SelfRevocationOnce

\* A stored identity names one account, every server recognises it during a key
\* rotation too, and an account keeps an identity as long as it can be used
\* (account/repository.go, RemoveIdentity and FinalizeDeletion).
IdentitiesHold == IdentityIsUnique /\ AccountsKeepIdentity

\* What hangs on a device belongs to the device's present owner: live sessions,
\* its instance and the commands it claimed; and an account that is disabled or
\* waits to be deleted has no active device and no live session.  Transfers,
\* revocations, sign-ins and administration in any order leave nothing behind.
DevicesAreOwned == LiveSessionsOwned /\ DisabledIsSilent /\ NothingSurvivesTransfer

\* A health check that is queued twice is one check, it is settled in time, and
\* its request and its outcome are audited once (QueueHealthCheck,
\* AdvanceCommand, expireOverdueCommands and recordCommandAudit).
ChecksSettleOnce == ResultsInTime /\ OneEventPerCheck /\ OneCommandPerKey

\* What administrators are shown is what their operations and filters act on
\* (GetUser, LookupUser, ListInstances and EffectiveStatus).
OperatorReadsAgree == ConsoleAgrees /\ ListsAgree
=============================================================================
