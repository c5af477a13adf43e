--------------------------- MODULE EncryptedBackup ---------------------------
(***************************************************************************)
(* Encrypted profile backups of one account (internal/encryptedbackup):    *)
(* the keys of its devices, the rows and key envelopes in PostgreSQL, the  *)
(* ciphertext objects in MinIO, and the maintenance passes that expire     *)
(* uploads and clean objects up (internal/jobs).                           *)
(*                                                                         *)
(* A transaction that locks the rows it decides on is one step.  What a    *)
(* request reads before its transaction, and each call to the object       *)
(* store, is a step of its own.  Times are the flags they decide: lapsed   *)
(* uploads, and operations that wait or whose lease is stale.              *)
(***************************************************************************)
EXTENDS Integers, FiniteSets

CONSTANTS
    BackupId, Device, Lineage, Worker,
    Part,            \* the objects of a backup: its manifest and its chunks
    MaxEpoch,        \* bound on key epochs
    MaxRevision,     \* bound on registrations of a device
    LineageQuota,    \* sealed backups per lineage, 3 in the code
    RetentionCount,  \* encryptedBackupRetentionCount, 3 in the code
    AccountQuota,    \* sealed bytes per account, in backups
    MaxRequests      \* bound on requests in flight

ASSUME BackupParameters ==
    /\ IsFiniteSet(BackupId) /\ IsFiniteSet(Part)
    /\ MaxEpoch \in Nat \ {0} /\ MaxRevision \in Nat /\ MaxRequests \in Nat
    /\ LineageQuota \in Nat /\ AccountQuota \in Nat
    /\ RetentionCount \in Nat /\ RetentionCount >= LineageQuota

VARIABLES
    account,       \* users.status of the account, and whether its recovery window is over
    authDevice,    \* devices.status
    registration,  \* the latest backup_devices row of a device: epoch and revision, 0 if none
    deviceKey,     \* backup_devices.status per device and epoch
    backup,        \* encrypted_profile_backups
    envelope,      \* encrypted_backup_key_envelopes: none, live, or destroyed
    upgraded,      \* backups whose installation now selects another version
    lapsed,        \* backups whose upload_expires_at has passed
    objects,       \* ciphertext in MinIO: <<backup, part>>
    operation,     \* encrypted_backup_operations, the latest row per backup and kind
    request,       \* API requests between two of their steps
    pass,          \* maintenance passes
    lease,         \* owner of the maintenance lease in Redis
    history        \* objects a failed upload took back, and objects put too late

bkVars == <<account, authDevice, registration, deviceKey, backup, envelope, upgraded,
            lapsed, objects, operation, request, pass, lease, history>>

Epoch == 1..MaxEpoch
Kind == {"expire_upload", "delete_backup", "prune_lineage"}
BackupState == {"none", "initiated", "uploading", "sealed", "deleting", "deleted", "expired"}
Uploadable == {"initiated", "uploading"}

\* pending is split into due and waiting by next_attempt_at, running into
\* running and stale by the ten minutes of encryptedBackupOperationLease.
OperationState == {"none", "due", "waiting", "running", "stale", "completed"}
Pending == {"due", "waiting"}
Active == Pending \cup {"running", "stale"}

Row == [state : BackupState, source : Device, epoch : Epoch,
        lineage : Lineage, parent : BackupId \cup {"none"}]

Request ==
    [op : {"initiate"}, id : BackupId, row : Row]
    \cup [op : {"put", "check", "mark"}, id : BackupId, part : Part]
    \cup [op : {"seal"}, id : BackupId, seen : SUBSET Part]
    \cup [op : {"grant"}, id : BackupId, device : Device, epoch : Epoch]
    \cup [op : {"delete"}, id : BackupId, left : SUBSET Part]

Pass ==
    [at : {"idle", "security", "expire", "prune", "select"}]
    \cup [at : {"begin"}, due : SUBSET (BackupId \X Kind)]
    \cup [at : {"delete"}, due : SUBSET (BackupId \X Kind),
          id : BackupId, kind : Kind, left : SUBSET Part]

\* Every row, object, request and pass has its type.
BkTypeOK ==
    /\ account \in {"active", "pending_deletion", "due", "disabled"}
    /\ authDevice \in [Device -> {"active", "revoked"}]
    /\ registration \in [Device -> [epoch : 0..MaxEpoch, revision : 0..MaxRevision]]
    /\ deviceKey \in [Device \X Epoch -> {"none", "active", "revoked"}]
    /\ backup \in [BackupId -> Row]
    /\ envelope \in [BackupId \X Device \X Epoch -> {"none", "live", "destroyed"}]
    /\ upgraded \subseteq BackupId /\ lapsed \subseteq BackupId
    /\ objects \subseteq BackupId \X Part
    /\ operation \in [BackupId \X Kind -> OperationState]
    /\ request \subseteq Request
    /\ pass \in [Worker -> Pass]
    /\ lease \in Worker \cup {"free"}
    /\ history \in [withdrawn : SUBSET (BackupId \X Part), late : SUBSET (BackupId \X Part)]

State(b) == backup[b].state
ObjectsOf(b) == {b} \X Part

BkInit ==
    /\ account = "active"
    /\ authDevice = [d \in Device |-> "active"]
    /\ registration = [d \in Device |-> [epoch |-> 0, revision |-> 0]]
    /\ deviceKey = [k \in Device \X Epoch |-> "none"]
    /\ \E d \in Device, l \in Lineage :
         backup = [b \in BackupId |-> [state |-> "none", source |-> d, epoch |-> 1,
                                       lineage |-> l, parent |-> "none"]]
    /\ envelope = [e \in BackupId \X Device \X Epoch |-> "none"]
    /\ upgraded = {} /\ lapsed = {} /\ objects = {} /\ request = {}
    /\ operation = [o \in BackupId \X Kind |-> "none"]
    /\ pass = [w \in Worker |-> [at |-> "idle"]]
    /\ lease = "free"
    /\ history = [withdrawn |-> {}, late |-> {}]
-----------------------------------------------------------------------------
(***************************************************************************)
(* What the requests and the schema check.                                 *)
(***************************************************************************)

AuthenticationDevice(d) == authDevice[d]

\* A token of an account that is being deleted is refused before the
\* handler runs.
Authenticated(d) == account = "active" /\ AuthenticationDevice(d) = "active"

\* BackupDevice: the key of one epoch, read without a lock.
KeyActive(d, e) == deviceKey[<<d, e>>] = "active"

LatestBackupDeviceStatus(d) ==
    IF registration[d].epoch = 0 THEN "" ELSE deviceKey[<<d, registration[d].epoch>>]

\* ensureBackupDeviceNotRevoked: a device without a backup key passes.
NotRevoked(d) == LatestBackupDeviceStatus(d) \in {"", "active"}

\* enforce_encrypted_profile_backup_guard, on every INSERT and UPDATE of a
\* row: the installation still selects the row's version, and the parent is
\* sealed still.
GuardPasses(b, row) ==
    /\ b \notin upgraded
    /\ row.parent # "none" => /\ State(row.parent) = "sealed"
                              /\ backup[row.parent].lineage = row.lineage

\* readBackupDetail finds the row, its chunks and the live envelope of its
\* source device; without that envelope the read fails.
DetailReadable(b) == envelope[<<b, backup[b].source, backup[b].epoch>>] = "live"

\* Get, and the look-up of Download: what device d may restore from.
Restorable(d, b) ==
    /\ Authenticated(d) /\ NotRevoked(d)
    /\ State(b) = "sealed" /\ DetailReadable(b)

ListSealed == {b \in BackupId : State(b) = "sealed"}
SealedIn(l) == {b \in ListSealed : backup[b].lineage = l}

\* The quota of a lineage left out.
QuotaPerAccountOnly(b) ==
    Cardinality(ListSealed \ {b}) < AccountQuota

\* The part of the guard for a row that becomes sealed.
QuotaPasses(b) ==
    /\ Cardinality(SealedIn(backup[b].lineage) \ {b}) < LineageQuota
    /\ Cardinality(ListSealed \ {b}) < AccountQuota

SetState(b, s) == [backup EXCEPT ![b].state = s]
EnvelopesOf(ids) == {e \in DOMAIN envelope : e[1] \in ids}
Destroy(keys) ==
    [e \in DOMAIN envelope |->
        IF envelope[e] = "live" /\ e \in keys THEN "destroyed" ELSE envelope[e]]

RoomFor(r) == r \notin request /\ Cardinality(request) < MaxRequests
Replace(r, next) == request' = (request \ {r}) \cup {next}
End(r) == request' = request \ {r}

keysSame == UNCHANGED <<authDevice, registration, deviceKey>>
maintenanceSame == UNCHANGED <<pass, lease>>
apiSame == keysSame /\ maintenanceSame /\ UNCHANGED <<account, upgraded, lapsed>>
-----------------------------------------------------------------------------
(***************************************************************************)
(* Keys of devices.                                                        *)
(***************************************************************************)

\* Repeating the latest registration changes nothing and is left out.
RegisterBackupDevice(d, e) ==
    /\ AuthenticationDevice(d) = "active"
    /\ registration[d].revision < MaxRevision
    /\ registration[d].epoch # 0 => e \in registration[d].epoch..(registration[d].epoch + 1)
    /\ e = registration[d].epoch => KeyActive(d, e)
    /\ registration' = [registration EXCEPT
                          ![d] = [epoch |-> e, revision |-> registration[d].revision + 1]]
    /\ deviceKey' = [deviceKey EXCEPT ![<<d, e>>] = "active"]
    /\ UNCHANGED <<account, authDevice, backup, envelope, upgraded, lapsed, objects,
                   operation, request, history>> /\ maintenanceSame

RegisterDevice(d) == Authenticated(d) /\ \E e \in Epoch : RegisterBackupDevice(d, e)

RevokeBackupDevice(d) ==
    /\ \E e \in Epoch : KeyActive(d, e)
    /\ deviceKey' = [k \in DOMAIN deviceKey |->
                       IF k[1] = d /\ deviceKey[k] = "active" THEN "revoked" ELSE deviceKey[k]]
    /\ envelope' = Destroy({e \in DOMAIN envelope : e[2] = d /\ KeyActive(d, e[3])})
    /\ UNCHANGED <<account, authDevice, registration, backup, upgraded, lapsed, objects,
                   operation, request, history>> /\ maintenanceSame

RevokeDevice(caller, d) == Authenticated(caller) /\ RevokeBackupDevice(d)

\* A session operation revokes the device itself.
RevokeAuthDevice(d) ==
    /\ authDevice[d] = "active"
    /\ authDevice' = [authDevice EXCEPT ![d] = "revoked"]
    /\ UNCHANGED <<account, registration, deviceKey, backup, envelope, upgraded, lapsed,
                   objects, operation, request, history>> /\ maintenanceSame

\* AddDeviceEnvelope: the reads of the service, then the locked transaction.
GrantCheck(caller, b, d, e) ==
    LET r == [op |-> "grant", id |-> b, device |-> d, epoch |-> e] IN
    /\ Authenticated(caller) /\ RoomFor(r)
    /\ State(b) = "sealed" /\ DetailReadable(b) /\ backup[b].epoch = e
    /\ KeyActive(d, e)
    /\ d # caller => KeyActive(caller, e)
    /\ request' = request \cup {r}
    /\ UNCHANGED <<backup, envelope, objects, operation, history>> /\ apiSame

\* An upsert that trusts what the service read.
AddDeviceEnvelopeAgain(r) ==
    LET slot == <<r.id, r.device, r.epoch>> IN
    /\ r.op = "grant" /\ End(r)
    /\ envelope' = IF State(r.id) = "sealed" THEN [envelope EXCEPT ![slot] = "live"] ELSE envelope
    /\ UNCHANGED <<backup, objects, operation, history>> /\ apiSame

\* An envelope row that exists, live or destroyed, is never written again.
AddDeviceEnvelope(r) ==
    LET slot == <<r.id, r.device, r.epoch>> IN
    /\ r.op = "grant" /\ End(r)
    /\ envelope' = IF /\ State(r.id) = "sealed"
                      /\ KeyActive(r.device, r.epoch)
                      /\ envelope[slot] = "none"
                   THEN [envelope EXCEPT ![slot] = "live"] ELSE envelope
    /\ UNCHANGED <<backup, objects, operation, history>> /\ apiSame
-----------------------------------------------------------------------------
(***************************************************************************)
(* Uploads.                                                                *)
(***************************************************************************)

\* The service reads the device key; the transaction inserts row and envelope.
InitiateCheck(b, row) ==
    LET r == [op |-> "initiate", id |-> b, row |-> row] IN
    /\ Authenticated(row.source) /\ RoomFor(r)
    /\ KeyActive(row.source, row.epoch)
    /\ row.state = "initiated" /\ row.parent # b
    /\ request' = request \cup {r}
    /\ UNCHANGED <<backup, envelope, objects, operation, history>> /\ apiSame

Inserts(r) ==
    /\ State(r.id) = "none" /\ account # "disabled"
    /\ GuardPasses(r.id, r.row)
    /\ ~\E b \in BackupId : State(b) \in Uploadable /\ backup[b].lineage = r.row.lineage

Initiate(r) ==
    /\ r.op = "initiate" /\ End(r)
    /\ IF Inserts(r)
       THEN /\ backup' = [backup EXCEPT ![r.id] = r.row]
            /\ envelope' = [envelope EXCEPT ![<<r.id, r.row.source, r.row.epoch>>] = "live"]
       ELSE UNCHANGED <<backup, envelope>>
    /\ UNCHANGED <<objects, operation, history>> /\ apiSame

\* ChunkUploadTarget and ManifestUploadTarget: a row whose upload is open.
UploadTarget(b) == State(b) \in Uploadable /\ b \notin lapsed

UploadCheck(b, part) ==
    LET r == [op |-> "put", id |-> b, part |-> part] IN
    /\ Authenticated(backup[b].source) /\ UploadTarget(b) /\ RoomFor(r)
    /\ request' = request \cup {r}
    /\ UNCHANGED <<backup, envelope, objects, operation, history>> /\ apiSame

Late(o) == IF State(o[1]) \in Uploadable THEN history
           ELSE [withdrawn |-> history.withdrawn, late |-> history.late \cup {o}]

\* PutObject with If-None-Match; an object that is there already counts as
\* uploaded.
PutObject(r) ==
    LET o == <<r.id, r.part>> IN
    /\ r.op = "put"
    /\ objects' = objects \cup {o}
    /\ history' = IF o \in objects THEN history ELSE Late(o)
    /\ Replace(r, [r EXCEPT !.op = IF o \in objects THEN "mark" ELSE "check"])
    /\ UNCHANGED <<backup, envelope, operation>> /\ apiSame

\* The body ends early: PutCiphertext removes the object of that key.
PutTruncated(r) ==
    LET o == <<r.id, r.part>> IN
    /\ r.op = "put" /\ End(r)
    /\ objects' = objects \ {o}
    /\ history' = [withdrawn |-> history.withdrawn \cup ({o} \cap objects), late |-> history.late \ {o}]
    /\ UNCHANGED <<backup, envelope, operation>> /\ apiSame

\* What PutCiphertext checks once the object is stored: it is kept, or
\* removed again.
PutVerified(r) ==
    /\ r.op = "check"
    /\ Replace(r, [r EXCEPT !.op = "mark"])
    /\ UNCHANGED <<backup, envelope, objects, operation, history>> /\ apiSame

PutRejected(r) ==
    LET o == <<r.id, r.part>> IN
    /\ r.op = "check" /\ End(r)
    /\ objects' = objects \ {o}
    /\ history' = [withdrawn |-> history.withdrawn \cup ({o} \cap objects), late |-> history.late \ {o}]
    /\ UNCHANGED <<backup, envelope, operation>> /\ apiSame

MarkUploading(r) ==
    /\ r.op = "mark" /\ End(r)
    /\ backup' = IF State(r.id) \in Uploadable /\ GuardPasses(r.id, backup[r.id])
                 THEN SetState(r.id, "uploading") ELSE backup
    /\ UNCHANGED <<envelope, objects, operation, history>> /\ apiSame

SealCheck(b) ==
    LET r == [op |-> "seal", id |-> b, seen |-> {}] IN
    /\ Authenticated(backup[b].source) /\ UploadTarget(b) /\ RoomFor(r)
    /\ KeyActive(backup[b].source, backup[b].epoch)
    /\ DetailReadable(b)
    /\ request' = request \cup {r}
    /\ UNCHANGED <<backup, envelope, objects, operation, history>> /\ apiSame

HeadCiphertext(b, part) == <<b, part>> \in objects

\* Objects taken for granted.
VerifyNothing(r, part) ==
    /\ r.op = "seal" /\ part \notin r.seen
    /\ Replace(r, [r EXCEPT !.seen = @ \cup {part}])
    /\ UNCHANGED <<backup, envelope, objects, operation, history>> /\ apiSame

\* verifyObject, one HEAD request per object.
VerifyObject(r, part) ==
    /\ r.op = "seal" /\ part \notin r.seen
    /\ IF HeadCiphertext(r.id, part)
       THEN Replace(r, [r EXCEPT !.seen = @ \cup {part}])
       ELSE End(r)
    /\ UNCHANGED <<backup, envelope, objects, operation, history>> /\ apiSame

Seal(r) ==
    /\ r.op = "seal" /\ r.seen = Part /\ End(r)
    /\ backup' = IF /\ State(r.id) \in Uploadable
                    /\ GuardPasses(r.id, backup[r.id]) /\ QuotaPasses(r.id)
                 THEN SetState(r.id, "sealed") ELSE backup
    /\ UNCHANGED <<envelope, objects, operation, history>> /\ apiSame
-----------------------------------------------------------------------------
(***************************************************************************)
(* Deletion.                                                               *)
(***************************************************************************)

\* begin_encrypted_profile_backup_deletion: the row and its envelopes.
DeletionAllowed(b) ==
    \/ State(b) = "sealed" /\ GuardPasses(b, backup[b])
    \/ State(b) = "deleting"

\* An operation that is pending or running starts over, due at once.
Staged(b, kind) == [operation EXCEPT ![<<b, kind>>] = "due"]

\* Left to the request alone.
BeginDeletionUnstaged(b) ==
    LET r == [op |-> "delete", id |-> b, left |-> Part] IN
    /\ RoomFor(r)
    /\ DeletionAllowed(b)
    /\ backup' = SetState(b, "deleting")
    /\ envelope' = Destroy(EnvelopesOf({b}))
    /\ request' = request \cup {r}
    /\ UNCHANGED <<operation, objects, history>> /\ apiSame

BeginDeletion(b) ==
    LET r == [op |-> "delete", id |-> b, left |-> Part] IN
    /\ RoomFor(r)
    /\ DeletionAllowed(b)
    /\ backup' = SetState(b, "deleting")
    /\ envelope' = Destroy(EnvelopesOf({b}))
    /\ operation' = Staged(b, "delete_backup")
    /\ request' = request \cup {r}
    /\ UNCHANGED <<objects, history>> /\ apiSame

Delete(d, b) == Authenticated(d) /\ NotRevoked(d) /\ BeginDeletion(b)

DeleteCiphertext(r, part) ==
    LET o == <<r.id, part>> IN
    /\ r.op = "delete" /\ part \in r.left
    /\ objects' = objects \ {o}
    /\ history' = [withdrawn |-> history.withdrawn, late |-> history.late \ {o}]
    /\ Replace(r, [r EXCEPT !.left = @ \ {part}])
    /\ UNCHANGED <<backup, envelope, operation>> /\ apiSame

\* deleting becomes deleted and its delete_backup operation is completed.
CompleteDeletion(r) ==
    /\ r.op = "delete" /\ r.left = {} /\ End(r)
    /\ IF State(r.id) = "deleting" => GuardPasses(r.id, backup[r.id])
       THEN /\ backup' = IF State(r.id) = "deleting" THEN SetState(r.id, "deleted") ELSE backup
            /\ operation' = [operation EXCEPT ![<<r.id, "delete_backup">>] =
                               IF @ \in Active THEN "completed" ELSE @]
       ELSE UNCHANGED <<backup, operation>>
    /\ UNCHANGED <<envelope, objects, history>> /\ apiSame

\* A call of the request fails, or its process dies.
RequestEnds(r) ==
    /\ End(r)
    /\ UNCHANGED <<backup, envelope, objects, operation, history>> /\ apiSame
-----------------------------------------------------------------------------
(***************************************************************************)
(* Maintenance passes (jobs/runner.go, jobs/sequence.go, jobs/postgres.go).*)
(***************************************************************************)
rowsSame == UNCHANGED <<backup, envelope, objects, operation, history>>
outsideSame == keysSame /\ UNCHANGED <<upgraded, lapsed, request>>

At(w, step) == pass[w].at = step
Goto(w, p) == pass' = [pass EXCEPT ![w] = p] /\ UNCHANGED lease

\* The pass returns, and the runner releases the lease if it still owns it.
Return(w) ==
    /\ pass' = [pass EXCEPT ![w] = [at |-> "idle"]]
    /\ lease' = IF lease = w THEN "free" ELSE lease

Acquire(w) == lease = "free" /\ lease' = w

RunOnce(w) ==
    /\ At(w, "idle") /\ Acquire(w)
    /\ pass' = [pass EXCEPT ![w] = [at |-> "security"]]
    /\ rowsSame /\ outsideSame /\ UNCHANGED account

HasBackups == \E b \in BackupId : State(b) # "none"

\* FinalizeDeletion deletes installations, which encrypted_profile_backups
\* references with ON DELETE RESTRICT.
FinalizeDeletion ==
    /\ ~HasBackups
    /\ account' = "disabled"
    /\ authDevice' = [d \in Device |-> "revoked"]
    /\ deviceKey' = [k \in DOMAIN deviceKey |-> "none"]
    /\ registration' = [d \in Device |-> [epoch |-> 0, revision |-> 0]]

DueDeletion == account = "due"

\* PostgresMaintenance.Run: an error of one account ends the pass.
SecurityStage(w) ==
    /\ At(w, "security")
    /\ \/ /\ DueDeletion /\ FinalizeDeletion
          /\ Goto(w, [at |-> "expire"])
       \/ /\ IF DueDeletion THEN HasBackups /\ Return(w) ELSE Goto(w, [at |-> "expire"])
          /\ UNCHANGED <<account, deviceKey, registration, authDevice>>
    /\ rowsSame /\ UNCHANGED <<upgraded, lapsed, request>>

DueUploads == {b \in lapsed : State(b) \in Uploadable}

\* Expired without an operation for the objects.
StageExpiredUploadsUnlisted(w) ==
    /\ At(w, "expire")
    /\ backup' = [b \in BackupId |-> IF b \in DueUploads
                    THEN [backup[b] EXCEPT !.state = "expired"] ELSE backup[b]]
    /\ envelope' = Destroy(EnvelopesOf(DueUploads))
    /\ Goto(w, [at |-> "prune"])
    /\ UNCHANGED <<account, operation, objects, history>> /\ outsideSame

\* One transaction for all due uploads; the guard may refuse one of them.
StageExpiredUploads(w) ==
    /\ At(w, "expire")
    /\ IF \A b \in DueUploads : GuardPasses(b, backup[b])
       THEN /\ backup' = [b \in BackupId |-> IF b \in DueUploads
                            THEN [backup[b] EXCEPT !.state = "expired"] ELSE backup[b]]
            /\ envelope' = Destroy(EnvelopesOf(DueUploads))
            /\ operation' = [o \in DOMAIN operation |->
                               IF o[1] \in DueUploads /\ o[2] = "expire_upload" THEN "due" ELSE operation[o]]
            /\ Goto(w, [at |-> "prune"])
       ELSE Return(w) /\ UNCHANGED <<backup, envelope, operation>>
    /\ UNCHANGED <<account, objects, history>> /\ outsideSame

\* The sets of backups beyond the newest RetentionCount of every lineage.
Prunable == {s \in SUBSET ListSealed :
               \A l \in Lineage : LET n == Cardinality(SealedIn(l)) IN
                 Cardinality(s \cap SealedIn(l)) = IF n > RetentionCount THEN n - RetentionCount ELSE 0}

StageRetentionPruning(w) ==
    /\ At(w, "prune")
    /\ \E s \in Prunable :
         IF \A b \in s : GuardPasses(b, backup[b])
         THEN /\ backup' = [b \in BackupId |-> IF b \in s
                              THEN [backup[b] EXCEPT !.state = "deleting"] ELSE backup[b]]
              /\ envelope' = Destroy(EnvelopesOf(s))
              /\ operation' = [o \in DOMAIN operation |->
                                 IF o[1] \in s /\ o[2] = "prune_lineage" THEN "due" ELSE operation[o]]
              /\ Goto(w, [at |-> "select"])
         ELSE Return(w) /\ UNCHANGED <<backup, envelope, operation>>
    /\ UNCHANGED <<account, objects, history>> /\ outsideSame

\* Operations that a crashed pass left running are not picked up again.
DueOperationsPendingOnly(w) ==
    /\ At(w, "select")
    /\ Goto(w, [at |-> "begin", due |-> {o \in DOMAIN operation : operation[o] = "due"}])
    /\ rowsSame /\ outsideSame /\ UNCHANGED account

DueBackupOperations(w) ==
    /\ At(w, "select")
    /\ Goto(w, [at |-> "begin", due |-> {o \in DOMAIN operation : operation[o] \in {"due", "stale"}}])
    /\ rowsSame /\ outsideSame /\ UNCHANGED account

BeginAttempt(w) ==
    /\ At(w, "begin")
    /\ \E o \in pass[w].due :
         IF operation[o] \in Active
         THEN /\ operation' = [operation EXCEPT ![o] = "running"]
              /\ Goto(w, [at |-> "delete", due |-> pass[w].due \ {o},
                          id |-> o[1], kind |-> o[2], left |-> Part])
         ELSE Return(w) /\ UNCHANGED operation
    /\ UNCHANGED <<account, backup, envelope, objects, history>> /\ outsideSame

PassEnds(w) ==
    /\ At(w, "begin") /\ pass[w].due = {}
    /\ Return(w)
    /\ rowsSame /\ outsideSame /\ UNCHANGED account

CleanObject(w) ==
    /\ At(w, "delete")
    /\ \E part \in pass[w].left :
         LET o == <<pass[w].id, part>> IN
         /\ objects' = objects \ {o}
         /\ history' = [withdrawn |-> history.withdrawn, late |-> history.late \ {o}]
         /\ Goto(w, [pass[w] EXCEPT !.left = @ \ {part}])
    /\ UNCHANGED <<account, backup, envelope, operation>> /\ outsideSame

\* failBackupOperation: the operation waits for encryptedBackupRetryDelay.
CleanFails(w) ==
    LET o == <<pass[w].id, pass[w].kind>> IN
    /\ At(w, "delete") /\ pass[w].left # {}
    /\ operation' = [operation EXCEPT ![o] = IF @ \in {"running", "stale"} THEN "waiting" ELSE @]
    /\ Return(w)
    /\ UNCHANGED <<account, backup, envelope, objects, history>> /\ outsideSame

CompleteOperation(w) ==
    LET b == pass[w].id  o == <<pass[w].id, pass[w].kind>>
        deletes == pass[w].kind # "expire_upload" /\ State(b) = "deleting" IN
    /\ At(w, "delete") /\ pass[w].left = {}
    /\ IF operation[o] \in {"running", "stale"} /\ (deletes => GuardPasses(b, backup[b]))
       THEN /\ backup' = IF deletes THEN SetState(b, "deleted") ELSE backup
            /\ operation' = [operation EXCEPT ![o] = "completed"]
            /\ Goto(w, [at |-> "begin", due |-> pass[w].due])
       ELSE Return(w) /\ UNCHANGED <<backup, operation>>
    /\ UNCHANGED <<account, envelope, objects, history>> /\ outsideSame

\* The process of a pass dies; its lease stays until it expires.
PassCrashes(w) ==
    /\ pass[w].at # "idle"
    /\ pass' = [pass EXCEPT ![w] = [at |-> "idle"]]
    /\ rowsSame /\ outsideSame /\ UNCHANGED <<account, lease>>

\* The lease is not renewed while a pass runs.
LeaseExpires ==
    /\ lease # "free" /\ lease' = "free"
    /\ rowsSame /\ outsideSame /\ UNCHANGED <<account, pass>>
-----------------------------------------------------------------------------
(***************************************************************************)
(* Time, and the rest of the system.                                       *)
(***************************************************************************)
UploadLapses(b) ==
    /\ State(b) # "none" /\ b \notin lapsed
    /\ lapsed' = lapsed \cup {b}
    /\ rowsSame /\ keysSame /\ maintenanceSame /\ UNCHANGED <<account, upgraded, request>>

RetryDelayPasses(o) ==
    /\ operation[o] = "waiting"
    /\ operation' = [operation EXCEPT ![o] = "due"]
    /\ UNCHANGED <<backup, envelope, objects, history>> /\ apiSame /\ UNCHANGED request

OperationLeaseExpires(o) ==
    /\ operation[o] = "running"
    /\ operation' = [operation EXCEPT ![o] = "stale"]
    /\ UNCHANGED <<backup, envelope, objects, history>> /\ apiSame /\ UNCHANGED request

\* The installation of a backup selects another version, or returns to it.
SelectVersion(b) ==
    /\ upgraded' = IF b \in upgraded THEN upgraded \ {b} ELSE upgraded \cup {b}
    /\ rowsSame /\ keysSame /\ maintenanceSame /\ UNCHANGED <<account, lapsed, request>>

\* RequestDeletion, RecoverDeletion, and the end of the recovery window.
AccountStep ==
    /\ \/ account = "active" /\ account' = "pending_deletion"
       \/ account = "pending_deletion" /\ account' \in {"active", "due"}
    /\ rowsSame /\ keysSame /\ maintenanceSame /\ UNCHANGED <<upgraded, lapsed, request>>
-----------------------------------------------------------------------------
RequestStep ==
    \/ \E r \in request :
         \/ Initiate(r) \/ PutObject(r) \/ PutTruncated(r) \/ PutVerified(r) \/ PutRejected(r)
         \/ MarkUploading(r) \/ Seal(r) \/ AddDeviceEnvelope(r) \/ CompleteDeletion(r) \/ RequestEnds(r)
         \/ \E part \in Part : VerifyObject(r, part) \/ DeleteCiphertext(r, part)

NewRequest ==
    \/ \E d \in Device : RegisterDevice(d) \/ RevokeAuthDevice(d) \/ \E caller \in Device : RevokeDevice(caller, d)
    \/ \E b \in BackupId :
         \/ \E d \in Device, e \in Epoch, l \in Lineage, p \in BackupId \cup {"none"} :
              InitiateCheck(b, [state |-> "initiated", source |-> d, epoch |-> e, lineage |-> l, parent |-> p])
         \/ \E part \in Part : UploadCheck(b, part)
         \/ SealCheck(b)
         \/ \E caller, d \in Device, e \in Epoch : GrantCheck(caller, b, d, e)
         \/ \E d \in Device : Delete(d, b)

PassStep(w) ==
    \/ RunOnce(w) \/ SecurityStage(w) \/ StageExpiredUploads(w) \/ StageRetentionPruning(w)
    \/ DueBackupOperations(w) \/ BeginAttempt(w) \/ PassEnds(w) \/ CleanObject(w)
    \/ CompleteOperation(w)

PassFault(w) == CleanFails(w) \/ PassCrashes(w)

Environment ==
    \/ LeaseExpires \/ AccountStep
    \/ \E b \in BackupId : UploadLapses(b) \/ SelectVersion(b)
    \/ \E o \in DOMAIN operation : RetryDelayPasses(o) \/ OperationLeaseExpires(o)

BkNext ==
    \/ RequestStep \/ NewRequest \/ Environment
    \/ \E w \in Worker : PassStep(w) \/ PassFault(w)

BkSpec == BkInit /\ [][BkNext]_bkVars

\* Runner.Run starts a pass at every tick of a process that serves, times
\* pass, and the store answers again and again; a pass may still crash or
\* fail any number of times.
BkFairness ==
    /\ WF_bkVars(LeaseExpires)
    /\ \A o \in BackupId \X Kind : WF_bkVars(RetryDelayPasses(o)) /\ WF_bkVars(OperationLeaseExpires(o))
    /\ \A w \in Worker :
         /\ SF_bkVars(RunOnce(w)) /\ SF_bkVars(SecurityStage(w))
         /\ SF_bkVars(StageExpiredUploads(w)) /\ SF_bkVars(StageRetentionPruning(w))
         /\ SF_bkVars(DueBackupOperations(w)) /\ SF_bkVars(BeginAttempt(w)) /\ SF_bkVars(PassEnds(w))
         /\ SF_bkVars(CleanObject(w)) /\ SF_bkVars(CompleteOperation(w))

BkFairSpec == BkSpec /\ BkFairness
-----------------------------------------------------------------------------
(***************************************************************************)
(* Properties.                                                             *)
(***************************************************************************)

\* A sealed backup has all its objects, except one that an upload of the
\* same object took back (PutCiphertext): neither the cleanup of another
\* state of the row nor a deletion in flight removes an object of a sealed
\* backup, and Seal never trusts an object it did not see.
SealedIsKept ==
    \A b \in BackupId : State(b) = "sealed" => ObjectsOf(b) \subseteq objects \cup history.withdrawn

\* Every object in the store belongs to a backup that can still be used, or
\* to an operation that will remove it, unless it was put after the upload
\* had ended.
NoForgottenObject ==
    \A o \in objects \ history.late :
        \/ State(o[1]) \in Uploadable \cup {"sealed"}
        \/ \E k \in Kind : operation[<<o[1], k>>] \in Active

\* A device that holds an active key and a live envelope of a sealed backup
\* can restore it.  The code does not keep this: see README.md, "Refuted
\* statements".
HoldersRestore ==
    \A b \in BackupId, d \in Device :
        (/\ State(b) = "sealed" /\ Authenticated(d) /\ NotRevoked(d)
         /\ \E e \in Epoch : KeyActive(d, e) /\ envelope[<<b, d, e>>] = "live")
            => Restorable(d, b)

\* The quotas of the guard trigger hold at all times, so that retention
\* pruning never finds a backup to remove.
QuotasHold ==
    /\ \A l \in Lineage : Cardinality(SealedIn(l)) <= LineageQuota
    /\ Cardinality(ListSealed) <= AccountQuota
    /\ Prunable = {{}}

\* A backup in deletion has an operation that names it, so that a crash of
\* the request cannot leave it there for good, and no live key envelope
\* outlasts its backup: once deletion or expiry is committed, the root key is
\* gone even while objects remain.
DeletionIsStaged ==
    /\ \A b \in BackupId : State(b) = "deleting" =>
          \E k \in {"delete_backup", "prune_lineage"} : operation[<<b, k>>] \in Active
    /\ \A e \in DOMAIN envelope :
          envelope[e] = "live" => State(e[1]) \in Uploadable \cup {"sealed"}

\* What was destroyed stays destroyed: an envelope never comes back, and a
\* backup that left the sealed state never returns to it.
DestroyedForGood ==
    [][/\ \A e \in DOMAIN envelope : envelope[e] = "destroyed" => envelope'[e] = "destroyed"
       /\ \A b \in BackupId : State(b) \in {"deleting", "deleted", "expired"} =>
            backup'[b].state \in {"deleting", "deleted", "expired"}]_bkVars

\* A pass can get through: no account due for deletion still has a backup
\* row, and the guard lets the uploads that lapsed expire and the backups in
\* deletion become deleted.
Passable ==
    /\ account = "due" => ~HasBackups
    /\ \A b \in DueUploads : GuardPasses(b, backup[b])
    /\ \A b \in BackupId : State(b) = "deleting" => GuardPasses(b, backup[b])

\* When passes can get through and requests stop from some time on, every backup in deletion
\* is deleted and every lapsed upload is cleaned up, whatever crashes,
\* outages and lost leases came before.
MaintenanceCompletes ==
    <>[](Passable /\ request = {}) =>
        /\ \A b \in BackupId :
             /\ (State(b) = "deleting") ~> (State(b) = "deleted")
             /\ (operation[<<b, "expire_upload">>] \in Active) ~> (operation[<<b, "expire_upload">>] = "completed")

\* An account that is due for deletion is deleted.
AccountDeletionCompletes == (account = "due") ~> (account = "disabled")
=============================================================================
