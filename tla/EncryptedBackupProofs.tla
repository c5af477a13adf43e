------------------------ MODULE EncryptedBackupProofs -----------------------
(***************************************************************************)
(* Theorems about EncryptedBackup for every number of backups, devices,    *)
(* objects, requests and maintenance passes.                               *)
(***************************************************************************)
EXTENDS EncryptedBackup, TLAPS

(***************************************************************************)
(* The inductive invariant.                                                *)
(***************************************************************************)
\* The states of a backup that can be filled or restored from
Usable == Uploadable \cup {"sealed"}

\* A row whose clean-up is of this kind has this state.
EndsAs(kind, s) == IF kind = "expire_upload" THEN s = "expired" ELSE s \in {"deleting", "deleted"}

\* Objects that may still be in the store are those of parts not yet removed.
Cleared(b, left) == \A part \in Part \ left : <<b, part>> \notin objects \ history.late

\* An operation is only ever staged for a row that has ended in its way, and a
\* row that does not exist has no envelope.
OperationsFit ==
    /\ \A b \in BackupId, k \in Kind : operation[<<b, k>>] # "none" => EndsAs(k, State(b))
    /\ \A b \in BackupId, d \in Device, e \in Epoch :
          envelope[<<b, d, e>>] # "none" => State(b) # "none"

\* A request in flight is about a row that exists; a seal has only seen objects
\* that are there or were taken back, and a deletion has cleared what it left.
RequestFits(r) ==
    /\ IF r.op = "initiate" THEN r.row.state = "initiated" ELSE State(r.id) # "none"
    /\ r.op = "seal" /\ State(r.id) \in Usable =>
          \A part \in r.seen : <<r.id, part>> \in objects \cup history.withdrawn
    /\ r.op = "delete" => State(r.id) \in {"deleting", "deleted"} /\ Cleared(r.id, r.left)

RequestsFit == \A r \in request : RequestFits(r)

\* A pass cleans up only what an operation was staged for.
PassFits(w) ==
    At(w, "delete") =>
        operation[<<pass[w].id, pass[w].kind>>] # "none" /\ Cleared(pass[w].id, pass[w].left)

PassesFit == \A w \in Worker : PassFits(w)

\* The quotas, without what follows from them for the retention pruning
WithinQuotas ==
    /\ \A l \in Lineage : Cardinality(SealedIn(l)) <= LineageQuota
    /\ Cardinality(ListSealed) <= AccountQuota

BkInv == /\ BkTypeOK /\ OperationsFit /\ RequestsFit /\ PassesFit
         /\ SealedIsKept /\ DeletionIsStaged /\ NoForgottenObject /\ WithinQuotas

USE BackupParameters DEF BackupState, Uploadable, OperationState, Pending, Active, Kind, Epoch

\* The fields of a request, by what it does
LEMMA RequestFields ==
    ASSUME NEW r \in Request
    PROVE  /\ r.id \in BackupId
           /\ r.op \in {"initiate", "put", "check", "mark", "seal", "grant", "delete"}
           /\ r.op = "initiate" => r.row \in Row
           /\ r.op \in {"put", "check", "mark"} =>
                 r \in [op : {"put", "check", "mark"}, id : BackupId, part : Part]
           /\ r.op = "seal" => r \in [op : {"seal"}, id : BackupId, seen : SUBSET Part]
           /\ r.op = "grant" => r \in [op : {"grant"}, id : BackupId, device : Device, epoch : Epoch]
           /\ r.op = "delete" => r \in [op : {"delete"}, id : BackupId, left : SUBSET Part]
  BY Zenon DEF Request

\* The fields of a pass, by where it is
LEMMA PassFields ==
    ASSUME NEW p \in Pass
    PROVE  /\ p.at \in {"idle", "security", "expire", "prune", "select", "begin", "delete"}
           /\ p.at = "begin" => p \in [at : {"begin"}, due : SUBSET (BackupId \X Kind)]
           /\ p.at = "delete" => p \in [at : {"delete"}, due : SUBSET (BackupId \X Kind),
                                        id : BackupId, kind : Kind, left : SUBSET Part]
  BY Zenon DEF Pass

\* The first rows are well typed.
LEMMA InitType == BkInit => BkTypeOK
  BY DEF BkInit, BkTypeOK, Row, Pass

\* What SetState changes: the state of one row
LEMMA StateSet ==
    ASSUME backup \in [BackupId -> Row], NEW b \in BackupId, NEW s \in BackupState
    PROVE  /\ SetState(b, s) \in [BackupId -> Row]
           /\ \A c \in BackupId :
                 /\ SetState(b, s)[c].state = IF c = b THEN s ELSE State(c)
                 /\ SetState(b, s)[c].lineage = backup[c].lineage
  BY ZenonT(40) DEF SetState, State, Row

\* The same for a set of rows
LEMMA StatesSet ==
    ASSUME backup \in [BackupId -> Row], NEW s, NEW end \in BackupState,
           backup' = [b \in BackupId |-> IF b \in s THEN [backup[b] EXCEPT !.state = end] ELSE backup[b]]
    PROVE  /\ backup' \in [BackupId -> Row]
           /\ \A c \in BackupId :
                 /\ State(c)' = IF c \in s THEN end ELSE State(c)
                 /\ backup'[c].lineage = backup[c].lineage
  BY ZenonT(40) DEF State, Row

\* What setting one operation changes
LEMMA OperationSet ==
    ASSUME operation \in [BackupId \X Kind -> OperationState],
           NEW o \in BackupId \X Kind, NEW v \in OperationState
    PROVE  /\ [operation EXCEPT ![o] = v] \in [BackupId \X Kind -> OperationState]
           /\ \A p \in BackupId \X Kind :
                 [operation EXCEPT ![o] = v][p] = IF p = o THEN v ELSE operation[p]
  BY Zenon

\* What a request becomes in its next step is a request.
LEMMA UploadMoves ==
    ASSUME NEW r \in Request, r.op \in {"put", "check"}, NEW op \in {"check", "mark"}
    PROVE  /\ [r EXCEPT !.op = op] \in Request
           /\ [r EXCEPT !.op = op].op = op /\ [r EXCEPT !.op = op].id = r.id
  BY RequestFields, Zenon DEF Request

LEMMA SealMoves ==
    ASSUME NEW r \in Request, r.op = "seal", NEW part \in Part
    PROVE  LET n == [r EXCEPT !.seen = r.seen \cup {part}] IN
           n \in Request /\ n.op = "seal" /\ n.id = r.id /\ n.seen = r.seen \cup {part}
  BY RequestFields, Zenon DEF Request

LEMMA DeletionMoves ==
    ASSUME NEW r \in Request, r.op = "delete", NEW part \in Part
    PROVE  LET n == [r EXCEPT !.left = r.left \ {part}] IN
           n \in Request /\ n.op = "delete" /\ n.id = r.id /\ n.left = r.left \ {part}
  BY RequestFields, Zenon DEF Request

\* A step of a request keeps the types.
LEMMA RequestTypes ==
    ASSUME BkTypeOK, RequestStep PROVE BkTypeOK'
<1>1. PICK r \in request :
        \/ Initiate(r) \/ PutObject(r) \/ PutTruncated(r) \/ PutVerified(r) \/ PutRejected(r)
        \/ MarkUploading(r) \/ Seal(r) \/ AddDeviceEnvelope(r) \/ CompleteDeletion(r) \/ RequestEnds(r)
        \/ \E part \in Part : VerifyObject(r, part) \/ DeleteCiphertext(r, part)
  BY Zenon DEF RequestStep
<1>2. r \in Request
  BY Zenon DEF BkTypeOK
<1> USE <1>2, RequestFields DEF BkTypeOK, apiSame, keysSame, maintenanceSame, End
<1>3. CASE Initiate(r)
  <2>1. CASE Inserts(r)
    <3>1. <<r.id, r.row.source, r.row.epoch>> \in BackupId \X Device \X Epoch
      BY <1>3, Zenon DEF Initiate, Row
    <3>2. QED
      BY <1>3, <2>1, <3>1, ZenonT(40) DEF Initiate
  <2>2. CASE ~Inserts(r)
    BY <1>3, <2>2, Zenon DEF Initiate
  <2>3. QED
    BY <2>1, <2>2, Zenon
<1>4. CASE PutObject(r)
  <2>1. /\ [r EXCEPT !.op = "mark"] \in Request /\ [r EXCEPT !.op = "check"] \in Request
        /\ <<r.id, r.part>> \in BackupId \X Part
    BY <1>4, UploadMoves, Zenon DEF PutObject
  <2>2. QED
    BY <1>4, <2>1, ZenonT(40) DEF PutObject, Replace, Late
<1>5. CASE PutTruncated(r)
  BY <1>5, Zenon DEF PutTruncated
<1>6. CASE PutVerified(r)
  BY <1>6, UploadMoves DEF PutVerified, Replace
<1>7. CASE PutRejected(r)
  BY <1>7, Zenon DEF PutRejected
<1>8. CASE MarkUploading(r)
  BY <1>8, StateSet, Zenon DEF MarkUploading
<1>9. CASE Seal(r)
  BY <1>9, StateSet, Zenon DEF Seal
<1>10. CASE AddDeviceEnvelope(r)
  BY <1>10, Zenon DEF AddDeviceEnvelope
<1>11. CASE CompleteDeletion(r)
  <2>1. backup' \in [BackupId -> Row]
    BY <1>11, StateSet DEF CompleteDeletion
  <2>2. operation' \in [BackupId \X Kind -> OperationState]
    <3> DEFINE o == <<r.id, "delete_backup">>
               v == IF operation[o] \in Active THEN "completed" ELSE operation[o]
    <3>1. o \in BackupId \X Kind /\ v \in OperationState
      BY Zenon
    <3>2. operation' = operation \/ operation' = [operation EXCEPT ![o] = v]
      BY <1>11, Zenon DEF CompleteDeletion
    <3> HIDE DEF o, v
    <3>3. QED
      BY <3>1, <3>2, OperationSet
  <2>3. QED
    BY <1>11, <2>1, <2>2, Zenon DEF CompleteDeletion
<1>12. CASE RequestEnds(r)
  BY <1>12, Zenon DEF RequestEnds
<1>13. ASSUME NEW part \in Part, VerifyObject(r, part) PROVE BkTypeOK'
  <2>1. r.op = "seal" /\ [r EXCEPT !.seen = r.seen \cup {part}] \in Request
    BY <1>13, SealMoves, Zenon DEF VerifyObject
  <2>2. request' = request \ {r} \/ request' = (request \ {r}) \cup {[r EXCEPT !.seen = r.seen \cup {part}]}
    <3>1. CASE HeadCiphertext(r.id, part)
      BY <1>13, <3>1, Zenon DEF VerifyObject, Replace
    <3>2. CASE ~HeadCiphertext(r.id, part)
      BY <1>13, <3>2, Zenon DEF VerifyObject, End
    <3>3. QED
      BY <3>1, <3>2, Zenon
  <2>3. request' \subseteq Request
    <3> DEFINE n == [r EXCEPT !.seen = r.seen \cup {part}]
    <3>1. n \in Request /\ (request' = request \ {r} \/ request' = (request \ {r}) \cup {n})
      BY <2>1, <2>2, Zenon
    <3> HIDE DEF n
    <3>2. QED
      BY <3>1, ZenonT(40)
  <2>4. QED
    BY <1>13, <2>3, Zenon DEF VerifyObject
<1>14. ASSUME NEW part \in Part, DeleteCiphertext(r, part) PROVE BkTypeOK'
  <2>1. r.op = "delete" /\ [r EXCEPT !.left = r.left \ {part}] \in Request
    BY <1>14, DeletionMoves, Zenon DEF DeleteCiphertext
  <2>2. QED
    BY <1>14, <2>1, Zenon DEF DeleteCiphertext, Replace
<1>15. QED
  BY <1>1, <1>3, <1>4, <1>5, <1>6, <1>7, <1>8, <1>9, <1>10, <1>11, <1>12, <1>13, <1>14, Zenon

\* A request that begins keeps the types.
LEMMA NewRequestTypes ==
    ASSUME BkTypeOK, NewRequest PROVE BkTypeOK'
<1> USE DEF BkTypeOK, apiSame, keysSame, maintenanceSame
<1>1. ASSUME NEW d \in Device, RegisterDevice(d) PROVE BkTypeOK'
  <2>1. PICK e \in Epoch : RegisterBackupDevice(d, e)
    BY <1>1, Zenon DEF RegisterDevice
  <2>2. <<d, e>> \in Device \X Epoch /\ registration[d].revision + 1 \in 0..MaxRevision
    BY <2>1 DEF RegisterBackupDevice
  <2>3. QED
    BY <2>1, <2>2 DEF RegisterBackupDevice
<1>2. ASSUME NEW d \in Device, RevokeAuthDevice(d) PROVE BkTypeOK'
  BY <1>2, Zenon DEF RevokeAuthDevice
<1>3. ASSUME NEW d \in Device, NEW caller \in Device, RevokeDevice(caller, d) PROVE BkTypeOK'
  BY <1>3, Zenon DEF RevokeDevice, RevokeBackupDevice, Destroy
<1>4. ASSUME NEW b \in BackupId, NEW d \in Device, NEW e \in Epoch, NEW l \in Lineage,
             NEW p \in BackupId \cup {"none"},
             InitiateCheck(b, [state |-> "initiated", source |-> d, epoch |-> e, lineage |-> l, parent |-> p])
      PROVE  BkTypeOK'
  BY <1>4 DEF InitiateCheck, Request, Row
<1>5. ASSUME NEW b \in BackupId, NEW part \in Part, UploadCheck(b, part) PROVE BkTypeOK'
  BY <1>5 DEF UploadCheck, Request
<1>6. ASSUME NEW b \in BackupId, SealCheck(b) PROVE BkTypeOK'
  BY <1>6 DEF SealCheck, Request
<1>7. ASSUME NEW b \in BackupId, NEW caller \in Device, NEW d \in Device, NEW e \in Epoch,
             GrantCheck(caller, b, d, e)
      PROVE  BkTypeOK'
  BY <1>7 DEF GrantCheck, Request
<1>8. ASSUME NEW b \in BackupId, NEW d \in Device, Delete(d, b) PROVE BkTypeOK'
  <2>1. <<b, "delete_backup">> \in BackupId \X Kind /\ [op |-> "delete", id |-> b, left |-> Part] \in Request
    BY Zenon DEF Request
  <2>2. /\ backup' = SetState(b, "deleting") /\ envelope' = Destroy(EnvelopesOf({b}))
        /\ operation' = [operation EXCEPT ![<<b, "delete_backup">>] = "due"]
        /\ request' = request \cup {[op |-> "delete", id |-> b, left |-> Part]}
    BY <1>8, Zenon DEF Delete, BeginDeletion, Staged
  <2>3. backup' \in [BackupId -> Row]
    BY <2>2, StateSet, Zenon
  <2>4. operation' \in [BackupId \X Kind -> OperationState]
    BY <2>1, <2>2, Zenon
  <2>5. envelope' \in [BackupId \X Device \X Epoch -> {"none", "live", "destroyed"}]
    BY <2>2, Zenon DEF Destroy
  <2>6. request' \subseteq Request
    BY <2>1, <2>2, Zenon
  <2>7. QED
    BY <1>8, <2>3, <2>4, <2>5, <2>6, Zenon DEF Delete, BeginDeletion
<1>9. QED
  BY <1>1, <1>2, <1>3, <1>4, <1>5, <1>6, <1>7, <1>8, Zenon DEF NewRequest

\* A pass that goes on, and one that returns
LEMMA PassGoes ==
    ASSUME BkTypeOK, NEW w \in Worker, NEW p \in Pass, Goto(w, p)
    PROVE  /\ pass' \in [Worker -> Pass] /\ lease' \in Worker \cup {"free"}
           /\ \A v \in Worker : pass'[v] = IF v = w THEN p ELSE pass[v]
  BY Zenon DEF BkTypeOK, Goto

LEMMA PassReturns ==
    ASSUME BkTypeOK, NEW w \in Worker, Return(w)
    PROVE  /\ pass' \in [Worker -> Pass] /\ lease' \in Worker \cup {"free"}
           /\ \A v \in Worker : pass'[v] = IF v = w THEN [at |-> "idle"] ELSE pass[v]
  BY ZenonT(40) DEF BkTypeOK, Return, Pass

\* A step of a maintenance pass keeps the types.
LEMMA PassTypes ==
    ASSUME BkTypeOK, NEW w \in Worker, PassStep(w) \/ PassFault(w) PROVE BkTypeOK'
<1> USE DEF BkTypeOK, rowsSame, outsideSame, keysSame, At
<1>1. /\ [at |-> "idle"] \in Pass /\ [at |-> "security"] \in Pass /\ [at |-> "expire"] \in Pass
      /\ [at |-> "prune"] \in Pass /\ [at |-> "select"] \in Pass
      /\ \A due \in SUBSET (BackupId \X Kind) : [at |-> "begin", due |-> due] \in Pass
      /\ pass[w] \in Pass
  BY Zenon DEF Pass
<1>2. CASE RunOnce(w)
  BY <1>1, <1>2, Zenon DEF RunOnce, Acquire
<1>3. CASE SecurityStage(w)
  <2>1. pass' \in [Worker -> Pass] /\ lease' \in Worker \cup {"free"}
    BY <1>1, <1>3, PassGoes, PassReturns, Zenon DEF SecurityStage
  <2>2. QED
    BY <1>3, <2>1 DEF SecurityStage, FinalizeDeletion
<1>4. CASE StageExpiredUploads(w)
  <2>1. pass' \in [Worker -> Pass] /\ lease' \in Worker \cup {"free"}
    BY <1>1, <1>4, PassGoes, PassReturns, Zenon DEF StageExpiredUploads
  <2>2. backup' \in [BackupId -> Row]
    BY <1>4, StatesSet, Zenon DEF StageExpiredUploads
  <2>3. envelope' \in [BackupId \X Device \X Epoch -> {"none", "live", "destroyed"}]
    BY <1>4 DEF StageExpiredUploads, Destroy
  <2>4. operation' \in [BackupId \X Kind -> OperationState]
    BY <1>4 DEF StageExpiredUploads
  <2>5. QED
    BY <1>4, <2>1, <2>2, <2>3, <2>4, Zenon DEF StageExpiredUploads
<1>5. CASE StageRetentionPruning(w)
  <2>1. pass' \in [Worker -> Pass] /\ lease' \in Worker \cup {"free"}
    BY <1>1, <1>5, PassGoes, PassReturns, Zenon DEF StageRetentionPruning
  <2>2. backup' \in [BackupId -> Row]
    BY <1>5, StatesSet, Zenon DEF StageRetentionPruning
  <2>3. envelope' \in [BackupId \X Device \X Epoch -> {"none", "live", "destroyed"}]
    BY <1>5 DEF StageRetentionPruning, Destroy
  <2>4. operation' \in [BackupId \X Kind -> OperationState]
    BY <1>5 DEF StageRetentionPruning
  <2>5. QED
    BY <1>5, <2>1, <2>2, <2>3, <2>4, Zenon DEF StageRetentionPruning
<1>6. CASE DueBackupOperations(w)
  BY <1>1, <1>6, PassGoes, Zenon DEF DueBackupOperations
<1>7. CASE BeginAttempt(w)
  <2>1. PICK o \in pass[w].due :
          IF operation[o] \in Active
          THEN /\ operation' = [operation EXCEPT ![o] = "running"]
               /\ Goto(w, [at |-> "delete", due |-> pass[w].due \ {o},
                           id |-> o[1], kind |-> o[2], left |-> Part])
          ELSE Return(w) /\ UNCHANGED operation
    BY <1>7, Zenon DEF BeginAttempt
  <2>2. o \in BackupId \X Kind /\ pass[w].due \in SUBSET (BackupId \X Kind)
    BY <1>1, <1>7, PassFields, Zenon DEF BeginAttempt
  <2>3. [at |-> "delete", due |-> pass[w].due \ {o}, id |-> o[1], kind |-> o[2], left |-> Part] \in Pass
    BY <2>2, Zenon DEF Pass
  <2>4. operation' \in [BackupId \X Kind -> OperationState]
    BY <2>1, <2>2, OperationSet
  <2>5. pass' \in [Worker -> Pass] /\ lease' \in Worker \cup {"free"}
    BY <1>1, <2>1, <2>3, PassGoes, PassReturns, Zenon
  <2>6. QED
    BY <1>7, <2>4, <2>5, Zenon DEF BeginAttempt
<1>8. CASE PassEnds(w)
  BY <1>1, <1>8, PassReturns, Zenon DEF PassEnds
<1>9. CASE CleanObject(w)
  <2>1. PICK part \in pass[w].left :
          /\ objects' = objects \ {<<pass[w].id, part>>}
          /\ history' = [withdrawn |-> history.withdrawn, late |-> history.late \ {<<pass[w].id, part>>}]
          /\ Goto(w, [pass[w] EXCEPT !.left = pass[w].left \ {part}])
    BY <1>9, Zenon DEF CleanObject
  <2>2. [pass[w] EXCEPT !.left = pass[w].left \ {part}] \in Pass
    BY <1>1, <1>9, PassFields, ZenonT(40) DEF CleanObject, Pass
  <2>3. QED
    BY <1>9, <2>1, <2>2, PassGoes, Zenon DEF CleanObject
<1>10. CASE CompleteOperation(w)
  <2>1. /\ pass[w].id \in BackupId /\ <<pass[w].id, pass[w].kind>> \in BackupId \X Kind
        /\ [at |-> "begin", due |-> pass[w].due] \in Pass
    BY <1>1, <1>10, PassFields, ZenonT(40) DEF CompleteOperation
  <2>2. backup' \in [BackupId -> Row]
    BY <1>10, <2>1, StateSet DEF CompleteOperation
  <2>3. operation' \in [BackupId \X Kind -> OperationState]
    <3> DEFINE o == <<pass[w].id, pass[w].kind>>
    <3>1. operation' = operation \/ operation' = [operation EXCEPT ![o] = "completed"]
      BY <1>10, Zenon DEF CompleteOperation
    <3>2. o \in BackupId \X Kind
      BY <2>1, Zenon
    <3> HIDE DEF o
    <3>3. QED
      BY <3>1, <3>2, OperationSet
  <2>4. pass' \in [Worker -> Pass] /\ lease' \in Worker \cup {"free"}
    BY <1>10, <2>1, PassGoes, PassReturns, Zenon DEF CompleteOperation
  <2>5. QED
    BY <1>10, <2>2, <2>3, <2>4, Zenon DEF CompleteOperation
<1>11. CASE CleanFails(w)
  BY <1>1, <1>11, PassFields, PassReturns, Zenon DEF CleanFails
<1>12. CASE PassCrashes(w)
  BY <1>1, <1>12, Zenon DEF PassCrashes
<1>13. QED
  BY <1>2, <1>3, <1>4, <1>5, <1>6, <1>7, <1>8, <1>9, <1>10, <1>11, <1>12, Zenon DEF PassStep, PassFault

\* Every step keeps the types.
LEMMA TypeStep ==
    ASSUME BkTypeOK, BkNext PROVE BkTypeOK'
<1> USE DEF BkTypeOK, rowsSame, apiSame, keysSame, outsideSame, maintenanceSame
<1>1. CASE LeaseExpires
  BY <1>1, Zenon DEF LeaseExpires
<1>2. CASE AccountStep
  BY <1>2, Zenon DEF AccountStep
<1>3. ASSUME NEW b \in BackupId, UploadLapses(b) \/ SelectVersion(b) PROVE BkTypeOK'
  BY <1>3, ZenonT(40) DEF UploadLapses, SelectVersion
<1>4. ASSUME NEW o \in DOMAIN operation, RetryDelayPasses(o) \/ OperationLeaseExpires(o) PROVE BkTypeOK'
  <2>1. o \in BackupId \X Kind /\ \E v \in {"due", "stale"} : operation' = [operation EXCEPT ![o] = v]
    BY <1>4, Zenon DEF RetryDelayPasses, OperationLeaseExpires
  <2>2. operation' \in [BackupId \X Kind -> OperationState]
    BY <2>1, Zenon
  <2>3. QED
    BY <1>4, <2>2, Zenon DEF RetryDelayPasses, OperationLeaseExpires
<1>5. QED
  BY <1>1, <1>2, <1>3, <1>4, RequestTypes, NewRequestTypes, PassTypes, Zenon DEF BkNext, Environment

(***************************************************************************)
(* What a step may do to each table, to the store, and to what is in       *)
(* flight.  Each action is shown to move in these ways once; that the      *)
(* invariant is kept then follows without looking at the actions again.    *)
(***************************************************************************)
RowMoves(b) ==
    \/ backup'[b] = backup[b]
    \/ State(b) = "none" /\ State(b)' = "initiated"
    \/ /\ backup'[b].lineage = backup[b].lineage
       /\ \/ State(b) \in Uploadable /\ State(b)' = "uploading"
          \/ /\ State(b) \in Uploadable /\ State(b)' = "sealed"
             /\ ObjectsOf(b) \subseteq objects \cup history.withdrawn
          \/ State(b) \in Uploadable /\ State(b)' = "expired" /\ operation'[<<b, "expire_upload">>] \in Active
          \/ /\ State(b) \in {"sealed", "deleting"} /\ State(b)' = "deleting"
             /\ \E k \in {"delete_backup", "prune_lineage"} : operation'[<<b, k>>] \in Active
          \/ State(b) = "deleting" /\ State(b)' = "deleted" /\ Cleared(b, {})

RowsMove == \A b \in BackupId : RowMoves(b)

OperationMoves(b, k) ==
    LET old == operation[<<b, k>>]  new == operation'[<<b, k>>] IN
    \/ new = old
    \/ old \in Active /\ new \in Active
    \/ new = "due" /\ EndsAs(k, State(b)')
    \/ old # "none" /\ new = "completed" /\ Cleared(b, {}) /\ State(b)' # "deleting"

OperationsMove == \A b \in BackupId, k \in Kind : OperationMoves(b, k)

EnvelopeMoves(b, d, e) ==
    LET old == envelope[<<b, d, e>>]  new == envelope'[<<b, d, e>>] IN
    \/ new = old /\ (new = "live" => State(b)' \in Usable)
    \/ old = "none" /\ new = "live" /\ State(b)' \in Usable
    \/ old = "live" /\ new = "destroyed"

EnvelopesMove == \A b \in BackupId, d \in Device, e \in Epoch : EnvelopeMoves(b, d, e)

StoreMoves ==
    \A b \in BackupId, part \in Part :
        /\ <<b, part>> \in objects' \ history'.late =>
              \/ <<b, part>> \in objects \ history.late
              \/ State(b) \in Uploadable /\ State(b)' \in Uploadable
        /\ <<b, part>> \in objects \cup history.withdrawn =>
              \/ <<b, part>> \in objects' \cup history'.withdrawn
              \/ State(b)' \notin Usable

RequestsMove == \A r \in request' : r \in request \/ RequestFits(r)'

PassesMove == \A w \in Worker : pass'[w] = pass[w] \/ PassFits(w)'

Moves == RowsMove /\ OperationsMove /\ EnvelopesMove /\ StoreMoves /\ RequestsMove /\ PassesMove

\* A live envelope, by its backup, device and epoch
LEMMA LiveEnvelope ==
    ASSUME BkInv, NEW b \in BackupId, NEW d \in Device, NEW e \in Epoch, envelope[<<b, d, e>>] = "live"
    PROVE  State(b) \in Usable
<1>1. <<b, d, e>> \in DOMAIN envelope /\ <<b, d, e>>[1] = b
  BY Zenon DEF BkInv, BkTypeOK
<1>2. QED
  BY <1>1, Zenon DEF BkInv, DeletionIsStaged, Usable

\* What setting one envelope changes
LEMMA EnvelopeSet ==
    ASSUME BkTypeOK, NEW b \in BackupId, NEW d \in Device, NEW e \in Epoch
    PROVE  \A c \in BackupId, g \in Device, f \in Epoch :
               [envelope EXCEPT ![<<b, d, e>>] = "live"][<<c, g, f>>] =
                   IF c = b /\ g = d /\ f = e THEN "live" ELSE envelope[<<c, g, f>>]
  BY Zenon DEF BkTypeOK

\* What is left alone moves.
LEMMA Still ==
    ASSUME BkInv
    PROVE  /\ UNCHANGED backup => RowsMove
           /\ UNCHANGED operation => OperationsMove
           /\ UNCHANGED <<backup, envelope>> => EnvelopesMove
           /\ UNCHANGED <<objects, history>> => StoreMoves
           /\ request' \subseteq request => RequestsMove
           /\ UNCHANGED pass => PassesMove
<1>1. UNCHANGED backup => RowsMove
  BY Zenon DEF RowsMove, RowMoves
<1>2. UNCHANGED operation => OperationsMove
  BY Zenon DEF OperationsMove, OperationMoves
<1>3. UNCHANGED <<backup, envelope>> => EnvelopesMove
  BY LiveEnvelope, Zenon DEF EnvelopesMove, EnvelopeMoves, State
<1>4. UNCHANGED <<objects, history>> => StoreMoves
  BY Zenon DEF StoreMoves
<1>5. request' \subseteq request => RequestsMove
  BY Zenon DEF RequestsMove
<1>6. UNCHANGED pass => PassesMove
  BY Zenon DEF PassesMove
<1>7. QED
  BY <1>1, <1>2, <1>3, <1>4, <1>5, <1>6, Zenon

\* So do envelopes that are left alone while their backups stay usable.
LEMMA EnvelopesStay ==
    ASSUME BkInv, UNCHANGED envelope,
           \A b \in BackupId : State(b) \in Usable => State(b)' \in Usable
    PROVE  EnvelopesMove
  BY LiveEnvelope, Zenon DEF EnvelopesMove, EnvelopeMoves

\* The steps of a request that leave rows and operations alone
LEMMA UploadStep ==
    ASSUME BkInv, NEW r \in request,
           \/ PutObject(r) \/ PutTruncated(r) \/ PutVerified(r) \/ PutRejected(r) \/ RequestEnds(r)
    PROVE  Moves
<1> USE DEF apiSame, keysSame, maintenanceSame, End, Moves
<1>1. r \in Request /\ RequestFits(r)
  BY Zenon DEF BkInv, BkTypeOK, RequestsFit
<1>2. CASE PutObject(r)
  <2>1. RowsMove /\ OperationsMove /\ EnvelopesMove /\ PassesMove
    BY <1>2, Still, Zenon DEF PutObject
  <2>2. StoreMoves
    BY <1>2, Zenon DEF PutObject, StoreMoves, Late, State, BkInv, BkTypeOK
  <2>3. PICK op \in {"check", "mark"} : request' = (request \ {r}) \cup {[r EXCEPT !.op = op]}
    BY <1>2, Zenon DEF PutObject, Replace
  <2>4. r.op = "put"
    BY <1>2, Zenon DEF PutObject
  <2>5. RequestsMove
    <3>1. [r EXCEPT !.op = op].op = op /\ [r EXCEPT !.op = op].id = r.id
      BY <1>1, <2>4, UploadMoves, Zenon
    <3>2. State(r.id)' # "none"
      BY <1>1, <1>2, <2>4, Zenon DEF PutObject, RequestFits, State
    <3>3. RequestFits([r EXCEPT !.op = op])'
      BY <3>1, <3>2, Zenon DEF RequestFits
    <3>4. QED
      BY <2>3, <3>3, Zenon DEF RequestsMove
  <2>6. QED
    BY <2>1, <2>2, <2>5, Zenon
<1>3. CASE PutVerified(r)
  <2>1. RowsMove /\ OperationsMove /\ EnvelopesMove /\ StoreMoves /\ PassesMove
    BY <1>3, Still, Zenon DEF PutVerified
  <2>2. RequestsMove
    <3>1. r.op = "check" /\ request' = (request \ {r}) \cup {[r EXCEPT !.op = "mark"]}
      BY <1>3, Zenon DEF PutVerified, Replace
    <3>2. [r EXCEPT !.op = "mark"].op = "mark" /\ [r EXCEPT !.op = "mark"].id = r.id
      BY <1>1, <3>1, UploadMoves, Zenon
    <3>3. State(r.id)' # "none"
      BY <1>1, <1>3, <3>1, Zenon DEF PutVerified, RequestFits, State
    <3>4. RequestFits([r EXCEPT !.op = "mark"])'
      BY <3>2, <3>3, Zenon DEF RequestFits
    <3>5. QED
      BY <3>1, <3>4, Zenon DEF RequestsMove
  <2>3. QED
    BY <2>1, <2>2, Zenon
<1>4. CASE PutTruncated(r)
  <2>1. RowsMove /\ OperationsMove /\ EnvelopesMove /\ RequestsMove /\ PassesMove
    BY <1>4, Still, Zenon DEF PutTruncated
  <2>2. StoreMoves
    BY <1>4, Zenon DEF PutTruncated, StoreMoves
  <2>3. QED
    BY <2>1, <2>2, Zenon
<1>5. CASE PutRejected(r)
  <2>1. RowsMove /\ OperationsMove /\ EnvelopesMove /\ RequestsMove /\ PassesMove
    BY <1>5, Still, Zenon DEF PutRejected
  <2>2. StoreMoves
    BY <1>5, Zenon DEF PutRejected, StoreMoves
  <2>3. QED
    BY <2>1, <2>2, Zenon
<1>6. CASE RequestEnds(r)
  BY <1>6, Still, Zenon DEF RequestEnds
<1>7. QED
  BY <1>2, <1>3, <1>4, <1>5, <1>6, Zenon

\* Initiate inserts a row that was not there, with the envelope of its device.
LEMMA InitiateMoves ==
    ASSUME BkInv, NEW r \in request, Initiate(r) PROVE Moves
<1> USE DEF apiSame, keysSame, maintenanceSame, End
<1>1. r \in Request /\ r.row \in Row /\ r.id \in BackupId /\ r.row.state = "initiated"
  BY RequestFields, Zenon DEF BkInv, BkTypeOK, RequestsFit, RequestFits, Initiate
<1>2. OperationsMove /\ StoreMoves /\ RequestsMove /\ PassesMove
  BY Still, Zenon DEF Initiate
<1>3. CASE ~Inserts(r)
  BY <1>2, <1>3, Still, Zenon DEF Initiate, Moves
<1>4. CASE Inserts(r)
  <2>1. /\ \A b \in BackupId : backup'[b] = IF b = r.id THEN r.row ELSE backup[b]
        /\ State(r.id) = "none"
    BY <1>1, <1>4, ZenonT(40) DEF Initiate, Inserts, BkInv, BkTypeOK
  <2>2. RowsMove
    BY <1>1, <2>1, Zenon DEF RowsMove, RowMoves, State
  <2>3. ASSUME NEW b \in BackupId, NEW d \in Device, NEW e \in Epoch PROVE EnvelopeMoves(b, d, e)
    <3>1. envelope'[<<b, d, e>>] = IF b = r.id /\ d = r.row.source /\ e = r.row.epoch
                                   THEN "live" ELSE envelope[<<b, d, e>>]
      <4>1. PICK dev \in Device, n \in Epoch : dev = r.row.source /\ n = r.row.epoch
        BY <1>1, Zenon DEF Row
      <4>2. envelope' = [envelope EXCEPT ![<<r.id, dev, n>>] = "live"]
        BY <1>4, <4>1, Zenon DEF Initiate
      <4>3. QED
        BY <1>1, <4>1, <4>2, EnvelopeSet DEF BkInv
    <3>2. b = r.id => envelope[<<b, d, e>>] = "none"
      BY <2>1, Zenon DEF BkInv, OperationsFit
    <3>3. b # r.id /\ envelope[<<b, d, e>>] = "live" => State(b) \in Usable
      BY LiveEnvelope, Zenon
    <3>4. QED
      BY <1>1, <2>1, <3>1, <3>2, <3>3, Zenon DEF EnvelopeMoves, State, Usable
  <2>4. QED
    BY <1>2, <2>2, <2>3, Zenon DEF Moves, EnvelopesMove
<1>5. QED
  BY <1>3, <1>4, Zenon

\* MarkUploading, Seal and CompleteDeletion change one row, VerifyObject and
\* DeleteCiphertext ask the store, AddDeviceEnvelope writes an envelope.
LEMMA RowStep ==
    ASSUME BkInv, NEW r \in request, MarkUploading(r) \/ Seal(r) \/ CompleteDeletion(r)
    PROVE  Moves
<1> USE DEF apiSame, keysSame, maintenanceSame, End, Moves
<1>1. r \in Request /\ RequestFits(r) /\ r.id \in BackupId /\ BkTypeOK /\ backup \in [BackupId -> Row]
  BY RequestFields, Zenon DEF BkInv, BkTypeOK, RequestsFit
<1>2. CASE MarkUploading(r)
  <2>1. OperationsMove /\ StoreMoves /\ RequestsMove /\ PassesMove
    BY <1>2, Still, Zenon DEF MarkUploading
  <2>2. CASE UNCHANGED backup
    BY <1>2, <2>1, <2>2, Still, Zenon DEF MarkUploading
  <2>3. CASE State(r.id) \in Uploadable /\ backup' = SetState(r.id, "uploading")
    <3>1. \A c \in BackupId : /\ State(c)' = IF c = r.id THEN "uploading" ELSE State(c)
                              /\ backup'[c].lineage = backup[c].lineage
                              /\ c # r.id => backup'[c] = backup[c]
      BY <1>1, <2>3, StateSet DEF State, SetState
    <3>2. RowsMove
      BY <2>3, <3>1, Zenon DEF RowsMove, RowMoves
    <3>3. EnvelopesMove
      BY <1>2, <3>1, EnvelopesStay, Zenon DEF MarkUploading, Usable
    <3>4. QED
      BY <2>1, <3>2, <3>3, Zenon
  <2>4. QED
    BY <1>2, <2>2, <2>3, Zenon DEF MarkUploading
<1>3. CASE Seal(r)
  <2>1. OperationsMove /\ StoreMoves /\ RequestsMove /\ PassesMove
    BY <1>3, Still, Zenon DEF Seal
  <2>2. CASE UNCHANGED backup
    BY <1>3, <2>1, <2>2, Still, Zenon DEF Seal
  <2>3. CASE State(r.id) \in Uploadable /\ backup' = SetState(r.id, "sealed")
    <3>1. \A c \in BackupId : /\ State(c)' = IF c = r.id THEN "sealed" ELSE State(c)
                              /\ backup'[c].lineage = backup[c].lineage
                              /\ c # r.id => backup'[c] = backup[c]
      BY <1>1, <2>3, StateSet DEF State, SetState
    <3>2. ObjectsOf(r.id) \subseteq objects \cup history.withdrawn
      BY <1>1, <1>3, <2>3 DEF Seal, RequestFits, ObjectsOf, Usable
    <3>3. RowsMove
      BY <2>3, <3>1, <3>2, Zenon DEF RowsMove, RowMoves
    <3>4. EnvelopesMove
      BY <1>3, <3>1, EnvelopesStay, Zenon DEF Seal, Usable
    <3>5. QED
      BY <2>1, <3>3, <3>4, Zenon
  <2>4. QED
    BY <1>3, <2>2, <2>3, Zenon DEF Seal
<1>4. CASE CompleteDeletion(r)
  <2> DEFINE o == <<r.id, "delete_backup">>
             v == IF operation[o] \in Active THEN "completed" ELSE operation[o]
  <2>1. StoreMoves /\ RequestsMove /\ PassesMove
    BY <1>4, Still, Zenon DEF CompleteDeletion
  <2>2. State(r.id) \in {"deleting", "deleted"} /\ Cleared(r.id, {})
    BY <1>1, <1>4, Zenon DEF CompleteDeletion, RequestFits
  <2>3. CASE UNCHANGED <<backup, operation>>
    BY <1>4, <2>1, <2>3, Still, Zenon DEF CompleteDeletion
  <2>4. CASE /\ backup' = IF State(r.id) = "deleting" THEN SetState(r.id, "deleted") ELSE backup
             /\ operation' = [operation EXCEPT ![o] = v]
    <3>1. \A c \in BackupId : /\ State(c)' = IF c = r.id THEN "deleted" ELSE State(c)
                              /\ backup'[c].lineage = backup[c].lineage
                              /\ c # r.id => backup'[c] = backup[c]
      <4>1. CASE State(r.id) = "deleting"
        <5>1. backup' = SetState(r.id, "deleted")
          BY <2>4, <4>1, Zenon
        <5>2. QED
          BY <1>1, <5>1, StateSet DEF State, SetState
      <4>2. CASE State(r.id) = "deleted"
        BY <2>4, <4>2, Zenon DEF State
      <4>3. QED
        BY <2>2, <4>1, <4>2, Zenon
    <3>2. RowsMove
      BY <2>2, <2>4, <3>1, Zenon DEF RowsMove, RowMoves
    <3>3. EnvelopesMove
      BY <1>4, <2>2, <3>1, EnvelopesStay, Zenon DEF CompleteDeletion, Usable
    <3>4. \A b \in BackupId, k \in Kind :
             operation'[<<b, k>>] = IF b = r.id /\ k = "delete_backup" THEN v ELSE operation[<<b, k>>]
      BY <1>1, <2>4, Zenon DEF BkTypeOK
    <3>5. OperationsMove
      BY <2>2, <3>1, <3>4, ZenonT(40) DEF OperationsMove, OperationMoves
    <3>6. QED
      BY <2>1, <3>2, <3>3, <3>5, Zenon
  <2>5. QED
    BY <1>4, <2>3, <2>4, Zenon DEF CompleteDeletion
<1>5. QED
  BY <1>2, <1>3, <1>4, Zenon

LEMMA AskStep ==
    ASSUME BkInv, NEW r \in request, NEW part \in Part,
           VerifyObject(r, part) \/ DeleteCiphertext(r, part)
    PROVE  Moves
<1> USE DEF apiSame, keysSame, maintenanceSame, End, Moves
<1>1. r \in Request /\ RequestFits(r) /\ r.id \in BackupId /\ BkTypeOK
  BY RequestFields, Zenon DEF BkInv, BkTypeOK, RequestsFit
<1>2. CASE VerifyObject(r, part)
  <2>1. RowsMove /\ OperationsMove /\ EnvelopesMove /\ StoreMoves /\ PassesMove
    BY <1>2, Still, Zenon DEF VerifyObject
  <2>2. CASE End(r)
    BY <2>1, <2>2, Still, Zenon
  <2>3. CASE HeadCiphertext(r.id, part) /\ Replace(r, [r EXCEPT !.seen = r.seen \cup {part}])
    <3> DEFINE n == [r EXCEPT !.seen = r.seen \cup {part}]
    <3>1. r.op = "seal" /\ n.op = "seal" /\ n.id = r.id /\ n.seen = r.seen \cup {part}
      BY <1>1, <1>2, SealMoves, Zenon DEF VerifyObject
    <3> HIDE DEF n
    <3>2. RequestFits(n)'
      BY <1>1, <1>2, <2>3, <3>1, Zenon DEF VerifyObject, RequestFits, HeadCiphertext, State
    <3>3. RequestsMove
      BY <2>3, <3>2, Zenon DEF Replace, RequestsMove, n
    <3>4. QED
      BY <2>1, <3>3, Zenon
  <2>4. QED
    BY <1>2, <2>2, <2>3, Zenon DEF VerifyObject
<1>3. CASE DeleteCiphertext(r, part)
  <2>1. RowsMove /\ OperationsMove /\ EnvelopesMove /\ PassesMove
    BY <1>3, Still, Zenon DEF DeleteCiphertext
  <2> DEFINE n == [r EXCEPT !.left = r.left \ {part}]
  <2>2. r.op = "delete" /\ n.op = "delete" /\ n.id = r.id /\ n.left = r.left \ {part}
    BY <1>1, <1>3, DeletionMoves, Zenon DEF DeleteCiphertext
  <2>3. State(r.id)' \in {"deleting", "deleted"}
    BY <1>1, <1>3, <2>2, Zenon DEF DeleteCiphertext, RequestFits, State
  <2>4. StoreMoves
    BY <1>3, <2>3, Zenon DEF DeleteCiphertext, StoreMoves, Usable
  <2>5. request' = (request \ {r}) \cup {n}
    BY <1>3, Zenon DEF DeleteCiphertext, Replace
  <2> HIDE DEF n
  <2>6. Cleared(r.id, r.left \ {part})'
    BY <1>1, <1>3, <2>2, Zenon DEF DeleteCiphertext, RequestFits, Cleared
  <2>7. RequestFits(n)'
    BY <2>2, <2>3, <2>6, Zenon DEF RequestFits
  <2>8. RequestsMove
    BY <2>5, <2>7, Zenon DEF RequestsMove
  <2>9. QED
    BY <2>1, <2>4, <2>8, Zenon
<1>4. QED
  BY <1>2, <1>3, Zenon

LEMMA GrantMoves ==
    ASSUME BkInv, NEW r \in request, AddDeviceEnvelope(r) PROVE Moves
<1> USE DEF apiSame, keysSame, maintenanceSame, End, Moves
<1>0. r \in Request /\ r.id \in BackupId /\ BkTypeOK
  BY RequestFields, Zenon DEF BkInv, BkTypeOK
<1>1. RowsMove /\ OperationsMove /\ StoreMoves /\ RequestsMove /\ PassesMove
  BY Still, Zenon DEF AddDeviceEnvelope
<1>2. CASE UNCHANGED envelope
  BY <1>1, <1>2, Still, Zenon DEF AddDeviceEnvelope
<1>3. CASE /\ State(r.id) = "sealed" /\ envelope[<<r.id, r.device, r.epoch>>] = "none"
           /\ envelope' = [envelope EXCEPT ![<<r.id, r.device, r.epoch>>] = "live"]
  <2>1. PICK dev \in Device, n \in Epoch : dev = r.device /\ n = r.epoch
    BY <1>0, RequestFields, Zenon DEF AddDeviceEnvelope
  <2>2. ASSUME NEW b \in BackupId, NEW d \in Device, NEW e \in Epoch PROVE EnvelopeMoves(b, d, e)
    <3>1. envelope' = [envelope EXCEPT ![<<r.id, dev, n>>] = "live"]
      BY <1>3, <2>1, Zenon
    <3>2. envelope'[<<b, d, e>>] = IF b = r.id /\ d = dev /\ e = n THEN "live" ELSE envelope[<<b, d, e>>]
      BY <1>0, <3>1, EnvelopeSet
    <3>3. State(b)' = State(b)
      BY Zenon DEF AddDeviceEnvelope, State
    <3>4. QED
      BY <1>3, <2>1, <3>2, <3>3, LiveEnvelope, Zenon DEF EnvelopeMoves, Usable
  <2>3. QED
    BY <1>1, <2>2, Zenon DEF EnvelopesMove
<1>4. QED
  BY <1>2, <1>3, Zenon DEF AddDeviceEnvelope

\* The envelopes of some backups are destroyed.
LEMMA EnvelopesEnd ==
    ASSUME BkInv, NEW ids \in SUBSET BackupId, envelope' = Destroy(EnvelopesOf(ids)),
           \A b \in BackupId \ ids : State(b)' = State(b)
    PROVE  EnvelopesMove
<1>1. ASSUME NEW b \in BackupId, NEW d \in Device, NEW e \in Epoch PROVE EnvelopeMoves(b, d, e)
  <2>1. <<b, d, e>> \in DOMAIN envelope /\ <<b, d, e>>[1] = b
    BY Zenon DEF BkInv, BkTypeOK
  <2>2. envelope'[<<b, d, e>>] = IF envelope[<<b, d, e>>] = "live" /\ b \in ids
                                 THEN "destroyed" ELSE envelope[<<b, d, e>>]
    BY <2>1, Zenon DEF Destroy, EnvelopesOf
  <2>3. QED
    BY <2>2, LiveEnvelope, Zenon DEF EnvelopeMoves
<1>2. QED
  BY <1>1, Zenon DEF EnvelopesMove

\* BeginDeletion stages an operation with the row and destroys the envelopes.
LEMMA BeginDeletionMoves ==
    ASSUME BkInv, NEW b \in BackupId, BeginDeletion(b) PROVE Moves
<1> USE DEF apiSame, keysSame, maintenanceSame
<1>1. BkTypeOK /\ backup \in [BackupId -> Row] /\ backup' = SetState(b, "deleting")
  BY Zenon DEF BkInv, BkTypeOK, BeginDeletion
<1>2. \A c \in BackupId : /\ State(c)' = IF c = b THEN "deleting" ELSE State(c)
                          /\ backup'[c].lineage = backup[c].lineage
                          /\ c # b => backup'[c] = backup[c]
  BY <1>1, StateSet DEF State, SetState
<1>3. \A c \in BackupId, k \in Kind :
         operation'[<<c, k>>] = IF c = b /\ k = "delete_backup" THEN "due" ELSE operation[<<c, k>>]
  BY <1>1, Zenon DEF BeginDeletion, Staged, BkTypeOK
<1>4. State(b) \in {"sealed", "deleting"}
  BY Zenon DEF BeginDeletion, DeletionAllowed
<1>5. RowsMove
  BY <1>2, <1>3, <1>4, Zenon DEF RowsMove, RowMoves
<1>6. OperationsMove
  BY <1>2, <1>3, ZenonT(40) DEF OperationsMove, OperationMoves, EndsAs
<1>7. EnvelopesMove
  BY <1>2, EnvelopesEnd, Zenon DEF BeginDeletion
<1>8. StoreMoves /\ PassesMove
  BY Still, Zenon DEF BeginDeletion
<1>9. RequestFits([op |-> "delete", id |-> b, left |-> Part])'
  BY <1>2, Zenon DEF RequestFits, Cleared
<1>10. RequestsMove
  BY <1>9, Zenon DEF BeginDeletion, RequestsMove
<1>11. QED
  BY <1>5, <1>6, <1>7, <1>8, <1>10, Zenon DEF Moves

\* A request that begins is about a row that exists.
LEMMA NewRequestMoves ==
    ASSUME BkInv, NewRequest PROVE Moves
<1> USE DEF apiSame, keysSame, maintenanceSame
<1>1. BkTypeOK
  BY Zenon DEF BkInv
<1>2. ASSUME NEW d \in Device,
             RegisterDevice(d) \/ RevokeAuthDevice(d)
      PROVE  Moves
  BY <1>2, Still, Zenon DEF RegisterDevice, RegisterBackupDevice, RevokeAuthDevice, Moves
<1>3. ASSUME NEW d \in Device, NEW caller \in Device, RevokeDevice(caller, d) PROVE Moves
  <2>1. RowsMove /\ OperationsMove /\ StoreMoves /\ RequestsMove /\ PassesMove
    BY <1>3, Still, Zenon DEF RevokeDevice, RevokeBackupDevice
  <2>2. ASSUME NEW b \in BackupId, NEW g \in Device, NEW e \in Epoch PROVE EnvelopeMoves(b, g, e)
    <3>1. /\ \/ envelope'[<<b, g, e>>] = envelope[<<b, g, e>>]
             \/ envelope[<<b, g, e>>] = "live" /\ envelope'[<<b, g, e>>] = "destroyed"
          /\ State(b)' = State(b)
      <4> DEFINE keys == {key \in DOMAIN envelope : key[2] = d /\ KeyActive(d, key[3])}
      <4>1. envelope' = Destroy(keys) /\ UNCHANGED backup
        BY <1>3, Zenon DEF RevokeDevice, RevokeBackupDevice
      <4> HIDE DEF keys
      <4>2. <<b, g, e>> \in DOMAIN envelope
        BY <1>1, Zenon DEF BkTypeOK
      <4>3. envelope'[<<b, g, e>>] = IF envelope[<<b, g, e>>] = "live" /\ <<b, g, e>> \in keys
                                     THEN "destroyed" ELSE envelope[<<b, g, e>>]
        BY <4>1, <4>2, Zenon DEF Destroy
      <4>4. State(b)' = State(b)
        BY <4>1, Zenon DEF State
      <4>5. QED
        BY <4>3, <4>4, Zenon
    <3>2. QED
      BY <3>1, LiveEnvelope, Zenon DEF EnvelopeMoves
  <2>3. QED
    BY <2>1, <2>2, Zenon DEF Moves, EnvelopesMove
<1>4. ASSUME NEW r, RequestFits(r)', request' = request \cup {r},
             UNCHANGED <<backup, envelope, objects, operation, history, pass>>
      PROVE  Moves
  BY <1>4, Still, Zenon DEF Moves, RequestsMove
<1>5. ASSUME NEW b \in BackupId, NEW row, InitiateCheck(b, row) PROVE Moves
  <2>1. RequestFits([op |-> "initiate", id |-> b, row |-> row])'
    BY <1>5, Zenon DEF InitiateCheck, RequestFits
  <2>2. QED
    BY <1>4, <1>5, <2>1, Zenon DEF InitiateCheck
<1>6. ASSUME NEW b \in BackupId, NEW part \in Part, UploadCheck(b, part) PROVE Moves
  <2>1. RequestFits([op |-> "put", id |-> b, part |-> part])'
    BY <1>6, Zenon DEF UploadCheck, UploadTarget, RequestFits, State
  <2>2. QED
    BY <1>4, <1>6, <2>1, Zenon DEF UploadCheck
<1>7. ASSUME NEW b \in BackupId, SealCheck(b) PROVE Moves
  <2>1. RequestFits([op |-> "seal", id |-> b, seen |-> {}])'
    BY <1>7, Zenon DEF SealCheck, UploadTarget, RequestFits, State
  <2>2. QED
    BY <1>4, <1>7, <2>1, Zenon DEF SealCheck
<1>8. ASSUME NEW b \in BackupId, NEW caller \in Device, NEW d \in Device, NEW e \in Epoch,
             GrantCheck(caller, b, d, e)
      PROVE  Moves
  <2>1. RequestFits([op |-> "grant", id |-> b, device |-> d, epoch |-> e])'
    BY <1>8, Zenon DEF GrantCheck, RequestFits, State
  <2>2. QED
    BY <1>4, <1>8, <2>1, Zenon DEF GrantCheck
<1>9. QED
  BY <1>2, <1>3, <1>5, <1>6, <1>7, <1>8, BeginDeletionMoves, Zenon DEF NewRequest, Delete

\* The two staging transactions of a pass: all rows of a set end in one way,
\* with an operation each and without their envelopes.
LEMMA StagingMoves ==
    ASSUME BkInv, NEW ids \in SUBSET BackupId, NEW kind \in {"expire_upload", "prune_lineage"},
           NEW end, end = (IF kind = "expire_upload" THEN "expired" ELSE "deleting"),
           \A b \in ids : IF kind = "expire_upload" THEN State(b) \in Uploadable ELSE State(b) = "sealed",
           backup' = [b \in BackupId |-> IF b \in ids THEN [backup[b] EXCEPT !.state = end] ELSE backup[b]],
           envelope' = Destroy(EnvelopesOf(ids)),
           operation' = [o \in DOMAIN operation |->
                           IF o[1] \in ids /\ o[2] = kind THEN "due" ELSE operation[o]],
           UNCHANGED <<objects, history>>
    PROVE  RowsMove /\ OperationsMove /\ EnvelopesMove /\ StoreMoves
<1>1. BkTypeOK /\ backup \in [BackupId -> Row] /\ end \in BackupState
  BY Zenon DEF BkInv, BkTypeOK
<1>2. \A c \in BackupId : /\ State(c)' = IF c \in ids THEN end ELSE State(c)
                          /\ backup'[c].lineage = backup[c].lineage
                          /\ c \notin ids => backup'[c] = backup[c]
  BY <1>1, ZenonT(40) DEF State, Row
<1>3. \A b \in BackupId, k \in Kind :
         operation'[<<b, k>>] = IF b \in ids /\ k = kind THEN "due" ELSE operation[<<b, k>>]
  BY <1>1, Zenon DEF BkTypeOK
<1>4. RowsMove
  BY <1>2, <1>3, ZenonT(40) DEF RowsMove, RowMoves
<1>5. OperationsMove
  <2>1. ASSUME NEW b \in BackupId, NEW k \in Kind PROVE OperationMoves(b, k)
    <3>1. CASE b \in ids /\ k = kind
      <4>1. State(b)' = end /\ operation'[<<b, k>>] = "due"
        <5>1. State(b)' = end
          BY <1>2, <3>1, Zenon
        <5>2. operation'[<<b, k>>] = "due"
          BY <1>3, <3>1, Zenon
        <5>3. QED
          BY <5>1, <5>2, Zenon
      <4>2. EndsAs(k, end)
        BY <3>1, Zenon DEF EndsAs
      <4>3. EndsAs(k, State(b)')
        BY <4>1, <4>2, Zenon
      <4>4. QED
        BY <4>1, <4>3, Zenon DEF OperationMoves
    <3>2. CASE ~(b \in ids /\ k = kind)
      BY <1>3, <3>2, ZenonT(40) DEF OperationMoves
    <3>3. QED
      BY <3>1, <3>2, Zenon
  <2>2. QED
    BY <2>1, Zenon DEF OperationsMove
<1>6. EnvelopesMove
  BY <1>2, EnvelopesEnd, Zenon
<1>7. QED
  BY <1>4, <1>5, <1>6, Still, Zenon

\* The steps of a pass that lead nowhere near the objects
LEMMA StageStep ==
    ASSUME BkInv, NEW w \in Worker,
           \/ RunOnce(w) \/ SecurityStage(w) \/ StageExpiredUploads(w) \/ StageRetentionPruning(w)
           \/ DueBackupOperations(w) \/ PassEnds(w) \/ PassCrashes(w)
    PROVE  Moves
<1> USE DEF rowsSame, outsideSame, keysSame
<1>1. BkTypeOK
  BY Zenon DEF BkInv
<1>2. /\ [at |-> "idle"] \in Pass /\ [at |-> "security"] \in Pass /\ [at |-> "expire"] \in Pass
      /\ [at |-> "prune"] \in Pass /\ [at |-> "select"] \in Pass
      /\ \A due \in SUBSET (BackupId \X Kind) : [at |-> "begin", due |-> due] \in Pass
  BY Zenon DEF Pass
<1>3. ASSUME NEW p \in Pass, p.at # "delete", Goto(w, p) \/ Return(w) PROVE PassesMove
  BY <1>1, <1>3, PassGoes, PassReturns DEF PassesMove, PassFits, At
<1>4. ASSUME NEW p, p.at # "delete", pass' = [pass EXCEPT ![w] = p] PROVE PassesMove
  BY <1>1, <1>4, Zenon DEF PassesMove, PassFits, At, BkTypeOK
<1>5. ASSUME PassesMove, rowsSame, UNCHANGED request PROVE Moves
  BY <1>5, Still, Zenon DEF Moves
<1>6. CASE RunOnce(w)
  BY <1>4, <1>5, <1>6, Zenon DEF RunOnce
<1>7. CASE SecurityStage(w)
  BY <1>2, <1>3, <1>5, <1>7, Zenon DEF SecurityStage
<1>8. CASE DueBackupOperations(w)
  <2>1. {o \in DOMAIN operation : operation[o] \in {"due", "stale"}} \in SUBSET (BackupId \X Kind)
    BY <1>1, Zenon DEF BkTypeOK
  <2>2. QED
    BY <1>2, <1>3, <1>5, <1>8, <2>1, Zenon DEF DueBackupOperations
<1>9. CASE PassEnds(w)
  BY <1>2, <1>3, <1>5, <1>9, Zenon DEF PassEnds
<1>10. CASE PassCrashes(w)
  BY <1>4, <1>5, <1>10, Zenon DEF PassCrashes
<1>11. CASE StageExpiredUploads(w)
  <2>1. PassesMove /\ RequestsMove
    BY <1>2, <1>3, <1>11, Still, Zenon DEF StageExpiredUploads
  <2>2. DueUploads \in SUBSET BackupId /\ \A b \in DueUploads : State(b) \in Uploadable
    BY <1>1, Zenon DEF DueUploads, BkTypeOK
  <2>3. CASE \A b \in DueUploads : GuardPasses(b, backup[b])
    BY <1>11, <2>1, <2>2, <2>3, StagingMoves, ZenonT(40) DEF StageExpiredUploads, Moves
  <2>4. CASE ~\A b \in DueUploads : GuardPasses(b, backup[b])
    BY <1>11, <2>1, <2>4, Still, Zenon DEF StageExpiredUploads, Moves
  <2>5. QED
    BY <2>3, <2>4, Zenon
<1>12. CASE StageRetentionPruning(w)
  <2>1. PICK s \in Prunable :
         IF \A b \in s : GuardPasses(b, backup[b])
         THEN /\ backup' = [b \in BackupId |-> IF b \in s
                              THEN [backup[b] EXCEPT !.state = "deleting"] ELSE backup[b]]
              /\ envelope' = Destroy(EnvelopesOf(s))
              /\ operation' = [o \in DOMAIN operation |->
                                 IF o[1] \in s /\ o[2] = "prune_lineage" THEN "due" ELSE operation[o]]
              /\ Goto(w, [at |-> "select"])
         ELSE Return(w) /\ UNCHANGED <<backup, envelope, operation>>
    BY <1>12, Zenon DEF StageRetentionPruning
  <2>2. s \in SUBSET BackupId /\ \A b \in s : State(b) = "sealed"
    BY Zenon DEF Prunable, ListSealed
  <2>3. PassesMove /\ RequestsMove
    BY <1>2, <1>3, <1>12, <2>1, Still, Zenon DEF StageRetentionPruning
  <2>4. CASE \A b \in s : GuardPasses(b, backup[b])
    BY <1>12, <2>1, <2>2, <2>3, <2>4, StagingMoves DEF StageRetentionPruning, Moves
  <2>5. CASE ~\A b \in s : GuardPasses(b, backup[b])
    BY <1>12, <2>1, <2>3, <2>5, Still, Zenon DEF StageRetentionPruning, Moves
  <2>6. QED
    BY <2>4, <2>5, Zenon
<1>13. QED
  BY <1>6, <1>7, <1>8, <1>9, <1>10, <1>11, <1>12, Zenon

\* The steps of a pass on one operation and its objects
LEMMA CleanStep ==
    ASSUME BkInv, NEW w \in Worker,
           BeginAttempt(w) \/ CleanObject(w) \/ CompleteOperation(w) \/ CleanFails(w)
    PROVE  Moves
<1> USE DEF outsideSame, keysSame, At
<1>1. BkTypeOK /\ pass[w] \in Pass /\ backup \in [BackupId -> Row]
  BY Zenon DEF BkInv, BkTypeOK
<1>2. [at |-> "idle"] \in Pass /\ \A due \in SUBSET (BackupId \X Kind) : [at |-> "begin", due |-> due] \in Pass
  BY Zenon DEF Pass
<1>3. ASSUME NEW p \in Pass, p.at # "delete", Goto(w, p) \/ Return(w) PROVE PassesMove
  BY <1>1, <1>3, PassGoes, PassReturns DEF PassesMove, PassFits, At
<1>4. CASE BeginAttempt(w)
  <2>1. PICK o \in pass[w].due :
          IF operation[o] \in Active
          THEN /\ operation' = [operation EXCEPT ![o] = "running"]
               /\ Goto(w, [at |-> "delete", due |-> pass[w].due \ {o},
                           id |-> o[1], kind |-> o[2], left |-> Part])
          ELSE Return(w) /\ UNCHANGED operation
    BY <1>4, Zenon DEF BeginAttempt
  <2>2. o \in BackupId \X Kind /\ pass[w].due \in SUBSET (BackupId \X Kind)
    BY <1>1, <1>4, PassFields, Zenon DEF BeginAttempt
  <2>3. RowsMove /\ EnvelopesMove /\ StoreMoves /\ RequestsMove
    BY <1>4, Still, Zenon DEF BeginAttempt
  <2>4. CASE operation[o] \in Active
    <3> DEFINE p == [at |-> "delete", due |-> pass[w].due \ {o}, id |-> o[1], kind |-> o[2], left |-> Part]
    <3>1. p \in Pass /\ p.id = o[1] /\ p.kind = o[2] /\ p.left = Part
      BY <2>2, Zenon DEF Pass
    <3>2. Goto(w, p) /\ operation' = [operation EXCEPT ![o] = "running"]
      BY <2>1, <2>4, Zenon
    <3> HIDE DEF p
    <3>3. \A b \in BackupId, k \in Kind :
             operation'[<<b, k>>] = IF <<b, k>> = o THEN "running" ELSE operation[<<b, k>>]
      BY <1>1, <2>2, <3>2, ZenonT(40) DEF BkTypeOK
    <3>4. OperationsMove
      BY <2>4, <3>3, Zenon DEF OperationsMove, OperationMoves
    <3>5. operation'[<<p.id, p.kind>>] # "none" /\ Part \ p.left = {}
      <4>1. o[1] \in BackupId /\ o[2] \in Kind /\ <<o[1], o[2]>> = o
        BY <2>2
      <4>2. QED
        BY <3>1, <3>3, <4>1, Zenon
    <3>6. PassesMove
      BY <1>1, <3>1, <3>2, <3>5, PassGoes DEF PassesMove, PassFits, Cleared
    <3>7. QED
      BY <2>3, <3>4, <3>6, Zenon DEF Moves
  <2>5. CASE operation[o] \notin Active
    BY <1>2, <1>3, <2>1, <2>3, <2>5, Still, Zenon DEF Moves
  <2>6. QED
    BY <2>4, <2>5, Zenon
<1>5. CASE CleanObject(w)
  <2>1. PICK part \in pass[w].left :
          /\ objects' = objects \ {<<pass[w].id, part>>}
          /\ history' = [withdrawn |-> history.withdrawn, late |-> history.late \ {<<pass[w].id, part>>}]
          /\ Goto(w, [pass[w] EXCEPT !.left = pass[w].left \ {part}])
    BY <1>5, Zenon DEF CleanObject
  <2> DEFINE p == [pass[w] EXCEPT !.left = pass[w].left \ {part}]
  <2>2. PICK b \in BackupId, k \in Kind : b = pass[w].id /\ k = pass[w].kind
    BY <1>1, <1>5, PassFields, Zenon DEF CleanObject
  <2>3. p \in Pass /\ p.id = b /\ p.kind = k /\ p.left = pass[w].left \ {part}
    BY <1>1, <1>5, <2>2, PassFields, Zenon DEF CleanObject, Pass
  <2>4. Goto(w, p)
    BY <2>1, Zenon
  <2> HIDE DEF p
  <2>5. operation[<<b, k>>] # "none" /\ Cleared(b, pass[w].left)
    BY <1>5, <2>2, Zenon DEF CleanObject, BkInv, PassesFit, PassFits
  <2>6. State(b)' \notin Usable
    BY <1>5, <2>5, Zenon DEF BkInv, OperationsFit, CleanObject, State, EndsAs, Usable
  <2>7. RowsMove /\ OperationsMove /\ EnvelopesMove /\ RequestsMove
    BY <1>5, Still, Zenon DEF CleanObject
  <2>8. StoreMoves
    BY <2>1, <2>2, <2>6, Zenon DEF StoreMoves
  <2>9. /\ operation'[<<p.id, p.kind>>] # "none"
        /\ \A x \in Part \ p.left : <<p.id, x>> \notin objects' \ history'.late
    BY <1>5, <2>1, <2>2, <2>3, <2>5, Zenon DEF CleanObject, Cleared
  <2>10. PassesMove
    BY <1>1, <2>3, <2>4, <2>9, PassGoes DEF PassesMove, PassFits, Cleared
  <2>11. QED
    BY <2>7, <2>8, <2>10, Zenon DEF Moves
<1>6. CASE CleanFails(w)
  <2> DEFINE o == <<pass[w].id, pass[w].kind>>
             v == IF operation[o] \in {"running", "stale"} THEN "waiting" ELSE operation[o]
  <2>1. o \in BackupId \X Kind /\ operation' = [operation EXCEPT ![o] = v]
    BY <1>1, <1>6, PassFields, Zenon DEF CleanFails
  <2>2. RowsMove /\ EnvelopesMove /\ StoreMoves /\ RequestsMove
    BY <1>6, Still, Zenon DEF CleanFails
  <2>3. PassesMove
    BY <1>2, <1>3, <1>6, Zenon DEF CleanFails
  <2> HIDE DEF o
  <2>4. \A b \in BackupId, k \in Kind :
           operation'[<<b, k>>] = IF <<b, k>> = o THEN v ELSE operation[<<b, k>>]
    BY <1>1, <2>1, ZenonT(40) DEF BkTypeOK
  <2>5. OperationsMove
    BY <2>4, ZenonT(40) DEF OperationsMove, OperationMoves
  <2>6. QED
    BY <2>2, <2>3, <2>5, Zenon DEF Moves
<1>7. CASE CompleteOperation(w)
  <2>1. /\ [at |-> "begin", due |-> pass[w].due] \in Pass
        /\ pass[w].id \in BackupId /\ pass[w].kind \in Kind
    BY <1>1, <1>2, <1>7, PassFields, Zenon DEF CompleteOperation
  <2> PICK b \in BackupId, kind \in Kind : b = pass[w].id /\ kind = pass[w].kind
    BY <2>1, Zenon
  <2> DEFINE deletes == kind # "expire_upload" /\ State(b) = "deleting"
  <2>2. operation[<<b, kind>>] # "none" /\ Cleared(b, {}) /\ EndsAs(kind, State(b))
    BY <1>7, <2>1, Zenon DEF CompleteOperation, BkInv, PassesFit, PassFits, OperationsFit
  <2>3. StoreMoves /\ RequestsMove
    BY <1>7, Still, Zenon DEF CompleteOperation
  <2>4. PassesMove
    BY <1>2, <1>3, <1>7, <2>1, Zenon DEF CompleteOperation
  <2>5. CASE UNCHANGED <<backup, operation>>
    BY <1>7, <2>3, <2>4, <2>5, Still, Zenon DEF CompleteOperation, Moves
  <2>6. CASE /\ backup' = IF deletes THEN SetState(b, "deleted") ELSE backup
             /\ operation' = [operation EXCEPT ![<<b, kind>>] = "completed"]
    <3>1. \A c \in BackupId : /\ State(c)' = IF c = b /\ deletes THEN "deleted" ELSE State(c)
                              /\ backup'[c].lineage = backup[c].lineage
                              /\ c # b => backup'[c] = backup[c]
      <4>1. CASE deletes
        <5>1. backup' = SetState(b, "deleted")
          BY <2>6, <4>1, Zenon
        <5>2. QED
          BY <1>1, <2>1, <4>1, <5>1, StateSet DEF State, SetState
      <4>2. CASE ~deletes
        BY <2>6, <4>2, Zenon DEF State
      <4>3. QED
        BY <4>1, <4>2, Zenon
    <3>2. RowsMove
      BY <2>1, <2>2, <2>6, <3>1, ZenonT(40) DEF RowsMove, RowMoves
    <3>3. EnvelopesMove
      BY <1>7, <3>1, EnvelopesStay, Zenon DEF CompleteOperation, Usable
    <3>4. \A c \in BackupId, k \in Kind :
             operation'[<<c, k>>] = IF c = b /\ k = kind THEN "completed" ELSE operation[<<c, k>>]
      BY <1>1, <2>1, <2>6, Zenon DEF BkTypeOK
    <3>5. State(b)' # "deleting"
      BY <2>1, <2>2, <3>1, Zenon DEF EndsAs
    <3>6. OperationsMove
      BY <2>2, <3>4, <3>5, ZenonT(40) DEF OperationsMove, OperationMoves
    <3>7. QED
      BY <2>3, <2>4, <3>2, <3>3, <3>6, Zenon DEF Moves
  <2>7. QED
    BY <1>7, <2>5, <2>6, Zenon DEF CompleteOperation
<1>8. QED
  BY <1>4, <1>5, <1>6, <1>7, Zenon

\* Every step moves in the ways above.
LEMMA StepMoves ==
    ASSUME BkInv, BkNext PROVE Moves
<1>1. CASE RequestStep
  BY <1>1, UploadStep, InitiateMoves, RowStep, AskStep, GrantMoves, Zenon DEF RequestStep
<1>2. CASE NewRequest
  BY <1>2, NewRequestMoves, Zenon
<1>3. ASSUME NEW w \in Worker, PassStep(w) \/ PassFault(w) PROVE Moves
  BY <1>3, StageStep, CleanStep, Zenon DEF PassStep, PassFault
<1>4. CASE LeaseExpires
  BY <1>4, Still, Zenon DEF LeaseExpires, rowsSame, outsideSame, Moves
<1>5. CASE AccountStep
  BY <1>5, Still, Zenon DEF AccountStep, rowsSame, maintenanceSame, Moves
<1>6. ASSUME NEW b \in BackupId, UploadLapses(b) \/ SelectVersion(b) PROVE Moves
  BY <1>6, Still, Zenon DEF UploadLapses, SelectVersion, rowsSame, maintenanceSame, Moves
<1>7. ASSUME NEW o \in DOMAIN operation, RetryDelayPasses(o) \/ OperationLeaseExpires(o) PROVE Moves
  <2>1. RowsMove /\ EnvelopesMove /\ StoreMoves /\ RequestsMove /\ PassesMove
    BY <1>7, Still, Zenon DEF RetryDelayPasses, OperationLeaseExpires, apiSame, maintenanceSame
  <2>2. /\ operation \in [BackupId \X Kind -> OperationState] /\ operation[o] \in Active
        /\ operation' = [operation EXCEPT ![o] = "due"] \/ operation' = [operation EXCEPT ![o] = "stale"]
    BY <1>7, Zenon DEF RetryDelayPasses, OperationLeaseExpires, BkInv, BkTypeOK
  <2>3. ASSUME NEW b \in BackupId, NEW k \in Kind PROVE OperationMoves(b, k)
    BY <2>2, ZenonT(40) DEF OperationMoves
  <2>4. QED
    BY <2>1, <2>3, Zenon DEF OperationsMove, Moves
<1>8. QED
  BY <1>1, <1>2, <1>3, <1>4, <1>5, <1>6, <1>7, Zenon DEF BkNext, Environment

(***************************************************************************)
(* The parts of the invariant, from the moves.                             *)
(***************************************************************************)

\* Only an upload brings objects, so what is cleared of an ended backup stays so.
LEMMA ClearedStays ==
    ASSUME Moves, NEW b \in BackupId, NEW left, State(b) \notin Uploadable, Cleared(b, left)
    PROVE  Cleared(b, left)'
  BY Zenon DEF Moves, StoreMoves, Cleared

\* The state of a row for which there is an operation
LEMMA OperationFits ==
    ASSUME BkInv, NEW b \in BackupId, NEW k \in Kind, operation[<<b, k>>] # "none"
    PROVE  EndsAs(k, State(b))
  BY Zenon DEF BkInv, OperationsFit, EndsAs

LEMMA OperationsFitStep ==
    ASSUME BkInv, Moves PROVE OperationsFit'
<1>1. ASSUME NEW b \in BackupId, NEW k \in Kind, operation'[<<b, k>>] # "none"
      PROVE  EndsAs(k, State(b)')
  <2>1. RowMoves(b) /\ OperationMoves(b, k)
    BY Zenon DEF Moves, RowsMove, OperationsMove
  <2>2. operation[<<b, k>>] # "none" => EndsAs(k, State(b))
    BY OperationFits, Zenon
  <2>3. EndsAs(k, State(b)) => EndsAs(k, State(b)')
    BY <2>1, Zenon DEF RowMoves, EndsAs, State
  <2>4. QED
    BY <1>1, <2>1, <2>2, <2>3, Zenon DEF OperationMoves
<1>2. ASSUME NEW b \in BackupId, NEW d \in Device, NEW e \in Epoch, envelope'[<<b, d, e>>] # "none"
      PROVE  State(b)' # "none"
  <2>1. RowMoves(b) /\ EnvelopeMoves(b, d, e)
    BY Zenon DEF Moves, RowsMove, EnvelopesMove
  <2>2. envelope[<<b, d, e>>] # "none" => State(b) # "none"
    BY Zenon DEF BkInv, OperationsFit
  <2>3. State(b) # "none" => State(b)' # "none"
    BY <2>1, Zenon DEF RowMoves, State
  <2>4. QED
    BY <1>2, <2>1, <2>2, <2>3, Zenon DEF EnvelopeMoves, Usable
<1>3. QED
  BY <1>1, <1>2, Zenon DEF OperationsFit

LEMMA RequestsFitStep ==
    ASSUME BkInv, BkTypeOK', Moves PROVE RequestsFit'
<1>1. ASSUME NEW r \in request PROVE RequestFits(r)'
  <2>1. r.id \in BackupId /\ RequestFits(r)
    BY RequestFields, Zenon DEF BkInv, BkTypeOK, RequestsFit
  <2>2. RowMoves(r.id)
    BY <2>1, Zenon DEF Moves, RowsMove
  <2>3. State(r.id) # "none" => State(r.id)' # "none"
    BY <2>2, Zenon DEF RowMoves, State
  <2>4. State(r.id) \in {"deleting", "deleted"} => State(r.id)' \in {"deleting", "deleted"}
    BY <2>2, Zenon DEF RowMoves, State
  <2>5. State(r.id) # "none" /\ State(r.id)' \in Usable => State(r.id) \in Usable
    BY <2>2, Zenon DEF RowMoves, State, Usable
  <2>6. r.op = "delete" => Cleared(r.id, r.left)'
    BY <2>1, ClearedStays, Zenon DEF RequestFits
  <2>7. r.op = "seal" /\ State(r.id)' \in Usable =>
           \A part \in r.seen : <<r.id, part>> \in objects' \cup history'.withdrawn
    <3>1. r.op = "seal" => r.seen \subseteq Part
      BY RequestFields, Zenon DEF BkInv, BkTypeOK
    <3>2. QED
      BY <2>1, <2>5, <3>1, Zenon DEF RequestFits, Moves, StoreMoves
  <2>8. QED
    BY <2>1, <2>3, <2>4, <2>6, <2>7, Zenon DEF RequestFits
<1>2. QED
  BY <1>1, Zenon DEF Moves, RequestsMove, RequestsFit

LEMMA PassesFitStep ==
    ASSUME BkInv, Moves PROVE PassesFit'
<1>1. ASSUME NEW w \in Worker, pass'[w] = pass[w] PROVE PassFits(w)'
  <2>1. SUFFICES ASSUME pass[w].at = "delete" PROVE PassFits(w)'
    BY <1>1, Zenon DEF PassFits, At
  <2>2. PICK b \in BackupId, k \in Kind : b = pass[w].id /\ k = pass[w].kind
    BY <2>1, PassFields DEF BkInv, BkTypeOK
  <2>3. operation[<<b, k>>] # "none" /\ Cleared(b, pass[w].left)
    BY <2>1, <2>2, Zenon DEF BkInv, PassesFit, PassFits, At
  <2>4. State(b) \notin Uploadable
    BY <2>3, OperationFits, Zenon DEF EndsAs
  <2>5. operation'[<<b, k>>] # "none"
    <3>1. OperationMoves(b, k)
      BY Zenon DEF Moves, OperationsMove
    <3>2. QED
      BY <2>3, <3>1, Zenon DEF OperationMoves
  <2>6. \A part \in Part \ pass[w].left : <<b, part>> \notin objects' \ history'.late
    BY <2>3, <2>4, Zenon DEF Moves, StoreMoves, Cleared
  <2>7. QED
    BY <1>1, <2>2, <2>5, <2>6, Zenon DEF PassFits, Cleared
<1>2. QED
  BY <1>1, Zenon DEF Moves, PassesMove, PassesFit

\* SealedIsKept: a backup is sealed only with its objects, and only the
\* clean-up of an ended backup removes objects for good.
LEMMA SealedIsKeptStep ==
    ASSUME BkInv, Moves PROVE SealedIsKept'
<1>1. ASSUME NEW b \in BackupId, State(b)' = "sealed", NEW part \in Part
      PROVE  <<b, part>> \in objects' \cup history'.withdrawn
  <2>1. <<b, part>> \in objects \cup history.withdrawn
    <3>1. RowMoves(b)
      BY Zenon DEF Moves, RowsMove
    <3>2. State(b) = "sealed" \/ ObjectsOf(b) \subseteq objects \cup history.withdrawn
      BY <1>1, <3>1, Zenon DEF RowMoves, State
    <3>3. QED
      BY <3>2, Zenon DEF BkInv, SealedIsKept, ObjectsOf
  <2>2. QED
    BY <1>1, <2>1, Zenon DEF Moves, StoreMoves, Usable
<1>2. QED
  BY <1>1 DEF SealedIsKept, ObjectsOf

\* DeletionIsStaged: a deletion is completed only with its operations.
LEMMA DeletionIsStagedStep ==
    ASSUME BkInv, BkTypeOK', Moves PROVE DeletionIsStaged'
<1>1. ASSUME NEW b \in BackupId, State(b)' = "deleting"
      PROVE  \E k \in {"delete_backup", "prune_lineage"} : operation'[<<b, k>>] \in Active
  <2>1. CASE backup'[b] # backup[b]
    <3>1. RowMoves(b)
      BY Zenon DEF Moves, RowsMove
    <3>2. QED
      BY <1>1, <2>1, <3>1, Zenon DEF RowMoves
  <2>2. CASE backup'[b] = backup[b]
    <3>1. PICK k \in {"delete_backup", "prune_lineage"} : operation[<<b, k>>] \in Active
      BY <1>1, <2>2, Zenon DEF BkInv, DeletionIsStaged, State
    <3>2. OperationMoves(b, k)
      BY Zenon DEF Moves, OperationsMove
    <3>3. operation'[<<b, k>>] \in Active
      BY <1>1, <3>1, <3>2, Zenon DEF OperationMoves
    <3>4. QED
      BY <3>3, Zenon
  <2>3. QED
    BY <2>1, <2>2, Zenon
<1>2. ASSUME NEW e \in DOMAIN envelope', envelope'[e] = "live" PROVE State(e[1])' \in Usable
  <2>1. PICK b \in BackupId, d \in Device, n \in Epoch : e = <<b, d, n>>
    BY DEF BkTypeOK
  <2>2. EnvelopeMoves(b, d, n)
    BY Zenon DEF Moves, EnvelopesMove
  <2>3. QED
    BY <1>2, <2>1, <2>2, Zenon DEF EnvelopeMoves
<1>3. QED
  BY <1>1, <1>2, Zenon DEF DeletionIsStaged, Usable

\* NoForgottenObject: a row ends only with an operation, which is completed
\* only when the objects are gone.
LEMMA NoForgottenObjectStep ==
    ASSUME BkInv, BkTypeOK', Moves PROVE NoForgottenObject'
<1>1. ASSUME NEW b \in BackupId, NEW part \in Part, <<b, part>> \in objects' \ history'.late
      PROVE  State(b)' \in Usable \/ \E k \in Kind : operation'[<<b, k>>] \in Active
  <2>1. CASE State(b)' \in Uploadable
    BY <2>1, Zenon DEF Usable
  <2>2. CASE State(b)' \notin Uploadable
    <3>1. <<b, part>> \in objects \ history.late
      BY <1>1, <2>2, Zenon DEF Moves, StoreMoves
    <3>2. State(b) \in Usable \/ \E k \in Kind : operation[<<b, k>>] \in Active
      <4>1. <<b, part>>[1] = b
        BY Zenon
      <4>2. QED
        BY <3>1, <4>1, Zenon DEF BkInv, NoForgottenObject, Usable
    <3>3. ~Cleared(b, {})
      BY <3>1, Zenon DEF Cleared
    <3>4. RowMoves(b) /\ \A k \in Kind : OperationMoves(b, k)
      BY Zenon DEF Moves, RowsMove, OperationsMove
    <3>5. CASE \E k \in Kind : operation[<<b, k>>] \in Active
      <4>1. PICK k \in Kind : operation[<<b, k>>] \in Active
        BY <3>5, Zenon
      <4>2. operation'[<<b, k>>] \in Active
        BY <3>3, <3>4, <4>1, Zenon DEF OperationMoves
      <4>3. QED
        BY <4>2, Zenon
    <3>6. CASE State(b) \in Usable
      BY <2>2, <3>3, <3>4, <3>6, Zenon DEF RowMoves, Usable, State
    <3>7. QED
      BY <3>2, <3>5, <3>6, Zenon
  <2>3. QED
    BY <2>1, <2>2, Zenon
<1>2. ASSUME NEW o \in objects' \ history'.late
      PROVE  State(o[1])' \in Usable \/ \E k \in Kind : operation'[<<o[1], k>>] \in Active
  <2>1. PICK b \in BackupId, part \in Part : o = <<b, part>>
    BY DEF BkTypeOK
  <2>2. QED
    BY <1>1, <2>1, Zenon
<1>3. QED
  BY <1>2, Zenon DEF NoForgottenObject, Usable

(***************************************************************************)
(* The quotas.                                                             *)
(***************************************************************************)

\* Cardinalities of finite sets.
INSTANCE FiniteSetTheorems

\* The sealed backups are finitely many.
LEMMA SealedFinite ==
    /\ IsFiniteSet(ListSealed) /\ Cardinality(ListSealed) \in Nat
    /\ \A l \in Lineage : IsFiniteSet(SealedIn(l)) /\ Cardinality(SealedIn(l)) \in Nat
<1>1. ListSealed \subseteq BackupId /\ \A l \in Lineage : SealedIn(l) \subseteq BackupId
  BY Zenon DEF ListSealed, SealedIn
<1>2. QED
  BY <1>1, FS_Subset, FS_CardinalityType, Zenon

\* Only Seal makes a backup sealed.
LEMMA SealsAlone ==
    ASSUME BkInv, BkNext, \A r \in request : ~Seal(r)
    PROVE  \A b \in BackupId : State(b)' = "sealed" => State(b) = "sealed"
<1> USE DEF apiSame, rowsSame, outsideSame
<1>1. BkTypeOK /\ backup \in [BackupId -> Row]
  BY Zenon DEF BkInv, BkTypeOK
<1>2. ASSUME UNCHANGED backup PROVE \A b \in BackupId : State(b)' = "sealed" => State(b) = "sealed"
  BY <1>2, Zenon DEF State
<1>3. ASSUME NEW b \in BackupId, NEW end \in BackupState \ {"sealed"}, backup' = SetState(b, end)
      PROVE  \A c \in BackupId : State(c)' = "sealed" => State(c) = "sealed"
  BY <1>1, <1>3, Zenon DEF State, SetState, Row
<1>4. ASSUME NEW ids, NEW end \in BackupState \ {"sealed"},
             backup' = [b \in BackupId |-> IF b \in ids THEN [backup[b] EXCEPT !.state = end] ELSE backup[b]]
      PROVE  \A c \in BackupId : State(c)' = "sealed" => State(c) = "sealed"
  BY <1>1, <1>4, Zenon DEF State, Row
<1>5. CASE RequestStep
  <2>1. PICK r \in request :
          \/ Initiate(r) \/ PutObject(r) \/ PutTruncated(r) \/ PutVerified(r) \/ PutRejected(r)
          \/ MarkUploading(r) \/ AddDeviceEnvelope(r) \/ CompleteDeletion(r) \/ RequestEnds(r)
          \/ \E part \in Part : VerifyObject(r, part) \/ DeleteCiphertext(r, part)
    BY <1>5, Zenon DEF RequestStep
  <2>2. r \in Request /\ r.id \in BackupId /\ RequestFits(r)
    BY <1>1, RequestFields, Zenon DEF BkTypeOK, BkInv, RequestsFit
  <2>3. CASE Initiate(r)
    BY <1>1, <2>2, <2>3, ZenonT(40) DEF Initiate, RequestFits, State
  <2>4. CASE MarkUploading(r)
    BY <1>2, <1>3, <2>2, <2>4, Zenon DEF MarkUploading
  <2>5. CASE CompleteDeletion(r)
    BY <1>2, <1>3, <2>2, <2>5, ZenonT(40) DEF CompleteDeletion
  <2>6. QED
    BY <1>2, <2>1, <2>3, <2>4, <2>5, Zenon DEF PutObject, PutTruncated, PutVerified, PutRejected,
       AddDeviceEnvelope, RequestEnds, VerifyObject, DeleteCiphertext
<1>6. CASE NewRequest
  <2>1. ASSUME NEW b \in BackupId, BeginDeletion(b) PROVE \A c \in BackupId : State(c)' = "sealed" => State(c) = "sealed"
    BY <1>3, <2>1, Zenon DEF BeginDeletion
  <2>2. ASSUME NEW d \in Device, NEW caller \in Device,
               RegisterDevice(d) \/ RevokeAuthDevice(d) \/ RevokeDevice(caller, d)
        PROVE  UNCHANGED backup
    BY <2>2, Zenon DEF RegisterDevice, RegisterBackupDevice, RevokeAuthDevice, RevokeDevice, RevokeBackupDevice
  <2>3. ASSUME NEW b \in BackupId, NEW row, InitiateCheck(b, row) PROVE UNCHANGED backup
    BY <2>3, Zenon DEF InitiateCheck
  <2>4. ASSUME NEW b \in BackupId, SealCheck(b) \/ \E part \in Part : UploadCheck(b, part) PROVE UNCHANGED backup
    BY <2>4, Zenon DEF UploadCheck, SealCheck
  <2>5. ASSUME NEW b \in BackupId, NEW caller \in Device, NEW d \in Device, NEW e \in Epoch,
               GrantCheck(caller, b, d, e)
        PROVE  UNCHANGED backup
    BY <2>5, ZenonT(40) DEF GrantCheck
  <2>6. UNCHANGED backup \/ \E b \in BackupId : BeginDeletion(b)
    BY <1>6, <2>2, <2>3, <2>4, <2>5, Zenon DEF NewRequest, Delete
  <2>7. QED
    BY <1>2, <2>1, <2>6, Zenon
<1>7. ASSUME NEW w \in Worker, PassStep(w) \/ PassFault(w)
      PROVE  \A b \in BackupId : State(b)' = "sealed" => State(b) = "sealed"
  <2>1. CASE CompleteOperation(w)
    <3>1. pass[w].id \in BackupId
      BY <1>1, <2>1, PassFields DEF CompleteOperation, At, BkTypeOK
    <3>2. UNCHANGED backup \/ backup' = SetState(pass[w].id, "deleted")
      BY <2>1, Zenon DEF CompleteOperation
    <3>3. QED
      BY <1>2, <1>3, <3>1, <3>2, Zenon
  <2>2. CASE StageExpiredUploads(w)
    <3>1. UNCHANGED backup \/ backup' = [b \in BackupId |->
             IF b \in DueUploads THEN [backup[b] EXCEPT !.state = "expired"] ELSE backup[b]]
      BY <2>2, Zenon DEF StageExpiredUploads
    <3>2. QED
      BY <1>2, <1>4, <3>1, Zenon
  <2>3. CASE StageRetentionPruning(w)
    <3>1. UNCHANGED backup \/ \E ids : backup' = [b \in BackupId |->
             IF b \in ids THEN [backup[b] EXCEPT !.state = "deleting"] ELSE backup[b]]
      BY <2>3, Zenon DEF StageRetentionPruning
    <3>2. QED
      BY <1>2, <1>4, <3>1, Zenon
  <2>4. QED
    BY <1>2, <1>7, <2>1, <2>2, <2>3, ZenonT(40) DEF PassStep, PassFault, RunOnce, SecurityStage, DueBackupOperations,
       BeginAttempt, PassEnds, CleanObject, CleanFails, PassCrashes
<1>8. CASE Environment
  BY <1>2, <1>8, Zenon DEF Environment, LeaseExpires, AccountStep, UploadLapses, SelectVersion,
     RetryDelayPasses, OperationLeaseExpires
<1>9. QED
  BY <1>5, <1>6, <1>7, <1>8, Zenon DEF BkNext

LEMMA WithinQuotasStep ==
    ASSUME BkInv, BkTypeOK', BkNext, Moves PROVE WithinQuotas'
<1>1. /\ WithinQuotas /\ BkTypeOK /\ backup \in [BackupId -> Row]
      /\ \A b \in BackupId : backup'[b].lineage = backup[b].lineage \/ State(b)' # "sealed"
  <2>1. \A b \in BackupId : RowMoves(b)
    BY Zenon DEF Moves, RowsMove
  <2>2. QED
    BY <2>1, Zenon DEF RowMoves, BkInv, BkTypeOK
<1>2. CASE \A r \in request : ~Seal(r)
  <2>1. ListSealed' \subseteq ListSealed /\ \A l \in Lineage : SealedIn(l)' \subseteq SealedIn(l)
    BY <1>1, <1>2, SealsAlone, Zenon DEF ListSealed, SealedIn
  <2>2. Cardinality(ListSealed') <= Cardinality(ListSealed) /\ Cardinality(ListSealed') \in Nat
    BY <2>1, SealedFinite, FS_Subset, FS_CardinalityType, ZenonT(40)
  <2>3. \A l \in Lineage : /\ Cardinality(SealedIn(l)') <= Cardinality(SealedIn(l))
                           /\ Cardinality(SealedIn(l)') \in Nat
    BY <2>1, SealedFinite, FS_Subset, FS_CardinalityType, Zenon
  <2>4. QED
    BY <1>1, <2>2, <2>3, SealedFinite DEF WithinQuotas
<1>3. ASSUME NEW r \in request, Seal(r) PROVE WithinQuotas'
  <2>1. r.id \in BackupId
    BY <1>1, RequestFields, Zenon DEF BkTypeOK
  <2>2. CASE UNCHANGED backup
    BY <1>1, <2>2, Zenon DEF WithinQuotas, ListSealed, SealedIn, State
  <2>3. CASE State(r.id) \in Uploadable /\ QuotaPasses(r.id) /\ backup' = SetState(r.id, "sealed")
    <3> DEFINE lin == backup[r.id].lineage
    <3>1. \A c \in BackupId : /\ State(c)' = IF c = r.id THEN "sealed" ELSE State(c)
                              /\ backup'[c].lineage = backup[c].lineage
      BY <1>1, <2>1, <2>3, StateSet DEF State
    <3>2. /\ ListSealed' = ListSealed \cup {r.id} /\ ListSealed \ {r.id} = ListSealed
          /\ r.id \notin ListSealed /\ ListSealed \subseteq BackupId
      BY <2>1, <2>3, <3>1, ZenonT(40) DEF ListSealed
    <3>3. Cardinality(ListSealed') <= AccountQuota
      <4>1. Cardinality(ListSealed \cup {r.id}) = Cardinality(ListSealed) + 1
        BY <3>2, SealedFinite, FS_AddElement, Zenon
      <4>2. Cardinality(ListSealed) < AccountQuota
        BY <2>3, <3>2, Zenon DEF QuotaPasses
      <4>3. QED
        BY <3>2, <4>1, <4>2, SealedFinite
    <3>4. ASSUME NEW l \in Lineage PROVE Cardinality(SealedIn(l)') <= LineageQuota
      <4>1. CASE l = lin
        <5>1. /\ SealedIn(l)' = SealedIn(l) \cup {r.id} /\ SealedIn(l) \ {r.id} = SealedIn(l)
              /\ r.id \notin SealedIn(l)
          BY <2>1, <3>1, <3>2, <4>1, ZenonT(40) DEF SealedIn
        <5>2. Cardinality(SealedIn(l)) < LineageQuota
          BY <2>3, <4>1, <5>1, Zenon DEF QuotaPasses
        <5>3. Cardinality(SealedIn(l) \cup {r.id}) = Cardinality(SealedIn(l)) + 1
          BY <5>1, SealedFinite, FS_AddElement, Zenon
        <5>4. QED
          BY <5>1, <5>2, <5>3, SealedFinite
      <4>2. CASE l # lin
        <5>1. SealedIn(l)' = SealedIn(l)
          BY <2>1, <3>1, <3>2, <4>2, Zenon DEF SealedIn
        <5>2. QED
          BY <1>1, <5>1, Zenon DEF WithinQuotas
      <4>3. QED
        BY <4>1, <4>2, Zenon
    <3>5. QED
      BY <3>3, <3>4, Zenon DEF WithinQuotas
  <2>4. QED
    BY <1>3, <2>2, <2>3, ZenonT(40) DEF Seal
<1>4. QED
  BY <1>2, <1>3, Zenon

\* Within the quotas there is nothing to prune.
LEMMA NothingToPrune ==
    ASSUME BkTypeOK, WithinQuotas PROVE Prunable = {{}}
<1>1. \A l \in Lineage : ~(Cardinality(SealedIn(l)) > RetentionCount)
  BY SealedFinite DEF WithinQuotas
<1>2. {} \in Prunable
  <2>1. {} \in SUBSET ListSealed /\ \A l \in Lineage : Cardinality({} \cap SealedIn(l)) = 0
    BY FS_EmptySet, Zenon
  <2>2. QED
    BY <1>1, <2>1, Zenon DEF Prunable
<1>3. ASSUME NEW s \in Prunable, NEW b \in s PROVE FALSE
  <2>1. b \in BackupId /\ State(b) = "sealed" /\ backup[b].lineage \in Lineage
    BY <1>3, Zenon DEF Prunable, ListSealed, BkTypeOK, Row
  <2>2. PICK l \in Lineage : l = backup[b].lineage
    BY <2>1, Zenon
  <2>3. Cardinality(s \cap SealedIn(l)) = 0
    BY <1>1, <1>3, Zenon DEF Prunable
  <2>4. IsFiniteSet(s \cap SealedIn(l))
    BY SealedFinite, FS_Subset, Zenon
  <2>5. s \cap SealedIn(l) = {}
    BY <2>3, <2>4, FS_EmptySet, Zenon
  <2>6. QED
    BY <1>3, <2>1, <2>2, <2>5, Zenon DEF SealedIn, ListSealed
<1>4. QED
  BY <1>2, <1>3, Zenon

(***************************************************************************)
(* The theorems.                                                           *)
(***************************************************************************)

\* The invariant holds at first, and every step keeps it.
LEMMA InitInv == BkInit => BkInv
<1> SUFFICES ASSUME BkInit PROVE BkInv
  BY Zenon
<1>1. BkTypeOK
  BY InitType, Zenon
<1>2. \A b \in BackupId : State(b) = "none"
  BY DEF BkInit, State
<1>3. OperationsFit /\ RequestsFit /\ PassesFit
  BY <1>2, Zenon DEF BkInit, OperationsFit, RequestsFit, PassesFit, PassFits, At
<1>4. SealedIsKept /\ DeletionIsStaged /\ NoForgottenObject
  BY <1>2, Zenon DEF BkInit, SealedIsKept, DeletionIsStaged, NoForgottenObject
<1>5. ListSealed = {} /\ \A l \in Lineage : SealedIn(l) = {}
  BY <1>2, Zenon DEF ListSealed, SealedIn
<1>6. WithinQuotas
  BY <1>5, FS_EmptySet DEF WithinQuotas
<1>7. QED
  BY <1>1, <1>3, <1>4, <1>6, Zenon DEF BkInv

LEMMA StepInv == BkInv /\ [BkNext]_bkVars => BkInv'
<1> SUFFICES ASSUME BkInv, [BkNext]_bkVars PROVE BkInv'
  BY Zenon
<1>1. CASE BkNext
  <2>1. BkTypeOK' /\ Moves
    BY <1>1, TypeStep, StepMoves, Zenon DEF BkInv
  <2>2. QED
    BY <1>1, <2>1, OperationsFitStep, RequestsFitStep, PassesFitStep, SealedIsKeptStep,
       DeletionIsStagedStep, NoForgottenObjectStep, WithinQuotasStep, Zenon DEF BkInv
<1>2. CASE UNCHANGED bkVars
  <2>1. BkTypeOK'
    BY <1>2, Zenon DEF BkInv, BkTypeOK, bkVars
  <2>2. Moves
    BY <1>2, Still, Zenon DEF Moves, bkVars
  <2>3. WithinQuotas'
    BY <1>2, Zenon DEF BkInv, WithinQuotas, SealedIn, ListSealed, State, bkVars
  <2>4. QED
    BY <2>1, <2>2, <2>3, OperationsFitStep, RequestsFitStep, PassesFitStep, SealedIsKeptStep,
       DeletionIsStagedStep, NoForgottenObjectStep, Zenon DEF BkInv
<1>3. QED
  BY <1>1, <1>2, Zenon

LEMMA BkInvariant == BkSpec => []BkInv
  BY InitInv, StepInv, PTL DEF BkSpec

\* Every row, envelope, operation, request and pass keeps its type.
THEOREM BackupTypeCorrect == BkSpec => []BkTypeOK
  BY BkInvariant, PTL DEF BkInv

\* A sealed backup keeps every object it was sealed with, unless an upload of
\* the same object takes it back: whatever deletions, expiries and passes of
\* two runners that both think they hold the lease do meanwhile.
THEOREM SealedBackupsAreKept == BkSpec => []SealedIsKept
  BY BkInvariant, PTL DEF BkInv

\* A backup in deletion always has an operation that names it, and no envelope
\* of a deleted or expired backup is live (begin_encrypted_profile_backup_deletion,
\* stageExpiredBackupUploads, stageBackupRetentionPruning).
THEOREM DeletionsAreStaged == BkSpec => []DeletionIsStaged
  BY BkInvariant, PTL DEF BkInv

\* No object outlives both its backup and the operation that removes it, but
\* for those put after their upload had ended.
THEOREM ObjectsAreRemembered == BkSpec => []NoForgottenObject
  BY BkInvariant, PTL DEF BkInv

\* The guard trigger keeps the quotas whatever seals run at the same time, and
\* the retention pruning of the maintenance never finds anything.
THEOREM QuotasAreKept == BkSpec => []QuotasHold
<1>1. BkInv => QuotasHold
  BY NothingToPrune, Zenon DEF BkInv, WithinQuotas, QuotasHold
<1>2. QED
  BY <1>1, BkInvariant, PTL

\* A destroyed envelope never comes back, and a backup in deletion, deleted or
\* expired never becomes usable again.
THEOREM DestructionIsFinal == BkSpec => DestroyedForGood
<1>1. ASSUME BkInv, BkNext
      PROVE  /\ \A e \in DOMAIN envelope : envelope[e] = "destroyed" => envelope'[e] = "destroyed"
             /\ \A b \in BackupId : State(b) \in {"deleting", "deleted", "expired"} =>
                  backup'[b].state \in {"deleting", "deleted", "expired"}
  <2>1. RowsMove /\ EnvelopesMove
    BY <1>1, StepMoves, Zenon DEF Moves
  <2>2. ASSUME NEW e \in DOMAIN envelope, envelope[e] = "destroyed" PROVE envelope'[e] = "destroyed"
    <3>1. PICK b \in BackupId, d \in Device, n \in Epoch : e = <<b, d, n>>
      BY <1>1 DEF BkInv, BkTypeOK
    <3>2. EnvelopeMoves(b, d, n)
      BY <2>1, Zenon DEF EnvelopesMove
    <3>3. QED
      BY <2>2, <3>1, <3>2, Zenon DEF EnvelopeMoves
  <2>3. ASSUME NEW b \in BackupId, State(b) \in {"deleting", "deleted", "expired"}
        PROVE  backup'[b].state \in {"deleting", "deleted", "expired"}
    <3>1. RowMoves(b)
      BY <2>1, Zenon DEF RowsMove
    <3>2. QED
      BY <2>3, <3>1, Zenon DEF RowMoves, State
  <2>4. QED
    BY <2>2, <2>3, Zenon
<1>2. BkInv /\ [BkNext]_bkVars =>
        [/\ \A e \in DOMAIN envelope : envelope[e] = "destroyed" => envelope'[e] = "destroyed"
         /\ \A b \in BackupId : State(b) \in {"deleting", "deleted", "expired"} =>
              backup'[b].state \in {"deleting", "deleted", "expired"}]_bkVars
  BY <1>1, Zenon
<1>3. QED
  BY <1>2, BkInvariant, PTL DEF BkSpec, DestroyedForGood

=============================================================================
