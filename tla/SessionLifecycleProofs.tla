----------------------- MODULE SessionLifecycleProofs -----------------------
(***************************************************************************)
(* Theorems about SessionLifecycle for every number of accounts, devices,  *)
(* sessions and workers: the inductive invariant, that requests,           *)
(* statements and the passing of time preserve it, that commits preserve   *)
(* it, and what follows.                                                   *)
(***************************************************************************)
EXTENDS SessionLifecycle, TLAPS

(***************************************************************************)
(* The inductive invariant.                                                *)
(***************************************************************************)
Issued(s) == sessions[s].status # "unissued"

\* The statements each operation passes through.
Route(op) ==
    CASE op = "none" -> {"idle"}
      [] op = "refresh" -> {"read", "lockSource", "keyUser", "keyDevice", "commit",
                            "issue", "snapshot", "sweep"}
      [] op = "revoke_family" -> {"snapshot", "sweep"}
      [] op = "logout" -> {"lockSource", "snapshot", "sweep"}
      [] op = "cli_revoke_session" -> {"advisory", "lockSource", "snapshot", "sweep"}
      [] op = "admin_revoke_session" ->
           {"advisory", "lockUser", "lockSource", "snapshot", "sweep"}
      [] op = "change_password" ->
           {"advisory", "lockUser", "lockSource", "updateDevices", "snapshot", "sweep"}
      [] op \in {"device_revoke", "request_deletion", "disable_user", "finalize_deletion"} ->
           {"advisory", "lockUser", "updateDevices", "snapshot", "sweep"}
      [] op = "admin_revoke_device" ->
           {"advisory", "lockUser", "lockDevice", "snapshot", "sweep"}
      [] op = "self_revoke" -> {"lockDevice", "snapshot", "sweep"}
      [] op \in LiftOps -> {"advisory", "lockUser", "commit"}
      [] op = "authorize" -> {"advisory", "readUser", "lockDevice", "insertDevice",
                              "keyUser", "commit"}
      [] OTHER -> {"advisory", "lockUser", "snapshot", "sweep"}

AdvisoryOps == Ops \ {"none", "refresh", "revoke_family", "logout", "self_revoke"}
UserLockOps == AdvisoryOps \ {"authorize", "cli_revoke_session"}
SourceOps == FamilyOps \cup {"change_password"}
OwnerOps == {"device_revoke", "change_password", "request_deletion", "disable_user",
             "finalize_deletion"}
CompleteOps == UserOps \cup DeviceOps \cup {"admin_revoke_session"}

\* The locks a transaction holds at each statement.
LocksHeld(t) ==
    /\ t.pc \in Route(t.op)
    /\ t.op \in AdvisoryOps /\ t.pc # "advisory" => "advisory" \in t.holds
    /\ t.op \in UserLockOps /\ t.pc \notin {"advisory", "lockUser"} => "userX" \in t.holds
    /\ /\ t.op \in {"self_revoke", "admin_revoke_device"}
       /\ t.pc \in {"snapshot", "sweep"}
       => "deviceX" \in t.holds /\ t.devs = {t.device}
    /\ t.op = "device_revoke" /\ t.pc \in {"snapshot", "sweep"} => t.devs = {t.device}
    /\ t.op = "finalize_deletion" /\ t.pc \in {"snapshot", "sweep"} => "deviceX" \in t.holds
    /\ t.op = "authorize" /\ t.pc \in {"keyUser", "commit"} =>
         "deviceX" \in t.holds /\ t.devs = {t.device}
    /\ t.op = "authorize" => "userX" \notin t.holds
    /\ t.op = "authorize" /\ t.pc = "commit" => "userK" \in t.holds
    /\ t.op \in OwnerOps \ {"finalize_deletion"} => "deviceX" \notin t.holds
    /\ "source" \in t.holds => t.op \in SourceOps
    /\ t.op = "refresh" => t.holds \subseteq {"source", "userK", "deviceK"}
    /\ t.op = "refresh" /\ t.pc \in {"keyUser", "keyDevice", "commit"} => "source" \in t.holds
    /\ t.op = "refresh" /\ t.pc \in {"keyDevice", "commit"} => "userK" \in t.holds
    /\ t.op = "refresh" /\ t.pc = "commit" => "deviceK" \in t.holds /\ t.devs = {t.device}

\* What a transaction has read and its locks keep true until it commits.
ReadsHold(t) ==
    /\ t.op \in SourceOps =>
         /\ Issued(t.source)
         /\ sessions[t.source].user = t.user
         /\ sessions[t.source].device = t.device
    /\ t.op = "refresh" /\ t.pc \in {"keyUser", "keyDevice", "commit"} =>
         Live(t.source) /\ ~sessions[t.source].replaced
    /\ t.op = "authorize" /\ t.pc \in {"lockDevice", "insertDevice", "keyUser", "commit"} =>
         users[t.user] = "active"
    /\ t.op = "authorize" /\ t.pc \in {"keyUser", "commit"} =>
         devices[t.device].owner = t.user \/ devices[t.device].status # "active"
    /\ t.op = "finalize_deletion" /\ t.pc \notin {"advisory", "lockUser"} =>
         users[t.user] = "deletion_due"
    /\ t.op \in OwnerOps => \A d \in t.devs : devices[d].owner = t.user
    /\ t.op = "change_password" => sessions[t.source].device \notin t.devs
    /\ \A s \in t.fresh : ~Issued(s)
    /\ \A r, s \in t.fresh : r = s
    /\ \A s \in t.todo \cup t.done : Issued(s)

\* A sweep that must be complete has selected every live session of its scope.
SweepCovers(t) ==
    t.pc = "sweep" /\ t.op \in CompleteOps =>
        \A s \in Scope(t) : Live(s) => s \in t.todo \cup t.done

\* Two transactions do not hold conflicting locks.
Compatible(a, b) ==
    /\ a.user = b.user =>
         /\ ~("advisory" \in a.holds /\ "advisory" \in b.holds)
         /\ ~("userX" \in a.holds /\ "userX" \in b.holds)
         /\ ~("userX" \in a.holds /\ "userK" \in b.holds)
         /\ ~("userK" \in a.holds /\ "userX" \in b.holds)
    /\ "deviceX" \in a.holds \/ "deviceX" \in b.holds => a.devs \cap b.devs = {}
    /\ RowsOf(a) \cap RowsOf(b) = {}
    /\ a.fresh \cap b.fresh = {}

\* A family is rooted in an issued session and stays with one user and device.
FamiliesAreBound ==
    /\ \A s \in Session : Issued(s) => Issued(sessions[s].family)
    /\ \A r, s \in Session :
         /\ Issued(r) /\ Issued(s) /\ sessions[r].family = sessions[s].family
         => /\ sessions[r].user = sessions[s].user
            /\ sessions[r].device = sessions[s].device

IInv ==
    /\ TypeOK
    /\ LiveSessionsAreBacked
    /\ OneTipPerFamily
    /\ FamiliesAreBound
    /\ \A w \in Worker : LocksHeld(tx[w]) /\ ReadsHold(tx[w]) /\ SweepCovers(tx[w])
    /\ \A v, w \in Worker : v # w => Compatible(tx[v], tx[w])

Fine(t) == LocksHeld(t) /\ ReadsHold(t) /\ SweepCovers(t)

\* The record of an idle worker is well typed.
LEMMA IdleFacts ==
    /\ AnyUser \in User /\ AnyDevice \in Device /\ AnySession \in Session
    /\ Idle \in Transaction
<1>1. AnyUser \in User /\ AnyDevice \in Device /\ AnySession \in Session
  BY NonEmpty, Zenon DEF AnyUser, AnyDevice, AnySession
<1>2. Idle \in Transaction
  BY <1>1, Zenon DEF Idle, Transaction, Ops, Pcs
<1> QED BY <1>1, <1>2, Zenon

\* A step that changes one transaction record and no table keeps the invariant
\* when the new record satisfies its share of it.
LEMMA QuietStep ==
    ASSUME IInv, NEW w \in Worker, NEW t \in Transaction,
           tx' = [tx EXCEPT ![w] = t], UNCHANGED tables,
           Fine(t), \A v \in Worker \ {w} : Compatible(t, tx[v])
    PROVE  IInv'
<1>1. TypeOK' /\ LiveSessionsAreBacked' /\ OneTipPerFamily' /\ FamiliesAreBound'
  BY ZenonT(40) DEF IInv, TypeOK, tables, LiveSessionsAreBacked, OneTipPerFamily, FamiliesAreBound,
         Live, Issued
<1>2. tx \in [Worker -> Transaction] BY Zenon DEF IInv, TypeOK
<1>3. \A x \in Worker : tx'[x] = IF x = w THEN t ELSE tx[x]
  BY Zenon, <1>2
<1>4. ASSUME NEW x \in Worker
      PROVE  (LocksHeld(tx[x]) /\ ReadsHold(tx[x]) /\ SweepCovers(tx[x]))'
  <2>1. PICK next : next = tx'[x] BY Zenon
  <2>2. LocksHeld(next) /\ ReadsHold(next) /\ SweepCovers(next)
    BY Zenon, <2>1, <1>3 DEF Fine, IInv
  <2>3. /\ users' = users /\ devices' = devices /\ sessions' = sessions
    BY Zenon DEF tables
  <2>4. LocksHeld(tx[x])'
    BY ZenonT(60), <2>1, <2>2 DEF LocksHeld
  <2>5. ReadsHold(tx[x])'
    BY ZenonT(60), <2>1, <2>2, <2>3 DEF ReadsHold, Live, Issued
  <2>6. SweepCovers(tx[x])'
    BY ZenonT(60), <2>1, <2>2, <2>3 DEF SweepCovers, Scope, Present, Live
  <2> QED BY Zenon, <2>4, <2>5, <2>6
<1>5. ASSUME NEW x \in Worker, NEW y \in Worker, x # y
      PROVE  Compatible(tx[x], tx[y])'
  <2>1. Compatible(tx'[x], tx'[y])
    <3>1. CASE x = w BY <3>1, <1>3, <1>5
    <3>2. CASE y = w BY <3>2, <1>3, <1>5 DEF Compatible
    <3>3. CASE x # w /\ y # w BY <3>3, <1>3, <1>5, Zenon DEF IInv
    <3> QED BY <3>1, <3>2, <3>3, Zenon
  <2> QED BY <2>1, Zenon DEF Compatible, RowsOf
<1> QED BY <1>1, <1>4, <1>5, Zenon DEF IInv

(***************************************************************************)
(* Requests.                                                               *)
(***************************************************************************)
LEMMA BeginStep ==
    ASSUME IInv, NEW w \in Worker, NEW op \in Ops,
           NEW first \in {"advisory", "read", "lockSource", "lockDevice"},
           first \in Route(op), first # "advisory" => op \notin AdvisoryOps,
           NEW u \in User, NEW d \in Device, NEW s \in Session,
           op \in SourceOps =>
             Issued(s) /\ sessions[s].user = u /\ sessions[s].device = d,
           Begin(w, op, first, u, d, s)
    PROVE  IInv'
<1> DEFINE t == [Idle EXCEPT !.op = op, !.pc = first, !.user = u, !.device = d, !.source = s]
<1>1. t \in Transaction
  BY Zenon, IdleFacts DEF Transaction, Pcs
<1>2. /\ t.op = op /\ t.pc = first /\ t.user = u /\ t.device = d /\ t.source = s
      /\ t.fresh = {} /\ t.holds = {} /\ t.devs = {} /\ t.todo = {} /\ t.done = {}
  BY Zenon DEF Idle
<1>3. tx' = [tx EXCEPT ![w] = t] /\ UNCHANGED tables
  BY Zenon DEF Begin
<1> HIDE DEF t
<1>4. LocksHeld(t)
  BY <1>2, Zenon DEF LocksHeld, AdvisoryOps, UserLockOps
<1>5. ReadsHold(t) /\ SweepCovers(t)
  BY <1>2, Zenon DEF ReadsHold, SweepCovers, AdvisoryOps, Ops, UserOps
<1>6. \A v \in Worker \ {w} : Compatible(t, tx[v])
  BY <1>2, Zenon DEF Compatible, RowsOf
<1> QED BY Zenon, <1>1, <1>3, <1>4, <1>5, <1>6, QuietStep DEF Fine

\* The start of any request keeps the invariant.
LEMMA RequestStep ==
    ASSUME IInv, NEW w \in Worker, Request(w) PROVE IInv'
<1> USE IdleFacts
<1>1. ASSUME NEW op \in SourceOps, NEW first \in {"read", "lockSource", "advisory"},
             first \in Route(op), first # "advisory" => op \notin AdvisoryOps,
             OnSession(w, op, first)
      PROVE  IInv'
  <2>1. PICK s \in Session : Present(s) /\ Begin(w, op, first, sessions[s].user, sessions[s].device, s)
    BY <1>1, Zenon DEF OnSession
  <2>2. sessions[s].user \in User /\ sessions[s].device \in Device /\ Issued(s)
    BY <2>1, Zenon DEF IInv, TypeOK, Row, Present, Issued
  <2> QED BY <1>1, <2>1, <2>2, BeginStep, Zenon DEF SourceOps, FamilyOps, Ops, UserOps
<1>2. ASSUME NEW op \in DeviceOps, NEW first \in {"advisory", "lockDevice"},
             first \in Route(op), first # "advisory" => op \notin AdvisoryOps,
             OnDevice(w, op, first)
      PROVE  IInv'
  <2>1. PICK d \in Device : Begin(w, op, first, devices[d].owner, d, AnySession)
    BY <1>2, Zenon DEF OnDevice
  <2>2. devices[d].owner \in User
    BY Zenon DEF IInv, TypeOK
  <2> QED BY <1>2, <2>1, <2>2, BeginStep, Zenon DEF SourceOps, FamilyOps, DeviceOps, Ops
<1>3. ASSUME NEW op \in (UserOps \cup LiftOps) \ {"change_password"}, OnUser(w, op)
      PROVE  IInv'
  <2>1. PICK u \in User : Begin(w, op, "advisory", u, AnyDevice, AnySession)
    BY <1>3, Zenon DEF OnUser
  <2>2. op \in Ops \ SourceOps /\ "advisory" \in Route(op)
    BY <1>3, Zenon DEF UserOps, LiftOps, SourceOps, FamilyOps, Ops, Route
  <2> QED BY <2>1, <2>2, BeginStep, Zenon
<1>4. CASE Authorize(w)
  <2>1. PICK u \in User, d \in Device : Begin(w, "authorize", "advisory", u, d, AnySession)
    BY <1>4, Zenon DEF Authorize
  <2> QED BY Zenon, <2>1, BeginStep DEF SourceOps, FamilyOps, Ops, Route, LiftOps
<1>5. CASE \/ Refresh(w) \/ RevokeByToken(w) \/ CliRevokeSession(w) \/ AdminRevokeSession(w)
           \/ ChangePassword(w)
  BY <1>1, <1>5, Zenon DEF Refresh, RevokeByToken, CliRevokeSession, AdminRevokeSession,
     ChangePassword, SourceOps, FamilyOps, AdvisoryOps, Route, LiftOps
<1>6. CASE DeviceRevoke(w) \/ AdminRevokeDevice(w) \/ SelfRevoke(w)
  BY <1>2, <1>6, Zenon DEF DeviceRevoke, AdminRevokeDevice, SelfRevoke, DeviceOps, AdvisoryOps,
     Route, LiftOps
<1>7. CASE \/ ResetPassword(w) \/ RevokeAllSessions(w) \/ ForcePasswordReset(w)
           \/ RequestDeletion(w) \/ RecoverDeletion(w) \/ FinalizeDeletion(w)
           \/ DisableUser(w) \/ EnableUser(w)
  BY <1>3, <1>7, Zenon DEF ResetPassword, RevokeAllSessions, ForcePasswordReset, RequestDeletion,
     RecoverDeletion, FinalizeDeletion, DisableUser, EnableUser, UserOps, LiftOps
<1> QED BY <1>4, <1>5, <1>6, <1>7, Zenon DEF Request

(***************************************************************************)
(* Statements.                                                             *)
(***************************************************************************)
\* A statement that moves its transaction on and takes locks.
LEMMA MovedStep ==
    ASSUME IInv, NEW w \in Worker, NEW pc \in Pcs,
           NEW H \in SUBSET Modes, NEW D \in SUBSET Device,
           LET t == Moved(tx[w], pc, H, D)
           IN /\ tx' = [tx EXCEPT ![w] = t]
              /\ LocksHeld(t) /\ ReadsHold(t)
              /\ \A v \in Worker \ {w} : Compatible(t, tx[v]),
           UNCHANGED tables, pc # "sweep"
    PROVE  IInv'
<1> DEFINE t == Moved(tx[w], pc, H, D)
<1>1. tx[w] \in Transaction
  BY Zenon DEF IInv, TypeOK
<1>2. t \in Transaction /\ t.pc = pc
  BY Zenon, <1>1 DEF Moved, Transaction
<1>3. SweepCovers(t)
  BY <1>2, Zenon DEF SweepCovers
<1> QED BY Zenon, <1>2, <1>3, QuietStep DEF Fine

\* What moving to the next statement leaves alone.
LEMMA MovedFields ==
    ASSUME IInv, NEW w \in Worker, NEW pc, NEW H, NEW D
    PROVE  LET t == Moved(tx[w], pc, H, D)
           IN /\ t.op = tx[w].op /\ t.pc = pc /\ t.user = tx[w].user
              /\ t.device = tx[w].device /\ t.source = tx[w].source
              /\ t.fresh = tx[w].fresh /\ t.todo = tx[w].todo /\ t.done = tx[w].done
              /\ t.holds = H /\ t.devs = D
BY ZenonT(40) DEF IInv, TypeOK, Transaction, Moved

\* The invariant, spelled out for one transaction.
LEMMA OwnFacts ==
    ASSUME IInv, NEW w \in Worker
    PROVE  /\ tx[w] \in Transaction /\ LocksHeld(tx[w]) /\ ReadsHold(tx[w])
           /\ SweepCovers(tx[w])
           /\ \A v \in Worker \ {w} : Compatible(tx[w], tx[v]) /\ tx[v] \in Transaction
BY Zenon DEF IInv, TypeOK

\* The advisory lock of an account.
LEMMA LockAdvisoryStep ==
    ASSUME IInv, NEW w \in Worker, LockAdvisory(w) PROVE IInv'
<1> DEFINE pc == After(tx[w].op, "advisory")
           H == tx[w].holds \cup {"advisory"}
           t == Moved(tx[w], pc, H, tx[w].devs)
<1>1. /\ tx[w] \in Transaction /\ LocksHeld(tx[w]) /\ ReadsHold(tx[w])
      /\ \A v \in Worker \ {w} : Compatible(tx[w], tx[v])
  BY OwnFacts, Zenon
<1>2. /\ tx[w].pc = "advisory" /\ pc \in {"readUser", "lockSource", "lockUser"}
      /\ tx[w].op # "refresh"
  BY <1>1, Zenon DEF LockAdvisory, Granted, After, LocksHeld, Route, LiftOps
<1>3. /\ pc \in Pcs /\ H \in SUBSET Modes /\ tx[w].devs \in SUBSET Device
      /\ tx' = [tx EXCEPT ![w] = t] /\ UNCHANGED tables
  <2>1. pc \in Pcs /\ H \in SUBSET Modes /\ tx[w].devs \in SUBSET Device
    BY <1>1, <1>2, Zenon DEF Transaction, Modes, Pcs
  <2>2. tx' = [tx EXCEPT ![w] = t] /\ UNCHANGED tables
    BY <1>2, Zenon DEF LockAdvisory, Proceed, After
  <2> QED BY <2>1, <2>2, Zenon
<1>4. /\ t.op = tx[w].op /\ t.user = tx[w].user /\ t.device = tx[w].device
      /\ t.source = tx[w].source /\ t.fresh = tx[w].fresh /\ t.todo = tx[w].todo
      /\ t.done = tx[w].done /\ t.pc = pc /\ t.holds = H /\ t.devs = tx[w].devs
  BY MovedFields
<1> HIDE DEF t
<1>5. LocksHeld(t)
  <2>1. t.pc \in Route(t.op)
    BY <1>1, <1>2, <1>4, Zenon DEF LocksHeld, Route, After, LiftOps
  <2> QED BY <2>1, <1>1, <1>2, <1>4, Zenon DEF LocksHeld, After, UserLockOps, AdvisoryOps
<1>6. ReadsHold(t)
  BY <1>1, <1>2, <1>4, ZenonT(40) DEF ReadsHold, After
<1>7. ASSUME NEW v \in Worker \ {w} PROVE Compatible(t, tx[v])
  <2>1. ~("advisory" \in tx[v].holds /\ tx[v].user = tx[w].user)
    BY <1>2, Zenon DEF LockAdvisory, Granted, Blockers, Holds
  <2> QED BY <2>1, <1>1, <1>4, Zenon DEF Compatible, RowsOf
<1> QED BY Zenon, <1>2, <1>3, <1>5, <1>6, <1>7, MovedStep DEF t

\* AuthorizeInTx reads the account's status under the advisory lock.
LEMMA ReadUserStep ==
    ASSUME IInv, NEW w \in Worker, ReadUser(w) PROVE IInv'
<1> DEFINE pc == "lockDevice"
           H == tx[w].holds \cup {}
           t == Moved(tx[w], pc, H, tx[w].devs)
<1>1. /\ tx[w] \in Transaction /\ LocksHeld(tx[w]) /\ ReadsHold(tx[w])
      /\ \A v \in Worker \ {w} : Compatible(tx[w], tx[v])
  BY OwnFacts, Zenon
<1>2. tx[w].pc = "readUser" /\ users[tx[w].user] = "active" /\ tx[w].op = "authorize"
  BY <1>1, Zenon DEF ReadUser, Granted, Admissible, LocksHeld, Route, LiftOps
<1>3. /\ pc \in Pcs /\ H \in SUBSET Modes /\ tx[w].devs \in SUBSET Device
      /\ tx' = [tx EXCEPT ![w] = t] /\ UNCHANGED tables
  <2>1. pc \in Pcs /\ H \in SUBSET Modes /\ tx[w].devs \in SUBSET Device
    BY <1>1, <1>2, Zenon DEF Transaction, Modes, Pcs
  <2>2. tx' = [tx EXCEPT ![w] = t] /\ UNCHANGED tables
    BY <1>2, Zenon DEF ReadUser, Proceed, After
  <2> QED BY <2>1, <2>2, Zenon
<1>4. /\ t.op = tx[w].op /\ t.user = tx[w].user /\ t.device = tx[w].device
      /\ t.source = tx[w].source /\ t.fresh = tx[w].fresh /\ t.todo = tx[w].todo
      /\ t.done = tx[w].done /\ t.pc = pc /\ t.holds = H /\ t.devs = tx[w].devs
  BY MovedFields
<1> HIDE DEF t
<1>5. LocksHeld(t)
  BY <1>1, <1>2, <1>4, Zenon DEF LocksHeld, Route, LiftOps, UserLockOps
<1>6. ReadsHold(t)
  BY <1>1, <1>2, <1>4, Zenon DEF ReadsHold, SourceOps, FamilyOps, OwnerOps
<1>7. ASSUME NEW v \in Worker \ {w} PROVE Compatible(t, tx[v])
  BY <1>1, <1>4, Zenon DEF Compatible, RowsOf
<1> QED BY Zenon, <1>2, <1>3, <1>5, <1>6, <1>7, MovedStep DEF t

\* SELECT ... FOR UPDATE of the account.
LEMMA LockUserStep ==
    ASSUME IInv, NEW w \in Worker, LockUser(w) PROVE IInv'
<1> DEFINE pc == After(tx[w].op, "lockUser")
           H == tx[w].holds \cup {"userX"}
           t == Moved(tx[w], pc, H, tx[w].devs)
<1>1. /\ tx[w] \in Transaction /\ LocksHeld(tx[w]) /\ ReadsHold(tx[w])
      /\ \A v \in Worker \ {w} : Compatible(tx[w], tx[v])
  BY OwnFacts, Zenon
<1>2. /\ tx[w].pc = "lockUser" /\ tx[w].op \notin {"authorize", "refresh"}
      /\ tx[w].op = "finalize_deletion" => users[tx[w].user] = "deletion_due"
      /\ pc \in {"lockSource", "lockDevice", "updateDevices", "commit", "snapshot"}
      /\ pc = "snapshot" => tx[w].op \notin DeviceOps \cup {"finalize_deletion"}
  BY <1>1, Zenon DEF LockUser, Granted, After, Admissible, AccountStates, LocksHeld, Route,
     LiftOps, DeviceOps
<1>3. /\ pc \in Pcs /\ H \in SUBSET Modes /\ tx[w].devs \in SUBSET Device
      /\ tx' = [tx EXCEPT ![w] = t] /\ UNCHANGED tables
  <2>1. pc \in Pcs /\ H \in SUBSET Modes /\ tx[w].devs \in SUBSET Device
    BY <1>1, <1>2, Zenon DEF Transaction, Modes, Pcs
  <2>2. tx' = [tx EXCEPT ![w] = t] /\ UNCHANGED tables
    BY Zenon, <1>2 DEF LockUser, Proceed, After
  <2> QED BY <2>1, <2>2, Zenon
<1>4. /\ t.op = tx[w].op /\ t.user = tx[w].user /\ t.device = tx[w].device
      /\ t.source = tx[w].source /\ t.fresh = tx[w].fresh /\ t.todo = tx[w].todo
      /\ t.done = tx[w].done /\ t.pc = pc /\ t.holds = H /\ t.devs = tx[w].devs
  BY SMTT(30), MovedFields
<1> HIDE DEF t
<1>5. LocksHeld(t)
  <2>1. t.pc \in Route(t.op)
    BY ZenonT(40), <1>1, <1>2, <1>4 DEF LocksHeld, Route, After, LiftOps
  <2> QED BY Zenon, <2>1, <1>1, <1>2, <1>4 DEF LocksHeld, UserLockOps, DeviceOps
<1>6. ReadsHold(t)
  BY <1>1, <1>2, <1>4, ZenonT(40) DEF ReadsHold
<1>7. ASSUME NEW v \in Worker \ {w} PROVE Compatible(t, tx[v])
  <2>1. ~(("userX" \in tx[v].holds \/ "userK" \in tx[v].holds) /\ tx[v].user = tx[w].user)
    BY <1>2, Zenon DEF LockUser, Granted, Blockers, Holds
  <2> QED BY <2>1, <1>1, <1>4, Zenon DEF Compatible, RowsOf
<1> QED BY Zenon, <1>2, <1>3, <1>5, <1>6, <1>7, MovedStep DEF t

\* RevokeByToken locks the session it was given.
LEMMA LockSourceStep ==
    ASSUME IInv, NEW w \in Worker, LockSource(w) PROVE IInv'
<1> DEFINE pc == After(tx[w].op, "lockSource")
           H == tx[w].holds \cup {"source"}
           t == Moved(tx[w], pc, H, tx[w].devs)
<1>1. /\ tx[w] \in Transaction /\ LocksHeld(tx[w]) /\ ReadsHold(tx[w])
      /\ \A v \in Worker \ {w} : Compatible(tx[w], tx[v])
  BY OwnFacts, Zenon
<1>2. /\ tx[w].pc = "lockSource" /\ tx[w].op \notin {"authorize", "refresh"}
      /\ pc \in {"updateDevices", "snapshot"}
  BY <1>1, Zenon DEF LockSource, Granted, After, LocksHeld, Route, LiftOps
<1>3. /\ pc \in Pcs /\ H \in SUBSET Modes /\ tx[w].devs \in SUBSET Device
      /\ tx' = [tx EXCEPT ![w] = t] /\ UNCHANGED tables
  <2>1. pc \in Pcs /\ H \in SUBSET Modes /\ tx[w].devs \in SUBSET Device
    BY <1>1, <1>2, Zenon DEF Transaction, Modes, Pcs
  <2>2. tx' = [tx EXCEPT ![w] = t] /\ UNCHANGED tables
    BY Zenon, <1>2 DEF LockSource, Proceed, After
  <2> QED BY <2>1, <2>2, Zenon
<1>4. /\ t.op = tx[w].op /\ t.user = tx[w].user /\ t.device = tx[w].device
      /\ t.source = tx[w].source /\ t.fresh = tx[w].fresh /\ t.todo = tx[w].todo
      /\ t.done = tx[w].done /\ t.pc = pc /\ t.holds = H /\ t.devs = tx[w].devs
  BY SMTT(30), MovedFields
<1> HIDE DEF t
<1>5. LocksHeld(t)
  <2>1. t.pc \in Route(t.op)
    BY Zenon, <1>1, <1>2, <1>4 DEF LocksHeld, Route, After, LiftOps
  <2> QED BY <2>1, <1>1, <1>2, <1>4, ZenonT(40) DEF LocksHeld, After, UserLockOps, AdvisoryOps, Route, LiftOps, SourceOps, FamilyOps
<1>6. ReadsHold(t)
  BY ZenonT(40), <1>1, <1>2, <1>4 DEF ReadsHold
<1>7. ASSUME NEW v \in Worker \ {w} PROVE Compatible(t, tx[v])
  <2>1. tx[w].source \notin RowsOf(tx[v])
    BY <1>2, Zenon DEF LockSource, Granted, Blockers, Rows
  <2> QED BY <2>1, <1>1, <1>4 DEF Compatible, RowsOf
<1> QED BY Zenon, <1>2, <1>3, <1>5, <1>6, <1>7, MovedStep DEF t

\* The key-share lock on the device that an insert of a session takes.
LEMMA KeyDeviceStep ==
    ASSUME IInv, NEW w \in Worker, KeyDevice(w) PROVE IInv'
<1> DEFINE pc == "commit"
           H == tx[w].holds \cup {"deviceK"}
           D == {tx[w].device}
           t == Moved(tx[w], pc, H, D)
<1>1. /\ tx[w] \in Transaction /\ LocksHeld(tx[w]) /\ ReadsHold(tx[w])
      /\ \A v \in Worker \ {w} : Compatible(tx[w], tx[v])
  BY OwnFacts, Zenon
<1>2. tx[w].pc = "keyDevice" /\ tx[w].op = "refresh"
  BY <1>1, Zenon DEF KeyDevice, Granted, LocksHeld, Route, LiftOps
<1>3. /\ pc \in Pcs /\ H \in SUBSET Modes /\ D \in SUBSET Device
      /\ tx' = [tx EXCEPT ![w] = t] /\ UNCHANGED tables
  <2>1. pc \in Pcs /\ H \in SUBSET Modes /\ D \in SUBSET Device
    BY <1>1, <1>2, Zenon DEF Transaction, Modes, Pcs
  <2>2. tx' = [tx EXCEPT ![w] = t] /\ UNCHANGED tables
    BY <1>2, Zenon DEF KeyDevice, Proceed, After
  <2> QED BY <2>1, <2>2, Zenon
<1>4. /\ t.op = tx[w].op /\ t.user = tx[w].user /\ t.device = tx[w].device
      /\ t.source = tx[w].source /\ t.fresh = tx[w].fresh /\ t.todo = tx[w].todo
      /\ t.done = tx[w].done /\ t.pc = pc /\ t.holds = H /\ t.devs = D
  BY MovedFields
<1> HIDE DEF t
<1>5. LocksHeld(t)
  BY Zenon, <1>1, <1>2, <1>4 DEF LocksHeld, Route, LiftOps, UserLockOps, AdvisoryOps
<1>6. ReadsHold(t)
  BY ZenonT(40), <1>1, <1>2, <1>4 DEF ReadsHold, OwnerOps, SourceOps, FamilyOps
<1>7. ASSUME NEW v \in Worker \ {w} PROVE Compatible(t, tx[v])
  <2>1. ~("deviceX" \in tx[v].holds /\ tx[w].device \in tx[v].devs)
    BY Zenon, <1>2 DEF KeyDevice, Granted, Blockers, Holds
  <2> QED BY <2>1, <1>1, <1>2, <1>4 DEF Compatible, RowsOf, LocksHeld
<1> QED BY Zenon, <1>2, <1>3, <1>5, <1>6, <1>7, MovedStep DEF t

\* SELECT ... FOR UPDATE of the device.
LEMMA LockDeviceStep ==
    ASSUME IInv, NEW w \in Worker, LockDevice(w) PROVE IInv'
<1> DEFINE pc == After(tx[w].op, "lockDevice")
           H == tx[w].holds \cup {"deviceX"}
           D == {tx[w].device}
           t == Moved(tx[w], pc, H, D)
<1>1. /\ tx[w] \in Transaction /\ LocksHeld(tx[w]) /\ ReadsHold(tx[w])
      /\ \A v \in Worker \ {w} : Compatible(tx[w], tx[v])
  BY OwnFacts, Zenon
<1>2. /\ tx[w].pc = "lockDevice" /\ tx[w].op \in {"authorize", "self_revoke", "admin_revoke_device"}
      /\ pc = IF tx[w].op = "authorize" THEN "keyUser" ELSE "snapshot"
      /\ tx[w].op = "authorize" =>
           devices[tx[w].device].owner = tx[w].user \/ devices[tx[w].device].status # "active"
  BY <1>1, Zenon DEF LockDevice, Granted, After, LocksHeld, Route, LiftOps, Admissible, MayAuthorize
<1>3. /\ pc \in Pcs /\ H \in SUBSET Modes /\ D \in SUBSET Device
      /\ tx' = [tx EXCEPT ![w] = t] /\ UNCHANGED tables
  <2>1. pc \in Pcs /\ H \in SUBSET Modes /\ D \in SUBSET Device
    BY <1>1, <1>2, Zenon DEF Transaction, Modes, Pcs
  <2>2. tx' = [tx EXCEPT ![w] = t] /\ UNCHANGED tables
    BY Zenon, <1>2 DEF LockDevice, Proceed, After
  <2> QED BY <2>1, <2>2, Zenon
<1>4. /\ t.op = tx[w].op /\ t.user = tx[w].user /\ t.device = tx[w].device
      /\ t.source = tx[w].source /\ t.fresh = tx[w].fresh /\ t.todo = tx[w].todo
      /\ t.done = tx[w].done /\ t.pc = pc /\ t.holds = H /\ t.devs = D
  BY SMTT(30), MovedFields
<1> HIDE DEF t
<1>5. LocksHeld(t)
  BY Zenon, <1>1, <1>2, <1>4 DEF LocksHeld, Route, LiftOps, UserLockOps, AdvisoryOps, OwnerOps
<1>6. ReadsHold(t)
  BY <1>1, <1>2, <1>4, ZenonT(40) DEF ReadsHold, SourceOps, FamilyOps, OwnerOps
<1>7. ASSUME NEW v \in Worker \ {w} PROVE Compatible(t, tx[v])
  <2>1. tx[w].device \notin tx[v].devs
    BY <1>2, Zenon DEF LockDevice, Granted, Blockers
  <2> QED BY ZenonT(40), <2>1, <1>1, <1>4 DEF Compatible, RowsOf
<1> QED BY Zenon, <1>2, <1>3, <1>5, <1>6, <1>7, MovedStep DEF t

\* The insert of a device row that was missing.
LEMMA InsertDeviceStep ==
    ASSUME IInv, NEW w \in Worker, InsertDevice(w) PROVE IInv'
<1> DEFINE pc == "keyUser"
           H == tx[w].holds \cup {"deviceX"}
           D == {tx[w].device}
           t == Moved(tx[w], pc, H, D)
<1>1. /\ tx[w] \in Transaction /\ LocksHeld(tx[w]) /\ ReadsHold(tx[w])
      /\ \A v \in Worker \ {w} : Compatible(tx[w], tx[v])
  BY OwnFacts, Zenon
<1>2. /\ tx[w].pc = "insertDevice" /\ tx[w].op = "authorize"
      /\ devices[tx[w].device].status = "absent"
  BY <1>1, Zenon DEF InsertDevice, Granted, LocksHeld, Route, LiftOps, Admissible
<1>3. /\ pc \in Pcs /\ H \in SUBSET Modes /\ D \in SUBSET Device
      /\ tx' = [tx EXCEPT ![w] = t] /\ UNCHANGED tables
  <2>1. pc \in Pcs /\ H \in SUBSET Modes /\ D \in SUBSET Device
    BY <1>1, <1>2, Zenon DEF Transaction, Modes, Pcs
  <2>2. tx' = [tx EXCEPT ![w] = t] /\ UNCHANGED tables
    BY Zenon, <1>2 DEF InsertDevice, Proceed, After
  <2> QED BY <2>1, <2>2, Zenon
<1>4. /\ t.op = tx[w].op /\ t.user = tx[w].user /\ t.device = tx[w].device
      /\ t.source = tx[w].source /\ t.fresh = tx[w].fresh /\ t.todo = tx[w].todo
      /\ t.done = tx[w].done /\ t.pc = pc /\ t.holds = H /\ t.devs = D
  BY MovedFields
<1> HIDE DEF t
<1>5. LocksHeld(t)
  BY Zenon, <1>1, <1>2, <1>4 DEF LocksHeld, Route, LiftOps, UserLockOps, OwnerOps
<1>6. ReadsHold(t)
  BY ZenonT(40), <1>1, <1>2, <1>4 DEF ReadsHold, SourceOps, FamilyOps, OwnerOps
<1>7. ASSUME NEW v \in Worker \ {w} PROVE Compatible(t, tx[v])
  <2>1. tx[w].device \notin tx[v].devs
    BY <1>2, Zenon DEF InsertDevice, Granted, Blockers
  <2> QED BY ZenonT(40), <2>1, <1>1, <1>4 DEF Compatible, RowsOf
<1> QED BY Zenon, <1>2, <1>3, <1>5, <1>6, <1>7, MovedStep DEF t

\* The UPDATE of several devices.
LEMMA UpdateDevicesStep ==
    ASSUME IInv, NEW w \in Worker, UpdateDevices(w) PROVE IInv'
<1> DEFINE pc == "snapshot"
           H == tx[w].holds \cup {IF tx[w].op = "finalize_deletion" THEN "deviceX" ELSE "deviceW"}
           D == DeviceTargets(tx[w])
           t == Moved(tx[w], pc, H, D)
<1>1. /\ tx[w] \in Transaction /\ LocksHeld(tx[w]) /\ ReadsHold(tx[w])
      /\ \A v \in Worker \ {w} : Compatible(tx[w], tx[v])
  BY OwnFacts, Zenon
<1>2. /\ tx[w].pc = "updateDevices" /\ tx[w].op \in OwnerOps
      /\ D \subseteq Device /\ \A d \in D : devices[d].owner = tx[w].user
      /\ tx[w].op = "change_password" => sessions[tx[w].source].device \notin D
      /\ tx[w].op = "device_revoke" => D = {tx[w].device}
  BY <1>1, ZenonT(40) DEF UpdateDevices, Granted, LocksHeld, Route, LiftOps, Admissible, DeviceTargets,
     OwnerOps, Transaction
<1>3. /\ pc \in Pcs /\ H \in SUBSET Modes /\ D \in SUBSET Device
      /\ tx' = [tx EXCEPT ![w] = t] /\ UNCHANGED tables
  <2>1. pc \in Pcs /\ H \in SUBSET Modes /\ D \in SUBSET Device
    BY <1>1, <1>2, Zenon DEF Transaction, Modes, Pcs
  <2>2. tx' = [tx EXCEPT ![w] = t] /\ UNCHANGED tables
    BY Zenon, <1>2 DEF UpdateDevices, Proceed, After
  <2> QED BY <2>1, <2>2, Zenon
<1>4. /\ t.op = tx[w].op /\ t.user = tx[w].user /\ t.device = tx[w].device
      /\ t.source = tx[w].source /\ t.fresh = tx[w].fresh /\ t.todo = tx[w].todo
      /\ t.done = tx[w].done /\ t.pc = pc /\ t.holds = H /\ t.devs = D
  BY SMTT(30), MovedFields
<1> HIDE DEF t
<1>5. LocksHeld(t)
  BY Zenon, <1>1, <1>2, <1>4 DEF LocksHeld, Route, LiftOps, UserLockOps, AdvisoryOps, OwnerOps
<1>6. ReadsHold(t)
  BY ZenonT(40), <1>1, <1>2, <1>4 DEF ReadsHold, OwnerOps
<1>7. ASSUME NEW v \in Worker \ {w} PROVE Compatible(t, tx[v])
  <2>1. ~(/\ tx[v].devs \cap D # {}
          /\ "deviceX" \in tx[v].holds \/ tx[w].op = "finalize_deletion")
    BY Zenon, <1>2 DEF UpdateDevices, Granted, Blockers, Holds
  <2>2. tx[w].op # "finalize_deletion" => "deviceX" \notin H
    BY <1>1, <1>2, Zenon DEF LocksHeld
  <2> HIDE DEF D, H
  <2>3. /\ "deviceX" \in H \/ "deviceX" \in tx[v].holds => D \cap tx[v].devs = {}
    BY <2>1, <2>2, Zenon
  <2>4. \A m \in {"advisory", "userX", "userK", "source"} : m \in H <=> m \in tx[w].holds
    BY Zenon DEF H
  <2> QED BY Zenon, <2>3, <2>4, <1>1, <1>4 DEF Compatible, RowsOf
<1> QED BY ZenonT(60), <1>2, <1>3, <1>5, <1>6, <1>7, MovedStep DEF t

\* The installation has no device row yet.
LEMMA MissDeviceStep ==
    ASSUME IInv, NEW w \in Worker, MissDevice(w) PROVE IInv'
<1> DEFINE t == [tx[w] EXCEPT !.pc = "insertDevice"]
<1>1. /\ tx[w] \in Transaction /\ LocksHeld(tx[w]) /\ ReadsHold(tx[w])
      /\ \A v \in Worker \ {w} : Compatible(tx[w], tx[v])
  BY OwnFacts, Zenon
<1>2. /\ tx[w].pc = "lockDevice" /\ tx[w].op = "authorize"
  BY <1>1 DEF MissDevice, Granted, Admissible, LocksHeld, Route, LiftOps
<1>3. t \in Transaction /\ tx' = [tx EXCEPT ![w] = t] /\ UNCHANGED tables
  <2>1. t \in Transaction
    BY <1>1, Zenon DEF Transaction, Pcs
  <2>2. tx' = [tx EXCEPT ![w] = t] /\ UNCHANGED tables
    BY Zenon DEF MissDevice
  <2> QED BY <2>1, <2>2, Zenon
<1>4. /\ t.op = tx[w].op /\ t.pc = "insertDevice" /\ t.user = tx[w].user
      /\ t.device = tx[w].device /\ t.source = tx[w].source
      /\ t.fresh = tx[w].fresh /\ t.holds = tx[w].holds /\ t.devs = tx[w].devs
      /\ t.todo = tx[w].todo /\ t.done = tx[w].done
  BY <1>1, Zenon DEF Transaction
<1> HIDE DEF t
<1>5. LocksHeld(t)
  BY Zenon, <1>1, <1>2, <1>4 DEF LocksHeld, Route, LiftOps, UserLockOps
<1>6. ReadsHold(t)
  BY <1>1, <1>2, <1>4, Zenon DEF ReadsHold
<1>7. SweepCovers(t)
  BY Zenon, <1>2, <1>4 DEF SweepCovers
<1>8. ASSUME NEW v \in Worker \ {w} PROVE Compatible(t, tx[v])
  BY <1>1, <1>4, Zenon DEF Compatible, RowsOf
<1> QED BY ZenonT(60), <1>3, <1>5, <1>6, <1>7, <1>8, QuietStep DEF Fine

\* Rotate locks its session and reads the joined account and device.
LEMMA ReadForRotateStep ==
    ASSUME IInv, NEW w \in Worker, ReadForRotate(w) PROVE IInv'
<1> DEFINE t == [tx[w] EXCEPT !.pc = "lockSource", !.seen = users[tx[w].user] = "active" /\ devices[tx[w].device].status = "active"]
<1>1. /\ tx[w] \in Transaction /\ LocksHeld(tx[w]) /\ ReadsHold(tx[w])
      /\ \A v \in Worker \ {w} : Compatible(tx[w], tx[v])
  BY OwnFacts, Zenon
<1>2. /\ tx[w].pc = "read" /\ tx[w].op = "refresh"
  BY <1>1, Zenon DEF ReadForRotate, LocksHeld, Route, LiftOps
<1>3. t \in Transaction /\ tx' = [tx EXCEPT ![w] = t] /\ UNCHANGED tables
  <2>1. t \in Transaction
    BY ZenonT(60), <1>1 DEF Transaction, Pcs
  <2>2. tx' = [tx EXCEPT ![w] = t] /\ UNCHANGED tables
    BY Zenon, <1>2 DEF ReadForRotate, After
  <2> QED BY <2>1, <2>2, Zenon
<1>4. /\ t.op = tx[w].op /\ t.pc = "lockSource" /\ t.user = tx[w].user
      /\ t.device = tx[w].device /\ t.source = tx[w].source
      /\ t.fresh = tx[w].fresh /\ t.holds = tx[w].holds /\ t.devs = tx[w].devs
      /\ t.todo = tx[w].todo /\ t.done = tx[w].done
  BY <1>1, Zenon DEF Transaction
<1> HIDE DEF t
<1>5. LocksHeld(t)
  BY <1>1, <1>2, <1>4, Zenon DEF LocksHeld, Route, LiftOps, UserLockOps, AdvisoryOps
<1>6. ReadsHold(t)
  BY <1>1, <1>2, <1>4, ZenonT(40) DEF ReadsHold
<1>7. SweepCovers(t)
  BY <1>2, <1>4, Zenon DEF SweepCovers
<1>8. ASSUME NEW v \in Worker \ {w} PROVE Compatible(t, tx[v])
  BY <1>1, <1>4, Zenon DEF Compatible, RowsOf
<1> QED BY Zenon, <1>3, <1>5, <1>6, <1>7, <1>8, QuietStep DEF Fine

\* Rotate decides between rotation, replay and refusal on what it has read.
LEMMA DecideRotationStep ==
    ASSUME IInv, NEW w \in Worker, DecideRotation(w) PROVE IInv'
<1>1. /\ tx[w] \in Transaction /\ LocksHeld(tx[w]) /\ ReadsHold(tx[w])
      /\ \A v \in Worker \ {w} : Compatible(tx[w], tx[v])
  BY OwnFacts, Zenon
<1>2. PICK plan \in {"rotate", "replay", "invalid"}, pc \in {"keyUser", "snapshot"} :
        /\ tx' = [tx EXCEPT ![w].pc = pc, ![w].plan = plan, ![w].holds = @ \cup {"source"}]
        /\ pc = "keyUser" => Live(tx[w].source) /\ ~sessions[tx[w].source].replaced
  BY Zenon DEF DecideRotation, Live
<1> DEFINE H == tx[w].holds \cup {"source"}
           t == [tx[w] EXCEPT !.pc = pc, !.plan = plan, !.holds = H]
<1>3. t \in Transaction /\ tx' = [tx EXCEPT ![w] = t] /\ UNCHANGED tables
  <2>1. t \in Transaction
    BY Zenon, <1>1 DEF Transaction, Pcs, Modes
  <2>2. tx' = [tx EXCEPT ![w] = t]
    BY Zenon, <1>2
  <2> QED BY <2>1, <2>2, Zenon DEF DecideRotation
<1>4. /\ t.op = tx[w].op /\ t.pc = pc /\ t.user = tx[w].user /\ t.device = tx[w].device
      /\ t.source = tx[w].source /\ t.fresh = tx[w].fresh /\ t.holds = H
      /\ t.devs = tx[w].devs /\ t.todo = tx[w].todo /\ t.done = tx[w].done
  BY <1>1, Zenon DEF Transaction
<1>5. tx[w].op = "refresh"
  BY Zenon DEF DecideRotation
<1> HIDE DEF t
<1>6. LocksHeld(t)
  BY <1>1, <1>4, <1>5, Zenon DEF LocksHeld, Route, LiftOps, UserLockOps, AdvisoryOps, SourceOps, FamilyOps
<1>7. ReadsHold(t)
  BY <1>1, <1>2, <1>4, <1>5, Zenon DEF ReadsHold
<1>8. SweepCovers(t)
  BY Zenon, <1>4 DEF SweepCovers
<1>9. ASSUME NEW v \in Worker \ {w} PROVE Compatible(t, tx[v])
  <2>1. tx[w].source \notin RowsOf(tx[v])
    BY Zenon DEF DecideRotation, Granted, Blockers, Rows
  <2> QED BY SMTT(30), <2>1, <1>1, <1>4 DEF Compatible, RowsOf
<1> QED BY Zenon, <1>3, <1>6, <1>7, <1>8, <1>9, QuietStep DEF Fine
-----------------------------------------------------------------------------
(***************************************************************************)
(* Sweeps, inserts and commits.                                            *)
(***************************************************************************)
\* An UPDATE of sessions that fixes its snapshot: under the locks it covers its scope.
LEMMA SnapshotStep ==
    ASSUME IInv, NEW w \in Worker, Snapshot(w) PROVE IInv'
<1> DEFINE t == [tx[w] EXCEPT !.pc = "sweep", !.todo = Scope(tx[w])]
<1>1. /\ tx[w] \in Transaction /\ LocksHeld(tx[w]) /\ ReadsHold(tx[w])
      /\ \A v \in Worker \ {w} : Compatible(tx[w], tx[v])
  BY OwnFacts, Zenon
<1>2. tx[w].pc = "snapshot"
  BY Zenon DEF Snapshot
<1>3. t \in Transaction /\ tx' = [tx EXCEPT ![w] = t] /\ UNCHANGED tables
  <2>1. Scope(tx[w]) \in SUBSET Session
    BY Zenon DEF Scope
  <2>2. t \in Transaction
    BY Zenon, <2>1, <1>1 DEF Transaction, Pcs
  <2>3. tx' = [tx EXCEPT ![w] = t] /\ UNCHANGED tables
    BY Zenon DEF Snapshot
  <2> QED BY <2>2, <2>3, Zenon
<1>4. /\ t.op = tx[w].op /\ t.pc = "sweep" /\ t.user = tx[w].user /\ t.device = tx[w].device
      /\ t.source = tx[w].source /\ t.fresh = tx[w].fresh /\ t.holds = tx[w].holds
      /\ t.devs = tx[w].devs /\ t.todo = Scope(tx[w]) /\ t.done = tx[w].done
  BY Zenon, <1>1 DEF Transaction
<1> HIDE DEF t
<1>5. LocksHeld(t)
  <2>1. t.pc \in Route(t.op)
    BY Zenon, <1>1, <1>2, <1>4 DEF LocksHeld, Route, LiftOps
  <2> QED BY <2>1, <1>1, <1>2, <1>4, Zenon DEF LocksHeld
<1>6. ReadsHold(t)
  <2>1. \A s \in Scope(tx[w]) : Issued(s)
    BY Zenon DEF Scope, Present, Issued
  <2>2. t.op # "authorize"
    BY <1>1, <1>2, <1>4, Zenon DEF LocksHeld, Route, LiftOps
  <2> QED BY <2>1, <2>2, <1>1, <1>2, <1>4, ZenonT(40) DEF ReadsHold
<1>7. SweepCovers(t)
  <2>1. Scope(t) = Scope(tx[w])
    BY <1>4, ZenonT(40) DEF Scope
  <2> QED BY <2>1, <1>4, Zenon DEF SweepCovers
<1>8. ASSUME NEW v \in Worker \ {w} PROVE Compatible(t, tx[v])
  BY <1>1, <1>4, Zenon DEF Compatible, RowsOf
<1> QED BY Zenon, <1>3, <1>5, <1>6, <1>7, <1>8, QuietStep DEF Fine

\* Locking one more session of the snapshot keeps the sweep's coverage.
LEMMA SweepStep ==
    ASSUME IInv, NEW w \in Worker, Sweep(w) PROVE IInv'
<1>1. /\ tx[w] \in Transaction /\ LocksHeld(tx[w]) /\ ReadsHold(tx[w])
      /\ SweepCovers(tx[w])
      /\ \A v \in Worker \ {w} : Compatible(tx[w], tx[v])
  BY OwnFacts, Zenon
<1>2. PICK r \in Free(w) : tx' = [tx EXCEPT ![w].todo = @ \ {r}, ![w].done = @ \cup {r}]
  BY Zenon DEF Sweep
<1> DEFINE t == [tx[w] EXCEPT !.todo = @ \ {r}, !.done = @ \cup {r}]
<1>3. t \in Transaction /\ tx' = [tx EXCEPT ![w] = t] /\ UNCHANGED tables
  <2>1. r \in Session
    BY <1>1, Zenon DEF Free, Transaction
  <2>2. t \in Transaction
    BY Zenon, <2>1, <1>1 DEF Transaction
  <2>3. tx' = [tx EXCEPT ![w] = t] /\ UNCHANGED tables
    BY ZenonT(60), <1>2 DEF Sweep
  <2> QED BY <2>2, <2>3, Zenon
<1>4. /\ t.op = tx[w].op /\ t.pc = tx[w].pc /\ t.user = tx[w].user /\ t.device = tx[w].device
      /\ t.source = tx[w].source /\ t.fresh = tx[w].fresh /\ t.holds = tx[w].holds
      /\ t.devs = tx[w].devs /\ t.todo = tx[w].todo \ {r} /\ t.done = tx[w].done \cup {r}
  BY <1>1, Zenon DEF Transaction
<1> HIDE DEF t
<1>5. LocksHeld(t)
  BY <1>1, <1>4, ZenonT(40) DEF LocksHeld
<1>6. ReadsHold(t)
  BY <1>1, <1>4, <1>2, ZenonT(40) DEF ReadsHold, Free
<1>7. SweepCovers(t)
  <2>1. Scope(t) = Scope(tx[w])
    BY ZenonT(40), <1>4 DEF Scope
  <2> QED BY <2>1, <1>1, <1>4, Zenon DEF SweepCovers
<1>8. ASSUME NEW v \in Worker \ {w} PROVE Compatible(t, tx[v])
  <2>1. r \notin RowsOf(tx[v])
    BY Zenon, <1>2 DEF Free, Rows
  <2> QED BY <2>1, <1>1, <1>4 DEF Compatible, RowsOf
<1> QED BY Zenon, <1>3, <1>5, <1>6, <1>7, <1>8, QuietStep DEF Fine

\* The key-share lock on the account that an insert of a session takes.
LEMMA KeyUserStep ==
    ASSUME IInv, NEW w \in Worker, KeyUser(w) PROVE IInv'
<1> DEFINE pc == After(tx[w].op, "keyUser")
           new == CHOOSE s \in FreshIds : TRUE
           H == tx[w].holds \cup {"userK"}
           t == [tx[w] EXCEPT !.pc = pc, !.holds = H, !.fresh = {new}]
<1>1. /\ tx[w] \in Transaction /\ LocksHeld(tx[w]) /\ ReadsHold(tx[w])
      /\ \A v \in Worker \ {w} : Compatible(tx[w], tx[v])
  BY OwnFacts, Zenon
<1>2. /\ tx[w].pc = "keyUser" /\ tx[w].op \in {"authorize", "refresh"}
      /\ pc = IF tx[w].op = "authorize" THEN "commit" ELSE "keyDevice"
      /\ FreshIds # {}
  BY <1>1, Zenon DEF KeyUser, Granted, Admissible, After, LocksHeld, Route, LiftOps
<1>3. new \in Session /\ ~Issued(new) /\ \A v \in Worker : new \notin tx[v].fresh
  <2>1. new \in FreshIds
    BY <1>2, Zenon
  <2> HIDE DEF new
  <2> QED BY <2>1, Zenon DEF FreshIds, Issued
<1>4. t \in Transaction /\ tx' = [tx EXCEPT ![w] = t] /\ UNCHANGED tables
  <2>1. tx' = [tx EXCEPT ![w] = t] /\ UNCHANGED tables
    BY Zenon DEF KeyUser
  <2> HIDE DEF new
  <2>2. t \in Transaction
    BY ZenonT(60), <1>1, <1>2, <1>3 DEF Transaction, Pcs, Modes
  <2> QED BY <2>1, <2>2, Zenon
<1> HIDE DEF new
<1>5. /\ t.op = tx[w].op /\ t.pc = pc /\ t.user = tx[w].user /\ t.device = tx[w].device
      /\ t.source = tx[w].source /\ t.fresh = {new} /\ t.holds = H
      /\ t.devs = tx[w].devs /\ t.todo = tx[w].todo /\ t.done = tx[w].done
  BY <1>1, Zenon DEF Transaction
<1> HIDE DEF t
<1>6. LocksHeld(t)
  BY Zenon, <1>1, <1>2, <1>5 DEF LocksHeld, Route, LiftOps, UserLockOps, AdvisoryOps, OwnerOps
<1>7. ReadsHold(t)
  BY Zenon, <1>1, <1>2, <1>3, <1>5 DEF ReadsHold
<1>8. SweepCovers(t)
  BY Zenon, <1>2, <1>5 DEF SweepCovers
<1>9. ASSUME NEW v \in Worker \ {w} PROVE Compatible(t, tx[v])
  <2>1. ~("userX" \in tx[v].holds /\ tx[v].user = tx[w].user)
    BY Zenon, <1>2 DEF KeyUser, Granted, Blockers, Holds
  <2>2. "userX" \notin H
    BY <1>1, <1>2, Zenon DEF LocksHeld
  <2> QED BY <2>1, <2>2, <1>1, <1>3, <1>5, Zenon DEF Compatible, RowsOf
<1> QED BY Zenon, <1>4, <1>6, <1>7, <1>8, <1>9, QuietStep DEF Fine

\* A failed issue turns the request into a revocation of its family.
LEMMA IssueFailsStep ==
    ASSUME IInv, NEW w \in Worker, IssueFails(w) PROVE IInv'
<1> DEFINE t == [tx[w] EXCEPT !.op = "revoke_family", !.pc = "snapshot"]
<1>1. /\ tx[w] \in Transaction /\ LocksHeld(tx[w]) /\ ReadsHold(tx[w])
      /\ \A v \in Worker \ {w} : Compatible(tx[w], tx[v])
  BY OwnFacts, Zenon
<1>2. tx[w].op = "refresh"
  BY <1>1, Zenon DEF IssueFails, LocksHeld, Route, LiftOps
<1>3. t \in Transaction /\ tx' = [tx EXCEPT ![w] = t] /\ UNCHANGED tables
  <2>1. t \in Transaction
    BY ZenonT(60), <1>1 DEF Transaction, Ops, FamilyOps, Pcs
  <2>2. tx' = [tx EXCEPT ![w] = t] /\ UNCHANGED tables
    BY Zenon DEF IssueFails
  <2> QED BY <2>1, <2>2, Zenon
<1>4. /\ t.op = "revoke_family" /\ t.pc = "snapshot" /\ t.user = tx[w].user
      /\ t.device = tx[w].device /\ t.source = tx[w].source /\ t.fresh = tx[w].fresh
      /\ t.holds = tx[w].holds /\ t.devs = tx[w].devs /\ t.todo = tx[w].todo
      /\ t.done = tx[w].done
  BY <1>1, Zenon DEF Transaction
<1> HIDE DEF t
<1>5. LocksHeld(t)
  BY <1>4, Zenon DEF LocksHeld, Route, LiftOps, UserLockOps, AdvisoryOps, OwnerOps, SourceOps, FamilyOps
<1>6. ReadsHold(t)
  BY Zenon, <1>1, <1>2, <1>4 DEF ReadsHold, SourceOps, FamilyOps, OwnerOps
<1>7. SweepCovers(t)
  BY Zenon, <1>4 DEF SweepCovers
<1>8. ASSUME NEW v \in Worker \ {w} PROVE Compatible(t, tx[v])
  BY <1>1, <1>4, Zenon DEF Compatible, RowsOf
<1> QED BY Zenon, <1>3, <1>5, <1>6, <1>7, <1>8, QuietStep DEF Fine

\* A worker without a transaction constrains nobody.
LEMMA IdleFine ==
    /\ Fine(Idle) /\ \A v \in Worker : Compatible(Idle, tx[v]) /\ Compatible(tx[v], Idle)
<1>1. /\ Idle.op = "none" /\ Idle.pc = "idle" /\ Idle.fresh = {} /\ Idle.holds = {}
      /\ Idle.devs = {} /\ Idle.todo = {} /\ Idle.done = {}
  BY Zenon DEF Idle
<1>2. LocksHeld(Idle)
  BY <1>1, Zenon DEF LocksHeld, Route, LiftOps, AdvisoryOps, UserLockOps, OwnerOps
<1>3. ReadsHold(Idle)
  BY <1>1, Zenon DEF ReadsHold, SourceOps, FamilyOps, OwnerOps
<1>4. SweepCovers(Idle)
  BY <1>1, Zenon DEF SweepCovers
<1>5. \A v \in Worker : Compatible(Idle, tx[v]) /\ Compatible(tx[v], Idle)
  BY <1>1, Zenon DEF Compatible, RowsOf
<1> QED BY <1>2, <1>3, <1>4, <1>5, Zenon DEF Fine

\* A rollback, whatever its cause.
LEMMA RollbackStep ==
    ASSUME IInv, NEW w \in Worker, End(w), UNCHANGED tables PROVE IInv'
BY Zenon, IdleFacts, IdleFine, QuietStep DEF End

\* No statement before the commit breaks the invariant.
LEMMA StatementStep ==
    ASSUME IInv, NEW w \in Worker, Statement(w) PROVE IInv'
BY LockAdvisoryStep, ReadUserStep, LockUserStep, ReadForRotateStep, LockSourceStep,
   DecideRotationStep, LockDeviceStep, MissDeviceStep, InsertDeviceStep, UpdateDevicesStep,
   SnapshotStep, SweepStep, KeyUserStep, KeyDeviceStep, Zenon DEF Statement

\* What a step that writes the tables owes the other transactions.
SparesOthers(v) ==
    /\ \A s \in Session : Issued(s) =>
         /\ Issued(s)' /\ (Live(s)' => Live(s))
         /\ sessions'[s].user = sessions[s].user
         /\ sessions'[s].device = sessions[s].device
         /\ sessions'[s].family = sessions[s].family
    /\ \A s \in RowsOf(tx[v]) : /\ sessions'[s].status = sessions[s].status
                                /\ sessions'[s].replaced = sessions[s].replaced
    /\ \/ "advisory" \notin tx[v].holds
       \/ users'[tx[v].user] = users[tx[v].user]
       \/ users[tx[v].user] = "pending_deletion"
    /\ \A d \in tx[v].devs : /\ devices'[d].owner = devices[d].owner
                             /\ "deviceX" \in tx[v].holds => devices'[d] = devices[d]
    /\ \A s \in tx[v].fresh : ~Issued(s)'
    /\ tx[v].pc = "sweep" /\ tx[v].op \in CompleteOps =>
         \A s \in Session : Live(s)' /\ ~Issued(s) => s \notin Scope(tx[v])'

\* What another transaction has read and selected survives a write that spares it.
LEMMA OthersStep ==
    ASSUME IInv, NEW v \in Worker, tx'[v] = tx[v], SparesOthers(v)
    PROVE  (ReadsHold(tx[v]) /\ SweepCovers(tx[v]))'
<1>1. /\ tx[v] \in Transaction /\ LocksHeld(tx[v]) /\ ReadsHold(tx[v])
      /\ SweepCovers(tx[v])
  BY OwnFacts, Zenon
<1>2. /\ tx[v].source \in Session /\ tx[v].fresh \subseteq Session
      /\ tx[v].todo \subseteq Session /\ tx[v].done \subseteq Session
  BY <1>1, Zenon DEF Transaction
<1>3. /\ tx[v].op = "refresh" /\ tx[v].pc \in {"keyUser", "keyDevice", "commit"} =>
           tx[v].source \in RowsOf(tx[v])
      /\ tx[v].op = "authorize" /\ tx[v].pc # "advisory" => "advisory" \in tx[v].holds
      /\ tx[v].op = "finalize_deletion" /\ tx[v].pc # "advisory" => "advisory" \in tx[v].holds
      /\ tx[v].op = "authorize" /\ tx[v].pc \in {"keyUser", "commit"} =>
           "deviceX" \in tx[v].holds /\ tx[v].device \in tx[v].devs
  BY <1>1, Zenon DEF LocksHeld, RowsOf, AdvisoryOps, Ops, UserOps
<1>4. tx[v].op \in SourceOps => /\ Issued(tx[v].source)
                                /\ sessions[tx[v].source].user = tx[v].user
                                /\ sessions[tx[v].source].device = tx[v].device
  BY <1>1, Zenon DEF ReadsHold
<1>5. ReadsHold(tx[v])'
  <2>1. (tx[v].op \in SourceOps => /\ Issued(tx[v].source)
                                   /\ sessions[tx[v].source].user = tx[v].user
                                   /\ sessions[tx[v].source].device = tx[v].device)'
    BY <1>2, <1>4 DEF SparesOthers
  <2>2. (tx[v].op = "refresh" /\ tx[v].pc \in {"keyUser", "keyDevice", "commit"} =>
           Live(tx[v].source) /\ ~sessions[tx[v].source].replaced)'
    BY SMTT(60), <1>1, <1>3 DEF SparesOthers, ReadsHold, Live
  <2>3. (/\ tx[v].op = "authorize" /\ tx[v].pc \in {"lockDevice", "insertDevice", "keyUser", "commit"} =>
              users[tx[v].user] = "active"
         /\ tx[v].op = "finalize_deletion" /\ tx[v].pc \notin {"advisory", "lockUser"} =>
              users[tx[v].user] = "deletion_due")'
    BY <1>1, <1>3, Zenon DEF SparesOthers, ReadsHold
  <2>4. (tx[v].op = "authorize" /\ tx[v].pc \in {"keyUser", "commit"} =>
           devices[tx[v].device].owner = tx[v].user \/ devices[tx[v].device].status # "active")'
    BY <1>1, <1>3, ZenonT(40) DEF SparesOthers, ReadsHold
  <2>5. (tx[v].op \in OwnerOps => \A d \in tx[v].devs : devices[d].owner = tx[v].user)'
    BY <1>1, Zenon DEF SparesOthers, ReadsHold
  <2>6. (tx[v].op = "change_password" => sessions[tx[v].source].device \notin tx[v].devs)'
    BY <1>1, <1>2, <1>4, ZenonT(40) DEF SparesOthers, ReadsHold, SourceOps
  <2>7. (/\ \A s \in tx[v].fresh : ~Issued(s)
         /\ \A r, s \in tx[v].fresh : r = s
         /\ \A s \in tx[v].todo \cup tx[v].done : Issued(s))'
    BY <1>1, <1>2, Zenon DEF SparesOthers, ReadsHold
  <2> QED BY <2>1, <2>2, <2>3, <2>4, <2>5, <2>6, <2>7, Zenon DEF ReadsHold
<1>6. SweepCovers(tx[v])'
  <2> SUFFICES ASSUME tx[v].pc = "sweep", tx[v].op \in CompleteOps,
                      NEW s \in Session, s \in Scope(tx[v])', Live(s)'
               PROVE  s \in tx[v].todo \cup tx[v].done
    BY Zenon DEF SweepCovers, Scope
  <2>1. Issued(s) /\ Live(s)
    BY Zenon DEF SparesOthers
  <2>2. s \in Scope(tx[v])
    <3>1. tx[v].op \in FamilyOps => sessions'[tx[v].source].family = sessions[tx[v].source].family
      BY <1>2, <1>4, Zenon DEF SourceOps, SparesOthers
    <3>2. /\ sessions'[s].user = sessions[s].user /\ sessions'[s].device = sessions[s].device
          /\ sessions'[s].family = sessions[s].family
      BY <2>1, Zenon DEF SparesOthers
    <3> QED BY <3>1, <3>2, <2>1, Zenon DEF Scope, Present, Live
  <2> QED BY <2>1, <2>2, <1>1, Zenon DEF SweepCovers
<1> QED BY <1>5, <1>6, Zenon

\* A step of w that writes the tables and ends holding nothing.
LEMMA TableStep ==
    ASSUME IInv, NEW w \in Worker, NEW t \in Transaction, tx' = [tx EXCEPT ![w] = t],
           LocksHeld(t), ReadsHold(t)', t.pc # "sweep",
           t.holds = {}, t.devs = {}, t.done = {}, t.fresh = {},
           users' \in [User -> {"active", "pending_deletion", "deletion_due",
                                "disabled", "finalized"}],
           devices' \in [Device -> [owner: User, status: {"absent", "active", "revoked"}]],
           sessions' \in [Session -> Row], offline' \in [Device -> SUBSET User],
           LiveSessionsAreBacked', OneTipPerFamily', FamiliesAreBound',
           \A v \in Worker \ {w} : SparesOthers(v)
    PROVE  IInv'
<1>1. tx \in [Worker -> Transaction] BY Zenon DEF IInv, TypeOK
<1>2. \A x \in Worker : tx'[x] = IF x = w THEN t ELSE tx[x]
  BY <1>1, Zenon
<1>3. TypeOK'
  BY <1>1, Zenon DEF TypeOK
<1>4. ASSUME NEW x \in Worker
      PROVE  (LocksHeld(tx[x]) /\ ReadsHold(tx[x]) /\ SweepCovers(tx[x]))'
  <2>1. CASE x = w
    <3>1. tx'[x] = t BY <2>1, <1>2, Zenon
    <3>2. LocksHeld(tx[x])'
      BY Zenon, <3>1 DEF LocksHeld
    <3>3. ReadsHold(tx[x])'
      BY <3>1, Zenon DEF ReadsHold
    <3>4. SweepCovers(tx[x])'
      BY <3>1, Zenon DEF SweepCovers
    <3> QED BY <3>2, <3>3, <3>4, Zenon
  <2>2. CASE x # w
    <3>1. tx'[x] = tx[x] BY <2>2, <1>2, Zenon
    <3>2. (ReadsHold(tx[x]) /\ SweepCovers(tx[x]))'
      BY Zenon, <3>1, <2>2, OthersStep
    <3>3. LocksHeld(tx[x])'
      BY <3>1, OwnFacts, ZenonT(40) DEF LocksHeld
    <3> QED BY <3>2, <3>3, Zenon
  <2> QED BY <2>1, <2>2, Zenon
<1>5. ASSUME NEW x \in Worker, NEW y \in Worker, x # y
      PROVE  Compatible(tx[x], tx[y])'
  <2>1. CASE x = w \/ y = w
    BY <2>1, <1>2, Zenon DEF Compatible, RowsOf
  <2>2. CASE x # w /\ y # w
    <3>1. tx'[x] = tx[x] /\ tx'[y] = tx[y] /\ Compatible(tx[x], tx[y])
      BY <2>2, <1>2, <1>5, Zenon DEF IInv
    <3> QED BY Zenon, <3>1 DEF Compatible, RowsOf
  <2> QED BY <2>1, <2>2, Zenon
<1> QED BY <1>3, <1>4, <1>5, Zenon DEF IInv

\* A step of the environment that writes the tables.
LEMMA TimeStep ==
    ASSUME IInv, UNCHANGED tx, TypeOK',
           LiveSessionsAreBacked', OneTipPerFamily', FamiliesAreBound',
           \A v \in Worker : SparesOthers(v)
    PROVE  IInv'
<1>1. ASSUME NEW x \in Worker
      PROVE  (LocksHeld(tx[x]) /\ ReadsHold(tx[x]) /\ SweepCovers(tx[x]))'
  <2>1. (ReadsHold(tx[x]) /\ SweepCovers(tx[x]))'
    BY OthersStep, Zenon
  <2>2. LocksHeld(tx[x])'
    BY OwnFacts, Zenon DEF LocksHeld
  <2> QED BY <2>1, <2>2, Zenon
<1>2. ASSUME NEW x \in Worker, NEW y \in Worker, x # y
      PROVE  Compatible(tx[x], tx[y])'
  BY <1>2, Zenon DEF IInv, Compatible, RowsOf
<1> QED BY <1>1, <1>2, Zenon DEF IInv

\* The expiry of a session keeps the invariant.
LEMMA ExpireStep ==
    ASSUME IInv, NEW r \in Session, Expire(r) PROVE IInv'
<1>1. \A s \in Session : /\ sessions'[s].status = sessions[s].status
                         /\ sessions'[s].user = sessions[s].user
                         /\ sessions'[s].device = sessions[s].device
                         /\ sessions'[s].family = sessions[s].family
                         /\ sessions'[s].replaced = sessions[s].replaced
  BY DEF Expire, IInv, TypeOK, Row
<1>2. sessions' \in [Session -> Row]
  BY ZenonT(60) DEF Expire, IInv, TypeOK, Row
<1>3. UNCHANGED <<users, devices, offline, tx>>
  BY Zenon DEF Expire
<1>4. TypeOK'
  BY <1>2, <1>3, Zenon DEF IInv, TypeOK
<1>5. LiveSessionsAreBacked' /\ OneTipPerFamily'
  BY <1>1, <1>3 DEF IInv, LiveSessionsAreBacked, OneTipPerFamily, Live
<1>6. FamiliesAreBound'
  BY <1>1 DEF IInv, FamiliesAreBound, Issued, TypeOK, Row
<1>7. ASSUME NEW v \in Worker PROVE SparesOthers(v)
  <2>1. tx[v] \in Transaction /\ ReadsHold(tx[v]) BY OwnFacts, Zenon
  <2>2. RowsOf(tx[v]) \subseteq Session /\ tx[v].fresh \subseteq Session
    BY <2>1, Zenon DEF RowsOf, Transaction
  <2> QED BY <1>1, <1>3, <2>1, <2>2, ZenonT(40) DEF SparesOthers, Live, Issued, ReadsHold
<1> QED BY <1>3, <1>4, <1>5, <1>6, <1>7, TimeStep, Zenon

\* The end of the recovery window keeps the invariant.
LEMMA CloseWindowStep ==
    ASSUME IInv, NEW u \in User, CloseWindow(u) PROVE IInv'
<1>1. UNCHANGED <<devices, sessions, offline, tx>>
  BY Zenon DEF CloseWindow
<1>2. \A x \in User : users[x] # "pending_deletion" => users'[x] = users[x]
  BY Zenon DEF CloseWindow, IInv, TypeOK
<1>3. TypeOK'
  BY Zenon DEF CloseWindow, IInv, TypeOK
<1>4. LiveSessionsAreBacked' /\ OneTipPerFamily' /\ FamiliesAreBound'
  BY <1>1, <1>2 DEF IInv, LiveSessionsAreBacked, OneTipPerFamily, FamiliesAreBound, Live,
     Issued, TypeOK, Row
<1>5. ASSUME NEW v \in Worker PROVE SparesOthers(v)
  <2>1. tx[v] \in Transaction /\ ReadsHold(tx[v]) BY OwnFacts, Zenon
  <2>2. tx[v].user \in User /\ tx[v].fresh \subseteq Session
    BY <2>1, Zenon DEF Transaction
  <2> QED BY <1>1, <1>2, <2>1, <2>2, Zenon DEF SparesOthers, Live, Issued, ReadsHold
<1> QED BY <1>1, <1>3, <1>4, <1>5, TimeStep, Zenon

\* A commit that leaves its worker idle.
LEMMA EndStep ==
    ASSUME IInv, NEW w \in Worker, End(w),
           users' \in [User -> {"active", "pending_deletion", "deletion_due",
                                "disabled", "finalized"}],
           devices' \in [Device -> [owner: User, status: {"absent", "active", "revoked"}]],
           sessions' \in [Session -> Row], offline' \in [Device -> SUBSET User],
           LiveSessionsAreBacked', OneTipPerFamily', FamiliesAreBound',
           \A v \in Worker \ {w} : SparesOthers(v)
    PROVE  IInv'
<1>1. /\ Idle.op = "none" /\ Idle.pc = "idle" /\ Idle.fresh = {} /\ Idle.holds = {}
      /\ Idle.devs = {} /\ Idle.todo = {} /\ Idle.done = {}
  BY Zenon DEF Idle
<1>2. LocksHeld(Idle)
  BY IdleFine, Zenon DEF Fine
<1>3. ReadsHold(Idle)'
  BY <1>1, Zenon DEF ReadsHold, SourceOps, FamilyOps, OwnerOps
<1>4. tx' = [tx EXCEPT ![w] = Idle]
  BY Zenon DEF End
<1> HIDE DEF Idle
<1> QED BY Zenon, <1>1, <1>2, <1>3, <1>4, IdleFacts, TableStep

\* Recording an offline entitlement after the commit keeps the invariant.
LEMMA IssueEntitlementStep ==
    ASSUME IInv, NEW w \in Worker, IssueEntitlement(w) PROVE IInv'
<1>1. UNCHANGED <<users, devices, sessions>> /\ End(w)
  BY Zenon DEF IssueEntitlement
<1>2. offline' \in [Device -> SUBSET User]
  BY DEF IssueEntitlement, IInv, TypeOK, Transaction
<1>3. LiveSessionsAreBacked' /\ OneTipPerFamily' /\ FamiliesAreBound'
  BY Zenon, <1>1 DEF IInv, LiveSessionsAreBacked, OneTipPerFamily, FamiliesAreBound, Live, Issued
<1>4. ASSUME NEW v \in Worker \ {w} PROVE SparesOthers(v)
  <2>1. tx[v] \in Transaction /\ ReadsHold(tx[v]) BY Zenon, OwnFacts
  <2> QED BY <1>1, <2>1, Zenon DEF SparesOthers, Live, Issued, ReadsHold
<1> QED BY <1>1, <1>2, <1>3, <1>4, EndStep, Zenon DEF IInv, TypeOK

\* Recovery and enabling reactivate an account none of whose sessions is live.
LEMMA CommitLiftStep ==
    ASSUME IInv, NEW w \in Worker, CommitLift(w) PROVE IInv'
<1>1. /\ tx[w] \in Transaction /\ LocksHeld(tx[w])
      /\ \A v \in Worker \ {w} : Compatible(tx[w], tx[v])
  BY OwnFacts, Zenon
<1>2. /\ UNCHANGED <<devices, sessions, offline>> /\ End(w)
      /\ users' = [users EXCEPT ![tx[w].user] = "active"]
      /\ "advisory" \in tx[w].holds
  BY <1>1, Zenon DEF CommitLift, StatusAfter, LiftOps, LocksHeld, AdvisoryOps, Ops
<1>3. \A x \in User : users'[x] = IF x = tx[w].user THEN "active" ELSE users[x]
  BY <1>2, Zenon DEF IInv, TypeOK
<1>4. users' \in [User -> {"active", "pending_deletion", "deletion_due",
                           "disabled", "finalized"}]
  BY ZenonT(60), <1>2 DEF IInv, TypeOK
<1>5. LiveSessionsAreBacked' /\ OneTipPerFamily' /\ FamiliesAreBound'
  <2>1. OneTipPerFamily' /\ FamiliesAreBound'
    BY Zenon, <1>2 DEF IInv, OneTipPerFamily, FamiliesAreBound, Live, Issued
  <2>2. \A s \in Session : sessions[s].user \in User
    BY Zenon DEF IInv, TypeOK, Row
  <2>3. LiveSessionsAreBacked'
    BY <1>2, <1>3, <2>2, ZenonT(40) DEF IInv, LiveSessionsAreBacked, Live
  <2> QED BY <2>1, <2>3, Zenon
<1>6. ASSUME NEW v \in Worker \ {w} PROVE SparesOthers(v)
  <2>1. tx[v] \in Transaction /\ ReadsHold(tx[v]) BY OwnFacts, Zenon
  <2>2. "advisory" \in tx[v].holds => users'[tx[v].user] = users[tx[v].user]
    BY <1>1, <1>2, <1>3, <2>1, Zenon DEF Compatible, Transaction
  <2>3. \A s \in tx[v].fresh : ~Issued(s)
    BY Zenon, <2>1 DEF ReadsHold
  <2> QED BY ZenonT(60), <1>2, <2>2, <2>3 DEF SparesOthers, Live, Issued
<1> QED BY <1>2, <1>4, <1>5, <1>6, EndStep, Zenon DEF IInv, TypeOK

\* A session row is rewritten field by field.
LEMMA RowFields ==
    ASSUME NEW row \in Row, NEW st \in {"revoked", "deleted"}, NEW b \in BOOLEAN
    PROVE  LET new == [row EXCEPT !.status = st, !.replayed = b]
           IN /\ new \in Row /\ new.status = st /\ new.user = row.user
              /\ new.device = row.device /\ new.family = row.family
              /\ new.replaced = row.replaced
BY Zenon DEF Row

\* A sweep that has locked all it selected ends every live session of its scope.
LEMMA SweepComplete ==
    ASSUME IInv, NEW w \in Worker, tx[w].pc = "sweep", tx[w].todo = {},
           tx[w].op \in CompleteOps, NEW s \in Scope(tx[w]), Live(s)
    PROVE  s \in tx[w].done
<1>1. SweepCovers(tx[w])
  BY OwnFacts, Zenon
<1> QED BY <1>1, Zenon DEF SweepCovers

\* Sessions, families and tips after a step that only ends sessions.
LEMMA EndingSessions ==
    ASSUME IInv, sessions' \in [Session -> Row],
           \A s \in Session : /\ Issued(s)' <=> Issued(s)
                              /\ Live(s)' => Live(s)
                              /\ sessions'[s].user = sessions[s].user
                              /\ sessions'[s].device = sessions[s].device
                              /\ sessions'[s].family = sessions[s].family
                              /\ sessions'[s].replaced = sessions[s].replaced
    PROVE  OneTipPerFamily' /\ FamiliesAreBound'
<1>1. OneTipPerFamily'
  BY Zenon DEF IInv, OneTipPerFamily
<1>2. \A s \in Session : sessions[s].family \in Session
  BY Zenon DEF IInv, TypeOK, Row
<1>3. FamiliesAreBound'
  BY <1>2 DEF IInv, FamiliesAreBound
<1> QED BY <1>1, <1>3, Zenon

\* The commit of a revocation: its locks kept its scope complete.
LEMMA CommitRevocationStep ==
    ASSUME IInv, NEW w \in Worker, CommitRevocation(w) PROVE IInv'
<1> DEFINE t == tx[w]
<1>1. /\ t \in Transaction /\ LocksHeld(t) /\ ReadsHold(t) /\ End(w)
      /\ t.pc = "sweep" /\ t.todo = {} /\ t.op # "finalize_deletion"
      /\ \A v \in Worker \ {w} : Compatible(t, tx[v]) /\ tx[v] \in Transaction
  BY OwnFacts, Zenon DEF CommitRevocation
<1>2. /\ t.user \in User /\ t.device \in Device /\ t.done \subseteq Session
      /\ t.source \in Session
  BY <1>1, Zenon DEF Transaction
<1>3. /\ users \in [User -> {"active", "pending_deletion", "deletion_due",
                             "disabled", "finalized"}]
      /\ devices \in [Device -> [owner: User, status: {"absent", "active", "revoked"}]]
      /\ sessions \in [Session -> Row] /\ offline \in [Device -> SUBSET User]
  BY Zenon DEF IInv, TypeOK
<1>4. /\ \A u \in User : users'[u] = IF u = t.user THEN StatusAfter(t) ELSE users[u]
      /\ \A d \in Device : devices'[d] = IF d \in RevokedDevices(t)
                                         THEN [devices[d] EXCEPT !.status = "revoked"]
                                         ELSE devices[d]
      /\ \A s \in Session : sessions'[s] = IF s \in t.done THEN Revoked(s, t) ELSE sessions[s]
  BY <1>2, <1>3, Zenon DEF CommitRevocation
<1>5. \A s \in Session : /\ sessions[s] \in Row /\ Revoked(s, t) \in Row
                         /\ Revoked(s, t).status = "revoked"
                         /\ Revoked(s, t).user = sessions[s].user
                         /\ Revoked(s, t).device = sessions[s].device
                         /\ Revoked(s, t).family = sessions[s].family
                         /\ Revoked(s, t).replaced = sessions[s].replaced
  <2> TAKE s \in Session
  <2> DEFINE b == sessions[s].replayed \/ (t.plan = "replay" /\ s = t.source)
  <2>1. b \in BOOLEAN
    BY Zenon
  <2>2. Revoked(s, t) = [sessions[s] EXCEPT !.status = "revoked", !.replayed = b]
    BY Zenon DEF Revoked
  <2> HIDE DEF b
  <2>3. sessions[s] \in Row
    BY Zenon, <1>3
  <2>4. LET new == [sessions[s] EXCEPT !.status = "revoked", !.replayed = b]
        IN /\ new \in Row /\ new.status = "revoked" /\ new.user = sessions[s].user
           /\ new.device = sessions[s].device /\ new.family = sessions[s].family
           /\ new.replaced = sessions[s].replaced
    BY Zenon, <2>1, <2>3, RowFields
  <2> QED BY <2>2, <2>3, <2>4, Zenon
<1>6. /\ users' \in [User -> {"active", "pending_deletion", "deletion_due",
                              "disabled", "finalized"}]
      /\ devices' \in [Device -> [owner: User, status: {"absent", "active", "revoked"}]]
      /\ sessions' \in [Session -> Row] /\ offline' \in [Device -> SUBSET User]
  <2>1. StatusAfter(t) \in {"active", "pending_deletion", "deletion_due", "disabled", "finalized"}
    BY <1>2, <1>3, Zenon DEF StatusAfter
  <2>2. users' \in [User -> {"active", "pending_deletion", "deletion_due",
                             "disabled", "finalized"}]
    BY Zenon, <2>1, <1>3 DEF CommitRevocation
  <2>3. devices' \in [Device -> [owner: User, status: {"absent", "active", "revoked"}]]
    BY <1>3, Zenon DEF CommitRevocation
  <2>4. sessions' \in [Session -> Row]
    BY <1>5, Zenon DEF CommitRevocation
  <2>5. offline' \in [Device -> SUBSET User]
    BY <1>3, Zenon DEF CommitRevocation
  <2> QED BY <2>2, <2>3, <2>4, <2>5, Zenon
<1>7. \A s \in t.done : Issued(s)
  BY <1>1, Zenon DEF ReadsHold
<1>8. \A s \in Session : /\ Issued(s)' <=> Issued(s)
                         /\ Live(s)' => Live(s) /\ s \notin t.done
                         /\ sessions'[s].user = sessions[s].user
                         /\ sessions'[s].device = sessions[s].device
                         /\ sessions'[s].family = sessions[s].family
                         /\ sessions'[s].replaced = sessions[s].replaced
  BY <1>4, <1>5, <1>7, ZenonT(40) DEF Issued, Live
<1>9. /\ RevokedDevices(t) \subseteq t.devs
      /\ RevokedDevices(t) # {} => t.op \in CompleteOps
      /\ StatusAfter(t) # users[t.user] => t.op \in {"request_deletion", "disable_user"}
      /\ StatusAfter(t) # users[t.user] => "advisory" \in t.holds
  BY <1>1, Zenon DEF RevokedDevices, StatusAfter, LocksHeld, CompleteOps, UserOps, DeviceOps, LiftOps,
     Route, AdvisoryOps, Ops
<1> HIDE DEF t
<1>10. LiveSessionsAreBacked'
  <2> SUFFICES ASSUME NEW s \in Session, Live(s)'
               PROVE  /\ users'[sessions'[s].user] = "active"
                      /\ devices'[sessions'[s].device] =
                           [owner |-> sessions'[s].user, status |-> "active"]
    BY Zenon DEF LiveSessionsAreBacked
  <2>1. /\ Live(s) /\ s \notin t.done /\ sessions[s].user \in User
        /\ sessions[s].device \in Device
        /\ users[sessions[s].user] = "active"
        /\ devices[sessions[s].device] = [owner |-> sessions[s].user, status |-> "active"]
    BY <1>5, <1>8, Zenon DEF IInv, LiveSessionsAreBacked, Row
  <2>2. t.op \in CompleteOps => s \notin Scope(t)
    BY <2>1, <1>1, SweepComplete, Zenon DEF t
  <2>3. StatusAfter(t) = users[t.user] \/ sessions[s].user # t.user
    BY <1>9, <2>1, <2>2, Zenon DEF Scope, Present, Live, CompleteOps, UserOps, FamilyOps, DeviceOps
  <2>4. sessions[s].device \notin RevokedDevices(t)
    <3> SUFFICES ASSUME sessions[s].device \in RevokedDevices(t) PROVE FALSE
      BY Zenon
    <3>1. CASE t.op \in DeviceOps
      <4>1. sessions[s].device = t.device
        BY Zenon, <1>1, <3>1, <1>9 DEF LocksHeld, DeviceOps
      <4> QED BY Zenon, <4>1, <3>1, <2>1, <2>2
              DEF Scope, Present, Live, CompleteOps, UserOps, FamilyOps, DeviceOps
    <3>2. CASE t.op \in {"change_password", "request_deletion", "disable_user"}
      <4>1. devices[sessions[s].device].owner = t.user
        BY Zenon, <1>1, <1>9, <3>2 DEF ReadsHold, OwnerOps
      <4>2. sessions[s].user = t.user
        BY <4>1, <2>1
      <4>3. t.op = "change_password" => s # t.source
        BY <1>1, <1>9, Zenon DEF ReadsHold
      <4> QED BY Zenon, <4>2, <4>3, <3>2, <2>1, <2>2
              DEF Scope, Present, Live, CompleteOps, UserOps, FamilyOps, DeviceOps
    <3> QED BY <3>1, <3>2, Zenon DEF RevokedDevices, DeviceOps
  <2>5. users'[sessions[s].user] = users[sessions[s].user]
    BY <2>1, <2>3, <1>2, <1>4, Zenon
  <2>6. devices'[sessions[s].device] = devices[sessions[s].device]
    BY Zenon, <2>1, <2>4, <1>4
  <2>7. sessions'[s].user = sessions[s].user /\ sessions'[s].device = sessions[s].device
    BY <1>8, Zenon
  <2> QED BY <2>1, <2>5, <2>6, <2>7, Zenon
<1>11. OneTipPerFamily' /\ FamiliesAreBound'
  BY ZenonT(60), <1>6, <1>8, EndingSessions
<1>12. ASSUME NEW v \in Worker \ {w} PROVE SparesOthers(v)
  <2>1. tx[v] \in Transaction /\ ReadsHold(tx[v]) /\ LocksHeld(tx[v]) BY OwnFacts, Zenon
  <2>2. /\ tx[v].user \in User /\ tx[v].devs \subseteq Device
        /\ tx[v].fresh \subseteq Session /\ RowsOf(tx[v]) \subseteq Session
    BY <2>1, Zenon DEF Transaction, RowsOf
  <2>3. \A s \in RowsOf(tx[v]) : sessions'[s] = sessions[s]
    <3>1. t.done \cap RowsOf(tx[v]) = {}
      BY <1>1, Zenon DEF Compatible, RowsOf
    <3> QED BY <3>1, <2>2, <1>4, Zenon
  <2>4. "advisory" \notin tx[v].holds \/ users'[tx[v].user] = users[tx[v].user]
    BY <1>1, <1>4, <1>9, <2>2, Zenon DEF Compatible
  <2>5. \A d \in tx[v].devs : /\ devices'[d].owner = devices[d].owner
                              /\ "deviceX" \in tx[v].holds => devices'[d] = devices[d]
    <3>1. \A d \in Device : devices'[d].owner = devices[d].owner
      <4> TAKE d \in Device
      <4>1. devices[d] \in [owner: User, status: {"absent", "active", "revoked"}]
        BY <1>3, Zenon
      <4>2. [devices[d] EXCEPT !.status = "revoked"].owner = devices[d].owner
        BY <4>1, Zenon
      <4> QED BY Zenon, <4>2, <1>4
    <3>2. "deviceX" \in tx[v].holds => \A d \in tx[v].devs : d \notin RevokedDevices(t)
      BY Zenon, <1>1, <1>9 DEF Compatible
    <3> QED BY Zenon, <3>1, <3>2, <2>2, <1>4
  <2>6. \A s \in tx[v].fresh : ~Issued(s)'
    BY <2>1, <2>2, <1>8, Zenon DEF ReadsHold
  <2>7. \A s \in Session : Live(s)' => Issued(s)
    BY <1>8, Zenon DEF Live, Issued
  <2> QED BY <1>8, <2>3, <2>4, <2>5, <2>6, <2>7, Zenon DEF SparesOthers
<1> QED BY <1>1, <1>6, <1>10, <1>11, <1>12, EndStep, Zenon

-----------------------------------------------------------------------------
(* The commits that delete or issue rows: the finalization of a deletion, a *)
(* device authorization and a refresh-token rotation                        *)

\* The commit of a finalized deletion.
LEMMA CommitFinalizeStep ==
    ASSUME IInv, NEW w \in Worker, CommitFinalize(w) PROVE IInv'
<1> DEFINE t == tx[w]
<1>1. /\ t \in Transaction /\ LocksHeld(t) /\ ReadsHold(t) /\ End(w)
      /\ t.pc = "sweep" /\ t.op = "finalize_deletion"
      /\ \A v \in Worker \ {w} : Compatible(t, tx[v]) /\ tx[v] \in Transaction
  BY OwnFacts, Zenon DEF CommitFinalize
<1>2. t.user \in User /\ t.done \subseteq Session /\ t.devs \subseteq Device
  BY <1>1, Zenon DEF Transaction
<1>3. /\ users \in [User -> {"active", "pending_deletion", "deletion_due",
                             "disabled", "finalized"}]
      /\ devices \in [Device -> [owner: User, status: {"absent", "active", "revoked"}]]
      /\ sessions \in [Session -> Row] /\ offline \in [Device -> SUBSET User]
  BY Zenon DEF IInv, TypeOK
<1>4. /\ \A u \in User : users'[u] = IF u = t.user THEN "finalized" ELSE users[u]
      /\ \A d \in Device : devices'[d] = IF d \in t.devs
                                         THEN [devices[d] EXCEPT !.status = "absent"]
                                         ELSE devices[d]
      /\ \A s \in Session : sessions'[s] = IF s \in t.done
                                           THEN [sessions[s] EXCEPT !.status = "deleted"]
                                           ELSE sessions[s]
  <2>1. StatusAfter(t) = "finalized"
    BY <1>1, Zenon DEF StatusAfter, LiftOps
  <2> QED BY <2>1, <1>2, <1>3, Zenon DEF CommitFinalize
<1>5. ASSUME NEW s \in Session
      PROVE  LET new == [sessions[s] EXCEPT !.status = "deleted"]
             IN /\ new \in Row /\ new.status = "deleted" /\ new.user = sessions[s].user
                /\ new.device = sessions[s].device /\ new.family = sessions[s].family
                /\ new.replaced = sessions[s].replaced
  BY <1>3 DEF Row
<1>6. /\ users' \in [User -> {"active", "pending_deletion", "deletion_due",
                              "disabled", "finalized"}]
      /\ devices' \in [Device -> [owner: User, status: {"absent", "active", "revoked"}]]
      /\ sessions' \in [Session -> Row] /\ offline' \in [Device -> SUBSET User]
  <2>1. users' \in [User -> {"active", "pending_deletion", "deletion_due",
                             "disabled", "finalized"}]
    BY Zenon, <1>1, <1>3 DEF CommitFinalize, StatusAfter
  <2>2. devices' \in [Device -> [owner: User, status: {"absent", "active", "revoked"}]]
    BY <1>3, ZenonT(40) DEF CommitFinalize
  <2>3. sessions' \in [Session -> Row]
    BY <1>3, <1>5, Zenon DEF CommitFinalize
  <2>4. offline' \in [Device -> SUBSET User]
    BY Zenon, <1>3 DEF CommitFinalize
  <2> QED BY <2>1, <2>2, <2>3, <2>4, Zenon
<1>7. /\ \A s \in t.done : Issued(s)
      /\ \A d \in t.devs : devices[d].owner = t.user
      /\ users[t.user] = "deletion_due"
      /\ "advisory" \in t.holds /\ "deviceX" \in t.holds
  BY <1>1, Zenon DEF ReadsHold, LocksHeld, OwnerOps, AdvisoryOps, Ops, UserOps
<1>8. \A s \in Session : /\ Issued(s)' <=> Issued(s)
                         /\ Live(s)' => Live(s)
                         /\ sessions'[s].user = sessions[s].user
                         /\ sessions'[s].device = sessions[s].device
                         /\ sessions'[s].family = sessions[s].family
                         /\ sessions'[s].replaced = sessions[s].replaced
  BY ZenonT(60), <1>4, <1>5, <1>7 DEF Issued, Live
<1> HIDE DEF t
<1>9. LiveSessionsAreBacked'
  <2> SUFFICES ASSUME NEW s \in Session, Live(s)'
               PROVE  /\ users'[sessions'[s].user] = "active"
                      /\ devices'[sessions'[s].device] =
                           [owner |-> sessions'[s].user, status |-> "active"]
    BY Zenon DEF LiveSessionsAreBacked
  <2>1. /\ sessions[s].user \in User /\ sessions[s].device \in Device
        /\ users[sessions[s].user] = "active"
        /\ devices[sessions[s].device] = [owner |-> sessions[s].user, status |-> "active"]
    BY ZenonT(60), <1>3, <1>8 DEF IInv, LiveSessionsAreBacked, Row
  <2>2. sessions[s].user # t.user /\ sessions[s].device \notin t.devs
    BY SMTT(60), <2>1, <1>7
  <2>3. /\ users'[sessions[s].user] = users[sessions[s].user]
        /\ devices'[sessions[s].device] = devices[sessions[s].device]
    BY Zenon, <2>1, <2>2, <1>4
  <2>4. sessions'[s].user = sessions[s].user /\ sessions'[s].device = sessions[s].device
    BY Zenon, <1>8
  <2> QED BY <2>1, <2>3, <2>4, Zenon
<1>10. OneTipPerFamily' /\ FamiliesAreBound'
  BY ZenonT(60), <1>6, <1>8, EndingSessions
<1>11. ASSUME NEW v \in Worker \ {w} PROVE SparesOthers(v)
  <2>1. tx[v] \in Transaction /\ ReadsHold(tx[v]) BY OwnFacts, Zenon
  <2>2. /\ tx[v].user \in User /\ tx[v].devs \subseteq Device
        /\ tx[v].fresh \subseteq Session /\ RowsOf(tx[v]) \subseteq Session
    BY <2>1, Zenon DEF Transaction, RowsOf
  <2>3. \A s \in RowsOf(tx[v]) : sessions'[s] = sessions[s]
    <3>1. t.done \cap RowsOf(tx[v]) = {}
      BY <1>1, Zenon DEF Compatible, RowsOf
    <3> QED BY Zenon, <3>1, <2>2, <1>4
  <2>4. "advisory" \notin tx[v].holds \/ users'[tx[v].user] = users[tx[v].user]
    BY <1>1, <1>4, <1>7, <2>2, Zenon DEF Compatible
  <2>5. \A d \in tx[v].devs : devices'[d] = devices[d]
    <3>1. t.devs \cap tx[v].devs = {}
      BY Zenon, <1>1, <1>7 DEF Compatible
    <3> QED BY Zenon, <3>1, <2>2, <1>4
  <2>6. \A s \in tx[v].fresh : ~Issued(s)'
    BY <2>1, <2>2, <1>8, Zenon DEF ReadsHold
  <2>7. \A s \in Session : Live(s)' => Issued(s)
    BY <1>8, Zenon DEF Live, Issued
  <2> QED BY <1>8, <2>3, <2>4, <2>5, <2>6, <2>7, Zenon DEF SparesOthers
<1> QED BY <1>1, <1>6, <1>9, <1>10, <1>11, EndStep, Zenon

\* The commit of an authorization: a new session on an active device of an active account.
LEMMA CommitAuthorizeStep ==
    ASSUME IInv, NEW w \in Worker, CommitAuthorize(w) PROVE IInv'
<1> DEFINE t == tx[w]
<1>1. /\ t \in Transaction /\ LocksHeld(t) /\ ReadsHold(t) /\ End(w)
      /\ t.pc = "commit" /\ t.op = "authorize" /\ users' = users
      /\ \A v \in Worker \ {w} : Compatible(t, tx[v]) /\ tx[v] \in Transaction
  BY OwnFacts, Zenon DEF CommitAuthorize
<1>2. t.user \in User /\ t.device \in Device /\ t.fresh \subseteq Session
  BY <1>1, Zenon DEF Transaction
<1>3. /\ users \in [User -> {"active", "pending_deletion", "deletion_due",
                             "disabled", "finalized"}]
      /\ devices \in [Device -> [owner: User, status: {"absent", "active", "revoked"}]]
      /\ sessions \in [Session -> Row] /\ offline \in [Device -> SUBSET User]
  BY Zenon DEF IInv, TypeOK
<1>4. /\ \A d \in Device : devices'[d] = IF d = t.device
                                         THEN [owner |-> t.user, status |-> "active"]
                                         ELSE devices[d]
      /\ \A s \in Session : sessions'[s] = IF s \in t.fresh THEN NewRow(t.user, t.device, s)
                                           ELSE sessions[s]
  BY <1>2, <1>3, Zenon DEF CommitAuthorize
<1>5. ASSUME NEW s \in Session
      PROVE  LET new == NewRow(t.user, t.device, s)
             IN /\ new \in Row /\ new.status = "live" /\ new.user = t.user
                /\ new.device = t.device /\ new.family = s
  BY <1>2, Zenon DEF Row, NewRow
<1>6. /\ devices' \in [Device -> [owner: User, status: {"absent", "active", "revoked"}]]
      /\ sessions' \in [Session -> Row] /\ offline' \in [Device -> SUBSET User]
  <2>1. devices' \in [Device -> [owner: User, status: {"absent", "active", "revoked"}]]
    BY <1>2, <1>3, Zenon DEF CommitAuthorize
  <2>2. sessions' \in [Session -> Row]
    BY <1>3, <1>5, Zenon DEF CommitAuthorize
  <2>3. offline' \in [Device -> SUBSET User]
    BY Zenon, <1>2, <1>3 DEF CommitAuthorize
  <2> QED BY <2>1, <2>2, <2>3, Zenon
<1>7. /\ \A s \in t.fresh : ~Issued(s)
      /\ devices[t.device].owner = t.user \/ devices[t.device].status # "active"
      /\ users[t.user] = "active"
      /\ "deviceX" \in t.holds /\ "userK" \in t.holds /\ t.devs = {t.device}
  BY ZenonT(60), <1>1 DEF ReadsHold, LocksHeld
<1>8. \A s \in Session : IF s \in t.fresh
                         THEN /\ Issued(s)' /\ ~Issued(s) /\ sessions'[s].user = t.user
                              /\ sessions'[s].device = t.device /\ sessions'[s].family = s
                         ELSE sessions'[s] = sessions[s]
  BY SMTT(60), <1>4, <1>5, <1>7 DEF Issued
<1> HIDE DEF t
<1>9. \A s \in Session : sessions[s].family \in Session /\ (Issued(s) => Issued(sessions[s].family))
  BY <1>3, Zenon DEF IInv, FamiliesAreBound, Row
<1>10. LiveSessionsAreBacked'
  <2> SUFFICES ASSUME NEW s \in Session, Live(s)'
               PROVE  /\ users'[sessions'[s].user] = "active"
                      /\ devices'[sessions'[s].device] =
                           [owner |-> sessions'[s].user, status |-> "active"]
    BY Zenon DEF LiveSessionsAreBacked
  <2>1. CASE s \in t.fresh
    BY <2>1, <1>1, <1>2, <1>4, <1>7, <1>8, Zenon
  <2>2. CASE s \notin t.fresh
    <3>1. /\ sessions'[s] = sessions[s] /\ sessions[s].device \in Device
          /\ users[sessions[s].user] = "active"
          /\ devices[sessions[s].device] = [owner |-> sessions[s].user, status |-> "active"]
      BY <2>2, <1>3, <1>8, Zenon DEF IInv, LiveSessionsAreBacked, Live, Row
    <3>2. sessions[s].device = t.device => sessions[s].user = t.user
      BY <3>1, <1>7
    <3> QED BY <3>1, <3>2, <1>1, <1>4, ZenonT(40)
  <2> QED BY <2>1, <2>2, Zenon
<1>11. OneTipPerFamily'
  <2> SUFFICES ASSUME NEW r \in Session, NEW s \in Session, Live(r)', Live(s)',
                      ~sessions'[r].replaced, ~sessions'[s].replaced,
                      sessions'[r].family = sessions'[s].family
               PROVE  r = s
    BY Zenon DEF OneTipPerFamily
  <2>1. CASE r \notin t.fresh /\ s \notin t.fresh
    BY <2>1, <1>8, Zenon DEF IInv, OneTipPerFamily, Live
  <2>2. CASE r \in t.fresh \/ s \in t.fresh
    BY <2>2, <1>8, <1>9, Zenon DEF Live, Issued
  <2> QED BY <2>1, <2>2, Zenon
<1>12. FamiliesAreBound'
  <2>1. ASSUME NEW s \in Session, Issued(s)' PROVE Issued(sessions[s].family)'
    BY <2>1, <1>8, <1>9, Zenon DEF Issued
  <2>2. ASSUME NEW r \in Session, NEW s \in Session, Issued(r)', Issued(s)',
               sessions'[r].family = sessions'[s].family
        PROVE  sessions'[r].user = sessions'[s].user /\ sessions'[r].device = sessions'[s].device
    <3>1. CASE r \notin t.fresh /\ s \notin t.fresh
      BY <3>1, <2>2, <1>8 DEF IInv, FamiliesAreBound, Issued
    <3>2. CASE r \in t.fresh \/ s \in t.fresh
      BY ZenonT(40), <3>2, <2>2, <1>8, <1>9 DEF Issued
    <3> QED BY <3>1, <3>2, Zenon
  <2> QED BY <2>1, <2>2, Zenon DEF FamiliesAreBound
<1>13. ASSUME NEW v \in Worker \ {w} PROVE SparesOthers(v)
  <2>1. tx[v] \in Transaction /\ ReadsHold(tx[v]) /\ LocksHeld(tx[v]) BY OwnFacts, Zenon
  <2>2. /\ tx[v].devs \subseteq Device /\ tx[v].fresh \subseteq Session
        /\ RowsOf(tx[v]) \subseteq Session /\ tx[v].source \in Session
    BY <2>1, Zenon DEF Transaction, RowsOf
  <2>3. \A s \in RowsOf(tx[v]) : /\ sessions'[s].status = sessions[s].status
                                 /\ sessions'[s].replaced = sessions[s].replaced
    <3>1. \A s \in RowsOf(tx[v]) : Issued(s)
      BY Zenon, <2>1 DEF RowsOf, ReadsHold, LocksHeld
    <3> QED BY Zenon, <3>1, <2>2, <1>8
  <2>4. \A d \in tx[v].devs : devices'[d] = devices[d]
    <3>1. t.device \notin tx[v].devs
      BY Zenon, <1>1, <1>7 DEF Compatible
    <3> QED BY <3>1, <2>2, <1>4, Zenon
  <2>5. \A s \in tx[v].fresh : ~Issued(s)'
    <3>1. tx[v].fresh \cap t.fresh = {}
      BY <1>1, Zenon DEF Compatible
    <3> QED BY Zenon, <3>1, <2>1, <2>2, <1>8 DEF ReadsHold, Issued
  <2>6. ASSUME tx[v].pc = "sweep", tx[v].op \in CompleteOps, NEW s \in t.fresh
        PROVE  s \notin Scope(tx[v])'
    <3>0. tx'[v] = tx[v]
      BY <1>1, Zenon DEF End, IInv, TypeOK
    <3>1. tx[v].op \in UserOps \ {"finalize_deletion"} => tx[v].user # t.user
      <4>1. tx[v].op \in UserOps => "userX" \in tx[v].holds
        BY Zenon, <2>1, <2>6 DEF LocksHeld, UserOps, UserLockOps, AdvisoryOps, Ops
      <4> QED BY Zenon, <4>1, <1>1, <1>7 DEF Compatible
    <3>2. /\ t.device \notin tx[v].devs
          /\ tx[v].op \in DeviceOps => tx[v].devs = {tx[v].device}
      BY Zenon, <1>1, <1>7, <2>1, <2>6 DEF Compatible, LocksHeld, DeviceOps
    <3>3. tx[v].op \in FamilyOps => sessions'[tx[v].source].family # s
      BY ZenonT(60), <2>1, <2>2, <1>7, <1>8, <1>9 DEF ReadsHold, SourceOps
    <3> QED BY Zenon, <3>0, <3>1, <3>2, <3>3, <2>6, <1>2, <1>8 DEF Scope, CompleteOps, FamilyOps
  <2> QED BY Zenon, <1>1, <1>8, <2>3, <2>4, <2>5, <2>6 DEF SparesOthers, Live, Issued
<1> QED BY Zenon, <1>1, <1>3, <1>6, <1>10, <1>11, <1>12, <1>13, EndStep

\* Marking a session replaced changes no other field.
LEMMA ReplacedRow ==
    ASSUME NEW row \in Row
    PROVE  LET old == [row EXCEPT !.replaced = TRUE]
           IN /\ old \in Row /\ old.status = row.status /\ old.user = row.user
              /\ old.device = row.device /\ old.family = row.family /\ old.replaced = TRUE
BY Zenon DEF Row

\* The commit of a rotation: the successor takes the place of the tip it replaces.
LEMMA CommitRotateStep ==
    ASSUME IInv, NEW w \in Worker, CommitRotate(w) PROVE IInv'
<1> DEFINE t == tx[w]
<1>0. PICK next : next = [Idle EXCEPT !.op = "refresh", !.pc = "issue", !.user = t.user,
                                      !.device = t.device, !.source = t.source]
  BY Zenon
<1>1. /\ t \in Transaction /\ LocksHeld(t) /\ ReadsHold(t)
      /\ t.pc = "commit" /\ t.op = "refresh" /\ tx' = [tx EXCEPT ![w] = next]
      /\ users' = users /\ devices' = devices /\ offline' = offline
      /\ \A v \in Worker \ {w} : Compatible(t, tx[v]) /\ tx[v] \in Transaction
  BY <1>0, OwnFacts, Zenon DEF CommitRotate
<1>2. t.user \in User /\ t.device \in Device /\ t.fresh \subseteq Session /\ t.source \in Session
  BY <1>1, Zenon DEF Transaction
<1>3. /\ users \in [User -> {"active", "pending_deletion", "deletion_due",
                             "disabled", "finalized"}]
      /\ devices \in [Device -> [owner: User, status: {"absent", "active", "revoked"}]]
      /\ sessions \in [Session -> Row] /\ offline \in [Device -> SUBSET User]
  BY Zenon DEF IInv, TypeOK
<1>4. /\ next \in Transaction /\ next.op = "refresh" /\ next.pc = "issue"
      /\ next.user = t.user /\ next.device = t.device /\ next.source = t.source
      /\ next.fresh = {} /\ next.holds = {} /\ next.devs = {}
      /\ next.todo = {} /\ next.done = {}
  BY ZenonT(60), <1>0, <1>2, IdleFacts DEF Idle, Transaction, Ops, FamilyOps, Pcs
<1>5. /\ Live(t.source) /\ ~sessions[t.source].replaced
      /\ sessions[t.source].user = t.user /\ sessions[t.source].device = t.device
      /\ \A s \in t.fresh : ~Issued(s)
      /\ \A r, s \in t.fresh : r = s
      /\ "source" \in t.holds /\ "userK" \in t.holds /\ t.devs = {t.device}
  BY Zenon, <1>1 DEF ReadsHold, LocksHeld, SourceOps, FamilyOps
<1> DEFINE f == sessions[t.source].family
<1>6. f \in Session
  BY <1>2, <1>3, Zenon DEF Row
<1>7. \A s \in Session :
         sessions'[s] = IF s \in t.fresh THEN NewRow(t.user, t.device, f)
                        ELSE IF s = t.source THEN [sessions[s] EXCEPT !.replaced = TRUE]
                        ELSE sessions[s]
  BY Zenon DEF CommitRotate
<1>8. LET new == NewRow(t.user, t.device, f)
      IN /\ new \in Row /\ new.status = "live" /\ new.user = t.user
         /\ new.device = t.device /\ new.family = f
  BY <1>2, <1>6, Zenon DEF Row, NewRow
<1>9. LET old == [sessions[t.source] EXCEPT !.replaced = TRUE]
      IN /\ old \in Row /\ old.status = "live" /\ old.user = t.user
         /\ old.device = t.device /\ old.family = f /\ old.replaced = TRUE
  <2>1. sessions[t.source] \in Row
    BY Zenon, <1>2, <1>3
  <2> QED BY <2>1, <1>5, ReplacedRow, Zenon DEF Live
<1>10. sessions' \in [Session -> Row]
  BY ZenonT(60), <1>3, <1>8, <1>9 DEF CommitRotate
<1> HIDE DEF t, f
<1>11. \A s \in Session :
         /\ s \in t.fresh => /\ ~Issued(s) /\ Live(s)' /\ sessions'[s].user = t.user
                             /\ sessions'[s].device = t.device /\ sessions'[s].family = f
         /\ s \notin t.fresh => /\ sessions'[s].status = sessions[s].status
                                /\ sessions'[s].user = sessions[s].user
                                /\ sessions'[s].device = sessions[s].device
                                /\ sessions'[s].family = sessions[s].family
         /\ s \notin t.fresh /\ s # t.source => sessions'[s] = sessions[s]
         /\ s = t.source => sessions'[s].replaced
  <2> TAKE s \in Session
  <2>1. CASE s \in t.fresh
    <3>1. s # t.source BY <2>1, <1>5, Zenon DEF Issued, Live
    <3> QED BY Zenon, <2>1, <3>1, <1>5, <1>7, <1>8 DEF Live
  <2>2. CASE s = t.source
    <3>1. s \notin t.fresh BY <2>2, <1>5, Zenon DEF Issued, Live
    <3> QED BY Zenon, <2>2, <3>1, <1>5, <1>7, <1>9 DEF Live, f
  <2>3. CASE s \notin t.fresh /\ s # t.source
    BY Zenon, <2>3, <1>7
  <2> QED BY <2>1, <2>2, <2>3, Zenon
<1>12. LiveSessionsAreBacked'
  <2> SUFFICES ASSUME NEW s \in Session, Live(s)'
               PROVE  /\ users[sessions'[s].user] = "active"
                      /\ devices[sessions'[s].device] =
                           [owner |-> sessions'[s].user, status |-> "active"]
    BY <1>1, Zenon DEF LiveSessionsAreBacked
  <2>1. CASE s \in t.fresh
    BY <2>1, <1>2, <1>5, <1>11 DEF IInv, LiveSessionsAreBacked
  <2>2. CASE s \notin t.fresh
    BY <2>2, <1>11 DEF IInv, LiveSessionsAreBacked, Live
  <2> QED BY <2>1, <2>2, Zenon
<1>13. OneTipPerFamily'
  <2> SUFFICES ASSUME NEW r \in Session, NEW s \in Session, Live(r)', Live(s)',
                      ~sessions'[r].replaced, ~sessions'[s].replaced,
                      sessions'[r].family = sessions'[s].family
               PROVE  r = s
    BY Zenon DEF OneTipPerFamily
  <2>1. r # t.source /\ s # t.source
    BY Zenon, <1>11
  <2>2. ASSUME NEW x \in Session, Live(x)', ~sessions'[x].replaced, sessions'[x].family = f,
               x \notin t.fresh
        PROVE  FALSE
    <3>1. x # t.source BY <2>2, <1>11, Zenon
    <3>2. Live(x) /\ ~sessions[x].replaced /\ sessions[x].family = f
      BY Zenon, <3>1, <2>2, <1>11 DEF Live
    <3> QED BY Zenon, <3>1, <3>2, <1>2, <1>5 DEF IInv, OneTipPerFamily, f
  <2>3. CASE r \notin t.fresh /\ s \notin t.fresh
    BY ZenonT(40), <2>1, <2>3, <1>11 DEF IInv, OneTipPerFamily, Live
  <2>4. CASE r \in t.fresh \/ s \in t.fresh
    <3>1. sessions'[r].family = f /\ sessions'[s].family = f
      BY <2>4, <1>11, Zenon
    <3> QED BY <3>1, <2>2, <1>5, Zenon
  <2> QED BY <2>3, <2>4, Zenon
<1>14. \A s \in Session : Issued(s) => sessions[s].family \in Session /\ Issued(sessions[s].family)
  BY Zenon, <1>3 DEF IInv, FamiliesAreBound, Row
<1>15. Issued(t.source) /\ Issued(f)
  BY <1>2, <1>5, <1>14, Zenon DEF Issued, Live, f
<1>16. FamiliesAreBound'
  <2>1. ASSUME NEW s \in Session, Issued(s)' PROVE Issued(sessions[s].family)'
    <3>1. sessions'[s].family \in Session /\ Issued(sessions'[s].family)
      BY <2>1, <1>6, <1>11, <1>14, <1>15 DEF Issued
    <3> QED BY <3>1, <1>11, Zenon DEF Issued, Live
  <2>2. ASSUME NEW r \in Session, NEW s \in Session, Issued(r)', Issued(s)',
               sessions'[r].family = sessions'[s].family
        PROVE  sessions'[r].user = sessions'[s].user /\ sessions'[r].device = sessions'[s].device
    <3>1. ASSUME NEW x \in Session, Issued(x)', sessions'[x].family = f
          PROVE  sessions'[x].user = t.user /\ sessions'[x].device = t.device
      <4>1. CASE x \in t.fresh BY Zenon, <4>1, <1>11
      <4>2. CASE x \notin t.fresh
        BY SMTT(30), <4>2, <3>1, <1>2, <1>5, <1>11, <1>15 DEF IInv, FamiliesAreBound, Issued, f
      <4> QED BY <4>1, <4>2, Zenon
    <3>2. CASE r \notin t.fresh /\ s \notin t.fresh
      BY SMTT(30), <3>2, <2>2, <1>11 DEF IInv, FamiliesAreBound, Issued
    <3>3. CASE r \in t.fresh \/ s \in t.fresh
      BY SMTT(60), <3>1, <3>3, <2>2, <1>11
    <3> QED BY <3>2, <3>3, Zenon
  <2> QED BY <2>1, <2>2, Zenon DEF FamiliesAreBound
<1>17. ASSUME NEW v \in Worker \ {w} PROVE SparesOthers(v)
  <2>1. tx[v] \in Transaction /\ ReadsHold(tx[v]) /\ LocksHeld(tx[v]) BY OwnFacts, Zenon
  <2>2. /\ tx[v].fresh \subseteq Session /\ RowsOf(tx[v]) \subseteq Session
        /\ tx[v].source \in Session
    BY <2>1, Zenon DEF Transaction, RowsOf
  <2>3. \A s \in RowsOf(tx[v]) : sessions'[s] = sessions[s]
    <3>1. t.source \notin RowsOf(tx[v])
      BY Zenon, <1>1, <1>5 DEF Compatible, RowsOf
    <3>2. \A s \in RowsOf(tx[v]) : Issued(s)
      BY <2>1, Zenon DEF RowsOf, ReadsHold, LocksHeld
    <3> QED BY Zenon, <3>1, <3>2, <2>2, <1>11
  <2>4. \A s \in tx[v].fresh : ~Issued(s)'
    <3>1. tx[v].fresh \cap t.fresh = {}
      BY Zenon, <1>1 DEF Compatible
    <3> QED BY SMTT(60), <3>1, <2>1, <2>2, <1>11 DEF ReadsHold, Issued
  <2>5. ASSUME tx[v].pc = "sweep", tx[v].op \in CompleteOps, NEW s \in t.fresh
        PROVE  s \notin Scope(tx[v])'
    <3>0. tx'[v] = tx[v]
      BY ZenonT(60), <1>1 DEF IInv, TypeOK
    <3>1. "userX" \in tx[v].holds => tx[v].user # t.user
      BY Zenon, <1>1, <1>5 DEF Compatible
    <3>2. /\ tx[v].op \in UserOps \cup {"device_revoke", "admin_revoke_session"} =>
               "userX" \in tx[v].holds
          /\ tx[v].op \in {"finalize_deletion", "self_revoke", "admin_revoke_device"} =>
               "deviceX" \in tx[v].holds
          /\ tx[v].op \in DeviceOps => tx[v].devs = {tx[v].device}
      BY Zenon, <2>1, <2>5 DEF LocksHeld, UserOps, UserLockOps, AdvisoryOps, Ops, DeviceOps, FamilyOps
    <3>3. "deviceX" \in tx[v].holds => t.device \notin tx[v].devs
      BY ZenonT(60), <1>1, <1>5 DEF Compatible
    <3>4. tx[v].op = "device_revoke" => tx[v].device # t.device
      <4>1. devices[t.device].owner = t.user
        <5>1. devices[t.device] = [owner |-> t.user, status |-> "active"]
          BY Zenon, <1>2, <1>5 DEF IInv, LiveSessionsAreBacked
        <5> QED BY SMTT(30), <5>1
      <4>2. tx[v].op = "device_revoke" => devices[tx[v].device].owner = tx[v].user
        BY <3>2, <2>1, Zenon DEF ReadsHold, OwnerOps, DeviceOps
      <4> QED BY <4>1, <4>2, <3>1, <3>2, Zenon
    <3>5. tx[v].op = "admin_revoke_session" => sessions'[tx[v].source].family # f
      <4> SUFFICES ASSUME tx[v].op = "admin_revoke_session",
                          sessions'[tx[v].source].family = f
                   PROVE  FALSE
        BY Zenon
      <4>1. Issued(tx[v].source) /\ sessions[tx[v].source].user = tx[v].user
        BY ZenonT(60), <2>1 DEF ReadsHold, SourceOps, FamilyOps
      <4>2. sessions[tx[v].source].family = f
        BY Zenon, <4>1, <2>2, <1>11
      <4>3. tx[v].user = t.user
        BY Zenon, <4>1, <4>2, <2>2, <1>2, <1>5, <1>15 DEF IInv, FamiliesAreBound, f
      <4> QED BY <4>3, <3>1, <3>2, Zenon
    <3>6. /\ sessions'[s].user = t.user /\ sessions'[s].device = t.device
          /\ sessions'[s].family = f
      BY <1>2, <1>11, Zenon
    <3> QED BY Zenon, <3>0, <3>1, <3>2, <3>3, <3>4, <3>5, <3>6, <2>5
            DEF Scope, CompleteOps, FamilyOps, DeviceOps
  <2> QED BY <1>1, <1>11, <2>3, <2>4, <2>5, Zenon DEF SparesOthers, Live, Issued
<1>18. LocksHeld(next)
  BY Zenon, <1>4 DEF LocksHeld, Route, LiftOps, UserLockOps, AdvisoryOps, OwnerOps
<1>19. ReadsHold(next)'
  BY <1>2, <1>4, <1>5, <1>11, <1>15 DEF ReadsHold, SourceOps, FamilyOps, OwnerOps, Issued
<1> QED BY Zenon, <1>1, <1>3, <1>4, <1>10, <1>12, <1>13, <1>16, <1>17, <1>18, <1>19, TableStep
-----------------------------------------------------------------------------
(***************************************************************************)
(* The theorems.                                                           *)
(***************************************************************************)
\* The empty tables satisfy the invariant.
LEMMA InitInv == Init => IInv
<1> SUFFICES ASSUME Init PROVE IInv
  BY Zenon
<1>1. TypeOK
  BY IdleFacts, Zenon DEF Init, TypeOK, Row
<1>2. \A s \in Session : ~Issued(s) /\ ~Live(s)
  BY Zenon DEF Init, Issued, Live
<1>3. LiveSessionsAreBacked /\ OneTipPerFamily /\ FamiliesAreBound
  BY <1>2, Zenon DEF LiveSessionsAreBacked, OneTipPerFamily, FamiliesAreBound
<1>4. \A w \in Worker : tx[w] = Idle
  BY Zenon DEF Init
<1>5. \A w \in Worker : LocksHeld(tx[w]) /\ ReadsHold(tx[w]) /\ SweepCovers(tx[w])
  BY <1>4, IdleFine, Zenon DEF Fine
<1>6. \A v, w \in Worker : Compatible(tx[v], tx[w])
  BY <1>4, IdleFine, Zenon
<1> QED BY <1>1, <1>3, <1>5, <1>6, Zenon DEF IInv

\* Every step keeps the invariant.
LEMMA NextInv == IInv /\ [Next]_vars => IInv'
<1> SUFFICES ASSUME IInv, [Next]_vars PROVE IInv'
  BY Zenon
<1>1. ASSUME NEW w \in Worker, Step(w) PROVE IInv'
  <2>1. CASE Statement(w)
    BY <2>1, StatementStep, Zenon
  <2>2. CASE Commit(w)
    BY <2>2, CommitRevocationStep, CommitFinalizeStep, CommitLiftStep, CommitAuthorizeStep,
       CommitRotateStep, Zenon DEF Commit
  <2>3. CASE IssueEntitlement(w) \/ IssueFails(w)
    BY <2>3, IssueEntitlementStep, IssueFailsStep, Zenon
  <2>4. CASE Reject(w) \/ AbortDeadlocked(w)
    BY <2>4, RollbackStep, Zenon DEF Reject, AbortDeadlocked
  <2> QED BY <1>1, <2>1, <2>2, <2>3, <2>4, Zenon DEF Step
<1>2. ASSUME NEW w \in Worker, Crash(w) PROVE IInv'
  BY <1>2, RollbackStep, Zenon DEF Crash
<1>3. CASE UNCHANGED vars
  <2>1. UNCHANGED <<users, devices, sessions, offline, tx>>
    BY <1>3, Zenon DEF vars
  <2>2. TypeOK' /\ LiveSessionsAreBacked' /\ OneTipPerFamily' /\ FamiliesAreBound'
    BY <2>1, Zenon DEF IInv, TypeOK, LiveSessionsAreBacked, OneTipPerFamily, FamiliesAreBound,
       Live, Issued
  <2>3. ASSUME NEW v \in Worker PROVE SparesOthers(v)
    <3>1. tx[v] \in Transaction /\ ReadsHold(tx[v]) BY OwnFacts, Zenon
    <3> QED BY <2>1, <3>1, Zenon DEF SparesOthers, Live, Issued, ReadsHold
  <2> QED BY <2>1, <2>2, <2>3, TimeStep, Zenon
<1> QED BY <1>1, <1>2, <1>3, RequestStep, ExpireStep, CloseWindowStep, Zenon DEF Next

\* The inductive invariant: the locks that a transaction holds at each statement, what
\* they keep true of the rows it has read, and the coverage of its sweep.
THEOREM Invariance == Spec => []IInv
BY InitInv, NextInv, PTL DEF Spec

\* Every reachable state is well typed.
THEOREM TypeCorrect == Spec => []TypeOK
BY Invariance, PTL DEF IInv

\* No session outlives its account's or its device's active status, for any
\* number of accounts, devices and concurrent handlers.
THEOREM SessionsStayBacked == Spec => []LiveSessionsAreBacked
BY Invariance, PTL DEF IInv

\* Refresh-token families never fork.
THEOREM FamiliesNeverFork == Spec => []OneTipPerFamily
BY Invariance, PTL DEF IInv

\* A revocation under the account's or the device's lock ends its whole scope.
LEMMA CompleteSweepEndsScope ==
    ASSUME IInv, NEW w \in Worker, CommitRevocation(w), tx[w].op \in CompleteOps,
           NEW s \in Scope(tx[w])
    PROVE  sessions'[s].status # "live"
<1>1. tx[w].pc = "sweep" /\ tx[w].todo = {}
  BY Zenon DEF CommitRevocation
<1>2. s \in Session
  BY Zenon DEF Scope
<1>3. sessions'[s] = IF s \in tx[w].done THEN Revoked(s, tx[w]) ELSE sessions[s]
  BY <1>2, Zenon DEF CommitRevocation
<1>4. Revoked(s, tx[w]).status = "revoked"
  <2>1. sessions[s] \in Row
    BY <1>2, Zenon DEF IInv, TypeOK
  <2> QED BY <2>1, Zenon DEF Revoked, Row
<1>5. Live(s) => s \in tx[w].done
  BY <1>1, SweepComplete, Zenon
<1> QED BY <1>3, <1>4, <1>5, Zenon DEF Live

\* A revocation of an account, a device or (by an operator) a session leaves
\* nothing live in its scope, whatever refreshes run beside it.
THEOREM RevocationsAreComplete == Spec => RevocationIsComplete
<1>1. IInv /\ [Next]_vars =>
        [\A w \in Worker :
           /\ CommitRevocation(w)
           /\ tx[w].op \in UserOps \cup DeviceOps \cup {"admin_revoke_session"}
           => \A s \in Scope(tx[w]) : sessions'[s].status # "live"]_vars
  BY CompleteSweepEndsScope, Zenon DEF CompleteOps
<1> QED BY <1>1, Invariance, PTL DEF Spec, RevocationIsComplete

(***************************************************************************)
(* Refinement of SessionAccess.                                            *)
(***************************************************************************)
Usable(s) == Live(s) /\ ~sessions[s].expired

\* Because live sessions are backed, access depends on the session row alone.
LEMMA AccessByRow ==
    ASSUME LiveSessionsAreBacked, NEW s \in Session
    PROVE  AccessOf(s) = IF ~Issued(s) THEN "unissued"
                         ELSE IF Usable(s) THEN "active" ELSE "ended"
BY Zenon DEF LiveSessionsAreBacked, AccessOf, AccessActive, Usable, Issued, Live

\* A step that issues nothing and revives nothing is a step of SessionAccess.
LEMMA EndsAccess ==
    ASSUME IInv, IInv',
           \A s \in Session : (Issued(s)' <=> Issued(s)) /\ (Usable(s)' => Usable(s))
    PROVE  Abstract!Next
<1> DEFINE S == {s \in Session : Usable(s) /\ ~Usable(s)'}
<1>1. \A s \in Session : Access[s] = IF ~Issued(s) THEN "unissued"
                                     ELSE IF Usable(s) THEN "active" ELSE "ended"
  BY AccessByRow, Zenon DEF IInv, Access
<1>2. \A s \in Session : Access'[s] = (IF ~Issued(s) THEN "unissued"
                                       ELSE IF Usable(s) THEN "active" ELSE "ended")'
  <2>1. ASSUME NEW s \in Session
        PROVE  AccessOf(s)' = (IF ~Issued(s) THEN "unissued"
                               ELSE IF Usable(s) THEN "active" ELSE "ended")'
    BY Zenon DEF IInv, LiveSessionsAreBacked, AccessOf, AccessActive, Usable, Issued, Live
  <2> QED BY <2>1, Zenon DEF Access
<1>3. \A s \in Session : Usable(s) => Issued(s)
  BY Zenon DEF Usable, Live, Issued
<1>4. Access' = [s \in Session |-> Access'[s]]
  BY Zenon DEF Access
<1>5. Abstract!End(S)
  <2>1. \A s \in S : Access[s] = "active"
    BY <1>1, <1>3, Zenon
  <2>2. \A s \in Session : Access'[s] = IF s \in S THEN "ended" ELSE Access[s]
    BY <1>1, <1>2, <1>3, Zenon
  <2> HIDE DEF S
  <2> QED BY <2>1, <2>2, <1>4, Zenon DEF Abstract!End
<1> QED BY <1>5, Zenon DEF Abstract!Next

\* A step that issues one usable session is a step of SessionAccess.
LEMMA IssuesAccess ==
    ASSUME IInv, IInv', NEW n \in Session, ~Issued(n), Usable(n)',
           \A s \in Session \ {n} : (Issued(s)' <=> Issued(s)) /\ (Usable(s)' <=> Usable(s))
    PROVE  Abstract!Next
<1>1. \A s \in Session : Access[s] = IF ~Issued(s) THEN "unissued"
                                     ELSE IF Usable(s) THEN "active" ELSE "ended"
  BY AccessByRow, Zenon DEF IInv, Access
<1>2. \A s \in Session : Access'[s] = (IF ~Issued(s) THEN "unissued"
                                       ELSE IF Usable(s) THEN "active" ELSE "ended")'
  <2>1. ASSUME NEW s \in Session
        PROVE  AccessOf(s)' = (IF ~Issued(s) THEN "unissued"
                               ELSE IF Usable(s) THEN "active" ELSE "ended")'
    BY Zenon DEF IInv, LiveSessionsAreBacked, AccessOf, AccessActive, Usable, Issued, Live
  <2> QED BY <2>1, Zenon DEF Access
<1>3. Access' = [s \in Session |-> Access'[s]] /\ Access = [s \in Session |-> Access[s]]
  BY Zenon DEF Access
<1>4. Issued(n)'
  BY Zenon DEF Usable, Live, Issued
<1>5. Abstract!Issue(n)
  <2>1. Access[n] = "unissued"
    BY <1>1, Zenon
  <2>2. \A s \in Session : Access'[s] = IF s = n THEN "active" ELSE Access[s]
    BY <1>1, <1>2, <1>4, Zenon
  <2> QED BY <2>1, <2>2, <1>3, Zenon DEF Abstract!Issue
<1> QED BY <1>5, Zenon DEF Abstract!Next

\* Every step of the service is a step of SessionAccess or leaves access unchanged.
LEMMA StepImplements ==
    ASSUME IInv, IInv', [Next]_vars PROVE [Abstract!Next]_Access
<1>0. sessions \in [Session -> Row] /\ sessions' \in [Session -> Row]
  BY Zenon DEF IInv, TypeOK
<1>1. CASE UNCHANGED sessions
  BY <1>1, EndsAccess, Zenon DEF Usable, Live, Issued
<1>2. ASSUME NEW w \in Worker, CommitRevocation(w) PROVE Abstract!Next
  <2>1. \A s \in Session : sessions'[s] = IF s \in tx[w].done THEN Revoked(s, tx[w]) ELSE sessions[s]
    BY <1>2, Zenon DEF CommitRevocation
  <2>2. \A s \in Session : Revoked(s, tx[w]).status = "revoked"
    BY <1>0 DEF Revoked, Row
  <2>3. \A s \in tx[w].done : Issued(s)
    BY OwnFacts, Zenon DEF ReadsHold
  <2> QED BY <2>1, <2>2, <2>3, EndsAccess, Zenon DEF Usable, Live, Issued
<1>3. ASSUME NEW w \in Worker, CommitFinalize(w) PROVE Abstract!Next
  <2>1. \A s \in Session : sessions'[s] = IF s \in tx[w].done
                                          THEN [sessions[s] EXCEPT !.status = "deleted"]
                                          ELSE sessions[s]
    BY <1>3, Zenon DEF CommitFinalize
  <2>2. \A s \in Session : [sessions[s] EXCEPT !.status = "deleted"].status = "deleted"
    BY <1>0 DEF Row
  <2>3. \A s \in tx[w].done : Issued(s)
    BY OwnFacts, Zenon DEF ReadsHold
  <2> QED BY Zenon, <2>1, <2>2, <2>3, EndsAccess DEF Usable, Live, Issued
<1>4. ASSUME NEW r \in Session, Expire(r) PROVE Abstract!Next
  <2>1. \A s \in Session : /\ sessions'[s].status = sessions[s].status
                           /\ s # r => sessions'[s] = sessions[s]
    BY <1>0, <1>4, Zenon DEF Expire, Row
  <2>2. sessions'[r].expired
    BY <1>0, <1>4, ZenonT(40) DEF Expire, Row
  <2> QED BY <2>1, <2>2, EndsAccess, Zenon DEF Usable, Live, Issued
<1>5. ASSUME NEW w \in Worker, CommitAuthorize(w) \/ CommitRotate(w) PROVE Abstract!Next
  <2>1. /\ tx[w].fresh \subseteq Session /\ tx[w].source \in Session
        /\ tx[w].user \in User /\ tx[w].device \in Device
        /\ \A s \in tx[w].fresh : ~Issued(s)
        /\ \A r, s \in tx[w].fresh : r = s
        /\ tx[w].op = "refresh" /\ tx[w].pc = "commit" => Issued(tx[w].source)
    BY OwnFacts, Zenon DEF ReadsHold, Transaction, SourceOps, FamilyOps
  <2>2. \A u \in User, d \in Device, f \in Session :
          NewRow(u, d, f).status = "live" /\ ~NewRow(u, d, f).expired
    BY Zenon DEF NewRow
  <2>3. \A s \in Session :
          /\ s \in tx[w].fresh => Usable(s)'
          /\ s \notin tx[w].fresh => /\ sessions'[s].status = sessions[s].status
                                     /\ sessions'[s].expired = sessions[s].expired
    <3>1. CASE CommitAuthorize(w)
      <4>1. \A s \in Session : sessions'[s] = IF s \in tx[w].fresh
                                              THEN NewRow(tx[w].user, tx[w].device, s)
                                              ELSE sessions[s]
        BY <3>1, Zenon DEF CommitAuthorize
      <4> QED BY <4>1, <2>1, <2>2 DEF Usable, Live
    <3>2. CASE CommitRotate(w)
      <4>1. \A s \in Session :
              sessions'[s] = IF s \in tx[w].fresh
                             THEN NewRow(tx[w].user, tx[w].device, sessions[tx[w].source].family)
                             ELSE IF s = tx[w].source THEN [sessions[s] EXCEPT !.replaced = TRUE]
                             ELSE sessions[s]
        BY <3>2, Zenon DEF CommitRotate
      <4>2. \A s \in Session : LET old == [sessions[s] EXCEPT !.replaced = TRUE]
                               IN old.status = sessions[s].status /\ old.expired = sessions[s].expired
        BY <1>0, Zenon DEF Row
      <4>3. sessions[tx[w].source].family \in Session
        BY <2>1, <1>0, Zenon DEF Row
      <4> TAKE s \in Session
      <4>4. CASE s \in tx[w].fresh
        <5> DEFINE new == NewRow(tx[w].user, tx[w].device, sessions[tx[w].source].family)
        <5>1. sessions'[s] = new
          BY Zenon, <4>1, <4>4
        <5>2. new.status = "live" /\ ~new.expired
          BY <4>3, <2>1, <2>2, Zenon
        <5> HIDE DEF new
        <5> QED BY <5>1, <5>2, <4>4, Zenon DEF Usable, Live
      <4>5. CASE s = tx[w].source /\ s \notin tx[w].fresh
        <5>1. sessions'[s] = [sessions[s] EXCEPT !.replaced = TRUE]
          BY <4>1, <4>5, Zenon
        <5>2. /\ [sessions[s] EXCEPT !.replaced = TRUE].status = sessions[s].status
              /\ [sessions[s] EXCEPT !.replaced = TRUE].expired = sessions[s].expired
          BY <4>2, Zenon
        <5> QED BY <5>1, <5>2, <4>5, Zenon
      <4>6. CASE s # tx[w].source /\ s \notin tx[w].fresh
        BY ZenonT(60), <4>1, <4>6
      <4> QED BY <4>4, <4>5, <4>6, Zenon
    <3> QED BY <3>1, <3>2, <1>5, Zenon
  <2>4. CASE tx[w].fresh = {}
    BY <2>3, <2>4, EndsAccess, Zenon DEF Usable, Live, Issued
  <2>5. CASE tx[w].fresh # {}
    <3>1. PICK n \in Session : tx[w].fresh = {n}
      BY <2>1, <2>5, Zenon
    <3> QED BY <3>1, <2>1, <2>3, IssuesAccess DEF Usable, Live, Issued
  <2> QED BY <2>4, <2>5, Zenon
<1>6. CASE \E w \in Worker : Request(w) \/ Step(w) \/ Crash(w)
  <2>1. PICK w \in Worker : Request(w) \/ Step(w) \/ Crash(w)
    BY <1>6, Zenon
  <2>2. \/ UNCHANGED sessions \/ CommitRevocation(w) \/ CommitFinalize(w)
        \/ CommitAuthorize(w) \/ CommitRotate(w)
    <3>1. CASE Request(w)
      BY ZenonT(60), <3>1 DEF Request, Refresh, RevokeByToken, CliRevokeSession, AdminRevokeSession,
         ChangePassword, DeviceRevoke, AdminRevokeDevice, SelfRevoke, ResetPassword,
         RevokeAllSessions, ForcePasswordReset, RequestDeletion, RecoverDeletion,
         FinalizeDeletion, DisableUser, EnableUser, Authorize, OnSession, OnDevice, OnUser,
         Begin, tables
    <3>2. CASE Statement(w)
      BY Zenon, <3>2 DEF Statement, LockAdvisory, ReadUser, LockUser, ReadForRotate, LockSource,
         DecideRotation, LockDevice, MissDevice, InsertDevice, UpdateDevices, Snapshot, Sweep,
         KeyUser, KeyDevice, Proceed, tables
    <3>3. CASE Commit(w)
      BY <3>3, Zenon DEF Commit, CommitLift
    <3>4. CASE IssueEntitlement(w) \/ IssueFails(w) \/ Reject(w) \/ AbortDeadlocked(w) \/ Crash(w)
      BY <3>4, Zenon DEF IssueEntitlement, IssueFails, Reject, AbortDeadlocked, Crash, tables
    <3> QED BY <2>1, <3>1, <3>2, <3>3, <3>4, Zenon DEF Step
  <2> QED BY <2>2, <1>1, <1>2, <1>3, <1>5, Zenon
<1>7. CASE \E u \in User : CloseWindow(u)
  BY <1>1, <1>7, Zenon DEF CloseWindow
<1>8. CASE UNCHANGED vars
  BY <1>1, <1>8, Zenon DEF vars
<1> QED BY <1>4, <1>6, <1>7, <1>8, Zenon DEF Next

\* The service implements SessionAccess: a session is granted access once, and
\* access that ended never returns.
THEOREM AccessIsGrantedOnce == Spec => GrantsAccessOnce
<1>1. Init => Abstract!Init
  <2> SUFFICES ASSUME Init PROVE Abstract!Init
    BY Zenon
  <2>1. \A s \in Session : AccessOf(s) = "unissued"
    BY Zenon DEF Init, AccessOf
  <2> QED BY <2>1, Zenon DEF Abstract!Init, Access
<1>2. IInv /\ IInv' /\ [Next]_vars => [Abstract!Next]_Access
  BY StepImplements, Zenon
<1> QED BY <1>1, <1>2, Invariance, PTL DEF Spec, GrantsAccessOnce, Abstract!Spec

(***************************************************************************)
(* The limit on active devices.  Between the count and the commit only     *)
(* the advisory lock keeps other authorizations of the account away, while *)
(* revocations, which may take the very device away, make room for it.     *)
(***************************************************************************)
INSTANCE FiniteSetTheorems

Placing(t) == t.op = "authorize" /\ t.pc \in {"insertDevice", "keyUser", "commit"}
Owned(rows, u) == {d \in Device : rows[d].owner = u /\ rows[d].status = "active"}
Room(rows, t) == t.device \in Owned(rows, t.user) \/ Cardinality(Owned(rows, t.user)) < ActiveLimit

CapInv == /\ \A u \in User : Cardinality(Owned(devices, u)) <= ActiveLimit
          /\ \A w \in Worker : Placing(tx[w]) => Room(devices, tx[w])

LEMMA OwnedCount ==
    \A rows, u : IsFiniteSet(Owned(rows, u)) /\ Cardinality(Owned(rows, u)) \in Nat
<1>1. \A rows, u : Owned(rows, u) \in SUBSET Device
  BY Zenon DEF Owned
<1> QED BY <1>1, DevicesAreFinite, FS_Subset, FS_CardinalityType, Zenon

\* A statement or request of w that leaves the tables alone.
LEMMA QuietCap ==
    ASSUME TypeOK, CapInv, NEW w \in Worker, NEW t, tx' = [tx EXCEPT ![w] = t], UNCHANGED devices,
           Placing(t) => Room(devices, t)
    PROVE  CapInv'
<1>1. \A v \in Worker : tx'[v] = IF v = w THEN t ELSE tx[v]
  BY Zenon DEF TypeOK
<1> QED BY <1>1, Zenon DEF CapInv

\* Where a device stops being active, the count falls below the limit.
LEMMA RoomStays ==
    ASSUME NEW rows, NEW next, NEW t, Cardinality(Owned(rows, t.user)) <= ActiveLimit, Room(rows, t),
           Owned(next, t.user) \subseteq Owned(rows, t.user)
    PROVE  Room(next, t)
<1> DEFINE S == Owned(rows, t.user)
           T == Owned(next, t.user)
<1>1. /\ IsFiniteSet(S) /\ Cardinality(S) \in Nat /\ Cardinality(S) <= ActiveLimit /\ ActiveLimit \in Nat
      /\ T \in SUBSET S
  BY OwnedCount, LimitIsNat, Zenon
<1>2. t.device \in S \/ Cardinality(S) < ActiveLimit
  BY Zenon DEF Room
<1> HIDE DEF S, T
<1>3. IsFiniteSet(T) /\ Cardinality(T) \in Nat /\ Cardinality(T) <= Cardinality(S) /\ (Cardinality(S) = Cardinality(T) => S = T)
  BY <1>1, FS_Subset, FS_CardinalityType, ZenonT(40)
<1>4. t.device \in T \/ Cardinality(T) < ActiveLimit
  BY <1>1, <1>2, <1>3
<1> QED BY <1>4, Zenon DEF S, T, Room

\* Fewer active devices stay within the limit.
LEMMA FewerOwned ==
    ASSUME NEW rows, NEW next, NEW u, Cardinality(Owned(rows, u)) <= ActiveLimit,
           Owned(next, u) \subseteq Owned(rows, u)
    PROVE  Cardinality(Owned(next, u)) <= ActiveLimit
<1> DEFINE S == Owned(rows, u)
           T == Owned(next, u)
<1>1. /\ IsFiniteSet(S) /\ Cardinality(S) \in Nat /\ Cardinality(S) <= ActiveLimit /\ ActiveLimit \in Nat
      /\ T \in SUBSET S
  BY OwnedCount, LimitIsNat, Zenon
<1> HIDE DEF S, T
<1>2. Cardinality(T) \in Nat /\ Cardinality(T) <= Cardinality(S)
  BY <1>1, FS_Subset, FS_CardinalityType, Zenon
<1>3. Cardinality(T) <= ActiveLimit
  BY <1>1, <1>2
<1> QED BY <1>3, Zenon DEF T

\* A commit of w that takes devices away.
LEMMA ShrinkCap ==
    ASSUME TypeOK, CapInv, NEW w \in Worker, End(w), \A u : Owned(devices', u) \subseteq Owned(devices, u)
    PROVE  CapInv'
<1>1. \A v \in Worker : tx'[v] = IF v = w THEN Idle ELSE tx[v]
  BY Zenon DEF End, TypeOK
<1>2. ~Placing(Idle)
  BY Zenon DEF Placing, Idle
<1>3. \A u \in User : Cardinality(Owned(devices', u)) <= ActiveLimit
  BY FewerOwned, Zenon DEF CapInv
<1>4. ASSUME NEW v \in Worker, Placing(tx'[v]) PROVE Room(devices', tx'[v])
  <2>1. tx'[v] = tx[v] /\ tx[v].user \in User /\ Room(devices, tx[v])
    BY <1>1, <1>2, <1>4, Zenon DEF CapInv, TypeOK, Transaction
  <2>2. Cardinality(Owned(devices, tx[v].user)) <= ActiveLimit
    BY <2>1, Zenon DEF CapInv
  <2> QED BY <2>1, <2>2, RoomStays, ZenonT(40)
<1> QED BY <1>3, <1>4, Zenon DEF CapInv

LEMMA RequestCap ==
    ASSUME TypeOK, CapInv, NEW w \in Worker, Request(w)
    PROVE  CapInv'
<1>1. ASSUME NEW op, NEW first \in {"advisory", "read", "lockSource", "lockDevice"}, NEW u, NEW d, NEW s,
             Begin(w, op, first, u, d, s)
      PROVE  CapInv'
  <2> DEFINE t == [Idle EXCEPT !.op = op, !.pc = first, !.user = u, !.device = d, !.source = s]
  <2>1. t.pc = first
    BY Zenon DEF Idle
  <2>2. tx' = [tx EXCEPT ![w] = t] /\ UNCHANGED devices
    BY <1>1, Zenon DEF Begin, tables
  <2> HIDE DEF t
  <2>3. ~Placing(t)
    BY <2>1, Zenon DEF Placing
  <2> QED BY <2>2, <2>3, QuietCap, Zenon
<1>2. ASSUME NEW op, NEW first \in {"advisory", "read", "lockSource", "lockDevice"},
             OnSession(w, op, first) \/ OnDevice(w, op, first)
      PROVE  CapInv'
  BY <1>1, <1>2, Zenon DEF OnSession, OnDevice
<1>3. \A op : OnUser(w, op) => CapInv'
  BY <1>1, Zenon DEF OnUser
<1>4. Authorize(w) => CapInv'
  BY <1>1, Zenon DEF Authorize
<1> QED BY <1>2, <1>3, <1>4, Zenon DEF Request, Refresh, RevokeByToken, CliRevokeSession, AdminRevokeSession, ChangePassword, DeviceRevoke,
           AdminRevokeDevice, SelfRevoke, ResetPassword, RevokeAllSessions, ForcePasswordReset, RequestDeletion, RecoverDeletion,
           FinalizeDeletion, DisableUser, EnableUser

\* AuthorizeInTx has found that the device is active already or that one more fits.
LEMMA AdmittedRoom ==
    ASSUME TypeOK, NEW w \in Worker, tx[w].op = "authorize", tx[w].pc = "lockDevice", Admissible(tx[w])
    PROVE  Room(devices, tx[w])
<1> DEFINE u == tx[w].user
           d == tx[w].device
<1>1. devices[d] \in [owner: User, status: {"absent", "active", "revoked"}] /\ d \in Device
  BY Zenon DEF TypeOK, Transaction
<1>2. HasCapacity(u) \/ (devices[d].owner = u /\ devices[d].status = "active")
  BY Zenon DEF Admissible, MayAuthorize
<1>3. Active(u) = Owned(devices, u)
  BY DEF Active, Owned, TypeOK
<1>4. devices[d].owner = u /\ devices[d].status = "active" => d \in Owned(devices, u)
  BY <1>1, Zenon DEF Owned
<1> QED BY <1>2, <1>3, <1>4, Zenon DEF Room, HasCapacity

LEMMA StatementCap ==
    ASSUME IInv, CapInv, NEW w \in Worker, Statement(w)
    PROVE  CapInv'
<1> DEFINE old == tx[w]
<1>0. TypeOK /\ old \in Transaction /\ (old.op = "authorize" => old.pc \in Route("authorize"))
  BY Zenon DEF IInv, TypeOK, LocksHeld
<1>1. Route("authorize") = {"advisory", "readUser", "lockDevice", "insertDevice", "keyUser", "commit"}
  BY Zenon DEF Route, LiftOps
<1>2. ASSUME NEW H, NEW D, Proceed(w, H, D), old.op = "authorize" => old.pc \in {"advisory", "readUser"} \/ Room(devices, old)
      PROVE  CapInv'
  <2> DEFINE t == Moved(old, After(old.op, old.pc), old.holds \cup H, D)
  <2>1. tx' = [tx EXCEPT ![w] = t] /\ UNCHANGED devices
    BY <1>2, Zenon DEF Proceed, tables
  <2>2. t.op = old.op /\ t.pc = After(old.op, old.pc) /\ t.user = old.user /\ t.device = old.device
    BY <1>0, Zenon DEF Moved, Transaction
  <2> HIDE DEF t
  <2>3. /\ After("authorize", "advisory") = "readUser"
        /\ After("authorize", "readUser") = "lockDevice"
    BY Zenon DEF After
  <2>4. Placing(t) => Room(devices, t)
    BY <1>2, <2>2, <2>3, Zenon DEF Placing, Room
  <2> QED BY <1>0, <2>1, <2>4, QuietCap, Zenon
<1>3. CASE LockAdvisory(w) \/ ReadUser(w)
  BY <1>2, <1>3, ZenonT(40) DEF LockAdvisory, ReadUser, Granted
<1>4. CASE LockUser(w) \/ LockSource(w) \/ UpdateDevices(w) \/ KeyDevice(w)
  BY <1>0, <1>1, <1>2, <1>4, Zenon DEF LockUser, LockSource, UpdateDevices, KeyDevice, Granted
<1>5. CASE LockDevice(w)
  BY <1>0, <1>2, <1>5, AdmittedRoom, ZenonT(40) DEF LockDevice, Granted
<1>6. CASE InsertDevice(w)
  <2>1. old.op = "authorize" => Room(devices, old)
    BY <1>6, Zenon DEF InsertDevice, Granted, CapInv, Placing
  <2> QED BY <1>2, <1>6, <2>1, Zenon DEF InsertDevice
<1>7. ASSUME NEW t, tx' = [tx EXCEPT ![w] = t], t.op = old.op, t.user = old.user, t.device = old.device,
             UNCHANGED devices, old.op = "authorize" => Room(devices, old)
      PROVE  CapInv'
  BY <1>0, <1>7, QuietCap, Zenon DEF Placing, Room
<1>8. CASE MissDevice(w)
  <2> DEFINE t == [old EXCEPT !.pc = "insertDevice"]
  <2>1. t.op = old.op /\ t.user = old.user /\ t.device = old.device
    BY <1>0, Zenon DEF Transaction
  <2>2. tx' = [tx EXCEPT ![w] = t] /\ UNCHANGED devices
    BY <1>0, <1>8, ZenonT(40) DEF MissDevice, tables, TypeOK
  <2> HIDE DEF t
  <2> QED BY <1>0, <1>7, <1>8, <2>1, <2>2, AdmittedRoom, ZenonT(40) DEF MissDevice, Granted
<1>9. CASE KeyUser(w)
  <2>0. PICK F : /\ UNCHANGED tables
                 /\ tx' = [tx EXCEPT ![w].pc = After(tx[w].op, "keyUser"), ![w].holds = @ \cup {"userK"}, ![w].fresh = F]
    BY <1>9, Zenon DEF KeyUser
  <2> DEFINE t == [old EXCEPT !.pc = After(old.op, "keyUser"), !.holds = @ \cup {"userK"}, !.fresh = F]
  <2>1. t.op = old.op /\ t.user = old.user /\ t.device = old.device
    BY <1>0, Zenon DEF Transaction
  <2>2. tx' = [tx EXCEPT ![w] = t] /\ UNCHANGED devices
    BY <1>0, <2>0, Zenon DEF tables, TypeOK
  <2>3. old.op = "authorize" => Room(devices, old)
    BY <1>9, Zenon DEF KeyUser, Granted, CapInv, Placing
  <2> HIDE DEF t
  <2> QED BY <1>7, <2>1, <2>2, <2>3, Zenon
<1>10. ASSUME old.op # "authorize", UNCHANGED devices, NEW t, tx' = [tx EXCEPT ![w] = t], t.op = old.op PROVE CapInv'
  BY <1>0, <1>10, QuietCap, ZenonT(40) DEF Placing
<1>11. CASE ReadForRotate(w)
  <2>1. old.op # "authorize"
    BY <1>0, <1>1, <1>11, ZenonT(40) DEF ReadForRotate
  <2> DEFINE t == [old EXCEPT !.pc = After(old.op, "read"),
                              !.seen = users[old.user] = "active" /\ devices[old.device].status = "active"]
  <2>2. tx' = [tx EXCEPT ![w] = t] /\ UNCHANGED devices
    BY <1>0, <1>11, Zenon DEF ReadForRotate, tables, TypeOK
  <2>3. t.op = old.op
    BY <1>0, ZenonT(40) DEF Transaction
  <2> HIDE DEF t
  <2> QED BY <1>10, <2>1, <2>2, <2>3, Zenon
<1>12. CASE DecideRotation(w)
  <2>1. old.op # "authorize" /\ UNCHANGED devices
    BY <1>12, Zenon DEF DecideRotation, tables
  <2>2. PICK plan, pc : tx' = [tx EXCEPT ![w].pc = pc, ![w].plan = plan, ![w].holds = @ \cup {"source"}]
    BY <1>12, Zenon DEF DecideRotation
  <2> DEFINE t == [old EXCEPT !.pc = pc, !.plan = plan, !.holds = @ \cup {"source"}]
  <2>3. tx' = [tx EXCEPT ![w] = t]
    BY <1>0, <2>2, ZenonT(40) DEF TypeOK
  <2>4. t.op = old.op
    BY <1>0, Zenon DEF Transaction
  <2> HIDE DEF t
  <2> QED BY <1>10, <2>1, <2>3, <2>4, Zenon
<1>13. CASE Snapshot(w)
  <2>1. old.op # "authorize"
    BY <1>0, <1>1, <1>13, ZenonT(40) DEF Snapshot
  <2> DEFINE t == [old EXCEPT !.pc = "sweep", !.todo = Scope(old)]
  <2>2. tx' = [tx EXCEPT ![w] = t] /\ UNCHANGED devices
    BY <1>0, <1>13, Zenon DEF Snapshot, tables, TypeOK
  <2>3. t.op = old.op
    BY <1>0, ZenonT(40) DEF Transaction
  <2> HIDE DEF t
  <2> QED BY <1>10, <2>1, <2>2, <2>3, Zenon
<1>14. CASE Sweep(w)
  <2>1. old.op # "authorize"
    BY <1>0, <1>1, <1>14, Zenon DEF Sweep
  <2>2. PICK s : tx' = [tx EXCEPT ![w].todo = @ \ {s}, ![w].done = @ \cup {s}]
    BY <1>14, Zenon DEF Sweep
  <2> DEFINE t == [old EXCEPT !.todo = @ \ {s}, !.done = @ \cup {s}]
  <2>3. tx' = [tx EXCEPT ![w] = t] /\ UNCHANGED devices
    BY <1>0, <1>14, <2>2, Zenon DEF Sweep, tables, TypeOK
  <2>4. t.op = old.op
    BY <1>0, Zenon DEF Transaction
  <2> HIDE DEF t
  <2> QED BY <1>10, <2>1, <2>3, <2>4, Zenon
<1> QED BY <1>3, <1>4, <1>5, <1>6, <1>8, <1>9, <1>11, <1>12, <1>13, <1>14, Zenon DEF Statement

LEMMA AuthorizeCap ==
    ASSUME IInv, CapInv, NEW w \in Worker, CommitAuthorize(w)
    PROVE  CapInv'
<1> DEFINE u == tx[w].user
           d == tx[w].device
<1>0. TypeOK /\ u \in User /\ d \in Device /\ Room(devices, tx[w])
  BY Zenon DEF IInv, TypeOK, Transaction, CommitAuthorize, CapInv, Placing
<1>1. devices' = [devices EXCEPT ![d] = [owner |-> u, status |-> "active"]] /\ End(w)
  BY Zenon DEF CommitAuthorize
<1>2. \A e \in Device : devices'[e] = IF e = d THEN [owner |-> u, status |-> "active"] ELSE devices[e]
  BY <1>0, <1>1, Zenon DEF TypeOK
<1>3. /\ Owned(devices', u) \subseteq Owned(devices, u) \cup {d}
      /\ \A x : x # u => Owned(devices', x) \subseteq Owned(devices, x)
  BY <1>2 DEF Owned
<1>4. \A v \in Worker : tx'[v] = IF v = w THEN Idle ELSE tx[v]
  BY <1>0, <1>1, Zenon DEF End, TypeOK
<1>5. ~Placing(Idle)
  BY Zenon DEF Placing, Idle
<1>6. \A v \in Worker \ {w} : Placing(tx[v]) => tx[v].user # u
  <2> SUFFICES ASSUME NEW v \in Worker \ {w}, Placing(tx[v]) PROVE tx[v].user # u
    BY Zenon
  <2>1. LocksHeld(tx[v]) /\ LocksHeld(tx[w]) /\ Compatible(tx[v], tx[w])
    BY Zenon DEF IInv
  <2>2. "authorize" \in AdvisoryOps
    BY Zenon DEF AdvisoryOps, Ops
  <2>3. tx[w].op = "authorize" /\ tx[w].pc = "commit"
    BY Zenon DEF CommitAuthorize
  <2>4. "advisory" \in tx[v].holds /\ "advisory" \in tx[w].holds
    BY <2>1, <2>2, <2>3, Zenon DEF LocksHeld, Placing
  <2> QED BY <2>1, <2>4, Zenon DEF Compatible
<1> HIDE DEF u, d
<1>7. Cardinality(Owned(devices', u)) <= ActiveLimit
  <2> DEFINE S == Owned(devices, u)
             T == Owned(devices', u)
  <2>1. IsFiniteSet(S) /\ Cardinality(S) \in Nat /\ Cardinality(S) <= ActiveLimit /\ ActiveLimit \in Nat
    BY <1>0, OwnedCount, LimitIsNat, Zenon DEF CapInv
  <2>2. d \in S \/ Cardinality(S) < ActiveLimit
    BY <1>0, Zenon DEF Room, u, d
  <2>3. T \in SUBSET (S \cup {d})
    BY <1>3, Zenon
  <2> HIDE DEF S, T
  <2>4. IsFiniteSet(S \cup {d}) /\ Cardinality(S \cup {d}) <= ActiveLimit /\ Cardinality(S \cup {d}) \in Nat
    BY <2>1, <2>2, FS_AddElement
  <2>5. Cardinality(T) \in Nat /\ Cardinality(T) <= Cardinality(S \cup {d})
    BY <2>3, <2>4, FS_Subset, FS_CardinalityType, Zenon
  <2>6. Cardinality(T) <= ActiveLimit
    BY <2>1, <2>4, <2>5
  <2> QED BY <2>6, Zenon DEF T
<1>8. \A x \in User : x # u => Cardinality(Owned(devices', x)) <= ActiveLimit
  BY <1>3, FewerOwned, Zenon DEF CapInv
<1>9. ASSUME NEW v \in Worker, Placing(tx'[v]) PROVE Room(devices', tx'[v])
  <2>1. tx'[v] = tx[v] /\ tx[v].user \in User /\ Room(devices, tx[v]) /\ tx[v].user # u
    BY <1>0, <1>4, <1>5, <1>6, <1>9, ZenonT(40) DEF CapInv, TypeOK, Transaction
  <2>2. Cardinality(Owned(devices, tx[v].user)) <= ActiveLimit
    BY <2>1, Zenon DEF CapInv
  <2> QED BY <1>3, <2>1, <2>2, RoomStays, Zenon
<1> QED BY <1>7, <1>8, <1>9, Zenon DEF CapInv

LEMMA NextCap == IInv /\ CapInv /\ [Next]_vars => CapInv'
<1> SUFFICES ASSUME IInv, CapInv, [Next]_vars PROVE CapInv'
  BY Zenon
<1>0. TypeOK
  BY Zenon DEF IInv
<1>1. ASSUME UNCHANGED <<devices, tx>> PROVE CapInv'
  BY <1>1, Zenon DEF CapInv
<1>2. ASSUME NEW w \in Worker, End(w), UNCHANGED devices PROVE CapInv'
  <2>1. \A u : Owned(devices', u) \subseteq Owned(devices, u)
    BY <1>2, Zenon
  <2> QED BY <1>0, <1>2, <2>1, ShrinkCap, Zenon
<1>3. ASSUME NEW w \in Worker, CommitRevocation(w) \/ CommitFinalize(w) PROVE CapInv'
  <2>1. End(w) /\ \A d \in Device : devices'[d] = devices[d] \/ devices'[d].status # "active"
    <3>1. CASE CommitRevocation(w)
      <4>1. End(w) /\ devices' = [d \in Device |-> IF d \in RevokedDevices(tx[w]) THEN [devices[d] EXCEPT !.status = "revoked"]
                                                  ELSE devices[d]]
        BY <3>1, Zenon DEF CommitRevocation
      <4> QED BY <1>0, <4>1, Zenon DEF TypeOK
    <3>2. CASE CommitFinalize(w)
      <4>1. End(w) /\ devices' = [d \in Device |-> IF d \in tx[w].devs THEN [devices[d] EXCEPT !.status = "absent"]
                                                  ELSE devices[d]]
        BY <3>2, Zenon DEF CommitFinalize
      <4> QED BY <1>0, <4>1, Zenon DEF TypeOK
    <3> QED BY <1>3, <3>1, <3>2, ZenonT(40)
  <2>2. \A u : Owned(devices', u) \subseteq Owned(devices, u)
    BY <2>1, Zenon DEF Owned
  <2> QED BY <1>0, <2>1, <2>2, ShrinkCap, Zenon
<1>4. ASSUME NEW w \in Worker, CommitRotate(w) PROVE CapInv'
  <2> DEFINE t == [Idle EXCEPT !.op = "refresh", !.pc = "issue", !.user = tx[w].user, !.device = tx[w].device,
                               !.source = tx[w].source]
  <2>1. tx' = [tx EXCEPT ![w] = t] /\ UNCHANGED devices
    BY <1>4, Zenon DEF CommitRotate
  <2>2. t.op = "refresh"
    BY Zenon DEF Idle
  <2> HIDE DEF t
  <2> QED BY <1>0, <2>1, <2>2, QuietCap, Zenon DEF Placing
<1>5. ASSUME NEW w \in Worker, IssueFails(w) PROVE CapInv'
  <2> DEFINE t == [tx[w] EXCEPT !.op = "revoke_family", !.pc = "snapshot"]
  <2>1. tx' = [tx EXCEPT ![w] = t] /\ UNCHANGED devices
    BY <1>0, <1>5, Zenon DEF IssueFails, tables, TypeOK
  <2>2. t.op = "revoke_family"
    BY <1>0, Zenon DEF TypeOK, Transaction
  <2> HIDE DEF t
  <2> QED BY <1>0, <2>1, <2>2, QuietCap, Zenon DEF Placing
<1>6. ASSUME NEW w \in Worker, CommitLift(w) \/ IssueEntitlement(w) \/ Reject(w) \/ AbortDeadlocked(w) \/ Crash(w)
      PROVE  CapInv'
  <2>1. End(w) /\ UNCHANGED devices
    BY <1>6, Zenon DEF CommitLift, IssueEntitlement, Reject, AbortDeadlocked, Crash, tables
  <2> QED BY <1>2, <2>1, Zenon
<1>7. \A s, u : Expire(s) \/ CloseWindow(u) => UNCHANGED <<devices, tx>>
  BY Zenon DEF Expire, CloseWindow
<1>8. UNCHANGED vars => UNCHANGED <<devices, tx>>
  BY ZenonT(40) DEF vars
<1>9. ASSUME NEW w \in Worker, Step(w) PROVE CapInv'
  BY <1>3, <1>4, <1>5, <1>6, <1>9, StatementCap, AuthorizeCap, Zenon DEF Step, Commit
<1> QED BY <1>0, <1>1, <1>6, <1>7, <1>8, <1>9, RequestCap, Zenon DEF Next

\* No account ever has more active devices than its limit, although each
\* authorization counts them some statements before the device becomes active
\* (device.AuthorizeInTx, hasCapacity).
THEOREM DevicesWithinLimit == Spec => []ActiveDevicesWithinLimit
<1>1. Init => CapInv
  <2> SUFFICES ASSUME Init PROVE CapInv
    BY Zenon
  <2>1. \A u : Owned(devices, u) = {}
    BY Zenon DEF Init, Owned
  <2>2. \A w \in Worker : ~Placing(tx[w])
    BY Zenon DEF Init, Idle, Placing
  <2> QED BY <2>1, <2>2, FS_EmptySet, LimitIsNat DEF CapInv
<1>2. TypeOK /\ CapInv => ActiveDevicesWithinLimit
  BY DEF CapInv, ActiveDevicesWithinLimit, Active, Owned, TypeOK
<1>3. IInv => TypeOK
  BY Zenon DEF IInv
<1> QED BY <1>1, <1>2, <1>3, NextCap, Invariance, PTL DEF Spec
=============================================================================
