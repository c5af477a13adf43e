---------------------------- MODULE RequestProofs ----------------------------
(***************************************************************************)
(* Theorems about what a request meets, each for every value of its        *)
(* constants: AccessAuthentication, the check of an access token;          *)
(* Verification, codes sent to a phone or an address; and Paging, lists    *)
(* that are read page by page.  They share no state.                       *)
(***************************************************************************)
EXTENDS AccessAuthentication, Verification, Paging, TLAPS

-----------------------------------------------------------------------------
(* Access tokens *)

\* What a request in flight knows stays true: its session exists; one that had
\* ended still has; PostgreSQL's answer was yes only to a request in time and no
\* only of an ended session.
Known(q) ==
    q.pc # "idle" =>
        /\ access[q.session] # "unissued"
        /\ q.late => access[q.session] = "ended"
        /\ q.pc = "writeCache" => IF q.active THEN ~q.late ELSE access[q.session] = "ended"
        /\ q.pc = "granted" => ~q.late

AccessInv ==
    /\ AccessTypeOK /\ CachedRevocationIsReal
    /\ \A s \in Session : token[s] # "none" => access[s] # "unissued"
    /\ \A s \in lapsed : access[s] = "ended"
    /\ \A r \in Request : Known(req[r])

\* A step that changes one request record keeps the invariant when the new
\* record is known to be right.
LEMMA OneRequest ==
    ASSUME AccessInv, NEW r \in Request, NEW q \in RequestState,
           req' = [req EXCEPT ![r] = q], Known(q), UNCHANGED <<access, lapsed, token>>,
           cache' \in [Session -> {"none", "active", "revoked"}], CachedRevocationIsReal'
    PROVE  AccessInv'
<1>1. AccessTypeOK'
  BY Zenon DEF AccessInv, AccessTypeOK
<1>2. ASSUME NEW x \in Request PROVE Known(req[x])'
  <2>1. req'[x] = IF x = r THEN q ELSE req[x]
    BY Zenon DEF AccessInv, AccessTypeOK
  <2> QED BY <2>1 DEF Known, AccessInv
<1> QED BY <1>1, <1>2, Zenon DEF AccessInv

\* Before the first token is signed the invariant holds.
LEMMA InitAccessInv == AccessInit => AccessInv
<1> SUFFICES ASSUME AccessInit PROVE AccessInv
  BY Zenon
<1>1. \A r \in Request : \E s \in Session :
         req[r] = [pc |-> "idle", session |-> s, late |-> FALSE, active |-> FALSE]
  BY Zenon DEF AccessInit
<1>2. AccessTypeOK
  <2>1. \A s \in Session :
          [pc |-> "idle", session |-> s, late |-> FALSE, active |-> FALSE] \in RequestState
    BY Zenon DEF RequestState
  <2>2. \A r \in Request : req[r] \in RequestState
    BY Zenon, <2>1, <1>1
  <2>3. req \in [Request -> RequestState]
    BY Zenon, <2>2 DEF AccessInit
  <2> QED BY <2>3, Zenon DEF AccessInit, AccessTypeOK, Db!Init
<1> QED BY <1>1, <1>2 DEF AccessInit, AccessInv, CachedRevocationIsReal, Known

\* Every step of a request, a session or the cache keeps the invariant.
LEMMA NextAccessInv == AccessInv /\ [AccessNext]_accessVars => AccessInv'
<1> SUFFICES ASSUME AccessInv, [AccessNext]_accessVars PROVE AccessInv'
  BY Zenon
<1>t. /\ req \in [Request -> RequestState] /\ cache \in [Session -> {"none", "active", "revoked"}]
      /\ \A r \in Request : Known(req[r])
  BY Zenon DEF AccessInv, AccessTypeOK
<1>1. ASSUME NEW r \in Request, NEW s \in Session, VerifyToken(r, s) PROVE AccessInv'
  <2> DEFINE q == [pc |-> "readCache", session |-> s, late |-> access[s] = "ended",
                   active |-> FALSE]
  <2>1. q \in RequestState /\ Known(q)
    BY Zenon, <1>1 DEF VerifyToken, RequestState, Known, AccessInv
  <2> QED BY Zenon, <2>1, <1>1, OneRequest DEF VerifyToken, AccessInv, AccessTypeOK, CachedRevocationIsReal
<1>2. ASSUME NEW r \in Request, ReadCache(r) PROVE AccessInv'
  <2>1. PICK q : q = [req[r] EXCEPT !.pc =
                        IF cache[req[r].session] = "revoked" THEN "refused" ELSE "check"]
    BY Zenon
  <2>2. q \in RequestState /\ Known(q) /\ req' = [req EXCEPT ![r] = q]
    BY <2>1, <1>t, <1>2, Zenon DEF ReadCache, RequestState, Known
  <2> QED BY Zenon, <2>2, <1>2, OneRequest DEF ReadCache, AccessInv, AccessTypeOK, CachedRevocationIsReal
<1>3. ASSUME NEW r \in Request, CheckDatabase(r) PROVE AccessInv'
  <2>1. PICK q : q = [req[r] EXCEPT !.pc = "writeCache", !.active = AccessActive(r)]
    BY Zenon
  <2>2. AccessActive(r) \in BOOLEAN /\ req[r] \in RequestState /\ req[r].pc = "check"
    BY <1>t, <1>3, Zenon DEF AccessActive, CheckDatabase
  <2>3. q \in RequestState /\ req' = [req EXCEPT ![r] = q]
    BY Zenon, <2>1, <2>2, <1>3 DEF CheckDatabase, RequestState
  <2>4. Known(q)
    <3>1. q.session = req[r].session /\ q.late = req[r].late /\ q.active = AccessActive(r)
          /\ q.pc = "writeCache"
      BY <2>1, <2>2, Zenon DEF RequestState
    <3>2. access[req[r].session] # "unissued" /\ (req[r].late => access[req[r].session] = "ended")
      BY <1>t, <2>2, Zenon DEF Known
    <3>3. req[r].session \in Session /\ access[req[r].session] \in {"unissued", "active", "ended"}
      BY <2>2, Zenon DEF AccessInv, AccessTypeOK, RequestState
    <3> QED BY <3>1, <3>2, <3>3, Zenon DEF Known, AccessActive
  <2> QED BY Zenon, <2>3, <2>4, <1>3, OneRequest DEF CheckDatabase, AccessInv, AccessTypeOK, CachedRevocationIsReal
<1>4. ASSUME NEW r \in Request, WriteCache(r) \/ Unavailable(r) PROVE AccessInv'
  <2>1. PICK pc \in {"granted", "refused"} :
           /\ req' = [req EXCEPT ![r].pc = pc]
           /\ pc = "granted" => req[r].pc = "writeCache" /\ req[r].active
    BY <1>4, Zenon DEF WriteCache, Unavailable
  <2>2. PICK q : q = [req[r] EXCEPT !.pc = pc]
    BY Zenon
  <2>3. /\ req[r] \in RequestState /\ req[r].pc # "idle" /\ Known(req[r])
        /\ UNCHANGED <<access, lapsed, token>>
    BY <1>t, <1>4, Zenon DEF WriteCache, Unavailable
  <2>4. q \in RequestState /\ Known(q) /\ req' = [req EXCEPT ![r] = q]
    BY <2>1, <2>2, <2>3, <1>t, Zenon DEF RequestState, Known
  <2>5. \/ cache' = cache
        \/ req[r].pc = "writeCache" /\ cache' = [cache EXCEPT ![req[r].session] = StatusOf(r)]
    BY <1>4, Zenon DEF WriteCache, Unavailable
  <2>6. /\ cache' \in [Session -> {"none", "active", "revoked"}]
        /\ \A s \in Session : cache'[s] = "revoked" =>
             \/ cache[s] = "revoked"
             \/ s = req[r].session /\ req[r].pc = "writeCache" /\ ~req[r].active
    BY <2>5, <1>t, Zenon DEF StatusOf
  <2>7. CachedRevocationIsReal'
    BY <2>3, <2>6, Zenon DEF CachedRevocationIsReal, AccessInv, Known
  <2> QED BY Zenon, <2>3, <2>4, <2>6, <2>7, OneRequest
<1>5. ASSUME NEW r \in Request, Answer(r) PROVE AccessInv'
  <2>1. PICK q : q = [req[r] EXCEPT !.pc = "idle"]
    BY Zenon
  <2>2. q \in RequestState /\ Known(q) /\ req' = [req EXCEPT ![r] = q]
    BY <2>1, <1>t, <1>5, ZenonT(40) DEF Answer, RequestState, Known
  <2> QED BY Zenon, <2>2, <1>5, OneRequest DEF Answer, AccessInv, AccessTypeOK, CachedRevocationIsReal
<1>6. CASE SessionStep
  <2>1. /\ access' \in [Session -> {"unissued", "active", "ended"}]
        /\ \A s \in Session : /\ access[s] # "unissued" => access'[s] # "unissued"
                              /\ access[s] = "ended" => access'[s] = "ended"
    BY <1>6 DEF SessionStep, Db!Next, Db!Issue, Db!End, AccessInv, AccessTypeOK
  <2>2. /\ UNCHANGED <<token, cache, req>> /\ lapsed' \subseteq Session
        /\ \A s \in lapsed' : s \in lapsed \/ access'[s] = "ended"
    BY <1>6, Zenon DEF SessionStep, AccessInv, AccessTypeOK
  <2>3. ASSUME NEW r \in Request PROVE Known(req[r])'
    <3>1. req[r].session \in Session /\ Known(req[r])
      BY <1>t, Zenon DEF RequestState
    <3> QED BY <3>1, <2>1, <2>2, Zenon DEF Known
  <2>4. AccessTypeOK'
    BY <2>1, <2>2, Zenon DEF AccessInv, AccessTypeOK
  <2> QED BY <2>1, <2>2, <2>3, <2>4, Zenon DEF AccessInv, AccessTypeOK, CachedRevocationIsReal
<1>7. ASSUME NEW s \in Session, SignToken(s) \/ RevokeLapsed(s) \/ ExpireToken(s) \/ DropEntry(s)
      PROVE  AccessInv'
  <2>1. AccessTypeOK'
    BY <1>7, Zenon DEF SignToken, RevokeLapsed, ExpireToken, DropEntry, AccessInv, AccessTypeOK
  <2>2. \A r \in Request : Known(req[r])'
    BY <1>7, <1>t, Zenon DEF SignToken, RevokeLapsed, ExpireToken, DropEntry, Known
  <2>3. CachedRevocationIsReal'
    BY <1>7, Zenon DEF SignToken, RevokeLapsed, ExpireToken, DropEntry, AccessInv, AccessTypeOK,
       CachedRevocationIsReal
  <2> QED BY <2>1, <2>2, <2>3, <1>7, ZenonT(40)
          DEF SignToken, RevokeLapsed, ExpireToken, DropEntry, AccessInv, AccessTypeOK
<1>8. CASE UNCHANGED accessVars
  BY <1>8, Zenon DEF accessVars, AccessInv, AccessTypeOK, CachedRevocationIsReal, Known
<1> QED BY <1>1, <1>2, <1>3, <1>4, <1>5, <1>6, <1>7, <1>8, Zenon DEF AccessNext

\* The inductive invariant: what a request in flight remembers of its session stays true.
THEOREM AccessInvariance == AccessSpec => []AccessInv
BY InitAccessInv, NextAccessInv, PTL DEF AccessSpec

\* Every reachable state is well typed; a status entry in Redis is one of the two
\* values that Authenticate writes.
THEOREM AccessTypeCorrect == AccessSpec => []AccessTypeOK
<1>1. AccessInv => AccessTypeOK
  BY Zenon DEF AccessInv
<1> QED BY <1>1, AccessInvariance, PTL

\* A request that arrives after its session has ended is never granted.
THEOREM RevocationIsImmediate == AccessSpec => []EndedSessionsAreRefused
<1>1. AccessInv => EndedSessionsAreRefused
  BY Zenon DEF AccessInv, Known, EndedSessionsAreRefused
<1> QED BY <1>1, AccessInvariance, PTL

\* Redis says revoked only of sessions that have ended.
THEOREM RevokedEntriesAreReal == AccessSpec => []CachedRevocationIsReal
<1>1. AccessInv => CachedRevocationIsReal
  BY Zenon DEF AccessInv
<1> QED BY <1>1, AccessInvariance, PTL

-----------------------------------------------------------------------------
(* What the arguments need of finite sets and of the order of numbers is a  *)
(* hypothesis of the lemmas, which the library's theorems discharge         *)
(* (CountingHolds).                                                         *)

Smaller(T, S) ==
    IsFiniteSet(T) /\ Cardinality(T) <= Cardinality(S) /\ (Cardinality(S) = Cardinality(T) => S = T)

Counting ==
    /\ Cardinality({}) = 0
    /\ \A S : IsFiniteSet(S) => Cardinality(S) \in Nat
    /\ \A S : IsFiniteSet(S) => \A T \in SUBSET S : Smaller(T, S)
    /\ \A S, x : IsFiniteSet(S) /\ x \notin S => Cardinality(S \cup {x}) = Cardinality(S) + 1
    /\ \A T \in SUBSET Nat : T # {} => \E x \in T : \A y \in T : x <= y

LEMMA NoneCounted == ASSUME Counting PROVE Cardinality({}) = 0
BY Zenon DEF Counting

LEMMA CountsNatural == ASSUME Counting, NEW S, IsFiniteSet(S) PROVE Cardinality(S) \in Nat
BY Zenon DEF Counting

LEMMA PartsFinite ==
    ASSUME Counting, NEW S, IsFiniteSet(S), NEW T \in SUBSET S
    PROVE  IsFiniteSet(T) /\ Cardinality(T) <= Cardinality(S) /\ (Cardinality(S) = Cardinality(T) => S = T)
<1>1. Smaller(T, S)
  BY Zenon DEF Counting
<1> QED BY <1>1, Zenon DEF Smaller

LEMMA AddedCounted ==
    ASSUME Counting, NEW S, IsFiniteSet(S), NEW x, x \notin S
    PROVE  Cardinality(S \cup {x}) = Cardinality(S) + 1
BY Zenon DEF Counting

LEMMA Least ==
    ASSUME Counting, NEW T \in SUBSET Nat, T # {}
    PROVE  \E x \in T : \A y \in T : x <= y
BY Zenon DEF Counting

-----------------------------------------------------------------------------
(* Verification codes *)

Hist == [wrong : Nat, accepted : Nat, used : Nat]

\* A row is inserted by the request that delivered its code and by no other,
\* only an open row is compared, and the spent mark stands for the one use of
\* the receipt.
CodeInv(row, h, pc) ==
    /\ row.state # "absent" => pc \in {"release", "done"}
    /\ row.failed = h.wrong
    /\ row.state \in {"absent", "open", "consumed"} => row.failed < MaxFailures
    /\ row.state \in {"absent", "open", "invalidated"} => h.accepted = 0
    /\ row.state = "consumed" => h.accepted = 1
    /\ row.spent => h.accepted = 1
    /\ h.accepted <= 1
    /\ row.spent => h.used = 1
    /\ ~row.spent => h.used = 0

\* Consume is called for a challenge that Latest returned.
Chosen(q) == q.pc \in {"select", "compare"} => q.latest \in Send

IInv ==
    /\ TypeOK
    /\ \A c \in Send : CodeInv(challenges[c], history[c], send[c].pc)
    /\ \A v \in Verify : Chosen(verify[v])

\* A step of one Send request that leaves the table alone.
LEMMA SendStep ==
    ASSUME IInv, NEW s \in Send, NEW q \in SendState, send' = [send EXCEPT ![s] = q],
           challenges[s].state # "absent" => q.pc \in {"release", "done"},
           lease' \in [Purpose \X Key -> Send \cup {"free"}],
           window' \in 0..MaxClock + ResendDelay,
           UNCHANGED <<clock, challenges, verify, receipts, history>>
    PROVE  IInv'
<1>1. TypeOK'
  BY Zenon DEF IInv, TypeOK
<1>2. ASSUME NEW c \in Send PROVE CodeInv(challenges[c], history[c], send[c].pc)'
  <2>1. send'[c] = IF c = s THEN q ELSE send[c]
    BY Zenon DEF IInv, TypeOK
  <2>2. CodeInv(challenges[c], history[c], send[c].pc)
    BY Zenon DEF IInv
  <2> QED BY <2>1, <2>2, Zenon DEF CodeInv
<1>3. \A v \in Verify : Chosen(verify'[v])
  BY Zenon DEF IInv, Chosen
<1> QED BY <1>1, <1>2, <1>3, Zenon DEF IInv

\* A step of one Verify request that leaves the table alone.
LEMMA VerifyStep ==
    ASSUME IInv, NEW v \in Verify, NEW q \in VerifyState, verify' = [verify EXCEPT ![v] = q], Chosen(q),
           UNCHANGED <<clock, challenges, lease, window, send, receipts, history>>
    PROVE  IInv'
<1>1. TypeOK'
  BY Zenon DEF IInv, TypeOK
<1>2. ASSUME NEW x \in Verify PROVE Chosen(verify[x])'
  <2>1. verify'[x] = IF x = v THEN q ELSE verify[x]
    BY Zenon DEF IInv, TypeOK
  <2> QED BY <2>1, Zenon DEF IInv, Chosen
<1> QED BY <1>1, <1>2, Zenon DEF IInv

\* A step that changes one row and its history.
LEMMA RowStep ==
    ASSUME IInv, NEW c \in Send, NEW row \in Row, NEW h \in Hist,
           challenges' = [challenges EXCEPT ![c] = row], history' = [history EXCEPT ![c] = h],
           send' \in [Send -> SendState], \A x \in Send \ {c} : send'[x] = send[x],
           CodeInv(row, h, send'[c].pc),
           verify' \in [Verify -> VerifyState], \A v \in Verify : Chosen(verify'[v]),
           receipts' \subseteq Send, UNCHANGED <<clock, lease, window>>
    PROVE  IInv'
<1>1. challenges' \in [Send -> Row] /\ history' \in [Send -> Hist]
  BY Zenon DEF IInv, TypeOK, Hist
<1>2. TypeOK'
  BY <1>1, Zenon DEF IInv, TypeOK, Hist
<1>3. ASSUME NEW x \in Send PROVE CodeInv(challenges[x], history[x], send[x].pc)'
  <2>1. CASE x = c
    <3>1. challenges'[x] = row /\ history'[x] = h
      BY <2>1, Zenon DEF IInv, TypeOK
    <3> QED BY <3>1, <2>1, Zenon DEF CodeInv
  <2>2. CASE x # c
    <3>1. challenges'[x] = challenges[x] /\ history'[x] = history[x] /\ send'[x] = send[x]
      BY <2>2, Zenon DEF IInv, TypeOK
    <3>2. CodeInv(challenges[x], history[x], send[x].pc)
      BY Zenon DEF IInv
    <3> QED BY <3>1, <3>2, Zenon DEF CodeInv
  <2> QED BY <2>1, <2>2, Zenon
<1> QED BY <1>2, <1>3, Zenon DEF IInv

\* A request that has not begun.
LEMMA Fresh ==
    ASSUME Init, NEW s \in Send
    PROVE  /\ send[s].pc = "new" /\ send[s].at = -1 /\ ~send[s].delivered /\ ~send[s].failed
           /\ ~send[s].lost /\ challenges[s].state = "absent"
<1>1. PICK p \in Purpose, k \in Key :
          send[s] = [pc |-> "new", purpose |-> p, key |-> k, now |-> 0, stamp |-> 0, at |-> -1,
                     delivered |-> FALSE, failed |-> FALSE, lost |-> FALSE]
  BY DEF Init
<1>2. challenges[s].state = "absent"
  BY Zenon DEF Init
<1> QED BY <1>1, <1>2

\* The empty table satisfies the invariant.
LEMMA InitInv == Init => IInv
<1> SUFFICES ASSUME Init PROVE IInv
  BY Zenon
<1> DEFINE NewSend(p, k) == [pc |-> "new", purpose |-> p, key |-> k, now |-> 0, stamp |-> 0,
                             at |-> -1, delivered |-> FALSE, failed |-> FALSE, lost |-> FALSE]
<1> DEFINE NewVerify(p, g) == [pc |-> "new", purpose |-> p, guess |-> g, now |-> 0,
                               latest |-> "none", rows |-> {}]
<1>1. \A p \in Purpose, k \in Key : NewSend(p, k) \in SendState
  BY Parameters DEF SendState
<1>2. \A p \in Purpose, g \in Send \cup {"wrong"} : NewVerify(p, g) \in VerifyState
  BY Parameters DEF VerifyState
<1>3. \A s \in Send : send[s] \in SendState
  <2>1. \A s \in Send : \E p \in Purpose, k \in Key : send[s] = NewSend(p, k)
    BY DEF Init
  <2> QED BY Zenon, <2>1, <1>1
<1>4. \A v \in Verify : verify[v] \in VerifyState
  <2>1. \A v \in Verify : \E p \in Purpose, g \in Send \cup {"wrong"} : verify[v] = NewVerify(p, g)
    BY DEF Init
  <2> QED BY Zenon, <2>1, <1>2
<1>5. send \in [Send -> SendState]
  <2>1. send = [s \in Send |-> send[s]]
    BY DEF Init
  <2> QED BY Zenon, <2>1, <1>3
<1>6. verify \in [Verify -> VerifyState]
  <2>1. verify = [v \in Verify |-> verify[v]]
    BY SMTT(60) DEF Init
  <2> QED BY Zenon, <2>1, <1>4
<1>7. TypeOK
  BY <1>5, <1>6, Parameters DEF Init, TypeOK, Row
<1>8. \A v \in Verify : verify[v].pc = "new"
  BY DEF Init
<1> QED BY <1>7, <1>8, Parameters DEF Init, IInv, CodeInv, Chosen

\* The order of creation is a number.
LEMMA StampType ==
    ASSUME Counting
    PROVE  Cardinality({x \in Send : send[x].stamp > 0}) + 1 \in Nat
<1>1. IsFiniteSet({x \in Send : send[x].stamp > 0})
  BY PartsFinite, Parameters, Zenon
<1> QED BY <1>1, CountsNatural

\* The steps of a Send request, other than the insert.
LEMMA SendInv ==
    ASSUME Counting, IInv, NEW s \in Send,
           \/ BeginSend(s) \/ Acquire(s) \/ Recheck(s) \/ Cooldown(s) \/ Admit(s) \/ Refuse(s)
           \/ Deliver(s) \/ Release(s) \/ LeaseExpires(s) \/ Crash(s)
    PROVE  IInv'
<1> DEFINE q == send'[s]
<1>t. /\ send \in [Send -> SendState] /\ send[s] \in SendState
      /\ lease \in [Purpose \X Key -> Send \cup {"free"}]
      /\ clock \in 0..MaxClock /\ window \in 0..MaxClock + ResendDelay
      /\ Lease(s) \in Purpose \X Key
  BY Zenon DEF IInv, TypeOK, Lease, SendState
<1>i. challenges[s].state # "absent" => send[s].pc \in {"release", "done"}
  BY Zenon DEF IInv, CodeInv
<1>1. /\ q \in SendState /\ send' = [send EXCEPT ![s] = q]
      /\ send[s].pc \in {"release", "done"} => q.pc \in {"release", "done"}
      /\ challenges[s].state # "absent" => q.pc \in {"release", "done"}
  <2>1. CASE BeginSend(s) \/ Recheck(s)
    BY <2>1, <1>t, <1>i DEF BeginSend, Recheck, Goto, SendState
  <2>2. CASE Acquire(s)
    BY <2>2, <1>t, <1>i DEF Acquire, Goto, SendState
  <2>3. CASE Cooldown(s)
    <3>1. PICK n \in Nat, next \in {"release", "admit"} :
            send' = [send EXCEPT ![s].pc = next, ![s].now = clock, ![s].stamp = n]
      BY Zenon, <2>3, StampType DEF Cooldown
    <3>2. send[s].pc = "cooldown"
      BY Zenon, <2>3 DEF Cooldown
    <3> QED BY Zenon, <3>1, <3>2, <1>t, <1>i DEF SendState
  <2>4. CASE Admit(s)
    <3>1. send' = [send EXCEPT ![s].pc = "deliver", ![s].at = clock] /\ send[s].pc = "admit"
      BY <2>4, Zenon DEF Admit
    <3>2. clock \in -1..MaxClock
      BY <1>t, Parameters
    <3> QED BY ZenonT(60), <3>1, <3>2, <1>t, <1>i DEF SendState
  <2>5. CASE Refuse(s)
    BY <2>5, <1>t, <1>i, Zenon DEF Refuse, Goto, SendState
  <2>6. CASE Deliver(s)
    <3>1. PICK delivered, ok \in BOOLEAN :
            send' = [send EXCEPT ![s].pc = IF ok THEN "save" ELSE "release",
                                 ![s].delivered = delivered, ![s].failed = ~ok]
      BY Zenon, <2>6 DEF Deliver
    <3>2. send[s].pc = "deliver"
      BY Zenon, <2>6 DEF Deliver
    <3> QED BY Zenon, <3>1, <3>2, <1>t, <1>i DEF SendState
  <2>7. CASE Release(s)
    BY <2>7, <1>t, Zenon DEF Release, Goto, SendState
  <2>8. CASE LeaseExpires(s)
    <3>1. PICK b \in BOOLEAN : send' = [send EXCEPT ![s].lost = b]
      BY Zenon, <2>8 DEF LeaseExpires
    <3> QED BY <3>1, <1>t, <1>i, Zenon DEF SendState
  <2>9. CASE Crash(s)
    <3>1. PICK b \in BOOLEAN : send' = [send EXCEPT ![s].pc = "done", ![s].failed = b]
      BY Zenon, <2>9, <1>t DEF Crash, SendState
    <3> QED BY Zenon, <3>1, <1>t DEF SendState
  <2> QED BY <2>1, <2>2, <2>3, <2>4, <2>5, <2>6, <2>7, <2>8, <2>9, Zenon
<1>2. lease' \in [Purpose \X Key -> Send \cup {"free"}]
  BY Zenon, <1>t DEF BeginSend, Acquire, Recheck, Cooldown, Admit, Refuse, Deliver, Release,
              LeaseExpires, Crash
<1>3. window' \in 0..MaxClock + ResendDelay
  <2>1. window' = window \/ window' = clock + ResendDelay
    BY Zenon DEF BeginSend, Acquire, Recheck, Cooldown, Admit, Refuse, Deliver, Release,
                 LeaseExpires, Crash
  <2> QED BY <2>1, <1>t, Parameters
<1>4. UNCHANGED <<clock, challenges, verify, receipts, history>>
  BY Zenon DEF BeginSend, Acquire, Recheck, Cooldown, Admit, Refuse, Deliver, Release, LeaseExpires, Crash
<1> HIDE DEF q
<1> QED BY Zenon, <1>1, <1>2, <1>3, <1>4, SendStep

\* The insert: the row was absent, as the request had not finished.
LEMMA SaveInv ==
    ASSUME IInv, NEW s \in Send, SaveAfterDelivery(s)
    PROVE  IInv'
<1>t. /\ send \in [Send -> SendState] /\ send[s] \in SendState
      /\ challenges \in [Send -> Row] /\ history \in [Send -> Hist]
      /\ challenges[s] \in Row /\ history[s] \in Hist
  BY Zenon DEF IInv, TypeOK, Hist
<1>i. CodeInv(challenges[s], history[s], send[s].pc) /\ send[s].pc = "save"
  BY Zenon DEF IInv, SaveAfterDelivery
<1>1. CASE challenges' = [challenges EXCEPT ![s].state = "open"] /\ Goto(s, "release")
  <2> DEFINE row == [challenges[s] EXCEPT !.state = "open"]
  <2>1. row \in Row
    BY <1>t, Zenon DEF Row
  <2>2. challenges' = [challenges EXCEPT ![s] = row] /\ history' = [history EXCEPT ![s] = history[s]]
    BY <1>1, <1>t, Zenon DEF SaveAfterDelivery
  <2>3. /\ send' \in [Send -> SendState] /\ send'[s].pc = "release"
        /\ \A x \in Send \ {s} : send'[x] = send[x]
    BY <1>1, <1>t, Zenon DEF Goto, SendState
  <2>4. CodeInv(row, history[s], "release")
    BY <1>i, <1>t, Zenon DEF CodeInv, Row
  <2>5. /\ verify' \in [Verify -> VerifyState] /\ \A v \in Verify : Chosen(verify'[v])
        /\ receipts' \subseteq Send
        /\ UNCHANGED <<clock, lease, window>>
    BY Zenon DEF SaveAfterDelivery, IInv, TypeOK
  <2> HIDE DEF row
  <2> QED BY Zenon, <2>1, <2>2, <2>3, <2>4, <2>5, <1>t, RowStep
<1>2. CASE UNCHANGED challenges
  <2> DEFINE q == send'[s]
  <2>1. q \in SendState /\ send' = [send EXCEPT ![s] = q] /\ q.pc = "release"
    BY <1>2, <1>i, <1>t DEF SaveAfterDelivery, Goto, SendState, CodeInv
  <2>2. /\ lease' \in [Purpose \X Key -> Send \cup {"free"}]
        /\ window' \in 0..MaxClock + ResendDelay
        /\ UNCHANGED <<clock, challenges, verify, receipts, history>>
    BY <1>2, Zenon DEF SaveAfterDelivery, IInv, TypeOK
  <2> HIDE DEF q
  <2> QED BY Zenon, <2>1, <2>2, SendStep
<1> QED BY <1>1, <1>2, Zenon DEF SaveAfterDelivery

\* The steps of a Verify request that leave the table alone.
LEMMA VerifyInv ==
    ASSUME IInv, NEW v \in Verify,
           BeginVerify(v) \/ SelectChallenge(v) \/ VerifyUnavailable(v)
    PROVE  IInv'
<1> DEFINE q == verify'[v]
<1>t. verify \in [Verify -> VerifyState] /\ verify[v] \in VerifyState /\ clock \in 0..MaxClock
  BY Zenon DEF IInv, TypeOK
<1>i. Chosen(verify[v])
  BY Zenon DEF IInv
<1>1. q \in VerifyState /\ verify' = [verify EXCEPT ![v] = q] /\ Chosen(q)
  <2>1. CASE BeginVerify(v)
    <3>1. PICK c \in Send \cup {"none"}, next \in {"select", "done"} :
            /\ verify' = [verify EXCEPT ![v].pc = next, ![v].now = clock, ![v].latest = c]
            /\ next = "select" => c \in Send
      BY Zenon, <2>1 DEF BeginVerify, Newest, OfPurpose
    <3> QED BY Zenon, <3>1, <1>t DEF VerifyState, Chosen
  <2>2. CASE SelectChallenge(v)
    <3>1. PICK rows \in SUBSET Send : verify' = [verify EXCEPT ![v].pc = "compare", ![v].rows = rows]
      BY <2>2, Zenon DEF SelectChallenge, OfPurpose
    <3>2. verify[v].pc = "select"
      BY <2>2, Zenon DEF SelectChallenge
    <3> QED BY Zenon, <3>1, <3>2, <1>t, <1>i DEF VerifyState, Chosen
  <2>3. CASE VerifyUnavailable(v)
    BY Zenon, <2>3, <1>t DEF VerifyUnavailable, Answered, VerifyState, Chosen
  <2> QED BY Zenon, <2>1, <2>2, <2>3
<1>2. UNCHANGED <<clock, challenges, lease, window, send, receipts, history>>
  BY Zenon DEF BeginVerify, SelectChallenge, VerifyUnavailable
<1> HIDE DEF q
<1> QED BY Zenon, <1>1, <1>2, VerifyStep

\* Only the request's own answer, and rows that it may look at, change in verify.
LEMMA CompareInv ==
    ASSUME IInv, NEW v \in Verify, Compare(v)
    PROVE  IInv'
<1>t. /\ challenges \in [Send -> Row] /\ history \in [Send -> Hist] /\ send \in [Send -> SendState]
      /\ verify \in [Verify -> VerifyState] /\ verify[v] \in VerifyState
      /\ receipts \subseteq Send
  BY Zenon DEF IInv, TypeOK, Hist
<1>i. Chosen(verify[v]) /\ verify[v].pc = "compare" /\ \A x \in Verify : Chosen(verify[x])
  BY Zenon DEF IInv, Compare
<1>a. Answered(v) => /\ verify' \in [Verify -> VerifyState]
                     /\ \A x \in Verify : Chosen(verify'[x])
  <2> SUFFICES ASSUME Answered(v)
               PROVE  verify' \in [Verify -> VerifyState] /\ \A x \in Verify : Chosen(verify'[x])
    BY Zenon
  <2> DEFINE q == [verify[v] EXCEPT !.pc = "done", !.rows = {}]
  <2>1. q \in VerifyState /\ q.pc = "done"
    BY Zenon, <1>t DEF VerifyState
  <2>2. verify' = [verify EXCEPT ![v] = q]
    BY Zenon, <1>t DEF Answered
  <2> HIDE DEF q
  <2>3. verify' \in [Verify -> VerifyState]
    BY <2>1, <2>2, <1>t, Zenon
  <2>4. \A x \in Verify : verify'[x] = IF x = v THEN q ELSE verify[x]
    BY <2>2, <1>t, Zenon
  <2> QED BY <2>1, <2>3, <2>4, <1>i, Zenon DEF Chosen
<1>u. UNCHANGED <<clock, lease, window, send>>
  BY Zenon DEF Compare
<1>1. CASE UNCHANGED <<challenges, receipts, history>>
  <2> DEFINE q == verify'[v]
  <2>1. (\E c \in Send : verify' = [verify EXCEPT ![v].rows = @ \ {c}]) \/ Answered(v)
    BY <1>t, Zenon DEF Compare, Newest, VerifyState
  <2>2. q \in VerifyState /\ verify' = [verify EXCEPT ![v] = q] /\ Chosen(q)
    BY <2>1, <1>t, <1>i DEF Answered, VerifyState, Chosen
  <2> HIDE DEF q
  <2> QED BY Zenon, <2>2, <1>1, <1>u, VerifyStep
<1>2. ASSUME NEW c \in Send, Open(c, verify[v].now), Mismatch(c), Answered(v)
      PROVE  IInv'
  <2> DEFINE row == [challenges[c] EXCEPT !.failed = FailuresAfter(c),
                       !.state = IF FailuresAfter(c) >= MaxFailures THEN "invalidated" ELSE "open"]
  <2> DEFINE h == [history[c] EXCEPT !.wrong = @ + 1]
  <2>t. challenges[c] \in Row /\ history[c] \in Hist /\ challenges[c].state = "open"
    BY <1>2, <1>t, Zenon DEF Open
  <2>i. CodeInv(challenges[c], history[c], send[c].pc)
    BY Zenon DEF IInv
  <2>f. FailuresAfter(c) = challenges[c].failed + 1 /\ FailuresAfter(c) \in 0..MaxFailures
    BY <2>i, <2>t, Parameters DEF FailuresAfter, CodeInv, Row
  <2>1. row \in Row
    BY Zenon, <2>t, <2>f DEF Row
  <2>2. h \in Hist
    BY <2>t DEF Hist
  <2>3. challenges' = [challenges EXCEPT ![c] = row] /\ history' = [history EXCEPT ![c] = h]
    BY Zenon, <1>2, <1>t DEF Mismatch
  <2>4. CodeInv(row, h, send[c].pc)
    BY <2>i, <2>t, <2>f, Parameters DEF CodeInv, Row, Hist
  <2>5. receipts' \subseteq Send
    BY <1>2, <1>t, Zenon DEF Mismatch
  <2> HIDE DEF row, h
  <2>6. send' \in [Send -> SendState] /\ \A x \in Send : send'[x] = send[x]
    BY <1>t, <1>u, Zenon
  <2> QED BY Zenon, <2>1, <2>2, <2>3, <2>4, <2>5, <2>6, <1>a, <1>u, <1>2, RowStep
<1>3. ASSUME NEW c \in Send, c \in verify[v].rows, Open(c, verify[v].now), Match(v, c), Answered(v)
      PROVE  IInv'
  <2> DEFINE row == [challenges[c] EXCEPT !.state = "consumed", !.consumed_at = verify[v].now]
  <2> DEFINE h == [history[c] EXCEPT !.accepted = @ + 1]
  <2>t. challenges[c] \in Row /\ history[c] \in Hist /\ challenges[c].state = "open"
    BY <1>3, <1>t, Zenon DEF Open
  <2>i. CodeInv(challenges[c], history[c], send[c].pc)
    BY Zenon DEF IInv
  <2>1. row \in Row
    BY Zenon, <2>t, <1>t DEF Row, VerifyState
  <2>2. h \in Hist
    BY <2>t DEF Hist
  <2>3. challenges' = [challenges EXCEPT ![c] = row] /\ history' = [history EXCEPT ![c] = h]
    BY Zenon, <1>3, <1>t DEF Match
  <2>4. CodeInv(row, h, send[c].pc)
    BY <2>i, <2>t DEF CodeInv, Row, Hist
  <2>5. receipts' \subseteq Send
    BY Zenon, <1>3, <1>t, <1>i DEF Match, Chosen
  <2> HIDE DEF row, h
  <2>6. send' \in [Send -> SendState] /\ \A x \in Send : send'[x] = send[x]
    BY <1>t, <1>u, Zenon
  <2> QED BY Zenon, <2>1, <2>2, <2>3, <2>4, <2>5, <2>6, <1>a, <1>u, <1>3, RowStep
<1>4. verify[v].rows \subseteq Send
  BY <1>t, Zenon DEF VerifyState
<1> QED BY <1>1, <1>2, <1>3, <1>4, Zenon DEF Compare, Newest

\* The use of a receipt and the deletion of a row.
LEMMA RowInv ==
    ASSUME IInv, NEW c \in Send, SpendReceipt(c) \/ CleanUp(c)
    PROVE  IInv'
<1>t. /\ challenges \in [Send -> Row] /\ history \in [Send -> Hist]
      /\ challenges[c] \in Row /\ history[c] \in Hist
  BY Zenon DEF IInv, TypeOK, Hist
<1>i. CodeInv(challenges[c], history[c], send[c].pc)
  BY Zenon DEF IInv
<1>u. /\ send' \in [Send -> SendState] /\ \A x \in Send : send'[x] = send[x]
      /\ verify' \in [Verify -> VerifyState] /\ \A v \in Verify : Chosen(verify'[v])
      /\ receipts' \subseteq Send /\ UNCHANGED <<clock, lease, window>>
  BY Zenon DEF SpendReceipt, CleanUp, IInv, TypeOK
<1>1. CASE SpendReceipt(c)
  <2> DEFINE row == [challenges[c] EXCEPT !.spent = TRUE]
  <2> DEFINE h == [history[c] EXCEPT !.used = @ + 1]
  <2>s. challenges[c].state = "consumed" /\ ~challenges[c].spent
    BY Zenon, <1>1 DEF SpendReceipt, ReceiptAvailable
  <2>h. h \in Hist
    BY <1>t DEF Hist
  <2>1. row \in Row
    BY ZenonT(60), <1>t DEF Row
  <2>2. challenges' = [challenges EXCEPT ![c] = row] /\ history' = [history EXCEPT ![c] = h]
    BY <1>1, <1>t, Zenon DEF SpendReceipt
  <2>r. /\ row.state = "consumed" /\ row.failed = challenges[c].failed /\ row.spent = TRUE
        /\ h.wrong = history[c].wrong /\ h.accepted = history[c].accepted
        /\ h.used = history[c].used + 1
    BY <1>t, <2>s, Zenon DEF Row, Hist
  <2>c. /\ send[c].pc \in {"release", "done"} /\ challenges[c].failed = history[c].wrong
        /\ challenges[c].failed < MaxFailures /\ history[c].accepted = 1 /\ history[c].used = 0
    BY Zenon, <1>i, <2>s DEF CodeInv
  <2> HIDE DEF row, h
  <2>3. CodeInv(row, h, send[c].pc)
    BY <2>r, <2>c DEF CodeInv
  <2> HIDE DEF row, h
  <2> QED BY Zenon, <2>1, <2>h, <2>2, <2>3, <1>u, RowStep
<1>2. CASE CleanUp(c)
  <2> DEFINE row == [challenges[c] EXCEPT !.state = "deleted"]
  <2>s. challenges[c].state # "absent"
    BY <1>2, Zenon DEF CleanUp, Present
  <2>1. row \in Row
    BY <1>t, Zenon DEF Row
  <2>2. challenges' = [challenges EXCEPT ![c] = row] /\ history' = [history EXCEPT ![c] = history[c]]
    BY <1>2, <1>t, Zenon DEF CleanUp
  <2>3. CodeInv(row, history[c], send[c].pc)
    BY <1>i, <1>t, <2>s, Zenon DEF CodeInv, Row, Hist
  <2> HIDE DEF row
  <2> QED BY Zenon, <2>1, <2>2, <2>3, <1>t, <1>u, RowStep
<1> QED BY Zenon, <1>1, <1>2

\* Every step keeps the invariant.
LEMMA NextInv ==
    ASSUME Counting
    PROVE  IInv /\ [Next]_vars => IInv'
<1> SUFFICES ASSUME IInv, [Next]_vars PROVE IInv'
  BY Zenon
<1>1. ASSUME Tick PROVE IInv'
  <2>1. clock' \in 0..MaxClock
    BY <1>1, Parameters DEF Tick, IInv, TypeOK
  <2>2. UNCHANGED <<challenges, lease, window, send, verify, receipts, history>>
    BY <1>1, Zenon DEF Tick
  <2> QED BY <2>1, <2>2, Zenon DEF IInv, TypeOK
<1>2. CASE UNCHANGED vars
  BY <1>2, Zenon DEF vars, IInv, TypeOK
<1>3. ASSUME NEW s \in Send, SpendReceipt(s) \/ CleanUp(s) PROVE IInv'
  BY Zenon, <1>3, RowInv
<1>4. ASSUME NEW s \in Send, SaveAfterDelivery(s) PROVE IInv'
  BY Zenon, <1>4, SaveInv
<1>5. ASSUME NEW s \in Send,
             \/ BeginSend(s) \/ Acquire(s) \/ Recheck(s) \/ Cooldown(s) \/ Admit(s) \/ Refuse(s)
             \/ Deliver(s) \/ Release(s) \/ LeaseExpires(s) \/ Crash(s)
      PROVE  IInv'
  BY Zenon, <1>5, SendInv
<1>6. ASSUME NEW v \in Verify, BeginVerify(v) \/ SelectChallenge(v) \/ VerifyUnavailable(v)
      PROVE  IInv'
  BY Zenon, <1>6, VerifyInv
<1>7. ASSUME NEW v \in Verify, Compare(v) PROVE IInv'
  BY Zenon, <1>7, CompareInv
<1> QED BY Zenon, <1>1, <1>2, <1>3, <1>4, <1>5, <1>6, <1>7 DEF Next

(***************************************************************************)
(* How a step changes the fields of a Send request.                        *)
(***************************************************************************)
\* What stays: the other requests, the purpose and the key.
Alone(s) ==
    /\ \A x \in Send \ {s} : send'[x] = send[x]
    /\ send'[s].purpose = send[s].purpose /\ send'[s].key = send[s].key

SameMarks(s) ==
    /\ send'[s].at = send[s].at /\ send'[s].lost = send[s].lost
    /\ send'[s].delivered = send[s].delivered /\ send'[s].failed = send[s].failed

\* A move of the program counter.
LEMMA GotoFields ==
    ASSUME TypeOK, NEW s \in Send, NEW pc, Goto(s, pc)
    PROVE  Alone(s) /\ SameMarks(s) /\ send'[s].pc = pc
BY ZenonT(40) DEF TypeOK, Goto, Alone, SameMarks, SendState

\* The cooldown reads the clock and takes the next place in the order of creation.
LEMMA CooldownFields ==
    ASSUME Counting, TypeOK, NEW s \in Send, Cooldown(s)
    PROVE  Alone(s) /\ SameMarks(s) /\ send'[s].pc \in {"release", "admit"}
<1>1. PICK n \in Nat, pc \in {"release", "admit"} :
         send' = [send EXCEPT ![s].pc = pc, ![s].now = clock, ![s].stamp = n]
  BY Zenon, StampType DEF Cooldown
<1> QED BY <1>1, ZenonT(40) DEF TypeOK, Alone, SameMarks, SendState

\* Passing the limits records when.
LEMMA AdmitFields ==
    ASSUME TypeOK, NEW s \in Send, Admit(s)
    PROVE  /\ Alone(s) /\ send'[s].pc = "deliver" /\ send'[s].at = clock
           /\ send'[s].lost = send[s].lost /\ send'[s].delivered = send[s].delivered
           /\ send'[s].failed = send[s].failed
<1>1. send' = [send EXCEPT ![s].pc = "deliver", ![s].at = clock]
  BY Zenon DEF Admit
<1> QED BY <1>1, ZenonT(40) DEF TypeOK, Alone, SendState

\* A delivery happens or not, and is reported as failed or not.
LEMMA DeliverFields ==
    ASSUME TypeOK, NEW s \in Send, Deliver(s)
    PROVE  /\ Alone(s) /\ send'[s].at = send[s].at /\ send'[s].lost = send[s].lost
           /\ \/ send'[s].pc = "save" /\ send'[s].delivered /\ ~send'[s].failed
              \/ send'[s].pc = "release" /\ send'[s].failed
<1>1. PICK delivered, ok \in BOOLEAN :
         /\ ok => delivered
         /\ send' = [send EXCEPT ![s].pc = IF ok THEN "save" ELSE "release",
                                 ![s].delivered = delivered, ![s].failed = ~ok]
  BY Zenon DEF Deliver
<1> QED BY <1>1 DEF TypeOK, Alone, SendState

\* An insert that fails, and a crash, leave all but pc and failed.
LEMMA FailFields ==
    ASSUME TypeOK, NEW s \in Send, NEW pc, NEW b,
           send' = [send EXCEPT ![s].pc = pc, ![s].failed = b]
    PROVE  /\ Alone(s) /\ send'[s].pc = pc /\ send'[s].failed = b
           /\ send'[s].at = send[s].at /\ send'[s].lost = send[s].lost
           /\ send'[s].delivered = send[s].delivered
BY ZenonT(40) DEF TypeOK, Alone, SendState

\* A lease that runs out marks its request unless that has finished.
LEMMA ExpiryFields ==
    ASSUME TypeOK, NEW s \in Send, LeaseExpires(s)
    PROVE  /\ Alone(s) /\ send'[s].pc = send[s].pc /\ send'[s].at = send[s].at
           /\ send'[s].delivered = send[s].delivered /\ send'[s].failed = send[s].failed
           /\ send'[s].lost = (send[s].pc # "done")
<1>1. send' = [send EXCEPT ![s].lost = (send[s].pc # "done")]
  BY Zenon DEF LeaseExpires
<1> QED BY <1>1, ZenonT(40) DEF TypeOK, Alone, SendState

(***************************************************************************)
(* The resend delay of a phone.                                            *)
(***************************************************************************)
Phone(s) == send[s].purpose \in Unified
Passed(s) == send[s].at >= 0

\* The window in Redis covers every request of the phone that the limits have let
\* through, and each was let through after the window of the one before.
DelayInv ==
    /\ TypeOK
    /\ \A s \in Send : send[s].delivered \/ send[s].pc = "deliver" => Passed(s)
    /\ \A s \in Send : Phone(s) /\ Passed(s) => send[s].at + ResendDelay <= window
    /\ \A r, s \in Send :
         r # s /\ Phone(r) /\ Phone(s) /\ Passed(r) /\ Passed(s)
         => send[r].at >= send[s].at + ResendDelay \/ send[s].at >= send[r].at + ResendDelay

\* A step that lets nothing through.
LEMMA NotAdmitted ==
    ASSUME DelayInv, TypeOK', window' = window,
           \A x \in Send : /\ send'[x].purpose = send[x].purpose /\ send'[x].at = send[x].at
                           /\ \/ send'[x].delivered \/ send'[x].pc = "deliver"
                              => send[x].delivered \/ send[x].pc = "deliver"
    PROVE  DelayInv'
<1>1. \A x \in Send : (Phone(x)' <=> Phone(x)) /\ (Passed(x)' <=> Passed(x))
  BY Zenon DEF Phone, Passed
<1>2. \A s \in Send : send'[s].delivered \/ send'[s].pc = "deliver" => Passed(s)'
  BY <1>1, Zenon DEF DelayInv
<1>3. \A s \in Send : Phone(s)' /\ Passed(s)' => send'[s].at + ResendDelay <= window'
  BY <1>1, Zenon DEF DelayInv
<1>4. \A r, s \in Send :
         r # s /\ Phone(r)' /\ Phone(s)' /\ Passed(r)' /\ Passed(s)'
         => send'[r].at >= send'[s].at + ResendDelay \/ send'[s].at >= send'[r].at + ResendDelay
  BY <1>1, Zenon DEF DelayInv
<1> QED BY <1>2, <1>3, <1>4, Zenon DEF DelayInv

\* A step of one request that lets nothing through.
LEMMA OneNotAdmitted ==
    ASSUME DelayInv, TypeOK', window' = window, NEW s \in Send, Alone(s),
           send'[s].at = send[s].at,
           \/ send'[s].delivered \/ send'[s].pc = "deliver"
           => send[s].delivered \/ send[s].pc = "deliver"
    PROVE  DelayInv'
<1>1. \A x \in Send : /\ send'[x].purpose = send[x].purpose /\ send'[x].at = send[x].at
                      /\ \/ send'[x].delivered \/ send'[x].pc = "deliver"
                         => send[x].delivered \/ send[x].pc = "deliver"
  BY Zenon DEF Alone
<1> QED BY Zenon, <1>1, NotAdmitted

\* Admission: the window has lapsed, so every earlier admission is a delay ago.
LEMMA AdmitDelay ==
    ASSUME DelayInv, TypeOK', NEW s \in Send, Admit(s)
    PROVE  DelayInv'
<1>t. /\ clock \in Nat /\ window \in Nat /\ ResendDelay \in Nat \ {0}
      /\ \A x \in Send : send[x].at \in Int
  BY Parameters DEF DelayInv, TypeOK, SendState
<1>f. /\ \A x \in Send \ {s} : send'[x] = send[x]
      /\ send'[s].purpose = send[s].purpose /\ send'[s].at = clock
  BY AdmitFields, Zenon DEF DelayInv, Alone
<1>w. IF Phone(s) THEN window <= clock /\ window' = clock + ResendDelay ELSE window' = window
  BY Zenon DEF Admit, Phone
<1>1. \A x \in Send : (Phone(x)' <=> Phone(x)) /\ (x # s => (Passed(x)' <=> Passed(x)))
  BY <1>f, Zenon DEF Phone, Passed
<1>2. \A x \in Send : send'[x].delivered \/ send'[x].pc = "deliver" => Passed(x)'
  BY <1>f, <1>t DEF DelayInv, Passed
<1>3. \A x \in Send : Phone(x)' /\ Passed(x)' => send'[x].at + ResendDelay <= window'
  <2> SUFFICES ASSUME NEW x \in Send, Phone(x)', Passed(x)'
               PROVE  send'[x].at + ResendDelay <= window'
    BY Zenon
  <2>1. CASE x = s
    BY <2>1, <1>f, <1>w, <1>1, <1>t
  <2>2. CASE x # s
    <3>1. send[x].at + ResendDelay <= window /\ send'[x].at = send[x].at
      BY <2>2, <1>1, <1>f, Zenon DEF DelayInv
    <3> QED BY <3>1, <1>w, <1>t
  <2> QED BY <2>1, <2>2, Zenon
<1>4. ASSUME NEW x \in Send, x # s, Phone(x), Phone(s), Passed(x)
      PROVE  clock >= send[x].at + ResendDelay
  <2>1. send[x].at + ResendDelay <= window
    BY <1>4, Zenon DEF DelayInv
  <2> QED BY <2>1, <1>w, <1>4, <1>t
<1>5. \A r, x \in Send :
         r # x /\ Phone(r)' /\ Phone(x)' /\ Passed(r)' /\ Passed(x)'
         => send'[r].at >= send'[x].at + ResendDelay \/ send'[x].at >= send'[r].at + ResendDelay
  <2> SUFFICES ASSUME NEW r \in Send, NEW x \in Send,
                      r # x, Phone(r)', Phone(x)', Passed(r)', Passed(x)'
               PROVE  \/ send'[r].at >= send'[x].at + ResendDelay
                      \/ send'[x].at >= send'[r].at + ResendDelay
    BY Zenon
  <2>1. CASE r = s
    BY <2>1, <1>1, <1>4, <1>f, Zenon
  <2>2. CASE x = s
    BY <2>2, <1>1, <1>4, <1>f, Zenon
  <2>3. CASE r # s /\ x # s
    BY <2>3, <1>1, <1>f, Zenon DEF DelayInv
  <2> QED BY <2>1, <2>2, <2>3, Zenon
<1> QED BY <1>2, <1>3, <1>5, Zenon DEF DelayInv

LEMMA InitDelay == Init => DelayInv
<1> SUFFICES ASSUME Init PROVE DelayInv
  BY Zenon
<1>1. \A s \in Send : send[s].at = -1 /\ send[s].pc = "new" /\ ~send[s].delivered
  BY Fresh, Zenon
<1>2. TypeOK
  BY InitInv, Zenon DEF IInv
<1> QED BY <1>1, <1>2 DEF DelayInv, Passed

\* Every step keeps the window ahead of the requests that were let through.
LEMMA NextDelay ==
    ASSUME Counting
    PROVE  DelayInv /\ TypeOK' /\ [Next]_vars => DelayInv'
<1> SUFFICES ASSUME DelayInv, TypeOK', [Next]_vars PROVE DelayInv'
  BY Zenon
<1>t. TypeOK
  BY Zenon DEF DelayInv
<1>1. ASSUME NEW s \in Send, NEW pc, Goto(s, pc), pc # "deliver", window' = window PROVE DelayInv'
  BY <1>1, <1>t, GotoFields, OneNotAdmitted, Zenon DEF SameMarks
<1>2. ASSUME NEW s \in Send,
             \/ BeginSend(s) \/ Acquire(s) \/ Recheck(s) \/ Refuse(s) \/ Release(s)
      PROVE  DelayInv'
  <2>1. /\ window' = window
        /\ \E pc \in {"done", "acquire", "recheck", "release", "cooldown"} : Goto(s, pc)
    BY Zenon, <1>2 DEF BeginSend, Acquire, Recheck, Refuse, Release
  <2> QED BY <2>1, <1>1, Zenon
<1>3. ASSUME NEW s \in Send, Cooldown(s) PROVE DelayInv'
  <2>1. window' = window
    BY Zenon, <1>3 DEF Cooldown
  <2> QED BY <2>1, <1>3, <1>t, CooldownFields, OneNotAdmitted, Zenon DEF SameMarks
<1>4. ASSUME NEW s \in Send, Admit(s) PROVE DelayInv'
  BY <1>4, AdmitDelay, Zenon
<1>5. ASSUME NEW s \in Send, Deliver(s) PROVE DelayInv'
  <2>1. window' = window /\ send[s].pc = "deliver"
    BY Zenon, <1>5 DEF Deliver
  <2> QED BY <2>1, <1>5, <1>t, DeliverFields, OneNotAdmitted, Zenon
<1>6. ASSUME NEW s \in Send, SaveAfterDelivery(s) PROVE DelayInv'
  <2>1. /\ window' = window
        /\ \/ Goto(s, "release")
           \/ send' = [send EXCEPT ![s].pc = "release", ![s].failed = TRUE]
    BY Zenon, <1>6 DEF SaveAfterDelivery
  <2>2. CASE send' = [send EXCEPT ![s].pc = "release", ![s].failed = TRUE]
    BY <2>1, <2>2, <1>t, FailFields, OneNotAdmitted, ZenonT(40)
  <2> QED BY <2>1, <2>2, <1>1, Zenon
<1>7. ASSUME NEW s \in Send, LeaseExpires(s) PROVE DelayInv'
  <2>1. window' = window
    BY Zenon, <1>7 DEF LeaseExpires
  <2> QED BY <2>1, <1>7, <1>t, ExpiryFields, OneNotAdmitted, Zenon
<1>8. ASSUME NEW s \in Send, Crash(s) PROVE DelayInv'
  <2>1. PICK b : send' = [send EXCEPT ![s].pc = "done", ![s].failed = b]
    BY Zenon, <1>8, <1>t DEF Crash, TypeOK
  <2>2. window' = window
    BY Zenon, <1>8 DEF Crash
  <2>3. /\ Alone(s) /\ send'[s].pc = "done" /\ send'[s].at = send[s].at
        /\ send'[s].delivered = send[s].delivered
    BY <2>1, <1>t, FailFields, Zenon
  <2> QED BY <2>2, <2>3, OneNotAdmitted, Zenon
<1>9. ASSUME UNCHANGED <<send, window>> PROVE DelayInv'
  BY <1>9, NotAdmitted, Zenon
<1>10. \A s \in Send : SpendReceipt(s) \/ CleanUp(s) => UNCHANGED <<send, window>>
  BY Zenon DEF SpendReceipt, CleanUp
<1>11. \A v \in Verify : BeginVerify(v) \/ SelectChallenge(v) \/ Compare(v) \/ VerifyUnavailable(v)
                         => UNCHANGED <<send, window>>
  BY Zenon DEF BeginVerify, SelectChallenge, Compare, VerifyUnavailable
<1>12. Tick \/ UNCHANGED vars => UNCHANGED <<send, window>>
  BY Zenon DEF Tick, vars
<1> QED BY Zenon, <1>2, <1>3, <1>4, <1>5, <1>6, <1>7, <1>8, <1>9, <1>10, <1>11, <1>12 DEF Next

(***************************************************************************)
(* One code per Idempotency-Key.                                           *)
(***************************************************************************)
Before == {"new", "acquire", "recheck", "cooldown", "admit", "deliver"}
Holding == {"recheck", "cooldown", "admit", "deliver", "save", "release"}
Checked == {"cooldown", "admit", "deliver", "save"}

Wrong(s) == send[s].lost \/ send[s].failed \/ challenges[s].state = "deleted"
Kept(s) == send[s].pc = "save" \/ challenges[s].state \in {"open", "consumed", "invalidated"}

\* A request holds its lease from Acquire to Release unless it has lost it, and
\* nothing of it is delivered, failed or stored before the delivery.
LeaseInv(s) ==
    /\ send[s].pc \in Holding => send[s].lost \/ lease[Lease(s)] = s
    /\ send[s].lost => lease[Lease(s)] # s
    /\ send[s].pc \in {"new", "acquire"} => ~send[s].lost /\ lease[Lease(s)] # s
    /\ send[s].pc \in Before => ~send[s].delivered /\ ~send[s].failed
    /\ send[s].pc = "save" \/ challenges[s].state # "absent" => send[s].delivered

\* A code that was delivered is about to be saved or is in the table, and no
\* other request of its key has passed the second look at the table, unless
\* something went wrong with the key.
KeyInv ==
    /\ \A s \in Send : send[s].delivered => Kept(s) \/ Troubled(s)
    /\ \A r, s \in Send :
         /\ r # s /\ Lease(r) = Lease(s) /\ send[r].delivered
         /\ send[s].delivered \/ send[s].pc \in Checked
         => Troubled(s)

OnceInv == (\A s \in Send : LeaseInv(s)) /\ KeyInv

\* What went wrong stays wrong, as far as the steps of single requests show it.
LEMMA TroubleStays ==
    ASSUME \A x \in Send : Lease(x)' = Lease(x) /\ (Wrong(x) => Wrong(x)')
    PROVE  \A s \in Send : Troubled(s) => Troubled(s)'
BY Zenon DEF Troubled, Wrong

\* A step that delivers nothing and passes no second look.
LEMMA CalmStep ==
    ASSUME KeyInv,
           \A x \in Send : /\ Lease(x)' = Lease(x) /\ (Wrong(x) => Wrong(x)')
                           /\ send'[x].delivered => send[x].delivered
                           /\ send'[x].pc \in Checked => send[x].pc \in Checked
                           /\ Kept(x) => Kept(x)' \/ Wrong(x)'
    PROVE  KeyInv'
<1>1. \A s \in Send : Troubled(s) => Troubled(s)'
  BY TroubleStays, Zenon
<1>2. \A s \in Send : Wrong(s)' => Troubled(s)'
  BY Zenon DEF Troubled, Wrong
<1>3. \A s \in Send : send'[s].delivered => Kept(s)' \/ Troubled(s)'
  BY <1>1, <1>2, Zenon DEF KeyInv
<1>4. \A r, s \in Send :
         /\ r # s /\ Lease(r)' = Lease(s)' /\ send'[r].delivered
         /\ send'[s].delivered \/ send'[s].pc \in Checked
         => Troubled(s)'
  BY <1>1, Zenon DEF KeyInv
<1> QED BY <1>3, <1>4, Zenon DEF KeyInv

\* The same for a step of one request that leaves the table alone.
LEMMA CalmRequest ==
    ASSUME KeyInv, NEW s \in Send, Alone(s), challenges' = challenges,
           send[s].lost => send'[s].lost, send[s].failed => send'[s].failed,
           send'[s].delivered => send[s].delivered,
           send'[s].pc \in Checked => send[s].pc \in Checked,
           send[s].pc = "save" => send'[s].pc = "save" \/ send'[s].failed
    PROVE  KeyInv'
<1>1. ASSUME NEW x \in Send
      PROVE  /\ Lease(x)' = Lease(x) /\ (Wrong(x) => Wrong(x)')
             /\ send'[x].delivered => send[x].delivered
             /\ send'[x].pc \in Checked => send[x].pc \in Checked
             /\ Kept(x) => Kept(x)' \/ Wrong(x)'
  <2>1. CASE x = s
    BY <2>1, Zenon DEF Alone, Lease, Wrong, Kept
  <2>2. CASE x # s
    BY <2>2, Zenon DEF Alone, Lease, Wrong, Kept
  <2> QED BY <2>1, <2>2, Zenon
<1> QED BY <1>1, CalmStep, Zenon

\* A step of one request changes who else holds a lease for no other request.
LEMMA LeaseStep ==
    ASSUME \A x \in Send : LeaseInv(x), NEW s \in Send, Alone(s), LeaseInv(s)',
           \A x \in Send \ {s} : /\ challenges'[x] = challenges[x]
                                 /\ lease'[Lease(x)] = x <=> lease[Lease(x)] = x
    PROVE  \A x \in Send : LeaseInv(x)'
<1> SUFFICES ASSUME NEW x \in Send, x # s PROVE LeaseInv(x)'
  BY Zenon
<1>1. send'[x] = send[x] /\ challenges'[x] = challenges[x] /\ Lease(x)' = Lease(x)
  BY Zenon DEF Alone, Lease
<1>2. lease'[Lease(x)] = x <=> lease[Lease(x)] = x
  BY Zenon
<1>3. LeaseInv(x)
  BY Zenon
<1> QED BY <1>1, <1>2, <1>3, Zenon DEF LeaseInv

\* A step of one request that leaves the leases and the table alone.
LEMMA LeaseKept ==
    ASSUME OnceInv, NEW s \in Send, Alone(s), UNCHANGED <<lease, challenges>>,
           send[s].pc \notin {"new", "acquire"} \/ send'[s].pc \in {"acquire", "done"},
           send'[s].lost = send[s].lost,
           send'[s].pc \in Holding => send[s].pc \in Holding,
           send'[s].pc \notin {"new", "acquire"} \/ send[s].pc \in {"new", "acquire"},
           send'[s].pc \in Before => ~send'[s].delivered /\ ~send'[s].failed,
           send'[s].pc = "save" \/ challenges[s].state # "absent" => send'[s].delivered
    PROVE  \A x \in Send : LeaseInv(x)'
<1>1. Lease(s)' = Lease(s)
  BY Zenon DEF Alone, Lease
<1>2. LeaseInv(s)
  BY Zenon DEF OnceInv
<1>3. LeaseInv(s)'
  BY <1>1, <1>2, Zenon DEF LeaseInv, Holding
<1> QED BY <1>3, LeaseStep, Zenon DEF OnceInv

\* The step enters the protected part with the lease in hand.
LEMMA AcquireOnce ==
    ASSUME TypeOK, OnceInv, NEW s \in Send, Acquire(s)
    PROVE  OnceInv'
<1>u. challenges' = challenges /\ send[s].pc = "acquire"
  BY Zenon DEF Acquire
<1>i. LeaseInv(s)
  BY Zenon DEF OnceInv
<1>1. CASE lease[Lease(s)] = "free" /\ lease' = [lease EXCEPT ![Lease(s)] = s] /\ Goto(s, "recheck")
  <2>f. Alone(s) /\ SameMarks(s) /\ send'[s].pc = "recheck"
    BY <1>1, GotoFields, Zenon
  <2>l. Lease(s)' = Lease(s) /\ Lease(s) \in Purpose \X Key
    BY <2>f, Zenon DEF Alone, Lease, TypeOK, SendState
  <2>1. lease'[Lease(s)] = s
    BY <1>1, <2>l, Zenon DEF TypeOK
  <2>2. LeaseInv(s)'
    BY <2>f, <2>l, <2>1, <1>i, <1>u, Zenon DEF LeaseInv, SameMarks, Before, Holding
  <2>3. \A x \in Send \ {s} : lease'[Lease(x)] = x <=> lease[Lease(x)] = x
    <3> SUFFICES ASSUME NEW x \in Send \ {s} PROVE lease'[Lease(x)] = x <=> lease[Lease(x)] = x
      BY Zenon
    <3>1. Lease(x) \in Purpose \X Key
      BY Zenon DEF Lease, TypeOK, SendState
    <3>2. lease'[Lease(x)] = IF Lease(x) = Lease(s) THEN s ELSE lease[Lease(x)]
      BY <1>1, <3>1, Zenon DEF TypeOK
    <3> QED BY <3>2, <1>1, Parameters, Zenon
  <2>4. \A x \in Send : LeaseInv(x)'
    BY <2>2, <2>3, <2>f, <1>u, LeaseStep, Zenon DEF OnceInv
  <2>5. KeyInv'
    BY <2>f, <1>u, CalmRequest, Zenon DEF OnceInv, SameMarks, Checked
  <2> QED BY <2>4, <2>5, Zenon DEF OnceInv
<1>2. CASE Goto(s, "done") /\ lease' = lease
  <2>f. Alone(s) /\ SameMarks(s) /\ send'[s].pc = "done"
    BY <1>2, GotoFields, Zenon
  <2>1. \A x \in Send : LeaseInv(x)'
    BY <2>f, <1>2, <1>u, <1>i, LeaseKept, Zenon DEF SameMarks, Holding, Before, LeaseInv
  <2>2. KeyInv'
    BY <2>f, <1>u, CalmRequest, Zenon DEF OnceInv, SameMarks, Checked
  <2> QED BY <2>1, <2>2, Zenon DEF OnceInv
<1> QED BY Zenon, <1>1, <1>2 DEF Acquire

\* Giving a lease up takes it from its owner only.
LEMMA LeaseFreed ==
    ASSUME TypeOK, NEW s \in Send, lease[Lease(s)] = s, lease' = [lease EXCEPT ![Lease(s)] = "free"]
    PROVE  /\ lease'[Lease(s)] # s
           /\ \A x \in Send \ {s} : lease'[Lease(x)] = x <=> lease[Lease(x)] = x
<1>1. \A x \in Send : Lease(x) \in Purpose \X Key
  BY Zenon DEF Lease, TypeOK, SendState
<1>2. \A x \in Send : lease'[Lease(x)] = IF Lease(x) = Lease(s) THEN "free" ELSE lease[Lease(x)]
  BY <1>1, Zenon DEF TypeOK
<1> QED BY <1>2, Parameters, Zenon

\* The end of a request and the end of a lease.
LEMMA ReleaseOnce ==
    ASSUME TypeOK, OnceInv, NEW s \in Send, Release(s) \/ LeaseExpires(s)
    PROVE  OnceInv'
<1>i. LeaseInv(s)
  BY Zenon DEF OnceInv
<1>1. CASE Release(s)
  <2>u. /\ challenges' = challenges /\ send[s].pc = "release"
        /\ \/ lease' = lease
           \/ lease[Lease(s)] = s /\ lease' = [lease EXCEPT ![Lease(s)] = "free"]
    BY Zenon, <1>1 DEF Release
  <2>f. Alone(s) /\ SameMarks(s) /\ send'[s].pc = "done" /\ Lease(s)' = Lease(s)
    <3>1. Alone(s) /\ SameMarks(s) /\ send'[s].pc = "done"
      BY <1>1, GotoFields, Zenon DEF Release
    <3> QED BY <3>1, Zenon DEF Alone, Lease
  <2>1. /\ lease'[Lease(s)] = s => lease[Lease(s)] = s
        /\ \A x \in Send \ {s} : lease'[Lease(x)] = x <=> lease[Lease(x)] = x
    BY <2>u, LeaseFreed, Zenon
  <2>2. LeaseInv(s)'
    BY <2>f, <2>1, <2>u, <1>i, Zenon DEF LeaseInv, SameMarks, Holding, Before
  <2>3. KeyInv'
    BY <2>f, <2>u, CalmRequest, Zenon DEF OnceInv, SameMarks, Checked
  <2> QED BY <2>1, <2>2, <2>3, <2>f, <2>u, LeaseStep, Zenon DEF OnceInv
<1>2. CASE LeaseExpires(s)
  <2>u. /\ challenges' = challenges /\ lease[Lease(s)] = s
        /\ lease' = [lease EXCEPT ![Lease(s)] = "free"]
    BY Zenon, <1>2 DEF LeaseExpires
  <2>f. /\ Alone(s) /\ send'[s].pc = send[s].pc /\ send'[s].delivered = send[s].delivered
        /\ send'[s].failed = send[s].failed /\ send'[s].lost = (send[s].pc # "done")
    BY <1>2, ExpiryFields, Zenon
  <2>l. Lease(s)' = Lease(s)
    BY <2>f, Zenon DEF Alone, Lease
  <2>1. /\ lease'[Lease(s)] # s
        /\ \A x \in Send \ {s} : lease'[Lease(x)] = x <=> lease[Lease(x)] = x
    BY <2>u, LeaseFreed, Zenon
  <2>2. send[s].pc \notin {"new", "acquire"} /\ ~send[s].lost
    BY <1>i, <2>u, Zenon DEF LeaseInv
  <2>3. LeaseInv(s)'
    BY <2>f, <2>l, <2>1, <2>2, <2>u, <1>i, Zenon DEF LeaseInv, Holding, Before
  <2>4. KeyInv'
    BY <2>f, <2>2, <2>u, CalmRequest, Zenon DEF OnceInv, Checked
  <2> QED BY <2>1, <2>3, <2>4, <2>f, <2>u, LeaseStep, Zenon DEF OnceInv
<1> QED BY <1>1, <1>2, Zenon

\* The moves that neither enter the protected part nor leave it with a code.
LEMMA MoveOnce ==
    ASSUME Counting, TypeOK, OnceInv, NEW s \in Send,
           BeginSend(s) \/ Cooldown(s) \/ Admit(s) \/ Refuse(s) \/ Crash(s)
    PROVE  OnceInv'
<1>i. LeaseInv(s)
  BY Zenon DEF OnceInv
<1>u. UNCHANGED <<lease, challenges>>
  BY Zenon DEF BeginSend, Cooldown, Admit, Refuse, Crash
<1>1. /\ Alone(s) /\ send'[s].lost = send[s].lost /\ send'[s].delivered = send[s].delivered
      /\ send[s].pc \in Before => send'[s].failed = send[s].failed
      /\ send[s].failed => send'[s].failed
      /\ \/ send[s].pc = "new" /\ send'[s].pc \in {"acquire", "done"}
         \/ send[s].pc = "cooldown" /\ send'[s].pc \in {"release", "admit"}
         \/ send[s].pc = "admit" /\ send'[s].pc = "deliver"
         \/ send[s].pc = "acquire" /\ send'[s].pc = "done"
         \/ send[s].pc \in {"recheck", "cooldown", "admit"} /\ send'[s].pc = "release"
         \/ /\ send[s].pc \notin {"new", "done"} /\ send'[s].pc = "done"
            /\ send[s].pc = "save" => send'[s].failed
  <2>1. CASE BeginSend(s) \/ Refuse(s)
    <3>1. PICK pc \in {"acquire", "done", "release"} :
             /\ Goto(s, pc)
             /\ \/ send[s].pc = "new" /\ pc \in {"acquire", "done"}
                \/ send[s].pc = "acquire" /\ pc = "done"
                \/ send[s].pc \in {"recheck", "cooldown", "admit"} /\ pc = "release"
      BY Zenon, <2>1 DEF BeginSend, Refuse
    <3> QED BY <3>1, GotoFields, Zenon DEF SameMarks
  <2>2. CASE Cooldown(s)
    <3>1. send[s].pc = "cooldown"
      BY Zenon, <2>2 DEF Cooldown
    <3> QED BY <3>1, <2>2, CooldownFields, Zenon DEF SameMarks
  <2>3. CASE Admit(s)
    <3>1. send[s].pc = "admit"
      BY Zenon, <2>3 DEF Admit
    <3> QED BY <3>1, <2>3, AdmitFields, Zenon
  <2>4. CASE Crash(s)
    <3>1. PICK b : /\ send' = [send EXCEPT ![s].pc = "done", ![s].failed = b]
                   /\ b = (send[s].failed \/ send[s].pc = "save")
      BY Zenon, <2>4 DEF Crash, TypeOK
    <3>2. send[s].pc \notin {"new", "done"} /\ send[s].failed \in BOOLEAN
      BY <2>4, Zenon DEF Crash, TypeOK, SendState
    <3>3. send' = [send EXCEPT ![s].pc = "done", ![s].failed = b]
      BY <3>1, Zenon
    <3>4. /\ Alone(s) /\ send'[s].pc = "done" /\ send'[s].lost = send[s].lost
          /\ send'[s].failed = b /\ send'[s].delivered = send[s].delivered
      BY <3>3, ZenonT(40) DEF TypeOK, Alone, SendState
    <3> QED BY <3>1, <3>2, <3>4, Zenon DEF Before
  <2> QED BY <2>1, <2>2, <2>3, <2>4, Zenon
<1>2. \A x \in Send : LeaseInv(x)'
  BY <1>1, <1>u, <1>i, LeaseKept, Zenon DEF LeaseInv, Holding, Before
<1>3. KeyInv'
  BY <1>1, <1>u, CalmRequest, Zenon DEF OnceInv, Checked
<1> QED BY <1>2, <1>3, Zenon DEF OnceInv

\* Two requests that have taken one lease cannot both hold it.
LEMMA OneHolder ==
    ASSUME OnceInv, NEW r \in Send, NEW s \in Send, r # s, Lease(r) = Lease(s),
           send[r].pc \in Holding, send[s].pc \in Holding
    PROVE  Troubled(s)
<1>1. LeaseInv(r) /\ LeaseInv(s)
  BY Zenon DEF OnceInv
<1>2. send[r].lost \/ send[s].lost
  BY <1>1, Zenon DEF LeaseInv
<1> QED BY <1>2, Zenon DEF Troubled

\* The second look: a code delivered before is in the table, or its request
\* still holds the lease.
LEMMA RecheckOnce ==
    ASSUME TypeOK, OnceInv, NEW s \in Send, Recheck(s)
    PROVE  OnceInv'
<1>u. UNCHANGED <<lease, challenges>> /\ send[s].pc = "recheck"
  BY Zenon DEF Recheck
<1>f. /\ Alone(s) /\ SameMarks(s) /\ send'[s].pc \in {"release", "cooldown"}
      /\ send'[s].pc = "cooldown" => ~ExistsByIdempotency(s)
  BY GotoFields DEF Recheck
<1>i. LeaseInv(s)
  BY Zenon DEF OnceInv
<1>1. \A x \in Send : LeaseInv(x)'
  BY <1>f, <1>u, <1>i, LeaseKept, Zenon DEF SameMarks, LeaseInv, Holding, Before
<1>2. CASE send'[s].pc = "release"
  <2>1. KeyInv'
    BY <1>2, <1>f, <1>u, CalmRequest, Zenon DEF OnceInv, SameMarks, Checked
  <2> QED BY <1>1, <2>1, Zenon DEF OnceInv
<1>3. CASE send'[s].pc = "cooldown"
  <2>1. ASSUME NEW r \in Send, r # s, Lease(r) = Lease(s), send[r].delivered PROVE Troubled(s)
    <3>1. Kept(r) \/ Troubled(r)
      BY <2>1, Zenon DEF OnceInv, KeyInv
    <3>2. CASE send[r].pc = "save"
      BY <3>2, <2>1, <1>u, OneHolder, Zenon DEF Holding
    <3>3. CASE Present(r)
      <4>1. send[r].purpose = send[s].purpose /\ send[r].key = send[s].key
        BY <2>1, Zenon DEF Lease
      <4> QED BY <4>1, <3>3, <1>3, <1>f, Zenon DEF ExistsByIdempotency
    <3>4. CASE Troubled(r)
      BY <3>4, <2>1, Zenon DEF Troubled
    <3> QED BY <3>1, <3>2, <3>3, <3>4, Zenon DEF Kept, Present
  <2>2. \A x \in Send : /\ Lease(x)' = Lease(x) /\ (Wrong(x) => Wrong(x)') /\ (Kept(x) => Kept(x)')
                        /\ send'[x].delivered = send[x].delivered
                        /\ x # s => send'[x].pc = send[x].pc
    <3> SUFFICES ASSUME NEW x \in Send
                 PROVE  /\ Lease(x)' = Lease(x) /\ (Wrong(x) => Wrong(x)') /\ (Kept(x) => Kept(x)')
                        /\ send'[x].delivered = send[x].delivered
                        /\ x # s => send'[x].pc = send[x].pc
      BY Zenon
    <3>1. CASE x = s
      BY <3>1, <1>f, <1>u, Zenon DEF Alone, SameMarks, Lease, Wrong, Kept
    <3>2. CASE x # s
      BY <3>2, <1>f, <1>u, Zenon DEF Alone, Lease, Wrong, Kept
    <3> QED BY <3>1, <3>2, Zenon
  <2>3. \A x \in Send : Troubled(x) => Troubled(x)'
    BY <2>2, TroubleStays, Zenon
  <2>4. \A x \in Send : send'[x].delivered => Kept(x)' \/ Troubled(x)'
    BY <2>2, <2>3, Zenon DEF OnceInv, KeyInv
  <2>5. ASSUME NEW r \in Send, NEW x \in Send, r # x, Lease(r)' = Lease(x)', send'[r].delivered,
               send'[x].delivered \/ send'[x].pc \in Checked
        PROVE  Troubled(x)'
    <3>1. Lease(r) = Lease(x) /\ send[r].delivered
      BY <2>5, <2>2, Zenon
    <3>2. CASE x = s
      BY <3>1, <3>2, <2>5, <2>1, <2>3, Zenon
    <3>3. CASE x # s
      BY <3>1, <3>3, <2>5, <2>2, <2>3, Zenon DEF OnceInv, KeyInv
    <3> QED BY <3>2, <3>3, Zenon
  <2> QED BY <1>1, <2>4, <2>5, Zenon DEF OnceInv, KeyInv
<1> QED BY <1>2, <1>3, <1>f, Zenon

\* The delivery: the request had passed the second look with its lease in hand.
LEMMA DeliverOnce ==
    ASSUME TypeOK, OnceInv, NEW s \in Send, Deliver(s)
    PROVE  OnceInv'
<1>u. UNCHANGED <<lease, challenges>> /\ send[s].pc = "deliver"
  BY Zenon DEF Deliver
<1>f. /\ Alone(s) /\ send'[s].lost = send[s].lost
      /\ \/ send'[s].pc = "save" /\ send'[s].delivered /\ ~send'[s].failed
         \/ send'[s].pc = "release" /\ send'[s].failed
  BY DeliverFields, Zenon
<1>i. LeaseInv(s)
  BY Zenon DEF OnceInv
<1>1. \A x \in Send : LeaseInv(x)'
  BY <1>f, <1>u, <1>i, LeaseKept, Zenon DEF LeaseInv, Holding, Before
<1>2. \A x \in Send : /\ Lease(x)' = Lease(x) /\ (Wrong(x) => Wrong(x)')
                      /\ x # s => send'[x] = send[x] /\ Kept(x)' = Kept(x)
  <2> SUFFICES ASSUME NEW x \in Send
               PROVE  /\ Lease(x)' = Lease(x) /\ (Wrong(x) => Wrong(x)')
                      /\ x # s => send'[x] = send[x] /\ Kept(x)' = Kept(x)
    BY Zenon
  <2>1. CASE x = s
    BY <2>1, <1>f, <1>u, <1>i, Zenon DEF Alone, Lease, Wrong, LeaseInv, Before
  <2>2. CASE x # s
    BY <2>2, <1>f, <1>u, Zenon DEF Alone, Lease, Wrong, Kept
  <2> QED BY <2>1, <2>2, Zenon
<1>3. \A x \in Send : Troubled(x) => Troubled(x)'
  BY <1>2, TroubleStays, Zenon
<1>4. \A x \in Send : send'[x].failed => Troubled(x)'
  BY Zenon DEF Troubled
<1>5. \A x \in Send : send'[x].delivered => Kept(x)' \/ Troubled(x)'
  BY <1>2, <1>3, <1>4, <1>f, Zenon DEF OnceInv, KeyInv, Kept
<1>6. ASSUME NEW r \in Send, NEW x \in Send, r # x, Lease(r)' = Lease(x)', send'[r].delivered,
             send'[x].delivered \/ send'[x].pc \in Checked
      PROVE  Troubled(x)'
  <2>1. Lease(r) = Lease(x)
    BY <1>6, <1>2, Zenon
  <2>2. CASE x = s
    <3>1. send[r].delivered /\ send[s].pc \in Checked
      BY <2>2, <1>6, <1>2, <1>u, Zenon DEF Checked
    <3> QED BY <3>1, <2>1, <2>2, <1>6, <1>3, Zenon DEF OnceInv, KeyInv
  <2>3. CASE r = s /\ send[x].delivered
    <3>1. Troubled(r)
      BY <2>1, <2>3, <1>6, <1>u, Zenon DEF OnceInv, KeyInv, Checked
    <3> QED BY <3>1, <2>1, <1>3, Zenon DEF Troubled
  <2>4. CASE r = s /\ ~send[x].delivered
    <3>1. send[x].pc \in Checked
      BY <2>4, <1>6, <1>2, Zenon
    <3> QED BY <3>1, <2>1, <2>4, <1>6, <1>u, <1>3, OneHolder, Zenon DEF Checked, Holding
  <2>5. CASE r # s /\ x # s
    BY <2>1, <2>5, <1>6, <1>2, <1>3, Zenon DEF OnceInv, KeyInv
  <2> QED BY <2>2, <2>3, <2>4, <2>5, Zenon
<1> QED BY <1>1, <1>5, <1>6, Zenon DEF OnceInv, KeyInv

\* The insert: refused only for a row that another request of the key has put there.
LEMMA SaveOnce ==
    ASSUME IInv, OnceInv, NEW s \in Send, SaveAfterDelivery(s)
    PROVE  OnceInv'
<1>t. TypeOK /\ challenges \in [Send -> Row] /\ lease' = lease /\ send[s].pc = "save"
  BY Zenon DEF IInv, TypeOK, SaveAfterDelivery
<1>a. challenges[s].state = "absent"
  BY <1>t, Zenon DEF IInv, CodeInv
<1>i. LeaseInv(s)
  BY Zenon DEF OnceInv
<1>1. CASE challenges' = [challenges EXCEPT ![s].state = "open"] /\ Goto(s, "release")
  <2>f. Alone(s) /\ SameMarks(s) /\ send'[s].pc = "release"
    BY <1>1, <1>t, GotoFields, Zenon
  <2>c. challenges'[s].state = "open" /\ \A x \in Send \ {s} : challenges'[x] = challenges[x]
    BY <1>1, <1>t, Zenon DEF Row
  <2>l. Lease(s)' = Lease(s)
    BY <2>f, Zenon DEF Alone, Lease
  <2>1. LeaseInv(s)'
    BY <2>f, <2>c, <2>l, <1>t, <1>i, Zenon DEF LeaseInv, SameMarks, Holding, Before
  <2>2. \A x \in Send : LeaseInv(x)'
    BY <2>1, <2>f, <2>c, <1>t, LeaseStep, Zenon DEF OnceInv
  <2>3. ASSUME NEW x \in Send
        PROVE  /\ Lease(x)' = Lease(x) /\ (Wrong(x) => Wrong(x)')
               /\ send'[x].delivered => send[x].delivered
               /\ send'[x].pc \in Checked => send[x].pc \in Checked
               /\ Kept(x) => Kept(x)' \/ Wrong(x)'
    <3>1. CASE x = s
      BY <3>1, <2>f, <2>c, <1>a, Zenon DEF Alone, SameMarks, Lease, Wrong, Kept, Checked
    <3>2. CASE x # s
      BY <3>2, <2>f, <2>c, Zenon DEF Alone, Lease, Wrong, Kept
    <3> QED BY <3>1, <3>2, Zenon
  <2>4. KeyInv'
    BY <2>3, CalmStep, Zenon DEF OnceInv
  <2> QED BY <2>2, <2>4, Zenon DEF OnceInv
<1>2. CASE ExistsByIdempotency(s) /\ Goto(s, "release") /\ UNCHANGED challenges
  <2>f. Alone(s) /\ SameMarks(s) /\ send'[s].pc = "release"
    BY <1>2, <1>t, GotoFields, Zenon
  <2>1. PICK c \in Send : Present(c) /\ Lease(c) = Lease(s)
    BY <1>2, Zenon DEF ExistsByIdempotency, Lease
  <2>2. c # s /\ send[c].delivered /\ send[s].delivered
    BY <2>1, <1>a, <1>i, <1>t, Zenon DEF Present, OnceInv, LeaseInv
  <2>3. Troubled(s)
    BY <2>1, <2>2, Zenon DEF OnceInv, KeyInv
  <2>4. \A x \in Send : LeaseInv(x)'
    BY <2>f, <1>2, <1>t, <1>i, LeaseKept, Zenon DEF SameMarks, LeaseInv, Holding, Before
  <2>5. \A x \in Send : /\ Lease(x)' = Lease(x) /\ (Wrong(x) => Wrong(x)')
                        /\ send'[x].delivered => send[x].delivered
                        /\ send'[x].pc \in Checked => send[x].pc \in Checked
                        /\ x # s /\ Kept(x) => Kept(x)'
    <3> SUFFICES ASSUME NEW x \in Send
                 PROVE  /\ Lease(x)' = Lease(x) /\ (Wrong(x) => Wrong(x)')
                        /\ send'[x].delivered => send[x].delivered
                        /\ send'[x].pc \in Checked => send[x].pc \in Checked
                        /\ x # s /\ Kept(x) => Kept(x)'
      BY Zenon
    <3>1. CASE x = s
      BY <3>1, <2>f, <1>2, Zenon DEF Alone, SameMarks, Lease, Wrong, Checked
    <3>2. CASE x # s
      BY <3>2, <2>f, <1>2, Zenon DEF Alone, Lease, Wrong, Kept
    <3> QED BY <3>1, <3>2, Zenon
  <2>6. \A x \in Send : Troubled(x) => Troubled(x)'
    BY <2>5, TroubleStays, Zenon
  <2>7. \A x \in Send : send'[x].delivered => Kept(x)' \/ Troubled(x)'
    BY <2>3, <2>5, <2>6, Zenon DEF OnceInv, KeyInv
  <2>8. \A r, x \in Send :
           /\ r # x /\ Lease(r)' = Lease(x)' /\ send'[r].delivered
           /\ send'[x].delivered \/ send'[x].pc \in Checked
           => Troubled(x)'
    BY <2>5, <2>6, Zenon DEF OnceInv, KeyInv
  <2> QED BY <2>4, <2>7, <2>8, Zenon DEF OnceInv, KeyInv
<1>3. CASE send' = [send EXCEPT ![s].pc = "release", ![s].failed = TRUE] /\ UNCHANGED challenges
  <2>f. /\ Alone(s) /\ send'[s].pc = "release" /\ send'[s].failed /\ send'[s].lost = send[s].lost
        /\ send'[s].delivered = send[s].delivered
    BY <1>3, <1>t, ZenonT(40) DEF TypeOK, Alone, SendState
  <2>1. \A x \in Send : LeaseInv(x)'
    BY <2>f, <1>3, <1>t, <1>i, LeaseKept, Zenon DEF LeaseInv, Holding, Before
  <2>2. KeyInv'
    BY <2>f, <1>3, <1>t, CalmRequest, Zenon DEF OnceInv, Checked
  <2> QED BY <2>1, <2>2, Zenon DEF OnceInv
<1> QED BY Zenon, <1>1, <1>2, <1>3 DEF SaveAfterDelivery

\* A step of the table alone: rows that are present stay or are deleted.
LEMMA TableOnce ==
    ASSUME OnceInv, UNCHANGED <<send, lease>>,
           \A x \in Send :
              \/ challenges'[x].state = challenges[x].state
              \/ /\ Present(x)
                 /\ challenges'[x].state \in {"open", "consumed", "invalidated", "deleted"}
    PROVE  OnceInv'
<1>1. ASSUME NEW x \in Send
      PROVE  /\ LeaseInv(x)' /\ Lease(x)' = Lease(x) /\ (Wrong(x) => Wrong(x)')
             /\ Kept(x) => Kept(x)' \/ Wrong(x)'
  <2>1. LeaseInv(x) /\ Lease(x)' = Lease(x)
    BY Zenon DEF OnceInv, Lease
  <2> QED BY <2>1, Zenon DEF LeaseInv, Present, Wrong, Kept
<1>2. KeyInv'
  BY <1>1, CalmStep, Zenon DEF OnceInv
<1> QED BY <1>1, <1>2, Zenon DEF OnceInv

\* The steps of the verifications, of the receipts and of the clock.
LEMMA RowsOnce ==
    ASSUME IInv, OnceInv,
           \/ \E v \in Verify : \/ BeginVerify(v) \/ SelectChallenge(v) \/ Compare(v)
                                \/ VerifyUnavailable(v)
           \/ \E s \in Send : SpendReceipt(s) \/ CleanUp(s)
           \/ Tick \/ UNCHANGED vars
    PROVE  OnceInv'
<1>t. challenges \in [Send -> Row]
  BY Zenon DEF IInv, TypeOK
<1>1. ASSUME UNCHANGED <<send, lease, challenges>> PROVE OnceInv'
  BY <1>1, TableOnce, Zenon
<1>2. ASSUME NEW c \in Send, Present(c), UNCHANGED <<send, lease>>,
             \A x \in Send \ {c} : challenges'[x] = challenges[x],
             challenges'[c].state \in {"open", "consumed", "invalidated", "deleted"}
      PROVE  OnceInv'
  BY <1>2, TableOnce, Zenon
<1>3. ASSUME NEW c \in Send, SpendReceipt(c) \/ CleanUp(c) PROVE OnceInv'
  <2>1. Present(c) /\ UNCHANGED <<send, lease>>
    BY <1>3, Zenon DEF SpendReceipt, CleanUp, ReceiptAvailable, Present
  <2>2. /\ \A x \in Send \ {c} : challenges'[x] = challenges[x]
        /\ challenges'[c].state = challenges[c].state \/ challenges'[c].state = "deleted"
    BY <1>3, <1>t, ZenonT(40) DEF SpendReceipt, CleanUp, Row
  <2> QED BY <2>1, <2>2, <1>2, Zenon DEF Present
<1>4. ASSUME NEW v \in Verify, Compare(v) PROVE OnceInv'
  <2>1. UNCHANGED <<send, lease>> /\ verify[v].rows \subseteq Send
    BY <1>4, Zenon DEF Compare, IInv, TypeOK, VerifyState
  <2>2. ASSUME NEW c \in Send, Open(c, verify[v].now), Match(v, c) \/ Mismatch(c) PROVE OnceInv'
    <3>1. Present(c)
      BY <2>2, Zenon DEF Open, Present
    <3>2. /\ \A x \in Send \ {c} : challenges'[x] = challenges[x]
          /\ challenges'[c].state \in {"open", "consumed", "invalidated"}
      <4>1. CASE Match(v, c)
        BY <4>1, <1>t, Zenon DEF Match, Row
      <4>2. CASE Mismatch(c)
        <5>1. PICK state \in {"invalidated", "open"} :
                 challenges' = [challenges EXCEPT ![c].failed = FailuresAfter(c), ![c].state = state]
          BY Zenon, <4>2 DEF Mismatch
        <5> QED BY <5>1, <1>t, Zenon DEF Row
      <4> QED BY <2>2, <4>1, <4>2, Zenon
    <3> QED BY <3>1, <3>2, <2>1, <1>2, Zenon
  <2> QED BY <2>1, <2>2, <1>1, <1>4, Zenon DEF Compare, Newest
<1>5. ASSUME NEW v \in Verify, BeginVerify(v) \/ SelectChallenge(v) \/ VerifyUnavailable(v)
      PROVE  OnceInv'
  BY Zenon, <1>5, <1>1 DEF BeginVerify, SelectChallenge, VerifyUnavailable
<1>6. ASSUME Tick \/ UNCHANGED vars PROVE OnceInv'
  BY Zenon, <1>6, <1>1 DEF Tick, vars
<1> QED BY Zenon, <1>3, <1>4, <1>5, <1>6

LEMMA InitOnce == Init => OnceInv
<1> SUFFICES ASSUME Init PROVE OnceInv
  BY Zenon
<1>1. \A s \in Send : /\ send[s].pc = "new" /\ ~send[s].delivered /\ ~send[s].failed
                      /\ ~send[s].lost /\ challenges[s].state = "absent"
  BY Fresh, Zenon
<1>2. \A s \in Send : lease[Lease(s)] # s
  <2>0. IInv
    BY InitInv, Zenon
  <2>1. TypeOK /\ lease = [pk \in Purpose \X Key |-> "free"]
    BY <2>0, Zenon DEF IInv, Init
  <2>2. \A s \in Send : Lease(s) \in Purpose \X Key
    BY <2>1, Zenon DEF TypeOK, SendState, Lease
  <2> QED BY <2>1, <2>2, Parameters, Zenon
<1> QED BY <1>1, <1>2, Zenon DEF OnceInv, LeaseInv, KeyInv, Holding

\* Every step keeps the leases exclusive and the codes of a key apart.
LEMMA NextOnce ==
    ASSUME Counting
    PROVE  IInv /\ OnceInv /\ [Next]_vars => OnceInv'
<1> SUFFICES ASSUME IInv, OnceInv, [Next]_vars PROVE OnceInv'
  BY Zenon
<1>t. TypeOK
  BY Zenon DEF IInv
<1>1. ASSUME NEW s \in Send, \/ BeginSend(s) \/ Acquire(s) \/ Recheck(s) \/ Cooldown(s) \/ Admit(s)
                             \/ Refuse(s) \/ Deliver(s) \/ SaveAfterDelivery(s) \/ Release(s)
                             \/ LeaseExpires(s) \/ Crash(s)
      PROVE  OnceInv'
  BY Zenon, <1>1, <1>t, MoveOnce, AcquireOnce, RecheckOnce, DeliverOnce, SaveOnce, ReleaseOnce
<1> QED BY Zenon, <1>1, RowsOnce DEF Next

-----------------------------------------------------------------------------
(* Pages.  First what a page holds, for a finite set of rows in any strict  *)
(* total order; the order is given as B, the rows before each row.          *)

Ordered(rows, B) ==
    /\ IsFiniteSet(rows)
    /\ \A i \in rows : B[i] \subseteq rows /\ i \notin B[i]
    /\ \A i, j \in rows : i \in B[j] => B[i] \subseteq B[j]
    /\ \A i, j \in rows : i # j => i \in B[j] \/ j \in B[i]

LEMMA Counted ==
    ASSUME Counting, NEW rows, NEW B, Ordered(rows, B)
    PROVE  /\ Cardinality(rows) \in Nat
           /\ \A i \in rows : /\ IsFiniteSet(B[i]) /\ Cardinality(B[i]) \in Nat
                              /\ Cardinality(B[i]) < Cardinality(rows)
           /\ \A i, j \in rows : i \in B[j] => Cardinality(B[i]) < Cardinality(B[j])
<1>1. IsFiniteSet(rows) /\ Cardinality(rows) \in Nat
  BY CountsNatural, Zenon DEF Ordered
<1>2. ASSUME NEW i \in rows
      PROVE  IsFiniteSet(B[i]) /\ Cardinality(B[i]) \in Nat /\ Cardinality(B[i]) < Cardinality(rows)
  <2>1. B[i] \in SUBSET rows /\ B[i] # rows
    BY <1>2, Zenon DEF Ordered
  <2>2. IsFiniteSet(B[i]) /\ Cardinality(B[i]) <= Cardinality(rows) /\ Cardinality(B[i]) # Cardinality(rows)
    BY <1>1, <2>1, PartsFinite, Zenon
  <2>3. Cardinality(B[i]) \in Nat
    BY <2>2, CountsNatural, Zenon
  <2> QED BY <1>1, <2>2, <2>3
<1>3. ASSUME NEW i \in rows, NEW j \in rows, i \in B[j]
      PROVE  Cardinality(B[i]) < Cardinality(B[j])
  <2>1. B[i] \in SUBSET B[j] /\ B[i] # B[j]
    BY <1>3, Zenon DEF Ordered
  <2>2. Cardinality(B[i]) <= Cardinality(B[j]) /\ Cardinality(B[i]) # Cardinality(B[j])
    BY <1>2, <2>1, PartsFinite, Zenon
  <2> QED BY <1>2, <2>2
<1> QED BY <1>1, <1>2, <1>3, Zenon

\* Some rows have a last one among them.
LEMMA LastOf ==
    ASSUME Counting, NEW rows, NEW B, Ordered(rows, B), NEW S \in SUBSET rows, S # {}
    PROVE  \E m \in S : \A j \in S \ {m} : j \in B[m]
<1> DEFINE c(i) == Cardinality(rows) - Cardinality(B[i])
           T == {c(i) : i \in S}
<1>1. \A i \in S : c(i) \in Nat
  BY Counted
<1>2. T \in SUBSET Nat /\ T # {}
  BY <1>1, Zenon
<1>3. PICK x \in T : \A y \in T : x <= y
  BY <1>2, Least, Zenon
<1>4. PICK m \in S : x = c(m)
  BY <1>3, Zenon
<1>5. \A j \in S : c(m) <= c(j)
  BY <1>3, <1>4, Zenon
<1>6. \A j \in S : Cardinality(B[j]) <= Cardinality(B[m])
  BY <1>5, Counted
<1>7. ASSUME NEW j \in S \ {m} PROVE j \in B[m]
  <2>1. j \in B[m] \/ m \in B[j]
    BY <1>7, Zenon DEF Ordered
  <2>2. m \notin B[j]
    BY <1>6, Counted
  <2> QED BY <2>1, <2>2, Zenon
<1> QED BY <1>7, Zenon

\* Each row but the first has one right before it.
LEMMA Preceded ==
    ASSUME Counting, NEW rows, NEW B, Ordered(rows, B), NEW i \in rows, Cardinality(B[i]) # 0
    PROVE  \E m \in B[i] : Cardinality(B[i]) = Cardinality(B[m]) + 1
<1>1. B[i] \in SUBSET rows /\ IsFiniteSet(B[i])
  BY Counted, Zenon DEF Ordered
<1>2. B[i] # {}
  <2>1. Cardinality({}) = 0
    BY NoneCounted, Zenon
  <2> QED BY <2>1, Zenon
<1>3. PICK m \in B[i] : \A j \in B[i] \ {m} : j \in B[m]
  BY <1>1, <1>2, LastOf
<1>4. m \in rows /\ m \notin B[m] /\ B[m] \subseteq B[i] /\ IsFiniteSet(B[m])
  BY <1>1, Counted, Zenon DEF Ordered
<1>5. B[i] = B[m] \cup {m}
  BY <1>3, <1>4, Zenon
<1>6. Cardinality(B[m] \cup {m}) = Cardinality(B[m]) + 1
  BY <1>4, AddedCounted, Zenon
<1> QED BY <1>5, <1>6, Zenon

\* The first rows come before the others; unless these are all, there is a last one.
Splits(rows, B, items, fetched) ==
    /\ \A i \in items, j \in rows \ items : i \in B[j]
    /\ fetched = items => items = rows
    /\ fetched # items => \E m \in items : \A j \in items \ {m} : j \in B[m]

\* The first n rows, and what the row beyond them tells (retainUserPage).
LEMMA FirstOf ==
    ASSUME Counting, NEW rows, NEW B, Ordered(rows, B), NEW n \in Nat \ {0},
           NEW fetched, fetched = {i \in rows : Cardinality(B[i]) < n + 1},
           NEW items, items = {i \in rows : Cardinality(B[i]) < n}
    PROVE  Splits(rows, B, items, fetched)
<1>1. \A i \in rows : Cardinality(B[i]) \in Nat
  BY Counted, Zenon
<1>2. ASSUME NEW i \in items, NEW j \in rows \ items PROVE i \in B[j]
  <2>1. i \in rows /\ i # j /\ ~(Cardinality(B[j]) < Cardinality(B[i]))
    BY <1>1, <1>2
  <2> QED BY <2>1, Counted, Zenon DEF Ordered
<1>3. ASSUME fetched = items, items # rows PROVE FALSE
  <2> DEFINE T == {Cardinality(B[i]) : i \in rows \ items}
  <2>1. T \in SUBSET Nat /\ T # {}
    BY <1>1, <1>3, Zenon
  <2>2. PICK x \in T : \A y \in T : x <= y
    BY <2>1, Least, Zenon
  <2>3. PICK i \in rows \ items : x = Cardinality(B[i])
    BY <2>2, Zenon
  <2>4. \A j \in rows \ items : Cardinality(B[i]) <= Cardinality(B[j])
    BY <2>2, <2>3, Zenon
  <2>5. i \notin fetched
    BY <1>3, <2>3, Zenon
  <2>6. Cardinality(B[i]) > n
    BY <1>1, <2>3, <2>5
  <2>7. PICK m \in B[i] : Cardinality(B[i]) = Cardinality(B[m]) + 1
    BY <1>1, <2>3, <2>6, Preceded
  <2>8. m \in rows /\ Cardinality(B[m]) \in Nat
    BY <1>1, <2>3, <2>7, Zenon DEF Ordered
  <2>9. m \in items
    BY <1>1, <2>3, <2>4, <2>7, <2>8
  <2> QED BY <1>1, <2>6, <2>7, <2>8, <2>9
<1>4. ASSUME fetched # items PROVE \E m \in items : \A j \in items \ {m} : j \in B[m]
  <2>1. items \subseteq fetched
    BY <1>1
  <2>2. PICK i \in fetched : i \notin items
    BY <1>4, <2>1, Zenon
  <2>3. i \in rows /\ Cardinality(B[i]) = n
    BY <1>1, <2>2
  <2>4. PICK m \in B[i] : Cardinality(B[i]) = Cardinality(B[m]) + 1
    BY <2>3, Preceded
  <2>5. m \in rows /\ Cardinality(B[m]) \in Nat
    BY <1>1, <2>3, <2>4, Zenon DEF Ordered
  <2>6. m \in items
    BY <2>3, <2>4, <2>5
  <2>7. items \in SUBSET rows /\ items # {}
    BY <2>6, Zenon
  <2> QED BY <2>7, LastOf
<1> QED BY <1>2, <1>3, <1>4, Zenon DEF Splits

-----------------------------------------------------------------------------
(* The pages that continue from a key *)

PageRow == [state : {"row"}, at : 1..MaxTime, match : BOOLEAN]
EntryOK == entry \in [Id -> {NoEntry, Removed} \cup PageRow]

\* What is still to come after a cursor
Beyond(list, i, after) ==
    IF list \in ByTime THEN olderThan(i, after)
    ELSE after = First \/ (IF list = "proposals" THEN i < after.id ELSE i > after.id)

LEMMA StoredRows ==
    ASSUME Counting, EntryOK
    PROVE  /\ \A i \in Stored : i \in Id /\ i \in Int /\ entry[i] \in PageRow /\ entry[i].at \in 1..MaxTime
                                /\ entry[i].at \in Nat /\ entry[i].at > 0 /\ entry[i].match \in BOOLEAN
           /\ \A i \in Id : entry[i] \in PageRow => i \in Stored
           /\ Matching \subseteq Stored /\ Stored \subseteq Id
           /\ \A S \in SUBSET Id : IsFiniteSet(S) /\ Cardinality(S) \in Nat
<1>1. \A i \in Stored : i \in Id /\ entry[i] \in PageRow
  BY Zenon DEF EntryOK, Stored
<1>2. \A i \in Stored : i \in Int /\ entry[i].at \in 1..MaxTime /\ entry[i].match \in BOOLEAN
  BY <1>1, PageParameters, Zenon DEF PageRow
<1>3. \A i \in Stored : entry[i].at \in Nat /\ entry[i].at > 0
  BY <1>2, PageParameters
<1>4. \A i \in Id : entry[i] \in PageRow => i \in Stored
  <2>1. \A r \in PageRow : r.state = "row"
    BY Zenon DEF PageRow
  <2>2. NoEntry.state = "none" /\ Removed.state = "removed"
    BY Zenon DEF NoEntry, Removed
  <2>3. \A r \in PageRow : r # NoEntry /\ r # Removed
    BY <2>1, <2>2
  <2> QED BY <2>3, Zenon DEF Stored
<1>5. Matching \subseteq Stored /\ Stored \subseteq Id
  BY Zenon DEF Matching, Stored
<1>6. \A S \in SUBSET Id : IsFiniteSet(S) /\ Cardinality(S) \in Nat
  BY PageParameters, PartsFinite, CountsNatural, Zenon
<1> QED BY <1>1, <1>2, <1>3, <1>4, <1>5, <1>6, Zenon

\* The last page has all that is left; another ends with its last row, before
\* all that is to come.
Continues(rows, page, B) ==
    /\ page.items \subseteq rows
    /\ page.next = Last => page.items = rows
    /\ page.next # Last => \E m \in page.items : /\ page.next = Position(m)
                                                 /\ \A j \in page.items \ {m} : j \in B[m]
                                                 /\ \A j \in rows \ page.items : m \in B[j]

LEMMA PageOf ==
    ASSUME Counting, EntryOK, NEW rows \in SUBSET Stored, NEW B, Ordered(rows, B), NEW n \in Nat \ {0},
           NEW items, items = {i \in rows : Cardinality(B[i]) < n},
           NEW fetched, fetched = {i \in rows : Cardinality(B[i]) < n + 1},
           NEW m, (\E i \in items : \A j \in items \ {i} : j \in B[i]) =>
                     m \in items /\ \A j \in items \ {m} : j \in B[m],
           NEW page, page.items = items, page.next = IF fetched = items THEN Last ELSE Position(m)
    PROVE  Continues(rows, page, B)
<1>1. /\ \A i \in items, j \in rows \ items : i \in B[j]
      /\ fetched = items => items = rows
      /\ fetched # items => \E i \in items : \A j \in items \ {i} : j \in B[i]
  <2>1. Splits(rows, B, items, fetched)
    BY FirstOf, Zenon
  <2> QED BY <2>1, Zenon DEF Splits
<1>2. items \subseteq rows
  BY Zenon
<1>3. fetched # items => m \in items /\ \A j \in items \ {m} : j \in B[m]
  BY <1>1, Zenon
<1>4. \A i \in Stored : Position(i) # Last
  <2>1. \A i \in Stored : Position(i).at > 0
    BY StoredRows, Zenon DEF Position
  <2>2. Last.at = 0 /\ ~(0 > 0)
    BY DEF Last
  <2> QED BY <2>1, <2>2, Zenon
<1>5. fetched = items <=> page.next = Last
  BY <1>2, <1>3, <1>4, Zenon
<1> QED BY <1>1, <1>2, <1>3, <1>5, Zenon DEF Continues

Part(rows, page, Precedes(_, _)) ==
    /\ page.items \subseteq rows
    /\ page.next = Last => page.items = rows
    /\ page.next # Last => \E m \in page.items : /\ page.next = Position(m)
                                                 /\ \A j \in page.items \ {m} : Precedes(j, m)
                                                 /\ \A j \in rows \ page.items : Precedes(m, j)

LEMMA NewestPage ==
    ASSUME Counting, EntryOK, NEW rows \in SUBSET Stored, NEW n \in Nat \ {0}
    PROVE  Part(rows, fetchPage(rows, Newer, n), Newer)
<1>1. \A i \in rows : i \in Int /\ entry[i].at \in Nat
  BY StoredRows, Zenon
<1>2. \A i \in rows : ~Newer(i, i)
  BY <1>1 DEF Newer
<1>t. \A i, j, k \in rows : Newer(k, i) /\ Newer(i, j) => Newer(k, j)
  BY <1>1 DEF Newer
<1>l. \A i, j \in rows : i # j => Newer(i, j) \/ Newer(j, i)
  BY <1>1 DEF Newer
<1> HIDE DEF Newer
<1> DEFINE B == [i \in rows |-> {j \in rows : Newer(j, i)}]
           page == fetchPage(rows, Newer, n)
           items == {i \in rows : Cardinality({j \in rows : Newer(j, i)}) < n}
           fetched == {i \in rows : Cardinality({j \in rows : Newer(j, i)}) < n + 1}
           m == CHOOSE i \in items : \A j \in items \ {i} : Newer(j, i)
<1>3. \A i \in rows : B[i] = {j \in rows : Newer(j, i)}
  BY Zenon
<1>4. IsFiniteSet(rows)
  BY StoredRows, Zenon
<1>5. page.items = items /\ page.next = IF fetched = items THEN Last ELSE Position(m)
  BY Zenon DEF fetchPage, retainPage, Top
<1>6. items \subseteq rows /\ ((\E i \in items : \A j \in items \ {i} : Newer(j, i)) =>
                                  m \in items /\ \A j \in items \ {m} : Newer(j, m))
  BY Zenon
<1> HIDE DEF m, page, B
<1>7. items = {i \in rows : Cardinality(B[i]) < n} /\ fetched = {i \in rows : Cardinality(B[i]) < n + 1}
  BY <1>3, Zenon
<1> HIDE DEF items, fetched
<1>8. Ordered(rows, B)
  <2>1. \A i \in rows : B[i] \subseteq rows /\ i \notin B[i]
    BY <1>2, <1>3, Zenon
  <2>2. \A i, j \in rows : i \in B[j] => B[i] \subseteq B[j]
    BY <1>t, <1>3, Zenon
  <2>3. \A i, j \in rows : i # j => i \in B[j] \/ j \in B[i]
    BY <1>l, <1>3, Zenon
  <2> QED BY <1>4, <2>1, <2>2, <2>3, Zenon DEF Ordered
<1>9. (\E i \in items : \A j \in items \ {i} : j \in B[i]) => m \in items /\ \A j \in items \ {m} : j \in B[m]
  BY <1>3, <1>6, Zenon
<1>10. Continues(rows, page, B)
  BY <1>5, <1>7, <1>8, <1>9, PageOf, Zenon
<1>11. /\ page.items \subseteq rows
       /\ page.next = Last => page.items = rows
       /\ page.next # Last => \E k \in page.items : /\ page.next = Position(k)
                                                    /\ \A j \in page.items \ {k} : Newer(j, k)
                                                    /\ \A j \in rows \ page.items : Newer(k, j)
  BY <1>3, <1>10, Zenon DEF Continues
<1>12. Part(rows, page, Newer)
  BY <1>11, Zenon DEF Part
<1> QED BY <1>12, Zenon DEF page

LEMMA SmallestPage ==
    ASSUME Counting, EntryOK, NEW rows \in SUBSET Stored, NEW n \in Nat \ {0}
    PROVE  Part(rows, fetchPage(rows, Smallest, n), Smallest)
<1>1. \A i \in rows : i \in Int /\ entry[i].at \in Nat
  BY StoredRows, Zenon
<1>2. \A i \in rows : ~Smallest(i, i)
  BY <1>1 DEF Smallest
<1>t. \A i, j, k \in rows : Smallest(k, i) /\ Smallest(i, j) => Smallest(k, j)
  BY <1>1 DEF Smallest
<1>l. \A i, j \in rows : i # j => Smallest(i, j) \/ Smallest(j, i)
  BY <1>1 DEF Smallest
<1> HIDE DEF Smallest
<1> DEFINE B == [i \in rows |-> {j \in rows : Smallest(j, i)}]
           page == fetchPage(rows, Smallest, n)
           items == {i \in rows : Cardinality({j \in rows : Smallest(j, i)}) < n}
           fetched == {i \in rows : Cardinality({j \in rows : Smallest(j, i)}) < n + 1}
           m == CHOOSE i \in items : \A j \in items \ {i} : Smallest(j, i)
<1>3. \A i \in rows : B[i] = {j \in rows : Smallest(j, i)}
  BY Zenon
<1>4. IsFiniteSet(rows)
  BY StoredRows, Zenon
<1>5. page.items = items /\ page.next = IF fetched = items THEN Last ELSE Position(m)
  BY Zenon DEF fetchPage, retainPage, Top
<1>6. items \subseteq rows /\ ((\E i \in items : \A j \in items \ {i} : Smallest(j, i)) =>
                                  m \in items /\ \A j \in items \ {m} : Smallest(j, m))
  BY Zenon
<1> HIDE DEF m, page, B
<1>7. items = {i \in rows : Cardinality(B[i]) < n} /\ fetched = {i \in rows : Cardinality(B[i]) < n + 1}
  BY <1>3, Zenon
<1> HIDE DEF items, fetched
<1>8. Ordered(rows, B)
  <2>1. \A i \in rows : B[i] \subseteq rows /\ i \notin B[i]
    BY <1>2, <1>3, Zenon
  <2>2. \A i, j \in rows : i \in B[j] => B[i] \subseteq B[j]
    BY <1>t, <1>3, Zenon
  <2>3. \A i, j \in rows : i # j => i \in B[j] \/ j \in B[i]
    BY <1>l, <1>3, Zenon
  <2> QED BY <1>4, <2>1, <2>2, <2>3, Zenon DEF Ordered
<1>9. (\E i \in items : \A j \in items \ {i} : j \in B[i]) => m \in items /\ \A j \in items \ {m} : j \in B[m]
  BY <1>3, <1>6, Zenon
<1>10. Continues(rows, page, B)
  BY <1>5, <1>7, <1>8, <1>9, PageOf, Zenon
<1>11. /\ page.items \subseteq rows
       /\ page.next = Last => page.items = rows
       /\ page.next # Last => \E k \in page.items : /\ page.next = Position(k)
                                                    /\ \A j \in page.items \ {k} : Smallest(j, k)
                                                    /\ \A j \in rows \ page.items : Smallest(k, j)
  BY <1>3, <1>10, Zenon DEF Continues
<1>12. Part(rows, page, Smallest)
  BY <1>11, Zenon DEF Part
<1> QED BY <1>12, Zenon DEF page

LEMMA LargestPage ==
    ASSUME Counting, EntryOK, NEW rows \in SUBSET Stored, NEW n \in Nat \ {0}
    PROVE  Part(rows, fetchPage(rows, Largest, n), Largest)
<1>1. \A i \in rows : i \in Int /\ entry[i].at \in Nat
  BY StoredRows, Zenon
<1>2. \A i \in rows : ~Largest(i, i)
  BY <1>1 DEF Largest
<1>t. \A i, j, k \in rows : Largest(k, i) /\ Largest(i, j) => Largest(k, j)
  BY <1>1 DEF Largest
<1>l. \A i, j \in rows : i # j => Largest(i, j) \/ Largest(j, i)
  BY <1>1 DEF Largest
<1> HIDE DEF Largest
<1> DEFINE B == [i \in rows |-> {j \in rows : Largest(j, i)}]
           page == fetchPage(rows, Largest, n)
           items == {i \in rows : Cardinality({j \in rows : Largest(j, i)}) < n}
           fetched == {i \in rows : Cardinality({j \in rows : Largest(j, i)}) < n + 1}
           m == CHOOSE i \in items : \A j \in items \ {i} : Largest(j, i)
<1>3. \A i \in rows : B[i] = {j \in rows : Largest(j, i)}
  BY Zenon
<1>4. IsFiniteSet(rows)
  BY StoredRows, Zenon
<1>5. page.items = items /\ page.next = IF fetched = items THEN Last ELSE Position(m)
  BY Zenon DEF fetchPage, retainPage, Top
<1>6. items \subseteq rows /\ ((\E i \in items : \A j \in items \ {i} : Largest(j, i)) =>
                                  m \in items /\ \A j \in items \ {m} : Largest(j, m))
  BY Zenon
<1> HIDE DEF m, page, B
<1>7. items = {i \in rows : Cardinality(B[i]) < n} /\ fetched = {i \in rows : Cardinality(B[i]) < n + 1}
  BY <1>3, Zenon
<1> HIDE DEF items, fetched
<1>8. Ordered(rows, B)
  <2>1. \A i \in rows : B[i] \subseteq rows /\ i \notin B[i]
    BY <1>2, <1>3, Zenon
  <2>2. \A i, j \in rows : i \in B[j] => B[i] \subseteq B[j]
    BY <1>t, <1>3, Zenon
  <2>3. \A i, j \in rows : i # j => i \in B[j] \/ j \in B[i]
    BY <1>l, <1>3, Zenon
  <2> QED BY <1>4, <2>1, <2>2, <2>3, Zenon DEF Ordered
<1>9. (\E i \in items : \A j \in items \ {i} : j \in B[i]) => m \in items /\ \A j \in items \ {m} : j \in B[m]
  BY <1>3, <1>6, Zenon
<1>10. Continues(rows, page, B)
  BY <1>5, <1>7, <1>8, <1>9, PageOf, Zenon
<1>11. /\ page.items \subseteq rows
       /\ page.next = Last => page.items = rows
       /\ page.next # Last => \E k \in page.items : /\ page.next = Position(k)
                                                    /\ \A j \in page.items \ {k} : Largest(j, k)
                                                    /\ \A j \in rows \ page.items : Largest(k, j)
  BY <1>3, <1>10, Zenon DEF Continues
<1>12. Part(rows, page, Largest)
  BY <1>11, Zenon DEF Part
<1> QED BY <1>12, Zenon DEF page

Coming(list, after) == {i \in Listed(list) : Beyond(list, i, after)}

\* What the cursor of a row leaves to come is what the order puts after it.
LEMMA BeyondRow ==
    ASSUME Counting, EntryOK, NEW m \in Stored, NEW j \in Stored
    PROVE  /\ \A list \in ByTime : Beyond(list, j, Position(m)) <=> Newer(m, j)
           /\ Beyond("proposals", j, Position(m)) <=> Largest(m, j)
           /\ \A list \in ByID \ {"proposals"} : Beyond(list, j, Position(m)) <=> Smallest(m, j)
<1>1. m \in Int /\ j \in Int /\ entry[m].at \in Nat /\ entry[j].at \in Nat /\ entry[m].at > 0
  BY StoredRows, Zenon
<1>2. Position(m).at = entry[m].at /\ Position(m).id = m
  BY Zenon DEF Position
<1>3. Position(m) # First
  <2>1. First.at = 0 /\ Position(m).at # 0
    BY <1>1, <1>2 DEF First
  <2> QED BY <2>1, Zenon
<1>4. olderThan(j, Position(m)) <=> Newer(m, j)
  BY <1>1, <1>2, <1>3 DEF olderThan, Newer
<1>5. "proposals" \notin ByTime /\ \A list \in ByID \ {"proposals"} : list \notin ByTime
  BY Zenon DEF ByTime, ByID
<1>6. (m > j <=> j < m) /\ (m < j <=> j > m)
  BY <1>1
<1> QED BY <1>2, <1>3, <1>4, <1>5, <1>6, Zenon DEF Beyond, Largest, Smallest

\* Every query of these lists fetches the rows beyond the cursor in the list's order.
LEMMA Queries ==
    ASSUME NEW list \in ByTime \cup ByID, NEW after, NEW limit
    PROVE  /\ list \in ByTime => Page(list, after, limit) = fetchPage(Coming(list, after), Newer, limit)
           /\ list = "proposals" => Page(list, after, limit) = fetchPage(Coming(list, after), Largest, limit)
           /\ list \in ByID \ {"proposals"} =>
                 Page(list, after, limit) = fetchPage(Coming(list, after), Smallest, limit)
<1> DEFINE time(rows) == {i \in rows : olderThan(i, after)}
           id(rows) == {i \in rows : after = First \/ i > after.id}
           back(rows) == {i \in rows : after = First \/ i < after.id}
<1>1. /\ list \in ByTime => Page(list, after, limit) = fetchPage(time(Listed(list)), Newer, limit)
      /\ list = "proposals" => Page(list, after, limit) = fetchPage(back(Listed(list)), Largest, limit)
      /\ list \in ByID \ {"proposals"} => Page(list, after, limit) = fetchPage(id(Listed(list)), Smallest, limit)
  <2> USE DEF Page, Listed, Filtered, ByTime, ByID
  <2>1. CASE list = "users" BY <2>1, Zenon DEF ListUsers, newestFirst
  <2>2. CASE list = "devices" BY <2>2, Zenon DEF ListUserDevices, newestFirst
  <2>3. CASE list = "sessions" BY <2>3, Zenon DEF ListUserSessions, newestFirst
  <2>4. CASE list = "official audit" BY <2>4, Zenon DEF ListOfficialAuditEvents, newestFirst
  <2>5. CASE list = "audit" BY <2>5, Zenon DEF ListAudit, newestFirst
  <2>6. CASE list = "aggregates" BY <2>6, Zenon DEF ListAggregates, newestFirst
  <2>7. CASE list = "proposals" BY <2>7, Zenon DEF ListProposals
  <2>8. CASE list = "definitions" BY <2>8, Zenon DEF ListPlatformDefinitions, byID
  <2>9. CASE list = "drafts" BY <2>9, Zenon DEF ListPlatformDrafts, byID
  <2>10. CASE list = "submissions" BY <2>10, Zenon DEF ListPlatformSubmissions, byID
  <2>11. CASE list = "versions" BY <2>11, Zenon DEF ListPlatformVersions, byID
  <2>12. CASE list = "releases" BY <2>12, Zenon DEF ListOfficialReleases, byID
  <2> QED BY <2>1, <2>2, <2>3, <2>4, <2>5, <2>6, <2>7, <2>8, <2>9, <2>10, <2>11, <2>12, Zenon
<1>2. /\ list \in ByTime => time(Listed(list)) = Coming(list, after)
      /\ list = "proposals" => back(Listed(list)) = Coming(list, after)
      /\ list \in ByID \ {"proposals"} => id(Listed(list)) = Coming(list, after)
  <2>1. "proposals" \notin ByTime /\ \A x \in ByID \ {"proposals"} : x \notin ByTime
    BY Zenon DEF ByTime, ByID
  <2> QED BY <2>1, Zenon DEF Coming, Beyond
<1> HIDE DEF time, id, back
<1> QED BY <1>1, <1>2, Zenon

\* A page of these lists: what it holds is behind its cursor, the rest beyond it.
Continued(list, after, page) ==
    /\ page.items \subseteq Coming(list, after)
    /\ page.next = Last => page.items = Coming(list, after)
    /\ page.next # Last => \E m \in page.items : /\ page.next = Position(m)
                                                 /\ \A j \in page.items : ~Beyond(list, j, page.next)
                                                 /\ \A j \in Coming(list, after) \ page.items :
                                                       Beyond(list, j, page.next)

LEMMA KeysetPage ==
    ASSUME Counting, EntryOK, NEW list \in ByTime \cup ByID, NEW after, NEW limit \in PageLimit
    PROVE  Continued(list, after, Page(list, after, limit))
<1> DEFINE rows == Coming(list, after)
           page == Page(list, after, limit)
<1>1. rows \in SUBSET Stored /\ limit \in Nat \ {0}
  BY StoredRows, PageParameters, Zenon DEF Coming, Listed
<1>2. \A i \in Stored : i \in Int /\ entry[i].at \in Nat
  BY StoredRows, Zenon
<1>3. CASE list \in ByTime
  <2>1. page = fetchPage(rows, Newer, limit)
    BY <1>3, Queries, Zenon
  <2>2. /\ page.items \subseteq rows /\ (page.next = Last => page.items = rows)
        /\ page.next # Last => \E m \in page.items : /\ page.next = Position(m)
                                                     /\ \A j \in page.items \ {m} : Newer(j, m)
                                                     /\ \A j \in rows \ page.items : Newer(m, j)
    <3>1. Part(rows, fetchPage(rows, Newer, limit), Newer)
      BY <1>1, NewestPage, Zenon
    <3>2. Part(rows, page, Newer)
      BY <2>1, <3>1, Zenon
    <3> HIDE DEF page, rows
    <3> QED BY <3>2, Zenon DEF Part
  <2>3. \A m, j \in Stored : Beyond(list, j, Position(m)) <=> Newer(m, j)
    BY <1>3, BeyondRow, Zenon
  <2>4. \A m, j \in Stored : Newer(j, m) \/ j = m => ~Newer(m, j)
    BY <1>2 DEF Newer
  <2> HIDE DEF page, rows
  <2>5. Continued(list, after, page)
    <3>1. ASSUME page.next # Last
          PROVE  \E m \in page.items : /\ page.next = Position(m)
                                       /\ \A j \in page.items : ~Beyond(list, j, page.next)
                                       /\ \A j \in rows \ page.items : Beyond(list, j, page.next)
      <4>1. PICK m \in page.items : /\ page.next = Position(m)
                                    /\ \A j \in page.items \ {m} : Newer(j, m)
                                    /\ \A j \in rows \ page.items : Newer(m, j)
        BY <2>2, <3>1, Zenon
      <4>2. m \in Stored /\ \A j \in rows : j \in Stored
        BY <1>1, <2>2, Zenon
      <4>3. \A j \in page.items : ~Beyond(list, j, Position(m))
        BY <2>2, <2>3, <2>4, <4>1, <4>2, Zenon
      <4>4. \A j \in rows \ page.items : Beyond(list, j, Position(m))
        BY <2>3, <4>1, <4>2, Zenon
      <4> QED BY <4>1, <4>3, <4>4, Zenon
    <3> QED BY <2>2, <3>1, Zenon DEF Continued, rows
  <2> QED BY <2>5, Zenon DEF page
<1>4. CASE list = "proposals"
  <2>1. page = fetchPage(rows, Largest, limit)
    BY <1>4, Queries DEF ByID
  <2>2. /\ page.items \subseteq rows /\ (page.next = Last => page.items = rows)
        /\ page.next # Last => \E m \in page.items : /\ page.next = Position(m)
                                                     /\ \A j \in page.items \ {m} : Largest(j, m)
                                                     /\ \A j \in rows \ page.items : Largest(m, j)
    <3>1. Part(rows, fetchPage(rows, Largest, limit), Largest)
      BY <1>1, LargestPage, Zenon
    <3>2. Part(rows, page, Largest)
      BY <2>1, <3>1, Zenon
    <3> HIDE DEF page, rows
    <3> QED BY <3>2, Zenon DEF Part
  <2>3. \A m, j \in Stored : Beyond(list, j, Position(m)) <=> Largest(m, j)
    BY <1>4, BeyondRow, Zenon
  <2>4. \A m, j \in Stored : Largest(j, m) \/ j = m => ~Largest(m, j)
    BY <1>2 DEF Largest
  <2> HIDE DEF page, rows
  <2>5. Continued(list, after, page)
    <3>1. ASSUME page.next # Last
          PROVE  \E m \in page.items : /\ page.next = Position(m)
                                       /\ \A j \in page.items : ~Beyond(list, j, page.next)
                                       /\ \A j \in rows \ page.items : Beyond(list, j, page.next)
      <4>1. PICK m \in page.items : /\ page.next = Position(m)
                                    /\ \A j \in page.items \ {m} : Largest(j, m)
                                    /\ \A j \in rows \ page.items : Largest(m, j)
        BY <2>2, <3>1, Zenon
      <4>2. m \in Stored /\ \A j \in rows : j \in Stored
        BY <1>1, <2>2, Zenon
      <4>3. \A j \in page.items : ~Beyond(list, j, Position(m))
        BY <2>2, <2>3, <2>4, <4>1, <4>2, Zenon
      <4>4. \A j \in rows \ page.items : Beyond(list, j, Position(m))
        BY <2>3, <4>1, <4>2, Zenon
      <4> QED BY <4>1, <4>3, <4>4, Zenon
    <3> QED BY <2>2, <3>1, Zenon DEF Continued, rows
  <2> QED BY <2>5, Zenon DEF page
<1>5. CASE list \in ByID \ {"proposals"}
  <2>1. page = fetchPage(rows, Smallest, limit)
    BY <1>5, Queries, Zenon
  <2>2. /\ page.items \subseteq rows /\ (page.next = Last => page.items = rows)
        /\ page.next # Last => \E m \in page.items : /\ page.next = Position(m)
                                                     /\ \A j \in page.items \ {m} : Smallest(j, m)
                                                     /\ \A j \in rows \ page.items : Smallest(m, j)
    <3>1. Part(rows, fetchPage(rows, Smallest, limit), Smallest)
      BY <1>1, SmallestPage, Zenon
    <3>2. Part(rows, page, Smallest)
      BY <2>1, <3>1, Zenon
    <3> HIDE DEF page, rows
    <3> QED BY <3>2, Zenon DEF Part
  <2>3. \A m, j \in Stored : Beyond(list, j, Position(m)) <=> Smallest(m, j)
    BY <1>5, BeyondRow, Zenon
  <2>4. \A m, j \in Stored : Smallest(j, m) \/ j = m => ~Smallest(m, j)
    BY <1>2 DEF Smallest
  <2> HIDE DEF page, rows
  <2>5. Continued(list, after, page)
    <3>1. ASSUME page.next # Last
          PROVE  \E m \in page.items : /\ page.next = Position(m)
                                       /\ \A j \in page.items : ~Beyond(list, j, page.next)
                                       /\ \A j \in rows \ page.items : Beyond(list, j, page.next)
      <4>1. PICK m \in page.items : /\ page.next = Position(m)
                                    /\ \A j \in page.items \ {m} : Smallest(j, m)
                                    /\ \A j \in rows \ page.items : Smallest(m, j)
        BY <2>2, <3>1, Zenon
      <4>2. m \in Stored /\ \A j \in rows : j \in Stored
        BY <1>1, <2>2, Zenon
      <4>3. \A j \in page.items : ~Beyond(list, j, Position(m))
        BY <2>2, <2>3, <2>4, <4>1, <4>2, Zenon
      <4>4. \A j \in rows \ page.items : Beyond(list, j, Position(m))
        BY <2>3, <4>1, <4>2, Zenon
      <4> QED BY <4>1, <4>3, <4>4, Zenon
    <3> QED BY <2>2, <3>1, Zenon DEF Continued, rows
  <2> QED BY <2>5, Zenon DEF page
<1> QED BY <1>3, <1>4, <1>5, Zenon

\* A cursor further on leaves nothing to come that was passed.
LEMMA BeyondShrinks ==
    ASSUME Counting, EntryOK, NEW list \in ByTime \cup ByID, NEW after \in [at : Nat, id : Int],
           NEW m \in Stored, Beyond(list, m, after), NEW j \in Stored, Beyond(list, j, Position(m))
    PROVE  Beyond(list, j, after)
<1>1. m \in Int /\ j \in Int /\ entry[m].at \in Nat /\ entry[j].at \in Nat
  BY StoredRows, Zenon
<1>2. after.at \in Nat /\ after.id \in Int
  BY Zenon
<1>3. CASE list \in ByTime
  <2>1. Newer(m, j) /\ olderThan(m, after)
    BY <1>3, BeyondRow, Zenon DEF Beyond
  <2>2. olderThan(j, after)
    BY <1>1, <1>2, <2>1 DEF olderThan, Newer
  <2> QED BY <1>3, <2>2, Zenon DEF Beyond
<1>4. CASE list = "proposals"
  <2>1. list \notin ByTime /\ m > j /\ (after = First \/ m < after.id)
    BY <1>4, BeyondRow, Zenon DEF Beyond, ByTime, Largest
  <2>2. after = First \/ j < after.id
    BY <1>1, <1>2, <2>1
  <2> QED BY <1>4, <2>1, <2>2, Zenon DEF Beyond
<1>5. CASE list \in ByID \ {"proposals"}
  <2>1. list \notin ByTime /\ m < j /\ (after = First \/ m > after.id)
    BY <1>5, BeyondRow, Zenon DEF Beyond, ByTime, ByID, Smallest
  <2>2. after = First \/ j > after.id
    BY <1>1, <1>2, <2>1
  <2> QED BY <1>5, <2>1, <2>2, Zenon DEF Beyond
<1> QED BY <1>3, <1>4, <1>5, Zenon

-----------------------------------------------------------------------------
(* The invariant of a reader.  A row that stayed is still to come or was    *)
(* given; what was given is behind the cursor, or gone.  With OFFSET, the   *)
(* rows above the offset were given as long as none left.                   *)

CursorRow == [list : Lists, position : [at : Nat, id : Int], key : CursorKey \cup {NoKey}]
WalkRow == [phase : {"reading", "done", "refused"}, limit : PageLimit, from : SUBSET Id, left : BOOLEAN,
            cursor : CursorRow]

PageType ==
    /\ EntryOK /\ got \in [Id -> Nat] /\ stirred \subseteq Id
    /\ \/ walk = [phase |-> "idle"] /\ stirred = {} /\ \A i \in Id : got[i] = 0
       \/ walk \in WalkRow

KeysetInv(list, after) ==
    /\ \A i \in walk.from \ stirred : i \in Listed(list) /\ (Beyond(list, i, after) \/ got[i] >= 1)
    /\ \A i \in Id : i \notin stirred \/ list \notin Moving =>
           /\ got[i] <= 1
           /\ got[i] >= 1 => entry[i] = Removed \/ (i \in Stored /\ ~Beyond(list, i, after))

Fresher(i, j) == entry[i].at > entry[j].at \/ (entry[i].at = entry[j].at /\ i < j)
Above(i) == {j \in Matching : Fresher(j, i)}

OffsetInv(after) ==
    /\ after.id >= 0
    /\ \A i \in walk.from \ stirred :
           i \in Matching /\ (~walk.left /\ Cardinality(Above(i)) < after.id => got[i] >= 1)
    /\ stirred = {} => \A i \in Id : got[i] <= 1 /\ (got[i] >= 1 => i \in Matching /\ Cardinality(Above(i)) < after.id)

ReaderInv ==
    walk.phase = "reading" =>
        IF walk.cursor.list \in ByOffset THEN OffsetInv(walk.cursor.position)
        ELSE KeysetInv(walk.cursor.list, walk.cursor.position)

PageInv == PageType /\ ReaderInv /\ (walk.phase = "done" => PagesAreComplete)

Moved(w, q, c, p) ==
    /\ q \in WalkRow /\ q.cursor = c /\ q.phase = p
    /\ q.limit = w.limit /\ q.from = w.from /\ q.left = w.left

LEMMA WalkMoves ==
    ASSUME NEW w \in WalkRow, NEW c \in CursorRow, NEW p \in {"reading", "done", "refused"},
           NEW q, q = [w EXCEPT !.cursor = c, !.phase = p]
    PROVE  Moved(w, q, c, p)
BY Zenon DEF WalkRow, Moved

LEMMA WalkLeaves ==
    ASSUME NEW w \in WalkRow, NEW b \in BOOLEAN, NEW q, q = [w EXCEPT !.left = b]
    PROVE  /\ q \in WalkRow /\ q.cursor = w.cursor /\ q.phase = w.phase
           /\ q.limit = w.limit /\ q.from = w.from /\ q.left = b
BY DEF WalkRow

LEMMA WalkFields ==
    ASSUME NEW w \in WalkRow
    PROVE  /\ w.phase \in {"reading", "done", "refused"} /\ w.limit \in PageLimit /\ w.from \subseteq Id
           /\ w.left \in BOOLEAN /\ w.cursor \in CursorRow /\ w.cursor.list \in Lists
           /\ w.cursor.position \in [at : Nat, id : Int] /\ w.cursor.key \in CursorKey \cup {NoKey}
BY Zenon DEF WalkRow, CursorRow

LEMMA Underway ==
    ASSUME PageInv, walk.phase # "idle"
    PROVE  walk \in WalkRow
<1>1. [phase |-> "idle"].phase = "idle"
  BY Zenon
<1> QED BY <1>1, Zenon DEF PageInv, PageType

\* What the invariant says of the answers
LEMMA Answers == PageInv => PagesAreComplete
<1> SUFFICES ASSUME PageInv PROVE PagesAreComplete
  BY Zenon
<1>1. CASE walk.phase = "done"
  BY <1>1, Zenon DEF PageInv
<1>2. CASE walk.phase = "reading"
  <2> DEFINE list == walk.cursor.list
  <2>1. list \in Lists
    BY <1>2, Underway, WalkFields, Zenon
  <2>2. CASE list \in ByOffset
    <3>1. stirred = {} => \A i \in Id : got[i] <= 1
      BY <1>2, <2>2, Zenon DEF PageInv, ReaderInv, OffsetInv
    <3>2. list \notin ByTime \cup ByID
      BY <2>2, Zenon DEF ByOffset, ByTime, ByID
    <3> QED BY <1>2, <3>1, <3>2, Zenon DEF PagesAreComplete, NothingIsMissed, NothingIsRepeated, Pages
  <2>3. CASE list \notin ByOffset
    <3>1. \A i \in Id : i \notin stirred \/ list \notin Moving => got[i] <= 1
      BY <1>2, <2>3, Zenon DEF PageInv, ReaderInv, KeysetInv
    <3>2. list \in ByID => list \notin Moving
      BY Zenon DEF ByID, Moving
    <3> QED BY <1>2, <2>3, <3>1, <3>2, Zenon DEF PagesAreComplete, NothingIsMissed, NothingIsRepeated, Pages
  <2> QED BY <2>2, <2>3, Zenon
<1>3. CASE walk.phase \notin {"reading", "done"}
  BY <1>3, Zenon DEF PagesAreComplete, NothingIsMissed, NothingIsRepeated, Pages, Walking
<1> QED BY <1>1, <1>2, <1>3, Zenon

LEMMA PageInitially == PgInit => PageInv
<1> SUFFICES ASSUME PgInit PROVE PageInv
  BY Zenon
<1>1. [phase |-> "idle"].phase = "idle"
  BY Zenon
<1>2. walk = [phase |-> "idle"] /\ walk.phase = "idle" /\ stirred = {} /\ got = [i \in Id |-> 0]
  BY <1>1, Zenon DEF PgInit
<1>3. got \in [Id -> Nat] /\ \A i \in Id : got[i] = 0
  BY <1>2
<1>4. EntryOK
  <2>1. [state : {"row"}, at : 1..MaxTime, match : {TRUE}] \subseteq PageRow
    BY Zenon DEF PageRow
  <2> QED BY <2>1, Zenon DEF PgInit, EntryOK
<1> QED BY <1>2, <1>3, <1>4, Zenon DEF PageInv, PageType, ReaderInv

LEMMA BeginKeeps ==
    ASSUME Counting, PageInv, NEW list \in Lists, NEW limit \in PageLimit, beginWalk(list, limit)
    PROVE  PageInv'
<1>1. /\ walk' = [phase |-> "reading", limit |-> limit, from |-> Listed(list), left |-> FALSE,
                  cursor |-> EncodeCursor(list, First, NoKey)]
      /\ UNCHANGED <<entry, got, stirred>> /\ walk.phase = "idle"
  BY Zenon DEF beginWalk
<1>2. EntryOK /\ got \in [Id -> Nat] /\ stirred = {} /\ \A i \in Id : got[i] = 0
  BY <1>1, WalkFields, Zenon DEF PageInv, PageType
<1>3. Listed(list) \subseteq Id
  BY <1>2, StoredRows, Zenon DEF Listed
<1>4. First \in [at : Nat, id : Int] /\ First.id >= 0
  BY DEF First
<1>5. walk' \in WalkRow /\ walk'.phase = "reading" /\ walk'.from = Listed(list) /\ walk'.left = FALSE
      /\ walk'.cursor.list = list /\ walk'.cursor.position = First
  BY <1>1, <1>3, <1>4, Zenon DEF WalkRow, CursorRow, EncodeCursor
<1>6. PageType'
  BY <1>1, <1>2, <1>5, Zenon DEF PageType, EntryOK
<1>7. \A i : Listed(list)' = Listed(list) /\ Matching' = Matching /\ Beyond(list, i, First)'
  BY <1>1, Zenon DEF Listed, Matching, Stored, Beyond, olderThan
<1>8. ~(0 >= 1) /\ 0 <= 1
  OBVIOUS
<1>9. KeysetInv(list, First)'
  BY <1>1, <1>2, <1>5, <1>7, <1>8, Zenon DEF KeysetInv
<1>10. ASSUME list \in ByOffset PROVE OffsetInv(First)'
  <2>1. Listed(list) = Matching
    BY <1>10, Zenon DEF Listed, Filtered, ByOffset
  <2>2. \A i \in Id : Cardinality(Above(i)') \in Nat
    <3>1. \A i \in Id : Above(i)' \in SUBSET Id
      BY <1>1, Zenon DEF Above, Matching, Stored
    <3> QED BY <1>2, <3>1, StoredRows, Zenon
  <2>3. \A i \in Id : ~(Cardinality(Above(i)') < First.id)
    BY <2>2 DEF First
  <2> QED BY <1>1, <1>2, <1>3, <1>4, <1>5, <1>7, <1>8, <2>1, <2>3, Zenon DEF OffsetInv
<1>11. ReaderInv'
  BY <1>5, <1>9, <1>10, Zenon DEF ReaderInv
<1>12. walk'.phase # "done"
  BY <1>5, Zenon
<1> QED BY <1>6, <1>11, <1>12, Zenon DEF PageInv

\* A page of a list that continues from a key (retainUserPage and its likes)
LEMMA KeysetRead ==
    ASSUME Counting, PageInv, NEW list \in ByTime \cup ByID, NEW after \in [at : Nat, id : Int], NEW limit \in PageLimit,
           KeysetInv(list, after), NEW page, page = Page(list, after, limit),
           got' = [i \in Id |-> IF i \in page.items THEN got[i] + 1 ELSE got[i]],
           UNCHANGED <<entry, stirred>>, walk'.from = walk.from
    PROVE  /\ \A i \in walk.from \ stirred : page.next = Last => got'[i] >= 1
           /\ \A i \in Id : i \notin stirred \/ list \notin Moving => got'[i] <= 1
           /\ page.next # Last => KeysetInv(list, page.next)' /\ page.next \in [at : Nat, id : Int]
<1>1. EntryOK /\ got \in [Id -> Nat]
  BY Zenon DEF PageInv, PageType
<1>2. Continued(list, after, page)
  BY <1>1, KeysetPage, Zenon
<1>3. /\ page.items \subseteq Coming(list, after)
      /\ page.next = Last => page.items = Coming(list, after)
  BY <1>2, Zenon DEF Continued
<1>4. \A i \in Id : got[i] \in Nat /\ got'[i] = IF i \in page.items THEN got[i] + 1 ELSE got[i]
  BY <1>1, Zenon
<1>5. \A i \in Id : /\ i \in page.items => got'[i] >= 1 /\ (got[i] = 0 => got'[i] = 1)
                    /\ got[i] >= 1 => got'[i] >= 1
                    /\ ~(got[i] >= 1) <=> got[i] = 0
  BY <1>4
<1>6. \A i \in Coming(list, after) : i \in Listed(list) /\ i \in Stored /\ i \in Id /\ Beyond(list, i, after)
  BY <1>1, StoredRows, Zenon DEF Coming, Listed
<1>7. \A i \in Stored : entry[i] # Removed
  BY Zenon DEF Stored
<1>8. \A i \in walk.from \ stirred : i \in Id /\ (i \in Coming(list, after) \/ got[i] >= 1)
  <2>1. \A i \in walk.from \ stirred : i \in Listed(list) /\ (Beyond(list, i, after) \/ got[i] >= 1)
    BY Zenon DEF KeysetInv
  <2>2. Listed(list) \subseteq Id
    BY <1>1, StoredRows, Zenon DEF Listed
  <2> QED BY <2>1, <2>2, Zenon DEF Coming
<1>9. \A i \in page.items : i \notin stirred \/ list \notin Moving => got[i] = 0
  BY <1>3, <1>5, <1>6, <1>7, Zenon DEF KeysetInv
<1>10. ASSUME NEW i \in walk.from \ stirred, page.next = Last PROVE got'[i] >= 1
  BY <1>3, <1>5, <1>8, <1>10, Zenon
<1>11. ASSUME NEW i \in Id, i \notin stirred \/ list \notin Moving PROVE got'[i] <= 1
  <2>1. CASE i \in page.items
    <3>1. got'[i] = 1 /\ 1 <= 1
      BY <1>5, <1>9, <1>11, <2>1
    <3> QED BY <3>1, Zenon
  <2>2. CASE i \notin page.items
    BY <1>4, <1>11, <2>2, Zenon DEF KeysetInv
  <2> QED BY <2>1, <2>2, Zenon
<1>12. ASSUME page.next # Last PROVE KeysetInv(list, page.next)' /\ page.next \in [at : Nat, id : Int]
  <2>1. PICK m \in page.items : /\ page.next = Position(m)
                                /\ \A j \in page.items : ~Beyond(list, j, page.next)
                                /\ \A j \in Coming(list, after) \ page.items : Beyond(list, j, page.next)
    BY <1>2, <1>12, Zenon DEF Continued
  <2>2. m \in Stored /\ Beyond(list, m, after)
    BY <1>3, <1>6, Zenon
  <2>3. page.next \in [at : Nat, id : Int]
    <3>1. entry[m].at \in Nat /\ m \in Int
      BY <1>1, <2>2, StoredRows, Zenon
    <3>2. Position(m) \in [at : Nat, id : Int]
      BY <3>1, ZenonT(40) DEF Position
    <3> QED BY <2>1, <3>2, Zenon
  <2>4. PICK n : n = page.next
    BY Zenon
  <2>5. \A i : Beyond(list, i, n)' <=> Beyond(list, i, n)
    BY Zenon DEF Beyond, olderThan
  <2>6. Listed(list)' = Listed(list) /\ Stored' = Stored
    BY Zenon DEF Listed, Matching, Stored
  <2>7. \A i \in walk.from \ stirred : i \in Listed(list) /\ (Beyond(list, i, n) \/ got'[i] >= 1)
    BY <1>5, <1>8, <2>1, <2>4, Zenon DEF KeysetInv
  <2>8. \A j \in Stored : Beyond(list, j, n) => Beyond(list, j, after)
    BY <1>1, <2>1, <2>2, <2>4, BeyondShrinks, Zenon
  <2>9. ASSUME NEW i \in Id, i \notin stirred \/ list \notin Moving, got'[i] >= 1
        PROVE  entry[i] = Removed \/ (i \in Stored /\ ~Beyond(list, i, n))
    <3>1. CASE i \in page.items
      BY <1>3, <1>6, <2>1, <2>4, <3>1, Zenon
    <3>2. CASE i \notin page.items
      <4>1. got[i] >= 1
        BY <1>4, <2>9, <3>2, Zenon
      <4>2. entry[i] = Removed \/ (i \in Stored /\ ~Beyond(list, i, after))
        BY <2>9, <4>1, Zenon DEF KeysetInv
      <4> QED BY <2>8, <4>2, Zenon
    <3> QED BY <3>1, <3>2, Zenon
  <2>10. KeysetInv(list, n)'
    BY <1>11, <2>5, <2>6, <2>7, <2>9, Zenon DEF KeysetInv
  <2>11. KeysetInv(list, page.next)'
    BY <2>4, <2>10, Zenon
  <2> QED BY <2>3, <2>11, Zenon
<1> QED BY <1>10, <1>11, <1>12, Zenon

\* How many come before a row, in a list read with OFFSET
LEMMA AboveCounts ==
    ASSUME Counting, EntryOK
    PROVE  /\ Cardinality(Matching) \in Nat
           /\ \A i \in Id : IsFiniteSet(Above(i)) /\ Cardinality(Above(i)) \in Nat
           /\ \A i \in Matching : Cardinality(Above(i)) < Cardinality(Matching)
<1>1. Matching \in SUBSET Id /\ \A i : Above(i) \in SUBSET Matching
  BY Zenon DEF Matching, Stored, Above
<1>2. IsFiniteSet(Matching) /\ Cardinality(Matching) \in Nat
  BY <1>1, StoredRows, Zenon
<1>3. \A i \in Id : IsFiniteSet(Above(i)) /\ Cardinality(Above(i)) \in Nat
  <2>1. \A i \in Id : Above(i) \in SUBSET Id
    BY <1>1, Zenon
  <2> QED BY <2>1, StoredRows, Zenon
<1>4. ASSUME NEW i \in Matching PROVE Cardinality(Above(i)) < Cardinality(Matching)
  <2>1. ~Fresher(i, i)
    <3>1. i \in Int /\ entry[i].at \in Nat
      BY StoredRows, Zenon DEF Matching
    <3> QED BY <3>1 DEF Fresher
  <2>2. Above(i) # Matching
    BY <2>1, Zenon DEF Above
  <2>3. Cardinality(Above(i)) <= Cardinality(Matching) /\ Cardinality(Above(i)) # Cardinality(Matching)
    BY <1>1, <1>2, <2>2, PartsFinite, Zenon
  <2>4. Cardinality(Above(i)) \in Nat
    BY <1>1, <1>3, Zenon
  <2> QED BY <1>2, <2>3, <2>4
<1> QED BY <1>2, <1>3, <1>4, Zenon

\* A page of the Desktop instances (ListInstancesFrom)
LEMMA OffsetRead ==
    ASSUME Counting, PageInv, NEW after \in [at : Nat, id : Int], NEW limit \in PageLimit, OffsetInv(after),
           NEW page, page = ListInstancesFrom(after, limit),
           got' = [i \in Id |-> IF i \in page.items THEN got[i] + 1 ELSE got[i]],
           UNCHANGED <<entry, stirred>>, walk'.from = walk.from, walk'.left = walk.left, walk.from \subseteq Id
    PROVE  /\ page.next = Last => \A i \in walk.from \ stirred : ~walk.left => got'[i] >= 1
           /\ stirred = {} => \A i \in Id : got'[i] <= 1
           /\ page.next # Last => OffsetInv(page.next)' /\ page.next \in [at : Nat, id : Int]
<1> DEFINE reached == after.id + limit
<1>1. EntryOK /\ got \in [Id -> Nat] /\ limit \in Nat \ {0} /\ after.id \in Int /\ after.id >= 0
  BY PageParameters, Zenon DEF PageInv, PageType, OffsetInv
<1>2. reached \in Nat /\ after.id < reached
  BY <1>1
<1>3. /\ page.items = {i \in Matching : Cardinality(Above(i)) < reached}
                       \ {i \in Matching : Cardinality(Above(i)) < after.id}
      /\ page.next = IF reached < Cardinality(Matching) THEN [at |-> 0, id |-> reached] ELSE Last
  BY Zenon DEF ListInstancesFrom, Top, Above, Fresher
<1> HIDE DEF reached
<1>4. \A i \in Id : got[i] \in Nat /\ got'[i] = IF i \in page.items THEN got[i] + 1 ELSE got[i]
  BY <1>1, Zenon
<1>5. \A i \in Id : /\ i \in page.items => got'[i] >= 1 /\ (got[i] = 0 => got'[i] <= 1)
                    /\ got[i] >= 1 => got'[i] >= 1
                    /\ ~(got[i] >= 1) <=> got[i] = 0
  BY <1>4
<1>6. \A i \in Id : Cardinality(Above(i)) < after.id => Cardinality(Above(i)) < reached
  BY <1>1, <1>2, AboveCounts
<1>7. \A i \in Matching : i \in Id
  BY Zenon DEF Matching, Stored
<1>8. ASSUME NEW i \in walk.from \ stirred, ~walk.left, Cardinality(Above(i)) < reached PROVE got'[i] >= 1
  <2>1. i \in Matching /\ i \in Id
    BY <1>7, Zenon DEF OffsetInv
  <2>2. CASE i \in page.items
    BY <1>5, <2>1, <2>2, Zenon
  <2>3. CASE i \notin page.items
    <3>1. Cardinality(Above(i)) < after.id
      BY <1>3, <1>8, <2>1, <2>3, Zenon
    <3>2. got[i] >= 1
      BY <1>8, <3>1, Zenon DEF OffsetInv
    <3> QED BY <1>5, <2>1, <3>2, Zenon
  <2> QED BY <2>2, <2>3, Zenon
<1>9. ASSUME stirred = {}, NEW i \in Id
      PROVE  got'[i] <= 1 /\ (got'[i] >= 1 => i \in Matching /\ Cardinality(Above(i)) < reached)
  <2>1. got[i] <= 1 /\ (got[i] >= 1 => i \in Matching /\ Cardinality(Above(i)) < after.id)
    BY <1>9, Zenon DEF OffsetInv
  <2>2. CASE i \in page.items
    <3>1. i \in Matching /\ Cardinality(Above(i)) < reached /\ ~(Cardinality(Above(i)) < after.id)
      BY <1>3, <2>2, Zenon
    <3> QED BY <1>5, <2>1, <2>2, <3>1, Zenon
  <2>3. CASE i \notin page.items
    BY <1>4, <1>6, <2>1, <2>3, Zenon
  <2> QED BY <2>2, <2>3, Zenon
<1>10. ASSUME page.next = Last, NEW i \in walk.from \ stirred, ~walk.left PROVE got'[i] >= 1
  <2>1. i \in Matching /\ i \in Id
    BY <1>7, Zenon DEF OffsetInv
  <2>2. [at |-> 0, id |-> reached] # Last
    <3>1. reached # -1 /\ Last.id = -1 /\ [at |-> 0, id |-> reached].id = reached
      BY <1>2 DEF Last
    <3> QED BY <3>1, Zenon
  <2>3. ~(reached < Cardinality(Matching))
    BY <1>3, <1>10, <2>2, Zenon
  <2>4. Cardinality(Above(i)) < Cardinality(Matching) /\ Cardinality(Above(i)) \in Nat /\ Cardinality(Matching) \in Nat
    BY <1>1, <2>1, AboveCounts, Zenon
  <2>5. Cardinality(Above(i)) < reached
    BY <1>2, <2>3, <2>4
  <2> QED BY <1>8, <1>10, <2>5, Zenon
<1>11. ASSUME page.next # Last PROVE OffsetInv(page.next)' /\ page.next \in [at : Nat, id : Int]
  <2>1. page.next = [at |-> 0, id |-> reached]
    BY <1>3, <1>11, Zenon
  <2>2. page.next \in [at : Nat, id : Int] /\ page.next.id = reached /\ reached >= 0
    BY <1>2, <2>1
  <2>3. PICK n : n = page.next
    BY Zenon
  <2>4. Matching' = Matching /\ \A i : Above(i)' = Above(i)
    BY Zenon DEF Matching, Stored, Above, Fresher
  <2>5. \A i \in walk.from \ stirred : i \in Matching
    BY Zenon DEF OffsetInv
  <2>6. n.id = reached
    BY <2>2, <2>3, Zenon
  <2>7. OffsetInv(n)'
    BY <1>8, <1>9, <2>2, <2>4, <2>5, <2>6, Zenon DEF OffsetInv
  <2>8. OffsetInv(page.next)'
    BY <2>3, <2>7, Zenon
  <2> QED BY <2>2, <2>8, Zenon
<1> QED BY <1>9, <1>10, <1>11, Zenon

LEMMA ReadKeeps ==
    ASSUME Counting, PageInv, NEW k \in CursorKey, readPage(k)
    PROVE  PageInv'
<1>1. walk.phase = "reading" /\ walk \in WalkRow
  BY Underway, Zenon DEF readPage
<1>2. PICK list \in Lists, after \in [at : Nat, id : Int], limit \in PageLimit :
          list = walk.cursor.list /\ after = walk.cursor.position /\ limit = walk.limit
  BY <1>1, WalkFields, Zenon
<1>3. PICK page : page = Page(list, after, limit)
  BY Zenon
<1>4. /\ got' = [i \in Id |-> IF i \in page.items THEN got[i] + 1 ELSE got[i]]
      /\ walk' = [walk EXCEPT !.cursor = EncodeCursor(list, page.next, k),
                              !.phase = IF page.next = Last THEN "done" ELSE "reading"]
      /\ UNCHANGED <<entry, stirred>>
  BY <1>2, <1>3, Zenon DEF readPage
<1>5. ASSUME page.next \in [at : Nat, id : Int]
      PROVE  /\ walk' \in WalkRow /\ walk'.limit = walk.limit /\ walk'.from = walk.from /\ walk'.left = walk.left
             /\ walk'.phase = (IF page.next = Last THEN "done" ELSE "reading")
             /\ walk'.cursor.list = list /\ walk'.cursor.position = page.next
  <2>1. PICK c : c = EncodeCursor(list, page.next, k)
    BY Zenon
  <2>2. c \in CursorRow /\ c.list = list /\ c.position = page.next
    BY <1>5, <2>1, Zenon DEF EncodeCursor, CursorRow
  <2>3. PICK p \in {"reading", "done", "refused"} : p = IF page.next = Last THEN "done" ELSE "reading"
    BY Zenon
  <2>4. walk' = [walk EXCEPT !.cursor = c, !.phase = p]
    BY <1>4, <2>1, <2>3, Zenon
  <2>5. /\ walk' \in WalkRow /\ walk'.cursor = c /\ walk'.phase = p
        /\ walk'.limit = walk.limit /\ walk'.from = walk.from /\ walk'.left = walk.left
    <3>1. Moved(walk, walk', c, p)
      BY <1>1, <2>2, <2>4, WalkMoves, Zenon
    <3> QED BY <3>1, Zenon DEF Moved
  <2> QED BY <2>2, <2>3, <2>5, Zenon
<1>6. walk'.from = walk.from /\ walk'.left = walk.left
  BY <1>1, <1>4, Zenon DEF WalkRow
<1>7. Last \in [at : Nat, id : Int]
  BY DEF Last
<1>8. EntryOK' /\ got' \in [Id -> Nat] /\ stirred' \subseteq Id
  <2>1. got \in [Id -> Nat]
    BY Zenon DEF PageInv, PageType
  <2>2. got' \in [Id -> Nat]
    BY <1>4, <2>1
  <2> QED BY <1>4, <2>2, Zenon DEF PageInv, PageType, EntryOK
<1>9. CASE list \in ByOffset
  <2>1. page = ListInstancesFrom(after, limit)
    BY <1>3, <1>9, Zenon DEF Page, ByOffset
  <2>2. OffsetInv(after) /\ walk.from \subseteq Id
    BY <1>1, <1>2, <1>9, WalkFields, Zenon DEF PageInv, ReaderInv
  <2>3. /\ page.next = Last => \A i \in walk.from \ stirred : ~walk.left => got'[i] >= 1
        /\ stirred = {} => \A i \in Id : got'[i] <= 1
        /\ page.next # Last => OffsetInv(page.next)' /\ page.next \in [at : Nat, id : Int]
    BY <1>4, <1>6, <2>1, <2>2, OffsetRead, Zenon
  <2>4. page.next \in [at : Nat, id : Int]
    BY <1>7, <2>3, Zenon
  <2>5. ReaderInv'
    BY <1>5, <1>9, <2>3, <2>4, Zenon DEF ReaderInv
  <2>6. list \notin ByTime \cup ByID
    BY <1>9, Zenon DEF ByOffset, ByTime, ByID
  <2>7. ASSUME page.next = Last PROVE PagesAreComplete'
    BY <1>4, <1>5, <1>6, <1>9, <2>3, <2>4, <2>6, <2>7, Zenon
       DEF PagesAreComplete, NothingIsMissed, NothingIsRepeated, Pages
  <2>8. walk'.phase = "done" => page.next = Last
    BY <1>5, <2>4, Zenon
  <2> QED BY <1>5, <1>8, <2>4, <2>5, <2>7, <2>8, Zenon DEF PageInv, PageType
<1>10. CASE list \notin ByOffset
  <2>1. list \in ByTime \cup ByID
    BY <1>10, Zenon DEF Lists
  <2>2. KeysetInv(list, after)
    BY <1>1, <1>2, <1>10, Zenon DEF PageInv, ReaderInv
  <2>3. /\ \A i \in walk.from \ stirred : page.next = Last => got'[i] >= 1
        /\ \A i \in Id : i \notin stirred \/ list \notin Moving => got'[i] <= 1
        /\ page.next # Last => KeysetInv(list, page.next)' /\ page.next \in [at : Nat, id : Int]
    BY <1>3, <1>4, <1>6, <2>1, <2>2, KeysetRead
  <2>4. page.next \in [at : Nat, id : Int]
    BY <1>7, <2>3, Zenon
  <2>5. ReaderInv'
    BY <1>5, <1>10, <2>3, <2>4, Zenon DEF ReaderInv
  <2>6. list \in ByID => list \notin Moving
    BY Zenon DEF ByID, Moving
  <2>7. ASSUME page.next = Last PROVE PagesAreComplete'
    BY <1>4, <1>5, <1>6, <1>10, <2>3, <2>4, <2>6, <2>7, Zenon
       DEF PagesAreComplete, NothingIsMissed, NothingIsRepeated, Pages
  <2>8. walk'.phase = "done" => page.next = Last
    BY <1>5, <2>4, Zenon
  <2> QED BY <1>5, <1>8, <2>4, <2>5, <2>7, <2>8, Zenon DEF PageInv, PageType
<1> QED BY <1>9, <1>10, Zenon

\* What may happen to a row while the reader is between two pages
Changed(i, row) ==
    \/ entry[i] = NoEntry /\ row \in PageRow
    \/ i \in Stored /\ row = Removed
    \/ i \in Stored /\ row \in PageRow /\ row.at = entry[i].at
    \/ /\ i \in Stored /\ row \in PageRow /\ walk.cursor.list \in Moving
       /\ row.match = entry[i].match /\ row.at > entry[i].at

LEMMA ChangesKeyset ==
    ASSUME EntryOK, NEW i \in Id, NEW row, Changed(i, row), NEW list, list = walk.cursor.list, NEW after,
           KeysetInv(list, after), entry' = [entry EXCEPT ![i] = row], stirred' = stirred \cup {i},
           got' = got, walk'.from = walk.from, got \in [Id -> Nat], walk.from \subseteq Id
    PROVE  KeysetInv(list, after)'
<1>1. \A j \in Id : entry'[j] = IF j = i THEN row ELSE entry[j]
  BY Zenon DEF EntryOK
<1>2. \A j \in Id \ {i} : /\ Beyond(list, j, after)' <=> Beyond(list, j, after)
                          /\ j \in Stored' <=> j \in Stored
                          /\ j \in Listed(list)' <=> j \in Listed(list)
  BY <1>1, Zenon DEF Beyond, olderThan, Stored, Matching, Listed
<1>3. \A j \in walk.from \ stirred' : j \in Listed(list)' /\ (Beyond(list, j, after)' \/ got[j] >= 1)
  BY <1>2, Zenon DEF KeysetInv
<1>4. NoEntry # Removed /\ \A j \in Stored : entry[j] # NoEntry /\ entry[j] # Removed
  <2>1. NoEntry.state # Removed.state
    BY Zenon DEF NoEntry, Removed
  <2> QED BY <2>1, Zenon DEF Stored
<1>5. ASSUME list \notin Moving, got[i] >= 1
      PROVE  entry'[i] = Removed \/ (i \in Stored' /\ ~Beyond(list, i, after)')
  <2>1. entry[i] = Removed \/ (i \in Stored /\ ~Beyond(list, i, after))
    BY <1>5, Zenon DEF KeysetInv
  <2>2. i \in Stored /\ ~Beyond(list, i, after)
    BY <1>4, <2>1, Zenon DEF Changed
  <2>3. CASE row = Removed
    BY <1>1, <2>3, Zenon
  <2>4. CASE row \in PageRow /\ row.at = entry[i].at
    <3>1. Beyond(list, i, after)' <=> Beyond(list, i, after)
      BY <1>1, <2>4, Zenon DEF Beyond, olderThan
    <3>2. \A r \in PageRow : r # NoEntry /\ r # Removed
      <4>1. NoEntry.state # "row" /\ Removed.state # "row" /\ \A r \in PageRow : r.state = "row"
        BY Zenon DEF PageRow, NoEntry, Removed
      <4> QED BY <4>1, Zenon
    <3>3. i \in Stored'
      BY <1>1, <2>4, <3>2, Zenon DEF Stored
    <3> QED BY <2>2, <3>1, <3>3, Zenon
  <2> QED BY <1>4, <1>5, <2>2, <2>3, <2>4, Zenon DEF Changed
<1>6. \A j \in Id : j \notin stirred' \/ list \notin Moving =>
          /\ got[j] <= 1
          /\ got[j] >= 1 => entry'[j] = Removed \/ (j \in Stored' /\ ~Beyond(list, j, after)')
  <2> SUFFICES ASSUME NEW j \in Id, j \notin stirred' \/ list \notin Moving
               PROVE  /\ got[j] <= 1
                      /\ got[j] >= 1 => entry'[j] = Removed \/ (j \in Stored' /\ ~Beyond(list, j, after)')
    BY Zenon
  <2>1. CASE j = i
    <3>1. list \notin Moving
      BY <2>1, Zenon
    <3> QED BY <1>5, <2>1, <3>1, Zenon DEF KeysetInv
  <2>2. CASE j # i
    <3>1. j \notin stirred \/ list \notin Moving
      BY Zenon
    <3>2. got[j] <= 1 /\ (got[j] >= 1 => entry[j] = Removed \/ (j \in Stored /\ ~Beyond(list, j, after)))
      BY <3>1, Zenon DEF KeysetInv
    <3> QED BY <1>1, <1>2, <2>2, <3>2, Zenon
  <2> QED BY <2>1, <2>2, Zenon
<1> QED BY <1>3, <1>6, Zenon DEF KeysetInv

LEMMA ChangesOffset ==
    ASSUME Counting, EntryOK, EntryOK', NEW i \in Id, NEW row, Changed(i, row), NEW after \in [at : Nat, id : Int],
           OffsetInv(after), entry' = [entry EXCEPT ![i] = row], stirred' = stirred \cup {i},
           got' = got, walk'.from = walk.from, walk.left \in BOOLEAN,
           walk'.left = (walk.left \/ (i \in Matching /\ (row = Removed \/ ~row.match)))
    PROVE  OffsetInv(after)'
<1>1. \A j \in Id : entry'[j] = IF j = i THEN row ELSE entry[j]
  BY Zenon DEF EntryOK
<1>2. \A j \in Id \ {i} : j \in Matching' <=> j \in Matching
  BY <1>1, Zenon DEF Matching, Stored
<1>3. ASSUME i \in Matching, ~walk'.left
      PROVE  i \in Matching' /\ entry[i].at \in Nat /\ entry'[i].at \in Nat /\ entry'[i].at >= entry[i].at
  <2>1. row # Removed /\ row.match /\ i \in Stored
    BY <1>3, Zenon DEF Matching
  <2>2. row \in PageRow /\ (row.at = entry[i].at \/ row.at > entry[i].at)
    BY <2>1, Zenon DEF Changed, Stored
  <2>3. \A r \in PageRow : r # NoEntry /\ r # Removed
    <3>1. NoEntry.state # "row" /\ Removed.state # "row" /\ \A r \in PageRow : r.state = "row"
      BY Zenon DEF PageRow, NoEntry, Removed
    <3> QED BY <3>1, Zenon
  <2>4. i \in Matching' /\ i \in Stored'
    BY <1>1, <2>1, <2>2, <2>3, Zenon DEF Matching, Stored
  <2>5. entry[i].at \in Nat
    BY <2>1, StoredRows, Zenon
  <2>6. row.at \in Nat
    <3>1. row.at \in 1..MaxTime
      BY <2>2, Zenon DEF PageRow
    <3> QED BY <3>1, PageParameters
  <2>7. entry'[i] = row
    BY <1>1, Zenon
  <2>8. row.at >= entry[i].at
    BY <2>2, <2>5, <2>6
  <2> QED BY <2>4, <2>5, <2>6, <2>7, <2>8, Zenon
<1>4. ASSUME NEW k \in walk.from \ stirred', ~walk'.left PROVE Above(k) \subseteq Above(k)'
  <2>1. k \in Matching /\ k # i /\ k \in Id
    BY Zenon DEF OffsetInv, Matching, Stored
  <2>2. ASSUME NEW j \in Above(k) PROVE j \in Above(k)'
    <3>1. j \in Matching /\ Fresher(j, k) /\ j \in Id
      BY Zenon DEF Above, Matching, Stored
    <3>2. CASE j # i
      BY <1>1, <1>2, <2>1, <3>1, <3>2, Zenon DEF Above, Fresher
    <3>3. CASE j = i
      <4>1. i \in Matching' /\ entry[i].at \in Nat /\ entry'[i].at \in Nat /\ entry'[i].at >= entry[i].at
        BY <1>3, <1>4, <3>1, <3>3, Zenon
      <4>2. entry'[k] = entry[k] /\ entry[k].at \in Nat
        BY <1>1, <2>1, StoredRows, Zenon DEF Matching
      <4>3. Fresher(i, k)'
        BY <3>1, <3>3, <4>1, <4>2 DEF Fresher
      <4> QED BY <3>3, <4>1, <4>3, Zenon DEF Above
    <3> QED BY <3>2, <3>3, Zenon
  <2> QED BY <2>2, Zenon
<1>5. ASSUME NEW k \in walk.from \ stirred'
      PROVE  k \in Matching' /\ (~walk'.left /\ Cardinality(Above(k)') < after.id => got[k] >= 1)
  <2>1. k \in Matching /\ k # i /\ k \in Id /\ (~walk.left /\ Cardinality(Above(k)) < after.id => got[k] >= 1)
    BY Zenon DEF OffsetInv, Matching, Stored
  <2>2. ASSUME ~walk'.left, Cardinality(Above(k)') < after.id PROVE got[k] >= 1
    <3>1. Above(k) \in SUBSET (Above(k)')
      BY <1>4, <2>2, Zenon
    <3>2. IsFiniteSet(Above(k)') /\ Cardinality(Above(k)') \in Nat
      <4>1. Above(k)' \in SUBSET Id
        BY Zenon DEF Above, Matching, Stored
      <4> QED BY <4>1, StoredRows, Zenon
    <3>3. Cardinality(Above(k)) \in Nat
      BY <2>1, AboveCounts, Zenon
    <3>4. Cardinality(Above(k)) <= Cardinality(Above(k)')
      BY <3>1, <3>2, PartsFinite, Zenon
    <3>5. after.id \in Int
      BY Zenon
    <3>6. Cardinality(Above(k)) < after.id
      BY <2>2, <3>2, <3>3, <3>4, <3>5
    <3> QED BY <2>1, <2>2, <3>6, Zenon
  <2> QED BY <1>2, <2>1, <2>2, Zenon
<1>6. after.id >= 0 /\ stirred' # {}
  BY Zenon DEF OffsetInv
<1> QED BY <1>5, <1>6, Zenon DEF OffsetInv

LEMMA ChangeKeeps ==
    ASSUME Counting, PageInv, walk.phase = "reading", NEW i \in Id, NEW row, Changed(i, row), change(i, row)
    PROVE  PageInv'
<1>1. /\ entry' = [entry EXCEPT ![i] = row] /\ stirred' = stirred \cup {i} /\ got' = got
      /\ walk' = [walk EXCEPT !.left = walk.left \/ (i \in Matching /\ (row = Removed \/ ~row.match))]
  BY Zenon DEF change
<1>2. /\ walk \in WalkRow /\ EntryOK /\ got \in [Id -> Nat] /\ stirred \subseteq Id
  BY Underway, Zenon DEF PageInv, PageType
<1>3. PICK b \in BOOLEAN : b = (walk.left \/ (i \in Matching /\ (row = Removed \/ ~row.match)))
  BY Zenon
<1>4. walk' = [walk EXCEPT !.left = b]
  BY <1>1, <1>3, Zenon
<1>5. /\ walk' \in WalkRow /\ walk'.cursor = walk.cursor /\ walk'.phase = walk.phase
      /\ walk'.from = walk.from /\ walk'.left = b
  BY <1>2, <1>4, WalkLeaves, Zenon
<1>6. EntryOK' /\ stirred' \subseteq Id
  <2>1. row \in {Removed} \cup PageRow
    BY Zenon DEF Changed
  <2> QED BY <1>1, <1>2, <2>1, Zenon DEF EntryOK
<1>7. PICK list \in Lists, after \in [at : Nat, id : Int] :
          list = walk.cursor.list /\ after = walk.cursor.position
  BY <1>2, WalkFields, Zenon
<1>8. walk.from \subseteq Id /\ walk.left \in BOOLEAN
  BY <1>2, WalkFields, Zenon
<1>9. ASSUME list \in ByOffset PROVE OffsetInv(after)'
  <2>1. OffsetInv(after)
    BY <1>7, <1>9, Zenon DEF PageInv, ReaderInv
  <2>2. walk'.left = (walk.left \/ (i \in Matching /\ (row = Removed \/ ~row.match)))
    BY <1>3, <1>5, Zenon
  <2>3. entry' = [entry EXCEPT ![i] = row] /\ stirred' = stirred \cup {i} /\ got' = got /\ walk'.from = walk.from
    BY <1>1, <1>5, Zenon
  <2>4. EntryOK /\ EntryOK' /\ walk.left \in BOOLEAN
    BY <1>2, <1>6, <1>8, Zenon
  <2> QED BY <2>1, <2>2, <2>3, <2>4, ChangesOffset, Zenon
<1>10. ASSUME list \notin ByOffset PROVE KeysetInv(list, after)'
  <2>1. KeysetInv(list, after)
    BY <1>7, <1>10, Zenon DEF PageInv, ReaderInv
  <2> QED BY <1>1, <1>2, <1>5, <1>7, <1>8, <2>1, ChangesKeyset, Zenon
<1>11. ReaderInv'
  BY <1>5, <1>7, <1>9, <1>10, Zenon DEF ReaderInv
<1> QED BY <1>1, <1>2, <1>5, <1>6, <1>11, Zenon DEF PageInv, PageType

LEMMA RowsRewritten ==
    ASSUME NEW r \in PageRow
    PROVE  /\ \A b \in BOOLEAN : [r EXCEPT !.match = b] \in PageRow /\ [r EXCEPT !.match = b].at = r.at
           /\ \A t \in 1..MaxTime : /\ [r EXCEPT !.at = t] \in PageRow /\ [r EXCEPT !.at = t].at = t
                                    /\ [r EXCEPT !.at = t].match = r.match
           /\ \A t \in 1..MaxTime : [state |-> "row", at |-> t, match |-> TRUE] \in PageRow
BY Zenon DEF PageRow

LEMMA PageStep ==
    ASSUME Counting
    PROVE  PageInv /\ [PgNext]_pageVars => PageInv'
<1> SUFFICES ASSUME PageInv, [PgNext]_pageVars PROVE PageInv'
  BY Zenon
<1>0. EntryOK
  BY Zenon DEF PageInv, PageType
<1>1. ASSUME UNCHANGED <<entry, walk, got, stirred>> PROVE PageInv'
  <2>1. PageType'
    BY <1>1, Zenon DEF PageInv, PageType, EntryOK
  <2>2. ReaderInv'
    BY <1>1, Zenon DEF PageInv, ReaderInv, KeysetInv, OffsetInv, Beyond, olderThan, Above, Fresher, Listed, Matching,
                       Stored
  <2>3. walk'.phase = "done" => PagesAreComplete'
    BY <1>1, Zenon DEF PageInv, PagesAreComplete, NothingIsMissed, NothingIsRepeated, Pages, Walking
  <2> QED BY <2>1, <2>2, <2>3, Zenon DEF PageInv
<1>2. ASSUME NEW list \in Lists, NEW limit \in PageLimit, beginWalk(list, limit) PROVE PageInv'
  BY <1>2, BeginKeeps, Zenon
<1>3. ASSUME NEW k \in CursorKey, readPage(k) PROVE PageInv'
  BY <1>3, ReadKeeps, Zenon
<1>4. ASSUME NEW k \in CursorKey, retireCursorKey(k) PROVE PageInv'
  BY <1>1, <1>4, Zenon DEF retireCursorKey
<1>5. ASSUME cursorRefused PROVE PageInv'
  <2>1. walk \in WalkRow
    BY <1>5, Underway, Zenon DEF cursorRefused
  <2>2. walk' \in WalkRow /\ walk'.phase = "refused" /\ UNCHANGED <<entry, got, stirred>>
    BY <1>5, <2>1, Zenon DEF cursorRefused, WalkRow
  <2> QED BY <2>2, Zenon DEF PageInv, PageType, ReaderInv, EntryOK
<1>6. ASSUME NEW i \in Id, walk.phase = "reading", insertEntry(i) PROVE PageInv'
  <2>1. PICK at \in 1..MaxTime : entry[i] = NoEntry /\ change(i, [state |-> "row", at |-> at, match |-> TRUE])
    BY <1>6, Zenon DEF insertEntry
  <2>2. PICK row : row = [state |-> "row", at |-> at, match |-> TRUE]
    BY Zenon
  <2>3. Changed(i, row) /\ change(i, row)
    BY <2>1, <2>2, Zenon DEF Changed, PageRow
  <2> QED BY <1>6, <2>3, ChangeKeeps, Zenon
<1>7. ASSUME NEW i \in Id, walk.phase = "reading", refilter(i) PROVE PageInv'
  <2>1. i \in Stored /\ change(i, [entry[i] EXCEPT !.match = ~entry[i].match])
    BY <1>7, Zenon DEF refilter
  <2>2. PICK row : row = [entry[i] EXCEPT !.match = ~entry[i].match]
    BY Zenon
  <2>3. entry[i] \in PageRow /\ (~entry[i].match) \in BOOLEAN
    BY <1>0, <2>1, StoredRows, Zenon
  <2>4. row \in PageRow /\ row.at = entry[i].at
    BY <2>2, <2>3, RowsRewritten, Zenon
  <2>5. Changed(i, row) /\ change(i, row)
    BY <2>1, <2>2, <2>4, Zenon DEF Changed
  <2> QED BY <1>7, <2>5, ChangeKeeps, Zenon
<1>8. ASSUME NEW i \in Id, walk.phase = "reading", touch(i) PROVE PageInv'
  <2>1. PICK at \in (entry[i].at + 1)..MaxTime : /\ change(i, [entry[i] EXCEPT !.at = at])
                                                 /\ i \in Stored /\ walk.cursor.list \in Moving
    BY <1>8, Zenon DEF touch
  <2>2. PICK row : row = [entry[i] EXCEPT !.at = at]
    BY Zenon
  <2>3. entry[i] \in PageRow /\ entry[i].at \in Nat
    BY <1>0, <2>1, StoredRows, Zenon
  <2>4. at \in 1..MaxTime /\ at > entry[i].at
    BY <2>3, PageParameters
  <2>5. row \in PageRow /\ row.at = at /\ row.match = entry[i].match
    BY <2>2, <2>3, <2>4, RowsRewritten, Zenon
  <2>6. Changed(i, row) /\ change(i, row)
    BY <2>1, <2>2, <2>4, <2>5, Zenon DEF Changed
  <2> QED BY <1>8, <2>6, ChangeKeeps, Zenon
<1>9. ASSUME NEW i \in Id, walk.phase = "reading", remove(i) PROVE PageInv'
  BY <1>9, ChangeKeeps, Zenon DEF remove, Changed
<1>10. CASE UNCHANGED pageVars
  BY <1>1, <1>10, Zenon DEF pageVars
<1>11. CASE PgNext
  BY <1>2, <1>3, <1>4, <1>5, <1>6, <1>7, <1>8, <1>9, <1>11, Zenon DEF PgNext
<1> QED BY <1>10, <1>11, Zenon

-----------------------------------------------------------------------------
(* The theorems that count.  The library's facts come last: no lemma above  *)
(* has to be searched with them in sight.                                   *)

INSTANCE FiniteSetTheorems

LEMMA CountingHolds == Counting
<1>1. \A S : IsFiniteSet(S) => Cardinality(S) \in Nat
  BY FS_CardinalityType, Zenon
<1>2. \A S : IsFiniteSet(S) => \A T \in SUBSET S : Smaller(T, S)
  BY FS_Subset, Zenon DEF Smaller
<1>3. \A S, x : IsFiniteSet(S) /\ x \notin S => Cardinality(S \cup {x}) = Cardinality(S) + 1
  BY FS_AddElement, Zenon
<1>4. ASSUME NEW T \in SUBSET Nat, T # {} PROVE \E x \in T : \A y \in T : x <= y
  <2>1. PICK x \in T : \A y \in T : ~(<<y, x>> \in OpToRel(<, Nat))
    BY <1>4, NatLessThanWellFounded, WFMin, Zenon
  <2>2. \A y \in T : ~(y < x)
    BY <1>4, <2>1, Zenon DEF OpToRel
  <2>3. \A y \in T : x <= y
    BY <1>4, <2>2
  <2> QED BY <2>3, Zenon
<1>5. Cardinality({}) = 0
  BY FS_EmptySet, Zenon
<1> QED BY <1>1, <1>2, <1>3, <1>4, <1>5, Zenon DEF Counting

\* The inductive invariant: what each row of the table, its history and the
\* request that inserts it have to do with each other.
THEOREM Invariance == Spec => []IInv
<1>1. IInv /\ [Next]_vars => IInv'
  BY CountingHolds, NextInv, Zenon
<1> QED BY <1>1, InitInv, PTL DEF Spec

\* Every reachable state is well typed; failed_attempts stays within the range
\* that the table's CHECK allows.
THEOREM TypeCorrect == Spec => []TypeOK
<1>1. IInv => TypeOK
  BY Zenon DEF IInv
<1> QED BY <1>1, Invariance, PTL

\* The failures on record are the wrong codes compared, for every number of
\* concurrent verifications: the row lock of Consume loses no guess.
THEOREM GuessesAreBounded == Spec => []EveryGuessCounts
<1>1. IInv => EveryGuessCounts
  <2> SUFFICES ASSUME IInv, NEW c \in Send
               PROVE  /\ history[c].wrong = challenges[c].failed
                      /\ history[c].wrong <= MaxFailures
                      /\ challenges[c].state = "consumed" => challenges[c].failed < MaxFailures
    BY Zenon DEF EveryGuessCounts
  <2>1. CodeInv(challenges[c], history[c], send[c].pc) /\ challenges[c] \in Row
    BY Zenon DEF IInv, TypeOK
  <2> QED BY <2>1, Parameters DEF CodeInv, Row
<1> QED BY <1>1, Invariance, PTL

\* A code is accepted at most once and authorizes at most one account operation,
\* whatever receipts were handed out.
THEOREM ReceiptsAreSingleUse == Spec => []OneUsePerCode
<1>1. IInv => OneUsePerCode
  <2> SUFFICES ASSUME IInv, NEW c \in Send
               PROVE  history[c].used <= history[c].accepted /\ history[c].accepted <= 1
    BY Zenon DEF OneUsePerCode
  <2>1. CodeInv(challenges[c], history[c], send[c].pc) /\ history[c] \in Hist
    BY Zenon DEF IInv, TypeOK, Hist
  <2> QED BY <2>1 DEF CodeInv, Hist
<1> QED BY <1>1, Invariance, PTL

\* The delay between two codes to a phone, where every purpose shares the
\* counter: it holds for every delay and every number of overlapping requests,
\* none of which sees the challenge another has yet to save.
THEOREM DelayBetweenCodes == ASSUME Unified = Purpose PROVE Spec => []ResendDelayIsKept
<1>1. DelayInv => ResendDelayIsKept
  <2> SUFFICES ASSUME DelayInv, NEW r \in Send, NEW s \in Send,
                      r # s, send[r].delivered, send[s].delivered
               PROVE  \/ send[r].at >= send[s].at + ResendDelay
                      \/ send[s].at >= send[r].at + ResendDelay
    BY Zenon DEF ResendDelayIsKept
  <2>1. Phone(r) /\ Phone(s)
    BY Zenon DEF DelayInv, TypeOK, SendState, Phone
  <2> QED BY <2>1, Zenon DEF DelayInv
<1>2. IInv => TypeOK
  BY Zenon DEF IInv
<1>3. DelayInv /\ TypeOK' /\ [Next]_vars => DelayInv'
  BY CountingHolds, NextDelay, Zenon
<1> QED BY InitDelay, <1>1, <1>2, <1>3, Invariance, PTL DEF Spec

\* One code per Idempotency-Key: for every number of requests and keys, a second
\* delivery shows that a lease ran out, a delivery, an insert or a server failed,
\* or a challenge was deleted.
THEOREM OneDeliveryPerKey == Spec => []RepeatsDeliverOnce
<1>1. OnceInv => RepeatsDeliverOnce
  BY Zenon DEF OnceInv, KeyInv, RepeatsDeliverOnce
<1>2. IInv /\ OnceInv /\ [Next]_vars => OnceInv'
  BY CountingHolds, NextOnce, Zenon
<1> QED BY InitOnce, <1>1, <1>2, Invariance, PTL DEF Spec

\* A reader who follows the cursors to the end has every row that stayed, and no
\* row twice but for rows that themselves changed, for any number of rows, times
\* and page sizes, whatever is inserted, changed, touched and removed meanwhile
\* (retainUserPage and its likes, ListInstancesFrom, EncodeCursor, DecodeCursor).
THEOREM PagesStayComplete == PgSpec => []PagesAreComplete
<1>1. PageInv /\ [PgNext]_pageVars => PageInv'
  BY CountingHolds, PageStep, Zenon
<1> QED BY <1>1, PageInitially, Answers, PTL DEF PgSpec
==============================================================================
