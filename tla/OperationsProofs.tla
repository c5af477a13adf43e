-------------------------- MODULE OperationsProofs --------------------------
(***************************************************************************)
(* Theorems about administration beside sign-in, accounts and Desktop      *)
(* control, for every set of users, devices, sessions and operations.      *)
(***************************************************************************)
EXTENDS Operations, PrincipalsProofs

-----------------------------------------------------------------------------
(* Steps of the other components *)

\* Steps that are not an operation of the administrative API
Elsewhere == CommandLineStep \/ SignStep \/ IdStep \/ DcStep

LEMMA ElsewhereMoves ==
    ASSUME UserRows, Elsewhere
    PROVE  UserRows' /\ (SameRevisions \/ \E u : Moves(u)) /\ UNCHANGED adminVars
<1>1. CASE CommandLineStep
  <2>1. CommandLine /\ UNCHANGED adminVars
    <3>1. CommandLine
      BY <1>1, Zenon DEF CommandLineStep
    <3> QED BY <3>1, Zenon DEF CommandLine, DisableAccount, EnableAccount, RevokeSession
  <2>2. ASSUME NEW u, DisableAccount(u) \/ EnableAccount(u) PROVE UserRows' /\ Moves(u)
    BY <2>2, LifecycleMoves, ZenonT(40) DEF DisableAccount, EnableAccount
  <2>3. ASSUME NEW s, RevokeSession(s) PROVE UserRows' /\ Moves(sess[s].user)
    BY <2>3, LifecycleMoves, Zenon DEF RevokeSession
  <2>4. ASSUME NEW s, PurgeSession(s) PROVE UserRows' /\ SameRevisions
    BY <2>4, Zenon DEF PurgeSession, UserRows, SameRevisions
  <2> QED BY <2>1, <2>2, <2>3, <2>4, Zenon DEF CommandLine
<1>2. CASE SignStep \/ DcStep
  <2>1. user' = user /\ UNCHANGED adminVars
    BY <1>2, SignKeepsUsers, DesktopKeepsUsers, ZenonT(40) DEF SignStep, DcStep
  <2> QED BY <2>1, Zenon DEF UserRows, SameRevisions
<1>3. CASE IdStep
  <2>1. (user' = user \/ ColumnsStep) /\ UNCHANGED adminVars
    BY <1>3, IdentityKeepsRevisions, ZenonT(40) DEF IdStep
  <2>2. CASE user' = user
    BY <2>1, <2>2, Zenon DEF UserRows, SameRevisions
  <2> QED BY <2>1, <2>2, ColumnsKeepRevisions, Zenon
<1> QED BY <1>1, <1>2, <1>3, ZenonT(40) DEF Elsewhere

-----------------------------------------------------------------------------
(* The inductive invariant: while an operation's transaction is open its    *)
(* row is not stored, so nobody has been told an outcome and no event of it *)
(* has been written.                                                        *)

Transaction(t) ==
    \/ t = NoTx
    \/ \E q, k : t = [at |-> "inserted", request |-> q, key |-> k]
    \/ \E q, k : \E u \in User \cup {Missing} :
          t = [at |-> "resolved", request |-> q, key |-> k, user |-> u]

AdminTables ==
    /\ adminTx = [o \in Operation |-> adminTx[o]]
    /\ adminOp = [o \in Operation |-> adminOp[o]]
    /\ adminAudit = [o \in Operation |-> adminAudit[o]]
    /\ adminReply = [o \in Operation |-> adminReply[o]]

UncommittedIsUnstored ==
    \A o \in Operation : Transaction(adminTx[o]) /\ (adminTx[o] # NoTx => adminOp[o] = NoOp)

AdInv == UserRows /\ AdminTables /\ UncommittedIsUnstored /\ OneEventPerOperation /\ AnswersAgree

LEMMA InitAdInv == OpInit => AdInv
<1> SUFFICES ASSUME OpInit PROVE AdInv
  BY Zenon
<1>1. UserRows
  BY DEF OpInit, PrInit, UserRows, UserRow
<1>2. AdminTables /\ UncommittedIsUnstored /\ OneEventPerOperation /\ AnswersAgree
  BY Zenon DEF OpInit, AdInit, AdminTables, UncommittedIsUnstored, Transaction, OneEventPerOperation, AnswersAgree
<1> QED BY <1>1, <1>2, ZenonT(40) DEF AdInv

\* Nothing of administration is touched.
LEMMA AdminUntouched ==
    ASSUME AdInv, UserRows', UNCHANGED <<adminTx, adminOp, adminAudit, adminReply>>
    PROVE  AdInv'
BY Zenon DEF AdInv, AdminTables, UncommittedIsUnstored, OneEventPerOperation, AnswersAgree,
       GetOperation, findOperation

\* A step that leaves the stored operations, their events and the users alone
LEMMA UnsettledStep ==
    ASSUME AdInv, NEW o \in Operation, UNCHANGED <<user, adminOp, adminAudit>>,
           adminTx' = [adminTx EXCEPT ![o] = adminTx'[o]],
           adminReply' = [adminReply EXCEPT ![o] = adminReply'[o]],
           Transaction(adminTx[o])', adminTx'[o] # NoTx => adminOp[o] = NoOp,
           \/ adminReply'[o] \in {NoReply, adminReply[o]}
           \/ /\ adminOp[o] # NoOp
              /\ adminReply'[o].request = adminOp[o].request
              /\ adminReply'[o].reply = GetOperation(o)
    PROVE  AdInv'
<1>1. UserRows' /\ AdminTables' /\ OneEventPerOperation'
  BY Zenon DEF AdInv, UserRows, AdminTables, OneEventPerOperation
<1>2. UncommittedIsUnstored'
  BY DEF AdInv, AdminTables, UncommittedIsUnstored, Transaction
<1>3. \A x \in Operation : GetOperation(x)' = GetOperation(x)
  BY Zenon DEF GetOperation, findOperation
<1>4. AnswersAgree'
  BY <1>3 DEF AdInv, AdminTables, AnswersAgree
<1> QED BY <1>1, <1>2, <1>4, ZenonT(40) DEF AdInv

\* A transaction that commits: its row, one event of its outcome and the answer.
LEMMA SettledStep ==
    ASSUME AdInv, UserRows', NEW o \in Operation, adminTx[o] # NoTx, NEW row, NEW outcome,
           Finish(o, row), insertControlAudit(o, outcome),
           row # NoOp, validateOperation(row),
           outcome = IF row.status = "succeeded" THEN "success" ELSE "denied"
    PROVE  AdInv'
<1>1. AdminTables'
  BY Zenon DEF AdInv, AdminTables, Finish, answer, insertControlAudit
<1>2. adminOp' = [adminOp EXCEPT ![o] = row] /\ adminTx' = [adminTx EXCEPT ![o] = NoTx]
  BY Zenon DEF Finish
<1>3. UncommittedIsUnstored'
  <2>1. Transaction(NoTx)
    BY Zenon DEF Transaction
  <2>2. adminTx'[o] = NoTx /\ \A x \in Operation \ {o} : adminTx'[x] = adminTx[x] /\ adminOp'[x] = adminOp[x]
    BY <1>2, Zenon DEF AdInv, AdminTables
  <2>3. \A x \in Operation : Transaction(adminTx'[x]) /\ (adminTx'[x] # NoTx => adminOp'[x] = NoOp)
    BY <2>1, <2>2, Zenon DEF AdInv, UncommittedIsUnstored
  <2> QED BY <2>3, Zenon DEF UncommittedIsUnstored, Transaction
<1>4. adminAudit[o] = [success |-> 0, denied |-> 0]
  BY Zenon DEF AdInv, UncommittedIsUnstored, OneEventPerOperation
<1>5. adminAudit'[o] = IF row.status = "succeeded" THEN [success |-> 1, denied |-> 0]
                                                   ELSE [success |-> 0, denied |-> 1]
  <2>1. adminAudit'[o] = [adminAudit[o] EXCEPT ![outcome] = adminAudit[o][outcome] + 1]
    BY Zenon DEF AdInv, AdminTables, insertControlAudit
  <2> QED BY <2>1, <1>4
<1>6. \A x \in Operation \ {o} : adminAudit'[x] = adminAudit[x] /\ adminOp'[x] = adminOp[x]
  BY <1>2, Zenon DEF AdInv, AdminTables, insertControlAudit
<1>7. adminOp'[o] = row
  BY <1>2, Zenon DEF AdInv, AdminTables
<1>8. OneEventPerOperation'
  BY <1>5, <1>6, <1>7, ZenonT(40) DEF AdInv, OneEventPerOperation, validateOperation
<1>9. \/ adminReply'[o] = NoReply
      \/ adminReply'[o] = [request |-> row.request, reply |-> operationReplayResult(row)]
  BY Zenon DEF AdInv, AdminTables, Finish, answer
<1>10. \A x \in Operation \ {o} : adminReply'[x] = adminReply[x] /\ GetOperation(x)' = GetOperation(x)
  BY <1>6, Zenon DEF AdInv, AdminTables, Finish, answer, GetOperation, findOperation
<1>11. GetOperation(o)' = operationReplayResult(row)
  BY <1>7, Zenon DEF GetOperation, findOperation
<1>12. AnswersAgree'
  BY <1>7, <1>9, <1>10, <1>11, <1>6 DEF AdInv, AnswersAgree
<1> QED BY <1>1, <1>3, <1>8, <1>12, Zenon DEF AdInv

LEMMA ResolvedUser ==
    ASSUME NEW t, Transaction(t), t.at = "resolved"
    PROVE  t.user \in User \cup {Missing}
<1>1. CASE t = NoTx
  BY <1>1, Zenon DEF NoTx
<1>2. ASSUME NEW q, NEW k, t = [at |-> "inserted", request |-> q, key |-> k] PROVE FALSE
  BY <1>2, Zenon
<1>3. ASSUME NEW q, NEW k, NEW u \in User \cup {Missing},
             t = [at |-> "resolved", request |-> q, key |-> k, user |-> u]
      PROVE  t.user \in User \cup {Missing}
  BY <1>3, Zenon
<1> QED BY <1>1, <1>2, <1>3, Zenon DEF Transaction

\* What the register sees of Execute
LEMMA ExecuteStep ==
    ASSUME AdInv, NEW o \in Operation, Execute(o)
    PROVE  /\ AdInv'
           /\ adminOp[o] = NoOp
           /\ \E row :
                 /\ adminOp' = [adminOp EXCEPT ![o] = row] /\ row # NoOp
                 /\ \/ row.status # "succeeded" /\ user' = user
                    \/ /\ row.status = "succeeded" /\ row.user \in User /\ Moves(row.user)
                       /\ row.request.expected = user[row.user].revision
                       /\ row.revision = user[row.user].revision + 1
<1> DEFINE t == adminTx[o]
           code == rejection(t.request, t.user)
<1>0. t.at = "resolved"
  BY Zenon DEF Execute
<1>1. t # NoTx /\ adminOp[o] = NoOp
  BY <1>0 DEF AdInv, UncommittedIsUnstored, NoTx
<1>2. t.user \in User \cup {Missing}
  <2>1. Transaction(t)
    BY Zenon DEF AdInv, UncommittedIsUnstored
  <2> QED BY <1>0, <2>1, ResolvedUser, Zenon
<1>3. CASE code = "" /\ mutate(t.request, t.user) /\ finishSucceeded(o, t)
  <2>1. t.user # Missing /\ user[t.user].revision = t.request.expected
    BY <1>3, ZenonT(40) DEF rejection, controlNotFoundCode
  <2>2. t.user \in User /\ user[t.user].revision \in Nat \ {0}
    BY <1>2, <2>1, Zenon DEF AdInv, UserRows, UserRow
  <2>3. UserRows' /\ Moves(t.user)
    BY <1>3, LifecycleMoves, ZenonT(40) DEF mutate, AdInv
  <2> DEFINE row == [request |-> t.request, key |-> t.key, user |-> t.user, code |-> "",
                     revision |-> user[t.user].revision + 1, status |-> "succeeded"]
  <2>4. Finish(o, row) /\ insertControlAudit(o, "success")
    BY <1>3, Zenon DEF finishSucceeded
  <2>5. row # NoOp /\ validateOperation(row)
    <3>1. NoOp.status = "none" /\ row.status = "succeeded" /\ row.code = "" /\ row.revision >= 1
      BY <2>2 DEF NoOp
    <3> QED BY <3>1, ZenonT(40) DEF validateOperation
  <2>6. AdInv'
    BY <1>1, <2>3, <2>4, <2>5, SettledStep, Zenon
  <2>7. adminOp' = [adminOp EXCEPT ![o] = row]
    BY <2>4, ZenonT(40) DEF Finish
  <2>8. /\ row.status = "succeeded" /\ row.user = t.user /\ row.request = t.request
        /\ row.revision = user[t.user].revision + 1
    BY Zenon
  <2> HIDE DEF row, t
  <2> QED BY <1>1, <2>1, <2>2, <2>3, <2>5, <2>6, <2>7, <2>8, ZenonT(40)
<1>4. CASE durableDomainFailure(code) /\ finishRejected(o, t, code) /\ UNCHANGED principals
  <2> DEFINE row == [request |-> t.request, key |-> t.key, user |-> t.user, code |-> code, revision |-> 0,
                     status |-> IF code \in NotFoundCode THEN "failed" ELSE "conflict"]
  <2>1. Finish(o, row) /\ insertControlAudit(o, "denied")
    BY <1>4, ZenonT(40) DEF finishRejected
  <2>2. row # NoOp /\ validateOperation(row) /\ row.status # "succeeded"
    <3> HIDE DEF code
    <3>1. /\ NoOp.status = "none" /\ row.code = code /\ row.revision = 0
          /\ row.status = IF code \in NotFoundCode THEN "failed" ELSE "conflict"
      BY Zenon DEF NoOp
    <3> HIDE DEF row
    <3> QED BY <1>4, <3>1, Zenon DEF validateOperation, durableDomainFailure
  <2>3. user' = user /\ UserRows'
    BY <1>4, Zenon DEF principals, AdInv, UserRows
  <2>4. AdInv'
    BY <1>1, <2>1, <2>2, <2>3, SettledStep, ZenonT(40)
  <2>5. adminOp' = [adminOp EXCEPT ![o] = row]
    BY <2>1, ZenonT(40) DEF Finish
  <2> QED BY <1>1, <2>2, <2>3, <2>4, <2>5, ZenonT(40)
<1> QED BY <1>3, <1>4, ZenonT(40) DEF Execute

\* The other steps of an operation settle nothing.
LEMMA OtherOperations ==
    ASSUME AdInv, NEW o \in Operation,
           \/ \E q \in Asked : Replay(o, q) \/ \E k \in Key : insertExecuting(o, q, k)
           \/ Resolve(o) \/ Rollback(o)
    PROVE  AdInv' /\ UNCHANGED <<user, adminOp>>
<1>1. ASSUME NEW q, Replay(o, q) PROVE AdInv' /\ UNCHANGED <<user, adminOp>>
  <2>1. UNCHANGED <<user, adminOp, adminAudit, adminTx>> /\ adminTx[o] = NoTx
    BY <1>1, ZenonT(40) DEF Replay, principals
  <2>2. adminReply' = [adminReply EXCEPT ![o] = adminReply'[o]]
    BY <1>1, Zenon DEF Replay, answer, AdInv, AdminTables
  <2>3. adminOp[o] # NoOp /\ GetOperation(o) = operationReplayResult(adminOp[o])
    BY <1>1, ZenonT(40) DEF Replay, findOperation, GetOperation
  <2> DEFINE r == replayOperation(o, q)
  <2>4. r \in {Unavailable, KeyReused} \/ (q = adminOp[o].request /\ r = operationReplayResult(adminOp[o]))
    BY Zenon DEF replayOperation, RequestFingerprint
  <2>5. adminReply'[o] = IF r \in {Unavailable, KeyReused} THEN NoReply ELSE [request |-> q, reply |-> r]
    BY <1>1, ZenonT(40) DEF Replay, answer, AdInv, AdminTables
  <2>6. adminReply'[o] = NoReply \/ (/\ adminReply'[o].request = adminOp[o].request
                                    /\ adminReply'[o].reply = GetOperation(o))
    <3> HIDE DEF r
    <3> QED BY <2>3, <2>4, <2>5
  <2> QED BY <2>1, <2>2, <2>3, <2>6, UnsettledStep, ZenonT(40) DEF AdInv, AdminTables, UncommittedIsUnstored
<1>2. ASSUME NEW q, NEW k, insertExecuting(o, q, k) PROVE AdInv' /\ UNCHANGED <<user, adminOp>>
  <2>1. UNCHANGED <<user, adminOp, adminAudit, adminReply>>
    BY <1>2, ZenonT(40) DEF insertExecuting, principals
  <2>2. adminOp[o] = NoOp
    BY <1>2, Zenon DEF insertExecuting, findOperation, AdInv, OneEventPerOperation
  <2>3. adminTx' = [adminTx EXCEPT ![o] = adminTx'[o]] /\ Transaction(adminTx[o])'
    BY <1>2, ZenonT(40) DEF insertExecuting, AdInv, AdminTables, Transaction
  <2> QED BY <2>1, <2>2, <2>3, UnsettledStep, Zenon DEF AdInv, AdminTables
<1>3. ASSUME Resolve(o) PROVE AdInv' /\ UNCHANGED <<user, adminOp>>
  <2>1. UNCHANGED <<user, adminOp, adminAudit, adminReply>> /\ adminTx[o] # NoTx
    BY <1>3 DEF Resolve, principals, NoTx
  <2>2. resolveControlTargetUser(adminTx[o].request) \in User \cup {Missing}
    BY Zenon DEF resolveControlTargetUser
  <2>3. adminTx' = [adminTx EXCEPT ![o] = adminTx'[o]] /\ Transaction(adminTx[o])'
    <3>1. adminTx'[o] = [at |-> "resolved", request |-> adminTx[o].request, key |-> adminTx[o].key,
                         user |-> resolveControlTargetUser(adminTx[o].request)]
      BY <1>3, ZenonT(40) DEF Resolve, AdInv, AdminTables
    <3> QED BY <1>3, <2>2, <3>1, Zenon DEF Resolve, AdInv, AdminTables, Transaction
  <2> QED BY <2>1, <2>3, UnsettledStep, Zenon DEF AdInv, AdminTables, UncommittedIsUnstored
<1>4. ASSUME Rollback(o) PROVE AdInv' /\ UNCHANGED <<user, adminOp>>
  <2>1. UNCHANGED <<user, adminOp, adminAudit>>
    BY <1>4, ZenonT(40) DEF Rollback, principals
  <2>2. /\ adminTx' = [adminTx EXCEPT ![o] = adminTx'[o]] /\ adminTx'[o] = NoTx
        /\ adminReply' = [adminReply EXCEPT ![o] = adminReply'[o]] /\ adminReply'[o] = NoReply
    BY <1>4, Zenon DEF Rollback, answer, AdInv, AdminTables
  <2> QED BY <2>1, <2>2, UnsettledStep, Zenon DEF Transaction
<1> QED BY <1>1, <1>2, <1>3, <1>4, ZenonT(40)

-----------------------------------------------------------------------------
(* The register *)

\* The steps of the administrative API
LEMMA OperationsStep ==
    ASSUME AdInv, AdOperations
    PROVE  AdInv' /\ (UNCHANGED <<user, adminOp>> \/ \E o \in Operation : Execute(o))
<1>1. ASSUME NEW k, RetireKey(k) PROVE AdInv' /\ UNCHANGED <<user, adminOp>>
  <2>1. UNCHANGED <<user, adminTx, adminOp, adminAudit, adminReply>>
    BY <1>1, ZenonT(40) DEF RetireKey, principals
  <2>2. UserRows'
    BY <2>1, Zenon DEF AdInv, UserRows
  <2> QED BY <2>1, <2>2, AdminUntouched, Zenon
<1> QED BY <1>1, ExecuteStep, OtherOperations, ZenonT(40) DEF AdOperations

LEMMA NextAdInv == AdInv /\ [OpNext]_vars => AdInv'
<1> SUFFICES ASSUME AdInv, [OpNext]_vars PROVE AdInv'
  BY Zenon
<1>1. CASE AdStep
  BY <1>1, OperationsStep, ZenonT(40) DEF AdStep
<1>2. CASE Elsewhere
  <2>1. UserRows' /\ UNCHANGED <<adminTx, adminOp, adminAudit, adminReply>>
    BY <1>2, ElsewhereMoves, ZenonT(40) DEF AdInv, adminVars
  <2> QED BY <2>1, AdminUntouched, Zenon
<1>3. CASE UNCHANGED vars
  <2>1. UserRows' /\ UNCHANGED <<adminTx, adminOp, adminAudit, adminReply>>
    BY <1>3, ZenonT(40) DEF vars, principals, adminVars, AdInv, UserRows
  <2> QED BY <2>1, AdminUntouched, Zenon
<1> QED BY <1>1, <1>2, <1>3, ZenonT(40) DEF OpNext, Elsewhere

\* Every stored operation has exactly one audit event, of its own outcome, and
\* can be read back, through any number of retries, rollbacks and callers
\* (finishSucceeded, finishRejected).
THEOREM OperationsAudited == OpSpec => []OneEventPerOperation
<1>1. AdInv => OneEventPerOperation
  BY ZenonT(40) DEF AdInv
<1> QED BY <1>1, InitAdInv, NextAdInv, PTL DEF OpSpec

\* Every caller of an operation is told the outcome of the request they made,
\* and a poll tells the same (replayOperation, GetOperation).
THEOREM CallersAgree == OpSpec => []AnswersAgree
<1>1. AdInv => AnswersAgree
  BY Zenon DEF AdInv
<1> QED BY <1>1, InitAdInv, NextAdInv, PTL DEF OpSpec

\* The operation of row in the register's terms
Outcome(row) ==
    IF row = NoOp THEN [status |-> "none"]
    ELSE IF row.status # "succeeded" THEN [status |-> "refused"]
    ELSE [status |-> "succeeded", user |-> row.user, expected |-> row.request.expected, revision |-> row.revision]

Revisions == [u \in User |-> user[u].revision]
SettledAll == [o \in Operation |-> Outcome(adminOp[o])]

LEMMA MovesIncrement ==
    ASSUME NEW u \in User, Moves(u)
    PROVE  Revisions' = [Revisions EXCEPT ![u] = @ + 1]
BY Zenon DEF Moves, Revisions

LEMMA MovesNobody ==
    ASSUME NEW u, u \notin User, Moves(u)
    PROVE  Revisions' = Revisions
BY ZenonT(40) DEF Moves, Revisions

LEMMA SettledChange ==
    ASSUME AdInv, NEW o \in Operation, NEW row, adminOp' = [adminOp EXCEPT ![o] = row]
    PROVE  SettledAll' = [SettledAll EXCEPT ![o] = Outcome(row)]
<1>1. \A x \in Operation : adminOp'[x] = IF x = o THEN row ELSE adminOp[x]
  BY Zenon DEF AdInv, AdminTables
<1>2. SettledAll' = [x \in Operation |-> Outcome(adminOp'[x])]
  BY Zenon DEF SettledAll, Outcome, NoOp
<1>3. SettledAll = [x \in Operation |-> Outcome(adminOp[x])]
  BY Zenon DEF SettledAll
<1> QED BY <1>1, <1>2, <1>3

LEMMA InitRegister == OpInit => Promise!RrInit
<1> SUFFICES ASSUME OpInit PROVE Promise!RrInit
  BY ZenonT(40)
<1>1. Revisions \in [User -> Nat]
  BY InitAdInv, Zenon DEF AdInv, UserRows, UserRow, Revisions
<1>2. \A o \in Operation : adminOp[o] = NoOp
  BY ZenonT(40) DEF OpInit, AdInit
<1> QED BY <1>1, <1>2, ZenonT(40) DEF Promise!RrInit, Promise!Pending, Revisions

LEMMA NextRegister ==
    AdInv /\ [OpNext]_vars => [Promise!RrNext]_(<<Revisions, SettledAll>>)
<1> SUFFICES ASSUME AdInv, [OpNext]_vars PROVE [Promise!RrNext]_(<<Revisions, SettledAll>>)
  BY ZenonT(40)
<1>1. ASSUME UNCHANGED <<user, adminOp>> PROVE UNCHANGED <<Revisions, SettledAll>>
  BY <1>1, Zenon DEF Revisions, SettledAll, Outcome, NoOp
<1>2. ASSUME NEW o \in Operation, Execute(o) PROVE Promise!RrNext
  <2>1. PICK row :
            /\ adminOp' = [adminOp EXCEPT ![o] = row] /\ row # NoOp
            /\ \/ row.status # "succeeded" /\ user' = user
               \/ /\ row.status = "succeeded" /\ row.user \in User /\ Moves(row.user)
                  /\ row.request.expected = user[row.user].revision
                  /\ row.revision = user[row.user].revision + 1
    BY <1>2, ExecuteStep, Zenon
  <2>2. SettledAll' = [SettledAll EXCEPT ![o] = Outcome(row)]
    BY <2>1, SettledChange, ZenonT(40)
  <2>3. SettledAll[o] = [status |-> "none"]
    BY <1>2, ExecuteStep, Zenon DEF SettledAll, Outcome
  <2>4. CASE row.status # "succeeded" /\ user' = user
    <3>1. Outcome(row) = [status |-> "refused"]
      BY <2>1, <2>4, ZenonT(40) DEF Outcome
    <3>2. Revisions' = Revisions
      BY <2>4, ZenonT(40) DEF Revisions
    <3>3. Promise!Refuse(o)
      BY <2>2, <2>3, <3>1, <3>2, Zenon
         DEF Promise!Refuse, Promise!Pending, Promise!Refused, Revisions, SettledAll, Outcome
    <3> QED BY <3>3, ZenonT(40) DEF Promise!RrNext
  <2>5. CASE /\ row.status = "succeeded" /\ row.user \in User /\ Moves(row.user)
             /\ row.request.expected = user[row.user].revision
             /\ row.revision = user[row.user].revision + 1
    <3> DEFINE w == row.user
    <3>1. Revisions' = [Revisions EXCEPT ![w] = @ + 1]
      BY <2>5, MovesIncrement, Zenon
    <3>2. Outcome(row) = [status |-> "succeeded", user |-> w, expected |-> Revisions[w],
                          revision |-> Revisions[w] + 1]
      BY <2>1, <2>5, ZenonT(40) DEF Outcome, Revisions
    <3>3. Promise!CompareAndSet(o, w)
      BY <2>2, <2>3, <3>1, <3>2, Zenon
         DEF Promise!CompareAndSet, Promise!Pending, Promise!Succeeded, Revisions, SettledAll, Outcome
    <3> QED BY <2>5, <3>3, ZenonT(40) DEF Promise!RrNext
  <2> QED BY <2>1, <2>4, <2>5, ZenonT(40)
<1>3. CASE AdStep
  <2>1. UNCHANGED <<user, adminOp>> \/ \E o \in Operation : Execute(o)
    BY <1>3, OperationsStep, Zenon DEF AdStep
  <2> QED BY <1>1, <1>2, <2>1, ZenonT(40)
<1>4. CASE Elsewhere
  <2>1. (SameRevisions \/ \E u : Moves(u)) /\ adminOp' = adminOp
    BY <1>4, ElsewhereMoves, ZenonT(40) DEF AdInv, adminVars
  <2>2. SettledAll' = SettledAll
    BY <2>1, Zenon DEF SettledAll, Outcome, NoOp
  <2>3. ASSUME NEW u \in User, Moves(u) PROVE Promise!ByOperator(u)
    BY <2>2, <2>3, MovesIncrement, ZenonT(40) DEF Promise!ByOperator, Revisions, SettledAll, Outcome
  <2>4. ASSUME SameRevisions \/ \E u : u \notin User /\ Moves(u) PROVE Revisions' = Revisions
    BY <2>4, MovesNobody, Zenon DEF SameRevisions, Revisions
  <2> QED BY <2>1, <2>2, <2>3, <2>4, ZenonT(40) DEF Promise!RrNext
<1>5. CASE UNCHANGED vars
  BY <1>1, <1>5, ZenonT(40) DEF vars, principals, adminVars
<1> QED BY <1>3, <1>4, <1>5, ZenonT(40) DEF OpNext, Elsewhere

\* Whatever sign-ins, password changes, deletions, Desktop commands, retries,
\* rollbacks and command-line operators do in between, the administrative API
\* is a compare-and-set register of each user's administrative_revision
\* (ControlRepository.Execute).
THEOREM RegisterImplemented == OpSpec => ImplementsRegister
<1>1. Promise!RrSpec <=> Promise!RrInit /\ [][Promise!RrNext]_(<<Revisions, SettledAll>>)
  BY ZenonT(40) DEF Promise!RrSpec, Revisions, SettledAll, Outcome
<1> QED BY <1>1, InitAdInv, NextAdInv, InitRegister, NextRegister, PTL DEF OpSpec, ImplementsRegister

-----------------------------------------------------------------------------
(* Administration and the rows of the other components *)

LEMMA AdminAccess ==
    ASSUME AdInv, AccessInv, AdStep
    PROVE  AccessInv'
<1>0. UNCHANGED <<web, grant, message, receipt>>
  BY ZenonT(40) DEF AdStep, signVars, idVars
<1>1. ASSUME NEW o \in Operation, Execute(o) PROVE AccessInv'
  <2> DEFINE t == adminTx[o]
             q == t.request
             code == rejection(q, t.user)
  <2>1. t.at = "resolved"
    BY <1>1, Zenon DEF Execute
  <2>2. t.user \in User \cup {Missing}
    <3>1. Transaction(t)
      BY ZenonT(40) DEF AdInv, UncommittedIsUnstored
    <3> QED BY <2>1, <3>1, ResolvedUser, Zenon
  <2>3. CASE UNCHANGED principals
    BY <1>0, <2>3, UnchangedAccess, ZenonT(40) DEF principals
  <2>4. CASE code = "" /\ mutate(q, t.user)
    <3>1. t.user # Missing /\ Obstacle(q, t.user) = ""
      BY <2>4, Zenon DEF rejection, controlNotFoundCode
    <3>2. t.user \in User
      BY <2>2, <3>1, ZenonT(40)
    <3>3. q.action = "revoke_device" => device[q.target] # NoDevice
      BY <3>1, ZenonT(40) DEF Obstacle
    <3>4. PrRows' /\ Backed'
      <4> HIDE DEF q, t
      <4>1. PrRows /\ Backed
        BY ZenonT(40) DEF AccessInv
      <4>2. \E f : \/ disableUserLifecycle(t.user) \/ enableUserLifecycle(t.user)
                   \/ revokeAllSessionsLifecycle(t.user) \/ forcePasswordResetLifecycle(t.user)
                   \/ revokeDeviceLifecycle(t.user, q.target) /\ (q.target \in Device => device[q.target] # NoDevice)
                   \/ revokeSessionFamilyLifecycle(t.user, f)
        BY <2>4, <3>3, ZenonT(40) DEF mutate
      <4> QED BY <3>2, <4>1, <4>2, LifecycleKeepsBacked, Zenon
    <3> QED BY <1>0, <3>4, PrincipalsOnly, ZenonT(40)
  <2> QED BY <1>1, <2>3, <2>4, Zenon DEF Execute
<1>2. ASSUME NEW o \in Operation, (\E q \in Asked : Replay(o, q) \/ \E k \in Key : insertExecuting(o, q, k))
                                  \/ Resolve(o) \/ Rollback(o)
      PROVE  AccessInv'
  <2>1. UNCHANGED principals
    BY <1>2, Zenon DEF Replay, insertExecuting, Resolve, Rollback
  <2> QED BY <1>0, <2>1, UnchangedAccess, ZenonT(40) DEF principals
<1>3. ASSUME NEW k, RetireKey(k) PROVE AccessInv'
  BY <1>0, <1>3, UnchangedAccess, Zenon DEF RetireKey, principals
<1> QED BY <1>1, <1>2, <1>3, Zenon DEF AdStep, AdOperations

LEMMA CommandLineAccess ==
    ASSUME AccessInv, CommandLineStep
    PROVE  AccessInv'
<1>0. UNCHANGED <<web, grant, message, receipt>> /\ PrRows /\ Backed
  BY Zenon DEF CommandLineStep, signVars, idVars, AccessInv
<1>1. ASSUME NEW u \in User, DisableAccount(u) \/ EnableAccount(u) PROVE PrRows' /\ Backed'
  BY <1>0, <1>1, LifecycleKeepsBacked, ZenonT(40) DEF DisableAccount, EnableAccount
<1>2. ASSUME NEW s \in Session, RevokeSession(s) PROVE PrRows' /\ Backed'
  <2>1. sess[s].user \in User
    BY <1>0, <1>2, SessionFields, ZenonT(40) DEF RevokeSession, PrRows
  <2> QED BY <1>0, <1>2, <2>1, LifecycleKeepsBacked, Zenon DEF RevokeSession
<1>3. PrRows' /\ Backed'
  BY <1>0, <1>1, <1>2, PurgeAccess, Zenon DEF CommandLineStep, CommandLine
<1> QED BY <1>0, <1>3, PrincipalsOnly, ZenonT(40)

-----------------------------------------------------------------------------
(* What administration does to the statuses that identities depend on *)

LEMMA LifecycleSorts ==
    ASSUME UserRows, NEW u \in User, NEW d, NEW f,
           \/ Active(u) /\ disableUserLifecycle(u)
           \/ user[u].status = "disabled" /\ enableUserLifecycle(u)
           \/ revokeAllSessionsLifecycle(u) \/ forcePasswordResetLifecycle(u)
           \/ revokeDeviceLifecycle(u, d) \/ revokeSessionFamilyLifecycle(u, f)
    PROVE  SameSort
<1>1. CASE Active(u) /\ disableUserLifecycle(u)
  <2>1. Status1(u, "disabled") /\ Used(u)
    BY <1>1, IncrementStatus, ZenonT(40) DEF disableUserLifecycle, Active, Used
  <2> QED BY <2>1, SortMoves, Zenon
<1>2. CASE user[u].status = "disabled" /\ enableUserLifecycle(u)
  <2>1. Status1(u, "active") /\ Used(u)
    BY <1>2, IncrementStatus, ZenonT(40) DEF enableUserLifecycle, Used
  <2> QED BY <2>1, SortMoves, Zenon
<1>3. CASE \/ revokeAllSessionsLifecycle(u) \/ forcePasswordResetLifecycle(u)
           \/ revokeDeviceLifecycle(u, d) \/ revokeSessionFamilyLifecycle(u, f)
  <2>1. SameStatus
    BY <1>3, IncrementStatus, ZenonT(40)
       DEF revokeAllSessionsLifecycle, forcePasswordResetLifecycle, revokeDeviceLifecycle, revokeSessionFamilyLifecycle
  <2> QED BY <2>1, SortKept, Zenon
<1> QED BY <1>1, <1>2, <1>3, ZenonT(40)

LEMMA AdminSorts ==
    ASSUME AdInv, AdStep
    PROVE  SameSort
<1>1. ASSUME NEW o \in Operation, Execute(o) PROVE SameSort
  <2> DEFINE t == adminTx[o]
             q == t.request
             code == rejection(q, t.user)
  <2>1. t.at = "resolved"
    BY <1>1, Zenon DEF Execute
  <2>2. t.user \in User \cup {Missing}
    <3>1. Transaction(t)
      BY ZenonT(40) DEF AdInv, UncommittedIsUnstored
    <3> QED BY <2>1, <3>1, ResolvedUser, Zenon
  <2>3. CASE UNCHANGED principals
    BY <2>3, SortKept, ZenonT(40) DEF principals, SameStatus
  <2>4. CASE code = "" /\ mutate(q, t.user)
    <3>1. t.user # Missing /\ Obstacle(q, t.user) = ""
      BY <2>4, Zenon DEF rejection, controlNotFoundCode
    <3>2. t.user \in User
      BY <2>2, <3>1, ZenonT(40)
    <3>3. /\ q.action = "disable_user" => Active(t.user)
          /\ q.action = "enable_user" => user[t.user].status = "disabled"
      BY <3>1, Zenon DEF Obstacle
    <3> HIDE DEF q, t
    <3>4. \E f : \/ Active(t.user) /\ disableUserLifecycle(t.user)
                 \/ user[t.user].status = "disabled" /\ enableUserLifecycle(t.user)
                 \/ revokeAllSessionsLifecycle(t.user) \/ forcePasswordResetLifecycle(t.user)
                 \/ revokeDeviceLifecycle(t.user, q.target)
                 \/ revokeSessionFamilyLifecycle(t.user, f)
      BY <2>4, <3>3, ZenonT(40) DEF mutate
    <3> QED BY <3>2, <3>4, LifecycleSorts, ZenonT(40) DEF AdInv
  <2> QED BY <1>1, <2>3, <2>4, Zenon DEF Execute
<1>2. ASSUME UNCHANGED principals PROVE SameSort
  BY <1>2, SortKept, Zenon DEF principals, SameStatus
<1>3. ASSUME NEW o \in Operation, (\E q \in Asked : Replay(o, q) \/ \E k \in Key : insertExecuting(o, q, k))
                                  \/ Resolve(o) \/ Rollback(o)
      PROVE  SameSort
  BY <1>2, <1>3, Zenon DEF Replay, insertExecuting, Resolve, Rollback
<1>4. ASSUME NEW k, RetireKey(k) PROVE SameSort
  BY <1>2, <1>4, Zenon DEF RetireKey
<1> QED BY <1>1, <1>3, <1>4, Zenon DEF AdStep, AdOperations

LEMMA CommandLineSorts ==
    ASSUME PrRows, CommandLineStep
    PROVE  SameSort
<1>1. ASSUME NEW u \in User, DisableAccount(u) \/ EnableAccount(u) PROVE SameSort
  BY <1>1, LifecycleSorts, Zenon DEF PrRows, DisableAccount, EnableAccount
<1>2. ASSUME NEW s \in Session, RevokeSession(s) PROVE SameSort
  <2>1. sess[s].user \in User
    BY <1>2, SessionFields, Zenon DEF RevokeSession, PrRows
  <2> QED BY <1>2, <2>1, LifecycleSorts, ZenonT(40) DEF PrRows, RevokeSession
<1>3. ASSUME NEW s \in Session, PurgeSession(s) PROVE SameSort
  BY <1>3, SortKept, ZenonT(40) DEF PurgeSession, SameStatus
<1> QED BY <1>1, <1>2, <1>3, ZenonT(40) DEF CommandLineStep, CommandLine

LEMMA NextIdInv ==
    ASSUME Counting, AdInv, PrRows, IdInv, [OpNext]_vars
    PROVE  IdInv'
<1>1. ASSUME UNCHANGED idVars, SameSort PROVE IdInv'
  BY <1>1, IdentitiesUntouched, ZenonT(40) DEF idVars
<1>2. CASE AdStep \/ CommandLineStep
  BY <1>1, <1>2, AdminSorts, CommandLineSorts, Zenon DEF AdStep, CommandLineStep
<1>3. CASE SignStep \/ DcStep
  <2>1. user' = user /\ UNCHANGED idVars
    BY <1>3, SignKeepsUsers, DesktopKeepsUsers, Zenon DEF SignStep, DcStep
  <2> QED BY <1>1, <2>1, SortKept, ZenonT(40) DEF SameStatus
<1>4. CASE IdStep
  BY <1>4, IdentityStep, ZenonT(40) DEF IdStep, PrRows
<1>5. CASE UNCHANGED vars
  BY <1>1, <1>5, SortKept, Zenon DEF vars, principals, SameStatus
<1> QED BY <1>2, <1>3, <1>4, <1>5, Zenon DEF OpNext

-----------------------------------------------------------------------------
(* The inductive invariant of the whole, and what follows from it *)

OpInv == AdInv /\ AccessInv /\ DesktopInv /\ IdInv

LEMMA InitAccess == OpInit => AccessInv
<1> SUFFICES ASSUME OpInit PROVE AccessInv
  BY Zenon
<1>1. PrInit /\ SignInit /\ IdInit /\ UserRows
  BY InitAdInv, ZenonT(40) DEF OpInit, AdInv
<1>2. SignRows
  BY <1>1, InitSignRows, Zenon
<1>3. device \in [Device -> DeviceRow] /\ \A d \in Device : device[d].status = "active" => Active(device[d].owner)
  <2>1. device \in [Device -> {NoDevice} \cup [owner : {u \in User : Active(u)}, status : {"active", "inactive"}]]
    BY <1>1 DEF PrInit
  <2>2. ASSUME NEW d \in Device PROVE device[d] \in DeviceRow /\ (device[d].status = "active" => Active(device[d].owner))
    <3>1. CASE device[d] = NoDevice
      BY <3>1 DEF DeviceRow, NoDevice
    <3>2. CASE device[d] \in [owner : {u \in User : Active(u)}, status : {"active", "inactive"}]
      BY <3>2, Zenon DEF DeviceRow
    <3> QED BY <2>1, <3>1, <3>2, Zenon
  <2> QED BY <2>1, <2>2, ZenonT(40)
<1>4. /\ sess \in [Session -> SessionRow]
      /\ \A s \in Session : sess[s].live => device[sess[s].device] = [owner |-> sess[s].user, status |-> "active"]
  <2> DEFINE first(d, f) == [user |-> device[d].owner, device |-> d, family |-> f, live |-> TRUE]
             open == {x \in Device : device[x].status = "active"}
             started == {first(d, f) : d \in open, f \in Session}
  <2>1. sess \in [Session -> {NoRow} \cup started]
    BY <1>1 DEF PrInit
  <2>3. ASSUME NEW d \in open, NEW f \in Session
        PROVE  /\ first(d, f) \in SessionRow
               /\ device[first(d, f).device] = [owner |-> first(d, f).user, status |-> "active"]
    <3>1. device[d].owner \in User /\ device[d] = [owner |-> device[d].owner, status |-> "active"]
      BY <1>3, DeviceFields, ZenonT(40)
    <3> QED BY <3>1, ZenonT(40) DEF SessionRow
  <2>2. ASSUME NEW s \in Session
        PROVE  /\ sess[s] \in SessionRow
               /\ sess[s].live => device[sess[s].device] = [owner |-> sess[s].user, status |-> "active"]
    <3>1. CASE sess[s] = NoRow
      BY <3>1 DEF SessionRow, NoRow
    <3>2. CASE sess[s] \in started
      <4> HIDE DEF first, open
      <4>1. PICK d \in open, f \in Session : sess[s] = first(d, f)
        BY <3>2
      <4> QED BY <2>3, <4>1, ZenonT(40)
    <3> HIDE DEF started
    <3> QED BY <2>1, <3>1, <3>2, ZenonT(40)
  <2> HIDE DEF started
  <2> QED BY <2>1, <2>2, Zenon
<1>5. ReceiptRows
  BY <1>1, Zenon DEF IdInit, ReceiptRows, ReceiptRow
<1>6. OpenedOnce
  <2> DEFINE open == [phase : {"open"}, user : {u \in User : Active(u)}, short : {TRUE}, persistent : {TRUE}, of : {"none"}]
  <2>0. web \in [Browser -> {NoWeb} \cup open]
    BY <1>1, ZenonT(40) DEF SignInit
  <2>1. ASSUME NEW b \in Browser PROVE web[b].of = "none"
    <3>1. CASE web[b] = NoWeb
      BY <3>1 DEF NoWeb
    <3>2. CASE web[b] \in open
      BY <3>2, Zenon
    <3> HIDE DEF open
    <3> QED BY <2>0, <3>1, <3>2, ZenonT(40)
  <2> QED BY <2>1, IdentityAssumption, Zenon DEF OpenedOnce
<1> QED BY <1>1, <1>2, <1>3, <1>4, <1>5, <1>6, ZenonT(40) DEF AccessInv, PrRows, Backed

LEMMA NextAccess ==
    ASSUME AdInv, AccessInv, DesktopInv, OpNext
    PROVE  AccessInv' /\ DesktopInv' /\ CommandsMove
<1>0. PrRows
  BY ZenonT(40) DEF AccessInv
<1>1. ASSUME AdStep \/ CommandLineStep \/ SignStep \/ IdStep PROVE AccessInv' /\ DesktopInv' /\ CommandsMove
  <2>1. AccessInv'
    BY <1>1, AdminAccess, CommandLineAccess, SignAccess, IdentityAccess, ZenonT(40) DEF SignStep, IdStep
  <2>2. DesktopFollows
    BY <1>1, Zenon DEF AdStep, CommandLineStep, SignStep, IdStep
  <2> QED BY <1>0, <2>1, <2>2, DesktopFollowsStep, ZenonT(40) DEF AccessInv
<1>2. ASSUME DcStep PROVE AccessInv' /\ DesktopInv' /\ CommandsMove
  <2>1. DesktopInv' /\ CommandsMove /\ UNCHANGED <<user, device, sess, web, grant, message, receipt>>
    BY <1>0, <1>2, DesktopStep, ZenonT(40) DEF DcStep, principals, signVars, idVars
  <2> QED BY <2>1, UnchangedAccess, Zenon
<1> QED BY <1>1, <1>2, Zenon DEF OpNext

LEMMA NextOpInv ==
    ASSUME Counting
    PROVE  OpInv /\ [OpNext]_vars => OpInv' /\ CommandsMove
<1> SUFFICES ASSUME OpInv, [OpNext]_vars PROVE OpInv' /\ CommandsMove
  BY ZenonT(40)
<1>0. AdInv /\ AccessInv /\ DesktopInv /\ AdInv' /\ IdInv'
  BY NextAdInv, NextIdInv, ZenonT(40) DEF OpInv, AccessInv
<1>1. CASE OpNext
  BY <1>0, <1>1, NextAccess, ZenonT(40) DEF OpInv
<1>2. CASE UNCHANGED vars
  <2>1. UNCHANGED <<user, device, sess, web, grant, message, receipt>> /\ UNCHANGED <<device, desktopVars>>
    BY <1>2, ZenonT(40) DEF vars, principals, signVars, idVars
  <2> QED BY <1>0, <2>1, UnchangedAccess, StutterDesktop, Zenon DEF OpInv
<1> QED BY <1>1, <1>2, Zenon

LEMMA InitOpInv ==
    ASSUME Counting
    PROVE  OpInit => OpInv
BY InitAdInv, InitAccess, InitDesktopInv, InitIdInv, Zenon DEF OpInv, OpInit

\* A set without two elements is empty or holds one.
LEMMA AtMostOne ==
    ASSUME Counting, NEW S, \A x, y \in S : x = y
    PROVE  Cardinality(S) <= 1
<1>1. CASE S = {}
  <2>1. Cardinality(S) = 0 /\ 0 <= 1
    BY <1>1, NoneCounted
  <2> QED BY <2>1, Zenon
<1>2. CASE S # {}
  <2>1. PICK x : x \in S
    BY <1>2, Zenon
  <2>2. S = {x}
    BY <2>1, ZenonT(40)
  <2>3. Cardinality(S) = 1 /\ 1 <= 1
    BY <2>2, OneCounted
  <2> QED BY <2>3, Zenon
<1> QED BY <1>1, <1>2, ZenonT(40)

LEMMA ConsoleShows ==
    ASSUME Counting, OpInv, NEW u \in User, user[u].status # "none"
    PROVE  /\ scanControlUser(GetUser(u))
           /\ Cardinality(GetUser(u).masked) = Cardinality(IdentitiesOf(u))
<1>1. /\ GetUser(u).status = IF user[u].status = "finalized" THEN "disabled" ELSE user[u].status
      /\ GetUser(u).revision = user[u].revision
      /\ GetUser(u).devices = Cardinality(DevicesOf(u))
      /\ GetUser(u).activeDevices = Cardinality({d \in DevicesOf(u) : device[d].status = "active"})
      /\ GetUser(u).masked = attachMaskedIdentities(u)
  BY ZenonT(40) DEF GetUser
<1>2. GetUser(u).status \in {"active", "pending_deletion", "disabled"}
  BY <1>1, Zenon DEF OpInv, IdInv, StatusFits, Used, Bare
<1>3. GetUser(u).revision >= 1
  BY <1>1 DEF OpInv, AdInv, UserRows, UserRow
<1>4. GetUser(u).activeDevices <= GetUser(u).devices
  <2> DEFINE held == DevicesOf(u)
             active == {d \in DevicesOf(u) : device[d].status = "active"}
  <2>1. IsFiniteSet(held)
    BY PrincipalsAssumption, PartsFinite, ZenonT(40) DEF DevicesOf
  <2>2. active \in SUBSET held
    BY Zenon
  <2>3. Cardinality(active) <= Cardinality(held)
    <3> HIDE DEF held, active
    <3> QED BY <2>1, <2>2, PartsFinite, ZenonT(40)
  <2> QED BY <1>1, <2>3, Zenon
<1>5. Cardinality(GetUser(u).masked) = Cardinality(IdentitiesOf(u))
  <2> DEFINE rows == IdentitiesOf(u)
             kinds == attachMaskedIdentities(u)
             f == [row \in rows |-> Kind[row.value]]
  <2>1. IsFiniteSet(rows)
    BY PartsFinite, Zenon DEF IdentitiesOf, OpInv, IdInv, KeyInv, IdRows
  <2>2. kinds = {f[row] : row \in rows}
    BY Zenon DEF attachMaskedIdentities
  <2>3. ASSUME NEW row \in rows, NEW other \in rows, Kind[row.value] = Kind[other.value] PROVE row = other
    <3>1. row \in identity /\ other \in identity /\ row.user = other.user
      BY ZenonT(40) DEF IdentitiesOf
    <3>2. row.value = other.value
      BY <2>3, <3>1, ZenonT(40) DEF OpInv, IdInv, KindsFit
    <3> QED BY <3>1, <3>2, ZenonT(40) DEF OpInv, IdInv, KeyInv, ValuesFit
  <2>4. \A row, other \in rows : f[row] = f[other] => row = other
    BY <2>3, Zenon
  <2>5. Cardinality(kinds) = Cardinality(rows)
    <3> HIDE DEF f, rows, kinds
    <3> QED BY <2>1, <2>2, <2>4, SameCount, Zenon
  <2> QED BY <1>1, <2>5, ZenonT(40)
<1> QED BY <1>2, <1>3, <1>4, <1>5, ZenonT(40) DEF scanControlUser

LEMMA ConsoleAccepts ==
    ASSUME Counting, NEW u \in User, user[u].status # "none", NEW action,
           \/ action = "revoke_all_sessions" /\ GetUser(u).sessions > 0
           \/ action \in {"disable_user", "force_password_reset"} /\ GetUser(u).status = "active"
           \/ action = "enable_user" /\ GetUser(u).status = "disabled" /\ ~GetUser(u).finalized
    PROVE  rejection([action |-> action, target |-> u, expected |-> GetUser(u).revision], u) = ""
<1> DEFINE q == [action |-> action, target |-> u, expected |-> GetUser(u).revision]
           live == {s \in SessionsOf(u) : sess[s].live}
<1>1. /\ GetUser(u).status = IF user[u].status = "finalized" THEN "disabled" ELSE user[u].status
      /\ GetUser(u).finalized = (user[u].status = "finalized")
      /\ GetUser(u).revision = user[u].revision
      /\ GetUser(u).sessions = Cardinality(live)
  BY Zenon DEF GetUser
<1>2. q.action = action /\ q.expected = user[u].revision
  BY <1>1, ZenonT(40)
<1>3. action = "revoke_all_sessions" => \E s \in SessionsOf(u) : sess[s].live
  <2>1. action = "revoke_all_sessions" => Cardinality(live) > 0
    BY <1>1, Zenon
  <2>2. live = {} => Cardinality(live) = 0
    BY NoneCounted, ZenonT(40)
  <2> QED BY <2>1, <2>2
<1>4. u # Missing
  BY PrincipalsAssumption, Zenon DEF Missing
<1>5. /\ action \in {"disable_user", "force_password_reset"} => Active(u)
      /\ action = "enable_user" => user[u].status = "disabled"
  BY <1>1, ZenonT(40) DEF Active
<1>6. Obstacle(q, u) = ""
  <2> HIDE DEF q
  <2> QED BY <1>2, <1>3, <1>5, ZenonT(40) DEF Obstacle
<1> HIDE DEF q
<1>7. rejection(q, u) = ""
  BY <1>2, <1>4, <1>6, ZenonT(40) DEF rejection
<1> QED BY <1>7, ZenonT(40) DEF q

LEMMA ListsShow == OpInv => ListsAgree
<1> SUFFICES ASSUME OpInv, NEW now \in Reading, NEW later \in Reading, now <= later
             PROVE  /\ \A status \in Status : \A shown \in decoratePage(ListInstances(status, now), later) :
                          shown.status = status \/ (now < later /\ status = "online" /\ shown.status = "offline")
                    /\ \A d \in Device : readInstance(d) => \E status \in Status : d \in ListInstances(status, now)
                    /\ \A u \in User, status \in Status : ListUserInstances(u, status, now) \subseteq DevicesOf(u)
  BY ZenonT(40) DEF ListsAgree
<1>0. now \in Int /\ later \in Int /\ OnlineFor \in Nat
  BY DesktopAssumption DEF OpInv, DesktopInv, DesktopRows, Reading
<1>1. ASSUME NEW d \in Device, readInstance(d) PROVE instance[d].beat \in Int /\ instance[d].owner = device[d].owner
  BY <1>1, Zenon DEF OpInv, DesktopInv, DesktopRows, DesktopOwned, InstanceRow, readInstance, NoInstance
<1>2. ASSUME NEW status \in Status, NEW d \in ListInstances(status, now)
      PROVE  EffectiveStatus(d, later) = status
                \/ (now < later /\ status = "online" /\ EffectiveStatus(d, later) = "offline")
  <2>1. d \in Device /\ readInstance(d) /\ projected(d, now) = status
    BY Zenon DEF ListInstances
  <2>2. instance[d].beat \in Int
    BY <1>1, <2>1, Zenon
  <2> DEFINE u == user[instance[d].owner].status
             s == device[d].status
  <2>3. CASE \/ u \in {"disabled", "finalized"} \/ u = "pending_deletion"
             \/ u = "active" /\ s \in {"inactive", "revoked"}
    BY <2>1, <2>3, ZenonT(40) DEF projected, EffectiveStatus
  <2>4. CASE ~(\/ u \in {"disabled", "finalized"} \/ u = "pending_deletion"
               \/ u = "active" /\ s \in {"inactive", "revoked"})
    <3>1. projected(d, now) = IF instance[d].beat < now - OnlineFor THEN "offline" ELSE "online"
      BY <2>4, ZenonT(40) DEF projected
    <3>2. EffectiveStatus(d, later) = IF later - instance[d].beat > OnlineFor THEN "offline" ELSE "online"
      BY <2>4, Zenon DEF EffectiveStatus
    <3> QED BY <1>0, <2>1, <2>2, <3>1, <3>2
  <2> QED BY <2>3, <2>4, ZenonT(40)
<1>3. ASSUME NEW status \in Status, NEW shown \in decoratePage(ListInstances(status, now), later)
      PROVE  shown.status = status \/ (now < later /\ status = "online" /\ shown.status = "offline")
  <2>1. PICK d \in ListInstances(status, now) : shown = [device |-> d, status |-> EffectiveStatus(d, later)]
    BY Zenon DEF decoratePage
  <2>2. shown.status = EffectiveStatus(d, later)
    BY <2>1, ZenonT(40)
  <2> QED BY <1>2, <2>2, ZenonT(40)
<1>4. ASSUME NEW d \in Device, readInstance(d) PROVE \E status \in Status : d \in ListInstances(status, now)
  <2>1. projected(d, now) \in Status
    BY ZenonT(40) DEF projected, Status
  <2> QED BY <1>4, <2>1, ZenonT(40) DEF ListInstances
<1>5. ASSUME NEW u \in User, NEW status \in Status PROVE ListUserInstances(u, status, now) \subseteq DevicesOf(u)
  BY <1>1, ZenonT(40) DEF ListUserInstances, ListInstances, DevicesOf
<1> QED BY <1>3, <1>4, <1>5, Zenon

-----------------------------------------------------------------------------
(* The theorems.  The library's facts on finite sets come last: no lemma    *)
(* above has to be searched with them in sight.                             *)

INSTANCE FiniteSetTheorems

LEMMA CountingHolds == Counting
<1>1. \A S : IsFiniteSet(S) => \A T \in SUBSET S : IsFiniteSet(T) /\ Cardinality(T) <= Cardinality(S)
  BY FS_Subset, Zenon
<1>2. \A S, x : IsFiniteSet(S) => IsFiniteSet(S \cup {x})
  BY FS_AddElement, Zenon
<1>3. ASSUME NEW S, IsFiniteSet(S), NEW f PROVE Pictured(S, f)
  <2> DEFINE T == {f[x] : x \in S}
             g == [x \in S |-> f[x]]
  <2>1. g \in Surjection(S, T)
    BY Zenon DEF Surjection
  <2>2. ASSUME \A x, y \in S : f[x] = f[y] => x = y PROVE g \in Injection(S, T)
    BY <2>2, Zenon DEF Injection, IsInjective
  <2> HIDE DEF T, g
  <2>3. IsFiniteSet(T) /\ (g \in Injection(S, T) => Cardinality(T) = Cardinality(S))
    BY <1>3, <2>1, FS_Surjection, Zenon
  <2> QED BY <2>2, <2>3, Zenon DEF Pictured, T
<1>4. Cardinality({}) = 0 /\ \A x : Cardinality({x}) = 1
  BY FS_EmptySet, FS_Singleton, Zenon
<1> QED BY <1>1, <1>2, <1>3, <1>4, Zenon DEF Counting

LEMMA OpInvHolds == OpSpec => []OpInv
<1>1. (OpInit => OpInv) /\ (OpInv /\ [OpNext]_vars => OpInv')
  BY CountingHolds, InitOpInv, NextOpInv, Zenon
<1> QED BY <1>1, PTL DEF OpSpec

\* What hangs on a device belongs to its present owner, and an account that is
\* disabled or waits to be deleted is silent: transfers, revocations, sign-ins
\* and administration of any number of users and devices leave nothing behind.
THEOREM DevicesStayOwned == OpSpec => []DevicesAreOwned
<1>1. OpInv => DevicesAreOwned
  <2> SUFFICES ASSUME OpInv PROVE DevicesAreOwned
    BY Zenon
  <2>0. PrRows /\ Backed /\ DesktopOwned
    BY ZenonT(40) DEF OpInv, AccessInv, DesktopInv
  <2>1. LiveSessionsOwned
    <3> SUFFICES ASSUME NEW s \in Session, sess[s].live PROVE sess[s].device \in List(sess[s].user)
      BY ZenonT(40) DEF LiveSessionsOwned
    <3>1. sess[s].user \in User /\ sess[s].device \in Device
      BY <2>0, SessionFields, ZenonT(40) DEF PrRows
    <3>2. device[sess[s].device] = [owner |-> sess[s].user, status |-> "active"]
      BY <2>0, ZenonT(40) DEF Backed
    <3>3. device[sess[s].device].owner = sess[s].user /\ device[sess[s].device].status = "active"
      BY <3>2
    <3>4. Active(sess[s].user)
      BY <2>0, <3>1, <3>3, ZenonT(40) DEF Backed
    <3> QED BY <3>1, <3>3, <3>4, ZenonT(40) DEF List, DevicesOf
  <2>2. DisabledIsSilent
    <3> SUFFICES ASSUME NEW u \in User, user[u].status \in {"disabled", "pending_deletion"}
                 PROVE  (\A d \in DevicesOf(u) : device[d].status # "active") /\ \A s \in SessionsOf(u) : ~sess[s].live
      BY Zenon DEF DisabledIsSilent
    <3>1. ~Active(u)
      BY ZenonT(40) DEF Active
    <3>2. \A d \in DevicesOf(u) : device[d].status # "active"
      BY <2>0, <3>1, ZenonT(40) DEF Backed, DevicesOf
    <3>3. ASSUME NEW s \in SessionsOf(u), sess[s].live PROVE FALSE
      <4>1. s \in Session /\ sess[s].user = u
        BY Zenon DEF SessionsOf
      <4>2. sess[s].device \in Device
        BY <2>0, <3>3, <4>1, SessionFields, ZenonT(40) DEF PrRows
      <4>3. device[sess[s].device] = [owner |-> u, status |-> "active"]
        BY <2>0, <3>3, <4>1, ZenonT(40) DEF Backed
      <4>4. device[sess[s].device].owner = u /\ device[sess[s].device].status = "active"
        BY <4>3
      <4> QED BY <3>2, <4>2, <4>4, ZenonT(40) DEF DevicesOf
    <3> QED BY <3>2, <3>3, ZenonT(40)
  <2>3. NothingSurvivesTransfer
    BY <2>0, Zenon DEF NothingSurvivesTransfer, DesktopOwned
  <2> QED BY <2>1, <2>2, <2>3, Zenon DEF DevicesAreOwned
<1> QED BY <1>1, OpInvHolds, PTL DEF OpSpec

\* An approval gives one session, a login receipt one browser session and a
\* signed self-revocation one revocation, whatever is sent again or at once, for
\* any number of requests, browsers, receipts and servers.
THEOREM NothingIsUsedTwice == OpSpec => []UsedOnce
<1>1. OpInv => UsedOnce
  <2> SUFFICES ASSUME OpInv PROVE UsedOnce
    BY Zenon
  <2>0. SignRows /\ OpenedOnce
    BY ZenonT(40) DEF OpInv, AccessInv
  <2>1. OneSessionPerApproval
    <3> SUFFICES ASSUME NEW r \in Grant, grant[r] # NoGrant
                 PROVE  /\ Cardinality(grant[r].started) <= 1
                        /\ grant[r].status \in {"saved", "approved"} => grant[r].started = {}
                        /\ grant[r].status = "consumed" => grant[r].started # {}
      BY ZenonT(40) DEF OneSessionPerApproval
    <3>1. grant[r] \in GrantRow
      BY <2>0, GrantFields, Zenon DEF SignRows
    <3>2. \A s, t \in grant[r].started : s = t
      BY <3>1, ZenonT(40) DEF GrantRow
    <3>3. /\ grant[r].status \in {"saved", "approved"} => grant[r].started = {}
          /\ grant[r].status = "consumed" => grant[r].started # {}
      BY <3>1, Zenon DEF GrantRow
    <3> QED BY CountingHolds, <3>2, <3>3, AtMostOne, ZenonT(40)
  <2>2. OneLoginPerReceipt
    <3> SUFFICES ASSUME NEW x \in Receipt
                 PROVE  LET opened == {b \in Browser : web[b].of = x /\ web[b].phase = "open"}
                        IN Cardinality(opened) <= 1 /\ (opened # {} => receipt[x].spent)
      BY Zenon DEF OneLoginPerReceipt
    <3> DEFINE opened == {b \in Browser : web[b].of = x /\ web[b].phase = "open"}
    <3>1. \A b, c \in opened : b = c
      BY <2>0, ZenonT(40) DEF OpenedOnce
    <3>2. opened # {} => receipt[x].spent
      BY <2>0, Zenon DEF OpenedOnce
    <3>3. Cardinality(opened) <= 1
      <4> HIDE DEF opened
      <4> QED BY CountingHolds, <3>1, AtMostOne, ZenonT(40)
    <3> QED BY <3>2, <3>3, ZenonT(40)
  <2>3. SelfRevocationOnce
    BY <2>0 DEF SelfRevocationOnce, SignRows, MessageRow
  <2> QED BY <2>1, <2>2, <2>3, Zenon DEF UsedOnce
<1> QED BY <1>1, OpInvHolds, PTL DEF OpSpec

\* A stored identity names one account and is recognised by every server during
\* a key rotation, and an account keeps an identity of its own as long as it can
\* be used, for any number of servers that register and bind at the same time
\* (lockIdentityScope, identityExists, RemoveIdentity, FinalizeDeletion).
THEOREM IdentitiesStay == OpSpec => []IdentitiesHold
<1>1. OpInv => IdentitiesHold
  BY IdInvHolds, ZenonT(40) DEF OpInv, IdentitiesHold
<1> QED BY <1>1, OpInvHolds, PTL DEF OpSpec

\* What administrators are shown is what their operations and filters act on:
\* rows can be read, an operation that suits what was shown is not refused,
\* every server finds an account by each of its identities during a rotation,
\* and a filtered list shows the status it was filtered by, for any number of
\* users, devices, identities and servers (GetUser, LookupUser, ListInstances).
THEOREM OperatorReadsStay == OpSpec => []OperatorReadsAgree
<1>1. OpInv => OperatorReadsAgree
  <2> SUFFICES ASSUME OpInv PROVE OperatorReadsAgree
    BY Zenon
  <2>1. ASSUME NEW row \in identity, NEW n \in Server PROVE LookupUser(n, row.value) = {row.user}
    <3>1. row.key \in ring[n].keys
      BY Recognised, ZenonT(40) DEF OpInv, IdInv, KeyInv
    <3>2. Index(row) \in LookupCandidates(n, row.value)
      BY <3>1, Zenon DEF Index, LookupCandidates
    <3>3. \A x \in identity : Index(x) \in LookupCandidates(n, row.value) => x.value = row.value
      BY Zenon DEF Index, LookupCandidates
    <3>4. \A x \in identity : x.value = row.value => x = row
      BY Zenon DEF OpInv, IdInv, KeyInv, ValuesFit
    <3> QED BY <3>2, <3>3, <3>4, Zenon DEF LookupUser
  <2>2. ConsoleAgrees
    BY CountingHolds, <2>1, ConsoleShows, ConsoleAccepts, ZenonT(40) DEF ConsoleAgrees
  <2> QED BY <2>2, ListsShow, ZenonT(40) DEF OperatorReadsAgree
<1> QED BY <1>1, OpInvHolds, PTL DEF OpSpec

\* A health check that is queued twice is one check, is settled in time and is
\* audited once, for any number of administrators, devices and commands and
\* however late a handler's reading of the clock is.
THEOREM ChecksSettle == OpSpec => []ChecksSettleOnce
<1>1. OpInv => ChecksSettleOnce
  <2> SUFFICES ASSUME OpInv PROVE ChecksSettleOnce
    BY Zenon
  <2>0. DesktopRows /\ CommandsFit /\ ResultsInTime /\ OneEventPerCheck
    BY Zenon DEF OpInv, DesktopInv
  <2>1. OneCommandPerKey
    BY <2>0 DEF OneCommandPerKey, CommandsFit
  <2> QED BY <2>0, <2>1, ZenonT(40) DEF ChecksSettleOnce
<1> QED BY <1>1, OpInvHolds, PTL DEF OpSpec

\* A command moves only along CanTransition, and a settled one keeps its outcome
\* and its time until its device moves to another user: late, repeated and
\* contradicting results are refused.
THEOREM CommandsForward == OpSpec => CommandsMoveForward
<1> DEFINE step == \A c \in Rows :
                      command'[c] # command[c] =>
                          \/ command'[c] = Gone
                          \/ /\ command[c].state \notin Settled
                             /\ CanTransition(command[c].state, command'[c].state)
<1>1. OpInv /\ [OpNext]_vars => [step]_command
  <2> SUFFICES ASSUME OpInv, [OpNext]_vars, NEW c \in Rows, command'[c] # command[c]
               PROVE  \/ command'[c] = Gone
                      \/ command[c].state \notin Settled /\ CanTransition(command[c].state, command'[c].state)
    BY Zenon
  <2>1. c \in Command /\ CommandStep(c)
    BY CountingHolds, NextOpInv, Zenon DEF Rows, CommandsMove
  <2>2. command[c] # NoCommand
    BY DEF Rows, NoCommand, Open, Settled
  <2> QED BY <2>1, <2>2, ZenonT(40) DEF CommandStep, CommandKept, CommandMoves, CommandStarts, CommandGone
<1> QED BY <1>1, OpInvHolds, PTL DEF OpSpec, CommandsMoveForward
==============================================================================
