---------------------------- MODULE AgentsProofs ----------------------------
(***************************************************************************)
(* What TLAPS proves of Agents for every value of its constants.           *)
(*                                                                         *)
(* The official catalogue and the agents of users and teams share no       *)
(* variable, so each has an inductive invariant of its own: OffInv, which  *)
(* is proved here, and RvInv of AgentReviewProofs.  For each table, a      *)
(* predicate says what a step may do to it; the invariants are then        *)
(* derived from these predicates.                                          *)
(***************************************************************************)
EXTENDS Agents, AgentReviewProofs

-----------------------------------------------------------------------------
(* The official catalogue: what a step may do *)

ReleaseOps == {"activate", "rollout_update", "pause", "resume", "rollback"}

\* A definition is reserved, or gets its next version.
Reserves(d) == /\ head[d] = "unreserved" /\ head' = [head EXCEPT ![d] = Nobody]
               /\ UNCHANGED offVersion
Publishes(d, v) ==
    /\ offVersion[v] = NoOffVersion
    /\ head' = [head EXCEPT ![d] = v]
    /\ offVersion' = [offVersion EXCEPT ![v] =
           [def |-> d, number |-> IF head[d] = Nobody THEN 1 ELSE offVersion[head[d]].number + 1]]
    /\ head[d] \in OffVersion \cup {Nobody}
CatalogMoves ==
    \/ UNCHANGED <<head, offVersion>>
    \/ \E d \in OffDefinition : Reserves(d)
    \/ \E d \in OffDefinition, v \in OffVersion : Publishes(d, v)

\* A release begins, or gets one more revision.
Begins(r) == /\ release[r] = <<>>
             /\ \E x \in Revision : release'[r] = <<x>>
KeepsPause(r, x) ==
    release[r] # <<>> /\ Current(r).state = "paused" => x.state = "paused" \/ x.action \in {"activate", "resume"}
Appends(a, r, x) ==
    /\ release[r] # <<>> /\ KeepsPause(r, x)
    /\ release' = [release EXCEPT ![r] = Append(release[r], x)]
    /\ \E q \in Admin \cup {Nobody} : operation' = operation \cup
          {[by |-> a, requester |-> q, release |-> r, expected |-> Len(release[r]), result |-> Len(release[r]) + 1]}
    /\ \E k \in OffKey : offRecord' = offRecord \cup {[op |-> x.action, key |-> k,
                                                       about |-> <<r, Len(release[r]) + 1>>]}
ReleaseMoves ==
    \/ /\ \A r \in Releases : release'[r] = release[r] \/ Begins(r)
       /\ release' = [r \in Releases |-> release'[r]]
       /\ UNCHANGED operation
       /\ \A x \in offRecord' \ offRecord : x.op \notin ReleaseOps
    \/ \E a \in Admin, r \in Releases, x \in Revision : Appends(a, r, x)

\* An installation is made, activated or archived, or moved to the revision in force.
TakesUp(i) ==
    /\ managed[i] = NoManaged
    /\ \E h \in Holder, r \in Releases :
          /\ release[r] # <<>> /\ Admits(Current(r), h) /\ Current(r).state = "active"
          /\ managed'[i] = [status |-> "pending", holder |-> h, release |-> r,
                            revision |-> Len(release[r]), ver |-> Current(r).ver, policies |-> 1]
Settles(i) ==
    /\ managed[i] # NoManaged
    /\ \E s \in {"active", "archived"} : managed'[i] = [managed[i] EXCEPT !.status = s]
Applied(i) ==
    /\ managed[i] # NoManaged
    /\ managed[i].revision # Len(release[managed[i].release])
    /\ release[managed[i].release] # <<>> /\ Admits(Current(managed[i].release), managed[i].holder)
    /\ managed'[i] = [managed[i] EXCEPT !.revision = Len(release[managed[i].release]),
                                        !.policies = managed[i].policies + 1,
                                        !.ver = Current(managed[i].release).ver]
ManagedMoves ==
    \/ UNCHANGED managed
    \/ /\ UNCHANGED release /\ managed' = [i \in OffInstall |-> managed'[i]]
       /\ \A i \in OffInstall : managed'[i] = managed[i] \/ TakesUp(i) \/ Settles(i) \/ Applied(i)

\* A release is judged in favour of a holder, and a judgement is used or dropped;
\* a release that is judged gets no revision.
Judgement == [holder : Holder, head : Nat, purpose : {"install", "update"}]
Favours(r, x) ==
    /\ release[r] # <<>> /\ x.head = Len(release[r]) /\ Admits(Current(r), x.holder)
    /\ x.purpose = "install" => Current(r).state = "active"
Judges(r) == \E x \in Judgement : Favours(r, x) /\ judged' = [judged EXCEPT ![r] = x]
JudgedMoves ==
    \/ /\ UNCHANGED judged
       /\ \A r \in Releases : judged[r] # NotJudged /\ release[r] # <<>> => release'[r] = release[r]
    \/ /\ UNCHANGED release
       /\ \E r \in Releases : Judges(r) \/ judged' = [judged EXCEPT ![r] = NotJudged]

\* A release that is judged is so until the judgement is dropped.
JudgedFits(r) == judged[r] # NotJudged => judged[r] \in Judgement /\ Favours(r, judged[r])
JudgedFit == \A r \in Releases : JudgedFits(r)

\* A delivery is recorded for the revision an installation then has.
DeliveryMoves ==
    \/ UNCHANGED delivery
    \/ \E i \in OffInstall :
          /\ managed[i] # NoManaged /\ UNCHANGED managed
          /\ delivery' = delivery \cup {[release |-> managed[i].release, revision |-> managed[i].revision,
                                         holder |-> managed[i].holder, inst |-> i]}

\* Submissions
SubmissionMoves ==
    \/ UNCHANGED platformSubmission
    \/ \E s \in PlatformSubmission, a \in Admin, d \in OffDefinition :
          platformSubmission' = [t \in PlatformSubmission |->
              IF t = s THEN Submitted(a, d)
              ELSE IF t \in Pending(d) THEN [platformSubmission[t] EXCEPT !.status = "superseded"]
              ELSE platformSubmission[t]]
    \/ \E s \in PlatformSubmission, x \in SubmissionRow :
          /\ x.status # "pending" /\ platformSubmission' = [platformSubmission EXCEPT ![s] = x]

OffMoves == CatalogMoves /\ ReleaseMoves /\ ManagedMoves /\ JudgedMoves /\ DeliveryMoves /\ SubmissionMoves

\* The revisions that buildOfficialReleaseRevision builds.
LEMMA RevisionBuilt ==
    ASSUME OffTypeOK, NEW r \in Releases, release[r] # <<>>, NEW action \in ReleaseOps,
           NEW v, NEW n \in Rollout \cup {0}, NEW m \in Minimum \cup {0}, NEW allowed \in SUBSET Holder,
           action = "activate" => v \in OffVersion,
           action \in {"activate", "rollout_update"} => m \in Minimum,
           NEW target \in Nat,
           NEW x \in buildOfficialReleaseRevision(r, action, v, n, m, allowed, target)
    PROVE  x \in Revision /\ x.action = action /\ KeepsPause(r, x)
<1>1. release[r] \in Seq(Revision) /\ Len(release[r]) \in 1..Len(release[r])
  BY DEF OffTypeOK
<1>2. Current(r) \in Revision
  BY <1>1, SMTT(40) DEF Current
<1>3. CASE action = "activate"
  BY <1>2, <1>3, SMTT(40) DEF buildOfficialReleaseRevision, KeepsPause, Revision
<1>4. CASE action = "rollout_update"
  BY <1>2, <1>4, SMTT(40) DEF buildOfficialReleaseRevision, KeepsPause, Revision
<1>5. CASE action = "pause"
  <2>1. x = [Current(r) EXCEPT !.state = "paused", !.action = "pause", !.target = 0]
    BY <1>5, Zenon DEF buildOfficialReleaseRevision
  <2> QED BY <2>1, <1>2, <1>5, Zenon DEF KeepsPause, Revision
<1>6. CASE action = "resume"
  <2>1. x = [Current(r) EXCEPT !.state = "active", !.action = "resume", !.target = 0]
    BY <1>6, Zenon DEF buildOfficialReleaseRevision
  <2> QED BY <2>1, <1>2, <1>6, Zenon DEF KeepsPause, Revision
<1>7. CASE action = "rollback"
  <2>1. /\ target \in 1..(Len(release[r]) - 1)
        /\ x = [release[r][target] EXCEPT !.state = Current(r).state, !.action = "rollback",
                                          !.target = target]
    BY <1>7, Zenon DEF buildOfficialReleaseRevision, copyOfficialReleaseRevision
  <2>2. release[r][target] \in Revision
    BY <1>1, <2>1, SMTT(40)
  <2> QED BY <2>1, <2>2, <1>2, <1>7, Zenon DEF KeepsPause, Revision
<1> QED BY <1>3, <1>4, <1>5, <1>6, <1>7, Zenon DEF ReleaseOps

\* An administrator's release operation appends one revision and records itself.
LEMMA AppendMoves ==
    ASSUME OffTypeOK, NEW a \in Admin, NEW q \in Admin \cup {Nobody}, NEW r \in Releases,
           NEW e \in Nat, NEW action \in ReleaseOps, NEW v, NEW n \in Rollout \cup {0},
           NEW m \in Minimum \cup {0}, NEW allowed \in SUBSET Holder, NEW target \in Nat, NEW k \in OffKey,
           action = "activate" => v \in OffVersion,
           action \in {"activate", "rollout_update"} => m \in Minimum,
           AppendOfficialReleaseRevision(a, q, r, e, action, v, n, m, allowed, target, k)
    PROVE  OffMoves
<1>1. PICK x \in buildOfficialReleaseRevision(r, action, v, n, m, allowed, target) :
         release' = [release EXCEPT ![r] = Append(release[r], x)]
  BY Zenon DEF AppendOfficialReleaseRevision
<1>2. release[r] # <<>> /\ e = Len(release[r])
  BY Zenon DEF AppendOfficialReleaseRevision
<1>3. x \in Revision /\ x.action = action /\ KeepsPause(r, x)
  BY <1>2, RevisionBuilt, Zenon
<1>4. operation' = operation \cup {[by |-> a, requester |-> q, release |-> r, expected |-> Len(release[r]),
                                    result |-> Len(release[r]) + 1]}
  BY <1>2, Zenon DEF AppendOfficialReleaseRevision, recordPlatformAdminOperation
<1>5. offRecord' = offRecord \cup {[op |-> x.action, key |-> k, about |-> <<r, Len(release[r]) + 1>>]}
  BY <1>2, <1>3, Zenon DEF AppendOfficialReleaseRevision, insertPlatformIdempotency
<1>6. Appends(a, r, x)
  BY <1>1, <1>2, <1>3, <1>4, <1>5, Zenon DEF Appends
<1>7. JudgedMoves
  BY <1>1, Zenon DEF AppendOfficialReleaseRevision, JudgedMoves, OffTypeOK
<1> QED BY <1>3, <1>6, <1>7, Zenon DEF OffMoves, ReleaseMoves, CatalogMoves, ManagedMoves, DeliveryMoves,
           SubmissionMoves, AppendOfficialReleaseRevision, catalog

LEMMA ReleaseStepMoves == OffTypeOK /\ ReleaseNext => OffMoves /\ UNCHANGED <<draft, eligible>>
<1> SUFFICES ASSUME OffTypeOK, NEW a \in Admin, NEW k \in OffKey, NEW r \in Releases,
                    NEW e \in 1..MaxRevisions,
                    \/ ActivateOfficialRelease(a, r, e, k) \/ UpdateOfficialRollout(a, r, e, k)
                    \/ PauseOfficialRelease(a, r, e, k) \/ ResumeOfficialRelease(a, r, e, k)
                    \/ RollbackOfficialRelease(a, r, e, k)
             PROVE  OffMoves /\ UNCHANGED <<draft, eligible>>
  BY Zenon DEF ReleaseNext
<1>1. e \in Nat /\ MaxRevisions \in Nat
  BY OfficialParameters, SMTT(40)
<1>2. CASE ActivateOfficialRelease(a, r, e, k)
  <2>1. PICK v \in OffVersion, n \in Rollout, m \in Minimum, allowed \in SUBSET eligible :
           AppendOfficialReleaseRevision(a, Nobody, r, e, "activate", v, n, m, allowed, 0, k)
    BY <1>2, Zenon DEF ActivateOfficialRelease
  <2>2. allowed \in SUBSET Holder
    BY Zenon DEF OffTypeOK
  <2>3. OffMoves
    BY <1>1, <2>1, <2>2, AppendMoves, Zenon DEF ReleaseOps
  <2> QED BY <2>1, <2>3, Zenon DEF AppendOfficialReleaseRevision, catalog
<1>3. CASE UpdateOfficialRollout(a, r, e, k)
  <2>1. PICK n \in Rollout, m \in Minimum, allowed \in SUBSET eligible :
           AppendOfficialReleaseRevision(a, Nobody, r, e, "rollout_update", Nobody, n, m, allowed, 0, k)
    BY <1>3, Zenon DEF UpdateOfficialRollout
  <2>2. allowed \in SUBSET Holder
    BY Zenon DEF OffTypeOK
  <2>3. OffMoves
    BY <1>1, <2>1, <2>2, AppendMoves, Zenon DEF ReleaseOps
  <2> QED BY <2>1, <2>3, Zenon DEF AppendOfficialReleaseRevision, catalog
<1>4. ASSUME NEW action \in {"pause", "resume"}, changeOfficialReleaseState(a, r, e, k, action)
      PROVE  OffMoves /\ UNCHANGED <<draft, eligible>>
  <2>1. AppendOfficialReleaseRevision(a, Nobody, r, e, action, Nobody, 0, 0, {}, 0, k)
    BY <1>4, Zenon DEF changeOfficialReleaseState
  <2>2. OffMoves
    BY <1>1, <2>1, AppendMoves, ZenonT(40) DEF ReleaseOps
  <2> QED BY <2>1, <2>2, Zenon DEF AppendOfficialReleaseRevision, catalog
<1>5. CASE RollbackOfficialRelease(a, r, e, k)
  <2>1. PICK v \in OffVersion, q \in Admin, target \in 1..MaxRevisions :
           AppendOfficialReleaseRevision(a, q, r, e, "rollback", v, 0, 0, {}, target, k)
    BY <1>5, Zenon DEF RollbackOfficialRelease
  <2>2. OffMoves
    BY <1>1, <2>1, AppendMoves, SMTT(40) DEF ReleaseOps
  <2> QED BY <2>1, <2>2, Zenon DEF AppendOfficialReleaseRevision, catalog
<1> QED BY <1>2, <1>3, <1>4, <1>5, Zenon DEF PauseOfficialRelease, ResumeOfficialRelease

\* Locking a release judges it, and dropping the lock drops the judgement.
LEMMA LockMoves ==
    ASSUME OffTypeOK, NEW r \in Releases,
           \/ \E h \in Holder, purpose \in {"install", "update"} : lockOfficialRelease(h, r, purpose)
           \/ abandonSelection(r)
    PROVE  OffMoves /\ UNCHANGED <<draft, eligible>>
<1>1. UNCHANGED <<catalog, release, managed, eligible, offRecord, operation, delivery>>
  BY Zenon DEF lockOfficialRelease, abandonSelection
<1>2. JudgedMoves
  <2>1. CASE abandonSelection(r)
    BY <1>1, <2>1, Zenon DEF abandonSelection, JudgedMoves
  <2>2. ASSUME NEW h \in Holder, NEW purpose \in {"install", "update"}, lockOfficialRelease(h, r, purpose)
        PROVE  Judges(r)
    <3> DEFINE x == [holder |-> h, head |-> Len(release[r]), purpose |-> purpose]
    <3>1. judged' = [judged EXCEPT ![r] = x] /\ ResolveOfficialRelease(h, r, purpose = "update")
      BY <2>2, Zenon DEF lockOfficialRelease
    <3>2. x \in Judgement
      <4>1. Len(release[r]) \in Nat
        BY SMTT(40) DEF OffTypeOK
      <4> QED BY <4>1, Zenon DEF Judgement
    <3>3. purpose = "install" => purpose # "update"
      BY Zenon
    <3>4. /\ release[r] # <<>> /\ Admits(Current(r), h)
          /\ Current(r).state = "active" \/ purpose = "update"
      BY <3>1, Zenon DEF ResolveOfficialRelease, EvaluateOfficialEligibilityRecord,
                       loadOfficialEligibilityRecord, Admits
    <3>5. x.head = Len(release[r]) /\ x.holder = h /\ x.purpose = purpose
      BY Zenon
    <3> HIDE DEF x
    <3>6. Favours(r, x)
      BY <3>3, <3>4, <3>5, Zenon DEF Favours
    <3> QED BY <3>1, <3>2, <3>6, Zenon DEF Judges
  <2> QED BY <1>1, <2>1, <2>2, ZenonT(40) DEF JudgedMoves
<1>3. ReleaseMoves
  BY <1>1, Zenon DEF ReleaseMoves, OffTypeOK
<1> QED BY <1>1, <1>2, <1>3, Zenon DEF OffMoves, CatalogMoves, ManagedMoves, DeliveryMoves, SubmissionMoves, catalog

\* The steps of devices
LEMMA DeviceStepMoves ==
    OffTypeOK /\ JudgedFit /\ DeviceNext => OffMoves /\ UNCHANGED draft /\ eligible' \subseteq Holder
<1> SUFFICES ASSUME OffTypeOK, JudgedFit, DeviceNext
             PROVE  OffMoves /\ UNCHANGED draft /\ eligible' \subseteq Holder
  BY Zenon
<1> DEFINE Goal == OffMoves /\ UNCHANGED draft /\ eligible' \subseteq Holder
<1>0. eligible \subseteq Holder /\ managed \in [OffInstall -> ManagedRow \cup {NoManaged}]
  BY Zenon DEF OffTypeOK
<1>1. ASSUME NEW h \in Holder, NEW i \in OffInstall, NEW n \in 1..MaxRevisions, NEW r \in Releases,
             NEW k \in OffKey, createOfficialPendingInstallation(h, i, r, n, k)
      PROVE  Goal
  <2>1. /\ managed[i] = NoManaged /\ judged[r] = [holder |-> h, head |-> n, purpose |-> "install"]
        /\ managed' = [managed EXCEPT ![i] = [status |-> "pending", holder |-> h, release |-> r,
                           revision |-> n, ver |-> release[r][n].ver, policies |-> 1]]
        /\ UNCHANGED <<catalog, release, eligible, operation, delivery>>
        /\ judged' = [judged EXCEPT ![r] = NotJudged]
        /\ offRecord' = offRecord \cup {[op |-> "install", key |-> k, about |-> i]}
    BY <1>1, Zenon DEF createOfficialPendingInstallation, insertPlatformIdempotency
  <2>2. n = Len(release[r]) /\ release[r] # <<>> /\ Admits(Current(r), h) /\ Current(r).state = "active"
    <3>1. judged[r] # NotJudged
      BY <2>1, OfficialParameters, SMTT(40) DEF NotJudged
    <3>2. Favours(r, judged[r])
      BY <3>1, Zenon DEF JudgedFit, JudgedFits
    <3>3. judged[r].holder = h /\ judged[r].head = n /\ judged[r].purpose = "install"
      BY <2>1, SMTT(40)
    <3> QED BY <3>2, <3>3, Zenon DEF Favours
  <2>3. TakesUp(i)
    BY <2>1, <2>2, <1>0, Zenon DEF TakesUp, Current
  <2>4. ManagedMoves
    BY <2>1, <2>3, <1>0, Zenon DEF ManagedMoves
  <2>5. ReleaseMoves
    BY <2>1, SMTT(40) DEF ReleaseMoves, ReleaseOps, OffTypeOK
  <2>6. JudgedMoves
    BY <2>1, Zenon DEF JudgedMoves
  <2> QED BY <1>0, <2>1, <2>4, <2>5, <2>6, Zenon DEF OffMoves, CatalogMoves, DeliveryMoves, SubmissionMoves, catalog
<1>2. ASSUME NEW h \in Holder, NEW i \in OffInstall, ApplyManagedOfficialUpdate(h, i)
      PROVE  Goal
  <2>1. PICK e \in 1..MaxRevisions, n \in 1..MaxRevisions : ApplyManagedOfficialSelection(h, i, e, n)
    BY <1>2, Zenon DEF ApplyManagedOfficialUpdate
  <2> DEFINE r == managed[i].release
  <2>2. managed[i].status = "active" /\ managed[i].holder = h /\ managed[i].revision # n
    BY <2>1, Zenon DEF ApplyManagedOfficialSelection, Applies, Selectable
  <2>3. managed[i] # NoManaged
    BY <2>2, SMTT(40) DEF NoManaged
  <2>4. r \in Releases
    BY <2>3, <1>0, Zenon DEF ManagedRow
  <2>5. CASE lockOfficialRelease(h, r, "update")
    BY <1>0, <2>4, <2>5, LockMoves, Zenon
  <2>6. CASE ~lockOfficialRelease(h, r, "update")
    <3>1. /\ judged[r] = [holder |-> h, head |-> n, purpose |-> "update"]
          /\ UNCHANGED <<catalog, release, eligible, offRecord, operation, delivery>>
          /\ judged' = [judged EXCEPT ![r] = NotJudged]
      BY <2>1, <2>6, Zenon DEF ApplyManagedOfficialSelection
    <3>2. managed' = [managed EXCEPT ![i] = [managed[i] EXCEPT !.revision = n,
                         !.policies = managed[i].policies + 1, !.ver = release[r][n].ver]]
      BY <2>1, <2>6, <1>0, Zenon DEF ApplyManagedOfficialSelection
    <3>3. n = Len(release[r]) /\ release[r] # <<>> /\ Admits(Current(r), h)
      <4>1. judged[r] # NotJudged
        BY <3>1, OfficialParameters, SMTT(40) DEF NotJudged
      <4>2. Favours(r, judged[r])
        BY <2>4, <4>1, Zenon DEF JudgedFit, JudgedFits
      <4>3. judged[r].holder = h /\ judged[r].head = n
        BY <3>1, SMTT(40)
      <4> QED BY <4>2, <4>3, Zenon DEF Favours
    <3>5. Applied(i)
      BY <2>2, <2>3, <3>2, <3>3, <1>0, Zenon DEF Applied, Current
    <3>6. ManagedMoves
      BY <3>1, <3>2, <3>5, <1>0, ZenonT(40) DEF ManagedMoves
    <3>7. ReleaseMoves
      BY <3>1, Zenon DEF ReleaseMoves, OffTypeOK
    <3>8. JudgedMoves
      BY <2>4, <3>1, Zenon DEF JudgedMoves
    <3> QED BY <1>0, <3>1, <3>6, <3>7, <3>8, Zenon DEF OffMoves, CatalogMoves, DeliveryMoves, SubmissionMoves, catalog
  <2> QED BY <2>5, <2>6, Zenon
<1>3. ASSUME NEW h \in Holder, NEW k \in OffKey, RecordOfficialAgentDeliveryVerification(h, k)
      PROVE  Goal
  <2>1. PICK i \in OffInstall, n \in 1..MaxRevisions : InsertOfficialAgentDeliveryVerification(h, i, n, k)
    BY <1>3, Zenon DEF RecordOfficialAgentDeliveryVerification
  <2>2. /\ managed[i] # NoManaged /\ UNCHANGED <<catalog, release, managed, judged, eligible, operation>>
        /\ delivery' = delivery \cup {[release |-> managed[i].release, revision |-> managed[i].revision,
                                       holder |-> managed[i].holder, inst |-> i]}
        /\ offRecord' = offRecord \cup {[op |-> "delivery", key |-> k, about |-> i]}
    BY <2>1, SMTT(40) DEF InsertOfficialAgentDeliveryVerification, insertPlatformIdempotency, NoManaged
  <2>3. ReleaseMoves
    BY <2>2, SMTT(40) DEF ReleaseMoves, ReleaseOps, OffTypeOK
  <2>4. DeliveryMoves
    BY <2>2, Zenon DEF DeliveryMoves
  <2> QED BY <1>0, <2>2, <2>3, <2>4, Zenon DEF OffMoves, CatalogMoves, ManagedMoves, JudgedMoves, SubmissionMoves, catalog
<1>4. ASSUME NEW i \in OffInstall, ActivateManaged(i) \/ ArchiveManaged(i)
      PROVE  Goal
  <2>1. PICK s \in {"active", "archived"} : managed' = [managed EXCEPT ![i] = [managed[i] EXCEPT !.status = s]]
    BY <1>4, <1>0, Zenon DEF ActivateManaged, ArchiveManaged
  <2>2. managed[i] # NoManaged /\ UNCHANGED <<catalog, release, judged, eligible, offRecord, operation, delivery>>
    BY <1>4, SMTT(40) DEF ActivateManaged, ArchiveManaged, NoManaged
  <2>3. Settles(i)
    BY <2>1, <2>2, <1>0, Zenon DEF Settles
  <2>4. ManagedMoves
    BY <2>1, <2>2, <2>3, <1>0, Zenon DEF ManagedMoves
  <2>5. ReleaseMoves
    BY <2>2, Zenon DEF ReleaseMoves, OffTypeOK
  <2> QED BY <1>0, <2>2, <2>4, <2>5, Zenon DEF OffMoves, CatalogMoves, JudgedMoves, DeliveryMoves, SubmissionMoves, catalog
<1>5. ASSUME NEW h \in Holder, ContextChanges(h)
      PROVE  Goal
  <2>1. ReleaseMoves
    BY <1>5, Zenon DEF ContextChanges, ReleaseMoves, OffTypeOK
  <2> QED BY <1>0, <1>5, <2>1, Zenon DEF ContextChanges, OffMoves, CatalogMoves, ManagedMoves, JudgedMoves,
             DeliveryMoves, SubmissionMoves, catalog
<1>6. ASSUME NEW r \in Releases, abandonSelection(r)
      PROVE  Goal
  BY <1>0, <1>6, LockMoves, Zenon
<1>7. ASSUME NEW h \in Holder, NEW i \in OffInstall, NEW n \in 1..MaxRevisions, NEW r \in Releases,
             NEW k \in OffKey, CreatePendingInstallation(h, i, r, n, k)
      PROVE  Goal
  <2>1. CASE lockOfficialRelease(h, r, "install")
    BY <1>0, <2>1, LockMoves, Zenon
  <2> QED BY <1>1, <1>7, <2>1, Zenon DEF CreatePendingInstallation
<1> HIDE DEF Goal
<1>8. Goal
  BY <1>2, <1>3, <1>4, <1>5, <1>6, <1>7, Zenon DEF DeviceNext
<1> QED BY <1>8, Zenon DEF Goal

\* An approval publishes the next version and begins the channels' releases.
LEMMA ApproveMoves ==
    ASSUME OffTypeOK, NEW a \in Admin, NEW s \in PlatformSubmission, NEW v \in OffVersion,
           NEW channels \in SUBSET Channel, NEW m \in Minimum, NEW k \in OffKey,
           ApprovePlatformSubmission(a, s, v, channels, m, k)
    PROVE  OffMoves /\ UNCHANGED <<draft, eligible>>
<1>0. platformSubmission[s] \in SubmissionRow
  BY OfficialParameters, SMTT(40) DEF OffTypeOK, ApprovePlatformSubmission, NoPlatformSubmission
<1> DEFINE sub == platformSubmission[s]
           x == [sub EXCEPT !.status = "approved", !.reviewer = a, !.ver = v]
<1>1. /\ sub.def \in OffDefinition /\ sub.base \in OffVersion \cup {Nobody} /\ sub.base = head[sub.def]
      /\ x \in SubmissionRow /\ x.status = "approved"
  BY <1>0, Zenon DEF ApprovePlatformSubmission, lockPlatformPublicationTarget, SubmissionRow
<1>2. platformSubmission' = [platformSubmission EXCEPT ![s] = x]
  BY <1>0, Zenon DEF ApprovePlatformSubmission, OffTypeOK
<1>3. Publishes(sub.def, v)
  BY <1>1, Zenon DEF ApprovePlatformSubmission, Publishes, NextNumber
<1>4. CatalogMoves
  BY <1>1, <1>3, Zenon DEF CatalogMoves
<1>5. SubmissionMoves
  BY <1>1, <1>2, Zenon DEF SubmissionMoves
<1>6. ASSUME NEW r \in Releases
      PROVE  release'[r] = release[r] \/ Begins(r)
  <2> DEFINE y == [ver |-> v, state |-> "paused", rollout |-> 0, minimum |-> m, allowed |-> {},
                   action |-> "initial", target |-> 0]
  <2>1. y \in Revision
    BY Zenon DEF Revision
  <2>2. release'[r] = release[r] \/ (release[r] = <<>> /\ release'[r] = <<y>>)
    BY Zenon DEF ApprovePlatformSubmission, insertInitialOfficialRelease
  <2> HIDE DEF y
  <2> QED BY <2>1, <2>2, Zenon DEF Begins
<1>7. ReleaseMoves
  <2>1. release' = [r \in Releases |-> release'[r]] /\ UNCHANGED operation
    BY Zenon DEF ApprovePlatformSubmission, insertInitialOfficialRelease
  <2>2. \A z \in offRecord' \ offRecord : z.op \notin ReleaseOps
    BY SMTT(40) DEF ApprovePlatformSubmission, insertPlatformIdempotency, ReleaseOps
  <2> QED BY <1>6, <2>1, <2>2, Zenon DEF ReleaseMoves
<1>8. JudgedMoves
  BY Zenon DEF ApprovePlatformSubmission, insertInitialOfficialRelease, JudgedMoves
<1> QED BY <1>4, <1>5, <1>7, <1>8, Zenon DEF ApprovePlatformSubmission, OffMoves, ManagedMoves, DeliveryMoves

\* The steps that change the catalogue
LEMMA CatalogStepMoves ==
    OffTypeOK /\ CatalogNext =>
        /\ OffMoves /\ UNCHANGED eligible
        /\ draft' \in [OffDefinition -> [base : OffVersion \cup {Nobody}, revision : Nat]]
<1> DEFINE Drafts == [OffDefinition -> [base : OffVersion \cup {Nobody}, revision : Nat]]
           Goal == OffMoves /\ UNCHANGED eligible /\ draft' \in Drafts
<1> SUFFICES ASSUME OffTypeOK, CatalogNext PROVE Goal
  BY Zenon
<1>0. draft \in Drafts /\ release = [r \in Releases |-> release[r]]
  BY Zenon DEF OffTypeOK
<1>1. ASSUME UNCHANGED <<release, managed, judged, eligible, operation, delivery>>,
             \A x \in offRecord' \ offRecord : x.op \notin ReleaseOps
      PROVE  ReleaseMoves /\ ManagedMoves /\ JudgedMoves /\ DeliveryMoves /\ UNCHANGED eligible
  BY <1>0, <1>1, Zenon DEF ReleaseMoves, ManagedMoves, JudgedMoves, DeliveryMoves
<1>2. ASSUME NEW channels \in SUBSET Channel, EnsurePlatform(channels) PROVE Goal
  BY <1>0, <1>1, <1>2, Zenon DEF EnsurePlatform, OffMoves, CatalogMoves, SubmissionMoves
<1>3. ASSUME NEW d \in OffDefinition, NEW k \in OffKey, ReservePlatformDefinition(d, k) PROVE Goal
  <2>1. Reserves(d)
    BY <1>3, Zenon DEF ReservePlatformDefinition, Reserves
  <2>2. CatalogMoves
    BY <2>1, Zenon DEF CatalogMoves
  <2>3. \A x \in offRecord' \ offRecord : x.op \notin ReleaseOps
    BY <1>3, SMTT(40) DEF ReservePlatformDefinition, insertPlatformIdempotency, ReleaseOps
  <2> QED BY <1>0, <1>1, <1>3, <2>2, <2>3, ZenonT(40) DEF ReservePlatformDefinition, OffMoves, SubmissionMoves
<1>4. ASSUME NEW d \in OffDefinition, NEW base \in OffVersion \cup {Nobody}, NEW k \in OffKey,
             CreatePlatformDraft(d, base, k)
      PROVE  Goal
  <2>1. draft' \in Drafts
    BY <1>0, <1>4, Zenon DEF CreatePlatformDraft
  <2>2. \A x \in offRecord' \ offRecord : x.op \notin ReleaseOps
    BY <1>4, SMTT(40) DEF CreatePlatformDraft, insertPlatformIdempotency, ReleaseOps
  <2> QED BY <1>1, <1>4, <2>1, <2>2, Zenon DEF CreatePlatformDraft, OffMoves, CatalogMoves, SubmissionMoves
<1>5. ASSUME NEW d \in OffDefinition, NEW base \in OffVersion \cup {Nobody}, NEW e, NEW k \in OffKey,
             UpdatePlatformDraft(d, base, e, k)
      PROVE  Goal
  <2>1. draft' \in Drafts
    <3>1. draft' = [draft EXCEPT ![d] = [draft[d] EXCEPT !.base = base, !.revision = draft[d].revision + 1]]
      BY <1>0, <1>5, Zenon DEF UpdatePlatformDraft
    <3>2. [draft[d] EXCEPT !.base = base, !.revision = draft[d].revision + 1]
             \in [base : OffVersion \cup {Nobody}, revision : Nat]
      <4>1. draft[d] \in [base : OffVersion \cup {Nobody}, revision : Nat]
        BY <1>0, Zenon
      <4>2. draft[d].revision + 1 \in Nat
        BY <4>1, SMTT(40)
      <4> QED BY <4>1, <4>2, Zenon
    <3> QED BY <1>0, <3>1, <3>2, Zenon
  <2>2. \A x \in offRecord' \ offRecord : x.op \notin ReleaseOps
    BY <1>5, SMTT(40) DEF UpdatePlatformDraft, insertPlatformIdempotency, ReleaseOps
  <2> QED BY <1>1, <1>5, <2>1, <2>2, Zenon DEF UpdatePlatformDraft, OffMoves, CatalogMoves, SubmissionMoves
<1>6. ASSUME NEW a \in Admin, NEW d \in OffDefinition, NEW s \in PlatformSubmission, NEW e, NEW k \in OffKey,
             SubmitPlatformDraft(a, d, s, e, k)
      PROVE  Goal
  <2>1. platformSubmission' = [t \in PlatformSubmission |->
              IF t = s THEN Submitted(a, d)
              ELSE IF t \in Pending(d) THEN [platformSubmission[t] EXCEPT !.status = "superseded"]
              ELSE platformSubmission[t]]
    <3>1. s \notin Pending(d)
      BY <1>6, SMTT(40) DEF SubmitPlatformDraft, Pending, NoPlatformSubmission
    <3> QED BY <1>6, <3>1, Zenon DEF SubmitPlatformDraft
  <2>2. SubmissionMoves
    BY <2>1, Zenon DEF SubmissionMoves
  <2>3. \A x \in offRecord' \ offRecord : x.op \notin ReleaseOps
    BY <1>6, SMTT(40) DEF SubmitPlatformDraft, insertPlatformIdempotency, ReleaseOps
  <2> QED BY <1>0, <1>1, <1>6, <2>2, <2>3, Zenon DEF SubmitPlatformDraft, OffMoves, CatalogMoves
<1>7. ASSUME NEW a \in Admin, NEW s \in PlatformSubmission, NEW k \in OffKey,
             WithdrawPlatformSubmission(a, s, k) \/ RejectPlatformSubmission(a, s, k)
      PROVE  Goal
  <2>1. platformSubmission[s] \in SubmissionRow
    BY <1>7, SMTT(40) DEF WithdrawPlatformSubmission, RejectPlatformSubmission, OffTypeOK, NoPlatformSubmission
  <2>2. \E x \in SubmissionRow : x.status # "pending" /\ platformSubmission' = [platformSubmission EXCEPT ![s] = x]
    <3>1. CASE WithdrawPlatformSubmission(a, s, k)
      <4> DEFINE x == [platformSubmission[s] EXCEPT !.status = "withdrawn"]
      <4>1. x \in SubmissionRow /\ x.status = "withdrawn"
        BY <2>1, Zenon DEF SubmissionRow
      <4>2. platformSubmission' = [platformSubmission EXCEPT ![s] = x]
        BY <3>1, Zenon DEF WithdrawPlatformSubmission, OffTypeOK
      <4> HIDE DEF x
      <4> QED BY <4>1, <4>2, Zenon
    <3>2. CASE RejectPlatformSubmission(a, s, k)
      <4> DEFINE x == [platformSubmission[s] EXCEPT !.status = "rejected", !.reviewer = a]
      <4>1. x \in SubmissionRow /\ x.status = "rejected"
        BY <2>1, Zenon DEF SubmissionRow
      <4>2. platformSubmission' = [platformSubmission EXCEPT ![s] = x]
        BY <3>2, Zenon DEF RejectPlatformSubmission, OffTypeOK
      <4> HIDE DEF x
      <4> QED BY <4>1, <4>2, Zenon
    <3> QED BY <1>7, <3>1, <3>2, Zenon
  <2>3. SubmissionMoves
    BY <2>2, Zenon DEF SubmissionMoves
  <2>4. \A x \in offRecord' \ offRecord : x.op \notin ReleaseOps
    BY <1>7, SMTT(40) DEF WithdrawPlatformSubmission, RejectPlatformSubmission, insertPlatformIdempotency, ReleaseOps
  <2> QED BY <1>0, <1>1, <1>7, <2>3, <2>4, Zenon DEF WithdrawPlatformSubmission, RejectPlatformSubmission,
             OffMoves, CatalogMoves
<1>8. ASSUME NEW a \in Admin, NEW s \in PlatformSubmission, NEW k \in OffKey, ReviewPlatformSubmission(a, s, k)
      PROVE  Goal
  BY <1>0, <1>7, <1>8, ApproveMoves, Zenon DEF ReviewPlatformSubmission
<1> QED BY <1>2, <1>3, <1>4, <1>5, <1>6, <1>7, <1>8, ZenonT(40) DEF CatalogNext, ReserveDefinition, CreateDraft,
           UpdateDraft, SubmitDraft, WithdrawSubmission, ReviewSubmission

LEMMA OffStepMoves ==
    OffTypeOK /\ JudgedFit /\ OffNext =>
        /\ OffMoves /\ eligible' \subseteq Holder
        /\ draft' \in [OffDefinition -> [base : OffVersion \cup {Nobody}, revision : Nat]]
BY CatalogStepMoves, ReleaseStepMoves, DeviceStepMoves, Zenon DEF OffNext, OffTypeOK
-----------------------------------------------------------------------------
(* The official catalogue: the inductive invariant *)

OffVersionsOf(d) == {v \in OffVersion : offVersion[v].def = d}

\* A definition that has versions has the last of them as its head.
HeadsFit(d) ==
    /\ IsFiniteSet(OffVersionsOf(d))
    /\ {offVersion[v].number : v \in OffVersionsOf(d)} = 1..Cardinality(OffVersionsOf(d))
    /\ IF head[d] \in OffVersion
       THEN head[d] \in OffVersionsOf(d) /\ offVersion[head[d]].number = Cardinality(OffVersionsOf(d))
       ELSE OffVersionsOf(d) = {}

\* What a release mutation recorded
Answered(x) ==
    x.op \in ReleaseOps =>
        /\ x.about \in Releases \X Nat
        /\ x.about[2] \in 1..Len(release[x.about[1]])
        /\ release[x.about[1]][x.about[2]].action = x.op

\* The operations of a release, and those that made its nth revision
OperationsFit(r) ==
    /\ \A n \in 2..Len(release[r]) : \E o \in operation :
          {p \in operation : p.release = r /\ p.result = n} = {o}
    /\ \A o \in operation : o.release = r => o.result \in 2..Len(release[r]) /\ o.result = o.expected + 1

ManagedFits(i) ==
    managed[i] # NoManaged =>
        /\ managed[i].revision \in 1..Len(release[managed[i].release])
        /\ managed[i].ver = release[managed[i].release][managed[i].revision].ver

\* A recorded delivery's installation had the revision, and can only have moved on.
DeliveryFits(x) ==
    /\ managed[x.inst] # NoManaged
    /\ managed[x.inst].holder = x.holder /\ managed[x.inst].release = x.release
    /\ x.revision <= managed[x.inst].revision

OffInv ==
    /\ OffTypeOK
    /\ \A d \in OffDefinition : HeadsFit(d)
    /\ OnePendingSubmission
    /\ \A r \in Releases : OperationsFit(r)
    /\ \A x \in offRecord : Answered(x)
    /\ \A i \in OffInstall : ManagedFits(i)
    /\ JudgedFit
    /\ \A x \in delivery : DeliveryFits(x)

LEMMA OffInitially ==
    ASSUME Counting
    PROVE  OffInit => OffInv
<1> SUFFICES ASSUME OffInit PROVE OffInv
  BY Zenon
<1>0. Nobody \notin OffDefinition /\ "unreserved" \notin OffVersion
  BY OfficialParameters, Zenon
<1>1. OffTypeOK
  BY SMTT(40) DEF OffInit, OffTypeOK, NoDraft
<1>2. ASSUME NEW d \in OffDefinition PROVE HeadsFit(d)
  <2>1. OffVersionsOf(d) = {}
    BY <1>0, Zenon DEF OffVersionsOf, OffInit, NoOffVersion
  <2>2. IsFiniteSet(OffVersionsOf(d)) /\ Cardinality(OffVersionsOf(d)) = 0
    BY <2>1, Zenon DEF Counting
  <2>3. {offVersion[v].number : v \in OffVersionsOf(d)} = {} /\ 1..0 = {}
    BY <2>1, SMTT(40)
  <2>4. head[d] = "unreserved"
    BY Zenon DEF OffInit
  <2> QED BY <1>0, <2>1, <2>2, <2>3, <2>4, Zenon DEF HeadsFit
<1>3. OnePendingSubmission
  BY Zenon DEF OffInit, OnePendingSubmission, Pending, NoPlatformSubmission
<1>4. ASSUME NEW r \in Releases PROVE OperationsFit(r)
  BY SMTT(40) DEF OffInit, OperationsFit
<1>5. \A i \in OffInstall : ManagedFits(i)
  BY Zenon DEF OffInit, ManagedFits
<1>6. JudgedFit
  BY Zenon DEF OffInit, JudgedFit, JudgedFits
<1> QED BY <1>1, <1>2, <1>3, <1>4, <1>5, <1>6, Zenon DEF OffInv, OffInit

\* Releases only grow, and by one revision at a time.
LEMMA ReleasesGrow ==
    ASSUME OffTypeOK, ReleaseMoves, NEW r \in Releases
    PROVE  /\ release'[r] \in Seq(Revision)
           /\ Len(release[r]) <= Len(release'[r])
           /\ \A n \in 1..Len(release[r]) : release'[r][n] = release[r][n]
<1>0. release[r] \in Seq(Revision) /\ release \in [Releases -> Seq(Revision)]
  BY Zenon DEF OffTypeOK
<1>1. CASE release'[r] = release[r]
  BY <1>0, <1>1, SMTT(40)
<1>2. CASE Begins(r)
  BY <1>0, <1>2, SMTT(40) DEF Begins
<1>3. ASSUME NEW a \in Admin, NEW q \in Releases, NEW x \in Revision, Appends(a, q, x)
      PROVE  release'[r] = release[r] \/ release'[r] = Append(release[r], x)
  BY <1>0, <1>3, Zenon DEF Appends
<1>4. ASSUME NEW x \in Revision, release'[r] = Append(release[r], x)
      PROVE  /\ release'[r] \in Seq(Revision)
             /\ Len(release[r]) <= Len(release'[r])
             /\ \A n \in 1..Len(release[r]) : release'[r][n] = release[r][n]
  BY <1>0, <1>4, SMTT(40)
<1> QED BY <1>1, <1>2, <1>3, <1>4, Zenon DEF ReleaseMoves

\* What a step may do to a submission keeps its row's type.
LEMMA SubmissionTypes ==
    ASSUME OffTypeOK, SubmissionMoves, draft \in [OffDefinition -> [base : OffVersion \cup {Nobody}, revision : Nat]]
    PROVE  platformSubmission' \in [PlatformSubmission -> SubmissionRow \cup {NoPlatformSubmission}]
<1>0. platformSubmission \in [PlatformSubmission -> SubmissionRow \cup {NoPlatformSubmission}]
  BY Zenon DEF OffTypeOK
<1>1. ASSUME NEW s \in PlatformSubmission, NEW a \in Admin, NEW d \in OffDefinition,
             platformSubmission' = [t \in PlatformSubmission |->
                 IF t = s THEN Submitted(a, d)
                 ELSE IF t \in Pending(d) THEN [platformSubmission[t] EXCEPT !.status = "superseded"]
                 ELSE platformSubmission[t]]
      PROVE  platformSubmission' \in [PlatformSubmission -> SubmissionRow \cup {NoPlatformSubmission}]
  <2>1. Submitted(a, d) \in SubmissionRow
    BY Zenon DEF Submitted, SubmissionRow
  <2>2. ASSUME NEW t \in Pending(d)
        PROVE  [platformSubmission[t] EXCEPT !.status = "superseded"] \in SubmissionRow
    <3>1. platformSubmission[t] \in SubmissionRow
      BY <1>0, SMTT(40) DEF Pending, NoPlatformSubmission
    <3> QED BY <3>1, Zenon DEF SubmissionRow
  <2> HIDE DEF SubmissionRow
  <2> QED BY <1>0, <1>1, <2>1, <2>2, Zenon
<1> QED BY <1>0, <1>1, SMTT(40) DEF SubmissionMoves

\* An installation keeps its holder and its release, and moves only forward.
LEMMA ManagedKeeps ==
    ASSUME OffTypeOK, ManagedMoves, NEW i \in OffInstall, ManagedFits(i), managed[i] # NoManaged
    PROVE  /\ managed'[i] \in ManagedRow
           /\ managed'[i].holder = managed[i].holder /\ managed'[i].release = managed[i].release
           /\ \/ /\ managed'[i].revision = managed[i].revision /\ managed'[i].ver = managed[i].ver
              \/ /\ UNCHANGED release
                 /\ managed'[i].revision = Len(release[managed[i].release])
                 /\ managed'[i].revision > managed[i].revision
                 /\ managed'[i].ver = Current(managed[i].release).ver
                 /\ Admits(Current(managed[i].release), managed[i].holder)
<1>0. managed[i] \in ManagedRow
  BY Zenon DEF OffTypeOK
<1>1. /\ release[managed[i].release] \in Seq(Revision)
      /\ managed[i].revision \in 1..Len(release[managed[i].release])
  BY <1>0, Zenon DEF OffTypeOK, ManagedRow, ManagedFits
<1>2. CASE managed'[i] = managed[i]
  BY <1>0, <1>2, Zenon DEF ManagedRow
<1>3. CASE Settles(i)
  BY <1>0, <1>3, Zenon DEF Settles, ManagedRow
<1>4. CASE Applied(i) /\ UNCHANGED release
  <2>1. Current(managed[i].release) \in Revision
    BY <1>1, SMTT(40) DEF Current
  <2>2. Current(managed[i].release).ver \in OffVersion /\ managed[i].policies + 1 \in Nat
        /\ Len(release[managed[i].release]) \in Nat
    BY <1>0, <1>1, <2>1, SMTT(40) DEF Revision, ManagedRow
  <2>3. /\ managed'[i] \in ManagedRow
        /\ managed'[i].holder = managed[i].holder /\ managed'[i].release = managed[i].release
        /\ managed'[i].revision = Len(release[managed[i].release])
        /\ managed'[i].ver = Current(managed[i].release).ver
    BY <1>0, <1>4, <2>2, ZenonT(40) DEF Applied, ManagedRow
  <2>4. managed[i].revision # Len(release[managed[i].release])
    BY <1>4, Zenon DEF Applied
  <2>5. managed'[i].revision > managed[i].revision
    BY <1>1, <2>3, <2>4, SMTT(40)
  <2>6. Admits(Current(managed[i].release), managed[i].holder)
    BY <1>4, Zenon DEF Applied
  <2> QED BY <1>4, <2>3, <2>5, <2>6, Zenon
<1>5. CASE TakesUp(i)
  BY <1>5, Zenon DEF TakesUp
<1> QED BY <1>2, <1>3, <1>4, <1>5, ZenonT(40) DEF ManagedMoves

\* A new installation has the revision in force.
LEMMA ManagedBegins ==
    ASSUME OffTypeOK, ManagedMoves, NEW i \in OffInstall, managed[i] = NoManaged
    PROVE  \/ managed'[i] = NoManaged
           \/ /\ managed'[i] \in ManagedRow /\ UNCHANGED release
              /\ Admits(Current(managed'[i].release), managed'[i].holder)
              /\ Current(managed'[i].release).state = "active"
              /\ managed'[i].revision = Len(release[managed'[i].release])
              /\ managed'[i].revision \in 1..Len(release[managed'[i].release])
              /\ managed'[i].ver = Current(managed'[i].release).ver
<1>1. CASE managed'[i] = managed[i]
  BY <1>1, Zenon
<1>2. CASE TakesUp(i) /\ UNCHANGED release
  <2>1. PICK h \in Holder, r \in Releases :
          /\ release[r] # <<>> /\ Admits(Current(r), h) /\ Current(r).state = "active"
          /\ managed'[i] = [status |-> "pending", holder |-> h, release |-> r,
                            revision |-> Len(release[r]), ver |-> Current(r).ver, policies |-> 1]
    BY <1>2, ZenonT(40) DEF TakesUp
  <2>2. release[r] \in Seq(Revision) /\ release[r] # <<>>
    BY <2>1, Zenon DEF OffTypeOK
  <2>3. Len(release[r]) \in 1..Len(release[r]) /\ Current(r) \in Revision
    BY <2>2, SMTT(40) DEF Current
  <2>4. Current(r).ver \in OffVersion
    BY <2>3, Zenon DEF Revision
  <2>5. /\ managed'[i] \in ManagedRow
        /\ managed'[i].holder = h /\ managed'[i].release = r
        /\ managed'[i].revision = Len(release[r]) /\ managed'[i].ver = Current(r).ver
    BY <2>1, <2>3, <2>4, SMTT(40) DEF ManagedRow
  <2> QED BY <1>2, <2>1, <2>3, <2>5, Zenon
<1>3. ~Settles(i) /\ ~Applied(i)
  BY Zenon DEF Settles, Applied
<1> QED BY <1>1, <1>2, <1>3, Zenon DEF ManagedMoves

LEMMA OffTypeKept == OffInv /\ OffNext => OffTypeOK'
<1> SUFFICES ASSUME OffInv, OffNext PROVE OffTypeOK'
  BY Zenon
<1>0. OffTypeOK /\ OffMoves
  BY OffStepMoves, Zenon DEF OffInv
<1>1. /\ head' \in [OffDefinition -> OffVersion \cup {Nobody, "unreserved"}]
      /\ offVersion' \in [OffVersion -> [def : OffDefinition, number : Nat] \cup {NoOffVersion}]
  <2>1. ASSUME NEW d \in OffDefinition, NEW v \in OffVersion, Publishes(d, v)
        PROVE  <1>1
    <3>1. head[d] \in OffVersion => offVersion[head[d]].number \in Nat
      BY <1>0, SMTT(40) DEF OffTypeOK, NoOffVersion
    <3>2. (IF head[d] = Nobody THEN 1 ELSE offVersion[head[d]].number + 1) \in Nat
      BY <2>1, <3>1, SMTT(40) DEF Publishes
    <3> QED BY <1>0, <2>1, <3>2, Zenon DEF Publishes, OffTypeOK
  <2>2. ASSUME NEW d \in OffDefinition, Reserves(d) PROVE <1>1
    BY <1>0, <2>2, Zenon DEF Reserves, OffTypeOK
  <2>3. CASE UNCHANGED <<head, offVersion>>
    BY <1>0, <2>3, Zenon DEF OffTypeOK
  <2> QED BY <1>0, <2>1, <2>2, <2>3, Zenon DEF OffMoves, CatalogMoves
<1>2. platformSubmission' \in [PlatformSubmission -> SubmissionRow \cup {NoPlatformSubmission}]
  BY <1>0, SubmissionTypes, Zenon DEF OffMoves, OffTypeOK
<1>3. release' \in [Releases -> Seq(Revision)]
  <2>1. \A r \in Releases : release'[r] \in Seq(Revision)
    BY <1>0, ReleasesGrow, Zenon DEF OffMoves
  <2>2. release' = [r \in Releases |-> release'[r]]
    BY <1>0, Zenon DEF OffMoves, ReleaseMoves, Appends, OffTypeOK
  <2> QED BY <2>1, <2>2, Zenon
<1>4. managed' \in [OffInstall -> ManagedRow \cup {NoManaged}]
  <2>1. \A i \in OffInstall : managed'[i] \in ManagedRow \cup {NoManaged}
    BY <1>0, ManagedKeeps, ManagedBegins, ZenonT(40) DEF OffInv, OffMoves
  <2>2. managed' = [i \in OffInstall |-> managed'[i]]
    BY <1>0, Zenon DEF OffMoves, ManagedMoves, OffTypeOK
  <2> QED BY <2>1, <2>2, Zenon
<1>5. operation' \subseteq [by : Admin, requester : Admin \cup {Nobody}, release : Releases, expected : Nat,
                           result : Nat]
  <2>1. ASSUME NEW a \in Admin, NEW r \in Releases, NEW x \in Revision, Appends(a, r, x)
        PROVE  <1>5
    <3>1. Len(release[r]) \in Nat /\ Len(release[r]) + 1 \in Nat
      BY <1>0, SMTT(40) DEF OffTypeOK
    <3> QED BY <1>0, <2>1, <3>1, SMTT(40) DEF Appends, OffTypeOK
  <2> QED BY <1>0, <2>1, Zenon DEF OffMoves, ReleaseMoves, OffTypeOK
<1>6. delivery' \subseteq [release : Releases, revision : Nat, holder : Holder, inst : OffInstall]
  <2>1. ASSUME NEW i \in OffInstall, managed[i] # NoManaged
        PROVE  managed[i] \in ManagedRow
    BY <1>0, <2>1, Zenon DEF OffTypeOK
  <2> QED BY <1>0, <2>1, SMTT(40) DEF OffMoves, DeliveryMoves, OffTypeOK, ManagedRow
<1>7. judged' \in [Releases -> Judgement \cup {NotJudged}]
  BY <1>0, Zenon DEF OffMoves, JudgedMoves, Judges, OffTypeOK, Judgement
<1>8. /\ eligible' \subseteq Holder
      /\ draft' \in [OffDefinition -> [base : OffVersion \cup {Nobody}, revision : Nat]]
  BY OffStepMoves, Zenon DEF OffInv
<1> QED BY <1>1, <1>2, <1>3, <1>4, <1>5, <1>6, <1>7, <1>8, ZenonT(40) DEF OffTypeOK, Judgement

\* A definition whose versions and head a step leaves alone
LEMMA HeadsSame ==
    ASSUME NEW d \in OffDefinition, HeadsFit(d), OffVersionsOf(d)' = OffVersionsOf(d),
           \A v \in OffVersionsOf(d) : offVersion'[v] = offVersion[v],
           head'[d] = head[d] \/ {head[d], head'[d]} \cap OffVersion = {}
    PROVE  HeadsFit(d)'
<1>1. {offVersion'[v].number : v \in OffVersionsOf(d)} = {offVersion[v].number : v \in OffVersionsOf(d)}
  BY Zenon
<1> QED BY <1>1, Zenon DEF HeadsFit

LEMMA HeadsKept ==
    ASSUME Counting, OffInv, CatalogMoves, NEW d \in OffDefinition
    PROVE  HeadsFit(d)'
<1>0. OffTypeOK /\ HeadsFit(d) /\ Nobody \notin OffVersion \cup OffDefinition /\ "unreserved" \notin OffVersion
  BY OfficialParameters, Zenon DEF OffInv
<1>1. CASE UNCHANGED <<head, offVersion>>
  BY <1>0, <1>1, ZenonT(40) DEF HeadsFit, OffVersionsOf
<1>2. ASSUME NEW e \in OffDefinition, Reserves(e) PROVE HeadsFit(d)'
  <2>1. head'[d] = head[d] \/ (head[d] = "unreserved" /\ head'[d] = Nobody)
    BY <1>0, <1>2, Zenon DEF Reserves, OffTypeOK
  <2>2. offVersion' = offVersion /\ OffVersionsOf(d)' = OffVersionsOf(d)
    BY <1>2, Zenon DEF Reserves, OffVersionsOf
  <2> QED BY <1>0, <2>1, <2>2, HeadsSame, Zenon
<1>3. ASSUME NEW e \in OffDefinition, NEW v \in OffVersion, Publishes(e, v) PROVE HeadsFit(d)'
  <2> DEFINE n == IF head[e] = Nobody THEN 1 ELSE offVersion[head[e]].number + 1
  <2>1. /\ v \notin OffVersionsOf(d)
        /\ \A w \in OffVersion : offVersion'[w] = IF w = v THEN [def |-> e, number |-> n] ELSE offVersion[w]
        /\ \A c \in OffDefinition : head'[c] = IF c = e THEN v ELSE head[c]
    BY <1>0, <1>3, SMTT(40) DEF Publishes, OffVersionsOf, NoOffVersion, OffTypeOK
  <2>2. CASE d # e
    <3>1. OffVersionsOf(d)' = OffVersionsOf(d)
      BY <2>1, <2>2, SMTT(40) DEF OffVersionsOf
    <3> QED BY <1>0, <2>1, <2>2, <3>1, HeadsSame, ZenonT(40) DEF OffVersionsOf
  <2>3. CASE d = e
    <3> DEFINE S == OffVersionsOf(d)
               c == Cardinality(S)
    <3>1. OffVersionsOf(d)' = S \cup {v}
      BY <2>1, <2>3, SMTT(40) DEF OffVersionsOf
    <3>2. IsFiniteSet(S) /\ {offVersion[w].number : w \in S} = 1..c
      BY <1>0, Zenon DEF HeadsFit
    <3>3. c \in Nat
      BY <3>2, Zenon DEF Counting
    <3>4. IsFiniteSet(S \cup {v}) /\ Cardinality(S \cup {v}) = c + 1
      BY <2>1, <3>2, Zenon DEF Counting
    <3>5. n = c + 1
      <4>1. CASE head[d] = Nobody
        <5>1. S = {}
          BY <1>0, <4>1, Zenon DEF HeadsFit
        <5> QED BY <5>1, <4>1, <2>3, ZenonT(40) DEF Counting
      <4>2. CASE head[d] \in OffVersion
        BY <4>2, <2>3, <1>0, Zenon DEF HeadsFit
      <4> QED BY <4>1, <4>2, <1>3, <2>3, Zenon DEF Publishes
    <3>6. {offVersion'[w].number : w \in S \cup {v}} = {offVersion[w].number : w \in S} \cup {c + 1}
      <4>1. \A w \in S : offVersion'[w] = offVersion[w]
        BY <2>1, Zenon DEF OffVersionsOf
      <4>2. offVersion'[v].number = c + 1
        BY <2>1, <3>5, SMTT(40)
      <4> QED BY <4>1, <4>2, Zenon
    <3>7. {offVersion'[w].number : w \in S \cup {v}} = 1..(c + 1)
      BY <3>2, <3>3, <3>6, SMTT(40)
    <3>8. head'[d] = v /\ offVersion'[v].number = c + 1
      BY <2>1, <2>3, <3>5
    <3> HIDE DEF S, c, n
    <3> QED BY <3>1, <3>4, <3>7, <3>8, ZenonT(40) DEF HeadsFit
  <2> QED BY <2>2, <2>3, Zenon
<1> QED BY <1>1, <1>2, <1>3, Zenon DEF CatalogMoves

LEMMA PendingKept == ASSUME OffInv, SubmissionMoves PROVE OnePendingSubmission'
<1>0. OffTypeOK /\ OnePendingSubmission
  BY Zenon DEF OffInv
<1> SUFFICES ASSUME NEW d \in OffDefinition, NEW s \in Pending(d)', NEW t \in Pending(d)' PROVE s = t
  BY Zenon DEF OnePendingSubmission
<1>1. /\ s \in PlatformSubmission /\ platformSubmission'[s].status = "pending" /\ platformSubmission'[s].def = d
      /\ t \in PlatformSubmission /\ platformSubmission'[t].status = "pending" /\ platformSubmission'[t].def = d
  BY Zenon DEF Pending
<1>2. CASE UNCHANGED platformSubmission
  BY <1>0, <1>1, <1>2, Zenon DEF OnePendingSubmission, Pending
<1>3. ASSUME NEW x \in PlatformSubmission, NEW y \in SubmissionRow, y.status # "pending",
             platformSubmission' = [platformSubmission EXCEPT ![x] = y]
      PROVE  s = t
  <2>1. s # x /\ t # x
    BY <1>0, <1>1, <1>3, Zenon DEF OffTypeOK
  <2>2. platformSubmission'[s] = platformSubmission[s] /\ platformSubmission'[t] = platformSubmission[t]
    BY <2>1, <1>3, <1>1, <1>0, ZenonT(40) DEF OffTypeOK
  <2> QED BY <1>0, <1>1, <2>2, ZenonT(40) DEF OnePendingSubmission, Pending
<1>4. ASSUME NEW x \in PlatformSubmission, NEW a \in Admin, NEW e \in OffDefinition,
             platformSubmission' = [u \in PlatformSubmission |->
                 IF u = x THEN Submitted(a, e)
                 ELSE IF u \in Pending(e) THEN [platformSubmission[u] EXCEPT !.status = "superseded"]
                 ELSE platformSubmission[u]]
      PROVE  s = t
  <2>1. ASSUME NEW u \in PlatformSubmission, u # x, platformSubmission'[u].status = "pending"
        PROVE  u \notin Pending(e) /\ platformSubmission'[u] = platformSubmission[u]
    <3>1. u \in Pending(e) => platformSubmission[u] \in SubmissionRow
      BY <1>0, SMTT(40) DEF OffTypeOK, Pending, NoPlatformSubmission
    <3>2. u \in Pending(e) => [platformSubmission[u] EXCEPT !.status = "superseded"].status = "superseded"
      BY <3>1, Zenon DEF SubmissionRow
    <3> QED BY <1>4, <2>1, <3>2, Zenon
  <2>2. platformSubmission'[x].def = e
    BY <1>4, Zenon DEF Submitted
  <2> QED BY <1>0, <1>1, <2>1, <2>2, ZenonT(40) DEF OnePendingSubmission, Pending
<1> QED BY <1>2, <1>3, <1>4, Zenon DEF SubmissionMoves

\* Each revision after the first keeps its one operation.
LEMMA OperationsKept ==
    ASSUME OffInv, ReleaseMoves, NEW r \in Releases
    PROVE  OperationsFit(r)'
<1>0. OffTypeOK /\ OperationsFit(r) /\ release[r] \in Seq(Revision)
  BY Zenon DEF OffInv, OffTypeOK
<1>1. CASE release'[r] = release[r] /\ operation' = operation
  BY <1>0, <1>1, Zenon DEF OperationsFit
<1>2. CASE Begins(r) /\ operation' = operation
  <2>1. PICK x \in Revision : release'[r] = <<x>>
    BY <1>2, ZenonT(40) DEF Begins
  <2>2. Len(release[r]) = 0 /\ Len(release'[r]) = 1
    BY <1>2, <2>1, Zenon DEF Begins
  <2>3. \A o \in operation : o.release # r
    BY <1>0, <2>2, SMTT(40) DEF OperationsFit
  <2> QED BY <1>2, <2>2, <2>3, SMTT(40) DEF OperationsFit
<1>3. ASSUME NEW a \in Admin, NEW q \in Releases, NEW x \in Revision, Appends(a, q, x)
      PROVE  OperationsFit(r)'
  <2>1. PICK p \in Admin \cup {Nobody} :
          operation' = operation \cup {[by |-> a, requester |-> p, release |-> q, expected |-> Len(release[q]),
                                        result |-> Len(release[q]) + 1]}
    BY <1>3, Zenon DEF Appends
  <2> DEFINE o == [by |-> a, requester |-> p, release |-> q, expected |-> Len(release[q]),
                   result |-> Len(release[q]) + 1]
             Of(n) == {y \in operation : y.release = r /\ y.result = n}
  <2>2. CASE q # r
    <3>1. release'[r] = release[r]
      BY <1>0, <1>3, <2>2, Zenon DEF Appends, OffTypeOK
    <3>2. \A n : {y \in operation' : y.release = r /\ y.result = n} = Of(n)
      BY <2>1, <2>2, SMTT(40)
    <3>3. \A y \in operation' : y.release = r => y \in operation
      BY <2>1, <2>2, SMTT(40)
    <3>4. ASSUME NEW n \in 2..Len(release[r])
          PROVE  \E y \in operation' : {z \in operation' : z.release = r /\ z.result = n} = {y}
      BY <1>0, <2>1, <3>2, Zenon DEF OperationsFit
    <3> QED BY <1>0, <3>1, <3>3, <3>4, ZenonT(40) DEF OperationsFit
  <2>3. CASE q = r
    <3> DEFINE len == Len(release[r])
    <3>1. /\ len \in Nat \ {0} /\ release'[r] = Append(release[r], x)
          /\ Len(release'[r]) = len + 1
      BY <1>0, <1>3, <2>3, SMTT(40) DEF Appends, OffTypeOK
    <3>2. \A y \in operation : y.release = r => y.result \in 2..len /\ y.result = y.expected + 1
      BY <1>0, Zenon DEF OperationsFit
    <3>3. o.release = r /\ o.result = len + 1 /\ o.expected = len /\ operation' = operation \cup {o}
      BY <2>1, <2>3, Zenon
    <3> HIDE DEF o, len
    <3>4. {y \in operation' : y.release = r /\ y.result = len + 1} = {o}
      BY <3>1, <3>2, <3>3, SMTT(40)
    <3>5. ASSUME NEW n \in 2..len
          PROVE  \E y \in operation' : {z \in operation' : z.release = r /\ z.result = n} = {y}
      <4>1. PICK y \in operation : Of(n) = {y}
        BY <1>0, ZenonT(40) DEF OperationsFit, len
      <4>2. {z \in operation' : z.release = r /\ z.result = n} = Of(n)
        BY <3>1, <3>3, SMTT(40)
      <4> QED BY <4>1, <4>2, <3>3, Zenon
    <3>6. \A n \in 2..(len + 1) : n = len + 1 \/ n \in 2..len
      BY <3>1, SMTT(40)
    <3>7. \A y \in operation' : y.release = r => y.result \in 2..(len + 1) /\ y.result = y.expected + 1
      BY <3>1, <3>2, <3>3, SMTT(40)
    <3>8. \A n \in 2..(len + 1) : \E y \in operation' : {z \in operation' : z.release = r /\ z.result = n} = {y}
      BY <3>3, <3>4, <3>5, <3>6, ZenonT(40)
    <3> QED BY <3>1, <3>7, <3>8, Zenon DEF OperationsFit
  <2> QED BY <2>2, <2>3, Zenon
<1> QED BY <1>1, <1>2, <1>3, Zenon DEF ReleaseMoves

LEMMA AnswersKept ==
    ASSUME OffInv, ReleaseMoves, NEW x \in offRecord'
    PROVE  Answered(x)'
<1>0. OffTypeOK
  BY Zenon DEF OffInv
<1> SUFFICES ASSUME x.op \in ReleaseOps
             PROVE  /\ x.about \in Releases \X Nat
                    /\ x.about[2] \in 1..Len(release'[x.about[1]])
                    /\ release'[x.about[1]][x.about[2]].action = x.op
  BY Zenon DEF Answered
<1>1. CASE x \in offRecord
  <2>1. /\ x.about \in Releases \X Nat /\ x.about[2] \in 1..Len(release[x.about[1]])
        /\ release[x.about[1]][x.about[2]].action = x.op
    BY <1>1, ZenonT(40) DEF OffInv, Answered
  <2>2. PICK r \in Releases, n \in Nat : r = x.about[1] /\ n = x.about[2]
    BY <2>1, Zenon
  <2>3. /\ release'[r] \in Seq(Revision) /\ Len(release[r]) <= Len(release'[r])
        /\ \A j \in 1..Len(release[r]) : release'[r][j] = release[r][j]
    BY <1>0, ReleasesGrow, Zenon
  <2>4. release[r] \in Seq(Revision) /\ n \in 1..Len(release[r])
    BY <1>0, <2>1, <2>2, ZenonT(40) DEF OffTypeOK
  <2>5. n \in 1..Len(release'[r]) /\ release'[r][n] = release[r][n]
    BY <2>3, <2>4, SMTT(40)
  <2> QED BY <2>1, <2>2, <2>5, Zenon
<1>2. CASE x \notin offRecord
  <2>1. PICK a \in Admin, r \in Releases, y \in Revision : Appends(a, r, y)
    BY <1>2, Zenon DEF ReleaseMoves
  <2>2. x.op = y.action /\ x.about = <<r, Len(release[r]) + 1>>
    BY <1>2, <2>1, SMTT(40) DEF Appends
  <2>3. /\ release[r] \in Seq(Revision) /\ release'[r] = Append(release[r], y)
    BY <1>0, <2>1, Zenon DEF Appends, OffTypeOK
  <2>4. /\ Len(release[r]) + 1 \in 1..Len(release'[r]) /\ Len(release[r]) + 1 \in Nat
        /\ release'[r][Len(release[r]) + 1] = y
    BY <2>3, SMTT(40)
  <2> QED BY <2>2, <2>4, SMTT(40)
<1> QED BY <1>1, <1>2, ZenonT(40)

LEMMA ManagedKept ==
    ASSUME OffInv, ReleaseMoves, ManagedMoves, NEW i \in OffInstall
    PROVE  ManagedFits(i)'
<1>0. OffTypeOK /\ ManagedFits(i)
  BY Zenon DEF OffInv
<1>1. CASE managed[i] # NoManaged
  <2>1. managed[i] \in ManagedRow
    BY <1>0, <1>1, Zenon DEF OffTypeOK
  <2>2. PICK r \in Releases : r = managed[i].release /\ release[r] \in Seq(Revision)
    BY <1>0, <2>1, Zenon DEF ManagedRow, OffTypeOK
  <2>3. /\ managed[i].revision \in 1..Len(release[r])
        /\ managed[i].ver = release[r][managed[i].revision].ver
    BY <1>0, <1>1, <2>2, Zenon DEF ManagedFits
  <2>4. /\ release'[r] \in Seq(Revision) /\ Len(release[r]) <= Len(release'[r])
        /\ \A j \in 1..Len(release[r]) : release'[r][j] = release[r][j]
    BY <1>0, ReleasesGrow, Zenon
  <2>5. /\ managed'[i].release = r
        /\ \/ managed'[i].revision = managed[i].revision /\ managed'[i].ver = managed[i].ver
           \/ /\ UNCHANGED release /\ managed'[i].revision = Len(release[r])
              /\ managed'[i].ver = Current(r).ver
    BY <1>0, <1>1, <2>2, ManagedKeeps, ZenonT(40)
  <2>6. /\ managed'[i].revision \in 1..Len(release'[r])
        /\ managed'[i].ver = release'[r][managed'[i].revision].ver
    <3>1. CASE managed'[i].revision = managed[i].revision /\ managed'[i].ver = managed[i].ver
      <4>1. managed[i].revision \in 1..Len(release'[r])
        BY <2>2, <2>3, <2>4, SMTT(40)
      <4>2. release'[r][managed[i].revision] = release[r][managed[i].revision]
        BY <2>3, <2>4, Zenon
      <4> QED BY <3>1, <4>1, <4>2, <2>3, Zenon
    <3>2. CASE /\ UNCHANGED release /\ managed'[i].revision = Len(release[r])
               /\ managed'[i].ver = Current(r).ver
      BY <3>2, <2>2, <2>3, SMTT(40) DEF Current
    <3> QED BY <2>5, <3>1, <3>2, Zenon
  <2> QED BY <2>5, <2>6, Zenon DEF ManagedFits
<1>2. CASE managed[i] = NoManaged
  BY <1>0, <1>2, ManagedBegins, Zenon DEF ManagedFits, Current
<1> QED BY <1>1, <1>2, Zenon

LEMMA DeliveriesKept ==
    ASSUME OffInv, ManagedMoves, DeliveryMoves, NEW x \in delivery'
    PROVE  DeliveryFits(x)'
<1>0. OffTypeOK /\ \A i \in OffInstall : ManagedFits(i)
  BY Zenon DEF OffInv
<1>1. CASE x \in delivery
  <2>1. PICK i \in OffInstall : i = x.inst /\ x.revision \in Nat
    BY <1>0, <1>1, Zenon DEF OffTypeOK
  <2>2. /\ managed[i] # NoManaged /\ managed[i].holder = x.holder /\ managed[i].release = x.release
        /\ x.revision <= managed[i].revision
    BY <1>1, <2>1, Zenon DEF OffInv, DeliveryFits
  <2>3. managed[i] \in ManagedRow
    BY <1>0, <2>2, Zenon DEF OffTypeOK
  <2>4. /\ managed'[i] \in ManagedRow
        /\ managed'[i].holder = managed[i].holder /\ managed'[i].release = managed[i].release
        /\ managed'[i].revision = managed[i].revision \/ managed'[i].revision > managed[i].revision
    BY <1>0, <2>2, ManagedKeeps, ZenonT(40)
  <2>5. managed'[i] # NoManaged
    BY <2>4, SMTT(40) DEF ManagedRow, NoManaged
  <2>6. x.revision <= managed'[i].revision
    BY <2>1, <2>2, <2>3, <2>4, SMTT(40) DEF ManagedRow
  <2> QED BY <2>1, <2>2, <2>4, <2>5, <2>6, Zenon DEF DeliveryFits
<1>2. CASE x \notin delivery
  <2>1. PICK i \in OffInstall :
          /\ managed[i] # NoManaged /\ UNCHANGED managed
          /\ x = [release |-> managed[i].release, revision |-> managed[i].revision,
                  holder |-> managed[i].holder, inst |-> i]
    BY <1>2, Zenon DEF DeliveryMoves
  <2>2. managed[i].revision \in Nat
    BY <1>0, <2>1, Zenon DEF OffTypeOK, ManagedRow
  <2> QED BY <2>1, <2>2, SMTT(40) DEF DeliveryFits
<1> QED BY <1>1, <1>2, Zenon

\* While a release is judged its head stays the one that was judged.
LEMMA JudgementsKept == ASSUME OffInv, JudgedMoves PROVE JudgedFit'
<1>0. OffTypeOK /\ JudgedFit
  BY Zenon DEF OffInv
<1> SUFFICES ASSUME NEW r \in Releases, judged'[r] # NotJudged
             PROVE  (judged[r] \in Judgement /\ Favours(r, judged[r]))'
  BY Zenon DEF JudgedFit, JudgedFits
<1>1. ASSUME NEW x \in Judgement, Favours(r, x), release'[r] = release[r], judged'[r] = x
      PROVE  (judged[r] \in Judgement /\ Favours(r, judged[r]))'
  BY <1>1, Zenon DEF Favours, Current, Admits, Judgement
<1>2. CASE judged'[r] = judged[r] /\ release'[r] = release[r]
  <2>1. judged[r] \in Judgement /\ Favours(r, judged[r])
    BY <1>0, <1>2, Zenon DEF JudgedFit, JudgedFits
  <2> QED BY <1>1, <1>2, <2>1, Zenon
<1>3. CASE Judges(r) /\ UNCHANGED release
  <2>1. PICK x \in Judgement : Favours(r, x) /\ judged'[r] = x
    BY <1>0, <1>3, Zenon DEF Judges, OffTypeOK
  <2> QED BY <1>1, <1>3, <2>1, Zenon
<1>4. CASE UNCHANGED judged
  BY <1>0, <1>2, <1>4, Zenon DEF JudgedMoves, JudgedFit, JudgedFits, Favours
<1>5. CASE UNCHANGED release
  BY <1>0, <1>2, <1>3, <1>4, <1>5, ZenonT(40) DEF JudgedMoves, Judges, OffTypeOK
<1> QED BY <1>4, <1>5, Zenon DEF JudgedMoves

LEMMA OffKept ==
    ASSUME Counting
    PROVE  OffInv /\ [OffNext]_offVars => OffInv'
<1> SUFFICES ASSUME OffInv, [OffNext]_offVars PROVE OffInv'
  BY Zenon
<1>1. CASE OffNext
  <2>1. OffMoves
    BY <1>1, OffStepMoves, Zenon DEF OffInv
  <2>2. OffTypeOK'
    BY <1>1, OffTypeKept, Zenon
  <2> QED BY <2>1, <2>2, HeadsKept, PendingKept, OperationsKept, AnswersKept, ManagedKept, JudgementsKept,
             DeliveriesKept, ZenonT(40) DEF OffMoves, OffInv
<1>2. CASE UNCHANGED offVars
  <2>1. UNCHANGED <<head, offVersion, draft, platformSubmission, release, managed, judged, eligible,
                    offRecord, operation, delivery>>
    BY <1>2, Zenon DEF offVars, catalog
  <2>2. OffTypeOK'
    BY <2>1, Zenon DEF OffInv, OffTypeOK
  <2>3. \A d \in OffDefinition : HeadsFit(d)'
    BY <2>1, HeadsSame, ZenonT(40) DEF OffInv, OffVersionsOf
  <2>4. OnePendingSubmission'
    BY <2>1, ZenonT(40) DEF OffInv, OnePendingSubmission, Pending
  <2>5. \A r \in Releases : OperationsFit(r)'
    BY <2>1, SMTT(40) DEF OffInv, OperationsFit
  <2>6. \A x \in offRecord' : Answered(x)'
    BY <2>1, ZenonT(40) DEF OffInv, Answered
  <2>7. \A i \in OffInstall : ManagedFits(i)'
    BY <2>1, Zenon DEF OffInv, ManagedFits
  <2>8. \A x \in delivery' : DeliveryFits(x)'
    BY <2>1, Zenon DEF OffInv, DeliveryFits
  <2>9. JudgedFit'
    BY <2>1, JudgementsKept, Zenon DEF JudgedMoves
  <2> QED BY <2>2, <2>3, <2>4, <2>5, <2>6, <2>7, <2>8, <2>9, Zenon DEF OffInv
<1> QED BY <1>1, <1>2, Zenon

\* What the invariant says of the official catalogue
LEMMA OffConsequences ==
    Counting /\ OffInv =>
        /\ OfficialVersionsInOrder
        /\ OneOperationPerRevision /\ AnswersTheirOwn /\ OnePendingSubmission /\ ManagedFollowsRelease
        /\ OfferIsKept /\ DeliveredWasSelected
<1> SUFFICES ASSUME Counting, OffInv PROVE OffConsequences!2
  BY Zenon
<1>1. OfficialVersionsInOrder
  BY ZenonT(40) DEF OffInv, HeadsFit, OffVersionsOf, OfficialVersionsInOrder
<1>2. OneOperationPerRevision
  <2> SUFFICES ASSUME NEW r \in Releases
               PROVE  /\ \A n \in 2..Len(release[r]) :
                            Cardinality({o \in operation : o.release = r /\ o.result = n}) = 1
                      /\ \A o \in operation : o.release = r =>
                            o.result \in 2..Len(release[r]) /\ o.result = o.expected + 1
    BY Zenon DEF OneOperationPerRevision
  <2>1. OperationsFit(r)
    BY Zenon DEF OffInv
  <2>2. ASSUME NEW n \in 2..Len(release[r])
        PROVE  Cardinality({o \in operation : o.release = r /\ o.result = n}) = 1
    BY <2>1, ZenonT(40) DEF OperationsFit, Counting
  <2> QED BY <2>1, <2>2, Zenon DEF OperationsFit
<1>3. AnswersTheirOwn
  BY Zenon DEF OffInv, Answered, AnswersTheirOwn, ReleaseOps
<1>4. ManagedFollowsRelease
  BY Zenon DEF OffInv, ManagedFits, ManagedFollowsRelease
<1>5. OfferIsKept
  <2> SUFFICES ASSUME NEW h \in Holder, NEW i \in OffInstall
               PROVE  /\ GetManagedOfficialUpdate(h, i) # 0 =>
                            Applies(h, i, managed[i].revision, GetManagedOfficialUpdate(h, i))
                      /\ \A r \in ListOfficialAgents(h) : i \in FindOfficialInstallation(h, r) =>
                            officialAgentForRelease(h, r, i) = (GetManagedOfficialUpdate(h, i) # 0)
    BY Zenon DEF OfferIsKept
  <2>1. ASSUME NEW r \in ListOfficialAgents(h)
        PROVE  /\ r \in Releases /\ Len(release[r]) # 0
               /\ ResolveOfficialRelease(h, r, TRUE)
    <3>1. r \in Releases /\ release[r] \in Seq(Revision) /\ ResolveOfficialRelease(h, r, FALSE)
      BY Zenon DEF ListOfficialAgents, OffInv, OffTypeOK
    <3> QED BY <3>1, SMTT(40) DEF ResolveOfficialRelease, EvaluateOfficialEligibilityRecord
  <2>2. GetManagedOfficialUpdate(h, i) # 0 =>
            Applies(h, i, managed[i].revision, GetManagedOfficialUpdate(h, i))
    BY <2>1, ZenonT(40) DEF GetManagedOfficialUpdate, Applies, Selectable
  <2>3. ASSUME NEW r \in ListOfficialAgents(h), i \in FindOfficialInstallation(h, r)
        PROVE  officialAgentForRelease(h, r, i) <=> GetManagedOfficialUpdate(h, i) # 0
    BY <2>1, <2>3, Zenon DEF FindOfficialInstallation, officialAgentForRelease, GetManagedOfficialUpdate
  <2> QED BY <2>2, <2>3, Zenon DEF officialAgentForRelease
<1>6. DeliveredWasSelected
  <2> SUFFICES ASSUME NEW r \in Releases, NEW x \in delivery, x.release = r, x.revision = Len(release[r])
               PROVE  \E i \in OffInstall : /\ managed[i].holder = x.holder /\ managed[i].release = r
                                            /\ managed[i].revision = Len(release[r])
    BY SMTT(40) DEF DeliveredWasSelected, GetOfficialDeliveryVerificationSummary
  <2>1. PICK i \in OffInstall : i = x.inst /\ x.revision \in Nat
    BY Zenon DEF OffInv, OffTypeOK
  <2>2. /\ managed[i] # NoManaged /\ managed[i].holder = x.holder /\ managed[i].release = r
        /\ x.revision <= managed[i].revision
    BY <2>1, ZenonT(40) DEF OffInv, DeliveryFits
  <2>3. managed[i].revision \in 1..Len(release[r])
    BY <2>2, ZenonT(40) DEF OffInv, ManagedFits
  <2>4. managed[i].revision = Len(release[r])
    BY <2>1, <2>2, <2>3, SMTT(40)
  <2> QED BY <2>2, <2>4, Zenon
<1> QED BY <1>1, <1>2, <1>3, <1>4, <1>5, <1>6, Zenon DEF OffInv

\* What every step does to releases and their installations
LEMMA OffSteps ==
    OffInv /\ [OffNext]_offVars => PausedUntilResumed /\ ManagedMovesForward /\ SelectedWhileOffered
<1> SUFFICES ASSUME OffInv, [OffNext]_offVars
             PROVE  PausedUntilResumed /\ ManagedMovesForward /\ SelectedWhileOffered
  BY Zenon
<1>0. OffTypeOK
  BY Zenon DEF OffInv
<1>1. ReleaseMoves /\ ManagedMoves
  <2>1. CASE OffNext
    BY <1>0, <2>1, OffStepMoves, Zenon DEF OffMoves, OffInv
  <2>2. CASE UNCHANGED offVars
    BY <1>0, <2>2, Zenon DEF offVars, catalog, ReleaseMoves, ManagedMoves, OffTypeOK
  <2> QED BY <2>1, <2>2, Zenon
<1>2. PausedUntilResumed
  <2> SUFFICES ASSUME NEW r \in Releases
               PROVE  /\ SubSeq(release'[r], 1, Len(release[r])) = release[r]
                      /\ release[r] # <<>> /\ release'[r] # release[r] /\ Current(r).state = "paused" =>
                            \/ Current(r)'.state = "paused"
                            \/ Current(r)'.action \in {"activate", "resume"}
    BY Zenon DEF PausedUntilResumed
  <2>1. /\ release[r] \in Seq(Revision) /\ release'[r] \in Seq(Revision)
        /\ Len(release[r]) <= Len(release'[r])
        /\ \A n \in 1..Len(release[r]) : release'[r][n] = release[r][n]
    BY <1>0, <1>1, ReleasesGrow, Zenon DEF OffTypeOK
  <2>2. SubSeq(release'[r], 1, Len(release[r])) = release[r]
    BY <2>1, SMTT(40)
  <2>3. ASSUME release[r] # <<>>, release'[r] # release[r], Current(r).state = "paused"
        PROVE  Current(r)'.state = "paused" \/ Current(r)'.action \in {"activate", "resume"}
    <3>1. PICK a \in Admin, q \in Releases, x \in Revision : Appends(a, q, x)
      BY <1>1, <2>3, Zenon DEF ReleaseMoves, Begins
    <3>2. q = r
      BY <1>0, <3>1, <2>3, Zenon DEF Appends, OffTypeOK
    <3>3. KeepsPause(r, x) /\ release'[r] = Append(release[r], x)
      BY <1>0, <3>1, <3>2, ZenonT(40) DEF Appends, OffTypeOK
    <3>4. Current(r)' = x
      BY <2>1, <3>3, SMTT(40) DEF Current
    <3> QED BY <2>3, <3>3, <3>4, ZenonT(40) DEF KeepsPause
  <2> QED BY <2>2, <2>3, ZenonT(40)
<1>3. ManagedMovesForward
  BY <1>0, <1>1, ManagedKeeps, ZenonT(40) DEF OffInv, ManagedMovesForward
<1>4. SelectedWhileOffered
  <2>1. ASSUME NEW i \in OffInstall, managed[i] # NoManaged, managed'[i].revision # managed[i].revision
        PROVE  /\ managed'[i].revision = Len(release[managed'[i].release])
               /\ Admits(Current(managed'[i].release), managed'[i].holder)
    BY <1>0, <1>1, <2>1, ManagedKeeps, ZenonT(40) DEF OffInv
  <2>2. ASSUME NEW i \in OffInstall, managed[i] = NoManaged, managed'[i] # NoManaged
        PROVE  /\ managed'[i].revision = Len(release[managed'[i].release])
               /\ Admits(Current(managed'[i].release), managed'[i].holder)
               /\ Current(managed'[i].release).state = "active"
    BY <1>0, <1>1, <2>2, ManagedBegins, Zenon
  <2> QED BY <2>1, <2>2, ZenonT(40) DEF SelectedWhileOffered
<1> QED BY <1>2, <1>3, <1>4, Zenon
-----------------------------------------------------------------------------
(* Both sides together *)

AgentsInv == RvInv /\ OffInv

\* A step of Agents is a step of each side or leaves that side alone.
LEMMA SidesStep == [AgentsNext]_agentsVars => [OffNext]_offVars /\ [TeamStep]_rvVars
BY ZenonT(40) DEF AgentsNext, ControlStep, ReviewStep, OfficialStep, TeamStep, agentsVars

\* The library's theorems on finite sets
INSTANCE FiniteSetTheorems

LEMMA CountingHolds == Counting
<1>1. \A S : IsFiniteSet(S) => Cardinality(S) \in Nat
  BY FS_CardinalityType, Zenon
<1>2. \A S, x : IsFiniteSet(S) /\ x \notin S =>
          IsFiniteSet(S \cup {x}) /\ Cardinality(S \cup {x}) = Cardinality(S) + 1
  BY FS_AddElement, Zenon
<1> QED BY <1>1, <1>2, FS_EmptySet, FS_Singleton, Zenon DEF Counting

LEMMA AgentsInvariance == AgentsSpec => []AgentsInv
<1>1. AgentsInit => AgentsInv
  BY RvInitially, OffInitially, CountingHolds, Zenon DEF AgentsInit, AgentsInv
<1>2. AgentsInv /\ [AgentsNext]_agentsVars => AgentsInv'
  <2> SUFFICES ASSUME AgentsInv, [AgentsNext]_agentsVars PROVE AgentsInv'
    BY Zenon
  <2>1. [OffNext]_offVars /\ [TeamStep]_rvVars
    BY SidesStep, Zenon
  <2> QED BY <2>1, CountingHolds, OffKept, RvKept, ZenonT(40) DEF AgentsInv
<1> QED BY <1>1, <1>2, PTL DEF AgentsSpec

\* Every row of the agents' tables keeps its type, for users' and teams' agents,
\* reviews and the official catalogue.
THEOREM AgentsTypeCorrect == AgentsSpec => [](AcTypeOK /\ RvTypeOK /\ OffTypeOK)
<1>1. AgentsInv => AcTypeOK /\ RvTypeOK /\ OffTypeOK
  BY Zenon DEF AgentsInv, RvInv, OffInv
<1> QED BY <1>1, AgentsInvariance, PTL

\* Versions are numbered without gap or repeat and the head is the last, for any
\* number of publishers and reviewers at once, and an Idempotency-Key makes one row
\* (publishSecond, approveOrganizationAgentSubmission, ApprovePlatformSubmission,
\* lockAndReadIdempotency).
THEOREM CatalogueStaysInOrder == AgentsSpec => []CatalogueInOrder
<1>1. AgentsInv => CatalogueInOrder
  BY VersionsConsequence, OffConsequences, CountingHolds, ZenonT(40) DEF AgentsInv, CatalogueInOrder
<1> QED BY <1>1, AgentsInvariance, PTL

\* The last signed policy of an installation is for the version it selects, bindings
\* name a version with its own policy, and a signed policy admits exactly what
\* manifest and organization both admit, whatever the manifests and the policies
\* (insertPolicy, InsertRuntimeBinding, OrganizationDocument).
THEOREM PoliciesFollowSelections == AgentsSpec => []PoliciesFollow
<1>1. AgentsInv => PoliciesFollow
  BY PoliciesConsequence, Zenon DEF AgentsInv, PoliciesFollow
<1> QED BY <1>1, AgentsInvariance, PTL

\* Submissions stay readable, an approved one follows on its base under the policy
\* then in force, and a superseded one is stale (organization_submission_repository.go).
THEOREM ReviewsStayConsistent == AgentsSpec => []ReviewsHold
<1>1. AgentsInv => ReviewsHold
  BY ReviewsConsequence, ZenonT(40) DEF AgentsInv, ReviewsHold
<1> QED BY <1>1, AgentsInvariance, PTL

\* Each release revision after the first has one operation, which records the revision
\* it follows, answers name a revision of
\* their own action, a draft has one pending submission, and installations run the
\* version of the revision they selected (platform_repository.go).
THEOREM ReleaseHistoryStays == AgentsSpec => []ReleaseHistoryHolds
<1>1. AgentsInv => ReleaseHistoryHolds
  BY OffConsequences, CountingHolds, Zenon DEF AgentsInv, ReleaseHistoryHolds
<1> QED BY <1>1, AgentsInvariance, PTL

\* Reads made with different queries agree, an offered update can be applied, and a
\* delivery is counted only for a revision that was selected.
THEOREM AgentReadsStayConsistent == AgentsSpec => []AgentReadsAgree
<1>1. AgentsInv => AgentReadsAgree
  BY ReadsConsequence, OffConsequences, CountingHolds, ZenonT(40) DEF AgentsInv, AgentReadsAgree
<1> QED BY <1>1, AgentsInvariance, PTL

\* No call that begins after a revocation installs the version, archived installations
\* never change, and a review is never replaced (RevokeVersion, ArchiveInstallation,
\* ReviewExperienceCandidate).
THEOREM DecisionsAreFinal == AgentsSpec => DecisionsStand
<1>1. AgentsInv /\ [AgentsNext]_agentsVars => [RevokedStaysOut /\ ArchivedIsFinal /\ ReviewIsFinal]_agentsVars
  BY SidesStep, RvSteps, ZenonT(40) DEF AgentsInv
<1> QED BY <1>1, AgentsInvariance, PTL DEF AgentsSpec, DecisionsStand

\* Releases stay paused until they are activated or resumed; installations are made
\* and moved only to the release's last revision and only when it admits the holder,
\* though the release is judged before the row is written, and move only forward
\* (changeOfficialReleaseState, createOfficialPendingInstallation,
\* ApplyManagedOfficialUpdate).
THEOREM ReleasesOnlyMoveForward == AgentsSpec => ReleasesMoveForward
<1>1. AgentsInv /\ [AgentsNext]_agentsVars =>
         [PausedUntilResumed /\ ManagedMovesForward /\ SelectedWhileOffered]_agentsVars
  <2> SUFFICES ASSUME AgentsInv, [AgentsNext]_agentsVars
               PROVE  PausedUntilResumed /\ ManagedMovesForward /\ SelectedWhileOffered
    BY Zenon
  <2>1. [OffNext]_offVars
    BY SidesStep, Zenon
  <2> QED BY <2>1, OffSteps, Zenon DEF AgentsInv
<1> QED BY <1>1, AgentsInvariance, PTL DEF AgentsSpec, ReleasesMoveForward
=============================================================================
