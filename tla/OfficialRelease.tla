--------------------------- MODULE OfficialRelease --------------------------
(***************************************************************************)
(* The official catalogue (internal/agentcontrol, platform_service.go and  *)
(* platform_repository.go, and the official parts of service.go and        *)
(* repository.go).  Administrators draft, submit and review versions and   *)
(* release them on channels; a release is a list of immutable revisions,   *)
(* of which the last is in force.  Devices install from a release and are  *)
(* moved along its revisions.                                              *)
(*                                                                         *)
(* One action is one transaction, and a device and an administrator name   *)
(* the revision that they read before.  An installation and an update take *)
(* two actions: they judge the release under its row lock, and write.      *)
(***************************************************************************)
EXTENDS Naturals, Sequences, FiniteSets

CONSTANTS Admin, AdminRole,       \* AdminRole[a]: the role in a's signed assertion
          OffDefinition, OffVersion, PlatformSubmission, Channel,
          Holder,                 \* users on their device
          Bucket, Desktop,        \* Bucket[h] and Desktop[h], a release number
          Rollout, Minimum,       \* rollouts and minimum desktop versions in use
          OffInstall, OffKey, Nobody,
          MaxRevisions, MaxDraftRevision  \* bounds

ASSUME OfficialParameters ==
    /\ Nobody \notin OffVersion \cup OffDefinition \cup Holder /\ "unreserved" \notin OffVersion
    /\ MaxRevisions \in Nat /\ MaxDraftRevision \in Nat

NoDraft == [base |-> Nobody, revision |-> 0]
NoPlatformSubmission == [status |-> "none", def |-> Nobody]
NoOffVersion == [def |-> Nobody, number |-> 0]
NoManaged == [status |-> "none", holder |-> Nobody]
NotJudged == [holder |-> Nobody]

VARIABLES
    permitted,   \* channels the current platform policy permits
    head,        \* head[d]: "unreserved", Nobody (reserved) or the latest version
    offVersion, platformSubmission,
    draft,       \* draft[d]: the one draft of a definition
    release,     \* release[d, c]: the revisions, in order
    managed,     \* managed installations
    judged,      \* judged[r]: what the transaction that holds r's row lock has judged
    eligible,    \* holders whose account, device and product context are in order
    offRecord,   \* idempotency keys: [op, key, about]
    operation,   \* admin_operations written with a release mutation
    delivery     \* official_agent_delivery_verifications

catalog == <<permitted, head, offVersion, draft, platformSubmission>>
offVars == <<catalog, release, managed, judged, eligible, offRecord, operation, delivery>>

Releases == OffDefinition \X Channel

\* Rows of these tables
SubmissionRow == [status : {"pending", "superseded", "withdrawn", "approved", "rejected"},
                  def : OffDefinition, base : OffVersion \cup {Nobody}, of : Nat, by : Admin,
                  reviewer : Admin \cup {Nobody}, ver : OffVersion \cup {Nobody}]
Revision == [ver : OffVersion, state : {"active", "paused"}, rollout : Rollout \cup {0},
             minimum : Minimum, allowed : SUBSET Holder,
             action : {"initial", "activate", "rollout_update", "pause", "resume", "rollback"},
             target : Nat]
ManagedRow == [status : {"pending", "active", "archived"}, holder : Holder, release : Releases,
               revision : Nat, ver : OffVersion, policies : Nat]

OffInit ==
    /\ permitted = Channel
    /\ head = [d \in OffDefinition |-> "unreserved"]
    /\ offVersion = [v \in OffVersion |-> NoOffVersion]
    /\ draft = [d \in OffDefinition |-> NoDraft]
    /\ platformSubmission = [s \in PlatformSubmission |-> NoPlatformSubmission]
    /\ release = [r \in Releases |-> <<>>]
    /\ managed = [i \in OffInstall |-> NoManaged]
    /\ judged = [r \in Releases |-> NotJudged]
    /\ eligible = Holder
    /\ offRecord = {} /\ operation = {} /\ delivery = {}
-----------------------------------------------------------------------------
(* Who may do what, and keys *)

\* platformRoleAllowed, for the operations that write
platformRoleAllowed(role, action) ==
    CASE action = "draft_write" -> role = "developer"
      [] action \in {"review", "rollback"} -> role = "super_admin"
      [] action = "release_write" -> role = "operator"

authorized(a, action) == platformRoleAllowed(AdminRole[a], action)

\* lockAndReadPlatformIdempotency and insertPlatformIdempotency
lockAndReadPlatformIdempotency(op, k) == <<op, k>> \notin {<<r.op, r.key>> : r \in offRecord}
insertPlatformIdempotency(op, k, about) ==
    offRecord' = offRecord \cup {[op |-> op, key |-> k, about |-> about]}
-----------------------------------------------------------------------------
(* Drafts, submissions and versions *)

\* EnsurePlatform at the start of a process: a policy that differs from the
\* stored one becomes its next version.
EnsurePlatform(channels) ==
    /\ permitted' = channels /\ channels # {}
    /\ UNCHANGED <<head, offVersion, draft, platformSubmission, release, managed, judged, eligible,
                   offRecord, operation, delivery>>

ReservePlatformDefinition(d, k) ==
    /\ lockAndReadPlatformIdempotency("reserve", k)
    /\ head[d] = "unreserved"
    /\ head' = [head EXCEPT ![d] = Nobody]
    /\ insertPlatformIdempotency("reserve", k, d)
    /\ UNCHANGED <<permitted, offVersion, draft, platformSubmission, release, managed, judged, eligible, operation, delivery>>

\* requirePlatformDraftTarget: an initial draft has no base and its definition
\* no version; a next draft's base is the definition's latest version.
requirePlatformDraftTarget(d, base) == head[d] # "unreserved" /\ base = head[d]

CreatePlatformDraft(d, base, k) ==
    /\ lockAndReadPlatformIdempotency("draft", k)
    /\ requirePlatformDraftTarget(d, base)
    /\ draft[d] = NoDraft
    /\ draft' = [draft EXCEPT ![d] = [base |-> base, revision |-> 1]]
    /\ insertPlatformIdempotency("draft", k, d)
    /\ UNCHANGED <<permitted, head, offVersion, platformSubmission, release, managed, judged, eligible, operation, delivery>>

\* The service reads the draft before; a request names the revision it edits.
UpdatePlatformDraft(d, base, expected, k) ==
    /\ lockAndReadPlatformIdempotency("update", k)
    /\ draft[d].revision = expected /\ expected \in 1..(MaxDraftRevision - 1)
    /\ requirePlatformDraftTarget(d, base)
    /\ draft' = [draft EXCEPT ![d].base = base, ![d].revision = @ + 1]
    /\ insertPlatformIdempotency("update", k, d)
    /\ UNCHANGED <<permitted, head, offVersion, platformSubmission, release, managed, judged, eligible, operation, delivery>>

Pending(d) == {s \in PlatformSubmission :
                  platformSubmission[s].status = "pending" /\ platformSubmission[s].def = d}
Submitted(a, d) == [status |-> "pending", def |-> d, base |-> draft[d].base,
                    of |-> draft[d].revision, by |-> a, reviewer |-> Nobody, ver |-> Nobody]

\* SubmitPlatformDraft: pending submissions of the draft are superseded.
SubmitPlatformDraft(a, d, s, expected, k) ==
    /\ lockAndReadPlatformIdempotency("submit", k)
    /\ draft[d].revision = expected /\ expected > 0
    /\ requirePlatformDraftTarget(d, draft[d].base)
    /\ platformSubmission[s] = NoPlatformSubmission
    /\ platformSubmission' = [t \in PlatformSubmission |->
           CASE t = s -> Submitted(a, d)
             [] t \in Pending(d) -> [platformSubmission[t] EXCEPT !.status = "superseded"]
             [] OTHER -> platformSubmission[t]]
    /\ insertPlatformIdempotency("submit", k, s)
    /\ UNCHANGED <<permitted, head, offVersion, draft, release, managed, judged, eligible, operation, delivery>>

WithdrawPlatformSubmission(a, s, k) ==
    /\ lockAndReadPlatformIdempotency("withdraw", k)
    /\ platformSubmission[s].status = "pending" /\ platformSubmission[s].by = a
    /\ platformSubmission' = [platformSubmission EXCEPT ![s].status = "withdrawn"]
    /\ insertPlatformIdempotency("withdraw", k, s)
    /\ UNCHANGED <<permitted, head, offVersion, draft, release, managed, judged, eligible, operation, delivery>>

\* lockPlatformPublicationTarget, and the number of the next version
lockPlatformPublicationTarget(sub) == sub.base = head[sub.def]
NextNumber(sub) == IF sub.base = Nobody THEN 1 ELSE offVersion[sub.base].number + 1

\* insertInitialOfficialRelease: paused at rollout 0; a release that exists is
\* left as it is (ON CONFLICT DO NOTHING).
insertInitialOfficialRelease(d, channels, v, minimum) ==
    release' = [r \in Releases |->
        IF r[1] = d /\ r[2] \in channels /\ release[r] = <<>>
        THEN <<[ver |-> v, state |-> "paused", rollout |-> 0, minimum |-> minimum, allowed |-> {},
                action |-> "initial", target |-> 0]>>
        ELSE release[r]]

RejectPlatformSubmission(a, s, k) ==
    /\ lockAndReadPlatformIdempotency("review", k)
    /\ platformSubmission[s].status = "pending" /\ platformSubmission[s].by # a
    /\ platformSubmission' = [platformSubmission EXCEPT ![s].status = "rejected", ![s].reviewer = a]
    /\ insertPlatformIdempotency("review", k, s)
    /\ UNCHANGED <<permitted, head, offVersion, draft, release, managed, judged, eligible, operation, delivery>>

\* ReviewPlatformSubmission with an approval: serializable.  What was submitted
\* is published, also when the draft was edited since.
ApprovePlatformSubmission(a, s, v, channels, minimum, k) ==
    LET sub == platformSubmission[s] IN
    /\ lockAndReadPlatformIdempotency("review", k)
    /\ sub.status = "pending" /\ sub.by # a
    /\ channels \subseteq permitted /\ channels # {}
    /\ lockPlatformPublicationTarget(sub)
    /\ offVersion[v] = NoOffVersion
    /\ offVersion' = [offVersion EXCEPT ![v] = [def |-> sub.def, number |-> NextNumber(sub)]]
    /\ head' = [head EXCEPT ![sub.def] = v]
    /\ insertInitialOfficialRelease(sub.def, channels, v, minimum)
    /\ platformSubmission' = [platformSubmission EXCEPT ![s].status = "approved",
                                  ![s].reviewer = a, ![s].ver = v]
    /\ insertPlatformIdempotency("review", k, s)
    /\ UNCHANGED <<permitted, draft, managed, judged, eligible, operation, delivery>>

ReviewPlatformSubmission(a, s, k) ==
    \/ RejectPlatformSubmission(a, s, k)
    \/ \E v \in OffVersion, channels \in SUBSET Channel, minimum \in Minimum :
          ApprovePlatformSubmission(a, s, v, channels, minimum, k)
\* The service's operations: the role in the administrator's assertion first
ReserveDefinition(a, d, k) == authorized(a, "draft_write") /\ ReservePlatformDefinition(d, k)
CreateDraft(a, d, base, k) == authorized(a, "draft_write") /\ CreatePlatformDraft(d, base, k)
\* UpdateDraft reads the draft before: a request without a kind keeps its base.
UpdateDraft(a, d, base, e, k) ==
    /\ authorized(a, "draft_write") /\ draft[d] # NoDraft
    /\ UpdatePlatformDraft(d, base, e, k)
SubmitDraft(a, d, s, e, k) == authorized(a, "draft_write") /\ SubmitPlatformDraft(a, d, s, e, k)
WithdrawSubmission(a, s, k) == authorized(a, "draft_write") /\ WithdrawPlatformSubmission(a, s, k)
ReviewSubmission(a, s, k) == authorized(a, "review") /\ ReviewPlatformSubmission(a, s, k)
-----------------------------------------------------------------------------
(* Releases *)

Current(r) == release[r][Len(release[r])]

\* requireApprovedOfficialVersion
requireApprovedOfficialVersion(r, v) == offVersion[v].def = r[1]

\* copyOfficialReleaseRevision for a rollback: version, rollout and audience of
\* an earlier revision, with the state of the present one.
copyOfficialReleaseRevision(r, target) ==
    [release[r][target] EXCEPT !.state = Current(r).state, !.action = "rollback", !.target = target]

\* buildOfficialReleaseRevision: the revision the action appends, or none.
buildOfficialReleaseRevision(r, action, v, rollout, minimum, allowed, target) ==
    LET now == Current(r)
        set(ver) == [ver |-> ver, state |-> "active", rollout |-> rollout, minimum |-> minimum,
                     allowed |-> allowed, action |-> action, target |-> 0]
    IN CASE action = "activate" -> {x \in {set(v)} : requireApprovedOfficialVersion(r, v)}
         [] action = "rollout_update" -> {x \in {set(now.ver)} : now.state = "active"}
         [] action = "pause" -> {x \in {[now EXCEPT !.state = "paused", !.action = action, !.target = 0]} :
                                     now.state = "active"}
         [] action = "resume" -> {x \in {[now EXCEPT !.state = "active", !.action = action, !.target = 0]} :
                                     now.state = "paused"}
         [] action = "rollback" ->
              IF target \in 1..(Len(release[r]) - 1) /\ release[r][target].ver = v
              THEN {copyOfficialReleaseRevision(r, target)}
              ELSE {}

\* recordPlatformAdminOperation: in the transaction of the mutation.  A rollback
\* carries an approval that somebody else requested.
recordPlatformAdminOperation(a, requester, r, expected, action) ==
    /\ IF action = "rollback" THEN requester \in Admin \ {a} ELSE requester = Nobody
    /\ operation' = operation \cup {[by |-> a, requester |-> requester, release |-> r,
                                     expected |-> expected, result |-> Len(release[r]) + 1]}

\* A mutant: the head the administrator saw is not compared.
AppendUnseen(a, requester, r, expected, action, v, rollout, minimum, allowed, target, k) ==
    /\ lockAndReadPlatformIdempotency(action, k)
    /\ judged[r] = NotJudged
    /\ release[r] # <<>> /\ Len(release[r]) < MaxRevisions
    /\ \E next \in buildOfficialReleaseRevision(r, action, v, rollout, minimum, allowed, target) :
          release' = [release EXCEPT ![r] = Append(@, next)]
    /\ insertPlatformIdempotency(action, k, <<r, Len(release[r]) + 1>>)
    /\ recordPlatformAdminOperation(a, requester, r, expected, action)
    /\ UNCHANGED <<catalog, managed, judged, eligible, delivery>>

\* A mutant: the release is read without its lock.
AppendUnlocked(a, requester, r, expected, action, v, rollout, minimum, allowed, target, k) ==
    /\ lockAndReadPlatformIdempotency(action, k)
    /\ release[r] # <<>> /\ Len(release[r]) = expected /\ expected < MaxRevisions
    /\ \E next \in buildOfficialReleaseRevision(r, action, v, rollout, minimum, allowed, target) :
          release' = [release EXCEPT ![r] = Append(@, next)]
    /\ insertPlatformIdempotency(action, k, <<r, Len(release[r]) + 1>>)
    /\ recordPlatformAdminOperation(a, requester, r, expected, action)
    /\ UNCHANGED <<catalog, managed, judged, eligible, delivery>>

\* AppendOfficialReleaseRevision: locks the platform and the release.
AppendOfficialReleaseRevision(a, requester, r, expected, action, v, rollout, minimum, allowed, target, k) ==
    /\ lockAndReadPlatformIdempotency(action, k)
    /\ judged[r] = NotJudged
    /\ release[r] # <<>> /\ Len(release[r]) = expected /\ expected < MaxRevisions
    /\ \E next \in buildOfficialReleaseRevision(r, action, v, rollout, minimum, allowed, target) :
          release' = [release EXCEPT ![r] = Append(@, next)]
    /\ insertPlatformIdempotency(action, k, <<r, Len(release[r]) + 1>>)
    /\ recordPlatformAdminOperation(a, requester, r, expected, action)
    /\ UNCHANGED <<catalog, managed, judged, eligible, delivery>>

\* The service's release operations; what an action does not use is left out.
ActivateOfficialRelease(a, r, e, k) ==
    authorized(a, "release_write") /\ \E v \in OffVersion, n \in Rollout, m \in Minimum, allowed \in SUBSET eligible :
        AppendOfficialReleaseRevision(a, Nobody, r, e, "activate", v, n, m, allowed, 0, k)
UpdateOfficialRollout(a, r, e, k) ==
    authorized(a, "release_write") /\ \E n \in Rollout, m \in Minimum, allowed \in SUBSET eligible :
        AppendOfficialReleaseRevision(a, Nobody, r, e, "rollout_update", Nobody, n, m, allowed, 0, k)
changeOfficialReleaseState(a, r, e, k, action) ==
    /\ authorized(a, "release_write")
    /\ AppendOfficialReleaseRevision(a, Nobody, r, e, action, Nobody, 0, 0, {}, 0, k)
PauseOfficialRelease(a, r, e, k) == changeOfficialReleaseState(a, r, e, k, "pause")
ResumeOfficialRelease(a, r, e, k) == changeOfficialReleaseState(a, r, e, k, "resume")
RollbackOfficialRelease(a, r, e, k) ==
    authorized(a, "rollback") /\ \E v \in OffVersion, requester \in Admin, target \in 1..MaxRevisions :
        AppendOfficialReleaseRevision(a, requester, r, e, "rollback", v, 0, 0, {}, target, k)
-----------------------------------------------------------------------------
(* Devices *)

\* loadOfficialEligibilityRecord with authorizeOfficialProductContext
loadOfficialEligibilityRecord(h, r) ==
    [inOrder |-> h \in eligible, entitled |-> r[2] \in permitted,
     revision |-> Current(r), listed |-> h \in Current(r).allowed]

\* EvaluateOfficialEligibilityRecord: an update may be applied while the release
\* is paused, an installation not.
EvaluateOfficialEligibilityRecord(h, x, allowPaused) ==
    /\ x.inOrder /\ x.entitled
    /\ x.revision.state = "active" \/ allowPaused
    /\ Desktop[h] >= x.revision.minimum
    /\ x.listed \/ Bucket[h] < x.revision.rollout

\* GetOfficialEligibility and ResolveOfficialRelease
ResolveOfficialRelease(h, r, allowPaused) ==
    release[r] # <<>> /\ EvaluateOfficialEligibilityRecord(h, loadOfficialEligibilityRecord(h, r), allowPaused)

\* GetOfficialEligibilityByRevision and ResolveOfficialReleaseRevision: only the
\* revision in force resolves.
ResolveOfficialReleaseRevision(h, r, revision) ==
    ResolveOfficialRelease(h, r, FALSE) /\ revision = Len(release[r])

\* FindOfficialInstallation: one of these, active before pending
FindOfficialInstallation(h, r) ==
    LET mine(status) == {i \in OffInstall : /\ managed[i].status = status /\ managed[i].holder = h
                                            /\ managed[i].release = r}
    IN IF mine("active") # {} THEN mine("active") ELSE mine("pending")

\* officialAgentForRelease: the catalogue shows an update for the installation
\* it finds
officialAgentForRelease(h, r, i) ==
    i \in FindOfficialInstallation(h, r) /\ managed[i].status = "active" /\ managed[i].revision # Len(release[r])

\* ListOfficialAgents: the releases a holder is shown
ListOfficialAgents(h) == {r \in Releases : ResolveOfficialRelease(h, r, FALSE)}

\* GetManagedOfficialUpdate through GetOfficialAgent: the revision offered, or 0
GetManagedOfficialUpdate(h, i) ==
    LET m == managed[i] IN
    IF /\ m.status = "active" /\ m.holder = h /\ m.release \in ListOfficialAgents(h)
       /\ m.revision # Len(release[m.release])
    THEN Len(release[m.release]) ELSE 0

\* loadOfficialEligibilityRecord with the release's row locked, and the
\* transaction's evaluation of it.  The lock keeps revisions from being appended;
\* policy, account, device and product context are not locked.
lockOfficialRelease(h, r, purpose) ==
    /\ judged[r] = NotJudged
    /\ ResolveOfficialRelease(h, r, purpose = "update")
    /\ judged' = [judged EXCEPT ![r] = [holder |-> h, head |-> Len(release[r]), purpose |-> purpose]]
    /\ UNCHANGED <<catalog, release, managed, eligible, offRecord, operation, delivery>>

\* The transaction ends without a write: refused, failed or cut off.
abandonSelection(r) ==
    /\ judged[r] # NotJudged
    /\ judged' = [judged EXCEPT ![r] = NotJudged]
    /\ UNCHANGED <<catalog, release, managed, eligible, offRecord, operation, delivery>>

\* The key is looked up after the release is judged.
createOfficialPendingInstallation(h, i, r, seen, k) ==
    /\ judged[r] = [holder |-> h, head |-> seen, purpose |-> "install"]
    /\ lockAndReadPlatformIdempotency("install", k)
    /\ managed[i] = NoManaged
    /\ managed' = [managed EXCEPT ![i] = [status |-> "pending", holder |-> h, release |-> r,
                       revision |-> seen, ver |-> release[r][seen].ver, policies |-> 1]]
    /\ judged' = [judged EXCEPT ![r] = NotJudged]
    /\ insertPlatformIdempotency("install", k, i)
    /\ UNCHANGED <<catalog, release, eligible, operation, delivery>>

\* CreatePendingInstallation of an official agent
CreatePendingInstallation(h, i, r, seen, k) ==
    \/ ResolveOfficialReleaseRevision(h, r, seen) /\ lockOfficialRelease(h, r, "install")
    \/ createOfficialPendingInstallation(h, i, r, seen, k)

\* The device's activation, and archiving, as for every installation
ActivateManaged(i) ==
    /\ managed[i].status = "pending"
    /\ managed' = [managed EXCEPT ![i].status = "active"]
    /\ UNCHANGED <<catalog, release, judged, eligible, offRecord, operation, delivery>>
ArchiveManaged(i) ==
    /\ managed[i].status \in {"pending", "active"}
    /\ managed' = [managed EXCEPT ![i].status = "archived"]
    /\ UNCHANGED <<catalog, release, judged, eligible, offRecord, operation, delivery>>

\* The conditions of ApplyManagedOfficialSelection: the request names the
\* revision it leaves and the one it was offered, and the latter must still be
\* the release's last.
Selectable(h, i, expected, target) ==
    /\ managed[i].status = "active" /\ managed[i].holder = h
    /\ managed[i].revision = expected /\ target # expected
Applies(h, i, expected, target) ==
    /\ Selectable(h, i, expected, target)
    /\ ResolveOfficialRelease(h, managed[i].release, TRUE)
    /\ target = Len(release[managed[i].release])

ApplyManagedOfficialSelection(h, i, expected, target) ==
    \/ Applies(h, i, expected, target) /\ lockOfficialRelease(h, managed[i].release, "update")
    \/ LET r == managed[i].release IN
       /\ Selectable(h, i, expected, target)
       /\ judged[r] = [holder |-> h, head |-> target, purpose |-> "update"]
       /\ managed' = [managed EXCEPT ![i].revision = target, ![i].policies = @ + 1,
                                     ![i].ver = release[r][target].ver]
       /\ judged' = [judged EXCEPT ![r] = NotJudged]
       /\ UNCHANGED <<catalog, release, eligible, offRecord, operation, delivery>>

ApplyManagedOfficialUpdate(h, i) ==
    \E e, n \in 1..MaxRevisions : ApplyManagedOfficialSelection(h, i, e, n)

\* InsertOfficialAgentDeliveryVerification: the installation is read without a
\* lock in the statement before the insert; the request's id is the row's key.
InsertOfficialAgentDeliveryVerification(h, i, revision, k) ==
    /\ managed[i].status \in {"pending", "active"} /\ managed[i].holder = h /\ h \in eligible
    /\ managed[i].revision = revision
    /\ lockAndReadPlatformIdempotency("delivery", k)
    /\ insertPlatformIdempotency("delivery", k, i)
    /\ delivery' = delivery \cup {[release |-> managed[i].release, revision |-> revision, holder |-> h, inst |-> i]}
    /\ UNCHANGED <<catalog, release, managed, judged, eligible, operation>>

RecordOfficialAgentDeliveryVerification(h, k) ==
    \E i \in OffInstall, n \in 1..MaxRevisions : InsertOfficialAgentDeliveryVerification(h, i, n, k)

\* GetOfficialDeliveryVerificationSummary: the devices that reported the
\* revision in force
GetOfficialDeliveryVerificationSummary(r) ==
    {x.holder : x \in {y \in delivery : y.release = r /\ y.revision = Len(release[r])}}

\* Accounts, devices and memberships, which other components change
ContextChanges(h) ==
    /\ eligible' = IF h \in eligible THEN eligible \ {h} ELSE eligible \cup {h}
    /\ UNCHANGED <<catalog, release, managed, judged, offRecord, operation, delivery>>
-----------------------------------------------------------------------------
CatalogNext ==
    \/ \E channels \in SUBSET Channel : EnsurePlatform(channels)
    \/ \E a \in Admin, k \in OffKey :
          \/ \E d \in OffDefinition : ReserveDefinition(a, d, k)
          \/ \E d \in OffDefinition, base \in OffVersion \cup {Nobody} :
                \/ CreateDraft(a, d, base, k)
                \/ \E e \in 1..MaxDraftRevision : UpdateDraft(a, d, base, e, k)
          \/ \E s \in PlatformSubmission :
                \/ \E d \in OffDefinition, e \in 1..MaxDraftRevision : SubmitDraft(a, d, s, e, k)
                \/ WithdrawSubmission(a, s, k) \/ ReviewSubmission(a, s, k)

ReleaseNext ==
    \E a \in Admin, k \in OffKey, r \in Releases, e \in 1..MaxRevisions :
        \/ ActivateOfficialRelease(a, r, e, k) \/ UpdateOfficialRollout(a, r, e, k)
        \/ PauseOfficialRelease(a, r, e, k) \/ ResumeOfficialRelease(a, r, e, k)
        \/ RollbackOfficialRelease(a, r, e, k)

DeviceNext ==
    \/ \E h \in Holder, i \in OffInstall, n \in 1..MaxRevisions, r \in Releases, k \in OffKey :
          CreatePendingInstallation(h, i, r, n, k)
    \/ \E r \in Releases : abandonSelection(r)
    \/ \E h \in Holder, i \in OffInstall : ApplyManagedOfficialUpdate(h, i)
    \/ \E h \in Holder, k \in OffKey : RecordOfficialAgentDeliveryVerification(h, k)
    \/ \E i \in OffInstall : ActivateManaged(i) \/ ArchiveManaged(i)
    \/ \E h \in Holder : ContextChanges(h)

OffNext == CatalogNext \/ ReleaseNext \/ DeviceNext
-----------------------------------------------------------------------------
(* Properties *)

\* Rows keep their types.
OffTypeOK ==
    /\ eligible \subseteq Holder
    /\ head \in [OffDefinition -> OffVersion \cup {Nobody, "unreserved"}]
    /\ offVersion \in [OffVersion -> [def : OffDefinition, number : Nat] \cup {NoOffVersion}]
    /\ draft \in [OffDefinition -> [base : OffVersion \cup {Nobody}, revision : Nat]]
    /\ platformSubmission \in [PlatformSubmission -> SubmissionRow \cup {NoPlatformSubmission}]
    /\ release \in [Releases -> Seq(Revision)]
    /\ managed \in [OffInstall -> ManagedRow \cup {NoManaged}]
    /\ judged \in [Releases -> [holder : Holder, head : Nat, purpose : {"install", "update"}] \cup {NotJudged}]
    /\ operation \subseteq [by : Admin, requester : Admin \cup {Nobody}, release : Releases,
                            expected : Nat, result : Nat]
    /\ delivery \subseteq [release : Releases, revision : Nat, holder : Holder, inst : OffInstall]

\* Versions of a definition are numbered without gap or repeat and the head is
\* the last, however often a draft is edited and submitted again.
OfficialVersionsInOrder ==
    \A d \in OffDefinition :
        LET of == {v \in OffVersion : offVersion[v].def = d}
        IN of # {} => /\ {offVersion[v].number : v \in of} = 1..Cardinality(of)
                      /\ offVersion[head[d]].number = Cardinality(of)

\* A draft has at most one pending submission: the newest.
OnePendingSubmission ==
    \A d \in OffDefinition : \A s, t \in Pending(d) : s = t

\* Each revision after the first has exactly one recorded operation, and that was
\* decided on the revision before it: of two operators who saw the same head,
\* one is refused.
OneOperationPerRevision ==
    \A r \in Releases :
        /\ \A n \in 2..Len(release[r]) :
              Cardinality({o \in operation : o.release = r /\ o.result = n}) = 1
        /\ \A o \in operation : o.release = r => o.result \in 2..Len(release[r]) /\ o.result = o.expected + 1

\* The recorded answer of a release mutation names a revision its own action made.
AnswersTheirOwn ==
    \A x \in offRecord :
        x.op \in {"activate", "rollout_update", "pause", "resume", "rollback"} =>
            /\ x.about[2] \in 1..Len(release[x.about[1]])
            /\ release[x.about[1]][x.about[2]].action = x.op

\* Releases only grow; an administrator's step never turns a paused release
\* active except by activating or resuming it, a rollback included.
PausedUntilResumed ==
    \A r \in Releases :
        /\ SubSeq(release'[r], 1, Len(release[r])) = release[r]
        /\ release[r] # <<>> /\ release'[r] # release[r] /\ Current(r).state = "paused" =>
              \/ Current(r)'.state = "paused"
              \/ Current(r)'.action \in {"activate", "resume"}

\* An installation always runs the version of the revision it has selected.
ManagedFollowsRelease ==
    \A i \in OffInstall : managed[i] # NoManaged =>
        /\ managed[i].revision \in 1..Len(release[managed[i].release])
        /\ managed[i].ver = release[managed[i].release][managed[i].revision].ver

\* An installation moves only forward along the release's revisions (a rollback
\* is a later revision), and its next stop is the revision then in force.
ManagedMovesForward ==
    \A i \in OffInstall :
        managed[i] # NoManaged /\ managed'[i].revision # managed[i].revision =>
            /\ managed'[i].revision > managed[i].revision
            /\ managed'[i].revision = Len(release[managed[i].release])

\* The offer of an update is kept: while nothing changes, what is offered for an
\* installation can be applied to it, and the catalogue shows an update for the
\* installation it finds exactly when one is offered for it.
OfferIsKept ==
    \A h \in Holder, i \in OffInstall :
        /\ GetManagedOfficialUpdate(h, i) # 0 =>
              Applies(h, i, managed[i].revision, GetManagedOfficialUpdate(h, i))
        /\ \A r \in ListOfficialAgents(h) : i \in FindOfficialInstallation(h, r) =>
              officialAgentForRelease(h, r, i) = (GetManagedOfficialUpdate(h, i) # 0)

\* The delivery summary of a release counts a device only when the device has
\* an installation that reached the revision in force; an installation that
\* was moved on since, or archived, had it.
DeliveredWasSelected ==
    \A r \in Releases : \A h \in GetOfficialDeliveryVerificationSummary(r) :
        \E i \in OffInstall : /\ managed[i].holder = h /\ managed[i].release = r
                              /\ managed[i].revision = Len(release[r])

\* What is installed, and what an installation is moved to, is at that moment the
\* revision in force and admits the holder, and nothing is installed from a
\* release that is paused, although the device read and the transaction judged
\* the release before.  (The policy, the account, the device and the product
\* context are not locked: those are the transaction's earlier reads.)
Admits(x, h) == Desktop[h] >= x.minimum /\ (h \in x.allowed \/ Bucket[h] < x.rollout)
SelectedWhileOffered ==
    \A i \in OffInstall :
        LET new == managed'[i]
            fresh == managed[i] = NoManaged
        IN  new # NoManaged /\ (fresh \/ new.revision # managed[i].revision) =>
               /\ new.revision = Len(release[new.release])
               /\ Admits(Current(new.release), new.holder)
               /\ fresh => Current(new.release).state = "active"
=============================================================================
