------------------------------- MODULE Agents -------------------------------
(***************************************************************************)
(* Agents of users and teams, reviewed contributions and the official      *)
(* catalogue side by side.  The official catalogue has rows of its own, so *)
(* a step of one side leaves the other as it is.                           *)
(***************************************************************************)
EXTENDS AgentReview, OfficialRelease

agentsVars == <<rvVars, offVars>>

AgentsInit == AcInit /\ RvInit /\ OffInit

\* Steps of AgentControl, of AgentReview and of OfficialRelease
ControlStep == AcNext /\ UNCHANGED <<submission, candidate, offVars>>
ReviewStep == RvNext /\ UNCHANGED offVars
OfficialStep == OffNext /\ UNCHANGED rvVars

AgentsNext == ControlStep \/ ReviewStep \/ OfficialStep

AgentsSpec == AgentsInit /\ [][AgentsNext]_agentsVars
-----------------------------------------------------------------------------
(* Properties *)

\* The versions of every definition, a team's, a user's or an official one, are
\* numbered 1, 2, ... without gap or repeat, the head is the last, and a request
\* that is sent twice with its Idempotency-Key makes one version or one
\* installation (publishSecond, approveOrganizationAgentSubmission,
\* ApprovePlatformSubmission, lockAndReadIdempotency).
CatalogueInOrder == VersionsInOrder /\ OfficialVersionsInOrder /\ OneRowPerKey

\* An installation's last signed policy is for the version it selects, a recorded
\* binding names a version together with its own policy, and a signed policy
\* admits exactly what the manifest and the organization's policy of that moment
\* both admit (insertPolicy, InsertRuntimeBinding, OrganizationDocument).
PoliciesFollow == PolicyFollowsSelection /\ BindingsMatchPolicies /\ SignedExactly

\* Stored submissions can be read, an approved one is the origin of a version
\* that follows on its base and was admissible when it was approved, and one
\* that was superseded really is stale (organization_submission_repository.go).
ReviewsHold == SubmissionsReadable /\ ApprovedLineage /\ SupersededIsStale /\ PublishedUnderPolicy

\* The history of a release is consistent: each revision after the first has one
\* recorded operation, a recorded answer names a revision of its own action, a
\* draft has one pending submission at most, and an installation runs the
\* version of the revision it has selected (platform_repository.go).
ReleaseHistoryHolds ==
    OneOperationPerRevision /\ AnswersTheirOwn /\ OnePendingSubmission /\ ManagedFollowsRelease

\* What one read or offer shows, the others confirm: versions that are found are
\* listed, what can be installed can be read, an offered update can be applied,
\* and a delivery is counted only for a revision that was selected.
AgentReadsAgree == ReadsAgree /\ OfferIsKept /\ DeliveredWasSelected

\* Decisions about an agent stay decided: a call that begins after a revocation
\* never installs the version, an archived installation never changes again, and
\* a candidate's review is never replaced.
DecisionsStand == [][RevokedStaysOut /\ ArchivedIsFinal /\ ReviewIsFinal]_agentsVars

\* Releases only grow and stay paused until they are activated or resumed, and
\* installations come only from what is offered and move only forward to the
\* revision in force.
ReleasesMoveForward ==
    [][PausedUntilResumed /\ ManagedMovesForward /\ SelectedWhileOffered]_agentsVars
=============================================================================
