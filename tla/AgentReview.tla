---------------------------- MODULE AgentReview ----------------------------
(***************************************************************************)
(* Reviewed contributions (internal/agentcontrol): agents that members     *)
(* submit to an organization, which become versions when a publisher       *)
(* approves them, and experience candidates that members of a workspace or *)
(* an organization submit from an installed agent.                         *)
(***************************************************************************)
EXTENDS AgentControl

CONSTANTS Submission, Candidate

NoSubmission == [status |-> "none", def |-> NoOne]
NoCandidate == [team |-> NoOne, review |-> NoOne]

\* Rows of these tables
OrganizationSubmission ==
    [status : {"pending", "withdrawn", "rejected", "approved", "superseded"}, org : OrgTeam,
     def : Definition, base : Version \cup {NoOne}, wants : Manifest, by : User, revision : Nat,
     reviewer : User \cup {NoOne}, ver : Version \cup {NoOne}, under : Policies \cup {NoOne}]
ExperienceCandidate ==
    [team : Team, by : User, ver : Version, key : Key,
     review : [by : User, decision : {"approve", "reject"}] \cup {NoOne}]

VARIABLES
    submission,  \* organization_agent_submissions with their organization_agent_reviews
    candidate    \* experience candidates with their reviews

rvVars == <<acVars, submission, candidate>>

RvInit == /\ submission = [s \in Submission |-> NoSubmission]
          /\ candidate = [c \in Candidate |-> NoCandidate]
-----------------------------------------------------------------------------
(* Organization submissions *)

\* validateAgainstCurrentOrganizationPolicy
validateAgainstCurrentOrganizationPolicy(o, wants) ==
    ~IntersectOrganizationAgentPolicy(DefaultPolicyDocument, acPolicy[o], wants).blocked

\* lockOrganizationSubmissionTarget: an initial submission needs an id that no
\* definition and no submission has; a next one the current head as its base.
lockOrganizationSubmissionTarget(o, d, base) ==
    IF base = NoOne THEN /\ definition[d] = NoDefinition
                         /\ \A s \in Submission : submission[s].def # d
    ELSE definition[d].owner = o /\ definition[d].latest = base

submitOrganizationAgent(u, o, s, d, base, wants, k) ==
    /\ requireOrganizationAgentAccess(u, o, "publish")
    /\ lockAndReadIdempotency(o, "submit", k)
    /\ validateAgainstCurrentOrganizationPolicy(o, wants)
    /\ lockOrganizationSubmissionTarget(o, d, base)
    /\ submission[s] = NoSubmission
    /\ submission' = [submission EXCEPT ![s] =
           [status |-> "pending", org |-> o, def |-> d, base |-> base, wants |-> wants, by |-> u,
            revision |-> 1, reviewer |-> NoOne, ver |-> NoOne, under |-> NoOne]]
    /\ insertIdempotency(o, "submit", k)
    /\ UNCHANGED <<people, catalogue, installs, acCall, candidate>>

SubmitOrganizationAgent(u, s, k) ==
    \E o \in OrgTeam, d \in Definition, wants \in Manifest :
        \E base \in {NoOne} \cup {b \in Version : version[b].def = d} :
            submitOrganizationAgent(u, o, s, d, base, wants, k)

\* transitionOrganizationAgentSubmission: only from pending at revision 1
transitionOrganizationAgentSubmission(s, status) ==
    /\ submission[s].status = "pending"
    /\ submission' = [submission EXCEPT ![s].status = status, ![s].revision = @ + 1]

WithdrawOrganizationAgentSubmission(u, s, k) ==
    LET o == submission[s].org IN
    /\ submission[s] # NoSubmission /\ submission[s].by = u
    /\ requireOrganizationAgentAccess(u, o, "publish")
    /\ lockAndReadIdempotency(o, "withdraw", k)
    /\ transitionOrganizationAgentSubmission(s, "withdrawn")
    /\ insertIdempotency(o, "withdraw", k)
    /\ UNCHANGED <<people, catalogue, installs, acCall, candidate>>

\* ReviewOrganizationAgentSubmission with a reject decision
rejectOrganizationAgentSubmission(u, s, k) ==
    LET o == submission[s].org IN
    /\ submission[s].status = "pending"
    /\ requireOrganizationAgentAccess(u, o, "review")
    /\ lockAndReadIdempotency(o, "review", k)
    /\ submission' = [submission EXCEPT ![s].status = "rejected", ![s].revision = @ + 1,
                                        ![s].reviewer = u]
    /\ insertIdempotency(o, "review", k)
    /\ UNCHANGED <<people, catalogue, installs, acCall, candidate>>

\* requireCurrentOrganizationPublisher: the submitter is still an active
\* owner or admin when the submission is approved.
requireCurrentOrganizationPublisher(s) ==
    /\ submission[s].by \in acActive
    /\ organizationRoleAllows(acRole[submission[s].org][submission[s].by], "publish")

\* persistApprovedOrganizationPublication: version, head, review and
\* transition in one transaction.  The submission is the version's key.
persistApprovedOrganizationPublication(u, s, v, n) ==
    LET o == submission[s].org IN
    /\ version[v] = NoVersion
    /\ version' = [version EXCEPT ![v] = [def |-> submission[s].def, number |-> n,
                       wants |-> submission[s].wants, made |-> Made(o, "submission", s)]]
    /\ definition' = [definition EXCEPT ![submission[s].def] = [owner |-> o, latest |-> v]]
    /\ submission' = [submission EXCEPT ![s].status = "approved", ![s].revision = @ + 1,
                          ![s].reviewer = u, ![s].ver = v, ![s].under = acPolicy[o]]

\* markOrganizationSubmissionSuperseded: committed, and answered with an error
markOrganizationSubmissionSuperseded(s) ==
    transitionOrganizationAgentSubmission(s, "superseded") /\ UNCHANGED <<version, definition>>

\* A mutant: a submission whose base is no longer the head is published.
approveStaleBase(u, s, v, k) ==
    LET sub == submission[s] IN
    /\ sub.status = "pending"
    /\ requireOrganizationAgentAccess(u, sub.org, "review")
    /\ lockAndReadIdempotency(sub.org, "review", k)
    /\ requireCurrentOrganizationPublisher(s)
    /\ validateAgainstCurrentOrganizationPolicy(sub.org, sub.wants)
    /\ IF sub.base = NoOne
       THEN definition[sub.def] = NoDefinition /\ persistApprovedOrganizationPublication(u, s, v, 1)
       ELSE persistApprovedOrganizationPublication(u, s, v,
                version[definition[sub.def].latest].number + 1)
    /\ insertIdempotency(sub.org, "review", k)
    /\ UNCHANGED <<people, revoked, installs, acCall, candidate>>

\* approveOrganizationAgentSubmission: serializable
approveOrganizationAgentSubmission(u, s, v, k) ==
    LET sub == submission[s] IN
    /\ sub.status = "pending"
    /\ requireOrganizationAgentAccess(u, sub.org, "review")
    /\ lockAndReadIdempotency(sub.org, "review", k)
    /\ requireCurrentOrganizationPublisher(s)
    /\ validateAgainstCurrentOrganizationPolicy(sub.org, sub.wants)
    /\ CASE sub.base = NoOne /\ definition[sub.def] = NoDefinition ->
                persistApprovedOrganizationPublication(u, s, v, 1)
         [] sub.base # NoOne /\ definition[sub.def].latest = sub.base ->
                persistApprovedOrganizationPublication(u, s, v, version[sub.base].number + 1)
         [] sub.base # NoOne /\ definition[sub.def].latest # sub.base ->
                markOrganizationSubmissionSuperseded(s)
         [] OTHER -> FALSE
    /\ insertIdempotency(sub.org, "review", k)
    /\ UNCHANGED <<people, revoked, installs, acCall, candidate>>

ReviewOrganizationAgentSubmission(u, s, k) ==
    \/ rejectOrganizationAgentSubmission(u, s, k)
    \/ \E v \in Version : approveOrganizationAgentSubmission(u, s, v, k)
-----------------------------------------------------------------------------
(* Experience candidates *)

\* requireCandidateSourceInstallation and its organization twin: the agent is
\* active on the contributor's device, at the version the candidate names.
requireCandidateSourceInstallation(u, team, i) ==
    /\ installation[i].user = u /\ installation[i].status = "active" /\ Unlocked(i)
    /\ OwnerOf(installation[i].ver) = team

insertCandidate(u, team, c, i, k) ==
    /\ candidate[c] = NoCandidate
    /\ lockAndReadIdempotency(u, "candidate", k)
    /\ requireCandidateSourceInstallation(u, team, i)
    /\ candidate' = [candidate EXCEPT ![c] =
           [team |-> team, by |-> u, ver |-> installation[i].ver, review |-> NoOne, key |-> k]]
    /\ insertIdempotency(u, "candidate", k)
    /\ UNCHANGED <<people, catalogue, installs, acCall, submission>>

submitExperienceCandidate(u, w, c, i, k) ==
    requireWorkspaceAgentAccess(u, w, "contribute") /\ insertCandidate(u, w, c, i, k)
submitOrganizationExperienceCandidate(u, o, c, i, k) ==
    requireOrganizationAgentAccess(u, o, "install") /\ insertCandidate(u, o, c, i, k)

SubmitExperienceCandidate(u, c, k) ==
    \E i \in Install, w \in WsTeam : submitExperienceCandidate(u, w, c, i, k)
SubmitOrganizationExperienceCandidate(u, c, k) ==
    \E i \in Install, o \in OrgTeam : submitOrganizationExperienceCandidate(u, o, c, i, k)

\* The candidate's row is locked; a candidate that has a review is only
\* audited as a conflict.
insertReview(u, c, decision, k) ==
    /\ candidate[c] # NoCandidate /\ candidate[c].review = NoOne
    /\ lockAndReadIdempotency(u, "candidate_review", k)
    /\ candidate' = [candidate EXCEPT ![c].review = [by |-> u, decision |-> decision]]
    /\ insertIdempotency(u, "candidate_review", k)
    /\ UNCHANGED <<people, catalogue, installs, acCall, submission>>

reviewExperienceCandidate(u, w, c, decision, k) ==
    requireWorkspaceAgentAccess(u, w, "review") /\ insertReview(u, c, decision, k)
reviewOrganizationExperienceCandidate(u, o, c, decision, k) ==
    requireOrganizationAgentAccess(u, o, "review") /\ insertReview(u, c, decision, k)

ReviewExperienceCandidate(u, c, k) ==
    \E decision \in {"approve", "reject"} :
        candidate[c].team \in WsTeam /\ reviewExperienceCandidate(u, candidate[c].team, c, decision, k)
ReviewOrganizationExperienceCandidate(u, c, k) ==
    \E decision \in {"approve", "reject"} :
        candidate[c].team \in OrgTeam /\ reviewOrganizationExperienceCandidate(u, candidate[c].team, c, decision, k)
-----------------------------------------------------------------------------
RvSubmissions ==
    \E u \in User, s \in Submission, k \in Key :
        \/ SubmitOrganizationAgent(u, s, k) \/ WithdrawOrganizationAgentSubmission(u, s, k)
        \/ ReviewOrganizationAgentSubmission(u, s, k)
RvCandidates ==
    \E u \in User, c \in Candidate, k \in Key :
        \/ SubmitExperienceCandidate(u, c, k) \/ SubmitOrganizationExperienceCandidate(u, c, k)
        \/ ReviewExperienceCandidate(u, c, k) \/ ReviewOrganizationExperienceCandidate(u, c, k)
RvNext == RvSubmissions \/ RvCandidates
-----------------------------------------------------------------------------
(* Properties *)

\* Rows keep their types.
RvTypeOK ==
    /\ submission \in [Submission -> OrganizationSubmission \cup {NoSubmission}]
    /\ candidate \in [Candidate -> ExperienceCandidate \cup {NoCandidate}]

\* validOrganizationSubmissionState: every read of a submission refuses the row
\* unless its status, revision, review and published version fit together.
validOrganizationSubmissionState(x) ==
    CASE x.status = "pending" -> x.revision = 1 /\ x.reviewer = NoOne /\ x.ver = NoOne
      [] x.status = "approved" -> x.revision = 2 /\ x.reviewer # NoOne /\ x.ver # NoOne
      [] x.status = "rejected" -> x.revision = 2 /\ x.reviewer # NoOne /\ x.ver = NoOne
      [] OTHER -> x.revision = 2 /\ x.reviewer = NoOne /\ x.ver = NoOne

\* Whatever the order of submitting, withdrawing, rejecting and approving, every
\* stored submission stays readable by scanOrganizationAgentSubmission.
SubmissionsReadable ==
    \A s \in Submission : submission[s] # NoSubmission => validOrganizationSubmissionState(submission[s])

\* An approved submission is the one origin of one version, which follows
\* directly on the version the submitter built on.
ApprovedLineage ==
    \A s \in Submission : submission[s].status = "approved" =>
        LET v == submission[s].ver
            base == submission[s].base
        IN /\ version[v].def = submission[s].def /\ version[v].wants = submission[s].wants
           /\ version[v].number = IF base = NoOne THEN 1 ELSE version[base].number + 1

\* A submission is superseded only when its definition has really moved on.
SupersededIsStale ==
    \A s \in Submission : submission[s].status = "superseded" =>
        version[definition[submission[s].def].latest].number > version[submission[s].base].number

\* What is published was admissible under the policy in force at the approval,
\* not only under the one in force at the submission.
PublishedUnderPolicy ==
    \A s \in Submission : submission[s].status = "approved" =>
        ~IntersectOrganizationAgentPolicy(DefaultPolicyDocument, submission[s].under,
                                          submission[s].wants).blocked

\* A candidate gets one review, and it is never replaced or withdrawn.
ReviewIsFinal ==
    \A c \in Candidate : candidate[c] # NoCandidate /\ candidate[c].review # NoOne =>
        candidate'[c] = candidate[c]
=============================================================================
