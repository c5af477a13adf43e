---------------------------- MODULE AgentPolicy ----------------------------
(***************************************************************************)
(* The policy a Cloud installation is signed for: what the version's       *)
(* manifest asks for, narrowed by the platform's and the organization's    *)
(* policy documents (internal/agentcontrol/service.go).  An allowlist is   *)
(* either nil, which admits everything, or a set; the empty set is not     *)
(* nil.  A document lists providers and models apart, so it admits their   *)
(* product.                                                                *)
(***************************************************************************)
EXTENDS Naturals

CONSTANTS Provider, ModelName, Tool

Pair == Provider \X ModelName

Nil == [nil |-> TRUE, items |-> {}]
Listed(s) == [nil |-> FALSE, items |-> s]

\* What allowlists, policy documents and manifests are
Allowlist(S) == {Nil} \cup {Listed(x) : x \in SUBSET S}
PolicyDocument == [models : Allowlist(Pair), tools : Allowlist(Tool)]
ManifestDocument == [mode : STRING, providers : SUBSET Provider, models : SUBSET ModelName,
                     tools : SUBSET Tool]

\* modelPairAllowed
modelPairAllowed(p, list) == list.nil \/ p \in list.items

\* intersectOrganizationModelAllowlists and IntersectStringAllowlists: nil is
\* neutral, and only nil with nil stays nil.
intersectAllowlists(left, right) ==
    IF left.nil /\ right.nil THEN Nil
    ELSE Listed({p \in (IF left.nil THEN right.items ELSE left.items) :
                    modelPairAllowed(p, left) /\ modelPairAllowed(p, right)})

\* DefaultPolicyDocument: the platform restricts neither models nor tools.
DefaultPolicyDocument == [models |-> Nil, tools |-> Nil]

Blocked == [blocked |-> TRUE]

\* IntersectOrganizationAgentPolicy: wants is the version's manifest, a mode
\* with the providers, models and tools it names.
IntersectOrganizationAgentPolicy(platform, organization, wants) ==
    LET both == intersectAllowlists(platform.models, organization.models)
        free == wants.mode = "user_select"
        pairs == IF free THEN both.items
                 ELSE {p \in wants.providers \X wants.models :
                          /\ modelPairAllowed(p, platform.models)
                          /\ modelPairAllowed(p, organization.models)}
        open == free /\ both.nil
        tools == {t \in wants.tools : /\ modelPairAllowed(t, platform.tools)
                                      /\ modelPairAllowed(t, organization.tools)}
    IN IF (~open /\ pairs = {}) \/ (wants.tools # {} /\ tools = {}) THEN Blocked
       ELSE [blocked |-> FALSE, mode |-> IF free /\ ~open THEN "allowlist" ELSE wants.mode,
             providers |-> {p[1] : p \in pairs}, models |-> {p[2] : p \in pairs},
             tools |-> tools, pairs |-> pairs]

\* policyDocumentForOrganizationVersion: a product that is not covered by the
\* admitted pairs cannot be written down and blocks the installation.
policyDocumentForOrganizationVersion(effective) ==
    IF effective.blocked \/ (effective.providers \X effective.models) \subseteq effective.pairs
    THEN effective ELSE Blocked

\* effectiveOrganizationAgentPolicyForVersion, then the signed document
OrganizationDocument(organization, wants) ==
    policyDocumentForOrganizationVersion(
        IntersectOrganizationAgentPolicy(DefaultPolicyDocument, organization, wants))

\* policyDocumentForVersion: without an organization the manifest is the policy.
VersionDocument(wants) ==
    [blocked |-> FALSE, mode |-> wants.mode, providers |-> wants.providers,
     models |-> wants.models, tools |-> wants.tools,
     pairs |-> wants.providers \X wants.models]

\* What a document lets the runtime use
Admitted(doc) == IF doc.mode = "user_select" THEN Pair ELSE doc.providers \X doc.models
=============================================================================
