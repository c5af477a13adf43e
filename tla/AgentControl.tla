---------------------------- MODULE AgentControl ---------------------------
(***************************************************************************)
(* Agent definitions, versions and installations (internal/agentcontrol,   *)
(* repository.go and service.go) outside the official catalogue.           *)
(*                                                                         *)
(* A principal is a user on the user's own device.  A definition belongs   *)
(* to a user, a workspace or an organization.  An installation belongs to  *)
(* a user's device, selects one version, and carries a growing list of     *)
(* signed policies.                                                        *)
(*                                                                         *)
(* One action is one transaction.  Two operations take two steps, because  *)
(* they read without a lock and write later: the check that a user's own   *)
(* version is not revoked, and the activation context.                     *)
(***************************************************************************)
EXTENDS AgentPolicy, Sequences, FiniteSets

CONSTANTS User, WsTeam, OrgTeam, Definition, Version, Install, Key, Slot,
          Profile,     \* runtime profiles of a device
          Manifest,    \* what versions may ask for
          OrgPolicy,   \* the policies organizations may publish
          Owner,       \* Owner[t]: the owner of team t
          NoOne,       \* "nothing here"
          MaxPolicies  \* bound: signed policies of one installation

Team == WsTeam \cup OrgTeam

ASSUME AgentParameters ==
    /\ Manifest \subseteq ManifestDocument /\ OrgPolicy \subseteq PolicyDocument
    /\ Owner \in [Team -> User] /\ MaxPolicies \in Nat
    /\ User \cap Team = {} /\ WsTeam \cap OrgTeam = {}
    /\ NoOne \notin User \cup Team \cup Definition \cup Version

\* The request that made a row, by its Idempotency-Key
Made(owner, op, k) == [owner |-> owner, op |-> op, key |-> k]
NotMade == Made(NoOne, "none", NoOne)

NoDefinition == [owner |-> NoOne, latest |-> NoOne]
NoVersion == [def |-> NoOne, number |-> 0, wants |-> NoOne, made |-> NotMade]
NoInstall == [status |-> "none", user |-> NoOne, ver |-> NoOne, profile |-> NoOne, made |-> NotMade]
NoCall == [op |-> "none"]

VARIABLES
    acActive,      \* users whose account, personal space and device are active
    acOpen,        \* teams that are active
    acRole,        \* acRole[t][u]: the membership's role, or "none"
    acPolicy,      \* acPolicy[o]: the organization's current policy
    definition, version, revoked,
    installation,  \* rows of installations
    snapshot,      \* snapshot[i]: policy_snapshots of i, in order of policy_version
    evidence,      \* evidence[i]: the audit event of i's activation
    binding,       \* rows of runtime_binding_records
    acRecord,      \* agent_control_idempotency_keys
    acCall         \* operations between their unlocked read and their write

\* Rows of these tables
Policies == OrgPolicy \cup {DefaultPolicyDocument}
DefinitionRow == [owner : User \cup Team, latest : Version]
InstallRow == [status : {"pending", "active", "archived"}, user : User, ver : Version,
               profile : Profile \cup {NoOne}, made : [owner : User, op : {"install"}, key : Key]]
Snapshot == [ver : Version, under : Policies,
             doc : {OrganizationDocument(p, m) : p \in Policies, m \in Manifest}
                   \cup {VersionDocument(m) : m \in Manifest}]
Call == {NoCall}
        \cup [op : {"install"}, user : User, ver : Version, key : Key, saw : SUBSET Version]
        \cup [op : {"activate"}, inst : Install, profile : Profile, ver : Version, policy : Nat]
        \cup [op : {"select"}, inst : Install, ver : Version, saw : SUBSET Version]

catalogue == <<definition, version, revoked>>
installs == <<installation, snapshot, evidence, binding>>
people == <<acActive, acOpen, acRole, acPolicy>>
acVars == <<people, catalogue, installs, acRecord, acCall>>

AcInit ==
    /\ acActive = User /\ acOpen = Team
    /\ acRole \in [Team -> [User -> {"owner", "admin", "auditor", "member", "none"}]]
    /\ \A t \in Team, u \in User : /\ (acRole[t][u] = "owner") = (u = Owner[t])
                                   /\ acRole[t][u] = "auditor" => t \in OrgTeam
    /\ acPolicy = [o \in OrgTeam |-> DefaultPolicyDocument]
    /\ definition = [d \in Definition |-> NoDefinition]
    /\ version = [v \in Version |-> NoVersion]
    /\ revoked = {}
    /\ installation = [i \in Install |-> NoInstall]
    /\ snapshot = [i \in Install |-> <<>>]
    /\ evidence = [i \in Install |-> NoOne]
    /\ binding = {} /\ acRecord = {}
    /\ acCall = [c \in Slot |-> NoCall]
-----------------------------------------------------------------------------
(* Access *)

\* requireWorkspaceAgentAccess: every mode needs the actor, the actor's device,
\* the workspace and its owner active; publish and review need owner or admin.
requireWorkspaceAgentAccess(u, w, mode) ==
    /\ {u, Owner[w]} \subseteq acActive /\ w \in acOpen
    /\ acRole[w][u] \in IF mode \in {"publish", "review"} THEN {"owner", "admin"}
                        ELSE {"owner", "admin", "member"}

\* organizationRoleAllows
organizationRoleAllows(role, mode) ==
    role \in CASE mode = "read" -> {"owner", "admin", "auditor", "member"}
               [] mode = "review_read" -> {"owner", "admin", "auditor"}
               [] mode \in {"publish", "review"} -> {"owner", "admin"}
               [] mode = "install" -> {"owner", "admin", "member"}

\* requireOrganizationAgentAccess: an archived organization can only be read.
requireOrganizationAgentAccess(u, o, mode) ==
    /\ u \in acActive /\ (o \in acOpen \/ mode \in {"read", "review_read"})
    /\ organizationRoleAllows(acRole[o][u], mode)

\* lockAndReadIdempotency: no earlier request holds the key.  A request that
\* finds its key returns the recorded rows and changes nothing.
lockAndReadIdempotency(owner, op, k) == Made(owner, op, k) \notin acRecord
insertIdempotency(owner, op, k) == acRecord' = acRecord \cup {Made(owner, op, k)}

OwnerOf(v) == definition[version[v].def].owner
Unlocked(i) == \A c \in Slot : ~(acCall[c].op = "select" /\ acCall[c].inst = i)
-----------------------------------------------------------------------------
(* Publication *)

\* insertVersion and insertWorkspaceVersion, with the definition's new head
insertVersion(v, d, owner, n, wants, op, k) ==
    /\ version[v] = NoVersion
    /\ version' = [version EXCEPT ![v] = [def |-> d, number |-> n, wants |-> wants,
                                          made |-> Made(owner, op, k)]]
    /\ definition' = [definition EXCEPT ![d] = [owner |-> owner, latest |-> v]]
    /\ insertIdempotency(owner, op, k)
    /\ UNCHANGED <<people, revoked, installs, acCall>>

publishFirst(owner, d, v, wants, k) ==
    /\ lockAndReadIdempotency(owner, "initial", k)
    /\ definition[d] = NoDefinition
    /\ insertVersion(v, d, owner, 1, wants, "initial", k)

\* A mutant: the base version of the request is not compared with the head.
publishAnyBase(owner, d, base, v, wants, k) ==
    /\ lockAndReadIdempotency(owner, "next", k)
    /\ definition[d].owner = owner
    /\ insertVersion(v, d, owner, version[base].number + 1, wants, "next", k)

publishSecond(owner, d, base, v, wants, k) ==
    /\ lockAndReadIdempotency(owner, "next", k)
    /\ definition[d].owner = owner /\ definition[d].latest = base
    /\ insertVersion(v, d, owner, version[base].number + 1, wants, "next", k)

PublishInitial(u, d, v, wants, k) ==
    u \in acActive /\ publishFirst(u, d, v, wants, k)
PublishNext(u, d, base, v, wants, k) ==
    publishSecond(u, d, base, v, wants, k)
PublishWorkspaceInitial(u, w, d, v, wants, k) ==
    requireWorkspaceAgentAccess(u, w, "publish") /\ publishFirst(w, d, v, wants, k)
PublishWorkspaceNext(u, w, d, base, v, wants, k) ==
    requireWorkspaceAgentAccess(u, w, "publish") /\ publishSecond(w, d, base, v, wants, k)

\* The base version of a request is one its author could have read.
publishInitial(u) ==
    \E d \in Definition, v \in Version, wants \in Manifest, k \in Key :
        \/ PublishInitial(u, d, v, wants, k)
        \/ \E w \in WsTeam : PublishWorkspaceInitial(u, w, d, v, wants, k)
publishNext(u) ==
    \E d \in Definition, v \in Version, wants \in Manifest, k \in Key :
        \E base \in {b \in Version : version[b].def = d} :
            \/ PublishNext(u, d, base, v, wants, k)
            \/ \E w \in WsTeam : PublishWorkspaceNext(u, w, d, base, v, wants, k)
-----------------------------------------------------------------------------
(* Installations *)

\* The signed document of version v for a user, or a blocked one
PolicyFor(v) ==
    IF OwnerOf(v) \in OrgTeam THEN OrganizationDocument(acPolicy[OwnerOf(v)], version[v].wants)
    ELSE VersionDocument(version[v].wants)

\* insertPolicy: the next signed policy of installation i.  The policy the
\* organization had is kept beside it, to compare with later.
insertPolicy(i, v) ==
    /\ Len(snapshot[i]) < MaxPolicies
    /\ ~PolicyFor(v).blocked
    /\ snapshot' = [snapshot EXCEPT ![i] = Append(@,
           [ver |-> v, doc |-> PolicyFor(v),
            under |-> IF OwnerOf(v) \in OrgTeam THEN acPolicy[OwnerOf(v)]
                      ELSE DefaultPolicyDocument])]

\* versionIsRevoked: only versions that a user owns can be revoked.
versionIsRevoked(v) == v \in revoked

\* Access to the source of version v, for an installation or a selection
SourceAccess(u, v) ==
    /\ version[v] # NoVersion
    /\ CASE OwnerOf(v) \in WsTeam -> requireWorkspaceAgentAccess(u, OwnerOf(v), "install")
         [] OwnerOf(v) \in OrgTeam -> requireOrganizationAgentAccess(u, OwnerOf(v), "install")
         [] OTHER -> OwnerOf(v) = u

InsertPending(u, i, v, k) ==
    /\ installation[i] = NoInstall
    /\ installation' = [installation EXCEPT ![i] =
           [status |-> "pending", user |-> u, ver |-> v, profile |-> NoOne,
            made |-> Made(u, "install", k)]]
    /\ insertPolicy(i, v)
    /\ insertIdempotency(u, "install", k)
    /\ UNCHANGED <<people, catalogue, evidence, binding>>

\* The key's advisory lock is held from the check to the commit.
KeyFree(u, k) == \A c \in Slot : ~(acCall[c].op = "install" /\ acCall[c].user = u /\ acCall[c].key = k)

\* CreatePendingInstallation of a team's version: one transaction that holds
\* the team's row.
CreateFromTeam(u, i, v, k) ==
    /\ SourceAccess(u, v) /\ OwnerOf(v) \in Team
    /\ lockAndReadIdempotency(u, "install", k) /\ KeyFree(u, k)
    /\ u \in acActive
    /\ InsertPending(u, i, v, k)
    /\ UNCHANGED acCall

\* A mutant: an installation of the user's own version skips the check.
CreateOwnUnchecked(c, u, v, k) ==
    /\ acCall[c] = NoCall
    /\ SourceAccess(u, v) /\ OwnerOf(v) = u
    /\ lockAndReadIdempotency(u, "install", k) /\ KeyFree(u, k)
    /\ u \in acActive
    /\ acCall' = [acCall EXCEPT ![c] = [op |-> "install", user |-> u, ver |-> v, key |-> k, saw |-> revoked]]
    /\ UNCHANGED <<people, catalogue, installs, acRecord>>

\* CreatePendingInstallation of the user's own version: nothing locks out a
\* revocation between the check and the insert.
CreateOwn(c, u, v, k) ==
    /\ acCall[c] = NoCall
    /\ SourceAccess(u, v) /\ OwnerOf(v) = u
    /\ lockAndReadIdempotency(u, "install", k) /\ KeyFree(u, k)
    /\ u \in acActive /\ ~versionIsRevoked(v)
    /\ acCall' = [acCall EXCEPT ![c] = [op |-> "install", user |-> u, ver |-> v, key |-> k, saw |-> revoked]]
    /\ UNCHANGED <<people, catalogue, installs, acRecord>>

CreateOwnInserts(c, i) ==
    /\ acCall[c].op = "install"
    /\ InsertPending(acCall[c].user, i, acCall[c].ver, acCall[c].key)
    /\ acCall' = [acCall EXCEPT ![c] = NoCall]

CreateInstallation(u) ==
    \E v \in Version, k \in Key :
        \/ \E i \in Install : CreateFromTeam(u, i, v, k)
        \/ \E c \in Slot : CreateOwn(c, u, v, k)

\* LoadActivationContext: the service reads the installation and its version
\* without a lock; the request names the version's digest.
LoadActivationContext(c, u, i, p) ==
    /\ acCall[c] = NoCall
    /\ installation[i].user = u /\ u \in acActive
    /\ acCall' = [acCall EXCEPT ![c] = [op |-> "activate", inst |-> i, profile |-> p,
                                        ver |-> installation[i].ver, policy |-> Len(snapshot[i])]]
    /\ UNCHANGED <<people, catalogue, installs, acRecord>>

\* ActivateInstallation: locks the row.  A pending row becomes active; an
\* active one only answers a repeat of its activation; an archived one refuses.
ActivateInstallation(c, i) ==
    LET call == acCall[c] IN
    /\ call.op = "activate" /\ call.inst = i /\ Unlocked(i)
    /\ IF /\ installation[i].status = "pending"
          /\ installation[i].ver = call.ver /\ Len(snapshot[i]) = call.policy
       THEN /\ installation' = [installation EXCEPT ![i].status = "active", ![i].profile = call.profile]
            /\ evidence' = [evidence EXCEPT ![i] = [ver |-> call.ver, policy |-> call.policy]]
       ELSE UNCHANGED <<installation, evidence>>
    /\ acCall' = [acCall EXCEPT ![c] = NoCall]
    /\ UNCHANGED <<people, catalogue, snapshot, binding, acRecord>>

\* A mutant: the new policy is signed for the version that is left.
SelectKeepingPolicy(u, i, v) ==
    /\ installation[i].user = u /\ installation[i].status = "active" /\ Unlocked(i)
    /\ version[v] # NoVersion /\ version[v].def = version[installation[i].ver].def
    /\ SourceAccess(u, v) /\ OwnerOf(v) \in Team
    /\ insertPolicy(i, installation[i].ver)
    /\ installation' = [installation EXCEPT ![i].ver = v]
    /\ UNCHANGED <<people, catalogue, evidence, binding, acRecord, acCall>>

\* SelectInstallationVersion, when the definition is a team's
SelectFromTeam(u, i, v) ==
    /\ installation[i].user = u /\ installation[i].status = "active" /\ Unlocked(i)
    /\ version[v] # NoVersion /\ version[v].def = version[installation[i].ver].def
    /\ SourceAccess(u, v) /\ OwnerOf(v) \in Team
    /\ insertPolicy(i, v)
    /\ installation' = [installation EXCEPT ![i].ver = v]
    /\ UNCHANGED <<people, catalogue, evidence, binding, acRecord, acCall>>

\* ... and when it is the user's own: the row of the installation stays locked
\* between the check and the update.
SelectOwn(c, u, i, v) ==
    /\ acCall[c] = NoCall
    /\ installation[i].user = u /\ installation[i].status = "active" /\ Unlocked(i)
    /\ version[v] # NoVersion /\ version[v].def = version[installation[i].ver].def
    /\ OwnerOf(v) = u /\ ~versionIsRevoked(v)
    /\ acCall' = [acCall EXCEPT ![c] = [op |-> "select", inst |-> i, ver |-> v, saw |-> revoked]]
    /\ UNCHANGED <<people, catalogue, installs, acRecord>>

SelectOwnUpdates(c, i) ==
    /\ acCall[c].op = "select" /\ acCall[c].inst = i
    /\ insertPolicy(i, acCall[c].ver)
    /\ installation' = [installation EXCEPT ![i].ver = acCall[c].ver]
    /\ acCall' = [acCall EXCEPT ![c] = NoCall]
    /\ UNCHANGED <<people, catalogue, evidence, binding, acRecord>>

SelectInstallationVersion(u) ==
    \E i \in Install, v \in Version :
        \/ SelectFromTeam(u, i, v)
        \/ \E c \in Slot : SelectOwn(c, u, i, v)

\* ArchiveInstallation: archiving an archived row changes nothing.
ArchiveInstallation(u, i) ==
    /\ installation[i].user = u /\ Unlocked(i)
    /\ installation[i].status \in {"pending", "active"}
    /\ installation' = [installation EXCEPT ![i].status = "archived"]
    /\ UNCHANGED <<people, catalogue, snapshot, evidence, binding, acRecord, acCall>>

\* What a device may report: a version and a policy it has once been given
Reports(i) == {[inst |-> i, ver |-> snapshot[i][a].ver, policy |-> b, profile |-> p] :
                  a \in DOMAIN snapshot[i], b \in DOMAIN snapshot[i], p \in Profile}

\* InsertRuntimeBinding
InsertRuntimeBinding(u, i, r) ==
    /\ installation[i].user = u /\ installation[i].status = "active" /\ Unlocked(i)
    /\ r.profile = installation[i].profile /\ r.ver = installation[i].ver
    /\ r.policy = Len(snapshot[i])
    /\ binding' = binding \cup {r}
    /\ UNCHANGED <<people, catalogue, installation, snapshot, evidence, acRecord, acCall>>

RecordRuntimeBinding(u) ==
    \E i \in Install : \E r \in Reports(i) : InsertRuntimeBinding(u, i, r)

\* AppendVersionRevocation: the request names a policy snapshot of the user.
AppendVersionRevocation(u, v, k) ==
    /\ lockAndReadIdempotency(u, "revoke", k)
    /\ version[v] # NoVersion /\ OwnerOf(v) = u /\ v \notin revoked
    /\ \E i \in Install : installation[i].user = u /\ snapshot[i] # <<>>
    /\ revoked' = revoked \cup {v}
    /\ insertIdempotency(u, "revoke", k)
    /\ UNCHANGED <<people, definition, version, installs, acCall>>
-----------------------------------------------------------------------------
(* Reads *)

DefinitionsOf(owner) == {d \in Definition : definition[d].owner = owner}
VersionsOf(owner, d) == {v \in Version : definition[d].owner = owner /\ version[v].def = d}

ListDefinitions(u) == DefinitionsOf(u)
ListWorkspaceDefinitions(u, w) ==
    {d \in DefinitionsOf(w) : requireWorkspaceAgentAccess(u, w, "read")}
ListOrganizationDefinitions(u, o) ==
    {d \in DefinitionsOf(o) : requireOrganizationAgentAccess(u, o, "read")}
FindDefinition(u, d) == definition[d].owner = u
FindWorkspaceDefinition(u, w, d) ==
    requireWorkspaceAgentAccess(u, w, "read") /\ definition[d].owner = w
FindOrganizationDefinition(u, o, d) ==
    requireOrganizationAgentAccess(u, o, "read") /\ definition[d].owner = o
ListVersions(u, d) == VersionsOf(u, d)
ListWorkspaceVersions(u, w, d) ==
    {v \in VersionsOf(w, d) : requireWorkspaceAgentAccess(u, w, "read")}
ListOrganizationVersions(u, o, d) ==
    {v \in VersionsOf(o, d) : requireOrganizationAgentAccess(u, o, "read")}

\* A mutant: an archived workspace and one whose owner left are not looked at.
FindVersionOfMember(u, v) ==
    /\ version[v] # NoVersion
    /\ CASE OwnerOf(v) \in WsTeam -> acRole[OwnerOf(v)][u] # "none"
         [] OwnerOf(v) \in OrgTeam -> requireOrganizationAgentAccess(u, OwnerOf(v), "read")
         [] OTHER -> OwnerOf(v) = u

\* FindVersion: a query of its own, that looks at the workspace, its owner and
\* the membership, and for an organization at the access to read.
FindVersion(u, v) ==
    /\ version[v] # NoVersion
    /\ CASE OwnerOf(v) \in WsTeam -> /\ acRole[OwnerOf(v)][u] # "none"
                                     /\ OwnerOf(v) \in acOpen /\ Owner[OwnerOf(v)] \in acActive
         [] OwnerOf(v) \in OrgTeam -> requireOrganizationAgentAccess(u, OwnerOf(v), "read")
         [] OTHER -> OwnerOf(v) = u

\* FindPolicySnapshot and FindInstallation: the owner's, in every state
FindPolicySnapshot(u, i) == IF installation[i].user = u THEN DOMAIN snapshot[i] ELSE {}
FindInstallation(u, i) == installation[i].user = u
-----------------------------------------------------------------------------
(* What the account, workspace and organization components do meanwhile *)
PrincipalChanges(u) ==
    /\ acActive' = IF u \in acActive THEN acActive \ {u} ELSE acActive \cup {u}
    /\ UNCHANGED <<acOpen, acRole, acPolicy, catalogue, installs, acRecord, acCall>>
TeamChanges(t) ==
    /\ acOpen' = IF t \in acOpen THEN acOpen \ {t} ELSE acOpen \cup {t}
    /\ UNCHANGED <<acActive, acRole, acPolicy, catalogue, installs, acRecord, acCall>>
RoleChanges(t, u, r) ==
    /\ u # Owner[t] /\ t \in acOpen /\ r # acRole[t][u]
    /\ r = "auditor" => t \in OrgTeam
    /\ acRole' = [acRole EXCEPT ![t][u] = r]
    /\ UNCHANGED <<acActive, acOpen, acPolicy, catalogue, installs, acRecord, acCall>>
PolicyChanges(o, p) ==
    /\ o \in acOpen /\ p # acPolicy[o]
    /\ acPolicy' = [acPolicy EXCEPT ![o] = p]
    /\ UNCHANGED <<acActive, acOpen, acRole, catalogue, installs, acRecord, acCall>>

AcPublish == \E u \in User : publishInitial(u) \/ publishNext(u)
AcInstall ==
    \/ \E u \in User : \/ CreateInstallation(u) \/ SelectInstallationVersion(u)
                       \/ RecordRuntimeBinding(u)
    \/ \E u \in User, i \in Install : ArchiveInstallation(u, i)
    \/ \E u \in User, i \in Install, p \in Profile, c \in Slot : LoadActivationContext(c, u, i, p)
    \/ \E c \in Slot, i \in Install : \/ CreateOwnInserts(c, i) \/ SelectOwnUpdates(c, i)
                                      \/ ActivateInstallation(c, i)
    \/ \E u \in User, v \in Version, k \in Key : AppendVersionRevocation(u, v, k)
AcPeople ==
    \/ \E u \in User : PrincipalChanges(u)
    \/ \E t \in Team : TeamChanges(t)
    \/ \E t \in Team, u \in User, r \in {"admin", "auditor", "member", "none"} : RoleChanges(t, u, r)
AcPolicies == \E o \in OrgTeam, p \in OrgPolicy : PolicyChanges(o, p)
AcNext == AcPublish \/ AcInstall \/ AcPeople \/ AcPolicies
-----------------------------------------------------------------------------
(* Properties *)

\* Rows keep their types, and a workspace has no auditor.
AcTypeOK ==
    /\ acActive \subseteq User /\ acOpen \subseteq Team
    /\ acRole \in [Team -> [User -> {"owner", "admin", "auditor", "member", "none"}]]
    /\ \A w \in WsTeam, u \in User : acRole[w][u] # "auditor"
    /\ acPolicy \in [OrgTeam -> Policies]
    /\ definition \in [Definition -> DefinitionRow \cup {NoDefinition}]
    /\ DOMAIN version = Version
    /\ \A v \in Version : version[v] # NoVersion =>
          version[v].def \in Definition /\ version[v].number \in Nat /\ version[v].wants \in Manifest
    /\ revoked \subseteq Version
    /\ installation \in [Install -> InstallRow \cup {NoInstall}]
    /\ snapshot \in [Install -> Seq(Snapshot)]
    /\ evidence \in [Install -> [ver : Version, policy : Nat] \cup {NoOne}]
    /\ binding \subseteq [inst : Install, ver : Version, policy : Nat, profile : Profile]
    /\ acCall \in [Slot -> Call]

\* The versions of a definition are numbered 1, 2, ... without a gap or a
\* repeat, and the definition's head is the last one, whoever publishes at the
\* same time and from whichever base.
VersionsInOrder ==
    \A d \in Definition :
        LET of == {v \in Version : version[v].def = d}
        IN of # {} => /\ {version[v].number : v \in of} = 1..Cardinality(of)
                      /\ version[definition[d].latest].number = Cardinality(of)

\* A request that is sent twice with its Idempotency-Key makes one version or
\* one installation, also when the two copies run at the same time.
OneRowPerKey ==
    /\ \A v, w \in Version : version[v] # NoVersion /\ version[v].made = version[w].made => v = w
    /\ \A i, j \in Install :
          installation[i] # NoInstall /\ installation[i].made = installation[j].made => i = j

\* The last signed policy of an installation is the one for the version it
\* selects, and its activation was recorded for its first policy.
PolicyFollowsSelection ==
    \A i \in Install : installation[i] # NoInstall =>
        /\ snapshot[i] # <<>>
        /\ snapshot[i][Len(snapshot[i])].ver = installation[i].ver
        /\ evidence[i] # NoOne => evidence[i] = [ver |-> snapshot[i][1].ver, policy |-> 1]

\* A recorded runtime binding names a version together with the very policy
\* that was signed for that version, on the profile that was activated.
BindingsMatchPolicies ==
    \A b \in binding : /\ snapshot[b.inst][b.policy].ver = b.ver
                       /\ b.profile = installation[b.inst].profile

\* The reads agree, each made with a query of its own: a version is found by its
\* identifier exactly when a definition that the user can list and open lists
\* it, everything that can be installed can be read, and an installation can
\* read all its policies.
ReadsAgree ==
    \A u \in acActive :
        /\ \A v \in Version : version[v] # NoVersion =>
              LET d == version[v].def
                  listed == CASE OwnerOf(v) \in WsTeam ->
                                   {x \in ListWorkspaceVersions(u, OwnerOf(v), d) :
                                       d \in ListWorkspaceDefinitions(u, OwnerOf(v))}
                              [] OwnerOf(v) \in OrgTeam ->
                                   {x \in ListOrganizationVersions(u, OwnerOf(v), d) :
                                       d \in ListOrganizationDefinitions(u, OwnerOf(v))}
                              [] OTHER -> {x \in ListVersions(u, d) : d \in ListDefinitions(u)}
                  opened == CASE OwnerOf(v) \in WsTeam -> FindWorkspaceDefinition(u, OwnerOf(v), d)
                              [] OwnerOf(v) \in OrgTeam -> FindOrganizationDefinition(u, OwnerOf(v), d)
                              [] OTHER -> FindDefinition(u, d)
              IN /\ FindVersion(u, v) <=> v \in listed
                 /\ FindVersion(u, v) <=> opened
                 /\ SourceAccess(u, v) => FindVersion(u, v)
        /\ \A i \in Install : FindInstallation(u, i) =>
              Len(snapshot[i]) \in FindPolicySnapshot(u, i)

\* A signed policy admits exactly the models that both the manifest and the
\* organization's policy of that moment admit, and no tool that either leaves
\* out: a document lists providers and models apart, so it must not be
\* written when their product is larger than the admitted pairs.
SignedExactly ==
    \A i \in Install : \A n \in DOMAIN snapshot[i] :
        LET s == snapshot[i][n]
            wants == version[s.ver].wants
        IN /\ Admitted(s.doc) = {p \in Admitted(wants) : modelPairAllowed(p, s.under.models)}
           /\ s.doc.tools = {t \in wants.tools : modelPairAllowed(t, s.under.tools)}

\* A call that begins after a version was revoked never installs or selects
\* that version; only a call whose check came before the revocation may.
RevokedStaysOut ==
    \A i \in Install : Len(snapshot'[i]) > Len(snapshot[i]) =>
        LET v == installation'[i].ver
        IN v \in revoked => \E c \in Slot : /\ acCall[c].op \in {"install", "select"}
                                           /\ acCall[c].ver = v /\ v \notin acCall[c].saw

\* An archived installation is never activated, changed or bound again, also
\* not by an activation that read it before.
ArchivedIsFinal ==
    \A i \in Install : installation[i].status = "archived" =>
        /\ installation'[i] = installation[i] /\ snapshot'[i] = snapshot[i]
        /\ {b \in binding' : b.inst = i} = {b \in binding : b.inst = i}
=============================================================================
