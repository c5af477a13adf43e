------------------------------ MODULE MCAgents ------------------------------
(***************************************************************************)
(* Small instances of Agents.  The official catalogue shares no row with   *)
(* the others, so a behaviour works on one side only; a scope further      *)
(* limits what a behaviour does, and one run covers all scopes.            *)
(***************************************************************************)
EXTENDS Agents, TLC

CONSTANTS u1, u2, ws, org, p1, p2, mA, mB, t1, dev, sup, op, h1,
          v1, v2, v3, i1, i2, d1, d2, s1, s2, s3, k1, k2, k3, ov1, ov2, q1, q2, ok1, ok2,
          Scopes  \* the scopes of a run

MCOwner == [t \in {ws, org} |-> u1]
MCManifest == {[mode |-> "user_select", providers |-> {}, models |-> {}, tools |-> {}],
               [mode |-> "allowlist", providers |-> {p1, p2}, models |-> {mA, mB}, tools |-> {t1}]}
MCOrgPolicy == {DefaultPolicyDocument,
                [models |-> Listed({<<p1, mA>>, <<p2, mB>>}), tools |-> Nil],
                [models |-> Listed({<<p1, mA>>, <<p1, mB>>}), tools |-> Listed({t1})],
                [models |-> Nil, tools |-> Listed({})]}
MCAdminRole == (dev :> "developer") @@ (sup :> "super_admin") @@ (op :> "operator")
MCBucket == h1 :> 0
MCDesktop == h1 :> 1
MCRollout == {0, 1}
MCMinimum == {1, 2}

VersionOrder == <<v1, v2, v3>>

VARIABLE scope

\* The scopes in which a part of the system moves
Moves == [publish |-> {"personal", "racing", "publishing", "workspace", "candidates"},
          install |-> {"personal", "racing", "workspace", "candidates", "organization", "policies"},
          people |-> {"publishing", "workspace", "submissions", "candidates"},
          policies |-> {"policies"},
          submissions |-> {"submissions", "policies", "organization"},
          candidates |-> {"candidates", "organization"},
          catalog |-> {"drafting", "releasing", "installing"},
          release |-> {"releasing", "installing"},
          device |-> {"installing"}]

MCInit == AgentsInit /\ scope \in Scopes
MCSteps == \/ scope \in Moves.publish /\ AcPublish /\ UNCHANGED <<submission, candidate, offVars, scope>>
           \/ scope \in Moves.install /\ AcInstall /\ UNCHANGED <<submission, candidate, offVars, scope>>
           \/ scope \in Moves.people /\ AcPeople /\ UNCHANGED <<submission, candidate, offVars, scope>>
           \/ scope \in Moves.policies /\ AcPolicies /\ UNCHANGED <<submission, candidate, offVars, scope>>
           \/ scope \in Moves.submissions /\ RvSubmissions /\ UNCHANGED <<offVars, scope>>
           \/ scope \in Moves.candidates /\ RvCandidates /\ UNCHANGED <<offVars, scope>>
           \/ scope \in Moves.catalog /\ CatalogNext /\ UNCHANGED <<rvVars, scope>>
           \/ scope \in Moves.release /\ ReleaseNext /\ UNCHANGED <<rvVars, scope>>
           \/ scope \in Moves.device /\ DeviceNext /\ UNCHANGED <<rvVars, scope>>
-----------------------------------------------------------------------------
\* Identifiers are fresh: those of a kind are used in one order.
Ordered == /\ \A n \in 2..3 : version[VersionOrder[n]] # NoVersion => version[VersionOrder[n - 1]] # NoVersion
           /\ installation[i2] # NoInstall => installation[i1] # NoInstall
           /\ definition[d2] # NoDefinition => definition[d1] # NoDefinition
           /\ submission[s2] # NoSubmission => submission[s1] # NoSubmission
           /\ submission[s3] # NoSubmission => submission[s2] # NoSubmission
           /\ \A r \in acRecord : /\ r.key = k2 => \E q \in acRecord : q.key = k1 /\ q.op = r.op
                                 /\ r.key = k3 => \E q \in acRecord : q.key = k2 /\ q.op = r.op
           /\ offVersion[ov2] # NoOffVersion => offVersion[ov1] # NoOffVersion
           /\ platformSubmission[q2] # NoPlatformSubmission => platformSubmission[q1] # NoPlatformSubmission
           /\ \A r \in offRecord : r.key = ok2 => \E q \in offRecord : q.key = ok1 /\ q.op = r.op

Alone(t) == \A x \in Team \ {t} : acRole[x][u2] = "none"
AllOpen == acOpen = Team
AllActive == acActive = User
SamePolicy == \A o \in OrgTeam : acPolicy[o] = DefaultPolicyDocument
OwnedBy(t) == \A d \in Definition : definition[d].owner \in {NoOne, t}
ByMember == \A i \in Install : installation[i].user # u1
Simple == \A v \in Version : version[v] = NoVersion \/ version[v].wants.mode = "user_select"
Versions(n) == Cardinality({v \in Version : version[v] # NoVersion}) <= n
Installs(n) == Cardinality({i \in Install : installation[i] # NoInstall}) <= n
Definitions(n) == Cardinality({d \in Definition : definition[d] # NoDefinition}) <= n
Calls(n) == Cardinality({c \in Slot : acCall[c] # NoCall}) <= n
NoneSubmitted == \A s \in Submission : submission[s] = NoSubmission
NoCandidates == \A c \in Candidate : candidate[c] = NoCandidate
Straight == /\ \A s \in PlatformSubmission : platformSubmission[s].status \in {"none", "pending", "approved"}
            /\ \A d \in OffDefinition : draft[d].revision <= 2
Revisions(n) == \A r \in Releases : Len(release[r]) <= n
FewKeys == \A x \in offRecord : x.key = ok2 => x.op \in {"review", "submit"}
Plain == \A r \in Releases : \A n \in DOMAIN release[r] :
            release[r][n].minimum = 1 /\ release[r][n].allowed = {}

InScope == Ordered /\ (scope # "submissions" => \A r \in acRecord : r.key # k3) /\
    CASE scope = "personal" ->
           /\ AllOpen /\ AllActive /\ SamePolicy /\ OwnedBy(u1) /\ Alone(NoOne) /\ Simple
           /\ NoneSubmitted /\ NoCandidates /\ Versions(2) /\ Installs(1) /\ Definitions(1)
           /\ Calls(1) /\ Cardinality(revoked) + Cardinality(binding) <= 1
      [] scope = "racing" ->
           /\ OwnedBy(u1) /\ Alone(NoOne) /\ Simple /\ Versions(1) /\ Definitions(1)
           /\ binding = {} /\ installation[i2].status \in {"none", "pending"}
      [] scope = "publishing" ->
           /\ SamePolicy /\ Simple /\ NoneSubmitted /\ NoCandidates /\ Installs(0) /\ Calls(0)
           /\ Alone(ws) /\ acActive \in {User, {u2}}
      [] scope = "workspace" ->
           /\ SamePolicy /\ OwnedBy(ws) /\ Alone(ws) /\ Simple /\ NoneSubmitted /\ NoCandidates
           /\ Versions(2) /\ Installs(1) /\ Definitions(1) /\ Calls(1) /\ AllActive
           /\ binding = {} /\ ByMember
      [] scope = "candidates" ->
           /\ AllOpen /\ SamePolicy /\ OwnedBy(ws) /\ Simple /\ Versions(1) /\ Installs(1)
           /\ Definitions(1) /\ AllActive /\ Calls(1) /\ NoneSubmitted /\ acRole[org][u2] = "none"
           /\ binding = {} /\ ByMember /\ \A i \in Install : Len(snapshot[i]) <= 1
      [] scope = "organization" ->
           /\ AllOpen /\ SamePolicy /\ OwnedBy(org) /\ Simple /\ Versions(1) /\ Installs(1)
           /\ Definitions(1) /\ AllActive /\ Calls(1) /\ acRole[ws][u2] = "none"
           /\ binding = {} /\ ByMember /\ \A i \in Install : Len(snapshot[i]) <= 1 /\ submission[s2] = NoSubmission
           /\ \A s \in Submission : submission[s].status \in {"none", "pending", "approved"}
      [] scope = "submissions" ->
           /\ OwnedBy(org) /\ Alone(org) /\ NoCandidates /\ Installs(0) /\ Definitions(1) /\ AllOpen
           /\ Calls(0) /\ SamePolicy /\ Simple /\ AllActive /\ acRole[org][u2] \in {"admin", "member"}
           /\ \A s \in Submission : submission[s] = NoSubmission \/ submission[s].def = d1
      [] scope = "policies" ->
           /\ AllOpen /\ AllActive /\ OwnedBy(org) /\ Alone(org) /\ Installs(1) /\ Definitions(1) /\ Versions(1)
           /\ Calls(1) /\ acRole[org][u2] = "admin" /\ NoCandidates /\ binding = {} /\ submission[s2] = NoSubmission
           /\ \A s \in Submission : submission[s].status \in {"none", "pending", "approved"}
           /\ ByMember /\ (\A i \in Install : installation[i].status # "archived") /\ \A r \in acRecord : r.key = k1
      [] scope = "drafting" -> Alone(NoOne)
      [] scope = "releasing" -> Alone(NoOne) /\ Straight /\ permitted = Channel /\ Plain
      [] scope = "installing" -> Alone(NoOne) /\ Straight /\ permitted = Channel /\ Revisions(3) /\ FewKeys
           /\ Cardinality(delivery) <= 1 /\ \A d \in OffDefinition : draft[d].revision > 1 => draft[d].base # Nobody

\* A step that stays within the scope's bounds
MCNext == MCSteps /\ InScope'
=============================================================================
