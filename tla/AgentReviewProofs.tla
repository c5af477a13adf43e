-------------------------- MODULE AgentReviewProofs --------------------------
(***************************************************************************)
(* What TLAPS proves of the agents of users and teams and of the reviewed  *)
(* contributions to them, for every value of the constants: the inductive  *)
(* invariant RvInv and what follows from it.  For each table, a predicate  *)
(* says what a step may do to it; the invariant is then derived from these *)
(* predicates.  AgentsProofs states the theorems.                          *)
(***************************************************************************)
EXTENDS AgentReview, TLAPS

-----------------------------------------------------------------------------
(* Agents of users and teams: the inductive invariant *)

VersionsOfDef(d) == {v \in Version : version[v].def = d}

\* A definition that has versions has the last of them as its head.
VersionsFit(d) ==
    /\ IsFiniteSet(VersionsOfDef(d))
    /\ {version[v].number : v \in VersionsOfDef(d)} = 1..Cardinality(VersionsOfDef(d))
    /\ IF definition[d] = NoDefinition THEN VersionsOfDef(d) = {}
       ELSE /\ definition[d].latest \in VersionsOfDef(d)
            /\ version[definition[d].latest].number = Cardinality(VersionsOfDef(d))
            /\ \A v \in VersionsOfDef(d) : v # definition[d].latest =>
                  version[v].number < version[definition[d].latest].number

\* The key of a version is taken: by a recorded request, or by an approved submission.
KeyTaken(v) ==
    version[v] # NoVersion =>
        \/ version[v].made.op \in {"initial", "next"} /\ version[v].made \in acRecord
        \/ /\ version[v].made.op = "submission" /\ version[v].made.key \in Submission
           /\ submission[version[v].made.key].status = "approved"

InstallKeyTaken(i) == installation[i] # NoInstall => installation[i].made \in acRecord

\* A signed policy is for a version that exists, and admits what both sides admit.
SignedFits(s) ==
    /\ version[s.ver] # NoVersion
    /\ Admitted(s.doc) = {p \in Admitted(version[s.ver].wants) : modelPairAllowed(p, s.under.models)}
    /\ s.doc.tools = {t \in version[s.ver].wants.tools : modelPairAllowed(t, s.under.tools)}

InstallFits(i) ==
    /\ \A n \in DOMAIN snapshot[i] : SignedFits(snapshot[i][n])
    /\ installation[i] = NoInstall => snapshot[i] = <<>>
    /\ installation[i] # NoInstall =>
          /\ snapshot[i] # <<>> /\ snapshot[i][Len(snapshot[i])].ver = installation[i].ver
          /\ installation[i].status = "pending" => Len(snapshot[i]) = 1
    /\ evidence[i] # NoOne => snapshot[i] # <<>> /\ evidence[i] = [ver |-> snapshot[i][1].ver, policy |-> 1]

BindingFits(b) ==
    /\ installation[b.inst].status \in {"active", "archived"}
    /\ b.policy \in DOMAIN snapshot[b.inst] /\ snapshot[b.inst][b.policy].ver = b.ver
    /\ b.profile = installation[b.inst].profile

\* Calls that have checked and not yet written: the version was not revoked then,
\* the key is still free, and the selected installation is locked and active.
CallFits(c) ==
    LET call == acCall[c] IN
    /\ call.op \in {"install", "select"} => call.ver \notin call.saw /\ version[call.ver] # NoVersion
    /\ call.op = "select" => installation[call.inst].status = "active"
    /\ call.op = "install" =>
          /\ Made(call.user, "install", call.key) \notin acRecord
          /\ \A e \in Slot \ {c} :
                ~(acCall[e].op = "install" /\ acCall[e].user = call.user /\ acCall[e].key = call.key)

\* Only versions of users are revoked.
RevokedFits(v) == version[v] # NoVersion /\ OwnerOf(v) \in User

SubmissionFits(s) ==
    LET x == submission[s] IN
    x # NoSubmission =>
        /\ validOrganizationSubmissionState(x)
        /\ x.base # NoOne => /\ version[x.base] # NoVersion /\ version[x.base].def = x.def
                             /\ definition[x.def] # NoDefinition /\ definition[x.def].owner = x.org
        /\ x.status = "approved" =>
              /\ version[x.ver].def = x.def /\ version[x.ver].wants = x.wants
              /\ version[x.ver].number = IF x.base = NoOne THEN 1 ELSE version[x.base].number + 1
              /\ ~IntersectOrganizationAgentPolicy(DefaultPolicyDocument, x.under, x.wants).blocked
        /\ x.status = "superseded" =>
              /\ x.base # NoOne
              /\ version[definition[x.def].latest].number > version[x.base].number

RvInv ==
    /\ AcTypeOK /\ RvTypeOK
    /\ \A d \in Definition : VersionsFit(d)
    /\ \A v \in Version : KeyTaken(v)
    /\ \A i \in Install : InstallKeyTaken(i) /\ InstallFits(i)
    /\ OneRowPerKey
    /\ \A b \in binding : BindingFits(b)
    /\ \A c \in Slot : CallFits(c)
    /\ \A v \in revoked : RevokedFits(v)
    /\ \A s \in Submission : SubmissionFits(s)

\* The platform's policy restricts nothing, so the organization's decides.
LEMMA DefaultIsNeutral ==
    ASSUME NEW org \in PolicyDocument, NEW p
    PROVE  /\ modelPairAllowed(p, DefaultPolicyDocument.models) /\ modelPairAllowed(p, DefaultPolicyDocument.tools)
           /\ intersectAllowlists(DefaultPolicyDocument.models, org.models) = org.models
<1>1. /\ modelPairAllowed(p, DefaultPolicyDocument.models) /\ modelPairAllowed(p, DefaultPolicyDocument.tools)
  BY Zenon DEF modelPairAllowed, DefaultPolicyDocument, Nil
<1>2. CASE org.models = Nil
  <2>1. Nil.nil = TRUE /\ DefaultPolicyDocument.models = Nil
    BY Zenon DEF DefaultPolicyDocument, Nil
  <2>2. intersectAllowlists(Nil, Nil) = Nil
    BY <2>1, Zenon DEF intersectAllowlists
  <2> QED BY <1>1, <1>2, <2>1, <2>2, Zenon
<1>3. ASSUME NEW S \in SUBSET Pair, org.models = Listed(S)
      PROVE  intersectAllowlists(DefaultPolicyDocument.models, org.models) = org.models
  <2>1. {q \in S : modelPairAllowed(q, Nil) /\ modelPairAllowed(q, Listed(S))} = S
    BY Zenon DEF modelPairAllowed, Nil, Listed
  <2>2. DefaultPolicyDocument.models = Nil
    BY Zenon DEF DefaultPolicyDocument
  <2>3. Nil.nil = TRUE /\ Listed(S).nil = FALSE /\ Listed(S).items = S
    BY Zenon DEF Nil, Listed
  <2> QED BY <1>3, <2>1, <2>2, <2>3, Zenon DEF intersectAllowlists
<1> QED BY <1>1, <1>2, <1>3, Zenon DEF PolicyDocument, Allowlist

\* A document that is not blocked admits exactly what the manifest and the
\* organization's policy both admit.
LEMMA OrganizationExact ==
    ASSUME NEW org \in PolicyDocument, NEW wants \in ManifestDocument,
           ~OrganizationDocument(org, wants).blocked
    PROVE  /\ Admitted(OrganizationDocument(org, wants)) =
                 {p \in Admitted(wants) : modelPairAllowed(p, org.models)}
           /\ OrganizationDocument(org, wants).tools =
                 {t \in wants.tools : modelPairAllowed(t, org.tools)}
<1> DEFINE free == wants.mode = "user_select"
           list == org.models
           pairs == IF free THEN list.items
                    ELSE {p \in wants.providers \X wants.models : modelPairAllowed(p, list)}
           tools == {t \in wants.tools : modelPairAllowed(t, org.tools)}
           open == free /\ list.nil
           doc == [blocked |-> FALSE, mode |-> IF free /\ ~open THEN "allowlist" ELSE wants.mode,
                   providers |-> {p[1] : p \in pairs}, models |-> {p[2] : p \in pairs},
                   tools |-> tools, pairs |-> pairs]
<1>1. intersectAllowlists(DefaultPolicyDocument.models, list) = list
  BY DefaultIsNeutral, Zenon
<1>2. \A p : /\ modelPairAllowed(p, DefaultPolicyDocument.models)
             /\ modelPairAllowed(p, DefaultPolicyDocument.tools)
  BY DefaultIsNeutral, Zenon
<1>3. /\ {p \in wants.providers \X wants.models : /\ modelPairAllowed(p, DefaultPolicyDocument.models)
                                                  /\ modelPairAllowed(p, list)}
           = {p \in wants.providers \X wants.models : modelPairAllowed(p, list)}
      /\ {t \in wants.tools : /\ modelPairAllowed(t, DefaultPolicyDocument.tools)
                              /\ modelPairAllowed(t, org.tools)} = tools
  BY <1>2, Zenon
<1>4. IntersectOrganizationAgentPolicy(DefaultPolicyDocument, org, wants)
        = IF (~open /\ pairs = {}) \/ (wants.tools # {} /\ tools = {}) THEN Blocked ELSE doc
  BY <1>1, <1>3, ZenonT(40) DEF IntersectOrganizationAgentPolicy
<1>5. Blocked.blocked = TRUE /\ doc.blocked = FALSE
  BY ZenonT(40) DEF Blocked
<1>6. OrganizationDocument(org, wants) = doc /\ (doc.providers \X doc.models) \subseteq doc.pairs
  BY <1>4, <1>5, ZenonT(40) DEF OrganizationDocument, policyDocumentForOrganizationVersion
<1>7. doc.tools = tools /\ doc.providers = {p[1] : p \in pairs} /\ doc.models = {p[2] : p \in pairs}
      /\ doc.pairs = pairs /\ doc.mode = IF free /\ ~open THEN "allowlist" ELSE wants.mode
  BY Zenon
<1>8. /\ wants.providers \subseteq Provider /\ wants.models \subseteq ModelName
      /\ list = Nil \/ \E S \in SUBSET Pair : list = Listed(S)
  BY Zenon DEF ManifestDocument, PolicyDocument, Allowlist
<1>9. pairs \subseteq Pair /\ list.items \subseteq Pair
  <2>1. list.items \subseteq Pair
    <3>1. Nil.items = {} /\ \A S : Listed(S).items = S
      BY Zenon DEF Nil, Listed
    <3> QED BY <1>8, <3>1, ZenonT(40)
  <2> QED BY <2>1, <1>8, Zenon DEF Pair
<1> HIDE DEF doc
<1>10. doc.providers \X doc.models = pairs
  <2> HIDE DEF pairs
  <2>1. ASSUME NEW p \in pairs PROVE p \in doc.providers \X doc.models
    <3>1. p[1] \in doc.providers /\ p[2] \in doc.models /\ p = <<p[1], p[2]>>
      BY <1>7, <1>9 DEF Pair
    <3> QED BY <3>1, Zenon
  <2> QED BY <1>6, <1>7, <2>1, ZenonT(40)
<1>11. Admitted(doc) = {p \in Admitted(wants) : modelPairAllowed(p, list)}
  <2>1. CASE free /\ list = Nil
    BY <2>1, <1>7, SMTT(40) DEF Admitted, modelPairAllowed, Nil
  <2>2. ASSUME free, NEW S \in SUBSET Pair, list = Listed(S)
        PROVE  <1>11
    <3>1. doc.mode = "allowlist" /\ pairs = S
      BY <2>2, <1>7, SMTT(40) DEF Listed
    <3>2. Admitted(doc) = S /\ Admitted(wants) = Pair
      BY <3>1, <1>10, <2>2, Zenon DEF Admitted
    <3>3. {p \in Pair : modelPairAllowed(p, list)} = S
      BY <2>2, SMTT(40) DEF modelPairAllowed, Listed
    <3> QED BY <3>2, <3>3, Zenon
  <2>3. CASE ~free
    BY <2>3, <1>7, <1>10, ZenonT(40) DEF Admitted
  <2> QED BY <2>1, <2>2, <2>3, <1>8, ZenonT(40)
<1> QED BY <1>6, <1>7, <1>11, ZenonT(40)

\* The policies of an organization, and what a manifest and a policy are
LEMMA PolicyTypes == Policies \subseteq PolicyDocument /\ Manifest \subseteq ManifestDocument
BY AgentParameters, SMTT(40) DEF Policies, PolicyDocument, Allowlist, DefaultPolicyDocument

\* What insertPolicy signs for a version
Signed(v) == [ver |-> v, doc |-> PolicyFor(v),
              under |-> IF OwnerOf(v) \in OrgTeam THEN acPolicy[OwnerOf(v)] ELSE DefaultPolicyDocument]

LEMMA SignedIsExact ==
    ASSUME AcTypeOK, NEW v \in Version, version[v] # NoVersion, ~PolicyFor(v).blocked
    PROVE  Signed(v) \in Snapshot /\ SignedFits(Signed(v)) /\ Signed(v).ver = v
<1> DEFINE wants == version[v].wants
<1>1. wants \in Manifest /\ wants \in ManifestDocument
  BY PolicyTypes, ZenonT(40) DEF AcTypeOK
<1>2. CASE OwnerOf(v) \in OrgTeam
  <2> DEFINE org == acPolicy[OwnerOf(v)]
  <2>1. org \in Policies /\ org \in PolicyDocument
    BY <1>2, PolicyTypes, ZenonT(40) DEF AcTypeOK
  <2>2. PolicyFor(v) = OrganizationDocument(org, wants)
    BY <1>2, Zenon DEF PolicyFor
  <2>3. Signed(v) = [ver |-> v, doc |-> OrganizationDocument(org, wants), under |-> org]
    BY <1>2, <2>2, Zenon DEF Signed
  <2>4. Signed(v) \in Snapshot
    BY <1>1, <2>1, <2>3, SMTT(40) DEF Snapshot
  <2>5. /\ Admitted(OrganizationDocument(org, wants)) = {p \in Admitted(wants) : modelPairAllowed(p, org.models)}
        /\ OrganizationDocument(org, wants).tools = {t \in wants.tools : modelPairAllowed(t, org.tools)}
    BY <1>1, <2>1, <2>2, OrganizationExact, ZenonT(40)
  <2>6. Signed(v).ver = v /\ Signed(v).doc = OrganizationDocument(org, wants) /\ Signed(v).under = org
    BY <2>3, SMTT(40)
  <2> QED BY <2>4, <2>5, <2>6, ZenonT(40) DEF SignedFits
<1>3. CASE OwnerOf(v) \notin OrgTeam
  <2>1. Signed(v) = [ver |-> v, doc |-> VersionDocument(wants), under |-> DefaultPolicyDocument]
    BY <1>3, Zenon DEF Signed, PolicyFor
  <2>2. Signed(v) \in Snapshot
    BY <1>1, <2>1, SMTT(40) DEF Snapshot, Policies
  <2>3. Signed(v).ver = v /\ Signed(v).doc = VersionDocument(wants) /\ Signed(v).under = DefaultPolicyDocument
    BY <2>1, SMTT(40)
  <2>4. \A p : /\ modelPairAllowed(p, DefaultPolicyDocument.models)
               /\ modelPairAllowed(p, DefaultPolicyDocument.tools)
    BY Zenon DEF modelPairAllowed, DefaultPolicyDocument, Nil
  <2>5. Admitted(VersionDocument(wants)) = Admitted(wants) /\ VersionDocument(wants).tools = wants.tools
    BY ZenonT(40) DEF Admitted, VersionDocument
  <2> QED BY <2>2, <2>3, <2>4, <2>5, ZenonT(40) DEF SignedFits
<1> QED BY <1>2, <1>3, ZenonT(40)
-----------------------------------------------------------------------------
(* Agents of users and teams: what a step may do *)

PeopleOK ==
    /\ acActive \subseteq User /\ acOpen \subseteq Team
    /\ acRole \in [Team -> [User -> {"owner", "admin", "auditor", "member", "none"}]]
    /\ \A w \in WsTeam, u \in User : acRole[w][u] # "auditor"
    /\ acPolicy \in [OrgTeam -> Policies]

Requests == [owner : User \cup Team, op : {"initial", "next", "submission"}, key : Key \cup Submission]

\* A definition of the owner gets its next version, under a key that was free.
NewVersion(o, d, v, wants, m) ==
    /\ version[v] = NoVersion
    /\ version' = [version EXCEPT ![v] =
           [def |-> d, wants |-> wants, made |-> m,
            number |-> IF definition[d] = NoDefinition THEN 1 ELSE version[definition[d].latest].number + 1]]
    /\ definition' = [definition EXCEPT ![d] = [owner |-> o, latest |-> v]]
    /\ definition[d] = NoDefinition \/ definition[d].owner = o
    /\ IF m.op = "submission"
       THEN /\ m.key \in Submission /\ submission[m.key].status = "pending"
            /\ submission'[m.key].status = "approved"
       ELSE m \notin acRecord /\ m \in acRecord'
VersionMoves ==
    \/ UNCHANGED <<definition, version>>
    \/ \E o \in User \cup Team, d \in Definition, v \in Version, wants \in Manifest, m \in Requests :
          NewVersion(o, d, v, wants, m)

\* A revoked version is installed or selected only by a call that checked before.
MayUse(v) ==
    /\ version[v] # NoVersion /\ ~PolicyFor(v).blocked
    /\ v \in revoked => \E c \in Slot : /\ acCall[c].op \in {"install", "select"}
                                        /\ acCall[c].ver = v /\ v \notin acCall[c].saw
Signs(i, v) == snapshot' = [snapshot EXCEPT ![i] = Append(snapshot[i], Signed(v))]
Begun(u, v, k) == [status |-> "pending", user |-> u, ver |-> v, profile |-> NoOne,
                   made |-> Made(u, "install", k)]
BeginsInstall(i, u, v, k) ==
    /\ MayUse(v) /\ installation[i] = NoInstall /\ Signs(i, v)
    /\ installation' = [installation EXCEPT ![i] = Begun(u, v, k)]
    /\ Made(u, "install", k) \notin acRecord /\ Made(u, "install", k) \in acRecord'
    /\ UNCHANGED evidence
Selects(i, v) ==
    /\ MayUse(v) /\ installation[i].status = "active" /\ Signs(i, v)
    /\ installation' = [installation EXCEPT ![i] = [installation[i] EXCEPT !.ver = v]]
    /\ UNCHANGED evidence
Activates(i, p) ==
    /\ installation[i].status = "pending"
    /\ installation' = [installation EXCEPT ![i] = [installation[i] EXCEPT !.status = "active", !.profile = p]]
    /\ evidence' = [evidence EXCEPT ![i] = [ver |-> installation[i].ver, policy |-> Len(snapshot[i])]]
    /\ UNCHANGED snapshot
ArchivesInstall(i) ==
    /\ installation[i].status \in {"pending", "active"} /\ Unlocked(i)
    /\ installation' = [installation EXCEPT ![i] = [installation[i] EXCEPT !.status = "archived"]]
    /\ UNCHANGED <<snapshot, evidence>>
InstallMoves ==
    \/ UNCHANGED <<installation, snapshot, evidence>>
    \/ /\ UNCHANGED <<definition, version, binding>>
       /\ \/ \E i \in Install, u \in User, v \in Version, k \in Key : BeginsInstall(i, u, v, k)
          \/ \E i \in Install, v \in Version : Selects(i, v)
          \/ \E i \in Install, p \in Profile : Activates(i, p)
          \/ \E i \in Install : ArchivesInstall(i)

BindingMoves ==
    \/ UNCHANGED binding
    \/ \E i \in Install :
          /\ installation[i].status = "active" /\ installation[i].profile \in Profile
          /\ UNCHANGED <<installation, snapshot>>
          /\ binding' = binding \cup {[inst |-> i, ver |-> installation[i].ver, policy |-> Len(snapshot[i]),
                                       profile |-> installation[i].profile]}

\* A call begins with what it has checked, and ends with what it writes.
CallBegins(c, x) ==
    /\ acCall[c] = NoCall /\ acCall' = [acCall EXCEPT ![c] = x]
    /\ UNCHANGED <<acRecord, installation, definition, version>>
    /\ x.op \in {"install", "select"} => x.ver \notin x.saw /\ version[x.ver] # NoVersion
    /\ x.op = "select" => installation[x.inst].status = "active"
    /\ x.op = "install" => Made(x.user, "install", x.key) \notin acRecord /\ KeyFree(x.user, x.key)
CallEnds(c) ==
    /\ acCall' = [acCall EXCEPT ![c] = NoCall]
    /\ \/ UNCHANGED acRecord
       \/ /\ acCall[c].op = "install"
          /\ acRecord' = acRecord \cup {Made(acCall[c].user, "install", acCall[c].key)}
NewRecord(o, op, k) ==
    acRecord' = acRecord \cup {Made(o, op, k)} /\ (op = "install" => KeyFree(o, k))
CallMoves ==
    \/ UNCHANGED <<acCall, acRecord>>
    \/ UNCHANGED acCall /\ \E o \in User \cup Team, k \in Key,
                              op \in {"initial", "next", "install", "revoke", "submit", "withdraw", "review",
                                      "candidate", "candidate_review"} : NewRecord(o, op, k)
    \/ \E c \in Slot, x \in Call : CallBegins(c, x)
    \/ \E c \in Slot : CallEnds(c)

RevokedMoves ==
    \/ UNCHANGED revoked
    \/ \E v \in Version : /\ revoked' = revoked \cup {v} /\ RevokedFits(v)
                          /\ UNCHANGED <<definition, version>>

OrgSubmissionMoves ==
    \/ UNCHANGED submission
    \/ \E s \in Submission, x \in OrganizationSubmission :
          /\ submission' = [submission EXCEPT ![s] = x] /\ SubmissionFits(s)'
          /\ submission[s] = NoSubmission \/ submission[s].status = "pending"

CandidateMoves ==
    \/ UNCHANGED candidate
    \/ \E c \in Candidate, x \in ExperienceCandidate :
          candidate' = [candidate EXCEPT ![c] = x] /\ candidate[c].review = NoOne

RvMoves ==
    /\ PeopleOK' /\ VersionMoves /\ InstallMoves /\ BindingMoves /\ CallMoves
    /\ RevokedMoves /\ OrgSubmissionMoves /\ CandidateMoves

LEMMA PeopleStay == AcTypeOK /\ UNCHANGED people => PeopleOK'
BY ZenonT(40) DEF AcTypeOK, PeopleOK, people

\* Publications
LEMMA PublishMoves ==
    ASSUME RvInv, NEW o \in User \cup Team, NEW d \in Definition, NEW v \in Version, NEW wants \in Manifest,
           NEW k \in Key, UNCHANGED <<submission, candidate>>,
           \/ publishFirst(o, d, v, wants, k)
           \/ \E base \in Version : publishSecond(o, d, base, v, wants, k)
    PROVE  RvMoves
<1>0. AcTypeOK
  BY Zenon DEF RvInv
<1>1. PICK op \in {"initial", "next"} : 
        /\ Made(o, op, k) \notin acRecord
        /\ insertVersion(v, d, o, IF definition[d] = NoDefinition THEN 1 ELSE version[definition[d].latest].number + 1,
                         wants, op, k)
        /\ definition[d] = NoDefinition \/ definition[d].owner = o
  <2>1. o # NoOne
    BY AgentParameters, Zenon
  <2> QED BY <2>1, SMTT(40) DEF publishFirst, publishSecond, lockAndReadIdempotency, NoDefinition
<1>2. Made(o, op, k) \in Requests /\ Made(o, op, k).op = op
  BY Zenon DEF Requests, Made
<1>3. VersionMoves
  <2>1. NewVersion(o, d, v, wants, Made(o, op, k))
    BY <1>1, <1>2, ZenonT(40) DEF NewVersion, insertVersion, insertIdempotency
  <2> QED BY <1>2, <2>1, Zenon DEF VersionMoves
<1>4. CallMoves
  <2>1. NewRecord(o, op, k) /\ UNCHANGED acCall
    BY <1>1, ZenonT(40) DEF insertVersion, insertIdempotency, NewRecord
  <2> QED BY <2>1, Zenon DEF CallMoves
<1>5. UNCHANGED <<people, revoked, installs>>
  BY <1>1, ZenonT(40) DEF insertVersion
<1> QED BY <1>0, <1>3, <1>4, <1>5, PeopleStay, ZenonT(40) DEF RvMoves, InstallMoves, BindingMoves, RevokedMoves,
           OrgSubmissionMoves, CandidateMoves, installs

\* insertPolicy signs the policy of the version it is given.
LEMMA PolicySigned ==
    ASSUME NEW i \in Install, NEW v \in Version, insertPolicy(i, v)
    PROVE  Signs(i, v) /\ ~PolicyFor(v).blocked
BY Zenon DEF insertPolicy, Signs, Signed

\* A team's version was never revoked: only versions of users are.
LEMMA TeamVersionsUsable ==
    ASSUME RvInv, NEW v \in Version, OwnerOf(v) \in Team
    PROVE  v \notin revoked
BY AgentParameters, Zenon DEF RvInv, RevokedFits

\* What a call that has checked may use
LEMMA CheckedUsable ==
    ASSUME RvInv, NEW c \in Slot, acCall[c].op \in {"install", "select"}, ~PolicyFor(acCall[c].ver).blocked
    PROVE  acCall[c] \in Call /\ acCall[c].ver \in Version /\ MayUse(acCall[c].ver)
<1>1. acCall[c] \in Call /\ CallFits(c)
  BY ZenonT(40) DEF RvInv, AcTypeOK
<1>2. acCall[c].ver \in Version
  BY <1>1, SMTT(40) DEF Call, NoCall
<1>3. acCall[c].ver \notin acCall[c].saw /\ version[acCall[c].ver] # NoVersion
  BY <1>1, Zenon DEF CallFits
<1> QED BY <1>1, <1>2, <1>3, ZenonT(40) DEF MayUse

LEMMA InsertMoves ==
    ASSUME RvInv, NEW i \in Install, NEW u \in User, NEW v \in Version, NEW k \in Key,
           InsertPending(u, i, v, k), version[v] # NoVersion,
           v \in revoked => MayUse(v), Made(u, "install", k) \notin acRecord
    PROVE  /\ InstallMoves /\ VersionMoves /\ BindingMoves /\ RevokedMoves
           /\ acRecord' = acRecord \cup {Made(u, "install", k)}
<1>1. Signs(i, v) /\ ~PolicyFor(v).blocked
  BY PolicySigned, ZenonT(40) DEF InsertPending
<1>2. MayUse(v)
  BY <1>1, ZenonT(40) DEF MayUse
<1>3. BeginsInstall(i, u, v, k)
  BY <1>1, <1>2, ZenonT(40) DEF InsertPending, insertIdempotency, BeginsInstall, Begun
<1>4. InstallMoves
  BY <1>3, ZenonT(40) DEF InstallMoves, InsertPending, catalogue
<1> QED BY <1>4, ZenonT(40) DEF InsertPending, insertIdempotency, VersionMoves, BindingMoves, RevokedMoves, catalogue

LEMMA CreateMoves ==
    ASSUME RvInv, NEW u \in User, CreateInstallation(u), UNCHANGED <<submission, candidate>>
    PROVE  RvMoves
<1>0. AcTypeOK
  BY Zenon DEF RvInv
<1>1. PICK v \in Version, k \in Key :
        \/ \E i \in Install : CreateFromTeam(u, i, v, k)
        \/ \E c \in Slot : CreateOwn(c, u, v, k)
  BY Zenon DEF CreateInstallation
<1>2. ASSUME NEW i \in Install, CreateFromTeam(u, i, v, k) PROVE RvMoves
  <2>1. /\ OwnerOf(v) \in Team /\ version[v] # NoVersion /\ InsertPending(u, i, v, k)
        /\ Made(u, "install", k) \notin acRecord /\ KeyFree(u, k) /\ UNCHANGED acCall
    BY <1>2, Zenon DEF CreateFromTeam, SourceAccess, lockAndReadIdempotency
  <2>2. /\ InstallMoves /\ VersionMoves /\ BindingMoves /\ RevokedMoves
        /\ acRecord' = acRecord \cup {Made(u, "install", k)}
    BY <2>1, TeamVersionsUsable, InsertMoves, Zenon
  <2>3. CallMoves
    <3>1. NewRecord(u, "install", k)
      BY <2>1, <2>2, Zenon DEF NewRecord
    <3> QED BY <2>1, <3>1, Zenon DEF CallMoves
  <2>4. UNCHANGED people
    BY <2>1, Zenon DEF InsertPending
  <2> QED BY <1>0, <2>2, <2>3, <2>4, PeopleStay, Zenon DEF RvMoves, OrgSubmissionMoves, CandidateMoves
<1>3. ASSUME NEW c \in Slot, CreateOwn(c, u, v, k) PROVE RvMoves
  <2> DEFINE x == [op |-> "install", user |-> u, ver |-> v, key |-> k, saw |-> revoked]
  <2>1. x \in Call
    BY <1>0, Zenon DEF Call, AcTypeOK
  <2>2. CallBegins(c, x)
    BY <1>3, Zenon DEF CreateOwn, CallBegins, SourceAccess, lockAndReadIdempotency, versionIsRevoked, catalogue, installs
  <2>3. CallMoves
    BY <2>1, <2>2, Zenon DEF CallMoves
  <2>4. UNCHANGED <<people, catalogue, installs>>
    BY <1>3, Zenon DEF CreateOwn
  <2> QED BY <1>0, <2>3, <2>4, PeopleStay, ZenonT(40) DEF RvMoves, VersionMoves, InstallMoves, BindingMoves, RevokedMoves,
             OrgSubmissionMoves, CandidateMoves, catalogue, installs
<1> QED BY <1>1, <1>2, <1>3, Zenon

LEMMA OwnInsertMoves ==
    ASSUME RvInv, NEW c \in Slot, NEW i \in Install, CreateOwnInserts(c, i), UNCHANGED <<submission, candidate>>
    PROVE  RvMoves
<1>0. AcTypeOK /\ acCall[c].op = "install" /\ InsertPending(acCall[c].user, i, acCall[c].ver, acCall[c].key)
      /\ acCall' = [acCall EXCEPT ![c] = NoCall]
  BY Zenon DEF RvInv, CreateOwnInserts
<1>1. acCall[c] \in Call /\ CallFits(c)
  BY ZenonT(40) DEF RvInv, AcTypeOK
<1>2. PICK u \in User, v \in Version, k \in Key : u = acCall[c].user /\ v = acCall[c].ver /\ k = acCall[c].key
  BY <1>0, <1>1, SMTT(40) DEF Call, NoCall
<1>3. version[v] # NoVersion /\ Made(u, "install", k) \notin acRecord
  BY <1>0, <1>1, <1>2, ZenonT(40) DEF CallFits
<1>4. InsertPending(u, i, v, k)
  BY <1>0, <1>2, Zenon
<1>5. ~PolicyFor(v).blocked
  BY <1>4, PolicySigned, Zenon DEF InsertPending
<1>6. MayUse(v)
  BY <1>0, <1>2, <1>5, CheckedUsable, Zenon
<1>7. /\ InstallMoves /\ VersionMoves /\ BindingMoves /\ RevokedMoves
      /\ acRecord' = acRecord \cup {Made(u, "install", k)}
  BY <1>3, <1>4, <1>6, InsertMoves, Zenon
<1>8. CallEnds(c)
  BY <1>0, <1>2, <1>7, Zenon DEF CallEnds
<1>9. CallMoves
  BY <1>8, Zenon DEF CallMoves
<1>10. UNCHANGED people
  BY <1>4, Zenon DEF InsertPending
<1> QED BY <1>0, <1>7, <1>9, <1>10, PeopleStay, Zenon DEF RvMoves, OrgSubmissionMoves, CandidateMoves

LEMMA SelectMoves ==
    ASSUME RvInv, NEW u \in User, SelectInstallationVersion(u), UNCHANGED <<submission, candidate>>
    PROVE  RvMoves
<1>0. AcTypeOK
  BY Zenon DEF RvInv
<1>1. PICK i \in Install, v \in Version :
        SelectFromTeam(u, i, v) \/ \E c \in Slot : SelectOwn(c, u, i, v)
  BY Zenon DEF SelectInstallationVersion
<1>2. CASE SelectFromTeam(u, i, v)
  <2>1. Signs(i, v) /\ ~PolicyFor(v).blocked
    BY <1>2, PolicySigned, Zenon DEF SelectFromTeam
  <2>2. MayUse(v)
    BY <1>2, <2>1, TeamVersionsUsable, Zenon DEF SelectFromTeam, MayUse
  <2>3. installation' = [installation EXCEPT ![i] = [installation[i] EXCEPT !.ver = v]]
    BY <1>0, <1>2, Zenon DEF SelectFromTeam, AcTypeOK
  <2>4. Selects(i, v)
    BY <1>2, <2>1, <2>2, <2>3, Zenon DEF SelectFromTeam, Selects
  <2>5. InstallMoves
    BY <1>2, <2>4, Zenon DEF InstallMoves, SelectFromTeam, catalogue
  <2> QED BY <1>0, <1>2, <2>5, PeopleStay, Zenon DEF SelectFromTeam, RvMoves, VersionMoves, BindingMoves, CallMoves,
             RevokedMoves, OrgSubmissionMoves, CandidateMoves, catalogue
<1>3. ASSUME NEW c \in Slot, SelectOwn(c, u, i, v) PROVE RvMoves
  <2> DEFINE x == [op |-> "select", inst |-> i, ver |-> v, saw |-> revoked]
  <2>1. x \in Call
    BY <1>0, ZenonT(40) DEF Call, AcTypeOK
  <2>2. CallBegins(c, x)
    BY <1>3, ZenonT(40) DEF SelectOwn, CallBegins, versionIsRevoked, catalogue, installs
  <2>3. CallMoves
    BY <2>1, <2>2, Zenon DEF CallMoves
  <2>4. UNCHANGED <<people, catalogue, installs>>
    BY <1>3, Zenon DEF SelectOwn
  <2> QED BY <1>0, <2>3, <2>4, PeopleStay, ZenonT(40) DEF RvMoves, VersionMoves, InstallMoves, BindingMoves, RevokedMoves,
             OrgSubmissionMoves, CandidateMoves, catalogue, installs
<1> QED BY <1>1, <1>2, <1>3, Zenon

LEMMA SelectOwnMoves ==
    ASSUME RvInv, NEW c \in Slot, NEW i \in Install, SelectOwnUpdates(c, i), UNCHANGED <<submission, candidate>>
    PROVE  RvMoves
<1>0. AcTypeOK /\ acCall[c].op = "select" /\ acCall[c].inst = i /\ insertPolicy(i, acCall[c].ver)
  BY Zenon DEF RvInv, SelectOwnUpdates
<1>1. acCall[c] \in Call /\ CallFits(c)
  BY Zenon DEF RvInv, AcTypeOK
<1>2. PICK v \in Version : v = acCall[c].ver
  BY <1>0, <1>1, SMTT(40) DEF Call, NoCall
<1>3. Signs(i, v) /\ ~PolicyFor(v).blocked
  BY <1>0, <1>2, PolicySigned, ZenonT(40)
<1>4. MayUse(v) /\ installation[i].status = "active"
  BY <1>0, <1>1, <1>2, <1>3, CheckedUsable, ZenonT(40) DEF CallFits
<1>5. installation' = [installation EXCEPT ![i] = [installation[i] EXCEPT !.ver = v]]
  BY <1>0, <1>2, Zenon DEF SelectOwnUpdates, AcTypeOK
<1>6. Selects(i, v)
  BY <1>3, <1>4, <1>5, ZenonT(40) DEF Selects, SelectOwnUpdates
<1>7. InstallMoves
  BY <1>6, Zenon DEF InstallMoves, SelectOwnUpdates, catalogue
<1>8. CallEnds(c)
  BY Zenon DEF CallEnds, SelectOwnUpdates
<1>9. CallMoves
  BY <1>8, Zenon DEF CallMoves
<1> QED BY <1>0, <1>7, <1>9, PeopleStay, Zenon DEF SelectOwnUpdates, RvMoves, VersionMoves, BindingMoves,
           RevokedMoves, OrgSubmissionMoves, CandidateMoves, catalogue

LEMMA ActivateMoves ==
    ASSUME RvInv, NEW c \in Slot, NEW i \in Install, UNCHANGED <<submission, candidate>>,
           \/ ActivateInstallation(c, i)
           \/ \E u \in User, p \in Profile : LoadActivationContext(c, u, i, p)
    PROVE  RvMoves
<1>0. AcTypeOK
  BY Zenon DEF RvInv
<1>1. ASSUME NEW u \in User, NEW p \in Profile, LoadActivationContext(c, u, i, p) PROVE RvMoves
  <2> DEFINE x == [op |-> "activate", inst |-> i, profile |-> p, ver |-> installation[i].ver,
                   policy |-> Len(snapshot[i])]
  <2>1. installation[i] \in InstallRow
    BY <1>0, <1>1, AgentParameters, SMTT(40) DEF AcTypeOK, LoadActivationContext, NoInstall
  <2>2. x \in Call /\ x.op = "activate"
    BY <1>0, <2>1, SMTT(40) DEF Call, AcTypeOK, InstallRow
  <2>3. acCall[c] = NoCall /\ acCall' = [acCall EXCEPT ![c] = x] /\ UNCHANGED <<people, catalogue, installs, acRecord>>
    BY <1>1, ZenonT(40) DEF LoadActivationContext
  <2> HIDE DEF x
  <2>4. CallBegins(c, x)
    BY <2>2, <2>3, ZenonT(40) DEF CallBegins, catalogue, installs
  <2>5. CallMoves
    BY <2>2, <2>4, Zenon DEF CallMoves
  <2> QED BY <1>0, <2>3, <2>5, PeopleStay, ZenonT(40) DEF RvMoves, VersionMoves, InstallMoves, BindingMoves, RevokedMoves,
             OrgSubmissionMoves, CandidateMoves, catalogue, installs
<1>2. CASE ActivateInstallation(c, i)
  <2>1. acCall[c] \in Call /\ acCall[c].op = "activate"
    BY <1>0, <1>2, Zenon DEF AcTypeOK, ActivateInstallation
  <2>2. PICK p \in Profile : p = acCall[c].profile
    BY <2>1, SMTT(40) DEF Call, NoCall
  <2>3. InstallMoves
    <3>1. CASE UNCHANGED <<installation, evidence>>
      BY <1>2, <3>1, Zenon DEF InstallMoves, ActivateInstallation
    <3>2. CASE /\ installation[i].status = "pending"
               /\ installation[i].ver = acCall[c].ver /\ Len(snapshot[i]) = acCall[c].policy
               /\ installation' = [installation EXCEPT ![i].status = "active", ![i].profile = acCall[c].profile]
               /\ evidence' = [evidence EXCEPT ![i] = [ver |-> acCall[c].ver, policy |-> acCall[c].policy]]
      <4>1. installation' = [installation EXCEPT ![i] =
                                [installation[i] EXCEPT !.status = "active", !.profile = p]]
        BY <1>0, <2>2, <3>2, Zenon DEF AcTypeOK
      <4>2. Activates(i, p)
        BY <1>2, <3>2, <4>1, ZenonT(40) DEF Activates, ActivateInstallation
      <4> QED BY <1>2, <4>2, Zenon DEF InstallMoves, ActivateInstallation, catalogue
    <3> QED BY <1>2, <3>1, <3>2, Zenon DEF ActivateInstallation
  <2>4. CallEnds(c)
    BY <1>2, Zenon DEF CallEnds, ActivateInstallation
  <2>5. CallMoves
    BY <2>4, Zenon DEF CallMoves
  <2> QED BY <1>0, <1>2, <2>3, <2>5, PeopleStay, Zenon DEF ActivateInstallation, RvMoves, VersionMoves, BindingMoves,
             RevokedMoves, OrgSubmissionMoves, CandidateMoves, catalogue
<1> QED BY <1>1, <1>2, Zenon

LEMMA ArchiveMoves ==
    ASSUME RvInv, NEW u \in User, NEW i \in Install, ArchiveInstallation(u, i), UNCHANGED <<submission, candidate>>
    PROVE  RvMoves
<1>0. AcTypeOK
  BY Zenon DEF RvInv
<1>1. installation' = [installation EXCEPT ![i] = [installation[i] EXCEPT !.status = "archived"]]
  BY <1>0, Zenon DEF ArchiveInstallation, AcTypeOK
<1>2. ArchivesInstall(i)
  BY <1>1, Zenon DEF ArchivesInstall, ArchiveInstallation
<1>3. InstallMoves
  BY <1>2, Zenon DEF InstallMoves, ArchiveInstallation, catalogue
<1> QED BY <1>0, <1>3, PeopleStay, Zenon DEF ArchiveInstallation, RvMoves, VersionMoves, BindingMoves, CallMoves,
           RevokedMoves, OrgSubmissionMoves, CandidateMoves, catalogue

LEMMA BindMoves ==
    ASSUME RvInv, NEW u \in User, RecordRuntimeBinding(u), UNCHANGED <<submission, candidate>>
    PROVE  RvMoves
<1>0. AcTypeOK
  BY Zenon DEF RvInv
<1>i. PICK i \in Install : \E r \in Reports(i) : InsertRuntimeBinding(u, i, r)
  BY Zenon DEF RecordRuntimeBinding
<1>1. PICK r \in Reports(i) : InsertRuntimeBinding(u, i, r)
  BY <1>i, Zenon
<1>2. PICK a \in DOMAIN snapshot[i], b \in DOMAIN snapshot[i], p \in Profile :
        r = [inst |-> i, ver |-> snapshot[i][a].ver, policy |-> b, profile |-> p]
  BY SMTT(40) DEF Reports
<1>3. /\ r = [inst |-> i, ver |-> installation[i].ver, policy |-> Len(snapshot[i]),
              profile |-> installation[i].profile]
      /\ installation[i].profile \in Profile
  BY <1>1, <1>2, ZenonT(40) DEF InsertRuntimeBinding
<1>4. BindingMoves
  BY <1>1, <1>3, ZenonT(40) DEF BindingMoves, InsertRuntimeBinding
<1> QED BY <1>0, <1>1, <1>4, PeopleStay, ZenonT(40) DEF InsertRuntimeBinding, RvMoves, VersionMoves, InstallMoves, CallMoves,
           RevokedMoves, OrgSubmissionMoves, CandidateMoves, catalogue

LEMMA RevokeMoves ==
    ASSUME RvInv, NEW u \in User, NEW v \in Version, NEW k \in Key, AppendVersionRevocation(u, v, k),
           UNCHANGED <<submission, candidate>>
    PROVE  RvMoves
<1>0. AcTypeOK
  BY Zenon DEF RvInv
<1>1. RevokedMoves
  BY ZenonT(40) DEF AppendVersionRevocation, RevokedMoves, RevokedFits
<1>2. NewRecord(u, "revoke", k)
  BY ZenonT(40) DEF AppendVersionRevocation, insertIdempotency, NewRecord
<1>3. CallMoves
  BY <1>2, ZenonT(40) DEF CallMoves, AppendVersionRevocation
<1> QED BY <1>0, <1>1, <1>3, PeopleStay, ZenonT(40) DEF AppendVersionRevocation, RvMoves, VersionMoves, InstallMoves,
           BindingMoves, OrgSubmissionMoves, CandidateMoves, installs

\* What the other components do to people, teams and policies
LEMMA PeopleMoves ==
    ASSUME RvInv, AcPeople \/ AcPolicies, UNCHANGED <<submission, candidate>>
    PROVE  RvMoves
<1>0. AcTypeOK /\ PeopleOK
  BY Zenon DEF RvInv, AcTypeOK, PeopleOK
<1>1. UNCHANGED <<catalogue, installs, acRecord, acCall>>
  BY Zenon DEF AcPeople, AcPolicies, PrincipalChanges, TeamChanges, RoleChanges, PolicyChanges
<1>2. PeopleOK'
  <2>1. ASSUME NEW u \in User, PrincipalChanges(u) PROVE PeopleOK'
    BY <1>0, <2>1, Zenon DEF PrincipalChanges, PeopleOK
  <2>2. ASSUME NEW t \in Team, TeamChanges(t) PROVE PeopleOK'
    BY <1>0, <2>2, Zenon DEF TeamChanges, PeopleOK
  <2>3. ASSUME NEW t \in Team, NEW u \in User, NEW r \in {"admin", "auditor", "member", "none"}, RoleChanges(t, u, r)
        PROVE  PeopleOK'
    <3>1. acRole' = [acRole EXCEPT ![t] = [acRole[t] EXCEPT ![u] = r]]
      BY <1>0, <2>3, Zenon DEF RoleChanges, PeopleOK
    <3>2. acRole' \in [Team -> [User -> {"owner", "admin", "auditor", "member", "none"}]]
      BY <1>0, <3>1, Zenon DEF PeopleOK
    <3>3. ASSUME NEW w \in WsTeam, NEW x \in User PROVE acRole'[w][x] # "auditor"
      <4>1. w \in Team /\ w \notin OrgTeam
        BY AgentParameters, Zenon DEF Team
      <4>2. CASE w = t /\ x = u
        BY <1>0, <2>3, <3>1, <4>1, <4>2, ZenonT(40) DEF RoleChanges, PeopleOK
      <4>3. CASE ~(w = t /\ x = u)
        <5>1. acRole'[w][x] = acRole[w][x]
          BY <1>0, <3>1, <4>1, <4>3, Zenon DEF PeopleOK
        <5> QED BY <1>0, <5>1, Zenon DEF PeopleOK
      <4> QED BY <4>2, <4>3, Zenon
    <3> QED BY <1>0, <2>3, <3>2, <3>3, Zenon DEF RoleChanges, PeopleOK
  <2>4. ASSUME NEW o \in OrgTeam, NEW p \in OrgPolicy, PolicyChanges(o, p) PROVE PeopleOK'
    BY <1>0, <2>4, Zenon DEF PolicyChanges, PeopleOK, Policies
  <2> QED BY <2>1, <2>2, <2>3, <2>4, Zenon DEF AcPeople, AcPolicies
<1> QED BY <1>1, <1>2, Zenon DEF RvMoves, VersionMoves, InstallMoves, BindingMoves, CallMoves, RevokedMoves,
           OrgSubmissionMoves, CandidateMoves, catalogue, installs

LEMMA ControlMoves == RvInv /\ AcNext /\ UNCHANGED <<submission, candidate>> => RvMoves
<1> SUFFICES ASSUME RvInv, AcNext, UNCHANGED <<submission, candidate>> PROVE RvMoves
  BY Zenon
<1>1. CASE AcPublish
  <2>1. PICK u \in User : publishInitial(u) \/ publishNext(u)
    BY <1>1, Zenon DEF AcPublish
  <2>2. CASE publishInitial(u)
    <3>1. PICK d \in Definition, v \in Version, wants \in Manifest, k \in Key, o \in User \cup Team :
             publishFirst(o, d, v, wants, k)
      BY <2>2, Zenon DEF publishInitial, PublishInitial, PublishWorkspaceInitial, Team
    <3> QED BY <3>1, PublishMoves, Zenon
  <2>3. CASE publishNext(u)
    <3>1. PICK d \in Definition, v \in Version, wants \in Manifest, k \in Key, o \in User \cup Team, base \in Version :
             publishSecond(o, d, base, v, wants, k)
      BY <2>3, Zenon DEF publishNext, PublishNext, PublishWorkspaceNext, Team
    <3> QED BY <3>1, PublishMoves, Zenon
  <2> QED BY <2>1, <2>2, <2>3, Zenon
<1>2. CASE AcInstall
  BY <1>2, CreateMoves, OwnInsertMoves, SelectMoves, SelectOwnMoves, ActivateMoves, ArchiveMoves, BindMoves,
     RevokeMoves, Zenon DEF AcInstall
<1> QED BY <1>1, <1>2, PeopleMoves, Zenon DEF AcNext

\* A step that only writes a submission and a record
LEMMA SubmissionOnly ==
    ASSUME RvInv, UNCHANGED <<people, catalogue, installs, acCall, candidate>>,
           NEW s \in Submission, NEW x \in OrganizationSubmission,
           submission' = [submission EXCEPT ![s] = x], SubmissionFits(s)',
           submission[s] = NoSubmission \/ submission[s].status = "pending",
           NEW o \in OrgTeam, NEW op \in {"submit", "withdraw", "review"}, NEW k \in Key,
           acRecord' = acRecord \cup {Made(o, op, k)}
    PROVE  RvMoves
<1>1. CallMoves
  <2>1. NewRecord(o, op, k) /\ o \in Team
    BY Zenon DEF NewRecord, Team
  <2> QED BY <2>1, Zenon DEF CallMoves
<1>2. OrgSubmissionMoves
  BY Zenon DEF OrgSubmissionMoves
<1>3. PeopleOK'
  BY PeopleStay, Zenon DEF RvInv
<1> QED BY <1>1, <1>2, <1>3, Zenon DEF RvMoves, VersionMoves, InstallMoves, BindingMoves, RevokedMoves, CandidateMoves,
           catalogue, installs

LEMMA SubmitMoves ==
    ASSUME RvInv, NEW u \in User, NEW s \in Submission, NEW k \in Key, SubmitOrganizationAgent(u, s, k)
    PROVE  RvMoves
<1>d. PICK o \in OrgTeam, d \in Definition, wants \in Manifest :
        \E base \in {NoOne} \cup VersionsOfDef(d) : submitOrganizationAgent(u, o, s, d, base, wants, k)
  BY Zenon DEF SubmitOrganizationAgent, VersionsOfDef
<1>1. PICK base \in {NoOne} \cup VersionsOfDef(d) : submitOrganizationAgent(u, o, s, d, base, wants, k)
  BY <1>d, Zenon
<1> DEFINE x == [status |-> "pending", org |-> o, def |-> d, base |-> base, wants |-> wants, by |-> u,
                 revision |-> 1, reviewer |-> NoOne, ver |-> NoOne, under |-> NoOne]
<1>2. /\ submission' = [submission EXCEPT ![s] = x] /\ submission[s] = NoSubmission
      /\ acRecord' = acRecord \cup {Made(o, "submit", k)}
      /\ UNCHANGED <<people, catalogue, installs, acCall, candidate>>
      /\ lockOrganizationSubmissionTarget(o, d, base)
  BY <1>1, Zenon DEF submitOrganizationAgent, insertIdempotency
<1>3. x \in OrganizationSubmission
  BY Zenon DEF OrganizationSubmission, VersionsOfDef
<1>4. submission'[s] = x
  BY <1>2, Zenon DEF RvInv, RvTypeOK
<1>5. base # NoOne => /\ version[base] # NoVersion /\ version[base].def = d
                      /\ definition[d] # NoDefinition /\ definition[d].owner = o
  <2>1. NoOne \notin Definition /\ NoOne \notin Team /\ o \in Team
    BY AgentParameters, Zenon DEF Team
  <2> QED BY <1>2, <2>1, SMTT(40) DEF lockOrganizationSubmissionTarget, VersionsOfDef, NoVersion, NoDefinition
<1>6. x.status = "pending" /\ validOrganizationSubmissionState(x)
  BY Zenon DEF validOrganizationSubmissionState
<1>7. SubmissionFits(s)'
  BY <1>2, <1>4, <1>5, <1>6 DEF SubmissionFits, catalogue
<1> HIDE DEF x
<1> QED BY <1>2, <1>3, <1>7, SubmissionOnly, Zenon

\* A pending submission that is moved on, but not published
LEMMA TransitionMoves ==
    ASSUME RvInv, NEW s \in Submission, submission[s].status = "pending",
           NEW status \in {"withdrawn", "rejected", "superseded"}, NEW r \in User \cup {NoOne},
           NEW op \in {"withdraw", "review"}, NEW k \in Key,
           submission' = [submission EXCEPT ![s] = [submission[s] EXCEPT !.status = status,
                              !.revision = submission[s].revision + 1, !.reviewer = r]],
           acRecord' = acRecord \cup {Made(submission[s].org, op, k)},
           UNCHANGED <<people, catalogue, installs, acCall, candidate>>,
           IF status = "rejected" THEN r \in User ELSE r = NoOne,
           status = "superseded" => /\ submission[s].base # NoOne
                                    /\ definition[submission[s].def].latest # submission[s].base
    PROVE  RvMoves
<1> DEFINE y == submission[s]
           x == [y EXCEPT !.status = status, !.revision = y.revision + 1, !.reviewer = r]
<1>0. y \in OrganizationSubmission /\ SubmissionFits(s) /\ NoOne \notin User
  BY AgentParameters DEF RvInv, RvTypeOK, NoSubmission
<1>1. y.revision = 1 /\ y.reviewer = NoOne /\ y.ver = NoOne
  BY <1>0 DEF SubmissionFits, validOrganizationSubmissionState, NoSubmission
<1>2. /\ x \in OrganizationSubmission /\ x.status = status /\ x.revision = 2 /\ x.reviewer = r
      /\ x.ver = NoOne /\ x.base = y.base /\ x.def = y.def /\ x.org = y.org
  <2>1. y.revision + 1 = 2
    BY <1>1
  <2>2. x = [y EXCEPT !.status = status, !.revision = 2, !.reviewer = r]
    BY <2>1, Zenon
  <2> HIDE DEF x
  <2>3. x \in OrganizationSubmission
    BY <1>0, <2>2, Zenon DEF OrganizationSubmission
  <2>4. x.status = status /\ x.revision = 2 /\ x.reviewer = r
    BY <1>0, <2>2, Zenon DEF OrganizationSubmission
  <2>5. x.ver = y.ver /\ x.base = y.base /\ x.def = y.def /\ x.org = y.org
    BY <1>0, <2>2, Zenon DEF OrganizationSubmission
  <2> QED BY <1>1, <2>3, <2>4, <2>5, Zenon
<1>3. submission'[s] = x
  BY Zenon DEF RvInv, RvTypeOK
<1> HIDE DEF x
<1>4. validOrganizationSubmissionState(x)
  BY <1>0, <1>2, Zenon DEF validOrganizationSubmissionState
<1>5. y.base # NoOne => /\ version[y.base] # NoVersion /\ version[y.base].def = y.def
                        /\ definition[y.def] # NoDefinition /\ definition[y.def].owner = y.org
  BY <1>0, SMTT(40) DEF SubmissionFits, NoSubmission
<1>6. status = "superseded" => version[definition[y.def].latest].number > version[y.base].number
  <2> SUFFICES ASSUME status = "superseded" PROVE version[definition[y.def].latest].number > version[y.base].number
    BY Zenon
  <2>1. y.def \in Definition /\ y.base \in Version
    BY <1>0, Zenon DEF OrganizationSubmission
  <2>2. VersionsFit(y.def) /\ y.base \in VersionsOfDef(y.def) /\ definition[y.def] # NoDefinition
    BY <1>5, <2>1, Zenon DEF RvInv, VersionsOfDef
  <2>3. version[y.base].number < version[definition[y.def].latest].number
    BY <2>2, ZenonT(40) DEF VersionsFit
  <2>4. version[y.base].number \in Nat /\ version[definition[y.def].latest].number \in Nat
    <3>1. \A v \in VersionsOfDef(y.def) : version[v].number \in Nat
      BY <2>1, AgentParameters, SMTT(40) DEF VersionsOfDef, RvInv, AcTypeOK, NoVersion
    <3> QED BY <2>2, <3>1, Zenon DEF VersionsFit
  <2> QED BY <2>3, <2>4, Zenon
<1>7. SubmissionFits(s)'
  <2>1. UNCHANGED <<version, definition>>
    BY Zenon DEF catalogue
  <2> QED BY <1>2, <1>3, <1>4, <1>5, <1>6, <2>1, Zenon DEF SubmissionFits
<1>8. y.org \in OrgTeam /\ submission' = [submission EXCEPT ![s] = x]
  BY <1>0, Zenon DEF OrganizationSubmission, x
<1> QED BY <1>2, <1>7, <1>8, SubmissionOnly, Zenon

LEMMA WithdrawOrRejectMoves ==
    ASSUME RvInv, NEW u \in User, NEW s \in Submission, NEW k \in Key,
           \/ WithdrawOrganizationAgentSubmission(u, s, k)
           \/ rejectOrganizationAgentSubmission(u, s, k)
    PROVE  RvMoves
<1> DEFINE y == submission[s]
<1>0. y.status = "pending" /\ UNCHANGED <<people, catalogue, installs, acCall, candidate>>
  BY Zenon DEF WithdrawOrganizationAgentSubmission, rejectOrganizationAgentSubmission,
         transitionOrganizationAgentSubmission
<1>1. y \in OrganizationSubmission /\ SubmissionFits(s)
  BY <1>0 DEF RvInv, RvTypeOK, NoSubmission
<1>2. y.reviewer = NoOne
  BY <1>0, <1>1, SMTT(40) DEF SubmissionFits, validOrganizationSubmissionState, NoSubmission
<1>3. CASE WithdrawOrganizationAgentSubmission(u, s, k)
  <2>1. submission' = [submission EXCEPT ![s] = [y EXCEPT !.status = "withdrawn", !.revision = y.revision + 1]]
    BY <1>3, Zenon DEF WithdrawOrganizationAgentSubmission, transitionOrganizationAgentSubmission, RvInv, RvTypeOK
  <2>2. [y EXCEPT !.status = "withdrawn", !.revision = y.revision + 1]
          = [y EXCEPT !.status = "withdrawn", !.revision = y.revision + 1, !.reviewer = NoOne]
    BY <1>1, <1>2, Zenon DEF OrganizationSubmission
  <2>3. acRecord' = acRecord \cup {Made(y.org, "withdraw", k)}
    BY <1>3, Zenon DEF WithdrawOrganizationAgentSubmission, insertIdempotency
  <2> QED BY <1>0, <2>1, <2>2, <2>3, TransitionMoves, Zenon
<1>4. CASE rejectOrganizationAgentSubmission(u, s, k)
  <2>1. submission' = [submission EXCEPT ![s] = [y EXCEPT !.status = "rejected", !.revision = y.revision + 1,
                                                          !.reviewer = u]]
    BY <1>4, ZenonT(40) DEF rejectOrganizationAgentSubmission, RvInv, RvTypeOK
  <2>2. acRecord' = acRecord \cup {Made(y.org, "review", k)}
    BY <1>4, Zenon DEF rejectOrganizationAgentSubmission, insertIdempotency
  <2> QED BY <1>0, <2>1, <2>2, TransitionMoves, Zenon
<1> QED BY <1>3, <1>4, Zenon

LEMMA ApprovalMoves ==
    ASSUME RvInv, NEW u \in User, NEW s \in Submission, NEW v \in Version, NEW k \in Key,
           approveOrganizationAgentSubmission(u, s, v, k)
    PROVE  RvMoves
<1> DEFINE y == submission[s]
           o == y.org
           d == y.def
<1>0. /\ y.status = "pending" /\ UNCHANGED <<people, revoked, installs, acCall, candidate>>
      /\ acRecord' = acRecord \cup {Made(o, "review", k)}
      /\ validateAgainstCurrentOrganizationPolicy(o, y.wants)
  BY Zenon DEF approveOrganizationAgentSubmission, insertIdempotency
<1>1. y \in OrganizationSubmission /\ SubmissionFits(s) /\ y # NoSubmission
  BY <1>0 DEF RvInv, RvTypeOK, NoSubmission
<1>2. y.revision = 1 /\ y.reviewer = NoOne /\ y.ver = NoOne
  BY <1>0, <1>1, Zenon DEF SubmissionFits, validOrganizationSubmissionState
<1>3. o \in OrgTeam /\ o \in Team /\ d \in Definition /\ y.wants \in Manifest /\ y.base \in Version \cup {NoOne}
  BY <1>1, ZenonT(40) DEF OrganizationSubmission, Team
<1>4. y.base # NoOne => /\ version[y.base] # NoVersion /\ version[y.base].def = d
                        /\ definition[d] # NoDefinition /\ definition[d].owner = o
  BY <1>1, ZenonT(40) DEF SubmissionFits
<1>5. CASE markOrganizationSubmissionSuperseded(s) /\ y.base # NoOne /\ definition[d].latest # y.base
  <2>1. submission' = [submission EXCEPT ![s] = [y EXCEPT !.status = "superseded", !.revision = y.revision + 1]]
    BY <1>5, Zenon DEF markOrganizationSubmissionSuperseded, transitionOrganizationAgentSubmission, RvInv, RvTypeOK
  <2>2. [y EXCEPT !.status = "superseded", !.revision = y.revision + 1]
          = [y EXCEPT !.status = "superseded", !.revision = y.revision + 1, !.reviewer = NoOne]
    BY <1>1, <1>2, ZenonT(40) DEF OrganizationSubmission
  <2>3. UNCHANGED <<people, catalogue, installs, acCall, candidate>>
    BY <1>0, <1>5, Zenon DEF markOrganizationSubmissionSuperseded, catalogue
  <2> QED BY <1>0, <1>5, <2>1, <2>2, <2>3, TransitionMoves, ZenonT(40)
<1>6. ASSUME NEW n, persistApprovedOrganizationPublication(u, s, v, n),
             n = IF definition[d] = NoDefinition THEN 1 ELSE version[definition[d].latest].number + 1,
             n = IF y.base = NoOne THEN 1 ELSE version[y.base].number + 1,
             y.base = NoOne => definition[d] = NoDefinition
      PROVE  RvMoves
  <2> DEFINE x == [y EXCEPT !.status = "approved", !.revision = y.revision + 1, !.reviewer = u, !.ver = v,
                            !.under = acPolicy[o]]
             m == Made(o, "submission", s)
  <2>1. submission' = [submission EXCEPT ![s] = x]
    BY <1>6, Zenon DEF persistApprovedOrganizationPublication, RvInv, RvTypeOK
  <2>2. acPolicy[o] \in Policies /\ y.revision + 1 = 2 /\ y.revision + 1 \in Nat /\ u # NoOne /\ v # NoOne
    BY <1>2, <1>3, AgentParameters DEF RvInv, AcTypeOK
  <2>3. x \in OrganizationSubmission
    BY <1>1, <2>2, Zenon DEF OrganizationSubmission
  <2>4. x.status = "approved" /\ x.revision = 2 /\ x.reviewer = u /\ x.ver = v /\ x.under = acPolicy[o]
    BY <1>1, <2>2, Zenon DEF OrganizationSubmission
  <2>5. x.base = y.base /\ x.def = d /\ x.org = o /\ x.wants = y.wants
    BY <1>1, Zenon DEF OrganizationSubmission
  <2>6. submission'[s] = x
    BY <2>1, Zenon DEF RvInv, RvTypeOK
  <2> HIDE DEF x
  <2>7. /\ version[v] = NoVersion
        /\ version' = [version EXCEPT ![v] = [def |-> d, number |-> n, wants |-> y.wants, made |-> m]]
        /\ definition' = [definition EXCEPT ![d] = [owner |-> o, latest |-> v]]
    BY <1>6, Zenon DEF persistApprovedOrganizationPublication
  <2>8. /\ version'[v] = [def |-> d, number |-> n, wants |-> y.wants, made |-> m]
        /\ \A w \in Version : w # v => version'[w] = version[w]
        /\ definition'[d] = [owner |-> o, latest |-> v]
    BY <1>3, <2>7, ZenonT(40) DEF RvInv, AcTypeOK
  <2>9. SubmissionFits(s)'
    <3>1. validOrganizationSubmissionState(x)
      BY <2>2, <2>4, Zenon DEF validOrganizationSubmissionState
    <3>2. y.base # NoOne => /\ version'[y.base] = version[y.base] /\ version[y.base] # NoVersion
                            /\ version[y.base].def = d
      BY <1>3, <1>4, <2>7, <2>8, ZenonT(40)
    <3>3. definition'[d] # NoDefinition /\ definition'[d].owner = o
      BY <1>3, <2>8, AgentParameters DEF NoDefinition
    <3>4. ~IntersectOrganizationAgentPolicy(DefaultPolicyDocument, x.under, x.wants).blocked
      BY <1>0, <2>4, <2>5, Zenon DEF validateAgainstCurrentOrganizationPolicy
    <3>5. version'[v].def = d /\ version'[v].wants = y.wants /\ version'[v].number = n
      BY <2>8
    <3> QED BY <1>6, <2>4, <2>5, <2>6, <3>1, <3>2, <3>3, <3>4, <3>5, ZenonT(40) DEF SubmissionFits
  <2>10. OrgSubmissionMoves
    BY <1>0, <2>1, <2>3, <2>9, ZenonT(40) DEF OrgSubmissionMoves
  <2>11. NewVersion(o, d, v, y.wants, m)
    <3>1. m.op = "submission" /\ m.key = s
      BY Zenon DEF Made
    <3>2. definition[d] = NoDefinition \/ definition[d].owner = o
      BY <1>4, <1>6, ZenonT(40)
    <3> QED BY <1>0, <1>6, <2>4, <2>6, <2>7, <3>1, <3>2, Zenon DEF NewVersion
  <2>12. VersionMoves
    <3>1. m \in Requests
      BY <1>3, Zenon DEF Made, Requests
    <3> QED BY <1>3, <2>11, <3>1, Zenon DEF VersionMoves
  <2>13. CallMoves
    <3>1. NewRecord(o, "review", k)
      BY <1>0, ZenonT(40) DEF NewRecord
    <3> QED BY <1>0, <1>3, <3>1, Zenon DEF CallMoves
  <2>14. PeopleOK'
    BY <1>0, PeopleStay, ZenonT(40) DEF RvInv
  <2> QED BY <1>0, <2>10, <2>12, <2>13, <2>14, ZenonT(40) DEF RvMoves, InstallMoves, BindingMoves, RevokedMoves,
             CandidateMoves, installs
<1>7. CASE y.base = NoOne /\ definition[d] = NoDefinition
  <2>1. persistApprovedOrganizationPublication(u, s, v, 1)
    BY <1>7, Zenon DEF approveOrganizationAgentSubmission
  <2> QED BY <1>6, <1>7, <2>1, Zenon
<1>8. CASE y.base # NoOne /\ definition[d].latest = y.base
  <2>1. persistApprovedOrganizationPublication(u, s, v, version[y.base].number + 1)
    BY <1>8, Zenon DEF approveOrganizationAgentSubmission
  <2> QED BY <1>4, <1>6, <1>8, <2>1, ZenonT(40)
<1>9. CASE y.base # NoOne /\ definition[d].latest # y.base
  <2>1. markOrganizationSubmissionSuperseded(s)
    BY <1>9, Zenon DEF approveOrganizationAgentSubmission
  <2> QED BY <1>5, <1>9, <2>1, Zenon
<1>10. CASE y.base = NoOne /\ definition[d] # NoDefinition
  BY <1>10, Zenon DEF approveOrganizationAgentSubmission
<1> QED BY <1>7, <1>8, <1>9, <1>10, Zenon

LEMMA CandidateStepMoves == RvInv /\ RvCandidates => RvMoves
<1> SUFFICES ASSUME RvInv, RvCandidates PROVE RvMoves
  BY Zenon
<1>0. AcTypeOK /\ candidate \in [Candidate -> ExperienceCandidate \cup {NoCandidate}]
  BY Zenon DEF RvInv, RvTypeOK
<1>1. PICK u \in User, c \in Candidate, k \in Key :
        \/ \E t \in Team, i \in Install : insertCandidate(u, t, c, i, k)
        \/ \E decision \in {"approve", "reject"} : insertReview(u, c, decision, k)
  BY ZenonT(40) DEF RvCandidates, SubmitExperienceCandidate, SubmitOrganizationExperienceCandidate,
         submitExperienceCandidate, submitOrganizationExperienceCandidate, ReviewExperienceCandidate,
         ReviewOrganizationExperienceCandidate, reviewExperienceCandidate,
         reviewOrganizationExperienceCandidate, Team
<1>2. /\ UNCHANGED <<people, catalogue, installs, acCall, submission>>
      /\ \E op \in {"candidate", "candidate_review"} : acRecord' = acRecord \cup {Made(u, op, k)}
  BY <1>1, Zenon DEF insertCandidate, insertReview, insertIdempotency
<1>3. CallMoves
  BY <1>2, Zenon DEF CallMoves, NewRecord
<1>4. CandidateMoves
  <2>1. ASSUME NEW t \in Team, NEW i \in Install, insertCandidate(u, t, c, i, k) PROVE CandidateMoves
    <3> DEFINE x == [team |-> t, by |-> u, ver |-> installation[i].ver, review |-> NoOne, key |-> k]
    <3>0. installation[i].status = "active" /\ candidate[c] = NoCandidate /\ candidate' = [candidate EXCEPT ![c] = x]
      BY <2>1, Zenon DEF insertCandidate, requireCandidateSourceInstallation
    <3>1. installation[i] \in InstallRow
      BY <1>0, <3>0 DEF AcTypeOK, NoInstall
    <3>2. x \in ExperienceCandidate
      BY <3>1, Zenon DEF ExperienceCandidate, InstallRow
    <3>3. candidate' = [candidate EXCEPT ![c] = x] /\ candidate[c].review = NoOne
      BY <3>0 DEF NoCandidate
    <3> QED BY <3>2, <3>3, Zenon DEF CandidateMoves
  <2>2. ASSUME NEW decision \in {"approve", "reject"}, insertReview(u, c, decision, k) PROVE CandidateMoves
    <3> DEFINE x == [candidate[c] EXCEPT !.review = [by |-> u, decision |-> decision]]
    <3>1. candidate[c] \in ExperienceCandidate
      BY <1>0, <2>2, Zenon DEF insertReview
    <3>2. x \in ExperienceCandidate
      BY <3>1, Zenon DEF ExperienceCandidate
    <3>3. candidate' = [candidate EXCEPT ![c] = x] /\ candidate[c].review = NoOne
      BY <1>0, <2>2, Zenon DEF insertReview
    <3> QED BY <3>2, <3>3, ZenonT(40) DEF CandidateMoves
  <2> QED BY <1>1, <2>1, <2>2, Zenon
<1> QED BY <1>0, <1>2, <1>3, <1>4, PeopleStay, Zenon DEF RvMoves, VersionMoves, InstallMoves, BindingMoves, RevokedMoves,
           OrgSubmissionMoves, catalogue, installs

LEMMA ReviewMoves == RvInv /\ RvNext => RvMoves
<1> SUFFICES ASSUME RvInv, RvNext PROVE RvMoves
  BY Zenon
<1>1. CASE RvSubmissions
  BY <1>1, SubmitMoves, WithdrawOrRejectMoves, ApprovalMoves, Zenon DEF RvSubmissions, ReviewOrganizationAgentSubmission
<1> QED BY <1>1, CandidateStepMoves, Zenon DEF RvNext
-----------------------------------------------------------------------------
(* Agents of users and teams: the invariant is kept *)

\* A version that exists belongs to a definition that exists, whose head has a number.
LEMMA HeadNumbers ==
    ASSUME RvInv, NEW d \in Definition
    PROVE  /\ \A v \in VersionsOfDef(d) : version[v] # NoVersion /\ version[v].number \in Nat
           /\ definition[d] # NoDefinition =>
                 /\ definition[d] \in DefinitionRow
                 /\ definition[d].latest \in VersionsOfDef(d)
                 /\ version[definition[d].latest].number \in Nat
<1>1. \A v \in VersionsOfDef(d) : version[v] # NoVersion /\ version[v].number \in Nat
  BY AgentParameters DEF VersionsOfDef, RvInv, AcTypeOK, NoVersion
<1>2. definition[d] # NoDefinition => definition[d].latest \in VersionsOfDef(d)
  BY Zenon DEF RvInv, VersionsFit
<1>3. definition[d] # NoDefinition => definition[d] \in DefinitionRow
  BY Zenon DEF RvInv, AcTypeOK
<1> QED BY <1>1, <1>2, <1>3, Zenon

\* What a new version changes, and what it leaves
LEMMA NewVersionRows ==
    ASSUME RvInv, NEW o \in User \cup Team, NEW d \in Definition, NEW v \in Version, NEW wants \in Manifest,
           NEW m \in Requests, NewVersion(o, d, v, wants, m)
    PROVE  LET n == IF definition[d] = NoDefinition THEN 1 ELSE version[definition[d].latest].number + 1 IN
           /\ n \in Nat
           /\ version[v] = NoVersion /\ DOMAIN version' = Version
           /\ version'[v].def = d /\ version'[v].number = n /\ version'[v].wants = wants /\ version'[v].made = m
           /\ version'[v] # NoVersion
           /\ \A w \in Version : w # v => version'[w] = version[w]
           /\ definition' \in [Definition -> DefinitionRow \cup {NoDefinition}]
           /\ definition'[d].owner = o /\ definition'[d].latest = v /\ definition'[d] # NoDefinition
           /\ \A e \in Definition : e # d => definition'[e] = definition[e]
<1> DEFINE n == IF definition[d] = NoDefinition THEN 1 ELSE version[definition[d].latest].number + 1
           row == [def |-> d, wants |-> wants, made |-> m, number |-> n]
           head1 == [owner |-> o, latest |-> v]
<1>1. n \in Nat
  BY HeadNumbers
<1>2. AcTypeOK /\ d # NoOne /\ o # NoOne
  BY AgentParameters, Zenon DEF RvInv
<1>3. version[v] = NoVersion /\ version' = [version EXCEPT ![v] = row] /\ definition' = [definition EXCEPT ![d] = head1]
  BY Zenon DEF NewVersion
<1>4. row.def = d /\ row.number = n /\ row.wants = wants /\ row.made = m /\ row # NoVersion
  BY <1>2, ZenonT(40) DEF NoVersion
<1>5. head1 \in DefinitionRow /\ head1.owner = o /\ head1.latest = v /\ head1 # NoDefinition
  BY <1>2, Zenon DEF DefinitionRow, NoDefinition
<1> HIDE DEF n, row, head1
<1>6. DOMAIN version' = Version /\ version'[v] = row /\ \A w \in Version : w # v => version'[w] = version[w]
  BY <1>2, <1>3, ZenonT(40) DEF AcTypeOK
<1>7. /\ definition' \in [Definition -> DefinitionRow \cup {NoDefinition}] /\ definition'[d] = head1
      /\ \A e \in Definition : e # d => definition'[e] = definition[e]
  BY <1>2, <1>3, <1>5, ZenonT(40) DEF AcTypeOK
<1> QED BY <1>1, <1>3, <1>4, <1>5, <1>6, <1>7, Zenon DEF n

\* Versions never change, a definition keeps its owner, and its head only moves forward.
Persists ==
    /\ \A w \in Version : version[w] # NoVersion => version'[w] = version[w]
    /\ \A d \in Definition : definition[d] # NoDefinition =>
          /\ definition'[d] # NoDefinition /\ definition'[d].owner = definition[d].owner
          /\ version'[definition'[d].latest].number \in Nat
          /\ version'[definition'[d].latest].number >= version[definition[d].latest].number

LEMMA RowsPersist ==
    ASSUME RvInv, VersionMoves
    PROVE  Persists
<1>1. CASE UNCHANGED <<definition, version>>
  <2>1. \A d \in Definition : definition[d] # NoDefinition => version[definition[d].latest].number \in Nat
    BY HeadNumbers, Zenon
  <2>2. \A d \in Definition : definition[d] # NoDefinition =>
           version[definition[d].latest].number >= version[definition[d].latest].number
    BY <2>1, SMTT(40)
  <2> QED BY <1>1, <2>1, <2>2, Zenon DEF Persists
<1>2. ASSUME NEW o \in User \cup Team, NEW d \in Definition, NEW v \in Version, NEW wants \in Manifest,
             NEW m \in Requests, NewVersion(o, d, v, wants, m)
      PROVE  Persists
  <2> DEFINE n == IF definition[d] = NoDefinition THEN 1 ELSE version[definition[d].latest].number + 1
  <2>1. /\ n \in Nat /\ version[v] = NoVersion /\ version'[v].number = n
        /\ \A w \in Version : w # v => version'[w] = version[w]
        /\ definition'[d].owner = o /\ definition'[d].latest = v /\ definition'[d] # NoDefinition
        /\ \A e \in Definition : e # d => definition'[e] = definition[e]
    BY <1>2, NewVersionRows
  <2>2. \A w \in Version : version[w] # NoVersion => version'[w] = version[w]
    BY <2>1, Zenon
  <2>3. ASSUME NEW e \in Definition, definition[e] # NoDefinition
        PROVE  /\ definition'[e] # NoDefinition /\ definition'[e].owner = definition[e].owner
               /\ version'[definition'[e].latest].number \in Nat
               /\ version'[definition'[e].latest].number >= version[definition[e].latest].number
    <3>1. /\ definition[e].latest \in Version /\ version[definition[e].latest] # NoVersion
          /\ version[definition[e].latest].number \in Nat
      BY <2>3, HeadNumbers, Zenon DEF VersionsOfDef
    <3>2. CASE e = d
      <4>1. n = version[definition[e].latest].number + 1
        BY <2>3, <3>2, Zenon
      <4>2. definition[e].owner = o
        BY <1>2, <2>3, <3>2, Zenon DEF NewVersion
      <4> HIDE DEF n
      <4> QED BY <2>1, <3>1, <3>2, <4>1, <4>2, SMTT(40)
    <3>3. CASE e # d
      BY <2>1, <2>2, <2>3, <3>1, <3>3, SMTT(40)
    <3> QED BY <3>2, <3>3, Zenon
  <2> QED BY <2>2, <2>3, Zenon DEF Persists
<1> QED BY <1>1, <1>2, Zenon DEF VersionMoves

\* Versions and heads that a step leaves alone
LEMMA VersionsSame ==
    ASSUME NEW d \in Definition, VersionsFit(d), VersionsOfDef(d)' = VersionsOfDef(d),
           \A v \in VersionsOfDef(d) : version'[v] = version[v], definition'[d] = definition[d]
    PROVE  VersionsFit(d)'
<1>1. {version'[v].number : v \in VersionsOfDef(d)} = {version[v].number : v \in VersionsOfDef(d)}
  BY Zenon
<1>2. CASE definition[d] = NoDefinition
  BY <1>1, <1>2, ZenonT(40) DEF VersionsFit
<1>3. CASE definition[d] # NoDefinition
  <2>1. definition[d].latest \in VersionsOfDef(d)
    BY <1>3, ZenonT(40) DEF VersionsFit
  <2> QED BY <1>1, <1>3, <2>1, ZenonT(40) DEF VersionsFit
<1> QED BY <1>2, <1>3, Zenon

\* Records are only added; approved submissions stay approved.
LEMMA RecordsGrow == CallMoves => acRecord \subseteq acRecord'
BY Zenon DEF CallMoves, NewRecord, CallBegins, CallEnds

LEMMA ApprovedStays ==
    ASSUME RvTypeOK, OrgSubmissionMoves, NEW s \in Submission, submission[s].status = "approved"
    PROVE  submission'[s] = submission[s]
BY SMTT(40) DEF RvTypeOK, OrgSubmissionMoves, NoSubmission

LEMMA KeysKept ==
    ASSUME RvInv, VersionMoves, CallMoves, OrgSubmissionMoves
    PROVE  /\ \A v \in Version : KeyTaken(v)'
           /\ \A v, w \in Version : version'[v] # NoVersion /\ version'[v].made = version'[w].made => v = w
<1>0. RvTypeOK /\ acRecord \subseteq acRecord' /\ \A v \in Version : KeyTaken(v)
  BY RecordsGrow, Zenon DEF RvInv
<1>1. ASSUME NEW w \in Version, version'[w] = version[w] PROVE KeyTaken(w)'
  BY <1>0, <1>1, ApprovedStays, Zenon DEF KeyTaken
<1>2. \A v, w \in Version : version[v] # NoVersion /\ version[v].made = version[w].made => v = w
  BY Zenon DEF RvInv, OneRowPerKey
<1>3. CASE UNCHANGED <<definition, version>>
  BY <1>1, <1>2, <1>3, Zenon
<1>4. ASSUME NEW o \in User \cup Team, NEW d \in Definition, NEW v \in Version, NEW wants \in Manifest,
             NEW m \in Requests, NewVersion(o, d, v, wants, m)
      PROVE  /\ \A w \in Version : KeyTaken(w)'
             /\ \A x, w \in Version : version'[x] # NoVersion /\ version'[x].made = version'[w].made => x = w
  <2>1. /\ version[v] = NoVersion /\ version'[v].made = m /\ version'[v] # NoVersion
        /\ \A w \in Version : w # v => version'[w] = version[w]
    BY <1>4, NewVersionRows
  <2>2. m.op \in {"initial", "next", "submission"} /\ m.owner \in User \cup Team
    BY Zenon DEF Requests
  <2>3. KeyTaken(v)'
    BY <1>4, <2>1, <2>2, ZenonT(40) DEF NewVersion, KeyTaken
  <2>4. ASSUME NEW w \in Version, w # v PROVE version'[w].made # m
    <3>1. CASE version[w] = NoVersion
      <4>1. version'[w].made.owner = NoOne
        BY <2>1, <2>4, <3>1, SMTT(40) DEF NoVersion, NotMade, Made
      <4> QED BY <2>2, <4>1, AgentParameters, Zenon
    <3>2. CASE version[w] # NoVersion
      <4>1. KeyTaken(w) /\ version'[w] = version[w]
        BY <1>0, <2>1, <2>4, Zenon
      <4> QED BY <1>4, <3>2, <4>1, Zenon DEF KeyTaken, NewVersion
    <3> QED BY <3>1, <3>2, Zenon
  <2> QED BY <1>1, <1>2, <2>1, <2>3, <2>4, Zenon
<1> QED BY <1>3, <1>4, Zenon DEF VersionMoves

\* Signed policies that existed stay as they fit.
LEMMA SignedStays ==
    ASSUME Persists, NEW s \in Snapshot, SignedFits(s)
    PROVE  SignedFits(s)'
<1>1. s.ver \in Version /\ version'[s.ver] = version[s.ver]
  BY SMTT(40) DEF Persists, Snapshot, SignedFits
<1> QED BY <1>1, Zenon DEF SignedFits

\* What a step does to one installation
RowStays(j) == installation'[j] = installation[j] /\ snapshot'[j] = snapshot[j] /\ evidence'[j] = evidence[j]
RowSigns(j) ==
    /\ evidence'[j] = evidence[j]
    /\ \E v \in Version : /\ MayUse(v) /\ installation'[j].ver = v
                          /\ snapshot'[j] = Append(snapshot[j], Signed(v))
RowBegins(j) == /\ installation[j] = NoInstall /\ installation'[j].status = "pending"
                /\ installation'[j].made \notin acRecord /\ installation'[j].made \in acRecord'
                /\ RowSigns(j)
RowSelects(j) == /\ installation[j].status = "active" /\ installation'[j].status = "active"
                 /\ installation'[j].profile = installation[j].profile
                 /\ installation'[j].made = installation[j].made
                 /\ RowSigns(j)
RowActivates(j) == /\ installation[j].status = "pending" /\ installation'[j].status = "active"
                   /\ installation'[j].ver = installation[j].ver
                   /\ installation'[j].made = installation[j].made
                   /\ snapshot'[j] = snapshot[j]
                   /\ evidence'[j] = [ver |-> installation[j].ver, policy |-> Len(snapshot[j])]
RowArchives(j) == /\ installation[j].status \in {"pending", "active"} /\ installation'[j].status = "archived"
                  /\ installation'[j].ver = installation[j].ver
                  /\ installation'[j].profile = installation[j].profile
                  /\ installation'[j].made = installation[j].made
                  /\ snapshot'[j] = snapshot[j] /\ evidence'[j] = evidence[j] /\ Unlocked(j)
RowMoves(j) ==
    /\ installation'[j] \in InstallRow \cup {NoInstall}
    /\ RowStays(j) \/ RowBegins(j) \/ RowSelects(j) \/ RowActivates(j) \/ RowArchives(j)

LEMMA InstallRows ==
    ASSUME RvInv, InstallMoves
    PROVE  /\ \A j \in Install : RowMoves(j)
           /\ DOMAIN installation' = Install /\ DOMAIN snapshot' = Install /\ DOMAIN evidence' = Install
           /\ \A j, k \in Install : RowStays(j) \/ RowStays(k) \/ j = k
<1>0. /\ AcTypeOK /\ installation \in [Install -> InstallRow \cup {NoInstall}]
      /\ snapshot \in [Install -> Seq(Snapshot)]
      /\ evidence \in [Install -> [ver : Version, policy : Nat] \cup {NoOne}]
  BY ZenonT(40) DEF RvInv, AcTypeOK
<1>1. CASE UNCHANGED <<installation, snapshot, evidence>>
  BY <1>0, <1>1, Zenon DEF RowMoves, RowStays
<1>2. ASSUME NEW i \in Install, NEW row \in InstallRow \cup {NoInstall}, NEW pol, NEW ev,
             installation' = [installation EXCEPT ![i] = row],
             snapshot' = [snapshot EXCEPT ![i] = pol], evidence' = [evidence EXCEPT ![i] = ev],
             RowBegins(i) \/ RowSelects(i) \/ RowActivates(i) \/ RowArchives(i)
      PROVE  /\ \A j \in Install : RowMoves(j)
             /\ DOMAIN installation' = Install /\ DOMAIN snapshot' = Install /\ DOMAIN evidence' = Install
             /\ \A j, k \in Install : RowStays(j) \/ RowStays(k) \/ j = k
  <2>1. /\ DOMAIN installation' = Install /\ DOMAIN snapshot' = Install /\ DOMAIN evidence' = Install
        /\ installation'[i] = row
        /\ \A j \in Install : installation'[j] \in InstallRow \cup {NoInstall}
        /\ \A j \in Install : j # i => RowStays(j)
    BY <1>0, <1>2, Zenon DEF RowStays
  <2> QED BY <1>2, <2>1, Zenon DEF RowMoves
<1>3. ASSUME NEW i \in Install, NEW u \in User, NEW v \in Version, NEW k \in Key, BeginsInstall(i, u, v, k)
      PROVE  /\ \A j \in Install : RowMoves(j)
             /\ DOMAIN installation' = Install /\ DOMAIN snapshot' = Install /\ DOMAIN evidence' = Install
             /\ \A j, c \in Install : RowStays(j) \/ RowStays(c) \/ j = c
  <2> DEFINE row == Begun(u, v, k)
             pol == Append(snapshot[i], Signed(v))
  <2>1. row \in InstallRow /\ row.status = "pending" /\ row.ver = v /\ row.made = Made(u, "install", k)
    BY Zenon DEF Begun, InstallRow, Made
  <2> HIDE DEF row
  <2>2. /\ installation' = [installation EXCEPT ![i] = row] /\ snapshot' = [snapshot EXCEPT ![i] = pol]
        /\ evidence' = [evidence EXCEPT ![i] = evidence[i]]
    BY <1>0, <1>3, Zenon DEF BeginsInstall, Signs, row
  <2>3. installation'[i] = row /\ snapshot'[i] = pol /\ evidence'[i] = evidence[i]
    BY <1>0, <2>2, Zenon
  <2>4. /\ installation[i] = NoInstall /\ MayUse(v)
        /\ Made(u, "install", k) \notin acRecord /\ Made(u, "install", k) \in acRecord'
    BY <1>3, Zenon DEF BeginsInstall
  <2>5. RowBegins(i)
    BY <2>1, <2>3, <2>4, Zenon DEF RowBegins, RowSigns
  <2> QED BY <1>2, <2>1, <2>2, <2>5, Zenon
<1>4. ASSUME NEW i \in Install, NEW v \in Version, Selects(i, v)
      PROVE  /\ \A j \in Install : RowMoves(j)
             /\ DOMAIN installation' = Install /\ DOMAIN snapshot' = Install /\ DOMAIN evidence' = Install
             /\ \A j, c \in Install : RowStays(j) \/ RowStays(c) \/ j = c
  <2> DEFINE row == [installation[i] EXCEPT !.ver = v]
             pol == Append(snapshot[i], Signed(v))
  <2>0. installation[i] # NoInstall /\ installation[i].status = "active" /\ MayUse(v)
    BY <1>4 DEF Selects, NoInstall
  <2>1. /\ row \in InstallRow /\ row.status = "active" /\ row.ver = v /\ row.made = installation[i].made
        /\ row.profile = installation[i].profile
    <3>1. installation[i] \in InstallRow
      BY <1>0, <2>0, Zenon
    <3> QED BY <2>0, <3>1, Zenon DEF InstallRow
  <2> HIDE DEF row
  <2>2. /\ installation' = [installation EXCEPT ![i] = row] /\ snapshot' = [snapshot EXCEPT ![i] = pol]
        /\ evidence' = [evidence EXCEPT ![i] = evidence[i]]
    BY <1>0, <1>4, Zenon DEF Selects, Signs, row
  <2>3. installation'[i] = row /\ snapshot'[i] = pol /\ evidence'[i] = evidence[i]
    BY <1>0, <2>2, Zenon
  <2>5. RowSelects(i)
    BY <2>0, <2>1, <2>3, Zenon DEF RowSelects, RowSigns
  <2> QED BY <1>2, <2>1, <2>2, <2>5, Zenon
<1>5. ASSUME NEW i \in Install, NEW p \in Profile, Activates(i, p)
      PROVE  /\ \A j \in Install : RowMoves(j)
             /\ DOMAIN installation' = Install /\ DOMAIN snapshot' = Install /\ DOMAIN evidence' = Install
             /\ \A j, c \in Install : RowStays(j) \/ RowStays(c) \/ j = c
  <2> DEFINE row == [installation[i] EXCEPT !.status = "active", !.profile = p]
             ev == [ver |-> installation[i].ver, policy |-> Len(snapshot[i])]
  <2>0. installation[i] # NoInstall /\ installation[i].status = "pending"
    BY <1>5 DEF Activates, NoInstall
  <2>1. /\ row \in InstallRow /\ row.status = "active" /\ row.ver = installation[i].ver
        /\ row.made = installation[i].made
    <3>1. installation[i] \in InstallRow
      BY <1>0, <2>0, Zenon
    <3> QED BY <2>0, <3>1, Zenon DEF InstallRow
  <2> HIDE DEF row, ev
  <2>2. /\ installation' = [installation EXCEPT ![i] = row] /\ snapshot' = [snapshot EXCEPT ![i] = snapshot[i]]
        /\ evidence' = [evidence EXCEPT ![i] = ev]
    BY <1>0, <1>5, Zenon DEF Activates, row, ev
  <2>3. installation'[i] = row /\ snapshot'[i] = snapshot[i] /\ evidence'[i] = ev
    BY <1>0, <2>2, Zenon
  <2>5. RowActivates(i)
    BY <2>0, <2>1, <2>3, Zenon DEF RowActivates, ev
  <2> QED BY <1>2, <2>1, <2>2, <2>5, Zenon
<1>6. ASSUME NEW i \in Install, ArchivesInstall(i)
      PROVE  /\ \A j \in Install : RowMoves(j)
             /\ DOMAIN installation' = Install /\ DOMAIN snapshot' = Install /\ DOMAIN evidence' = Install
             /\ \A j, c \in Install : RowStays(j) \/ RowStays(c) \/ j = c
  <2> DEFINE row == [installation[i] EXCEPT !.status = "archived"]
  <2>0. installation[i] # NoInstall /\ installation[i].status \in {"pending", "active"} /\ Unlocked(i)
    BY <1>6 DEF ArchivesInstall, NoInstall
  <2>1. /\ row \in InstallRow /\ row.status = "archived" /\ row.ver = installation[i].ver
        /\ row.made = installation[i].made /\ row.profile = installation[i].profile
    <3>1. installation[i] \in InstallRow
      BY <1>0, <2>0, Zenon
    <3> QED BY <2>0, <3>1, Zenon DEF InstallRow
  <2> HIDE DEF row
  <2>2. /\ installation' = [installation EXCEPT ![i] = row] /\ snapshot' = [snapshot EXCEPT ![i] = snapshot[i]]
        /\ evidence' = [evidence EXCEPT ![i] = evidence[i]]
    BY <1>0, <1>6, Zenon DEF ArchivesInstall, row
  <2>3. installation'[i] = row /\ snapshot'[i] = snapshot[i] /\ evidence'[i] = evidence[i]
    BY <1>0, <2>2, Zenon
  <2>5. RowArchives(i)
    BY <2>0, <2>1, <2>3, ZenonT(40) DEF RowArchives
  <2> QED BY <1>2, <2>1, <2>2, <2>5, ZenonT(40)
<1> QED BY <1>1, <1>3, <1>4, <1>5, <1>6, ZenonT(40) DEF InstallMoves

LEMMA InstallTypes ==
    ASSUME RvInv, InstallMoves
    PROVE  /\ installation' \in [Install -> InstallRow \cup {NoInstall}]
           /\ snapshot' \in [Install -> Seq(Snapshot)]
           /\ evidence' \in [Install -> [ver : Version, policy : Nat] \cup {NoOne}]
<1>0. /\ AcTypeOK /\ installation \in [Install -> InstallRow \cup {NoInstall}]
      /\ snapshot \in [Install -> Seq(Snapshot)]
      /\ evidence \in [Install -> [ver : Version, policy : Nat] \cup {NoOne}]
  BY Zenon DEF RvInv, AcTypeOK
<1>1. ASSUME NEW j \in Install
      PROVE  /\ snapshot'[j] \in Seq(Snapshot)
             /\ evidence'[j] \in [ver : Version, policy : Nat] \cup {NoOne}
  <2>0. RowMoves(j)
    BY InstallRows, Zenon
  <2>1. CASE RowStays(j)
    BY <1>0, <2>1, ZenonT(40) DEF RowStays
  <2>2. CASE RowSigns(j)
    <3>1. PICK v \in Version : MayUse(v) /\ snapshot'[j] = Append(snapshot[j], Signed(v))
      BY <2>2, Zenon DEF RowSigns
    <3>2. Signed(v) \in Snapshot
      BY <1>0, <3>1, SignedIsExact, Zenon DEF MayUse
    <3> QED BY <1>0, <2>2, <3>1, <3>2, SMTT(40) DEF RowSigns
  <2>3. CASE RowActivates(j)
    <3>1. installation[j] \in InstallRow
      BY <1>0, <2>3, SMTT(40) DEF RowActivates, NoInstall
    <3>2. installation[j].ver \in Version /\ Len(snapshot[j]) \in Nat
      BY <1>0, <3>1 DEF InstallRow
    <3> QED BY <1>0, <2>3, <3>2, SMTT(40) DEF RowActivates
  <2>4. CASE RowArchives(j)
    BY <1>0, <2>4, ZenonT(40) DEF RowArchives
  <2> QED BY <2>0, <2>1, <2>2, <2>3, <2>4, ZenonT(40) DEF RowMoves, RowBegins, RowSelects
<1>2. /\ \A j \in Install : RowMoves(j)
      /\ DOMAIN installation' = Install /\ DOMAIN snapshot' = Install /\ DOMAIN evidence' = Install
  BY InstallRows, Zenon
<1>3. /\ installation' = [j \in Install |-> installation'[j]]
      /\ snapshot' = [j \in Install |-> snapshot'[j]] /\ evidence' = [j \in Install |-> evidence'[j]]
  BY <1>0, ZenonT(40) DEF InstallMoves, BeginsInstall, Selects, Activates, ArchivesInstall, Signs
<1> QED BY <1>1, <1>2, <1>3, Zenon DEF RowMoves

LEMMA InstallsFit ==
    ASSUME RvInv, InstallMoves, VersionMoves, NEW j \in Install
    PROVE  InstallFits(j)'
<1>0. /\ AcTypeOK /\ InstallFits(j) /\ installation[j] \in InstallRow \cup {NoInstall}
      /\ snapshot[j] \in Seq(Snapshot) /\ Persists /\ RowMoves(j)
  BY RowsPersist, InstallRows, ZenonT(40) DEF RvInv, AcTypeOK
<1>1. \A s \in Snapshot : SignedFits(s) => SignedFits(s)'
  BY <1>0, SignedStays, Zenon
<1>2. \A n \in DOMAIN snapshot[j] : snapshot[j][n] \in Snapshot /\ SignedFits(snapshot[j][n])
  BY <1>0, SMTT(40) DEF InstallFits
<1>3. ASSUME snapshot'[j] = snapshot[j] PROVE \A n \in DOMAIN snapshot'[j] : SignedFits(snapshot[j][n])'
  <2> SUFFICES ASSUME NEW n \in DOMAIN snapshot[j] PROVE SignedFits(snapshot[j][n])'
    BY <1>3, Zenon
  <2>1. PICK s \in Snapshot : s = snapshot[j][n] /\ SignedFits(s)
    BY <1>2, Zenon
  <2>2. SignedFits(s)' /\ snapshot'[j][n] = s
    BY <1>1, <1>3, <2>1, Zenon
  <2> QED BY <2>2, ZenonT(40) DEF SignedFits
<1>4. CASE RowStays(j)
  BY <1>0, <1>3, <1>4, Zenon DEF RowStays, InstallFits
<1>5. ASSUME RowSigns(j), RowBegins(j) \/ RowSelects(j) PROVE InstallFits(j)'
  <2>1. PICK v \in Version : /\ MayUse(v) /\ installation'[j].ver = v
                             /\ snapshot'[j] = Append(snapshot[j], Signed(v))
    BY <1>5, Zenon DEF RowSigns
  <2>2. PICK t \in Snapshot : t = Signed(v) /\ SignedFits(t) /\ t.ver = v
    BY <1>0, <2>1, SignedIsExact, ZenonT(40) DEF MayUse
  <2>3. PICK l \in Nat : l = Len(snapshot[j])
    BY <1>0, SMTT(40)
  <2>4. /\ snapshot'[j] # <<>> /\ Len(snapshot'[j]) = l + 1 /\ DOMAIN snapshot'[j] = 1..(l + 1)
        /\ snapshot'[j][l + 1] = t /\ DOMAIN snapshot[j] = 1..l
        /\ \A n \in 1..l : snapshot'[j][n] = snapshot[j][n]
    <3>1. snapshot[j] \in Seq(Snapshot) /\ snapshot'[j] = Append(snapshot[j], t)
      BY <1>0, <2>1, <2>2, Zenon
    <3>2. Len(snapshot'[j]) = l + 1 /\ DOMAIN snapshot'[j] = 1..(l + 1) /\ DOMAIN snapshot[j] = 1..l
      BY <2>3, <3>1, SMTT(40)
    <3>3. snapshot'[j][l + 1] = t /\ \A n \in 1..l : snapshot'[j][n] = snapshot[j][n]
      BY <2>3, <3>1, SMTT(40)
    <3> QED BY <3>1, <3>2, <3>3, SMTT(40)
  <2>5. ASSUME NEW n \in 1..(l + 1) PROVE SignedFits(snapshot[j][n])'
    <3>1. PICK s \in Snapshot : s = snapshot'[j][n] /\ SignedFits(s)
      <4>1. CASE n = l + 1
        BY <2>2, <2>4, <4>1, Zenon
      <4>2. CASE n \in 1..l
        BY <1>2, <2>4, <4>2, Zenon
      <4> QED BY <2>5, <4>1, <4>2, SMTT(40)
    <3>2. SignedFits(s)'
      BY <1>1, <3>1, Zenon
    <3> QED BY <3>1, <3>2, Zenon DEF SignedFits
  <2>6. installation'[j] # NoInstall /\ snapshot'[j][Len(snapshot'[j])].ver = installation'[j].ver
    BY <1>5, <2>1, <2>2, <2>4 DEF RowBegins, RowSelects, NoInstall
  <2>7. CASE RowBegins(j)
    <3>1. snapshot[j] = <<>> /\ l = 0
      BY <1>0, <2>3, <2>7, ZenonT(40) DEF RowBegins, InstallFits
    <3>2. evidence'[j] = evidence[j] /\ evidence[j] = NoOne
      BY <1>0, <1>5, <3>1, ZenonT(40) DEF RowSigns, InstallFits
    <3> QED BY <2>4, <2>5, <2>6, <3>1, <3>2 DEF InstallFits
  <2>8. CASE RowSelects(j)
    <3>1. snapshot[j] # <<>> /\ installation'[j].status = "active" /\ evidence'[j] = evidence[j]
      BY <1>0, <1>5, <2>8 DEF RowSelects, RowSigns, InstallFits, NoInstall
    <3>2. 1 \in 1..l /\ snapshot'[j][1] = snapshot[j][1]
      BY <1>0, <2>3, <2>4, <3>1
    <3>3. evidence'[j] # NoOne => evidence'[j] = [ver |-> snapshot'[j][1].ver, policy |-> 1]
      BY <1>0, <3>1, <3>2, Zenon DEF InstallFits
    <3> QED BY <2>4, <2>5, <2>6, <3>1, <3>3, Zenon DEF InstallFits
  <2> QED BY <1>5, <2>7, <2>8, Zenon
<1>6. CASE RowActivates(j)
  <2>1. /\ snapshot'[j] = snapshot[j] /\ snapshot[j] # <<>> /\ Len(snapshot[j]) = 1
        /\ snapshot[j][1].ver = installation[j].ver
    BY <1>0, <1>6 DEF RowActivates, InstallFits, NoInstall
  <2>2. evidence'[j] = [ver |-> snapshot'[j][1].ver, policy |-> 1]
    BY <1>6, <2>1, ZenonT(40) DEF RowActivates
  <2>3. installation'[j].status = "active" /\ installation'[j].ver = installation[j].ver /\ installation'[j] # NoInstall
    BY <1>6, SMTT(40) DEF RowActivates, NoInstall
  <2> QED BY <1>3, <2>1, <2>2, <2>3, Zenon DEF InstallFits
<1>7. CASE RowArchives(j)
  <2>1. /\ snapshot'[j] = snapshot[j] /\ snapshot[j] # <<>> /\ evidence'[j] = evidence[j]
        /\ snapshot[j][Len(snapshot[j])].ver = installation[j].ver
    BY <1>0, <1>7 DEF RowArchives, InstallFits, NoInstall
  <2>2. installation'[j].status = "archived" /\ installation'[j].ver = installation[j].ver /\ installation'[j] # NoInstall
    BY <1>7 DEF RowArchives, NoInstall
  <2> QED BY <1>0, <1>3, <2>1, <2>2, ZenonT(40) DEF InstallFits
<1> QED BY <1>0, <1>4, <1>5, <1>6, <1>7, ZenonT(40) DEF RowMoves, RowBegins, RowSelects

LEMMA InstallKeysKept ==
    ASSUME RvInv, InstallMoves, CallMoves
    PROVE  /\ \A i \in Install : InstallKeyTaken(i)'
           /\ \A i, j \in Install :
                 installation'[i] # NoInstall /\ installation'[i].made = installation'[j].made => i = j
<1>0. /\ acRecord \subseteq acRecord' /\ \A i \in Install : InstallKeyTaken(i) /\ RowMoves(i)
      /\ \A i, j \in Install : RowStays(i) \/ RowStays(j) \/ i = j
      /\ \A i, j \in Install :
            installation[i] # NoInstall /\ installation[i].made = installation[j].made => i = j
      /\ installation \in [Install -> InstallRow \cup {NoInstall}]
  BY RecordsGrow, InstallRows, ZenonT(40) DEF RvInv, OneRowPerKey, AcTypeOK
<1>1. ASSUME NEW i \in Install
      PROVE  /\ InstallKeyTaken(i)'
             /\ \/ installation'[i] = installation[i]
                \/ installation[i] = NoInstall /\ installation'[i].made \notin acRecord
                \/ installation[i] # NoInstall /\ installation'[i].made = installation[i].made
  <2>1. InstallKeyTaken(i) /\ RowMoves(i)
    BY <1>0, Zenon
  <2>2. CASE RowStays(i)
    BY <1>0, <2>1, <2>2, ZenonT(40) DEF RowStays, InstallKeyTaken
  <2>3. CASE RowBegins(i)
    BY <2>3, Zenon DEF RowBegins, InstallKeyTaken
  <2>4. CASE RowSelects(i) \/ RowActivates(i) \/ RowArchives(i)
    <3>1. installation[i] # NoInstall /\ installation'[i].made = installation[i].made
      BY <2>4 DEF RowSelects, RowActivates, RowArchives, NoInstall
    <3> QED BY <1>0, <2>1, <3>1, Zenon DEF InstallKeyTaken
  <2> QED BY <2>1, <2>2, <2>3, <2>4, Zenon DEF RowMoves
<1>2. \A i \in Install : installation[i] = NoInstall => installation[i].made = NotMade
  BY DEF NoInstall
<1>3. ASSUME NEW i \in Install, NEW j \in Install, i # j, installation'[i] # NoInstall,
             installation'[i].made = installation'[j].made
      PROVE  FALSE
  <2>1. installation'[i].made.owner \in User
    <3>1. installation'[i] \in InstallRow
      BY <1>0, <1>3, Zenon DEF RowMoves
    <3> QED BY <3>1, ZenonT(40) DEF InstallRow
  <2>2. installation'[i].made # NotMade
    BY <2>1, AgentParameters, SMTT(40) DEF NotMade, Made
  <2>3. CASE RowStays(i)
    <3>1. installation[i] # NoInstall /\ installation[i].made \in acRecord /\ installation'[i] = installation[i]
      BY <1>0, <1>3, <2>3, Zenon DEF RowStays, InstallKeyTaken
    <3> QED BY <1>0, <1>1, <1>2, <1>3, <3>1, <2>2, Zenon
  <2>4. CASE RowStays(j)
    <3>1. installation'[j] = installation[j] /\ installation[j] # NoInstall /\ installation[j].made \in acRecord
      BY <1>0, <1>2, <1>3, <2>2, <2>4, ZenonT(40) DEF RowStays, InstallKeyTaken
    <3> QED BY <1>0, <1>1, <1>2, <1>3, <3>1, <2>2, ZenonT(40)
  <2> QED BY <1>0, <1>3, <2>3, <2>4, Zenon
<1> QED BY <1>1, <1>3, Zenon

LEMMA BindingsKept ==
    ASSUME RvInv, InstallMoves, BindingMoves
    PROVE  /\ binding' \subseteq [inst : Install, ver : Version, policy : Nat, profile : Profile]
           /\ \A b \in binding' : BindingFits(b)'
<1>0. /\ installation \in [Install -> InstallRow \cup {NoInstall}]
      /\ snapshot \in [Install -> Seq(Snapshot)]
      /\ binding \subseteq [inst : Install, ver : Version, policy : Nat, profile : Profile]
      /\ \A b \in binding : BindingFits(b)
      /\ \A i \in Install : RowMoves(i) /\ InstallFits(i)
  BY InstallRows, ZenonT(40) DEF RvInv, AcTypeOK
<1>1. ASSUME NEW b \in binding PROVE BindingFits(b)'
  <2>1. PICK i \in Install : i = b.inst
    BY <1>0, Zenon
  <2>2. /\ installation[i].status \in {"active", "archived"} /\ b.profile = installation[i].profile
        /\ b.policy \in DOMAIN snapshot[i] /\ snapshot[i][b.policy].ver = b.ver /\ RowMoves(i)
    BY <1>0, <2>1, Zenon DEF BindingFits
  <2>3. CASE RowStays(i)
    BY <2>1, <2>2, <2>3, ZenonT(40) DEF RowStays, BindingFits
  <2>4. CASE RowSelects(i)
    <3>1. PICK v \in Version : snapshot'[i] = Append(snapshot[i], Signed(v))
      BY <2>4, Zenon DEF RowSelects, RowSigns
    <3>2. b.policy \in DOMAIN snapshot'[i] /\ snapshot'[i][b.policy] = snapshot[i][b.policy]
      BY <1>0, <2>2, <3>1
    <3> QED BY <2>1, <2>2, <2>4, <3>2, ZenonT(40) DEF RowSelects, BindingFits
  <2>5. CASE RowArchives(i)
    BY <2>1, <2>2, <2>5, Zenon DEF RowArchives, BindingFits
  <2>6. ~RowBegins(i) /\ ~RowActivates(i)
    BY <2>2 DEF RowBegins, RowActivates, NoInstall
  <2> QED BY <2>2, <2>3, <2>4, <2>5, <2>6, ZenonT(40) DEF RowMoves
<1>2. CASE UNCHANGED binding
  BY <1>0, <1>1, <1>2, Zenon
<1>3. ASSUME NEW i \in Install, installation[i].status = "active", installation[i].profile \in Profile,
             UNCHANGED <<installation, snapshot>>,
             binding' = binding \cup {[inst |-> i, ver |-> installation[i].ver, policy |-> Len(snapshot[i]),
                                       profile |-> installation[i].profile]}
      PROVE  /\ binding' \subseteq [inst : Install, ver : Version, policy : Nat, profile : Profile]
             /\ \A b \in binding' : BindingFits(b)'
  <2> DEFINE new == [inst |-> i, ver |-> installation[i].ver, policy |-> Len(snapshot[i]),
                     profile |-> installation[i].profile]
  <2>1. installation[i] \in InstallRow /\ installation[i] # NoInstall
    BY <1>0, <1>3 DEF NoInstall
  <2>2. installation[i].ver \in Version /\ Len(snapshot[i]) \in Nat
    BY <1>0, <2>1, SMTT(40) DEF InstallRow
  <2>3. PICK b : b = new
    BY ZenonT(40)
  <2>4. /\ b \in [inst : Install, ver : Version, policy : Nat, profile : Profile]
        /\ b.inst = i /\ b.ver = installation[i].ver /\ b.policy = Len(snapshot[i])
        /\ b.profile = installation[i].profile
    BY <1>3, <2>2, <2>3, Zenon
  <2>5. snapshot[i] # <<>> /\ snapshot[i][Len(snapshot[i])].ver = installation[i].ver
    BY <1>0, <2>1, Zenon DEF InstallFits
  <2>6. Len(snapshot[i]) \in DOMAIN snapshot[i]
    BY <1>0, <2>5, SMTT(40)
  <2>7. BindingFits(b)'
    BY <1>3, <2>4, <2>5, <2>6, ZenonT(40) DEF BindingFits
  <2>8. binding' = binding \cup {b}
    BY <1>3, <2>3, Zenon
  <2> QED BY <1>0, <1>1, <2>4, <2>7, <2>8, Zenon
<1> QED BY <1>2, <1>3, Zenon DEF BindingMoves

\* What a call in a slot has checked is still true after a step that leaves the slot alone.
LEMMA CallStays ==
    ASSUME RvInv, VersionMoves, InstallMoves, NEW c \in Slot, acCall'[c] = acCall[c]
    PROVE  LET call == acCall[c] IN
           /\ call.op \in {"install", "select"} => call.ver \notin call.saw /\ version'[call.ver] # NoVersion
           /\ call.op = "select" => installation'[call.inst].status = "active"
<1>0. acCall \in [Slot -> Call] /\ CallFits(c) /\ Persists
  BY RowsPersist, Zenon DEF RvInv, AcTypeOK
<1>1. PICK x \in Call : x = acCall[c]
  BY <1>0, Zenon
<1>2. ASSUME x.op \in {"install", "select"} PROVE x.ver \notin x.saw /\ version'[x.ver] # NoVersion
  <2>1. x.ver \in Version
    BY <1>2, SMTT(40) DEF Call, NoCall
  <2> QED BY <1>0, <1>1, <1>2, <2>1, ZenonT(40) DEF CallFits, Persists
<1>3. ASSUME x.op = "select" PROVE installation'[x.inst].status = "active"
  <2>1. x.inst \in Install
    BY <1>3 DEF Call, NoCall
  <2>2. installation[x.inst].status = "active"
    BY <1>0, <1>1, <1>3, Zenon DEF CallFits
  <2>3. ~RowArchives(x.inst)
    BY <1>1, <1>3, Zenon DEF RowArchives, Unlocked
  <2>4. RowMoves(x.inst)
    BY <2>1, InstallRows, Zenon
  <2> QED BY <2>2, <2>3, <2>4 DEF RowMoves, RowStays, RowBegins, RowSelects, RowActivates, NoInstall
<1> QED BY <1>1, <1>2, <1>3, Zenon

LEMMA CallTypes == AcTypeOK /\ CallMoves => acCall' \in [Slot -> Call]
<1> SUFFICES ASSUME AcTypeOK, CallMoves PROVE acCall' \in [Slot -> Call]
  BY Zenon
<1>1. NoCall \in Call /\ acCall \in [Slot -> Call]
  BY ZenonT(40) DEF Call, AcTypeOK
<1> HIDE DEF Call
<1> QED BY <1>1, Zenon DEF CallMoves, CallBegins, CallEnds

\* The keys that calls hold are free and different, whatever is recorded meanwhile.
LEMMA HeldKeysFree ==
    ASSUME RvInv, CallMoves, NEW c \in Slot, acCall'[c].op = "install"
    PROVE  /\ Made(acCall'[c].user, "install", acCall'[c].key) \notin acRecord'
           /\ \A e \in Slot \ {c} :
                 ~(acCall'[e].op = "install" /\ acCall'[e].user = acCall'[c].user /\ acCall'[e].key = acCall'[c].key)
<1>0. acCall \in [Slot -> Call] /\ \A e \in Slot : CallFits(e)
  BY ZenonT(40) DEF RvInv, AcTypeOK
<1>1. \A e \in Slot : acCall[e].op = "install" =>
         /\ Made(acCall[e].user, "install", acCall[e].key) \notin acRecord
         /\ \A f \in Slot \ {e} :
               ~(acCall[f].op = "install" /\ acCall[f].user = acCall[e].user /\ acCall[f].key = acCall[e].key)
  BY <1>0, ZenonT(40) DEF CallFits
<1>2. CASE UNCHANGED <<acCall, acRecord>>
  BY <1>1, <1>2, Zenon
<1>3. ASSUME UNCHANGED acCall, NEW o, NEW op, NEW k, NewRecord(o, op, k)
      PROVE  Made(acCall'[c].user, "install", acCall'[c].key) \notin acRecord'
  <2>1. Made(o, op, k) # Made(acCall[c].user, "install", acCall[c].key)
    <3>1. CASE op = "install"
      BY <1>3, <3>1, Zenon DEF NewRecord, KeyFree, Made
    <3>2. CASE op # "install"
      BY <3>2, Zenon DEF Made
    <3> QED BY <3>1, <3>2, Zenon
  <2> QED BY <1>1, <1>3, <2>1, Zenon DEF NewRecord
<1>4. ASSUME NEW d \in Slot, NEW x \in Call, CallBegins(d, x)
      PROVE  /\ Made(acCall'[c].user, "install", acCall'[c].key) \notin acRecord'
             /\ \A e \in Slot \ {c} : ~(/\ acCall'[e].op = "install" /\ acCall'[e].user = acCall'[c].user
                                        /\ acCall'[e].key = acCall'[c].key)
  <2>1. acCall'[d] = x /\ acRecord' = acRecord /\ \A e \in Slot : e # d => acCall'[e] = acCall[e]
    BY <1>0, <1>4, ZenonT(40) DEF CallBegins
  <2>2. x.op = "install" => /\ Made(x.user, "install", x.key) \notin acRecord
                            /\ \A e \in Slot : ~(acCall[e].op = "install" /\ acCall[e].user = x.user /\ acCall[e].key = x.key)
    BY <1>4, Zenon DEF CallBegins, KeyFree
  <2> QED BY <1>1, <2>1, <2>2, ZenonT(40)
<1>5. ASSUME NEW d \in Slot, CallEnds(d)
      PROVE  /\ Made(acCall'[c].user, "install", acCall'[c].key) \notin acRecord'
             /\ \A e \in Slot \ {c} : ~(/\ acCall'[e].op = "install" /\ acCall'[e].user = acCall'[c].user
                                        /\ acCall'[e].key = acCall'[c].key)
  <2>1. acCall'[d] = NoCall /\ \A e \in Slot : e # d => acCall'[e] = acCall[e]
    BY <1>0, <1>5, Zenon DEF CallEnds
  <2>2. c # d /\ acCall[c].op = "install" /\ acCall'[c] = acCall[c] /\ acCall'[d].op # "install"
    BY <2>1, SMTT(40) DEF NoCall
  <2>3. acCall[d].op = "install" =>
           Made(acCall[d].user, "install", acCall[d].key) # Made(acCall[c].user, "install", acCall[c].key)
    BY <1>1, <2>2, Zenon DEF Made
  <2>4. Made(acCall[c].user, "install", acCall[c].key) \notin acRecord'
    BY <1>1, <1>5, <2>2, <2>3, Zenon DEF CallEnds
  <2> QED BY <1>1, <2>1, <2>2, <2>4, ZenonT(40)
<1>6. CASE UNCHANGED acCall /\ \E o \in User \cup Team, k \in Key,
              op \in {"initial", "next", "install", "revoke", "submit", "withdraw", "review",
                      "candidate", "candidate_review"} : NewRecord(o, op, k)
  BY <1>1, <1>3, <1>6, Zenon
<1> QED BY <1>2, <1>4, <1>5, <1>6, ZenonT(40) DEF CallMoves

LEMMA CallsKept ==
    ASSUME RvInv, VersionMoves, InstallMoves, CallMoves, NEW c \in Slot
    PROVE  CallFits(c)'
<1>0. acCall \in [Slot -> Call]
  BY ZenonT(40) DEF RvInv, AcTypeOK
<1>1. CASE acCall'[c] = acCall[c]
  BY <1>1, CallStays, HeldKeysFree, ZenonT(40) DEF CallFits
<1>2. ASSUME NEW d \in Slot, NEW x \in Call, CallBegins(d, x), d = c PROVE CallFits(c)'
  <2>1. acCall'[c] = x /\ UNCHANGED <<installation, version>>
    BY <1>0, <1>2, Zenon DEF CallBegins
  <2>2. /\ x.op \in {"install", "select"} => x.ver \notin x.saw /\ version[x.ver] # NoVersion
        /\ x.op = "select" => installation[x.inst].status = "active"
    BY <1>2, Zenon DEF CallBegins
  <2> QED BY <2>1, <2>2, HeldKeysFree, Zenon DEF CallFits
<1>3. CASE acCall'[c] = NoCall
  BY <1>3, SMTT(40) DEF CallFits, NoCall
<1>4. acCall'[c] = acCall[c] \/ acCall'[c] = NoCall \/ \E x \in Call : CallBegins(c, x)
  BY <1>0, Zenon DEF CallMoves, CallBegins, CallEnds
<1> QED BY <1>1, <1>2, <1>3, <1>4, Zenon

LEMMA RevokedKept ==
    ASSUME RvInv, VersionMoves, RevokedMoves
    PROVE  revoked' \subseteq Version /\ \A v \in revoked' : RevokedFits(v)'
<1>0. AcTypeOK /\ Persists /\ revoked \subseteq Version /\ \A v \in revoked : RevokedFits(v)
  BY RowsPersist, ZenonT(40) DEF RvInv, AcTypeOK
<1>1. ASSUME NEW v \in Version, RevokedFits(v) PROVE RevokedFits(v)'
  <2>1. version'[v] = version[v] /\ version[v] # NoVersion /\ version[v].def \in Definition
    BY <1>0, <1>1, ZenonT(40) DEF RevokedFits, Persists, AcTypeOK
  <2>2. definition[version[v].def].owner \in User
    BY <1>1, Zenon DEF RevokedFits, OwnerOf
  <2>3. definition[version[v].def] # NoDefinition
    BY <2>2, AgentParameters, SMTT(40) DEF NoDefinition
  <2>4. definition'[version[v].def].owner \in User
    BY <1>0, <2>1, <2>2, <2>3, Zenon DEF Persists
  <2> QED BY <2>1, <2>4, Zenon DEF RevokedFits, OwnerOf
<1> QED BY <1>0, <1>1, Zenon DEF RevokedMoves

LEMMA SubmissionsKept ==
    ASSUME RvInv, VersionMoves, OrgSubmissionMoves
    PROVE  /\ submission' \in [Submission -> OrganizationSubmission \cup {NoSubmission}]
           /\ \A s \in Submission : SubmissionFits(s)'
<1>0. /\ AcTypeOK /\ Persists /\ submission \in [Submission -> OrganizationSubmission \cup {NoSubmission}]
      /\ \A s \in Submission : SubmissionFits(s)
  BY RowsPersist, Zenon DEF RvInv, RvTypeOK
<1>1. ASSUME NEW s \in Submission, submission'[s] = submission[s] PROVE SubmissionFits(s)'
  <2>1. CASE submission[s] = NoSubmission
    BY <1>1, <2>1, ZenonT(40) DEF SubmissionFits
  <2>2. CASE submission[s] # NoSubmission
    <3>1. PICK x \in OrganizationSubmission : x = submission[s]
      BY <1>0, <2>2, Zenon
    <3>2. /\ x.def \in Definition /\ x.base \in Version \cup {NoOne} /\ x.ver \in Version \cup {NoOne}
      BY Zenon DEF OrganizationSubmission
    <3>3. /\ validOrganizationSubmissionState(x)
          /\ x.base # NoOne => /\ version[x.base] # NoVersion /\ version[x.base].def = x.def
                               /\ definition[x.def] # NoDefinition /\ definition[x.def].owner = x.org
          /\ x.status = "approved" =>
                /\ version[x.ver].def = x.def /\ version[x.ver].wants = x.wants
                /\ version[x.ver].number = IF x.base = NoOne THEN 1 ELSE version[x.base].number + 1
                /\ ~IntersectOrganizationAgentPolicy(DefaultPolicyDocument, x.under, x.wants).blocked
          /\ x.status = "superseded" =>
                /\ x.base # NoOne
                /\ version[definition[x.def].latest].number > version[x.base].number
      BY <1>0, <2>2, <3>1, ZenonT(40) DEF SubmissionFits
    <3>4. x.base # NoOne => /\ version'[x.base] = version[x.base] /\ version[x.base].number \in Nat
                            /\ definition'[x.def] # NoDefinition /\ definition'[x.def].owner = definition[x.def].owner
      BY <1>0, <3>2, <3>3, ZenonT(40) DEF Persists, AcTypeOK
    <3>5. ASSUME x.status = "approved" PROVE version'[x.ver] = version[x.ver]
      <4>1. x.ver # NoOne
        BY <3>3, <3>5, Zenon DEF validOrganizationSubmissionState
      <4>2. version[x.ver] # NoVersion
        BY <3>2, <3>3, <3>5, AgentParameters DEF NoVersion
      <4> QED BY <1>0, <3>2, <4>1, <4>2, ZenonT(40) DEF Persists
    <3>6. ASSUME x.status = "superseded"
          PROVE  version'[definition'[x.def].latest].number > version'[x.base].number
      <4>1. PICK l : l = version[definition[x.def].latest].number
        BY Zenon
      <4>2. PICK m : m = version'[definition'[x.def].latest].number
        BY Zenon
      <4>3. PICK b : b = version[x.base].number
        BY Zenon
      <4>4. l > b /\ b \in Nat /\ version'[x.base].number = b
        BY <3>3, <3>4, <3>6, <4>1, <4>3, ZenonT(40)
      <4>5. m \in Nat /\ m >= l
        BY <1>0, <3>2, <3>3, <3>6, <4>1, <4>2, ZenonT(40) DEF Persists
      <4>6. l \in Nat
        BY <3>2, <3>3, <3>6, <4>1, HeadNumbers, ZenonT(40)
      <4> QED BY <4>2, <4>4, <4>5, <4>6
    <3> QED BY <1>1, <3>1, <3>3, <3>4, <3>5, <3>6, ZenonT(40) DEF SubmissionFits
  <2> QED BY <2>1, <2>2, Zenon
<1>2. CASE UNCHANGED submission
  BY <1>0, <1>1, <1>2, Zenon
<1>3. ASSUME NEW s \in Submission, NEW x \in OrganizationSubmission,
             submission' = [submission EXCEPT ![s] = x], SubmissionFits(s)'
      PROVE  /\ submission' \in [Submission -> OrganizationSubmission \cup {NoSubmission}]
             /\ \A t \in Submission : SubmissionFits(t)'
  <2>1. \A t \in Submission : t # s => submission'[t] = submission[t]
    BY <1>0, <1>3, Zenon
  <2> QED BY <1>0, <1>1, <1>3, <2>1, Zenon
<1> QED BY <1>2, <1>3, Zenon DEF OrgSubmissionMoves

LEMMA RowTypesKept ==
    ASSUME RvInv, RvMoves
    PROVE  AcTypeOK' /\ RvTypeOK'
<1>0. AcTypeOK /\ RvTypeOK
  BY Zenon DEF RvInv
<1>1. /\ installation' \in [Install -> InstallRow \cup {NoInstall}]
      /\ snapshot' \in [Install -> Seq(Snapshot)]
      /\ evidence' \in [Install -> [ver : Version, policy : Nat] \cup {NoOne}]
  BY InstallTypes, Zenon DEF RvMoves
<1>2. binding' \subseteq [inst : Install, ver : Version, policy : Nat, profile : Profile]
  BY BindingsKept, Zenon DEF RvMoves
<1>3. acCall' \in [Slot -> Call]
  BY <1>0, CallTypes, Zenon DEF RvMoves
<1>4. revoked' \subseteq Version
  BY RevokedKept, Zenon DEF RvMoves
<1>5. submission' \in [Submission -> OrganizationSubmission \cup {NoSubmission}]
  BY SubmissionsKept, Zenon DEF RvMoves
<1>6. candidate' \in [Candidate -> ExperienceCandidate \cup {NoCandidate}]
  BY <1>0, Zenon DEF RvMoves, CandidateMoves, RvTypeOK
<1>7. /\ definition' \in [Definition -> DefinitionRow \cup {NoDefinition}] /\ DOMAIN version' = Version
      /\ \A v \in Version : version'[v] # NoVersion =>
            version'[v].def \in Definition /\ version'[v].number \in Nat /\ version'[v].wants \in Manifest
  <2>1. CASE UNCHANGED <<definition, version>>
    BY <1>0, <2>1, ZenonT(40) DEF AcTypeOK
  <2>2. ASSUME NEW o \in User \cup Team, NEW d \in Definition, NEW v \in Version, NEW wants \in Manifest,
               NEW m \in Requests, NewVersion(o, d, v, wants, m)
        PROVE  /\ definition' \in [Definition -> DefinitionRow \cup {NoDefinition}] /\ DOMAIN version' = Version
               /\ \A w \in Version : version'[w] # NoVersion =>
                     version'[w].def \in Definition /\ version'[w].number \in Nat /\ version'[w].wants \in Manifest
    <3>1. /\ definition' \in [Definition -> DefinitionRow \cup {NoDefinition}] /\ DOMAIN version' = Version
          /\ version'[v].def = d /\ version'[v].number \in Nat /\ version'[v].wants = wants
          /\ \A w \in Version : w # v => version'[w] = version[w]
      BY <2>2, NewVersionRows
    <3> QED BY <1>0, <3>1, ZenonT(40) DEF AcTypeOK
  <2> QED BY <2>1, <2>2, ZenonT(40) DEF RvMoves, VersionMoves
<1>8. PeopleOK'
  BY Zenon DEF RvMoves
<1> HIDE DEF RvMoves
<1>9. AcTypeOK'
  BY <1>1, <1>2, <1>3, <1>4, <1>7, <1>8, Zenon DEF AcTypeOK, PeopleOK
<1> QED BY <1>5, <1>6, <1>9, Zenon DEF RvTypeOK

-----------------------------------------------------------------------------
(* Agents of users and teams: the whole invariant *)

\* The facts about finite sets that the proofs rest on, a hypothesis of the lemmas
\* that count and a consequence of the library's theorems.
Counting ==
    /\ IsFiniteSet({}) /\ Cardinality({}) = 0
    /\ \A x : Cardinality({x}) = 1
    /\ \A S : IsFiniteSet(S) => Cardinality(S) \in Nat
    /\ \A S, x : IsFiniteSet(S) /\ x \notin S =>
           IsFiniteSet(S \cup {x}) /\ Cardinality(S \cup {x}) = Cardinality(S) + 1

LEMMA VersionsKept ==
    ASSUME Counting, RvInv, VersionMoves, NEW e \in Definition
    PROVE  VersionsFit(e)'
<1>0. VersionsFit(e) /\ \A w \in VersionsOfDef(e) : version[w] # NoVersion
  BY HeadNumbers, Zenon DEF RvInv
<1>1. CASE UNCHANGED <<definition, version>>
  BY <1>0, <1>1, VersionsSame, Zenon DEF VersionsOfDef
<1>2. ASSUME NEW o \in User \cup Team, NEW d \in Definition, NEW v \in Version, NEW wants \in Manifest,
             NEW m \in Requests, NewVersion(o, d, v, wants, m)
      PROVE  VersionsFit(e)'
  <2> DEFINE n == IF definition[d] = NoDefinition THEN 1 ELSE version[definition[d].latest].number + 1
  <2>1. /\ version[v] = NoVersion /\ version'[v].def = d /\ version'[v].number = n
        /\ \A w \in Version : w # v => version'[w] = version[w]
        /\ definition'[d].latest = v /\ definition'[d] # NoDefinition
        /\ \A c \in Definition : c # d => definition'[c] = definition[c]
    BY <1>2, NewVersionRows, SMTT(40)
  <2>2. v \notin VersionsOfDef(e)
    BY <1>0, <2>1, Zenon
  <2>3. CASE e # d
    <3>1. VersionsOfDef(e)' = VersionsOfDef(e)
      BY <2>1, <2>2, <2>3, Zenon DEF VersionsOfDef
    <3>2. \A w \in VersionsOfDef(e) : version'[w] = version[w]
      BY <2>1, <2>2, Zenon DEF VersionsOfDef
    <3> QED BY <1>0, <2>1, <2>3, <3>1, <3>2, VersionsSame, ZenonT(40)
  <2>4. CASE e = d
    <3> DEFINE S == VersionsOfDef(d)
               c == Cardinality(S)
    <3>1. VersionsOfDef(d)' = S \cup {v}
      BY <2>1, <2>2, <2>4, ZenonT(40) DEF VersionsOfDef
    <3>2. IsFiniteSet(S) /\ {version[w].number : w \in S} = 1..c
      BY <1>0, <2>4, Zenon DEF VersionsFit
    <3>3. c \in Nat
      BY <3>2, Zenon DEF Counting
    <3>4. IsFiniteSet(S \cup {v}) /\ Cardinality(S \cup {v}) = c + 1
      BY <2>2, <2>4, <3>2, Zenon DEF Counting
    <3>5. n = c + 1
      <4>1. CASE definition[d] = NoDefinition
        <5>1. S = {}
          BY <1>0, <2>4, <4>1, Zenon DEF VersionsFit
        <5> QED BY <5>1, <4>1, Zenon DEF Counting
      <4>2. CASE definition[d] # NoDefinition
        BY <4>2, <2>4, <1>0, ZenonT(40) DEF VersionsFit
      <4> QED BY <4>1, <4>2, Zenon
    <3>6. \A w \in S : version'[w] = version[w] /\ version'[w].number \in 1..c
      <4>1. \A w \in S : version'[w] = version[w]
        BY <2>1, <2>2, <2>4, Zenon DEF VersionsOfDef
      <4> QED BY <3>2, <4>1, ZenonT(40)
    <3>7. {version'[w].number : w \in S \cup {v}} = {version[w].number : w \in S} \cup {c + 1}
      <4>1. version'[v].number = c + 1
        BY <2>1, <3>5, Zenon
      <4> QED BY <3>6, <4>1, Zenon
    <3>8. {version'[w].number : w \in S \cup {v}} = 1..(c + 1)
      BY <3>2, <3>3, <3>7, SMTT(40)
    <3>9. definition'[d].latest = v /\ version'[v].number = c + 1 /\ definition'[d] # NoDefinition
      BY <2>1, <3>5, Zenon
    <3> HIDE DEF S, c, n
    <3>10. \A w \in S \cup {v} : w # v => version'[w].number < version'[v].number
      BY <3>3, <3>6, <3>9, SMTT(40)
    <3> QED BY <2>4, <3>1, <3>4, <3>8, <3>9, <3>10, ZenonT(40) DEF VersionsFit
  <2> QED BY <2>3, <2>4, Zenon
<1> QED BY <1>1, <1>2, Zenon DEF VersionMoves

LEMMA RvMovesKeep ==
    ASSUME Counting
    PROVE  RvInv /\ RvMoves => RvInv'
<1> SUFFICES ASSUME RvInv, RvMoves PROVE RvInv'
  BY Zenon
<1>0. VersionMoves /\ InstallMoves /\ BindingMoves /\ CallMoves /\ RevokedMoves /\ OrgSubmissionMoves
  BY Zenon DEF RvMoves
<1>1. AcTypeOK' /\ RvTypeOK'
  BY RowTypesKept, Zenon
<1>2. \A d \in Definition : VersionsFit(d)'
  BY <1>0, VersionsKept, Zenon
<1>3. /\ \A v \in Version : KeyTaken(v)'
      /\ \A v, w \in Version : version'[v] # NoVersion /\ version'[v].made = version'[w].made => v = w
  BY <1>0, KeysKept, Zenon
<1>4. /\ \A i \in Install : InstallKeyTaken(i)'
      /\ \A i, j \in Install :
            installation'[i] # NoInstall /\ installation'[i].made = installation'[j].made => i = j
  BY <1>0, InstallKeysKept, Zenon
<1>5. \A i \in Install : InstallFits(i)'
  BY <1>0, InstallsFit, Zenon
<1>6. \A b \in binding' : BindingFits(b)'
  BY <1>0, BindingsKept, Zenon
<1>7. \A c \in Slot : CallFits(c)'
  BY <1>0, CallsKept, Zenon
<1>8. \A v \in revoked' : RevokedFits(v)'
  BY <1>0, RevokedKept, Zenon
<1>9. \A s \in Submission : SubmissionFits(s)'
  BY <1>0, SubmissionsKept, Zenon
<1>10. OneRowPerKey'
  BY <1>3, <1>4, Zenon DEF OneRowPerKey
<1> QED BY <1>1, <1>2, <1>3, <1>4, <1>5, <1>6, <1>7, <1>8, <1>9, <1>10, Zenon DEF RvInv

\* Every step makes such moves, or leaves the rows alone.
TeamStep == (AcNext /\ UNCHANGED <<submission, candidate>>) \/ RvNext

LEMMA AgentsMove == RvInv /\ [TeamStep]_rvVars => RvMoves \/ UNCHANGED rvVars
BY ControlMoves, ReviewMoves, Zenon DEF TeamStep

LEMMA RvKept ==
    ASSUME Counting
    PROVE  RvInv /\ [TeamStep]_rvVars => RvInv'
<1> SUFFICES ASSUME RvInv, UNCHANGED rvVars PROVE RvInv'
  BY AgentsMove, RvMovesKeep, Zenon
<1>0. /\ UNCHANGED <<acActive, acOpen, acRole, acPolicy, definition, version, revoked, installation, snapshot>>
      /\ UNCHANGED <<evidence, binding, acRecord, acCall, submission, candidate>>
  BY Zenon DEF rvVars, acVars, people, catalogue, installs
<1>1. VersionMoves /\ InstallMoves /\ BindingMoves /\ CallMoves /\ RevokedMoves
  BY <1>0, ZenonT(40) DEF VersionMoves, InstallMoves, BindingMoves, CallMoves, RevokedMoves
<1>2. OrgSubmissionMoves /\ CandidateMoves /\ PeopleOK'
  BY <1>0, Zenon DEF OrgSubmissionMoves, CandidateMoves, PeopleOK, RvInv, AcTypeOK
<1>3. RvMoves
  BY <1>1, <1>2, Zenon DEF RvMoves
<1> QED BY <1>3, RvMovesKeep, Zenon

LEMMA RvInitially ==
    ASSUME Counting
    PROVE  AcInit /\ RvInit => RvInv
<1> SUFFICES ASSUME AcInit, RvInit PROVE RvInv
  BY Zenon
<1>1. /\ version = [v \in Version |-> NoVersion] /\ definition = [d \in Definition |-> NoDefinition]
      /\ installation = [i \in Install |-> NoInstall] /\ snapshot = [i \in Install |-> <<>>]
      /\ evidence = [i \in Install |-> NoOne] /\ acCall = [c \in Slot |-> NoCall]
      /\ binding = {} /\ revoked = {} /\ acRecord = {}
      /\ submission = [s \in Submission |-> NoSubmission] /\ candidate = [c \in Candidate |-> NoCandidate]
  BY Zenon DEF AcInit, RvInit
<1>2. PeopleOK
  <2>1. DefaultPolicyDocument \in Policies
    BY Zenon DEF Policies
  <2>2. \A w \in WsTeam, u \in User : acRole[w][u] # "auditor"
    BY AgentParameters, Zenon DEF AcInit, Team
  <2> QED BY <2>1, <2>2, Zenon DEF PeopleOK, AcInit
<1>3. AcTypeOK
  <2>1. NoCall \in Call
    BY Zenon DEF Call
  <2> HIDE DEF Call
  <2> QED BY <1>1, <1>2, <2>1, SMTT(40) DEF AcTypeOK, PeopleOK
<1>4. RvTypeOK
  BY <1>1, Zenon DEF RvTypeOK
<1>5. \A d \in Definition : VersionsFit(d)
  <2>1. \A d \in Definition : VersionsOfDef(d) = {}
    BY <1>1, AgentParameters, ZenonT(40) DEF VersionsOfDef, NoVersion
  <2>2. IsFiniteSet({}) /\ Cardinality({}) = 0
    BY Zenon DEF Counting
  <2>3. \A d \in Definition : {version[v].number : v \in VersionsOfDef(d)} = 1..Cardinality(VersionsOfDef(d))
    <3>1. {version[v].number : v \in {}} = {} /\ 1..0 = {}
      OBVIOUS
    <3> QED BY <2>1, <2>2, <3>1, ZenonT(40)
  <2>4. \A d \in Definition : definition[d] = NoDefinition
    BY <1>1, Zenon
  <2> QED BY <2>1, <2>2, <2>3, <2>4, ZenonT(40) DEF VersionsFit
<1>6. \A v \in Version : KeyTaken(v)
  BY <1>1, Zenon DEF KeyTaken
<1>7. \A i \in Install : InstallKeyTaken(i) /\ InstallFits(i)
  <2>1. DOMAIN <<>> = {}
    OBVIOUS
  <2>2. \A i \in Install : installation[i] = NoInstall /\ snapshot[i] = <<>> /\ evidence[i] = NoOne
    BY <1>1, Zenon
  <2> QED BY <2>1, <2>2, Zenon DEF InstallKeyTaken, InstallFits
<1>8. OneRowPerKey
  BY <1>1, Zenon DEF OneRowPerKey
<1>9. \A c \in Slot : CallFits(c)
  BY <1>1, Zenon DEF CallFits, NoCall
<1>10. \A s \in Submission : SubmissionFits(s)
  BY <1>1, Zenon DEF SubmissionFits
<1> QED BY <1>1, <1>3, <1>4, <1>5, <1>6, <1>7, <1>8, <1>9, <1>10, Zenon DEF RvInv

-----------------------------------------------------------------------------
(* Agents of users and teams: what follows from the invariant *)

LEMMA PoliciesConsequence == RvInv => PolicyFollowsSelection /\ BindingsMatchPolicies /\ SignedExactly
<1> SUFFICES ASSUME RvInv PROVE PolicyFollowsSelection /\ BindingsMatchPolicies /\ SignedExactly
  BY Zenon
<1>0. (\A i \in Install : InstallFits(i)) /\ \A b \in binding : BindingFits(b)
  BY Zenon DEF RvInv
<1>1. PolicyFollowsSelection
  BY <1>0, Zenon DEF PolicyFollowsSelection, InstallFits
<1>2. BindingsMatchPolicies
  BY <1>0, Zenon DEF BindingsMatchPolicies, BindingFits
<1>3. SignedExactly
  BY <1>0, ZenonT(40) DEF SignedExactly, InstallFits, SignedFits
<1> QED BY <1>1, <1>2, <1>3, Zenon

LEMMA VersionsConsequence == RvInv => VersionsInOrder /\ OneRowPerKey
<1> SUFFICES ASSUME RvInv PROVE VersionsInOrder
  BY Zenon DEF RvInv
<1> SUFFICES ASSUME NEW d \in Definition, {v \in Version : version[v].def = d} # {}
             PROVE  LET of == {v \in Version : version[v].def = d}
                    IN /\ {version[v].number : v \in of} = 1..Cardinality(of)
                       /\ version[definition[d].latest].number = Cardinality(of)
  BY Zenon DEF VersionsInOrder
<1>1. VersionsFit(d)
  BY Zenon DEF RvInv
<1>2. definition[d] # NoDefinition
  BY <1>1, Zenon DEF VersionsFit, VersionsOfDef
<1> QED BY <1>1, <1>2, ZenonT(40) DEF VersionsFit, VersionsOfDef

LEMMA ReviewsConsequence ==
    RvInv => SubmissionsReadable /\ ApprovedLineage /\ SupersededIsStale /\ PublishedUnderPolicy
<1> SUFFICES ASSUME RvInv PROVE SubmissionsReadable /\ ApprovedLineage /\ SupersededIsStale /\ PublishedUnderPolicy
  BY Zenon
<1>1. \A s \in Submission : SubmissionFits(s)
  BY Zenon DEF RvInv
<1>2. \A s \in Submission : submission[s].status \in {"approved", "superseded"} => submission[s] # NoSubmission
  BY SMTT(40) DEF NoSubmission
<1>3. SubmissionsReadable
  BY <1>1, ZenonT(40) DEF SubmissionsReadable, SubmissionFits
<1>4. ApprovedLineage
  BY <1>1, <1>2, ZenonT(40) DEF ApprovedLineage, SubmissionFits
<1>5. SupersededIsStale
  BY <1>1, <1>2, ZenonT(40) DEF SupersededIsStale, SubmissionFits
<1>6. PublishedUnderPolicy
  BY <1>1, <1>2, Zenon DEF PublishedUnderPolicy, SubmissionFits
<1> QED BY <1>3, <1>4, <1>5, <1>6, Zenon

LEMMA ReadsConsequence == RvInv => ReadsAgree
<1> SUFFICES ASSUME RvInv, NEW u \in acActive
             PROVE  /\ \A v \in Version : version[v] # NoVersion =>
                       LET d == version[v].def
                           listed == CASE OwnerOf(v) \in WsTeam ->
                                            {x \in ListWorkspaceVersions(u, OwnerOf(v), d) :
                                                d \in ListWorkspaceDefinitions(u, OwnerOf(v))}
                                       [] OwnerOf(v) \in OrgTeam ->
                                            {x \in ListOrganizationVersions(u, OwnerOf(v), d) :
                                                d \in ListOrganizationDefinitions(u, OwnerOf(v))}
                                       [] OTHER -> {x \in ListVersions(u, d) : d \in ListDefinitions(u)}
                           opened == CASE OwnerOf(v) \in WsTeam -> FindWorkspaceDefinition(u, OwnerOf(v), d)
                                       [] OwnerOf(v) \in OrgTeam -> FindOrganizationDefinition(u, OwnerOf(v), d)
                                       [] OTHER -> FindDefinition(u, d)
                       IN /\ FindVersion(u, v) <=> v \in listed
                          /\ FindVersion(u, v) <=> opened
                          /\ SourceAccess(u, v) => FindVersion(u, v)
                    /\ \A i \in Install : FindInstallation(u, i) =>
                       Len(snapshot[i]) \in FindPolicySnapshot(u, i)
  BY Zenon DEF ReadsAgree
<1>0. /\ AcTypeOK /\ u \in User /\ WsTeam \cap OrgTeam = {} /\ u # NoOne
      /\ acRole \in [Team -> [User -> {"owner", "admin", "auditor", "member", "none"}]]
      /\ \A w \in WsTeam, x \in User : acRole[w][x] # "auditor"
  BY AgentParameters, ZenonT(40) DEF RvInv, AcTypeOK
<1>1. ASSUME NEW i \in Install, FindInstallation(u, i) PROVE Len(snapshot[i]) \in FindPolicySnapshot(u, i)
  <2>1. installation[i] # NoInstall /\ installation[i].user = u
    BY <1>0, <1>1, SMTT(40) DEF FindInstallation, NoInstall
  <2>2. snapshot[i] # <<>> /\ snapshot[i] \in Seq(Snapshot)
    BY <2>1, ZenonT(40) DEF RvInv, AcTypeOK, InstallFits
  <2>3. Len(snapshot[i]) \in DOMAIN snapshot[i]
    BY <2>2
  <2> QED BY <2>1, <2>3, Zenon DEF FindPolicySnapshot
<1>2. ASSUME NEW v \in Version, version[v] # NoVersion, OwnerOf(v) \in WsTeam, OwnerOf(v) \notin OrgTeam
      PROVE  LET d == version[v].def IN
             /\ FindVersion(u, v) <=> requireWorkspaceAgentAccess(u, OwnerOf(v), "read")
             /\ requireWorkspaceAgentAccess(u, OwnerOf(v), "read") <=>
                   v \in {x \in ListWorkspaceVersions(u, OwnerOf(v), d) :
                              d \in ListWorkspaceDefinitions(u, OwnerOf(v))}
             /\ requireWorkspaceAgentAccess(u, OwnerOf(v), "read") <=> FindWorkspaceDefinition(u, OwnerOf(v), d)
             /\ SourceAccess(u, v) => requireWorkspaceAgentAccess(u, OwnerOf(v), "read")
  <2>0. version[v].def \in Definition /\ definition[version[v].def].owner = OwnerOf(v)
    BY <1>0, <1>2, ZenonT(40) DEF AcTypeOK, OwnerOf
  <2>1. FindVersion(u, v) <=> requireWorkspaceAgentAccess(u, OwnerOf(v), "read")
    <3>1. acRole[OwnerOf(v)][u] \in {"owner", "admin", "member", "none"}
      BY <1>0, <1>2, Zenon DEF Team
    <3>2. FindVersion(u, v) <=> /\ acRole[OwnerOf(v)][u] # "none"
                                /\ OwnerOf(v) \in acOpen /\ Owner[OwnerOf(v)] \in acActive
      BY <1>2, Zenon DEF FindVersion
    <3>3. requireWorkspaceAgentAccess(u, OwnerOf(v), "read") <=>
             /\ {u, Owner[OwnerOf(v)]} \subseteq acActive /\ OwnerOf(v) \in acOpen
             /\ acRole[OwnerOf(v)][u] \in {"owner", "admin", "member"}
      BY Zenon DEF requireWorkspaceAgentAccess
    <3> QED BY <3>1, <3>2, <3>3, ZenonT(40)
  <2>2. SourceAccess(u, v) => requireWorkspaceAgentAccess(u, OwnerOf(v), "read")
    <3>1. SourceAccess(u, v) => requireWorkspaceAgentAccess(u, OwnerOf(v), "install")
      BY <1>2, Zenon DEF SourceAccess
    <3> QED BY <3>1, Zenon DEF requireWorkspaceAgentAccess
  <2> QED BY <1>2, <2>0, <2>1, <2>2, ZenonT(40) DEF ListWorkspaceVersions, ListWorkspaceDefinitions, FindWorkspaceDefinition,
                                        VersionsOf, DefinitionsOf
<1>3. ASSUME NEW v \in Version, version[v] # NoVersion, OwnerOf(v) \in OrgTeam, OwnerOf(v) \notin WsTeam
      PROVE  LET d == version[v].def IN
             /\ FindVersion(u, v) <=> requireOrganizationAgentAccess(u, OwnerOf(v), "read")
             /\ requireOrganizationAgentAccess(u, OwnerOf(v), "read") <=>
                   v \in {x \in ListOrganizationVersions(u, OwnerOf(v), d) :
                              d \in ListOrganizationDefinitions(u, OwnerOf(v))}
             /\ requireOrganizationAgentAccess(u, OwnerOf(v), "read") <=>
                   FindOrganizationDefinition(u, OwnerOf(v), d)
             /\ SourceAccess(u, v) => requireOrganizationAgentAccess(u, OwnerOf(v), "read")
  <2>0. version[v].def \in Definition /\ definition[version[v].def].owner = OwnerOf(v)
    BY <1>0, <1>3, Zenon DEF AcTypeOK, OwnerOf
  <2>1. FindVersion(u, v) <=> requireOrganizationAgentAccess(u, OwnerOf(v), "read")
    BY <1>3, Zenon DEF FindVersion
  <2>2. SourceAccess(u, v) => requireOrganizationAgentAccess(u, OwnerOf(v), "read")
    <3>1. SourceAccess(u, v) => requireOrganizationAgentAccess(u, OwnerOf(v), "install")
      BY <1>3, Zenon DEF SourceAccess
    <3>2. \A r : organizationRoleAllows(r, "install") => organizationRoleAllows(r, "read")
      BY Zenon DEF organizationRoleAllows
    <3> QED BY <3>1, <3>2, Zenon DEF requireOrganizationAgentAccess
  <2> QED BY <1>3, <2>0, <2>1, <2>2, Zenon DEF ListOrganizationVersions, ListOrganizationDefinitions,
                                        FindOrganizationDefinition, VersionsOf, DefinitionsOf
<1>4. ASSUME NEW v \in Version, version[v] # NoVersion, OwnerOf(v) \notin OrgTeam, OwnerOf(v) \notin WsTeam
      PROVE  LET d == version[v].def IN
             /\ FindVersion(u, v) <=> OwnerOf(v) = u
             /\ OwnerOf(v) = u <=> v \in {x \in ListVersions(u, d) : d \in ListDefinitions(u)}
             /\ OwnerOf(v) = u <=> FindDefinition(u, d)
             /\ SourceAccess(u, v) => OwnerOf(v) = u
  <2>0. version[v].def \in Definition /\ definition[version[v].def].owner = OwnerOf(v)
    BY <1>0, <1>4, Zenon DEF AcTypeOK, OwnerOf
  <2>1. (FindVersion(u, v) <=> OwnerOf(v) = u) /\ (SourceAccess(u, v) => OwnerOf(v) = u)
    BY <1>4, Zenon DEF FindVersion, SourceAccess
  <2> QED BY <2>0, <2>1, ZenonT(40) DEF ListVersions, ListDefinitions, FindDefinition, VersionsOf, DefinitionsOf
<1>5. ASSUME NEW v \in Version, version[v] # NoVersion
      PROVE  LET d == version[v].def
                 listed == CASE OwnerOf(v) \in WsTeam ->
                                  {x \in ListWorkspaceVersions(u, OwnerOf(v), d) :
                                      d \in ListWorkspaceDefinitions(u, OwnerOf(v))}
                             [] OwnerOf(v) \in OrgTeam ->
                                  {x \in ListOrganizationVersions(u, OwnerOf(v), d) :
                                      d \in ListOrganizationDefinitions(u, OwnerOf(v))}
                             [] OTHER -> {x \in ListVersions(u, d) : d \in ListDefinitions(u)}
                 opened == CASE OwnerOf(v) \in WsTeam -> FindWorkspaceDefinition(u, OwnerOf(v), d)
                             [] OwnerOf(v) \in OrgTeam -> FindOrganizationDefinition(u, OwnerOf(v), d)
                             [] OTHER -> FindDefinition(u, d)
             IN /\ FindVersion(u, v) <=> v \in listed
                /\ FindVersion(u, v) <=> opened
                /\ SourceAccess(u, v) => FindVersion(u, v)
  <2>1. CASE OwnerOf(v) \in WsTeam /\ OwnerOf(v) \notin OrgTeam
    BY <1>2, <1>5, <2>1, Zenon
  <2>2. CASE OwnerOf(v) \in OrgTeam /\ OwnerOf(v) \notin WsTeam
    BY <1>3, <1>5, <2>2, Zenon
  <2>3. CASE OwnerOf(v) \notin OrgTeam /\ OwnerOf(v) \notin WsTeam
    BY <1>4, <1>5, <2>3, Zenon
  <2> QED BY <1>0, <2>1, <2>2, <2>3, Zenon
<1> QED BY <1>1, <1>5, Zenon

\* What steps never do to versions that were revoked, to archived installations
\* and to candidates that were reviewed
LEMMA RvSteps == RvInv /\ [TeamStep]_rvVars => RevokedStaysOut /\ ArchivedIsFinal /\ ReviewIsFinal
<1>0. ASSUME UNCHANGED rvVars PROVE RevokedStaysOut /\ ArchivedIsFinal /\ ReviewIsFinal
  <2>1. snapshot' = snapshot /\ installation' = installation /\ binding' = binding /\ candidate' = candidate
    BY <1>0, Zenon DEF rvVars, acVars, installs
  <2>2. RevokedStaysOut
    <3>1. \A i \in Install : ~(Len(snapshot[i]) > Len(snapshot[i]))
      OBVIOUS
    <3> QED BY <2>1, <3>1, Zenon DEF RevokedStaysOut
  <2> QED BY <2>1, <2>2, Zenon DEF ArchivedIsFinal, ReviewIsFinal
<1>1. ASSUME RvInv, RvMoves PROVE RevokedStaysOut /\ ArchivedIsFinal /\ ReviewIsFinal
  <2>0. /\ RvTypeOK /\ \A i \in Install : RowMoves(i) /\ snapshot[i] \in Seq(Snapshot)
    BY <1>1, InstallRows, ZenonT(40) DEF RvMoves, RvInv, AcTypeOK
  <2>1. RevokedStaysOut
    <3> SUFFICES ASSUME NEW i \in Install, Len(snapshot'[i]) > Len(snapshot[i]), installation'[i].ver \in revoked
                 PROVE  \E c \in Slot : /\ acCall[c].op \in {"install", "select"}
                                        /\ acCall[c].ver = installation'[i].ver
                                        /\ installation'[i].ver \notin acCall[c].saw
      BY Zenon DEF RevokedStaysOut
    <3>1. snapshot'[i] # snapshot[i]
      <4>1. Len(snapshot[i]) \in Nat
        BY <2>0, SMTT(40)
      <4> QED BY <4>1, SMTT(40)
    <3>2. RowSigns(i)
      BY <2>0, <3>1, ZenonT(40) DEF RowMoves, RowStays, RowBegins, RowSelects, RowActivates, RowArchives
    <3> QED BY <3>2, Zenon DEF RowSigns, MayUse
  <2>2. ArchivedIsFinal
    <3> SUFFICES ASSUME NEW i \in Install, installation[i].status = "archived"
                 PROVE  /\ installation'[i] = installation[i] /\ snapshot'[i] = snapshot[i]
                        /\ {b \in binding' : b.inst = i} = {b \in binding : b.inst = i}
      BY Zenon DEF ArchivedIsFinal
    <3>1. RowStays(i)
      <4>1. ~RowBegins(i)
        BY DEF RowBegins, NoInstall
      <4>2. ~RowSelects(i) /\ ~RowActivates(i) /\ ~RowArchives(i)
        BY ZenonT(40) DEF RowSelects, RowActivates, RowArchives
      <4> QED BY <2>0, <4>1, <4>2, Zenon DEF RowMoves
    <3>2. {b \in binding' : b.inst = i} = {b \in binding : b.inst = i}
      BY <1>1 DEF RvMoves, BindingMoves
    <3> QED BY <3>1, <3>2, Zenon DEF RowStays
  <2>3. ReviewIsFinal
    BY <1>1, <2>0, Zenon DEF RvMoves, CandidateMoves, RvTypeOK, ReviewIsFinal
  <2> QED BY <2>1, <2>2, <2>3, Zenon
<1> QED BY <1>0, <1>1, AgentsMove, Zenon
=============================================================================
