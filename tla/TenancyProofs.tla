---------------------------- MODULE TenancyProofs ----------------------------
(***************************************************************************)
(* Theorems about organizations and workspaces and the accounts in them:   *)
(* ownership, policies, limits, erasure, guarded memberships and what is   *)
(* read of them, for every number of users, organizations, workspaces,     *)
(* departments, invitations and keys, and every limit.                     *)
(***************************************************************************)
EXTENDS Tenancy, FiniteSets, TLAPS

OrgRow == [status : {"none", "active", "archived", "dissolved"}, revision : Nat, policy : Nat]
MemberRow == [role : OrgRole \cup {"none"}, department : Department \cup {NoDepartment}, revision : Nat]

OrgRows ==
    /\ account \in [User -> AccountStatus]
    /\ organization \in [Org -> OrgRow]
    /\ orgMember \in [Org -> [User -> MemberRow]]
    /\ department = [o \in Org |-> department[o]]

-----------------------------------------------------------------------------
(* Ownership.  The invariant names the owner; that an organization which    *)
(* does not exist has no membership row is what lets an account go that     *)
(* owns no existing one.                                                    *)

SoleOwner(o, u) == \A t \in User : RoleIn(o, t) = "owner" <=> t = u

Owned ==
    \A o \in Org : IF OrgExists(o) THEN \E u \in User : SoleOwner(o, u)
                   ELSE \A u \in User : orgMember[o][u] = NoMember

OwnershipInv == OrgRows /\ Owned /\ OwnersStay

\* The steps that touch neither accounts, organizations nor memberships
Aside ==
    \/ WsNext /\ UNCHANGED orgOwn
    \/ cleanupExpiredRows
    \/ \E o \in Org : Stock(o)
    \/ \E i \in OrgInvitation : OrgLapse(i)
    \/ \E u, o, i : OrgRevokeInvitation(u, o, i)
    \/ \E u, o, k : OrgCreateInvitation(u, o, k)

LEMMA WorkspacesKeepAccounts == WsNext => UNCHANGED account
<1>1. \A u, c : Begin(u, c) => UNCHANGED account
  BY Zenon DEF Begin
<1>2. \A u, op : Executing(u, op) => UNCHANGED account
  BY Zenon DEF Executing
<1>3. ASSUME NEW u, NEW w, RenameWorkspace(u, w) \/ ArchiveWorkspace(u, w) \/ RestoreWorkspace(u, w) \/ LeaveWorkspace(u, w)
      PROVE  UNCHANGED account
  BY <1>1, <1>2, <1>3, Zenon DEF RenameWorkspace, ArchiveWorkspace, RestoreWorkspace, LeaveWorkspace
<1>4. ASSUME NEW u, NEW w, NEW t, NEW role, WsServiceRemoveMember(u, w, t) \/ ChangeMemberRole(u, w, t, role)
      PROVE  UNCHANGED account
  BY <1>1, <1>2, <1>4, Zenon DEF WsServiceRemoveMember, ChangeMemberRole
<1>5. ASSUME NEW u, NEW w, NEW i, NEW k,
             CreateWorkspace(u, w, k) \/ WsServiceCreateInvitation(u, w, k) \/ WsServiceRevokeInvitation(u, w, i)
      PROVE  UNCHANGED account
  BY <1>1, <1>2, <1>5, Zenon DEF CreateWorkspace, WsServiceCreateInvitation, WsServiceRevokeInvitation
<1>6. \A u, i, k : WsServiceAcceptInvitation(u, i, k) \/ Admit(u) \/ WsRefused(u) \/ WsLapse(i) => UNCHANGED account
  BY <1>1, <1>2, Zenon DEF WsServiceAcceptInvitation, Admit, WsRefused, WsLapse
<1> QED BY <1>3, <1>4, <1>5, <1>6, Zenon DEF WsNext, WsCall

LEMMA OrganizationsKeepAccounts == OrgNext => UNCHANGED account
<1>1. \A x, o : OrgMemberStep(x, o) => UNCHANGED account
  BY Zenon DEF OrgMemberStep, OrgRename, OrgLeave, OrgRemoveMember, PatchMember, CreateDepartment, RenameDepartment,
               ArchiveOrRestoreDepartment, OrgRevokeInvitation, Outer
<1>2. \A x, o, k : OrgKeyedStep(x, o, k) => UNCHANGED account
  BY Zenon DEF OrgKeyedStep, OrgCreate, PublishPolicy, OrgCreateInvitation, OrgArchive, OrgRestore, Dissolve, TransferOwner, Outer
<1>3. \A x, o, i, k : OrgAcceptInvitation(x, i, k) \/ Stock(o) \/ OrgLapse(i) => UNCHANGED account
  BY Zenon DEF OrgAcceptInvitation, Stock, OrgLapse, Outer
<1> QED BY <1>1, <1>2, <1>3, Zenon DEF OrgNext

LEMMA AsideKeeps ==
    Aside => UNCHANGED <<account, organization, snapshots, orgMember, department>>
<1>1. cleanupExpiredRows => UNCHANGED <<account, organization, snapshots, orgMember, department>>
  BY Zenon DEF cleanupExpiredRows, expireOrganizationRows
<1>2. \A o, i : Stock(o) \/ OrgLapse(i) => UNCHANGED <<account, organization, snapshots, orgMember, department>>
  BY Zenon DEF Stock, OrgLapse
<1>3. \A u, o, i : OrgRevokeInvitation(u, o, i) => UNCHANGED <<account, organization, snapshots, orgMember, department>>
  BY Zenon DEF OrgRevokeInvitation, revokeInvitation, Outer
<1>4. ASSUME NEW u, NEW o, NEW k, OrgCreateInvitation(u, o, k)
      PROVE  UNCHANGED <<account, organization, snapshots, orgMember, department>>
  <2>1. PICK i : createInvitation(u, o, i, k) /\ Outer
    BY <1>4, Zenon DEF OrgCreateInvitation
  <2>2. UNCHANGED <<organization, snapshots, orgMember, department>>
    BY <2>1, Zenon DEF createInvitation
  <2> QED BY <2>1, <2>2, Zenon DEF Outer
<1> QED BY <1>1, <1>2, <1>3, <1>4, WorkspacesKeepAccounts, Zenon DEF Aside, orgOwn

\* A department comes, goes or is renamed.
DepartmentStep ==
    \E u \in User, o \in Org, d \in Department :
        \/ \E name \in DepartmentName : CreateDepartment(u, o, d, name) \/ RenameDepartment(u, o, d, name)
        \/ \E new \in {"active", "archived"} : ArchiveOrRestoreDepartment(u, o, d, new)

DepartmentsOf(o) == \A p \in Org \ {o} : department'[p] = department[p]

LEMMA DepartmentsKeep ==
    ASSUME OrgRows, DepartmentStep
    PROVE  /\ UNCHANGED <<account, organization, snapshots, orgMember, stocked>>
           /\ department' = [o \in Org |-> department'[o]]
           /\ \E o \in Org : OrgExists(o) /\ DepartmentsOf(o)
<1> DEFINE Kept(o) ==
        /\ OrgExists(o)
        /\ UNCHANGED <<account, organization, snapshots, orgMember, stocked>>
        /\ department' = [p \in Org |-> department'[p]]
        /\ DepartmentsOf(o)
<1>1. ASSUME NEW u, NEW o \in Org, NEW d, NEW name, CreateDepartment(u, o, d, name) PROVE Kept(o)
  BY <1>1, Zenon DEF CreateDepartment, createDepartment, requireActiveOrganizationMutation, Locked, Outer, OrgRows,
              DepartmentsOf
<1>2. ASSUME NEW u, NEW o \in Org, NEW d, NEW name, RenameDepartment(u, o, d, name) PROVE Kept(o)
  BY <1>2, Zenon DEF RenameDepartment, renameDepartment, requireActiveOrganizationMutation, Locked, Outer, OrgRows,
              DepartmentsOf
<1>3. ASSUME NEW u, NEW o \in Org, NEW d, NEW new, ArchiveOrRestoreDepartment(u, o, d, new) PROVE Kept(o)
  BY <1>3, Zenon DEF ArchiveOrRestoreDepartment, changeDepartmentLifecycle, requireActiveOrganizationMutation, Locked,
              Outer, OrgRows, DepartmentsOf
<1> HIDE DEF Kept
<1>4. \E o \in Org : Kept(o)
  BY <1>1, <1>2, <1>3, Zenon DEF DepartmentStep
<1> QED BY <1>4, Zenon DEF Kept

\* A step that leaves the memberships alone, and whether each organization exists
LEMMA LivesOn ==
    ASSUME OwnershipInv, UNCHANGED <<account, orgMember>>, OrgRows',
           \A o \in Org : OrgExists(o)' <=> OrgExists(o)
    PROVE  OwnershipInv'
<1>1. \A o \in Org, u \in User : SoleOwner(o, u)' <=> SoleOwner(o, u)
  BY Zenon DEF SoleOwner, RoleIn
<1>2. Owned'
  BY <1>1, Zenon DEF OwnershipInv, Owned
<1>3. OwnersStay'
  BY Zenon DEF OwnershipInv, OwnersStay, OwnersOf, RoleIn
<1> QED BY <1>2, <1>3, Zenon DEF OwnershipInv

\* The steps that write the organization's own row and nothing of its members
RowStep == \E u \in User, o \in Org : \E k : OrgRename(u, o) \/ OrgArchive(u, o, k) \/ OrgRestore(u, o, k) \/ PublishPolicy(u, o, k)

LEMMA RowStepLives ==
    ASSUME OrgRows, RowStep
    PROVE  /\ UNCHANGED <<account, orgMember, department, stocked>> /\ OrgRows'
           /\ \E o \in Org : /\ OrgExists(o) /\ OrgExists(o)'
                             /\ \A p \in Org \ {o} : organization'[p] = organization[p]
<1> DEFINE Lives(o) ==
        /\ UNCHANGED <<account, orgMember, department, stocked>>
        /\ organization' \in [Org -> OrgRow]
        /\ OrgExists(o) /\ OrgExists(o)'
        /\ \A p \in Org \ {o} : organization'[p] = organization[p]
<1>1. ASSUME NEW u, NEW o \in Org, OrgRename(u, o) PROVE Lives(o)
  BY <1>1 DEF OrgRename, rename, Bump, requireActiveOrganizationMutation, Locked, OrgExists, OrgStatus, Outer,
              OrgRows, OrgRow
<1>2. ASSUME NEW u, NEW o \in Org, NEW k, OrgArchive(u, o, k) PROVE Lives(o)
  BY <1>2 DEF OrgArchive, archive, Locked, OrgExists, OrgStatus, Outer, OrgRows, OrgRow
<1>3. ASSUME NEW u, NEW o \in Org, NEW k, OrgRestore(u, o, k) PROVE Lives(o)
  BY <1>3 DEF OrgRestore, restore, Locked, OrgExists, OrgStatus, Outer, OrgRows, OrgRow
<1>4. ASSUME NEW u, NEW o \in Org, NEW k, PublishPolicy(u, o, k) PROVE Lives(o)
  BY <1>4 DEF PublishPolicy, publishPolicy, requireActiveOrganizationMutation, Locked, OrgExists, OrgStatus, Outer,
              OrgRows, OrgRow
<1> HIDE DEF Lives
<1>5. PICK o \in Org : Lives(o)
  BY <1>1, <1>2, <1>3, <1>4, Zenon DEF RowStep
<1> QED BY <1>5, Zenon DEF Lives, OrgRows

\* The steps that write one membership row: never the owner's, nor an owner
MemberStep ==
    \/ \E u \in User, o \in Org : \/ OrgLeave(u, o) \/ \E t \in User : OrgRemoveMember(u, o, t)
                                 \/ \E t \in User, role \in OrgRole, d \in Department \cup {NoDepartment} :
                                       PatchMember(u, o, t, role, d)
    \/ \E u \in User, i \in OrgInvitation, k \in OrgKey : OrgAcceptInvitation(u, i, k)

Written(o, t, row) ==
    /\ OrgExists(o) /\ RoleIn(o, t) # "owner" /\ row \in MemberRow /\ row.role # "owner"
    /\ orgMember' = [orgMember EXCEPT ![o][t] = row]

LEMMA MemberStepWrites ==
    ASSUME OrgRows, MemberStep
    PROVE  /\ UNCHANGED <<account, organization, snapshots, department, stocked>>
           /\ orgMember' = orgMember \/ \E o \in Org, t \in User : \E row : Written(o, t, row)
<1> DEFINE Same == UNCHANGED <<account, organization, snapshots, department, stocked>>
<1>0. NoMember \in MemberRow /\ NoMember.role # "owner"
  BY Zenon DEF NoMember, MemberRow
<1>1. ASSUME NEW u \in User, NEW o \in Org, OrgLeave(u, o) PROVE Same /\ Written(o, u, NoMember)
  BY <1>0, <1>1, Zenon DEF OrgLeave, leave, SetOrgMember, Locked, Outer, Written
<1>2. ASSUME NEW u \in User, NEW o \in Org, NEW t \in User, OrgRemoveMember(u, o, t)
      PROVE  Same /\ Written(o, t, NoMember)
  BY <1>0, <1>2, Zenon DEF OrgRemoveMember, removeMember, requireActiveOrganizationMutation, SetOrgMember, Locked, Outer, Written
<1>3. ASSUME NEW u \in User, NEW o \in Org, NEW t \in User, NEW role \in OrgRole,
             NEW d \in Department \cup {NoDepartment}, PatchMember(u, o, t, role, d)
      PROVE  Same /\ \E row : Written(o, t, row)
  <2> DEFINE row == [role |-> role, department |-> d, revision |-> orgMember[o][t].revision + 1]
  <2>1. row \in MemberRow /\ row.role = role
    BY DEF OrgRows, MemberRow
  <2>2. Same /\ orgMember' = [orgMember EXCEPT ![o][t] = row]
    BY <1>3, Zenon DEF PatchMember, patchMember, SetOrgMember, Outer
  <2>3. OrgExists(o) /\ RoleIn(o, t) # "owner" /\ role # "owner"
    BY <1>3, Zenon DEF PatchMember, patchMember, requireActiveOrganizationMutation, Locked, authorizeMemberPatch
  <2> QED BY <2>1, <2>2, <2>3, Zenon DEF Written
<1>4. ASSUME NEW u \in User, NEW i, NEW k, OrgAcceptInvitation(u, i, k)
      PROVE  Same /\ (orgMember' = orgMember \/ \E o \in Org : \E row : Written(o, u, row))
  <2> DEFINE o == orgInvitation[i].org
             row == [role |-> "member", department |-> NoDepartment, revision |-> 1]
  <2>1. Same /\ OrgStatus(o) = "active"
    BY <1>4, Zenon DEF OrgAcceptInvitation, acceptInvitation, Open, Outer
  <2>2. orgMember' = orgMember \/ (RoleIn(o, u) = "none" /\ orgMember' = [orgMember EXCEPT ![o][u] = row])
    BY <1>4, Zenon DEF OrgAcceptInvitation, acceptInvitation, SetOrgMember
  <2>3. row \in MemberRow /\ row.role # "owner"
    BY Zenon DEF MemberRow, OrgRole
  <2> HIDE DEF row, o
  <2>4. CASE o \in Org /\ orgMember' # orgMember
    BY <2>1, <2>2, <2>3, <2>4, Zenon DEF Written, OrgExists
  <2>5. CASE o \notin Org
    BY <2>1, <2>2, <2>5, ZenonT(40) DEF OrgRows
  <2> QED BY <2>1, <2>4, <2>5, Zenon
<1> HIDE DEF Same
<1>5. Same /\ (orgMember' = orgMember \/ \E o \in Org, t \in User : \E row : Written(o, t, row))
  BY <1>1, <1>2, <1>3, <1>4, ZenonT(40) DEF MemberStep
<1> QED BY <1>5, Zenon DEF Same

LEMMA MemberStepOwned ==
    ASSUME OwnershipInv, MemberStep
    PROVE  OwnershipInv'
<1>1. UNCHANGED <<account, organization, department>>
  BY MemberStepWrites, Zenon DEF OwnershipInv
<1>2. OrgRows /\ \A o : OrgExists(o)' <=> OrgExists(o)
  BY <1>1, Zenon DEF OwnershipInv, OrgExists, OrgStatus
<1>3. CASE orgMember' = orgMember
  <2>1. OrgRows'
    BY <1>1, <1>2, <1>3, Zenon DEF OrgRows
  <2> QED BY <1>1, <1>2, <1>3, <2>1, LivesOn, Zenon
<1>4. ASSUME NEW o \in Org, NEW t \in User, NEW row, Written(o, t, row) PROVE OwnershipInv'
  <2>1. OrgRows'
    BY <1>1, <1>2, <1>4, Zenon DEF OrgRows, Written
  <2>2. \A p \in Org, u \in User : orgMember'[p][u] = IF p = o /\ u = t THEN row ELSE orgMember[p][u]
    BY <1>2, <1>4, Zenon DEF OrgRows, Written
  <2>3. \A p \in Org, u \in User : RoleIn(p, u)' = "owner" <=> RoleIn(p, u) = "owner"
    BY <1>4, <2>2 DEF Written, RoleIn
  <2>4. \A p \in Org, u \in User : SoleOwner(p, u)' <=> SoleOwner(p, u)
    BY <2>3, Zenon DEF SoleOwner
  <2>5. Owned'
    BY <1>2, <1>4, <2>2, <2>4 DEF OwnershipInv, Owned, Written
  <2>6. OwnersStay'
    BY <1>1, <2>3, Zenon DEF OwnershipInv, OwnersStay, OwnersOf
  <2> QED BY <2>1, <2>5, <2>6, Zenon DEF OwnershipInv
<1> QED BY <1>2, <1>3, <1>4, MemberStepWrites, Zenon

LEMMA CreateOwned ==
    ASSUME OwnershipInv, NEW u \in User, NEW o \in Org, NEW k, OrgCreate(u, o, k)
    PROVE  OwnershipInv'
<1> DEFINE row == [role |-> "owner", department |-> NoDepartment, revision |-> 1]
           born == [status |-> "active", revision |-> 1, policy |-> 1]
<1>1. /\ OrgStatus(o) = "none" /\ account[u] = "active" /\ UNCHANGED <<account, department>>
      /\ organization' = [organization EXCEPT ![o] = born]
      /\ orgMember' = [orgMember EXCEPT ![o][u] = row]
  BY Zenon DEF OrgCreate, create, SetOrgMember, ActiveActor, Outer
<1>2. row \in MemberRow /\ row.role = "owner" /\ born \in OrgRow /\ born.status = "active"
  BY Zenon DEF MemberRow, OrgRow, OrgRole
<1> HIDE DEF row, born
<1>3. OrgRows'
  BY <1>1, <1>2, Zenon DEF OwnershipInv, OrgRows
<1>4. /\ \A p \in Org : organization'[p] = IF p = o THEN born ELSE organization[p]
      /\ \A p \in Org, t \in User : orgMember'[p][t] = IF p = o /\ t = u THEN row ELSE orgMember[p][t]
  BY <1>1, Zenon DEF OwnershipInv, OrgRows
<1>5. ~OrgExists(o) /\ OrgExists(o)' /\ \A p \in Org \ {o} : OrgExists(p)' <=> OrgExists(p)
  BY <1>1, <1>2, <1>4, Zenon DEF OrgExists, OrgStatus
<1>6. \A t \in User : RoleIn(o, t) = "none"
  BY <1>5 DEF OwnershipInv, Owned, RoleIn, NoMember
<1>7. \A p \in Org, t \in User : RoleIn(p, t)' = IF p = o /\ t = u THEN "owner" ELSE RoleIn(p, t)
  BY <1>2, <1>4, Zenon DEF RoleIn
<1>8. SoleOwner(o, u)'
  BY <1>6, <1>7, Zenon DEF SoleOwner
<1>9. \A p \in Org \ {o}, t \in User : SoleOwner(p, t)' <=> SoleOwner(p, t)
  BY <1>7, Zenon DEF SoleOwner
<1>10. Owned'
  BY <1>4, <1>5, <1>8, <1>9, ZenonT(40) DEF OwnershipInv, Owned
<1>11. OwnersStay'
  BY <1>1, <1>7, Zenon DEF OwnershipInv, OwnersStay, OwnersOf
<1> QED BY <1>3, <1>10, <1>11, Zenon DEF OwnershipInv

LEMMA RankedRow ==
    ASSUME NEW m \in MemberRow, NEW r \in OrgRole, NEW q, q = Ranked(m, r)
    PROVE  q \in MemberRow /\ q.role = r
<1>1. m = [role |-> m.role, department |-> m.department, revision |-> m.revision]
  BY Zenon DEF MemberRow
<1>2. q = [role |-> r, department |-> m.department, revision |-> m.revision + 1]
  BY <1>1, Zenon DEF Ranked
<1> QED BY <1>2 DEF MemberRow

LEMMA TransferOwned ==
    ASSUME OwnershipInv, NEW u \in User, NEW o \in Org, NEW t \in User, NEW k, TransferOwner(u, o, t, k)
    PROVE  OwnershipInv'
<1>1. /\ t # u /\ OrgExists(o) /\ RoleIn(o, u) = "owner" /\ account[t] = "active"
      /\ UNCHANGED <<account, department>> /\ Bump(o)
  BY Zenon DEF TransferOwner, transferOwner, Locked, Outer
<1>2. PICK a, b : /\ a = Ranked(orgMember[o][u], "admin") /\ b = Ranked(orgMember[o][t], "owner")
                  /\ orgMember' = [orgMember EXCEPT ![o][u] = a, ![o][t] = b]
  BY Zenon DEF TransferOwner, transferOwner
<1>3. /\ \A p \in Org, x \in User : orgMember'[p][x] =
            IF p = o /\ x = u THEN a ELSE IF p = o /\ x = t THEN b ELSE orgMember[p][x]
      /\ orgMember' = [p \in Org |-> [x \in User |-> orgMember'[p][x]]]
  BY <1>1, <1>2, Zenon DEF OwnershipInv, OrgRows
<1>0. a \in MemberRow /\ b \in MemberRow /\ a.role = "admin" /\ b.role = "owner"
  <2>1. orgMember[o][u] \in MemberRow /\ orgMember[o][t] \in MemberRow
    BY Zenon DEF OwnershipInv, OrgRows
  <2>2. "admin" \in OrgRole /\ "owner" \in OrgRole
    BY Zenon DEF OrgRole
  <2>3. a \in MemberRow /\ a.role = "admin"
    BY <1>2, <2>1, <2>2, RankedRow, Zenon
  <2>4. b \in MemberRow /\ b.role = "owner"
    BY <1>2, <2>1, <2>2, RankedRow, Zenon
  <2> QED BY <2>3, <2>4, Zenon
<1>4. \A p \in Org, x \in User : RoleIn(p, x)' =
          IF p = o /\ x = u THEN "admin" ELSE IF p = o /\ x = t THEN "owner" ELSE RoleIn(p, x)
  BY <1>0, <1>3, Zenon DEF RoleIn
<1>5. OrgRows' /\ \A p \in Org : OrgExists(p)' <=> OrgExists(p)
  <2>1. organization' \in [Org -> OrgRow] /\ \A p \in Org : organization'[p].status = organization[p].status
    <3>1. organization[o] \in OrgRow /\ organization \in [Org -> OrgRow]
      BY Zenon DEF OwnershipInv, OrgRows
    <3>2. PICK row : row = [organization[o] EXCEPT !.revision = organization[o].revision + 1]
      BY Zenon
    <3>3. organization[o].revision + 1 \in Nat
      BY <3>1 DEF OrgRow
    <3>4. row \in OrgRow /\ row.status = organization[o].status
      BY <3>1, <3>2, <3>3, Zenon DEF OrgRow
    <3>5. organization' = [organization EXCEPT ![o] = row]
      BY <1>1, <3>2, Zenon DEF Bump
    <3> QED BY <3>1, <3>4, <3>5, Zenon
  <2>2. orgMember' \in [Org -> [User -> MemberRow]]
    <3>1. \A p \in Org, x \in User : orgMember'[p][x] \in MemberRow
      BY <1>0, <1>3, Zenon DEF OwnershipInv, OrgRows
    <3> QED BY <1>3, <3>1, Zenon
  <2> QED BY <1>1, <2>1, <2>2, Zenon DEF OwnershipInv, OrgRows, OrgExists, OrgStatus
<1>6. SoleOwner(o, u)
  BY <1>1, Zenon DEF OwnershipInv, Owned, SoleOwner
<1>7. SoleOwner(o, t)'
  BY <1>1, <1>4, <1>6, Zenon DEF SoleOwner
<1>8. /\ \A p \in Org \ {o}, x \in User : SoleOwner(p, x)' <=> SoleOwner(p, x)
      /\ \A p \in Org \ {o}, x \in User : orgMember'[p][x] = orgMember[p][x]
  BY <1>3, <1>4, Zenon DEF SoleOwner
<1>9. Owned'
  <2>1. OrgExists(o)' /\ \E x \in User : SoleOwner(o, x)'
    BY <1>1, <1>5, <1>7, Zenon
  <2>2. \A p \in Org \ {o} : IF OrgExists(p)' THEN \E x \in User : SoleOwner(p, x)'
                              ELSE \A x \in User : orgMember'[p][x] = NoMember
    <3> SUFFICES ASSUME NEW p \in Org \ {o}
                 PROVE  IF OrgExists(p)' THEN \E x \in User : SoleOwner(p, x)'
                        ELSE \A x \in User : orgMember'[p][x] = NoMember
      BY Zenon
    <3>1. IF OrgExists(p) THEN \E x \in User : SoleOwner(p, x)
          ELSE \A x \in User : orgMember[p][x] = NoMember
      BY Zenon DEF OwnershipInv, Owned
    <3>2. OrgExists(p)' <=> OrgExists(p)
      BY <1>5, Zenon
    <3> QED BY <1>8, <3>1, <3>2, Zenon
  <2> QED BY <2>1, <2>2, Zenon DEF Owned
<1>10. OwnersStay'
  BY <1>1, <1>4, Zenon DEF OwnershipInv, OwnersStay, OwnersOf
<1> QED BY <1>5, <1>9, <1>10, Zenon DEF OwnershipInv

LEMMA DissolveOwned ==
    ASSUME OwnershipInv, NEW u \in User, NEW o \in Org, NEW k, Dissolve(u, o, k)
    PROVE  OwnershipInv'
<1>0. organization' = [organization EXCEPT ![o].status = "dissolved", ![o].revision = @ + 1]
  BY Zenon DEF Dissolve, dissolve
<1>1. /\ UNCHANGED account
      /\ orgMember' = [orgMember EXCEPT ![o] = [t \in User |-> NoMember]]
      /\ department' = [department EXCEPT ![o] = [d \in Department |-> NoDeptRow]]
  BY Zenon DEF Dissolve, dissolve, Outer
<1>2. NoMember \in MemberRow /\ NoMember.role = "none"
  BY Zenon DEF NoMember, MemberRow
<1>3. OrgRows'
  <2>1. organization' \in [Org -> OrgRow]
    BY <1>0 DEF OwnershipInv, OrgRows, OrgRow
  <2> QED BY <1>1, <1>2, <2>1, Zenon DEF OwnershipInv, OrgRows
<1>4. ~OrgExists(o)' /\ \A p \in Org \ {o} : OrgExists(p)' <=> OrgExists(p)
  BY <1>0, Zenon DEF OwnershipInv, OrgRows, OrgRow, OrgExists, OrgStatus
<1>5. \A p \in Org, t \in User : orgMember'[p][t] = IF p = o THEN NoMember ELSE orgMember[p][t]
  BY <1>1, Zenon DEF OwnershipInv, OrgRows
<1>6. \A p \in Org, t \in User : RoleIn(p, t)' = IF p = o THEN "none" ELSE RoleIn(p, t)
  BY <1>2, <1>5, Zenon DEF RoleIn
<1>7. \A p \in Org \ {o}, t \in User : SoleOwner(p, t)' <=> SoleOwner(p, t)
  BY <1>6, Zenon DEF SoleOwner
<1>8. Owned'
  BY <1>4, <1>5, <1>7, Zenon DEF OwnershipInv, Owned
<1>9. OwnersStay'
  BY <1>1, <1>6, Zenon DEF OwnershipInv, OwnersStay, OwnersOf
<1> QED BY <1>3, <1>8, <1>9, Zenon DEF OwnershipInv

\* What an account's status may become
LEMMA AccountOwned ==
    ASSUME OwnershipInv, NEW u \in User, NEW new \in AccountStatus, SetAccount(u, new),
           new \in {"active", "disabled"} \/ \A o \in Org : RoleIn(o, u) # "owner",
           UNCHANGED <<organization, orgMember, department>>
    PROVE  OwnershipInv'
<1>1. OrgRows' /\ \A o : OrgExists(o)' <=> OrgExists(o)
  BY Zenon DEF OwnershipInv, OrgRows, SetAccount, OrgExists, OrgStatus
<1>2. Owned'
  BY Zenon DEF OwnershipInv, Owned, SoleOwner, RoleIn, OrgExists, OrgStatus
<1>3. OwnersStay'
  BY Zenon DEF OwnershipInv, OrgRows, OwnersStay, OwnersOf, RoleIn, SetAccount
<1> QED BY <1>1, <1>2, <1>3, Zenon DEF OwnershipInv

LEMMA NoOrganizationOwned ==
    ASSUME OwnershipInv, NEW u \in User, lockOwnedOrganizations(u) = {}, NEW o \in Org
    PROVE  RoleIn(o, u) # "owner"
BY DEF OwnershipInv, Owned, lockOwnedOrganizations, OwnedOrganizations, RoleIn, NoMember

LEMMA ErasureOwned ==
    ASSUME OwnershipInv, NEW u \in User, FinalizeDeletion(u)
    PROVE  OwnershipInv'
<1>1. /\ SetAccount(u, "finalized") /\ UNCHANGED <<organization, department>>
      /\ \A o \in Org : RoleIn(o, u) # "owner"
  BY NoOrganizationOwned, Zenon DEF FinalizeDeletion, EraseFromOrganizations
<1>2. NoMember \in MemberRow /\ NoMember.role = "none"
  BY Zenon DEF NoMember, MemberRow
<1>3. orgMember' = [o \in Org |-> [t \in User |-> IF t = u /\ RoleIn(o, t) # "owner" THEN NoMember ELSE orgMember[o][t]]]
  BY Zenon DEF FinalizeDeletion, EraseFromOrganizations
<1>4. \A o \in Org, t \in User : orgMember'[o][t] = IF t = u THEN NoMember ELSE orgMember[o][t]
  BY <1>1, <1>3, Zenon
<1>5. OrgRows'
  <2>1. account' \in [User -> AccountStatus]
    BY <1>1, Zenon DEF OwnershipInv, OrgRows, SetAccount, AccountStatus
  <2>2. orgMember' \in [Org -> [User -> MemberRow]]
    BY <1>2, <1>3, Zenon DEF OwnershipInv, OrgRows
  <2> QED BY <1>1, <2>1, <2>2, Zenon DEF OwnershipInv, OrgRows
<1>6. \A o \in Org, t \in User : RoleIn(o, t)' = "owner" <=> RoleIn(o, t) = "owner"
  BY <1>1, <1>2, <1>4, Zenon DEF RoleIn
<1>7. \A o \in Org : /\ OrgExists(o)' <=> OrgExists(o)
                     /\ \A t \in User : SoleOwner(o, t)' <=> SoleOwner(o, t)
  BY <1>1, <1>6, Zenon DEF OrgExists, OrgStatus, SoleOwner
<1>8. Owned'
  BY <1>4, <1>7, Zenon DEF OwnershipInv, Owned
<1>9. OwnersStay'
  BY <1>1, <1>6, Zenon DEF OwnershipInv, OrgRows, OwnersStay, OwnersOf, SetAccount
<1> QED BY <1>5, <1>8, <1>9, Zenon DEF OwnershipInv

\* The steps of the composition, by what they write
LEMMA TenancySteps ==
    TenancyNext =>
        \/ Aside \/ DepartmentStep \/ RowStep \/ MemberStep
        \/ \E u \in User, o \in Org : \E k : OrgCreate(u, o, k) \/ Dissolve(u, o, k) \/ \E t \in User : TransferOwner(u, o, t, k)
        \/ \E u \in User : RequestDeletion(u) \/ FinalizeDeletion(u) \/ StatusStep(u)
BY Zenon DEF TenancyNext, OrgNext, OrgMemberStep, OrgKeyedStep, Aside, DepartmentStep, RowStep, MemberStep

LEMMA InitOwnership == TenancyInit => OwnershipInv
<1> SUFFICES ASSUME TenancyInit PROVE OwnershipInv
  BY Zenon
<1>1. NoMember \in MemberRow /\ NoMember.role = "none"
  BY Zenon DEF NoMember, MemberRow
<1>2. OrgRows
  BY <1>1, Zenon DEF TenancyInit, OrgInit, OrgRows, OrgRow, AccountStatus
<1>3. Owned /\ OwnersStay
  BY <1>1, Zenon DEF TenancyInit, OrgInit, Owned, OwnersStay, OwnersOf, RoleIn, OrgExists, OrgStatus
<1> QED BY <1>2, <1>3, Zenon DEF OwnershipInv

LEMMA NextOwnership == OwnershipInv /\ [TenancyNext]_tenancyVars => OwnershipInv'
<1> SUFFICES ASSUME OwnershipInv, [TenancyNext]_tenancyVars PROVE OwnershipInv'
  BY Zenon
<1>1. ASSUME UNCHANGED <<account, organization, orgMember, department>> PROVE OwnershipInv'
  <2>1. OrgRows' /\ \A o : OrgExists(o)' <=> OrgExists(o)
    BY <1>1, Zenon DEF OwnershipInv, OrgRows, OrgExists, OrgStatus
  <2> QED BY <1>1, <2>1, LivesOn, Zenon
<1>2. CASE DepartmentStep
  <2>1. UNCHANGED <<account, organization, orgMember>> /\ department' = [o \in Org |-> department'[o]]
    BY <1>2, DepartmentsKeep, Zenon DEF OwnershipInv
  <2>2. OrgRows' /\ \A o : OrgExists(o)' <=> OrgExists(o)
    BY <2>1, Zenon DEF OwnershipInv, OrgRows, OrgExists, OrgStatus
  <2> QED BY <2>1, <2>2, LivesOn, Zenon
<1>3. CASE RowStep
  <2>1. UNCHANGED <<account, orgMember>> /\ OrgRows'
    BY <1>3, RowStepLives, Zenon DEF OwnershipInv
  <2>2. \A o \in Org : OrgExists(o)' <=> OrgExists(o)
    BY <1>3, RowStepLives, Zenon DEF OwnershipInv, OrgExists, OrgStatus
  <2> QED BY <2>1, <2>2, LivesOn, Zenon
<1>4. ASSUME NEW u \in User, RequestDeletion(u) PROVE OwnershipInv'
  <2>1. /\ SetAccount(u, "pending") /\ UNCHANGED <<organization, orgMember, department>>
        /\ \A o \in Org : RoleIn(o, u) # "owner"
    BY <1>4, NoOrganizationOwned, Zenon DEF RequestDeletion, orgOwn
  <2>2. "pending" \in AccountStatus
    BY Zenon DEF AccountStatus
  <2> QED BY <2>1, <2>2, AccountOwned, Zenon
<1>5. ASSUME NEW u \in User, StatusStep(u) PROVE OwnershipInv'
  <2>1. UNCHANGED <<organization, orgMember, department>>
    BY <1>5, Zenon DEF StatusStep, orgOwn
  <2>2. \/ \E new \in {"active", "disabled"} : SetAccount(u, new)
        \/ account[u] = "pending" /\ SetAccount(u, "elapsed")
    BY <1>5, Zenon DEF StatusStep, DisableUser, EnableUser, RecoverDeletion, RecoveryWindowEnds
  <2>3. account[u] = "pending" => \A o \in Org : RoleIn(o, u) # "owner"
    BY Zenon DEF OwnershipInv, OwnersStay, OwnersOf
  <2>4. {"active", "disabled", "elapsed"} \subseteq AccountStatus
    BY Zenon DEF AccountStatus
  <2> QED BY <2>1, <2>2, <2>3, <2>4, AccountOwned, Zenon
<1>6. CASE UNCHANGED tenancyVars
  BY <1>1, <1>6, Zenon DEF tenancyVars, orgVars
<1>7. CASE Aside
  BY <1>1, <1>7, AsideKeeps, Zenon
<1> QED BY <1>2, <1>3, <1>4, <1>5, <1>6, <1>7, TenancySteps, MemberStepOwned, CreateOwned, TransferOwned,
           DissolveOwned, ErasureOwned, ZenonT(40)

\* An account that asked for its deletion never owns an organization, so that
\* its erasure strands none (RequestDeletion, transferOwner).
THEOREM OwnersStayAccounts == TenancySpec => []OwnersStay
<1>1. OwnershipInv => OwnersStay
  BY Zenon DEF OwnershipInv
<1> QED BY <1>1, InitOwnership, NextOwnership, PTL DEF TenancySpec

-----------------------------------------------------------------------------
(* Policies.  A publication raises the organization's revision too, so the  *)
(* current version never overtakes it.                                      *)

History ==
    \A o \in Org :
        /\ organization[o].policy <= organization[o].revision /\ organization[o].revision <= OrgMaxRevision
        /\ OrgStatus(o) = "none" => organization[o].policy = 0
        /\ \A v \in 1..OrgMaxRevision : <<o, v>> \in snapshots <=> v <= organization[o].policy

PolicyInv == OwnershipInv /\ History

Others(o) == \A p \in Org \ {o} : organization'[p] = organization[p]

\* The row of o was revised once and its policy is now version p.
Revised(o, p) ==
    /\ organization[o].revision < OrgMaxRevision /\ organization'[o].revision = organization[o].revision + 1
    /\ organization'[o].policy = p /\ organization'[o].status # "none"
    /\ Others(o)

LEMMA RevisedHistory ==
    ASSUME OrgRows, History, NEW o \in Org,
           \/ Revised(o, organization[o].policy) /\ snapshots' = snapshots
           \/ /\ Revised(o, organization[o].policy + 1)
              /\ snapshots' = snapshots \cup {<<o, organization[o].policy + 1>>}
    PROVE  History'
<1> DEFINE pol == organization[o].policy
           rev == organization[o].revision
           new == organization'[o].policy
<1>1. pol \in Nat /\ rev \in Nat /\ OrgMaxRevision \in Nat
  BY OrganizationParameters, Zenon DEF OrgRows, OrgRow
<1>2. /\ organization'[o].status # "none" /\ organization'[o].revision = rev + 1 /\ rev < OrgMaxRevision
      /\ new = pol \/ new = pol + 1
  BY Zenon DEF Revised
<1>3. pol <= rev
  BY Zenon DEF History
<1>4. new <= organization'[o].revision /\ organization'[o].revision <= OrgMaxRevision
  BY <1>1, <1>2, <1>3
<1>5. \A v \in 1..OrgMaxRevision : <<o, v>> \in snapshots' <=> v <= new
  <2> SUFFICES ASSUME NEW v \in 1..OrgMaxRevision PROVE <<o, v>> \in snapshots' <=> v <= new
    BY Zenon
  <2>1. <<o, v>> \in snapshots <=> v <= pol
    BY Zenon DEF History
  <2>2. CASE new = pol /\ snapshots' = snapshots
    BY <2>1, <2>2, Zenon
  <2>3. CASE new = pol + 1 /\ snapshots' = snapshots \cup {<<o, pol + 1>>}
    BY <1>1, <2>1, <2>3
  <2> QED BY <2>2, <2>3, Zenon DEF Revised
<1>6. \A p \in Org \ {o} : /\ organization'[p] = organization[p]
                          /\ \A v : <<p, v>> \in snapshots' <=> <<p, v>> \in snapshots
  BY DEF Revised, Others
<1>7. \A p \in Org \ {o} :
        /\ organization'[p].policy <= organization'[p].revision /\ organization'[p].revision <= OrgMaxRevision
        /\ organization'[p].status = "none" => organization'[p].policy = 0
        /\ \A v \in 1..OrgMaxRevision : <<p, v>> \in snapshots' <=> v <= organization'[p].policy
  BY <1>6, Zenon DEF History, OrgStatus
<1> QED BY <1>2, <1>4, <1>5, <1>7, Zenon DEF History, OrgStatus

LEMMA CreateHistory ==
    ASSUME OrgRows, History, NEW u, NEW o \in Org, NEW k, OrgCreate(u, o, k)
    PROVE  History'
<1>1. /\ organization[o].status = "none" /\ snapshots' = snapshots \cup {<<o, 1>>}
      /\ organization' = [organization EXCEPT ![o] = [status |-> "active", revision |-> 1, policy |-> 1]]
  BY Zenon DEF OrgCreate, create, OrgStatus
<1>2. /\ organization'[o].status = "active" /\ organization'[o].revision = 1 /\ organization'[o].policy = 1
      /\ \A p \in Org \ {o} : organization'[p] = organization[p]
  BY <1>1, Zenon DEF OrgRows
<1>3. OrgMaxRevision \in Nat /\ 1 <= OrgMaxRevision
  BY OrganizationParameters
<1>4. \A v \in 1..OrgMaxRevision : <<o, v>> \in snapshots' <=> v <= 1
  <2>1. \A v \in 1..OrgMaxRevision : <<o, v>> \notin snapshots
    BY <1>1, <1>3 DEF History, OrgStatus
  <2> QED BY <1>1, <1>3, <2>1
<1>5. \A p \in Org \ {o} :
        /\ organization'[p].policy <= organization'[p].revision /\ organization'[p].revision <= OrgMaxRevision
        /\ organization'[p].status = "none" => organization'[p].policy = 0
        /\ \A v \in 1..OrgMaxRevision : <<p, v>> \in snapshots' <=> v <= organization'[p].policy
  BY <1>1, <1>2, Zenon DEF History, OrgStatus
<1> QED BY <1>2, <1>3, <1>4, <1>5 DEF History, OrgStatus

\* Everything but a creation either leaves the rows and the policies alone or
\* revises one organization.
LEMMA RevisingSteps ==
    ASSUME OrgRows, NEW u, NEW o \in Org, NEW t, NEW k,
           \/ OrgRename(u, o) \/ OrgArchive(u, o, k) \/ OrgRestore(u, o, k) \/ Dissolve(u, o, k)
           \/ TransferOwner(u, o, t, k)
    PROVE  Revised(o, organization[o].policy) /\ snapshots' = snapshots
<1>1. ASSUME OrgRename(u, o) PROVE Revised(o, organization[o].policy) /\ snapshots' = snapshots
  BY <1>1, Zenon DEF OrgRename, rename, Bump, Revisable, requireActiveOrganizationMutation, OrgStatus, OrgRows, OrgRow,
              Revised, Others
<1>2. ASSUME OrgArchive(u, o, k) PROVE Revised(o, organization[o].policy) /\ snapshots' = snapshots
  BY <1>2, Zenon DEF OrgArchive, archive, Revisable, OrgRows, OrgRow, Revised, Others
<1>3. ASSUME OrgRestore(u, o, k) PROVE Revised(o, organization[o].policy) /\ snapshots' = snapshots
  BY <1>3, Zenon DEF OrgRestore, restore, Revisable, OrgRows, OrgRow, Revised, Others
<1>4. ASSUME Dissolve(u, o, k) PROVE Revised(o, organization[o].policy) /\ snapshots' = snapshots
  <2>1. /\ organization' = [organization EXCEPT ![o].status = "dissolved", ![o].revision = @ + 1]
        /\ snapshots' = snapshots /\ organization[o].revision < OrgMaxRevision
    BY <1>4, Zenon DEF Dissolve, dissolve, Revisable
  <2> QED BY <2>1, Zenon DEF OrgRows, OrgRow, Revised, Others
<1>5. ASSUME TransferOwner(u, o, t, k) PROVE Revised(o, organization[o].policy) /\ snapshots' = snapshots
  <2>1. /\ organization' = [organization EXCEPT ![o].revision = @ + 1] /\ organization[o].status # "none"
        /\ snapshots' = snapshots /\ organization[o].revision < OrgMaxRevision
    BY <1>5, Zenon DEF TransferOwner, transferOwner, Bump, Revisable, Locked, OrgExists, OrgStatus
  <2> QED BY <2>1, Zenon DEF OrgRows, OrgRow, Revised, Others
<1> QED BY <1>1, <1>2, <1>3, <1>4, <1>5, Zenon

LEMMA PublishRevises ==
    ASSUME OrgRows, NEW u, NEW o \in Org, NEW k, PublishPolicy(u, o, k)
    PROVE  /\ Revised(o, organization[o].policy + 1)
           /\ snapshots' = snapshots \cup {<<o, organization[o].policy + 1>>}
BY Zenon DEF PublishPolicy, publishPolicy, Revisable, requireActiveOrganizationMutation, OrgStatus, OrgRows, OrgRow,
       Revised, Others

LEMMA NextHistory == PolicyInv /\ [TenancyNext]_tenancyVars => PolicyInv'
<1> SUFFICES ASSUME PolicyInv, [TenancyNext]_tenancyVars PROVE History'
  BY NextOwnership, Zenon DEF PolicyInv
<1>0. OrgRows /\ History
  BY Zenon DEF PolicyInv, OwnershipInv
<1>1. ASSUME UNCHANGED <<organization, snapshots>> PROVE History'
  BY <1>0, <1>1, Zenon DEF History, OrgStatus
<1>2. CASE Aside \/ DepartmentStep \/ MemberStep
  BY <1>0, <1>1, <1>2, AsideKeeps, DepartmentsKeep, MemberStepWrites, Zenon
<1>3. CASE RowStep
  BY <1>0, <1>3, RevisingSteps, PublishRevises, RevisedHistory, Zenon DEF RowStep
<1>4. ASSUME NEW u \in User, NEW o \in Org, NEW k,
             OrgCreate(u, o, k) \/ Dissolve(u, o, k) \/ \E t \in User : TransferOwner(u, o, t, k)
      PROVE  History'
  BY <1>0, <1>4, RevisingSteps, RevisedHistory, CreateHistory, Zenon
<1>5. ASSUME NEW u \in User, RequestDeletion(u) \/ FinalizeDeletion(u) \/ StatusStep(u) PROVE History'
  BY <1>1, <1>5, Zenon DEF RequestDeletion, FinalizeDeletion, EraseFromOrganizations, StatusStep, orgOwn
<1>6. CASE UNCHANGED tenancyVars
  BY <1>1, <1>6, Zenon DEF tenancyVars, orgVars
<1> QED BY <1>2, <1>3, <1>4, <1>5, <1>6, TenancySteps, Zenon

LEMMA InitHistory == TenancyInit => PolicyInv
<1> SUFFICES ASSUME TenancyInit PROVE History
  BY InitOwnership, Zenon DEF PolicyInv
<1> QED BY OrganizationParameters DEF TenancyInit, OrgInit, History, OrgStatus

\* The published policies of an organization are the versions 1 to the current
\* one, without a gap, whoever publishes, transfers, archives or dissolves in
\* between (publishPolicy).
THEOREM PoliciesComplete == TenancySpec => []PolicyHistoryIsComplete
<1>1. PolicyInv => PolicyHistoryIsComplete
  <2> SUFFICES ASSUME PolicyInv, NEW o \in Org
               PROVE  {v \in 1..OrgMaxRevision : <<o, v>> \in snapshots} = 1..organization[o].policy
    BY Zenon DEF PolicyHistoryIsComplete
  <2>1. organization[o].policy \in Nat /\ organization[o].revision \in Nat /\ OrgMaxRevision \in Nat
    BY OrganizationParameters, Zenon DEF PolicyInv, OwnershipInv, OrgRows, OrgRow
  <2>2. organization[o].policy <= OrgMaxRevision
    BY <2>1 DEF PolicyInv, History
  <2>3. \A v \in 1..OrgMaxRevision : <<o, v>> \in snapshots <=> v <= organization[o].policy
    BY Zenon DEF PolicyInv, History
  <2> QED BY <2>1, <2>2, <2>3
<1> QED BY <1>1, InitHistory, NextHistory, PTL DEF TenancySpec

-----------------------------------------------------------------------------
(* Dissolution *)

Emptied == \A o \in Org : OrgStatus(o) = "dissolved" => o \notin stocked

Kept(o) ==
    /\ o \notin stocked'
    /\ organization'[o] = organization[o] /\ orgMember'[o] = orgMember[o]
    /\ department'[o] = department[o]
    /\ \A v \in 1..OrgMaxRevision : <<o, v>> \in snapshots' <=> <<o, v>> \in snapshots

\* Only Stock changes which organizations hold agents, and only of an active one.
LEMMA Stocking ==
    ASSUME [TenancyNext]_tenancyVars
    PROVE  stocked' = stocked \/ \E p \in Org : Stock(p)
<1>1. ASSUME NEW u, NEW o, NEW t, NEW k, NEW i, NEW d, NEW name, NEW new, NEW role,
             \/ OrgRename(u, o) \/ OrgLeave(u, o) \/ OrgRemoveMember(u, o, t) \/ PatchMember(u, o, t, role, d)
             \/ CreateDepartment(u, o, d, name) \/ RenameDepartment(u, o, d, name)
             \/ ArchiveOrRestoreDepartment(u, o, d, new) \/ OrgRevokeInvitation(u, o, i)
      PROVE  stocked' = stocked
  BY <1>1, Zenon DEF OrgRename, OrgLeave, OrgRemoveMember, PatchMember, CreateDepartment, RenameDepartment,
                     ArchiveOrRestoreDepartment, OrgRevokeInvitation, Outer
<1>2. ASSUME NEW u, NEW o, NEW t, NEW k, NEW i,
             \/ OrgCreate(u, o, k) \/ PublishPolicy(u, o, k) \/ OrgCreateInvitation(u, o, k) \/ OrgArchive(u, o, k)
             \/ OrgRestore(u, o, k) \/ Dissolve(u, o, k) \/ TransferOwner(u, o, t, k) \/ OrgAcceptInvitation(u, i, k)
             \/ OrgLapse(i)
      PROVE  stocked' = stocked
  BY <1>2, Zenon DEF OrgCreate, PublishPolicy, OrgCreateInvitation, OrgArchive, OrgRestore, Dissolve, TransferOwner,
                     OrgAcceptInvitation, OrgLapse, Outer
<1>3. OrgNext => stocked' = stocked \/ \E p \in Org : Stock(p)
  <2>1. \A u, o : OrgMemberStep(u, o) => stocked' = stocked
    BY <1>1, ZenonT(40) DEF OrgMemberStep
  <2>2. \A u, o, k : OrgKeyedStep(u, o, k) => stocked' = stocked
    BY <1>2, ZenonT(40) DEF OrgKeyedStep
  <2> QED BY <1>2, <2>1, <2>2, Zenon DEF OrgNext
<1>4. cleanupExpiredRows => stocked' = stocked
  BY Zenon DEF cleanupExpiredRows, expireOrganizationRows
<1>5. \A u : RequestDeletion(u) \/ FinalizeDeletion(u) \/ StatusStep(u) => stocked' = stocked
  BY Zenon DEF RequestDeletion, FinalizeDeletion, EraseFromOrganizations, StatusStep, orgOwn
<1> QED BY <1>3, <1>4, <1>5, Zenon DEF TenancyNext, tenancyVars, orgVars, orgOwn

LEMMA DissolvedKept ==
    ASSUME PolicyInv, Emptied, [TenancyNext]_tenancyVars, NEW o \in Org, OrgStatus(o) = "dissolved"
    PROVE  Kept(o)
<1>1. o \notin stocked'
  BY Stocking, Zenon DEF Emptied, Stock, OrgStatus
<1>2. OrgRows /\ ~OrgExists(o) /\ organization[o].status = "dissolved"
  BY Zenon DEF PolicyInv, OwnershipInv, OrgExists, OrgStatus
<1>3. ASSUME UNCHANGED <<organization, snapshots, orgMember, department>> PROVE Kept(o)
  BY <1>1, <1>3, Zenon DEF Kept
<1>4. CASE DepartmentStep
  BY <1>1, <1>2, <1>4, DepartmentsKeep, Zenon DEF Kept, DepartmentsOf
<1>5. CASE MemberStep
  BY <1>1, <1>2, <1>5, MemberStepWrites, Zenon DEF Kept, Written, OrgRows
<1>6. ASSUME NEW u \in User, NEW p \in Org, NEW k, OrgRename(u, p) \/ OrgArchive(u, p, k) \/ OrgRestore(u, p, k)
      PROVE  Kept(o)
  <2>1. p # o
    BY <1>2, <1>6, Zenon DEF OrgRename, rename, requireActiveOrganizationMutation, OrgArchive, archive, OrgRestore, restore, Locked
  <2>2. organization'[o] = organization[o] /\ snapshots' = snapshots
    BY <1>2, <1>6, <2>1, RevisingSteps, Zenon DEF Revised, Others
  <2>3. UNCHANGED <<orgMember, department>>
    BY <1>2, <1>6, RowStepLives, Zenon DEF RowStep
  <2> QED BY <1>1, <2>2, <2>3, Zenon DEF Kept
<1>7. ASSUME NEW u \in User, NEW p \in Org, NEW k, PublishPolicy(u, p, k) PROVE Kept(o)
  <2>1. p # o
    BY <1>2, <1>7, Zenon DEF PublishPolicy, publishPolicy, requireActiveOrganizationMutation, Locked
  <2>2. organization'[o] = organization[o] /\ snapshots' = snapshots \cup {<<p, organization[p].policy + 1>>}
    BY <1>2, <1>7, <2>1, PublishRevises, Zenon DEF Revised, Others
  <2>3. UNCHANGED <<orgMember, department>>
    BY <1>2, <1>7, RowStepLives, Zenon DEF RowStep
  <2> QED BY <1>1, <2>1, <2>2, <2>3, Zenon DEF Kept
<1>8. ASSUME NEW u \in User, NEW p \in Org, NEW k, OrgCreate(u, p, k) PROVE Kept(o)
  <2>1. /\ OrgStatus(p) = "none" /\ UNCHANGED department /\ snapshots' = snapshots \cup {<<p, 1>>}
        /\ \E row : organization' = [organization EXCEPT ![p] = row]
        /\ \E row : orgMember' = [orgMember EXCEPT ![p][u] = row]
    BY <1>8, Zenon DEF OrgCreate, create, SetOrgMember
  <2>2. p # o
    BY <2>1, Zenon
  <2> QED BY <1>1, <1>2, <2>1, <2>2, Zenon DEF Kept, OrgRows
<1>9. ASSUME NEW u \in User, NEW p \in Org, NEW k, Dissolve(u, p, k) PROVE Kept(o)
  <2>1. /\ OrgStatus(p) = "archived"
        /\ \E row : orgMember' = [orgMember EXCEPT ![p] = row]
        /\ \E row : department' = [department EXCEPT ![p] = row]
    BY <1>9, Zenon DEF Dissolve, dissolve
  <2>2. p # o
    BY <2>1, Zenon
  <2>3. organization'[o] = organization[o] /\ snapshots' = snapshots
    BY <1>2, <1>9, <2>2, RevisingSteps, Zenon DEF Revised, Others
  <2> QED BY <1>1, <1>2, <2>1, <2>2, <2>3, Zenon DEF Kept, OrgRows
<1>10. ASSUME NEW u \in User, NEW p \in Org, NEW t \in User, NEW k, TransferOwner(u, p, t, k) PROVE Kept(o)
  <2>1. /\ OrgExists(p) /\ UNCHANGED department
        /\ \E a, b : orgMember' = [orgMember EXCEPT ![p][u] = a, ![p][t] = b]
    BY <1>10, Zenon DEF TransferOwner, transferOwner, Locked
  <2>2. p # o
    BY <1>2, <2>1, Zenon
  <2>3. organization'[o] = organization[o] /\ snapshots' = snapshots
    BY <1>2, <1>10, <2>2, RevisingSteps, Zenon DEF Revised, Others
  <2> QED BY <1>1, <1>2, <2>1, <2>2, <2>3, Zenon DEF Kept, OrgRows
<1>11. ASSUME NEW u \in User, FinalizeDeletion(u) PROVE Kept(o)
  <2>1. /\ UNCHANGED <<organization, snapshots, department>>
        /\ orgMember'[o] = [t \in User |-> IF t = u /\ RoleIn(o, t) # "owner" THEN NoMember ELSE orgMember[o][t]]
    BY <1>11, Zenon DEF FinalizeDeletion, EraseFromOrganizations
  <2>2. \A t \in User : orgMember[o][t] = NoMember
    BY <1>2, Zenon DEF PolicyInv, OwnershipInv, Owned
  <2>3. orgMember[o] = [t \in User |-> orgMember[o][t]]
    BY <1>2, Zenon DEF OrgRows
  <2>4. orgMember'[o] = orgMember[o]
    BY <2>1, <2>2, <2>3, Zenon
  <2> QED BY <1>1, <2>1, <2>4, Zenon DEF Kept
<1>12. ASSUME NEW u \in User, RequestDeletion(u) \/ StatusStep(u) PROVE Kept(o)
  BY <1>3, <1>12, Zenon DEF RequestDeletion, StatusStep, orgOwn
<1>13. CASE Aside \/ UNCHANGED tenancyVars
  BY <1>3, <1>13, AsideKeeps, Zenon DEF tenancyVars, orgVars
<1> QED BY <1>4, <1>5, <1>6, <1>7, <1>8, <1>9, <1>10, <1>11, <1>12, <1>13, TenancySteps, Zenon DEF RowStep

LEMMA NextEmptied == PolicyInv /\ Emptied /\ [TenancyNext]_tenancyVars => Emptied'
<1> SUFFICES ASSUME PolicyInv, Emptied, [TenancyNext]_tenancyVars, NEW o \in Org, organization'[o].status = "dissolved"
             PROVE  o \notin stocked'
  BY Zenon DEF Emptied, OrgStatus
<1>1. CASE OrgStatus(o) = "dissolved"
  BY <1>1, DissolvedKept, Zenon DEF Kept
<1>2. CASE OrgStatus(o) # "dissolved"
  <2>1. OrgRows
    BY Zenon DEF PolicyInv, OwnershipInv
  <2>2. organization'[o] # organization[o]
    BY <1>2, Zenon DEF OrgStatus
  <2>3. \E u \in User : \E k : Dissolve(u, o, k)
    <3>1. ~(Aside \/ DepartmentStep \/ MemberStep) /\ ~UNCHANGED tenancyVars
      BY <2>1, <2>2, AsideKeeps, DepartmentsKeep, MemberStepWrites, Zenon DEF tenancyVars, orgVars
    <3>2. \A u : ~(RequestDeletion(u) \/ FinalizeDeletion(u) \/ StatusStep(u))
      BY <2>2, Zenon DEF RequestDeletion, FinalizeDeletion, EraseFromOrganizations, StatusStep, orgOwn
    <3>3. ASSUME RowStep PROVE FALSE
      <4>1. PICK p \in Org : OrgExists(p)' /\ \A q \in Org \ {p} : organization'[q] = organization[q]
        BY <2>1, <3>3, RowStepLives, Zenon
      <4> QED BY <2>2, <4>1, Zenon DEF OrgExists, OrgStatus
    <3>4. ASSUME NEW u, NEW p \in Org, NEW k, NEW t, OrgCreate(u, p, k) \/ TransferOwner(u, p, t, k) PROVE FALSE
      <4>1. \/ organization' = [organization EXCEPT ![p] = [status |-> "active", revision |-> 1, policy |-> 1]]
            \/ Bump(p)
        BY <3>4, Zenon DEF OrgCreate, create, TransferOwner, transferOwner
      <4>2. CASE Bump(p)
        BY <1>2, <2>1, <4>2, Zenon DEF OrgRows, OrgRow, Bump, OrgStatus
      <4>3. CASE organization' = [organization EXCEPT ![p] = [status |-> "active", revision |-> 1, policy |-> 1]]
        <5>1. organization'[o] = organization[o] \/ organization'[o].status = "active"
          BY <2>1, <4>3, Zenon DEF OrgRows
        <5> QED BY <2>2, <5>1, Zenon
      <4> QED BY <4>1, <4>2, <4>3, Zenon
    <3>5. ASSUME NEW u, NEW p \in Org, NEW k, Dissolve(u, p, k) PROVE p = o
      BY <2>1, <2>2, <3>5, RevisingSteps, Zenon DEF Revised, Others
    <3> QED BY <3>1, <3>2, <3>3, <3>4, <3>5, TenancySteps, Zenon
  <2> QED BY <2>3, Zenon DEF Dissolve, dissolve, Outer
<1> QED BY <1>1, <1>2, Zenon

\* A dissolved organization holds no agents and never changes again, in any
\* order of account deletions, invitations, transfers and clean-up (dissolve).
THEOREM DissolutionIsFinal == TenancySpec => DissolvedIsFinal
<1>1. TenancyInit => PolicyInv /\ Emptied
  BY InitHistory, Zenon DEF TenancyInit, OrgInit, Emptied
<1>2. PolicyInv /\ Emptied /\ [TenancyNext]_tenancyVars =>
        [\A o \in Org : OrgStatus(o) = "dissolved" =>
          /\ o \notin stocked'
          /\ organization'[o] = organization[o] /\ orgMember'[o] = orgMember[o]
          /\ department'[o] = department[o]
          /\ {v \in 1..OrgMaxRevision : <<o, v>> \in snapshots'} =
             {v \in 1..OrgMaxRevision : <<o, v>> \in snapshots}]_orgVars
  BY DissolvedKept, Zenon DEF Kept
<1> QED BY <1>1, <1>2, NextHistory, NextEmptied, PTL DEF TenancySpec, DissolvedIsFinal

-----------------------------------------------------------------------------
(* Counting.  What the arguments need of finite sets is a hypothesis of the *)
(* lemmas until the library's theorems discharge it (CountingHolds).        *)

\* Where f tells the members of S apart there are as many pictures as members.
Pictured(S, f) ==
    (\A x, y \in S : f[x] = f[y] => x = y) => Cardinality({f[x] : x \in S}) = Cardinality(S)

Counting ==
    /\ Cardinality({}) = 0
    /\ \A x : Cardinality({x}) = 1
    /\ \A S : IsFiniteSet(S) => Cardinality(S) \in Nat /\ (Cardinality(S) = 0 <=> S = {})
    /\ \A S : IsFiniteSet(S) => \A T \in SUBSET S : IsFiniteSet(T) /\ Cardinality(T) <= Cardinality(S)
    /\ \A S, x : IsFiniteSet(S) =>
           IsFiniteSet(S \cup {x}) /\ Cardinality(S \cup {x}) \in {Cardinality(S), Cardinality(S) + 1}
    /\ \A S, f : IsFiniteSet(S) => Pictured(S, f)

LEMMA NoneCounted == ASSUME Counting PROVE Cardinality({}) = 0
BY Zenon DEF Counting

LEMMA OneCounted == ASSUME Counting, NEW x PROVE Cardinality({x}) = 1
BY Zenon DEF Counting

LEMMA CountsNatural ==
    ASSUME Counting, NEW S, IsFiniteSet(S)
    PROVE  Cardinality(S) \in Nat /\ (Cardinality(S) = 0 <=> S = {})
BY Zenon DEF Counting

LEMMA PartsFinite ==
    ASSUME Counting, NEW S, IsFiniteSet(S), NEW T \in SUBSET S
    PROVE  IsFiniteSet(T) /\ Cardinality(T) <= Cardinality(S)
BY Zenon DEF Counting

LEMMA AddedCounted ==
    ASSUME Counting, NEW S, IsFiniteSet(S), NEW x
    PROVE  IsFiniteSet(S \cup {x}) /\ Cardinality(S \cup {x}) \in {Cardinality(S), Cardinality(S) + 1}
BY Zenon DEF Counting

LEMMA Fewer ==
    ASSUME Counting, NEW S, NEW T, IsFiniteSet(S), T \subseteq S, NEW n \in Nat, Cardinality(S) <= n
    PROVE  Cardinality(T) <= n
<1>1. IsFiniteSet(T) /\ Cardinality(T) <= Cardinality(S)
  BY PartsFinite, Zenon
<1>2. Cardinality(T) \in Nat /\ Cardinality(S) \in Nat
  BY <1>1, CountsNatural, Zenon
<1> QED BY <1>1, <1>2

LEMMA OneMore ==
    ASSUME Counting, NEW S, NEW T, NEW x, IsFiniteSet(S), T \subseteq S \cup {x}, NEW n \in Nat, Cardinality(S) < n
    PROVE  Cardinality(T) <= n
<1>1. IsFiniteSet(S \cup {x}) /\ Cardinality(S \cup {x}) \in {Cardinality(S), Cardinality(S) + 1}
  BY AddedCounted, Zenon
<1>2. Cardinality(S) \in Nat
  BY CountsNatural, Zenon
<1>3. Cardinality(S \cup {x}) <= n
  BY <1>1, <1>2
<1> QED BY <1>1, <1>3, Fewer, Zenon

-----------------------------------------------------------------------------
(* Workspaces: the rows.  A call acts on what it read before; the          *)
(* invariants say what the repository may count on when it executes it.    *)

WsRow == [status : {"none", "active", "archived", "deleted"}, owner : User \cup {NoOne}, revision : Nat]
SeatRow == [role : WsRole, revision : Nat]
InviteRow == [ws : WorkspaceId \cup {Nowhere}, lapsed : BOOLEAN,
              status : {"none", "pending", "accepted", "revoked", "expired", "deleted"}]

\* A membership is inserted as a member's at revision 1, and each change moves
\* it to the other of two roles, so its revision tells its role.
Standing(n) == IF n % 2 = 1 THEN "member" ELSE "admin"
Stands(row) == row.role \in {"none", "owner", Standing(row.revision)}

\* A workspace that exists has its owner's row and no other with that role; one
\* that does not has no row.
Seated(w) ==
    IF Exists(w) THEN /\ workspace[w].owner \in User
                      /\ \A t \in User : Role(w, t) = "owner" <=> t = workspace[w].owner
    ELSE \A t \in User : member[w][t] = NoRow

SeatInv ==
    /\ workspace \in [WorkspaceId -> WsRow] /\ member \in [WorkspaceId -> [User -> SeatRow]]
    /\ \A w \in WorkspaceId : Seated(w) /\ \A t \in User : Stands(member[w][t])
    /\ \A u \in User : Cardinality(ActiveOwned(u)) <= ActiveOwnedLimit
    /\ \A w \in WorkspaceId : Cardinality(Members(w)) <= WsMemberLimit

InviteInv ==
    /\ wsInvitation \in [WsInvitation -> InviteRow]
    /\ \A i \in WsInvitation : wsInvitation[i].status = "pending" =>
           wsInvitation[i].ws \in WorkspaceId /\ workspace[wsInvitation[i].ws].status = "active"
    /\ \A w \in WorkspaceId : Cardinality(WsPending(w)) <= PendingInviteLimit

\* What a role change or removal in flight was shown.
Shown(c) ==
    /\ "op" \in DOMAIN c
    /\ c.op \in {"role", "remove"} => /\ "seen" \in DOMAIN c /\ "revision" \in DOMAIN c
                                     /\ c.seen = Standing(c.revision)
CallInv == call = [u \in User |-> call[u]] /\ \A u \in User : Shown(call[u])

\* Who acts: an active account, or one whose call began while it was.
Present(t) == ActiveActor(t) \/ call[t] # NoCall

\* A call ends before its caller's recovery window does.
InTime == \A u \in User : call[u] # NoCall => account[u] \notin {"elapsed", "finalized"}

\* An invitation that was made, and what the record of a command names
WsSent(i) == wsInvitation[i].status \notin {"none", "deleted"}
WsAnswers(r) ==
    /\ r.actor \in User /\ r.ws \in WorkspaceId /\ Exists(r.ws)
    /\ \/ r.op = "create" /\ r.about = r.ws /\ workspace[r.ws].owner = r.actor
       \/ r.op = "accept" /\ r.about = r.actor
       \/ r.op = "invite" /\ r.about \in WsInvitation /\ wsInvitation[r.about].ws = r.ws /\ WsSent(r.about)
RecordInv == \A r \in wsRecord : WsAnswers(r)

\* What no step but an erasure ends
WsRemain == \A w \in WorkspaceId : Exists(w) => Exists(w)' /\ workspace'[w].owner = workspace[w].owner
InvitesRemain == \A i \in WsInvitation : WsSent(i) => WsSent(i)' /\ wsInvitation'[i].ws = wsInvitation[i].ws

LEMMA NoSeat == NoRow \in SeatRow /\ NoRow.role = "none" /\ Stands(NoRow)
BY Zenon DEF NoRow, SeatRow, WsRole, Stands

LEMMA FiniteWs ==
    ASSUME Counting
    PROVE  /\ \A u : IsFiniteSet(ActiveOwned(u))
           /\ \A w : IsFiniteSet(Members(w)) /\ IsFiniteSet(WsPending(w))
<1>1. \A u : ActiveOwned(u) \in SUBSET WorkspaceId
  BY Zenon DEF ActiveOwned
<1>2. \A w : Members(w) \in SUBSET User /\ WsPending(w) \in SUBSET WsInvitation
  BY Zenon DEF Members, WsPending
<1> QED BY <1>1, <1>2, WorkspaceParameters, PartsFinite, Zenon

LEMMA CreateSeats ==
    ASSUME Counting, SeatInv, NEW u \in User, NEW w \in WorkspaceId, NEW k, wsCreate(u, w, k)
    PROVE  SeatInv'
<1> DEFINE row == [role |-> "owner", revision |-> 1]
           born == [status |-> "active", owner |-> u, revision |-> 1]
<1>1. /\ workspace[w].status = "none" /\ Cardinality(ActiveOwned(u)) < ActiveOwnedLimit
      /\ workspace' = [workspace EXCEPT ![w] = born] /\ member' = [member EXCEPT ![w][u] = row]
  BY Zenon DEF wsCreate, SetMember
<1>2. /\ row \in SeatRow /\ row.role = "owner" /\ Stands(row)
      /\ born \in WsRow /\ born.status = "active" /\ born.owner = u
  BY Zenon DEF SeatRow, WsRow, WsRole, Stands
<1> HIDE DEF row, born
<1>3. /\ workspace' \in [WorkspaceId -> WsRow] /\ member' \in [WorkspaceId -> [User -> SeatRow]]
      /\ \A v \in WorkspaceId : workspace'[v] = IF v = w THEN born ELSE workspace[v]
      /\ \A v \in WorkspaceId, t \in User : member'[v][t] = IF v = w /\ t = u THEN row ELSE member[v][t]
  BY <1>1, <1>2, Zenon DEF SeatInv
<1>4. \A t \in User : member[w][t] = NoRow
  BY <1>1, Zenon DEF SeatInv, Seated, Exists
<1>5. \A v \in WorkspaceId : Seated(v)' /\ \A t \in User : Stands(member'[v][t])
  <2>1. Seated(w)'
    BY <1>2, <1>3, <1>4, NoSeat DEF Seated, Exists, Role
  <2>2. \A v \in WorkspaceId \ {w} : Seated(v)'
    BY <1>3 DEF SeatInv, Seated, Exists, Role
  <2>3. \A v \in WorkspaceId, t \in User : Stands(member'[v][t])
    BY <1>2, <1>3, ZenonT(40) DEF SeatInv
  <2> QED BY <2>1, <2>2, <2>3, Zenon
<1>6. \A t \in User : Cardinality(ActiveOwned(t)') <= ActiveOwnedLimit
  <2>1. ActiveOwned(u)' \subseteq ActiveOwned(u) \cup {w} /\ \A t \in User \ {u} : ActiveOwned(t)' \subseteq ActiveOwned(t)
    BY <1>2, <1>3, Zenon DEF ActiveOwned
  <2>2. ActiveOwnedLimit \in Nat
    BY WorkspaceParameters, Zenon
  <2> QED BY <1>1, <2>1, <2>2, FiniteWs, OneMore, Fewer, Zenon DEF SeatInv
<1>7. \A v \in WorkspaceId : Cardinality(Members(v)') <= WsMemberLimit
  <2>1. Members(w)' = {u} /\ \A v \in WorkspaceId \ {w} : Members(v)' = Members(v)
    BY <1>2, <1>3, <1>4, NoSeat DEF Members, Role
  <2>2. Cardinality({u}) = 1 /\ WsMemberLimit \in Nat \ {0}
    BY OneCounted, WorkspaceParameters, Zenon
  <2>3. 1 <= WsMemberLimit
    BY <2>2
  <2>4. \A v \in WorkspaceId : Cardinality(Members(v)) <= WsMemberLimit
    BY Zenon DEF SeatInv
  <2> HIDE DEF Members
  <2> QED BY <2>1, <2>2, <2>3, <2>4, Zenon
<1> QED BY <1>3, <1>5, <1>6, <1>7, Zenon DEF SeatInv

\* The workspace's own row is written: it stays with its owner, and becomes
\* active only where that fits the owner's limit.
Turned(w, row) ==
    /\ Exists(w) /\ row \in WsRow /\ row.status \in {"active", "archived"} /\ row.owner = workspace[w].owner
    /\ row.status = "active" => \/ workspace[w].status = "active"
                                \/ Cardinality(ActiveOwned(row.owner)) < ActiveOwnedLimit
    /\ workspace' = [workspace EXCEPT ![w] = row]

LEMMA TurnSeats ==
    ASSUME Counting, SeatInv, NEW w \in WorkspaceId, NEW row, Turned(w, row), UNCHANGED member
    PROVE  SeatInv'
<1>1. /\ workspace' \in [WorkspaceId -> WsRow]
      /\ \A v \in WorkspaceId : workspace'[v] = IF v = w THEN row ELSE workspace[v]
  BY Zenon DEF SeatInv, Turned
<1>2. \A v \in WorkspaceId : Seated(v)'
  BY <1>1 DEF SeatInv, Turned, Seated, Exists, Role
<1>3. \A t \in User : Cardinality(ActiveOwned(t)') <= ActiveOwnedLimit
  <2> SUFFICES ASSUME NEW t \in User PROVE Cardinality(ActiveOwned(t)') <= ActiveOwnedLimit
    BY Zenon
  <2>1. CASE row.status = "active" /\ workspace[w].status # "active" /\ t = row.owner
    <3>1. ActiveOwned(t)' \subseteq ActiveOwned(t) \cup {w}
      BY <1>1, Zenon DEF ActiveOwned
    <3>2. Cardinality(ActiveOwned(t)) < ActiveOwnedLimit
      BY <2>1, Zenon DEF Turned
    <3> QED BY <3>1, <3>2, FiniteWs, OneMore, WorkspaceParameters, Zenon
  <2>2. CASE ~(row.status = "active" /\ workspace[w].status # "active" /\ t = row.owner)
    <3>1. ActiveOwned(t)' \subseteq ActiveOwned(t)
      BY <1>1, <2>2, Zenon DEF ActiveOwned, Turned
    <3> QED BY <3>1, FiniteWs, Fewer, WorkspaceParameters, Zenon DEF SeatInv
  <2> QED BY <2>1, <2>2, Zenon
<1>4. \A v \in WorkspaceId : Members(v)' = Members(v)
  BY Zenon DEF Members, Role
<1> QED BY <1>1, <1>2, <1>3, <1>4, Zenon DEF SeatInv

LEMMA TurnRemains ==
    ASSUME SeatInv, NEW w \in WorkspaceId, NEW row, Turned(w, row)
    PROVE  WsRemain
<1>1. \A v \in WorkspaceId : workspace'[v] = IF v = w THEN row ELSE workspace[v]
  BY Zenon DEF SeatInv, Turned
<1> QED BY <1>1, Zenon DEF Turned, WsRemain, Exists

LEMMA SameRemain ==
    (UNCHANGED workspace => WsRemain) /\ (UNCHANGED wsInvitation => InvitesRemain)
BY Zenon DEF WsRemain, InvitesRemain, Exists, WsSent

\* A membership row is written: never the owner's, and a new one only where it
\* fits the limit.
Placed(w, t, row) ==
    /\ Exists(w) /\ Role(w, t) # "owner"
    /\ row \in SeatRow /\ row.role # "owner" /\ Stands(row)
    /\ row.role = "none" \/ Role(w, t) # "none" \/ Cardinality(Members(w)) < WsMemberLimit
    /\ member' = [member EXCEPT ![w][t] = row]

LEMMA PlaceSeats ==
    ASSUME Counting, SeatInv, NEW w \in WorkspaceId, NEW t \in User, NEW row, Placed(w, t, row), UNCHANGED workspace
    PROVE  SeatInv'
<1>1. /\ member' \in [WorkspaceId -> [User -> SeatRow]]
      /\ \A v \in WorkspaceId, x \in User : member'[v][x] = IF v = w /\ x = t THEN row ELSE member[v][x]
  BY Zenon DEF SeatInv, Placed
<1>2. \A v \in WorkspaceId : Seated(v)'
  BY <1>1 DEF SeatInv, Placed, Seated, Exists, Role
<1>3. \A v \in WorkspaceId, x \in User : Stands(member'[v][x])
  BY <1>1, ZenonT(40) DEF SeatInv, Placed
<1>4. \A v \in WorkspaceId : Cardinality(Members(v)') <= WsMemberLimit
  <2>1. \A v \in WorkspaceId \ {w} : Members(v)' = Members(v)
    BY <1>1, Zenon DEF Members, Role
  <2>2. Cardinality(Members(w)') <= WsMemberLimit
    <3>1. CASE row.role = "none" \/ Role(w, t) # "none"
      <4>1. Members(w)' \subseteq Members(w)
        BY <1>1, <3>1, Zenon DEF Members, Role
      <4> QED BY <4>1, FiniteWs, Fewer, WorkspaceParameters, Zenon DEF SeatInv
    <3>2. CASE Cardinality(Members(w)) < WsMemberLimit
      <4>1. Members(w)' \subseteq Members(w) \cup {t}
        BY <1>1, Zenon DEF Members, Role
      <4> QED BY <3>2, <4>1, FiniteWs, OneMore, WorkspaceParameters, Zenon
    <3> QED BY <3>1, <3>2, Zenon DEF Placed
  <2> QED BY <2>1, <2>2, Zenon DEF SeatInv
<1>5. \A u \in User : ActiveOwned(u)' = ActiveOwned(u)
  BY Zenon DEF ActiveOwned
<1> QED BY <1>1, <1>2, <1>3, <1>4, <1>5, Zenon DEF SeatInv

LEMMA EraseSeats ==
    ASSUME Counting, SeatInv, NEW u \in User, EraseFromWorkspaces(u)
    PROVE  SeatInv' /\ \A w \in WorkspaceId : Role(w, u)' = "none"
<1> DEFINE owned == {w \in WorkspaceId : Exists(w) /\ workspace[w].owner = u}
<1>1. /\ workspace' = [w \in WorkspaceId |->
             IF w \in owned THEN [workspace[w] EXCEPT !.status = "deleted"] ELSE workspace[w]]
      /\ member' = [w \in WorkspaceId |-> [t \in User |->
             IF w \in owned \/ (t = u /\ Role(w, t) # "owner") THEN NoRow ELSE member[w][t]]]
  BY Zenon DEF EraseFromWorkspaces
<1>2. \A w \in WorkspaceId : LET row == [workspace[w] EXCEPT !.status = "deleted"]
                             IN  row \in WsRow /\ row.status = "deleted" /\ row.owner = workspace[w].owner
  BY Zenon DEF SeatInv, WsRow
<1>3. \A w \in WorkspaceId : w \notin owned => Role(w, u) # "owner"
  BY NoSeat, Zenon DEF SeatInv, Seated, Role
<1>4. owned \subseteq WorkspaceId
  BY Zenon
<1> HIDE DEF owned
<1>5. /\ workspace' \in [WorkspaceId -> WsRow]
      /\ \A w \in WorkspaceId : IF w \in owned THEN workspace'[w].status = "deleted" ELSE workspace'[w] = workspace[w]
  BY <1>1, <1>2, Zenon DEF SeatInv
<1>6. /\ member' \in [WorkspaceId -> [User -> SeatRow]]
      /\ \A w \in WorkspaceId, t \in User : member'[w][t] = IF w \in owned \/ t = u THEN NoRow ELSE member[w][t]
  <2>1. \A w \in WorkspaceId, t \in User : member'[w][t] = IF w \in owned \/ t = u THEN NoRow ELSE member[w][t]
    BY <1>1, <1>3, Zenon
  <2>2. \A w \in WorkspaceId, t \in User : member'[w][t] \in SeatRow
    BY <2>1, NoSeat, Zenon DEF SeatInv
  <2>3. member' = [w \in WorkspaceId |-> [t \in User |-> member'[w][t]]]
    BY <1>1, Zenon
  <2> QED BY <2>1, <2>2, <2>3, Zenon
<1>7. \A w \in WorkspaceId : Seated(w)'
  <2> SUFFICES ASSUME NEW w \in WorkspaceId PROVE Seated(w)'
    BY Zenon
  <2>1. CASE w \in owned
    BY <1>5, <1>6, <2>1, Zenon DEF Seated, Exists
  <2>2. CASE w \notin owned
    <3>1. Exists(w)' <=> Exists(w)
      BY <1>5, <2>2, Zenon DEF Exists
    <3>2. \A t \in User : Role(w, t)' = "owner" <=> Role(w, t) = "owner"
      BY <1>3, <1>6, <2>2, NoSeat, Zenon DEF Role
    <3>3. ~Exists(w) => \A t \in User : member'[w][t] = NoRow
      BY <1>6, Zenon DEF SeatInv, Seated
    <3> QED BY <1>5, <2>2, <3>1, <3>2, <3>3, ZenonT(40) DEF SeatInv, Seated
  <2> QED BY <2>1, <2>2, Zenon
<1>8. \A w \in WorkspaceId, t \in User : Stands(member'[w][t])
  BY <1>6, NoSeat, Zenon DEF SeatInv
<1>9. \A t \in User : ActiveOwned(t)' \subseteq ActiveOwned(t)
  BY <1>5, Zenon DEF ActiveOwned
<1>10. \A w \in WorkspaceId : Members(w)' \subseteq Members(w)
  BY <1>6, NoSeat, Zenon DEF Members, Role
<1>11. /\ \A t \in User : Cardinality(ActiveOwned(t)') <= ActiveOwnedLimit
       /\ \A w \in WorkspaceId : Cardinality(Members(w)') <= WsMemberLimit
  BY <1>9, <1>10, FiniteWs, Fewer, WorkspaceParameters, Zenon DEF SeatInv
<1> QED BY <1>5, <1>6, <1>7, <1>8, <1>11, NoSeat, Zenon DEF SeatInv, Role

-----------------------------------------------------------------------------
(* Workspaces: the invitations *)

\* Invitations that are pending were so before, and their workspace is active.
LEMMA InvitesSettle ==
    ASSUME Counting, InviteInv, wsInvitation' \in [WsInvitation -> InviteRow],
           \A i \in WsInvitation : wsInvitation'[i].status = "pending" =>
               /\ wsInvitation[i].status = "pending" /\ wsInvitation'[i].ws = wsInvitation[i].ws
               /\ workspace'[wsInvitation[i].ws].status = "active"
    PROVE  InviteInv'
<1>1. \A w \in WorkspaceId : WsPending(w)' \subseteq WsPending(w)
  BY Zenon DEF WsPending
<1>2. \A w \in WorkspaceId : Cardinality(WsPending(w)') <= PendingInviteLimit
  BY <1>1, FiniteWs, Fewer, WorkspaceParameters, Zenon DEF InviteInv
<1> QED BY <1>2, ZenonT(40) DEF InviteInv

LEMMA InvitesStay ==
    ASSUME Counting, InviteInv, UNCHANGED wsInvitation,
           \A w \in WorkspaceId : workspace[w].status = "active" => workspace'[w].status = "active"
    PROVE  InviteInv'
BY InvitesSettle, Zenon DEF InviteInv

\* An invitation whose status is set
LEMMA StatusSet ==
    ASSUME NEW row \in InviteRow, NEW s \in {"accepted", "revoked", "expired", "deleted"}
    PROVE  LET new == [row EXCEPT !.status = s] IN new \in InviteRow /\ new.status = s /\ new.ws = row.ws
BY Zenon DEF InviteRow

LEMMA InviteCreated ==
    ASSUME Counting, InviteInv, NEW u, NEW w \in WorkspaceId, NEW i \in WsInvitation, NEW k, wsCreateInvitation(u, w, i, k)
    PROVE  InviteInv' /\ InvitesRemain /\ WsSent(i)' /\ wsInvitation'[i].ws = w
<1> DEFINE overdue == {j \in WsPending(w) : wsInvitation[j].lapsed}
           new == [ws |-> w, status |-> "pending", lapsed |-> FALSE]
<1>1. /\ Writable(u, w, {"owner", "admin"}) /\ Cardinality(WsPending(w) \ overdue) < PendingInviteLimit
      /\ wsInvitation[i].status = "none"
      /\ wsInvitation' = [j \in WsInvitation |->
             IF j = i THEN new
             ELSE IF j \in overdue THEN [wsInvitation[j] EXCEPT !.status = "expired"]
             ELSE wsInvitation[j]]
      /\ UNCHANGED workspace
  BY Zenon DEF wsCreateInvitation
<1>2. new \in InviteRow /\ new.ws = w /\ new.status = "pending"
  BY Zenon DEF InviteRow
<1>3. workspace[w].status = "active"
  BY <1>1, Zenon DEF Writable
<1>4. \A j \in overdue : j \in WsInvitation
  BY Zenon DEF WsPending
<1>5. IsFiniteSet(WsPending(w) \ overdue)
  <2>1. WsPending(w) \ overdue \in SUBSET WsPending(w)
    BY Zenon
  <2> QED BY <2>1, FiniteWs, PartsFinite, Zenon
<1> HIDE DEF new
<1>6. \A j \in WsInvitation : LET row == [wsInvitation[j] EXCEPT !.status = "expired"]
                              IN  row \in InviteRow /\ row.status = "expired" /\ row.ws = wsInvitation[j].ws
  BY StatusSet, Zenon DEF InviteInv
<1>7. WsPending(w)' \subseteq (WsPending(w) \ overdue) \cup {i}
  <2> SUFFICES ASSUME NEW j \in WsInvitation, wsInvitation'[j].status = "pending", wsInvitation'[j].ws = w, j # i
               PROVE  j \in WsPending(w) \ overdue
    BY Zenon DEF WsPending
  <2>1. j \notin overdue
    BY <1>1, <1>6, ZenonT(40)
  <2>2. wsInvitation'[j] = wsInvitation[j]
    BY <1>1, <2>1, Zenon
  <2> QED BY <2>1, <2>2, Zenon DEF WsPending
<1> HIDE DEF overdue
<1>8. \A j \in WsInvitation :
          \/ j = i /\ wsInvitation'[j] = new
          \/ /\ j # i /\ wsInvitation'[j].status = "expired" /\ wsInvitation'[j] \in InviteRow
             /\ wsInvitation'[j].ws = wsInvitation[j].ws
          \/ j # i /\ wsInvitation'[j] = wsInvitation[j]
  BY <1>1, <1>6, ZenonT(40)
<1>9. wsInvitation' \in [WsInvitation -> InviteRow]
  <2>1. wsInvitation' = [j \in WsInvitation |-> wsInvitation'[j]]
    BY <1>1, ZenonT(40)
  <2> QED BY <1>2, <1>8, <2>1, Zenon DEF InviteInv
<1>10. \A j \in WsInvitation : wsInvitation'[j].status = "pending" =>
           wsInvitation'[j].ws \in WorkspaceId /\ workspace'[wsInvitation'[j].ws].status = "active"
  BY <1>1, <1>2, <1>3, <1>8, ZenonT(40) DEF InviteInv
<1>11. \A v \in WorkspaceId \ {w} : WsPending(v)' \subseteq WsPending(v)
  BY <1>2, <1>8, Zenon DEF WsPending
<1>12. PendingInviteLimit \in Nat
  BY WorkspaceParameters, Zenon
<1>13. Cardinality(WsPending(w)') <= PendingInviteLimit
  BY <1>1, <1>5, <1>7, <1>12, OneMore, Zenon
<1>14. \A v \in WorkspaceId \ {w} : Cardinality(WsPending(v)') <= PendingInviteLimit
  BY <1>11, <1>12, FiniteWs, Fewer, Zenon DEF InviteInv
<1>15. InvitesRemain /\ WsSent(i)' /\ wsInvitation'[i].ws = w
  BY <1>1, <1>2, <1>8, Zenon DEF InvitesRemain, WsSent
<1> QED BY <1>9, <1>10, <1>13, <1>14, <1>15, Zenon DEF InviteInv

LEMMA InviteWritten ==
    ASSUME Counting, InviteInv, NEW i \in WsInvitation, NEW s \in {"accepted", "revoked", "expired", "deleted"},
           wsInvitation' = [wsInvitation EXCEPT ![i].status = s], UNCHANGED workspace
    PROVE  InviteInv' /\ (s # "deleted" => InvitesRemain)
<1> DEFINE row == [wsInvitation[i] EXCEPT !.status = s]
<1>1. row \in InviteRow /\ row.status = s /\ row.ws = wsInvitation[i].ws
  BY StatusSet, Zenon DEF InviteInv
<1>2. wsInvitation' = [wsInvitation EXCEPT ![i] = row]
  BY Zenon
<1> HIDE DEF row
<1>3. /\ wsInvitation' \in [WsInvitation -> InviteRow]
      /\ \A j \in WsInvitation : wsInvitation'[j] = IF j = i THEN row ELSE wsInvitation[j]
  BY <1>1, <1>2, ZenonT(40) DEF InviteInv
<1>4. s # "deleted" => InvitesRemain
  BY <1>1, <1>3, Zenon DEF InvitesRemain, WsSent
<1>5. InviteInv'
  BY <1>1, <1>3, InvitesSettle, Zenon DEF InviteInv
<1> QED BY <1>4, <1>5, Zenon

LEMMA InviteLapses ==
    ASSUME Counting, InviteInv, NEW i \in WsInvitation, WsLapse(i)
    PROVE  InviteInv' /\ InvitesRemain
<1> DEFINE row == [wsInvitation[i] EXCEPT !.lapsed = TRUE]
<1>a. wsInvitation[i] \in InviteRow
  BY Zenon DEF InviteInv
<1>b. row \in InviteRow
  BY <1>a, Zenon DEF InviteRow
<1>c. row.status = wsInvitation[i].status /\ row.ws = wsInvitation[i].ws
  BY <1>a, Zenon DEF InviteRow
<1>1. row \in InviteRow /\ row.status = wsInvitation[i].status /\ row.ws = wsInvitation[i].ws
  BY <1>b, <1>c, Zenon
<1>2. wsInvitation' = [wsInvitation EXCEPT ![i] = row] /\ UNCHANGED workspace
  BY Zenon DEF WsLapse
<1> HIDE DEF row
<1>3. /\ wsInvitation' \in [WsInvitation -> InviteRow]
      /\ \A j \in WsInvitation : wsInvitation'[j] = IF j = i THEN row ELSE wsInvitation[j]
  BY <1>1, <1>2, Zenon DEF InviteInv
<1>4. InvitesRemain
  BY <1>1, <1>3, Zenon DEF InvitesRemain, WsSent
<1>5. InviteInv'
  BY <1>1, <1>2, <1>3, InvitesSettle, ZenonT(40) DEF InviteInv
<1> QED BY <1>4, <1>5, Zenon

\* Every invitation of a set is given the status s.
Settled(S, s) ==
    wsInvitation' = [i \in WsInvitation |->
        IF i \in S THEN [wsInvitation[i] EXCEPT !.status = s] ELSE wsInvitation[i]]

LEMMA InvitesSettled ==
    ASSUME Counting, InviteInv, NEW S, NEW s \in {"accepted", "revoked", "expired", "deleted"}, Settled(S, s),
           \A i \in WsInvitation : i \notin S /\ wsInvitation[i].status = "pending" =>
               workspace'[wsInvitation[i].ws].status = "active"
    PROVE  InviteInv'
<1>1. \A i \in WsInvitation : LET row == [wsInvitation[i] EXCEPT !.status = s]
                              IN  row \in InviteRow /\ row.status = s
  BY StatusSet, Zenon DEF InviteInv
<1>2. \A i \in WsInvitation : \/ i \in S /\ wsInvitation'[i].status = s /\ wsInvitation'[i] \in InviteRow
                              \/ i \notin S /\ wsInvitation'[i] = wsInvitation[i]
  BY <1>1, Zenon DEF Settled
<1>3. wsInvitation' = [i \in WsInvitation |-> wsInvitation'[i]]
  BY Zenon DEF Settled
<1>4. wsInvitation' \in [WsInvitation -> InviteRow]
  BY <1>2, <1>3, Zenon DEF InviteInv
<1> QED BY <1>2, <1>4, InvitesSettle, Zenon

LEMMA SettledRemain ==
    ASSUME InviteInv, NEW S, NEW s \in {"accepted", "revoked", "expired"}, Settled(S, s)
    PROVE  InvitesRemain
<1>0. s \in {"accepted", "revoked", "expired", "deleted"}
  BY Zenon
<1>1. \A i \in WsInvitation : LET row == [wsInvitation[i] EXCEPT !.status = s]
                              IN  row.status = s /\ row.ws = wsInvitation[i].ws
  BY <1>0, StatusSet, Zenon DEF InviteInv
<1>2. \A i \in WsInvitation : \/ wsInvitation'[i].status = s /\ wsInvitation'[i].ws = wsInvitation[i].ws
                              \/ wsInvitation'[i] = wsInvitation[i]
  BY <1>1, Zenon DEF Settled
<1> QED BY <1>2, Zenon DEF InvitesRemain, WsSent

-----------------------------------------------------------------------------
(* Workspaces: the steps *)

WsTables == <<workspace, member, wsInvitation, wsRecord>>

\* A transaction of the repository
WsWrites ==
    \E u \in User :
        /\ Present(u)
        /\ \/ \E w \in WorkspaceId : \E n, k :
                 \/ wsCreate(u, w, k) \/ wsRename(u, w, n) \/ wsArchive(u, w, n) \/ wsRestore(u, w, n) \/ wsLeave(u, w)
                 \/ \E t \in User : \/ wsRemoveMember(u, w, t, n)
                                    \/ \E role \in {"admin", "member"} : wsChangeMemberRole(u, w, t, role, n)
                 \/ \E i \in WsInvitation : wsCreateInvitation(u, w, i, k) \/ wsRevokeInvitation(u, w, i)
           \/ \E i \in WsInvitation : \E k : wsAcceptInvitation(u, i, k)

LEMMA WsSteps ==
    ASSUME WsNext
    PROVE  WsWrites \/ UNCHANGED WsTables \/ \E i \in WsInvitation : WsLapse(i)
<1> DEFINE Done == WsWrites \/ UNCHANGED WsTables
<1>0. NoCall.op = "none"
  BY Zenon DEF NoCall
<1> HIDE DEF NoCall
<1>1. /\ \A u, c : Begin(u, c) => UNCHANGED WsTables
      /\ \A u, op : op # "none" /\ Executing(u, op) => Present(u)
  BY <1>0, Zenon DEF Begin, WsTables, Executing, Present
<1>2. ASSUME NEW u \in User, NEW w \in WorkspaceId,
             RenameWorkspace(u, w) \/ ArchiveWorkspace(u, w) \/ RestoreWorkspace(u, w) \/ LeaveWorkspace(u, w)
      PROVE  Done
  BY <1>1, <1>2, Zenon DEF RenameWorkspace, ArchiveWorkspace, RestoreWorkspace, LeaveWorkspace, WsWrites
<1>3. ASSUME NEW u \in User, NEW w \in WorkspaceId, NEW t \in User, NEW role \in {"admin", "member"},
             WsServiceRemoveMember(u, w, t) \/ ChangeMemberRole(u, w, t, role)
      PROVE  Done
  BY <1>1, <1>3, Zenon DEF WsServiceRemoveMember, ChangeMemberRole, WsWrites
<1>4. ASSUME NEW u \in User, NEW w \in WorkspaceId, NEW k, CreateWorkspace(u, w, k) \/ WsServiceCreateInvitation(u, w, k)
      PROVE  Done
  BY <1>1, <1>4, Zenon DEF CreateWorkspace, wsCreate, Present, WsServiceCreateInvitation, WsWrites
<1>5. ASSUME NEW u \in User, NEW w \in WorkspaceId, NEW i \in WsInvitation, WsServiceRevokeInvitation(u, w, i) PROVE Done
  BY <1>1, <1>5, Zenon DEF WsServiceRevokeInvitation, WsWrites
<1>6. ASSUME NEW u \in User, NEW i \in WsInvitation, NEW k, WsServiceAcceptInvitation(u, i, k) PROVE Done
  BY <1>1, <1>6, Zenon DEF WsServiceAcceptInvitation, WsWrites
<1>7. \A u \in User : Admit(u) \/ WsRefused(u) => Done
  BY Zenon DEF Admit, WsRefused, WsTables
<1> HIDE DEF Done
<1>8. \A u \in User, w \in WorkspaceId : WsCall(u, w) => Done
  BY <1>2, <1>3, <1>4, <1>5, Zenon DEF WsCall
<1>9. Done \/ \E i \in WsInvitation : WsLapse(i)
  BY <1>6, <1>7, <1>8, Zenon DEF WsNext
<1> QED BY <1>9, Zenon DEF Done

\* Whom a step may give a membership or a record, and where
Careful ==
    /\ \A w \in WorkspaceId : workspace[w].status = "archived" => member'[w] = member[w]
    /\ \A w \in WorkspaceId, t \in User : Role(w, t)' # "none" => Role(w, t) # "none" \/ Present(t)
Recorded == \A r \in wsRecord' : r \in wsRecord \/ (Present(r.actor) /\ WsAnswers(r)')

WsKept == SeatInv' /\ InviteInv' /\ Careful /\ Recorded /\ WsRemain /\ InvitesRemain

LEMMA SeatsSame == SeatInv /\ UNCHANGED <<workspace, member>> => SeatInv'
BY ZenonT(40) DEF SeatInv, Seated, Exists, Role, ActiveOwned, Members

LEMMA SameIsCareful == UNCHANGED member => Careful
BY Zenon DEF Careful, Role

LEMMA PlacedIsCareful ==
    ASSUME SeatInv, NEW w \in WorkspaceId, NEW t \in User, NEW row, member' = [member EXCEPT ![w][t] = row],
           workspace[w].status # "archived", row.role = "none" \/ Role(w, t) # "none" \/ Present(t)
    PROVE  Careful
<1>1. \A v \in WorkspaceId, x \in User : member'[v][x] = IF v = w /\ x = t THEN row ELSE member[v][x]
  BY Zenon DEF SeatInv
<1>2. \A v \in WorkspaceId \ {w} : member'[v] = member[v]
  BY Zenon DEF SeatInv
<1> QED BY <1>1, <1>2 DEF Careful, Role

LEMMA RecordAdded ==
    ASSUME NEW u \in User, NEW op, NEW k, NEW about, NEW w \in WorkspaceId, Record(u, op, k, about, w), Present(u),
           Exists(w)',
           \/ op = "create" /\ about = w /\ workspace'[w].owner = u
           \/ op = "accept" /\ about = u
           \/ op = "invite" /\ about \in WsInvitation /\ wsInvitation'[about].ws = w /\ WsSent(about)'
    PROVE  Recorded
<1> DEFINE row == [actor |-> u, op |-> op, key |-> k, about |-> about, ws |-> w]
<1>1. row.actor = u /\ row.op = op /\ row.about = about /\ row.ws = w
  OBVIOUS
<1>2. \A r \in wsRecord' : r \in wsRecord \/ r = row
  BY Zenon DEF Record
<1> HIDE DEF row
<1>3. WsAnswers(row)'
  BY <1>1, Zenon DEF WsAnswers
<1> QED BY <1>1, <1>2, <1>3, Zenon DEF Recorded

LEMMA SameRecords == UNCHANGED wsRecord => Recorded
BY Zenon DEF Recorded

LEMMA WritableIs ==
    ASSUME NEW u, NEW w, NEW roles, Writable(u, w, roles)
    PROVE  Exists(w) /\ workspace[w].status = "active" /\ Role(w, u) \in roles
BY Zenon DEF Writable, Loaded

LEMMA Alternates ==
    ASSUME NEW n \in Nat, NEW role \in {"admin", "member"}, role # Standing(n)
    PROVE  role = Standing(n + 1)
<1>1. n % 2 = 1 => (n + 1) % 2 # 1
  OBVIOUS
<1>2. n % 2 # 1 => (n + 1) % 2 = 1
  OBVIOUS
<1> QED BY <1>1, <1>2, Zenon DEF Standing

LEMMA RowTurned ==
    ASSUME NEW row \in WsRow, NEW s \in {"active", "archived"}
    PROVE  /\ LET new == [row EXCEPT !.status = s, !.revision = @ + 1]
              IN  new \in WsRow /\ new.status = s /\ new.owner = row.owner
           /\ LET new == [row EXCEPT !.revision = @ + 1]
              IN  new \in WsRow /\ new.status = row.status /\ new.owner = row.owner
<1> DEFINE turned == [row EXCEPT !.status = s, !.revision = @ + 1]
           touched == [row EXCEPT !.revision = @ + 1]
<1>3. touched \in WsRow
  BY DEF WsRow
<1>0. turned = [touched EXCEPT !.status = s]
  BY Zenon DEF WsRow
<1>1. turned \in WsRow
  <2> HIDE DEF turned, touched
  <2> QED BY <1>0, <1>3, Zenon DEF WsRow
<1>2. turned.status = s /\ turned.owner = row.owner
  BY Zenon DEF WsRow
<1>4. touched.status = row.status /\ touched.owner = row.owner
  BY Zenon DEF WsRow
<1> QED BY <1>1, <1>2, <1>3, <1>4, Zenon

LEMMA RowWritesKeep ==
    ASSUME Counting, SeatInv, InviteInv, NEW u \in User, NEW w \in WorkspaceId, NEW n,
           wsRename(u, w, n) \/ wsArchive(u, w, n) \/ wsRestore(u, w, n)
    PROVE  WsKept
<1>0. workspace[w] \in WsRow /\ workspace = [v \in WorkspaceId |-> workspace[v]]
  BY Zenon DEF SeatInv
<1>1. CASE wsRename(u, w, n)
  <2> DEFINE row == [workspace[w] EXCEPT !.revision = @ + 1]
  <2>1. /\ Writable(u, w, {"owner", "admin"}) /\ UNCHANGED <<member, wsInvitation, wsRecord>>
        /\ workspace' = [workspace EXCEPT ![w] = row]
    BY <1>1, Zenon DEF wsRename
  <2>2. row \in WsRow /\ row.status = workspace[w].status /\ row.owner = workspace[w].owner
    BY <1>0, RowTurned, Zenon
  <2> HIDE DEF row
  <2>3. Turned(w, row) /\ workspace'[w].status = "active"
    BY <1>0, <2>1, <2>2, WritableIs, Zenon DEF Turned
  <2>4. SeatInv'
    BY <2>1, <2>3, TurnSeats, ZenonT(40)
  <2>5. InviteInv'
    BY <1>0, <2>1, <2>3, InvitesStay, Zenon
  <2>6. WsRemain /\ InvitesRemain
    BY <2>1, <2>3, TurnRemains, SameRemain, Zenon
  <2> QED BY <2>1, <2>4, <2>5, <2>6, SameIsCareful, SameRecords, ZenonT(40) DEF WsKept
<1>2. CASE wsArchive(u, w, n)
  <2> DEFINE row == [workspace[w] EXCEPT !.status = "archived", !.revision = @ + 1]
  <2>1. /\ Writable(u, w, {"owner"}) /\ UNCHANGED <<member, wsRecord>> /\ Settle(w, "revoked")
        /\ workspace' = [workspace EXCEPT ![w] = row]
    BY <1>2, Zenon DEF wsArchive
  <2>2. row \in WsRow /\ row.status = "archived" /\ row.owner = workspace[w].owner
    BY <1>0, RowTurned, Zenon
  <2> HIDE DEF row
  <2>3. Turned(w, row)
    BY <2>1, <2>2, WritableIs, Zenon DEF Turned
  <2>4. SeatInv'
    BY <2>1, <2>3, TurnSeats, Zenon
  <2>5. Settled(WsPending(w), "revoked")
    BY <2>1, Zenon DEF Settle, Settled
  <2>6. \A i \in WsInvitation : i \notin WsPending(w) /\ wsInvitation[i].status = "pending" =>
            workspace'[wsInvitation[i].ws].status = "active"
    BY <1>0, <2>1, Zenon DEF InviteInv, WsPending
  <2>7. InviteInv'
    BY <2>5, <2>6, InvitesSettled, Zenon
  <2>8. WsRemain /\ InvitesRemain
    BY <2>3, <2>5, TurnRemains, SettledRemain, Zenon
  <2> QED BY <2>1, <2>4, <2>7, <2>8, SameIsCareful, SameRecords, ZenonT(40) DEF WsKept
<1>3. CASE wsRestore(u, w, n)
  <2> DEFINE row == [workspace[w] EXCEPT !.status = "active", !.revision = @ + 1]
  <2>1. /\ Loaded(u, w) /\ Role(w, u) = "owner" /\ Cardinality(ActiveOwned(u)) < ActiveOwnedLimit
        /\ UNCHANGED <<member, wsInvitation, wsRecord>> /\ workspace' = [workspace EXCEPT ![w] = row]
    BY <1>3, Zenon DEF wsRestore
  <2>2. row \in WsRow /\ row.status = "active" /\ row.owner = workspace[w].owner
    BY <1>0, RowTurned, ZenonT(40)
  <2>3. Exists(w) /\ workspace[w].owner = u
    BY <2>1, Zenon DEF Loaded, SeatInv, Seated
  <2> HIDE DEF row
  <2>4. Turned(w, row) /\ workspace'[w].status = "active"
    BY <1>0, <2>1, <2>2, <2>3, ZenonT(40) DEF Turned
  <2>5. SeatInv'
    BY <2>1, <2>4, TurnSeats, Zenon
  <2>6. InviteInv'
    BY <1>0, <2>1, <2>4, InvitesStay, ZenonT(40)
  <2>7. WsRemain /\ InvitesRemain
    BY <2>1, <2>4, TurnRemains, SameRemain, Zenon
  <2> QED BY <2>1, <2>5, <2>6, <2>7, SameIsCareful, SameRecords, ZenonT(40) DEF WsKept
<1> QED BY <1>1, <1>2, <1>3, Zenon

LEMMA SeatWritesKeep ==
    ASSUME Counting, SeatInv, InviteInv,
           NEW u \in User, NEW w \in WorkspaceId, NEW t \in User, NEW n, NEW role \in {"admin", "member"},
           wsChangeMemberRole(u, w, t, role, n) \/ wsRemoveMember(u, w, t, n) \/ wsLeave(u, w)
    PROVE  WsKept
<1>0. UNCHANGED <<workspace, wsInvitation, wsRecord>>
  BY Zenon DEF wsChangeMemberRole, wsRemoveMember, wsLeave
<1>1. InviteInv' /\ Recorded /\ WsRemain /\ InvitesRemain
  BY <1>0, InvitesStay, SameRecords, SameRemain, Zenon
<1>2. CASE wsChangeMemberRole(u, w, t, role, n)
  <2> DEFINE row == [role |-> role, revision |-> n + 1]
  <2>1. /\ Writable(u, w, {"owner"}) /\ Role(w, t) \notin {"none", "owner", role} /\ member[w][t].revision = n
        /\ member' = [member EXCEPT ![w][t] = row]
    BY <1>2, Zenon DEF wsChangeMemberRole, SetMember
  <2>2. n \in Nat /\ Stands(member[w][t])
    BY <2>1, Zenon DEF SeatInv, SeatRow
  <2>3. row \in SeatRow /\ row.role = role /\ row.revision = n + 1
    BY <2>2 DEF SeatRow, WsRole
  <2> HIDE DEF row
  <2>4. role = Standing(n + 1)
    BY <2>1, <2>2, Alternates, Zenon DEF Stands, Role
  <2>5. Placed(w, t, row)
    BY <2>1, <2>3, <2>4, WritableIs, ZenonT(40) DEF Placed, Stands
  <2> QED BY <1>0, <1>1, <2>1, <2>5, WritableIs, PlaceSeats, PlacedIsCareful, ZenonT(40) DEF WsKept
<1>3. ASSUME NEW x \in User, NEW roles, Writable(u, w, roles), Role(w, x) # "owner", SetMember(w, x, NoRow)
      PROVE  WsKept
  <2>1. Placed(w, x, NoRow) /\ member' = [member EXCEPT ![w][x] = NoRow]
    BY <1>3, NoSeat, WritableIs, Zenon DEF Placed, SetMember
  <2> QED BY <1>0, <1>1, <1>3, <2>1, NoSeat, WritableIs, PlaceSeats, PlacedIsCareful, Zenon DEF WsKept
<1>4. CASE wsRemoveMember(u, w, t, n)
  BY <1>3, <1>4, Zenon DEF wsRemoveMember
<1>5. CASE wsLeave(u, w)
  <2>1. Writable(u, w, {"admin", "member"}) /\ SetMember(w, u, NoRow)
    BY <1>5, Zenon DEF wsLeave
  <2>2. Role(w, u) # "owner"
    BY <2>1, Zenon DEF Writable
  <2> QED BY <1>3, <2>1, <2>2, Zenon
<1> QED BY <1>2, <1>4, <1>5, Zenon

LEMMA AcceptKeeps ==
    ASSUME Counting, SeatInv, InviteInv, NEW u \in User, NEW i \in WsInvitation, NEW k, wsAcceptInvitation(u, i, k), Present(u)
    PROVE  WsKept
<1> DEFINE row == [role |-> "member", revision |-> 1]
<1>0. PICK w : w = wsInvitation[i].ws
  OBVIOUS
<1>1. /\ Acceptable(i) /\ UNCHANGED workspace
      /\ wsInvitation' = [wsInvitation EXCEPT ![i].status = "accepted"] /\ Record(u, "accept", k, u, w)
  BY <1>0, Zenon DEF wsAcceptInvitation
<1>2. \/ UNCHANGED member
      \/ Cardinality(Members(w)) < WsMemberLimit /\ Role(w, u) = "none" /\ member' = [member EXCEPT ![w][u] = row]
  BY <1>0, Zenon DEF wsAcceptInvitation, SetMember
<1>9. w \in WorkspaceId /\ workspace[w].status = "active"
  BY <1>0, <1>1, Zenon DEF Acceptable, InviteInv
<1>3. w \in WorkspaceId /\ Exists(w) /\ workspace[w].status # "archived" /\ Exists(w)'
  BY <1>1, <1>9, Zenon DEF Exists
<1>4. row \in SeatRow /\ row.role = "member" /\ Stands(row)
  BY DEF SeatRow, WsRole, Stands, Standing
<1>5. InviteInv' /\ WsRemain /\ InvitesRemain
  BY <1>1, InviteWritten, SameRemain, Zenon
<1> HIDE DEF row
<1>8. Recorded
  BY <1>1, <1>3, RecordAdded, Zenon
<1>6. CASE UNCHANGED member
  BY <1>1, <1>5, <1>6, <1>8, SeatsSame, SameIsCareful, ZenonT(40) DEF WsKept
<1>7. CASE Cardinality(Members(w)) < WsMemberLimit /\ Role(w, u) = "none" /\ member' = [member EXCEPT ![w][u] = row]
  <2>1. Placed(w, u, row)
    BY <1>3, <1>4, <1>7, ZenonT(40) DEF Placed
  <2> QED BY <1>1, <1>3, <1>5, <1>7, <1>8, <2>1, PlaceSeats, PlacedIsCareful, Zenon DEF WsKept
<1> QED BY <1>2, <1>6, <1>7, Zenon

LEMMA WsWritesKeep ==
    ASSUME Counting, SeatInv, InviteInv, WsWrites
    PROVE  WsKept
<1>1. ASSUME NEW u \in User, NEW w \in WorkspaceId, NEW k, wsCreate(u, w, k) PROVE WsKept
  <2> DEFINE born == [status |-> "active", owner |-> u, revision |-> 1]
  <2>0. born.status = "active" /\ born.owner = u
    BY Zenon
  <2>1. PICK row : /\ ActiveActor(u) /\ workspace[w].status = "none" /\ UNCHANGED wsInvitation
                   /\ workspace' = [workspace EXCEPT ![w] = born] /\ member' = [member EXCEPT ![w][u] = row]
                   /\ Record(u, "create", k, w, w)
    BY <1>1, Zenon DEF wsCreate, SetMember
  <2> HIDE DEF born
  <2>2. SeatInv'
    BY <1>1, CreateSeats, Zenon
  <2>3. \A v \in WorkspaceId : workspace'[v] = IF v = w THEN born ELSE workspace[v]
    BY <2>1, Zenon DEF SeatInv
  <2>4. InviteInv' /\ WsRemain /\ InvitesRemain
    BY <2>1, <2>3, InvitesStay, SameRemain, Zenon DEF WsRemain, Exists
  <2>5. Exists(w)' /\ workspace'[w].owner = u
    BY <2>0, <2>3, Zenon DEF Exists
  <2>6. Recorded
    BY <2>1, <2>5, RecordAdded, Zenon DEF Present
  <2>7. Present(u) /\ workspace[w].status # "archived"
    BY <2>1, Zenon DEF Present
  <2> QED BY <2>1, <2>2, <2>4, <2>6, <2>7, PlacedIsCareful, ZenonT(40) DEF WsKept
<1>2. ASSUME NEW u \in User, NEW w \in WorkspaceId, NEW i \in WsInvitation, NEW k, wsCreateInvitation(u, w, i, k), Present(u)
      PROVE  WsKept
  <2>1. Writable(u, w, {"owner", "admin"}) /\ UNCHANGED <<workspace, member>> /\ Record(u, "invite", k, i, w)
    BY <1>2, Zenon DEF wsCreateInvitation
  <2>2. InviteInv' /\ InvitesRemain /\ WsSent(i)' /\ wsInvitation'[i].ws = w
    BY <1>2, InviteCreated, Zenon
  <2>3. Exists(w)'
    BY <2>1, WritableIs, Zenon DEF Exists
  <2>4. Recorded
    BY <1>2, <2>1, <2>2, <2>3, RecordAdded, Zenon
  <2> QED BY <2>1, <2>2, <2>4, SeatsSame, SameIsCareful, SameRemain, ZenonT(40) DEF WsKept
<1>3. ASSUME NEW u \in User, NEW w \in WorkspaceId, NEW i \in WsInvitation, wsRevokeInvitation(u, w, i) PROVE WsKept
  <2>1. UNCHANGED <<workspace, member, wsRecord>> /\ wsInvitation' = [wsInvitation EXCEPT ![i].status = "revoked"]
    BY <1>3, Zenon DEF wsRevokeInvitation
  <2>2. InviteInv' /\ InvitesRemain
    BY <2>1, InviteWritten, Zenon
  <2> QED BY <2>1, <2>2, SeatsSame, SameIsCareful, SameRecords, SameRemain, Zenon DEF WsKept
<1> QED BY <1>1, <1>2, <1>3, RowWritesKeep, SeatWritesKeep, AcceptKeeps, Zenon DEF WsWrites

-----------------------------------------------------------------------------
(* Workspaces: the calls in flight *)

CallsKept == CallInv' /\ \A u \in User : call'[u] # NoCall => Present(u)

LEMMA CallBegins ==
    ASSUME CallInv, NEW u \in User, NEW c, Begin(u, c), ActiveActor(u), Shown(c)
    PROVE  CallsKept
<1>1. call' = [call EXCEPT ![u] = c] /\ call = [v \in User |-> call[v]]
  BY Zenon DEF CallInv, Begin
<1>2. CallInv'
  BY <1>1, Zenon DEF CallInv, Shown
<1> QED BY <1>1, <1>2, Zenon DEF CallsKept, Present

LEMMA CallEnds ==
    ASSUME CallInv, NEW u \in User, call' = [call EXCEPT ![u] = NoCall]
    PROVE  CallsKept
<1>1. Shown(NoCall)
  BY DEF NoCall, Shown
<1>2. call = [v \in User |-> call[v]]
  BY Zenon DEF CallInv
<1> HIDE DEF NoCall
<1>3. CallInv'
  BY <1>1, <1>2, Zenon DEF CallInv, Shown
<1> QED BY <1>2, <1>3, Zenon DEF CallsKept, Present

LEMMA CallAdmitted ==
    ASSUME CallInv, NEW u \in User, Admit(u)
    PROVE  CallsKept
<1> DEFINE c == [call[u] EXCEPT !.admitted = TRUE]
<1>1. call' = [call EXCEPT ![u] = c] /\ call = [v \in User |-> call[v]] /\ Present(u) /\ Shown(call[u])
  BY Zenon DEF CallInv, Admit, Present
<1>2. DOMAIN c = DOMAIN call[u] /\ \A f \in DOMAIN call[u] : f # "admitted" => c[f] = call[u][f]
  OBVIOUS
<1> HIDE DEF c
<1>3. /\ "op" \in DOMAIN call[u] /\ c.op = call[u].op
      /\ "seen" \in DOMAIN call[u] => c.seen = call[u].seen
      /\ "revision" \in DOMAIN call[u] => c.revision = call[u].revision
  BY <1>1, <1>2, Zenon DEF Shown
<1>4. Shown(c)
  BY <1>1, <1>2, <1>3, Zenon DEF Shown
<1>5. CallInv'
  BY <1>1, <1>4, Zenon DEF CallInv, Shown
<1> QED BY <1>1, <1>5, Zenon DEF CallsKept, Present

LEMMA ShownStanding ==
    ASSUME SeatInv, NEW u, NEW w \in WorkspaceId, NEW t \in User, NEW op, NEW role, TargetSeen(u, w, t, op, role)
    PROVE  Role(w, t) = Standing(member[w][t].revision)
BY ZenonT(40) DEF SeatInv, TargetSeen, Stands, Role

LEMMA CallsStay ==
    ASSUME SeatInv, CallInv, WsNext
    PROVE  CallsKept
<1>1. \A u \in User : \A op : Executing(u, op) => CallsKept
  BY CallEnds, Zenon DEF Executing
<1>2. ASSUME UNCHANGED call PROVE CallsKept
  BY <1>2, Zenon DEF CallInv, CallsKept, Shown, Present
<1>3. \A u \in User : \A w, op : authorize(u, w, op) \/ authorizeMutable(u, w, op) => ActiveActor(u)
  BY Zenon DEF authorize, authorizeMutable
<1>4. ASSUME NEW u \in User, NEW w \in WorkspaceId, RenameWorkspace(u, w) \/ ArchiveWorkspace(u, w) \/ RestoreWorkspace(u, w)
      PROVE  CallsKept
  <2>1. ASSUME NEW op \in {"rename", "archive", "restore"}, ActiveActor(u),
               Begin(u, [op |-> op, admitted |-> FALSE, ws |-> w, revision |-> workspace[w].revision])
        PROVE  CallsKept
    <3>1. Shown([op |-> op, admitted |-> FALSE, ws |-> w, revision |-> workspace[w].revision])
      BY DEF Shown
    <3> QED BY <2>1, <3>1, CallBegins, Zenon
  <2> QED BY <1>1, <1>3, <1>4, <2>1, Zenon DEF RenameWorkspace, ArchiveWorkspace, RestoreWorkspace
<1>5. ASSUME NEW u \in User, NEW w \in WorkspaceId, NEW k, NEW i,
             LeaveWorkspace(u, w) \/ WsServiceCreateInvitation(u, w, k) \/ WsServiceRevokeInvitation(u, w, i)
      PROVE  CallsKept
  <2>1. /\ Shown([op |-> "leave", admitted |-> FALSE, ws |-> w])
        /\ Shown([op |-> "invite", admitted |-> FALSE, ws |-> w, key |-> k])
        /\ Shown([op |-> "revoke", admitted |-> FALSE, ws |-> w, invitation |-> i])
    BY DEF Shown
  <2>2. CASE LeaveWorkspace(u, w)
    BY <1>1, <1>3, <2>1, <2>2, CallBegins, Zenon DEF LeaveWorkspace
  <2>3. CASE WsServiceCreateInvitation(u, w, k)
    BY <1>1, <1>3, <2>1, <2>3, CallBegins, Zenon DEF WsServiceCreateInvitation
  <2>4. CASE WsServiceRevokeInvitation(u, w, i)
    BY <1>1, <1>3, <2>1, <2>4, CallBegins, Zenon DEF WsServiceRevokeInvitation
  <2> QED BY <1>5, <2>2, <2>3, <2>4, Zenon
<1>6. ASSUME NEW u \in User, NEW w \in WorkspaceId, NEW t \in User, NEW role, ChangeMemberRole(u, w, t, role) PROVE CallsKept
  <2> DEFINE c == [op |-> "role", admitted |-> FALSE, ws |-> w, target |-> t, role |-> role,
                   revision |-> member[w][t].revision, seen |-> Role(w, t)]
  <2>1. Role(w, t) = Standing(member[w][t].revision) => Shown(c)
    BY DEF Shown
  <2>2. Executing(u, "role") \/ (ActiveActor(u) /\ TargetSeen(u, w, t, "role", role) /\ Begin(u, c))
    BY <1>3, <1>6, Zenon DEF ChangeMemberRole
  <2> HIDE DEF c
  <2> QED BY <1>1, <2>1, <2>2, ShownStanding, CallBegins, Zenon
<1>7. ASSUME NEW u \in User, NEW w \in WorkspaceId, NEW t \in User, WsServiceRemoveMember(u, w, t) PROVE CallsKept
  <2> DEFINE c == [op |-> "remove", admitted |-> FALSE, ws |-> w, target |-> t,
                   revision |-> member[w][t].revision, seen |-> Role(w, t)]
  <2>1. Role(w, t) = Standing(member[w][t].revision) => Shown(c)
    BY DEF Shown
  <2>2. Executing(u, "remove") \/ (ActiveActor(u) /\ TargetSeen(u, w, t, "remove", "none") /\ Begin(u, c))
    BY <1>3, <1>7, Zenon DEF WsServiceRemoveMember
  <2> HIDE DEF c
  <2> QED BY <1>1, <2>1, <2>2, ShownStanding, CallBegins, Zenon
<1>8. \A u, w, k, i : CreateWorkspace(u, w, k) \/ WsLapse(i) => CallsKept
  BY <1>2, Zenon DEF CreateWorkspace, WsLapse
<1>9. \A u \in User : Admit(u) \/ WsRefused(u) => CallsKept
  BY CallEnds, CallAdmitted, Zenon DEF WsRefused
<1>10. ASSUME NEW u \in User, NEW i, NEW k, WsServiceAcceptInvitation(u, i, k) PROVE CallsKept
  <2> DEFINE c == [op |-> "accept", admitted |-> TRUE, ws |-> wsInvitation[i].ws, invitation |-> i, key |-> k]
  <2>1. Shown(c)
    BY DEF Shown
  <2>2. Executing(u, "accept") \/ (ActiveActor(u) /\ Begin(u, c))
    BY <1>10, Zenon DEF WsServiceAcceptInvitation
  <2> HIDE DEF c
  <2> QED BY <1>1, <2>1, <2>2, CallBegins, Zenon
<1> QED BY <1>4, <1>5, <1>6, <1>7, <1>8, <1>9, <1>10, Zenon DEF WsNext, WsCall

LEMMA SeenChanges ==
    ASSUME SeatInv, CallInv, WsNext
    PROVE  SeenIsWhatChanges
<1> SUFFICES ASSUME NEW u \in User, call[u].op \in {"role", "remove"}, member' # member, call'[u] = NoCall
             PROVE  member[call[u].ws][call[u].target].role = call[u].seen
  BY Zenon DEF SeenIsWhatChanges
<1> DEFINE Seen == member[call[u].ws][call[u].target].role = call[u].seen
<1>1. call[u] # NoCall
  BY DEF NoCall
<1>2. \A v, c : ~Begin(v, c)
  BY Zenon DEF Begin
<1>3. \A v, i : ~Admit(v) /\ ~WsRefused(v) /\ ~WsLapse(i)
  BY Zenon DEF Admit, WsRefused, WsLapse
<1>5. ASSUME NEW v \in User, NEW op, Executing(v, op) PROVE v = u /\ call[u].op = op
  BY <1>1, <1>5, Zenon DEF Executing, CallInv
<1>0. \A v \in User : /\ ~Executing(v, "rename") /\ ~Executing(v, "archive") /\ ~Executing(v, "restore")
                      /\ ~Executing(v, "leave") /\ ~Executing(v, "invite") /\ ~Executing(v, "revoke")
                      /\ ~Executing(v, "accept")
  BY <1>5
<1>4. \A v \in User : \A w, i, k : ~CreateWorkspace(v, w, k) /\ ~WsServiceAcceptInvitation(v, i, k)
  BY <1>0, <1>1, <1>2, Zenon DEF CreateWorkspace, WsServiceAcceptInvitation
<1>6. \A v \in User : \A w, k, i :
          /\ ~RenameWorkspace(v, w) /\ ~ArchiveWorkspace(v, w) /\ ~RestoreWorkspace(v, w) /\ ~LeaveWorkspace(v, w)
          /\ ~WsServiceCreateInvitation(v, w, k) /\ ~WsServiceRevokeInvitation(v, w, i)
  <2> SUFFICES ASSUME NEW v \in User, NEW w, NEW k, NEW i
               PROVE  /\ ~RenameWorkspace(v, w) /\ ~ArchiveWorkspace(v, w) /\ ~RestoreWorkspace(v, w)
                      /\ ~LeaveWorkspace(v, w) /\ ~WsServiceCreateInvitation(v, w, k)
                      /\ ~WsServiceRevokeInvitation(v, w, i)
    BY Zenon
  <2>1. ~RenameWorkspace(v, w) /\ ~ArchiveWorkspace(v, w) /\ ~RestoreWorkspace(v, w)
    BY <1>2, <1>0, Zenon DEF RenameWorkspace, ArchiveWorkspace, RestoreWorkspace
  <2>2. ~LeaveWorkspace(v, w)
    BY <1>2, <1>0, Zenon DEF LeaveWorkspace
  <2>3. ~WsServiceCreateInvitation(v, w, k)
    BY <1>2, <1>0, Zenon DEF WsServiceCreateInvitation
  <2>4. ~WsServiceRevokeInvitation(v, w, i)
    BY <1>2, <1>0, Zenon DEF WsServiceRevokeInvitation
  <2> QED BY <2>1, <2>2, <2>3, <2>4, Zenon
<1>7. ASSUME NEW w \in WorkspaceId, NEW t \in User, Role(w, t) \notin {"none", "owner"},
             member[w][t].revision = call[u].revision, call[u].ws = w, call[u].target = t
      PROVE  Seen
  BY <1>7, ZenonT(40) DEF SeatInv, CallInv, Shown, Stands, Role
<1>8. ASSUME NEW v \in User, NEW w \in WorkspaceId, NEW t \in User, NEW role, ChangeMemberRole(v, w, t, role) PROVE Seen
  <2>1. Executing(v, "role") /\ call[v].ws = w /\ call[v].target = t /\ wsChangeMemberRole(v, w, t, role, call[v].revision)
    BY <1>2, <1>8, Zenon DEF ChangeMemberRole
  <2> QED BY <1>5, <1>7, <2>1, Zenon DEF wsChangeMemberRole
<1>9. ASSUME NEW v \in User, NEW w \in WorkspaceId, NEW t \in User, WsServiceRemoveMember(v, w, t) PROVE Seen
  <2>1. Executing(v, "remove") /\ call[v].ws = w /\ call[v].target = t /\ wsRemoveMember(v, w, t, call[v].revision)
    BY <1>2, <1>9, ZenonT(40) DEF WsServiceRemoveMember
  <2> QED BY <1>5, <1>7, <2>1, Zenon DEF wsRemoveMember
<1> HIDE DEF Seen
<1>10. Seen
  BY <1>3, <1>4, <1>6, <1>8, <1>9, Zenon DEF WsNext, WsCall
<1> QED BY <1>10, Zenon DEF Seen

-----------------------------------------------------------------------------
(* Workspaces beside organizations and accounts *)

WsInv == SeatInv /\ InviteInv /\ CallInv

WsStepKept == WsInv' /\ Careful /\ Recorded /\ WsRemain /\ InvitesRemain

LEMMA WsNextKeeps ==
    ASSUME Counting, WsInv, WsNext
    PROVE  WsStepKept
<1>1. CallInv'
  BY CallsStay, Zenon DEF WsInv, CallsKept
<1>2. CASE WsWrites
  BY <1>1, <1>2, WsWritesKeep, ZenonT(40) DEF WsInv, WsKept, WsStepKept
<1>3. CASE UNCHANGED WsTables
  <2>1. UNCHANGED <<workspace, member, wsInvitation, wsRecord>>
    BY <1>3, ZenonT(40) DEF WsTables
  <2> QED BY <1>1, <2>1, SeatsSame, InvitesStay, SameIsCareful, SameRecords, SameRemain, Zenon DEF WsInv, WsStepKept
<1>4. ASSUME NEW i \in WsInvitation, WsLapse(i) PROVE WsStepKept
  <2>1. UNCHANGED <<workspace, member, wsRecord>>
    BY <1>4, Zenon DEF WsLapse
  <2> QED BY <1>1, <1>4, <2>1, SeatsSame, InviteLapses, SameIsCareful, SameRecords, SameRemain, Zenon DEF WsInv, WsStepKept
<1> QED BY <1>2, <1>3, <1>4, WsSteps, Zenon

LEMMA WsSame ==
    ASSUME Counting
    PROVE  WsInv /\ UNCHANGED wsOwn => WsInv'
<1> SUFFICES ASSUME WsInv, UNCHANGED <<workspace, member, wsInvitation, call>> PROVE WsInv'
  BY Zenon DEF wsOwn
<1>1. SeatInv' /\ InviteInv'
  BY SeatsSame, InvitesStay, Zenon DEF WsInv
<1>2. CallInv'
  BY Zenon DEF WsInv, CallInv, Shown
<1> QED BY <1>1, <1>2, Zenon DEF WsInv

LEMMA CleanupKeeps ==
    ASSUME Counting, WsInv, cleanupExpiredRows
    PROVE  /\ WsInv' /\ UNCHANGED <<account, workspace, member, call>> /\ wsRecord' \subseteq wsRecord
           /\ WsRemain /\ InvitesRemain
<1> DEFINE S == {i \in WsInvitation : wsInvitation[i].status = "pending" /\ wsInvitation[i].lapsed}
<1>1. UNCHANGED <<account, workspace, member, call>> /\ wsRecord' \subseteq wsRecord
  BY Zenon DEF cleanupExpiredRows, expireWorkspaceRows
<1>2. Settled(S, "expired")
  <2>1. wsInvitation' = [i \in WsInvitation |->
           IF wsInvitation[i].status = "pending" /\ wsInvitation[i].lapsed
           THEN [wsInvitation[i] EXCEPT !.status = "expired"] ELSE wsInvitation[i]]
    BY Zenon DEF cleanupExpiredRows, expireWorkspaceRows
  <2> QED BY <2>1, Zenon DEF Settled
<1>3. InviteInv'
  <2> HIDE DEF S
  <2> QED BY <1>1, <1>2, InvitesSettled, Zenon DEF WsInv, InviteInv
<1>4. CallInv' /\ SeatInv'
  BY <1>1, SeatsSame, Zenon DEF WsInv, CallInv, Shown
<1>5. WsRemain /\ InvitesRemain
  <2> HIDE DEF S
  <2> QED BY <1>1, <1>2, SameRemain, SettledRemain, Zenon DEF WsInv
<1> QED BY <1>1, <1>3, <1>4, <1>5, Zenon DEF WsInv

LEMMA ErasureKeeps ==
    ASSUME Counting, WsInv, NEW u \in User, FinalizeDeletion(u)
    PROVE  WsInv' /\ \A w \in WorkspaceId : Role(w, u)' = "none"
<1> DEFINE owned == {w \in WorkspaceId : Exists(w) /\ workspace[w].owner = u}
           S == {i \in WsInvitation : wsInvitation[i].ws \in owned}
<1>1. SeatInv' /\ \A w \in WorkspaceId : Role(w, u)' = "none"
  BY EraseSeats, Zenon DEF FinalizeDeletion, WsInv
<1>2. Settled(S, "deleted")
  <2>1. wsInvitation' = [i \in WsInvitation |->
               IF wsInvitation[i].ws \in owned THEN [wsInvitation[i] EXCEPT !.status = "deleted"]
               ELSE wsInvitation[i]]
    BY Zenon DEF FinalizeDeletion, EraseFromWorkspaces
  <2> HIDE DEF owned
  <2> QED BY <2>1, Zenon DEF Settled
<1>3. \A w \in WorkspaceId : w \notin owned => workspace'[w] = workspace[w]
  BY Zenon DEF FinalizeDeletion, EraseFromWorkspaces
<1>4. \A i \in WsInvitation : i \notin S /\ wsInvitation[i].status = "pending" =>
          workspace'[wsInvitation[i].ws].status = "active"
  <2> HIDE DEF owned
  <2> QED BY <1>3, Zenon DEF WsInv, InviteInv
<1>5. InviteInv'
  <2> HIDE DEF S
  <2> QED BY <1>2, <1>4, InvitesSettled, Zenon DEF WsInv
<1>6. CallInv'
  BY ZenonT(40) DEF FinalizeDeletion, WsInv, CallInv, Shown
<1> QED BY <1>1, <1>5, <1>6, Zenon DEF WsInv

LEMMA NextWs ==
    ASSUME Counting
    PROVE  WsInv /\ [TenancyNext]_tenancyVars => WsInv'
<1> SUFFICES ASSUME WsInv, [TenancyNext]_tenancyVars PROVE WsInv'
  BY Zenon
<1>1. CASE UNCHANGED tenancyVars
  BY <1>1, WsSame, Zenon DEF tenancyVars, wsVars, wsOwn
<1>2. \A u : RequestDeletion(u) \/ StatusStep(u) => UNCHANGED wsOwn
  BY Zenon DEF RequestDeletion, StatusStep
<1> QED BY <1>1, <1>2, WsNextKeeps, WsSame, CleanupKeeps, ErasureKeeps, Zenon DEF TenancyNext, WsStepKept

\* Whatever happens to a workspace, its records go with it.
LEMMA NextRecords ==
    ASSUME Counting
    PROVE  WsInv /\ RecordInv /\ [TenancyNext]_tenancyVars => RecordInv'
<1> SUFFICES ASSUME WsInv, RecordInv, [TenancyNext]_tenancyVars PROVE RecordInv'
  BY Zenon
<1>1. ASSUME WsRemain, InvitesRemain, NEW r, WsAnswers(r) PROVE WsAnswers(r)'
  <2>1. r.ws \in WorkspaceId /\ Exists(r.ws)' /\ workspace'[r.ws].owner = workspace[r.ws].owner
    BY <1>1, Zenon DEF WsAnswers, WsRemain
  <2>2. \A i \in WsInvitation : WsSent(i) => WsSent(i)' /\ wsInvitation'[i].ws = wsInvitation[i].ws
    BY <1>1, Zenon DEF InvitesRemain
  <2>3. CASE r.op = "invite" /\ r.about \in WsInvitation /\ wsInvitation[r.about].ws = r.ws /\ WsSent(r.about)
    BY <1>1, <2>1, <2>2, <2>3, ZenonT(40) DEF WsAnswers
  <2> QED BY <1>1, <2>1, <2>3, ZenonT(40) DEF WsAnswers
<1>2. ASSUME WsRemain, InvitesRemain, wsRecord' \subseteq wsRecord PROVE RecordInv'
  BY <1>1, <1>2, Zenon DEF RecordInv
<1>3. CASE WsNext
  <2>1. WsRemain /\ InvitesRemain /\ Recorded
    BY <1>3, WsNextKeeps, Zenon DEF WsStepKept
  <2> QED BY <1>1, <2>1, Zenon DEF Recorded, RecordInv
<1>4. CASE cleanupExpiredRows
  BY <1>2, <1>4, CleanupKeeps, Zenon
<1>5. CASE UNCHANGED wsOwn
  <2>1. UNCHANGED <<workspace, wsInvitation, wsRecord>>
    BY <1>5, Zenon DEF wsOwn
  <2> QED BY <1>2, <2>1, SameRemain, Zenon
<1>6. ASSUME NEW u \in User, FinalizeDeletion(u) PROVE RecordInv'
  <2> DEFINE owned == {w \in WorkspaceId : Exists(w) /\ workspace[w].owner = u}
  <2>1. /\ wsRecord' = {r \in wsRecord : r.actor # u /\ r.ws \notin owned}
        /\ \A w \in WorkspaceId : w \notin owned => workspace'[w] = workspace[w]
        /\ \A i \in WsInvitation : wsInvitation[i].ws \notin owned => wsInvitation'[i] = wsInvitation[i]
    BY <1>6, Zenon DEF FinalizeDeletion, EraseFromWorkspaces
  <2> HIDE DEF owned
  <2>2. ASSUME NEW r \in wsRecord' PROVE WsAnswers(r)'
    <3>1. WsAnswers(r) /\ r.ws \notin owned
      BY <2>1, <2>2, Zenon DEF RecordInv
    <3>2. r.ws \in WorkspaceId /\ workspace'[r.ws] = workspace[r.ws]
      BY <2>1, <3>1, Zenon DEF WsAnswers
    <3>3. CASE r.op = "invite" /\ r.about \in WsInvitation /\ wsInvitation[r.about].ws = r.ws /\ WsSent(r.about)
      <4>1. wsInvitation'[r.about] = wsInvitation[r.about]
        BY <2>1, <3>1, <3>3, Zenon
      <4> QED BY <3>1, <3>2, <3>3, <4>1, Zenon DEF WsAnswers, WsSent, Exists
    <3> QED BY <3>1, <3>2, <3>3, ZenonT(40) DEF WsAnswers, Exists
  <2> QED BY <2>2, Zenon DEF RecordInv
<1>7. \A u : RequestDeletion(u) \/ StatusStep(u) => UNCHANGED wsOwn
  BY Zenon DEF RequestDeletion, StatusStep
<1>8. UNCHANGED tenancyVars => UNCHANGED wsOwn
  BY Zenon DEF tenancyVars, wsVars, wsOwn
<1> QED BY <1>3, <1>4, <1>5, <1>6, <1>7, <1>8, Zenon DEF TenancyNext

\* No call outlives its caller's recovery window.
LEMMA NextInTime == OrgRows /\ WsInv /\ InTime /\ [TenancyNext]_tenancyVars => InTime'
<1> SUFFICES ASSUME OrgRows, WsInv, InTime, [TenancyNext]_tenancyVars PROVE InTime'
  BY Zenon
<1>1. ASSUME UNCHANGED <<account, call>> PROVE InTime'
  BY <1>1, Zenon DEF InTime
<1>2. CASE WsNext
  <2>1. UNCHANGED account /\ \A u \in User : call'[u] # NoCall => Present(u)
    BY <1>2, WorkspacesKeepAccounts, CallsStay, Zenon DEF WsInv, CallsKept
  <2>2. \A u \in User : Present(u) => account[u] \notin {"elapsed", "finalized"}
    BY Zenon DEF InTime, Present, ActiveActor
  <2> QED BY <2>1, <2>2, Zenon DEF InTime
<1>3. CASE OrgNext /\ UNCHANGED wsOwn
  BY <1>1, <1>3, OrganizationsKeepAccounts, Zenon DEF wsOwn
<1>4. CASE cleanupExpiredRows
  BY <1>1, <1>4, Zenon DEF cleanupExpiredRows, expireWorkspaceRows
<1>5. ASSUME NEW u \in User, NEW s, UNCHANGED call, SetAccount(u, s),
             s \in {"elapsed", "finalized"} => call[u] = NoCall
      PROVE  InTime'
  <2>1. \A v \in User : account'[v] = IF v = u THEN s ELSE account[v]
    BY <1>5, Zenon DEF SetAccount, OrgRows
  <2> QED BY <1>5, <2>1, Zenon DEF InTime
<1>6. ASSUME NEW u \in User, RequestDeletion(u) PROVE InTime'
  BY <1>5, <1>6, Zenon DEF RequestDeletion, wsOwn
<1>7. ASSUME NEW u \in User, StatusStep(u) PROVE InTime'
  BY <1>5, <1>7, Zenon DEF StatusStep, DisableUser, EnableUser, RecoverDeletion, RecoveryWindowEnds, wsOwn
<1>8. ASSUME NEW u \in User, FinalizeDeletion(u) PROVE InTime'
  <2>1. call[u] = NoCall /\ SetAccount(u, "finalized") /\ UNCHANGED call
    BY <1>8, Zenon DEF FinalizeDeletion, InTime
  <2> QED BY <1>5, <2>1, Zenon
<1>9. UNCHANGED tenancyVars => UNCHANGED <<account, call>>
  BY Zenon DEF tenancyVars, wsVars
<1> QED BY <1>1, <1>2, <1>3, <1>4, <1>6, <1>7, <1>8, <1>9, Zenon DEF TenancyNext

LEMMA InitWs ==
    ASSUME Counting
    PROVE  TenancyInit => WsInv
<1> SUFFICES ASSUME TenancyInit PROVE WsInv
  BY Zenon
<1>1. /\ workspace = [w \in WorkspaceId |-> NoWorkspace] /\ member = [w \in WorkspaceId |-> [u \in User |-> NoRow]]
      /\ wsInvitation = [i \in WsInvitation |-> NoInvitation] /\ call = [u \in User |-> NoCall]
  BY Zenon DEF TenancyInit, WsInit
<1>2. /\ NoWorkspace \in WsRow /\ NoWorkspace.status = "none"
      /\ NoInvitation \in InviteRow /\ NoInvitation.status = "none"
  BY Zenon DEF NoWorkspace, WsRow, NoInvitation, InviteRow
<1>0. Shown(NoCall)
  BY DEF NoCall, Shown
<1> HIDE DEF NoWorkspace, NoRow, NoInvitation, NoCall
<1>3. \A w \in WorkspaceId : Seated(w) /\ \A t \in User : Stands(member[w][t])
  BY <1>1, <1>2, NoSeat, Zenon DEF Seated, Exists
<1>4. \A u \in User : ActiveOwned(u) = {}
  BY <1>1, <1>2, Zenon DEF ActiveOwned
<1>5. \A w \in WorkspaceId : Members(w) = {} /\ WsPending(w) = {}
  BY <1>1, <1>2, NoSeat, Zenon DEF Members, Role, WsPending
<1>6. Cardinality({}) = 0
  BY NoneCounted, ZenonT(40)
<1>7. SeatInv
  <2>1. workspace \in [WorkspaceId -> WsRow]
    BY <1>1, <1>2, Zenon
  <2>2. member \in [WorkspaceId -> [User -> SeatRow]]
    BY <1>1, NoSeat, Zenon
  <2>0. 0 <= ActiveOwnedLimit
    BY WorkspaceParameters
  <2>3. \A u \in User : Cardinality(ActiveOwned(u)) <= ActiveOwnedLimit
    BY <1>4, <1>6, <2>0, Zenon
  <2>4. \A w \in WorkspaceId : Cardinality(Members(w)) <= WsMemberLimit
    BY <1>5, <1>6, WorkspaceParameters
  <2> QED BY <1>3, <2>1, <2>2, <2>3, <2>4, Zenon DEF SeatInv
<1>8. InviteInv
  <2>1. wsInvitation \in [WsInvitation -> InviteRow]
    BY <1>1, <1>2, Zenon
  <2>2. \A i \in WsInvitation : wsInvitation[i].status # "pending"
    BY <1>1, <1>2, Zenon
  <2>3. \A w \in WorkspaceId : Cardinality(WsPending(w)) <= PendingInviteLimit
    BY <1>5, <1>6, WorkspaceParameters
  <2> QED BY <2>1, <2>2, <2>3, Zenon DEF InviteInv
<1>9. CallInv
  BY <1>0, <1>1, Zenon DEF CallInv, Shown
<1> QED BY <1>7, <1>8, <1>9, Zenon DEF WsInv

-----------------------------------------------------------------------------
(* Memberships change only as their guards allow. *)

LEMMA ArchivedStep ==
    ASSUME Counting, OwnershipInv, WsInv, TenancyNext
    PROVE  ArchivedKeepsMembers
<1>1. ASSUME UNCHANGED member PROVE ArchivedKeepsMembers
  BY <1>1, Zenon DEF ArchivedKeepsMembers
<1>2. CASE WsNext
  BY <1>2, WsNextKeeps, Zenon DEF WsStepKept, Careful, ArchivedKeepsMembers
<1>3. ASSUME NEW u \in User, FinalizeDeletion(u) PROVE ArchivedKeepsMembers
  <2>1. account[u] = "elapsed" /\ account'[u] = "finalized"
    BY <1>3, Zenon DEF FinalizeDeletion, SetAccount, OwnershipInv, OrgRows
  <2> QED BY <2>1, Zenon DEF ArchivedKeepsMembers
<1>4. UNCHANGED wsOwn => UNCHANGED member
  BY Zenon DEF wsOwn
<1> QED BY <1>1, <1>2, <1>3, <1>4, CleanupKeeps, Zenon DEF TenancyNext, RequestDeletion, StatusStep

LEMMA SeenStep ==
    ASSUME Counting, WsInv, TenancyNext
    PROVE  SeenIsWhatChanges
<1>1. ASSUME UNCHANGED member PROVE SeenIsWhatChanges
  BY <1>1, Zenon DEF SeenIsWhatChanges
<1>2. CASE WsNext
  BY <1>2, SeenChanges, Zenon DEF WsInv
<1>3. ASSUME NEW u \in User, FinalizeDeletion(u) PROVE SeenIsWhatChanges
  <2>1. UNCHANGED call
    BY <1>3, Zenon DEF FinalizeDeletion
  <2> QED BY <2>1 DEF SeenIsWhatChanges, NoCall
<1>4. UNCHANGED wsOwn => UNCHANGED member
  BY Zenon DEF wsOwn
<1> QED BY <1>1, <1>2, <1>3, <1>4, CleanupKeeps, Zenon DEF TenancyNext, RequestDeletion, StatusStep

LEMMA RankStep ==
    ASSUME OwnershipInv, TenancyNext
    PROVE  AdminsKeepRank
<1> SUFFICES ASSUME NEW o \in Org, NEW t \in User, RoleIn(o, t) = "admin", orgMember'[o][t] # orgMember[o][t],
                    \A u \in OwnersOf(o) : ~ActiveActor(u)
             PROVE  orgMember'[o][t] = NoMember /\ account[t] \in {"active", "elapsed"}
  BY Zenon DEF AdminsKeepRank
<1> DEFINE Goal == orgMember'[o][t] = NoMember /\ account[t] \in {"active", "elapsed"}
<1>0. OrgRows /\ Owned
  BY Zenon DEF OwnershipInv
<1>1. ASSUME NEW u \in User, Locked(u, o) PROVE RoleIn(o, u) # "owner"
  BY <1>1, Zenon DEF Locked, OwnersOf
<1>2. ~UNCHANGED orgMember
  BY Zenon
<1>3. ASSUME NEW p \in Org, NEW x \in User, NEW row, SetOrgMember(p, x, row)
      PROVE  p = o /\ x = t /\ orgMember'[o][t] = row
  BY <1>0, <1>3, Zenon DEF SetOrgMember, OrgRows
<1>4. ASSUME NEW u \in User, NEW p \in Org, OrgLeave(u, p) PROVE Goal
  BY <1>3, <1>4, Zenon DEF OrgLeave, leave, Locked, ActiveActor
<1>5. ASSUME NEW u \in User, NEW p \in Org, NEW x \in User, OrgRemoveMember(u, p, x) PROVE FALSE
  <2>1. /\ Locked(u, p) /\ RoleIn(p, u) \in {"owner", "admin"} /\ SetOrgMember(p, x, NoMember)
        /\ RoleIn(p, u) = "admin" => RoleIn(p, x) # "admin"
    BY <1>5, Zenon DEF OrgRemoveMember, removeMember, requireActiveOrganizationMutation
  <2> QED BY <1>1, <1>3, <2>1, Zenon
<1>6. ASSUME NEW u \in User, NEW p \in Org, NEW x \in User, NEW role, NEW d, PatchMember(u, p, x, role, d) PROVE FALSE
  <2>1. PICK row : /\ Locked(u, p) /\ RoleIn(p, u) \in {"owner", "admin"} /\ SetOrgMember(p, x, row)
                   /\ RoleIn(p, u) = "admin" => RoleIn(p, x) # "admin"
    BY <1>6, Zenon DEF PatchMember, patchMember, requireActiveOrganizationMutation, authorizeMemberPatch
  <2> QED BY <1>1, <1>3, <2>1, Zenon
<1>7. ASSUME NEW u \in User, NEW i, NEW k, OrgAcceptInvitation(u, i, k) PROVE FALSE
  <2> DEFINE p == orgInvitation[i].org
  <2>1. PICK row : RoleIn(p, u) = "none" /\ SetOrgMember(p, u, row)
    BY <1>2, <1>7, Zenon DEF OrgAcceptInvitation, acceptInvitation
  <2> HIDE DEF p
  <2>2. CASE p \in Org
    BY <1>3, <2>1, <2>2, Zenon
  <2>3. CASE p \notin Org
    BY <1>0, <1>2, <2>1, <2>3, ZenonT(40) DEF SetOrgMember, OrgRows
  <2> QED BY <2>2, <2>3, Zenon
<1>8. ASSUME NEW u \in User, NEW p \in Org, NEW k, OrgCreate(u, p, k) PROVE FALSE
  <2>1. PICK row : OrgStatus(p) = "none" /\ SetOrgMember(p, u, row)
    BY <1>8, Zenon DEF OrgCreate, create
  <2>2. RoleIn(p, u) = "none"
    BY <1>0, <2>1 DEF Owned, OrgExists, RoleIn, NoMember
  <2> QED BY <1>3, <2>1, <2>2, Zenon
<1>9. ASSUME NEW u \in User, NEW p \in Org, NEW x \in User, NEW k, TransferOwner(u, p, x, k) PROVE FALSE
  <2>1. PICK a, b : Locked(u, p) /\ RoleIn(p, u) = "owner" /\ orgMember' = [orgMember EXCEPT ![p][u] = a, ![p][x] = b]
    BY <1>9, Zenon DEF TransferOwner, transferOwner
  <2>2. p # o => orgMember'[o] = orgMember[o]
    BY <1>0, <2>1, Zenon DEF OrgRows
  <2> QED BY <1>1, <2>1, <2>2, Zenon
<1>10. ASSUME NEW u \in User, NEW p \in Org, NEW k, Dissolve(u, p, k) PROVE FALSE
  <2>1. PICK row : Locked(u, p) /\ RoleIn(p, u) = "owner" /\ orgMember' = [orgMember EXCEPT ![p] = row]
    BY <1>10, Zenon DEF Dissolve, dissolve
  <2>2. p # o => orgMember'[o] = orgMember[o]
    BY <1>0, <2>1, Zenon DEF OrgRows
  <2> QED BY <1>1, <2>1, <2>2, Zenon
<1>11. ASSUME NEW u \in User, FinalizeDeletion(u) PROVE Goal
  <2>1. orgMember'[o][t] = IF t = u /\ RoleIn(o, t) # "owner" THEN NoMember ELSE orgMember[o][t]
    BY <1>11, Zenon DEF FinalizeDeletion, EraseFromOrganizations
  <2>2. account[u] = "elapsed"
    BY <1>11, Zenon DEF FinalizeDeletion
  <2> QED BY <2>1, <2>2, Zenon
<1>12. ~Aside /\ ~DepartmentStep /\ ~RowStep /\ \A u : ~RequestDeletion(u) /\ ~StatusStep(u)
  BY <1>0, <1>2, AsideKeeps, DepartmentsKeep, RowStepLives, ZenonT(40) DEF RequestDeletion, StatusStep, orgOwn
<1> HIDE DEF Goal
<1>13. Goal
  BY <1>4, <1>5, <1>6, <1>7, <1>8, <1>9, <1>10, <1>11, <1>12, TenancySteps, Zenon DEF MemberStep
<1> QED BY <1>13, Zenon DEF Goal

-----------------------------------------------------------------------------
(* Organizations: who may join, and who leaves a record *)

\* An account joins only while it is active, and within the limit.
Joins(o, u) ==
    /\ ActiveActor(u) /\ MembersOf(o)' \subseteq MembersOf(o) \cup {u}
    /\ Cardinality(MembersOf(o)) < OrgMemberLimit \/ MembersOf(o) = {}
Growth == \A o \in Org : MembersOf(o)' \subseteq MembersOf(o) \/ \E u \in User : Joins(o, u)

LEMMA OneRowGrowth ==
    ASSUME OrgRows, NEW o \in Org, NEW t \in User, NEW row, SetOrgMember(o, t, row),
           \/ row.role = "none" \/ RoleIn(o, t) # "none"
           \/ ActiveActor(t) /\ (Cardinality(MembersOf(o)) < OrgMemberLimit \/ MembersOf(o) = {})
    PROVE  Growth
<1>1. \A p \in Org, x \in User : orgMember'[p][x] = IF p = o /\ x = t THEN row ELSE orgMember[p][x]
  BY Zenon DEF SetOrgMember, OrgRows
<1>2. \A p \in Org \ {o} : MembersOf(p)' \subseteq MembersOf(p)
  BY <1>1, Zenon DEF MembersOf, RoleIn
<1>3. MembersOf(o)' \subseteq MembersOf(o) \cup {t}
  BY <1>1, Zenon DEF MembersOf, RoleIn
<1>4. CASE row.role = "none" \/ RoleIn(o, t) # "none"
  <2>1. MembersOf(o)' \subseteq MembersOf(o)
    BY <1>1, <1>4, Zenon DEF MembersOf, RoleIn
  <2> QED BY <1>2, <2>1, Zenon DEF Growth
<1>5. CASE ActiveActor(t) /\ (Cardinality(MembersOf(o)) < OrgMemberLimit \/ MembersOf(o) = {})
  <2>1. Joins(o, t)
    BY <1>3, <1>5, Zenon DEF Joins
  <2> QED BY <1>2, <2>1, Zenon DEF Growth
<1> QED BY <1>4, <1>5, Zenon

LEMMA NoGrowth == UNCHANGED orgMember => Growth
BY ZenonT(40) DEF Growth, MembersOf, RoleIn

LEMMA MembersGrow ==
    ASSUME OwnershipInv, [TenancyNext]_tenancyVars
    PROVE  Growth
<1>0. OrgRows /\ Owned
  BY Zenon DEF OwnershipInv
<1>1. NoMember.role = "none"
  BY Zenon DEF NoMember
<1>2. ASSUME NEW u \in User, NEW o \in Org, OrgLeave(u, o) PROVE Growth
  BY <1>0, <1>1, <1>2, OneRowGrowth, Zenon DEF OrgLeave, leave
<1>3. ASSUME NEW u \in User, NEW o \in Org, NEW t \in User, OrgRemoveMember(u, o, t) PROVE Growth
  BY <1>0, <1>1, <1>3, OneRowGrowth, Zenon DEF OrgRemoveMember, removeMember
<1>4. ASSUME NEW u \in User, NEW o \in Org, NEW t \in User, NEW role, NEW d, PatchMember(u, o, t, role, d) PROVE Growth
  <2>1. PICK row : RoleIn(o, t) # "none" /\ SetOrgMember(o, t, row)
    BY <1>4, Zenon DEF PatchMember, patchMember, RoleIn
  <2> QED BY <1>0, <2>1, OneRowGrowth, Zenon
<1>5. ASSUME NEW u \in User, NEW i, NEW k, OrgAcceptInvitation(u, i, k) PROVE Growth
  <2> DEFINE o == orgInvitation[i].org
  <2>1. /\ ActiveActor(u)
        /\ UNCHANGED orgMember \/ \E row : SetOrgMember(o, u, row) /\ Cardinality(MembersOf(o)) < OrgMemberLimit
    BY <1>5, Zenon DEF OrgAcceptInvitation, acceptInvitation
  <2> HIDE DEF o
  <2>2. CASE o \in Org
    BY <1>0, <2>1, <2>2, OneRowGrowth, NoGrowth, Zenon
  <2>3. CASE o \notin Org
    <3>1. UNCHANGED orgMember
      BY <1>0, <2>1, <2>3, ZenonT(40) DEF SetOrgMember, OrgRows
    <3> QED BY <3>1, NoGrowth, Zenon
  <2> QED BY <2>2, <2>3, Zenon
<1>6. ASSUME NEW u \in User, NEW o \in Org, NEW k, OrgCreate(u, o, k) PROVE Growth
  <2>1. PICK row : ActiveActor(u) /\ OrgStatus(o) = "none" /\ SetOrgMember(o, u, row)
    BY <1>6, Zenon DEF OrgCreate, create
  <2>2. MembersOf(o) = {}
    BY <1>0, <1>1, <2>1, Zenon DEF Owned, OrgExists, MembersOf, RoleIn
  <2> QED BY <1>0, <2>1, <2>2, OneRowGrowth, Zenon
<1>7. ASSUME NEW u \in User, NEW o \in Org, NEW t \in User, NEW k, TransferOwner(u, o, t, k) PROVE Growth
  <2>1. PICK a, b : /\ RoleIn(o, u) = "owner" /\ RoleIn(o, t) = "admin"
                    /\ orgMember' = [orgMember EXCEPT ![o][u] = a, ![o][t] = b]
    BY <1>7, Zenon DEF TransferOwner, transferOwner
  <2>2. \A p \in Org, x \in User : p # o \/ x \notin {u, t} => orgMember'[p][x] = orgMember[p][x]
    BY <1>0, <2>1, Zenon DEF OrgRows
  <2>3. \A p \in Org : MembersOf(p)' \subseteq MembersOf(p)
    BY <2>1, <2>2, Zenon DEF MembersOf, RoleIn
  <2> QED BY <2>3, Zenon DEF Growth
<1>8. ASSUME NEW u \in User, NEW o \in Org, NEW k, Dissolve(u, o, k) PROVE Growth
  <2>1. orgMember' = [orgMember EXCEPT ![o] = [t \in User |-> NoMember]]
    BY <1>8, Zenon DEF Dissolve, dissolve
  <2>2. \A p \in Org, x \in User : orgMember'[p][x] = IF p = o THEN NoMember ELSE orgMember[p][x]
    BY <1>0, <2>1, Zenon DEF OrgRows
  <2>3. \A p \in Org : MembersOf(p)' \subseteq MembersOf(p)
    BY <1>1, <2>2, Zenon DEF MembersOf, RoleIn
  <2> QED BY <2>3, Zenon DEF Growth
<1>9. ASSUME NEW u \in User, FinalizeDeletion(u) PROVE Growth
  <2>1. \A o \in Org, t \in User : orgMember'[o][t] \in {NoMember, orgMember[o][t]}
    BY <1>9, Zenon DEF FinalizeDeletion, EraseFromOrganizations
  <2>2. \A p \in Org : MembersOf(p)' \subseteq MembersOf(p)
    BY <1>1, <2>1, Zenon DEF MembersOf, RoleIn
  <2> QED BY <2>2, Zenon DEF Growth
<1>10. CASE Aside \/ DepartmentStep \/ RowStep \/ UNCHANGED tenancyVars
  BY <1>0, <1>10, AsideKeeps, DepartmentsKeep, RowStepLives, NoGrowth, Zenon DEF tenancyVars, orgVars
<1>11. \A u : RequestDeletion(u) \/ StatusStep(u) => Growth
  BY NoGrowth, Zenon DEF RequestDeletion, StatusStep, orgOwn
<1> QED BY <1>2, <1>3, <1>4, <1>5, <1>6, <1>7, <1>8, <1>9, <1>10, <1>11, TenancySteps, Zenon DEF MemberStep

OrgRecorded == \A r \in orgRecord' : r \in orgRecord \/ ActiveActor(r.actor)

LEMMA OrgRecordAdded ==
    ASSUME NEW u, NEW op, NEW k, NEW o, NEW about, insertOrganizationIdempotency(u, op, k, o, about), ActiveActor(u)
    PROVE  OrgRecorded
BY DEF insertOrganizationIdempotency, OrgRecordRow, OrgRecorded

LEMMA MemberStepsUnrecorded ==
    ASSUME NEW u, NEW o, OrgMemberStep(u, o)
    PROVE  UNCHANGED orgRecord
<1>1. OrgRename(u, o) => UNCHANGED orgRecord
  BY Zenon DEF OrgRename, rename
<1>2. OrgLeave(u, o) => UNCHANGED orgRecord
  BY Zenon DEF OrgLeave, leave
<1>3. \A t : OrgRemoveMember(u, o, t) => UNCHANGED orgRecord
  BY Zenon DEF OrgRemoveMember, removeMember
<1>4. \A t, role, d : PatchMember(u, o, t, role, d) => UNCHANGED orgRecord
  BY Zenon DEF PatchMember, patchMember
<1>5. \A d, name : CreateDepartment(u, o, d, name) => UNCHANGED orgRecord
  BY Zenon DEF CreateDepartment, createDepartment
<1>6. \A d, name : RenameDepartment(u, o, d, name) => UNCHANGED orgRecord
  BY Zenon DEF RenameDepartment, renameDepartment
<1>7. \A d, new : ArchiveOrRestoreDepartment(u, o, d, new) => UNCHANGED orgRecord
  BY Zenon DEF ArchiveOrRestoreDepartment, changeDepartmentLifecycle
<1>8. \A i : OrgRevokeInvitation(u, o, i) => UNCHANGED orgRecord
  BY Zenon DEF OrgRevokeInvitation, revokeInvitation
<1> QED BY <1>1, <1>2, <1>3, <1>4, <1>5, <1>6, <1>7, <1>8, Zenon DEF OrgMemberStep

LEMMA OrgRecordsGrow == OrgNext => OrgRecorded
<1>0. UNCHANGED orgRecord => OrgRecorded
  BY Zenon DEF OrgRecorded
<1>1. \A u, o : OrgMemberStep(u, o) => OrgRecorded
  BY <1>0, MemberStepsUnrecorded, Zenon
<1>2. ASSUME NEW u, NEW o, NEW k, OrgKeyedStep(u, o, k) PROVE OrgRecorded
  <2>1. ASSUME NEW t, OrgCreate(u, o, k) \/ PublishPolicy(u, o, k) \/ OrgArchive(u, o, k) \/ OrgRestore(u, o, k)
                      \/ TransferOwner(u, o, t, k)
        PROVE  ActiveActor(u) /\ \E op, about : insertOrganizationIdempotency(u, op, k, o, about)
    BY <2>1, Zenon DEF OrgCreate, create, PublishPolicy, publishPolicy, OrgArchive, archive, OrgRestore, restore,
                       TransferOwner, transferOwner, requireActiveOrganizationMutation, Locked
  <2>2. ASSUME OrgCreateInvitation(u, o, k) PROVE ActiveActor(u) /\ \E i : insertOrganizationIdempotency(u, "invite", k, o, i)
    BY <2>2, Zenon DEF OrgCreateInvitation, createInvitation, requireActiveOrganizationMutation, Locked
  <2>3. ASSUME Dissolve(u, o, k) PROVE OrgRecorded
    <3>1. ActiveActor(u) /\ orgRecord' = {r \in orgRecord : r.org # o} \cup {OrgRecordRow(u, "dissolve", k, o, o)}
      BY <2>3, Zenon DEF Dissolve, dissolve, Locked
    <3> QED BY <3>1 DEF OrgRecorded, OrgRecordRow
  <2> QED BY <1>2, <2>1, <2>2, <2>3, OrgRecordAdded, Zenon DEF OrgKeyedStep
<1>3. ASSUME NEW u, NEW i, NEW k, OrgAcceptInvitation(u, i, k) PROVE OrgRecorded
  <2>1. ActiveActor(u) /\ insertOrganizationIdempotency(u, "accept", k, orgInvitation[i].org, u)
    BY <1>3, Zenon DEF OrgAcceptInvitation, acceptInvitation
  <2> QED BY <2>1, OrgRecordAdded, Zenon
<1>4. \A o, i : Stock(o) \/ OrgLapse(i) => UNCHANGED orgRecord
  BY Zenon DEF Stock, OrgLapse
<1> QED BY <1>0, <1>1, <1>2, <1>3, <1>4, Zenon DEF OrgNext

-----------------------------------------------------------------------------
(* Erasure *)

Gone ==
    \A u \in User : account[u] = "finalized" =>
        /\ \A w \in WorkspaceId : Role(w, u) = "none"
        /\ \A o \in Org : u \notin MembersOf(o)
        /\ \A r \in wsRecord \cup orgRecord : r.actor # u

EraseInv == OwnershipInv /\ WsInv /\ InTime /\ Gone

LEMMA NextGone ==
    ASSUME Counting
    PROVE  EraseInv /\ [TenancyNext]_tenancyVars => Gone'
<1> SUFFICES ASSUME EraseInv, [TenancyNext]_tenancyVars, NEW u \in User, account'[u] = "finalized"
             PROVE  /\ \A w \in WorkspaceId : Role(w, u)' = "none"
                    /\ \A o \in Org : u \notin MembersOf(o)'
                    /\ \A r \in wsRecord' \cup orgRecord' : r.actor # u
  BY Zenon DEF Gone
<1> DEFINE Left == /\ \A w \in WorkspaceId : Role(w, u)' = "none"
                   /\ \A r \in wsRecord' \cup orgRecord' : r.actor # u
<1>0. OwnershipInv /\ WsInv /\ OrgRows
  BY Zenon DEF EraseInv, OwnershipInv
<1>1. CASE account[u] = "finalized"
  <2>1. /\ \A w \in WorkspaceId : Role(w, u) = "none"
        /\ \A o \in Org : u \notin MembersOf(o)
        /\ \A r \in wsRecord \cup orgRecord : r.actor # u
    BY <1>1, Zenon DEF EraseInv, Gone
  <2>2. ~ActiveActor(u) /\ ~Present(u)
    BY <1>1, Zenon DEF ActiveActor, Present, EraseInv, InTime
  <2>3. \A o \in Org : u \notin MembersOf(o)'
    BY <1>0, <2>1, <2>2, MembersGrow, Zenon DEF Growth, Joins
  <2>4. ASSUME WsNext /\ UNCHANGED orgOwn PROVE Left
    <3>1. Careful /\ Recorded /\ UNCHANGED orgRecord
      BY <1>0, <2>4, WsNextKeeps, Zenon DEF WsStepKept, orgOwn
    <3> QED BY <2>1, <2>2, <3>1, ZenonT(40) DEF Careful, Recorded
  <2>5. ASSUME OrgNext /\ UNCHANGED wsOwn PROVE Left
    BY <2>1, <2>2, <2>5, OrgRecordsGrow, Zenon DEF OrgRecorded, wsOwn, Role
  <2>6. ASSUME cleanupExpiredRows PROVE Left
    <3>1. UNCHANGED member /\ wsRecord' \subseteq wsRecord
      BY <1>0, <2>6, CleanupKeeps, Zenon
    <3>2. orgRecord' \subseteq orgRecord
      BY <2>6, Zenon DEF cleanupExpiredRows, expireOrganizationRows
    <3> QED BY <2>1, <3>1, <3>2, Zenon DEF Role
  <2>7. ASSUME NEW x \in User, RequestDeletion(x) \/ StatusStep(x) PROVE Left
    BY <2>1, <2>7, Zenon DEF RequestDeletion, StatusStep, wsOwn, orgOwn, Role
  <2>8. ASSUME NEW x \in User, FinalizeDeletion(x) PROVE Left
    <3>1. wsRecord' \subseteq wsRecord /\ orgRecord' \subseteq orgRecord
      BY <2>8, Zenon DEF FinalizeDeletion, EraseFromWorkspaces, EraseFromOrganizations
    <3>2. \A w \in WorkspaceId : member'[w][u] \in {NoRow, member[w][u]}
      BY <2>8, Zenon DEF FinalizeDeletion, EraseFromWorkspaces
    <3> QED BY <2>1, <3>1, <3>2, NoSeat, Zenon DEF Role
  <2>9. ASSUME UNCHANGED tenancyVars PROVE Left
    BY <2>1, <2>9, Zenon DEF tenancyVars, wsVars, orgVars, Role
  <2>10. Left
    BY <2>4, <2>5, <2>6, <2>7, <2>8, <2>9, Zenon DEF TenancyNext
  <2> QED BY <2>3, <2>10, Zenon
<1>2. CASE account[u] # "finalized"
  <2>1. FinalizeDeletion(u)
    <3>1. ~UNCHANGED account
      BY <1>2, Zenon
    <3>2. \A x \in User : RequestDeletion(x) \/ StatusStep(x) => account'[u] \in {account[u], "active", "disabled", "pending", "elapsed"}
      BY <1>0, Zenon DEF RequestDeletion, StatusStep, DisableUser, EnableUser, RecoverDeletion, RecoveryWindowEnds, SetAccount, OrgRows
    <3>3. \A x \in User \ {u} : FinalizeDeletion(x) => account'[u] = account[u]
      BY <1>0, Zenon DEF FinalizeDeletion, SetAccount, OrgRows
    <3>4. ~OrgNext
      BY <3>1, OrganizationsKeepAccounts, Zenon
    <3>5. ~WsNext /\ ~cleanupExpiredRows /\ ~UNCHANGED tenancyVars
      BY <3>1, WorkspacesKeepAccounts, Zenon DEF cleanupExpiredRows, tenancyVars, wsVars
    <3> QED BY <1>2, <3>2, <3>3, <3>4, <3>5, Zenon DEF TenancyNext
  <2>2. \A w \in WorkspaceId : Role(w, u)' = "none"
    BY <1>0, <2>1, ErasureKeeps, Zenon
  <2>3. \A r \in wsRecord' \cup orgRecord' : r.actor # u
    BY <2>1, Zenon DEF FinalizeDeletion, EraseFromWorkspaces, EraseFromOrganizations
  <2>4. \A o \in Org : RoleIn(o, u) # "owner"
    BY <1>0, <2>1, NoOrganizationOwned, Zenon DEF FinalizeDeletion
  <2>5. \A o \in Org : orgMember'[o][u] = NoMember
    BY <2>1, <2>4, Zenon DEF FinalizeDeletion, EraseFromOrganizations
  <2> QED BY <2>2, <2>3, <2>5 DEF MembersOf, RoleIn, NoMember
<1> QED BY <1>1, <1>2, Zenon

-----------------------------------------------------------------------------
(* Organizations: invitations *)

OrgInviteRow == [org : Org \cup {NoOrg}, lapsed : BOOLEAN,
                 status : {"none", "pending", "accepted", "revoked", "expired", "deleted"}]

OrgInviteInv ==
    /\ orgInvitation \in [OrgInvitation -> OrgInviteRow]
    /\ \A i \in OrgInvitation : orgInvitation[i].status = "pending" =>
           orgInvitation[i].org \in Org /\ OrgStatus(orgInvitation[i].org) = "active"
    /\ \A o \in Org : Cardinality(OrgPending(o)) <= OrgPendingLimit

LEMMA FiniteOrg ==
    ASSUME Counting
    PROVE  \A o : IsFiniteSet(MembersOf(o)) /\ IsFiniteSet(OrgPending(o)) /\ IsFiniteSet(ActiveDepartments(o))
<1>1. \A o : /\ MembersOf(o) \in SUBSET User /\ OrgPending(o) \in SUBSET OrgInvitation
             /\ ActiveDepartments(o) \in SUBSET Department
  BY Zenon DEF MembersOf, OrgPending, ActiveDepartments
<1> QED BY <1>1, OrganizationParameters, PartsFinite, Zenon

LEMMA OrgInvitesSettle ==
    ASSUME Counting, OrgInviteInv, orgInvitation' \in [OrgInvitation -> OrgInviteRow],
           \A i \in OrgInvitation : orgInvitation'[i].status = "pending" =>
               /\ orgInvitation[i].status = "pending" /\ orgInvitation'[i].org = orgInvitation[i].org
               /\ organization'[orgInvitation[i].org].status = "active"
    PROVE  OrgInviteInv'
<1>1. \A o \in Org : OrgPending(o)' \subseteq OrgPending(o)
  BY Zenon DEF OrgPending
<1>2. \A o \in Org : Cardinality(OrgPending(o)') <= OrgPendingLimit
  BY <1>1, FiniteOrg, Fewer, OrganizationParameters, Zenon DEF OrgInviteInv
<1> QED BY <1>2, Zenon DEF OrgInviteInv, OrgStatus

LEMMA OrgInvitesStay ==
    ASSUME Counting, OrgInviteInv, UNCHANGED orgInvitation,
           \A o \in Org : organization[o].status = "active" => organization'[o].status = "active"
    PROVE  OrgInviteInv'
BY OrgInvitesSettle, Zenon DEF OrgInviteInv, OrgStatus

LEMMA OrgStatusSet ==
    ASSUME NEW row \in OrgInviteRow, NEW s \in {"accepted", "revoked", "expired", "deleted"}
    PROVE  LET new == [row EXCEPT !.status = s] IN new \in OrgInviteRow /\ new.status = s /\ new.org = row.org
BY Zenon DEF OrgInviteRow

LEMMA OrgInvitesSettled ==
    ASSUME Counting, OrgInviteInv, NEW S, NEW s \in {"accepted", "revoked", "expired", "deleted"}, SettleInvitations(S, s),
           \A i \in OrgInvitation : i \notin S /\ orgInvitation[i].status = "pending" =>
               organization'[orgInvitation[i].org].status = "active"
    PROVE  OrgInviteInv'
<1>1. \A i \in OrgInvitation : LET row == [orgInvitation[i] EXCEPT !.status = s]
                               IN  row \in OrgInviteRow /\ row.status = s
  BY OrgStatusSet, Zenon DEF OrgInviteInv
<1>2. \A i \in OrgInvitation : \/ i \in S /\ orgInvitation'[i].status = s /\ orgInvitation'[i] \in OrgInviteRow
                               \/ i \notin S /\ orgInvitation'[i] = orgInvitation[i]
  BY <1>1, Zenon DEF SettleInvitations
<1>3. orgInvitation' = [i \in OrgInvitation |-> orgInvitation'[i]]
  BY Zenon DEF SettleInvitations
<1>4. orgInvitation' \in [OrgInvitation -> OrgInviteRow]
  BY <1>2, <1>3, Zenon DEF OrgInviteInv
<1> QED BY <1>2, <1>4, OrgInvitesSettle, Zenon

LEMMA OrgInviteCreated ==
    ASSUME Counting, OrgInviteInv, NEW u, NEW o \in Org, NEW i \in OrgInvitation, NEW k, createInvitation(u, o, i, k)
    PROVE  OrgInviteInv'
<1> DEFINE overdue == {j \in OrgPending(o) : orgInvitation[j].lapsed}
           new == [org |-> o, status |-> "pending", lapsed |-> FALSE]
<1>1. /\ OrgStatus(o) = "active" /\ Cardinality(OrgPending(o) \ overdue) < OrgPendingLimit
      /\ orgInvitation' = [j \in OrgInvitation |->
             IF j = i THEN new
             ELSE IF j \in overdue THEN [orgInvitation[j] EXCEPT !.status = "expired"]
             ELSE orgInvitation[j]]
      /\ UNCHANGED organization
  BY Zenon DEF createInvitation, requireActiveOrganizationMutation
<1>2. new \in OrgInviteRow /\ new.org = o /\ new.status = "pending"
  BY Zenon DEF OrgInviteRow
<1>3. IsFiniteSet(OrgPending(o) \ overdue)
  <2>1. OrgPending(o) \ overdue \in SUBSET OrgPending(o)
    BY Zenon
  <2> QED BY <2>1, FiniteOrg, PartsFinite, Zenon
<1> HIDE DEF new
<1>4. \A j \in OrgInvitation : LET row == [orgInvitation[j] EXCEPT !.status = "expired"]
                               IN  row \in OrgInviteRow /\ row.status = "expired"
  BY OrgStatusSet, Zenon DEF OrgInviteInv
<1>5. OrgPending(o)' \subseteq (OrgPending(o) \ overdue) \cup {i}
  <2> SUFFICES ASSUME NEW j \in OrgInvitation, orgInvitation'[j].status = "pending", orgInvitation'[j].org = o, j # i
               PROVE  j \in OrgPending(o) \ overdue
    BY Zenon DEF OrgPending
  <2>1. j \notin overdue
    BY <1>1, <1>4, Zenon
  <2>2. orgInvitation'[j] = orgInvitation[j]
    BY <1>1, <2>1, Zenon
  <2> QED BY <2>1, <2>2, Zenon DEF OrgPending
<1> HIDE DEF overdue
<1>6. \A j \in OrgInvitation :
          \/ j = i /\ orgInvitation'[j] = new
          \/ j # i /\ orgInvitation'[j].status = "expired" /\ orgInvitation'[j] \in OrgInviteRow
          \/ j # i /\ orgInvitation'[j] = orgInvitation[j]
  BY <1>1, <1>4, Zenon
<1>7. orgInvitation' \in [OrgInvitation -> OrgInviteRow]
  <2>1. orgInvitation' = [j \in OrgInvitation |-> orgInvitation'[j]]
    BY <1>1, Zenon
  <2> QED BY <1>2, <1>6, <2>1, Zenon DEF OrgInviteInv
<1>8. \A j \in OrgInvitation : orgInvitation'[j].status = "pending" =>
          orgInvitation'[j].org \in Org /\ organization'[orgInvitation'[j].org].status = "active"
  BY <1>1, <1>2, <1>6, ZenonT(40) DEF OrgInviteInv, OrgStatus
<1>9. \A p \in Org \ {o} : OrgPending(p)' \subseteq OrgPending(p)
  BY <1>2, <1>6, Zenon DEF OrgPending
<1>10. OrgPendingLimit \in Nat
  BY OrganizationParameters, Zenon
<1>11. Cardinality(OrgPending(o)') <= OrgPendingLimit
  BY <1>1, <1>3, <1>5, <1>10, OneMore, Zenon
<1>12. \A p \in Org \ {o} : Cardinality(OrgPending(p)') <= OrgPendingLimit
  BY <1>9, <1>10, FiniteOrg, Fewer, Zenon DEF OrgInviteInv
<1> QED BY <1>7, <1>8, <1>11, <1>12, Zenon DEF OrgInviteInv, OrgStatus

LEMMA OrgInviteLapses ==
    ASSUME Counting, OrgInviteInv, NEW i \in OrgInvitation, OrgLapse(i)
    PROVE  OrgInviteInv'
<1> DEFINE row == [orgInvitation[i] EXCEPT !.lapsed = TRUE]
<1>1. row \in OrgInviteRow /\ row.status = orgInvitation[i].status /\ row.org = orgInvitation[i].org
  BY Zenon DEF OrgInviteInv, OrgInviteRow
<1>2. orgInvitation' = [orgInvitation EXCEPT ![i] = row] /\ UNCHANGED organization
  BY Zenon DEF OrgLapse
<1> HIDE DEF row
<1>3. /\ orgInvitation' \in [OrgInvitation -> OrgInviteRow]
      /\ \A j \in OrgInvitation : orgInvitation'[j] = IF j = i THEN row ELSE orgInvitation[j]
  BY <1>1, <1>2, ZenonT(40) DEF OrgInviteInv
<1> QED BY <1>1, <1>2, <1>3, OrgInvitesSettle, Zenon DEF OrgInviteInv, OrgStatus

LEMMA NextOrgInvites ==
    ASSUME Counting
    PROVE  OrgRows /\ OrgInviteInv /\ [TenancyNext]_tenancyVars => OrgInviteInv'
<1> SUFFICES ASSUME OrgRows, OrgInviteInv, [TenancyNext]_tenancyVars PROVE OrgInviteInv'
  BY Zenon
<1>1. ASSUME UNCHANGED <<organization, orgInvitation>> PROVE OrgInviteInv'
  BY <1>1, OrgInvitesStay, Zenon
<1>2. ASSUME NEW u, NEW o, NEW t, NEW role, NEW d, NEW name, NEW new,
             \/ OrgLeave(u, o) \/ OrgRemoveMember(u, o, t) \/ PatchMember(u, o, t, role, d)
             \/ CreateDepartment(u, o, d, name) \/ RenameDepartment(u, o, d, name)
             \/ ArchiveOrRestoreDepartment(u, o, d, new)
      PROVE  UNCHANGED <<organization, orgInvitation>>
  BY <1>2, Zenon DEF OrgLeave, leave, OrgRemoveMember, removeMember, PatchMember, patchMember, CreateDepartment,
     createDepartment, RenameDepartment, renameDepartment, ArchiveOrRestoreDepartment, changeDepartmentLifecycle
<1>3. ASSUME NEW o \in Org, NEW row, row.status = "active", organization' = [organization EXCEPT ![o] = row], UNCHANGED orgInvitation
      PROVE  OrgInviteInv'
  <2>1. \A p \in Org : organization[p].status = "active" => organization'[p].status = "active"
    BY <1>3, Zenon DEF OrgRows
  <2> QED BY <1>3, <2>1, OrgInvitesStay, Zenon
<1>4. ASSUME NEW o \in Org, organization' = [organization EXCEPT ![o].revision = @ + 1], UNCHANGED orgInvitation
      PROVE  OrgInviteInv'
  <2>1. \A p \in Org : organization'[p].status = organization[p].status
    BY <1>4, ZenonT(40) DEF OrgRows, OrgRow
  <2> QED BY <1>4, <2>1, OrgInvitesStay, Zenon
<1>5. ASSUME NEW u, NEW o \in Org, NEW t, NEW k, OrgRename(u, o) \/ TransferOwner(u, o, t, k) PROVE OrgInviteInv'
  BY <1>4, <1>5, Zenon DEF OrgRename, rename, TransferOwner, transferOwner, Bump
<1>6. ASSUME NEW u, NEW o \in Org, NEW k, OrgCreate(u, o, k) PROVE OrgInviteInv'
  <2>1. /\ organization' = [organization EXCEPT ![o] = [status |-> "active", revision |-> 1, policy |-> 1]]
        /\ UNCHANGED orgInvitation
    BY <1>6, Zenon DEF OrgCreate, create
  <2> QED BY <1>3, <2>1, ZenonT(40)
<1>7. ASSUME NEW u, NEW o \in Org, NEW k, OrgRestore(u, o, k) PROVE OrgInviteInv'
  <2>1. organization' = [organization EXCEPT ![o].status = "active", ![o].revision = @ + 1] /\ UNCHANGED orgInvitation
    BY <1>7, Zenon DEF OrgRestore, restore
  <2>2. \A p \in Org : organization[p].status = "active" => organization'[p].status = "active"
    BY <2>1, ZenonT(40) DEF OrgRows, OrgRow
  <2> QED BY <2>1, <2>2, OrgInvitesStay, ZenonT(40)
<1>8. ASSUME NEW u, NEW o \in Org, NEW k, PublishPolicy(u, o, k) PROVE OrgInviteInv'
  <2>1. PICK v : organization' = [organization EXCEPT ![o].policy = v, ![o].revision = @ + 1] /\ UNCHANGED orgInvitation
    BY <1>8, Zenon DEF PublishPolicy, publishPolicy
  <2>2. \A p \in Org : organization'[p].status = organization[p].status
    BY <2>1, ZenonT(40) DEF OrgRows, OrgRow
  <2> QED BY <2>1, <2>2, OrgInvitesStay, Zenon
<1>9. ASSUME NEW u, NEW o \in Org, NEW k, OrgArchive(u, o, k) PROVE OrgInviteInv'
  <2>1. PICK row : organization' = [organization EXCEPT ![o] = row]
    BY <1>9, Zenon DEF OrgArchive, archive
  <2>2. SettleInvitations(OrgPending(o), "revoked")
    BY <1>9, Zenon DEF OrgArchive, archive
  <2>3. \A i \in OrgInvitation : i \notin OrgPending(o) /\ orgInvitation[i].status = "pending" =>
            organization'[orgInvitation[i].org].status = "active"
    BY <2>1, Zenon DEF OrgInviteInv, OrgPending, OrgStatus, OrgRows
  <2> QED BY <2>2, <2>3, OrgInvitesSettled, Zenon
<1>10. ASSUME NEW u, NEW o \in Org, NEW k, Dissolve(u, o, k) PROVE OrgInviteInv'
  <2> DEFINE S == {i \in OrgInvitation : orgInvitation[i].org = o}
  <2>1. PICK row : organization' = [organization EXCEPT ![o] = row]
    BY <1>10, Zenon DEF Dissolve, dissolve
  <2>2. SettleInvitations(S, "deleted")
    BY <1>10, Zenon DEF Dissolve, dissolve
  <2>3. \A i \in OrgInvitation : i \notin S /\ orgInvitation[i].status = "pending" =>
            organization'[orgInvitation[i].org].status = "active"
    BY <2>1, Zenon DEF OrgInviteInv, OrgStatus, OrgRows
  <2> HIDE DEF S
  <2> QED BY <2>2, <2>3, OrgInvitesSettled, Zenon
<1>11. ASSUME NEW u, NEW o \in Org, NEW k, OrgCreateInvitation(u, o, k) PROVE OrgInviteInv'
  BY <1>11, OrgInviteCreated, ZenonT(40) DEF OrgCreateInvitation
<1>12. ASSUME NEW S, NEW s \in {"accepted", "revoked", "expired"}, SettleInvitations(S, s), UNCHANGED organization
       PROVE  OrgInviteInv'
  BY <1>12, OrgInvitesSettled, Zenon DEF OrgInviteInv, OrgStatus
<1>13. ASSUME NEW u, NEW o, NEW i, OrgRevokeInvitation(u, o, i) PROVE OrgInviteInv'
  BY <1>12, <1>13, Zenon DEF OrgRevokeInvitation, revokeInvitation
<1>14. ASSUME NEW u, NEW i, NEW k, OrgAcceptInvitation(u, i, k) PROVE OrgInviteInv'
  BY <1>12, <1>14, Zenon DEF OrgAcceptInvitation, acceptInvitation
<1>15. CASE cleanupExpiredRows
  <2>1. PICK S : SettleInvitations(S, "expired") /\ UNCHANGED organization
    BY <1>15, Zenon DEF cleanupExpiredRows, expireOrganizationRows
  <2> QED BY <1>12, <2>1, Zenon
<1>16. \A o : Stock(o) => UNCHANGED <<organization, orgInvitation>>
  BY ZenonT(40) DEF Stock
<1>17. \A u, o : u \in User /\ o \in Org => (OrgMemberStep(u, o) => OrgInviteInv')
  BY <1>1, <1>2, <1>5, <1>13, Zenon DEF OrgMemberStep
<1>18. \A u, o, k : u \in User /\ o \in Org => (OrgKeyedStep(u, o, k) => OrgInviteInv')
  BY <1>5, <1>6, <1>7, <1>8, <1>9, <1>10, <1>11, Zenon DEF OrgKeyedStep
<1>19. OrgNext => OrgInviteInv'
  BY <1>1, <1>14, <1>16, <1>17, <1>18, OrgInviteLapses, Zenon DEF OrgNext
<1>20. UNCHANGED orgOwn \/ UNCHANGED tenancyVars => UNCHANGED <<organization, orgInvitation>>
  BY Zenon DEF orgOwn, tenancyVars, orgVars
<1>21. \A u : RequestDeletion(u) \/ FinalizeDeletion(u) \/ StatusStep(u) => UNCHANGED <<organization, orgInvitation>>
  BY <1>20, Zenon DEF RequestDeletion, FinalizeDeletion, EraseFromOrganizations, StatusStep
<1> QED BY <1>1, <1>15, <1>19, <1>20, <1>21, Zenon DEF TenancyNext

-----------------------------------------------------------------------------
(* Organizations: departments *)

DeptRow == [status : {"none", "active", "archived"}, name : DepartmentName \cup {NoName}, revision : Nat]

DeptInv == department \in [Org -> [Department -> DeptRow]] /\ DepartmentsConsistent

\* A membership that is written keeps its department, has none, or gets an active one.
Assigned ==
    \A o \in Org, t \in User :
        orgMember'[o][t].department \in {NoDepartment, orgMember[o][t].department} \cup ActiveDepartments(o)

LEMMA DeptStays ==
    ASSUME DeptInv, UNCHANGED department, Assigned
    PROVE  DeptInv'
<1>1. \A o : ActiveDepartments(o)' = ActiveDepartments(o)
  BY Zenon DEF ActiveDepartments
<1> QED BY <1>1, Zenon DEF DeptInv, DepartmentsConsistent, Assigned

LEMMA DeptTurned ==
    ASSUME NEW row \in DeptRow
    PROVE  /\ \A s \in {"active", "archived"} : LET new == [row EXCEPT !.status = s, !.revision = @ + 1]
              IN  new \in DeptRow /\ new.status = s /\ new.name = row.name
           /\ \A n \in DepartmentName : LET new == [row EXCEPT !.name = n, !.revision = @ + 1]
              IN  new \in DeptRow /\ new.status = row.status /\ new.name = n
<1> DEFINE touched == [row EXCEPT !.revision = @ + 1]
<1>1. touched \in DeptRow
  BY DEF DeptRow
<1>2. ASSUME NEW s \in {"active", "archived"}
      PROVE  LET new == [row EXCEPT !.status = s, !.revision = @ + 1]
             IN  new \in DeptRow /\ new.status = s /\ new.name = row.name
  <2> DEFINE new == [row EXCEPT !.status = s, !.revision = @ + 1]
  <2>1. new = [touched EXCEPT !.status = s]
    BY Zenon DEF DeptRow
  <2>2. new \in DeptRow
    <3> HIDE DEF new, touched
    <3> QED BY <1>1, <2>1, Zenon DEF DeptRow
  <2>3. new.status = s /\ new.name = row.name
    BY Zenon DEF DeptRow
  <2> QED BY <2>2, <2>3, Zenon
<1>3. ASSUME NEW n \in DepartmentName
      PROVE  LET new == [row EXCEPT !.name = n, !.revision = @ + 1]
             IN  new \in DeptRow /\ new.status = row.status /\ new.name = n
  <2> DEFINE new == [row EXCEPT !.name = n, !.revision = @ + 1]
  <2>1. new = [touched EXCEPT !.name = n]
    BY Zenon DEF DeptRow
  <2>2. new \in DeptRow
    <3> HIDE DEF new, touched
    <3> QED BY <1>1, <2>1, Zenon DEF DeptRow
  <2>3. new.status = row.status /\ new.name = n
    BY Zenon DEF DeptRow
  <2> QED BY <2>2, <2>3, Zenon
<1> QED BY <1>2, <1>3, Zenon

LEMMA DeptWritten ==
    ASSUME Counting, DeptInv, UNCHANGED orgMember, NEW o \in Org, NEW d \in Department, NEW row \in DeptRow,
           department' = [department EXCEPT ![o][d] = row],
           row.status = "active" =>
               /\ ~activeDepartmentNameExists(o, row.name, d)
               /\ department[o][d].status = "active" \/ Cardinality(ActiveDepartments(o)) < DepartmentLimit,
           row.status # "active" => \A t \in User : orgMember[o][t].department # d
    PROVE  DeptInv'
<1>1. /\ department' \in [Org -> [Department -> DeptRow]]
      /\ \A p \in Org, e \in Department : department'[p][e] = IF p = o /\ e = d THEN row ELSE department[p][e]
  BY Zenon DEF DeptInv
<1>2. \A p \in Org \ {o} : ActiveDepartments(p)' = ActiveDepartments(p)
  BY <1>1, Zenon DEF ActiveDepartments
<1>3. ActiveDepartments(o)' = IF row.status = "active" THEN ActiveDepartments(o) \cup {d} ELSE ActiveDepartments(o) \ {d}
  BY <1>1, Zenon DEF ActiveDepartments
<1>4. \A p \in Org, t \in User : orgMember'[p][t].department \in ActiveDepartments(p)' \cup {NoDepartment}
  BY <1>2, <1>3, ZenonT(40) DEF DeptInv, DepartmentsConsistent
<1>5. \A p \in Org : \A e, f \in ActiveDepartments(p)' : department'[p][e].name = department'[p][f].name => e = f
  <2> SUFFICES ASSUME NEW p \in Org, NEW e \in ActiveDepartments(p)', NEW f \in ActiveDepartments(p)',
                      department'[p][e].name = department'[p][f].name
               PROVE  e = f
    BY Zenon
  <2>1. e \in Department /\ f \in Department
    BY Zenon DEF ActiveDepartments
  <2>2. CASE p # o
    BY <1>1, <1>2, <2>1, <2>2 DEF DeptInv, DepartmentsConsistent
  <2>3. CASE p = o /\ e # d /\ f # d
    BY <1>1, <1>3, <2>1, <2>3 DEF DeptInv, DepartmentsConsistent
  <2>4. CASE p = o /\ e = d /\ f # d
    BY <1>1, <1>3, <2>1, <2>4, ZenonT(40) DEF activeDepartmentNameExists
  <2>5. CASE p = o /\ f = d /\ e # d
    BY <1>1, <1>3, <2>1, <2>5, ZenonT(40) DEF activeDepartmentNameExists
  <2> QED BY <2>2, <2>3, <2>4, <2>5, Zenon
<1>6. \A p \in Org : Cardinality(ActiveDepartments(p)') <= DepartmentLimit
  <2>0. DepartmentLimit \in Nat
    BY OrganizationParameters, Zenon
  <2>1. CASE row.status = "active" /\ department[o][d].status # "active"
    BY <1>2, <1>3, <2>0, <2>1, FiniteOrg, OneMore, Zenon DEF DeptInv, DepartmentsConsistent
  <2>2. CASE row.status # "active" \/ department[o][d].status = "active"
    <3>1. ActiveDepartments(o)' \subseteq ActiveDepartments(o)
      BY <1>3, <2>2, Zenon DEF ActiveDepartments
    <3> QED BY <1>2, <2>0, <3>1, FiniteOrg, Fewer, ZenonT(40) DEF DeptInv, DepartmentsConsistent
  <2> QED BY <2>1, <2>2, Zenon
<1> QED BY <1>1, <1>4, <1>5, <1>6, ZenonT(40) DEF DeptInv, DepartmentsConsistent

LEMMA OneRowAssigned ==
    ASSUME OrgRows, NEW o \in Org, NEW t \in User, NEW row, SetOrgMember(o, t, row),
           row.department \in {NoDepartment} \cup ActiveDepartments(o)
    PROVE  Assigned
<1>1. \A p \in Org, x \in User : orgMember'[p][x] = IF p = o /\ x = t THEN row ELSE orgMember[p][x]
  BY Zenon DEF SetOrgMember, OrgRows
<1> QED BY <1>1, Zenon DEF Assigned

LEMMA NextDept ==
    ASSUME Counting
    PROVE  OrgRows /\ DeptInv /\ [TenancyNext]_tenancyVars => DeptInv'
<1> SUFFICES ASSUME OrgRows, DeptInv, [TenancyNext]_tenancyVars PROVE DeptInv'
  BY Zenon
<1>0. NoMember.department = NoDepartment
  BY Zenon DEF NoMember
<1>1. UNCHANGED orgMember => Assigned
  BY Zenon DEF Assigned
<1>2. ASSUME NEW u \in User, NEW o \in Org, NEW t \in User, OrgLeave(u, o) \/ OrgRemoveMember(u, o, t) PROVE DeptInv'
  <2>1. UNCHANGED department /\ (SetOrgMember(o, u, NoMember) \/ SetOrgMember(o, t, NoMember))
    BY <1>2, Zenon DEF OrgLeave, leave, OrgRemoveMember, removeMember
  <2> QED BY <1>0, <2>1, OneRowAssigned, DeptStays, Zenon
<1>3. ASSUME NEW u \in User, NEW o \in Org, NEW t \in User, NEW role, NEW d \in Department \cup {NoDepartment},
             PatchMember(u, o, t, role, d)
      PROVE  DeptInv'
  <2> DEFINE row == [role |-> role, department |-> d, revision |-> orgMember[o][t].revision + 1]
  <2>1. /\ UNCHANGED department /\ SetOrgMember(o, t, row)
        /\ d # NoDepartment => department[o][d].status = "active"
    BY <1>3, Zenon DEF PatchMember, patchMember
  <2>2. row.department \in {NoDepartment} \cup ActiveDepartments(o)
    BY <2>1, Zenon DEF ActiveDepartments
  <2> HIDE DEF row
  <2> QED BY <2>1, <2>2, OneRowAssigned, DeptStays, ZenonT(40)
<1>4. ASSUME NEW u \in User, NEW i, NEW k, OrgAcceptInvitation(u, i, k) PROVE DeptInv'
  <2> DEFINE o == orgInvitation[i].org
             row == [role |-> "member", department |-> NoDepartment, revision |-> 1]
  <2>1. UNCHANGED department /\ (UNCHANGED orgMember \/ SetOrgMember(o, u, row))
    BY <1>4, Zenon DEF OrgAcceptInvitation, acceptInvitation
  <2>2. row.department = NoDepartment
    BY Zenon
  <2> HIDE DEF o, row
  <2>3. CASE o \in Org
    BY <1>1, <2>1, <2>2, <2>3, OneRowAssigned, DeptStays, ZenonT(40)
  <2>4. CASE o \notin Org
    <3>1. UNCHANGED orgMember
      BY <2>1, <2>4, ZenonT(40) DEF SetOrgMember, OrgRows
    <3> QED BY <1>1, <2>1, <3>1, DeptStays, Zenon
  <2> QED BY <2>3, <2>4, Zenon
<1>5. ASSUME NEW u \in User, NEW o \in Org, NEW k, OrgCreate(u, o, k) PROVE DeptInv'
  <2> DEFINE row == [role |-> "owner", department |-> NoDepartment, revision |-> 1]
  <2>1. UNCHANGED department /\ SetOrgMember(o, u, row)
    BY <1>5, Zenon DEF OrgCreate, create
  <2>2. row.department = NoDepartment
    BY Zenon
  <2> HIDE DEF row
  <2> QED BY <2>1, <2>2, OneRowAssigned, DeptStays, Zenon
<1>6. ASSUME NEW u \in User, NEW o \in Org, NEW t \in User, NEW k, TransferOwner(u, o, t, k) PROVE DeptInv'
  <2>1. PICK a, b : /\ a = Ranked(orgMember[o][u], "admin") /\ b = Ranked(orgMember[o][t], "owner")
                    /\ t # u /\ orgMember' = [orgMember EXCEPT ![o][u] = a, ![o][t] = b] /\ UNCHANGED department
    BY <1>6, Zenon DEF TransferOwner, transferOwner
  <2>2. \A row \in MemberRow : \A role : Ranked(row, role).department = row.department
    BY Zenon DEF Ranked, MemberRow
  <2>3. a.department = orgMember[o][u].department /\ b.department = orgMember[o][t].department
    BY <2>1, <2>2, Zenon DEF OrgRows
  <2>4. \A p \in Org, x \in User : orgMember'[p][x] =
            IF p = o /\ x = u THEN a ELSE IF p = o /\ x = t THEN b ELSE orgMember[p][x]
    BY <2>1, Zenon DEF OrgRows
  <2>5. Assigned
    BY <2>3, <2>4, ZenonT(40) DEF Assigned
  <2> QED BY <2>1, <2>5, DeptStays, Zenon
<1>7. ASSUME NEW u \in User, NEW o \in Org, NEW k, Dissolve(u, o, k) PROVE DeptInv'
  <2>1. /\ orgMember' = [orgMember EXCEPT ![o] = [t \in User |-> NoMember]]
        /\ department' = [department EXCEPT ![o] = [d \in Department |-> NoDeptRow]]
    BY <1>7, Zenon DEF Dissolve, dissolve
  <2>2. NoDeptRow \in DeptRow /\ NoDeptRow.status = "none"
    BY Zenon DEF NoDeptRow, DeptRow
  <2>3. /\ \A p \in Org, t \in User : orgMember'[p][t] = IF p = o THEN NoMember ELSE orgMember[p][t]
        /\ \A p \in Org : department'[p] = IF p = o THEN [d \in Department |-> NoDeptRow] ELSE department[p]
        /\ department' \in [Org -> [Department -> DeptRow]]
    BY <2>1, <2>2, Zenon DEF OrgRows, DeptInv
  <2>4. /\ \A p \in Org \ {o} : ActiveDepartments(p)' = ActiveDepartments(p)
        /\ ActiveDepartments(o)' = {}
    BY <2>2, <2>3, Zenon DEF ActiveDepartments
  <2>5. Cardinality({}) = 0 /\ DepartmentLimit \in Nat
    BY NoneCounted, OrganizationParameters, Zenon
  <2>6. ASSUME NEW p \in Org
        PROVE  /\ \A x \in User : orgMember'[p][x].department \in ActiveDepartments(p)' \cup {NoDepartment}
               /\ \A d, e \in ActiveDepartments(p)' : department'[p][d].name = department'[p][e].name => d = e
               /\ Cardinality(ActiveDepartments(p)') <= DepartmentLimit
    <3>1. CASE p = o
      <4>1. \A x \in User : orgMember'[p][x].department = NoDepartment
        BY <1>0, <2>3, <3>1, Zenon
      <4>2. ActiveDepartments(p)' = {}
        BY <2>4, <3>1, Zenon
      <4> QED BY <2>5, <4>1, <4>2
    <3>2. CASE p # o
      BY <2>3, <2>4, <2>6, <3>2 DEF DeptInv, DepartmentsConsistent
    <3> QED BY <3>1, <3>2, Zenon
  <2> QED BY <2>3, <2>6, Zenon DEF DeptInv, DepartmentsConsistent
<1>8. ASSUME NEW u \in User, FinalizeDeletion(u) PROVE DeptInv'
  <2>1. /\ UNCHANGED department
        /\ \A o \in Org, t \in User : orgMember'[o][t] \in {NoMember, orgMember[o][t]}
    BY <1>8, Zenon DEF FinalizeDeletion, EraseFromOrganizations
  <2>2. Assigned
    BY <1>0, <2>1, Zenon DEF Assigned
  <2> QED BY <2>1, <2>2, DeptStays, Zenon
<1>9. ASSUME NEW u \in User, NEW o \in Org, NEW d \in Department, NEW name \in DepartmentName,
             CreateDepartment(u, o, d, name)
      PROVE  DeptInv'
  <2> DEFINE row == [status |-> "active", name |-> name, revision |-> 1]
  <2>1. /\ Cardinality(ActiveDepartments(o)) < DepartmentLimit /\ ~activeDepartmentNameExists(o, name, d)
        /\ department' = [department EXCEPT ![o][d] = row] /\ UNCHANGED orgMember
    BY <1>9, Zenon DEF CreateDepartment, createDepartment
  <2>2. row \in DeptRow /\ row.status = "active" /\ row.name = name
    BY Zenon DEF DeptRow
  <2> HIDE DEF row
  <2> QED BY <2>1, <2>2, DeptWritten, Zenon
<1>10. ASSUME NEW u \in User, NEW o \in Org, NEW d \in Department, NEW name \in DepartmentName,
              RenameDepartment(u, o, d, name)
       PROVE  DeptInv'
  <2> DEFINE row == [department[o][d] EXCEPT !.name = name, !.revision = @ + 1]
  <2>1. /\ department[o][d].status = "active" /\ ~activeDepartmentNameExists(o, name, d) /\ UNCHANGED orgMember
        /\ department' = [department EXCEPT ![o][d].name = name, ![o][d].revision = @ + 1]
    BY <1>10, Zenon DEF RenameDepartment, renameDepartment
  <2>2. department' = [department EXCEPT ![o][d] = row]
    BY <2>1, Zenon DEF DeptInv
  <2>0. department[o][d] \in DeptRow
    BY Zenon DEF DeptInv
  <2>3. row \in DeptRow /\ row.status = department[o][d].status /\ row.name = name
    BY <2>0, DeptTurned, ZenonT(40)
  <2> HIDE DEF row
  <2>4. PICK r : r = row
    BY Zenon
  <2>5. r \in DeptRow /\ department' = [department EXCEPT ![o][d] = r] /\ UNCHANGED orgMember
    BY <2>1, <2>2, <2>3, <2>4, Zenon
  <2>6. r.status = "active" /\ ~activeDepartmentNameExists(o, r.name, d)
    BY <2>1, <2>3, <2>4, Zenon
  <2> QED BY <2>1, <2>5, <2>6, DeptWritten, ZenonT(40)
<1>11. ASSUME NEW u \in User, NEW o \in Org, NEW d \in Department, NEW new \in {"active", "archived"},
              ArchiveOrRestoreDepartment(u, o, d, new)
       PROVE  DeptInv'
  <2> DEFINE row == [department[o][d] EXCEPT !.status = new, !.revision = @ + 1]
  <2>1. /\ \/ new = "archived" /\ \A t \in User : orgMember[o][t].department # d
           \/ /\ new = "active" /\ Cardinality(ActiveDepartments(o)) < DepartmentLimit
              /\ ~activeDepartmentNameExists(o, department[o][d].name, d)
        /\ department' = [department EXCEPT ![o][d].status = new, ![o][d].revision = @ + 1] /\ UNCHANGED orgMember
    BY <1>11, Zenon DEF ArchiveOrRestoreDepartment, changeDepartmentLifecycle
  <2>2. department' = [department EXCEPT ![o][d] = row]
    BY <2>1, Zenon DEF DeptInv
  <2>0. department[o][d] \in DeptRow
    BY Zenon DEF DeptInv
  <2>3. row \in DeptRow /\ row.status = new /\ row.name = department[o][d].name
    BY <2>0, DeptTurned, ZenonT(40)
  <2> HIDE DEF row
  <2>4. PICK r : r = row
    BY Zenon
  <2>5. r \in DeptRow /\ department' = [department EXCEPT ![o][d] = r] /\ UNCHANGED orgMember
    BY <2>1, <2>2, <2>3, <2>4, Zenon
  <2>6. r.status = new /\ r.name = department[o][d].name
    BY <2>3, <2>4, Zenon
  <2>7. /\ r.status = "active" => ~activeDepartmentNameExists(o, r.name, d) /\ Cardinality(ActiveDepartments(o)) < DepartmentLimit
        /\ r.status # "active" => \A t \in User : orgMember[o][t].department # d
    BY <2>1, <2>6, Zenon
  <2> QED BY <2>5, <2>7, DeptWritten, Zenon
<1>12. CASE DepartmentStep
  BY <1>9, <1>10, <1>11, <1>12, Zenon DEF DepartmentStep
<1>13. CASE Aside \/ RowStep \/ UNCHANGED tenancyVars
  BY <1>1, <1>13, AsideKeeps, RowStepLives, DeptStays, Zenon DEF tenancyVars, orgVars
<1>14. \A u : RequestDeletion(u) \/ StatusStep(u) => DeptInv'
  BY <1>1, DeptStays, Zenon DEF RequestDeletion, StatusStep, orgOwn
<1> QED BY <1>2, <1>3, <1>4, <1>5, <1>6, <1>7, <1>8, <1>12, <1>13, <1>14, TenancySteps, Zenon DEF MemberStep

-----------------------------------------------------------------------------
(* The limits *)

LimitInv ==
    /\ OwnershipInv /\ WsInv /\ OrgInviteInv /\ DeptInv
    /\ \A o \in Org : Cardinality(MembersOf(o)) <= OrgMemberLimit

LEMMA NextMembers ==
    ASSUME Counting, LimitInv, [TenancyNext]_tenancyVars
    PROVE  \A o \in Org : Cardinality(MembersOf(o)') <= OrgMemberLimit
<1> SUFFICES ASSUME NEW o \in Org PROVE Cardinality(MembersOf(o)') <= OrgMemberLimit
  BY Zenon
<1>0. /\ OrgMemberLimit \in Nat \ {0} /\ IsFiniteSet(MembersOf(o))
      /\ Cardinality(MembersOf(o)) <= OrgMemberLimit
  BY FiniteOrg, OrganizationParameters, Zenon DEF LimitInv
<1>1. CASE MembersOf(o)' \subseteq MembersOf(o)
  BY <1>0, <1>1, Fewer, ZenonT(40)
<1>2. ASSUME NEW u \in User, Joins(o, u) PROVE Cardinality(MembersOf(o)') <= OrgMemberLimit
  <2>1. Cardinality(MembersOf(o)) < OrgMemberLimit
    BY <1>0, <1>2, NoneCounted DEF Joins
  <2> QED BY <1>0, <1>2, <2>1, OneMore, Zenon DEF Joins
<1> QED BY <1>1, <1>2, MembersGrow, Zenon DEF Growth, LimitInv

LEMMA InitLimits ==
    ASSUME Counting
    PROVE  TenancyInit => LimitInv
<1> SUFFICES ASSUME TenancyInit PROVE OrgInviteInv /\ DeptInv /\ \A o \in Org : Cardinality(MembersOf(o)) <= OrgMemberLimit
  BY InitOwnership, InitWs, Zenon DEF LimitInv
<1>1. /\ orgInvitation = [i \in OrgInvitation |-> NoOrgInvitation]
      /\ orgMember = [o \in Org |-> [u \in User |-> NoMember]]
      /\ department = [o \in Org |-> [d \in Department |-> NoDeptRow]]
  BY Zenon DEF TenancyInit, OrgInit
<1>2. /\ NoOrgInvitation \in OrgInviteRow /\ NoOrgInvitation.status = "none"
      /\ NoDeptRow \in DeptRow /\ NoDeptRow.status = "none"
      /\ NoMember.role = "none" /\ NoMember.department = NoDepartment
  BY Zenon DEF NoOrgInvitation, OrgInviteRow, NoDeptRow, DeptRow, NoMember
<1> HIDE DEF NoOrgInvitation, NoDeptRow, NoMember
<1>3. \A o \in Org : OrgPending(o) = {} /\ MembersOf(o) = {} /\ ActiveDepartments(o) = {}
  BY <1>1, <1>2, Zenon DEF OrgPending, MembersOf, RoleIn, ActiveDepartments
<1>4. /\ Cardinality({}) = 0
      /\ OrgMemberLimit \in Nat /\ DepartmentLimit \in Nat /\ OrgPendingLimit \in Nat
  BY NoneCounted, OrganizationParameters, Zenon
<1>5. OrgInviteInv
  <2>1. orgInvitation \in [OrgInvitation -> OrgInviteRow] /\ \A i \in OrgInvitation : orgInvitation[i].status # "pending"
    BY <1>1, <1>2, Zenon
  <2>2. \A o \in Org : Cardinality(OrgPending(o)) <= OrgPendingLimit
    BY <1>3, <1>4
  <2> QED BY <2>1, <2>2, Zenon DEF OrgInviteInv
<1>6. DeptInv
  BY <1>1, <1>2, <1>3, <1>4 DEF DeptInv, DepartmentsConsistent
<1> QED BY <1>3, <1>4, <1>5, <1>6

LEMMA NextLimits ==
    ASSUME Counting
    PROVE  LimitInv /\ [TenancyNext]_tenancyVars => LimitInv'
<1> SUFFICES ASSUME LimitInv, [TenancyNext]_tenancyVars PROVE LimitInv'
  BY Zenon
<1>1. OwnershipInv' /\ WsInv'
  BY NextOwnership, NextWs, Zenon DEF LimitInv
<1>2. OrgInviteInv' /\ DeptInv'
  BY NextOrgInvites, NextDept, ZenonT(40) DEF LimitInv, OwnershipInv
<1> QED BY <1>1, <1>2, NextMembers, Zenon DEF LimitInv

-----------------------------------------------------------------------------
(* Reads and repeated commands.  A list is a picture of the rows that the   *)
(* invariants speak of; a record is answered from the organization's row.   *)

LEMMA SameCount ==
    ASSUME Counting, NEW S, IsFiniteSet(S), NEW f, \A x, y \in S : f[x] = f[y] => x = y
    PROVE  Cardinality({f[x] : x \in S}) = Cardinality(S)
<1>1. Pictured(S, f)
  BY Zenon DEF Counting
<1> QED BY <1>1, Zenon DEF Pictured

LEMMA NotNone ==
    ASSUME Counting, NEW S, IsFiniteSet(S), NEW x \in S
    PROVE  Cardinality(S) \in Nat /\ Cardinality(S) >= 1
<1>1. Cardinality(S) \in Nat /\ Cardinality(S) # 0
  BY CountsNatural, NoneCounted, Zenon
<1> QED BY <1>1

\* An organization that ever existed has a policy.
Published == \A o \in Org : OrgStatus(o) # "none" => organization[o].policy >= 1

LEMMA RevisedExist ==
    ASSUME NEW u, NEW o, NEW t, NEW k,
           \/ OrgRename(u, o) \/ OrgArchive(u, o, k) \/ OrgRestore(u, o, k) \/ Dissolve(u, o, k)
           \/ TransferOwner(u, o, t, k) \/ PublishPolicy(u, o, k)
    PROVE  OrgExists(o)
BY Zenon DEF OrgRename, rename, OrgArchive, archive, OrgRestore, restore, Dissolve, dissolve, TransferOwner, transferOwner,
             PublishPolicy, publishPolicy, requireActiveOrganizationMutation, Locked

LEMMA NextPublished == OrgRows /\ Published /\ [TenancyNext]_tenancyVars => Published'
<1> SUFFICES ASSUME OrgRows, Published, [TenancyNext]_tenancyVars PROVE Published'
  BY Zenon
<1>1. ASSUME UNCHANGED organization PROVE Published'
  BY <1>1, ZenonT(40) DEF Published, OrgStatus
<1>2. CASE Aside \/ DepartmentStep \/ MemberStep
  BY <1>1, <1>2, AsideKeeps, DepartmentsKeep, MemberStepWrites, Zenon
<1>3. ASSUME NEW o \in Org, OrgExists(o), Revised(o, organization[o].policy) \/ Revised(o, organization[o].policy + 1)
      PROVE  Published'
  <2>1. organization[o].policy \in Nat /\ organization[o].policy >= 1
    BY <1>3, Zenon DEF Published, OrgExists, OrgRows, OrgRow
  <2>2. organization'[o].policy >= 1 /\ \A p \in Org \ {o} : organization'[p] = organization[p]
    BY <1>3, <2>1 DEF Revised, Others
  <2> QED BY <2>2, Zenon DEF Published, OrgStatus
<1>4. CASE RowStep
  BY <1>3, <1>4, RevisingSteps, PublishRevises, RevisedExist, Zenon DEF RowStep
<1>5. ASSUME NEW u \in User, NEW o \in Org, NEW k, NEW t \in User, Dissolve(u, o, k) \/ TransferOwner(u, o, t, k)
      PROVE  Published'
  BY <1>3, <1>5, RevisingSteps, RevisedExist, Zenon
<1>6. ASSUME NEW u \in User, NEW o \in Org, NEW k, OrgCreate(u, o, k) PROVE Published'
  <2>1. organization' = [organization EXCEPT ![o] = [status |-> "active", revision |-> 1, policy |-> 1]]
    BY <1>6, Zenon DEF OrgCreate, create
  <2>2. organization'[o].policy = 1 /\ \A p \in Org \ {o} : organization'[p] = organization[p]
    BY <2>1, Zenon DEF OrgRows
  <2> QED BY <2>2 DEF Published, OrgStatus
<1>7. \A u : RequestDeletion(u) \/ FinalizeDeletion(u) \/ StatusStep(u) => UNCHANGED organization
  BY Zenon DEF RequestDeletion, FinalizeDeletion, EraseFromOrganizations, StatusStep, orgOwn
<1>8. UNCHANGED tenancyVars => UNCHANGED organization
  BY Zenon DEF tenancyVars, orgVars
<1> QED BY <1>1, <1>2, <1>4, <1>5, <1>6, <1>7, <1>8, TenancySteps, ZenonT(40)

\* A record of a dissolution outlives the organization; no other does.  What a
\* record names is there: the policy it published, the invitation it created.
Sent(i) == orgInvitation[i].status \notin {"none", "deleted"}
Answers(r) ==
    /\ r.actor \in User /\ r.org \in Org
    /\ r.op = "dissolve" => r.about = r.org /\ OrgStatus(r.org) = "dissolved"
    /\ r.op # "dissolve" => OrgExists(r.org)
    /\ r.op = "policy" => <<r.org, r.about>> \in snapshots
    /\ r.op = "invite" => r.about \in OrgInvitation /\ orgInvitation[r.about].org = r.org /\ Sent(r.about)
Answerable == \A r \in orgRecord : Answers(r)

\* Policies stay published, and invitations stay with their organization.
Trail ==
    /\ snapshots \subseteq snapshots'
    /\ \A i \in OrgInvitation : Sent(i) => Sent(i)' /\ orgInvitation'[i].org = orgInvitation[i].org

\* No organization ends, and none comes back.
Lives ==
    \A o \in Org : /\ OrgExists(o) => OrgExists(o)'
                   /\ OrgStatus(o) = "dissolved" => organization'[o].status = "dissolved"

LEMMA OrgLives ==
    ASSUME OrgRows, [TenancyNext]_tenancyVars, \A u \in User, o \in Org : \A k : ~Dissolve(u, o, k)
    PROVE  Lives
<1>1. UNCHANGED organization => Lives
  BY Zenon DEF Lives, OrgExists, OrgStatus
<1>2. CASE Aside \/ DepartmentStep \/ MemberStep
  BY <1>1, <1>2, AsideKeeps, DepartmentsKeep, MemberStepWrites, ZenonT(40)
<1>3. CASE RowStep
  <2>1. PICK o \in Org : /\ OrgExists(o) /\ OrgExists(o)'
                         /\ \A p \in Org \ {o} : organization'[p] = organization[p]
    BY <1>3, RowStepLives, Zenon
  <2> QED BY <2>1, Zenon DEF Lives, OrgExists, OrgStatus
<1>4. ASSUME NEW u, NEW o \in Org, NEW k, OrgCreate(u, o, k) PROVE Lives
  <2>1. PICK row : OrgStatus(o) = "none" /\ organization' = [organization EXCEPT ![o] = row]
    BY <1>4, Zenon DEF OrgCreate, create
  <2>2. \A p \in Org \ {o} : organization'[p] = organization[p]
    BY <2>1, Zenon DEF OrgRows
  <2> QED BY <2>1, <2>2, Zenon DEF Lives, OrgExists, OrgStatus
<1>5. ASSUME NEW u, NEW o \in Org, NEW t, NEW k, TransferOwner(u, o, t, k) PROVE Lives
  <2>1. Bump(o)
    BY <1>5, Zenon DEF TransferOwner, transferOwner
  <2>2. \A p \in Org : organization'[p].status = organization[p].status
    BY <2>1, Zenon DEF Bump, OrgRows, OrgRow
  <2> QED BY <2>2, Zenon DEF Lives, OrgExists, OrgStatus
<1>6. \A u : RequestDeletion(u) \/ FinalizeDeletion(u) \/ StatusStep(u) => UNCHANGED organization
  BY Zenon DEF RequestDeletion, FinalizeDeletion, EraseFromOrganizations, StatusStep, orgOwn
<1>7. UNCHANGED tenancyVars => UNCHANGED organization
  BY Zenon DEF tenancyVars, orgVars
<1> QED BY <1>1, <1>2, <1>3, <1>4, <1>5, <1>6, <1>7, TenancySteps, ZenonT(40)

LEMMA OrgTrail ==
    ASSUME OrgInviteInv, [TenancyNext]_tenancyVars, \A u \in User, o \in Org : \A k : ~Dissolve(u, o, k)
    PROVE  Trail
<1>1. ASSUME UNCHANGED orgInvitation, snapshots \subseteq snapshots' PROVE Trail
  BY <1>1, Zenon DEF Trail, Sent
<1>2. ASSUME NEW S, NEW s \in {"accepted", "revoked", "expired"}, SettleInvitations(S, s), UNCHANGED snapshots PROVE Trail
  <2>0. s \in {"accepted", "revoked", "expired", "deleted"}
    BY <1>2, Zenon
  <2>1. \A i \in OrgInvitation : LET row == [orgInvitation[i] EXCEPT !.status = s]
                                 IN  row.status = s /\ row.org = orgInvitation[i].org
    BY <2>0, OrgStatusSet, Zenon DEF OrgInviteInv
  <2>2. \A i \in OrgInvitation : \/ orgInvitation'[i].status = s /\ orgInvitation'[i].org = orgInvitation[i].org
                                 \/ orgInvitation'[i] = orgInvitation[i]
    BY <1>2, <2>1, Zenon DEF SettleInvitations
  <2> QED BY <1>2, <2>2, Zenon DEF Trail, Sent
<1>3. ASSUME NEW u, NEW o, NEW t, NEW role, NEW d, NEW name, NEW new, NEW k,
             \/ OrgLeave(u, o) \/ OrgRemoveMember(u, o, t) \/ PatchMember(u, o, t, role, d) \/ OrgRename(u, o)
             \/ CreateDepartment(u, o, d, name) \/ RenameDepartment(u, o, d, name)
             \/ ArchiveOrRestoreDepartment(u, o, d, new) \/ OrgRestore(u, o, k) \/ TransferOwner(u, o, t, k) \/ Stock(o)
      PROVE  UNCHANGED <<orgInvitation, snapshots>>
  BY <1>3, Zenon DEF OrgLeave, leave, OrgRemoveMember, removeMember, PatchMember, patchMember, OrgRename, rename,
     CreateDepartment, createDepartment, RenameDepartment, renameDepartment, ArchiveOrRestoreDepartment,
     changeDepartmentLifecycle, OrgRestore, restore, TransferOwner, transferOwner, Stock
<1>4. ASSUME NEW u, NEW o, NEW i, NEW k,
             OrgRevokeInvitation(u, o, i) \/ OrgAcceptInvitation(u, i, k) \/ OrgArchive(u, o, k) \/ cleanupExpiredRows
      PROVE  Trail
  <2>1. UNCHANGED snapshots /\ \E S : \/ SettleInvitations(S, "accepted") \/ SettleInvitations(S, "revoked")
                                      \/ SettleInvitations(S, "expired")
    BY <1>4, Zenon DEF OrgRevokeInvitation, revokeInvitation, OrgAcceptInvitation, acceptInvitation, OrgArchive, archive,
                       cleanupExpiredRows, expireOrganizationRows
  <2> QED BY <1>2, <2>1, Zenon
<1>5. ASSUME NEW u, NEW o, NEW k, OrgCreate(u, o, k) \/ PublishPolicy(u, o, k) PROVE Trail
  <2>1. UNCHANGED orgInvitation /\ \E x : snapshots' = snapshots \cup {x}
    BY <1>5, Zenon DEF OrgCreate, create, PublishPolicy, publishPolicy
  <2> QED BY <1>1, <2>1, Zenon
<1>6. ASSUME NEW u, NEW o, NEW k, OrgCreateInvitation(u, o, k) PROVE Trail
  <2>1. PICK i \in OrgInvitation : createInvitation(u, o, i, k)
    BY <1>6, Zenon DEF OrgCreateInvitation
  <2>2. \A j \in OrgInvitation : LET row == [orgInvitation[j] EXCEPT !.status = "expired"]
                                 IN  row.status = "expired" /\ row.org = orgInvitation[j].org
    BY OrgStatusSet, Zenon DEF OrgInviteInv
  <2>3. PICK overdue, new : /\ orgInvitation' = [j \in OrgInvitation |->
                                  IF j = i THEN new
                                  ELSE IF j \in overdue THEN [orgInvitation[j] EXCEPT !.status = "expired"]
                                  ELSE orgInvitation[j]]
                            /\ orgInvitation[i].status = "none" /\ UNCHANGED snapshots
    BY <2>1, Zenon DEF createInvitation
  <2>4. \A j \in OrgInvitation :
            \/ orgInvitation[j].status = "none"
            \/ orgInvitation'[j].status = "expired" /\ orgInvitation'[j].org = orgInvitation[j].org
            \/ orgInvitation'[j] = orgInvitation[j]
    BY <2>2, <2>3, Zenon
  <2> QED BY <2>3, <2>4, Zenon DEF Trail, Sent
<1>7. ASSUME NEW i \in OrgInvitation, OrgLapse(i) PROVE Trail
  <2> DEFINE row == [orgInvitation[i] EXCEPT !.lapsed = TRUE]
  <2>1. row.status = orgInvitation[i].status /\ row.org = orgInvitation[i].org
    BY Zenon DEF OrgInviteInv, OrgInviteRow
  <2>2. orgInvitation' = [orgInvitation EXCEPT ![i] = row] /\ UNCHANGED snapshots
    BY <1>7, Zenon DEF OrgLapse
  <2> HIDE DEF row
  <2>3. \A j \in OrgInvitation : orgInvitation'[j] = IF j = i THEN row ELSE orgInvitation[j]
    BY <2>2, Zenon DEF OrgInviteInv
  <2> QED BY <2>1, <2>2, <2>3, Zenon DEF Trail, Sent
<1>8. UNCHANGED <<orgInvitation, snapshots>> => Trail
  BY <1>1, Zenon
<1>9. \A u \in User, o \in Org : OrgMemberStep(u, o) => Trail
  BY <1>3, <1>4, <1>8, Zenon DEF OrgMemberStep
<1>10. \A u \in User, o \in Org : \A k : OrgKeyedStep(u, o, k) => Trail
  BY <1>3, <1>4, <1>5, <1>6, <1>8, Zenon DEF OrgKeyedStep
<1>11. OrgNext => Trail
  BY <1>3, <1>4, <1>7, <1>8, <1>9, <1>10, Zenon DEF OrgNext
<1>12. UNCHANGED orgOwn \/ UNCHANGED tenancyVars => UNCHANGED <<orgInvitation, snapshots>>
  BY Zenon DEF orgOwn, tenancyVars, orgVars
<1>13. \A u : RequestDeletion(u) \/ FinalizeDeletion(u) \/ StatusStep(u) => UNCHANGED <<orgInvitation, snapshots>>
  BY <1>12, Zenon DEF RequestDeletion, FinalizeDeletion, EraseFromOrganizations, StatusStep
<1> QED BY <1>4, <1>8, <1>11, <1>12, <1>13, Zenon DEF TenancyNext

LEMMA AnswersLast ==
    ASSUME Lives, Trail, NEW r, Answers(r)
    PROVE  Answers(r)'
<1>1. /\ r.org \in Org /\ OrgExists(r.org) => OrgExists(r.org)'
      /\ OrgStatus(r.org) = "dissolved" => OrgStatus(r.org)' = "dissolved"
  BY Zenon DEF Answers, Lives, OrgStatus
<1>2. r.op = "policy" => <<r.org, r.about>> \in snapshots'
  BY Zenon DEF Answers, Trail
<1>3. r.op = "invite" => r.about \in OrgInvitation /\ orgInvitation'[r.about].org = r.org /\ Sent(r.about)'
  BY Zenon DEF Answers, Trail
<1> QED BY <1>1, <1>2, <1>3, ZenonT(40) DEF Answers

LEMMA FewerRecords ==
    ASSUME Answerable, Lives, Trail, orgRecord' \subseteq orgRecord
    PROVE  Answerable'
BY AnswersLast, Zenon DEF Answerable

LEMMA RecordAnswerable ==
    ASSUME Answerable, Lives, Trail, NEW u \in User, NEW op, NEW k, NEW o \in Org, NEW about,
           insertOrganizationIdempotency(u, op, k, o, about), op # "dissolve", OrgExists(o)',
           op = "policy" => <<o, about>> \in snapshots',
           op = "invite" => about \in OrgInvitation /\ orgInvitation'[about].org = o /\ Sent(about)'
    PROVE  Answerable'
<1> DEFINE row == OrgRecordRow(u, op, k, o, about)
<1>1. row.actor = u /\ row.org = o /\ row.op = op /\ row.about = about /\ orgRecord' = orgRecord \cup {row}
  BY Zenon DEF OrgRecordRow, insertOrganizationIdempotency
<1> HIDE DEF row
<1>2. Answers(row)'
  BY <1>1, ZenonT(40) DEF Answers
<1> QED BY <1>1, <1>2, AnswersLast, Zenon DEF Answerable

LEMMA NextAnswerable == OwnershipInv /\ OrgInviteInv /\ Answerable /\ [TenancyNext]_tenancyVars => Answerable'
<1> SUFFICES ASSUME OwnershipInv, OrgInviteInv, Answerable, [TenancyNext]_tenancyVars PROVE Answerable'
  BY Zenon
<1>0. OrgRows
  BY Zenon DEF OwnershipInv
<1>1. ASSUME NEW u \in User, NEW o \in Org, NEW k, Dissolve(u, o, k) PROVE Answerable'
  <2> DEFINE row == OrgRecordRow(u, "dissolve", k, o, o)
  <2>1. /\ organization' = [organization EXCEPT ![o].status = "dissolved", ![o].revision = @ + 1]
        /\ orgRecord' = {r \in orgRecord : r.org # o} \cup {row} /\ UNCHANGED snapshots
    BY <1>1, Zenon DEF Dissolve, dissolve
  <2>2. row.actor = u /\ row.org = o /\ row.op = "dissolve" /\ row.about = o
    BY Zenon DEF OrgRecordRow
  <2>3. organization'[o].status = "dissolved" /\ \A p \in Org \ {o} : organization'[p] = organization[p]
    BY <1>0, <2>1, Zenon DEF OrgRows, OrgRow
  <2>4. \A i \in OrgInvitation : orgInvitation[i].org # o => orgInvitation'[i] = orgInvitation[i]
    BY <1>1, Zenon DEF Dissolve, dissolve, SettleInvitations
  <2> HIDE DEF row
  <2>5. Answers(row)'
    BY <2>2, <2>3, Zenon DEF Answers, OrgStatus
  <2>6. ASSUME NEW r \in orgRecord, r.org # o PROVE Answers(r)'
    <3>1. Answers(r) /\ r.org \in Org \ {o}
      BY <2>6, Zenon DEF Answerable, Answers
    <3>2. organization'[r.org] = organization[r.org]
      BY <2>3, <3>1, Zenon
    <3>3. r.op = "invite" => r.about \in OrgInvitation /\ orgInvitation'[r.about].org = r.org /\ Sent(r.about)'
      BY <2>4, <3>1, Zenon DEF Answers, Sent
    <3> QED BY <2>1, <3>1, <3>2, <3>3, ZenonT(40) DEF Answers, OrgStatus, OrgExists
  <2> QED BY <2>1, <2>5, <2>6, Zenon DEF Answerable
<1>2. CASE \A u \in User, o \in Org : \A k : ~Dissolve(u, o, k)
  <2>0. Lives /\ Trail
    BY <1>0, <1>2, OrgLives, OrgTrail, Zenon
  <2>1. UNCHANGED orgRecord => Answerable'
    BY <2>0, FewerRecords, Zenon
  <2>2. ASSUME NEW u, NEW o, OrgMemberStep(u, o) PROVE Answerable'
    BY <2>1, <2>2, MemberStepsUnrecorded, Zenon
  <2>3. ASSUME NEW u \in User, NEW o \in Org, NEW k, NEW t,
               OrgArchive(u, o, k) \/ OrgRestore(u, o, k) \/ TransferOwner(u, o, t, k)
        PROVE  Answerable'
    <3>1. \E op \in {"archive", "restore", "transfer"} : insertOrganizationIdempotency(u, op, k, o, o)
      BY <2>3, Zenon DEF OrgArchive, archive, OrgRestore, restore, TransferOwner, transferOwner
    <3>2. OrgExists(o)'
      BY <2>0, <2>3, RevisedExist, ZenonT(40) DEF Lives
    <3> QED BY <2>0, <3>1, <3>2, RecordAnswerable, Zenon
  <2>13. ASSUME NEW u \in User, NEW o \in Org, NEW k, PublishPolicy(u, o, k) PROVE Answerable'
    <3>1. PICK v : insertOrganizationIdempotency(u, "policy", k, o, v) /\ <<o, v>> \in snapshots'
      BY <2>13, Zenon DEF PublishPolicy, publishPolicy
    <3>2. OrgExists(o)'
      BY <2>0, <2>13, RevisedExist, ZenonT(40) DEF Lives
    <3> QED BY <2>0, <3>1, <3>2, RecordAnswerable, Zenon
  <2>4. ASSUME NEW u \in User, NEW o \in Org, NEW k, OrgCreate(u, o, k) PROVE Answerable'
    <3>1. /\ organization' = [organization EXCEPT ![o] = [status |-> "active", revision |-> 1, policy |-> 1]]
          /\ insertOrganizationIdempotency(u, "create", k, o, o)
      BY <2>4, Zenon DEF OrgCreate, create
    <3>2. OrgExists(o)'
      BY <1>0, <3>1, Zenon DEF OrgRows, OrgExists, OrgStatus
    <3> QED BY <2>0, <3>1, <3>2, RecordAnswerable, Zenon
  <2>5. ASSUME NEW u \in User, NEW o \in Org, NEW k, OrgCreateInvitation(u, o, k) PROVE Answerable'
    <3> DEFINE new == [org |-> o, status |-> "pending", lapsed |-> FALSE]
    <3>1. PICK i \in OrgInvitation :
              /\ OrgExists(o) /\ insertOrganizationIdempotency(u, "invite", k, o, i) /\ orgInvitation'[i] = new
      BY <2>5, Zenon DEF OrgCreateInvitation, createInvitation, requireActiveOrganizationMutation, Locked
    <3>4. new.org = o /\ new.status = "pending"
      BY Zenon
    <3> HIDE DEF new
    <3>2. orgInvitation'[i].org = o /\ Sent(i)'
      BY <3>1, <3>4, Zenon DEF Sent
    <3>3. OrgExists(o)'
      BY <2>0, <3>1, ZenonT(40) DEF Lives
    <3> QED BY <2>0, <3>1, <3>2, <3>3, RecordAnswerable, Zenon
  <2>6. ASSUME NEW u \in User, NEW i \in OrgInvitation, NEW k, OrgAcceptInvitation(u, i, k) PROVE Answerable'
    <3>1. PICK o : o = orgInvitation[i].org /\ Open(i) /\ insertOrganizationIdempotency(u, "accept", k, o, u)
      BY <2>6, Zenon DEF OrgAcceptInvitation, acceptInvitation
    <3>2. o \in Org /\ OrgExists(o)
      BY <3>1, Zenon DEF Open, OrgInviteInv, OrgExists
    <3>3. OrgExists(o)'
      BY <2>0, <3>2, Zenon DEF Lives
    <3> QED BY <2>0, <3>1, <3>2, <3>3, RecordAnswerable, Zenon
  <2>7. \A o, i : Stock(o) \/ OrgLapse(i) => UNCHANGED orgRecord
    BY Zenon DEF Stock, OrgLapse
  <2>8. ASSUME NEW u \in User, NEW o \in Org, NEW k, OrgKeyedStep(u, o, k) PROVE Answerable'
    BY <1>2, <2>3, <2>4, <2>5, <2>8, <2>13, Zenon DEF OrgKeyedStep
  <2>9. CASE OrgNext
    BY <2>1, <2>2, <2>6, <2>7, <2>8, <2>9, Zenon DEF OrgNext
  <2>10. cleanupExpiredRows => orgRecord' \subseteq orgRecord
    BY Zenon DEF cleanupExpiredRows, expireOrganizationRows
  <2>11. \A u : RequestDeletion(u) \/ FinalizeDeletion(u) \/ StatusStep(u) => orgRecord' \subseteq orgRecord
    BY Zenon DEF RequestDeletion, FinalizeDeletion, EraseFromOrganizations, StatusStep, orgOwn
  <2>12. UNCHANGED orgOwn \/ UNCHANGED tenancyVars => UNCHANGED orgRecord
    BY ZenonT(40) DEF orgOwn, tenancyVars, orgVars
  <2> QED BY <2>0, <2>1, <2>9, <2>10, <2>11, <2>12, FewerRecords, ZenonT(40) DEF TenancyNext
<1> QED BY <1>1, <1>2, Zenon

-----------------------------------------------------------------------------

LEMMA OrgReads ==
    ASSUME Counting, LimitInv, History, Published
    PROVE  OrgReadsAgree
<1> SUFFICES ASSUME NEW u \in User, NEW o \in Org, RoleIn(o, u) # "none"
             PROVE  \E s \in ListForActor(u) :
            /\ s.org = o /\ s.members = Cardinality(OrgListMembers(u, o))
            /\ s.departments = Cardinality({d \in ListDepartments(u, o) : d.status = "active"})
            /\ CurrentPolicy(u, o) = {s.policy}
            /\ FullReader(u, o) => s.policy = Max(ListPolicySnapshots(u, o))
            /\ \A v \in ListPolicySnapshots(u, o) : GetPolicySnapshot(u, o, v) # {}
            /\ \A m \in OrgListMembers(u, o) : m.row.department # NoDepartment =>
                   \E d \in ListDepartments(u, o) : d.id = m.row.department /\ d.members > 0
            /\ \A i \in listInvitations(u, o) : i.status = "pending" => Open(i.id)
  BY Zenon DEF OrgReadsAgree
<1> DEFINE pol == organization[o].policy
           s == [org |-> o, role |-> RoleIn(o, u), members |-> Cardinality(MembersOf(o)),
                 departments |-> Cardinality(ActiveDepartments(o)), policy |-> pol]
<1>1. OrgExists(o) /\ requireOrganizationMembership(u, o)
  BY DEF LimitInv, OwnershipInv, Owned, RoleIn, NoMember, requireOrganizationMembership
<1>2. /\ pol \in Nat /\ pol >= 1 /\ pol <= OrgMaxRevision /\ OrgMaxRevision \in Nat
      /\ \A v \in 1..OrgMaxRevision : <<o, v>> \in snapshots <=> v <= pol
  <2>1. pol \in Nat /\ organization[o].revision \in Nat /\ OrgMaxRevision \in Nat
    BY OrganizationParameters, Zenon DEF LimitInv, OwnershipInv, OrgRows, OrgRow
  <2>2. pol <= organization[o].revision /\ organization[o].revision <= OrgMaxRevision
    BY Zenon DEF History
  <2>3. pol >= 1
    BY <1>1, Zenon DEF Published, OrgExists
  <2> QED BY <2>1, <2>2, <2>3 DEF History
<1>3. pol \in 1..OrgMaxRevision /\ <<o, pol>> \in snapshots
  BY <1>2
<1>4. /\ s.org = o /\ s.members = Cardinality(MembersOf(o))
      /\ s.departments = Cardinality(ActiveDepartments(o)) /\ s.policy = pol
  BY Zenon
<1>5. s \in ListForActor(u)
  <2>1. Cardinality(MembersOf(o)) >= 1
    <3>1. u \in MembersOf(o) /\ IsFiniteSet(MembersOf(o))
      BY FiniteOrg, Zenon DEF MembersOf
    <3> QED BY <3>1, NotNone, Zenon
  <2>2. pol > 0
    BY <1>2
  <2>3. s \in Summary(u, o)
    BY <1>1, <1>3, <1>4, <2>1, <2>2, Zenon DEF Summary
  <2> HIDE DEF s
  <2> QED BY <2>3, Zenon DEF ListForActor
<1> HIDE DEF s
<1>6. Cardinality(OrgListMembers(u, o)) = Cardinality(MembersOf(o))
  <2> DEFINE f == [t \in MembersOf(o) |-> [user |-> t, row |-> orgMember[o][t]]]
  <2>1. OrgListMembers(u, o) = {f[t] : t \in MembersOf(o)}
    BY <1>1, Zenon DEF OrgListMembers, MembersOf
  <2>2. \A t, x \in MembersOf(o) : f[t] = f[x] => t = x
    BY Zenon
  <2> HIDE DEF f
  <2> QED BY <2>1, <2>2, SameCount, FiniteOrg
<1>7. Cardinality({d \in ListDepartments(u, o) : d.status = "active"}) = Cardinality(ActiveDepartments(o))
  <2> DEFINE n(d) == Cardinality({t \in User : orgMember[o][t].department = d})
             r(d) == [id |-> d, status |-> department[o][d].status, members |-> n(d)]
             f == [d \in ActiveDepartments(o) |-> r(d)]
  <2>0. ListDepartments(u, o) = {r(d) : d \in {d \in Department : department[o][d].status # "none"}}
    BY <1>1, Zenon DEF ListDepartments
  <2> HIDE DEF n
  <2>3. \A d : r(d).status = department[o][d].status /\ r(d).id = d
    BY Zenon
  <2> HIDE DEF r
  <2>1. {d \in ListDepartments(u, o) : d.status = "active"} = {f[d] : d \in ActiveDepartments(o)}
    <3> DEFINE D == {d \in Department : department[o][d].status # "none"}
    <3>1. \A d \in ActiveDepartments(o) : f[d] = r(d)
      BY Zenon
    <3>2. \A d : d \in ActiveDepartments(o) <=> d \in D /\ r(d).status = "active"
      BY <2>3, Zenon DEF ActiveDepartments
    <3> HIDE DEF f, D
    <3>3. ListDepartments(u, o) = {r(d) : d \in D}
      BY <2>0, Zenon DEF D
    <3> QED BY <3>1, <3>2, <3>3, Zenon
  <2>2. \A d, e \in ActiveDepartments(o) : f[d] = f[e] => d = e
    BY <2>3
  <2> HIDE DEF f
  <2> QED BY <2>1, <2>2, SameCount, FiniteOrg
<1>8. CurrentPolicy(u, o) = {pol}
  BY <1>1, <1>3, Zenon DEF CurrentPolicy
<1>9. FullReader(u, o) => pol = Max(ListPolicySnapshots(u, o))
  <2> SUFFICES ASSUME FullReader(u, o) PROVE pol = Max(ListPolicySnapshots(u, o))
    BY Zenon
  <2>1. \A v : v \in ListPolicySnapshots(u, o) <=> v \in 1..pol
    BY <1>2 DEF ListPolicySnapshots
  <2>2. ListPolicySnapshots(u, o) = 1..pol
    BY <2>1, Zenon
  <2>3. Max(1..pol) \in 1..pol /\ \A y \in 1..pol : Max(1..pol) >= y
    <3>1. pol \in 1..pol /\ \A y \in 1..pol : pol >= y
      BY <1>2
    <3> QED BY <3>1, Zenon DEF Max
  <2> QED BY <1>2, <2>2, <2>3
<1>10. \A v \in ListPolicySnapshots(u, o) : GetPolicySnapshot(u, o, v) # {}
  BY Zenon DEF ListPolicySnapshots, GetPolicySnapshot
<1>11. ASSUME NEW m \in OrgListMembers(u, o), m.row.department # NoDepartment
       PROVE  \E d \in ListDepartments(u, o) : d.id = m.row.department /\ d.members > 0
  <2>1. PICK t \in User : m = [user |-> t, row |-> orgMember[o][t]]
    BY Zenon DEF OrgListMembers
  <2> DEFINE d == orgMember[o][t].department
             S == {x \in User : orgMember[o][x].department = d}
             e == [id |-> d, status |-> department[o][d].status, members |-> Cardinality(S)]
  <2>2. d \in ActiveDepartments(o)
    BY <1>11, <2>1, Zenon DEF LimitInv, DeptInv, DepartmentsConsistent
  <2>3. Cardinality(S) > 0
    <3>1. t \in S /\ S \in SUBSET User
      BY Zenon
    <3> HIDE DEF S
    <3>2. IsFiniteSet(S)
      BY <3>1, PartsFinite, OrganizationParameters, Zenon
    <3>3. Cardinality(S) \in Nat /\ Cardinality(S) >= 1
      BY <3>1, <3>2, NotNone, ZenonT(40)
    <3> QED BY <3>3
  <2>4. e \in ListDepartments(u, o)
    BY <1>1, <2>2, Zenon DEF ListDepartments, ActiveDepartments
  <2>5. e.id = m.row.department /\ e.members = Cardinality(S)
    BY <2>1, Zenon
  <2> HIDE DEF e, S
  <2> QED BY <2>3, <2>4, <2>5, Zenon
<1>12. \A i \in listInvitations(u, o) : i.status = "pending" => Open(i.id)
  <2> SUFFICES ASSUME NEW i \in OrgInvitation, scanOrganizationInvitation(i) = "pending" PROVE Open(i)
    BY DEF listInvitations
  <2> QED BY Zenon DEF scanOrganizationInvitation, Open, LimitInv, OrgInviteInv
<1> QED BY <1>4, <1>5, <1>6, <1>7, <1>8, <1>9, <1>10, <1>11, <1>12, ZenonT(40)

LEMMA WsReads ==
    ASSUME Counting, SeatInv, InviteInv
    PROVE  WsReadsAgree
<1> SUFFICES ASSUME NEW u \in User, NEW w \in WorkspaceId, ActiveActor(u), Role(w, u) # "none"
             PROVE  \E row \in ListWorkspaces(u) :
            /\ row.ws = w /\ row.role = Role(w, u)
            /\ row.count = Cardinality(ListMembers(u, w))
            /\ Cardinality({m \in ListMembers(u, w) : m.role = "owner"}) = 1
            /\ \A i \in ListInvitations(u, w) : i.status = "pending" /\ row.state = "writable" =>
                   Acceptable(i.id)
  BY Zenon DEF WsReadsAgree
<1>1. \A v \in WorkspaceId : Exists(v) => OwnerMatches(v)
  BY Zenon DEF SeatInv, Seated, OwnerMatches
<1>2. Exists(w) /\ Loaded(u, w)
  <2>1. Exists(w)
    BY NoSeat, Zenon DEF SeatInv, Seated, Role
  <2> QED BY <1>1, <2>1, Zenon DEF Loaded
<1> DEFINE Line(v) == [ws |-> v, role |-> Role(v, u), count |-> Cardinality(Members(v)), state |-> MutationState(v)]
           row == Line(w)
<1>3. row \in ListWorkspaces(u)
  <2> DEFINE joined == {v \in WorkspaceId : Exists(v) /\ Role(v, u) # "none"}
  <2>1. joined = {v \in joined : Loaded(u, v)} /\ w \in joined
    BY <1>1, <1>2, Zenon DEF Loaded
  <2>2. ListWorkspaces(u) = IF ActiveActor(u) /\ joined = {v \in joined : Loaded(u, v)} THEN {Line(v) : v \in joined} ELSE {}
    BY Zenon DEF ListWorkspaces
  <2> HIDE DEF Line, joined
  <2> QED BY <2>1, <2>2, Zenon
<1>4. /\ row.ws = w /\ row.role = Role(w, u) /\ row.count = Cardinality(Members(w))
      /\ row.state = MutationState(w)
  BY Zenon
<1> HIDE DEF row
<1> DEFINE f == [t \in Members(w) |-> [user |-> t, role |-> Role(w, t)]]
<1>5. ListMembers(u, w) = {f[t] : t \in Members(w)}
  BY <1>2 DEF ListMembers, findMember, Members
<1>6. Cardinality(ListMembers(u, w)) = Cardinality(Members(w))
  <2>1. \A t, x \in Members(w) : f[t] = f[x] => t = x
    BY Zenon
  <2> HIDE DEF f
  <2> QED BY <1>5, <2>1, SameCount, FiniteWs
<1>7. Cardinality({m \in ListMembers(u, w) : m.role = "owner"}) = 1
  <2> DEFINE x == workspace[w].owner
  <2>1. x \in User /\ \A t \in User : Role(w, t) = "owner" <=> t = x
    BY <1>2, Zenon DEF SeatInv, Seated
  <2>3. \A t \in Members(w) : f[t].role = Role(w, t)
    BY Zenon
  <2>4. x \in Members(w) /\ \A t \in Members(w) : t \in User
    BY <2>1, Zenon DEF Members
  <2> HIDE DEF f, x
  <2>2. {m \in ListMembers(u, w) : m.role = "owner"} = {f[x]}
    BY <1>5, <2>1, <2>3, <2>4, Zenon
  <2> QED BY <2>2, OneCounted, Zenon
<1>8. \A i \in ListInvitations(u, w) : i.status = "pending" /\ row.state = "writable" => Acceptable(i.id)
  <2> SUFFICES ASSUME NEW i \in WsInvitation, wsInvitation[i].ws = w, scanInvitation(i) = "pending",
                      MutationState(w) = "writable"
               PROVE  Acceptable(i)
    BY <1>4 DEF ListInvitations
  <2>1. wsInvitation[i].status = "pending" /\ ~wsInvitation[i].lapsed
    BY Zenon DEF scanInvitation
  <2>2. workspace[w].status = "active"
    BY <2>1, Zenon DEF InviteInv
  <2> QED BY <1>1, <1>2, <2>1, <2>2, Zenon DEF Acceptable
<1> QED BY <1>3, <1>4, <1>6, <1>7, <1>8, Zenon

LEMMA WsRetries ==
    ASSUME SeatInv, RecordInv
    PROVE  WsRetriesAnswered
<1> SUFFICES ASSUME NEW r \in wsRecord
             PROVE  /\ Exists(r.ws)
                    /\ WsReplay(r) = {} => \/ r.op = "accept" /\ Role(r.ws, r.actor) = "none"
                                           \/ r.op = "invite" /\ ~MayInvite(r.actor, r.ws)
  BY Zenon DEF WsRetriesAnswered
<1>1. WsAnswers(r) /\ r.actor \in User /\ r.ws \in WorkspaceId /\ Exists(r.ws)
  BY Zenon DEF RecordInv, WsAnswers
<1>2. Role(r.ws, r.actor) # "none" => Loaded(r.actor, r.ws)
  BY <1>1, Zenon DEF SeatInv, Seated, OwnerMatches, Loaded
<1>3. CASE r.op = "create"
  <2>1. r.about = r.ws /\ workspace[r.ws].owner = r.actor
    BY <1>1, <1>3, Zenon DEF WsAnswers
  <2>2. Role(r.ws, r.actor) = "owner"
    BY <1>1, <2>1, Zenon DEF SeatInv, Seated
  <2>3. Loaded(r.actor, r.about)
    BY <1>2, <2>1, <2>2
  <2>4. WsReplay(r) = {w \in {r.about} : Loaded(r.actor, w)}
    BY <1>3 DEF WsReplay
  <2> QED BY <1>1, <2>3, <2>4, Zenon
<1>4. CASE r.op = "accept"
  <2>1. r.about = r.actor
    BY <1>1, <1>4, Zenon DEF WsAnswers
  <2>2. WsReplay(r) = {m \in findMember(r.ws, r.about) : Loaded(r.actor, r.ws)}
    BY <1>4 DEF WsReplay
  <2>3. Role(r.ws, r.actor) # "none" => findMember(r.ws, r.about) # {}
    <3> DEFINE m == [user |-> r.about, role |-> Role(r.ws, r.about)]
    <3>1. m.role = Role(r.ws, r.about)
      BY Zenon
    <3> QED BY <2>1, <3>1, Zenon DEF findMember
  <2> QED BY <1>1, <1>2, <1>4, <2>2, <2>3, Zenon
<1>5. CASE r.op = "invite"
  <2>1. wsInvitation[r.about].ws = r.ws /\ wsInvitation[r.about].status # "deleted"
    BY <1>1, <1>5, Zenon DEF WsAnswers, WsSent
  <2>2. MayInvite(r.actor, r.ws) => Loaded(r.actor, r.ws)
    BY <1>2 DEF MayInvite, Permitted
  <2>3. WsReplay(r) = {i \in {r.about} : /\ Loaded(r.actor, r.ws) /\ MayInvite(r.actor, r.ws)
                                         /\ wsInvitation[i].ws = r.ws /\ wsInvitation[i].status # "deleted"}
    BY <1>5 DEF WsReplay
  <2> QED BY <1>1, <1>5, <2>1, <2>2, <2>3, Zenon
<1> QED BY <1>1, <1>3, <1>4, <1>5, Zenon DEF WsAnswers

LEMMA OrgRetries ==
    ASSUME LimitInv, History, Published, Answerable, OrgReadsAgree
    PROVE  RetriesAnswered
<1> SUFFICES ASSUME NEW r \in orgRecord
             PROVE  /\ r.op # "dissolve" => OrgExists(r.org)
                    /\ Replayed(r) = {} =>
                          \/ r.op = "policy" /\ ~FullReader(r.actor, r.org)
                          \/ r.op \notin {"policy", "invite", "dissolve"} /\ RoleIn(r.org, r.actor) = "none"
  BY Zenon DEF RetriesAnswered
<1>0. Answers(r)
  BY Zenon DEF Answerable
<1>1. CASE r.op = "dissolve"
  <2> DEFINE o == r.org
  <2>1. o \in Org /\ OrgStatus(o) = "dissolved" /\ r.about = o
    BY <1>0, <1>1, Zenon DEF Answers
  <2>2. organization[o].policy \in Nat /\ organization[o].revision \in Nat /\ OrgMaxRevision \in Nat
    BY <2>1, OrganizationParameters, Zenon DEF LimitInv, OwnershipInv, OrgRows, OrgRow
  <2>3. organization[o].policy >= 1
    BY <2>1, Zenon DEF Published
  <2>4. organization[o].policy <= OrgMaxRevision
    BY <2>1, <2>2 DEF History
  <2>5. <<o, organization[o].policy>> \in snapshots /\ organization[o].policy > 0
    BY <2>1, <2>2, <2>3, <2>4 DEF History
  <2>6. Replayed(r) = DissolvedSummary(o)
    BY <1>1, <2>1 DEF Replayed
  <2> HIDE DEF o
  <2>7. DissolvedSummary(o) # {}
    BY <2>1, <2>5, Zenon DEF DissolvedSummary, OrgStatus
  <2> QED BY <1>1, <2>6, <2>7, Zenon
<1>2. CASE r.op = "policy"
  <2>1. Replayed(r) = GetPolicySnapshot(r.actor, r.org, r.about)
    BY <1>2 DEF Replayed
  <2>2. OrgExists(r.org) /\ <<r.org, r.about>> \in snapshots
    BY <1>0, <1>2 DEF Answers
  <2> QED BY <1>2, <2>1, <2>2, Zenon DEF GetPolicySnapshot
<1>3. CASE r.op = "invite"
  <2>1. Replayed(r) = {i \in {r.about} : orgInvitation[i].org = r.org /\ orgInvitation[i].status # "deleted"}
    BY <1>3 DEF Replayed
  <2>2. OrgExists(r.org) /\ orgInvitation[r.about].org = r.org /\ orgInvitation[r.about].status # "deleted"
    BY <1>0, <1>3 DEF Answers, Sent
  <2> QED BY <2>1, <2>2, Zenon
<1>4. CASE r.op \notin {"policy", "invite", "dissolve"}
  <2>1. Replayed(r) = Summary(r.actor, r.org)
    BY <1>4 DEF Replayed
  <2>2. r.actor \in User /\ r.org \in Org /\ OrgExists(r.org)
    BY <1>0, <1>4, Zenon DEF Answers
  <2>3. ASSUME RoleIn(r.org, r.actor) # "none" PROVE Summary(r.actor, r.org) # {}
    <3>1. PICK s \in ListForActor(r.actor) : s.org = r.org
      BY <2>2, <2>3, Zenon DEF OrgReadsAgree
    <3>2. PICK o \in Org : s \in Summary(r.actor, o)
      BY <3>1, Zenon DEF ListForActor
    <3>3. s.org = o
      BY <3>2 DEF Summary
    <3> QED BY <3>1, <3>2, <3>3, Zenon
  <2> QED BY <1>4, <2>1, <2>2, <2>3, Zenon
<1> QED BY <1>1, <1>2, <1>3, <1>4, Zenon

-----------------------------------------------------------------------------
(* The theorems that count.  The library's facts on finite sets come last:  *)
(* no lemma above has to be searched with them in sight.                    *)

INSTANCE FiniteSetTheorems

LEMMA CountingHolds == Counting
<1>1. \A S : IsFiniteSet(S) => Cardinality(S) \in Nat /\ (Cardinality(S) = 0 <=> S = {})
  BY FS_CardinalityType, FS_EmptySet, Zenon
<1>2. \A S : IsFiniteSet(S) => \A T \in SUBSET S : IsFiniteSet(T) /\ Cardinality(T) <= Cardinality(S)
  BY FS_Subset, Zenon
<1>3. \A S, x : IsFiniteSet(S) =>
          IsFiniteSet(S \cup {x}) /\ Cardinality(S \cup {x}) \in {Cardinality(S), Cardinality(S) + 1}
  BY FS_AddElement, Zenon
<1>4. ASSUME NEW S, IsFiniteSet(S), NEW f PROVE Pictured(S, f)
  <2> SUFFICES ASSUME \A x, y \in S : f[x] = f[y] => x = y
               PROVE  Cardinality({f[x] : x \in S}) = Cardinality(S)
    BY Zenon DEF Pictured
  <2> DEFINE T == {f[x] : x \in S}
             g == [x \in S |-> f[x]]
  <2>1. g \in Surjection(S, T)
    BY Zenon DEF Surjection
  <2>2. g \in Injection(S, T)
    BY Zenon DEF Injection, IsInjective
  <2> HIDE DEF T, g
  <2>3. Cardinality(T) = Cardinality(S)
    BY <1>4, <2>1, <2>2, FS_Surjection, Zenon
  <2> QED BY <2>3, Zenon DEF T
<1>5. Cardinality({}) = 0 /\ \A x : Cardinality({x}) = 1
  BY FS_EmptySet, FS_Singleton, Zenon
<1> QED BY <1>1, <1>2, <1>3, <1>4, <1>5, Zenon DEF Counting

\* An active or archived organization has exactly one owner and a dissolved one
\* no member, whatever transfers, departures, removals and account deletions
\* interleave (transferOwner, removeMember, leave, FinalizeDeletion).
THEOREM OwnerIsUnique == TenancySpec => []OneOwner
<1>1. OwnershipInv => OneOwner
  <2> SUFFICES ASSUME OwnershipInv, NEW o \in Org
               PROVE  IF OrgExists(o) THEN Cardinality(OwnersOf(o)) = 1 ELSE MembersOf(o) = {}
    BY Zenon DEF OneOwner
  <2>1. CASE OrgExists(o)
    <3>1. PICK u \in User : SoleOwner(o, u)
      BY <2>1, Zenon DEF OwnershipInv, Owned
    <3>2. OwnersOf(o) = {u}
      BY <3>1, Zenon DEF SoleOwner, OwnersOf
    <3> QED BY CountingHolds, <2>1, <3>2, OneCounted, Zenon
  <2>2. CASE ~OrgExists(o)
    BY <2>2 DEF OwnershipInv, Owned, MembersOf, RoleIn, NoMember
  <2> QED BY <2>1, <2>2, Zenon
<1> QED BY <1>1, InitOwnership, NextOwnership, PTL DEF TenancySpec

\* An archived workspace keeps its members, whatever its transactions read before
\* of the accounts, a role change or removal meets the role its caller was shown,
\* although the member may have left and come back, and the admins of an
\* organization keep their rank while its owner is away (ChangeMemberRole,
\* RemoveMember, patchMember, removeMember).
THEOREM MembershipsGuarded == TenancySpec => MembershipsAreGuarded
<1> DEFINE Inv == OwnershipInv /\ WsInv
<1>1. TenancyInit => Inv
  BY CountingHolds, InitOwnership, InitWs, Zenon
<1>2. Inv /\ [TenancyNext]_tenancyVars => Inv'
  BY CountingHolds, NextOwnership, NextWs, Zenon
<1>3. Inv /\ [TenancyNext]_tenancyVars => [ArchivedKeepsMembers /\ SeenIsWhatChanges /\ AdminsKeepRank]_tenancyVars
  BY CountingHolds, ArchivedStep, SeenStep, RankStep, Zenon
<1> HIDE DEF Inv
<1> QED BY <1>1, <1>2, <1>3, PTL DEF TenancySpec, MembershipsAreGuarded

LEMMA EraseInvHolds == TenancySpec => []EraseInv
<1>1. TenancyInit => EraseInv
  <2>1. TenancyInit => InTime /\ Gone
    BY Zenon DEF TenancyInit, InTime, Gone
  <2> QED BY CountingHolds, <2>1, InitOwnership, InitWs, Zenon DEF EraseInv
<1>2. EraseInv /\ [TenancyNext]_tenancyVars => EraseInv'
  BY CountingHolds, NextOwnership, NextWs, NextInTime, NextGone, Zenon DEF EraseInv, OwnershipInv
<1> QED BY <1>1, <1>2, PTL DEF TenancySpec

\* An account that asked for its deletion owns no organization, and an erased
\* one is in no workspace and no organization, owns none and has no record left,
\* whatever calls it had authorized before (FinalizeDeletion, transferOwner,
\* AcceptInvitation).
THEOREM AccountsGoWholly == TenancySpec => []AccountsLeaveNothing
<1>1. EraseInv => AccountsLeaveNothing
  <2> SUFFICES ASSUME EraseInv PROVE ErasedLeavesNothing
    BY Zenon DEF EraseInv, OwnershipInv, AccountsLeaveNothing
  <2> SUFFICES ASSUME NEW u \in User, account[u] = "finalized"
               PROVE  /\ \A w \in WorkspaceId : Role(w, u) = "none" /\ ~(Exists(w) /\ workspace[w].owner = u)
                      /\ \A o \in Org : RoleIn(o, u) = "none"
                      /\ \A r \in wsRecord : r.actor # u
                      /\ \A r \in orgRecord : r.actor # u
    BY Zenon DEF ErasedLeavesNothing
  <2>1. /\ \A w \in WorkspaceId : Role(w, u) = "none"
        /\ \A o \in Org : u \notin MembersOf(o)
        /\ \A r \in wsRecord \cup orgRecord : r.actor # u
    BY Zenon DEF EraseInv, Gone
  <2>2. \A w \in WorkspaceId : ~(Exists(w) /\ workspace[w].owner = u)
    BY <2>1, Zenon DEF EraseInv, WsInv, SeatInv, Seated
  <2>3. \A o \in Org : RoleIn(o, u) = "none"
    BY <2>1, Zenon DEF MembersOf
  <2> QED BY <2>1, <2>2, <2>3, Zenon
<1> QED BY <1>1, EraseInvHolds, PTL

\* Whatever calls are in flight, every limit on owned workspaces, members,
\* departments and pending invitations holds, nothing is open in what is not
\* active, and members are assigned to active departments with different names
\* (Create, Restore, AcceptInvitation, CreateInvitation, CreateDepartment,
\* changeDepartmentLifecycle).
THEOREM LimitsAreKept == TenancySpec => []LimitsHold
<1>1. LimitInv => LimitsHold
  <2> SUFFICES ASSUME LimitInv PROVE LimitsHold
    BY Zenon
  <2>1. WsQuotasHold
    BY Zenon DEF LimitInv, WsInv, SeatInv, InviteInv, WsQuotasHold
  <2>2. ArchivedIsClosed
    BY Zenon DEF LimitInv, WsInv, InviteInv, ArchivedIsClosed, WsPending
  <2>3. InvitationsBounded
    BY Zenon DEF LimitInv, OrgInviteInv, InvitationsBounded, OrgPending
  <2>4. DepartmentsConsistent
    BY Zenon DEF LimitInv, DeptInv
  <2> QED BY <2>1, <2>2, <2>3, <2>4, ZenonT(40) DEF LimitsHold
<1>2. (TenancyInit => LimitInv) /\ (LimitInv /\ [TenancyNext]_tenancyVars => LimitInv')
  BY CountingHolds, InitLimits, NextLimits, Zenon
<1> QED BY <1>1, <1>2, PTL DEF TenancySpec

\* Lists, summaries and counts agree with one another, an invitation shown as
\* pending can be accepted, and a repeated command finds what its record names,
\* whatever archived, dissolved or erased something in between, unless its caller
\* lost the membership or the rank that the answer asks for (ListForActor,
\* ListMembers, ListInvitations, commitOrganizationSummaryReplay,
\* readWorkspaceIdempotency).
THEOREM TenancyReadsStay == TenancySpec => []TenancyReadsAgree
<1> DEFINE Inv == LimitInv /\ History /\ Published /\ Answerable /\ RecordInv
<1>1. TenancyInit => Inv
  <2> SUFFICES ASSUME TenancyInit PROVE Inv
    BY Zenon
  <2>1. Published /\ Answerable /\ RecordInv
    BY Zenon DEF TenancyInit, OrgInit, WsInit, Published, Answerable, RecordInv, OrgStatus
  <2> QED BY CountingHolds, <2>1, InitLimits, InitHistory, Zenon DEF PolicyInv
<1>2. Inv /\ [TenancyNext]_tenancyVars => Inv'
  <2> SUFFICES ASSUME Inv, [TenancyNext]_tenancyVars PROVE Inv'
    BY Zenon
  <2>1. OwnershipInv /\ OrgRows /\ OrgInviteInv
    BY Zenon DEF LimitInv, OwnershipInv
  <2>2. LimitInv'
    BY CountingHolds, NextLimits, Zenon
  <2>3. History'
    BY <2>1, NextHistory, Zenon DEF PolicyInv
  <2>4. Published' /\ Answerable'
    BY <2>1, NextPublished, NextAnswerable, Zenon
  <2>5. RecordInv'
    BY CountingHolds, NextRecords, Zenon DEF LimitInv
  <2> QED BY <2>2, <2>3, <2>4, <2>5, Zenon
<1>3. Inv => TenancyReadsAgree
  <2> SUFFICES ASSUME Inv PROVE TenancyReadsAgree
    BY Zenon
  <2>1. WsReadsAgree /\ WsRetriesAnswered
    BY CountingHolds, WsReads, WsRetries, Zenon DEF LimitInv, WsInv
  <2>2. OrgReadsAgree
    BY CountingHolds, OrgReads, Zenon
  <2>3. RetriesAnswered
    BY <2>2, OrgRetries, Zenon
  <2> QED BY <2>1, <2>2, <2>3, Zenon DEF TenancyReadsAgree
<1> HIDE DEF Inv
<1> QED BY <1>1, <1>2, <1>3, PTL DEF TenancySpec
==============================================================================
