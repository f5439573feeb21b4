-------------------------- MODULE MembershipProofs --------------------------
(***************************************************************************)
(* Who belongs to which workspace and project, for any users, projects,    *)
(* roles and templates. First the types; then the safety invariants, which *)
(* are proved together: none of them is kept by every handler without some *)
(* of the others. The inductive invariant is their conjunction, with the   *)
(* one fact below that no property states.                                 *)
(*                                                                         *)
(* Each handler is reduced to what it does to the role, the invitation and *)
(* the assignment of one person in one place (the Effect lemmas).          *)
(*                                                                         *)
(* Then the requests of MembershipRequests, that overlap: what they keep   *)
(* all the same, and that one that nothing overlaps is a handler of        *)
(* Membership.                                                             *)
(*                                                                         *)
(* Last, the handlers of Endpoints, with what they check, publish and      *)
(* mail: they are steps of Membership, so that what is proved of           *)
(* Membership is true of them.                                             *)
(***************************************************************************)
EXTENDS MembershipRequests, Endpoints, FiniteSetTheorems, TLAPS

-----------------------------------------------------------------------------
(* Types.                                                                  *)

LEMMA ConstantFacts ==
    /\ Owner \in Roles /\ DefaultRole \in Roles
    /\ Owner # NoRole /\ DefaultRole # NoRole
    /\ Workspace \in ReferenceObjects /\ Projects \subseteq ReferenceObjects
  BY ConstantsAssumption DEF ReferenceObjects

LEMMA DefaultPermissionsType ==
    /\ DefaultPermissions(WorkspaceRoles) \in [Roles -> SUBSET Permissions]
    /\ DefaultPermissions(ProjectTemplate) \in [Roles -> SUBSET Permissions]
  BY ConstantsAssumption DEF DefaultPermissions, Permissions

InvitationsType == [ReferenceObjects -> [Users -> Invitations \cup {NoInvitation}]]

\* What a pending invitation says.
LEMMA PendingInvitation ==
    ASSUME NEW inv \in InvitationsType, NEW x \in ReferenceObjects, NEW u \in Users,
           IsPending(inv[x][u])
    PROVE  inv[x][u] \in Invitations
  BY DEF InvitationsType, IsPending

LEMMA LinkedInvitationsType ==
    ASSUME TypeOK, NEW u \in Users
    PROVE  LinkedInvitations(u) \in InvitationsType
  <1>1. ASSUME NEW x \in ReferenceObjects, HasInvitation(u, x)
        PROVE  [invitation[x] EXCEPT ![u].linked = TRUE]
                 \in [Users -> Invitations \cup {NoInvitation}]
    <2>1. invitation[x][u] \in Invitations
      BY <1>1 DEF TypeOK, HasInvitation
    <2>2. [invitation[x][u] EXCEPT !.linked = TRUE] \in Invitations
      BY <2>1 DEF Invitations
    <2> QED BY <2>2 DEF TypeOK
  <1> QED BY <1>1 DEF LinkedInvitations, InvitationsType, TypeOK

LEMMA OnAcceptType ==
    ASSUME TypeOK, NEW inv \in InvitationsType,
           NEW x \in ReferenceObjects, NEW u \in Users, CanAccept(inv, x, u)
    PROVE  /\ MemberOnAccept(inv, x, u)
                \in [ReferenceObjects -> [Users -> Roles \cup {NoRole}]]
           /\ InvitationOnAccept(inv, x, u) \in InvitationsType
  <1>1. ASSUME NEW y \in Accepted(inv, x, u)
        PROVE  y \in ReferenceObjects /\ inv[y][u] \in Invitations
    BY <1>1, PendingInvitation, ConstantFacts
       DEF Accepted, AcceptsWorkspace, CanAccept
  <1>2. ASSUME NEW y \in ReferenceObjects
        PROVE  MemberOnAccept(inv, x, u)[y] \in [Users -> Roles \cup {NoRole}]
    BY <1>1, ConstantFacts DEF MemberOnAccept, TypeOK, Invitations
  <1>3. ASSUME NEW y \in Accepted(inv, x, u)
        PROVE  [inv[y] EXCEPT ![u].status = "accepted"]
                 \in [Users -> Invitations \cup {NoInvitation}]
    <2>1. [inv[y][u] EXCEPT !.status = "accepted"] \in Invitations
      BY <1>1, <1>3 DEF Invitations, Statuses
    <2> QED BY <2>1, <1>1, <1>3 DEF InvitationsType
  <1> QED BY <1>1, <1>2, <1>3 DEF MemberOnAccept, InvitationOnAccept,
                                  InvitationsType

-----------------------------------------------------------------------------
(* Types.                                                                  *)

LEMMA SetInvitationType ==
    ASSUME TypeOK, NEW x \in ReferenceObjects, NEW u \in Users,
           NEW inv \in Invitations, SetInvitation(x, u, inv)
    PROVE  invitation' \in InvitationsType
  BY DEF TypeOK, SetInvitation, InvitationsType

LEMMA CascadeType ==
    ASSUME TypeOK, NEW gone, Cascade(gone)
    PROVE  /\ live' \in SUBSET ReferenceObjects
           /\ roles' \in [ReferenceObjects -> SUBSET Roles]
           /\ permissions' \in [ReferenceObjects -> [Roles -> SUBSET Permissions]]
  BY DEF TypeOK, Cascade

LEMMA CreateWithType ==
    ASSUME TypeOK, NEW a \in Users, NEW x \in ReferenceObjects,
           NEW template \in {WorkspaceRoles, ProjectTemplate},
           CreateWith(a, x, template)
    PROVE  TypeOK'
  <1>1. /\ DOMAIN template \subseteq Roles
        /\ DefaultPermissions(template) \in [Roles -> SUBSET Permissions]
    BY ConstantsAssumption, DefaultPermissionsType
  <1> QED BY <1>1, ConstantFacts DEF TypeOK, CreateWith

LEMMA DeleteReferenceObjectType ==
    ASSUME TypeOK, NEW x \in ReferenceObjects, DeleteReferenceObject(x)
    PROVE  TypeOK'
  <1>1. Cascade({x})
    BY DEF DeleteReferenceObject
  <1> QED BY <1>1, CascadeType DEF TypeOK, DeleteReferenceObject

LEMMA InvitationsWithoutType ==
    ASSUME TypeOK, NEW x \in ReferenceObjects, NEW u \in Users
    PROVE  InvitationsWithout(x, u) \in [Users -> Invitations \cup {NoInvitation}]
  BY DEF TypeOK, InvitationsWithout

LEMMA SuccessionType ==
    ASSUME TypeOK, NEW x \in ReferenceObjects, NEW u \in Users, NEW successor
    PROVE  Succession(x, u, successor) \in [Users -> Roles \cup {NoRole}]
  BY ConstantFacts DEF TypeOK, Succession

LEMMA InvitationStepType ==
    ASSUME TypeOK, InvitationStep
    PROVE  TypeOK'
  <1> SUFFICES ASSUME NEW a \in Users, NEW u \in Users, NEW x \in ReferenceObjects,
                      \/ \E role \in Roles : CreateInvitation(a, x, u, role)
                      \/ \E role \in Roles : UpdateInvitation(a, x, u, role)
                      \/ RevokeInvitation(a, x, u)
                      \/ DenyInvitation(u, x)
                      \/ AcceptInvitation(u, x)
               PROVE  TypeOK'
    BY DEF InvitationStep
  <1>1. ASSUME NEW role \in Roles, CreateInvitation(a, x, u, role)
        PROVE  TypeOK'
    <2>1. \E inv \in Invitations : SetInvitation(x, u, inv)
      <3>1. CASE HasInvitation(u, x)
        <4>1. invitation[x][u] \in Invitations
          BY <3>1 DEF TypeOK, HasInvitation
        <4>2. [invitation[x][u] EXCEPT !.status = "pending", !.role = role] \in Invitations
          BY <4>1 DEF Invitations, Statuses
        <4> QED BY <1>1, <3>1, <4>2 DEF CreateInvitation, Invite
      <3>2. CASE ~HasInvitation(u, x)
        <4>1. [status |-> "pending", role |-> role, linked |-> u \in active] \in Invitations
          BY DEF Invitations, Statuses
        <4> QED BY <1>1, <3>2, <4>1 DEF CreateInvitation, Invite
      <3> QED BY <3>1, <3>2
    <2> QED BY <1>1, <2>1, SetInvitationType
            DEF TypeOK, CreateInvitation, Invite, InvitationsType
  <1>2. ASSUME IsPending(invitation[x][u])
        PROVE  /\ \A role \in Roles : [invitation[x][u] EXCEPT !.role = role] \in Invitations
               /\ \A status \in Statuses :
                    [invitation[x][u] EXCEPT !.status = status] \in Invitations
    <2>1. invitation[x][u] \in Invitations
      BY <1>2, PendingInvitation DEF TypeOK, InvitationsType
    <2> QED BY <2>1 DEF Invitations
  <1>3. ASSUME NEW role \in Roles, UpdateInvitation(a, x, u, role)
        PROVE  TypeOK'
    BY <1>2, <1>3, SetInvitationType
       DEF UpdateInvitation, CanModifyInvitation, ChangeInvitedRole,
           ModifyPendingInvitation, TypeOK, InvitationsType
  <1>4. CASE RevokeInvitation(a, x, u)
    BY <1>2, <1>4, SetInvitationType
       DEF RevokeInvitation, CanModifyInvitation, Revoke,
           ModifyPendingInvitation, TypeOK, InvitationsType, Statuses
  <1>5. CASE DenyInvitation(u, x)
    BY <1>2, <1>5, SetInvitationType
       DEF DenyInvitation, Deny, ModifyPendingInvitation, TypeOK,
           InvitationsType, Statuses
  <1>6. CASE AcceptInvitation(u, x)
    BY <1>6, OnAcceptType DEF AcceptInvitation, Accept, TypeOK, InvitationsType
  <1> QED BY <1>1, <1>3, <1>4, <1>5, <1>6

LEMMA MemberStepType ==
    ASSUME TypeOK, MemberStep
    PROVE  TypeOK'
  <1> SUFFICES ASSUME NEW a \in Users, NEW u \in Users,
                 \/ \E x \in ReferenceObjects, role \in Roles :
                      UpdateMembership(a, x, u, role)
                 \/ \E successor \in Users \cup {NoUser} :
                      \/ DeleteWorkspaceMembership(a, u, successor)
                      \/ \E p \in Projects : DeleteProjectMembership(a, p, u, successor)
               PROVE  TypeOK'
    BY DEF MemberStep
  <1>1. ASSUME NEW x \in ReferenceObjects, NEW role \in Roles,
               UpdateMembership(a, x, u, role)
        PROVE  TypeOK'
    BY <1>1 DEF TypeOK, UpdateMembership, ChangeRole
  <1>2. ASSUME NEW successor, DeleteWorkspaceMembership(a, u, successor)
        PROVE  TypeOK'
    <2>1. member' \in [ReferenceObjects -> [Users -> Roles \cup {NoRole}]]
      BY <1>2, SuccessionType, ConstantFacts DEF TypeOK,
                                                 DeleteWorkspaceMembership,
                                                 LeaveWorkspace
    <2>2. invitation' \in [ReferenceObjects -> [Users -> Invitations \cup {NoInvitation}]]
      BY <1>2, InvitationsWithoutType DEF TypeOK, DeleteWorkspaceMembership,
                                          LeaveWorkspace
    <2>3. assignees' \in [Projects -> SUBSET Users]
      BY <1>2 DEF TypeOK, DeleteWorkspaceMembership, LeaveWorkspace,
                  AssigneesWithout
    <2> QED BY <1>2, <2>1, <2>2, <2>3 DEF TypeOK, DeleteWorkspaceMembership,
                                          LeaveWorkspace
  <1>3. ASSUME NEW successor, NEW p \in Projects,
               DeleteProjectMembership(a, p, u, successor)
        PROVE  TypeOK'
    <2>1. member' \in [ReferenceObjects -> [Users -> Roles \cup {NoRole}]]
      BY <1>3, SuccessionType, ConstantFacts DEF TypeOK,
                                                 DeleteProjectMembership,
                                                 LeaveProject
    <2>2. invitation' \in [ReferenceObjects -> [Users -> Invitations \cup {NoInvitation}]]
      BY <1>3, InvitationsWithoutType, ConstantFacts
         DEF TypeOK, DeleteProjectMembership, LeaveProject
    <2>3. assignees' \in [Projects -> SUBSET Users]
      BY <1>3 DEF TypeOK, DeleteProjectMembership, LeaveProject,
                  AssigneesWithout
    <2> QED BY <1>3, <2>1, <2>2, <2>3 DEF TypeOK, DeleteProjectMembership,
                                          LeaveProject
  <1> QED BY <1>1, <1>2, <1>3

LEMMA RoleStepType ==
    ASSUME TypeOK, RoleStep
    PROVE  TypeOK'
  <1> SUFFICES ASSUME NEW a \in Users, NEW p \in Projects, NEW role \in Roles,
                 \/ \E perms \in PermissionSets : CreateRole(a, p, role, perms)
                 \/ \E perms \in PermissionSets : UpdateRole(a, p, role, perms)
                 \/ \E target \in Roles \cup {NoRole} : DeleteRole(a, p, role, target)
               PROVE  TypeOK'
    BY DEF RoleStep
  <1>1. ASSUME NEW perms \in PermissionSets, CreateRole(a, p, role, perms)
        PROVE  TypeOK'
    BY <1>1, ConstantsAssumption, ConstantFacts DEF TypeOK, CreateRole, AddRole
  <1>2. ASSUME NEW perms \in PermissionSets, UpdateRole(a, p, role, perms)
        PROVE  TypeOK'
    BY <1>2, ConstantsAssumption, ConstantFacts DEF TypeOK, UpdateRole,
                                                    ChangePermissions, Editable
  <1>3. ASSUME NEW target \in Roles \cup {NoRole}, DeleteRole(a, p, role, target)
        PROVE  TypeOK'
    <2>1. roles' \in [ReferenceObjects -> SUBSET Roles]
      BY <1>3, ConstantFacts DEF TypeOK, DeleteRole, RemoveRole, Editable
    <2>2. permissions' \in [ReferenceObjects -> [Roles -> SUBSET Permissions]]
      BY <1>3, ConstantFacts DEF TypeOK, DeleteRole, RemoveRole, Editable
    <2>3. member' \in [ReferenceObjects -> [Users -> Roles \cup {NoRole}]]
      BY <1>3, ConstantFacts DEF TypeOK, DeleteRole, RemoveRole, Editable
    <2>4. ASSUME NEW u \in Users
          PROVE  MovedInvitation(invitation[p][u], role, target)
                   \in Invitations \cup {NoInvitation}
      <3>1. CASE invitation[p][u] # NoInvitation /\ invitation[p][u].role = role
        <4>1. invitation[p][u] \in Invitations
          BY <3>1, ConstantFacts DEF TypeOK
        <4>2. ~RoleUnused(p, role)
          BY <3>1 DEF RoleUnused, HasInvitation
        <4>3. target \in Roles
          BY <1>3, <4>2 DEF DeleteRole, RemoveRole, Editable
        <4>4. [invitation[p][u] EXCEPT !.role = target] \in Invitations
          BY <4>1, <4>3 DEF Invitations
        <4> QED BY <3>1, <4>4 DEF MovedInvitation
      <3>2. CASE ~(invitation[p][u] # NoInvitation /\ invitation[p][u].role = role)
        BY <3>2, ConstantFacts DEF MovedInvitation, TypeOK
      <3> QED BY <3>1, <3>2
    <2>5. invitation' \in [ReferenceObjects -> [Users -> Invitations \cup {NoInvitation}]]
      BY <1>3, <2>4, ConstantFacts DEF TypeOK, DeleteRole, RemoveRole, Editable
    <2> QED BY <1>3, <2>1, <2>2, <2>3, <2>5 DEF TypeOK, DeleteRole, RemoveRole,
                                                Editable
  <1> QED BY <1>1, <1>2, <1>3

LEMMA AccountStepType ==
    ASSUME TypeOK, AccountStep
    PROVE  TypeOK'
  <1> SUFFICES ASSUME NEW u \in Users,
                 \/ \E x \in ReferenceObjects \cup {NoInvitation} : VerifyUser(u, x)
                 \/ DeleteUser(u)
               PROVE  TypeOK'
    BY DEF AccountStep
  <1>1. ASSUME NEW x, VerifyUser(u, x)
        PROVE  TypeOK'
    <2> DEFINE inv == LinkedInvitations(u)
               accepts == x \in live /\ IsPending(inv[x][u])
    <2>1. inv \in InvitationsType
      BY LinkedInvitationsType
    <2>2. CASE accepts
      <3>1. x \in ReferenceObjects /\ CanAccept(inv, x, u)
        BY <1>1, <2>2 DEF VerifyUser, TypeOK
      <3>2. /\ member' = MemberOnAccept(inv, x, u)
            /\ invitation' = InvitationOnAccept(inv, x, u)
        BY <1>1, <2>2 DEF VerifyUser
      <3>3. /\ member' \in [ReferenceObjects -> [Users -> Roles \cup {NoRole}]]
            /\ invitation' \in InvitationsType
        BY <2>1, <3>1, <3>2, OnAcceptType
      <3> QED BY <1>1, <3>3 DEF VerifyUser, TypeOK, InvitationsType
    <2>3. CASE ~accepts
      <3>1. member' = member /\ invitation' = inv
        BY <1>1, <2>3 DEF VerifyUser
      <3> QED BY <1>1, <2>1, <3>1 DEF VerifyUser, TypeOK, InvitationsType
    <2> QED BY <2>2, <2>3
  <1>2. CASE DeleteUser(u)
    <2>1. PICK gone : Cascade(gone) /\ member' = [x \in ReferenceObjects |->
                         IF x \in gone THEN [v \in Users |-> NoRole]
                         ELSE [member[x] EXCEPT ![u] = NoRole]]
      BY <1>2 DEF DeleteUser
    <2>2. member' \in [ReferenceObjects -> [Users -> Roles \cup {NoRole}]]
      BY <2>1 DEF TypeOK
    <2>3. invitation' \in [ReferenceObjects -> [Users -> Invitations \cup {NoInvitation}]]
      BY <1>2, InvitationsWithoutType DEF TypeOK, DeleteUser
    <2>4. active' \in SUBSET Users /\ assignees' \in [Projects -> SUBSET Users]
      BY <1>2 DEF TypeOK, DeleteUser, AssigneesWithout
    <2> QED BY <2>1, <2>2, <2>3, <2>4, CascadeType DEF TypeOK
  <1> QED BY <1>1, <1>2

LEMMA LifeCycleStepType ==
    ASSUME TypeOK, LifeCycleStep
    PROVE  TypeOK'
  BY CreateWithType, DeleteReferenceObjectType, ConstantFacts
     DEF LifeCycleStep, CreateWorkspace, CreateProject, DeleteWorkspace,
         DeleteEmptyWorkspace, DeleteProject

LEMMA AssignmentStepType ==
    ASSUME TypeOK, AssignmentStep
    PROVE  TypeOK'
  <1> SUFFICES ASSUME NEW a \in Users, NEW u \in Users, NEW p \in Projects,
                      AssignStory(a, p, u) \/ UnassignStory(a, p, u)
               PROVE  TypeOK'
    BY DEF AssignmentStep
  <1>1. CASE AssignStory(a, p, u)
    BY <1>1 DEF TypeOK, AssignStory, Assign
  <1>2. CASE UnassignStory(a, p, u)
    BY <1>2 DEF TypeOK, UnassignStory, Unassign
  <1> QED BY <1>1, <1>2

\* The variables keep their types: no role, invitation or assignment is made up
\* by a handler, and no membership is left without a role.
THEOREM TypeCorrect == Spec => []TypeOK
  <1>1. Init => TypeOK
    BY DEF Init, TypeOK
  <1>2. TypeOK /\ [Next]_vars => TypeOK'
    <2>1. TypeOK /\ UNCHANGED vars => TypeOK'
      BY DEF TypeOK, vars
    <2> QED BY <2>1, InvitationStepType, MemberStepType, RoleStepType,
               AccountStepType, LifeCycleStepType, AssignmentStepType DEF Next
  <1> QED BY <1>1, <1>2, PTL DEF Spec

-----------------------------------------------------------------------------
(* Safety.                                                                 *)

\* What the keys of the rows stand for (CASCADE, and RESTRICT for the role):
\* nothing outlives what it belongs to, and the roles in use exist.
NothingIsOrphaned ==
    /\ live \cap Projects # {} => Workspace \in live
    /\ \A x \in ReferenceObjects \ live, u \in Users :
         ~IsMember(u, x) /\ ~HasInvitation(u, x)

RolesInUseExist ==
    \A x \in ReferenceObjects, u \in Users :
        /\ IsMember(u, x) => member[x][u] \in roles[x]
        /\ HasInvitation(u, x) => invitation[x][u].role \in roles[x]

\* No handler adds, changes or deletes the roles of a workspace.
WorkspaceRolesAreFixed == Workspace \in live => roles[Workspace] = DOMAIN WorkspaceRoles

IInv ==
    /\ TypeOK
    /\ NothingIsOrphaned
    /\ WorkspaceRolesAreFixed
    /\ HasOwner
    /\ ProjectMembersAreInWorkspace
    /\ AcceptedInviteesAreMembers
    /\ WorkspaceMembersAreNotInvited
    /\ InvitationsFollowAccounts
    /\ AssigneesAreMembers
    /\ RolesInUseExist

USE ConstantFacts

LEMMA WhoIsThere ==
    ASSUME IInv, NEW x \in ReferenceObjects, NEW u \in Users
    PROVE  /\ IsMember(u, x) => x \in live
           /\ HasInvitation(u, x) => x \in live /\ invitation[x][u] \in Invitations
           /\ IsOwner(u, x) => IsMember(u, x)
           /\ \A permission : HasPermission(u, x, permission) => IsMember(u, x) /\ x \in live
  BY DEF IInv, TypeOK, NothingIsOrphaned, HasInvitation, IsMember, IsOwner,
         HasPermission

-----------------------------------------------------------------------------
(* Steps that change one invitation only.                                  *)

LEMMA SetInvitationKeeps ==
    ASSUME IInv, NEW x \in live, NEW u \in Users, NEW inv \in Invitations,
           SetInvitation(x, u, inv),
           UNCHANGED <<active, live, roles, permissions, member, assignees>>,
           inv.status # "accepted",
           inv.status = "pending" /\ x = Workspace => ~IsMember(u, x),
           inv.linked <=> u \in active,
           inv.role \in roles[x]
    PROVE  IInv'
  <1>1. x \in ReferenceObjects /\ TypeOK
    BY DEF IInv, TypeOK
  <1>2. ASSUME NEW y \in ReferenceObjects, NEW v \in Users
        PROVE  invitation'[y][v] = IF y = x /\ v = u THEN inv ELSE invitation[y][v]
    BY <1>1 DEF SetInvitation, TypeOK
  <1>3. TypeOK'
    BY <1>1, SetInvitationType DEF TypeOK, InvitationsType
  <1>4. inv # NoInvitation
    BY NoInvitationAssumption
  <1>5. NothingIsOrphaned' /\ HasOwner' /\ WorkspaceRolesAreFixed'
    BY <1>1, <1>2 DEF IInv, NothingIsOrphaned, HasOwner,
                      WorkspaceRolesAreFixed, IsMember, HasInvitation, IsOwner
  <1>6. ProjectMembersAreInWorkspace' /\ AssigneesAreMembers'
    BY DEF IInv, ProjectMembersAreInWorkspace, AssigneesAreMembers, IsMember
  <1>7. AcceptedInviteesAreMembers' /\ WorkspaceMembersAreNotInvited'
    BY <1>1, <1>2, <1>4
       DEF IInv, AcceptedInviteesAreMembers, WorkspaceMembersAreNotInvited,
           IsMember, HasInvitation, IsPending
  <1>8. InvitationsFollowAccounts' /\ RolesInUseExist'
    BY <1>1, <1>2, <1>4
       DEF IInv, InvitationsFollowAccounts, RolesInUseExist, IsMember,
           HasInvitation
  <1> QED BY <1>3, <1>5, <1>6, <1>7, <1>8 DEF IInv

LEMMA CreateInvitationKeeps ==
    ASSUME IInv, NEW a \in Users, NEW x \in ReferenceObjects, NEW u \in Users,
           NEW role \in Roles, CreateInvitation(a, x, u, role)
    PROVE  IInv'
  <1>1. x \in live /\ ~IsMember(u, x) /\ role \in roles[x]
    BY WhoIsThere DEF CreateInvitation, Invite
  <1>2. UNCHANGED <<active, live, roles, permissions, member, assignees>>
    BY DEF CreateInvitation, Invite
  <1>3. CASE HasInvitation(u, x)
    <2> DEFINE inv == [invitation[x][u] EXCEPT !.status = "pending", !.role = role]
    <2>1. invitation[x][u] \in Invitations
      BY <1>3, WhoIsThere
    <2>2. /\ inv \in Invitations /\ inv.status = "pending" /\ inv.role = role
          /\ inv.linked = invitation[x][u].linked
      BY <2>1 DEF Invitations, Statuses
    <2>3. inv.linked <=> u \in active
      BY <1>3, <2>2 DEF IInv, InvitationsFollowAccounts
    <2>4. SetInvitation(x, u, inv)
      BY <1>3 DEF CreateInvitation, Invite
    <2> HIDE DEF inv
    <2> QED BY <1>1, <1>2, <2>2, <2>3, <2>4, SetInvitationKeeps
  <1>4. CASE ~HasInvitation(u, x)
    <2> DEFINE inv == [status |-> "pending", role |-> role, linked |-> u \in active]
    <2>1. /\ inv \in Invitations /\ inv.status = "pending" /\ inv.role = role
          /\ inv.linked = (u \in active)
      <3>1. (u \in active) \in BOOLEAN
        OBVIOUS
      <3> HIDE DEF inv
      <3>2. inv = [status |-> "pending", role |-> role, linked |-> u \in active]
        BY DEF inv
      <3> QED BY <3>1, <3>2 DEF Invitations, Statuses
    <2>2. SetInvitation(x, u, inv)
      BY <1>4 DEF CreateInvitation, Invite
    <2> HIDE DEF inv
    <2> QED BY <1>1, <1>2, <2>1, <2>2, SetInvitationKeeps
  <1> QED BY <1>3, <1>4

LEMMA PendingFacts ==
    ASSUME IInv, NEW x \in ReferenceObjects, NEW u \in Users,
           IsPending(invitation[x][u])
    PROVE  /\ x \in live /\ invitation[x][u] \in Invitations
           /\ x = Workspace => ~IsMember(u, x)
           /\ invitation[x][u].role \in roles[x]
           /\ invitation[x][u].linked <=> u \in active
  <1>1. HasInvitation(u, x)
    BY DEF HasInvitation, IsPending
  <1> QED BY <1>1, WhoIsThere
          DEF IInv, WorkspaceMembersAreNotInvited, RolesInUseExist,
              InvitationsFollowAccounts

LEMMA UpdateInvitationKeeps ==
    ASSUME IInv, NEW a \in Users, NEW x \in ReferenceObjects, NEW u \in Users,
           NEW role \in Roles, UpdateInvitation(a, x, u, role)
    PROVE  IInv'
  <1> DEFINE inv == [invitation[x][u] EXCEPT !.role = role]
  <1>1. /\ IsPending(invitation[x][u]) /\ role \in roles[x] /\ SetInvitation(x, u, inv)
        /\ UNCHANGED <<active, live, roles, permissions, member, assignees>>
    BY DEF UpdateInvitation, CanModifyInvitation, ChangeInvitedRole,
           ModifyPendingInvitation
  <1>2. /\ inv \in Invitations /\ inv.role = role /\ inv.status = "pending"
        /\ inv.linked = invitation[x][u].linked
    BY <1>1, PendingFacts DEF Invitations, IsPending
  <1> HIDE DEF inv
  <1> QED BY <1>1, <1>2, PendingFacts, SetInvitationKeeps

LEMMA AnswerKeeps ==
    ASSUME IInv, NEW x \in ReferenceObjects, NEW u \in Users,
           IsPending(invitation[x][u]), NEW status \in {"revoked", "denied"},
           SetInvitation(x, u, [invitation[x][u] EXCEPT !.status = status]),
           UNCHANGED <<active, live, roles, permissions, member, assignees>>
    PROVE  IInv'
  <1> DEFINE inv == [invitation[x][u] EXCEPT !.status = status]
  <1>1. /\ inv \in Invitations /\ inv.status = status
        /\ inv.role = invitation[x][u].role /\ inv.linked = invitation[x][u].linked
    BY PendingFacts DEF Invitations, Statuses
  <1>2. SetInvitation(x, u, inv)
    OBVIOUS
  <1> HIDE DEF inv
  <1> QED BY <1>1, <1>2, PendingFacts, SetInvitationKeeps


-----------------------------------------------------------------------------
(* Accepting an invitation, and the account that is opened.                *)

\* inv is what the invitations are once those of an account that is opened are
\* attached to it, and invitation itself when no account is.
SameInvitations(inv) ==
    /\ inv \in InvitationsType
    /\ \A y \in ReferenceObjects, v \in Users :
         /\ inv[y][v] # NoInvitation <=> HasInvitation(v, y)
         /\ HasInvitation(v, y) =>
              /\ inv[y][v].status = invitation[y][v].status
              /\ inv[y][v].role = invitation[y][v].role

\* What accepting x does to the role and to the invitation of v in y.
LEMMA AcceptEffect ==
    ASSUME IInv, NEW inv, SameInvitations(inv),
           NEW x \in ReferenceObjects, NEW u \in Users, CanAccept(inv, x, u),
           member' = MemberOnAccept(inv, x, u),
           invitation' = InvitationOnAccept(inv, x, u),
           NEW y \in ReferenceObjects, NEW v \in Users
    PROVE  /\ IsMember(v, y) => member'[y][v] = member[y][v]
           /\ ~IsMember(v, y) /\ member'[y][v] # NoRole =>
                /\ y \in live
                /\ v = u
                /\ y = x \/ y = Workspace
                /\ member'[y][v] \in roles[y]
                /\ ~(inv[y][v] # NoInvitation /\ invitation'[y][v].status = "pending")
           /\ invitation'[y][v] # NoInvitation <=> HasInvitation(v, y)
           /\ HasInvitation(v, y) =>
                /\ invitation'[y][v].role = invitation[y][v].role
                /\ invitation'[y][v].linked = inv[y][v].linked
                /\ \/ invitation'[y][v].status = invitation[y][v].status
                   \/ invitation'[y][v].status = "accepted" /\ member'[y][v] # NoRole
  <1>1. /\ x \in live /\ Workspace \in live
        /\ ~IsMember(u, x) /\ inv[x][u] # NoInvitation
    BY WhoIsThere DEF CanAccept, SameInvitations, IsPending, IInv,
                      NothingIsOrphaned, ReferenceObjects
  <1>2. ASSUME NEW z \in Accepted(inv, x, u)
        PROVE  /\ z \in ReferenceObjects /\ inv[z][u] \in Invitations
               /\ inv[z][u].status = "pending" /\ HasInvitation(u, z)
               /\ inv[z][u].role \in roles[z] /\ inv[z][u].role # NoRole
               /\ ~IsMember(u, z)
               /\ z = x \/ z = Workspace
    <2>1. /\ z \in ReferenceObjects /\ IsPending(inv[z][u]) /\ ~IsMember(u, z)
          /\ z = x \/ z = Workspace
      BY <1>1, <1>2 DEF Accepted, AcceptsWorkspace, JoinsWorkspace, CanAccept
    <2>2. inv[z][u] \in Invitations /\ inv[z][u].status = "pending" /\ HasInvitation(u, z)
      BY <2>1, PendingInvitation DEF SameInvitations, IsPending
    <2>3. inv[z][u].role = invitation[z][u].role /\ inv[z][u].role \in Roles
      BY <2>1, <2>2 DEF SameInvitations, Invitations
    <2> QED BY <2>1, <2>2, <2>3, ConstantsAssumption DEF IInv, RolesInUseExist
  <1>3. DefaultRole \in roles[Workspace]
    BY <1>1, ConstantsAssumption DEF IInv, WorkspaceRolesAreFixed
  <1>4. member'[y][v] = IF v # u THEN member[y][v]
                        ELSE IF y \in Accepted(inv, x, u) THEN inv[y][u].role
                        ELSE IF y = Workspace /\ JoinsWorkspace(x, u) THEN DefaultRole
                        ELSE member[y][v]
    BY DEF MemberOnAccept, IInv, TypeOK
  <1>5. invitation'[y][v] = IF v = u /\ y \in Accepted(inv, x, u)
                            THEN [inv[y][u] EXCEPT !.status = "accepted"] ELSE inv[y][v]
    BY DEF InvitationOnAccept, SameInvitations, InvitationsType
  <1>6. ASSUME v = u, y \in Accepted(inv, x, u)
        PROVE  /\ invitation'[y][v] # NoInvitation
               /\ invitation'[y][v].status = "accepted"
               /\ invitation'[y][v].role = inv[y][v].role
               /\ invitation'[y][v].linked = inv[y][v].linked
    <2>1. [inv[y][u] EXCEPT !.status = "accepted"] \in Invitations
      BY <1>2, <1>6 DEF Invitations, Statuses
    <2> QED BY <1>2, <1>5, <1>6, <2>1, NoInvitationAssumption DEF Invitations
  <1>7. ASSUME y = Workspace, JoinsWorkspace(x, u), y \notin Accepted(inv, x, u),
               inv[y][u] # NoInvitation
        PROVE  inv[y][u].status # "pending"
    BY <1>7 DEF Accepted, AcceptsWorkspace, IsPending
  <1>8. CASE v = u /\ y \in Accepted(inv, x, u)
    BY <1>1, <1>2, <1>4, <1>6, <1>8, WhoIsThere DEF SameInvitations, IsMember
  <1>9. CASE v = u /\ y \notin Accepted(inv, x, u) /\ y = Workspace /\ JoinsWorkspace(x, u)
    BY <1>1, <1>3, <1>4, <1>5, <1>7, <1>9 DEF SameInvitations, IsMember,
                                              JoinsWorkspace
  <1>10. CASE v # u \/ (y \notin Accepted(inv, x, u)
                         /\ ~(y = Workspace /\ JoinsWorkspace(x, u)))
    BY <1>4, <1>5, <1>10 DEF SameInvitations, IsMember
  <1> QED BY <1>8, <1>9, <1>10


LEMMA AcceptKeeps ==
    ASSUME IInv, NEW inv, SameInvitations(inv), active' \in SUBSET Users,
           \A y \in ReferenceObjects, v \in Users :
              HasInvitation(v, y) => inv[y][v].linked = (v \in active'),
           NEW x \in ReferenceObjects, NEW u \in Users, CanAccept(inv, x, u),
           member' = MemberOnAccept(inv, x, u),
           invitation' = InvitationOnAccept(inv, x, u),
           UNCHANGED <<live, roles, permissions, assignees>>
    PROVE  IInv'
  <1>1. TypeOK'
    BY OnAcceptType DEF IInv, TypeOK, SameInvitations, InvitationsType
  <1>2. ASSUME NEW y \in ReferenceObjects, NEW v \in Users
        PROVE  /\ IsMember(v, y) => IsMember(v, y)'
               /\ IsOwner(v, y) => IsOwner(v, y)'
               /\ IsMember(v, y)' => y \in live /\ member'[y][v] \in roles[y]
               /\ HasInvitation(v, y)' <=> HasInvitation(v, y)
    BY <1>2, AcceptEffect, WhoIsThere
       DEF IsMember, IsOwner, HasInvitation, IInv, RolesInUseExist
  <1>3. NothingIsOrphaned' /\ HasOwner' /\ WorkspaceRolesAreFixed'
    <2>1. NothingIsOrphaned'
      BY <1>2, WhoIsThere DEF IInv, NothingIsOrphaned
    <2>2. HasOwner'
      BY <1>2 DEF IInv, TypeOK, HasOwner
    <2> QED BY <2>1, <2>2 DEF IInv, WorkspaceRolesAreFixed
  <1>4. ProjectMembersAreInWorkspace' /\ AssigneesAreMembers'
    <2>1. IsMember(u, Workspace)'
      <3>1. CASE IsMember(u, Workspace)
        BY <1>2, <3>1
      <3>2. CASE Workspace \in Accepted(inv, x, u)
        <4>1. inv[Workspace][u].role # NoRole
          BY <3>2, ConstantsAssumption, PendingInvitation
             DEF Accepted, AcceptsWorkspace, CanAccept, SameInvitations,
                 Invitations
        <4> QED BY <3>2, <4>1 DEF MemberOnAccept, IsMember, IInv, TypeOK
      <3>3. CASE ~IsMember(u, Workspace) /\ Workspace \notin Accepted(inv, x, u)
        <4>1. JoinsWorkspace(x, u)
          BY <3>3 DEF Accepted, JoinsWorkspace
        <4> QED BY <3>3, <4>1 DEF MemberOnAccept, IsMember, IInv, TypeOK
      <3> QED BY <3>1, <3>2, <3>3
    <2>2. ASSUME NEW p \in Projects, NEW v \in Users, IsMember(v, p)'
          PROVE  IsMember(v, Workspace)'
      BY <1>2, <2>1, <2>2, AcceptEffect DEF IsMember, IInv,
                                            ProjectMembersAreInWorkspace
    <2> QED BY <1>2, <2>2
            DEF IInv, TypeOK, ProjectMembersAreInWorkspace, AssigneesAreMembers
  <1>5. AcceptedInviteesAreMembers' /\ RolesInUseExist'
    BY <1>2, AcceptEffect
       DEF IInv, AcceptedInviteesAreMembers, RolesInUseExist, HasInvitation,
           IsMember
  <1>6. WorkspaceMembersAreNotInvited'
    BY <1>2, AcceptEffect
       DEF IInv, WorkspaceMembersAreNotInvited, IsPending, IsMember,
           HasInvitation, SameInvitations
  <1>7. InvitationsFollowAccounts'
    <2>1. ASSUME NEW y \in ReferenceObjects, NEW v \in Users, HasInvitation(v, y)'
          PROVE  invitation'[y][v].linked = (v \in active')
      BY <1>2, <2>1, AcceptEffect
    <2> QED BY <2>1 DEF InvitationsFollowAccounts
  <1> QED BY <1>1, <1>3, <1>4, <1>5, <1>6, <1>7 DEF IInv


LEMMA AcceptInvitationKeeps ==
    ASSUME IInv, NEW x \in ReferenceObjects, NEW u \in Users, AcceptInvitation(u, x)
    PROVE  IInv'
  <1>1. SameInvitations(invitation)
    BY DEF SameInvitations, InvitationsType, IInv, TypeOK, HasInvitation
  <1>2. ASSUME NEW y \in ReferenceObjects, NEW v \in Users, HasInvitation(v, y)
        PROVE  invitation[y][v].linked = (v \in active)
    <2>1. invitation[y][v].linked \in BOOLEAN
      BY <1>2, WhoIsThere DEF Invitations
    <2>2. invitation[y][v].linked <=> v \in active
      BY <1>2 DEF IInv, InvitationsFollowAccounts
    <2> QED BY <2>1, <2>2
  <1>3. /\ CanAccept(invitation, x, u)
        /\ member' = MemberOnAccept(invitation, x, u)
        /\ invitation' = InvitationOnAccept(invitation, x, u)
        /\ active' = active /\ UNCHANGED <<live, roles, permissions, assignees>>
    BY DEF AcceptInvitation, Accept
  <1>4. active' \in SUBSET Users
    BY <1>3 DEF IInv, TypeOK
  <1> QED BY <1>1, <1>2, <1>3, <1>4, AcceptKeeps

LEMMA LinkEffect ==
    ASSUME IInv, NEW u \in Users, active' = active \cup {u}
    PROVE  /\ SameInvitations(LinkedInvitations(u))
           /\ \A y \in ReferenceObjects, v \in Users : HasInvitation(v, y) =>
                LinkedInvitations(u)[y][v].linked = (v \in active')
  <1>1. ASSUME NEW y \in ReferenceObjects, NEW v \in Users
        PROVE  LinkedInvitations(u)[y][v] =
                 IF v = u /\ HasInvitation(v, y)
                 THEN [invitation[y][v] EXCEPT !.linked = TRUE] ELSE invitation[y][v]
    BY DEF LinkedInvitations, HasInvitation, IInv, TypeOK
  <1>2. ASSUME NEW y \in ReferenceObjects, NEW v \in Users, HasInvitation(v, y)
        PROVE  /\ LinkedInvitations(u)[y][v].linked = (v \in active')
               /\ LinkedInvitations(u)[y][v] # NoInvitation
               /\ LinkedInvitations(u)[y][v].status = invitation[y][v].status
               /\ LinkedInvitations(u)[y][v].role = invitation[y][v].role
    <2>1. invitation[y][v] \in Invitations
      BY <1>2, WhoIsThere
    <2>2. [invitation[y][v] EXCEPT !.linked = TRUE] \in Invitations
      BY <2>1 DEF Invitations
    <2>3. CASE v = u
      BY <1>1, <1>2, <2>1, <2>2, <2>3, NoInvitationAssumption DEF Invitations
    <2>4. CASE v # u
      <3>1. LinkedInvitations(u)[y][v] = invitation[y][v]
        BY <1>1, <2>4
      <3>2. invitation[y][v].linked \in BOOLEAN
        BY <2>1 DEF Invitations
      <3>3. invitation[y][v].linked <=> v \in active
        BY <1>2 DEF IInv, InvitationsFollowAccounts
      <3>4. invitation[y][v].linked = (v \in active')
        BY <2>4, <3>2, <3>3
      <3> QED BY <2>1, <3>1, <3>4, NoInvitationAssumption
    <2> QED BY <2>3, <2>4
  <1>3. ASSUME NEW y \in ReferenceObjects, NEW v \in Users, ~HasInvitation(v, y)
        PROVE  LinkedInvitations(u)[y][v] = NoInvitation
    BY <1>1, <1>3 DEF HasInvitation
  <1> QED BY <1>2, <1>3, LinkedInvitationsType DEF SameInvitations, IInv

LEMMA VerifyUserKeeps ==
    ASSUME IInv, NEW u \in Users, NEW x, VerifyUser(u, x)
    PROVE  IInv'
  <1> DEFINE inv == LinkedInvitations(u)
  <1>1. /\ active' = active \cup {u} /\ active' \in SUBSET Users
        /\ UNCHANGED <<live, roles, permissions, assignees>>
    BY DEF VerifyUser, IInv, TypeOK
  <1>2. /\ SameInvitations(inv)
        /\ \A y \in ReferenceObjects, v \in Users : HasInvitation(v, y) =>
             inv[y][v].linked = (v \in active')
    BY <1>1, LinkEffect
  <1>3. CASE x \in live /\ IsPending(inv[x][u])
    <2>1. /\ x \in ReferenceObjects /\ CanAccept(inv, x, u)
          /\ member' = MemberOnAccept(inv, x, u)
          /\ invitation' = InvitationOnAccept(inv, x, u)
      BY <1>3 DEF VerifyUser, IInv, TypeOK
    <2> HIDE DEF inv
    <2> QED BY <1>1, <1>2, <2>1, AcceptKeeps
  <1>4. CASE ~(x \in live /\ IsPending(inv[x][u]))
    <2>1. member' = member /\ invitation' = inv
      BY <1>4 DEF VerifyUser
    <2> HIDE DEF inv
    <2>2. \A y \in ReferenceObjects, v \in Users : HasInvitation(v, y)' <=> HasInvitation(v, y)
      BY <1>2, <2>1 DEF SameInvitations, HasInvitation
    <2>3. TypeOK'
      BY <1>1, <1>2, <2>1 DEF SameInvitations, InvitationsType, IInv, TypeOK
    <2>4. NothingIsOrphaned' /\ HasOwner' /\ WorkspaceRolesAreFixed'
      BY <1>1, <2>1, <2>2
         DEF IInv, NothingIsOrphaned, HasOwner, WorkspaceRolesAreFixed,
             IsMember, IsOwner
    <2>5. ProjectMembersAreInWorkspace' /\ AssigneesAreMembers'
      BY <1>1, <2>1 DEF IInv, ProjectMembersAreInWorkspace,
                        AssigneesAreMembers, IsMember
    <2>6. AcceptedInviteesAreMembers' /\ RolesInUseExist'
      BY <1>1, <1>2, <2>1, <2>2
         DEF IInv, SameInvitations, AcceptedInviteesAreMembers,
             RolesInUseExist, IsMember
    <2>7. WorkspaceMembersAreNotInvited'
      BY <1>2, <2>1, <2>2
         DEF IInv, SameInvitations, WorkspaceMembersAreNotInvited, IsMember,
             HasInvitation, IsPending
    <2>8. InvitationsFollowAccounts'
      <3>1. ASSUME NEW y \in ReferenceObjects, NEW v \in Users, HasInvitation(v, y)'
            PROVE  invitation'[y][v].linked = (v \in active')
        BY <1>2, <2>1, <2>2, <3>1
      <3> QED BY <3>1 DEF InvitationsFollowAccounts
    <2> QED BY <2>3, <2>4, <2>5, <2>6, <2>7, <2>8 DEF IInv
  <1> QED BY <1>3, <1>4


-----------------------------------------------------------------------------
(* What people belong to, created and deleted.                             *)

LEMMA CreateWithKeeps ==
    ASSUME IInv, NEW a \in Users, NEW x \in ReferenceObjects,
           NEW template \in {WorkspaceRoles, ProjectTemplate},
           x = Workspace => template = WorkspaceRoles,
           x # Workspace => IsMember(a, Workspace),
           CreateWith(a, x, template)
    PROVE  IInv'
  <1>1. /\ x \notin live /\ live' = live \cup {x}
        /\ UNCHANGED <<active, invitation, assignees>>
        /\ x # Workspace => Workspace \in live
    BY WhoIsThere DEF CreateWith
  <1>2. TypeOK'
    BY CreateWithType DEF IInv
  <1>3. ASSUME NEW y \in ReferenceObjects, NEW v \in Users
        PROVE  /\ member'[y][v] = IF y = x /\ v = a THEN Owner ELSE member[y][v]
               /\ roles'[y] = IF y = x THEN DOMAIN template ELSE roles[y]
               /\ y = x => ~IsMember(v, y) /\ ~HasInvitation(v, y)
    BY <1>1 DEF CreateWith, IInv, TypeOK, NothingIsOrphaned
  <1>4. Owner \in DOMAIN template
    BY ConstantsAssumption
  <1>5. NothingIsOrphaned' /\ WorkspaceRolesAreFixed'
    BY <1>1, <1>3, WhoIsThere
       DEF IInv, TypeOK, NothingIsOrphaned, WorkspaceRolesAreFixed, IsMember,
           HasInvitation
  <1>6. HasOwner'
    <2>1. member'[x][a] = Owner
      BY <1>3
    <2>2. ASSUME NEW y \in live
          PROVE  \E v \in Users : member'[y][v] = Owner
      <3>1. y \in ReferenceObjects /\ y # x
        BY <1>1 DEF IInv, TypeOK
      <3>2. PICK v \in Users : member[y][v] = Owner
        BY DEF IInv, HasOwner, IsOwner
      <3> QED BY <1>3, <3>1, <3>2
    <2> QED BY <1>1, <2>1, <2>2 DEF HasOwner, IsOwner
  <1>7. ProjectMembersAreInWorkspace' /\ AssigneesAreMembers'
    BY <1>1, <1>3
       DEF IInv, TypeOK, ProjectMembersAreInWorkspace, AssigneesAreMembers,
           IsMember
  <1>8. AcceptedInviteesAreMembers' /\ WorkspaceMembersAreNotInvited'
    BY <1>1, <1>3
       DEF IInv, AcceptedInviteesAreMembers, WorkspaceMembersAreNotInvited,
           IsMember, HasInvitation, IsPending
  <1>9. InvitationsFollowAccounts' /\ RolesInUseExist'
    BY <1>1, <1>3, <1>4
       DEF IInv, InvitationsFollowAccounts, RolesInUseExist, IsMember,
           HasInvitation
  <1> QED BY <1>2, <1>5, <1>6, <1>7, <1>8, <1>9 DEF IInv

\* Some workspaces, projects and one account go (DeleteUser, and with no
\* account, DeleteWorkspace and DeleteProject): who and what is left keeps the
\* role, the invitation and the assignment it had.
LEMMA RemovalKeeps ==
    ASSUME IInv, TypeOK', NEW gone \in SUBSET ReferenceObjects, NEW leaving,
           live' = live \ gone,
           \A x \in ReferenceObjects \ gone : roles'[x] = roles[x],
           Workspace \in gone => live \cap Projects \subseteq gone,
           active' = active \ leaving,
           \A x \in live \ gone : \E u \in Users \ leaving : IsOwner(u, x),
           \A x \in ReferenceObjects, u \in Users :
              /\ member'[x][u] = IF x \in gone \/ u \in leaving THEN NoRole
                                 ELSE member[x][u]
              /\ invitation'[x][u] = IF x \in gone \/ u \in leaving THEN NoInvitation
                                     ELSE invitation[x][u],
           \A p \in Projects :
              assignees'[p] = IF p \in gone THEN {} ELSE assignees[p] \ leaving
    PROVE  IInv'
  <1>1. ASSUME NEW y \in ReferenceObjects, NEW v \in Users
        PROVE  /\ IsMember(v, y)' => /\ IsMember(v, y) /\ y \notin gone /\ v \notin leaving
                                     /\ member'[y][v] = member[y][v]
               /\ HasInvitation(v, y)' => /\ HasInvitation(v, y)
                                          /\ y \notin gone /\ v \notin leaving
                                          /\ invitation'[y][v] = invitation[y][v]
               /\ y \notin gone /\ v \notin leaving =>
                    member'[y][v] = member[y][v]
    BY DEF IsMember, HasInvitation
  <1>2. NothingIsOrphaned' /\ WorkspaceRolesAreFixed'
    BY <1>1 DEF IInv, NothingIsOrphaned, WorkspaceRolesAreFixed
  <1>3. HasOwner'
    BY <1>1 DEF IInv, TypeOK, HasOwner, IsOwner
  <1>4. ProjectMembersAreInWorkspace'
    <2>1. ASSUME NEW p \in Projects, NEW u \in Users, IsMember(u, p)'
          PROVE  Workspace \notin gone
      <3>1. p \in live /\ p \notin gone
        BY <1>1, <2>1, WhoIsThere
      <3> QED BY <3>1
    <2> QED BY <1>1, <2>1 DEF IInv, ProjectMembersAreInWorkspace, IsMember
  <1>5. AssigneesAreMembers'
    <2>1. ASSUME NEW p \in Projects, NEW u \in assignees'[p]
          PROVE  IsMember(u, p)'
      <3>1. p \notin gone /\ u \in assignees[p] \ leaving /\ p \in ReferenceObjects
        OBVIOUS
      <3>2. u \in Users /\ IsMember(u, p)
        BY <3>1 DEF IInv, TypeOK, AssigneesAreMembers
      <3> QED BY <1>1, <3>1, <3>2 DEF IsMember
    <2> QED BY <2>1 DEF AssigneesAreMembers
  <1>6. AcceptedInviteesAreMembers' /\ WorkspaceMembersAreNotInvited'
    BY <1>1
       DEF IInv, AcceptedInviteesAreMembers, WorkspaceMembersAreNotInvited,
           IsMember, HasInvitation, IsPending
  <1>7. InvitationsFollowAccounts' /\ RolesInUseExist'
    <2>1. ASSUME NEW y \in ReferenceObjects, NEW v \in Users, HasInvitation(v, y)'
          PROVE  invitation'[y][v].linked <=> v \in active'
      BY <1>1, <2>1 DEF IInv, InvitationsFollowAccounts
    <2>2. ASSUME NEW y \in ReferenceObjects, NEW v \in Users
          PROVE  /\ IsMember(v, y)' => member'[y][v] \in roles'[y]
                 /\ HasInvitation(v, y)' => invitation'[y][v].role \in roles'[y]
      BY <1>1 DEF IInv, RolesInUseExist
    <2> QED BY <2>1, <2>2 DEF InvitationsFollowAccounts, RolesInUseExist
  <1> QED BY <1>2, <1>3, <1>4, <1>5, <1>6, <1>7 DEF IInv


LEMMA DeleteReferenceObjectKeeps ==
    ASSUME IInv, NEW x \in ReferenceObjects, DeleteReferenceObject(x),
           x = Workspace => live \cap Projects = {}
    PROVE  IInv'
  <1> DEFINE gone == {x}
             nobody == {}
  <1>1. TypeOK'
    BY DeleteReferenceObjectType DEF IInv
  <1>2. /\ live' = live \ gone /\ active' = active \ nobody
        /\ \A y \in ReferenceObjects \ gone : roles'[y] = roles[y]
        /\ gone \in SUBSET ReferenceObjects
        /\ Workspace \in gone => live \cap Projects \subseteq gone
    BY DEF DeleteReferenceObject, Cascade
  <1>3. ASSUME NEW y \in ReferenceObjects, NEW u \in Users
        PROVE  /\ member'[y][u] = IF y \in gone \/ u \in nobody THEN NoRole
                                  ELSE member[y][u]
               /\ invitation'[y][u] = IF y \in gone \/ u \in nobody THEN NoInvitation
                                      ELSE invitation[y][u]
    BY DEF DeleteReferenceObject, IInv, TypeOK
  <1>4. ASSUME NEW p \in Projects
        PROVE  assignees'[p] = IF p \in gone THEN {} ELSE assignees[p] \ nobody
    BY DEF DeleteReferenceObject
  <1>5. ASSUME NEW y \in live \ gone
        PROVE  \E u \in Users \ nobody : IsOwner(u, y)
    BY DEF IInv, HasOwner
  <1> HIDE DEF gone, nobody
  <1> QED BY <1>1, <1>2, <1>3, <1>4, <1>5, RemovalKeeps

LEMMA DeleteUserKeeps ==
    ASSUME IInv, NEW u \in Users, DeleteUser(u)
    PROVE  IInv'
  <1> DEFINE alone == {x \in ReferenceObjects : OnlyMember(u, x)}
             gone == IF Workspace \in alone THEN ReferenceObjects ELSE alone
  <1>1. /\ u \in active /\ Cascade(gone) /\ gone \in SUBSET ReferenceObjects
        /\ \A x \in ReferenceObjects : OnlyOwner(u, x) => x \in gone
    BY DEF DeleteUser
  <1>2. /\ live' = live \ gone /\ active' = active \ {u}
        /\ \A x \in ReferenceObjects \ gone : roles'[x] = roles[x]
    BY <1>1 DEF DeleteUser, Cascade
  <1>3. ASSUME NEW x \in ReferenceObjects, NEW v \in Users
        PROVE  /\ member'[x][v] = IF x \in gone \/ v \in {u} THEN NoRole ELSE member[x][v]
               /\ invitation'[x][v] = IF x \in gone \/ v \in {u} THEN NoInvitation
                                      ELSE invitation[x][v]
    <2>1. HasInvitation(u, x) => invitation[x][u].linked
      BY <1>1 DEF IInv, InvitationsFollowAccounts
    <2>2. member'[x] = IF x \in gone THEN [w \in Users |-> NoRole]
                       ELSE [member[x] EXCEPT ![u] = NoRole]
      BY DEF DeleteUser
    <2>3. invitation'[x] = IF x \in gone THEN [w \in Users |-> NoInvitation]
                           ELSE IF HasInvitation(u, x) /\ invitation[x][u].linked
                           THEN InvitationsWithout(x, u) ELSE invitation[x]
      BY DEF DeleteUser
    <2> HIDE DEF gone
    <2>4. invitation[x] \in [Users -> Invitations \cup {NoInvitation}]
      BY DEF IInv, TypeOK
    <2>5. ~HasInvitation(u, x) => invitation[x][u] = NoInvitation
      BY DEF HasInvitation
    <2>6. invitation'[x][v] = IF x \in gone \/ v \in {u} THEN NoInvitation
                              ELSE invitation[x][v]
      BY <2>1, <2>3, <2>4, <2>5 DEF InvitationsWithout
    <2>7. member'[x][v] = IF x \in gone \/ v \in {u} THEN NoRole ELSE member[x][v]
      BY <2>2 DEF IInv, TypeOK
    <2> QED BY <2>6, <2>7
  <1>4. \A p \in Projects :
          assignees'[p] = IF p \in gone THEN {} ELSE assignees[p] \ {u}
    BY DEF DeleteUser, AssigneesWithout
  <1>5. TypeOK'
    BY <1>3, <1>4, AccountStepType DEF IInv, AccountStep
  <1>6. ASSUME NEW x \in live \ gone
        PROVE  \E v \in Users \ {u} : IsOwner(v, x)
    BY <1>1 DEF IInv, TypeOK, HasOwner, OnlyOwner
  <1>7. Workspace \in gone => live \cap Projects \subseteq gone
    BY DEF IInv, TypeOK
  <1> HIDE DEF gone
  <1> QED BY <1>1, <1>2, <1>3, <1>4, <1>5, <1>6, <1>7, RemovalKeeps

LEMMA LifeCycleStepKeeps ==
    ASSUME IInv, LifeCycleStep
    PROVE  IInv'
  <1> SUFFICES ASSUME NEW a \in Users,
                      \/ CreateWorkspace(a)
                      \/ DeleteWorkspace(a)
                      \/ \E p \in Projects : CreateProject(a, p) \/ DeleteProject(a, p)
               PROVE  IInv'
    BY DEF LifeCycleStep
  <1>1. CASE CreateWorkspace(a)
    BY <1>1, CreateWithKeeps DEF CreateWorkspace
  <1>2. CASE DeleteWorkspace(a)
    BY <1>2, DeleteReferenceObjectKeeps DEF DeleteWorkspace,
                                            DeleteEmptyWorkspace
  <1>3. ASSUME NEW p \in Projects, CreateProject(a, p)
        PROVE  IInv'
    <2>1. p # Workspace /\ p \in ReferenceObjects /\ IsMember(a, Workspace)
      BY <1>3, ConstantsAssumption DEF CreateProject, HasPermission
    <2> QED BY <1>3, <2>1, CreateWithKeeps DEF CreateProject
  <1>4. ASSUME NEW p \in Projects, DeleteProject(a, p)
        PROVE  IInv'
    <2>1. p # Workspace /\ p \in ReferenceObjects
      BY ConstantsAssumption
    <2> QED BY <1>4, <2>1, DeleteReferenceObjectKeeps DEF DeleteProject
  <1> QED BY <1>1, <1>2, <1>3, <1>4


-----------------------------------------------------------------------------
(* Members.                                                                *)

\* At most u leaves, and whoever gets a role was in the workspace before.
LEMMA MembersKeep ==
    ASSUME IInv, TypeOK', HasOwner', UNCHANGED <<active, live, roles, permissions>>,
           NEW u \in Users,
           \A x \in ReferenceObjects, v \in Users :
              /\ \/ member'[x][v] = member[x][v]
                 \/ v = u /\ member'[x][v] = NoRole
                 \/ /\ member'[x][v] \in roles[x] /\ x \in live
                    /\ IsMember(v, Workspace)
              /\ \/ invitation'[x][v] = invitation[x][v]
                 \/ invitation'[x][v] = NoInvitation
              /\ \/ invitation'[x][u] = NoInvitation
                 \/ IsMember(u, x) => IsMember(u, x)',
           ~IsMember(u, Workspace)' => \A p \in Projects : ~IsMember(u, p)',
           \A p \in Projects :
              /\ assignees'[p] \subseteq assignees[p]
              /\ u \in assignees'[p] => IsMember(u, p)'
    PROVE  IInv'
  <1>1. ASSUME NEW x \in ReferenceObjects, NEW v \in Users
        PROVE  /\ IsMember(v, x) => IsMember(v, x)' \/ v = u
               /\ IsMember(v, x)' => /\ x \in live /\ member'[x][v] \in roles[x]
                                     /\ IsMember(v, Workspace)
               /\ HasInvitation(v, x)' => /\ HasInvitation(v, x)
                                          /\ invitation'[x][v] = invitation[x][v]
               /\ HasInvitation(v, x)' /\ IsMember(v, x) => IsMember(v, x)'
    <2>1. NoRole \notin roles[x]
      BY ConstantsAssumption DEF IInv, TypeOK
    <2>2. IsMember(v, x) => /\ x \in live /\ member[x][v] \in roles[x]
                            /\ IsMember(v, Workspace)
      BY WhoIsThere
         DEF IInv, ProjectMembersAreInWorkspace, RolesInUseExist,
             ReferenceObjects
    <2> QED BY <2>1, <2>2 DEF IsMember, HasInvitation
  <1>2. NothingIsOrphaned' /\ WorkspaceRolesAreFixed'
    BY <1>1 DEF IInv, NothingIsOrphaned, WorkspaceRolesAreFixed
  <1>3. ProjectMembersAreInWorkspace'
    BY <1>1 DEF ProjectMembersAreInWorkspace
  <1>4. AcceptedInviteesAreMembers'
    BY <1>1 DEF IInv, AcceptedInviteesAreMembers
  <1>5. WorkspaceMembersAreNotInvited'
    BY <1>1 DEF IInv, WorkspaceMembersAreNotInvited, IsPending, HasInvitation
  <1>6. RolesInUseExist'
    BY <1>1 DEF IInv, RolesInUseExist
  <1>7. InvitationsFollowAccounts'
    <2>1. ASSUME NEW x \in ReferenceObjects, NEW v \in Users, HasInvitation(v, x)'
          PROVE  invitation'[x][v].linked <=> v \in active
      BY <1>1, <2>1 DEF IInv, InvitationsFollowAccounts
    <2> QED BY <2>1 DEF InvitationsFollowAccounts
  <1>8. AssigneesAreMembers'
    <2>1. ASSUME NEW p \in Projects, NEW v \in assignees'[p]
          PROVE  IsMember(v, p)'
      <3>1. v \in Users /\ IsMember(v, p)
        BY DEF IInv, TypeOK, AssigneesAreMembers
      <3> QED BY <1>1, <3>1
    <2> QED BY <2>1 DEF AssigneesAreMembers
  <1> QED BY <1>2, <1>3, <1>4, <1>5, <1>6, <1>7, <1>8 DEF IInv

LEMMA UpdateMembershipKeeps ==
    ASSUME IInv, NEW a \in Users, NEW x \in ReferenceObjects, NEW u \in Users,
           NEW role \in Roles, UpdateMembership(a, x, u, role)
    PROVE  IInv'
  <1>1. /\ IsMember(u, x) /\ x \in live /\ RoleChangeAllowed(a, x, u, role)
        /\ UNCHANGED <<active, live, roles, permissions, invitation, assignees>>
    BY WhoIsThere DEF UpdateMembership, ChangeRole
  <1>2. ASSUME NEW y \in ReferenceObjects, NEW v \in Users
        PROVE  member'[y][v] = IF y = x /\ v = u THEN role ELSE member[y][v]
    BY DEF UpdateMembership, ChangeRole, IInv, TypeOK
  <1>3. TypeOK'
    BY MemberStepType DEF IInv, MemberStep
  <1>4. HasOwner'
    <2>1. ASSUME NEW y \in live
          PROVE  \E v \in Users : member'[y][v] = Owner
      <3>1. y \in ReferenceObjects
        BY DEF IInv, TypeOK
      <3>2. CASE y = x /\ role = Owner
        BY <1>2, <3>1, <3>2
      <3>3. CASE y = x /\ role # Owner
        BY <1>1, <1>2, <3>1, <3>3 DEF RoleChangeAllowed, OnlyOwner, IsOwner,
                                      IInv, HasOwner
      <3>4. CASE y # x
        BY <1>2, <3>1, <3>4 DEF IInv, HasOwner, IsOwner
      <3> QED BY <3>2, <3>3, <3>4
    <2> QED BY <1>1, <2>1 DEF HasOwner, IsOwner
  <1>5. role \in roles[x] /\ role # NoRole /\ IsMember(u, Workspace)
    BY <1>1, ConstantsAssumption
       DEF RoleChangeAllowed, IInv, ProjectMembersAreInWorkspace,
           ReferenceObjects
  <1>6. \A y \in ReferenceObjects, v \in Users : IsMember(v, y) <=> IsMember(v, y)'
    BY <1>1, <1>2, <1>5 DEF IsMember
  <1>7. ASSUME NEW p \in Projects
        PROVE  u \in assignees[p] => IsMember(u, p)'
    BY <1>6 DEF IInv, AssigneesAreMembers
  <1> QED BY <1>1, <1>2, <1>3, <1>4, <1>5, <1>6, <1>7, MembersKeep
          DEF IInv, ProjectMembersAreInWorkspace


\* The members of x once u has left and has been succeeded.
LEMMA SuccessionEffect ==
    ASSUME IInv, NEW a \in Users, NEW x \in ReferenceObjects, NEW u \in Users,
           NEW successor, CanDeleteMembership(a, x, u),
           SuccessionAllowed(a, x, u, successor),
           member'[x] = Succession(x, u, successor)
    PROVE  /\ x \in live /\ IsMember(u, Workspace)
           /\ \E v \in Users : IsOwner(v, x)'
           /\ \A v \in Users :
                \/ member'[x][v] = member[x][v] /\ v # u
                \/ v = u /\ member'[x][v] = NoRole
                \/ member'[x][v] \in roles[x] /\ IsMember(v, Workspace) /\ v # u
  <1>1. /\ x \in live /\ IsMember(u, Workspace)
        /\ \A v \in Users : IsMember(v, x) => IsMember(v, Workspace)
    BY WhoIsThere DEF CanDeleteMembership, IInv, ProjectMembersAreInWorkspace,
                      ReferenceObjects
  <1>2. ASSUME NEW v \in Users
        PROVE  member'[x][v] = IF v = u THEN NoRole
                               ELSE IF v = successor /\ OnlyOwner(u, x) THEN Owner
                               ELSE member[x][v]
    BY DEF Succession
  <1>3. CASE OnlyOwner(u, x)
    <2>1. /\ successor \in Users \ {a} /\ IsMember(successor, x)
          /\ Owner \in roles[x] /\ IsOwner(a, x)
      BY <1>3 DEF SuccessionAllowed, RoleChangeAllowed
    <2>2. a = u
      BY <1>3, <2>1 DEF OnlyOwner
    <2> QED BY <1>1, <1>2, <1>3, <2>1, <2>2 DEF IsOwner
  <1>4. CASE ~OnlyOwner(u, x)
    <2>1. PICK v \in Users : IsOwner(v, x) /\ v # u
      BY <1>1, <1>4 DEF OnlyOwner, IInv, HasOwner
    <2> QED BY <1>1, <1>2, <1>4, <2>1 DEF IsOwner
  <1> QED BY <1>3, <1>4

LEMMA DeleteProjectMembershipKeeps ==
    ASSUME IInv, NEW a \in Users, NEW p \in Projects, NEW u \in Users, NEW successor,
           successor \in Users \cup {NoUser},
           DeleteProjectMembership(a, p, u, successor)
    PROVE  IInv'
  <1>1. /\ CanDeleteMembership(a, p, u) /\ SuccessionAllowed(a, p, u, successor)
        /\ UNCHANGED <<active, live, roles, permissions>>
        /\ p # Workspace /\ p \in ReferenceObjects
    BY ConstantsAssumption DEF DeleteProjectMembership, LeaveProject
  <1>2. /\ \A x \in ReferenceObjects \ {p} : member'[x] = member[x]
        /\ member'[p] = Succession(p, u, successor)
    BY <1>1 DEF DeleteProjectMembership, LeaveProject, IInv, TypeOK
  <1>3. ASSUME NEW x \in ReferenceObjects, NEW v \in Users
        PROVE  invitation'[x][v] = IF x = p /\ v = u THEN NoInvitation ELSE invitation[x][v]
    BY DEF DeleteProjectMembership, LeaveProject, InvitationsWithout, IInv,
           TypeOK
  <1>4. ASSUME NEW q \in Projects
        PROVE  assignees'[q] = IF q = p THEN assignees[q] \ {u} ELSE assignees[q]
    BY DEF DeleteProjectMembership, LeaveProject, AssigneesWithout, IInv,
           TypeOK
  <1>5. TypeOK'
    BY MemberStepType DEF IInv, MemberStep
  <1>6. HasOwner'
    <2>1. ASSUME NEW y \in live
          PROVE  \E v \in Users : IsOwner(v, y)'
      <3>1. CASE y = p
        BY <1>1, <1>2, <3>1, SuccessionEffect
      <3>2. CASE y # p
        BY <1>2, <3>2 DEF IInv, TypeOK, HasOwner, IsOwner
      <3> QED BY <3>1, <3>2
    <2> QED BY <1>1, <2>1 DEF HasOwner
  <1>7. ASSUME NEW x \in ReferenceObjects, NEW v \in Users
        PROVE  \/ member'[x][v] = member[x][v]
               \/ v = u /\ member'[x][v] = NoRole
               \/ /\ member'[x][v] \in roles[x] /\ x \in live
                  /\ IsMember(v, Workspace)
    BY <1>1, <1>2, SuccessionEffect
  <1>8. IsMember(u, Workspace)'
    <2>1. IsMember(u, Workspace)
      BY <1>1, <1>2, SuccessionEffect
    <2> QED BY <1>1, <1>2, <2>1 DEF IsMember
  <1>9. ASSUME NEW q \in Projects, u \in assignees'[q]
        PROVE  IsMember(u, q)'
    BY <1>2, <1>4, <1>9 DEF IInv, AssigneesAreMembers, IsMember
  <1>10. ASSUME NEW x \in ReferenceObjects
         PROVE  invitation'[x][u] = NoInvitation \/ (IsMember(u, x) => IsMember(u, x)')
    BY <1>2, <1>3 DEF IsMember
  <1> QED BY <1>1, <1>3, <1>4, <1>5, <1>6, <1>7, <1>8, <1>9, <1>10, MembersKeep

LEMMA DeleteWorkspaceMembershipKeeps ==
    ASSUME IInv, NEW a \in Users, NEW u \in Users, NEW successor,
           successor \in Users \cup {NoUser},
           DeleteWorkspaceMembership(a, u, successor)
    PROVE  IInv'
  <1> DEFINE owned == {p \in Projects : OnlyOwner(u, p)}
             inner == {p \in Projects : IsMember(u, p)}
  <1>1. /\ CanDeleteMembership(a, Workspace, u)
        /\ SuccessionAllowed(a, Workspace, u, successor)
        /\ UNCHANGED <<active, live, roles, permissions>>
        /\ a = u => inner = {}
        /\ a # u /\ owned # {} => IsOwner(a, Workspace)
    BY DEF DeleteWorkspaceMembership, LeaveWorkspace
  <1>2. /\ member'[Workspace] = Succession(Workspace, u, successor)
        /\ \A x \in ReferenceObjects \ {Workspace} :
             member'[x] = IF x \in owned
                          THEN [member[x] EXCEPT ![a] = Owner, ![u] = NoRole]
                          ELSE [member[x] EXCEPT ![u] = NoRole]
    BY DEF DeleteWorkspaceMembership, LeaveWorkspace
  <1>3. /\ owned \subseteq inner
        /\ \A p \in owned : Owner \in roles[p] /\ p \in live /\ a # u
        /\ \A p \in Projects \ owned : ~OnlyOwner(u, p)
    <2>1. ASSUME NEW p \in owned
          PROVE  IsMember(u, p) /\ Owner \in roles[p] /\ p \in live
      BY WhoIsThere DEF OnlyOwner, IsOwner, IInv, RolesInUseExist
    <2> QED BY <1>1, <2>1
  <1>4. ASSUME NEW x \in ReferenceObjects, x # Workspace, NEW v \in Users
        PROVE  /\ x \in Projects
               /\ member'[x][v] = IF v = u THEN NoRole
                                  ELSE IF x \in owned /\ v = a THEN Owner
                                  ELSE member[x][v]
    <2>1. x \in Projects /\ member[x] \in [Users -> Roles \cup {NoRole}]
      BY <1>4 DEF IInv, TypeOK, ReferenceObjects
    <2> QED BY <1>2, <1>4, <2>1
  <1>5. ASSUME NEW x \in ReferenceObjects, NEW v \in Users
        PROVE  invitation'[x][v] = IF (x = Workspace \/ inner # {}) /\ v = u
                                   THEN NoInvitation ELSE invitation[x][v]
    BY DEF DeleteWorkspaceMembership, LeaveWorkspace, InvitationsWithout, IInv,
           TypeOK
  <1>6. \A p \in Projects : assignees'[p] = assignees[p] \ {u}
    BY DEF DeleteWorkspaceMembership, LeaveWorkspace, AssigneesWithout
  <1>7. ASSUME NEW x \in ReferenceObjects
        PROVE  invitation'[x][u] = NoInvitation \/ (IsMember(u, x) => IsMember(u, x)')
    BY <1>5, <1>7 DEF ReferenceObjects
  <1>8. TypeOK'
    BY MemberStepType DEF IInv, MemberStep
  <1> HIDE DEF owned, inner
  <1>9. HasOwner'
    <2>1. ASSUME NEW y \in live
          PROVE  \E v \in Users : IsOwner(v, y)'
      <3>1. y \in ReferenceObjects
        BY DEF IInv, TypeOK
      <3>2. CASE y = Workspace
        BY <1>1, <1>2, <3>2, SuccessionEffect
      <3>3. CASE y # Workspace /\ y \in owned
        BY <1>3, <1>4, <3>1, <3>3 DEF IsOwner
      <3>4. CASE y # Workspace /\ y \notin owned
        <4>1. y \in Projects
          BY <1>4, <3>1, <3>4
        <4>2. PICK v \in Users : IsOwner(v, y) /\ v # u
          BY <1>3, <3>4, <4>1 DEF OnlyOwner, IInv, HasOwner
        <4> QED BY <1>4, <3>1, <3>4, <4>2 DEF IsOwner
      <3> QED BY <3>2, <3>3, <3>4
    <2> QED BY <1>1, <2>1 DEF HasOwner
  <1>10. ASSUME NEW x \in ReferenceObjects, NEW v \in Users
         PROVE  \/ member'[x][v] = member[x][v]
                \/ v = u /\ member'[x][v] = NoRole
                \/ /\ member'[x][v] \in roles[x] /\ x \in live
                   /\ IsMember(v, Workspace)
    <2>1. CASE x = Workspace
      BY <1>1, <1>2, <2>1, SuccessionEffect
    <2>2. CASE x # Workspace
      <3>1. x \in owned => IsMember(a, Workspace)
        BY <1>1, <1>3, WhoIsThere
      <3> QED BY <1>3, <1>4, <2>2, <3>1
    <2> QED BY <2>1, <2>2
  <1>11. \A p \in Projects : ~IsMember(u, p)'
    BY <1>4, ConstantsAssumption DEF IsMember
  <1> QED BY <1>1, <1>5, <1>6, <1>7, <1>8, <1>9, <1>10, <1>11, MembersKeep


-----------------------------------------------------------------------------
(* Roles and assignments.                                                  *)

LEMMA DeleteRoleKeeps ==
    ASSUME IInv, NEW a \in Users, NEW p \in Projects, NEW role \in Roles,
           NEW target \in Roles \cup {NoRole}, DeleteRole(a, p, role, target)
    PROVE  IInv'
  <1>1. /\ UNCHANGED <<active, live, assignees>>
        /\ p \in ReferenceObjects /\ p # Workspace
        /\ role # Owner /\ role # NoRole
    BY ConstantsAssumption DEF DeleteRole, RemoveRole, Editable
  <1>2. TypeOK'
    BY RoleStepType DEF IInv, RoleStep
  <1>3. ASSUME NEW x \in ReferenceObjects, NEW v \in Users
        PROVE  /\ member'[x][v] = IF x = p /\ member[x][v] = role THEN target
                                  ELSE member[x][v]
               /\ invitation'[x][v] = IF x = p THEN MovedInvitation(invitation[x][v], role, target)
                                      ELSE invitation[x][v]
               /\ roles'[x] = IF x = p THEN roles[x] \ {role} ELSE roles[x]
    BY DEF DeleteRole, RemoveRole, Editable, IInv, TypeOK
  <1>4. \/ target = NoRole /\ RoleUnused(p, role)
        \/ target \in roles[p] \ {role} /\ target # NoRole
    BY ConstantsAssumption DEF DeleteRole, RemoveRole, Editable
  <1>5. ASSUME NEW x \in ReferenceObjects, NEW v \in Users
        PROVE  /\ IsMember(v, x) <=> IsMember(v, x)'
               /\ IsOwner(v, x) => IsOwner(v, x)'
               /\ IsMember(v, x)' => member'[x][v] \in roles'[x]
    <2>1. member[x][v] # NoRole => member[x][v] \in roles[x]
      BY DEF IInv, RolesInUseExist, IsMember
    <2>2. CASE x = p /\ member[x][v] = role
      <3>1. target \in roles[p] \ {role} /\ target # NoRole
        BY <1>4, <2>2 DEF RoleUnused
      <3> QED BY <1>1, <1>3, <2>2, <3>1 DEF IsMember, IsOwner
    <2>3. CASE ~(x = p /\ member[x][v] = role)
      BY <1>3, <2>1, <2>3 DEF IsMember, IsOwner
    <2> QED BY <2>2, <2>3
  <1>6. ASSUME NEW x \in ReferenceObjects, NEW v \in Users
        PROVE  /\ HasInvitation(v, x)' <=> HasInvitation(v, x)
               /\ HasInvitation(v, x) =>
                    /\ invitation'[x][v].status = invitation[x][v].status
                    /\ invitation'[x][v].linked = invitation[x][v].linked
                    /\ invitation'[x][v].role \in roles'[x]
    <2>1. CASE ~HasInvitation(v, x)
      BY <1>3, <2>1 DEF HasInvitation, MovedInvitation
    <2>2. CASE HasInvitation(v, x) /\ x = p /\ invitation[x][v].role = role
      <3>1. invitation[x][v] \in Invitations /\ target \in Roles
        BY <1>4, <2>2, WhoIsThere DEF RoleUnused
      <3>2. invitation'[x][v] = [invitation[x][v] EXCEPT !.role = target]
        BY <1>3, <2>2 DEF MovedInvitation, HasInvitation
      <3>3. /\ invitation'[x][v] \in Invitations
            /\ invitation'[x][v].status = invitation[x][v].status
            /\ invitation'[x][v].linked = invitation[x][v].linked
            /\ invitation'[x][v].role = target
        BY <3>1, <3>2 DEF Invitations
      <3>4. target \in roles'[x]
        BY <1>3, <1>4, <2>2 DEF RoleUnused
      <3> QED BY <2>2, <3>3, <3>4, NoInvitationAssumption DEF HasInvitation
    <2>3. CASE HasInvitation(v, x) /\ ~(x = p /\ invitation[x][v].role = role)
      <3>1. invitation'[x][v] = invitation[x][v]
        BY <1>3, <2>3 DEF MovedInvitation
      <3>2. invitation[x][v].role \in roles[x]
        BY <2>3 DEF IInv, RolesInUseExist
      <3>3. invitation[x][v].role \in roles'[x]
        BY <1>3, <2>3, <3>2
      <3> QED BY <3>1, <3>3 DEF HasInvitation
    <2> QED BY <2>1, <2>2, <2>3
  <1>7. NothingIsOrphaned' /\ WorkspaceRolesAreFixed' /\ HasOwner'
    <2>1. NothingIsOrphaned'
      BY <1>1, <1>5, <1>6 DEF IInv, NothingIsOrphaned
    <2>2. WorkspaceRolesAreFixed'
      BY <1>1, <1>3 DEF IInv, WorkspaceRolesAreFixed
    <2>3. HasOwner'
      BY <1>1, <1>5 DEF IInv, TypeOK, HasOwner
    <2> QED BY <2>1, <2>2, <2>3
  <1>8. ProjectMembersAreInWorkspace' /\ AssigneesAreMembers' /\ RolesInUseExist'
    BY <1>1, <1>5, <1>6
       DEF IInv, TypeOK, ProjectMembersAreInWorkspace, AssigneesAreMembers,
           RolesInUseExist
  <1>9. AcceptedInviteesAreMembers' /\ WorkspaceMembersAreNotInvited'
    BY <1>5, <1>6
       DEF IInv, AcceptedInviteesAreMembers, WorkspaceMembersAreNotInvited,
           IsPending, HasInvitation
  <1>10. InvitationsFollowAccounts'
    <2>1. ASSUME NEW x \in ReferenceObjects, NEW v \in Users, HasInvitation(v, x)'
          PROVE  invitation'[x][v].linked <=> v \in active
      BY <1>6, <2>1 DEF IInv, InvitationsFollowAccounts
    <2> QED BY <1>1, <2>1 DEF InvitationsFollowAccounts
  <1> QED BY <1>2, <1>7, <1>8, <1>9, <1>10 DEF IInv

LEMMA RoleStepKeeps ==
    ASSUME IInv, RoleStep
    PROVE  IInv'
  <1> SUFFICES ASSUME NEW a \in Users, NEW p \in Projects, NEW role \in Roles,
                 \/ \E perms \in PermissionSets : CreateRole(a, p, role, perms)
                 \/ \E perms \in PermissionSets : UpdateRole(a, p, role, perms)
                 \/ \E target \in Roles \cup {NoRole} : DeleteRole(a, p, role, target)
               PROVE  IInv'
    BY DEF RoleStep
  <1>1. CASE \E perms \in PermissionSets :
                CreateRole(a, p, role, perms) \/ UpdateRole(a, p, role, perms)
    <2>1. /\ UNCHANGED <<active, live, member, invitation, assignees>>
          /\ roles'[Workspace] = roles[Workspace]
          /\ \A x \in ReferenceObjects : roles[x] \subseteq roles'[x]
      <3>1. p # Workspace /\ p \in ReferenceObjects
        BY ConstantsAssumption
      <3>2. CASE \E perms \in PermissionSets : CreateRole(a, p, role, perms)
        BY <3>1, <3>2 DEF CreateRole, AddRole, IInv, TypeOK
      <3>3. CASE \E perms \in PermissionSets : UpdateRole(a, p, role, perms)
        BY <3>3 DEF UpdateRole, ChangePermissions, Editable
      <3> QED BY <1>1, <3>2, <3>3
    <2>2. TypeOK'
      BY RoleStepType DEF IInv
    <2> QED BY <2>1, <2>2
            DEF IInv, NothingIsOrphaned, WorkspaceRolesAreFixed, HasOwner,
                ProjectMembersAreInWorkspace, AcceptedInviteesAreMembers,
                WorkspaceMembersAreNotInvited, InvitationsFollowAccounts,
                AssigneesAreMembers, RolesInUseExist, IsMember, IsOwner,
                HasInvitation
  <1>2. CASE \E target \in Roles \cup {NoRole} : DeleteRole(a, p, role, target)
    BY <1>2, DeleteRoleKeeps
  <1> QED BY <1>1, <1>2

LEMMA AssignmentStepKeeps ==
    ASSUME IInv, AssignmentStep
    PROVE  IInv'
  <1> SUFFICES ASSUME NEW a \in Users, NEW u \in Users, NEW p \in Projects,
                      AssignStory(a, p, u) \/ UnassignStory(a, p, u)
               PROVE  IInv'
    BY DEF AssignmentStep
  <1>1. /\ UNCHANGED <<active, live, roles, permissions, member, invitation>>
        /\ \A q \in Projects, v \in Users :
             v \in assignees'[q] => v \in assignees[q] \/ IsMember(v, q)
    BY DEF AssignStory, Assign, UnassignStory, Unassign, IInv, TypeOK
  <1>2. TypeOK'
    BY AssignmentStepType DEF IInv
  <1>3. AssigneesAreMembers'
    BY <1>1, <1>2 DEF IInv, TypeOK, AssigneesAreMembers, IsMember
  <1> QED BY <1>1, <1>2, <1>3
          DEF IInv, NothingIsOrphaned, WorkspaceRolesAreFixed, HasOwner,
              ProjectMembersAreInWorkspace, AcceptedInviteesAreMembers,
              WorkspaceMembersAreNotInvited, InvitationsFollowAccounts,
              RolesInUseExist, IsMember, IsOwner, HasInvitation


-----------------------------------------------------------------------------
(* The inductive invariant.                                                *)

LEMMA InvitationStepKeeps ==
    ASSUME IInv, InvitationStep
    PROVE  IInv'
  <1> SUFFICES ASSUME NEW a \in Users, NEW u \in Users, NEW x \in ReferenceObjects,
                      \/ \E role \in Roles : CreateInvitation(a, x, u, role)
                      \/ \E role \in Roles : UpdateInvitation(a, x, u, role)
                      \/ RevokeInvitation(a, x, u)
                      \/ DenyInvitation(u, x)
                      \/ AcceptInvitation(u, x)
               PROVE  IInv'
    BY DEF InvitationStep
  <1>1. CASE \E role \in Roles : CreateInvitation(a, x, u, role)
    BY <1>1, CreateInvitationKeeps
  <1>2. CASE \E role \in Roles : UpdateInvitation(a, x, u, role)
    BY <1>2, UpdateInvitationKeeps
  <1>3. CASE RevokeInvitation(a, x, u)
    BY <1>3, AnswerKeeps DEF RevokeInvitation, CanModifyInvitation, Revoke,
                             ModifyPendingInvitation
  <1>4. CASE DenyInvitation(u, x)
    BY <1>4, AnswerKeeps DEF DenyInvitation, Deny, ModifyPendingInvitation
  <1>5. CASE AcceptInvitation(u, x)
    BY <1>5, AcceptInvitationKeeps
  <1> QED BY <1>1, <1>2, <1>3, <1>4, <1>5

LEMMA InitiallyIInv == Init => IInv
  <1> SUFFICES ASSUME Init PROVE IInv
    OBVIOUS
  <1>1. TypeOK
    BY DEF Init, TypeOK
  <1> QED BY <1>1
          DEF Init, IInv, NothingIsOrphaned, WorkspaceRolesAreFixed, HasOwner,
              ProjectMembersAreInWorkspace, AcceptedInviteesAreMembers,
              WorkspaceMembersAreNotInvited, InvitationsFollowAccounts,
              AssigneesAreMembers, RolesInUseExist, IsMember, HasInvitation,
              IsPending

LEMMA EveryStepKeepsIInv == IInv /\ [Next]_vars => IInv'
  <1> SUFFICES ASSUME IInv, [Next]_vars PROVE IInv'
    OBVIOUS
  <1>1. CASE AccountStep
    BY <1>1, VerifyUserKeeps, DeleteUserKeeps DEF AccountStep
  <1>2. CASE LifeCycleStep
    BY <1>2, LifeCycleStepKeeps
  <1>3. CASE InvitationStep
    BY <1>3, InvitationStepKeeps
  <1>4. CASE MemberStep
    BY <1>4, UpdateMembershipKeeps, DeleteWorkspaceMembershipKeeps,
       DeleteProjectMembershipKeeps DEF MemberStep
  <1>5. CASE RoleStep
    BY <1>5, RoleStepKeeps
  <1>6. CASE AssignmentStep
    BY <1>6, AssignmentStepKeeps
  <1>7. CASE UNCHANGED vars
    BY <1>7 DEF vars, IInv, TypeOK, NothingIsOrphaned, WorkspaceRolesAreFixed,
                HasOwner, ProjectMembersAreInWorkspace,
                AcceptedInviteesAreMembers, WorkspaceMembersAreNotInvited,
                InvitationsFollowAccounts, AssigneesAreMembers,
                RolesInUseExist, IsMember, IsOwner, HasInvitation, IsPending
  <1> QED BY <1>1, <1>2, <1>3, <1>4, <1>5, <1>6, <1>7 DEF Next

LEMMA AlwaysIInv == Spec => []IInv
  BY InitiallyIInv, EveryStepKeepsIInv, PTL DEF Spec

\* A workspace or project that exists has an owner, whatever handlers ran.
THEOREM AlwaysOwned == Spec => []HasOwner
  BY AlwaysIInv, PTL DEF IInv

\* Every member of a project is a member of its workspace.
THEOREM MembersInWorkspace == Spec => []ProjectMembersAreInWorkspace
  BY AlwaysIInv, PTL DEF IInv

\* Whoever accepted an invitation is a member as long as it is on record.
THEOREM InvitationsMatchMembers == Spec => []AcceptedInviteesAreMembers
  BY AlwaysIInv, PTL DEF IInv

\* No member of the workspace is still invited to it, by whatever way in.
THEOREM MembersHaveNothingToAccept == Spec => []WorkspaceMembersAreNotInvited
  BY AlwaysIInv, PTL DEF IInv

\* An invitation is attached to the invited person's account, if it is active.
THEOREM InvitationsAttached == Spec => []InvitationsFollowAccounts
  BY AlwaysIInv, PTL DEF IInv

\* Only members of a project are assigned to its stories.
THEOREM AssigneesBelong == Spec => []AssigneesAreMembers
  BY AlwaysIInv, PTL DEF IInv


-----------------------------------------------------------------------------
(* What a step may never do.                                               *)

\* Deleting an account deletes no project that someone else is a member of:
\* the workspace goes only when its last member leaves, and by then no one else
\* is in any of its projects.
THEOREM SharedProjectsSurvive == Spec => AccountDeletionKeepsSharedProjects
  <1>1. ASSUME IInv, NEW u \in Users, DeleteUser(u),
               NEW p \in live \ live', NEW v \in Users \ {u}
        PROVE  ~IsMember(v, p)
    <2> DEFINE alone == {x \in ReferenceObjects : OnlyMember(u, x)}
               gone == IF Workspace \in alone THEN ReferenceObjects ELSE alone
    <2>1. p \in gone
      BY <1>1 DEF DeleteUser, Cascade
    <2>2. CASE Workspace \in alone
      <3>1. ~IsMember(v, Workspace) /\ p \in ReferenceObjects
        BY <1>1, <2>2 DEF OnlyMember, IInv, TypeOK
      <3> QED BY <1>1, <3>1 DEF IInv, ProjectMembersAreInWorkspace,
                                ReferenceObjects
    <2>3. CASE Workspace \notin alone
      BY <2>1, <2>3 DEF OnlyMember
    <2> QED BY <2>2, <2>3
  <1>2. IInv /\ [Next]_vars =>
          [\A p \in live \ live' : \A u \in Users : DeleteUser(u) =>
             \A v \in Users \ {u} : ~IsMember(v, p)]_vars
    BY <1>1
  <1> QED BY <1>2, AlwaysIInv, PTL DEF Spec, AccountDeletionKeepsSharedProjects

OwnerFromWithin(u, x) ==
    \/ IsMember(u, x)
    \/ IsPending(invitation[x][u]) /\ invitation[x][u].role = Owner
    \/ x # Workspace /\ IsOwner(u, Workspace)

LEMMA AcceptMakesOwner ==
    ASSUME IInv, NEW inv, SameInvitations(inv),
           NEW y \in ReferenceObjects, NEW v \in Users, CanAccept(inv, y, v),
           member' = MemberOnAccept(inv, y, v),
           NEW x \in ReferenceObjects, NEW u \in Users,
           ~IsOwner(u, x), IsOwner(u, x)'
    PROVE  OwnerFromWithin(u, x)
  <1>1. /\ u = v
        /\ x \in Accepted(inv, y, v) /\ inv[x][u].role = Owner
    BY ConstantsAssumption DEF MemberOnAccept, IsOwner, IInv, TypeOK
  <1>2. IsPending(inv[x][u])
    BY <1>1 DEF Accepted, AcceptsWorkspace, CanAccept
  <1> QED BY <1>1, <1>2 DEF SameInvitations, IsPending, HasInvitation,
                            OwnerFromWithin

\* Nobody becomes an owner from outside, in one step of any handler.
THEOREM OwnersFromWithin == Spec => OwnersComeFromWithin
  <1>1. ASSUME IInv, [Next]_vars, NEW x \in live \cap live', NEW u \in Users,
               ~IsOwner(u, x), IsOwner(u, x)'
        PROVE  OwnerFromWithin(u, x)
    <2>1. x \in ReferenceObjects
      BY <1>1 DEF IInv, TypeOK
    <2>2. ASSUME NEW v \in Users, NEW y \in ReferenceObjects \cup {NoInvitation},
                 VerifyUser(v, y)
          PROVE  OwnerFromWithin(u, x)
      <3> DEFINE inv == LinkedInvitations(v)
      <3>1. SameInvitations(inv)
        BY <1>1, <2>2, LinkEffect DEF VerifyUser
      <3>2. y \in live /\ CanAccept(inv, y, v) /\ member' = MemberOnAccept(inv, y, v)
        BY <1>1, <2>2 DEF VerifyUser, IsOwner
      <3>3. y \in ReferenceObjects
        BY <1>1, <3>2 DEF IInv, TypeOK
      <3> HIDE DEF inv
      <3> QED BY <1>1, <2>1, <3>1, <3>2, <3>3, AcceptMakesOwner
    <2>3. ASSUME NEW v \in Users, NEW y \in ReferenceObjects, AcceptInvitation(v, y)
          PROVE  OwnerFromWithin(u, x)
      <3>1. SameInvitations(invitation)
        BY <1>1 DEF SameInvitations, InvitationsType, IInv, TypeOK,
                    HasInvitation
      <3> QED BY <1>1, <2>1, <2>3, <3>1, AcceptMakesOwner DEF AcceptInvitation,
                                                              Accept
    <2>4. CASE \E v \in Users : DeleteUser(v)
      BY <1>1, <2>1, <2>4, ConstantFacts DEF DeleteUser, IsOwner, IInv, TypeOK
    <2>5. CASE LifeCycleStep
      <3>1. ASSUME NEW a \in Users, NEW y \in ReferenceObjects, NEW template,
                   CreateWith(a, y, template)
            PROVE  FALSE
        BY <1>1, <2>1, <3>1 DEF CreateWith, IsOwner, IInv, TypeOK
      <3>2. ASSUME NEW y \in ReferenceObjects, DeleteReferenceObject(y)
            PROVE  FALSE
        BY <1>1, <2>1, <3>2, ConstantFacts DEF DeleteReferenceObject, IsOwner,
                                               IInv, TypeOK
      <3> QED BY <2>5, <3>1, <3>2, ConstantFacts
              DEF LifeCycleStep, CreateWorkspace, CreateProject,
                  DeleteWorkspace, DeleteEmptyWorkspace, DeleteProject
    <2>6. ASSUME member' = member
          PROVE  OwnerFromWithin(u, x)
      BY <1>1, <2>6 DEF IsOwner
    <2>7. CASE InvitationStep
      <3>1. \/ member' = member
            \/ \E v \in Users, y \in ReferenceObjects : AcceptInvitation(v, y)
        <4>1. ASSUME NEW a, NEW v, NEW y, NEW role, CreateInvitation(a, y, v, role)
              PROVE  member' = member
          BY <4>1 DEF CreateInvitation, Invite
        <4>2. ASSUME NEW a, NEW v, NEW y, NEW role,
                     \/ UpdateInvitation(a, y, v, role)
                     \/ RevokeInvitation(a, y, v)
                     \/ DenyInvitation(v, y)
              PROVE  member' = member
          BY <4>2 DEF UpdateInvitation, CanModifyInvitation, ChangeInvitedRole,
                      ModifyPendingInvitation, RevokeInvitation, Revoke,
                      DenyInvitation, Deny
        <4> QED BY <2>7, <4>1, <4>2 DEF InvitationStep
      <3> QED BY <2>3, <2>6, <3>1
    <2>8. ASSUME NEW a \in Users, NEW v \in Users, NEW y \in ReferenceObjects,
                 NEW role \in Roles, UpdateMembership(a, y, v, role)
          PROVE  OwnerFromWithin(u, x)
      BY <1>1, <2>1, <2>8 DEF UpdateMembership, ChangeRole, IsOwner,
                              OwnerFromWithin, IInv, TypeOK
    <2>9. ASSUME NEW a \in Users, NEW v \in Users, NEW successor, NEW y \in ReferenceObjects,
                 SuccessionAllowed(a, y, v, successor),
                 x = y => member'[x] = Succession(y, v, successor)
          PROVE  x = y => OwnerFromWithin(u, x)
      BY <1>1, <2>1, <2>9, ConstantFacts
         DEF Succession, SuccessionAllowed, IsOwner, OwnerFromWithin
    <2>10. ASSUME NEW a \in Users, NEW v \in Users, NEW successor, NEW p \in Projects,
                  DeleteProjectMembership(a, p, v, successor)
           PROVE  OwnerFromWithin(u, x)
      <3>1. /\ SuccessionAllowed(a, p, v, successor)
            /\ member' = [member EXCEPT ![p] = Succession(p, v, successor)]
        BY <2>10 DEF DeleteProjectMembership, LeaveProject
      <3>2. CASE x = p
        BY <1>1, <2>1, <2>9, <3>1, <3>2 DEF IInv, TypeOK
      <3>3. CASE x # p
        BY <1>1, <2>1, <3>1, <3>3 DEF IsOwner, IInv, TypeOK
      <3> QED BY <3>2, <3>3
    <2>11. ASSUME NEW a \in Users, NEW v \in Users, NEW successor,
                  DeleteWorkspaceMembership(a, v, successor)
           PROVE  OwnerFromWithin(u, x)
      <3> DEFINE owned == {p \in Projects : OnlyOwner(v, p)}
      <3>1. /\ SuccessionAllowed(a, Workspace, v, successor)
            /\ x = Workspace => member'[x] = Succession(x, v, successor)
            /\ x # Workspace => member'[x] =
                 IF x \in owned THEN [member[x] EXCEPT ![a] = Owner, ![v] = NoRole]
                 ELSE [member[x] EXCEPT ![v] = NoRole]
        BY <2>1, <2>11 DEF DeleteWorkspaceMembership, LeaveWorkspace
      <3>2. CASE x = Workspace
        BY <2>9, <3>1, <3>2
      <3>3. CASE x # Workspace
        <4>1. x \in owned /\ u = a
          BY <1>1, <2>1, <3>1, <3>3, ConstantFacts DEF IsOwner, IInv, TypeOK
        <4>2. IsMember(v, x)
          BY <4>1, ConstantFacts DEF OnlyOwner, IsOwner, IsMember
        <4>3. IsMember(u, x) \/ IsOwner(u, Workspace)
          BY <2>11, <4>1, <4>2 DEF DeleteWorkspaceMembership, LeaveWorkspace
        <4> QED BY <3>3, <4>3 DEF OwnerFromWithin
      <3> QED BY <3>2, <3>3
    <2>12. CASE RoleStep
      <3>1. member' = member \/ IsMember(u, x)
        <4>1. CASE \E a \in Users, p \in Projects, role \in Roles, perms \in PermissionSets :
                      CreateRole(a, p, role, perms) \/ UpdateRole(a, p, role, perms)
          BY <4>1 DEF CreateRole, AddRole, UpdateRole, ChangePermissions,
                      Editable
        <4>2. ASSUME NEW a \in Users, NEW p \in Projects, NEW role \in Roles,
                     NEW target \in Roles \cup {NoRole}, DeleteRole(a, p, role, target)
              PROVE  IsMember(u, x)
          <5>1. /\ role \in Roles
                /\ member'[x][u] = IF x = p /\ member[x][u] = role THEN target
                                   ELSE member[x][u]
            BY <1>1, <2>1, <4>2 DEF DeleteRole, RemoveRole, Editable, IInv,
                                    TypeOK
          <5>2. member[x][u] = role
            BY <1>1, <5>1 DEF IsOwner
          <5> QED BY <5>1, <5>2, ConstantsAssumption DEF IsMember
        <4> QED BY <2>12, <4>1, <4>2 DEF RoleStep
      <3> QED BY <2>6, <3>1 DEF OwnerFromWithin
    <2>13. CASE AssignmentStep \/ UNCHANGED vars
      BY <2>6, <2>13 DEF AssignmentStep, AssignStory, Assign, UnassignStory,
                         Unassign, vars
    <2> QED BY <1>1, <2>2, <2>4, <2>5, <2>7, <2>8, <2>10, <2>11, <2>12, <2>13
            DEF Next, AccountStep, MemberStep
  <1>2. IInv /\ [Next]_vars =>
          [\A x \in live \cap live', u \in Users : ~IsOwner(u, x) /\ IsOwner(u, x)' =>
              \/ IsMember(u, x)
              \/ IsPending(invitation[x][u]) /\ invitation[x][u].role = Owner
              \/ x # Workspace /\ IsOwner(u, Workspace)]_vars
    BY <1>1 DEF OwnerFromWithin
  <1> QED BY <1>2, AlwaysIInv, PTL DEF Spec, OwnersComeFromWithin
-----------------------------------------------------------------------------
(* Requests that overlap (MembershipRequests).                             *)

OpOf(req) == req.op \in Ops /\ req \in RequestOf(req.op)

\* What a request in progress knows for certain, whatever the others write: of
\* the operations that overlap, none takes anyone out of the workspace.
KnowsForCertain(req) ==
    /\ req.op \in RowOps => IsMember(req.u, Workspace)
    /\ req.succession =>
         req.op = "delete_member" /\ req.arg \in Users /\ IsMember(req.arg, Workspace)
    /\ req.step = "write" /\ req.op \in InvitationOps => req.row.status = "pending"
    /\ req.step = "write" /\ req.op = "accept" => req.row.linked

OverlapIInv ==
    /\ RequestsTypeOK
    /\ ProjectMembersAreInWorkspace
    /\ AcceptedInviteesAreMembers
    /\ \A r \in InProgress : KnowsForCertain(request[r])

LEMMA RequestFields ==
    ASSUME NEW op \in Ops, NEW req \in RequestOf(op)
    PROVE  /\ req.op = op /\ req.op \in Ops /\ req \in RequestOf(req.op)
           /\ req.step \in {"authorise", "validate", "write"}
           /\ req.x \in Projects /\ req.by \in Users /\ req.u \in Users
           /\ req.arg \in Arguments(op)
           /\ op \in RowOps => req.row \in Roles
           /\ op \in InvitationOps => req.row \in Invitations
           /\ req.gone \in BOOLEAN /\ req.heirGone \in BOOLEAN
           /\ req.alone \in BOOLEAN /\ req.succession \in BOOLEAN
           /\ req.role \in Roles \cup {NoRole}
           /\ op \in RowOps \cup InvitationOps \cup {"assign"}
  BY OpsAssumption DEF RequestOf, RowOps, InvitationOps

LEMMA WhatIsInProgress ==
    ASSUME RequestsTypeOK, NEW r \in InProgress
    PROVE  /\ r \in Requests /\ request[r] # NoRequest
           /\ request[r].op \in Ops
           /\ request[r] \in RequestOf(request[r].op)
  <1>1. PICK op \in Ops : request[r] \in RequestOf(op)
    BY DEF RequestsTypeOK, InProgress
  <1> QED BY <1>1, RequestFields DEF InProgress

\* What a request becomes when another begins, when its author is authorised,
\* when it is validated, when another takes its rows away.
Accompanied(req) == [req EXCEPT !.alone = FALSE]

AsAuthorised(req, role) == [req EXCEPT !.step = "validate", !.role = role]

AsValidated(req, succession) == [req EXCEPT !.step = "write", !.succession = succession]

Overtaken(req, gone, heirGone) ==
    [req EXCEPT !.gone = @ \/ gone, !.heirGone = @ \/ heirGone]

SameRequest(new, req) ==
    /\ new.op = req.op /\ new.by = req.by /\ new.x = req.x /\ new.u = req.u
    /\ new.arg = req.arg /\ new.row = req.row

LEMMA AccompaniedFields ==
    ASSUME NEW op \in Ops, NEW req \in RequestOf(op)
    PROVE  /\ Accompanied(req) \in RequestOf(op)
           /\ SameRequest(Accompanied(req), req)
           /\ Accompanied(req).step = req.step
           /\ Accompanied(req).succession = req.succession
           /\ Accompanied(req).alone = FALSE
  BY DEF RequestOf, Accompanied, SameRequest

LEMMA AuthorisedFields ==
    ASSUME NEW op \in Ops, NEW req \in RequestOf(op), NEW role \in Roles \cup {NoRole}
    PROVE  LET new == AsAuthorised(req, role) IN
           /\ new \in RequestOf(op) /\ SameRequest(new, req)
           /\ new.step = "validate" /\ new.role = role
           /\ new.succession = req.succession /\ new.alone = req.alone
           /\ new.gone = req.gone /\ new.heirGone = req.heirGone
  BY DEF RequestOf, AsAuthorised, SameRequest

LEMMA ValidatedFields ==
    ASSUME NEW op \in Ops, NEW req \in RequestOf(op), NEW succession \in BOOLEAN
    PROVE  LET new == AsValidated(req, succession) IN
           /\ new \in RequestOf(op) /\ SameRequest(new, req)
           /\ new.step = "write" /\ new.role = req.role
           /\ new.succession = succession /\ new.alone = req.alone
           /\ new.gone = req.gone /\ new.heirGone = req.heirGone
  BY DEF RequestOf, AsValidated, SameRequest

LEMMA OvertakenFields ==
    ASSUME NEW op \in Ops, NEW req \in RequestOf(op),
           NEW gone \in BOOLEAN, NEW heirGone \in BOOLEAN
    PROVE  LET new == Overtaken(req, gone, heirGone) IN
           /\ new \in RequestOf(op) /\ SameRequest(new, req)
           /\ new.step = req.step /\ new.role = req.role
           /\ new.succession = req.succession /\ new.alone = req.alone
  BY DEF RequestOf, Overtaken, SameRequest

\* What the other requests know stays true as long as nobody leaves the
\* workspace.
LEMMA RequestsKeep ==
    ASSUME RequestsTypeOK, TypeOK', DOMAIN request' = Requests,
           \A u \in Users : IsMember(u, Workspace) => IsMember(u, Workspace)',
           \A q \in Requests :
             \/ request'[q] = NoRequest
             \/ /\ \E op \in Ops : request'[q] \in RequestOf(op)
                /\ KnowsForCertain(request'[q])
    PROVE  /\ RequestsTypeOK'
           /\ \A r \in InProgress' : KnowsForCertain(request[r])'
  <1>1. RequestsTypeOK'
    BY DEF RequestsTypeOK
  <1>2. ASSUME NEW r \in InProgress'
        PROVE  KnowsForCertain(request[r])'
    <2>1. r \in Requests /\ request'[r] # NoRequest
      BY DEF InProgress
    <2>2. PICK op \in Ops : request'[r] \in RequestOf(op)
      BY <2>1
    <2>3. request'[r].u \in Users
      BY <2>2, RequestFields
    <2>4. KnowsForCertain(request'[r])
      BY <2>1
    <2> QED BY <2>3, <2>4 DEF KnowsForCertain
  <1> QED BY <1>1, <1>2

LEMMA LoadKeeps ==
    ASSUME OverlapIInv, NEW r \in Requests, NEW op \in Ops, NEW by \in Users,
           NEW u \in Users, NEW x \in Projects, NEW arg \in Arguments(op),
           Load(r, op, by, x, u, arg)
    PROVE  OverlapIInv'
  <1> DEFINE new == [op |-> op, step |-> "authorise", by |-> by, x |-> x, u |-> u,
                     arg |-> arg, row |-> Row(op, x, u), gone |-> FALSE,
                     role |-> NoRole, succession |-> FALSE, heirGone |-> FALSE,
                     alone |-> InProgress = {}]
  <1>1. /\ request' = [q \in Requests |->
              IF q = r THEN new
              ELSE IF q \in InProgress THEN [request[q] EXCEPT !.alone = FALSE]
              ELSE NoRequest]
        /\ UNCHANGED vars
    BY DEF Load, Begin
  <1>2. Row(op, x, u) \in IF op \in RowOps THEN Roles
                          ELSE IF op \in InvitationOps THEN Invitations ELSE {NoRole}
    <2>1. x \in ReferenceObjects /\ TypeOK
      BY ConstantFacts DEF OverlapIInv, RequestsTypeOK
    <2> QED BY <2>1 DEF Load, Row, TypeOK, IsMember, HasInvitation
  <1>3. new \in RequestOf(op)
    <2> HIDE DEF Load
    <2>1. (InProgress = {}) \in BOOLEAN
      OBVIOUS
    <2> QED BY <1>2, <2>1 DEF RequestOf
  <1>4. KnowsForCertain(new)
    BY DEF KnowsForCertain, OverlapIInv, ProjectMembersAreInWorkspace, Load
  <1> HIDE DEF new
  <1>5. ASSUME NEW q \in Requests, request'[q] # NoRequest
        PROVE  /\ \E o \in Ops : request'[q] \in RequestOf(o)
               /\ KnowsForCertain(request'[q])
    <2>1. CASE q = r
      BY <1>1, <1>3, <1>4, <2>1
    <2>2. CASE q # r
      <3>1. q \in InProgress /\ request'[q] = Accompanied(request[q])
        BY <1>1, <1>5, <2>2 DEF Accompanied
      <3>2. /\ request[q].op \in Ops
            /\ request[q] \in RequestOf(request[q].op)
        BY <3>1, WhatIsInProgress DEF OverlapIInv
      <3>3. KnowsForCertain(request[q])
        BY <3>1 DEF OverlapIInv
      <3>4. /\ request'[q] \in RequestOf(request[q].op)
            /\ SameRequest(request'[q], request[q])
            /\ request'[q].step = request[q].step
            /\ request'[q].succession = request[q].succession
        BY <3>1, <3>2, AccompaniedFields
      <3> QED BY <3>2, <3>3, <3>4 DEF KnowsForCertain, SameRequest
    <2> QED BY <2>1, <2>2
  <1>6. TypeOK' /\ ProjectMembersAreInWorkspace' /\ AcceptedInviteesAreMembers'
    BY <1>1 DEF OverlapIInv, RequestsTypeOK, vars, TypeOK, IsMember, HasInvitation,
                ProjectMembersAreInWorkspace, AcceptedInviteesAreMembers
  <1>7. /\ DOMAIN request' = Requests
        /\ \A v \in Users : IsMember(v, Workspace) => IsMember(v, Workspace)'
    BY <1>1 DEF vars, IsMember
  <1> QED BY <1>5, <1>6, <1>7, RequestsKeep DEF OverlapIInv

\* A step that only reads: the request goes on with what it has read, or ends.
LEMMA ReadingKeeps ==
    ASSUME OverlapIInv, NEW r \in Requests, UNCHANGED vars,
           NEW new, request' = [request EXCEPT ![r] = new],
           \/ new = NoRequest
           \/ (\E op \in Ops : new \in RequestOf(op)) /\ KnowsForCertain(new)
    PROVE  OverlapIInv'
  <1>1. ASSUME NEW q \in Requests
        PROVE  request'[q] = IF q = r THEN new ELSE request[q]
    BY DEF OverlapIInv, RequestsTypeOK
  <1>2. ASSUME NEW q \in Requests, request'[q] # NoRequest
        PROVE  /\ \E o \in Ops : request'[q] \in RequestOf(o)
               /\ KnowsForCertain(request'[q])
    BY <1>1, <1>2 DEF OverlapIInv, RequestsTypeOK, InProgress
  <1>3. TypeOK' /\ ProjectMembersAreInWorkspace' /\ AcceptedInviteesAreMembers'
    BY DEF OverlapIInv, RequestsTypeOK, vars, TypeOK, IsMember, HasInvitation,
           ProjectMembersAreInWorkspace, AcceptedInviteesAreMembers
  <1>4. DOMAIN request' = Requests
    BY DEF OverlapIInv, RequestsTypeOK
  <1>5. \A v \in Users : IsMember(v, Workspace) => IsMember(v, Workspace)'
    BY DEF vars, IsMember
  <1> QED BY <1>2, <1>3, <1>4, <1>5, RequestsKeep DEF OverlapIInv

LEMMA AuthoriseKeeps ==
    ASSUME OverlapIInv, NEW r \in Requests, Authorise(r)
    PROVE  OverlapIInv'
  <1> DEFINE req == request[r]
             role == member[req.x][req.by]
             new == AsAuthorised(req, role)
  <1>1. r \in InProgress
    BY DEF Authorise, InProgress
  <1>2. req \in RequestOf(req.op) /\ req.op \in Ops /\ KnowsForCertain(req)
    BY <1>1, WhatIsInProgress DEF OverlapIInv
  <1>3. role \in Roles \cup {NoRole}
    BY <1>2, RequestFields DEF OverlapIInv, RequestsTypeOK, TypeOK, ReferenceObjects
  <1>4. CASE Authorised(req)
    <2>1. request' = [request EXCEPT ![r] = new] /\ UNCHANGED vars
      BY <1>4 DEF Authorise, Read, AsAuthorised
    <2>2. new \in RequestOf(req.op) /\ KnowsForCertain(new)
      <3>1. /\ new \in RequestOf(req.op) /\ SameRequest(new, req)
            /\ new.step = "validate" /\ new.succession = req.succession
        BY <1>2, <1>3, AuthorisedFields
      <3> QED BY <1>2, <3>1 DEF KnowsForCertain, SameRequest
    <2> HIDE DEF new
    <2> QED BY <1>2, <2>1, <2>2, ReadingKeeps
  <1>5. CASE ~Authorised(req)
    BY <1>5, ReadingKeeps DEF Authorise, Finish
  <1> QED BY <1>4, <1>5

LEMMA ValidateKeeps ==
    ASSUME OverlapIInv, NEW r \in Requests, Validate(r)
    PROVE  OverlapIInv'
  <1> DEFINE req == request[r]
             succession == req.op = "delete_member" /\ OnlyOwnerAsRead(req)
             new == AsValidated(req, succession)
  <1>1. r \in InProgress
    BY DEF Validate, InProgress
  <1>2. req \in RequestOf(req.op) /\ req.op \in Ops /\ KnowsForCertain(req)
    BY <1>1, WhatIsInProgress DEF OverlapIInv
  <1>3. succession \in BOOLEAN
    BY DEF OnlyOwnerAsRead
  <1>4. CASE Valid(req)
    <2>1. request' = [request EXCEPT ![r] = new] /\ UNCHANGED vars
      BY <1>4 DEF Validate, Read, AsValidated
    <2>2. new \in RequestOf(req.op) /\ KnowsForCertain(new)
      <3>1. /\ new \in RequestOf(req.op) /\ SameRequest(new, req)
            /\ new.step = "write" /\ new.succession = succession
        BY <1>2, <1>3, ValidatedFields
      <3>2. succession => req.arg \in Users /\ IsMember(req.arg, Workspace)
        BY <1>2, <1>4, RequestFields
           DEF Valid, OverlapIInv, ProjectMembersAreInWorkspace
      <3>3. /\ req.op \in InvitationOps => req.row.status = "pending"
            /\ req.op = "accept" => req.row.linked
        BY <1>4 DEF Valid, InvitationOps
      <3> HIDE DEF succession, new
      <3> QED BY <1>2, <3>1, <3>2, <3>3
             DEF KnowsForCertain, SameRequest, succession
    <2> HIDE DEF new
    <2> QED BY <1>2, <2>1, <2>2, ReadingKeeps
  <1>5. CASE ~Valid(req)
    BY <1>5, ReadingKeeps DEF Validate, Finish
  <1> QED BY <1>4, <1>5

LEMMA FinishKeeps ==
    ASSUME OverlapIInv, NEW r \in Requests, Finish(r), TypeOK',
           \A u \in Users : IsMember(u, Workspace) => IsMember(u, Workspace)'
    PROVE  /\ RequestsTypeOK'
           /\ \A q \in InProgress' : KnowsForCertain(request[q])'
  <1>1. ASSUME NEW q \in Requests
        PROVE  request'[q] = IF q = r THEN NoRequest ELSE request[q]
    BY DEF OverlapIInv, RequestsTypeOK, Finish
  <1>2. ASSUME NEW q \in Requests, request'[q] # NoRequest
        PROVE  /\ \E o \in Ops : request'[q] \in RequestOf(o)
               /\ KnowsForCertain(request'[q])
    BY <1>1, <1>2 DEF OverlapIInv, RequestsTypeOK, InProgress
  <1>3. DOMAIN request' = Requests
    BY DEF OverlapIInv, RequestsTypeOK, Finish
  <1> QED BY <1>2, <1>3, RequestsKeep DEF OverlapIInv

LEMMA FinishRemovingKeeps ==
    ASSUME OverlapIInv, NEW r \in Requests, NEW x, NEW u, FinishRemoving(r, x, u), TypeOK',
           \A v \in Users : IsMember(v, Workspace) => IsMember(v, Workspace)'
    PROVE  /\ RequestsTypeOK'
           /\ \A q \in InProgress' : KnowsForCertain(request[q])'
  <1> DEFINE gone(q) == request[q].x = x /\ request[q].u = u /\ request[q].row # NoRole
             heirGone(q) == request[q].x = x /\ request[q].arg = u /\ request[q].succession
  <1>1. ASSUME NEW q \in Requests
        PROVE  request'[q] = IF q = r \/ request[q] = NoRequest THEN NoRequest
                             ELSE Overtaken(request[q], gone(q), heirGone(q))
    <2>1. CASE q = r
      BY <2>1 DEF OverlapIInv, RequestsTypeOK, FinishRemoving
    <2>2. CASE q # r /\ request[q] = NoRequest
      BY <2>2 DEF OverlapIInv, RequestsTypeOK, FinishRemoving
    <2>3. CASE q # r /\ request[q] # NoRequest
      BY <2>3, Zenon DEF OverlapIInv, RequestsTypeOK, FinishRemoving, Overtaken
    <2> QED BY <2>1, <2>2, <2>3
  <1>2. ASSUME NEW q \in Requests, request'[q] # NoRequest
        PROVE  /\ \E o \in Ops : request'[q] \in RequestOf(o)
               /\ KnowsForCertain(request'[q])
    <2>1. q \in InProgress /\ request'[q] = Overtaken(request[q], gone(q), heirGone(q))
      BY <1>1, <1>2 DEF InProgress
    <2>2. request[q].op \in Ops /\ request[q] \in RequestOf(request[q].op)
      BY <2>1, WhatIsInProgress DEF OverlapIInv
    <2>3. gone(q) \in BOOLEAN /\ heirGone(q) \in BOOLEAN
      <3>1. request[q].succession \in BOOLEAN
        BY <2>2, RequestFields
      <3> QED BY <3>1
    <2>4. KnowsForCertain(request[q])
      BY <2>1 DEF OverlapIInv
    <2> HIDE DEF gone, heirGone
    <2>5. /\ request'[q] \in RequestOf(request[q].op)
          /\ SameRequest(request'[q], request[q])
          /\ request'[q].step = request[q].step
          /\ request'[q].succession = request[q].succession
      BY <2>1, <2>2, <2>3, OvertakenFields
    <2> QED BY <2>2, <2>4, <2>5 DEF KnowsForCertain, SameRequest
  <1>3. DOMAIN request' = Requests
    BY DEF FinishRemoving
  <1> QED BY <1>2, <1>3, RequestsKeep DEF OverlapIInv

LEMMA WhatIsWritten ==
    ASSUME OverlapIInv, NEW r \in Requests, NEW op, Writing(r, op)
    PROVE  /\ request[r].op = op /\ op \in Ops /\ request[r].step = "write"
           /\ request[r] \in RequestOf(op) /\ KnowsForCertain(request[r])
           /\ request[r].x \in Projects /\ request[r].x \in ReferenceObjects
           /\ request[r].x # Workspace
           /\ request[r].by \in Users /\ request[r].u \in Users
           /\ request[r].arg \in Arguments(op)
           /\ op \in RowOps => request[r].row \in Roles
           /\ op \in InvitationOps => request[r].row \in Invitations
  <1>1. r \in InProgress /\ request[r].op = op /\ request[r].step = "write"
    BY DEF Writing, InProgress
  <1>2. op \in Ops /\ request[r] \in RequestOf(op) /\ KnowsForCertain(request[r])
    BY <1>1, WhatIsInProgress DEF OverlapIInv
  <1>3. request[r].x \in Projects
    BY <1>2, RequestFields
  <1> QED BY <1>1, <1>2, <1>3, RequestFields, ConstantsAssumption, ConstantFacts

\* A row of a project that is written does not take anyone out of the workspace.
LEMMA WriteRoleKeeps ==
    ASSUME OverlapIInv, NEW r \in Requests, WriteRole(r)
    PROVE  OverlapIInv'
  <1> DEFINE req == request[r]
  <1>1. Writing(r, "update_member") /\ Finish(r)
    BY DEF WriteRole
  <1>2. /\ req.x \in Projects /\ req.x # Workspace /\ req.u \in Users
        /\ IsMember(req.u, Workspace) /\ req.arg \in Roles
    BY <1>1, WhatIsWritten DEF KnowsForCertain, RowOps, Arguments
  <1>3. TypeOK /\ req.x \in ReferenceObjects /\ Workspace \in ReferenceObjects
    BY <1>2, ConstantFacts DEF OverlapIInv, RequestsTypeOK
  <1> HIDE DEF req
  <1>4. ASSUME NEW y \in ReferenceObjects, NEW v \in Users
        PROVE  /\ member'[y][v] = member[y][v]
                  \/ (y = req.x /\ v = req.u /\ member'[y][v] = req.arg)
               /\ UNCHANGED <<active, live, roles, permissions, invitation, assignees>>
    <2>1. /\ member' \in {member, [member EXCEPT ![req.x][req.u] = req.arg]}
          /\ UNCHANGED <<active, live, roles, permissions, invitation, assignees>>
      BY DEF WriteRole, req
    <2> QED BY <2>1, <1>2, <1>3 DEF TypeOK
  <1>5. TypeOK'
    BY <1>2, <1>3 DEF WriteRole, TypeOK, req
  <1>6. ASSUME NEW y \in ReferenceObjects, NEW v \in Users
        PROVE  /\ IsMember(v, y) => IsMember(v, y)'
               /\ IsMember(v, y)' => IsMember(v, y) \/ (y = req.x /\ v = req.u)
    BY <1>2, <1>4, ConstantsAssumption DEF IsMember
  <1>7. ProjectMembersAreInWorkspace'
    BY <1>2, <1>3, <1>6, ConstantFacts DEF OverlapIInv, ProjectMembersAreInWorkspace
  <1>8. AcceptedInviteesAreMembers'
    BY <1>4, <1>6 DEF OverlapIInv, AcceptedInviteesAreMembers, HasInvitation
  <1>9. RequestsTypeOK' /\ \A q \in InProgress' : KnowsForCertain(request[q])'
    BY <1>1, <1>3, <1>5, <1>6, FinishKeeps
  <1> QED BY <1>7, <1>8, <1>9 DEF OverlapIInv

LEMMA WriteDeletionKeeps ==
    ASSUME OverlapIInv, NEW r \in Requests, WriteDeletion(r)
    PROVE  OverlapIInv'
  <1> DEFINE req == request[r]
             promoted == IF req.succession
                         THEN [member EXCEPT ![req.x][req.arg] = Owner] ELSE member
  <1>1. Writing(r, "delete_member")
    BY DEF WriteDeletion
  <1>2. /\ req.x \in Projects /\ req.x # Workspace /\ req.u \in Users
        /\ req.x \in ReferenceObjects
        /\ req.succession => req.arg \in Users /\ IsMember(req.arg, Workspace)
    BY <1>1, WhatIsWritten DEF KnowsForCertain
  <1>3. TypeOK /\ Workspace \in ReferenceObjects
    BY ConstantFacts DEF OverlapIInv, RequestsTypeOK
  <1>4. /\ UNCHANGED <<active, live, roles, permissions>>
        /\ \/ Finish(r) /\ UNCHANGED <<member, invitation, assignees>>
           \/ member' = promoted /\ Finish(r) /\ UNCHANGED <<invitation, assignees>>
           \/ /\ member' = [promoted EXCEPT ![req.x][req.u] = NoRole]
              /\ assignees' = [assignees EXCEPT ![req.x] = AssigneesWithout(req.x, req.u)]
              /\ invitation' = [invitation EXCEPT ![req.x] = InvitationsWithout(req.x, req.u)]
              /\ FinishRemoving(r, req.x, req.u)
    BY DEF WriteDeletion
  <1> HIDE DEF req
  <1>5. /\ promoted \in [ReferenceObjects -> [Users -> Roles \cup {NoRole}]]
        /\ \A y \in ReferenceObjects, v \in Users :
             promoted[y][v] = IF req.succession /\ y = req.x /\ v = req.arg THEN Owner
                              ELSE member[y][v]
    BY <1>2, <1>3, ConstantFacts DEF TypeOK
  <1> HIDE DEF promoted
  <1>6. TypeOK'
    <2>1. /\ AssigneesWithout(req.x, req.u) \in SUBSET Users
          /\ InvitationsWithout(req.x, req.u) \in [Users -> Invitations \cup {NoInvitation}]
      BY <1>2, <1>3, InvitationsWithoutType DEF TypeOK, AssigneesWithout
    <2>2. member' \in {member, promoted, [promoted EXCEPT ![req.x][req.u] = NoRole]}
      BY <1>4
    <2>3. member' \in [ReferenceObjects -> [Users -> Roles \cup {NoRole}]]
      <3>1. [promoted EXCEPT ![req.x][req.u] = NoRole]
               \in [ReferenceObjects -> [Users -> Roles \cup {NoRole}]]
        BY <1>2, <1>5
      <3> QED BY <1>3, <1>5, <2>2, <3>1 DEF TypeOK
    <2>4. assignees' \in [Projects -> SUBSET Users]
      <3>1. \/ assignees' = assignees
            \/ assignees' = [assignees EXCEPT ![req.x] = AssigneesWithout(req.x, req.u)]
        BY <1>4
      <3> QED BY <1>2, <1>3, <2>1, <3>1 DEF TypeOK
    <2>5. invitation' \in [ReferenceObjects -> [Users -> Invitations \cup {NoInvitation}]]
      <3>1. \/ invitation' = invitation
            \/ invitation' = [invitation EXCEPT ![req.x] = InvitationsWithout(req.x, req.u)]
        BY <1>4
      <3> QED BY <1>2, <1>3, <2>1, <3>1 DEF TypeOK
    <2> QED BY <1>3, <1>4, <2>3, <2>4, <2>5 DEF TypeOK
  <1>7. ASSUME NEW y \in ReferenceObjects, NEW v \in Users
        PROVE  /\ IsMember(v, y)' =>
                    IsMember(v, y) \/ (y = req.x /\ req.succession /\ v = req.arg)
               /\ IsMember(v, y) =>
                    IsMember(v, y)' \/ (y = req.x /\ v = req.u /\ ~HasInvitation(v, y)')
               /\ invitation'[y][v] = invitation[y][v] \/ ~HasInvitation(v, y)'
    <2>1. CASE UNCHANGED <<member, invitation>>
      BY <2>1 DEF IsMember
    <2>2. CASE member' = promoted /\ UNCHANGED invitation
      BY <2>2, <1>5, ConstantFacts DEF IsMember
    <2>3. CASE /\ member' = [promoted EXCEPT ![req.x][req.u] = NoRole]
               /\ invitation' = [invitation EXCEPT ![req.x] = InvitationsWithout(req.x, req.u)]
      <3>1. member'[y][v] = IF y = req.x /\ v = req.u THEN NoRole ELSE promoted[y][v]
        BY <2>3, <1>2, <1>5
      <3>2. invitation'[y][v] = IF y = req.x /\ v = req.u THEN NoInvitation
                                ELSE invitation[y][v]
        BY <2>3, <1>2, <1>3 DEF TypeOK, InvitationsWithout
      <3> QED BY <3>1, <3>2, <1>5, ConstantFacts DEF IsMember, HasInvitation
    <2> QED BY <1>4, <2>1, <2>2, <2>3
  <1>8. \A v \in Users : IsMember(v, Workspace) => IsMember(v, Workspace)'
    BY <1>2, <1>3, <1>7
  <1>9. ProjectMembersAreInWorkspace'
    BY <1>2, <1>3, <1>7, <1>8, ConstantFacts DEF OverlapIInv, ProjectMembersAreInWorkspace
  <1>10. AcceptedInviteesAreMembers'
    BY <1>7 DEF OverlapIInv, AcceptedInviteesAreMembers, HasInvitation
  <1>11. RequestsTypeOK' /\ \A q \in InProgress' : KnowsForCertain(request[q])'
    BY <1>4, <1>6, <1>8, FinishKeeps, FinishRemovingKeeps
  <1> QED BY <1>9, <1>10, <1>11 DEF OverlapIInv

LEMMA WriteInvitationKeeps ==
    ASSUME OverlapIInv, NEW r \in Requests, WriteInvitation(r)
    PROVE  OverlapIInv'
  <1> DEFINE req == request[r]
             new == Answered(req)
  <1>1. PICK op \in InvitationOps \ {"accept"} : Writing(r, op)
    BY DEF WriteInvitation
  <1>2. /\ req.x \in Projects /\ req.x \in ReferenceObjects /\ req.u \in Users
        /\ req.op = op /\ req.row \in Invitations /\ req.arg \in Arguments(op)
        /\ req.row.status = "pending"
    BY <1>1, WhatIsWritten DEF KnowsForCertain
  <1>3. /\ Finish(r)
        /\ invitation' \in {invitation, [invitation EXCEPT ![req.x][req.u] = new]}
        /\ UNCHANGED <<active, live, roles, permissions, member, assignees>>
    BY DEF WriteInvitation
  <1> HIDE DEF req
  <1>4. new \in Invitations /\ new.status # "accepted"
    <2>1. op \in {"revoke", "deny", "update_invitation", "resend"}
      BY DEF InvitationOps
    <2>2. CASE op = "update_invitation"
      <3>1. req.arg \in Roles
        BY <1>2, <2>2 DEF Arguments
      <3> QED BY <1>2, <2>2, <3>1 DEF Answered, Invitations
    <2>3. CASE op \in {"revoke", "deny", "resend"}
      BY <1>2, <2>3 DEF Answered, Invitations, Statuses
    <2> QED BY <2>1, <2>2, <2>3
  <1> HIDE DEF new
  <1>5. TypeOK /\ new # NoInvitation
    BY <1>4, NoInvitationAssumption DEF OverlapIInv, RequestsTypeOK
  <1>6. TypeOK'
    <2>1. [invitation EXCEPT ![req.x][req.u] = new]
             \in [ReferenceObjects -> [Users -> Invitations \cup {NoInvitation}]]
      BY <1>2, <1>4, <1>5 DEF TypeOK
    <2> QED BY <1>3, <1>5, <2>1 DEF TypeOK
  <1>7. ASSUME NEW y \in ReferenceObjects, NEW v \in Users
        PROVE  /\ invitation'[y][v] = invitation[y][v] \/ invitation'[y][v] = new
               /\ IsMember(v, y)' <=> IsMember(v, y)
    <2>1. [invitation EXCEPT ![req.x][req.u] = new][y][v] \in {invitation[y][v], new}
      BY <1>2, <1>5 DEF TypeOK
    <2> QED BY <1>3, <2>1 DEF IsMember
  <1>8. AcceptedInviteesAreMembers'
    BY <1>4, <1>7 DEF OverlapIInv, AcceptedInviteesAreMembers, HasInvitation
  <1>9. ProjectMembersAreInWorkspace'
    BY <1>7, ConstantFacts DEF OverlapIInv, ProjectMembersAreInWorkspace
  <1>10. RequestsTypeOK' /\ \A q \in InProgress' : KnowsForCertain(request[q])'
    BY <1>3, <1>6, <1>7, ConstantFacts, FinishKeeps
  <1> QED BY <1>8, <1>9, <1>10 DEF OverlapIInv

\* What accepting an invitation to a project does, whatever was read.
LEMMA AcceptanceEffect ==
    ASSUME TypeOK, NEW inv \in InvitationsType, NEW x \in Projects, NEW u \in Users,
           CanAccept(inv, x, u),
           member' = MemberOnAccept(inv, x, u),
           invitation' = InvitationOnAccept(inv, x, u),
           NEW y \in ReferenceObjects, NEW v \in Users
    PROVE  /\ IsMember(v, y) => IsMember(v, y)'
           /\ IsMember(v, y)' => IsMember(v, y) \/ v = u
           /\ member'[Workspace][u] # NoRole
           /\ invitation'[y][v] = inv[y][v] \/ IsMember(v, y)'
  <1>1. ASSUME NEW z \in Accepted(inv, x, u)
        PROVE  z \in ReferenceObjects /\ inv[z][u].role \in Roles
    <2>1. z \in ReferenceObjects /\ IsPending(inv[z][u])
      BY <1>1, ConstantFacts DEF Accepted, AcceptsWorkspace, CanAccept
    <2> QED BY <2>1, PendingInvitation DEF Invitations
  <1>2. ASSUME NEW z \in ReferenceObjects, NEW w \in Users
        PROVE  member'[z][w] = IF w # u THEN member[z][w]
                               ELSE IF z \in Accepted(inv, x, u) THEN inv[z][u].role
                               ELSE IF z = Workspace /\ JoinsWorkspace(x, u) THEN DefaultRole
                               ELSE member[z][w]
    BY DEF MemberOnAccept, TypeOK
  <1>3. ASSUME NEW z \in ReferenceObjects
        PROVE  IsMember(u, z)' <=> \/ IsMember(u, z) \/ z \in Accepted(inv, x, u)
                                   \/ z = Workspace
    <2>1. x # Workspace
      BY ConstantsAssumption
    <2> QED BY <1>1, <1>2, <2>1, ConstantsAssumption, ConstantFacts
            DEF IsMember, JoinsWorkspace
  <1>4. invitation'[y][v] = inv[y][v] \/ (v = u /\ y \in Accepted(inv, x, u))
    BY DEF InvitationOnAccept, InvitationsType
  <1> QED BY <1>2, <1>3, <1>4, ConstantFacts DEF IsMember

LEMMA WriteAcceptanceKeeps ==
    ASSUME OverlapIInv, NEW r \in Requests, WriteAcceptance(r)
    PROVE  OverlapIInv'
  <1> DEFINE req == request[r]
             inv == [invitation EXCEPT ![req.x][req.u] = req.row]
  <1>1. Writing(r, "accept") /\ Finish(r)
    BY DEF WriteAcceptance
  <1>2. /\ req.x \in Projects /\ req.x \in ReferenceObjects /\ req.u \in Users
        /\ req.row \in Invitations /\ req.row.status = "pending" /\ req.row.linked
    BY <1>1, WhatIsWritten DEF KnowsForCertain, InvitationOps
  <1>3. TypeOK
    BY DEF OverlapIInv, RequestsTypeOK
  <1>4. /\ UNCHANGED <<active, live, roles, permissions, assignees>>
        /\ \/ UNCHANGED <<member, invitation>>
           \/ /\ ~IsMember(req.u, req.x)
              /\ member' = MemberOnAccept(inv, req.x, req.u)
              /\ invitation' = InvitationOnAccept(inv, req.x, req.u)
    BY DEF WriteAcceptance
  <1> HIDE DEF req
  <1>5. inv \in InvitationsType /\ inv[req.x][req.u] = req.row
    BY <1>2, <1>3 DEF TypeOK, InvitationsType
  <1>6. ASSUME NEW y \in ReferenceObjects, NEW v \in Users
        PROVE  inv[y][v] = invitation[y][v] \/ inv[y][v].status = "pending"
    BY <1>2, <1>3 DEF TypeOK
  <1> HIDE DEF inv
  <1>7. CASE UNCHANGED <<member, invitation>>
    <2>1. UNCHANGED vars
      BY <1>4, <1>7 DEF vars
    <2> QED BY <1>1, <2>1, ReadingKeeps DEF Finish
  <1>8. CASE /\ ~IsMember(req.u, req.x)
             /\ member' = MemberOnAccept(inv, req.x, req.u)
             /\ invitation' = InvitationOnAccept(inv, req.x, req.u)
    <2>1. CanAccept(inv, req.x, req.u)
      BY <1>2, <1>5, <1>8, NoInvitationAssumption DEF CanAccept, IsPending
    <2>2. TypeOK'
      BY <1>2, <1>3, <1>4, <1>5, <1>8, <2>1, OnAcceptType DEF TypeOK, InvitationsType
    <2>3. ASSUME NEW y \in ReferenceObjects, NEW v \in Users
          PROVE  /\ IsMember(v, y) => IsMember(v, y)'
                 /\ IsMember(v, y)' => IsMember(v, y) \/ v = req.u
                 /\ member'[Workspace][req.u] # NoRole
                 /\ invitation'[y][v] = inv[y][v] \/ IsMember(v, y)'
      BY <1>2, <1>3, <1>5, <1>8, <2>1, AcceptanceEffect
    <2>4. ProjectMembersAreInWorkspace'
      <3>1. ASSUME NEW p \in Projects, NEW v \in Users, IsMember(v, p)'
            PROVE  IsMember(v, Workspace)'
        <4>1. p \in ReferenceObjects /\ Workspace \in ReferenceObjects
          BY ConstantFacts
        <4>2. CASE v = req.u
          BY <2>3, <4>1, <4>2 DEF IsMember
        <4>3. CASE v # req.u
          <5>1. IsMember(v, p)
            BY <2>3, <3>1, <4>1, <4>3
          <5> QED BY <2>3, <4>1, <5>1 DEF OverlapIInv, ProjectMembersAreInWorkspace
        <4> QED BY <4>2, <4>3
      <3> QED BY <3>1 DEF ProjectMembersAreInWorkspace
    <2>5. AcceptedInviteesAreMembers'
      BY <1>6, <2>3 DEF OverlapIInv, AcceptedInviteesAreMembers, HasInvitation
    <2>6. RequestsTypeOK' /\ \A q \in InProgress' : KnowsForCertain(request[q])'
      BY <1>1, <2>2, <2>3, ConstantFacts, FinishKeeps
    <2> QED BY <2>4, <2>5, <2>6 DEF OverlapIInv
  <1> QED BY <1>4, <1>7, <1>8

LEMMA WriteAssignmentKeeps ==
    ASSUME OverlapIInv, NEW r \in Requests, WriteAssignment(r)
    PROVE  OverlapIInv'
  <1>1. /\ Writing(r, "assign") /\ Finish(r)
        /\ assignees' = [assignees EXCEPT ![request[r].x] = @ \cup {request[r].u}]
        /\ UNCHANGED <<active, live, roles, permissions, member, invitation>>
    BY DEF WriteAssignment
  <1>2. request[r].x \in Projects /\ request[r].u \in Users
    BY <1>1, WhatIsWritten
  <1>3. TypeOK'
    BY <1>1, <1>2 DEF OverlapIInv, RequestsTypeOK, TypeOK
  <1>4. ProjectMembersAreInWorkspace' /\ AcceptedInviteesAreMembers'
    BY <1>1 DEF OverlapIInv, ProjectMembersAreInWorkspace, AcceptedInviteesAreMembers,
                IsMember, HasInvitation
  <1>5. \A v \in Users : IsMember(v, Workspace) => IsMember(v, Workspace)'
    BY <1>1 DEF IsMember
  <1> QED BY <1>1, <1>3, <1>4, <1>5, FinishKeeps DEF OverlapIInv

LEMMA RequestsInitially == RequestsInit => OverlapIInv
  <1> SUFFICES ASSUME RequestsInit
               PROVE  OverlapIInv
    OBVIOUS
  <1>1. PICK team \in [Projects -> [Users -> {NoRole} \cup DOMAIN ProjectTemplate]] :
          member = [x \in ReferenceObjects |->
            IF x = Workspace
            THEN [u \in Users |-> IF \E p \in Projects : team[p][u] # NoRole
                                 THEN Owner ELSE NoRole]
            ELSE team[x]]
    BY DEF RequestsInit
  <1>2. PICK invited \in [Projects -> [Users -> {NoRole} \cup DOMAIN ProjectTemplate]] :
          invitation = [x \in ReferenceObjects |-> [u \in Users |->
              IF x = Workspace THEN NoInvitation
              ELSE IF invited[x][u] = NoRole THEN NoInvitation
              ELSE [status |-> "pending", role |-> invited[x][u], linked |-> TRUE]]]
    BY DEF RequestsInit
  <1>3. member \in [ReferenceObjects -> [Users -> Roles \cup {NoRole}]]
    BY <1>1, ConstantFacts, ConstantsAssumption DEF ReferenceObjects
  <1>4. ASSUME NEW x \in ReferenceObjects, NEW u \in Users
        PROVE  invitation[x][u] \in Invitations \cup {NoInvitation}
    <2>1. CASE x = Workspace \/ invited[x][u] = NoRole
      BY <1>2, <2>1
    <2>2. CASE x # Workspace /\ invited[x][u] # NoRole
      <3>1. invited[x][u] \in Roles
        BY <2>2, ConstantsAssumption DEF ReferenceObjects
      <3>2. invitation[x][u] = [status |-> "pending", role |-> invited[x][u], linked |-> TRUE]
        BY <1>2, <2>2
      <3> QED BY <3>1, <3>2 DEF Invitations, Statuses
    <2> QED BY <2>1, <2>2
  <1>5. invitation \in [ReferenceObjects -> [Users -> Invitations \cup {NoInvitation}]]
    BY <1>2, <1>4
  <1>6. /\ roles \in [ReferenceObjects -> SUBSET Roles]
        /\ permissions \in [ReferenceObjects -> [Roles -> SUBSET Permissions]]
    BY DefaultPermissionsType, ConstantsAssumption DEF RequestsInit
  <1>7. TypeOK
    BY <1>3, <1>5, <1>6 DEF RequestsInit, TypeOK
  <1>8. ProjectMembersAreInWorkspace
    BY <1>1, ConstantFacts, ConstantsAssumption
       DEF ProjectMembersAreInWorkspace, IsMember, ReferenceObjects
  <1>9. AcceptedInviteesAreMembers
    BY <1>2 DEF AcceptedInviteesAreMembers, HasInvitation
  <1>10. RequestsTypeOK /\ InProgress = {}
    BY <1>7 DEF RequestsInit, RequestsTypeOK, InProgress
  <1> QED BY <1>8, <1>9, <1>10 DEF OverlapIInv

LEMMA EveryRequestKeeps == OverlapIInv /\ [RequestsNext]_requestVars => OverlapIInv'
  <1> SUFFICES ASSUME OverlapIInv, [RequestsNext]_requestVars
               PROVE  OverlapIInv'
    OBVIOUS
  <1>1. CASE UNCHANGED requestVars
    BY <1>1 DEF requestVars, vars, OverlapIInv, RequestsTypeOK, TypeOK, InProgress,
                ProjectMembersAreInWorkspace, AcceptedInviteesAreMembers,
                KnowsForCertain, IsMember, HasInvitation
  <1>2. ASSUME NEW r \in Requests, NEW op \in Ops, NEW by \in Users, NEW u \in Users,
               NEW x \in Projects, NEW arg \in Arguments(op),
               Load(r, op, by, x, u, arg)
        PROVE  OverlapIInv'
    BY <1>2, LoadKeeps
  <1>3. ASSUME NEW r \in Requests, RequestStep(r)
        PROVE  OverlapIInv'
    BY <1>3, AuthoriseKeeps, ValidateKeeps, WriteRoleKeeps, WriteDeletionKeeps,
       WriteInvitationKeeps, WriteAcceptanceKeeps, WriteAssignmentKeeps
       DEF RequestStep
  <1> QED BY <1>1, <1>2, <1>3 DEF RequestsNext

LEMMA AlwaysOverlapIInv == RequestsSpec => []OverlapIInv
  BY RequestsInitially, EveryRequestKeeps, PTL DEF RequestsSpec

THEOREM RequestsAreTyped == RequestsSpec => []RequestsTypeOK
  <1>1. OverlapIInv => RequestsTypeOK
    BY DEF OverlapIInv
  <1> QED BY <1>1, AlwaysOverlapIInv, PTL

\* Whatever requests overlap, nobody is left with an accepted invitation to what
\* they are not a member of.
THEOREM OverlappingRequestsMatchInvitations ==
    RequestsSpec => []AcceptedInviteesAreMembers
  <1>1. OverlapIInv => AcceptedInviteesAreMembers
    BY DEF OverlapIInv
  <1> QED BY <1>1, AlwaysOverlapIInv, PTL

-----------------------------------------------------------------------------
(* Requests that nothing overlaps.                                         *)

\* What a request that had no company has read is what there is.
AsRead(req) ==
    /\ ~req.gone /\ ~req.heirGone
    /\ req.row = Row(req.op, req.x, req.u)
    /\ req.op \in RowOps => IsMember(req.u, req.x)
    /\ req.op \in InvitationOps => HasInvitation(req.u, req.x)
    /\ req.op \in {"accept", "deny"} => req.by = req.u
    /\ req.step # "authorise" => Authorised(req) /\ req.role = member[req.x][req.by]
    /\ req.step = "write" =>
         /\ Valid(req)
         /\ req.succession = (req.op = "delete_member" /\ OnlyOwnerAsRead(req))

Undisturbed ==
    \A r \in InProgress : request[r].alone => InProgress = {r} /\ AsRead(request[r])

NothingElseChanges ==
    active = Users /\ \A x \in Projects : Owner \in roles[x]

LEMMA SameReading ==
    ASSUME NEW req, NEW new, SameRequest(new, req), new.role = req.role
    PROVE  /\ Authorised(new) <=> Authorised(req)
           /\ OnlyOwnerAsRead(new) <=> OnlyOwnerAsRead(req)
           /\ Valid(new) <=> Valid(req)
  <1>1. OnlyOwnerAsRead(new) <=> OnlyOwnerAsRead(req)
    BY DEF SameRequest, OnlyOwnerAsRead
  <1>2. Authorised(new) <=> Authorised(req)
    BY DEF SameRequest, Authorised, MayModifyOwner
  <1>3. Valid(new) <=> Valid(req)
    BY <1>1 DEF SameRequest, Valid
  <1> QED BY <1>1, <1>2, <1>3

LEMMA AuthorisedWithoutRole ==
    ASSUME NEW req, NEW new, SameRequest(new, req)
    PROVE  Authorised(new) <=> Authorised(req)
  BY DEF SameRequest, Authorised, MayModifyOwner

LEMMA StillAsRead ==
    ASSUME NEW r, UNCHANGED vars, AsRead(request'[r])
    PROVE  AsRead(request[r])'
  BY DEF AsRead, Row, Authorised, MayModifyOwner, OnlyOwnerAsRead, Valid,
         HasPermission, HasInvitation, IsMember, IsOwner, vars

LEMMA LoadedAsRead ==
    ASSUME NEW r \in Requests, NEW op \in Ops, NEW by, NEW u, NEW x, NEW arg,
           Load(r, op, by, x, u, arg), InProgress = {}
    PROVE  AsRead(request'[r])
  <1>1. /\ request'[r].op = op /\ request'[r].step = "authorise"
        /\ request'[r].by = by /\ request'[r].x = x /\ request'[r].u = u
        /\ request'[r].row = Row(op, x, u)
        /\ request'[r].gone = FALSE /\ request'[r].heirGone = FALSE
    BY DEF Load, Begin
  <1>2. /\ op \in RowOps => IsMember(u, x)
        /\ op \in InvitationOps => HasInvitation(u, x)
        /\ op \in {"accept", "deny"} => by = u
    BY DEF Load
  <1> QED BY <1>1, <1>2 DEF AsRead

LEMMA AuthorisedAsRead ==
    ASSUME NEW op \in Ops, NEW req \in RequestOf(op), AsRead(req), Authorised(req),
           NEW role \in Roles \cup {NoRole}, role = member[req.x][req.by]
    PROVE  AsRead(AsAuthorised(req, role))
  <1> DEFINE new == AsAuthorised(req, role)
  <1>1. /\ SameRequest(new, req)
        /\ new.step = "validate" /\ new.role = role
        /\ new.gone = req.gone /\ new.heirGone = req.heirGone
    BY AuthorisedFields
  <1> HIDE DEF new
  <1>2. Authorised(new)
    BY <1>1, AuthorisedWithoutRole
  <1> QED BY <1>1, <1>2 DEF AsRead, SameRequest, new

LEMMA ValidatedAsRead ==
    ASSUME NEW op \in Ops, NEW req \in RequestOf(op), AsRead(req), Valid(req),
           req.step = "validate",
           NEW succession \in BOOLEAN,
           succession = (req.op = "delete_member" /\ OnlyOwnerAsRead(req))
    PROVE  AsRead(AsValidated(req, succession))
  <1> DEFINE new == AsValidated(req, succession)
  <1>1. /\ SameRequest(new, req) /\ new.step = "write"
        /\ new.role = req.role /\ new.succession = succession
        /\ new.gone = req.gone /\ new.heirGone = req.heirGone
    BY ValidatedFields
  <1> HIDE DEF new
  <1>2. /\ Authorised(new) /\ Valid(new)
        /\ OnlyOwnerAsRead(new) <=> OnlyOwnerAsRead(req)
    BY <1>1, SameReading DEF AsRead
  <1> QED BY <1>1, <1>2 DEF AsRead, SameRequest, new

\* Nothing has company any more once it has had some.
LEMMA WritingLeavesNobodyAlone ==
    ASSUME RequestsTypeOK, Undisturbed, NEW r \in InProgress,
           request'[r] = NoRequest, DOMAIN request' = Requests,
           \A q \in Requests \ {r} : request'[q] # NoRequest =>
             request[q] # NoRequest /\ request'[q].alone = request[q].alone
    PROVE  Undisturbed'
  <1>1. ASSUME NEW q \in InProgress', request'[q].alone
        PROVE  FALSE
    <2>1. q \in Requests \ {r} /\ request[q] # NoRequest /\ request[q].alone
      BY <1>1 DEF InProgress
    <2>2. InProgress = {q}
      BY <2>1 DEF Undisturbed, InProgress
    <2> QED BY <2>1, <2>2
  <1> QED BY <1>1 DEF Undisturbed

LEMMA ReadingStaysUndisturbed ==
    ASSUME OverlapIInv, Undisturbed, NEW r \in InProgress, UNCHANGED vars,
           NEW new, request' = [request EXCEPT ![r] = new],
           \/ new = NoRequest
           \/ /\ new.alone = request[r].alone
              /\ AsRead(request[r]) => AsRead(new)
    PROVE  Undisturbed'
  <1>1. ASSUME NEW q \in Requests
        PROVE  request'[q] = IF q = r THEN new ELSE request[q]
    BY DEF OverlapIInv, RequestsTypeOK
  <1>2. r \in Requests /\ request[r] # NoRequest /\ DOMAIN request' = Requests
    BY DEF OverlapIInv, RequestsTypeOK, InProgress
  <1>3. CASE new = NoRequest
    BY <1>1, <1>2, <1>3, WritingLeavesNobodyAlone DEF OverlapIInv, InProgress
  <1>4. CASE new # NoRequest
    <2>1. ASSUME NEW q \in InProgress', request'[q].alone
          PROVE  InProgress' = {q} /\ AsRead(request[q])'
      <3>1. q \in Requests /\ request'[q] # NoRequest
        BY <2>1 DEF InProgress
      <3>2. q \in InProgress /\ request[q].alone
        BY <1>1, <1>2, <1>4, <2>1, <3>1 DEF InProgress
      <3>3. InProgress = {q} /\ AsRead(request[q])
        BY <3>2 DEF Undisturbed
      <3>4. q = r
        BY <3>3
      <3>5. AsRead(request'[q])
        BY <1>1, <1>2, <1>4, <3>3, <3>4
      <3>6. InProgress' = {q}
        BY <1>1, <1>2, <1>4, <3>3, <3>4 DEF InProgress
      <3> QED BY <3>5, <3>6, StillAsRead
    <2> QED BY <2>1 DEF Undisturbed
  <1> QED BY <1>3, <1>4

LEMMA LoadStaysUndisturbed ==
    ASSUME NEW r \in Requests, NEW op \in Ops, NEW by, NEW u, NEW x, NEW arg,
           OverlapIInv, Load(r, op, by, x, u, arg)
    PROVE  Undisturbed'
  <1>1. /\ request[r] = NoRequest /\ UNCHANGED vars
        /\ DOMAIN request' = Requests /\ request'[r].alone = (InProgress = {})
        /\ \A q \in Requests \ {r} : request'[q] =
             IF q \in InProgress THEN Accompanied(request[q]) ELSE NoRequest
    BY Zenon DEF Load, Begin, Accompanied
  <1>2. ASSUME NEW q \in InProgress', request'[q].alone
        PROVE  q = r /\ InProgress = {}
    <2>1. q \in Requests /\ request'[q] # NoRequest
      BY <1>2 DEF InProgress
    <2>2. CASE q = r
      BY <1>1, <1>2, <2>2
    <2>3. CASE q # r
      <3>1. q \in InProgress /\ request'[q] = Accompanied(request[q])
        BY <1>1, <2>1, <2>3
      <3>2. request'[q].alone = FALSE
        <4>1. request[q].op \in Ops /\ request[q] \in RequestOf(request[q].op)
          BY <3>1, WhatIsInProgress DEF OverlapIInv
        <4>2. Accompanied(request[q]).alone = FALSE
          BY ONLY <4>1, AccompaniedFields
        <4> QED BY <3>1, <4>2
      <3> QED BY <1>2, <3>2
    <2> QED BY <2>2, <2>3
  <1>3. InProgress = {} => InProgress' \subseteq {r}
    BY <1>1 DEF InProgress
  <1>4. InProgress = {} => AsRead(request[r])'
    BY <1>1, LoadedAsRead, StillAsRead
  <1> QED BY <1>2, <1>3, <1>4 DEF Undisturbed

LEMMA ReadersStayUndisturbed ==
    ASSUME OverlapIInv, Undisturbed, NEW r \in Requests, Authorise(r) \/ Validate(r)
    PROVE  Undisturbed'
  <1> DEFINE req == request[r]
  <1>1. r \in InProgress
    BY DEF Authorise, Validate, InProgress
  <1>2. req \in RequestOf(req.op) /\ req.op \in Ops
    BY <1>1, WhatIsInProgress DEF OverlapIInv
  <1>3. ASSUME Authorise(r), Authorised(req)
        PROVE  Undisturbed'
    <2> DEFINE role == member[req.x][req.by]
               new == AsAuthorised(req, role)
    <2>1. request' = [request EXCEPT ![r] = new] /\ UNCHANGED vars
      BY <1>3 DEF Authorise, Read, AsAuthorised
    <2>2. role \in Roles \cup {NoRole}
      BY <1>2, RequestFields DEF OverlapIInv, RequestsTypeOK, TypeOK, ReferenceObjects
    <2>3. new.alone = req.alone
      BY <1>2, <2>2, AuthorisedFields
    <2>4. AsRead(req) => AsRead(new)
      <3> HIDE DEF role
      <3>1. role = member[req.x][req.by]
        BY DEF role
      <3> QED BY <1>2, <1>3, <2>2, <3>1, AuthorisedAsRead
    <2> HIDE DEF new
    <2> QED BY <1>1, <2>1, <2>3, <2>4, ReadingStaysUndisturbed
  <1>4. ASSUME Validate(r), Valid(req)
        PROVE  Undisturbed'
    <2> DEFINE succession == req.op = "delete_member" /\ OnlyOwnerAsRead(req)
               new == AsValidated(req, succession)
    <2>1. request' = [request EXCEPT ![r] = new] /\ UNCHANGED vars
      BY <1>4 DEF Validate, Read, AsValidated
    <2>2. succession \in BOOLEAN /\ req.step = "validate"
      BY <1>4 DEF OnlyOwnerAsRead, Validate
    <2>3. new.alone = req.alone
      <3> HIDE DEF succession
      <3> QED BY <1>2, <2>2, ValidatedFields
    <2>4. AsRead(req) => AsRead(new)
      <3>1. succession = (req.op = "delete_member" /\ OnlyOwnerAsRead(req))
        OBVIOUS
      <3> HIDE DEF succession
      <3> QED BY <1>2, <1>4, <2>2, <3>1, ValidatedAsRead
    <2> HIDE DEF new
    <2> QED BY <1>1, <2>1, <2>3, <2>4, ReadingStaysUndisturbed
  <1>5. CASE Authorise(r) /\ ~Authorised(req)
    BY <1>1, <1>5, ReadingStaysUndisturbed DEF Authorise, Finish
  <1>6. CASE Validate(r) /\ ~Valid(req)
    BY <1>1, <1>6, ReadingStaysUndisturbed DEF Validate, Finish
  <1> QED BY <1>3, <1>4, <1>5, <1>6

LEMMA WritersStayUndisturbed ==
    ASSUME OverlapIInv, Undisturbed, NEW r \in Requests,
           \/ WriteRole(r) \/ WriteDeletion(r) \/ WriteInvitation(r)
           \/ WriteAcceptance(r) \/ WriteAssignment(r)
    PROVE  Undisturbed'
  <1>1. r \in InProgress
    BY DEF WriteRole, WriteDeletion, WriteInvitation, WriteAcceptance,
           WriteAssignment, Writing, InProgress
  <1>2. CASE Finish(r)
    BY <1>1, <1>2, WritingLeavesNobodyAlone
       DEF Finish, OverlapIInv, RequestsTypeOK, InProgress
  <1>3. ASSUME NEW x, NEW u, FinishRemoving(r, x, u)
        PROVE  Undisturbed'
    <2>1. DOMAIN request' = Requests /\ request'[r] = NoRequest
      BY <1>3 DEF FinishRemoving, OverlapIInv, RequestsTypeOK
    <2>2. ASSUME NEW q \in Requests \ {r}, request'[q] # NoRequest
          PROVE  request[q] # NoRequest /\ request'[q].alone = request[q].alone
      <3> DEFINE gone == request[q].x = x /\ request[q].u = u /\ request[q].row # NoRole
                 heirGone == request[q].x = x /\ request[q].arg = u /\ request[q].succession
      <3>1. request[q] # NoRequest
        BY <1>3, <2>2 DEF FinishRemoving, OverlapIInv, RequestsTypeOK
      <3>2. request'[q] = Overtaken(request[q], gone, heirGone)
        BY <1>3, <3>1, Zenon DEF FinishRemoving, Overtaken
      <3>3. /\ request[q].op \in Ops /\ request[q] \in RequestOf(request[q].op)
            /\ request[q].succession \in BOOLEAN
        BY <3>1, WhatIsInProgress, RequestFields DEF OverlapIInv, InProgress
      <3>4. gone \in BOOLEAN /\ heirGone \in BOOLEAN
        BY <3>3
      <3> HIDE DEF gone, heirGone
      <3>5. request'[q].alone = request[q].alone
        <4> DEFINE req == request[q]
                   op == request[q].op
        <4>1. op \in Ops /\ req \in RequestOf(op)
          BY <3>3
        <4> HIDE DEF req, op
        <4>2. Overtaken(req, gone, heirGone).alone = req.alone
          BY <4>1, <3>4, OvertakenFields
        <4> QED BY <3>2, <4>2 DEF req
      <3> QED BY <3>1, <3>2, <3>5
    <2> QED BY <1>1, <2>1, <2>2, WritingLeavesNobodyAlone DEF OverlapIInv
  <1> QED BY <1>2, <1>3 DEF WriteRole, WriteDeletion, WriteInvitation,
                            WriteAcceptance, WriteAssignment

LEMMA OthersStay ==
    ASSUME OverlapIInv, NothingElseChanges, [RequestsNext]_requestVars
    PROVE  NothingElseChanges'
  <1>1. ASSUME NEW r \in Requests, RequestStep(r)
        PROVE  UNCHANGED <<active, roles>>
    <2>1. CASE Authorise(r) \/ Validate(r)
      BY <2>1 DEF Authorise, Validate, Read, vars
    <2>2. CASE WriteDeletion(r)
      BY <2>2 DEF WriteDeletion
    <2>3. CASE WriteRole(r) \/ WriteInvitation(r) \/ WriteAssignment(r)
      BY <2>3 DEF WriteRole, WriteInvitation, WriteAssignment
    <2>4. CASE WriteAcceptance(r)
      BY <2>4 DEF WriteAcceptance
    <2> QED BY <1>1, <2>1, <2>2, <2>3, <2>4 DEF RequestStep
  <1>2. UNCHANGED <<active, roles>>
    BY <1>1 DEF RequestsNext, requestVars, vars, Load, Begin
  <1> QED BY <1>2 DEF NothingElseChanges

\* The request that writes is alone: what it writes is what its handler does.
SerialWrite(r) ==
    /\ OverlapIInv /\ NothingElseChanges
    /\ r \in InProgress /\ AsRead(request[r])

LEMMA SerialRole ==
    ASSUME NEW r, SerialWrite(r), WriteRole(r)
    PROVE  MemberStep \/ UNCHANGED vars
  <1> DEFINE req == request[r]
  <1>1. Writing(r, "update_member")
    BY DEF WriteRole
  <1>2. r \in Requests /\ AsRead(req)
    BY DEF SerialWrite, InProgress
  <1>3. /\ req.op = "update_member" /\ req.step = "write"
        /\ req.x \in ReferenceObjects /\ req.by \in Users /\ req.u \in Users
        /\ req.arg \in Roles
    BY <1>1, <1>2, WhatIsWritten DEF SerialWrite, Arguments
  <1>4. /\ IsMember(req.u, req.x) /\ req.row = member[req.x][req.u]
        /\ Authorised(req) /\ Valid(req) /\ req.role = member[req.x][req.by]
    BY <1>2, <1>3 DEF AsRead, RowOps, Row
  <1>5. /\ member' = [member EXCEPT ![req.x][req.u] = req.arg] \/ member' = member
        /\ UNCHANGED <<active, live, roles, permissions, invitation, assignees>>
    BY DEF WriteRole
  <1>6. PICK a \in Users, u \in Users, x \in ReferenceObjects, role \in Roles :
          a = req.by /\ u = req.u /\ x = req.x /\ role = req.arg
    BY <1>3
  <1>7. /\ HasPermission(a, x, "create_modify_member")
        /\ CanModifyAssociatedRole(a, x, member[x][u])
    BY <1>3, <1>4, <1>6 DEF Authorised, MayModifyOwner, CanModifyAssociatedRole, RowOps
  <1>8. RoleChangeAllowed(a, x, u, role)
    BY <1>3, <1>4, <1>6 DEF Valid, OnlyOwnerAsRead, RoleChangeAllowed, OnlyOwner, IsOwner
  <1>9. CASE member' = [member EXCEPT ![req.x][req.u] = req.arg]
    <2>1. UpdateMembership(a, x, u, role)
      BY <1>4, <1>5, <1>6, <1>7, <1>8, <1>9 DEF UpdateMembership, ChangeRole
    <2> QED BY <2>1 DEF MemberStep
  <1> QED BY <1>5, <1>9 DEF vars

LEMMA SerialDeletion ==
    ASSUME NEW r, SerialWrite(r), WriteDeletion(r)
    PROVE  MemberStep
  <1> DEFINE req == request[r]
             promoted == IF req.succession
                         THEN [member EXCEPT ![req.x][req.arg] = Owner] ELSE member
  <1>1. Writing(r, "delete_member")
    BY DEF WriteDeletion
  <1>2. r \in Requests /\ AsRead(req) /\ TypeOK
    BY DEF SerialWrite, InProgress, OverlapIInv, RequestsTypeOK
  <1>3. /\ req.op = "delete_member" /\ req.step = "write"
        /\ req.x \in Projects /\ req.x \in ReferenceObjects
        /\ req.by \in Users /\ req.u \in Users /\ req.arg \in Users \cup {NoUser}
    BY <1>1, <1>2, WhatIsWritten DEF SerialWrite, Arguments
  <1>4. /\ IsMember(req.u, req.x) /\ req.row = member[req.x][req.u]
        /\ Authorised(req) /\ Valid(req) /\ req.role = member[req.x][req.by]
        /\ ~req.gone /\ ~req.heirGone
    BY <1>2, <1>3 DEF AsRead, RowOps, Row
  <1>5. /\ member' = [promoted EXCEPT ![req.x][req.u] = NoRole]
        /\ assignees' = [assignees EXCEPT ![req.x] = AssigneesWithout(req.x, req.u)]
        /\ invitation' = [invitation EXCEPT ![req.x] = InvitationsWithout(req.x, req.u)]
        /\ UNCHANGED <<active, live, roles, permissions>>
    BY <1>4 DEF WriteDeletion
  <1>6. PICK a \in Users, u \in Users, p \in Projects, successor \in Users \cup {NoUser} :
          a = req.by /\ u = req.u /\ p = req.x /\ successor = req.arg
    BY <1>3
  <1>7. CanDeleteMembership(a, p, u)
    <2>1. u \in active
      BY DEF SerialWrite, NothingElseChanges
    <2> QED BY <1>3, <1>4, <1>6, <2>1
            DEF Authorised, MayModifyOwner, CanDeleteMembership,
                CanModifyAssociatedRole, RowOps
  <1>8. /\ OnlyOwnerAsRead(req) <=> OnlyOwner(u, p)
        /\ req.succession <=> OnlyOwner(u, p)
    <2>1. OnlyOwnerAsRead(req) <=> OnlyOwner(u, p)
      BY <1>4, <1>6 DEF OnlyOwnerAsRead, OnlyOwner, IsOwner
    <2>2. req.succession <=> OnlyOwnerAsRead(req)
      BY <1>2, <1>3 DEF AsRead
    <2> QED BY <2>1, <2>2
  <1>9. SuccessionAllowed(a, p, u, successor)
    BY <1>3, <1>4, <1>6, <1>8
       DEF Valid, SuccessionAllowed, RoleChangeAllowed, IsOwner, SerialWrite,
           NothingElseChanges
  <1>10. member' = [member EXCEPT ![p] = Succession(p, u, successor)]
    <2>1. p \in ReferenceObjects /\ (OnlyOwner(u, p) => successor \in Users)
      BY <1>3, <1>6, <1>9 DEF SuccessionAllowed
    <2>2. /\ promoted \in [ReferenceObjects -> [Users -> Roles \cup {NoRole}]]
          /\ \A y \in ReferenceObjects, v \in Users :
               promoted[y][v] = IF OnlyOwner(u, p) /\ y = p /\ v = successor THEN Owner
                                ELSE member[y][v]
      BY <1>2, <1>4, <1>6, <1>8, <2>1, ConstantFacts DEF TypeOK
    <2> HIDE DEF promoted
    <2>3. [promoted EXCEPT ![p][u] = NoRole] = [member EXCEPT ![p] = Succession(p, u, successor)]
      <3>1. /\ promoted[p] \in [Users -> Roles \cup {NoRole}]
            /\ [promoted[p] EXCEPT ![u] = NoRole] = Succession(p, u, successor)
        BY <2>1, <2>2 DEF Succession
      <3>2. \A y \in ReferenceObjects : y # p => promoted[y] = member[y]
        BY <1>2, <2>1, <2>2 DEF TypeOK
      <3> QED BY <1>2, <2>1, <2>2, <3>1, <3>2 DEF TypeOK
    <2> QED BY <1>5, <1>6, <2>3
  <1>11. DeleteProjectMembership(a, p, u, successor)
    BY <1>5, <1>6, <1>7, <1>9, <1>10 DEF DeleteProjectMembership, LeaveProject
  <1> QED BY <1>11 DEF MemberStep

LEMMA SerialInvitation ==
    ASSUME NEW r, SerialWrite(r), WriteInvitation(r)
    PROVE  InvitationStep \/ UNCHANGED vars
  <1> DEFINE req == request[r]
  <1>1. PICK op \in InvitationOps \ {"accept"} : Writing(r, op)
    BY DEF WriteInvitation
  <1>2. r \in Requests /\ AsRead(req) /\ TypeOK
    BY DEF SerialWrite, InProgress, OverlapIInv, RequestsTypeOK
  <1>3. /\ req.op = op /\ req.step = "write" /\ op \in InvitationOps
        /\ req.x \in ReferenceObjects /\ req.by \in Users /\ req.u \in Users
        /\ req.row \in Invitations /\ req.row.status = "pending"
        /\ req.arg \in Arguments(op)
    BY <1>1, <1>2, WhatIsWritten DEF SerialWrite, KnowsForCertain
  <1>4. /\ HasInvitation(req.u, req.x) /\ req.row = invitation[req.x][req.u]
        /\ Authorised(req) /\ Valid(req) /\ req.role = member[req.x][req.by]
        /\ op = "deny" => req.by = req.u
    BY <1>2, <1>3 DEF AsRead, Row, InvitationOps, RowOps
  <1>5. /\ \/ invitation' = invitation
           \/ invitation' = [invitation EXCEPT ![req.x][req.u] = Answered(req)]
        /\ UNCHANGED <<active, live, roles, permissions, member, assignees>>
    BY DEF WriteInvitation
  <1>6. PICK a \in Users, u \in Users, x \in ReferenceObjects :
          a = req.by /\ u = req.u /\ x = req.x
    BY <1>3
  <1>7. IsPending(invitation[x][u])
    BY <1>3, <1>4, <1>6, NoInvitationAssumption DEF IsPending
  <1>8. ASSUME SetInvitation(x, u, Answered(req)), op = "update_invitation"
        PROVE  InvitationStep
    <2>1. PICK role \in Roles : role = req.arg
      BY <1>3, <1>8 DEF Arguments
    <2>2. Answered(req) = [invitation[x][u] EXCEPT !.role = role]
      BY <1>3, <1>4, <1>6, <1>8, <2>1 DEF Answered
    <2>3. role \in roles[x] /\ (role = Owner => IsOwner(a, x))
      BY <1>3, <1>4, <1>6, <1>8, <2>1 DEF Valid, IsOwner
    <2>4. CanModifyInvitation(a, x, u)
      BY <1>3, <1>4, <1>6, <1>8
         DEF Authorised, MayModifyOwner, CanModifyInvitation, CanModifyAssociatedRole,
             RowOps
    <2>5. UpdateInvitation(a, x, u, role)
      BY <1>5, <1>7, <1>8, <2>2, <2>3, <2>4
         DEF UpdateInvitation, ChangeInvitedRole, ModifyPendingInvitation
    <2> QED BY <2>5 DEF InvitationStep
  <1>9. ASSUME SetInvitation(x, u, Answered(req)), op = "revoke"
        PROVE  InvitationStep
    <2>1. Answered(req) = [invitation[x][u] EXCEPT !.status = "revoked"]
      BY <1>3, <1>4, <1>6, <1>9 DEF Answered
    <2>2. CanModifyInvitation(a, x, u)
      BY <1>3, <1>4, <1>6, <1>9
         DEF Authorised, MayModifyOwner, CanModifyInvitation, CanModifyAssociatedRole,
             RowOps
    <2>3. RevokeInvitation(a, x, u)
      BY <1>5, <1>7, <1>9, <2>1, <2>2
         DEF RevokeInvitation, Revoke, ModifyPendingInvitation
    <2> QED BY <2>3 DEF InvitationStep
  <1>10. ASSUME SetInvitation(x, u, Answered(req)), op = "deny"
         PROVE  InvitationStep
    <2>1. Answered(req) = [invitation[x][u] EXCEPT !.status = "denied"]
      BY <1>3, <1>4, <1>6, <1>10 DEF Answered
    <2>2. HasInvitation(u, x) /\ invitation[x][u].linked
      BY <1>3, <1>4, <1>6, <1>10 DEF Valid
    <2>3. DenyInvitation(u, x)
      BY <1>5, <1>7, <1>10, <2>1, <2>2
         DEF DenyInvitation, Deny, ModifyPendingInvitation, SerialWrite,
             NothingElseChanges
    <2> QED BY <2>3 DEF InvitationStep
  <1>11. ASSUME SetInvitation(x, u, Answered(req)), op = "resend"
         PROVE  UNCHANGED vars
    <2>1. Answered(req) = invitation[x][u]
      BY <1>3, <1>4, <1>6, <1>11 DEF Answered
    <2>2. invitation' = invitation
      BY <1>2, <1>6, <1>11, <2>1 DEF SetInvitation, TypeOK
    <2> QED BY <1>5, <2>2 DEF vars
  <1>12. CASE invitation' = [invitation EXCEPT ![req.x][req.u] = Answered(req)]
    <2>1. SetInvitation(x, u, Answered(req))
      BY <1>6, <1>12 DEF SetInvitation
    <2> QED BY <1>1, <1>8, <1>9, <1>10, <1>11, <2>1 DEF InvitationOps
  <1> QED BY <1>5, <1>12 DEF vars

LEMMA SerialAcceptance ==
    ASSUME NEW r, SerialWrite(r), WriteAcceptance(r)
    PROVE  InvitationStep \/ UNCHANGED vars
  <1> DEFINE req == request[r]
  <1>1. Writing(r, "accept")
    BY DEF WriteAcceptance
  <1>2. r \in Requests /\ AsRead(req) /\ TypeOK
    BY DEF SerialWrite, InProgress, OverlapIInv, RequestsTypeOK
  <1>3. /\ req.op = "accept" /\ req.step = "write"
        /\ req.x \in ReferenceObjects /\ req.u \in Users
        /\ req.row \in Invitations /\ req.row.status = "pending" /\ req.row.linked
    BY <1>1, <1>2, WhatIsWritten DEF SerialWrite, KnowsForCertain, InvitationOps
  <1>4. HasInvitation(req.u, req.x) /\ req.row = invitation[req.x][req.u]
    BY <1>2, <1>3 DEF AsRead, Row, InvitationOps, RowOps
  <1>5. [invitation EXCEPT ![req.x][req.u] = req.row] = invitation
    BY <1>2, <1>3, <1>4 DEF TypeOK
  <1>6. PICK u \in Users, x \in ReferenceObjects : u = req.u /\ x = req.x
    BY <1>3
  <1>7. /\ UNCHANGED <<active, live, roles, permissions, assignees>>
        /\ \/ UNCHANGED <<member, invitation>>
           \/ /\ ~IsMember(u, x)
              /\ member' = MemberOnAccept(invitation, x, u)
              /\ invitation' = InvitationOnAccept(invitation, x, u)
    BY <1>5, <1>6 DEF WriteAcceptance
  <1>8. IsPending(invitation[x][u]) /\ invitation[x][u].linked
    BY <1>3, <1>4, <1>6, NoInvitationAssumption DEF IsPending
  <1>9. CASE /\ ~IsMember(u, x)
             /\ member' = MemberOnAccept(invitation, x, u)
             /\ invitation' = InvitationOnAccept(invitation, x, u)
    <2>1. AcceptInvitation(u, x)
      BY <1>7, <1>8, <1>9
         DEF AcceptInvitation, Accept, CanAccept, SerialWrite, NothingElseChanges
    <2> QED BY <2>1 DEF InvitationStep
  <1> QED BY <1>7, <1>9 DEF vars

LEMMA SerialAssignment ==
    ASSUME NEW r, SerialWrite(r), WriteAssignment(r)
    PROVE  AssignmentStep
  <1> DEFINE req == request[r]
  <1>1. /\ Writing(r, "assign")
        /\ assignees' = [assignees EXCEPT ![req.x] = @ \cup {req.u}]
        /\ UNCHANGED <<active, live, roles, permissions, member, invitation>>
    BY DEF WriteAssignment
  <1>2. r \in Requests /\ AsRead(req)
    BY DEF SerialWrite, InProgress
  <1>3. /\ req.op = "assign" /\ req.step = "write"
        /\ req.x \in Projects /\ req.by \in Users /\ req.u \in Users
    BY <1>1, <1>2, WhatIsWritten DEF SerialWrite
  <1>4. Authorised(req) /\ Valid(req)
    BY <1>2, <1>3 DEF AsRead
  <1>5. PICK a \in Users, u \in Users, p \in Projects :
          a = req.by /\ u = req.u /\ p = req.x
    BY <1>3
  <1>6. AssignStory(a, p, u)
    BY <1>1, <1>3, <1>4, <1>5 DEF AssignStory, Assign, Authorised, Valid
  <1> QED BY <1>6 DEF AssignmentStep

SerialIInv == OverlapIInv /\ Undisturbed /\ NothingElseChanges

LEMMA SerialInitially == RequestsInit => SerialIInv
  <1> SUFFICES ASSUME RequestsInit
               PROVE  SerialIInv
    OBVIOUS
  <1>1. OverlapIInv
    BY RequestsInitially
  <1>2. Undisturbed
    BY DEF RequestsInit, InProgress, Undisturbed
  <1>3. NothingElseChanges
    BY ConstantsAssumption DEF RequestsInit, NothingElseChanges, ReferenceObjects
  <1> QED BY <1>1, <1>2, <1>3 DEF SerialIInv

LEMMA EveryRequestKeepsSerial ==
    SerialIInv /\ [RequestsNext]_requestVars => SerialIInv'
  <1> SUFFICES ASSUME SerialIInv, [RequestsNext]_requestVars
               PROVE  SerialIInv'
    OBVIOUS
  <1>1. OverlapIInv' /\ NothingElseChanges'
    BY EveryRequestKeeps, OthersStay DEF SerialIInv
  <1>2. Undisturbed'
    <2>1. CASE UNCHANGED requestVars
      <3>1. ASSUME NEW q \in InProgress', request'[q].alone
            PROVE  InProgress' = {q} /\ AsRead(request[q])'
        <4>1. request' = request /\ UNCHANGED vars
          BY <2>1 DEF requestVars
        <4>2. InProgress' = InProgress
          BY <4>1 DEF InProgress
        <4>3. InProgress = {q} /\ AsRead(request'[q])
          BY <3>1, <4>1, <4>2 DEF SerialIInv, Undisturbed
        <4> QED BY <4>1, <4>2, <4>3, StillAsRead
      <3> QED BY <3>1 DEF Undisturbed
    <2>2. CASE RequestsNext
      BY <2>2, LoadStaysUndisturbed, ReadersStayUndisturbed, WritersStayUndisturbed
         DEF RequestsNext, RequestStep, SerialIInv
    <2> QED BY <2>1, <2>2
  <1> QED BY <1>1, <1>2 DEF SerialIInv

\* A request that nothing overlaps does what its handler does in Membership, at
\* once, for any users, projects, roles and operations.
THEOREM SerialRequestsImplementHandlers == RequestsSpec => SerialSteps
  <1> DEFINE Alone == \A r \in InProgress : request'[r] = NoRequest => request[r].alone
  <1>1. ASSUME SerialIInv, [RequestsNext]_requestVars, Alone
        PROVE  [Next]_vars
    <2>1. CASE UNCHANGED requestVars
      BY <2>1 DEF requestVars
    <2>2. ASSUME NEW r \in Requests,
                 \/ \E op \in Ops, by, u \in Users, x \in Projects :
                      \E arg \in Arguments(op) : Load(r, op, by, x, u, arg)
                 \/ Authorise(r) \/ Validate(r)
          PROVE  UNCHANGED vars
      BY <2>2 DEF Load, Begin, Authorise, Validate, Read
    <2>3. ASSUME NEW r \in Requests,
                 \/ WriteRole(r) \/ WriteDeletion(r) \/ WriteInvitation(r)
                 \/ WriteAcceptance(r) \/ WriteAssignment(r)
          PROVE  [Next]_vars
      <3>1. r \in InProgress
        BY <2>3 DEF WriteRole, WriteDeletion, WriteInvitation, WriteAcceptance,
                    WriteAssignment, Writing, InProgress
      <3>2. request'[r] = NoRequest
        <4>1. r \in Requests /\ r \in DOMAIN request
          BY <1>1 DEF SerialIInv, OverlapIInv, RequestsTypeOK
        <4>2. CASE Finish(r)
          BY <4>1, <4>2 DEF Finish
        <4>3. ASSUME NEW x, NEW u, FinishRemoving(r, x, u)
              PROVE  request'[r] = NoRequest
          BY <4>1, <4>3 DEF FinishRemoving
        <4> QED BY <2>3, <4>2, <4>3
                DEF WriteRole, WriteDeletion, WriteInvitation, WriteAcceptance,
                    WriteAssignment
      <3>3. SerialWrite(r)
        BY <1>1, <3>1, <3>2 DEF SerialIInv, Undisturbed, SerialWrite
      <3> QED BY <2>3, <3>3, SerialRole, SerialDeletion, SerialInvitation,
                 SerialAcceptance, SerialAssignment DEF Next
    <2> QED BY <1>1, <2>1, <2>2, <2>3 DEF RequestsNext, RequestStep
  <1>2. RequestsSpec => []SerialIInv
    BY SerialInitially, EveryRequestKeepsSerial, PTL DEF RequestsSpec
  <1>3. SerialIInv /\ [RequestsNext]_requestVars => [Alone => Next]_vars
    BY <1>1
  <1> QED BY <1>2, <1>3, PTL DEF RequestsSpec, SerialSteps

-----------------------------------------------------------------------------
(* Endpoints: each router is a step of Membership, or changes no row.      *)

LEMMA UsersRouterImplements == UsersRouter => AccountStep
  BY DEF UsersRouter, AccountStep, VerifyUserEndpoint, VerifyUserService,
         DeleteCurrentUserEndpoint, DeleteUserService

LEMMA WorkspacesRouterImplements ==
    WorkspacesRouter => LifeCycleStep \/ UNCHANGED vars
  BY DEF WorkspacesRouter, LifeCycleStep, CreateWorkspaceEndpoint,
         CreateWorkspaceService, CreateWorkspace, IsAuthenticated,
         UpdateWorkspaceEndpoint, UpdateWorkspaceService,
         DeleteWorkspaceEndpoint, DeleteWorkspaceService, DeleteWorkspace

LEMMA ProjectsRouterImplements == ProjectsRouter => LifeCycleStep \/ UNCHANGED vars
  BY DEF ProjectsRouter, LifeCycleStep, CreateProjectEndpoint,
         CreateProjectService, CreateProject,
         UpdateProjectEndpoint, UpdateProjectService,
         DeleteProjectEndpoint, DeleteProjectService, DeleteProject

\* The token and the identifier of the project are two ways to one answer.
LEMMA ProjectInvitationsRouterImplements ==
    ProjectInvitationsRouter => InvitationStep \/ UNCHANGED vars
  <1> SUFFICES ASSUME NEW a \in Users, NEW u \in Users, NEW p \in Projects,
                      \/ \E role \in Roles :
                           CreateProjectInvitationsEndpoint(a, p, u, role)
                      \/ \E role \in Roles :
                           UpdateProjectInvitationEndpoint(a, p, u, role)
                      \/ ResendProjectInvitationEndpoint(a, p, u)
                      \/ RevokeProjectInvitationEndpoint(a, p, u)
                      \/ AcceptProjectInvitationByTokenEndpoint(a, p, u)
                      \/ AcceptProjectInvitationByProjectEndpoint(a, p)
                      \/ DenyProjectInvitationByProjectEndpoint(a, p)
               PROVE  InvitationStep \/ UNCHANGED vars
    BY DEF ProjectInvitationsRouter
  <1>1. p \in ReferenceObjects
    BY DEF ReferenceObjects
  <1>2. ASSUME NEW role \in Roles, CreateProjectInvitationsEndpoint(a, p, u, role)
        PROVE  InvitationStep
    BY <1>1, <1>2 DEF CreateProjectInvitationsEndpoint, InvitationStep,
         CreateProjectInvitationsService, CreateInvitation
  <1>3. ASSUME NEW role \in Roles, UpdateProjectInvitationEndpoint(a, p, u, role)
        PROVE  InvitationStep
    BY <1>1, <1>3 DEF UpdateProjectInvitationEndpoint, InvitationStep,
         UpdateProjectInvitationService, UpdateInvitation
  <1>4. CASE ResendProjectInvitationEndpoint(a, p, u)
    BY <1>4 DEF ResendProjectInvitationEndpoint, ResendService
  <1>5. CASE RevokeProjectInvitationEndpoint(a, p, u)
    BY <1>1, <1>5 DEF RevokeProjectInvitationEndpoint, InvitationStep,
         RevokeProjectInvitationService, RevokeInvitation
  <1>6. CASE AcceptProjectInvitationByTokenEndpoint(a, p, u)
    BY <1>1, <1>6 DEF AcceptProjectInvitationByTokenEndpoint, InvitationStep,
         AcceptProjectInvitationService, AcceptInvitation, IsAuthenticated
  <1>7. CASE AcceptProjectInvitationByProjectEndpoint(a, p)
    BY <1>1, <1>7 DEF AcceptProjectInvitationByProjectEndpoint, InvitationStep,
         AcceptProjectInvitationService, AcceptInvitation, IsAuthenticated
  <1>8. CASE DenyProjectInvitationByProjectEndpoint(a, p)
    BY <1>1, <1>8 DEF DenyProjectInvitationByProjectEndpoint, InvitationStep,
         DenyProjectInvitationService, DenyInvitation, IsAuthenticated
  <1> QED BY <1>2, <1>3, <1>4, <1>5, <1>6, <1>7, <1>8

LEMMA WorkspaceInvitationsRouterImplements ==
    WorkspaceInvitationsRouter => InvitationStep \/ UNCHANGED vars
  <1> SUFFICES ASSUME NEW a \in Users, NEW u \in Users,
                      \/ \E role \in Roles :
                           CreateWorkspaceInvitationsEndpoint(a, u, role)
                      \/ \E role \in Roles :
                           UpdateWorkspaceInvitationEndpoint(a, u, role)
                      \/ ResendWorkspaceInvitationEndpoint(a, u)
                      \/ RevokeWorkspaceInvitationEndpoint(a, u)
                      \/ AcceptWorkspaceInvitationByTokenEndpoint(a, u)
                      \/ AcceptWorkspaceInvitationByWorkspaceEndpoint(a)
                      \/ DenyWorkspaceInvitationByWorkspaceEndpoint(a)
               PROVE  InvitationStep \/ UNCHANGED vars
    BY DEF WorkspaceInvitationsRouter
  <1>1. Workspace \in ReferenceObjects
    BY DEF ReferenceObjects
  <1>2. ASSUME NEW role \in Roles, CreateWorkspaceInvitationsEndpoint(a, u, role)
        PROVE  InvitationStep
    BY <1>1, <1>2 DEF CreateWorkspaceInvitationsEndpoint, InvitationStep,
         CreateWorkspaceInvitationsService, CreateInvitation
  <1>3. ASSUME NEW role \in Roles, UpdateWorkspaceInvitationEndpoint(a, u, role)
        PROVE  InvitationStep
    BY <1>1, <1>3 DEF UpdateWorkspaceInvitationEndpoint, InvitationStep,
         UpdateWorkspaceInvitationService, UpdateInvitation
  <1>4. CASE ResendWorkspaceInvitationEndpoint(a, u)
    BY <1>4 DEF ResendWorkspaceInvitationEndpoint, ResendService
  <1>5. CASE RevokeWorkspaceInvitationEndpoint(a, u)
    BY <1>1, <1>5 DEF RevokeWorkspaceInvitationEndpoint, InvitationStep,
         RevokeWorkspaceInvitationService, RevokeInvitation
  <1>6. CASE AcceptWorkspaceInvitationByTokenEndpoint(a, u)
    BY <1>1, <1>6 DEF AcceptWorkspaceInvitationByTokenEndpoint, InvitationStep,
         AcceptWorkspaceInvitationService, AcceptInvitation, IsAuthenticated
  <1>7. CASE AcceptWorkspaceInvitationByWorkspaceEndpoint(a)
    BY <1>1, <1>7 DEF AcceptWorkspaceInvitationByWorkspaceEndpoint, InvitationStep,
         AcceptWorkspaceInvitationService, AcceptInvitation, IsAuthenticated
  <1>8. CASE DenyWorkspaceInvitationByWorkspaceEndpoint(a)
    BY <1>1, <1>8 DEF DenyWorkspaceInvitationByWorkspaceEndpoint, InvitationStep,
         DenyWorkspaceInvitationService, DenyInvitation, IsAuthenticated
  <1> QED BY <1>2, <1>3, <1>4, <1>5, <1>6, <1>7, <1>8

\* A succession that is rolled back leaves no trace but its event.
LEMMA MembershipsRouterImplements == MembershipsRouter => MemberStep \/ UNCHANGED vars
  <1> SUFFICES ASSUME NEW a \in Users, NEW u \in Users,
                      \/ \E role \in Roles :
                           UpdateWorkspaceMembershipEndpoint(a, u, role)
                      \/ \E p \in Projects, role \in Roles :
                           UpdateProjectMembershipEndpoint(a, p, u, role)
                      \/ \E successor \in Users \cup {NoUser} :
                           \/ DeleteWorkspaceMembershipEndpoint(a, u, successor)
                           \/ \E p \in Projects :
                                DeleteProjectMembershipEndpoint(a, p, u, successor)
               PROVE  MemberStep \/ UNCHANGED vars
    BY DEF MembershipsRouter
  <1>1. ASSUME NEW role \in Roles, UpdateWorkspaceMembershipEndpoint(a, u, role)
        PROVE  MemberStep
    BY <1>1 DEF UpdateWorkspaceMembershipEndpoint, CanUpdateMembership, MemberStep,
         UpdateWorkspaceMembershipService, UpdateMembership, ReferenceObjects
  <1>2. ASSUME NEW p \in Projects, NEW role \in Roles,
               UpdateProjectMembershipEndpoint(a, p, u, role)
        PROVE  MemberStep
    BY <1>2 DEF UpdateProjectMembershipEndpoint, CanUpdateMembership, MemberStep,
         UpdateProjectMembershipService, UpdateMembership, ReferenceObjects
  <1>3. ASSUME NEW successor \in Users \cup {NoUser},
               DeleteWorkspaceMembershipEndpoint(a, u, successor)
        PROVE  MemberStep \/ UNCHANGED vars
    BY <1>3 DEF DeleteWorkspaceMembershipEndpoint, DeleteWorkspaceMembershipService,
         RefusedAfterSuccession, MemberStep, DeleteWorkspaceMembership
  <1>4. ASSUME NEW successor \in Users \cup {NoUser}, NEW p \in Projects,
               DeleteProjectMembershipEndpoint(a, p, u, successor)
        PROVE  MemberStep
    BY <1>4 DEF DeleteProjectMembershipEndpoint, DeleteProjectMembershipService,
         MemberStep, DeleteProjectMembership
  <1> QED BY <1>1, <1>2, <1>3, <1>4

LEMMA RolesRouterImplements == RolesRouter => RoleStep
  BY DEF RolesRouter, RoleStep, MayEditRoles, CreateRoleEndpoint, CreateRoleService,
         CreateRole, UpdateRoleEndpoint, UpdateRoleService, UpdateRole,
         DeleteRoleEndpoint, DeleteRoleService, DeleteRole

LEMMA AssignmentsRouterImplements ==
    AssignmentsRouter => AssignmentStep \/ UNCHANGED vars
  BY DEF AssignmentsRouter, AssignmentStep, CreateStoryAssignmentEndpoint,
         CreateStoryAssignmentService, AssignStory, DeleteStoryAssignmentEndpoint,
         DeleteStoryAssignmentService, UnassignStory

LEMMA EndpointsStepImplements == [EndpointsNext]_endpointVars => [Next]_vars
  <1>1. EndpointsNext => Next \/ UNCHANGED vars
    BY UsersRouterImplements, WorkspacesRouterImplements, ProjectsRouterImplements,
       ProjectInvitationsRouterImplements, WorkspaceInvitationsRouterImplements,
       MembershipsRouterImplements, RolesRouterImplements,
       AssignmentsRouterImplements DEF EndpointsNext, Next
  <1>2. UNCHANGED endpointVars => UNCHANGED vars
    BY DEF endpointVars, vars
  <1> QED BY <1>1, <1>2

-----------------------------------------------------------------------------

\* The handlers behind their permission checks do nothing to the rows that
\* Membership does not say, and reading, mailing and publishing change none.
THEOREM EndpointsImplementMembership == EndpointsSpec => Spec
  <1>1. EndpointsInit => Init
    BY DEF EndpointsInit
  <1> QED BY <1>1, EndpointsStepImplements, PTL DEF EndpointsSpec, Spec

\* Whatever handlers are called, what exists has an owner, and members and
\* invitations agree with each other and with the accounts.
THEOREM EndpointsKeepMembers ==
    EndpointsSpec => [](HasOwner /\ ProjectMembersAreInWorkspace
                         /\ AcceptedInviteesAreMembers
                         /\ WorkspaceMembersAreNotInvited
                         /\ InvitationsFollowAccounts)
  BY EndpointsImplementMembership, AlwaysOwned, MembersInWorkspace,
     InvitationsMatchMembers, MembersHaveNothingToAccept, InvitationsAttached, PTL

-----------------------------------------------------------------------------
(* The pages.                                                              *)

\* What IInv says of one person and one place.
LEMMA RowFacts ==
    ASSUME IInv, NEW u \in Users
    PROVE  /\ \A x \in ReferenceObjects :
                IsMember(u, x) =>
                  /\ x \in live /\ Workspace \in live /\ IsMember(u, Workspace)
                  /\ member[x][u] \in roles[x]
           /\ \A x \in ReferenceObjects :
                HasPendingInvitation(u, x) =>
                  /\ x \in live /\ Workspace \in live
                  /\ invitation[x][u].role \in roles[x]
           /\ ~(IsMember(u, Workspace) /\ HasPendingInvitation(u, Workspace))
  <1>1. ASSUME NEW x \in ReferenceObjects, IsMember(u, x)
        PROVE  /\ x \in live /\ Workspace \in live /\ IsMember(u, Workspace)
               /\ member[x][u] \in roles[x]
    BY <1>1 DEF IInv, NothingIsOrphaned, ProjectMembersAreInWorkspace, RolesInUseExist,
                ReferenceObjects
  <1>2. ASSUME NEW x \in ReferenceObjects, HasPendingInvitation(u, x)
        PROVE  x \in live /\ Workspace \in live /\ invitation[x][u].role \in roles[x]
    <2>1. HasInvitation(u, x)
      BY <1>2 DEF HasPendingInvitation, IsPending, HasInvitation
    <2> QED BY <2>1 DEF IInv, NothingIsOrphaned, RolesInUseExist, ReferenceObjects
  <1>3. ~(IsMember(u, Workspace) /\ HasPendingInvitation(u, Workspace))
    BY DEF IInv, WorkspaceMembersAreNotInvited, HasPendingInvitation
  <1> QED BY <1>1, <1>2, <1>3

LEMMA ReachableProjects == IInv => ProjectsAreReachable
  <1> SUFFICES ASSUME IInv, NEW u \in active, NEW p \in Projects, MayViewProject(u, p)
               PROVE  /\ p \in WorkspaceProjectsPage(u)
                      /\ p \in MemberProjects(u) \cup InvitedProjects(u)
                      /\ ProjectPage(u, p).user_is_invited
                           <=> ProjectPage(u, p).user_role = NoRole
    BY DEF ProjectsAreReachable
  <1>1. u \in Users /\ p \in ReferenceObjects
    BY DEF IInv, TypeOK, ReferenceObjects
  <1>2. p \in live /\ MayViewWorkspace(u)
    BY <1>1, RowFacts DEF MayViewProject, MayViewWorkspace, HasPendingInnerProjectsInvitation
  <1>3. IsMember(u, p) \/ HasPendingInvitation(u, p)
    BY DEF MayViewProject
  <1>4. p \in WorkspaceProjectsPage(u) /\ p \in MemberProjects(u) \cup InvitedProjects(u)
    BY <1>2, <1>3 DEF WorkspaceProjectsPage, ProjectsOfUser, MemberProjects, InvitedProjects
  <1>5. ProjectPage(u, p).user_is_invited <=> ProjectPage(u, p).user_role = NoRole
    BY <1>3 DEF ProjectPage, IsMember
  <1> QED BY <1>4, <1>5

LEMMA ListedWorkspaces == IInv => WorkspacesAreListedOnce
  <1> SUFFICES ASSUME IInv, NEW u \in active
               PROVE  LET parts == {part \in {"member", "invited", "inner"} :
                            Workspace \in CASE part = "member" -> MemberWorkspaces(u)
                                            [] part = "invited" -> InvitedWorkspaces(u)
                                            [] part = "inner" -> InnerInvitedWorkspaces(u)}
                      IN  /\ Cardinality(parts) = (IF MayViewWorkspace(u) THEN 1 ELSE 0)
                          /\ WorkspacePage(u).user_is_member <=> parts = {"member"}
                          /\ WorkspacePage(u).user_is_invited <=> parts = {"invited"}
    BY DEF WorkspacesAreListedOnce
  <1> DEFINE shown(part) == CASE part = "member" -> MemberWorkspaces(u)
                              [] part = "invited" -> InvitedWorkspaces(u)
                              [] part = "inner" -> InnerInvitedWorkspaces(u)
             parts == {part \in {"member", "invited", "inner"} : Workspace \in shown(part)}
             isMember == IsMember(u, Workspace)
             isInvited == HasPendingInvitation(u, Workspace)
             isInner == HasPendingInnerProjectsInvitation(u)
  <1>1. u \in Users /\ Projects \subseteq ReferenceObjects /\ Workspace \in ReferenceObjects
    BY DEF IInv, TypeOK, ReferenceObjects
  <1>2. isMember \/ isInvited \/ isInner => Workspace \in live
    BY <1>1, RowFacts DEF HasPendingInnerProjectsInvitation
  <1>3. /\ Workspace \in MemberWorkspaces(u) <=> isMember
        /\ Workspace \in InvitedWorkspaces(u) <=> ~isMember /\ isInvited
        /\ Workspace \in InnerInvitedWorkspaces(u) <=> ~isMember /\ ~isInvited /\ isInner
    BY <1>2 DEF MemberWorkspaces, InvitedWorkspaces, InnerInvitedWorkspaces
  <1>4. /\ shown("member") = MemberWorkspaces(u)
        /\ shown("invited") = InvitedWorkspaces(u)
        /\ shown("inner") = InnerInvitedWorkspaces(u)
    OBVIOUS
  <1> HIDE DEF shown
  <1>5. /\ MayViewWorkspace(u) <=> isMember \/ isInvited \/ isInner
        /\ WorkspacePage(u).user_is_member <=> isMember
        /\ WorkspacePage(u).user_is_invited <=> ~isMember /\ isInvited
    BY DEF MayViewWorkspace, IsAuthenticated, WorkspacePage
  <1> HIDE DEF isMember, isInvited, isInner
  <1>6. parts = IF isMember THEN {"member"}
                ELSE IF isInvited THEN {"invited"}
                ELSE IF isInner THEN {"inner"} ELSE {}
    BY <1>3, <1>4
  <1> HIDE DEF parts
  <1>7. Cardinality(parts) = IF isMember \/ isInvited \/ isInner THEN 1 ELSE 0
    BY <1>6, FS_EmptySet, FS_Singleton
  <1>8. (isMember <=> parts = {"member"}) /\ (~isMember /\ isInvited <=> parts = {"invited"})
    BY <1>6
  <1> QED BY <1>5, <1>7, <1>8 DEF parts, shown

LEMMA RolesAddUpAlways == IInv => RolesAddUp
  <1> SUFFICES ASSUME IInv, NEW u \in active, NEW x \in live, MembersPage(u, x) # {}
               PROVE  LET page == IF x = Workspace THEN WorkspaceRolesPage(u)
                                  ELSE ProjectRolesPage(u, x)
                          used == {role \in DOMAIN page : page[role].total_members > 0}
                      IN  /\ used = {member[x][v] : v \in MembersPage(u, x)}
                          /\ \A v \in InvitationsPage(u, x) : PublicInvitationPage(x, v) # {} =>
                               page[invitation[x][v].role].has_invitees
    BY DEF RolesAddUp
  <1> DEFINE page == IF x = Workspace THEN WorkspaceRolesPage(u) ELSE ProjectRolesPage(u, x)
             used == {role \in DOMAIN page : page[role].total_members > 0}
             with(role) == {v \in Users : member[x][v] = role}
  <1>1. x \in ReferenceObjects
    BY DEF IInv, TypeOK
  <1>2. MayViewMembers(u, x) /\ MembersPage(u, x) = {v \in Users : IsMember(v, x)}
    BY DEF MembersPage
  <1>3. page = [role \in roles[x] |-> RoleDetail(x, role)]
    BY <1>2 DEF WorkspaceRolesPage, ProjectRolesPage
  <1> HIDE DEF page
  <1>4. \A role \in roles[x] :
          /\ page[role].total_members = Cardinality(with(role))
          /\ page[role].has_invitees <=>
               \E v \in Users : HasPendingInvitation(v, x) /\ invitation[x][v].role = role
    BY <1>3 DEF RoleDetail
  <1>5. \A role : Cardinality(with(role)) > 0 <=> with(role) # {}
    <2> SUFFICES ASSUME NEW role PROVE Cardinality(with(role)) > 0 <=> with(role) # {}
      OBVIOUS
    <2>1. IsFiniteSet(with(role))
      BY PeopleAssumption, FS_Subset
    <2> HIDE DEF with
    <2> QED BY <2>1, FS_EmptySet, FS_CardinalityType
  <1>6. used = {role \in roles[x] : with(role) # {}}
    <2>1. DOMAIN page = roles[x]
      BY <1>3
    <2> HIDE DEF with
    <2> QED BY <1>4, <1>5, <2>1
  <1>7. \A v \in Users : IsMember(v, x) => member[x][v] \in roles[x]
    BY <1>1, RowFacts
  <1>8. \A role \in roles[x] : role # NoRole
    BY <1>1, ConstantsAssumption DEF IInv, TypeOK
  <1>9. used = {member[x][v] : v \in MembersPage(u, x)}
    BY <1>2, <1>6, <1>7, <1>8 DEF IsMember
  <1>10. ASSUME NEW v \in InvitationsPage(u, x), PublicInvitationPage(x, v) # {}
         PROVE  page[invitation[x][v].role].has_invitees
    <2>1. v \in Users /\ HasPendingInvitation(v, x)
      BY <1>10 DEF InvitationsPage, PublicInvitationPage, HasPendingInvitation
    <2>2. invitation[x][v].role \in roles[x]
      BY <1>1, <2>1, RowFacts
    <2> QED BY <1>4, <2>1, <2>2
  <1> QED BY <1>9, <1>10 DEF page

LEMMA SearchesFind == IInv => SearchesFindEveryoneOnce
  <1> SUFFICES ASSUME IInv,
                      NEW blocks \in {ProjectUsersByText(p) : p \in Projects \cap live}
                                       \cup {WorkspaceUsersByText}
               PROVE  /\ UNION {blocks[i] : i \in 1..3} = active
                      /\ \A i, j \in 1..3 : i # j => blocks[i] \cap blocks[j] = {}
                      /\ blocks = WorkspaceUsersByText => blocks[2] = {}
    BY DEF SearchesFindEveryoneOnce
  <1>1. active \subseteq Users /\ Projects \subseteq ReferenceObjects
    BY DEF IInv, TypeOK, ReferenceObjects
  <1>2. WorkspaceUsersByText[2] = {}
    BY <1>1, RowFacts DEF WorkspaceUsersByText, MemberProjects
  <1>3. ASSUME NEW A, NEW B, blocks = <<{u \in active : u \in A},
                 {u \in active : u \in B /\ u \notin A},
                 {u \in active : u \notin A /\ u \notin B}>>
        PROVE  /\ UNION {blocks[i] : i \in 1..3} = active
               /\ \A i, j \in 1..3 : i # j => blocks[i] \cap blocks[j] = {}
    <2>1. /\ blocks[1] = {u \in active : u \in A}
          /\ blocks[2] = {u \in active : u \in B /\ u \notin A}
          /\ blocks[3] = {u \in active : u \notin A /\ u \notin B}
      BY <1>3
    <2>2. {blocks[i] : i \in 1..3} = {blocks[1], blocks[2], blocks[3]}
      <3>1. 1..3 = {1, 2, 3}
        OBVIOUS
      <3> QED BY <3>1
    <2>3. UNION {blocks[i] : i \in 1..3} = blocks[1] \cup blocks[2] \cup blocks[3]
      BY <2>2
    <2>4. /\ blocks[1] \cap blocks[2] = {} /\ blocks[1] \cap blocks[3] = {}
          /\ blocks[2] \cap blocks[3] = {}
      BY <2>1
    <2>5. UNION {blocks[i] : i \in 1..3} = active
      BY <2>1, <2>3
    <2>6. \A i, j \in 1..3 : i # j => blocks[i] \cap blocks[j] = {}
      BY <2>4
    <2> QED BY <2>5, <2>6
  <1>4. CASE blocks = WorkspaceUsersByText
    <2> DEFINE A == {u \in active : IsMember(u, Workspace)}
               B == {u \in active : MemberProjects(u) # {}}
    <2>1. blocks = <<{u \in active : u \in A},
                     {u \in active : u \in B /\ u \notin A},
                     {u \in active : u \notin A /\ u \notin B}>>
      BY <1>4 DEF WorkspaceUsersByText
    <2> HIDE DEF A, B
    <2>2. /\ UNION {blocks[i] : i \in 1..3} = active
          /\ \A i, j \in 1..3 : i # j => blocks[i] \cap blocks[j] = {}
      BY <1>3, <2>1
    <2> QED BY <1>2, <1>4, <2>2
  <1>5. CASE blocks # WorkspaceUsersByText
    <2>1. PICK p \in Projects \cap live : blocks = ProjectUsersByText(p)
      BY <1>5
    <2> DEFINE A == {u \in active : IsMember(u, p)}
               B == {u \in active : IsMember(u, Workspace)}
    <2>2. blocks = <<{u \in active : u \in A},
                     {u \in active : u \in B /\ u \notin A},
                     {u \in active : u \notin A /\ u \notin B}>>
      BY <2>1 DEF ProjectUsersByText
    <2> HIDE DEF A, B
    <2>3. /\ UNION {blocks[i] : i \in 1..3} = active
          /\ \A i, j \in 1..3 : i # j => blocks[i] \cap blocks[j] = {}
      BY <1>3, <2>2
    <2> QED BY <1>5, <2>3
  <1> QED BY <1>4, <1>5

LEMMA DeleteInfosAgreeAlways == IInv => DeleteInfosAgree
  <1> SUFFICES ASSUME IInv, NEW u \in active
               PROVE  LET info == WorkspaceMembershipDeleteInfo(u)
                          all == UserDeleteInfo(u)
                      IN  /\ info.unique_owner_of_projects \subseteq info.member_of_projects
                          /\ TotalProjectsIsMember(u) = Cardinality(info.member_of_projects)
                          /\ all.only_owner_collective_projects
                               \subseteq info.unique_owner_of_projects
                          /\ all.only_member_projects \cup all.inner_projects
                               \subseteq info.unique_owner_of_projects
    BY DEF DeleteInfosAgree
  <1> DEFINE owned == {p \in Projects : OnlyOwner(u, p)}
             info == WorkspaceMembershipDeleteInfo(u)
             all == UserDeleteInfo(u)
  <1>1. u \in Users /\ Projects \subseteq ReferenceObjects /\ Workspace \in ReferenceObjects
    BY DEF IInv, TypeOK, ReferenceObjects
  <1>2. /\ info.unique_owner_of_projects = owned /\ info.member_of_projects = MemberProjects(u)
        /\ TotalProjectsIsMember(u) = Cardinality(info.member_of_projects)
    BY DEF WorkspaceMembershipDeleteInfo, TotalProjectsIsMember
  <1>3. /\ all.only_owner_collective_projects \subseteq owned
        /\ all.only_member_projects \subseteq {p \in Projects : OnlyMember(u, p)}
        /\ all.inner_projects # {} => OnlyMember(u, Workspace)
        /\ all.inner_projects \subseteq Projects \cap live
    BY DEF UserDeleteInfo
  <1>4. owned \subseteq MemberProjects(u)
    BY <1>1, RowFacts, ConstantFacts DEF OnlyOwner, IsOwner, MemberProjects, IsMember
  <1>5. ASSUME NEW p \in Projects, p \in live,
               \A v \in Users \ {u} : ~IsMember(v, p)
        PROVE  p \in owned
    <2>1. PICK v \in Users : IsOwner(v, p)
      BY <1>5 DEF IInv, HasOwner
    <2>2. \A w \in Users : IsOwner(w, p) => IsMember(w, p)
      BY ConstantFacts DEF IsOwner, IsMember
    <2> QED BY <1>5, <2>1, <2>2 DEF OnlyOwner
  <1>6. {p \in Projects : OnlyMember(u, p)} \subseteq owned
    BY <1>1, <1>5, RowFacts DEF OnlyMember
  <1>7. all.inner_projects \subseteq owned
    BY <1>1, <1>3, <1>5, RowFacts DEF OnlyMember
  <1> HIDE DEF info, all, owned
  <1> QED BY <1>2, <1>3, <1>4, <1>6, <1>7 DEF info, all

\* In every state that the handlers reach, what one page lists another opens, the
\* roles page adds up to the members and the invitations, a search finds every
\* account once, and what is announced before a deletion is what the lists show.
THEOREM PagesAlwaysFitTogether == Spec => []PagesFitTogether
  <1>1. IInv => PagesFitTogether
    BY ReachableProjects, ListedWorkspaces, RolesAddUpAlways, SearchesFind,
       DeleteInfosAgreeAlways DEF PagesFitTogether
  <1> QED BY <1>1, AlwaysIInv, PTL

-----------------------------------------------------------------------------
(* The events.                                                             *)

\* What ChangesAreTold asks, row by row.
RowsAreTold ==
    \A y \in live \cap live' :
        /\ PageChanges(y) => y \in published'
        /\ \A v \in Users : RowChanges(y, v) =>
             /\ y \in published' \/ DroppedSilently(y, v)
             /\ v \in active \cap active' =>
                  v \in published' \/ (y \in published' /\ MayView(v, y)')

\* The own row of someone changes only with their membership or invitation.
LEMMA OwnRowFollows ==
    ASSUME NEW x, NEW u, ~RowChanges(x, u)
    PROVE  OwnRow(x, u)' = OwnRow(x, u)
  <1>1. member[x][u]' = member[x][u] /\ ShownInvitation(x, u)' = ShownInvitation(x, u)
    BY DEF RowChanges
  <1>2. IsPending(invitation[x][u])' <=> IsPending(invitation[x][u])
    <2>1. HasInvitation(u, x)' <=> HasInvitation(u, x)
      BY <1>1 DEF ShownInvitation
    <2>2. CASE HasInvitation(u, x)
      <3>1. <<invitation[x][u].status, invitation[x][u].role>>'
              = <<invitation[x][u].status, invitation[x][u].role>>
        BY <1>1, <2>1, <2>2 DEF ShownInvitation
      <3> QED BY <2>1, <2>2, <3>1 DEF IsPending, HasInvitation
    <2>3. CASE ~HasInvitation(u, x)
      BY <2>1, <2>3 DEF IsPending, HasInvitation
    <2> QED BY <2>2, <2>3
  <1> QED BY <1>1, <1>2 DEF OwnRow

LEMMA RowsToldSuffice ==
    ASSUME IInv, RowsAreTold
    PROVE  ChangesAreTold
  <1>1. ASSUME NEW x \in live \cap live'
        PROVE  \/ x \in published'
               \/ /\ ~PageChanges(x)
                  /\ \A u \in Users : RowChanges(x, u) => DroppedSilently(x, u)
    BY DEF RowsAreTold
  <1>2. ASSUME NEW x \in live \cap live', NEW u \in active \cap active'
        PROVE  \/ u \in published'
               \/ OwnRow(x, u)' = OwnRow(x, u)
               \/ x \in published' /\ MayView(u, x)'
    <2>1. u \in Users
      BY DEF IInv, TypeOK
    <2> QED BY <2>1, OwnRowFollows DEF RowsAreTold
  <1> QED BY <1>1, <1>2 DEF ChangesAreTold

\* What nearly every handler does: it tells the place whose page changes, and
\* the person whose row changes if they have an account.
LEMMA RowsTold ==
    ASSUME IInv, live' = live,
           \A y \in live : PageChanges(y) => y \in published',
           \A y \in live, v \in Users : RowChanges(y, v) =>
              y \in published' /\ (v \in active => v \in published')
    PROVE  ChangesAreTold /\ LifeCyclesAreTold
  <1>1. RowsAreTold
    BY DEF RowsAreTold
  <1>2. LifeCyclesAreTold
    BY DEF LifeCyclesAreTold
  <1> QED BY <1>1, <1>2, RowsToldSuffice

LEMMA NoPageChanges ==
    ASSUME UNCHANGED <<roles, permissions, assignees>>, NEW y
    PROVE  ~PageChanges(y)
  BY DEF PageChanges

LEMMA NothingChanges ==
    ASSUME UNCHANGED vars, mailed' = {}
    PROVE  ChangesAreTold /\ LifeCyclesAreTold /\ MailsCanBeAnswered
  <1>1. \A x, u : OwnRow(x, u)' = OwnRow(x, u) /\ ~RowChanges(x, u)
    BY DEF vars, OwnRow, RowChanges, ShownInvitation, HasInvitation, IsPending
  <1>2. \A x : ~PageChanges(x)
    BY DEF vars, PageChanges
  <1>3. ChangesAreTold
    BY <1>1, <1>2 DEF ChangesAreTold
  <1>4. LifeCyclesAreTold
    BY DEF vars, LifeCyclesAreTold
  <1> QED BY <1>3, <1>4 DEF MailsCanBeAnswered

\* One row of the invitations changes: those of a place are told, and the person
\* if the row is theirs.
LEMMA InvitationTold ==
    ASSUME IInv, NEW x \in ReferenceObjects, NEW u \in Users, NEW inv \in Invitations,
           SetInvitation(x, u, inv), u \in active => inv.linked,
           UNCHANGED <<active, live, roles, permissions, member, assignees>>,
           published' = {x} \cup Recipient(invitation'[x][u], u)
    PROVE  ChangesAreTold /\ LifeCyclesAreTold /\ invitation'[x][u] = inv
  <1>1. ASSUME NEW y \in ReferenceObjects, NEW v \in Users
        PROVE  invitation'[y][v] = IF y = x /\ v = u THEN inv ELSE invitation[y][v]
    BY DEF SetInvitation, IInv, TypeOK
  <1>2. u \in active => u \in published'
    BY <1>1, NoInvitationAssumption DEF Recipient
  <1>3. ASSUME NEW y \in live, NEW v \in Users, RowChanges(y, v)
        PROVE  y = x /\ v = u
    <2>1. y \in ReferenceObjects
      BY DEF IInv, TypeOK
    <2> QED BY <1>1, <1>3, <2>1 DEF RowChanges, ShownInvitation, HasInvitation
  <1>4. ChangesAreTold /\ LifeCyclesAreTold
    BY <1>2, <1>3, NoPageChanges, RowsTold
  <1> QED BY <1>1, <1>4

\* An invitation is created or revived, and its mail can be answered.
LEMMA InviteTold ==
    ASSUME IInv, NEW a \in Users, NEW x \in ReferenceObjects, NEW u \in Users,
           NEW role \in Roles, Invite(a, x, u, role),
           PublishAndMail({x} \cup Recipient(invitation'[x][u], u), x, u)
    PROVE  ChangesAreTold /\ LifeCyclesAreTold /\ MailsCanBeAnswered
  <1>1. /\ UNCHANGED <<active, live, roles, permissions, member, assignees>>
        /\ published' = {x} \cup Recipient(invitation'[x][u], u)
        /\ mailed' = {<<x, u>>}
    BY DEF Invite, PublishAndMail
  <1>2. \E inv \in Invitations : /\ SetInvitation(x, u, inv) /\ inv.status = "pending"
                                 /\ u \in active => inv.linked
    <2>1. CASE HasInvitation(u, x)
      <3> DEFINE old == invitation[x][u]
                 inv == [old EXCEPT !.status = "pending", !.role = role]
      <3>1. old \in Invitations /\ (old.linked <=> u \in active)
        BY <2>1, WhoIsThere DEF IInv, InvitationsFollowAccounts
      <3>2. SetInvitation(x, u, inv)
        BY <2>1 DEF Invite
      <3> HIDE DEF old
      <3>3. inv \in Invitations /\ inv.status = "pending" /\ inv.linked = old.linked
        BY <3>1 DEF Invitations, Statuses
      <3> HIDE DEF inv
      <3> QED BY <3>1, <3>2, <3>3
    <2>2. CASE ~HasInvitation(u, x)
      <3> DEFINE inv == [status |-> "pending", role |-> role, linked |-> u \in active]
      <3>1. inv \in Invitations /\ inv.status = "pending"
        BY DEF Invitations, Statuses
      <3>3. inv.linked = (u \in active)
        OBVIOUS
      <3>2. SetInvitation(x, u, inv)
        BY <2>2 DEF Invite
      <3> HIDE DEF inv
      <3> QED BY <3>1, <3>2, <3>3
    <2> QED BY <2>1, <2>2
  <1>3. PICK inv \in Invitations : /\ SetInvitation(x, u, inv) /\ inv.status = "pending"
                                   /\ u \in active => inv.linked
    BY <1>2
  <1>4. ChangesAreTold /\ LifeCyclesAreTold /\ invitation'[x][u] = inv
    BY <1>1, <1>3, InvitationTold
  <1>5. MailsCanBeAnswered
    BY <1>1, <1>3, <1>4, NoInvitationAssumption DEF MailsCanBeAnswered, IsPending
  <1> QED BY <1>4, <1>5

\* A pending invitation changes: another role, a revocation, a denial.
LEMMA AnswerTold ==
    ASSUME IInv, NEW x \in ReferenceObjects, NEW u \in Users, NEW inv \in Invitations,
           ModifyPendingInvitation(x, u, inv),
           inv.linked = invitation[x][u].linked,
           Publish({x} \cup Recipient(invitation'[x][u], u))
    PROVE  ChangesAreTold /\ LifeCyclesAreTold /\ MailsCanBeAnswered
  <1>1. /\ SetInvitation(x, u, inv)
        /\ u \in active => inv.linked
        /\ UNCHANGED <<active, live, roles, permissions, member, assignees>>
    BY PendingFacts DEF ModifyPendingInvitation
  <1>2. published' = {x} \cup Recipient(invitation'[x][u], u) /\ mailed' = {}
    BY DEF Publish
  <1>3. ChangesAreTold /\ LifeCyclesAreTold
    BY <1>1, <1>2, InvitationTold
  <1> QED BY <1>2, <1>3 DEF MailsCanBeAnswered

LEMMA ChangeInvitedRoleTold ==
    ASSUME IInv, NEW a \in Users, NEW x \in ReferenceObjects, NEW u \in Users,
           NEW role \in Roles, ChangeInvitedRole(a, x, u, role),
           Publish({x} \cup Recipient(invitation'[x][u], u))
    PROVE  ChangesAreTold /\ LifeCyclesAreTold /\ MailsCanBeAnswered
  <1> DEFINE old == invitation[x][u]
             inv == [old EXCEPT !.role = role]
  <1>1. ModifyPendingInvitation(x, u, inv)
    BY DEF ChangeInvitedRole
  <1>2. old \in Invitations
    BY <1>1, PendingFacts DEF ModifyPendingInvitation
  <1> HIDE DEF old
  <1>3. inv \in Invitations /\ inv.linked = old.linked
    BY <1>2 DEF Invitations
  <1> HIDE DEF inv
  <1> QED BY <1>1, <1>3, AnswerTold DEF old

LEMMA StatusTold ==
    ASSUME IInv, NEW x \in ReferenceObjects, NEW u \in Users, NEW status \in Statuses,
           ModifyPendingInvitation(x, u, [invitation[x][u] EXCEPT !.status = status]),
           Publish({x} \cup Recipient(invitation'[x][u], u))
    PROVE  ChangesAreTold /\ LifeCyclesAreTold /\ MailsCanBeAnswered
  <1> DEFINE old == invitation[x][u]
             inv == [old EXCEPT !.status = status]
  <1>1. ModifyPendingInvitation(x, u, inv)
    OBVIOUS
  <1>2. old \in Invitations
    BY <1>1, PendingFacts DEF ModifyPendingInvitation
  <1> HIDE DEF old
  <1>3. inv \in Invitations /\ inv.linked = old.linked
    BY <1>2 DEF Invitations
  <1> HIDE DEF inv
  <1> QED BY <1>1, <1>3, AnswerTold DEF old

\* An invitation is accepted, by its person or as they verify their account.
LEMMA AcceptTold ==
    ASSUME IInv, NEW inv, SameInvitations(inv), NEW x \in ReferenceObjects,
           NEW u \in Users, CanAccept(inv, x, u),
           member' = MemberOnAccept(inv, x, u),
           invitation' = InvitationOnAccept(inv, x, u),
           UNCHANGED <<live, roles, permissions, assignees>>,
           AcceptanceEvents(inv, x, u) \subseteq published'
    PROVE  ChangesAreTold /\ LifeCyclesAreTold
  <1>1. /\ {x, u} \subseteq published'
        /\ JoinsWorkspace(x, u) => Workspace \in published'
    <2>1. Recipient(inv[x][u], u) = {u}
      BY DEF CanAccept, IsPending, Recipient
    <2> HIDE DEF Recipient
    <2>2. CASE x = Workspace
      BY <2>1, <2>2 DEF AcceptanceEvents,
         WorkspaceInvitationIsAccepted, JoinsWorkspace
    <2>3. CASE x # Workspace /\ AcceptsWorkspace(inv, x, u)
      BY <2>1, <2>3 DEF AcceptanceEvents, WorkspaceInvitationIsAccepted,
         ProjectInvitationIsAccepted
    <2>4. CASE x # Workspace /\ ~AcceptsWorkspace(inv, x, u)
      BY <2>1, <2>4 DEF AcceptanceEvents, ProjectInvitationIsAccepted
    <2> QED BY <2>2, <2>3, <2>4
  <1>2. ASSUME NEW y \in ReferenceObjects, NEW v \in Users,
               v # u \/ (y # x /\ ~(y = Workspace /\ JoinsWorkspace(x, u)))
        PROVE  ~RowChanges(y, v)
    <2>1. v # u \/ (y \notin Accepted(inv, x, u)
                     /\ ~(y = Workspace /\ JoinsWorkspace(x, u)))
      BY <1>2 DEF Accepted, AcceptsWorkspace
    <2>2. member'[y][v] = member[y][v]
      BY <2>1 DEF MemberOnAccept, IInv, TypeOK
    <2>3. invitation'[y][v] = inv[y][v]
      BY <2>1 DEF InvitationOnAccept, SameInvitations, InvitationsType
    <2> QED BY <2>2, <2>3 DEF SameInvitations, RowChanges, ShownInvitation, HasInvitation
  <1>3. ASSUME NEW y \in live, NEW v \in Users, RowChanges(y, v)
        PROVE  y \in published' /\ v \in published'
    <2>1. y \in ReferenceObjects
      BY DEF IInv, TypeOK
    <2> QED BY <1>1, <1>2, <1>3, <2>1
  <1> QED BY <1>3, NoPageChanges, RowsTold

LEMMA AcceptServiceTold ==
    ASSUME IInv, NEW x \in ReferenceObjects, NEW u \in Users, Accept(u, x),
           Publish(AcceptanceEvents(invitation, x, u))
    PROVE  ChangesAreTold /\ LifeCyclesAreTold /\ MailsCanBeAnswered
  <1>1. SameInvitations(invitation)
    BY DEF SameInvitations, InvitationsType, IInv, TypeOK, HasInvitation
  <1>2. ChangesAreTold /\ LifeCyclesAreTold
    BY <1>1, AcceptTold DEF Accept, Publish
  <1> QED BY <1>2 DEF Publish, MailsCanBeAnswered

\* The invitations that get their account stay what the pages show of them.
LEMMA VerifyUserTold ==
    ASSUME IInv, NEW u \in Users, NEW x, VerifyUserService(u, x)
    PROVE  ChangesAreTold /\ LifeCyclesAreTold /\ MailsCanBeAnswered
  <1> DEFINE inv == LinkedInvitations(u)
  <1>1. /\ active' = active \cup {u}
        /\ UNCHANGED <<live, roles, permissions, assignees>>
        /\ x \in PendingOf(u) => AcceptanceEvents(inv, x, u) \subseteq published'
        /\ mailed' = {}
    BY DEF VerifyUserService, VerifyUser, Publish
  <1>2. SameInvitations(inv)
    BY <1>1, LinkEffect
  <1>3. CASE x \in live /\ IsPending(inv[x][u])
    <2>1. /\ x \in ReferenceObjects /\ CanAccept(inv, x, u)
          /\ member' = MemberOnAccept(inv, x, u)
          /\ invitation' = InvitationOnAccept(inv, x, u)
      BY <1>3 DEF VerifyUserService, VerifyUser, IInv, TypeOK
    <2> HIDE DEF inv
    <2>2. x \in PendingOf(u)
      BY <1>2, <1>3, <2>1
         DEF PendingOf, HasPendingInvitation, IsPending, SameInvitations, HasInvitation
    <2> QED BY <1>1, <1>2, <2>1, <2>2, AcceptTold DEF MailsCanBeAnswered
  <1>4. CASE ~(x \in live /\ IsPending(inv[x][u]))
    <2>1. member' = member /\ invitation' = inv
      BY <1>4 DEF VerifyUserService, VerifyUser
    <2> HIDE DEF inv
    <2>2. ASSUME NEW y \in live, NEW v \in Users
          PROVE  ~RowChanges(y, v)
      <3>1. y \in ReferenceObjects
        BY DEF IInv, TypeOK
      <3> QED BY <1>2, <2>1, <3>1
              DEF SameInvitations, RowChanges, ShownInvitation, HasInvitation
    <2>3. ChangesAreTold /\ LifeCyclesAreTold
      BY <1>1, <2>2, NoPageChanges, RowsTold
    <2> QED BY <1>1, <2>3 DEF MailsCanBeAnswered
  <1> QED BY <1>3, <1>4

LEMMA ChangeRoleTold ==
    ASSUME IInv, NEW a \in Users, NEW x \in ReferenceObjects, NEW u \in Users,
           NEW role \in Roles, ChangeRole(a, x, u, role), Publish({u, x})
    PROVE  ChangesAreTold /\ LifeCyclesAreTold /\ MailsCanBeAnswered
  <1>1. /\ UNCHANGED <<active, live, roles, permissions, invitation, assignees>>
        /\ published' = {u, x} /\ mailed' = {}
    BY DEF ChangeRole, Publish
  <1>2. ASSUME NEW y \in live, NEW v \in Users, RowChanges(y, v)
        PROVE  y = x /\ v = u
    <2>1. y \in ReferenceObjects
      BY DEF IInv, TypeOK
    <2>2. ~(y = x /\ v = u) => member'[y][v] = member[y][v]
      BY <2>1 DEF ChangeRole, IInv, TypeOK
    <2>3. ShownInvitation(y, v)' = ShownInvitation(y, v)
      BY <1>1 DEF ShownInvitation, HasInvitation
    <2> QED BY <1>2, <2>2, <2>3 DEF RowChanges
  <1>3. ChangesAreTold /\ LifeCyclesAreTold
    BY <1>1, <1>2, NoPageChanges, RowsTold
  <1> QED BY <1>1, <1>3 DEF MailsCanBeAnswered

\* The one who leaves, the successor, and the project are told.
LEMMA LeaveProjectTold ==
    ASSUME IInv, NEW a \in Users, NEW p \in Projects, NEW u \in Users, NEW successor,
           DeleteProjectMembershipService(a, p, u, successor)
    PROVE  ChangesAreTold /\ LifeCyclesAreTold /\ MailsCanBeAnswered
  <1>1. /\ live' = live /\ UNCHANGED <<roles, permissions>>
        /\ member' = [member EXCEPT ![p] = Succession(p, u, successor)]
        /\ assignees' = [assignees EXCEPT ![p] = AssigneesWithout(p, u)]
        /\ invitation' = [invitation EXCEPT ![p] = InvitationsWithout(p, u)]
    BY DEF DeleteProjectMembershipService, LeaveProject
  <1>2. /\ {p, u} \subseteq published' /\ mailed' = {}
        /\ OnlyOwner(u, p) => successor \in published'
    BY DEF DeleteProjectMembershipService, Publish, ProjectMembershipIsDeleted,
           ProjectMembershipIsUpdated
  <1>3. ASSUME NEW y \in live
        PROVE  PageChanges(y) => y = p
    BY <1>1, ConstantsAssumption DEF PageChanges, IInv, TypeOK
  <1>4. ASSUME NEW y \in live, NEW v \in Users, RowChanges(y, v)
        PROVE  y = p /\ (v = u \/ (v = successor /\ OnlyOwner(u, p)))
    <2>1. y \in ReferenceObjects
      BY DEF IInv, TypeOK
    <2>2. member'[y][v] = IF y # p THEN member[y][v]
                          ELSE IF v = u THEN NoRole
                          ELSE IF v = successor /\ OnlyOwner(u, p) THEN Owner
                          ELSE member[y][v]
      BY <1>1, <2>1 DEF Succession, IInv, TypeOK
    <2>3. invitation'[y][v] = IF y = p /\ v = u THEN NoInvitation ELSE invitation[y][v]
      BY <1>1, <2>1 DEF InvitationsWithout, IInv, TypeOK
    <2> QED BY <1>4, <2>2, <2>3 DEF RowChanges, ShownInvitation, HasInvitation
  <1>5. ChangesAreTold /\ LifeCyclesAreTold
    BY <1>1, <1>2, <1>3, <1>4, RowsTold
  <1> QED BY <1>2, <1>5 DEF MailsCanBeAnswered

\* Roles and assignments that no membership follows.
LEMMA PageTold ==
    ASSUME IInv, NEW p \in Projects,
           UNCHANGED <<active, live, member, invitation>>, mailed' = {},
           \A y \in ReferenceObjects : PageChanges(y) => y = p /\ p \in published'
    PROVE  ChangesAreTold /\ LifeCyclesAreTold /\ MailsCanBeAnswered
  <1>1. \A y, v : ~RowChanges(y, v)
    BY DEF RowChanges, ShownInvitation, HasInvitation
  <1>2. \A y \in live : PageChanges(y) => y \in published'
    BY DEF IInv, TypeOK
  <1>3. ChangesAreTold /\ LifeCyclesAreTold
    BY <1>1, <1>2, RowsTold
  <1> QED BY <1>3 DEF MailsCanBeAnswered

\* The succession, the takeovers and the projects that are left; the invitations
\* to the other projects go silently.
LEMMA LeaveWorkspaceTold ==
    ASSUME IInv, NEW a \in Users, NEW u \in Users, NEW successor,
           CanDeleteMembership(a, Workspace, u),
           DeleteWorkspaceMembershipService(a, u, successor)
    PROVE  ChangesAreTold /\ LifeCyclesAreTold /\ MailsCanBeAnswered
  <1> DEFINE owned == {p \in Projects : OnlyOwner(u, p)}
             inner == {p \in Projects : IsMember(u, p)}
  <1>1. /\ UNCHANGED <<active, live, roles, permissions>>
        /\ a = u => inner = {}
        /\ member' = [x \in ReferenceObjects |->
             IF x = Workspace THEN Succession(x, u, successor)
             ELSE IF x \in owned THEN [member[x] EXCEPT ![a] = Owner, ![u] = NoRole]
             ELSE [member[x] EXCEPT ![u] = NoRole]]
        /\ assignees' = [p \in Projects |-> AssigneesWithout(p, u)]
        /\ invitation' = [x \in ReferenceObjects |->
             IF x = Workspace \/ inner # {} THEN InvitationsWithout(x, u)
             ELSE invitation[x]]
    BY DEF DeleteWorkspaceMembershipService, LeaveWorkspace
  <1>2. IsMember(u, Workspace)
    BY DEF CanDeleteMembership
  <1>3. /\ published' = SuccessionEvents(u, successor) \cup TakeoverEvents(a, u)
                          \cup InnerMembershipEvents(u)
                          \cup WorkspaceMembershipIsDeleted(u) \cup WorkspaceInvitationIsDeleted
        /\ mailed' = {}
    BY DEF DeleteWorkspaceMembershipService, Publish
  <1>4. {Workspace, u} \subseteq published'
    BY <1>3 DEF WorkspaceMembershipIsDeleted
  <1>5. OnlyOwner(u, Workspace) => successor \in published'
    BY <1>3 DEF SuccessionEvents, WorkspaceMembershipIsUpdated
  <1>6. \A p \in inner : p \in published'
    BY <1>3 DEF InnerMembershipEvents, ProjectMembershipIsDeleted
  <1>7. a # u => \A p \in owned : a \in published'
    BY <1>3 DEF TakeoverEvents, ProjectMembershipIsUpdated
  <1>8. owned \subseteq inner
    BY WhoIsThere, ConstantFacts DEF OnlyOwner
  <1>9. ASSUME NEW y \in ReferenceObjects, NEW v \in Users
         PROVE  member'[y][v] = IF v = u THEN NoRole
                                ELSE IF y = Workspace
                                THEN (IF v = successor /\ OnlyOwner(u, y) THEN Owner
                                      ELSE member[y][v])
                                ELSE IF y \in owned /\ v = a THEN Owner
                                ELSE member[y][v]
    <2>1. member[y] \in [Users -> Roles \cup {NoRole}]
      BY DEF IInv, TypeOK
    <2> HIDE DEF owned, inner
    <2> QED BY <1>1, <2>1 DEF Succession
  <1>10. ASSUME NEW y \in ReferenceObjects, NEW v \in Users
         PROVE  /\ v # u /\ ~(y = Workspace /\ v = successor /\ OnlyOwner(u, y))
                     /\ ~(y \in owned /\ v = a)
                   => ~RowChanges(y, v)
                /\ y \in Projects \ inner /\ v # u => ~RowChanges(y, v)
                /\ RowChanges(y, v) /\ y # Workspace =>
                     y \in Projects /\ (inner # {} \/ IsMember(u, y))
    <2>2. invitation'[y][v] = IF (y = Workspace \/ inner # {}) /\ v = u
                              THEN NoInvitation ELSE invitation[y][v]
      BY <1>1 DEF InvitationsWithout, IInv, TypeOK
    <2> HIDE DEF owned, inner
    <2>3. y # Workspace => y \in Projects
      BY DEF ReferenceObjects
    <2>4. v = u /\ ~IsMember(u, y) => member[y][v] = NoRole
      BY DEF IsMember
    <2> QED BY <1>8, <1>9, <2>2, <2>3, <2>4, ConstantsAssumption
            DEF RowChanges, ShownInvitation, HasInvitation
  <1>11. \A p \in Projects : ~IsMember(u, p)' /\ ~IsMember(u, Workspace)'
    BY <1>9, ConstantFacts DEF IsMember
  <1> HIDE DEF owned
  <1>12. ASSUME NEW y \in live
         PROVE  /\ PageChanges(y) => y \in published'
                /\ \A v \in Users : RowChanges(y, v) =>
                     /\ y \in published' \/ DroppedSilently(y, v)
                     /\ v \in published'
    <2>1. y \in ReferenceObjects
      BY DEF IInv, TypeOK
    <2>2. CASE y = Workspace
      <3>1. ~PageChanges(y)
        BY <1>1, <2>2, ConstantsAssumption DEF PageChanges
      <3>2. \A v \in Users : RowChanges(y, v) => v \in published'
        BY <1>4, <1>5, <1>10, <2>1, <2>2, <1>8, ConstantsAssumption
      <3> QED BY <1>4, <2>2, <3>1, <3>2
    <2>3. CASE y \in inner
      <3>1. \A v \in Users : RowChanges(y, v) => v \in published'
        <4>1. y # Workspace
          BY <2>3, ConstantsAssumption
        <4>2. y \in owned => a # u
          BY <1>1, <2>3
        <4> QED BY <1>4, <1>7, <1>10, <2>1, <4>1, <4>2
      <3> QED BY <1>6, <2>3, <3>1
    <2>4. CASE y \in Projects \ inner
      <3>1. ~IsMember(u, y) /\ u \notin assignees[y]
        BY <2>4 DEF IInv, AssigneesAreMembers
      <3>2. ~PageChanges(y)
        BY <1>1, <2>4, <3>1 DEF PageChanges, AssigneesWithout
      <3>3. ASSUME NEW v \in Users, RowChanges(y, v)
            PROVE  v = u /\ DroppedSilently(y, v)
        BY <1>2, <1>10, <1>11, <2>1, <2>4, <3>1, <3>3 DEF DroppedSilently
      <3> QED BY <1>4, <3>2, <3>3
    <2> QED BY <2>1, <2>2, <2>3, <2>4 DEF ReferenceObjects
  <1>13. RowsAreTold /\ LifeCyclesAreTold
    BY <1>1, <1>12 DEF RowsAreTold, LifeCyclesAreTold
  <1> QED BY <1>3, <1>13, RowsToldSuffice DEF MailsCanBeAnswered

\* A role goes: whoever moves to the target role may still view the project.
LEMMA RemoveRoleTold ==
    ASSUME IInv, NEW a \in Users, NEW p \in Projects, NEW role \in Roles,
           NEW target \in Roles \cup {NoRole}, RemoveRole(a, p, role, target),
           Publish({p})
    PROVE  ChangesAreTold /\ LifeCyclesAreTold /\ MailsCanBeAnswered
  <1>1. /\ UNCHANGED <<active, live, assignees>>
        /\ p \in ReferenceObjects /\ p # Workspace /\ role # NoRole
        /\ published' = {p} /\ mailed' = {}
    BY ConstantsAssumption, ConstantFacts DEF RemoveRole, Publish, Editable
  <1>2. ASSUME NEW y \in ReferenceObjects, NEW v \in Users
        PROVE  /\ member'[y][v] = IF y = p /\ member[y][v] = role THEN target
                                  ELSE member[y][v]
               /\ invitation'[y][v] =
                    IF y = p THEN MovedInvitation(invitation[y][v], role, target)
                    ELSE invitation[y][v]
    BY DEF RemoveRole, IInv, TypeOK
  <1>3. ASSUME NEW y \in live, PageChanges(y)
        PROVE  y = p
    BY <1>1, <1>3 DEF RemoveRole, PageChanges, IInv, TypeOK
  <1>4. ASSUME NEW y \in live, NEW v \in Users, RowChanges(y, v)
        PROVE  /\ y = p
               /\ OwnRow(y, v)' = OwnRow(y, v) \/ (v \in active => MayView(v, y)')
    <2>1. y \in ReferenceObjects
      BY DEF IInv, TypeOK
    <2>2. y = p
      BY <1>2, <1>4, <2>1 DEF RowChanges, ShownInvitation, HasInvitation
    <2>3. CASE member[p][v] # NoRole
      <3>1. member'[p][v] # NoRole
        <4>1. CASE target = NoRole
          BY <1>1, <1>2, <2>3, <4>1 DEF RemoveRole, RoleUnused
        <4>2. CASE target # NoRole
          BY <1>1, <1>2, <2>3, <4>2
        <4> QED BY <4>1, <4>2
      <3> QED BY <1>1, <2>2, <3>1 DEF MayView, MayViewProject, IsMember, IsAuthenticated
    <2>4. CASE member[p][v] = NoRole /\ IsPending(invitation[p][v])
      <3>1. invitation[p][v] \in Invitations
        BY <1>1, <2>4, PendingFacts
      <3>2. CASE invitation[p][v].role = role
        <4>1. target # NoRole
          BY <3>2, <2>4 DEF RemoveRole, RoleUnused, HasInvitation, IsPending
        <4>2. target \in Roles
          BY <4>1
        <4> DEFINE old == invitation[p][v]
                   new == [old EXCEPT !.role = target]
        <4>3. invitation'[p][v] = new
          BY <1>1, <1>2, <3>2, <2>4 DEF MovedInvitation, IsPending
        <4> HIDE DEF old
        <4>4. new \in Invitations /\ new.status = "pending"
          BY <2>4, <3>1, <4>2 DEF Invitations, IsPending, old
        <4> HIDE DEF new
        <4> QED BY <1>1, <2>2, <4>3, <4>4, NoInvitationAssumption
                DEF MayView, MayViewProject, IsAuthenticated, HasPendingInvitation, IsPending
      <3>3. CASE invitation[p][v].role # role
        <4>1. invitation'[p][v] = invitation[p][v]
          BY <1>1, <1>2, <3>3 DEF MovedInvitation
        <4> QED BY <1>1, <2>2, <2>4, <4>1
                DEF MayView, MayViewProject, IsAuthenticated, HasPendingInvitation
      <3> QED BY <3>2, <3>3
    <2>5. CASE member[p][v] = NoRole /\ ~IsPending(invitation[p][v])
      <3>1. member'[p][v] = member[p][v]
        BY <1>1, <1>2, <2>5
      <3>2. ~IsPending(invitation'[p][v])
        <4>1. CASE HasInvitation(v, p)
          <5> DEFINE old == invitation[p][v]
                     new == [old EXCEPT !.role = target]
          <5>1. old \in Invitations
            BY <1>1, <4>1, WhoIsThere
          <5>2. invitation'[p][v] \in {old, new}
            BY <1>1, <1>2 DEF MovedInvitation
          <5> HIDE DEF old
          <5>3. new.status = old.status
            BY <5>1 DEF Invitations
          <5> HIDE DEF new
          <5> QED BY <2>5, <4>1, <5>2, <5>3 DEF IsPending, HasInvitation, old
        <4>2. CASE ~HasInvitation(v, p)
          BY <1>1, <1>2, <4>2 DEF MovedInvitation, HasInvitation, IsPending
        <4> QED BY <4>1, <4>2
      <3> QED BY <2>2, <2>5, <3>1, <3>2 DEF OwnRow
    <2> QED BY <2>2, <2>3, <2>4, <2>5
  <1>5. ChangesAreTold
    <2>1. ASSUME NEW x \in live \cap live', NEW u \in active \cap active'
          PROVE  \/ OwnRow(x, u)' = OwnRow(x, u)
                 \/ x \in published' /\ MayView(u, x)'
      <3>1. u \in Users
        BY DEF IInv, TypeOK
      <3> QED BY <1>1, <1>4, <2>1, <3>1, OwnRowFollows
    <2>2. ASSUME NEW x \in live \cap live', x \notin published'
          PROVE  ~PageChanges(x) /\ \A u \in Users : ~RowChanges(x, u)
      BY <1>1, <1>3, <1>4, <2>2
    <2> QED BY <2>1, <2>2 DEF ChangesAreTold
  <1>6. LifeCyclesAreTold
    BY <1>1 DEF LifeCyclesAreTold
  <1> QED BY <1>1, <1>5, <1>6 DEF MailsCanBeAnswered

\* What appears is told to who made it, and a project to its workspace.
LEMMA CreateTold ==
    ASSUME IInv, NEW a \in Users, NEW x \in ReferenceObjects, NEW template,
           CreateWith(a, x, template), NEW channels, Publish(channels),
           a \in channels, Workspace \in live => Workspace \in channels
    PROVE  ChangesAreTold /\ LifeCyclesAreTold /\ MailsCanBeAnswered
  <1>1. /\ x \notin live /\ live' = live \cup {x} /\ active' = active
        /\ published' = channels /\ mailed' = {}
        /\ UNCHANGED <<invitation, assignees>>
    BY DEF CreateWith, Publish
  <1>2. ASSUME NEW y \in ReferenceObjects, NEW v \in Users
        PROVE  member'[y][v] = IF y = x /\ v = a THEN Owner ELSE member[y][v]
    BY DEF CreateWith, IInv, TypeOK
  <1>3. ASSUME NEW y \in live
        PROVE  ~PageChanges(y) /\ \A v \in Users : ~RowChanges(y, v)
    <2>1. y \in ReferenceObjects /\ y # x
      BY <1>1 DEF IInv, TypeOK
    <2>2. ~PageChanges(y)
      BY <1>1, <2>1 DEF PageChanges, CreateWith, IInv, TypeOK
    <2>3. \A v \in Users : ~RowChanges(y, v)
      BY <1>1, <1>2, <2>1 DEF RowChanges, ShownInvitation, HasInvitation
    <2> QED BY <2>2, <2>3
  <1>4. ChangesAreTold
    BY <1>3, RowsToldSuffice DEF RowsAreTold
  <1>5. ASSUME NEW y \in live' \ live, NEW v \in Users, IsMember(v, y)'
        PROVE  v \in published'
    BY <1>1, <1>2, <1>5, WhoIsThere DEF IsMember
  <1>6. LifeCyclesAreTold
    BY <1>1, <1>5 DEF LifeCyclesAreTold
  <1> QED BY <1>1, <1>4, <1>6 DEF MailsCanBeAnswered

LEMMA DeleteTold ==
    ASSUME IInv, NEW x \in ReferenceObjects, DeleteReferenceObject(x),
           NEW channels, Publish(channels),
           x \in channels, Workspace \in live => Workspace \in channels
    PROVE  ChangesAreTold /\ LifeCyclesAreTold /\ MailsCanBeAnswered
  <1>1. live' = live \ {x} /\ published' = channels /\ mailed' = {}
    BY DEF DeleteReferenceObject, Cascade, Publish
  <1>2. ASSUME NEW y \in live \cap live'
        PROVE  ~PageChanges(y) /\ \A v \in Users : ~RowChanges(y, v)
    <2>1. y \in ReferenceObjects /\ y # x
      BY <1>1 DEF IInv, TypeOK
    <2>2. ~PageChanges(y)
      BY <2>1 DEF PageChanges, DeleteReferenceObject, Cascade
    <2>3. \A v \in Users : ~RowChanges(y, v)
      BY <2>1 DEF RowChanges, ShownInvitation, HasInvitation, DeleteReferenceObject,
                  IInv, TypeOK
    <2> QED BY <2>2, <2>3
  <1>3. ChangesAreTold
    BY <1>2, RowsToldSuffice DEF RowsAreTold
  <1>4. LifeCyclesAreTold
    BY <1>1 DEF LifeCyclesAreTold
  <1> QED BY <1>1, <1>3, <1>4 DEF MailsCanBeAnswered

\* Whoever is alone in the workspace is alone in its projects.
LEMMA AloneInWorkspace ==
    ASSUME IInv, NEW u \in Users, OnlyMember(u, Workspace), NEW x \in live
    PROVE  OnlyMember(u, x)
  <1>1. x \in ReferenceObjects
    BY DEF IInv, TypeOK
  <1>2. \A v \in Users : IsMember(v, x) => v = u
    BY <1>1, RowFacts DEF OnlyMember
  <1>3. PICK v \in Users : IsOwner(v, x)
    BY DEF IInv, HasOwner
  <1> QED BY <1>1, <1>2, <1>3, WhoIsThere DEF OnlyMember

LEMMA DeleteUserTold ==
    ASSUME IInv, NEW u \in Users, DeleteUserService(u)
    PROVE  ChangesAreTold /\ LifeCyclesAreTold /\ MailsCanBeAnswered
  <1> DEFINE alone == {x \in ReferenceObjects : OnlyMember(u, x)}
             gone == IF Workspace \in alone THEN ReferenceObjects ELSE alone
  <1>1. DeleteUser(u) /\ mailed' = {}
    BY DEF DeleteUserService, Publish
  <1>2. /\ GoneProjectsEvents(alone) \subseteq published'
        /\ alone \cap {Workspace} \subseteq published'
        /\ RemainingMembershipsEvents(u, alone) \subseteq published'
        /\ RemainingInvitationsEvents(u, alone) \subseteq published'
    BY DEF DeleteUserService, Publish, WorkspaceIsDeleted
  <1>3. /\ live' = live \ gone /\ active' = active \ {u} /\ u \in active
        /\ \A x \in ReferenceObjects \ gone :
             roles'[x] = roles[x] /\ permissions'[x] = permissions[x]
    BY <1>1 DEF DeleteUser, Cascade
  <1>4. \A p \in Projects : p \notin gone => assignees'[p] = assignees[p] \ {u}
    BY <1>1 DEF DeleteUser, AssigneesWithout
  <1>5. ASSUME NEW x \in ReferenceObjects \ gone, NEW v \in Users
        PROVE  /\ v # u => member'[x][v] = member[x][v] /\ invitation'[x][v] = invitation[x][v]
               /\ ~IsMember(u, x) => member'[x][u] = member[x][u]
               /\ ~HasInvitation(u, x) => invitation'[x][u] = invitation[x][u]
    <2>1. member'[x] = [member[x] EXCEPT ![u] = NoRole]
      BY <1>1 DEF DeleteUser
    <2>2. invitation'[x] \in {invitation[x], [invitation[x] EXCEPT ![u] = NoInvitation]}
      BY <1>1 DEF DeleteUser, InvitationsWithout
    <2>3. /\ member[x] \in [Users -> Roles \cup {NoRole}]
          /\ invitation[x] \in [Users -> Invitations \cup {NoInvitation}]
      BY DEF IInv, TypeOK
    <2> HIDE DEF gone
    <2> QED BY <2>1, <2>2, <2>3 DEF IsMember, HasInvitation
  <1>6. live \cap gone \subseteq alone /\ alone \subseteq gone
    BY AloneInWorkspace DEF IInv, TypeOK
  <1> HIDE DEF alone, gone
  <1>7. ASSUME NEW x \in ReferenceObjects \ alone, IsMember(u, x) \/ HasInvitation(u, x)
        PROVE  x \in published'
    <2>1. IsMember(u, x) => x \in RemainingMembershipsEvents(u, alone)
      BY <1>7 DEF RemainingMembershipsEvents, WorkspaceMembershipIsDeleted,
                  ProjectMembershipIsDeleted
    <2>2. HasInvitation(u, x) => Recipient(invitation[x][u], u) # {}
      BY <1>3 DEF IInv, InvitationsFollowAccounts, HasInvitation, Recipient
    <2>3. HasInvitation(u, x) => x \in RemainingInvitationsEvents(u, alone)
      BY <1>7, <2>2 DEF RemainingInvitationsEvents, WorkspaceInvitationIsDeleted,
                        ProjectInvitationIsDeleted
    <2> QED BY <1>2, <1>7, <2>1, <2>3
  <1>8. \A x \in alone \ {Workspace} : {x, Workspace} \subseteq GoneProjectsEvents(alone)
    BY DEF GoneProjectsEvents, ProjectIsDeleted
  <1>9. alone \subseteq published' /\ (alone # {} => Workspace \in published')
    BY <1>2, <1>8
  <1>10. ASSUME NEW x \in live \cap live'
         PROVE  /\ x \in ReferenceObjects \ gone /\ x \in ReferenceObjects \ alone
    BY <1>3, <1>6 DEF IInv, TypeOK
  <1>11. ASSUME NEW x \in live \cap live'
         PROVE  /\ PageChanges(x) => x \in published'
                /\ \A v \in Users : RowChanges(x, v) => v = u /\ x \in published'
    <2>1. \A v \in Users : RowChanges(x, v) => v = u /\ (IsMember(u, x) \/ HasInvitation(u, x))
      BY <1>5, <1>10 DEF RowChanges, ShownInvitation, HasInvitation
    <2>2. PageChanges(x) => IsMember(u, x)
      BY <1>3, <1>4, <1>10 DEF PageChanges, IInv, AssigneesAreMembers
    <2> QED BY <1>7, <1>10, <2>1, <2>2
  <1>12. ChangesAreTold
    BY <1>3, <1>11, RowsToldSuffice DEF RowsAreTold
  <1>13. LifeCyclesAreTold
    BY <1>3, <1>6, <1>9 DEF LifeCyclesAreTold
  <1> QED BY <1>1, <1>12, <1>13 DEF MailsCanBeAnswered

Told == ChangesAreTold /\ LifeCyclesAreTold /\ MailsCanBeAnswered

LEMMA UsersRouterTells == ASSUME IInv, UsersRouter PROVE Told
  BY VerifyUserTold, DeleteUserTold
     DEF UsersRouter, VerifyUserEndpoint, DeleteCurrentUserEndpoint, Told

LEMMA WorkspacesRouterTells == ASSUME IInv, WorkspacesRouter PROVE Told
  <1> SUFFICES ASSUME NEW a \in Users,
                      \/ CreateWorkspaceEndpoint(a)
                      \/ UpdateWorkspaceEndpoint(a)
                      \/ DeleteWorkspaceEndpoint(a)
               PROVE  Told
    BY DEF WorkspacesRouter
  <1>1. CASE CreateWorkspaceEndpoint(a)
    <2>1. /\ CreateWith(a, Workspace, WorkspaceRoles) /\ Publish({a})
          /\ Workspace \notin live
      BY <1>1 DEF CreateWorkspaceEndpoint, CreateWorkspaceService, WorkspaceIsCreated,
                  CreateWith
    <2> QED BY <2>1, CreateTold, ConstantFacts DEF Told
  <1>2. CASE UpdateWorkspaceEndpoint(a)
    BY <1>2, NothingChanges
       DEF UpdateWorkspaceEndpoint, UpdateWorkspaceService, Publish, Told
  <1>3. CASE DeleteWorkspaceEndpoint(a)
    <2>1. DeleteReferenceObject(Workspace) /\ Publish({Workspace})
      BY <1>3 DEF DeleteWorkspaceEndpoint, DeleteWorkspaceService, DeleteEmptyWorkspace,
                  WorkspaceIsDeleted
    <2> QED BY <2>1, DeleteTold, ConstantFacts DEF Told
  <1> QED BY <1>1, <1>2, <1>3

LEMMA ProjectsRouterTells == ASSUME IInv, ProjectsRouter PROVE Told
  <1> SUFFICES ASSUME NEW a \in Users, NEW p \in Projects,
                      \/ CreateProjectEndpoint(a, p)
                      \/ UpdateProjectEndpoint(a, p)
                      \/ DeleteProjectEndpoint(a, p)
               PROVE  Told
    BY DEF ProjectsRouter
  <1>1. CASE CreateProjectEndpoint(a, p)
    <2>1. CreateWith(a, p, ProjectTemplate) /\ Publish({a, Workspace})
      BY <1>1 DEF CreateProjectEndpoint, CreateProjectService, ProjectIsCreated
    <2> QED BY <2>1, CreateTold, ConstantFacts DEF Told
  <1>2. CASE UpdateProjectEndpoint(a, p)
    BY <1>2, NothingChanges
       DEF UpdateProjectEndpoint, UpdateProjectService, Publish, Told
  <1>3. CASE DeleteProjectEndpoint(a, p)
    <2>1. DeleteReferenceObject(p) /\ Publish({Workspace, p})
      BY <1>3 DEF DeleteProjectEndpoint, DeleteProjectService, ProjectIsDeleted
    <2> QED BY <2>1, DeleteTold, ConstantFacts DEF Told
  <1> QED BY <1>1, <1>2, <1>3

\* The answers to an invitation, in a project or in the workspace: the same
\* rows, the same channels.
LEMMA InvitationServicesTell ==
    ASSUME IInv, NEW a \in Users, NEW u \in Users, NEW x \in ReferenceObjects
    PROVE  /\ \A role \in Roles :
                Invite(a, x, u, role)
                  /\ PublishAndMail({x} \cup Recipient(invitation'[x][u], u), x, u) => Told
           /\ \A role \in Roles :
                ChangeInvitedRole(a, x, u, role)
                  /\ Publish({x} \cup Recipient(invitation'[x][u], u)) => Told
           /\ ResendService(x, u) => Told
           /\ Revoke(x, u) /\ Publish({x} \cup Recipient(invitation'[x][u], u)) => Told
           /\ Deny(u, x) /\ Publish({x} \cup Recipient(invitation'[x][u], u)) => Told
           /\ Accept(u, x) /\ Publish(AcceptanceEvents(invitation, x, u)) => Told
  <1>1. ASSUME NEW role \in Roles, Invite(a, x, u, role),
               PublishAndMail({x} \cup Recipient(invitation'[x][u], u), x, u)
        PROVE  Told
    BY <1>1, InviteTold DEF Told
  <1>2. ASSUME NEW role \in Roles, ChangeInvitedRole(a, x, u, role),
               Publish({x} \cup Recipient(invitation'[x][u], u))
        PROVE  Told
    BY <1>2, ChangeInvitedRoleTold DEF Told
  <1>3. ASSUME ResendService(x, u)
        PROVE  Told
    <2>1. /\ UNCHANGED vars /\ mailed' = {<<x, u>>} /\ IsPending(invitation[x][u])
      BY <1>3 DEF ResendService, PublishAndMail
    <2>2. \A y, v : OwnRow(y, v)' = OwnRow(y, v) /\ ~RowChanges(y, v)
      BY <2>1 DEF vars, OwnRow, RowChanges, ShownInvitation, HasInvitation, IsPending
    <2>3. ChangesAreTold /\ LifeCyclesAreTold
      BY <2>1, <2>2 DEF vars, ChangesAreTold, LifeCyclesAreTold, PageChanges
    <2>4. MailsCanBeAnswered
      BY <2>1 DEF vars, MailsCanBeAnswered, IsPending
    <2> QED BY <2>3, <2>4 DEF Told
  <1>4. ASSUME Revoke(x, u), Publish({x} \cup Recipient(invitation'[x][u], u))
        PROVE  Told
    BY <1>4, StatusTold DEF Revoke, Statuses, Told
  <1>5. ASSUME Deny(u, x), Publish({x} \cup Recipient(invitation'[x][u], u))
        PROVE  Told
    BY <1>5, StatusTold DEF Deny, Statuses, Told
  <1>6. ASSUME Accept(u, x), Publish(AcceptanceEvents(invitation, x, u))
        PROVE  Told
    BY <1>6, AcceptServiceTold DEF Told
  <1> QED BY <1>1, <1>2, <1>3, <1>4, <1>5, <1>6

LEMMA ProjectInvitationsRouterTells == ASSUME IInv, ProjectInvitationsRouter PROVE Told
  <1> SUFFICES ASSUME NEW a \in Users, NEW u \in Users, NEW p \in Projects,
                      \/ \E role \in Roles :
                           CreateProjectInvitationsEndpoint(a, p, u, role)
                      \/ \E role \in Roles :
                           UpdateProjectInvitationEndpoint(a, p, u, role)
                      \/ ResendProjectInvitationEndpoint(a, p, u)
                      \/ RevokeProjectInvitationEndpoint(a, p, u)
                      \/ AcceptProjectInvitationByTokenEndpoint(a, p, u)
                      \/ AcceptProjectInvitationByProjectEndpoint(a, p)
                      \/ DenyProjectInvitationByProjectEndpoint(a, p)
               PROVE  Told
    BY DEF ProjectInvitationsRouter
  <1>1. p \in ReferenceObjects
    BY ConstantFacts
  <1>2. \A row : /\ ProjectInvitationsAreCreated(p, row, u) = {p} \cup Recipient(row, u)
                 /\ ProjectInvitationIsUpdated(p, row, u) = {p} \cup Recipient(row, u)
                 /\ ProjectInvitationIsRevoked(p, row, u) = {p} \cup Recipient(row, u)
                 /\ ProjectInvitationIsDenied(p, row, a) = {p} \cup Recipient(row, a)
    BY DEF ProjectInvitationsAreCreated, ProjectInvitationIsUpdated,
           ProjectInvitationIsRevoked, ProjectInvitationIsDenied
  <1>3. ASSUME NEW role \in Roles, CreateProjectInvitationsEndpoint(a, p, u, role)
        PROVE  Told
    BY <1>1, <1>2, <1>3, InvitationServicesTell
       DEF CreateProjectInvitationsEndpoint, CreateProjectInvitationsService
  <1>4. ASSUME NEW role \in Roles, UpdateProjectInvitationEndpoint(a, p, u, role)
        PROVE  Told
    BY <1>1, <1>2, <1>4, InvitationServicesTell
       DEF UpdateProjectInvitationEndpoint, UpdateProjectInvitationService
  <1>5. CASE ResendProjectInvitationEndpoint(a, p, u)
    BY <1>1, <1>5, InvitationServicesTell DEF ResendProjectInvitationEndpoint
  <1>6. CASE RevokeProjectInvitationEndpoint(a, p, u)
    BY <1>1, <1>2, <1>6, InvitationServicesTell
       DEF RevokeProjectInvitationEndpoint, RevokeProjectInvitationService
  <1>7. CASE AcceptProjectInvitationByTokenEndpoint(a, p, u)
    BY <1>1, <1>7, InvitationServicesTell
       DEF AcceptProjectInvitationByTokenEndpoint, AcceptProjectInvitationService
  <1>8. CASE AcceptProjectInvitationByProjectEndpoint(a, p)
    BY <1>1, <1>8, InvitationServicesTell
       DEF AcceptProjectInvitationByProjectEndpoint, AcceptProjectInvitationService
  <1>9. CASE DenyProjectInvitationByProjectEndpoint(a, p)
    BY <1>1, <1>2, <1>9, InvitationServicesTell
       DEF DenyProjectInvitationByProjectEndpoint, DenyProjectInvitationService
  <1> QED BY <1>3, <1>4, <1>5, <1>6, <1>7, <1>8, <1>9

LEMMA WorkspaceInvitationsRouterTells == ASSUME IInv, WorkspaceInvitationsRouter PROVE Told
  <1> SUFFICES ASSUME NEW a \in Users, NEW u \in Users,
                      \/ \E role \in Roles :
                           CreateWorkspaceInvitationsEndpoint(a, u, role)
                      \/ \E role \in Roles :
                           UpdateWorkspaceInvitationEndpoint(a, u, role)
                      \/ ResendWorkspaceInvitationEndpoint(a, u)
                      \/ RevokeWorkspaceInvitationEndpoint(a, u)
                      \/ AcceptWorkspaceInvitationByTokenEndpoint(a, u)
                      \/ AcceptWorkspaceInvitationByWorkspaceEndpoint(a)
                      \/ DenyWorkspaceInvitationByWorkspaceEndpoint(a)
               PROVE  Told
    BY DEF WorkspaceInvitationsRouter
  <1>1. Workspace \in ReferenceObjects
    BY ConstantFacts
  <1>2. \A row : /\ WorkspaceInvitationsAreCreated(row, u) = {Workspace} \cup Recipient(row, u)
                 /\ WorkspaceInvitationIsUpdated(row, u) = {Workspace} \cup Recipient(row, u)
                 /\ WorkspaceInvitationIsRevoked(row, u) = {Workspace} \cup Recipient(row, u)
                 /\ WorkspaceInvitationIsDenied(row, a) = {Workspace} \cup Recipient(row, a)
    BY DEF WorkspaceInvitationsAreCreated, WorkspaceInvitationIsUpdated,
           WorkspaceInvitationIsRevoked, WorkspaceInvitationIsDenied
  <1>3. ASSUME NEW role \in Roles, CreateWorkspaceInvitationsEndpoint(a, u, role)
        PROVE  Told
    BY <1>1, <1>2, <1>3, InvitationServicesTell
       DEF CreateWorkspaceInvitationsEndpoint, CreateWorkspaceInvitationsService
  <1>4. ASSUME NEW role \in Roles, UpdateWorkspaceInvitationEndpoint(a, u, role)
        PROVE  Told
    BY <1>1, <1>2, <1>4, InvitationServicesTell
       DEF UpdateWorkspaceInvitationEndpoint, UpdateWorkspaceInvitationService
  <1>5. CASE ResendWorkspaceInvitationEndpoint(a, u)
    BY <1>1, <1>5, InvitationServicesTell DEF ResendWorkspaceInvitationEndpoint
  <1>6. CASE RevokeWorkspaceInvitationEndpoint(a, u)
    BY <1>1, <1>2, <1>6, InvitationServicesTell
       DEF RevokeWorkspaceInvitationEndpoint, RevokeWorkspaceInvitationService
  <1>7. CASE AcceptWorkspaceInvitationByTokenEndpoint(a, u)
    BY <1>1, <1>7, InvitationServicesTell
       DEF AcceptWorkspaceInvitationByTokenEndpoint, AcceptWorkspaceInvitationService
  <1>8. CASE AcceptWorkspaceInvitationByWorkspaceEndpoint(a)
    BY <1>1, <1>8, InvitationServicesTell
       DEF AcceptWorkspaceInvitationByWorkspaceEndpoint, AcceptWorkspaceInvitationService
  <1>9. CASE DenyWorkspaceInvitationByWorkspaceEndpoint(a)
    BY <1>1, <1>2, <1>9, InvitationServicesTell
       DEF DenyWorkspaceInvitationByWorkspaceEndpoint, DenyWorkspaceInvitationService
  <1> QED BY <1>3, <1>4, <1>5, <1>6, <1>7, <1>8, <1>9

LEMMA MembershipsRouterTells == ASSUME IInv, MembershipsRouter PROVE Told
  <1> SUFFICES ASSUME NEW a \in Users, NEW u \in Users,
                      \/ \E role \in Roles :
                           UpdateWorkspaceMembershipEndpoint(a, u, role)
                      \/ \E p \in Projects, role \in Roles :
                           UpdateProjectMembershipEndpoint(a, p, u, role)
                      \/ \E successor \in Users \cup {NoUser} :
                           \/ DeleteWorkspaceMembershipEndpoint(a, u, successor)
                           \/ \E p \in Projects :
                                DeleteProjectMembershipEndpoint(a, p, u, successor)
               PROVE  Told
    BY DEF MembershipsRouter
  <1>1. ASSUME NEW role \in Roles, UpdateWorkspaceMembershipEndpoint(a, u, role)
        PROVE  Told
    BY <1>1, ChangeRoleTold, ConstantFacts
       DEF UpdateWorkspaceMembershipEndpoint, UpdateWorkspaceMembershipService,
           WorkspaceMembershipIsUpdated, Told
  <1>2. ASSUME NEW p \in Projects, NEW role \in Roles,
               UpdateProjectMembershipEndpoint(a, p, u, role)
        PROVE  Told
    BY <1>2, ChangeRoleTold, ConstantFacts
       DEF UpdateProjectMembershipEndpoint, UpdateProjectMembershipService,
           ProjectMembershipIsUpdated, Told
  <1>3. ASSUME NEW successor \in Users \cup {NoUser},
               DeleteWorkspaceMembershipEndpoint(a, u, successor)
        PROVE  Told
    <2>1. CASE DeleteWorkspaceMembershipService(a, u, successor)
      BY <1>3, <2>1, LeaveWorkspaceTold DEF DeleteWorkspaceMembershipEndpoint, Told
    <2>2. CASE RefusedAfterSuccession(u, successor)
      BY <2>2, NothingChanges DEF RefusedAfterSuccession, Publish, Told
    <2> QED BY <1>3, <2>1, <2>2 DEF DeleteWorkspaceMembershipEndpoint
  <1>4. ASSUME NEW successor \in Users \cup {NoUser}, NEW p \in Projects,
               DeleteProjectMembershipEndpoint(a, p, u, successor)
        PROVE  Told
    BY <1>4, LeaveProjectTold DEF DeleteProjectMembershipEndpoint, Told
  <1> QED BY <1>1, <1>2, <1>3, <1>4

LEMMA RolesRouterTells == ASSUME IInv, RolesRouter PROVE Told
  <1> SUFFICES ASSUME NEW a \in Users, NEW p \in Projects, NEW role \in Roles,
                      \/ \E perms \in PermissionSets : CreateRoleEndpoint(a, p, role, perms)
                      \/ \E perms \in PermissionSets : UpdateRoleEndpoint(a, p, role, perms)
                      \/ \E target \in Roles \cup {NoRole} :
                           DeleteRoleEndpoint(a, p, role, target)
               PROVE  Told
    BY DEF RolesRouter
  <1>1. ASSUME NEW perms \in PermissionSets,
               CreateRoleEndpoint(a, p, role, perms) \/ UpdateRoleEndpoint(a, p, role, perms)
        PROVE  Told
    <2>1. /\ UNCHANGED <<active, live, member, invitation, assignees>>
          /\ published' = {p} /\ mailed' = {}
          /\ roles' \in {roles, [roles EXCEPT ![p] = @ \cup {role}]}
          /\ permissions' = [permissions EXCEPT ![p][role] = perms]
      BY <1>1 DEF CreateRoleEndpoint, CreateRoleService, AddRole, RoleIsCreated, Publish,
                  UpdateRoleEndpoint, UpdateRoleService, ChangePermissions, RoleIsUpdated
    <2>2. \A y \in ReferenceObjects : PageChanges(y) => y = p
      BY <2>1 DEF PageChanges, IInv, TypeOK
    <2> QED BY <2>1, <2>2, PageTold DEF Told
  <1>2. ASSUME NEW target \in Roles \cup {NoRole}, DeleteRoleEndpoint(a, p, role, target)
        PROVE  Told
    BY <1>2, RemoveRoleTold
       DEF DeleteRoleEndpoint, DeleteRoleService, RoleIsDeleted, Told
  <1> QED BY <1>1, <1>2

LEMMA AssignmentsRouterTells == ASSUME IInv, AssignmentsRouter PROVE Told
  <1> SUFFICES ASSUME NEW a \in Users, NEW u \in Users, NEW p \in Projects,
                      \/ CreateStoryAssignmentEndpoint(a, p, u)
                      \/ DeleteStoryAssignmentEndpoint(a, p, u)
               PROVE  Told
    BY DEF AssignmentsRouter
  <1>1. /\ UNCHANGED <<active, live, roles, permissions, member, invitation>>
        /\ mailed' = {}
        /\ \A q \in Projects \ {p} : assignees'[q] = assignees[q]
        /\ assignees'[p] = assignees[p] \/ p \in published'
    <2>1. CASE CreateStoryAssignmentEndpoint(a, p, u)
      BY <2>1 DEF CreateStoryAssignmentEndpoint, CreateStoryAssignmentService, Assign,
                  Publish, StoryAssignmentIsCreated, IInv, TypeOK
    <2>2. CASE DeleteStoryAssignmentEndpoint(a, p, u)
      BY <2>2 DEF DeleteStoryAssignmentEndpoint, DeleteStoryAssignmentService, Unassign,
                  Publish, StoryAssignmentIsDeleted, vars, IInv, TypeOK
    <2> QED BY <2>1, <2>2
  <1>2. \A y \in ReferenceObjects : PageChanges(y) => y = p /\ p \in published'
    BY <1>1 DEF PageChanges
  <1> QED BY <1>1, <1>2, PageTold DEF Told

\* Whatever handlers are called, every page that a change reaches is told of it,
\* on a channel that its reader may still listen to, and no mail is sent for an
\* invitation that cannot be answered any more.
THEOREM EventsAlwaysFollowChanges == EndpointsSpec => EventsFollowChanges
  <1>1. IInv /\ EndpointsNext => Told
    BY UsersRouterTells, WorkspacesRouterTells, ProjectsRouterTells,
       ProjectInvitationsRouterTells, WorkspaceInvitationsRouterTells,
       MembershipsRouterTells, RolesRouterTells, AssignmentsRouterTells
    DEF EndpointsNext
  <1>2. IInv /\ [EndpointsNext]_endpointVars
          => [ChangesAreTold /\ LifeCyclesAreTold /\ MailsCanBeAnswered]_endpointVars
    BY <1>1 DEF Told
  <1> QED BY <1>2, EndpointsImplementMembership, AlwaysIInv, PTL
          DEF EndpointsSpec, EventsFollowChanges
=============================================================================
