----------------------------- MODULE Membership -----------------------------
(***************************************************************************)
(* Who belongs to a workspace and to its projects, with which role, who is *)
(* invited, and who is assigned to stories: the handlers of                *)
(* memberships/services, projects/memberships, projects/invitations,       *)
(* workspaces/memberships, workspaces/invitations, the creation and the    *)
(* deletion of workspaces, projects and users, and stories/assignments.    *)
(*                                                                         *)
(* Handlers run one at a time here: an action is a whole request, its      *)
(* permission check included, and a request that answers an error leaves   *)
(* the database unchanged, so an error is a step that is not enabled.      *)
(* MembershipRequests cuts the handlers at their queries and interleaves   *)
(* them.                                                                   *)
(***************************************************************************)
EXTENDS FiniteSets, Permissions

CONSTANTS
    Users,          \* people, each with one email address, registered or not
    Workspace,      \* the workspace
    Projects,       \* the identifiers of the projects of the workspace
    Roles,          \* role identifiers (unique in one project or workspace)
    Owner,          \* the role with is_owner
    DefaultRole,    \* the workspace role "readonly-member"
    FixedRoles,     \* the roles with editable = False
    WorkspaceRoles, \* the default workspace roles, with their permissions
    ProjectTemplate,\* the roles of the project template, with theirs
    PermissionSets, \* bound on the sets of permissions that role forms carry
    NoRole, NoInvitation, NoUser

ASSUME ConstantsAssumption ==
    /\ Workspace \notin Projects
    /\ Owner \in FixedRoles /\ NoRole \notin Roles
    /\ Owner # DefaultRole
    /\ {Owner, DefaultRole} \subseteq DOMAIN WorkspaceRoles
    /\ Owner \in DOMAIN ProjectTemplate
    /\ DOMAIN WorkspaceRoles \subseteq Roles
    /\ DOMAIN ProjectTemplate \subseteq Roles
    /\ \A r \in DOMAIN WorkspaceRoles : WorkspaceRoles[r] \subseteq WorkspacePermissions
    /\ \A r \in DOMAIN ProjectTemplate : ProjectTemplate[r] \subseteq ProjectPermissions
    /\ PermissionSets \subseteq SUBSET Permissions
    /\ NoUser \notin Users

ReferenceObjects == {Workspace} \cup Projects

Statuses == {"pending", "accepted", "denied", "revoked"}

\* linked: the row's user is set (it is null until the invited person has an
\* active account)
Invitations == [status : Statuses, role : Roles, linked : BOOLEAN]

ASSUME NoInvitationAssumption == NoInvitation \notin Invitations

VARIABLES
    active,      \* the users whose account is verified
    live,        \* the workspace and projects that exist
    roles,       \* the roles of each
    permissions, \* the permissions of each role
    member,      \* the role of each member of each
    invitation,  \* the invitation of each person to each
    assignees    \* the users assigned to the stories of each project

vars == <<active, live, roles, permissions, member, invitation, assignees>>

TypeOK ==
    /\ active \in SUBSET Users
    /\ live \in SUBSET ReferenceObjects
    /\ roles \in [ReferenceObjects -> SUBSET Roles]
    /\ permissions \in [ReferenceObjects -> [Roles -> SUBSET Permissions]]
    /\ member \in [ReferenceObjects -> [Users -> Roles \cup {NoRole}]]
    /\ invitation \in
         [ReferenceObjects -> [Users -> Invitations \cup {NoInvitation}]]
    /\ assignees \in [Projects -> SUBSET Users]

-----------------------------------------------------------------------------
(* What the queries of the handlers return.                                *)

IsMember(u, x) == member[x][u] # NoRole

IsOwner(u, x) == member[x][u] = Owner

HasPermission(u, x, permission) ==
    /\ u \in active
    /\ IsMember(u, x)
    /\ permission \in permissions[x][member[x][u]]

\* A user modifies an owner only if they are owner themselves.
CanModifyAssociatedRole(a, x, role) == IsOwner(a, x) \/ role # Owner

MutantOnlyOwner(u, x) == IsOwner(u, x) /\ \A v \in Users \ {u} : ~IsMember(v, x)

OnlyOwner(u, x) == IsOwner(u, x) /\ \A v \in Users \ {u} : ~IsOwner(v, x)

MutantOnlyMember(u, x) == OnlyOwner(u, x)

OnlyMember(u, x) == IsMember(u, x) /\ \A v \in Users \ {u} : ~IsMember(v, x)

HasInvitation(u, x) == invitation[x][u] # NoInvitation

IsPending(inv) == inv # NoInvitation /\ inv.status = "pending"

\* What is left of the invitations to x, of the assignees of p, without u.
MutantInvitationsWithout(x, u) ==
    IF IsPending(invitation[x][u])
    THEN [invitation[x] EXCEPT ![u] = NoInvitation] ELSE invitation[x]

InvitationsWithout(x, u) == [invitation[x] EXCEPT ![u] = NoInvitation]

MutantAssigneesWithout(p, u) == assignees[p]

AssigneesWithout(p, u) == assignees[p] \ {u}

-----------------------------------------------------------------------------
(* Creating and deleting what people belong to.                            *)

\* The rows a workspace or project owns, removed with it (on_delete=CASCADE).
Cascade(gone) ==
    /\ live' = live \ gone
    /\ roles' = [x \in ReferenceObjects |-> IF x \in gone THEN {} ELSE roles[x]]
    /\ permissions' = [x \in ReferenceObjects |->
         IF x \in gone THEN [r \in Roles |-> {}] ELSE permissions[x]]

DefaultPermissions(template) ==
    [r \in Roles |-> IF r \in DOMAIN template THEN template[r] ELSE {}]

\* The creator becomes the first member, with the owner role.
CreateWith(a, x, template) ==
    /\ x \notin live
    /\ live' = live \cup {x}
    /\ roles' = [roles EXCEPT ![x] = DOMAIN template]
    /\ permissions' = [permissions EXCEPT ![x] = DefaultPermissions(template)]
    /\ member' = [member EXCEPT ![x][a] = Owner]
    /\ UNCHANGED <<active, invitation, assignees>>

CreateWorkspace(a) == a \in active /\ CreateWith(a, Workspace, WorkspaceRoles)

CreateProject(a, p) ==
    /\ HasPermission(a, Workspace, "create_project")
    /\ CreateWith(a, p, ProjectTemplate)

DeleteReferenceObject(x) ==
    /\ Cascade({x})
    /\ member' = [member EXCEPT ![x] = [u \in Users |-> NoRole]]
    /\ invitation' = [invitation EXCEPT ![x] = [u \in Users |-> NoInvitation]]
    /\ assignees' = [p \in Projects |-> IF p = x THEN {} ELSE assignees[p]]
    /\ UNCHANGED active

\* A workspace is deleted only once it has no project left.
DeleteEmptyWorkspace ==
    /\ live \cap Projects = {}
    /\ DeleteReferenceObject(Workspace)

DeleteWorkspace(a) ==
    /\ HasPermission(a, Workspace, "delete_workspace")
    /\ DeleteEmptyWorkspace

DeleteProject(a, p) ==
    /\ HasPermission(a, p, "delete_project")
    /\ DeleteReferenceObject(p)

-----------------------------------------------------------------------------
(* Invitations.                                                            *)

SetInvitation(x, u, inv) == invitation' = [invitation EXCEPT ![x][u] = inv]

\* One entry of a list of invitations. Someone who is a member is skipped, an
\* invitation that is revoked, denied or pending is made pending again.
Invite(a, x, u, role) ==
    /\ role \in roles[x]
    /\ ~IsMember(u, x)
    /\ IF HasInvitation(u, x)
       THEN LET old == invitation[x][u]
            IN  /\ old.status # "accepted"
                /\ old.role = Owner /\ role # Owner => IsOwner(a, x)
                /\ SetInvitation(x, u, [old EXCEPT !.status = "pending",
                                                   !.role = role])
       ELSE /\ role = Owner => IsOwner(a, x)
            /\ SetInvitation(x, u, [status |-> "pending", role |-> role,
                                    linked |-> u \in active])
    /\ UNCHANGED <<active, live, roles, permissions, member, assignees>>

CreateInvitation(a, x, u, role) ==
    HasPermission(a, x, "create_modify_member") /\ Invite(a, x, u, role)

CanModifyInvitation(a, x, u) ==
    /\ HasInvitation(u, x)
    /\ HasPermission(a, x, "create_modify_member")
    /\ CanModifyAssociatedRole(a, x, invitation[x][u].role)

\* An invitation that is not pending any more is neither changed nor answered.
ModifyPendingInvitation(x, u, inv) ==
    /\ IsPending(invitation[x][u])
    /\ SetInvitation(x, u, inv)
    /\ UNCHANGED <<active, live, roles, permissions, member, assignees>>

ChangeInvitedRole(a, x, u, role) ==
    /\ role \in roles[x]
    /\ role = Owner => IsOwner(a, x)
    /\ ModifyPendingInvitation(x, u, [invitation[x][u] EXCEPT !.role = role])

UpdateInvitation(a, x, u, role) ==
    CanModifyInvitation(a, x, u) /\ ChangeInvitedRole(a, x, u, role)

Revoke(x, u) ==
    ModifyPendingInvitation(x, u, [invitation[x][u] EXCEPT !.status = "revoked"])

RevokeInvitation(a, x, u) == CanModifyInvitation(a, x, u) /\ Revoke(x, u)

Deny(u, x) ==
    /\ HasInvitation(u, x) /\ invitation[x][u].linked
    /\ ModifyPendingInvitation(x, u, [invitation[x][u] EXCEPT !.status = "denied"])

DenyInvitation(u, x) == u \in active /\ Deny(u, x)

\* u accepts the invitation inv[x][u]. A new member of a project also becomes
\* a member of the workspace, with the role of their pending invitation to it
\* if there is one, with the default role otherwise. The memberships are unique:
\* the transaction fails if u is a member of x already.
CanAccept(inv, x, u) ==
    IsPending(inv[x][u]) /\ inv[x][u].linked /\ ~IsMember(u, x)

MutantJoinsWorkspace(x, u) == FALSE

JoinsWorkspace(x, u) == x # Workspace /\ ~IsMember(u, Workspace)

MutantAcceptsWorkspace(inv, x, u) == FALSE

AcceptsWorkspace(inv, x, u) ==
    JoinsWorkspace(x, u) /\ IsPending(inv[Workspace][u])

Accepted(inv, x, u) ==
    {x} \cup (IF AcceptsWorkspace(inv, x, u) THEN {Workspace} ELSE {})

MemberOnAccept(inv, x, u) ==
    [y \in ReferenceObjects |-> [member[y] EXCEPT ![u] =
       IF y \in Accepted(inv, x, u) THEN inv[y][u].role
       ELSE IF y = Workspace /\ JoinsWorkspace(x, u) THEN DefaultRole
       ELSE member[y][u]]]

InvitationOnAccept(inv, x, u) ==
    [y \in ReferenceObjects |->
       IF y \in Accepted(inv, x, u) THEN [inv[y] EXCEPT ![u].status = "accepted"]
       ELSE inv[y]]

Accept(u, x) ==
    /\ CanAccept(invitation, x, u)
    /\ member' = MemberOnAccept(invitation, x, u)
    /\ invitation' = InvitationOnAccept(invitation, x, u)
    /\ UNCHANGED <<active, live, roles, permissions, assignees>>

AcceptInvitation(u, x) == u \in active /\ Accept(u, x)

-----------------------------------------------------------------------------
(* Members.                                                                *)

\* update_membership: not the last owner, and only an owner makes an owner.
RoleChangeAllowed(a, x, u, role) ==
    /\ role \in roles[x]
    /\ IF role = Owner THEN IsOwner(a, x) ELSE ~OnlyOwner(u, x)

\* The assignments stay: when the service compares the permissions of the old
\* and of the new role, membership.role is the new role already.
ChangeRole(a, x, u, role) ==
    /\ RoleChangeAllowed(a, x, u, role)
    /\ member' = [member EXCEPT ![x][u] = role]
    /\ UNCHANGED <<active, live, roles, permissions, invitation, assignees>>

UpdateMembership(a, x, u, role) ==
    /\ IsMember(u, x)
    /\ HasPermission(a, x, "create_modify_member")
    /\ CanModifyAssociatedRole(a, x, member[x][u])
    /\ ChangeRole(a, x, u, role)

CanDeleteMembership(a, x, u) ==
    /\ IsMember(u, x)
    /\ \/ /\ HasPermission(a, x, "delete_member")
          /\ CanModifyAssociatedRole(a, x, member[x][u])
       \/ a = u /\ a \in active

MutantSuccessionAllowed(a, x, u, successor) ==
    OnlyOwner(u, x) =>
        successor \in Users \ {a} /\ RoleChangeAllowed(a, x, successor, Owner)

\* The last owner leaves only if a successor is named, another member.
SuccessionAllowed(a, x, u, successor) ==
    OnlyOwner(u, x) =>
        /\ successor \in Users \ {a}
        /\ IsMember(successor, x)
        /\ RoleChangeAllowed(a, x, successor, Owner)

\* The members of x once u is deleted.
Succession(x, u, successor) ==
    [v \in Users |-> IF v = u THEN NoRole
                     ELSE IF v = successor /\ OnlyOwner(u, x) THEN Owner
                     ELSE member[x][v]]

LeaveProject(a, p, u, successor) ==
    /\ SuccessionAllowed(a, p, u, successor)
    /\ member' = [member EXCEPT ![p] = Succession(p, u, successor)]
    /\ assignees' = [assignees EXCEPT ![p] = AssigneesWithout(p, u)]
    /\ invitation' = [invitation EXCEPT ![p] = InvitationsWithout(p, u)]
    /\ UNCHANGED <<active, live, roles, permissions>>

DeleteProjectMembership(a, p, u, successor) ==
    CanDeleteMembership(a, p, u) /\ LeaveProject(a, p, u, successor)

\* Who leaves the workspace leaves its projects. A user who is still in some
\* project cannot do it themselves; someone else can, and takes over, if they
\* own the workspace, the projects that would be left without owner.
LeaveWorkspace(a, u, successor) ==
    LET owned == {p \in Projects : OnlyOwner(u, p)}
        inner == {p \in Projects : IsMember(u, p)}
    IN  /\ SuccessionAllowed(a, Workspace, u, successor)
        /\ IF a = u THEN inner = {} ELSE owned # {} => IsOwner(a, Workspace)
        /\ member' = [x \in ReferenceObjects |->
             IF x = Workspace THEN Succession(x, u, successor)
             ELSE IF x \in owned THEN [member[x] EXCEPT ![a] = Owner, ![u] = NoRole]
             ELSE [member[x] EXCEPT ![u] = NoRole]]
        /\ assignees' = [p \in Projects |-> AssigneesWithout(p, u)]
        /\ invitation' = [x \in ReferenceObjects |->
             IF x = Workspace \/ inner # {} THEN InvitationsWithout(x, u)
             ELSE invitation[x]]
        /\ UNCHANGED <<active, live, roles, permissions>>

DeleteWorkspaceMembership(a, u, successor) ==
    CanDeleteMembership(a, Workspace, u) /\ LeaveWorkspace(a, u, successor)

-----------------------------------------------------------------------------
(* Roles of a project.                                                     *)

Editable(p, role) == role \in roles[p] \ FixedRoles

AddRole(p, role, perms) ==
    /\ AreValid(perms)
    /\ role \notin roles[p] \cup FixedRoles
    /\ roles' = [roles EXCEPT ![p] = @ \cup {role}]
    /\ permissions' = [permissions EXCEPT ![p][role] = perms]
    /\ UNCHANGED <<active, live, member, invitation, assignees>>

CreateRole(a, p, role, perms) ==
    HasPermission(a, p, "create_modify_delete_role") /\ AddRole(p, role, perms)

\* The assignments stay, as in UpdateMembership: role.permissions has been
\* replaced when it is compared with the new permissions.
ChangePermissions(p, role, perms) ==
    /\ AreValid(perms)
    /\ Editable(p, role)
    /\ permissions' = [permissions EXCEPT ![p][role] = perms]
    /\ UNCHANGED <<active, live, roles, member, invitation, assignees>>

UpdateRole(a, p, role, perms) ==
    /\ HasPermission(a, p, "create_modify_delete_role")
    /\ ChangePermissions(p, role, perms)

RoleUnused(p, role) ==
    \A u \in Users : /\ member[p][u] # role
                     /\ HasInvitation(u, p) => invitation[p][u].role # role

MovedInvitation(inv, role, target) ==
    IF inv # NoInvitation /\ inv.role = role THEN [inv EXCEPT !.role = target] ELSE inv

\* Members and invitations move to the target role first, if there is one;
\* a role still in use is not deleted (on_delete=RESTRICT).
RemoveRole(a, p, role, target) ==
    /\ Editable(p, role)
    /\ IF target = NoRole THEN RoleUnused(p, role)
       ELSE target \in roles[p] \ {role} /\ (target = Owner => IsOwner(a, p))
    /\ member' = [member EXCEPT ![p] = [u \in Users |->
         IF @[u] = role THEN target ELSE @[u]]]
    /\ invitation' = [invitation EXCEPT ![p] = [u \in Users |->
         MovedInvitation(@[u], role, target)]]
    /\ roles' = [roles EXCEPT ![p] = @ \ {role}]
    /\ permissions' = [permissions EXCEPT ![p][role] = {}]
    /\ UNCHANGED <<active, live, assignees>>

DeleteRole(a, p, role, target) ==
    /\ HasPermission(a, p, "create_modify_delete_role")
    /\ RemoveRole(a, p, role, target)

-----------------------------------------------------------------------------
(* Story assignments.                                                      *)

Assign(p, u) ==
    /\ IsMember(u, p) /\ "view_story" \in permissions[p][member[p][u]]
    /\ assignees' = [assignees EXCEPT ![p] = @ \cup {u}]
    /\ UNCHANGED <<active, live, roles, permissions, member, invitation>>

AssignStory(a, p, u) == HasPermission(a, p, "modify_story") /\ Assign(p, u)

Unassign(p, u) ==
    /\ u \in assignees[p]
    /\ assignees' = [assignees EXCEPT ![p] = @ \ {u}]
    /\ UNCHANGED <<active, live, roles, permissions, member, invitation>>

UnassignStory(a, p, u) == HasPermission(a, p, "modify_story") /\ Unassign(p, u)

-----------------------------------------------------------------------------
(* Accounts.                                                               *)

MutantLinkedInvitations(u) == invitation

LinkedInvitations(u) ==
    [x \in ReferenceObjects |->
       IF HasInvitation(u, x) THEN [invitation[x] EXCEPT ![u].linked = TRUE]
       ELSE invitation[x]]

\* The user follows the link of the verification mail, which may carry an
\* invitation to x to accept (x is NoInvitation if it does not). If that
\* invitation is denied, or if the user is a member of x already, the error is
\* not one of those the handler ignores: the transaction is rolled back.
VerifyUser(u, x) ==
    LET inv == LinkedInvitations(u)
        accepts == x \in live /\ IsPending(inv[x][u])
    IN  /\ active' = active \cup {u}
        /\ x \in live /\ inv[x][u] # NoInvitation => inv[x][u].status # "denied"
        /\ accepts => CanAccept(inv, x, u)
        /\ member' = IF accepts THEN MemberOnAccept(inv, x, u) ELSE member
        /\ invitation' = IF accepts THEN InvitationOnAccept(inv, x, u) ELSE inv
        /\ UNCHANGED <<live, roles, permissions, assignees>>

\* Refused to the only owner of something that has other members. What the
\* user is the only member of goes with them; so do the projects of a deleted
\* workspace, and the user's memberships, invitations and assignments.
DeleteUser(u) ==
    LET alone == {x \in ReferenceObjects : OnlyMember(u, x)}
        gone == IF Workspace \in alone THEN ReferenceObjects ELSE alone
    IN  /\ u \in active
        /\ \A x \in ReferenceObjects : OnlyOwner(u, x) => x \in alone
        /\ active' = active \ {u}
        /\ Cascade(gone)
        /\ member' = [x \in ReferenceObjects |->
             IF x \in gone THEN [v \in Users |-> NoRole]
             ELSE [member[x] EXCEPT ![u] = NoRole]]
        /\ invitation' = [x \in ReferenceObjects |->
             IF x \in gone THEN [v \in Users |-> NoInvitation]
             ELSE IF HasInvitation(u, x) /\ invitation[x][u].linked
             THEN InvitationsWithout(x, u)
             ELSE invitation[x]]
        /\ assignees' = [p \in Projects |->
             IF p \in gone THEN {} ELSE AssigneesWithout(p, u)]

-----------------------------------------------------------------------------

Init ==
    /\ active = {}
    /\ live = {}
    /\ roles = [x \in ReferenceObjects |-> {}]
    /\ permissions = [x \in ReferenceObjects |-> [r \in Roles |-> {}]]
    /\ member = [x \in ReferenceObjects |-> [u \in Users |-> NoRole]]
    /\ invitation = [x \in ReferenceObjects |-> [u \in Users |-> NoInvitation]]
    /\ assignees = [p \in Projects |-> {}]

AccountStep ==
    \E u \in Users :
        \/ \E x \in ReferenceObjects \cup {NoInvitation} : VerifyUser(u, x)
        \/ DeleteUser(u)

LifeCycleStep ==
    \E a \in Users :
        \/ CreateWorkspace(a)
        \/ DeleteWorkspace(a)
        \/ \E p \in Projects : CreateProject(a, p) \/ DeleteProject(a, p)

InvitationStep ==
    \E a, u \in Users, x \in ReferenceObjects :
        \/ \E role \in Roles : CreateInvitation(a, x, u, role)
        \/ \E role \in Roles : UpdateInvitation(a, x, u, role)
        \/ RevokeInvitation(a, x, u)
        \/ DenyInvitation(u, x)
        \/ AcceptInvitation(u, x)

MemberStep ==
    \E a, u \in Users :
        \/ \E x \in ReferenceObjects, role \in Roles : UpdateMembership(a, x, u, role)
        \/ \E successor \in Users \cup {NoUser} :
             \/ DeleteWorkspaceMembership(a, u, successor)
             \/ \E p \in Projects : DeleteProjectMembership(a, p, u, successor)

RoleStep ==
    \E a \in Users, p \in Projects, role \in Roles :
        \/ \E perms \in PermissionSets : CreateRole(a, p, role, perms)
        \/ \E perms \in PermissionSets : UpdateRole(a, p, role, perms)
        \/ \E target \in Roles \cup {NoRole} : DeleteRole(a, p, role, target)

AssignmentStep ==
    \E a, u \in Users, p \in Projects : AssignStory(a, p, u) \/ UnassignStory(a, p, u)

Next ==
    AccountStep \/ LifeCycleStep \/ InvitationStep \/ MemberStep \/ RoleStep
      \/ AssignmentStep

Spec == Init /\ [][Next]_vars

-----------------------------------------------------------------------------
(* Safety.                                                                 *)

\* A workspace or project never loses its last owner: the guards of
\* update_membership, of both delete_*_membership and of delete_user, the
\* succession, and the role that cannot be deleted all have to agree.
HasOwner == \A x \in live : \E u \in Users : IsOwner(u, x)

\* delete_user relies on it: deleting a workspace "whose only member" leaves
\* also deletes its projects, without looking at their members.
ProjectMembersAreInWorkspace ==
    \A p \in Projects, u \in Users : IsMember(u, p) => IsMember(u, Workspace)

\* create_invitations calls the opposite a "weird state where user is not
\* member but still has an accepted invitation, shouldn't happen ever".
AcceptedInviteesAreMembers ==
    \A x \in ReferenceObjects, u \in Users :
        HasInvitation(u, x) /\ invitation[x][u].status = "accepted" => IsMember(u, x)

\* A member of the workspace has no invitation to it left to accept: accepting
\* it would fail on the unique membership. (A project does not have this: the
\* workspace owner who takes a project over may be invited to it.)
WorkspaceMembersAreNotInvited ==
    \A u \in Users : IsMember(u, Workspace) => ~IsPending(invitation[Workspace][u])

\* The person who opens an active account finds their invitations attached to
\* it (otherwise accepting them is refused for ever), and only then.
InvitationsFollowAccounts ==
    \A x \in ReferenceObjects, u \in Users :
        HasInvitation(u, x) => (invitation[x][u].linked <=> u \in active)

\* Whoever leaves a project or the workspace is unassigned from its stories.
AssigneesAreMembers ==
    \A p \in Projects : \A u \in assignees[p] : IsMember(u, p)

\* Deleting an account never deletes a project someone else works in.
AccountDeletionKeepsSharedProjects ==
    [][\A p \in live \ live' : \A u \in Users : DeleteUser(u) =>
         \A v \in Users \ {u} : ~IsMember(v, p)]_vars

\* Who becomes owner of something that existed was invited as owner or was a
\* member already, except a workspace owner who takes a project over.
OwnersComeFromWithin ==
    [][\A x \in live \cap live', u \in Users :
         ~IsOwner(u, x) /\ IsOwner(u, x)' =>
            \/ IsMember(u, x)
            \/ IsPending(invitation[x][u]) /\ invitation[x][u].role = Owner
            \/ x # Workspace /\ IsOwner(u, Workspace)]_vars

\* NOT what the code does: "Unassign stories for user if the new role doesn't
\* have view_story permission" (projects/memberships/services.py:92).
AssigneesCanViewStories ==
    \A p \in Projects : \A u \in assignees[p] :
        IsMember(u, p) => "view_story" \in permissions[p][member[p][u]]
=============================================================================
