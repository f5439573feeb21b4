------------------------------ MODULE Endpoints ------------------------------
(***************************************************************************)
(* The handlers of the api modules: the permission check, then the service *)
(* of Services. The handlers that only read are the operators of Pages.    *)
(* A request is whole, as in Membership, whose steps these implement.      *)
(***************************************************************************)
EXTENDS Services

-----------------------------------------------------------------------------
(* Workspaces and projects.                                                *)

CreateWorkspaceEndpoint(a) == IsAuthenticated(a) /\ CreateWorkspaceService(a)

UpdateWorkspaceEndpoint(a) ==
    HasPermission(a, Workspace, "modify_workspace") /\ UpdateWorkspaceService

DeleteWorkspaceEndpoint(a) ==
    HasPermission(a, Workspace, "delete_workspace") /\ DeleteWorkspaceService

CreateProjectEndpoint(a, p) ==
    HasPermission(a, Workspace, "create_project") /\ CreateProjectService(a, p)

UpdateProjectEndpoint(a, p) ==
    HasPermission(a, p, "modify_project") /\ UpdateProjectService(p)

DeleteProjectEndpoint(a, p) ==
    HasPermission(a, p, "delete_project") /\ DeleteProjectService(p)

-----------------------------------------------------------------------------
(* Invitations to a project.                                               *)

CreateProjectInvitationsEndpoint(a, p, u, role) ==
    /\ HasPermission(a, p, "create_modify_member")
    /\ CreateProjectInvitationsService(a, p, u, role)

ResendProjectInvitationEndpoint(a, p, u) ==
    HasPermission(a, p, "create_modify_member") /\ ResendService(p, u)

RevokeProjectInvitationEndpoint(a, p, u) ==
    CanModifyInvitation(a, p, u) /\ RevokeProjectInvitationService(p, u)

\* Whoever holds the token of the row of v must be v.
AcceptProjectInvitationByTokenEndpoint(u, p, v) ==
    IsAuthenticated(u) /\ u = v /\ AcceptProjectInvitationService(v, p)

\* The row is looked up by the username: one without account is not found.
AcceptProjectInvitationByProjectEndpoint(u, p) ==
    /\ IsAuthenticated(u)
    /\ Recipient(invitation[p][u], u) = {u}
    /\ AcceptProjectInvitationService(u, p)

DenyProjectInvitationByProjectEndpoint(u, p) ==
    /\ IsAuthenticated(u)
    /\ Recipient(invitation[p][u], u) = {u}
    /\ DenyProjectInvitationService(u, p)

UpdateProjectInvitationEndpoint(a, p, u, role) ==
    CanModifyInvitation(a, p, u) /\ UpdateProjectInvitationService(a, p, u, role)

-----------------------------------------------------------------------------
(* Invitations to the workspace.                                           *)

CreateWorkspaceInvitationsEndpoint(a, u, role) ==
    /\ HasPermission(a, Workspace, "create_modify_member")
    /\ CreateWorkspaceInvitationsService(a, u, role)

ResendWorkspaceInvitationEndpoint(a, u) ==
    HasPermission(a, Workspace, "create_modify_member") /\ ResendService(Workspace, u)

RevokeWorkspaceInvitationEndpoint(a, u) ==
    CanModifyInvitation(a, Workspace, u) /\ RevokeWorkspaceInvitationService(u)

AcceptWorkspaceInvitationByTokenEndpoint(u, v) ==
    IsAuthenticated(u) /\ u = v /\ AcceptWorkspaceInvitationService(v)

AcceptWorkspaceInvitationByWorkspaceEndpoint(u) ==
    /\ IsAuthenticated(u)
    /\ Recipient(invitation[Workspace][u], u) = {u}
    /\ AcceptWorkspaceInvitationService(u)

DenyWorkspaceInvitationByWorkspaceEndpoint(u) ==
    /\ IsAuthenticated(u)
    /\ Recipient(invitation[Workspace][u], u) = {u}
    /\ DenyWorkspaceInvitationService(u)

UpdateWorkspaceInvitationEndpoint(a, u, role) ==
    /\ CanModifyInvitation(a, Workspace, u)
    /\ UpdateWorkspaceInvitationService(a, u, role)

-----------------------------------------------------------------------------
(* Members, roles, assignments and accounts.                               *)

CanUpdateMembership(a, x, u) ==
    /\ IsMember(u, x)
    /\ HasPermission(a, x, "create_modify_member")
    /\ CanModifyAssociatedRole(a, x, member[x][u])

UpdateProjectMembershipEndpoint(a, p, u, role) ==
    CanUpdateMembership(a, p, u) /\ UpdateProjectMembershipService(a, p, u, role)

DeleteProjectMembershipEndpoint(a, p, u, successor) ==
    /\ CanDeleteMembership(a, p, u)
    /\ DeleteProjectMembershipService(a, p, u, successor)

UpdateWorkspaceMembershipEndpoint(a, u, role) ==
    CanUpdateMembership(a, Workspace, u) /\ UpdateWorkspaceMembershipService(a, u, role)

DeleteWorkspaceMembershipEndpoint(a, u, successor) ==
    /\ CanDeleteMembership(a, Workspace, u)
    /\ \/ DeleteWorkspaceMembershipService(a, u, successor)
       \/ a = u /\ RefusedAfterSuccession(u, successor)

MayEditRoles(a, p) == HasPermission(a, p, "create_modify_delete_role")

CreateRoleEndpoint(a, p, role, perms) ==
    MayEditRoles(a, p) /\ CreateRoleService(p, role, perms)

UpdateRoleEndpoint(a, p, role, perms) ==
    MayEditRoles(a, p) /\ UpdateRoleService(p, role, perms)

DeleteRoleEndpoint(a, p, role, target) ==
    MayEditRoles(a, p) /\ DeleteRoleService(a, p, role, target)

CreateStoryAssignmentEndpoint(a, p, u) ==
    HasPermission(a, p, "modify_story") /\ CreateStoryAssignmentService(p, u)

DeleteStoryAssignmentEndpoint(a, p, u) ==
    HasPermission(a, p, "modify_story") /\ DeleteStoryAssignmentService(p, u)

VerifyUserEndpoint(u, x) == VerifyUserService(u, x)

DeleteCurrentUserEndpoint(u) == IsAuthenticated(u) /\ DeleteUserService(u)

-----------------------------------------------------------------------------

EndpointsInit == Init /\ published = {} /\ mailed = {}

UsersRouter ==
    \E u \in Users :
        \/ \E x \in ReferenceObjects \cup {NoInvitation} : VerifyUserEndpoint(u, x)
        \/ DeleteCurrentUserEndpoint(u)

WorkspacesRouter ==
    \E a \in Users :
        \/ CreateWorkspaceEndpoint(a)
        \/ UpdateWorkspaceEndpoint(a)
        \/ DeleteWorkspaceEndpoint(a)

ProjectsRouter ==
    \E a \in Users, p \in Projects :
        \/ CreateProjectEndpoint(a, p)
        \/ UpdateProjectEndpoint(a, p)
        \/ DeleteProjectEndpoint(a, p)

ProjectInvitationsRouter ==
    \E a, u \in Users, p \in Projects :
        \/ \E role \in Roles : CreateProjectInvitationsEndpoint(a, p, u, role)
        \/ \E role \in Roles : UpdateProjectInvitationEndpoint(a, p, u, role)
        \/ ResendProjectInvitationEndpoint(a, p, u)
        \/ RevokeProjectInvitationEndpoint(a, p, u)
        \/ AcceptProjectInvitationByTokenEndpoint(a, p, u)
        \/ AcceptProjectInvitationByProjectEndpoint(a, p)
        \/ DenyProjectInvitationByProjectEndpoint(a, p)

WorkspaceInvitationsRouter ==
    \E a, u \in Users :
        \/ \E role \in Roles : CreateWorkspaceInvitationsEndpoint(a, u, role)
        \/ \E role \in Roles : UpdateWorkspaceInvitationEndpoint(a, u, role)
        \/ ResendWorkspaceInvitationEndpoint(a, u)
        \/ RevokeWorkspaceInvitationEndpoint(a, u)
        \/ AcceptWorkspaceInvitationByTokenEndpoint(a, u)
        \/ AcceptWorkspaceInvitationByWorkspaceEndpoint(a)
        \/ DenyWorkspaceInvitationByWorkspaceEndpoint(a)

MembershipsRouter ==
    \E a, u \in Users :
        \/ \E role \in Roles : UpdateWorkspaceMembershipEndpoint(a, u, role)
        \/ \E p \in Projects, role \in Roles :
             UpdateProjectMembershipEndpoint(a, p, u, role)
        \/ \E successor \in Users \cup {NoUser} :
             \/ DeleteWorkspaceMembershipEndpoint(a, u, successor)
             \/ \E p \in Projects : DeleteProjectMembershipEndpoint(a, p, u, successor)

RolesRouter ==
    \E a \in Users, p \in Projects, role \in Roles :
        \/ \E perms \in PermissionSets : CreateRoleEndpoint(a, p, role, perms)
        \/ \E perms \in PermissionSets : UpdateRoleEndpoint(a, p, role, perms)
        \/ \E target \in Roles \cup {NoRole} : DeleteRoleEndpoint(a, p, role, target)

AssignmentsRouter ==
    \E a, u \in Users, p \in Projects :
        \/ CreateStoryAssignmentEndpoint(a, p, u)
        \/ DeleteStoryAssignmentEndpoint(a, p, u)

EndpointsNext ==
    UsersRouter \/ WorkspacesRouter \/ ProjectsRouter \/ ProjectInvitationsRouter
      \/ WorkspaceInvitationsRouter \/ MembershipsRouter \/ RolesRouter
      \/ AssignmentsRouter

EndpointsSpec == EndpointsInit /\ [][EndpointsNext]_endpointVars

-----------------------------------------------------------------------------
(* Events.                                                                 *)

\* What the pages of x show of u. (That an invitation got its account is told
\* for the pending ones only.)
ShownInvitation(x, u) ==
    IF HasInvitation(u, x) THEN <<invitation[x][u].status, invitation[x][u].role>>
    ELSE <<>>

RowChanges(x, u) ==
    \/ member[x][u]' # member[x][u]
    \/ ShownInvitation(x, u)' # ShownInvitation(x, u)

\* What u is shown of their own: the membership and what they may still answer.
OwnRow(x, u) ==
    <<member[x][u], IF IsPending(invitation[x][u]) THEN ShownInvitation(x, u) ELSE <<>>>>

PageChanges(x) ==
    \/ roles[x]' # roles[x] \/ permissions[x]' # permissions[x]
    \/ x \in Projects /\ assignees[x]' # assignees[x]

MayView(u, x) == IF x = Workspace THEN MayViewWorkspace(u) ELSE MayViewProject(u, x)

\* The exception: the invitations of someone who leaves the workspace to
\* projects they are not in go without an event (_delete_inner_projects_membership
\* emits one for each project they were a member of).
DroppedSilently(x, u) ==
    /\ x \in Projects /\ ~IsMember(u, x)
    /\ IsMember(u, Workspace) /\ ~IsMember(u, Workspace)'

\* Nobody is left with a page that has changed behind their back: the channel of
\* a workspace or project is told of every change of its roles, members,
\* invitations and assignments, and people whose own row changes are told on their
\* own channel, or on one they may still listen to.
ChangesAreTold ==
    \A x \in live \cap live' :
        /\ \/ x \in published'
           \/ /\ ~PageChanges(x)
              /\ \A u \in Users : RowChanges(x, u) => DroppedSilently(x, u)
        /\ \A u \in active \cap active' :
             \/ u \in published'
             \/ OwnRow(x, u)' = OwnRow(x, u)
             \/ x \in published' /\ MayView(u, x)'

\* What appears is told to who made it, what goes to those who watch it; a
\* project also to those who watch its workspace.
LifeCyclesAreTold ==
    /\ \A x \in live' \ live, u \in Users : IsMember(u, x)' => u \in published'
    /\ live \ live' \subseteq published'
    /\ live' # live /\ Workspace \in live => Workspace \in published'

\* The link of an invitation is only mailed while it can be answered.
MailsCanBeAnswered == \A m \in mailed' : IsPending(invitation[m[1]][m[2]])'

EventsFollowChanges ==
    [][ChangesAreTold /\ LifeCyclesAreTold /\ MailsCanBeAnswered]_endpointVars
=============================================================================
