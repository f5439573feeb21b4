------------------------------- MODULE Services -------------------------------
(***************************************************************************)
(* The services over Membership, for workspaces and for projects: the      *)
(* change, then the events it publishes and the mails it sends. published  *)
(* and mailed hold what the last request sent out: the channels an event   *)
(* was published on, and the invitations a mail with a token was sent for  *)
(* (is_spam, left out with its counters, may hold back a repeated mail).    *)
(* Events wait for the commit, except those of update_workspace_membership *)
(* (RefusedAfterSuccession). Who may call a service is said in Endpoints;  *)
(* the notifications of an assignment, each with an event, are left out.    *)
(***************************************************************************)
EXTENDS Pages

VARIABLES published, mailed

endpointVars == <<active, live, roles, permissions, member, invitation, assignees,
                  published, mailed>>

Channels == Users \cup ReferenceObjects

Publish(channels) == published' = channels /\ mailed' = {}

PublishAndMail(channels, x, u) == published' = channels /\ mailed' = {<<x, u>>}

\* The user of a row of invitations, if it is linked to one.
Recipient(row, u) == IF row # NoInvitation /\ row.linked THEN {u} ELSE {}

-----------------------------------------------------------------------------
(* The channels of each event.                                             *)

WorkspaceIsCreated(creator) == {creator}

WorkspaceIsUpdated == {Workspace}

WorkspaceIsDeleted == {Workspace}

ProjectIsCreated(creator) == {creator, Workspace}

ProjectIsUpdated(p) == {Workspace, p}

ProjectIsDeleted(p) == {Workspace, p}

ProjectInvitationsAreCreated(p, row, u) == Recipient(row, u) \cup {p}

ProjectInvitationIsUpdated(p, row, u) == {p} \cup Recipient(row, u)

\* joined: the acceptance also created a workspace membership.
ProjectInvitationIsAccepted(p, row, u, joined) ==
    {p} \cup Recipient(row, u) \cup (IF joined THEN {Workspace} ELSE {})

ProjectInvitationIsRevoked(p, row, u) == {p} \cup Recipient(row, u)

ProjectInvitationIsDenied(p, row, u) == {p} \cup Recipient(row, u)

ProjectInvitationIsDeleted(p) == {p}

WorkspaceInvitationsAreCreated(row, u) == Recipient(row, u) \cup {Workspace}

WorkspaceInvitationIsUpdated(row, u) == {Workspace} \cup Recipient(row, u)

WorkspaceInvitationIsAccepted(row, u) == {Workspace} \cup Recipient(row, u)

WorkspaceInvitationIsRevoked(row, u) == {Workspace} \cup Recipient(row, u)

WorkspaceInvitationIsDenied(row, u) == {Workspace} \cup Recipient(row, u)

WorkspaceInvitationIsDeleted == {Workspace}

ProjectMembershipIsUpdated(p, u) == {u, p}

MutantProjectMembershipIsDeleted(p, u) == {p}

ProjectMembershipIsDeleted(p, u) == {p, u}

WorkspaceMembershipIsUpdated(u) == {u, Workspace}

WorkspaceMembershipIsDeleted(u) == {Workspace, u}

RoleIsCreated(p) == {p}

RoleIsUpdated(p) == {p}

RoleIsDeleted(p) == {p}

StoryAssignmentIsCreated(p, u) == {u, p}

StoryAssignmentIsDeleted(p, u) == {u, p}

UserIsDeleted(u) == {u}

-----------------------------------------------------------------------------
(* Services: workspaces and projects.                                      *)

CreateWorkspaceService(a) ==
    /\ CreateWith(a, Workspace, WorkspaceRoles)
    /\ Publish(WorkspaceIsCreated(a))

\* A change of name reaches the pages, and nothing that is modelled here.
UpdateWorkspaceService == UNCHANGED vars /\ Publish(WorkspaceIsUpdated)

DeleteWorkspaceService ==
    DeleteEmptyWorkspace /\ Publish(WorkspaceIsDeleted)

CreateProjectService(a, p) ==
    CreateWith(a, p, ProjectTemplate) /\ Publish(ProjectIsCreated(a))

UpdateProjectService(p) == UNCHANGED vars /\ Publish(ProjectIsUpdated(p))

DeleteProjectService(p) ==
    /\ p \in live
    /\ DeleteReferenceObject(p)
    /\ Publish(ProjectIsDeleted(p))

-----------------------------------------------------------------------------
(* Services: invitations.                                                  *)

CreateProjectInvitationsService(a, p, u, role) ==
    /\ Invite(a, p, u, role)
    /\ PublishAndMail(ProjectInvitationsAreCreated(p, invitation'[p][u], u), p, u)

CreateWorkspaceInvitationsService(a, u, role) ==
    /\ Invite(a, Workspace, u, role)
    /\ PublishAndMail(WorkspaceInvitationsAreCreated(invitation'[Workspace][u], u),
                      Workspace, u)

UpdateProjectInvitationService(a, p, u, role) ==
    /\ ChangeInvitedRole(a, p, u, role)
    /\ Publish(ProjectInvitationIsUpdated(p, invitation'[p][u], u))

UpdateWorkspaceInvitationService(a, u, role) ==
    /\ ChangeInvitedRole(a, Workspace, u, role)
    /\ Publish(WorkspaceInvitationIsUpdated(invitation'[Workspace][u], u))

ResendService(x, u) ==
    /\ IsPending(invitation[x][u])
    /\ UNCHANGED vars
    /\ PublishAndMail({}, x, u)

RevokeProjectInvitationService(p, u) ==
    Revoke(p, u) /\ Publish(ProjectInvitationIsRevoked(p, invitation'[p][u], u))

RevokeWorkspaceInvitationService(u) ==
    /\ Revoke(Workspace, u)
    /\ Publish(WorkspaceInvitationIsRevoked(invitation'[Workspace][u], u))

DenyProjectInvitationService(u, p) ==
    Deny(u, p) /\ Publish(ProjectInvitationIsDenied(p, invitation'[p][u], u))

DenyWorkspaceInvitationService(u) ==
    /\ Deny(u, Workspace)
    /\ Publish(WorkspaceInvitationIsDenied(invitation'[Workspace][u], u))

\* What accepting inv[x][u] publishes: a pending workspace invitation that
\* is accepted along has its own event.
AcceptanceEvents(inv, x, u) ==
    IF x = Workspace \/ AcceptsWorkspace(inv, x, u)
    THEN WorkspaceInvitationIsAccepted(inv[Workspace][u], u)
           \cup (IF x = Workspace THEN {}
                 ELSE ProjectInvitationIsAccepted(x, inv[x][u], u, FALSE))
    ELSE ProjectInvitationIsAccepted(x, inv[x][u], u, JoinsWorkspace(x, u))

AcceptProjectInvitationService(u, p) ==
    Accept(u, p) /\ Publish(AcceptanceEvents(invitation, p, u))

AcceptWorkspaceInvitationService(u) ==
    Accept(u, Workspace) /\ Publish(AcceptanceEvents(invitation, Workspace, u))

-----------------------------------------------------------------------------
(* Services: members and roles.                                            *)

UpdateProjectMembershipService(a, p, u, role) ==
    ChangeRole(a, p, u, role) /\ Publish(ProjectMembershipIsUpdated(p, u))

UpdateWorkspaceMembershipService(a, u, role) ==
    ChangeRole(a, Workspace, u, role) /\ Publish(WorkspaceMembershipIsUpdated(u))

DeleteProjectMembershipService(a, p, u, successor) ==
    /\ LeaveProject(a, p, u, successor)
    /\ Publish((IF OnlyOwner(u, p) THEN ProjectMembershipIsUpdated(p, successor) ELSE {})
               \cup ProjectMembershipIsDeleted(p, u)
               \cup ProjectInvitationIsDeleted(p))

SuccessionEvents(u, successor) ==
    IF OnlyOwner(u, Workspace) THEN WorkspaceMembershipIsUpdated(successor) ELSE {}

TakeoverEvents(a, u) ==
    IF a = u THEN {}
    ELSE UNION {ProjectMembershipIsUpdated(p, a) :
                  p \in {q \in Projects : OnlyOwner(u, q)}}

InnerMembershipEvents(u) ==
    UNION {ProjectMembershipIsDeleted(p, u) \cup ProjectInvitationIsDeleted(p) :
             p \in {q \in Projects : IsMember(u, q)}}

DeleteWorkspaceMembershipService(a, u, successor) ==
    /\ LeaveWorkspace(a, u, successor)
    /\ Publish(SuccessionEvents(u, successor) \cup TakeoverEvents(a, u)
               \cup InnerMembershipEvents(u)
               \cup WorkspaceMembershipIsDeleted(u) \cup WorkspaceInvitationIsDeleted)

\* The owner who hands the workspace over and leaves is refused while they are
\* in a project: the succession is rolled back once its event is published.
RefusedAfterSuccession(u, successor) ==
    /\ OnlyOwner(u, Workspace)
    /\ SuccessionAllowed(u, Workspace, u, successor)
    /\ \E p \in Projects : IsMember(u, p)
    /\ UNCHANGED vars
    /\ Publish(SuccessionEvents(u, successor))

CreateRoleService(p, role, perms) ==
    AddRole(p, role, perms) /\ Publish(RoleIsCreated(p))

UpdateRoleService(p, role, perms) ==
    ChangePermissions(p, role, perms) /\ Publish(RoleIsUpdated(p))

DeleteRoleService(a, p, role, target) ==
    RemoveRole(a, p, role, target) /\ Publish(RoleIsDeleted(p))

-----------------------------------------------------------------------------
(* Services: assignments and accounts.                                     *)

\* The story may be one that u is assigned to already: nothing is published.
CreateStoryAssignmentService(p, u) ==
    /\ Assign(p, u)
    /\ \/ u \in assignees[p] /\ Publish({})
       \/ Publish(StoryAssignmentIsCreated(p, u))

\* u may stay assigned to another story of the project.
DeleteStoryAssignmentService(p, u) ==
    /\ Unassign(p, u) \/ (u \in assignees[p] /\ UNCHANGED vars)
    /\ Publish(StoryAssignmentIsDeleted(p, u))

PendingOf(u) == {x \in ReferenceObjects : HasPendingInvitation(u, x)}

UpdateUserProjectsInvitations(u) ==
    UNION {ProjectInvitationIsUpdated(p, LinkedInvitations(u)[p][u], u) :
             p \in PendingOf(u) \ {Workspace}}

UpdateUserWorkspacesInvitations(u) ==
    IF Workspace \in PendingOf(u)
    THEN WorkspaceInvitationIsUpdated(LinkedInvitations(u)[Workspace][u], u) ELSE {}

\* The pages of the invitations show the account from now on.
VerifyUserService(u, x) ==
    /\ VerifyUser(u, x)
    /\ Publish(UpdateUserWorkspacesInvitations(u) \cup UpdateUserProjectsInvitations(u)
               \cup (IF x \in PendingOf(u)
                     THEN AcceptanceEvents(LinkedInvitations(u), x, u) ELSE {}))

\* The projects go one by one, each with its event, before the workspaces.
GoneProjectsEvents(gone) == UNION {ProjectIsDeleted(p) : p \in gone \ {Workspace}}

\* The rows of u in what remains: their pages are told, and u is.
RemainingMembershipsEvents(u, gone) ==
    UNION {IF x = Workspace THEN WorkspaceMembershipIsDeleted(u)
           ELSE ProjectMembershipIsDeleted(x, u) :
             x \in {y \in ReferenceObjects \ gone : IsMember(u, y)}}

RemainingInvitationsEvents(u, gone) ==
    UNION {IF x = Workspace THEN WorkspaceInvitationIsDeleted
           ELSE ProjectInvitationIsDeleted(x) :
             x \in {y \in ReferenceObjects \ gone : Recipient(invitation[y][u], u) # {}}}

DeleteUserService(u) ==
    LET gone == {x \in ReferenceObjects : OnlyMember(u, x)}
    IN  /\ DeleteUser(u)
        /\ Publish(GoneProjectsEvents(gone) \cup (gone \cap WorkspaceIsDeleted)
                   \cup RemainingMembershipsEvents(u, gone)
                   \cup RemainingInvitationsEvents(u, gone) \cup UserIsDeleted(u))
=============================================================================
