CONSTANTS
    Users = {u1, u2}
    Requests = {r1, r2}
    Workspace = ws
    Projects = {p1}
    Roles <- MCRoles
    Owner = "owner"
    DefaultRole = "member"
    FixedRoles <- MCFixedRoles
    WorkspaceRoles <- MCWorkspaceRoles
    ProjectTemplate <- MCProjectTemplate
    PermissionSets = {}
    NoRole = NoRole
    NoInvitation = NoInvitation
    NoUser = NoUser
    NoRequest = NoRequest
    SoloOps = {"update_member", "assign", "resend"}
    Ops = {"update_member", "assign", "delete_member", "accept", "deny", "revoke", "update_invitation", "resend"}
\* Once nobody is left in the project (see MCMembershipRequestsOwners) none of
\* these requests can be made.
CHECK_DEADLOCK FALSE
SPECIFICATION RequestsSpec
SYMMETRY Symmetry
INVARIANT AcceptedInviteesAreMembers
PROPERTY SerialSteps
