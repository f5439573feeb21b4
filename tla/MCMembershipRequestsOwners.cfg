CONSTANTS
    Users = {u1, u2}
    Requests = {r1, r2}
    Workspace = ws
    Projects = {p1}
    Roles <- MCRoles
    Owner = "owner"
    DefaultRole = "member"
    FixedRoles <- MCFixedRoles
    WorkspaceRoles <- MCWorkspaceRoles
    ProjectTemplate <- MCProjectTemplate
    PermissionSets = {}
    NoRole = NoRole
    NoInvitation = NoInvitation
    NoUser = NoUser
    NoRequest = NoRequest
    SoloOps = {}
    Ops = {"update_member", "delete_member", "accept", "deny", "revoke", "update_invitation", "resend", "assign"}
SPECIFICATION RequestsSpec
SYMMETRY Symmetry
INVARIANTS
    HasOwner
