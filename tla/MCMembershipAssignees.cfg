CONSTANTS
    Users = {u1, u2}
    Workspace = ws
    Projects = {p1}
    Roles <- MCTwoRoles
    Owner = "owner"
    DefaultRole = "member"
    FixedRoles <- MCFixedRoles
    WorkspaceRoles <- MCTwoWorkspaceRoles
    ProjectTemplate <- MCProjectTemplate
    PermissionSets <- MCFewPermissions
    NoRole = NoRole
    NoInvitation = NoInvitation
    NoUser = NoUser
    MemberRole = "member"
    GivenPermissions = {}
    OwnersShare = 1
SPECIFICATION EndpointsSpec
SYMMETRY Symmetry
VIEW vars
INVARIANTS
    AssigneesCanViewStories
