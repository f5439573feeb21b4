CONSTANTS
    Users = {u1, u2}
    Workspace = ws
    Projects = {p1}
    Roles <- MCTwoRoles
    Owner = "owner"
    DefaultRole = "member"
    FixedRoles <- MCFixedRoles
    WorkspaceRoles <- MCTwoWorkspaceRoles
    ProjectTemplate <- MCProjectTemplate
    PermissionSets <- MCPermissionSets
    NoRole = NoRole
    NoInvitation = NoInvitation
    NoUser = NoUser
    MemberRole = "member"
    GivenPermissions = {{}}
    OwnersShare = 1
SPECIFICATION SampleSpec
SYMMETRY Symmetry
VIEW vars
INVARIANTS
    HasOwner
    ProjectMembersAreInWorkspace
    AcceptedInviteesAreMembers
    WorkspaceMembersAreNotInvited
    InvitationsFollowAccounts
    AssigneesAreMembers
    PagesFitTogether
PROPERTIES
    AccountDeletionKeepsSharedProjects
    OwnersComeFromWithin
    EventsFollowChanges
