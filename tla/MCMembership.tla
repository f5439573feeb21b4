---------------------------- MODULE MCMembership ----------------------------
(* Instances of SampleData for TLC. The roles are those of the workspace    *)
(* roles and of the project template of the code, or some of them.          *)
EXTENDS SampleData

MCTwoWorkspaceRoles ==
    "owner" :> WorkspacePermissions @@
    "member" :> {}

\* The members may do as much as a role that can be edited may ever do, so that
\* every handler has callers who own nothing.
MCProjectTemplate ==
    "owner" :> ProjectPermissions @@
    "member" :> ProjectPermissions \ {"delete_project"}

MCTwoRoles == DOMAIN MCTwoWorkspaceRoles \cup DOMAIN MCProjectTemplate

MCFixedRoles == {"owner", "admin", "readonly-member"}

MCPermissionSets == {MCProjectTemplate["member"]}

MCFewPermissions == {{"create_modify_member"}}

Symmetry == Permutations(Users) \cup Permutations(Projects)
=============================================================================
