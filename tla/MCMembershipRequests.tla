------------------------ MODULE MCMembershipRequests ------------------------
(* Instances of MembershipRequests for TLC.                                *)
EXTENDS MembershipRequests, TLC

\* A role identifier may name a role of the workspace and one of the project.
MCWorkspaceRoles == "owner" :> {} @@ "member" :> {}

MCProjectTemplate ==
    "owner" :> ProjectPermissions @@
    "member" :> ProjectPermissions \ {"create_modify_delete_role"}

MCRoles == DOMAIN MCWorkspaceRoles \cup DOMAIN MCProjectTemplate

MCFixedRoles == MCRoles

Symmetry == Permutations(Users) \cup Permutations(Requests)
=============================================================================
