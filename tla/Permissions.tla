---------------------------- MODULE Permissions ----------------------------
(***************************************************************************)
(* The permissions that roles give, which of them need which others, and   *)
(* the sets of them that the form of a role accepts (src/permissions).     *)
(***************************************************************************)

MemberPermissions == {"create_modify_member", "delete_member"}

StoryPermissions == {"view_story", "modify_story", "create_story", "delete_story"}

CommentPermissions == {"view_comment", "create_modify_delete_comment", "moderate_comment"}

WorkflowPermissions == {"view_workflow", "modify_workflow", "create_workflow", "delete_workflow"}

ProjectPermissions ==
    MemberPermissions \cup StoryPermissions \cup CommentPermissions \cup WorkflowPermissions
      \cup {"create_modify_delete_role", "modify_project", "delete_project"}

WorkspacePermissions ==
    MemberPermissions \cup {"modify_workspace", "delete_workspace", "create_project"}

Permissions == ProjectPermissions \cup WorkspacePermissions

\* A permission and one that it needs, of a project.
Dependencies ==
    {<<"delete_member", "create_modify_member">>,
     <<"create_modify_delete_role", "create_modify_member">>,
     <<"delete_project", "modify_project">>,
     <<"modify_story", "view_story">>,
     <<"create_story", "modify_story">>,
     <<"delete_story", "create_story">>,
     <<"view_comment", "view_story">>,
     <<"create_modify_delete_comment", "view_comment">>,
     <<"moderate_comment", "create_modify_delete_comment">>,
     <<"view_workflow", "view_story">>,
     <<"modify_workflow", "view_workflow">>,
     <<"create_workflow", "modify_workflow">>,
     <<"delete_workflow", "create_workflow">>}

AreCompatible(perms) == \A d \in Dependencies : d[1] \in perms => d[2] \in perms

\* validate_permissions: what the form of a project role accepts.
AreValid(perms) ==
    /\ perms # {}
    /\ perms \subseteq ProjectPermissions
    /\ AreCompatible(perms)
=============================================================================
