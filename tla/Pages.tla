-------------------------------- MODULE Pages --------------------------------
(***************************************************************************)
(* What the pages about memberships show: who may open a project or the    *)
(* workspace, the lists and details that the GET handlers of               *)
(* workspaces/workspaces, workspaces/memberships, projects/projects,       *)
(* projects/memberships and both invitations packages answer, the search   *)
(* of users, and what is announced before a deletion. A page that is       *)
(* refused shows nothing. The superuser, to whom check_permissions refuses *)
(* nothing, is left out, and so are the orders of the lists.               *)
(***************************************************************************)
EXTENDS Membership, Naturals

\* The pages count people.
ASSUME PeopleAssumption == IsFiniteSet(Users)

IsAuthenticated(u) == u \in active

-----------------------------------------------------------------------------
(* Who may open what.                                                      *)

\* By the account, or by the address while the row has no account.
HasPendingInvitation(u, x) == IsPending(invitation[x][u])

MutantHasPendingInnerProjectsInvitation(u) == FALSE

HasPendingInnerProjectsInvitation(u) ==
    \E p \in Projects : HasPendingInvitation(u, p)

MayViewProject(u, p) ==
    IsAuthenticated(u) /\ (IsMember(u, p) \/ HasPendingInvitation(u, p))

MayViewWorkspace(u) ==
    /\ IsAuthenticated(u)
    /\ \/ IsMember(u, Workspace)
       \/ HasPendingInvitation(u, Workspace)
       \/ HasPendingInnerProjectsInvitation(u)

\* The invitations to x that u may list: those of the people u may invite.
MayViewInvitations(u, x) == HasPermission(u, x, "create_modify_member")

MayViewMembers(u, x) == IsAuthenticated(u) /\ IsMember(u, x)

-----------------------------------------------------------------------------
(* Projects and workspaces.                                                *)

\* list_workspace_projects_for_user.
ProjectsOfUser(u) ==
    {p \in Projects \cap live : IsMember(u, p) \/ HasPendingInvitation(u, p)}

WorkspaceProjectsPage(u) == IF MayViewWorkspace(u) THEN ProjectsOfUser(u) ELSE {}

\* user.is_invited is only set for someone who is not a member.
ProjectPage(u, p) ==
    [user_role |-> member[p][u],
     user_is_invited |-> ~IsMember(u, p) /\ HasPendingInvitation(u, p)]

WorkspacePage(u) ==
    [user_role |-> member[Workspace][u],
     user_is_member |-> IsMember(u, Workspace),
     user_is_invited |-> ~IsMember(u, Workspace) /\ HasPendingInvitation(u, Workspace),
     user_can_create_projects |-> HasPermission(u, Workspace, "create_project"),
     total_projects |-> Cardinality(Projects \cap live)]

\* The three parts of list_user_workspaces_overview: a workspace is in the
\* first that fits, membership first.
MemberWorkspaces(u) == {x \in {Workspace} \cap live : IsMember(u, x)}

InvitedWorkspaces(u) ==
    {x \in {Workspace} \cap live : HasPendingInvitation(u, x)} \ MemberWorkspaces(u)

InnerInvitedWorkspaces(u) ==
    {x \in {Workspace} \cap live : HasPendingInnerProjectsInvitation(u)}
      \ (MemberWorkspaces(u) \cup InvitedWorkspaces(u))

MemberProjects(u) == {p \in Projects \cap live : IsMember(u, p)}

InvitedProjects(u) == {p \in Projects \cap live : HasPendingInvitation(u, p)}

-----------------------------------------------------------------------------
(* Members, invitations and roles.                                         *)

MembersPage(u, x) ==
    IF MayViewMembers(u, x) THEN {v \in Users : IsMember(v, x)} ELSE {}

\* total_projects_is_member, shown next to each member of the workspace.
TotalProjectsIsMember(v) == Cardinality(MemberProjects(v))

InvitationsPage(u, x) ==
    IF MayViewInvitations(u, x) THEN {v \in Users : HasInvitation(v, x)} ELSE {}

\* Behind the link of an invitation mail, for anybody who has it.
PublicInvitationPage(x, v) ==
    IF IsPending(invitation[x][v])
    THEN {[email |-> v, existing_user |-> invitation[x][v].linked]} ELSE {}

RoleDetail(x, role) ==
    [total_members |-> Cardinality({v \in Users : member[x][v] = role}),
     has_invitees |-> \E v \in Users :
        HasPendingInvitation(v, x) /\ invitation[x][v].role = role]

ProjectRolesPage(u, p) ==
    IF MayViewMembers(u, p) THEN [role \in roles[p] |-> RoleDetail(p, role)]
    ELSE [role \in {} |-> {}]

WorkspaceRolesPage(u) ==
    IF MayViewMembers(u, Workspace)
    THEN [role \in roles[Workspace] |-> RoleDetail(Workspace, role)]
    ELSE [role \in {} |-> {}]

-----------------------------------------------------------------------------
(* The search of users, in blocks by their closeness to p or the workspace;  *)
(* the text that is searched for only narrows each block.                   *)

ProjectUsersByText(p) ==
    <<{u \in active : IsMember(u, p)},
      {u \in active : IsMember(u, Workspace) /\ ~IsMember(u, p)},
      {u \in active : ~IsMember(u, p) /\ ~IsMember(u, Workspace)}>>

WorkspaceUsersByText ==
    LET inProject(u) == MemberProjects(u) # {}
    IN  <<{u \in active : IsMember(u, Workspace)},
          {u \in active : inProject(u) /\ ~IsMember(u, Workspace)},
          {u \in active : ~IsMember(u, Workspace) /\ ~inProject(u)}>>

-----------------------------------------------------------------------------
(* What is announced before a deletion.                                    *)

HasOtherMembers(u, x) == \E v \in Users \ {u} : IsMember(v, x)

UserDeleteInfo(u) ==
    LET workspaces == {x \in {Workspace} : OnlyMember(u, x)}
    IN  [only_owner_collective_workspaces |->
           {x \in {Workspace} : OnlyOwner(u, x) /\ HasOtherMembers(u, x)},
         only_owner_collective_projects |->
           {p \in Projects : OnlyOwner(u, p) /\ HasOtherMembers(u, p)},
         only_member_workspaces |->
           workspaces,
         inner_projects |-> \* shown with the workspaces they are in
           IF workspaces = {} THEN {} ELSE Projects \cap live,
         only_member_projects |->
           IF workspaces = {} THEN {p \in Projects : OnlyMember(u, p)} ELSE {}]

WorkspaceMembershipDeleteInfo(u) ==
    [is_unique_owner |-> \A v \in Users \ {u} : ~IsOwner(v, Workspace),
     member_of_projects |-> MemberProjects(u),
     unique_owner_of_projects |-> {p \in Projects : OnlyOwner(u, p)}]

-----------------------------------------------------------------------------
(* How the pages fit together.                                             *)

\* Whoever may open a project may open the workspace it is in, where the
\* project is listed, and finds both in the list of their workspaces.
ProjectsAreReachable ==
    \A u \in active, p \in Projects : MayViewProject(u, p) =>
        /\ p \in WorkspaceProjectsPage(u)
        /\ p \in MemberProjects(u) \cup InvitedProjects(u)
        /\ ProjectPage(u, p).user_is_invited <=> ProjectPage(u, p).user_role = NoRole

\* The workspace is in one part of the list of those who may open it, and in
\* no part of the others'; the part agrees with what its page says of the user.
WorkspacesAreListedOnce ==
    \A u \in active :
        LET parts == {part \in {"member", "invited", "inner"} :
              Workspace \in CASE part = "member" -> MemberWorkspaces(u)
                              [] part = "invited" -> InvitedWorkspaces(u)
                              [] part = "inner" -> InnerInvitedWorkspaces(u)}
        IN  /\ Cardinality(parts) = (IF MayViewWorkspace(u) THEN 1 ELSE 0)
            /\ WorkspacePage(u).user_is_member <=> parts = {"member"}
            /\ WorkspacePage(u).user_is_invited <=> parts = {"invited"}

\* The members and the invitations add up to those of the roles page; whoever
\* may list the invitations also sees the members.
RolesAddUp ==
    \A u \in active, x \in live : MembersPage(u, x) # {} =>
        LET page == IF x = Workspace THEN WorkspaceRolesPage(u)
                    ELSE ProjectRolesPage(u, x)
            used == {role \in DOMAIN page : page[role].total_members > 0}
        IN  /\ used = {member[x][v] : v \in MembersPage(u, x)}
            /\ \A v \in InvitationsPage(u, x) : PublicInvitationPage(x, v) # {} =>
                 page[invitation[x][v].role].has_invitees

\* Every active user is in exactly one block of a search; nobody is a member of
\* a project without being one of its workspace.
SearchesFindEveryoneOnce ==
    \A blocks \in {ProjectUsersByText(p) : p \in Projects \cap live}
                    \cup {WorkspaceUsersByText} :
        /\ UNION {blocks[i] : i \in 1..3} = active
        /\ \A i, j \in 1..3 : i # j => blocks[i] \cap blocks[j] = {}
        /\ blocks = WorkspaceUsersByText => blocks[2] = {}

\* A member of the workspace who is announced to be in no project, and not to be
\* its unique owner, can leave; and nobody owns a project they are not shown in.
DeleteInfosAgree ==
    \A u \in active : LET info == WorkspaceMembershipDeleteInfo(u)
                          all == UserDeleteInfo(u) IN
        /\ info.unique_owner_of_projects \subseteq info.member_of_projects
        /\ TotalProjectsIsMember(u) = Cardinality(info.member_of_projects)
        /\ all.only_owner_collective_projects \subseteq info.unique_owner_of_projects
        /\ all.only_member_projects \cup all.inner_projects
             \subseteq info.unique_owner_of_projects

\* The pages agree with each other: what one of them lists, another opens, and
\* what is announced of a deletion is what the lists show.
PagesFitTogether ==
    /\ ProjectsAreReachable
    /\ WorkspacesAreListedOnce
    /\ RolesAddUp
    /\ SearchesFindEveryoneOnce
    /\ DeleteInfosAgree
=============================================================================
