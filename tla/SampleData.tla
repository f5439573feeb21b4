----------------------------- MODULE SampleData -----------------------------
(***************************************************************************)
(* The data that load_sampledata generates (base/sampledata), from which   *)
(* the handlers of Endpoints go on. Accounts, memberships and invitations  *)
(* are written row by row, next to the services that would keep them       *)
(* consistent, with members kept in caches that may be stale.              *)
(*                                                                         *)
(* A scenario makes several workspaces and projects in the same ways: here *)
(* one of the workspaces and one of its projects, by c, with some others   *)
(* that the scenario creates. An operator gives every result that the      *)
(* random choices allow. The command is one transaction.                   *)
(***************************************************************************)
EXTENDS Endpoints, Integers, TLC

CONSTANTS
    MemberRole,  \* the role "member" of a workspace and of a project
    GivenPermissions, \* bound on what test_data gives members instead: [] or [VIEW_STORY]
    OwnersShare  \* of how many members one may own the project (3)

ASSUME SampleDataAssumption ==
    /\ MemberRole \in (DOMAIN ProjectTemplate \cap DOMAIN WorkspaceRoles) \ {Owner}
    /\ GivenPermissions \subseteq {{}, {"view_story"}}
    /\ OwnersShare \in Nat \ {0}

\* The rows before; valid: no unique constraint has been violated.
NoRows ==
    [active |-> {}, live |-> {}, roles |-> [x \in ReferenceObjects |-> {}],
     permissions |-> [x \in ReferenceObjects |-> [r \in Roles |-> {}]],
     member |-> [x \in ReferenceObjects |-> [u \in Users |-> NoRole]],
     invitation |-> [x \in ReferenceObjects |-> [u \in Users |-> NoInvitation]],
     assignees |-> [p \in Projects |-> {}],
     valid |-> TRUE]

-----------------------------------------------------------------------------
(* The factories.                                                          *)

\* Two groups of S without a member in common.
Apart(S) == {pair \in (SUBSET S) \X (SUBSET S) : pair[1] \cap pair[2] = {}}

\* create_user: the account is active at once.
CreateUsers(S) == [NoRows EXCEPT !.active = S]

\* By the services, _create_workspace and _create_project.
With(db, x, c, template) ==
    [db EXCEPT !.live = @ \cup {x}, !.roles[x] = DOMAIN template,
               !.permissions[x] = DefaultPermissions(template), !.member[x][c] = Owner]

NewWorkspace(c, S) == {With(CreateUsers({c} \cup S), Workspace, c, WorkspaceRoles)}

NewProject(dbs, c, p) == {With(db, p, c, ProjectTemplate) : db \in dbs}

\* Rows for some people, who must have none.
Members(db, x, role) ==
    [db EXCEPT !.member[x] = role @@ @,
               !.valid = @ /\ \A u \in DOMAIN role : db.member[x][u] = NoRole]

Invites(db, x, status, role) ==
    [db EXCEPT !.invitation[x] = [u \in DOMAIN role |->
                   [status |-> status, role |-> role[u], linked |-> u \in db.active]] @@ @,
               !.valid = @ /\ \A u \in DOMAIN role : db.invitation[x][u] = NoInvitation]

\* create_workspace_membership, create_project_membership: with an accepted
\* invitation, whatever the caches say.
AddMembers(dbs, x, S, given) ==
    {Invites(Members(db, x, role), x, "accepted", role) : db \in dbs, role \in [S -> given]}

\* create_workspace_invitation, create_project_invitation
AddInvitees(dbs, x, S, given) ==
    {Invites(db, x, "pending", role) : db \in dbs, role \in [S -> given]}

\* create_workspace_memberships
WorkspaceMemberships(dbs, S) ==
    {Members(db, Workspace, role) : db \in dbs, role \in [S -> DOMAIN WorkspaceRoles \ {Owner}]}

\* create_project_memberships: some of them own the project too.
ProjectMemberships(dbs, p, S) ==
    {Members(db, p, role) : db \in dbs,
       role \in {f \in [S -> DOMAIN ProjectTemplate] :
                   Cardinality({u \in S : f[u] = Owner}) <= Cardinality(S) \div OwnersShare}}

\* create_workspace_invitations, create_project_invitations: accepted ones for the
\* members in the cache, pending ones for some of the invitees and for some addresses
\* that nobody has registered.
AddInvitations(dbs, x, cached, invitees) ==
    UNION {LET accepted == Invites(db, x, "accepted", [u \in cached |-> db.member[x][u]]) IN
           UNION {AddInvitees({accepted}, x, S, db.roles[x]) :
                    S \in SUBSET (invitees \cup (Users \ db.active))}
           : db \in dbs}

\* create_stories: assigned to any of the members in the cache.
CreateStories(dbs, p, cached) ==
    {[db EXCEPT !.assignees[p] = S] : db \in dbs, S \in SUBSET cached}

\* The members may do nothing, or just see stories, instead of what the template lets them.
OtherPermissions(dbs, p) ==
    {[db EXCEPT !.permissions[p][MemberRole] = given] : db \in dbs, given \in GivenPermissions}

-----------------------------------------------------------------------------
(* The scenarios of demo_data, by c with the others of S.                  *)

\* _create_accepted_project_invitations, whose cache is older than the members:
\* none.
CreateAcceptedProjectInvitations(dbs, p) == AddInvitations(dbs, p, {}, {})

FreelanceWorkingForHerself(c, S, p) ==
    LET made == NewProject(AddMembers(NewWorkspace(c, S), Workspace, S, {DefaultRole}), c, p) IN
    UNION {CreateStories(AddMembers(made, p, T, {MemberRole}), p, {c}) : T \in SUBSET S}

\* One of the members may own the project too.
FreelanceWorkingForOthers(c, S, p) ==
    LET made == NewProject(AddMembers(NewWorkspace(c, S), Workspace, S, {DefaultRole}), c, p)
        staffed == UNION {AddMembers(AddMembers(made, p, pair[1], {MemberRole}), p, pair[2], {Owner}) :
                            pair \in {q \in Apart(S) : Cardinality(q[2]) <= 1}}
    IN  CreateStories(staffed, p, {c})

UserInSocietyWorkingForOthers(c, S, p) ==
    CreateStories(NewProject(NewWorkspace(c, S), c, p), p, {c})

\* T are added alone to the workspace and maybe to the project, the others
\* all at once to the workspace and some of them, M, to the project.
Society(c, T, S, p, M) ==
    LET alone == AddMembers(NewWorkspace(c, T \cup S), Workspace, T, {DefaultRole})
        staffed == AddInvitations(WorkspaceMemberships(alone, S), Workspace, S, {})
        made == NewProject(staffed, c, p)
        joined == made \cup AddMembers(made, p, T, {MemberRole})
    IN  CreateStories(AddInvitations(ProjectMemberships(joined, p, M), p, M, S \ M), p,
                      IF M = {} THEN {c} ELSE M)

\* With the ways the society may be split, and c's own workspace.
ManagerInSocietyWorkingForOthers(c, S, p) ==
    UserInSocietyWorkingForOthers(c, S, p)
      \cup UNION {Society(c, pair[1], S \ pair[1], p, pair[2]) : pair \in Apart(S)}

\* A party, to which T are invited alone.
ManagerInSocietyWithBigClient(c, S, p) ==
    FreelanceWorkingForHerself(c, S, p)
      \cup UNION {Society(c, pair[1], S \ pair[1], p, pair[2]) : pair \in Apart(S)}

ManagerInSocietyWithOwnProduct(c, S, p) ==
    UserInSocietyWorkingForOthers(c, S, p) \cup UNION {Society(c, {}, S, p, M) : M \in SUBSET S}

\* Each of its projects has another member.
ManagerInBigSocietyWithOwnProduct(c, S, p) ==
    UNION {Society(c, {}, S, p, M) : M \in SUBSET S \ {{}}}

DemoData(c, S, p) ==
    FreelanceWorkingForHerself(c, S, p) \cup FreelanceWorkingForOthers(c, S, p)
      \cup UserInSocietyWorkingForOthers(c, S, p) \cup ManagerInSocietyWorkingForOthers(c, S, p)
      \cup ManagerInSocietyWithBigClient(c, S, p) \cup ManagerInSocietyWithOwnProduct(c, S, p)
      \cup ManagerInBigSocietyWithOwnProduct(c, S, p)

-----------------------------------------------------------------------------
(* The scenarios of test_data.                                             *)

\* A workspace, or project, with members all at once and invitations for the others.
WorkspaceOf(c, S, others) ==
    AddInvitations(WorkspaceMemberships(NewWorkspace(c, S \cup others), S), Workspace, S, others)

ProjectOf(dbs, c, p, S, others) ==
    AddInvitations(ProjectMemberships(NewProject(dbs, c, p), p, S), p, S, others)

CustomProjects(c, S, p) ==
    LET made == WorkspaceOf(c, S, {}) IN
    NewProject(made, c, p) \cup CreateStories(ProjectOf(made, c, p, S, {}), p, S)

\* Projects of c, or of another member of the workspace.
ScenarioWithMembers(c, S, p) ==
    LET workspaces == AddMembers(NewWorkspace(c, S), Workspace, S, {MemberRole})
        joined == UNION {AddMembers(NewProject(workspaces, c, p), p, T, {MemberRole}) : T \in SUBSET S}
        created == UNION {NewProject(workspaces, u, p) : u \in S}
        made == joined \cup created
    IN  workspaces \cup made \cup OtherPermissions(made, p)

\* Nobody but c is a member of the workspace.
ScenarioWithInvitees(c, S, p) ==
    LET made == UNION {AddInvitees(NewProject(NewWorkspace(c, S), c, p), p, T, DOMAIN ProjectTemplate) :
                         T \in SUBSET S}
    IN  made \cup OtherPermissions(made, p)

\* T have any role in the workspace and some are members of the project, U are invited.
ScenarioWithEveryRole(c, S, p) ==
    UNION {LET workspaces == AddInvitees(AddMembers(NewWorkspace(c, S), Workspace, T,
                                                    DOMAIN WorkspaceRoles \ {Owner}),
                                         Workspace, U, {MemberRole})
               made == NewProject(workspaces, c, p)
               joined == UNION {AddMembers(made, p, M, {MemberRole}) : M \in SUBSET T}
           IN  OtherPermissions(joined, p)
           : <<T, U>> \in Apart(S)}

\* T are members of the workspace, U are invited to it, and some of T to the project.
ScenarioWithInvitations(c, S, p) ==
    UNION {LET made == NewProject(AddInvitees(AddMembers(NewWorkspace(c, S), Workspace, T, {MemberRole}),
                                              Workspace, U, {MemberRole}), c, p)
           IN  UNION {AddInvitees(made, p, invited, DOMAIN ProjectTemplate) : invited \in SUBSET T}
           : <<T, U>> \in Apart(S)}

ScenarioForSearches(c, S, p) ==
    LET made == NewProject(AddMembers(NewWorkspace(c, S), Workspace, S, {MemberRole}), c, p) IN
    UNION {AddMembers(made, p, T, {MemberRole}) : T \in SUBSET S}

ScenarioForRevoke(c, S, p) == ScenarioForSearches(c, S, p)

TestData(c, S, p) ==
    UNION {CreateStories(ProjectOf(WorkspaceOf(c, S \ T, T), c, p, S \ T, T), p, {c} \cup (S \ T)) :
             T \in SUBSET S}
      \cup CustomProjects(c, S, p) \cup ScenarioWithMembers(c, S, p)
      \cup ScenarioWithInvitees(c, S, p) \cup ScenarioWithEveryRole(c, S, p)
      \cup ScenarioWithInvitations(c, S, p) \cup ScenarioForSearches(c, S, p)
      \cup ScenarioForRevoke(c, S, p)

-----------------------------------------------------------------------------
Generated ==
    UNION {TestData(c, S, p) \cup DemoData(c, S, p) :
             <<c, S, p>> \in {t \in Users \X (SUBSET Users) \X Projects : t[1] \notin t[2]}}

\* sanity_check: no member is still invited, to the project or to the workspace, and
\* members of the project are members of the workspace.
SanityCheck(db) ==
    \A u \in Users :
        /\ \A x \in ReferenceObjects :
             db.member[x][u] # NoRole => ~IsPending(db.invitation[x][u])
        /\ \A p \in Projects :
             db.member[p][u] # NoRole => db.member[Workspace][u] # NoRole

\* Loading the sample data neither violates a constraint nor fails the check.
ASSUME SampleDataIsSane == \A db \in Generated : db.valid /\ SanityCheck(db)

\* The handlers start from nothing or from what was loaded.
SampleInit ==
    /\ published = {}
    /\ mailed = {}
    /\ \E db \in Generated \cup {NoRows} :
         /\ active = db.active
         /\ live = db.live
         /\ roles = db.roles
         /\ permissions = db.permissions
         /\ member = db.member
         /\ invitation = db.invitation
         /\ assignees = db.assignees

SampleSpec == SampleInit /\ [][EndpointsNext]_endpointVars
=============================================================================
