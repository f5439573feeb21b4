------------------------- MODULE MembershipRequests -------------------------
(***************************************************************************)
(* The handlers of Membership that change one membership, one invitation   *)
(* or one assignment, cut where the code awaits the database, and          *)
(* interleaved. The server is asynchronous, the transactions are READ      *)
(* COMMITTED and take no lock before they write: what a request has read   *)
(* may be stale when it writes.                                            *)
(*                                                                         *)
(* A request loads the row it is about (get_..._or_404), reads the role of *)
(* its author (check_permissions), reads what the service validates, and   *)
(* writes; the writes of a request are one transaction. A row is written   *)
(* with save(): an UPDATE of every column or, if the row is gone, an       *)
(* INSERT, which fails if another row took its place.                      *)
(***************************************************************************)
EXTENDS Membership

CONSTANTS
    Requests,   \* the requests that can be in progress at once
    Ops,        \* the operations they perform
    SoloOps,    \* those of them that nothing overlaps
    NoRequest

VARIABLE request \* what each request in progress has read

requestVars == <<request, vars>>

RowOps == {"update_member", "delete_member"}

InvitationOps == {"accept", "deny", "revoke", "update_invitation", "resend"}

ASSUME OpsAssumption ==
    SoloOps \subseteq Ops /\ Ops \subseteq RowOps \cup InvitationOps \cup {"assign"}

\* The new role, or the successor, that the request carries.
Arguments(op) ==
    IF op \in {"update_member", "update_invitation"} THEN Roles
    ELSE IF op = "delete_member" THEN Users \cup {NoUser}
    ELSE {NoRole}

\* The row (a role or an invitation) as loaded; whether it was deleted since;
\* the role of the author as checked; whether the only owner hands over, and
\* whether the membership of the successor was deleted since; whether no other
\* request was in progress meanwhile.
RequestOf(op) ==
    [op : {op}, step : {"authorise", "validate", "write"}, by : Users,
     x : Projects, u : Users, arg : Arguments(op),
     row : IF op \in RowOps THEN Roles
           ELSE IF op \in InvitationOps THEN Invitations ELSE {NoRole},
     gone : BOOLEAN,
     role : Roles \cup {NoRole}, succession : BOOLEAN, heirGone : BOOLEAN,
     alone : BOOLEAN]

RequestsTypeOK ==
    /\ TypeOK
    /\ DOMAIN request = Requests
    /\ \A r \in Requests :
         request[r] # NoRequest => \E op \in Ops : request[r] \in RequestOf(op)

-----------------------------------------------------------------------------
(* Reading.                                                                *)

InProgress == {r \in Requests : request[r] # NoRequest}

\* SoloOps is a bound of the exploration.
MayBegin(op) ==
    /\ op \in SoloOps => InProgress = {}
    /\ \A r \in InProgress : request[r].op \notin SoloOps

\* A request begins; the others have company.
Begin(r, req) ==
    /\ request[r] = NoRequest
    /\ MayBegin(req.op)
    /\ request' = [q \in Requests |->
         IF q = r THEN req
         ELSE IF q \in InProgress THEN [request[q] EXCEPT !.alone = FALSE] ELSE NoRequest]
    /\ UNCHANGED vars

Finish(r) == request' = [request EXCEPT ![r] = NoRequest]

Read(r, req) == request' = [request EXCEPT ![r] = req] /\ UNCHANGED vars

Row(op, x, u) ==
    IF op \in RowOps THEN member[x][u]
    ELSE IF op \in InvitationOps THEN invitation[x][u] ELSE NoRole

\* get_project_membership_or_404, get_project_invitation_or_404, ...
Load(r, op, by, x, u, arg) ==
    /\ op \in RowOps => IsMember(u, x)
    /\ op \in InvitationOps => HasInvitation(u, x)
    /\ op \in {"accept", "deny"} => by = u
    /\ Begin(r, [op |-> op, step |-> "authorise", by |-> by, x |-> x, u |-> u,
                arg |-> arg, row |-> Row(op, x, u), gone |-> FALSE,
                 role |-> NoRole, succession |-> FALSE, heirGone |-> FALSE,
                 alone |-> InProgress = {}])

MayModifyOwner(req) ==
    \/ IsOwner(req.by, req.x)
    \/ (IF req.op \in RowOps THEN req.row ELSE req.row.role) # Owner

Authorised(req) ==
    CASE req.op = "update_member" ->
           HasPermission(req.by, req.x, "create_modify_member") /\ MayModifyOwner(req)
      [] req.op = "delete_member" ->
           \/ HasPermission(req.by, req.x, "delete_member") /\ MayModifyOwner(req)
           \/ req.by = req.u
      [] req.op \in {"revoke", "update_invitation"} ->
           HasPermission(req.by, req.x, "create_modify_member") /\ MayModifyOwner(req)
      [] req.op = "resend" -> HasPermission(req.by, req.x, "create_modify_member")
      [] req.op = "assign" -> HasPermission(req.by, req.x, "modify_story")
      [] OTHER -> req.by \in active

\* check_permissions leaves the role it read on the user of the request.
Authorise(r) ==
    LET req == request[r] IN
    /\ req # NoRequest /\ req.step = "authorise"
    /\ IF Authorised(req)
       THEN Read(r, [req EXCEPT !.step = "validate", !.role = member[req.x][req.by]])
       ELSE Finish(r) /\ UNCHANGED vars

MutantOnlyOwnerAsRead(req) ==
    req.row = Owner /\ \A v \in Users : ~IsOwner(v, req.x)

\* is_membership_the_only_owner: the role as loaded, the other owners as they
\* are now.
OnlyOwnerAsRead(req) ==
    req.row = Owner /\ \A v \in Users \ {req.u} : ~IsOwner(v, req.x)

Valid(req) ==
    CASE req.op = "update_member" ->
           /\ req.arg \in roles[req.x]
           /\ IF req.arg = Owner THEN req.role = Owner ELSE ~OnlyOwnerAsRead(req)
      [] req.op = "delete_member" ->
           OnlyOwnerAsRead(req) =>
             /\ req.arg \in Users \ {req.by}
             /\ IsMember(req.arg, req.x)
             /\ req.role = Owner
      [] req.op = "update_invitation" ->
           /\ req.row.status = "pending"
           /\ req.arg \in roles[req.x]
           /\ req.arg = Owner => req.role = Owner
      [] req.op \in {"accept", "deny"} -> req.row.status = "pending" /\ req.row.linked
      [] req.op \in {"revoke", "resend"} -> req.row.status = "pending"
      [] OTHER -> /\ IsMember(req.u, req.x)
                  /\ "view_story" \in permissions[req.x][member[req.x][req.u]]

Validate(r) ==
    LET req == request[r] IN
    /\ req # NoRequest /\ req.step = "validate"
    /\ IF Valid(req)
       THEN Read(r, [req EXCEPT !.step = "write", !.succession =
                       req.op = "delete_member" /\ OnlyOwnerAsRead(req)])
       ELSE Finish(r) /\ UNCHANGED vars

-----------------------------------------------------------------------------
(* Writing. The database refuses a row whose role is gone, or that would be *)
(* the second of a user or of an email address.                            *)

Writing(r, op) == request[r] # NoRequest /\ request[r].step = "write"
                    /\ request[r].op = op

CanSaveMembership(req, role) ==
    role \in roles[req.x] /\ (req.gone => ~IsMember(req.u, req.x))

CanSaveInvitation(req, inv) ==
    inv.role \in roles[req.x] /\ (req.gone => ~HasInvitation(req.u, req.x))

\* The rows of u in x are removed from under the requests that hold them.
FinishRemoving(r, x, u) ==
    request' = [q \in Requests |->
       IF q = r \/ request[q] = NoRequest THEN [request EXCEPT ![r] = NoRequest][q]
       ELSE [request[q] EXCEPT
               !.gone = @ \/ (request[q].x = x /\ request[q].u = u
                                 /\ request[q].row # NoRole),
               !.heirGone = @ \/ (request[q].x = x /\ request[q].arg = u
                                     /\ request[q].succession)]]

WriteRole(r) ==
    LET req == request[r] IN
    /\ Writing(r, "update_member")
    /\ Finish(r)
    /\ member' = IF CanSaveMembership(req, req.arg)
                 THEN [member EXCEPT ![req.x][req.u] = req.arg] ELSE member
    /\ UNCHANGED <<active, live, roles, permissions, invitation, assignees>>

\* The successor becomes owner even if there is no membership left to delete.
WriteDeletion(r) ==
    LET req == request[r]
        promoted == IF req.succession
                    THEN [member EXCEPT ![req.x][req.arg] = Owner] ELSE member
    IN
    /\ Writing(r, "delete_member")
    /\ UNCHANGED <<active, live, roles, permissions>>
    /\ IF req.heirGone /\ IsMember(req.arg, req.x)
       THEN Finish(r) /\ UNCHANGED <<member, invitation, assignees>>
       ELSE IF req.gone
       THEN member' = promoted /\ Finish(r) /\ UNCHANGED <<invitation, assignees>>
       ELSE /\ member' = [promoted EXCEPT ![req.x][req.u] = NoRole]
            /\ assignees' = [assignees EXCEPT ![req.x] = AssigneesWithout(req.x, req.u)]
            /\ invitation' = [invitation EXCEPT ![req.x] = InvitationsWithout(req.x, req.u)]
            /\ FinishRemoving(r, req.x, req.u)

\* The row is written as it was loaded, with the new status or role.
Answered(req) ==
    CASE req.op = "revoke" -> [req.row EXCEPT !.status = "revoked"]
      [] req.op = "deny" -> [req.row EXCEPT !.status = "denied"]
      [] req.op = "accept" -> [req.row EXCEPT !.status = "accepted"]
      [] req.op = "update_invitation" -> [req.row EXCEPT !.role = req.arg]
      [] OTHER -> req.row

WriteInvitation(r) ==
    LET req == request[r] IN
    /\ \E op \in InvitationOps \ {"accept"} : Writing(r, op)
    /\ Finish(r)
    /\ invitation' = IF CanSaveInvitation(req, Answered(req))
                     THEN [invitation EXCEPT ![req.x][req.u] = Answered(req)]
                     ELSE invitation
    /\ UNCHANGED <<active, live, roles, permissions, member, assignees>>

\* One transaction: the workspace membership, the invitation, the membership.
WriteAcceptance(r) ==
    LET req == request[r]
        inv == [invitation EXCEPT ![req.x][req.u] = req.row]
    IN
    /\ Writing(r, "accept")
    /\ Finish(r)
    /\ IF CanSaveInvitation(req, req.row) /\ ~IsMember(req.u, req.x)
       THEN /\ member' = MemberOnAccept(inv, req.x, req.u)
            /\ invitation' = InvitationOnAccept(inv, req.x, req.u)
       ELSE UNCHANGED <<member, invitation>>
    /\ UNCHANGED <<active, live, roles, permissions, assignees>>

WriteAssignment(r) ==
    LET req == request[r] IN
    /\ Writing(r, "assign")
    /\ Finish(r)
    /\ assignees' = [assignees EXCEPT ![req.x] = @ \cup {req.u}]
    /\ UNCHANGED <<active, live, roles, permissions, member, invitation>>

-----------------------------------------------------------------------------

\* Any people may be members, as long as someone owns each; the others may be
\* invited. The states are some of those Membership reaches.
RequestsInit ==
    /\ active = Users
    /\ live = ReferenceObjects
    /\ roles = [x \in ReferenceObjects |->
         IF x = Workspace THEN DOMAIN WorkspaceRoles ELSE DOMAIN ProjectTemplate]
    /\ permissions = [x \in ReferenceObjects |->
         DefaultPermissions(IF x = Workspace THEN WorkspaceRoles ELSE ProjectTemplate)]
    /\ \E team \in [Projects -> [Users -> {NoRole} \cup DOMAIN ProjectTemplate]] :
         member = [x \in ReferenceObjects |->
           IF x = Workspace
           THEN [u \in Users |-> IF \E p \in Projects : team[p][u] # NoRole
                                THEN Owner ELSE NoRole]
           ELSE team[x]]
    /\ HasOwner
    /\ \E invited \in [Projects -> [Users -> {NoRole} \cup DOMAIN ProjectTemplate]] :
         /\ \A p \in Projects, u \in Users : IsMember(u, p) => invited[p][u] = NoRole
         /\ invitation = [x \in ReferenceObjects |-> [u \in Users |->
              IF x = Workspace THEN NoInvitation
              ELSE IF invited[x][u] = NoRole THEN NoInvitation
              ELSE [status |-> "pending", role |-> invited[x][u], linked |-> TRUE]]]
    /\ assignees = [p \in Projects |-> {}]
    /\ request = [r \in Requests |-> NoRequest]

RequestStep(r) ==
    \/ Authorise(r)
    \/ Validate(r)
    \/ WriteRole(r)
    \/ WriteDeletion(r)
    \/ WriteInvitation(r)
    \/ WriteAcceptance(r)
    \/ WriteAssignment(r)

RequestsNext ==
    \E r \in Requests :
        \/ \E op \in Ops, by, u \in Users, x \in Projects :
             \E arg \in Arguments(op) : Load(r, op, by, x, u, arg)
        \/ RequestStep(r)

\* What Membership promises of a request that nothing overlaps: its queries put
\* together are the handler.
SerialSteps ==
    [][(\A r \in InProgress : request'[r] = NoRequest => request[r].alone) => Next]_vars

RequestsSpec == RequestsInit /\ [][RequestsNext]_requestVars
=============================================================================
