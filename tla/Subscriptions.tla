--------------------------- MODULE Subscriptions ---------------------------
(***************************************************************************)
(* Who receives the events of a project and of its workspace (events/).    *)
(* An EventConsumer handles the messages of one websocket in turn; it      *)
(* checks a permission and subscribes in two steps. A request that changes *)
(* who can see what publishes an event after its commit, once per channel, *)
(* on the channels its event handler names; the web client answers with    *)
(* the check_..._subscription commands. The client is not in the           *)
(* repository: here it checks what it subscribed to at each event.         *)
(***************************************************************************)
EXTENDS FiniteSets

CONSTANTS
    Users,        \* accounts; whoever else owns the project is left out
    Guests,       \* bound: those who are ever invited or deleted
    Connections,  \* websockets
    Anonymous,    \* AnonymousUser
    Idle

ASSUME GuestsAssumption == Guests \subseteq Users

Places == {"project", "workspace"}

\* user_channel, project_channel, workspace_channel
Channels == Users \cup Places

VARIABLES
    accounts,   \* the users that have not been deleted
    exists,     \* whether the project and its workspace still do
    access,     \* a membership, a pending invitation or nothing
    connection, \* the consumers
    outbox,     \* the channels on which an event is still to be published
    inbox,      \* the connections an event is on its way to
    asked,      \* the checks each client has sent
    unnoticed,  \* history: who may have lost an access with no event on their channel
    switched    \* history: connections that changed user without signing out

vars == <<accounts, exists, access, connection, outbox, inbox, asked, unnoticed, switched>>
data == <<accounts, exists, access, outbox, unnoticed>>

\* task: what is between a permission check and the change that follows it.
Tasks == [kind : {"join", "leave"}, place : Places]

\* No channel of a user is that of a place, and nobody is anonymous.
ASSUME ChannelsAssumption ==
    /\ Users \cap Places = {}
    /\ Anonymous \notin Users
    /\ Idle \notin Tasks

Connection ==
    [user : Users \cup {Anonymous}, groups : SUBSET Channels, task : Tasks \cup {Idle}]

TypeOK ==
    /\ accounts \subseteq Users
    /\ exists \in [Places -> BOOLEAN]
    /\ access \in [Users -> [Places -> {"none", "invited", "member"}]]
    /\ connection \in [Connections -> Connection]
    /\ \A c \in Connections : connection[c].user = Anonymous => connection[c].groups = {}
    /\ outbox \subseteq Channels
    /\ inbox \subseteq Connections
    /\ asked \in [Connections -> SUBSET Places]
    /\ unnoticed \subseteq Users
    /\ switched \subseteq Connections

-----------------------------------------------------------------------------
(* Permissions.                                                            *)

\* ProjectPermissionsCheck.VIEW
CanViewProject(u) == access[u]["project"] # "none"

\* WorkspacePermissionsCheck.VIEW: also HasPendingInnerProjectsInvitation.
CanViewWorkspace(u) ==
    access[u]["workspace"] # "none" \/ access[u]["project"] = "invited"

CanView(u, p) ==
    /\ exists[p]
    /\ u # Anonymous
    /\ IF p = "project" THEN CanViewProject(u) ELSE CanViewWorkspace(u)

-----------------------------------------------------------------------------
(* The commands of a websocket (events/actions.py).                        *)

IsIdle(c) == connection[c].task = Idle

\* A new socket, or the end of one.
NoConnection == [user |-> Anonymous, groups |-> {}, task |-> Idle]

Becomes(c, user, groups, task) ==
    connection' =
      [connection EXCEPT ![c] = [user |-> user, groups |-> groups, task |-> task]]

\* signin: the channel of the user is added to those there are.
SignIn(c, u) ==
    /\ IsIdle(c)
    /\ u \in accounts
    /\ Becomes(c, u, connection[c].groups \cup {u}, Idle)
    /\ switched' = IF connection[c].user \in {u, Anonymous} THEN switched ELSE switched \cup {c}
    /\ UNCHANGED <<data, inbox, asked>>

\* signout, or disconnect: every channel is left.
SignOut(c) ==
    /\ IsIdle(c)
    /\ connection[c].user # Anonymous
    /\ Becomes(c, Anonymous, {}, Idle)
    /\ switched' = switched \ {c}
    /\ inbox' = inbox \ {c}
    /\ asked' = [asked EXCEPT ![c] = {}]
    /\ UNCHANGED data

\* subscribe_to_project_events, subscribe_to_workspace_events: the permission.
BeginSubscribe(c, p) ==
    /\ IsIdle(c)
    /\ CanView(connection[c].user, p)
    /\ Becomes(c, connection[c].user, connection[c].groups, [kind |-> "join", place |-> p])
    /\ UNCHANGED <<data, inbox, asked, switched>>

\* EventConsumer.subscribe
EndSubscribe(c, p) ==
    /\ connection[c].task = [kind |-> "join", place |-> p]
    /\ Becomes(c, connection[c].user, connection[c].groups \cup {p}, Idle)
    /\ UNCHANGED <<data, inbox, asked, switched>>

\* unsubscribe_from_project_events, unsubscribe_from_workspace_events
Unsubscribe(c, p) ==
    /\ IsIdle(c)
    /\ connection[c].user # Anonymous
    /\ p \in connection[c].groups
    /\ Becomes(c, connection[c].user, connection[c].groups \ {p}, Idle)
    /\ UNCHANGED <<data, inbox, asked, switched>>

\* unsubscribe_all_except_user_channel
UnsubscribeAll(c) ==
    /\ IsIdle(c)
    /\ Becomes(c, connection[c].user, connection[c].groups \cap {connection[c].user}, Idle)
    /\ UNCHANGED <<data, inbox, asked, switched>>

MutantBeginCheck(c, p) ==
    /\ IsIdle(c)
    /\ p \in asked[c]
    /\ connection[c].user \in accounts
    /\ asked' = [asked EXCEPT ![c] = @ \ {p}]
    /\ Becomes(c, connection[c].user, connection[c].groups,
               IF exists[p] /\ ~CanView(connection[c].user, p)
               THEN [kind |-> "leave", place |-> p] ELSE Idle)
    /\ UNCHANGED <<data, inbox, switched>>

\* check_project_events_subscription, check_workspace_events_subscription: what
\* does not exist is not unsubscribed from.
BeginCheck(c, p) ==
    /\ IsIdle(c)
    /\ p \in asked[c]
    /\ asked' = [asked EXCEPT ![c] = @ \ {p}]
    /\ Becomes(c, connection[c].user, connection[c].groups,
               IF exists[p] /\ ~CanView(connection[c].user, p)
               THEN [kind |-> "leave", place |-> p] ELSE Idle)
    /\ UNCHANGED <<data, inbox, switched>>

\* EventConsumer.unsubscribe
EndCheck(c, p) ==
    /\ connection[c].task = [kind |-> "leave", place |-> p]
    /\ Becomes(c, connection[c].user, connection[c].groups \ {p}, Idle)
    /\ UNCHANGED <<data, inbox, asked, switched>>

-----------------------------------------------------------------------------
(* Events.                                                                 *)

\* EventsManager.publish: those in the group now will be sent the event.
Publish(channel) ==
    /\ channel \in outbox
    /\ outbox' = outbox \ {channel}
    /\ inbox' = inbox \cup {c \in Connections : channel \in connection[c].groups}
    /\ UNCHANGED <<accounts, exists, access, connection, asked, unnoticed, switched>>

\* The channel layer cannot be reached: the error is caught.
Lose(channel) ==
    /\ channel \in outbox
    /\ outbox' = outbox \ {channel}
    /\ unnoticed' = unnoticed \cup (Users \cap {channel})
    /\ UNCHANGED <<accounts, exists, access, connection, inbox, asked, switched>>

\* emit_event, in its turn among the messages of the consumer, and the client.
Forward(c) ==
    /\ c \in inbox
    /\ IsIdle(c)
    /\ inbox' = inbox \ {c}
    /\ asked' = [asked EXCEPT ![c] = @ \cup (connection[c].groups \cap Places)]
    /\ UNCHANGED <<data, connection, switched>>

-----------------------------------------------------------------------------
(* The requests that change who can see what, with the channels their      *)
(* events go to.                                                           *)

Emit(channels) == outbox' = outbox \cup channels

rest == <<connection, inbox, asked, switched>>

\* create_..._invitations, or the update that makes an old invitation pending.
Invite(u, p) ==
    /\ exists[p]
    /\ u \in accounts \cap Guests
    /\ access[u][p] = "none"
    /\ access' = [access EXCEPT ![u][p] = "invited"]
    /\ Emit({u, p})
    /\ UNCHANGED <<accounts, exists, unnoticed, rest>>

\* emit_event_when_..._invitation_is_revoked and _is_denied
EndInvitation(u, p) ==
    /\ access[u][p] = "invited"
    /\ access' = [access EXCEPT ![u][p] = "none"]
    /\ Emit({u, p})
    /\ UNCHANGED <<accounts, exists, unnoticed, rest>>

AcceptWorkspaceInvitation(u) ==
    /\ access[u]["workspace"] = "invited"
    /\ access' = [access EXCEPT ![u]["workspace"] = "member"]
    /\ Emit({"workspace", u})
    /\ UNCHANGED <<accounts, exists, unnoticed, rest>>

\* accept_project_invitation makes a member of the workspace too.
AcceptProjectInvitation(u) ==
    /\ access[u]["project"] = "invited"
    /\ access' = [access EXCEPT ![u] = [p \in Places |-> "member"]]
    /\ Emit({"project", u} \cup IF access[u]["workspace"] = "member" THEN {} ELSE {"workspace"})
    /\ UNCHANGED <<accounts, exists, unnoticed, rest>>

MutantDeleteProjectMembership(u) ==
    /\ access[u]["project"] = "member"
    /\ access' = [access EXCEPT ![u]["project"] = "none"]
    /\ Emit({"project"})
    /\ UNCHANGED <<accounts, exists, unnoticed, rest>>

DeleteProjectMembership(u) ==
    /\ access[u]["project"] = "member"
    /\ access' = [access EXCEPT ![u]["project"] = "none"]
    /\ Emit({"project", u})
    /\ UNCHANGED <<accounts, exists, unnoticed, rest>>

\* _delete_inner_projects_membership: the project goes with its workspace, but
\* an invitation only when there was a membership to delete.
DeleteWorkspaceMembership(u) ==
    /\ access[u]["workspace"] = "member"
    /\ access' = [access EXCEPT ![u] =
         [p \in Places |-> IF access[u][p] = "member" THEN "none" ELSE access[u][p]]]
    /\ Emit({"workspace", u} \cup IF access[u]["project"] = "member" THEN {"project"} ELSE {})
    /\ UNCHANGED <<accounts, exists, unnoticed, rest>>

\* emit_event_when_project_is_deleted: nothing goes to who was invited ("TODO
\* handle pj-members and pj-invitees on homepage"), who may have seen the
\* workspace for that only.
DeleteProject ==
    /\ exists["project"]
    /\ exists' = [exists EXCEPT !["project"] = FALSE]
    /\ access' = [u \in Users |-> [p \in Places |-> IF p = "project" THEN "none" ELSE access[u][p]]]
    /\ Emit(Places)
    /\ unnoticed' = unnoticed \cup {u \in Users : access[u]["project"] = "invited"}
    /\ UNCHANGED <<accounts, rest>>

\* delete_workspace, when it has no project.
DeleteWorkspace ==
    /\ exists["workspace"]
    /\ ~exists["project"]
    /\ exists' = [exists EXCEPT !["workspace"] = FALSE]
    /\ access' = [u \in Users |-> [p \in Places |-> "none"]]
    /\ Emit({"workspace"})
    /\ UNCHANGED <<accounts, unnoticed, rest>>

\* delete_user: the event of an invitation goes to the place only, the last
\* event to the user.
DeleteUser(u) ==
    /\ u \in accounts \cap Guests
    /\ access' = [access EXCEPT ![u] = [p \in Places |-> "none"]]
    /\ Emit({u} \cup {p \in Places : access[u][p] # "none"})
    /\ accounts' = accounts \ {u}
    /\ UNCHANGED <<exists, unnoticed, rest>>

-----------------------------------------------------------------------------
Init ==
    /\ accounts = Users
    /\ exists = [p \in Places |-> TRUE]
    /\ access = [u \in Users |-> [p \in Places |-> "none"]]
    /\ connection = [c \in Connections |-> NoConnection]
    /\ outbox = {}
    /\ inbox = {}
    /\ asked = [c \in Connections |-> {}]
    /\ unnoticed = {}
    /\ switched = {}

Command(c) ==
    \/ \E u \in Users : SignIn(c, u)
    \/ SignOut(c) \/ UnsubscribeAll(c)
    \/ \E p \in Places : BeginSubscribe(c, p) \/ Unsubscribe(c, p) \/ BeginCheck(c, p)

ConsumerStep(c) ==
    \/ \E p \in Places : EndSubscribe(c, p) \/ EndCheck(c, p)
    \/ Forward(c)

Request ==
    \/ \E u \in Users, p \in Places : Invite(u, p) \/ EndInvitation(u, p)
    \/ \E u \in Users :
         \/ AcceptWorkspaceInvitation(u) \/ AcceptProjectInvitation(u)
         \/ DeleteProjectMembership(u) \/ DeleteWorkspaceMembership(u)
         \/ DeleteUser(u)
    \/ DeleteProject
    \/ DeleteWorkspace

Next ==
    \/ \E c \in Connections : Command(c) \/ ConsumerStep(c)
    \/ \E channel \in Channels : Publish(channel) \/ Lose(channel)
    \/ Request

\* The callbacks after a commit run, queries end, and the messages of a socket
\* are handled in turn, so that none waits for ever behind others.
Fairness ==
    /\ \A channel \in Channels : WF_vars(Publish(channel))
    /\ \A c \in Connections :
         /\ SF_vars(Forward(c))
         /\ \A p \in Places :
              /\ WF_vars(EndSubscribe(c, p))
              /\ WF_vars(EndCheck(c, p))
              /\ SF_vars(BeginCheck(c, p))

Spec == Init /\ [][Next]_vars /\ Fairness

-----------------------------------------------------------------------------
(* Properties.                                                             *)

\* The connection receives the events of what its user may no longer see.
IsStale(c, p) ==
    /\ p \in connection[c].groups
    /\ exists[p]
    /\ ~CanView(connection[c].user, p)

\* The limits of the code: an event that was lost or is not sent, and a socket
\* that changes user without signing out.
IsExcused(c) == c \in switched \/ connection[c].user \in unnoticed

EndIsComing(c, p) ==
    \/ connection[c].user \in outbox
    \/ c \in inbox
    \/ p \in asked[c]
    \/ connection[c].task = [kind |-> "leave", place |-> p]

\* Who still receives the events of what they can no longer see is about to be
\* told: no interleaving of the check of a permission, the subscription, the
\* requests that end the access and their events leaves a subscription behind.
StaleSubscriptionsAreKnown ==
    \A c \in Connections, p \in Places :
        IsStale(c, p) /\ ~IsExcused(c) => EndIsComing(c, p)

\* So such a subscription ends.
StaleSubscriptionsEnd ==
    \A c \in Connections, p \in Places :
        IsStale(c, p) ~> (~IsStale(c, p) \/ IsExcused(c))
=============================================================================
