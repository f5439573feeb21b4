----------------------------- MODULE Importation -----------------------------
(***************************************************************************)
(* The import of a Taiga project (import_export): the row that tells how   *)
(* far it is, the background task that creates the project and its stories *)
(* batch by batch, the invitations that carry to former members what was   *)
(* theirs, and the requests that delete the import or the project          *)
(* meanwhile. A request reads its row first and acts on what it read.      *)
(*                                                                         *)
(* People are their addresses in lower case, which is how an invitation is *)
(* made (create_invitations); the file, and the row that is kept of it,    *)
(* have addresses as they were written.                                    *)
(***************************************************************************)
EXTENDS References, Functions

CONSTANTS
    People,    \* those who may be invited, but who imports the file
    Addresses, \* those the file may name: others are not in lower case
    Files,     \* what the file may be: its people, and whether it has a kanban
    FileSize,  \* the stories of the file with a status: others are skipped
    Related,   \* whom each of them names, as author or assignee
    Assigned,  \* to which of the people it is assigned
    BulkSize,  \* _IMPORTATION_BULK_SIZE
    Requests,  \* the requests that may overlap
    Nothing

File == 1..FileSize

ASSUME ImportationAssumption ==
    /\ FileSize \in Nat /\ File \subseteq Stories
    /\ BulkSize \in Nat \ {0}
    /\ Files \subseteq [people : SUBSET Addresses, kanban : BOOLEAN]
    /\ Related \in [File -> SUBSET Addresses]
    /\ Assigned \in [File -> SUBSET People]

VARIABLES
    importation, \* the row of ProjectImportation
    project,     \* the project that is imported
    task,        \* the job import_taiga_project and what it has in memory
    aborted,     \* the job was asked to stop
    request,     \* what each request has read
    invitation,  \* the invitations to the project, with pending_related_data
    syncs,       \* the jobs sync_importation_pending_objects
    found,       \* the stories to assign that each of them has found
    credited,    \* the stories that are attributed to each
    broken,      \* history: the job ended with no say on the status
    lost         \* history: whose data was written over or deleted, or not synced

vars == <<referenceVars, importation, project, task, aborted, request, invitation,
          syncs, found, credited, broken, lost>>

Statuses == {"pending", "ongoing", "action needed", "success", "failure"}

\* pending_invites, from those that are still to be invited.
Invites == UNION {[P -> SUBSET File] : P \in SUBSET Addresses}

NoInvites == [p \in {} |-> {}]

Importation == [status : Statuses, linked : BOOLEAN, pending : Invites]

Steps == {"none", "queued", "invalid", "valid", "creating", "linking", "users", "stories",
          "closing", "rewriting", "ended"}

\* last is 0 when the file has no kanban, next the first story not created.
Task == [step : Steps, people : Invites, next : Nat, last : {0, FileSize}]

Request == [op : {"delete", "invite", "act"}, person : People \cup {Nothing},
            row : Importation \cup {Nothing}]

Invitation == [status : {"pending", "accepted"}, carries : SUBSET File]

ASSUME InvitationAssumption == Nothing \notin Invitation

TypeOK ==
    /\ ReferencesTypeOK
    /\ importation \in Importation \cup {Nothing}
    /\ project \in {"none", "there", "gone"}
    /\ task \in Task
    /\ aborted \in BOOLEAN
    /\ request \in [Requests -> Request \cup {Nothing}]
    /\ invitation \in [People -> Invitation \cup {Nothing}]
    /\ syncs \in [People -> SUBSET File]
    /\ found \in [People -> (SUBSET File) \cup {Nothing}]
    /\ credited \in [People -> SUBSET File]
    /\ broken \in BOOLEAN
    /\ lost \subseteq People

taskVars == <<importation, task, broken>>
syncVars == <<syncs, found, credited>>
userVars == <<request, invitation, syncVars, lost>>

Exists == importation # Nothing

-----------------------------------------------------------------------------
(* The job.                                                                *)

At(step) == task.step = step

Goto(step) == task' = [task EXCEPT !.step = step]

Running == task.step \notin {"none", "queued", "ended"}

\* update_project_importation, then the next step. The row may be gone, which
\* is a DatabaseError and ends the job.
Update(row, next) ==
    IF Exists THEN importation' = row /\ task' = next /\ UNCHANGED broken
    ELSE Goto("ended") /\ broken' = TRUE /\ UNCHANGED importation

\* import_project: the row and the job, in one transaction.
ImportProject ==
    /\ At("none")
    /\ importation' = [status |-> "pending", linked |-> FALSE, pending |-> NoInvites]
    /\ Goto("queued")
    /\ UNCHANGED <<referenceVars, project, aborted, broken, userVars>>

\* import_taiga_project reads the row and the file, whose people are those of
\* its memberships and its owner, with nothing of theirs created yet.
ImportTaigaProject ==
    /\ At("queued")
    /\ UNCHANGED <<referenceVars, importation, project, aborted, userVars>>
    /\ \/ ~Exists /\ Goto("ended") /\ broken' = TRUE
       \/ /\ Exists
          /\ UNCHANGED broken
          /\ \/ Goto("invalid")
             \/ \E file \in Files :
                  task' = [step |-> "valid", people |-> [a \in file.people |-> {}], next |-> 1,
                           last |-> IF file.kanban THEN FileSize ELSE 0]

MutantRejectFile ==
    /\ At("invalid")
    /\ Goto("ended")
    /\ UNCHANGED <<referenceVars, importation, project, aborted, broken, userVars>>

RejectFile ==
    /\ At("invalid")
    /\ Update([importation EXCEPT !.status = "failure"], [task EXCEPT !.step = "ended"])
    /\ UNCHANGED <<referenceVars, project, aborted, userVars>>

Start ==
    /\ At("valid")
    /\ Update([importation EXCEPT !.status = "ongoing"], [task EXCEPT !.step = "creating"])
    /\ UNCHANGED <<referenceVars, project, aborted, userVars>>

\* _create_project, with roles, workflows, statuses and its creator as owner.
CreateProject ==
    /\ At("creating")
    /\ project' = "there"
    /\ CreateSequence
    /\ Goto("linking")
    /\ UNCHANGED <<refs, drawn, importation, aborted, broken, userVars>>

Break ==
    /\ Goto("ended")
    /\ broken' = TRUE
    /\ UNCHANGED importation

LinkProject ==
    /\ At("linking")
    /\ IF project = "there"
       THEN Update([importation EXCEPT !.linked = TRUE], [task EXCEPT !.step = "users"])
       ELSE Break
    /\ UNCHANGED <<referenceVars, project, aborted, userVars>>

\* do_import_taiga_users; a file without kanban has no stories to import.
ImportUsers ==
    /\ At("users")
    /\ Update([importation EXCEPT !.pending = task.people],
              [task EXCEPT !.step = IF task.last = 0 THEN "closing" ELSE "stories"])
    /\ UNCHANGED <<referenceVars, project, aborted, userVars>>

BatchEnd == IF task.next + BulkSize > task.last THEN task.last ELSE task.next + BulkSize - 1

\* Whether the author of the story, of a comment or of an attachment of it, or
\* one of its assignees, has this address.
Names(s, a) == a \in Related[s]

\* What the batch adds to the pending invites; an address the file names but
\* does not list among its people is ignored.
WithBatch(people, batch) ==
    [a \in DOMAIN people |-> people[a] \cup {s \in batch : Names(s, a)}]

\* bulk_create_all, one transaction: the references are drawn even if it fails
\* because the project is gone.
BulkCreateAll ==
    /\ At("stories")
    /\ task.next <= task.last
    /\ NextValues(task.next, BatchEnd)
    /\ IF project = "there"
       THEN /\ InsertStories(task.next, BatchEnd)
            /\ task' = [task EXCEPT !.people = WithBatch(@, task.next..BatchEnd),
                                    !.next = BatchEnd + 1]
            /\ UNCHANGED <<importation, broken>>
       ELSE Break /\ UNCHANGED refs
    /\ UNCHANGED <<project, aborted, userVars>>

\* Every 5 %, and at the end: the pending invites as the job knows them.
SaveProgress ==
    /\ At("stories")
    /\ task.next > 1
    /\ Update([importation EXCEPT !.pending = task.people],
              [task EXCEPT !.step = IF task.next > task.last THEN "closing" ELSE @])
    /\ UNCHANGED <<referenceVars, project, aborted, userVars>>

\* close_importation: the status, then the events and the file, which is written
\* again. An import of stories is closed once nothing can fail it any more; one
\* without, while an error still does.
CloseImportation ==
    /\ At("closing")
    /\ Update([importation EXCEPT
                 !.status = IF DOMAIN task.people # {} THEN "action needed" ELSE "success"],
              [task EXCEPT !.step = IF task.last = 0 THEN "rewriting" ELSE "ended"])
    /\ UNCHANGED <<referenceVars, project, aborted, userVars>>

RewriteFile ==
    /\ At("rewriting")
    /\ Goto("ended")
    /\ UNCHANGED <<referenceVars, importation, broken, project, aborted, userVars>>

MayFail ==
    \/ task.step \in {"creating", "linking", "users", "stories", "rewriting"}
    \/ At("closing") /\ task.last = 0

MutantFail ==
    /\ MayFail
    /\ Update([importation EXCEPT !.status = "failure"], [task EXCEPT !.step = "closing"])
    /\ UNCHANGED <<referenceVars, project, aborted, userVars>>

\* Any exception but those a retry could get past.
Fail ==
    /\ MayFail
    /\ Update([importation EXCEPT !.status = "failure"], [task EXCEPT !.step = "ended"])
    /\ UNCHANGED <<referenceVars, project, aborted, userVars>>

\* "those are the errors where a retry of the job should be attempted": none is.
\* Or the worker stops.
FailWithoutRetry ==
    /\ Running
    /\ Break
    /\ UNCHANGED <<referenceVars, project, aborted, userVars>>

\* The job is cancelled where it awaits.
Abort ==
    /\ Running /\ aborted
    /\ Break
    /\ UNCHANGED <<referenceVars, project, aborted, userVars>>

-----------------------------------------------------------------------------
(* The requests about the import and its project.                          *)

Free(r) == request[r] = Nothing

Finish(r) == request' = [request EXCEPT ![r] = Nothing]

Read(r, op, p, row) ==
    /\ Free(r)
    /\ request' = [request EXCEPT ![r] = [op |-> op, person |-> p, row |-> row]]
    /\ UNCHANGED <<referenceVars, taskVars, project, aborted, invitation, syncVars, lost>>

\* The project and its import, if they are linked, as get_project reads them.
Linked == IF Exists /\ importation.linked THEN importation ELSE Nothing

\* What a deletion goes by is the status, and whether a project is linked.
ReadDeletion(r) ==
    Exists /\ Read(r, "delete", Nothing, [importation EXCEPT !.pending = NoInvites])

\* create_project_invitations, one person at a time.
ReadInvitation(r, p) == project = "there" /\ Read(r, "invite", p, Linked)

\* handle_project_importation_pending_invites, with or without an invitation.
ReadAction(r, p) ==
    /\ Exists /\ importation.status = "action needed"
    /\ Read(r, "act", p, importation)

\* The project with all that is in it, its import included.
DropProject ==
    /\ project' = "gone"
    /\ DropSequence
    /\ importation' = IF Exists /\ importation.linked THEN Nothing ELSE importation
    /\ invitation' = [p \in People |-> Nothing]

KeepProject == UNCHANGED <<referenceVars, project, invitation>>

\* cancel_project_importation: a job that did not start never will.
Cancel ==
    /\ aborted' = (task.step \notin {"queued", "ended"})
    /\ IF At("queued") THEN Goto("ended") ELSE UNCHANGED task

\* delete_project_importation goes by the row as it was read: the project that
\* has been linked to it since then stays.
DeleteImportation(r) ==
    LET row == request[r].row IN
    /\ ~Free(r) /\ request[r].op = "delete"
    /\ Finish(r)
    /\ UNCHANGED <<syncVars, broken, lost>>
    /\ IF row.status \in {"failure", "pending", "ongoing"}
       THEN /\ IF row.status # "failure" THEN Cancel ELSE UNCHANGED <<task, aborted>>
            /\ IF row.linked /\ project = "there" THEN DropProject
               ELSE importation' = Nothing /\ KeepProject
       ELSE UNCHANGED <<task, aborted, importation>> /\ KeepProject

\* pending_invites.pop(email, {}): a new invitation takes what the import holds
\* for the address of the person, in lower case as it is there.
MutantCarried(row, p) == {}

Carried(row, p) == IF row # Nothing /\ p \in DOMAIN row.pending THEN row.pending[p] ELSE {}

\* The whole of pending_invites is written back, as it was read.
WithoutPerson(row, p) == [q \in DOMAIN row.pending \ {p} |-> row.pending[q]]

HasEnded(row) == row.status \in {"action needed", "success"}

\* create_invitations, for who is no member: data goes with an invitation only
\* when it is the first. The project is still there, and the import if it was.
\* An action ends by the success of the import.
Invite(r) ==
    LET row == request[r].row
        p == request[r].person
        isNew == p # Nothing /\ invitation[p] = Nothing
    IN
    /\ ~Free(r) /\ request[r].op \in {"invite", "act"}
    /\ project = "there"
    /\ row # Nothing => Exists
    /\ p # Nothing /\ ~isNew => invitation[p].status = "pending"
    /\ Finish(r)
    /\ invitation' = IF isNew THEN [invitation EXCEPT ![p] =
                                      [status |-> "pending", carries |-> Carried(row, p)]]
                     ELSE invitation
    /\ importation' = IF row = Nothing THEN importation
                      ELSE [importation EXCEPT
                              !.pending = IF p = Nothing THEN @
                                          ELSE IF isNew THEN WithoutPerson(row, p) ELSE row.pending,
                              !.status = IF request[r].op = "act" THEN "success" ELSE @]
    /\ lost' = IF row # Nothing /\ HasEnded(row) THEN lost
               ELSE IF row # Nothing THEN People
               ELSE IF isNew THEN lost \cup {p} ELSE lost
    /\ UNCHANGED <<referenceVars, project, task, aborted, broken, syncVars>>

\* An error, or the connection is lost: whatever it wrote is rolled back.
Refuse(r) ==
    /\ ~Free(r)
    /\ Finish(r)
    /\ UNCHANGED <<referenceVars, taskVars, project, aborted, invitation, syncVars, lost>>

\* accept_project_invitation
AcceptInvitation(p) ==
    /\ invitation[p] # Nothing /\ invitation[p].status = "pending"
    /\ invitation' = [invitation EXCEPT ![p].status = "accepted"]
    /\ syncs' = [syncs EXCEPT ![p] = invitation[p].carries]
    /\ UNCHANGED <<referenceVars, taskVars, project, aborted, request, found, credited, lost>>

\* Who was invited and is put out of the workspace with other projects of theirs,
\* or deletes their account, loses the invitation with what it carries
\* (_delete_inner_projects_membership, delete_user). The membership of who
\* accepted is not followed any further.
DeletePendingInvitation(p) ==
    /\ invitation[p] # Nothing /\ invitation[p].status = "pending"
    /\ invitation' = [invitation EXCEPT ![p] = Nothing]
    /\ lost' = IF invitation[p].carries = {} THEN lost ELSE lost \cup {p}
    /\ UNCHANGED <<referenceVars, taskVars, project, aborted, request, syncVars>>

\* sync_pending_objects, one transaction: the stories to assign that still exist
\* are read first.
FindPendingObjects(p) ==
    /\ syncs[p] # {} /\ found[p] = Nothing
    /\ found' = [found EXCEPT ![p] = {s \in syncs[p] \cap Rows : p \in Assigned[s]}]
    /\ UNCHANGED <<referenceVars, taskVars, project, aborted, request, invitation, syncs,
                   credited, lost>>

\* They are assigned, and what was written is attributed; one of them that has
\* been deleted in the meantime is refused by its foreign key.
SyncPendingObjects(p) ==
    /\ found[p] # Nothing /\ found[p] \subseteq Rows
    /\ syncs' = [syncs EXCEPT ![p] = {}]
    /\ found' = [found EXCEPT ![p] = Nothing]
    /\ credited' = [credited EXCEPT ![p] = @ \cup (syncs[p] \cap Rows)]
    /\ UNCHANGED <<referenceVars, taskVars, project, aborted, request, invitation, lost>>

\* Then, or if the account is gone or the worker stops, nothing is done, and
\* nobody tries again.
FailToSync(p) ==
    /\ found[p] # Nothing
    /\ syncs' = [syncs EXCEPT ![p] = {}]
    /\ found' = [found EXCEPT ![p] = Nothing]
    /\ lost' = lost \cup {p}
    /\ UNCHANGED <<referenceVars, taskVars, project, aborted, request, invitation, credited>>

DeleteProject ==
    /\ project = "there"
    /\ DropProject
    /\ UNCHANGED <<task, aborted, request, syncVars, broken, lost>>

DeleteStory(s) ==
    /\ s \in Rows
    /\ refs' = [refs EXCEPT ![s] = NoRef]
    /\ UNCHANGED <<sequence, drawn, taskVars, project, aborted, userVars>>

\* Someone creates a story: the reference comes first, and then the row, if the
\* project is still there.
BeginStory(s) ==
    /\ project # "none"
    /\ DrawReference(s)
    /\ UNCHANGED <<taskVars, project, aborted, userVars>>

EndStory(s) ==
    /\ IF project = "there" THEN InsertStory(s)
       ELSE /\ drawn[s] # NoRef
            /\ drawn' = [drawn EXCEPT ![s] = NoRef]
            /\ UNCHANGED <<sequence, refs>>
    /\ UNCHANGED <<taskVars, project, aborted, userVars>>

-----------------------------------------------------------------------------

Init ==
    /\ ReferencesInit
    /\ importation = Nothing
    /\ project = "none"
    /\ task = [step |-> "none", people |-> NoInvites, next |-> 1, last |-> 0]
    /\ aborted = FALSE
    /\ request = [r \in Requests |-> Nothing]
    /\ invitation = [p \in People |-> Nothing]
    /\ syncs = [p \in People |-> {}]
    /\ found = [p \in People |-> Nothing]
    /\ credited = [p \in People |-> {}]
    /\ broken = FALSE
    /\ lost = {}

TaskStep ==
    \/ ImportTaigaProject \/ RejectFile \/ Start \/ CreateProject \/ LinkProject
    \/ ImportUsers \/ BulkCreateAll \/ CloseImportation \/ RewriteFile
    \/ SaveProgress /\ task.next > task.last

RequestStep(r) ==
    \/ ReadDeletion(r) \/ DeleteImportation(r)
    \/ \E p \in People : ReadInvitation(r, p)
    \/ \E p \in People \cup {Nothing} : ReadAction(r, p)
    \/ Invite(r)
    \/ Refuse(r)

InvitationStep(p) == AcceptInvitation(p) \/ DeletePendingInvitation(p)

SyncStep(p) == FindPendingObjects(p) \/ SyncPendingObjects(p) \/ FailToSync(p)

StoryStep ==
    \/ \E s \in Stories \ File : BeginStory(s) \/ EndStory(s)
    \/ \E s \in Stories : DeleteStory(s)

Next ==
    \/ ImportProject
    \/ TaskStep \/ SaveProgress \/ Fail \/ FailWithoutRetry \/ Abort
    \/ \E r \in Requests : RequestStep(r)
    \/ \E p \in People : InvitationStep(p) \/ SyncStep(p)
    \/ DeleteProject
    \/ StoryStep

\* The worker runs the jobs and their queries end; nobody has to ask anything.
Fairness == WF_vars(TaskStep) /\ \A p \in People : WF_vars(SyncStep(p))

Spec == Init /\ [][Next]_vars /\ Fairness

-----------------------------------------------------------------------------
(* Properties.                                                             *)

\* An import that says it is over has created all the stories of its file that
\* have a status, in a project that exists and is its own.
FinishedImportsAreComplete ==
    Exists /\ HasEnded(importation) =>
        importation.linked /\ project = "there" /\ task.next > task.last

\* An import ends, one way or another, unless its job fails in a way that a
\* retry could get past, for none is made.
ImportsEnd ==
    (Exists /\ importation.status \in {"pending", "ongoing"})
      ~> (~Exists \/ importation.status \notin {"pending", "ongoing"} \/ broken)

\* What the file says of a person, among the stories there are.
Theirs(p) == IF p \in DOMAIN task.people THEN task.people[p] \cap Rows ELSE {}

\* Who accepts an invitation is credited with all that was theirs, under the
\* address in lower case, however requests overlap, unless an invitation was made
\* while the import ran (it has what was known then, and writes it over what is
\* known since), or an invitation with what was theirs was deleted, or the job
\* that credits it failed: what an invitation took nobody has any more.
InviteesAreCredited ==
    \A p \in People :
        (invitation[p] # Nothing /\ invitation[p].status = "accepted")
          ~> (Theirs(p) \subseteq credited[p] \/ p \in lost \/ project # "there")
=============================================================================
