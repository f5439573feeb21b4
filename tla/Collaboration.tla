--------------------------- MODULE Collaboration ---------------------------
(***************************************************************************)
(* The shared description of a story: one CollaborationConsumer            *)
(* (events/consumers.py) per connection, each with a document of its own,  *)
(* saved a while after its last change, on demand and on disconnection.    *)
(*                                                                         *)
(* A document is the set of those of some edits that it holds: the         *)
(* documents of pycrdt merge. A save writes the whole document over the    *)
(* one stored. A consumer handles one message at a time; its timer and its *)
(* writes go on aside, and outlive the connection. A write that is         *)
(* cancelled while a thread runs it may be made or not; the writes of a    *)
(* consumer are made in turn, and may fail.                                *)
(***************************************************************************)
EXTENDS FiniteSets

CONSTANTS
    Clients,   \* the browsers, each with at most one connection
    Edits,     \* the changes that are followed, each made once
    Author,    \* who makes each edit
    Nothing

ASSUME AuthorAssumption == Author \in [Edits -> Clients]

ASSUME NothingAssumption == \A edits \in SUBSET Edits : edits # Nothing

VARIABLES
    story,     \* whether the story exists
    stored,    \* its description_binary
    local,     \* the document of each browser
    made,      \* the edits made so far
    consumer,  \* the consumer of each browser
    kept,      \* history: the edits that were in the database at some time
    failed,    \* history: the edits of a write that failed and that nothing follows
    stopped    \* history: whether the server has ever stopped

vars == <<story, stored, local, made, consumer, kept, failed, stopped>>

Documents == SUBSET Edits

\* status: "loading" in make_ydoc, "busy" while a message waits for the database.
\* due: schedule_save is called soon. task: _save_task, and what it is at. again:
\* tells a sleep from the one it replaced. writing: what the task writes. forced:
\* what force_save writes. late: a write that was cancelled.
Consumer ==
    [status : {"loading", "open", "busy", "closing", "closed"},
     writer : BOOLEAN,
     doc : Documents,
     due : BOOLEAN,
     task : {"none", "sleeping", "saving", "failed"},
     again : BOOLEAN,
     writing : Documents \cup {Nothing},
     forced : Documents \cup {Nothing},
     late : Documents \cup {Nothing}]

TypeOK ==
    /\ story \in BOOLEAN
    /\ stored \in Documents
    /\ local \in [Clients -> Documents]
    /\ made \in Documents
    /\ consumer \in [Clients -> Consumer]
    /\ \A c \in Clients : (consumer[c].task = "saving") = (consumer[c].writing # Nothing)
    /\ kept \in Documents
    /\ failed \in Documents
    /\ stopped \in BOOLEAN

NoConsumer ==
    [status |-> "closed", writer |-> FALSE, doc |-> {}, due |-> FALSE, task |-> "none",
     again |-> FALSE, writing |-> Nothing, forced |-> Nothing, late |-> Nothing]

IsOpen(c) == consumer[c].status = "open"

\* A consumer is gone when it is closed and nothing of it goes on.
Ended(k) ==
    IF k.status = "closed" /\ ~k.due /\ k.task \in {"none", "failed"} /\ k.late = Nothing
    THEN NoConsumer
    ELSE k

-----------------------------------------------------------------------------
(* The connection.                                                         *)

\* connect, make_ydoc: the story is read, with its description as it is then.
Connect(c) ==
    /\ consumer[c] = NoConsumer
    /\ story
    /\ consumer' = [consumer EXCEPT ![c] = [@ EXCEPT !.status = "loading", !.doc = stored]]
    /\ UNCHANGED <<story, stored, local, made, kept, failed, stopped>>

\* check_permissions, after the story was read: whether the client can write is
\* decided now, once. The two then exchange what they have.
Admit(c, writer) ==
    /\ consumer[c].status = "loading"
    /\ consumer' = [consumer EXCEPT ![c].status = "open", ![c].writer = writer]
    /\ local' = [local EXCEPT ![c] = @ \cup consumer[c].doc]
    /\ UNCHANGED <<story, stored, made, kept, failed, stopped>>

\* Who cannot see the story is refused.
Refuse(c) ==
    /\ consumer[c].status = "loading"
    /\ consumer' = [consumer EXCEPT ![c] = NoConsumer]
    /\ UNCHANGED <<story, stored, local, made, kept, failed, stopped>>

Edit(e) ==
    /\ e \notin made
    /\ made' = made \cup {e}
    /\ local' = [local EXCEPT ![Author[e]] = @ \cup {e}]
    /\ UNCHANGED <<story, stored, consumer, kept, failed, stopped>>

\* receive: an update, or the answer to a synchronisation, of a client that can
\* write is applied to the document, and sent to the clients of the room. What
\* another consumer does with it is the library's: here it may take it too. Most
\* updates hold other changes than the edits followed here: clients type as long as
\* they like.
Receive(c, edits) ==
    /\ IsOpen(c)
    /\ consumer[c].writer
    /\ edits \subseteq local[c] \ consumer[c].doc
    /\ \E others \in SUBSET {d \in Clients \ {c} : IsOpen(d)} :
         consumer' = [d \in Clients |->
           IF d \in {c} \cup others
           THEN [consumer[d] EXCEPT !.doc = @ \cup edits, !.due = consumer[d].writer]
           ELSE consumer[d]]
    /\ local' = [d \in Clients |-> IF IsOpen(d) THEN local[d] \cup edits ELSE local[d]]
    /\ UNCHANGED <<story, stored, made, kept, failed, stopped>>

-----------------------------------------------------------------------------
(* Saving.                                                                 *)

\* task.cancel(): a sleep ends; of a write, only what a thread has begun goes on.
Cancelled(k) ==
    [k EXCEPT !.task = "none", !.again = FALSE, !.writing = Nothing,
              !.late = IF k.late = Nothing /\ k.forced = Nothing THEN k.writing ELSE @]

Store(doc) ==
    /\ stored' = IF story THEN doc ELSE stored
    /\ kept' = IF story THEN kept \cup doc ELSE kept
    /\ UNCHANGED failed

\* A write that raises; last: whether nothing saves its document again.
Fail(doc, last) ==
    /\ failed' = IF last THEN failed \cup doc ELSE failed
    /\ UNCHANGED <<stored, kept>>

MutantScheduleSave(c) ==
    /\ consumer[c].due
    /\ consumer' = [consumer EXCEPT ![c] =
         IF @.task = "none" THEN [@ EXCEPT !.due = FALSE, !.task = "sleeping"]
         ELSE [@ EXCEPT !.due = FALSE]]
    /\ UNCHANGED <<story, stored, local, made, kept, failed, stopped>>

\* schedule_save: whatever the task is at, another one begins, with its whole
\* delay before it.
ScheduleSave(c) ==
    LET k == consumer[c] IN
    /\ k.due
    /\ consumer' = [consumer EXCEPT ![c] =
         [Cancelled(k) EXCEPT !.due = FALSE, !.task = "sleeping",
                              !.again = k.task = "sleeping" /\ ~k.again]]
    /\ UNCHANGED <<story, stored, local, made, kept, failed, stopped>>

MutantBeginSave(c, again) ==
    /\ consumer[c].task = "sleeping"
    /\ consumer[c].again = again
    /\ IsOpen(c)
    /\ consumer' = [consumer EXCEPT ![c] =
         [@ EXCEPT !.task = "saving", !.again = FALSE, !.writing = consumer[c].doc]]
    /\ UNCHANGED <<story, stored, local, made, kept, failed, stopped>>

\* debounced_save: after the delay, the document as it is then. again: which of
\* the sleeps that replace each other is over.
BeginSave(c, again) ==
    /\ consumer[c].task = "sleeping"
    /\ consumer[c].again = again
    /\ consumer' = [consumer EXCEPT ![c] =
         [@ EXCEPT !.task = "saving", !.again = FALSE, !.writing = consumer[c].doc]]
    /\ UNCHANGED <<story, stored, local, made, kept, failed, stopped>>

\* The end of the write. A task that raised stays in _save_task: the next update
\* and the disconnection see it there, nothing else does.
EndSave(c) ==
    LET k == consumer[c] IN
    /\ k.task = "saving"
    /\ k.forced = Nothing
    /\ k.late = Nothing
    /\ \E task \in {"none", "failed"} :
         /\ IF task = "none" THEN Store(k.writing) ELSE Fail(k.writing, ~IsOpen(c))
         /\ consumer' = [consumer EXCEPT ![c] = Ended([@ EXCEPT !.task = task, !.writing = Nothing])]
    /\ UNCHANGED <<story, local, made, stopped>>

\* A write that was cancelled is made in the end, or not.
EndLateSave(c) ==
    LET k == consumer[c] IN
    /\ k.late # Nothing
    /\ Store(k.late) \/ Fail(k.late, FALSE)
    /\ consumer' = [consumer EXCEPT ![c] = Ended([@ EXCEPT !.late = Nothing])]
    /\ UNCHANGED <<story, local, made, stopped>>

\* force_save, up to its write.
Forced(k, status) ==
    [Cancelled(k) EXCEPT !.status = status, !.forced = k.doc]

\* The command save_now.
SaveNow(c) ==
    /\ IsOpen(c)
    /\ consumer[c].writer
    /\ consumer' = [consumer EXCEPT ![c] = Forced(@, "busy")]
    /\ UNCHANGED <<story, stored, local, made, kept, failed, stopped>>

\* disconnect: what waits to be saved is saved first.
Disconnect(c) ==
    /\ IsOpen(c)
    /\ consumer' = [consumer EXCEPT ![c] =
         IF @.task = "none" THEN Ended([@ EXCEPT !.status = "closed"]) ELSE Forced(@, "closing")]
    /\ UNCHANGED <<story, stored, local, made, kept, failed, stopped>>

\* The answer to save_now, or the end of the connection. A write that fails ends
\* the connection too: receive lets the error out, disconnect logs it.
EndForce(c) ==
    LET k == consumer[c] IN
    /\ k.forced # Nothing
    /\ k.late = Nothing
    /\ \E written \in BOOLEAN :
         /\ IF written THEN Store(k.forced) ELSE Fail(k.forced, TRUE)
         /\ consumer' = [consumer EXCEPT ![c] =
              Ended([@ EXCEPT !.status = IF written /\ k.status = "busy" THEN "open" ELSE "closed",
                              !.forced = Nothing])]
    /\ UNCHANGED <<story, local, made, stopped>>

\* delete_story. The consumers know nothing of it: their writes find no row.
DeleteStory ==
    /\ story
    /\ story' = FALSE
    /\ UNCHANGED <<stored, local, made, consumer, kept, failed, stopped>>

\* The server stops: what is in memory is lost. The browsers connect again.
Stop ==
    /\ ~stopped
    /\ stopped' = TRUE
    /\ consumer' = [c \in Clients |-> NoConsumer]
    /\ UNCHANGED <<story, stored, local, made, kept, failed>>

-----------------------------------------------------------------------------
Init ==
    /\ story = TRUE
    /\ stored = {}
    /\ local = [c \in Clients |-> {}]
    /\ made = {}
    /\ consumer = [c \in Clients |-> NoConsumer]
    /\ kept = {}
    /\ failed = {}
    /\ stopped = FALSE

\* What the connection brings.
MessageStep(c) ==
    \/ Connect(c)
    \/ \E writer \in BOOLEAN : Admit(c, writer)
    \/ Refuse(c)
    \/ \E edits \in Documents : Receive(c, edits)
    \/ SaveNow(c)
    \/ Disconnect(c)

\* What the event loop does by itself.
TaskStep(c) ==
    \/ ScheduleSave(c)
    \/ \E again \in BOOLEAN : BeginSave(c, again)
    \/ EndSave(c)
    \/ EndLateSave(c)
    \/ EndForce(c)

Next ==
    \/ \E c \in Clients : MessageStep(c) \/ TaskStep(c)
    \/ \E e \in Edits : Edit(e)
    \/ DeleteStory
    \/ Stop

\* The event loop runs what it was given: callbacks are called, and queries end.
\* A sleep ends unless it is replaced by another: each is fair for itself, and
\* those that updates replace again and again may never end. No message, edit or
\* stop has to come.
Fairness ==
    \A c \in Clients :
        /\ WF_vars(ScheduleSave(c))
        /\ \A again \in BOOLEAN : WF_vars(BeginSave(c, again))
        /\ WF_vars(EndSave(c))
        /\ WF_vars(EndLateSave(c))
        /\ WF_vars(EndForce(c))

Spec == Init /\ [][Next]_vars /\ Fairness

-----------------------------------------------------------------------------
(* Properties.                                                             *)

Accepted(c, e) == consumer[c].writer /\ e \in consumer[c].doc

\* A save that holds it is to come, or under way; one that failed is made again
\* when the connection ends.
SaveIsDue(c, e) ==
    LET k == consumer[c] IN
    \/ k.due
    \/ k.task = "sleeping"
    \/ k.task = "failed" /\ k.status = "open"
    \/ \E doc \in {k.writing, k.forced} \ {Nothing} : e \in doc

\* At every moment, an edit that the server took from a client that can write is
\* in the database or in a save to come, unless the last write of it failed:
\* cancelling a save (schedule_save, force_save, disconnect) never leaves a change
\* that nothing saves, and neither does a save that failed while the client is
\* there.
NothingIsForgotten ==
    \A c \in Clients, e \in Edits :
        Accepted(c, e) => e \in kept \cup failed \/ SaveIsDue(c, e) \/ ~story

\* What the server took is written in the end, or its write fails, whatever the
\* messages and the disconnections that follow, unless the server stops, the story
\* is deleted, or updates never stop coming, each before the save that the one
\* before it asked for (schedule_save).
SavedInTheEnd ==
    \A c \in Clients :
        \/ \A e \in Edits :
             Accepted(c, e) ~>
                 (e \in kept \cup failed \/ consumer[c].task = "failed" \/ stopped \/ ~story)
        \/ []<><<ScheduleSave(c)>>_vars
=============================================================================
