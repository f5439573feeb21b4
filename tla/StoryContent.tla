---------------------------- MODULE StoryContent ----------------------------
(***************************************************************************)
(* What a story holds: its text, under a version (base/occ), its comments  *)
(* and their notifications, its attachments and its tags, by requests that *)
(* overlap. A request is cut at its queries: it keeps what it has read.    *)
(* Comments and attachments refer to their story by a generic key, with no *)
(* constraint: a story is deleted with those there are, and others may     *)
(* still come. A soft-deleted comment keeps its row. The four parts have   *)
(* nothing in common but the story: a behaviour is about one of them, and  *)
(* the deletion of the story, which is about all.                          *)
(***************************************************************************)
EXTENDS Storage, Notifications, Tags

CONSTANTS
    This,        \* the story
    Creator,     \* of the story
    Texts,       \* of the story
    FirstText,
    MaxVersion   \* bound

ASSUME ContentAssumption ==
    /\ This \in Stories
    /\ Creator \in People
    /\ FirstText \in Texts
    /\ MaxVersion \in Nat \ {0}

VARIABLES
    story,         \* its version and text, or Nothing
    assignees,
    comment,       \* the rows of the comments
    request,
    due,           \* history: who each comment was to be notified to
    part           \* which part of the story the behaviour is about

content == <<story, assignees, comment, due, part>>
vars == <<storage, notices, tags, content, request>>

CommentRow == [text : {"", "first", "edited"}, deleted : BOOLEAN]

\* at: what the request is about to do. version, saw: the story as its client saw
\* it; who: its recipients; rows: the attachments that go with the story.
Request ==
    [at : {"edit", "comment", "notify", "tell", "recomment", "uncomment", "upload", "attach",
           "detach", "remove"},
     version : 0..MaxVersion, saw : Texts \cup {Nothing}, comment : Comments \cup {Nothing},
     who : SUBSET People, rows : SUBSET Files]

ASSUME RequestAssumption == Nothing \notin Request

ContentTypeOK ==
    /\ story \in [version : 1..MaxVersion, text : Texts] \cup {Nothing}
    /\ assignees \subseteq People
    /\ comment \in [Comments -> CommentRow \cup {Nothing}]
    /\ \A c \in Comments : comment[c] # Nothing => (comment[c].text = "" => comment[c].deleted)
    /\ request \in [Requests -> Request \cup {Nothing}]
    /\ due \in [Comments -> SUBSET People]
    /\ part \in {"text", "comments", "files", "tags"}

TypeOK == StorageTypeOK /\ NoticesTypeOK /\ TagsTypeOK /\ ContentTypeOK

NewRequest(at) ==
    [at |-> at, version |-> 0, saw |-> Nothing, comment |-> Nothing, who |-> {}, rows |-> {}]

Begin(r, q) ==
    /\ request[r] = Nothing
    /\ request' = [request EXCEPT ![r] = q]
    /\ UNCHANGED <<storage, notices, tags, content>>

At(r, at) == request[r] # Nothing /\ request[r].at = at

Done(r) == request' = [request EXCEPT ![r] = Nothing]

-----------------------------------------------------------------------------
(* The text: base/occ/repositories.py                                      *)

\* The client opens the story.
OpenStory(r) ==
    /\ part = "text"
    /\ story # Nothing
    /\ Begin(r, [NewRequest("edit") EXCEPT !.version = story.version, !.saw = story.text])

MutantMatches(version) == story # Nothing /\ story.version <= version + 1

\* The filter of update: a protected attribute is updated.
Matches(version) == story # Nothing /\ story.version = version

\* update_story with a title or a description: one UPDATE, refused if no row
\* matches.
UpdateText(r, text) ==
    /\ At(r, "edit")
    /\ IF Matches(request[r].version)
       THEN /\ story.version < MaxVersion
            /\ story' = [version |-> story.version + 1, text |-> text]
       ELSE story' = story
    /\ Done(r)
    /\ UNCHANGED <<storage, notices, tags, assignees, comment, due, part>>

\* update_story with a status or a workflow only: any version matches.
UpdateStatus ==
    /\ part = "text"
    /\ story # Nothing
    /\ story.version < MaxVersion
    /\ story' = [story EXCEPT !.version = @ + 1]
    /\ UNCHANGED <<storage, notices, tags, assignees, comment, request, due, part>>

-----------------------------------------------------------------------------
(* Who is assigned to the story, and who is told of its comments.          *)

Assign(p) ==
    /\ part = "comments"
    /\ story # Nothing
    /\ p \notin assignees
    /\ assignees' = assignees \cup {p}
    /\ UNCHANGED <<storage, notices, tags, story, comment, request, due, part>>

Unassign(p) ==
    /\ p \in assignees
    /\ assignees' = assignees \ {p}
    /\ UNCHANGED <<storage, notices, tags, story, comment, request, due, part>>

\* notify_when_story_comment_is_created, with the assignees as loaded.
Recipients(author) == (assignees \cup {Creator}) \ {author}

\* notify_users: the rows, then the events.
Notify(r) ==
    /\ At(r, "notify")
    /\ CreateNotifications(request[r].comment, request[r].who)
    /\ request' = [request EXCEPT ![r].at = "tell"]
    /\ UNCHANGED <<storage, tags, content>>

Tell(r) ==
    /\ At(r, "tell")
    /\ TellCreation(request[r].comment, request[r].who)
    /\ Done(r)
    /\ UNCHANGED <<storage, tags, content>>

-----------------------------------------------------------------------------
(* Comments.                                                               *)

IsVisible(c) == comment[c] # Nothing /\ ~comment[c].deleted

\* list_story_comments shows the deleted ones too, as such.
ListStoryComments ==
    IF story = Nothing THEN {}
    ELSE {[comment |-> c, deleted |-> ~IsVisible(c)] : c \in {d \in Comments : comment[d] # Nothing}}

\* The number of comments that the page of the story gives.
GetCommentsCount == Cardinality({c \in Comments : IsVisible(c)})

BeginComment(r, c, author) ==
    /\ part = "comments"
    /\ story # Nothing
    /\ comment[c] = Nothing /\ due[c] = {}
    /\ \A s \in Requests : request[s] # Nothing => request[s].comment # c
    /\ Begin(r, [NewRequest("comment") EXCEPT !.comment = c, !.who = Recipients(author)])

MutantCreateComment(r) ==
    /\ At(r, "comment")
    /\ LET c == request[r].comment IN
       /\ comment' = [comment EXCEPT ![c] = [text |-> "first", deleted |-> FALSE]]
       /\ due' = [due EXCEPT ![c] = request[r].who]
    /\ request' = [request EXCEPT ![r] = IF story = Nothing THEN Nothing ELSE [@ EXCEPT !.at = "notify"]]
    /\ UNCHANGED <<storage, notices, tags, story, assignees, part>>

\* create_comment: the row, then the notifications, even of a story that has
\* been deleted.
CreateComment(r) ==
    /\ At(r, "comment")
    /\ LET c == request[r].comment IN
       /\ comment' = [comment EXCEPT ![c] = [text |-> "first", deleted |-> FALSE]]
       /\ due' = [due EXCEPT ![c] = request[r].who]
    /\ request' = [request EXCEPT ![r].at = "notify"]
    /\ UNCHANGED <<storage, notices, tags, story, assignees, part>>

\* get_story_comment_or_404 and the permission: its story is there, and it is not
\* deleted.
BeginOnComment(r, c, at) ==
    /\ story # Nothing
    /\ IsVisible(c)
    /\ Begin(r, [NewRequest(at) EXCEPT !.comment = c])

MutantSaveComment(c, row) == comment' = [comment EXCEPT ![c] = row]

\* asave(update_fields=...): the columns given, of a row that is still there.
SaveComment(c, row) ==
    comment' = IF comment[c] = Nothing THEN comment
               ELSE [comment EXCEPT ![c] =
                      [text |-> row.text, deleted |-> row.deleted \/ @.deleted]]

UpdateComment(r) ==
    /\ At(r, "recomment")
    /\ SaveComment(request[r].comment, [text |-> "edited", deleted |-> FALSE])
    /\ Done(r)
    /\ UNCHANGED <<storage, notices, tags, story, assignees, due, part>>

\* delete_comment: its text is emptied, its row stays.
DeleteComment(r) ==
    /\ At(r, "uncomment")
    /\ SaveComment(request[r].comment, [text |-> "", deleted |-> TRUE])
    /\ Done(r)
    /\ UNCHANGED <<storage, notices, tags, story, assignees, due, part>>

-----------------------------------------------------------------------------
(* Attachments.                                                            *)

BeginUpload(r) ==
    /\ part = "files"
    /\ story # Nothing
    /\ Begin(r, NewRequest("upload"))

\* create_attachment: the stored object, then the row that refers to it.
Upload(r, f) ==
    /\ At(r, "upload")
    /\ CreateStoragedObject(f)
    /\ request' = [request EXCEPT ![r] = [@ EXCEPT !.at = "attach", !.rows = {f}]]
    /\ UNCHANGED <<attachments, notices, tags, content>>

Attach(r) ==
    /\ At(r, "attach")
    /\ attachments' = attachments \cup request[r].rows
    /\ Done(r)
    /\ UNCHANGED <<storaged, onDisk, notices, tags, content>>

\* list_story_attachment: an attachment left without its story is not found.
ListStoryAttachments == IF story = Nothing THEN {} ELSE attachments

\* get_story_attachment_file opens the file of the row.
CanBeDownloaded(f) == f \in onDisk

\* get_story_attachment_or_404
BeginDetach(r, f) ==
    /\ f \in ListStoryAttachments
    /\ Begin(r, [NewRequest("detach") EXCEPT !.rows = {f}])

Detach(r) ==
    /\ At(r, "detach")
    /\ DeleteAttachments(request[r].rows \cap attachments)
    /\ Done(r)
    /\ UNCHANGED <<notices, tags, content>>

-----------------------------------------------------------------------------
(* The deletion of the story.                                              *)

MutantGoWithStory == {f \in Files : storaged[f] = "kept"}

\* What the deletion collects: the attachments, whose deletion has a signal.
GoWithStory == attachments

BeginDelete(r) ==
    /\ story # Nothing
    /\ Begin(r, [NewRequest("remove") EXCEPT !.rows = GoWithStory])

\* The attachments collected, and the comments, assignments and tags there are now,
\* even when the story itself is gone meanwhile.
DeleteStory(r) ==
    /\ At(r, "remove")
    /\ story' = Nothing
    /\ assignees' = {}
    /\ comment' = [c \in Comments |-> Nothing]
    /\ DeleteAttachments(request[r].rows)
    /\ UntagStory(This)
    /\ Done(r)
    /\ UNCHANGED <<notices, due, part>>

-----------------------------------------------------------------------------
Init ==
    /\ StorageInit /\ NoticesInit /\ TagsInit
    /\ story = [version |-> 1, text |-> FirstText]
    /\ assignees = {}
    /\ comment = [c \in Comments |-> Nothing]
    /\ request = [r \in Requests |-> Nothing]
    /\ due = [c \in Comments |-> {}]
    /\ part \in {"text", "comments", "files", "tags"}

Arrive(r) ==
    \/ OpenStory(r) \/ BeginUpload(r) \/ BeginDelete(r)
    \/ \E f \in Files : BeginDetach(r, f)
    \/ \E c \in Comments :
         \/ \E author \in People : BeginComment(r, c, author)
         \/ \E at \in {"recomment", "uncomment"} : BeginOnComment(r, c, at)

Advance(r) ==
    \/ \E text \in Texts : UpdateText(r, text)
    \/ CreateComment(r) \/ Notify(r) \/ Tell(r) \/ UpdateComment(r) \/ DeleteComment(r)
    \/ \E f \in Files : Upload(r, f)
    \/ Attach(r) \/ Detach(r) \/ DeleteStory(r)

\* The stories of the project that are there.
StoriesThere == IF story = Nothing THEN Stories \ {This} ELSE Stories

Next ==
    \/ \E r \in Requests :
         \/ Arrive(r) \/ Advance(r)
         \/ part = "tags" /\ TagsStep(r, StoriesThere) /\ UNCHANGED <<storage, notices, content, request>>
    \/ UpdateStatus
    \/ \E p \in People : Assign(p) \/ Unassign(p)
    \/ part = "comments" /\ NoticesStep /\ UNCHANGED <<storage, tags, content, request>>
    \/ StorageStep /\ UNCHANGED <<notices, tags, content, request>>

\* Requests come to an end, time passes and the periodic tasks run.
Fairness ==
    /\ \A r \in Requests : WF_vars(Advance(r))
    /\ \A f \in Files :
         /\ WF_vars(Expire(f) /\ UNCHANGED <<notices, tags, content, request>>)
         /\ WF_vars(DeleteStoragedObject(f) /\ UNCHANGED <<notices, tags, content, request>>)

Spec == Init /\ [][Next]_vars /\ Fairness

-----------------------------------------------------------------------------
(* Properties.                                                             *)

\* Nobody overwrites a title or a description that they have not seen, whatever
\* else changed the version of the story or did not.
TextsAreSeenBeforeTheyChange ==
    [][story # Nothing /\ story' # Nothing /\ story'.text # story.text =>
         \E r \in Requests : At(r, "edit") /\ request[r].saw = story.text]_vars

\* A comment that was deleted, alone or with its story, is not there again,
\* although an update of it may have been under way: neither as a comment, nor in
\* the number of comments, nor otherwise than as deleted in their list.
DeletedCommentsStayDeleted ==
    [][\A c \in Comments : due[c] # {} /\ ~IsVisible(c) =>
         /\ ~IsVisible(c)'
         /\ GetCommentsCount' <= Cardinality(Comments \ {c})
         /\ \A row \in ListStoryComments' : row.comment = c => row.deleted]_vars

\* The file of an attachment is there, and is not on its way out.
AttachmentsHaveFiles ==
    \A f \in attachments \cup ListStoryAttachments : CanBeDownloaded(f) /\ storaged[f] = "kept"

\* What is marked as deleted goes in the end: nothing still refers to it.
MarkedFilesGo ==
    \A f \in Files : (storaged[f] = "marked") ~> (storaged[f] = "gone")

\* Who was to be told of a comment when it was written is told.
CommentsAreNotified ==
    \A c \in Comments, p \in People :
        (p \in due[c]) ~> (notification[c][p] # "none" /\ told[c][p] # "none")

\* What is shown as unread, to who follows the events of their notifications, is
\* unread and is counted so, whichever were read one by one, all at once or cleaned,
\* once nothing more is on its way. The other way round, what is unread is shown so,
\* save what was created between the two queries of a marking of all: that is told
\* to have been read (mark_notifications_as_read). What was read before its creation
\* was told is left out: its client shows it again.
UnreadIsShownAsCounted ==
    \A p \in People :
        LET shownUnread == {c \in Comments : told[c][p] = "unread"}
            toTell == \E r \in Requests : At(r, "tell") /\ p \in request[r].who
        IN
        ~toTell /\ marking[p] = NoMarking =>
            /\ shownUnread \subseteq ListMyNotifications(p, "no")
            /\ ListMyNotifications(p, "no") \subseteq shownUnread \cup overtaken[p]
            /\ CountMyNotifications(p).unread <= Cardinality(shownUnread \cup overtaken[p])
            /\ CountMyNotifications(p).total = Cardinality(ListMyNotifications(p, "any"))
=============================================================================
