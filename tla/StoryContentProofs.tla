------------------------- MODULE StoryContentProofs -------------------------
(***************************************************************************)
(* What a story holds, for any number of requests that overlap: whatever   *)
(* they have read before others wrote, attachments have their files, no    *)
(* text is overwritten unseen, deleted comments stay so, and what clients  *)
(* were told of notifications and tags is what is stored; nobody a comment *)
(* is for is forgotten. Each part has an invariant on its state and on what *)
(* the requests that concern it hold.                                      *)
(* The news, which are checked along, come last.                           *)
(***************************************************************************)
EXTENDS StoryContent, Feeds, FiniteSetTheorems, TLAPS

-----------------------------------------------------------------------------
(* Requests.                                                               *)

\* Only the request r changes.
OnlyRequest(r) == \A s \in Requests \ {r} : request'[s] = request[s]

LEMMA RequestType ==
    ASSUME ContentTypeOK, NEW r \in Requests, request[r] # Nothing
    PROVE  request[r] \in Request
  BY DEF ContentTypeOK

LEMMA BeginFacts ==
    ASSUME ContentTypeOK, NEW r \in Requests, NEW q \in Request, Begin(r, q)
    PROVE  /\ request[r] = Nothing /\ request'[r] = q /\ OnlyRequest(r)
           /\ UNCHANGED <<storage, notices, tags, content>>
           /\ ContentTypeOK'
  BY DEF Begin, ContentTypeOK, OnlyRequest, content

LEMMA DoneFacts ==
    ASSUME ContentTypeOK, NEW r \in Requests, Done(r)
    PROVE  /\ request'[r] = Nothing /\ OnlyRequest(r)
           /\ request' \in [Requests -> Request \cup {Nothing}]
  BY DEF Done, ContentTypeOK, OnlyRequest

LEMMA GoesOnFacts ==
    ASSUME ContentTypeOK, NEW r \in Requests, request[r] # Nothing, NEW at \in {"notify", "tell"},
           request' = [request EXCEPT ![r].at = at]
    PROVE  /\ request'[r] \in Request /\ OnlyRequest(r)
           /\ request' \in [Requests -> Request \cup {Nothing}]
           /\ request'[r].at = at
           /\ request'[r].rows = request[r].rows
           /\ request'[r].who = request[r].who
           /\ request'[r].comment = request[r].comment
  <1>1. request[r] \in Request
    BY RequestType
  <1> DEFINE q == [request[r] EXCEPT !.at = at]
  <1>2. /\ q \in Request /\ q.at = at
        /\ q.rows = request[r].rows /\ q.who = request[r].who /\ q.comment = request[r].comment
    BY <1>1 DEF Request
  <1>3. request' = [request EXCEPT ![r] = q]
    BY <1>1 DEF ContentTypeOK
  <1> HIDE DEF q
  <1> QED BY <1>2, <1>3 DEF ContentTypeOK, OnlyRequest

\* What a new request knows.
LEMMA EditRequest ==
    ASSUME ContentTypeOK, story # Nothing
    PROVE  LET q == [NewRequest("edit") EXCEPT !.version = story.version, !.saw = story.text] IN
           q \in Request /\ q.at = "edit" /\ q.rows = {}
             /\ q.version = story.version /\ q.saw = story.text
  <1>1. story \in [version : 1..MaxVersion, text : Texts]
    BY DEF ContentTypeOK
  <1>2. story.version \in 0..MaxVersion /\ story.text \in Texts
    BY <1>1, ContentAssumption
  <1> QED BY <1>2 DEF NewRequest, Request

LEMMA CommentRequest ==
    ASSUME ContentTypeOK, NEW c \in Comments, NEW who \in SUBSET People
    PROVE  LET q == [NewRequest("comment") EXCEPT !.comment = c, !.who = who] IN
           q \in Request /\ q.at = "comment" /\ q.rows = {} /\ q.comment = c
  <1> DEFINE k == [NewRequest("comment") EXCEPT !.comment = c]
  <1>1. k \in Request /\ k.at = "comment" /\ k.rows = {} /\ k.comment = c
    BY ContentAssumption DEF NewRequest, Request
  <1>2. [NewRequest("comment") EXCEPT !.comment = c, !.who = who] = [k EXCEPT !.who = who]
    OBVIOUS
  <1> HIDE DEF k
  <1> QED BY <1>1, <1>2 DEF Request

LEMMA OnCommentRequest ==
    ASSUME NEW c \in Comments, NEW at \in {"recomment", "uncomment"}
    PROVE  LET q == [NewRequest(at) EXCEPT !.comment = c] IN
           q \in Request /\ q.at = at /\ q.rows = {} /\ q.comment = c
  BY ContentAssumption DEF NewRequest, Request

LEMMA UploadRequest ==
    LET q == NewRequest("upload") IN q \in Request /\ q.at = "upload" /\ q.rows = {}
  BY ContentAssumption DEF NewRequest, Request

LEMMA FilesRequest ==
    ASSUME NEW at \in {"detach", "remove"}, NEW rows \in SUBSET Files
    PROVE  LET q == [NewRequest(at) EXCEPT !.rows = rows] IN
           q \in Request /\ q.at = at /\ q.rows = rows
  BY ContentAssumption DEF NewRequest, Request

-----------------------------------------------------------------------------
(* The types of what is not of the notifications and of the tags.          *)

LEMMA CommentRows ==
    ASSUME ContentTypeOK, NEW c, NEW row \in CommentRow, row.text = "" => row.deleted,
           SaveComment(c, row)
    PROVE  /\ comment' \in [Comments -> CommentRow \cup {Nothing}]
           /\ \A d \in Comments : comment'[d] # Nothing => (comment'[d].text = "" => comment'[d].deleted)
           /\ \A d \in Comments : ~IsVisible(d) => ~IsVisible(d)'
           /\ \A d \in Comments : comment[d] = Nothing => comment'[d] = Nothing
  <1>1. CASE c \notin Comments \/ comment[c] = Nothing
    <2>1. comment' = comment
      BY <1>1 DEF SaveComment, ContentTypeOK
    <2> QED BY <2>1 DEF ContentTypeOK, IsVisible
  <1>2. CASE c \in Comments /\ comment[c] # Nothing
    <2> DEFINE saved == [text |-> row.text, deleted |-> row.deleted \/ comment[c].deleted]
    <2>1. comment[c] \in CommentRow
      BY <1>2 DEF ContentTypeOK
    <2>2. saved \in CommentRow /\ (saved.text = "" => saved.deleted)
            /\ (comment[c].deleted => saved.deleted)
      BY <2>1 DEF CommentRow
    <2>3. comment' = [comment EXCEPT ![c] = saved]
      BY <1>2 DEF SaveComment
    <2> HIDE DEF saved
    <2>4. comment'[c] = saved /\ \A d \in Comments \ {c} : comment'[d] = comment[d]
      BY <1>2, <2>3 DEF ContentTypeOK
    <2>5. comment' \in [Comments -> CommentRow \cup {Nothing}]
      BY <2>2, <2>3 DEF ContentTypeOK
    <2>6. \A d \in Comments : comment'[d] # Nothing => (comment'[d].text = "" => comment'[d].deleted)
      BY <2>2, <2>4 DEF ContentTypeOK
    <2>7. \A d \in Comments : ~IsVisible(d) => ~IsVisible(d)'
      BY <1>2, <2>2, <2>4 DEF IsVisible
    <2> QED BY <1>2, <2>4, <2>5, <2>6, <2>7
  <1> QED BY <1>1, <1>2

LEMMA NewComment ==
    ASSUME ContentTypeOK, NEW c \in Comments,
           comment' = [comment EXCEPT ![c] = [text |-> "first", deleted |-> FALSE]]
    PROVE  /\ comment' \in [Comments -> CommentRow \cup {Nothing}]
           /\ \A d \in Comments : comment'[d] # Nothing => (comment'[d].text = "" => comment'[d].deleted)
           /\ \A d \in Comments \ {c} : comment'[d] = comment[d]
  <1> DEFINE row == [text |-> "first", deleted |-> FALSE]
  <1>1. row \in CommentRow /\ row.text # ""
    BY DEF CommentRow
  <1> HIDE DEF row
  <1> QED BY <1>1 DEF ContentTypeOK, row

\* What any new request knows is as it is when it comes.
IsNew(q) ==
    /\ q \in Request
    /\ q.at \in {"edit", "comment", "recomment", "uncomment", "upload", "detach", "remove"}
    /\ q.at = "edit" => story # Nothing /\ q.version = story.version /\ q.saw = story.text
    /\ q.at = "comment" =>
         /\ q.comment \in Comments
         /\ comment[q.comment] = Nothing /\ due[q.comment] = {}
         /\ \A s \in Requests : request[s] # Nothing => request[s].comment # q.comment
    /\ q.rows \subseteq attachments

LEMMA Arrivals ==
    ASSUME StorageTypeOK, ContentTypeOK, NEW r \in Requests, Arrive(r)
    PROVE  \E q : IsNew(q) /\ Begin(r, q)
  <1>1. CASE OpenStory(r)
    <2> DEFINE q == [NewRequest("edit") EXCEPT !.version = story.version, !.saw = story.text]
    <2>1. IsNew(q)
      BY <1>1, EditRequest DEF OpenStory, IsNew
    <2> QED BY <1>1, <2>1 DEF OpenStory
  <1>2. CASE BeginUpload(r)
    <2>1. IsNew(NewRequest("upload"))
      BY UploadRequest DEF IsNew
    <2> QED BY <1>2, <2>1 DEF BeginUpload
  <1>3. ASSUME NEW at \in {"detach", "remove"}, NEW rows \in SUBSET Files, rows \subseteq attachments,
               Begin(r, [NewRequest(at) EXCEPT !.rows = rows])
        PROVE  \E q : IsNew(q) /\ Begin(r, q)
    <2> DEFINE q == [NewRequest(at) EXCEPT !.rows = rows]
    <2>1. q \in Request /\ q.at = at /\ q.rows = rows
      BY FilesRequest
    <2>2. Begin(r, q)
      BY <1>3
    <2> HIDE DEF q
    <2>3. IsNew(q)
      BY <1>3, <2>1 DEF IsNew
    <2> QED BY <2>2, <2>3
  <1>4. CASE BeginDelete(r)
    BY <1>3, <1>4 DEF BeginDelete, GoWithStory, StorageTypeOK
  <1>5. ASSUME NEW f \in Files, BeginDetach(r, f)
        PROVE  \E q : IsNew(q) /\ Begin(r, q)
    <2>1. {f} \in SUBSET Files /\ {f} \subseteq attachments
      BY <1>5 DEF BeginDetach, ListStoryAttachments
    <2> QED BY <1>3, <1>5, <2>1 DEF BeginDetach
  <1>6. ASSUME NEW c \in Comments, NEW author \in People, BeginComment(r, c, author)
        PROVE  \E q : IsNew(q) /\ Begin(r, q)
    <2> DEFINE q == [NewRequest("comment") EXCEPT !.comment = c, !.who = Recipients(author)]
    <2>1. q \in Request /\ q.at = "comment" /\ q.rows = {} /\ q.comment = c
      BY CommentRequest, ContentAssumption DEF Recipients, ContentTypeOK
    <2>2. Begin(r, q)
      BY <1>6 DEF BeginComment
    <2> HIDE DEF q
    <2>3. IsNew(q)
      BY <1>6, <2>1 DEF BeginComment, IsNew
    <2> QED BY <2>2, <2>3
  <1>7. ASSUME NEW c \in Comments, NEW at \in {"recomment", "uncomment"}, BeginOnComment(r, c, at)
        PROVE  \E q : IsNew(q) /\ Begin(r, q)
    <2> DEFINE q == [NewRequest(at) EXCEPT !.comment = c]
    <2>1. q \in Request /\ q.at = at /\ q.rows = {}
      BY OnCommentRequest
    <2>2. Begin(r, q)
      BY <1>7 DEF BeginOnComment
    <2> HIDE DEF q
    <2>3. IsNew(q)
      BY <2>1 DEF IsNew
    <2> QED BY <2>2, <2>3
  <1> QED BY <1>1, <1>2, <1>4, <1>5, <1>6, <1>7 DEF Arrive

LEMMA ContentTypeAdvance ==
    ASSUME ContentTypeOK, NEW r \in Requests, Advance(r)
    PROVE  ContentTypeOK'
  <1> USE DEF content
  <1>1. request[r] # Nothing
    BY DEF Advance, At, UpdateText, CreateComment, Notify, Tell, UpdateComment, DeleteComment,
       Upload, Attach, Detach, DeleteStory
  <1>2. request[r] \in Request
    BY <1>1, RequestType
  <1>3. ASSUME NEW text \in Texts, UpdateText(r, text) PROVE ContentTypeOK'
    <2>1. story' \in [version : 1..MaxVersion, text : Texts] \cup {Nothing}
      <3>1. CASE ~Matches(request[r].version)
        BY <1>3, <3>1 DEF UpdateText, ContentTypeOK
      <3>2. CASE Matches(request[r].version)
        <4>1. story \in [version : 1..MaxVersion, text : Texts]
          BY <3>2 DEF Matches, ContentTypeOK
        <4>2. story.version + 1 \in 1..MaxVersion
          BY <1>3, <3>2, <4>1, ContentAssumption DEF UpdateText
        <4> QED BY <1>3, <3>2, <4>2 DEF UpdateText
      <3> QED BY <3>1, <3>2
    <2> QED BY <1>3, <2>1, DoneFacts DEF UpdateText, ContentTypeOK
  <1>4. CASE CreateComment(r)
    <2> DEFINE c == request[r].comment
    <2>1. request' \in [Requests -> Request \cup {Nothing}]
      BY <1>1, <1>4, GoesOnFacts DEF CreateComment
    <2>2. request[r].who \in SUBSET People
      BY <1>2 DEF Request
    <2>3. CASE c \in Comments
      <3>1. due' \in [Comments -> SUBSET People]
        BY <1>4, <2>2 DEF CreateComment, ContentTypeOK
      <3> QED BY <1>4, <2>1, <2>3, <3>1, NewComment DEF CreateComment, ContentTypeOK
    <2>4. CASE c \notin Comments
      <3>1. due' = due /\ comment' = comment
        BY <1>4, <2>4 DEF CreateComment, ContentTypeOK
      <3> QED BY <1>4, <2>1, <3>1 DEF CreateComment, ContentTypeOK
    <2> QED BY <2>3, <2>4
  <1>5. CASE Notify(r)
    BY <1>1, <1>5, GoesOnFacts DEF Notify, ContentTypeOK
  <1>6. CASE Tell(r) \/ Attach(r) \/ Detach(r)
    BY <1>6, DoneFacts DEF Tell, Attach, Detach, ContentTypeOK
  <1>7. CASE UpdateComment(r) \/ DeleteComment(r)
    <2>1. \E row \in CommentRow : (row.text = "" => row.deleted) /\ SaveComment(request[r].comment, row)
      BY <1>7 DEF UpdateComment, DeleteComment, CommentRow
    <2>2. /\ comment' \in [Comments -> CommentRow \cup {Nothing}]
          /\ \A d \in Comments : comment'[d] # Nothing => (comment'[d].text = "" => comment'[d].deleted)
      BY <2>1, CommentRows
    <2>3. Done(r) /\ UNCHANGED <<story, assignees, due, part>>
      BY <1>7 DEF UpdateComment, DeleteComment
    <2> QED BY <2>2, <2>3, DoneFacts DEF ContentTypeOK
  <1>8. ASSUME NEW f \in Files, Upload(r, f) PROVE ContentTypeOK'
    <2>1. [request[r] EXCEPT !.at = "attach", !.rows = {f}] \in Request
      BY <1>2 DEF Request
    <2> QED BY <1>8, <2>1 DEF Upload, ContentTypeOK
  <1>9. CASE DeleteStory(r)
    BY <1>9, DoneFacts DEF DeleteStory, ContentTypeOK
  <1> QED BY <1>3, <1>4, <1>5, <1>6, <1>7, <1>8, <1>9 DEF Advance

LEMMA ContentTypeHolds ==
    ASSUME StorageTypeOK, ContentTypeOK, [Next]_vars
    PROVE  ContentTypeOK'
  <1>1. ASSUME NEW r \in Requests, Arrive(r) PROVE ContentTypeOK'
    BY <1>1, Arrivals, BeginFacts DEF IsNew
  <1>2. ASSUME UpdateStatus PROVE ContentTypeOK'
    <2>1. story \in [version : 1..MaxVersion, text : Texts]
      BY <1>2 DEF UpdateStatus, ContentTypeOK
    <2>2. [story EXCEPT !.version = @ + 1] \in [version : 1..MaxVersion, text : Texts]
      BY <1>2, <2>1, ContentAssumption DEF UpdateStatus
    <2> QED BY <1>2, <2>2 DEF UpdateStatus, ContentTypeOK
  <1>3. ASSUME NEW p \in People, Assign(p) \/ Unassign(p) PROVE ContentTypeOK'
    BY <1>3 DEF Assign, Unassign, ContentTypeOK
  <1>4. ASSUME UNCHANGED <<content, request>> PROVE ContentTypeOK'
    BY <1>4 DEF content, ContentTypeOK
  <1>5. UNCHANGED vars => UNCHANGED <<content, request>>
    BY DEF vars
  <1> QED BY <1>1, <1>2, <1>3, <1>4, <1>5, ContentTypeAdvance DEF Next

-----------------------------------------------------------------------------
(* Attachments: a file that is stored waits for its row in one request, and*)
(* no other request holds it.                                              *)

FilesAreKept(files) == \A f \in files : f \in onDisk /\ storaged[f] = "kept"

FilesInv ==
    /\ FilesAreKept(attachments)
    /\ \A r \in Requests : request[r] # Nothing =>
         /\ \A f \in request[r].rows : storaged[f] # "none"
         /\ request[r].at = "attach" =>
              /\ FilesAreKept(request[r].rows)
              /\ request[r].rows \cap attachments = {}
              /\ \A s \in Requests \ {r} :
                   request[s] # Nothing => request[r].rows \cap request[s].rows = {}

\* Requests other than r hold what they did; r nothing more, and no file to attach.
LEMMA FilesUnchanged ==
    ASSUME FilesInv, UNCHANGED <<storaged, onDisk, attachments>>,
           \A r \in Requests : request'[r] # Nothing =>
             \/ request[r] # Nothing /\ request'[r].rows = request[r].rows
                  /\ (request'[r].at = "attach" => request[r].at = "attach")
             \/ request'[r].rows \subseteq attachments /\ request'[r].at # "attach"
    PROVE  FilesInv'
  BY DEF FilesInv, FilesAreKept

\* A step of the table of the stored files that is not about those kept.
LEMMA FilesThatAreNotKept ==
    ASSUME StorageTypeOK, ContentTypeOK, FilesInv, UNCHANGED <<attachments, request>>, NEW f \in Files,
           storaged[f] # "kept", Expire(f) \/ DeleteStoragedObject(f) \/ DeleteFile(f)
    PROVE  FilesInv' /\ StorageTypeOK'
  <1>1. StorageTypeOK'
    BY DEF StorageTypeOK, Expire, DeleteStoragedObject, DeleteFile
  <1>2. \A g \in Files :
          /\ storaged[g] = "kept" => storaged'[g] = "kept" /\ (g \in onDisk => g \in onDisk')
          /\ storaged[g] # "none" => storaged'[g] # "none"
    BY DEF StorageTypeOK, Expire, DeleteStoragedObject, DeleteFile
  <1>3. \A r \in Requests : request[r] # Nothing => request[r].rows \subseteq Files
    BY RequestType DEF Request
  <1> QED BY <1>1, <1>2, <1>3 DEF FilesInv, FilesAreKept, StorageTypeOK

LEMMA DeletedAttachments ==
    ASSUME StorageTypeOK, ContentTypeOK, FilesInv, NEW r \in Requests, NEW deleted \in SUBSET Files,
           request[r] # Nothing, deleted \subseteq request[r].rows, request[r].at # "attach",
           DeleteAttachments(deleted), request'[r] = Nothing, OnlyRequest(r)
    PROVE  FilesInv' /\ StorageTypeOK'
  <1>1. StorageTypeOK'
    BY DEF StorageTypeOK, DeleteAttachments
  <1>2. /\ \A f \in Files \ deleted : storaged'[f] = storaged[f]
        /\ \A f \in Files : storaged[f] # "none" => storaged'[f] # "none"
        /\ attachments' = attachments \ deleted /\ onDisk' = onDisk
    BY DEF DeleteAttachments, StorageTypeOK
  <1>3. FilesAreKept(attachments)'
    BY <1>2 DEF FilesInv, FilesAreKept, StorageTypeOK
  <1>4. \A s \in Requests \ {r} : request'[s] = request[s]
    BY DEF OnlyRequest
  <1>5. ASSUME NEW s \in Requests, request'[s] # Nothing
        PROVE  /\ s # r /\ request[s] # Nothing /\ request'[s] = request[s]
               /\ request[s].rows \subseteq Files
    BY <1>4, <1>5, RequestType DEF Request
  <1>6. ASSUME NEW s \in Requests, request'[s] # Nothing, request'[s].at = "attach"
        PROVE  /\ FilesAreKept(request[s].rows)'
               /\ request[s].rows \cap attachments' = {}
    <2>1. request[s].rows \cap deleted = {}
      BY <1>5, <1>6 DEF FilesInv
    <2> QED BY <1>2, <1>5, <1>6, <2>1 DEF FilesInv, FilesAreKept
  <1> QED BY <1>1, <1>2, <1>3, <1>5, <1>6 DEF FilesInv, FilesAreKept

LEMMA FilesAdvance ==
    ASSUME StorageTypeOK, ContentTypeOK, FilesInv, NEW r \in Requests, Advance(r)
    PROVE  FilesInv' /\ StorageTypeOK'
  <1>1. request[r] # Nothing
    BY DEF Advance, At, UpdateText, CreateComment, Notify, Tell, UpdateComment, DeleteComment,
       Upload, Attach, Detach, DeleteStory
  <1>2. request[r] \in Request /\ request[r].rows \in SUBSET Files
    BY <1>1, RequestType DEF Request
  <1>3. ASSUME UNCHANGED storage, Done(r) \/ CreateComment(r) \/ Notify(r)
        PROVE  FilesInv' /\ StorageTypeOK'
    <2>1. OnlyRequest(r)
      BY <1>1, <1>3, DoneFacts, GoesOnFacts DEF CreateComment, Notify
    <2>2. request'[r] # Nothing => request'[r].rows = request[r].rows /\ request'[r].at # "attach"
      BY <1>1, <1>3, DoneFacts, GoesOnFacts DEF CreateComment, Notify
    <2>3. StorageTypeOK'
      BY <1>3 DEF storage, StorageTypeOK
    <2> QED BY <1>1, <1>3, <2>1, <2>2, <2>3, FilesUnchanged DEF storage, OnlyRequest
  <1>4. ASSUME NEW f \in Files, Upload(r, f) PROVE FilesInv' /\ StorageTypeOK'
    <2> DEFINE q == [request[r] EXCEPT !.at = "attach", !.rows = {f}]
    <2>1. q.at = "attach" /\ q.rows = {f}
      BY <1>2 DEF Request
    <2>2. request'[r] = q /\ OnlyRequest(r)
      BY <1>4 DEF Upload, ContentTypeOK, OnlyRequest
    <2> HIDE DEF q
    <2>3. /\ storaged[f] = "none"
          /\ storaged' = [storaged EXCEPT ![f] = "kept"]
          /\ onDisk' = onDisk \cup {f} /\ attachments' = attachments
      BY <1>4 DEF Upload, CreateStoragedObject
    <2>4. StorageTypeOK'
      BY <2>3 DEF StorageTypeOK
    <2>5. FilesAreKept(attachments)'
      BY <2>3 DEF FilesInv, FilesAreKept, StorageTypeOK
    <2>6. \A g \in Files \ {f} : storaged'[g] = storaged[g]
      BY <2>3 DEF StorageTypeOK
    <2>7. \A s \in Requests : request[s] # Nothing =>
            request[s].rows \subseteq Files /\ f \notin request[s].rows
      BY <2>3, RequestType DEF FilesInv, Request
    <2>8. f \notin attachments /\ storaged'[f] = "kept"
      BY <2>3 DEF FilesInv, FilesAreKept, StorageTypeOK
    <2> QED BY <2>1, <2>2, <2>3, <2>4, <2>5, <2>6, <2>7, <2>8 DEF FilesInv, FilesAreKept, OnlyRequest
  <1>5. CASE Attach(r)
    <2>1. /\ request[r].at = "attach" /\ attachments' = attachments \cup request[r].rows
          /\ UNCHANGED <<storaged, onDisk>> /\ request'[r] = Nothing /\ OnlyRequest(r)
      BY <1>5, DoneFacts DEF Attach, At
    <2>2. FilesInv'
      BY <1>1, <2>1 DEF FilesInv, FilesAreKept, OnlyRequest
    <2> QED BY <1>2, <2>1, <2>2 DEF StorageTypeOK
  <1>6. CASE Detach(r)
    <2> DEFINE deleted == request[r].rows \cap attachments
    <2>1. deleted \in SUBSET Files /\ deleted \subseteq request[r].rows
      BY <1>2
    <2>2. DeleteAttachments(deleted) /\ request[r].at # "attach"
      BY <1>6 DEF Detach, At
    <2> HIDE DEF deleted
    <2> QED BY <1>1, <1>6, <2>1, <2>2, DoneFacts, DeletedAttachments DEF Detach
  <1>7. CASE DeleteStory(r)
    BY <1>1, <1>2, <1>7, DoneFacts, DeletedAttachments DEF DeleteStory, At
  <1> QED BY <1>3, <1>4, <1>5, <1>6, <1>7 DEF Advance, UpdateText, CreateComment, Notify, Tell,
      UpdateComment, DeleteComment

LEMMA FilesHold ==
    ASSUME StorageTypeOK, ContentTypeOK, FilesInv, [Next]_vars
    PROVE  FilesInv' /\ StorageTypeOK'
  <1>1. ASSUME UNCHANGED storage, UNCHANGED request PROVE FilesInv' /\ StorageTypeOK'
    BY <1>1 DEF storage, StorageTypeOK, FilesInv, FilesAreKept
  <1>2. ASSUME NEW r \in Requests, Arrive(r) PROVE FilesInv' /\ StorageTypeOK'
    <2>1. PICK q : IsNew(q) /\ Begin(r, q)
      BY <1>2, Arrivals
    <2>2. /\ request'[r] = q /\ OnlyRequest(r) /\ UNCHANGED storage
          /\ q.at # "attach" /\ q.rows \subseteq attachments
      BY <2>1, BeginFacts DEF IsNew
    <2>3. StorageTypeOK'
      BY <2>2 DEF storage, StorageTypeOK
    <2> QED BY <2>2, <2>3, FilesUnchanged DEF storage, OnlyRequest
  <1>3. ASSUME StorageStep, UNCHANGED request PROVE FilesInv' /\ StorageTypeOK'
    BY <1>3, FilesThatAreNotKept DEF StorageStep, Expire, DeleteStoragedObject, DeleteFile
  <1> QED BY <1>1, <1>2, <1>3, FilesAdvance
      DEF Next, UpdateStatus, Assign, Unassign, vars, storage

-----------------------------------------------------------------------------
(* The text: who saw the story under the version it has saw its text.      *)

TextInv ==
    \A r \in Requests : At(r, "edit") /\ story # Nothing =>
        /\ request[r].version \in Nat
        /\ request[r].version <= story.version
        /\ request[r].version = story.version => request[r].saw = story.text

\* A step of a request that is not an update of the text.
LEMMA TextUnchanged ==
    ASSUME TextInv, NEW r \in Requests, OnlyRequest(r), story' \in {story, Nothing},
           request'[r] # Nothing => request'[r].at # "edit"
    PROVE  TextInv'
  BY DEF TextInv, At, OnlyRequest

LEMMA TextUpdated ==
    ASSUME ContentTypeOK, TextInv, NEW r \in Requests, NEW text \in Texts, UpdateText(r, text)
    PROVE  /\ TextInv'
           /\ story'.text # story.text => request[r].saw = story.text
  <1>1. request'[r] = Nothing /\ OnlyRequest(r)
    BY DoneFacts DEF UpdateText
  <1>2. CASE ~Matches(request[r].version)
    BY <1>1, <1>2, TextUnchanged DEF UpdateText
  <1>3. CASE Matches(request[r].version)
    <2>1. story \in [version : 1..MaxVersion, text : Texts]
      BY <1>3 DEF Matches, ContentTypeOK
    <2>2. story' = [version |-> story.version + 1, text |-> text]
      BY <1>3 DEF UpdateText
    <2>3. story'.version = story.version + 1 /\ story.version \in Nat
      BY <2>1, <2>2, ContentAssumption
    <2>4. ASSUME NEW s \in Requests, At(s, "edit")'
          PROVE  /\ request'[s].version \in Nat
                 /\ request'[s].version < story'.version
      <3>1. At(s, "edit") /\ request'[s] = request[s]
        BY <1>1, <2>4 DEF At, OnlyRequest
      <3> QED BY <1>3, <2>3, <3>1 DEF TextInv, Matches
    <2>5. TextInv'
      BY <2>3, <2>4 DEF TextInv
    <2>6. request[r].saw = story.text
      BY <1>3 DEF Matches, UpdateText, TextInv
    <2> QED BY <2>5, <2>6
  <1> QED BY <1>2, <1>3

LEMMA TextHolds ==
    ASSUME StorageTypeOK, ContentTypeOK, TextInv, [Next]_vars
    PROVE  TextInv'
  <1>1. ASSUME NEW r \in Requests, Arrive(r) PROVE TextInv'
    <2>1. PICK q : IsNew(q) /\ Begin(r, q)
      BY <1>1, Arrivals
    <2>2. /\ request'[r] = q /\ OnlyRequest(r) /\ story' = story
          /\ q.at = "edit" => story # Nothing /\ q.version = story.version /\ q.saw = story.text
      BY <2>1, BeginFacts DEF IsNew, content
    <2>3. ASSUME story # Nothing PROVE story.version \in Nat
      <3>1. story \in [version : 1..MaxVersion, text : Texts]
        BY <2>3 DEF ContentTypeOK
      <3> QED BY <3>1, ContentAssumption
    <2> QED BY <2>2, <2>3 DEF TextInv, At, OnlyRequest
  <1>2. ASSUME NEW r \in Requests, Advance(r) PROVE TextInv'
    <2>1. CASE \E text \in Texts : UpdateText(r, text)
      BY <2>1, TextUpdated
    <2>2. CASE Done(r) /\ story' \in {story, Nothing}
      BY <2>2, DoneFacts, TextUnchanged
    <2>3. CASE CreateComment(r) \/ Notify(r)
      BY <2>3, GoesOnFacts, TextUnchanged DEF CreateComment, Notify, At, content
    <2>4. ASSUME NEW f \in Files, Upload(r, f) PROVE TextInv'
      <3>1. request[r] \in Request
        BY <2>4, RequestType DEF Upload, At
      <3>2. [request[r] EXCEPT !.at = "attach", !.rows = {f}].at = "attach"
        BY <3>1 DEF Request
      <3>3. request'[r] = [request[r] EXCEPT !.at = "attach", !.rows = {f}] /\ OnlyRequest(r)
        BY <2>4 DEF Upload, ContentTypeOK, OnlyRequest
      <3> QED BY <2>4, <3>2, <3>3, TextUnchanged DEF Upload, content
    <2>5. Tell(r) \/ UpdateComment(r) \/ DeleteComment(r) \/ Attach(r) \/ Detach(r) \/ DeleteStory(r)
            => Done(r) /\ story' \in {story, Nothing}
      BY DEF Tell, UpdateComment, DeleteComment, Attach, Detach, DeleteStory, content
    <2> QED BY <1>2, <2>1, <2>2, <2>3, <2>4, <2>5 DEF Advance
  <1>3. ASSUME UpdateStatus PROVE TextInv'
    <2>1. story \in [version : 1..MaxVersion, text : Texts]
      BY <1>3 DEF UpdateStatus, ContentTypeOK
    <2>2. story' = [story EXCEPT !.version = @ + 1]
      BY <1>3 DEF UpdateStatus
    <2>3. story'.version = story.version + 1 /\ story.version \in Nat
      BY <2>1, <2>2, ContentAssumption
    <2>4. \A r \in Requests : At(r, "edit")' => At(r, "edit") /\ request'[r] = request[r]
      BY <1>3 DEF UpdateStatus, At
    <2> QED BY <1>3, <2>3, <2>4 DEF TextInv, UpdateStatus
  <1>4. ASSUME UNCHANGED <<story, request>> PROVE TextInv'
    BY <1>4 DEF TextInv, At
  <1>5. UNCHANGED vars => UNCHANGED <<story, request>>
    BY DEF vars, content
  <1> QED BY <1>1, <1>2, <1>3, <1>4, <1>5 DEF Next, Assign, Unassign, content

-----------------------------------------------------------------------------
(* Comments and their notifications: a comment is written, its             *)
(* notifications are created and told by one request, once.                *)

Writes(r) == At(r, "comment") \/ At(r, "notify") \/ At(r, "tell")

WritersInv ==
    \A r \in Requests : Writes(r) =>
        /\ request[r].comment \in Comments
        /\ \A s \in Requests \ {r} : Writes(s) => request[s].comment # request[r].comment
        /\ IF At(r, "comment") THEN due[request[r].comment] = {}
           ELSE due[request[r].comment] = request[r].who

\* The marking of p is about the comment c.
IsRead(c, p) == marking[p].at # "nothing" /\ c \in marking[p].rows

\* The notification of one person, what that person was told of it, and what is about
\* to be: a row that was marked stays so until it is told, and what a marking finds
\* unread was created after its UPDATE.
Agree(c, p) ==
    /\ told[c][p] = "none" =>
         notification[c][p] \in {"none", "unread"} \/ (notification[c][p] = "read" /\ IsRead(c, p))
    /\ told[c][p] = "unread" =>
         notification[c][p] = "unread" \/ (notification[c][p] = "read" /\ IsRead(c, p))
    /\ told[c][p] \in {"read", "late"} =>
         \/ notification[c][p] \in {"read", "old", "gone"}
         \/ notification[c][p] = "unread" /\ c \in overtaken[p]
    /\ IsRead(c, p) /\ notification[c][p] = "unread" => c \in overtaken[p]
    /\ IsRead(c, p) /\ marking[p].at = "tell" => notification[c][p] # "none"

NoticesInv ==
    /\ \A c \in Comments, p \in People :
         /\ Agree(c, p)
         /\ notification[c][p] # "none" => p \in due[c]
         /\ notification[c][p] = "unread" /\ told[c][p] = "none" =>
              \E r \in Requests : At(r, "tell") /\ request[r].comment = c /\ p \in request[r].who
    /\ \A r \in Requests, p \in People :
         /\ At(r, "notify") => notification[request[r].comment][p] = "none"
         /\ At(r, "tell") /\ p \in request[r].who =>
              /\ notification[request[r].comment][p] # "none"
              /\ told[request[r].comment][p] \in {"none", "read"}

\* A request that does not write comments.
LEMMA WritersUnchanged ==
    ASSUME WritersInv, NoticesInv, NoticesTypeOK, NEW r \in Requests, OnlyRequest(r),
           UNCHANGED <<due, notices>>, ~At(r, "tell"), ~Writes(r)'
    PROVE  WritersInv' /\ NoticesInv' /\ NoticesTypeOK'
  <1>1. \A s \in Requests \ {r} :
          /\ Writes(s)' = Writes(s) /\ At(s, "comment")' = At(s, "comment")
          /\ At(s, "notify")' = At(s, "notify") /\ At(s, "tell")' = At(s, "tell")
    BY DEF OnlyRequest, Writes, At
  <1>2. WritersInv'
    BY <1>1 DEF WritersInv, OnlyRequest
  <1>3. NoticesInv'
    BY <1>1 DEF NoticesInv, Agree, IsRead, OnlyRequest, notices, Writes
  <1> QED BY <1>2, <1>3 DEF notices, NoticesTypeOK

LEMMA NewWriter ==
    ASSUME ContentTypeOK, WritersInv, NoticesInv, NoticesTypeOK, NEW r \in Requests, NEW q, IsNew(q), Begin(r, q)
    PROVE  WritersInv' /\ NoticesInv' /\ NoticesTypeOK'
  <1>1. /\ request[r] = Nothing /\ request'[r] = q /\ OnlyRequest(r) /\ UNCHANGED <<due, notices>>
    BY BeginFacts DEF IsNew, content
  <1>2. CASE q.at # "comment"
    BY <1>1, <1>2, WritersUnchanged DEF IsNew, Writes, At
  <1>3. CASE q.at = "comment"
    <2>1. \A s \in Requests \ {r} :
            /\ Writes(s)' = Writes(s) /\ At(s, "comment")' = At(s, "comment")
            /\ At(s, "notify")' = At(s, "notify") /\ At(s, "tell")' = At(s, "tell")
            /\ request'[s] = request[s]
      BY <1>1 DEF OnlyRequest, Writes, At
    <2>2. ~At(r, "notify")' /\ ~At(r, "tell")' /\ ~Writes(r)
      BY <1>1, <1>3 DEF At, Writes
    <2>3. WritersInv'
      BY <1>1, <1>3, <2>1, <2>2 DEF WritersInv, IsNew, At, Writes
    <2>4. NoticesInv'
      BY <1>1, <2>1, <2>2 DEF NoticesInv, Agree, IsRead, notices, Writes
    <2> QED BY <1>1, <2>3, <2>4 DEF notices, NoticesTypeOK
  <1> QED BY <1>2, <1>3

\* The steps of a request that writes a comment.
LEMMA WriterMoves ==
    ASSUME WritersInv, NEW r \in Requests, Writes(r), OnlyRequest(r),
           request'[r] # Nothing, Writes(r)', ~At(r, "comment")',
           request'[r].comment = request[r].comment, request'[r].who = request[r].who,
           due'[request[r].comment] = request[r].who,
           \A c \in Comments \ {request[r].comment} : due'[c] = due[c]
    PROVE  WritersInv'
  <1>1. \A s \in Requests \ {r} :
          Writes(s)' = Writes(s) /\ At(s, "comment")' = At(s, "comment") /\ request'[s] = request[s]
    BY DEF OnlyRequest, Writes, At
  <1> QED BY <1>1 DEF WritersInv

LEMMA CreateCommentKeeps ==
    ASSUME ContentTypeOK, WritersInv, NoticesInv, NoticesTypeOK, NEW r \in Requests, CreateComment(r)
    PROVE  WritersInv' /\ NoticesInv' /\ NoticesTypeOK'
  <1> DEFINE c == request[r].comment
  <1>1. /\ At(r, "comment") /\ Writes(r) /\ c \in Comments /\ due[c] = {}
        /\ due' = [due EXCEPT ![c] = request[r].who]
        /\ UNCHANGED notices
    BY DEF CreateComment, WritersInv, Writes
  <1>2. /\ request'[r] # Nothing /\ request'[r].at = "notify" /\ OnlyRequest(r)
        /\ request'[r].comment = c /\ request'[r].who = request[r].who
    <2>1. request' = [request EXCEPT ![r].at = "notify"] /\ request[r] # Nothing
      BY DEF CreateComment, At
    <2>2. request'[r] # Nothing
      BY <2>1, RequestAssumption, GoesOnFacts
    <2> QED BY <2>1, <2>2, GoesOnFacts
  <1>3. due'[c] = request[r].who /\ \A d \in Comments \ {c} : due'[d] = due[d]
    BY <1>1 DEF ContentTypeOK
  <1>4. Writes(r)' /\ ~At(r, "comment")' /\ ~At(r, "tell")' /\ ~At(r, "tell") /\ ~At(r, "notify")
    BY <1>1, <1>2 DEF Writes, At
  <1>5. WritersInv'
    BY <1>1, <1>2, <1>3, <1>4, WriterMoves
  <1>6. \A p \in People : notification[c][p] = "none"
    BY <1>1 DEF NoticesInv
  <1>7. \A s \in Requests \ {r} :
          At(s, "notify")' = At(s, "notify") /\ At(s, "tell")' = At(s, "tell") /\ request'[s] = request[s]
    BY <1>2 DEF OnlyRequest, At
  <1>8. \A d \in Comments, p \in People : notification[d][p] # "none" => p \in due'[d]
    BY <1>3, <1>6 DEF NoticesInv
  <1> HIDE DEF c
  <1>9. NoticesInv'
    BY <1>1, <1>2, <1>4, <1>6, <1>7, <1>8 DEF NoticesInv, Agree, IsRead, notices
  <1> QED BY <1>1, <1>5, <1>9 DEF notices, NoticesTypeOK

LEMMA NotifyKeeps ==
    ASSUME ContentTypeOK, WritersInv, NoticesInv, NoticesTypeOK, NEW r \in Requests, Notify(r)
    PROVE  WritersInv' /\ NoticesInv' /\ NoticesTypeOK'
  <1> DEFINE c == request[r].comment
             who == request[r].who
  <1>1. /\ At(r, "notify") /\ ~At(r, "comment") /\ ~At(r, "tell") /\ Writes(r)
        /\ c \in Comments /\ due[c] = who
        /\ UNCHANGED <<told, due, marking>>
        /\ notification' = [notification EXCEPT ![c] =
             [p \in People |-> IF p \in who THEN "unread" ELSE @[p]]]
        /\ overtaken' = [p \in People |->
             IF p \in who /\ marking[p].at = "select" /\ c \in marking[p].rows
             THEN overtaken[p] \cup {c}
             ELSE overtaken[p]]
    BY DEF Notify, CreateNotifications, WritersInv, Writes, At, content
  <1>2. /\ request'[r] # Nothing /\ request'[r].at = "tell" /\ OnlyRequest(r)
        /\ request'[r].comment = c /\ request'[r].who = who
    <2>1. request' = [request EXCEPT ![r].at = "tell"] /\ request[r] # Nothing
      BY DEF Notify, At
    <2>2. request'[r] # Nothing
      BY <2>1, RequestAssumption, GoesOnFacts
    <2> QED BY <2>1, <2>2, GoesOnFacts
  <1>3. At(r, "tell")' /\ ~At(r, "notify")' /\ ~At(r, "comment")' /\ Writes(r)'
    BY <1>2 DEF At, Writes
  <1>4. WritersInv'
    BY <1>1, <1>2, <1>3, WriterMoves
  <1>5. \A s \in Requests \ {r} :
          /\ At(s, "notify")' = At(s, "notify") /\ At(s, "tell")' = At(s, "tell")
          /\ request'[s] = request[s]
          /\ At(s, "notify") \/ At(s, "tell") => request[s].comment # c
    BY <1>1, <1>2 DEF OnlyRequest, At, WritersInv, Writes
  <1> HIDE DEF c, who
  <1>6. /\ \A d \in Comments \ {c} : notification'[d] = notification[d]
        /\ \A p \in People : notification'[c][p] = IF p \in who THEN "unread" ELSE notification[c][p]
        /\ NoticesTypeOK'
    BY <1>1 DEF NoticesTypeOK
  <1>7. \A p \in People : notification[c][p] = "none" /\ told[c][p] = "none"
    <2>1. \A p \in People :
            /\ notification[c][p] = "none" /\ Agree(c, p)
            /\ told[c][p] \in {"none", "unread", "read", "late"}
      BY <1>1 DEF NoticesInv, NoticesTypeOK, c
    <2> QED BY <2>1 DEF Agree
  <1>8. ASSUME NEW d \in Comments, NEW p \in People
        PROVE  Agree(d, p)' /\ (notification'[d][p] # "none" => p \in due'[d])
    <2>1. /\ IsRead(d, p)' = IsRead(d, p)
          /\ overtaken[p] \subseteq overtaken'[p]
          /\ p \in who /\ IsRead(c, p) /\ marking[p].at = "select" => c \in overtaken'[p]
      BY <1>1 DEF IsRead
    <2>2. IsRead(c, p) => marking[p].at = "select"
      BY <1>1, <1>7 DEF NoticesInv, Agree, IsRead, NoticesTypeOK, Marking
    <2>3. Agree(d, p) /\ (notification[d][p] # "none" => p \in due[d])
      BY DEF NoticesInv
    <2> QED BY <1>1, <1>6, <1>7, <2>1, <2>2, <2>3 DEF Agree
  <1>9. ASSUME NEW d \in Comments, NEW p \in People, notification'[d][p] = "unread", told'[d][p] = "none"
        PROVE  \E s \in Requests : At(s, "tell")' /\ request'[s].comment = d /\ p \in request'[s].who
    <2>1. CASE d = c
      BY <1>2, <1>3, <1>6, <1>7, <1>9, <2>1
    <2>2. CASE d # c
      <3>1. PICK s \in Requests : At(s, "tell") /\ request[s].comment = d /\ p \in request[s].who
        BY <1>1, <1>6, <1>9, <2>2 DEF NoticesInv
      <3> QED BY <1>1, <1>5, <3>1
    <2> QED BY <2>1, <2>2
  <1>10. ASSUME NEW s \in Requests, NEW p \in People
         PROVE  /\ At(s, "notify")' => notification'[request'[s].comment][p] = "none"
                /\ At(s, "tell")' /\ p \in request'[s].who =>
                     /\ notification'[request'[s].comment][p] # "none"
                     /\ told'[request'[s].comment][p] \in {"none", "read"}
    <2>1. CASE s = r
      BY <1>1, <1>2, <1>3, <1>6, <1>7, <2>1
    <2>2. CASE s # r
      BY <1>1, <1>4, <1>5, <1>6, <2>2 DEF NoticesInv, WritersInv, Writes
    <2> QED BY <2>1, <2>2
  <1>11. NoticesInv'
    BY <1>8, <1>9, <1>10 DEF NoticesInv
  <1> QED BY <1>4, <1>6, <1>11

LEMMA TellKeeps ==
    ASSUME ContentTypeOK, WritersInv, NoticesInv, NoticesTypeOK, NEW r \in Requests, Tell(r)
    PROVE  WritersInv' /\ NoticesInv' /\ NoticesTypeOK'
  <1> DEFINE c == request[r].comment
             who == request[r].who
  <1>1. /\ At(r, "tell") /\ Writes(r) /\ c \in Comments
        /\ UNCHANGED <<notification, due, marking, overtaken>>
        /\ told' = [told EXCEPT ![c] = [p \in People |->
             IF p \notin who THEN @[p] ELSE IF @[p] = "none" THEN "unread" ELSE "late"]]
    BY DEF Tell, TellCreation, WritersInv, Writes, At, content
  <1>2. request'[r] = Nothing /\ OnlyRequest(r)
    BY DoneFacts DEF Tell
  <1>3. ~At(r, "tell")' /\ ~At(r, "notify")' /\ ~At(r, "comment")' /\ ~Writes(r)'
    BY <1>2 DEF At, Writes
  <1>4. \A s \in Requests \ {r} :
          /\ At(s, "notify")' = At(s, "notify") /\ At(s, "tell")' = At(s, "tell")
          /\ At(s, "comment")' = At(s, "comment") /\ Writes(s)' = Writes(s)
          /\ request'[s] = request[s]
          /\ Writes(s) => request[s].comment # c /\ request[s].comment \in Comments
          /\ At(s, "notify") \/ At(s, "tell") => Writes(s)
    BY <1>1, <1>2 DEF OnlyRequest, At, WritersInv, Writes
  <1>5. WritersInv'
    BY <1>1, <1>3, <1>4 DEF WritersInv
  <1>6. \A p \in People : p \in who => notification[c][p] # "none" /\ told[c][p] \in {"none", "read"}
    BY <1>1 DEF NoticesInv
  <1> HIDE DEF c, who
  <1>7. /\ \A d \in Comments \ {c} : told'[d] = told[d]
        /\ \A p \in People : told'[c][p] =
             IF p \notin who THEN told[c][p] ELSE IF told[c][p] = "none" THEN "unread" ELSE "late"
        /\ NoticesTypeOK'
    BY <1>1 DEF NoticesTypeOK
  <1>8. \A d \in Comments, p \in People :
          /\ Agree(d, p)'
          /\ notification'[d][p] # "none" => p \in due'[d]
    BY <1>1, <1>6, <1>7 DEF NoticesInv, Agree, IsRead
  <1>9. ASSUME NEW d \in Comments, NEW p \in People, notification'[d][p] = "unread", told'[d][p] = "none"
        PROVE  \E s \in Requests : At(s, "tell")' /\ request'[s].comment = d /\ p \in request'[s].who
    <2>1. told[d][p] = "none" /\ ~(d = c /\ p \in who)
      BY <1>7, <1>9
    <2>2. PICK s \in Requests : At(s, "tell") /\ request[s].comment = d /\ p \in request[s].who
      BY <1>1, <1>9, <2>1 DEF NoticesInv
    <2>3. s # r
      BY <2>1, <2>2 DEF c, who
    <2> QED BY <1>4, <2>2, <2>3
  <1>10. ASSUME NEW s \in Requests, NEW p \in People
         PROVE  /\ At(s, "notify")' => notification'[request'[s].comment][p] = "none"
                /\ At(s, "tell")' /\ p \in request'[s].who =>
                     /\ notification'[request'[s].comment][p] # "none"
                     /\ told'[request'[s].comment][p] \in {"none", "read"}
    BY <1>1, <1>3, <1>4, <1>7 DEF NoticesInv
  <1>11. NoticesInv'
    BY <1>8, <1>9, <1>10 DEF NoticesInv
  <1> QED BY <1>5, <1>7, <1>11

\* The steps on the notifications of one person at a time.
LEMMA MarkAsReadFacts ==
    ASSUME NoticesTypeOK, NEW p \in People, NEW rows \in SUBSET Comments, MarkAsRead(p, rows)
    PROVE  /\ NoticesTypeOK'
           /\ marking[p] = NoMarking /\ marking'[p].at = "select" /\ marking'[p].rows = rows
           /\ \A q \in People \ {p} : marking'[q] = marking[q]
           /\ told' = told /\ overtaken' = overtaken
           /\ \A c \in Comments, q \in People : notification'[c][q] =
                IF c \in rows /\ q = p /\ notification[c][p] \in {"unread", "read", "old"}
                THEN "read" ELSE notification[c][q]
  BY DEF MarkAsRead, ListMyNotifications, ReadFilter, NoticesTypeOK, Marking

LEMMA SelectMarkedFacts ==
    ASSUME NoticesTypeOK, NEW p \in People, SelectMarked(p)
    PROVE  /\ NoticesTypeOK'
           /\ marking[p].at = "select" /\ marking'[p].at = "tell"
           /\ \A c : c \in marking'[p].rows <=>
                /\ c \in marking[p].rows
                /\ c \in Comments /\ notification[c][p] \in {"unread", "read", "old"}
           /\ \A q \in People \ {p} : marking'[q] = marking[q]
           /\ UNCHANGED <<notification, told, overtaken>>
  BY DEF SelectMarked, ListMyNotifications, ReadFilter, NoticesTypeOK, Marking

LEMMA TellReadingFacts ==
    ASSUME NoticesTypeOK, NEW p \in People, TellReading(p)
    PROVE  /\ NoticesTypeOK'
           /\ marking[p].at = "tell" /\ marking'[p] = NoMarking
           /\ \A q \in People \ {p} : marking'[q] = marking[q]
           /\ UNCHANGED <<notification, overtaken>>
           /\ \A c \in Comments, q \in People :
                told'[c][q] = IF c \in marking[p].rows /\ q = p THEN "read" ELSE told[c][q]
  BY DEF TellReading, NoMarking, NoticesTypeOK, Marking

LEMMA AgeFacts ==
    ASSUME NoticesTypeOK, NEW p \in People, NEW c \in Comments, Age(c, p)
    PROVE  /\ NoticesTypeOK'
           /\ notification[c][p] = "read" /\ marking[p] = NoMarking
           /\ UNCHANGED <<told, marking, overtaken>>
           /\ \A d \in Comments, q \in People :
                notification'[d][q] = IF d = c /\ q = p THEN "old" ELSE notification[d][q]
  BY DEF Age, NoticesTypeOK

LEMMA CleanFacts ==
    ASSUME NoticesTypeOK, CleanReadNotifications
    PROVE  /\ NoticesTypeOK'
           /\ UNCHANGED <<told, marking, overtaken>>
           /\ \A c \in Comments, p \in People :
                notification'[c][p] = IF notification[c][p] = "old" THEN "gone" ELSE notification[c][p]
  BY DEF CleanReadNotifications, NoticesTypeOK

LEMMA NoticesStepKeeps ==
    ASSUME WritersInv, NoticesInv, NoticesTypeOK, NoticesStep, UNCHANGED <<request, due>>
    PROVE  WritersInv' /\ NoticesInv' /\ NoticesTypeOK'
  <1>1. \A s \in Requests :
          /\ At(s, "notify")' = At(s, "notify") /\ At(s, "tell")' = At(s, "tell")
          /\ At(s, "comment")' = At(s, "comment") /\ Writes(s)' = Writes(s)
          /\ Writes(s) => request[s].comment \in Comments
          /\ At(s, "notify") \/ At(s, "tell") => Writes(s)
    BY DEF At, Writes, WritersInv
  <1>2. WritersInv'
    BY <1>1 DEF WritersInv
  <1> DEFINE Follows(c, p) ==
               /\ notification'[c][p] = "none" <=> notification[c][p] = "none"
               /\ notification'[c][p] = "unread" => notification[c][p] = "unread"
               /\ told'[c][p] \in {told[c][p], "read"}
  <1>3. ASSUME NoticesTypeOK', \A c \in Comments, p \in People : Agree(c, p)' /\ Follows(c, p)
        PROVE  NoticesInv'
    BY <1>1, <1>3 DEF NoticesInv
  <1>4. \A c \in Comments, p \in People : Agree(c, p)
    BY DEF NoticesInv
  <1>5. ASSUME NEW p \in People, NEW rows \in SUBSET Comments, MarkAsRead(p, rows)
        PROVE  NoticesInv' /\ NoticesTypeOK'
    <2>1. \A c \in Comments, q \in People : Follows(c, q)
      BY <1>5, MarkAsReadFacts
    <2>2. \A c \in Comments : ~IsRead(c, p) /\ (IsRead(c, p)' <=> c \in rows)
      BY <1>5, MarkAsReadFacts DEF IsRead, NoMarking
    <2>3. \A c \in Comments, q \in People \ {p} : IsRead(c, q)' = IsRead(c, q)
      BY <1>5, MarkAsReadFacts DEF IsRead
    <2>4. ASSUME NEW c \in Comments PROVE Agree(c, p)'
      BY <1>4, <1>5, <2>2, MarkAsReadFacts DEF Agree, NoticesTypeOK
    <2>5. ASSUME NEW c \in Comments, NEW q \in People \ {p} PROVE Agree(c, q)'
      BY <1>4, <1>5, <2>3, MarkAsReadFacts DEF Agree
    <2> QED BY <1>3, <1>5, <2>1, <2>4, <2>5, MarkAsReadFacts
  <1>6. ASSUME NEW p \in People, SelectMarked(p)
        PROVE  NoticesInv' /\ NoticesTypeOK'
    <2>1. \A c \in Comments, q \in People : Follows(c, q)
      BY <1>6, SelectMarkedFacts
    <2>2. \A c \in Comments :
            IsRead(c, p)' <=> IsRead(c, p) /\ notification[c][p] \in {"unread", "read", "old"}
      BY <1>6, SelectMarkedFacts DEF IsRead
    <2>3. \A c \in Comments, q \in People \ {p} : IsRead(c, q)' = IsRead(c, q)
      BY <1>6, SelectMarkedFacts DEF IsRead
    <2>4. ASSUME NEW c \in Comments PROVE Agree(c, p)'
      BY <1>4, <1>6, <2>2, SelectMarkedFacts DEF Agree
    <2>5. ASSUME NEW c \in Comments, NEW q \in People \ {p} PROVE Agree(c, q)'
      BY <1>4, <1>6, <2>3, SelectMarkedFacts DEF Agree
    <2> QED BY <1>3, <1>6, <2>1, <2>4, <2>5, SelectMarkedFacts
  <1>7. ASSUME NEW p \in People, TellReading(p)
        PROVE  NoticesInv' /\ NoticesTypeOK'
    <2>1. \A c \in Comments, q \in People : Follows(c, q)
      BY <1>7, TellReadingFacts
    <2>2. \A c \in Comments : ~IsRead(c, p)' /\ (IsRead(c, p) <=> c \in marking[p].rows)
      BY <1>7, TellReadingFacts DEF IsRead, NoMarking
    <2>3. \A c \in Comments, q \in People \ {p} : IsRead(c, q)' = IsRead(c, q)
      BY <1>7, TellReadingFacts DEF IsRead
    <2>4. ASSUME NEW c \in Comments PROVE Agree(c, p)'
      BY <1>4, <1>7, <2>2, TellReadingFacts DEF Agree, NoticesTypeOK
    <2>5. ASSUME NEW c \in Comments, NEW q \in People \ {p} PROVE Agree(c, q)'
      BY <1>4, <1>7, <2>3, TellReadingFacts DEF Agree
    <2> QED BY <1>3, <1>7, <2>1, <2>4, <2>5, TellReadingFacts
  <1>8. ASSUME NEW p \in People, NEW c \in Comments, Age(c, p)
        PROVE  NoticesInv' /\ NoticesTypeOK'
    <2>1. \A d \in Comments, q \in People : Follows(d, q) /\ IsRead(d, q)' = IsRead(d, q)
      BY <1>8, AgeFacts DEF IsRead
    <2>2. \A d \in Comments : ~IsRead(d, p)
      BY <1>8, AgeFacts DEF IsRead, NoMarking
    <2>3. ASSUME NEW d \in Comments, NEW q \in People PROVE Agree(d, q)'
      BY <1>4, <1>8, <2>1, <2>2, AgeFacts DEF Agree, NoticesTypeOK
    <2> QED BY <1>3, <1>8, <2>1, <2>3, AgeFacts
  <1>9. ASSUME CleanReadNotifications PROVE NoticesInv' /\ NoticesTypeOK'
    <2>1. \A d \in Comments, q \in People : Follows(d, q) /\ IsRead(d, q)' = IsRead(d, q)
      BY <1>9, CleanFacts DEF IsRead
    <2>2. ASSUME NEW d \in Comments, NEW q \in People PROVE Agree(d, q)'
      BY <1>4, <1>9, <2>1, CleanFacts DEF Agree
    <2> QED BY <1>3, <1>9, <2>1, <2>2, CleanFacts
  <1> HIDE DEF Follows
  <1> QED BY <1>2, <1>5, <1>6, <1>7, <1>8, <1>9
          DEF NoticesStep, MarkAllMyNotificationsAsRead, MarkMyNotificationAsRead

LEMMA NoticesHold ==
    ASSUME StorageTypeOK, ContentTypeOK, WritersInv, NoticesInv, NoticesTypeOK, [Next]_vars
    PROVE  WritersInv' /\ NoticesInv' /\ NoticesTypeOK'
  <1>1. ASSUME NEW r \in Requests, Arrive(r)
        PROVE  WritersInv' /\ NoticesInv' /\ NoticesTypeOK'
    BY <1>1, Arrivals, NewWriter
  <1>2. ASSUME NEW r \in Requests, Advance(r)
        PROVE  WritersInv' /\ NoticesInv' /\ NoticesTypeOK'
    <2>1. ASSUME Done(r), UNCHANGED <<due, notices>>, ~At(r, "tell")
          PROVE  WritersInv' /\ NoticesInv' /\ NoticesTypeOK'
      BY <2>1, DoneFacts, WritersUnchanged DEF Writes, At
    <2>2. ASSUME NEW f \in Files, Upload(r, f)
          PROVE  WritersInv' /\ NoticesInv' /\ NoticesTypeOK'
      <3>1. request[r] \in Request
        BY <2>2, RequestType DEF Upload, At
      <3>2. [request[r] EXCEPT !.at = "attach", !.rows = {f}].at = "attach"
        BY <3>1 DEF Request
      <3>3. request'[r] = [request[r] EXCEPT !.at = "attach", !.rows = {f}] /\ OnlyRequest(r)
        BY <2>2 DEF Upload, ContentTypeOK, OnlyRequest
      <3>4. ~At(r, "tell") /\ UNCHANGED <<due, notices>>
        BY <2>2 DEF Upload, At, content
      <3> QED BY <3>2, <3>3, <3>4, WritersUnchanged DEF Writes, At
    <2>3. (\E text \in Texts : UpdateText(r, text)) \/ UpdateComment(r) \/ DeleteComment(r)
            \/ Attach(r) \/ Detach(r) \/ DeleteStory(r)
            => Done(r) /\ UNCHANGED <<due, notices>> /\ ~At(r, "tell")
      BY DEF UpdateText, UpdateComment, DeleteComment, Attach, Detach, DeleteStory, At, content
    <2> QED BY <1>2, <2>1, <2>2, <2>3, CreateCommentKeeps, NotifyKeeps, TellKeeps DEF Advance
  <1>3. ASSUME UNCHANGED <<request, due, notices>>
        PROVE  WritersInv' /\ NoticesInv' /\ NoticesTypeOK'
    BY <1>3 DEF WritersInv, NoticesInv, Agree, IsRead, NoticesTypeOK, notices, Writes, At
  <1>4. UpdateStatus \/ (\E p \in People : Assign(p) \/ Unassign(p)) \/ UNCHANGED vars
          => UNCHANGED <<request, due, notices>>
    BY DEF UpdateStatus, Assign, Unassign, vars, content
  <1>5. (\E r \in Requests :
           part = "tags" /\ TagsStep(r, StoriesThere) /\ UNCHANGED <<storage, notices, content, request>>)
          \/ (StorageStep /\ UNCHANGED <<notices, tags, content, request>>)
          => UNCHANGED <<request, due, notices>>
    BY DEF content
  <1>6. NoticesStep /\ UNCHANGED <<storage, tags, content, request>>
          => WritersInv' /\ NoticesInv' /\ NoticesTypeOK'
    BY NoticesStepKeeps DEF content
  <1> QED BY <1>1, <1>2, <1>3, <1>4, <1>5, <1>6 DEF Next

\* What is shown as unread is stored as such once nothing is on its way, and so is
\* the other way round, but for what was created between two queries.
LEMMA NoticesSuffice ==
    ASSUME NoticesTypeOK, WritersInv, NoticesInv
    PROVE  UnreadIsShownAsCounted
  <1> SUFFICES ASSUME NEW p \in People,
                      ~(\E r \in Requests : At(r, "tell") /\ p \in request[r].who),
                      marking[p] = NoMarking
               PROVE  LET shownUnread == {c \in Comments : told[c][p] = "unread"} IN
                      /\ shownUnread \subseteq ListMyNotifications(p, "no")
                      /\ ListMyNotifications(p, "no") \subseteq shownUnread \cup overtaken[p]
                      /\ CountMyNotifications(p).unread <= Cardinality(shownUnread \cup overtaken[p])
                      /\ CountMyNotifications(p).total = Cardinality(ListMyNotifications(p, "any"))
    BY DEF UnreadIsShownAsCounted
  <1> DEFINE shownUnread == {c \in Comments : told[c][p] = "unread"}
             read == ListMyNotifications(p, "yes")
             unread == ListMyNotifications(p, "no")
  <1>1. \A c \in Comments :
          /\ told[c][p] = "unread" => notification[c][p] = "unread"
          /\ notification[c][p] = "unread" => told[c][p] = "unread" \/ c \in overtaken[p]
    BY DEF NoticesInv, Agree, IsRead, NoMarking, NoticesTypeOK
  <1>2. shownUnread \subseteq unread /\ unread \subseteq shownUnread \cup overtaken[p]
    BY <1>1 DEF ListMyNotifications, ReadFilter
  <1>3. /\ read \subseteq Comments /\ unread \subseteq Comments
        /\ shownUnread \cup overtaken[p] \subseteq Comments
    BY DEF ListMyNotifications, NoticesTypeOK
  <1>4. IsFiniteSet(read) /\ IsFiniteSet(unread) /\ IsFiniteSet(shownUnread \cup overtaken[p])
    BY <1>3, CommentsAssumption, FS_Subset
  <1>5. read \cap unread = {} /\ read \cup unread = ListMyNotifications(p, "any")
    BY DEF ListMyNotifications, ReadFilter
  <1>6. Cardinality(read \cup unread) = Cardinality(read) + Cardinality(unread)
    <2>1. Cardinality(read \cap unread) = 0
      BY <1>5, FS_EmptySet
    <2>2. Cardinality(read) \in Nat /\ Cardinality(unread) \in Nat
      BY <1>4, FS_CardinalityType
    <2>3. Cardinality(read \cup unread) = Cardinality(read) + Cardinality(unread) - Cardinality(read \cap unread)
      BY <1>4, FS_Union
    <2> HIDE DEF read, unread
    <2> QED BY <2>1, <2>2, <2>3
  <1>7. /\ CountMyNotifications(p).unread = Cardinality(unread)
        /\ CountMyNotifications(p).total = Cardinality(read) + Cardinality(unread)
    BY DEF CountMyNotifications, CountNotifications
  <1>8. Cardinality(unread) <= Cardinality(shownUnread \cup overtaken[p])
    BY <1>2, <1>4, FS_Subset
  <1> QED BY <1>2, <1>5, <1>6, <1>7, <1>8

-----------------------------------------------------------------------------
(* A comment that was deleted does not come back.                          *)

LEMMA DeletedCommentsStep ==
    ASSUME StorageTypeOK, ContentTypeOK, WritersInv, [Next]_vars,
           NEW c \in Comments, due[c] # {}, ~IsVisible(c)
    PROVE  /\ ~IsVisible(c)'
           /\ GetCommentsCount' <= Cardinality(Comments \ {c})
           /\ \A row \in ListStoryComments' : row.comment = c => row.deleted
  <1>1. ~IsVisible(c)'
    <2>1. ASSUME NEW r \in Requests, CreateComment(r) PROVE ~IsVisible(c)'
      <3>1. request[r].comment \in Comments /\ due[request[r].comment] = {}
        BY <2>1 DEF CreateComment, WritersInv, Writes
      <3>2. comment'[c] = comment[c]
        BY <2>1, <3>1, NewComment DEF CreateComment
      <3> QED BY <3>2 DEF IsVisible
    <2>2. ASSUME NEW r \in Requests, UpdateComment(r) \/ DeleteComment(r) PROVE ~IsVisible(c)'
      <3>1. \E row \in CommentRow : (row.text = "" => row.deleted) /\ SaveComment(request[r].comment, row)
        BY <2>2 DEF UpdateComment, DeleteComment, CommentRow
      <3> QED BY <3>1, CommentRows
    <2>3. ASSUME NEW r \in Requests, DeleteStory(r) PROVE ~IsVisible(c)'
      <3>1. comment' = comment \/ comment' = [d \in Comments |-> Nothing]
        BY <2>3 DEF DeleteStory, content
      <3> QED BY <3>1 DEF IsVisible
    <2>4. ASSUME NEW r \in Requests, Arrive(r) PROVE comment' = comment
      BY <2>4, Arrivals, BeginFacts DEF IsNew, content
    <2>5. comment' = comment => ~IsVisible(c)'
      BY DEF IsVisible
    <2> QED BY <2>1, <2>2, <2>3, <2>4, <2>5
        DEF Next, Advance, UpdateText, Notify, Tell, Upload, Attach, Detach, UpdateStatus, Assign,
            Unassign, vars, content
  <1>2. GetCommentsCount' <= Cardinality(Comments \ {c})
    <2> DEFINE visible == {d \in Comments : IsVisible(d)}
    <2>1. visible' \subseteq Comments \ {c}
      BY <1>1
    <2>2. IsFiniteSet(Comments \ {c})
      BY CommentsAssumption, FS_Subset
    <2>3. Cardinality(visible') <= Cardinality(Comments \ {c})
      BY <2>1, <2>2, FS_Subset
    <2> QED BY <2>3 DEF GetCommentsCount
  <1>3. \A row \in ListStoryComments' : row.comment = c => row.deleted
    <2> SUFFICES ASSUME NEW row \in ListStoryComments', row.comment = c
                 PROVE  row.deleted
      OBVIOUS
    <2>1. PICK d \in Comments : row = [comment |-> d, deleted |-> ~IsVisible(d)']
      BY DEF ListStoryComments
    <2> QED BY <1>1, <2>1
  <1> QED BY <1>1, <1>2, <1>3

-----------------------------------------------------------------------------
(* Tags: a request that is sure is alone on its tag, and what is shown of  *)
(* it was right when the request began.                                    *)

LEMMA EntryFacts ==
    ASSUME NEW t \in Tags
    PROVE  /\ ListStoryTags[t] = [there |-> t \in ProjectTags, count |-> StoriesCount(t)]
           /\ ListStoryTags[t] \in Entry
           /\ [there |-> TRUE, count |-> StoriesCount(t)] \in Entry
           /\ Absent \in Entry /\ [there |-> TRUE, count |-> 0] \in Entry
  <1>1. StoriesCount(t) \in 0..Cardinality(Stories) /\ Cardinality(Stories) \in Nat
    <2> DEFINE has == {s \in Stories : <<s, t>> \in tagged}
    <2>1. IsFiniteSet(has) /\ Cardinality(has) <= Cardinality(Stories)
      BY TagsAssumption, FS_Subset
    <2>2. Cardinality(has) \in Nat /\ Cardinality(Stories) \in Nat
      BY <2>1, TagsAssumption, FS_CardinalityType
    <2> HIDE DEF has
    <2> QED BY <2>1, <2>2 DEF StoriesCount, has
  <1>2. ListStoryTags[t] = [there |-> t \in ProjectTags, count |-> StoriesCount(t)]
    BY DEF ListStoryTags
  <1> QED BY <1>1, <1>2 DEF Entry, Absent

\* What of the requests on tags the argument is about.
Same(x) ==
    /\ tagging'[x] = Nothing <=> tagging[x] = Nothing
    /\ tagging[x] # Nothing =>
         /\ tagging'[x].tag = tagging[x].tag /\ tagging'[x].at = tagging[x].at
         /\ tagging'[x].told = tagging[x].told
         /\ tagging'[x].sure => tagging[x].sure

LEMMA TaggingType ==
    ASSUME TagsTypeOK, NEW r \in Requests, tagging[r] # Nothing
    PROVE  /\ tagging[r] \in Tagging /\ tagging[r].tag \in Tags /\ tagging[r].told \in Entry
           /\ tagging[r].story \in Stories \cup {Nothing} /\ tagging[r].sure \in BOOLEAN
  <1>1. tagging[r] \in Tagging
    BY DEF TagsTypeOK
  <1> QED BY <1>1 DEF Tagging

\* A field more or less.
LEMMA TaggingFields ==
    ASSUME NEW q \in Tagging
    PROVE  /\ LET n == [q EXCEPT !.sure = FALSE] IN
              /\ n \in Tagging /\ ~n.sure
              /\ n.tag = q.tag /\ n.at = q.at /\ n.told = q.told
           /\ LET n == [q EXCEPT !.row = FALSE] IN
              /\ n \in Tagging /\ n.sure = q.sure
              /\ n.tag = q.tag /\ n.at = q.at /\ n.told = q.told
  BY DEF Tagging

LEMMA ContinueFacts ==
    ASSUME TagsTypeOK, NEW r \in Requests, tagging[r] # Nothing,
           NEW entry \in Entry, NEW at \in {"count", "refresh", "publish"}, Continue(r, at, entry)
    PROVE  /\ tagging' \in [Requests -> Tagging \cup {Nothing}] /\ UNCHANGED shown
           /\ tagging'[r] # Nothing /\ tagging'[r].tag = tagging[r].tag
           /\ tagging'[r].sure = tagging[r].sure
           /\ tagging'[r].at = at /\ tagging'[r].told = entry
           /\ \A x \in Requests \ {r} : tagging'[x] = tagging[x]
  <1> DEFINE Going(q) == [q EXCEPT !.at = at, !.told = entry]
  <1>0. \A q \in Tagging :
          /\ Going(q) \in Tagging /\ Going(q).tag = q.tag /\ Going(q).sure = q.sure
          /\ Going(q).at = at /\ Going(q).told = entry
    <2> SUFFICES ASSUME NEW q \in Tagging
                 PROVE  /\ Going(q) \in Tagging /\ Going(q).tag = q.tag /\ Going(q).sure = q.sure
                        /\ Going(q).at = at /\ Going(q).told = entry
      OBVIOUS
    <2> DEFINE k == [q EXCEPT !.at = at]
    <2>1. k \in Tagging /\ k.tag = q.tag /\ k.sure = q.sure /\ k.at = at
      BY DEF Tagging
    <2>2. Going(q) = [k EXCEPT !.told = entry]
      OBVIOUS
    <2> HIDE DEF k, Going
    <2> QED BY <2>1, <2>2 DEF Tagging
  <1>1. tagging' = [tagging EXCEPT ![r] = Going(tagging[r])] /\ UNCHANGED shown
    BY DEF Continue
  <1>2. tagging[r] \in Tagging
    BY TaggingType
  <1> HIDE DEF Going
  <1> QED BY <1>0, <1>1, <1>2, TaggingAssumption DEF TagsTypeOK

LEMMA LeaveFacts ==
    ASSUME TagsTypeOK, NEW r \in Requests, tagging' = [tagging EXCEPT ![r] = Nothing]
    PROVE  /\ tagging' \in [Requests -> Tagging \cup {Nothing}]
           /\ tagging'[r] = Nothing
           /\ \A x \in Requests \ {r} : tagging'[x] = tagging[x]
  BY DEF TagsTypeOK

LEMMA MissingFacts ==
    ASSUME TagsTypeOK, NEW gone
    PROVE  /\ Missing(gone) \in [Requests -> Tagging \cup {Nothing}]
           /\ \A x \in Requests :
                /\ Missing(gone)[x] = Nothing <=> tagging[x] = Nothing
                /\ tagging[x] # Nothing =>
                     /\ Missing(gone)[x].tag = tagging[x].tag
                     /\ Missing(gone)[x].at = tagging[x].at
                     /\ Missing(gone)[x].told = tagging[x].told
                     /\ Missing(gone)[x].sure = tagging[x].sure
  <1>1. ASSUME NEW x \in Requests
        PROVE  /\ Missing(gone)[x] \in Tagging \cup {Nothing}
               /\ Missing(gone)[x] = Nothing <=> tagging[x] = Nothing
               /\ tagging[x] # Nothing =>
                    /\ Missing(gone)[x].tag = tagging[x].tag
                    /\ Missing(gone)[x].at = tagging[x].at
                    /\ Missing(gone)[x].told = tagging[x].told
                    /\ Missing(gone)[x].sure = tagging[x].sure
    <2>1. CASE tagging[x] = Nothing
      BY <2>1 DEF Missing, TaggingAt
    <2>2. CASE tagging[x] # Nothing
      <3>1. tagging[x] \in Tagging
        BY <2>2, TaggingType
      <3>2. Missing(gone)[x] \in {tagging[x], [tagging[x] EXCEPT !.row = FALSE]}
        BY DEF Missing
      <3> QED BY <3>1, <3>2, <2>2, TaggingFields, TaggingAssumption
    <2> QED BY <2>1, <2>2
  <1>2. Missing(gone) = [x \in Requests |-> Missing(gone)[x]]
    BY DEF Missing
  <1> QED BY <1>1, <1>2

Before == {"create", "update", "delete", "assign", "unassign"}

OnThere == {"update", "delete", "assign", "count", "unassign", "refresh"}

\* What a request that is sure knows of its tag.
IsRight(r) ==
    LET t == tagging[r].tag IN
    /\ \A s \in Requests \ {r} : tagging[s] # Nothing => tagging[s].tag # t
    /\ tagging[r].at \in Before => IsShownAsItIs(t)
    /\ tagging[r].at \in OnThere => t \in ProjectTags
    /\ tagging[r].at = "create" => t \notin ProjectTags
    /\ tagging[r].at \in {"update", "publish"} => tagging[r].told = ListStoryTags[t]

TagsInv == \A r \in Requests : tagging[r] # Nothing /\ tagging[r].sure => IsRight(r)

\* Nothing of the tag changes.
TagUnchanged(t) ==
    /\ label'[t] = label[t] /\ shown'[t] = shown[t]
    /\ \A s : <<s, t>> \in tagged' <=> <<s, t>> \in tagged

LEMMA TagUnchangedFacts ==
    ASSUME NEW t \in Tags, TagUnchanged(t)
    PROVE  /\ (t \in ProjectTags)' = (t \in ProjectTags)
           /\ (ListStoryTags[t])' = ListStoryTags[t]
           /\ IsShownAsItIs(t)' = IsShownAsItIs(t)
  <1>1. (t \in ProjectTags)' = (t \in ProjectTags)
    BY DEF ProjectTags, TagUnchanged
  <1>2. StoriesCount(t)' = StoriesCount(t)
    <2>1. {s \in Stories : <<s, t>> \in tagged'} = {s \in Stories : <<s, t>> \in tagged}
      BY DEF TagUnchanged
    <2> QED BY <2>1 DEF StoriesCount
  <1>3. (ListStoryTags[t])' = ListStoryTags[t]
    BY <1>1, <1>2 DEF ListStoryTags
  <1> HIDE DEF ListStoryTags
  <1> QED BY <1>1, <1>3 DEF IsShownAsItIs, TagUnchanged

\* It is enough to look at the request that acts and at its tag.
LEMMA OneTagSuffices ==
    ASSUME TagsTypeOK, TagsInv, NEW r \in Requests, NEW t \in Tags,
           \A u \in Tags \ {t} : TagUnchanged(u),
           \A x \in Requests \ {r} : Same(x),
           \A x \in Requests \ {r} :
             tagging[x] # Nothing /\ tagging[x].tag = t => ~tagging'[x].sure,
           tagging'[r] # Nothing => tagging'[r].tag = t,
           tagging'[r] # Nothing /\ tagging'[r].sure => IsRight(r)'
    PROVE  TagsInv'
  <1> SUFFICES ASSUME NEW x \in Requests, tagging'[x] # Nothing, tagging'[x].sure, x # r
               PROVE  IsRight(x)'
    BY DEF TagsInv
  <1>1. /\ tagging[x] # Nothing /\ tagging[x].sure
        /\ tagging'[x].tag = tagging[x].tag /\ tagging'[x].at = tagging[x].at
        /\ tagging'[x].told = tagging[x].told
    BY DEF Same
  <1>2. IsRight(x) /\ tagging[x].tag \in Tags \ {t}
    BY <1>1, TaggingType DEF TagsInv
  <1>3. PICK u \in Tags \ {t} : u = tagging[x].tag /\ u = tagging'[x].tag
    BY <1>1, <1>2
  <1>4. /\ (u \in ProjectTags)' = (u \in ProjectTags)
        /\ (ListStoryTags[u])' = ListStoryTags[u]
        /\ IsShownAsItIs(u)' = IsShownAsItIs(u)
    BY TagUnchangedFacts
  <1>5. \A s \in Requests \ {x} : tagging'[s] # Nothing => tagging'[s].tag # u
    BY <1>2, <1>3 DEF Same, IsRight
  <1> QED BY <1>1, <1>2, <1>3, <1>4, <1>5 DEF IsRight

\* The steps of a request on its tag.
LEMMA ActorSuffices ==
    ASSUME TagsTypeOK, TagsInv, NEW r \in Requests, NEW t \in Tags,
           tagging[r] # Nothing, tagging[r].tag = t,
           \A u \in Tags \ {t} : TagUnchanged(u),
           \A x \in Requests \ {r} : Same(x),
           tagging'[r] # Nothing =>
             /\ tagging'[r].tag = t /\ tagging'[r].sure = tagging[r].sure
             /\ tagging'[r].at \in {"count", "refresh", "publish"}
             /\ IsRight(r) /\ tagging'[r].at # "publish" => (t \in ProjectTags)'
             /\ IsRight(r) /\ tagging'[r].at = "publish" => tagging'[r].told = (ListStoryTags[t])'
    PROVE  TagsInv'
  <1>1. ASSUME NEW x \in Requests \ {r}, tagging[x] # Nothing, tagging[x].tag = t
        PROVE  ~tagging'[x].sure
    BY <1>1 DEF TagsInv, IsRight, Same
  <1>2. ASSUME tagging'[r] # Nothing, tagging'[r].sure
        PROVE  IsRight(r)'
    <2>1. IsRight(r) /\ tagging'[r].tag = t
      BY <1>2 DEF TagsInv
    <2>2. \A s \in Requests \ {r} : tagging'[s] # Nothing => tagging'[s].tag # t
      BY <2>1 DEF IsRight, Same
    <2>3. tagging'[r].at \notin Before /\ tagging'[r].at \notin {"create", "update", "delete", "assign", "unassign"}
      BY <1>2 DEF Before
    <2>4. tagging'[r].at \in OnThere => tagging'[r].at # "publish"
      BY DEF OnThere
    <2> QED BY <1>2, <2>1, <2>2, <2>3, <2>4 DEF IsRight
  <1> QED BY <1>1, <1>2, OneTagSuffices

\* Others do not change.
LEMMA SameWhenEqual == ASSUME NEW x, tagging'[x] = tagging[x] PROVE Same(x)
  BY DEF Same

LEMMA TagUnchangedWhenEqual ==
    ASSUME NEW t \in Tags, UNCHANGED tagged, label'[t] = label[t], shown'[t] = shown[t]
    PROVE  TagUnchanged(t)
  BY DEF TagUnchanged

\* A step of a request that is sure shows its tag as it is if it is the last.
TagsStepHolds(r) ==
    /\ TagsTypeOK' /\ TagsInv'
    /\ \A x \in Requests \ {r} : tagging'[x] = Nothing => tagging[x] = Nothing
    /\ tagging[r] # Nothing =>
         \A t \in Tags :
             t = tagging[r].tag /\ tagging[r].sure /\ tagging'[r] = Nothing => IsShownAsItIs(t)'

LEMMA BeginTaggingHolds ==
    ASSUME TagsTypeOK, TagsInv, NEW r \in Requests, NEW t \in Tags,
           NEW s \in Stories \cup {Nothing}, NEW at \in Before,
           BeginTagging(r, at, t, s),
           at \in OnThere => t \in ProjectTags, at = "create" => t \notin ProjectTags
    PROVE  TagsStepHolds(r)
  <1> DEFINE entry == IF at = "update" THEN ListStoryTags[t] ELSE Absent
             sure == OnTag(t) = {} /\ IsShownAsItIs(t)
             q == [at |-> at, tag |-> t, story |-> s, row |-> TRUE, told |-> entry, sure |-> sure]
  <1>1. /\ tagging[r] = Nothing /\ UNCHANGED <<label, tagged, shown>>
        /\ tagging' = [x \in Requests |->
             IF x = r THEN q
             ELSE IF x \in OnTag(t) THEN [tagging[x] EXCEPT !.sure = FALSE] ELSE tagging[x]]
    BY DEF BeginTagging
  <1>2. entry \in Entry /\ (at = "update" => entry = ListStoryTags[t])
    BY EntryFacts
  <1> HIDE DEF entry
  <1>3. q \in Tagging /\ q.at = at /\ q.tag = t /\ q.told = entry /\ q.sure = sure
    BY <1>2 DEF Tagging, Before
  <1> HIDE DEF q
  <1>4. ASSUME NEW x \in Requests \ {r}
        PROVE  /\ tagging'[x] \in Tagging \cup {Nothing}
               /\ Same(x)
               /\ tagging[x] # Nothing /\ tagging[x].tag = t => ~tagging'[x].sure
    <2>1. CASE x \notin OnTag(t)
      BY <1>1, <2>1 DEF Same, OnTag, TagsTypeOK
    <2>2. CASE x \in OnTag(t)
      <3>1. tagging[x] \in Tagging
        BY <2>2, TaggingType DEF OnTag
      <3>2. tagging'[x] = [tagging[x] EXCEPT !.sure = FALSE]
        BY <1>1, <2>2
      <3> QED BY <2>2, <3>1, <3>2, TaggingFields, TaggingAssumption DEF Same, OnTag
    <2> QED BY <2>1, <2>2
  <1>5. tagging'[r] = q
    BY <1>1
  <1>6. TagsTypeOK'
    BY <1>1, <1>3, <1>4, <1>5 DEF TagsTypeOK
  <1>7. \A u \in Tags : TagUnchanged(u)
    BY <1>1, TagUnchangedWhenEqual
  <1>8. ASSUME tagging'[r].sure PROVE IsRight(r)'
    <2>1. OnTag(t) = {} /\ IsShownAsItIs(t)
      BY <1>3, <1>5, <1>8
    <2>2. \A x \in Requests \ {r} : tagging'[x] # Nothing => tagging'[x].tag # t
      BY <1>4, <2>1 DEF OnTag, Same
    <2>3. /\ (t \in ProjectTags)' = (t \in ProjectTags)
          /\ (ListStoryTags[t])' = ListStoryTags[t]
          /\ IsShownAsItIs(t)'
      BY <1>7, <2>1, TagUnchangedFacts
    <2>4. at # "publish"
      BY DEF Before
    <2> QED BY <1>2, <1>3, <1>5, <2>2, <2>3, <2>4 DEF IsRight
  <1>9. TagsInv'
    BY <1>3, <1>4, <1>5, <1>7, <1>8, OneTagSuffices
  <1> QED BY <1>1, <1>4, <1>6, <1>9 DEF TagsStepHolds, Same

\* A request that ends and changed nothing.
LEMMA LeaveHolds ==
    ASSUME TagsTypeOK, TagsInv, NEW r \in Requests, tagging[r] # Nothing, Leave(r),
           UNCHANGED <<label, tagged>>, IsRight(r) => IsShownAsItIs(tagging[r].tag)
    PROVE  TagsStepHolds(r)
  <1>1. PICK t \in Tags : t = tagging[r].tag
    BY TaggingType
  <1>2. /\ tagging'[r] = Nothing /\ shown' = shown /\ UNCHANGED <<label, tagged>>
        /\ tagging' \in [Requests -> Tagging \cup {Nothing}]
        /\ \A x \in Requests \ {r} : tagging'[x] = tagging[x]
    BY LeaveFacts DEF Leave
  <1>3. TagsTypeOK'
    BY <1>2 DEF TagsTypeOK
  <1>4. \A u \in Tags : TagUnchanged(u)
    BY <1>2, TagUnchangedWhenEqual
  <1>5. TagsInv'
    BY <1>1, <1>2, <1>4, ActorSuffices, SameWhenEqual
  <1>6. tagging[r].sure => IsShownAsItIs(t)'
    BY <1>1, <1>4, TagUnchangedFacts DEF TagsInv
  <1> QED BY <1>1, <1>2, <1>3, <1>5, <1>6 DEF TagsStepHolds

\* A request that goes on.
LEMMA ContinueHolds ==
    ASSUME TagsTypeOK, TagsInv, NEW r \in Requests, NEW t \in Tags, tagging[r] # Nothing,
           tagging[r].tag = t, NEW entry \in Entry, NEW at \in {"count", "refresh", "publish"},
           Continue(r, at, entry),
           label' \in [Tags -> Labels \cup {Nothing}],
           tagged' \subseteq Stories \X {u \in Tags : label'[u] # Nothing},
           \A u \in Tags \ {t} : label'[u] = label[u] /\ \A s : <<s, u>> \in tagged' <=> <<s, u>> \in tagged,
           IsRight(r) /\ at # "publish" => (t \in ProjectTags)',
           IsRight(r) /\ at = "publish" => entry = (ListStoryTags[t])'
    PROVE  TagsStepHolds(r)
  <1>1. /\ tagging' \in [Requests -> Tagging \cup {Nothing}] /\ UNCHANGED shown
        /\ tagging'[r] # Nothing /\ tagging'[r].tag = t /\ tagging'[r].sure = tagging[r].sure
        /\ tagging'[r].at = at /\ tagging'[r].told = entry
        /\ \A x \in Requests \ {r} : tagging'[x] = tagging[x]
    BY ContinueFacts
  <1>2. TagsTypeOK'
    BY <1>1 DEF TagsTypeOK
  <1>3. \A u \in Tags \ {t} : TagUnchanged(u)
    BY <1>1 DEF TagUnchanged
  <1>4. TagsInv'
    BY <1>1, <1>3, ActorSuffices, SameWhenEqual
  <1> QED BY <1>1, <1>2, <1>4 DEF TagsStepHolds

LEMMA CreateStoryTagHolds ==
    ASSUME TagsTypeOK, TagsInv, NEW r \in Requests, NEW l \in Labels, CreateStoryTag(r, l)
    PROVE  TagsStepHolds(r)
  <1>1. tagging[r] # Nothing /\ tagging[r].at = "create" /\ UNCHANGED tagged
    BY DEF CreateStoryTag, TaggingAt
  <1>2. PICK t \in Tags : t = tagging[r].tag
    BY <1>1, TaggingType
  <1>3. CASE LabelIsTaken(t, l)
    BY <1>1, <1>2, <1>3, LeaveHolds DEF CreateStoryTag, IsRight, Before
  <1>4. CASE ~LabelIsTaken(t, l)
    <2>1. /\ label' = [label EXCEPT ![t] = l]
          /\ Continue(r, "publish", [there |-> TRUE, count |-> 0])
      BY <1>2, <1>4 DEF CreateStoryTag
    <2>2. /\ label' \in [Tags -> Labels \cup {Nothing}]
          /\ label'[t] = l /\ l # Nothing /\ \A u \in Tags \ {t} : label'[u] = label[u]
      BY <2>1, TagsAssumption DEF TagsTypeOK
    <2>3. tagged' \subseteq Stories \X {u \in Tags : label'[u] # Nothing}
      BY <1>1, <2>2 DEF TagsTypeOK
    <2>4. ASSUME IsRight(r)
          PROVE  [there |-> TRUE, count |-> 0] = (ListStoryTags[t])'
      <3>1. t \notin ProjectTags
        BY <1>1, <1>2, <2>4 DEF IsRight
      <3>2. {s \in Stories : <<s, t>> \in tagged'} = {}
        BY <1>1, <3>1 DEF TagsTypeOK, ProjectTags
      <3>3. StoriesCount(t)' = 0
        BY <3>2, FS_EmptySet DEF StoriesCount
      <3>4. (t \in ProjectTags)' = TRUE
        BY <2>2 DEF ProjectTags
      <3> QED BY <3>3, <3>4 DEF ListStoryTags
    <2> QED BY <1>1, <1>2, <2>1, <2>2, <2>3, <2>4, EntryFacts, ContinueHolds
  <1> QED BY <1>3, <1>4

LEMMA UpdateStoryTagHolds ==
    ASSUME TagsTypeOK, TagsInv, NEW r \in Requests, NEW l \in Labels, UpdateStoryTag(r, l)
    PROVE  TagsStepHolds(r)
  <1>1. tagging[r] # Nothing /\ tagging[r].at = "update" /\ UNCHANGED tagged
    BY DEF UpdateStoryTag, TaggingAt
  <1>2. PICK t \in Tags : t = tagging[r].tag
    BY <1>1, TaggingType
  <1>3. CASE LabelIsTaken(t, l)
    BY <1>1, <1>2, <1>3, LeaveHolds DEF UpdateStoryTag, IsRight, Before
  <1>4. CASE ~LabelIsTaken(t, l)
    <2> DEFINE entry == tagging[r].told
    <2>1. /\ label' = [label EXCEPT ![t] = l]
          /\ Continue(r, "publish", entry)
          /\ entry \in Entry
      BY <1>1, <1>2, <1>4, TaggingType DEF UpdateStoryTag, SaveStoryTag
    <2>2. /\ label' \in [Tags -> Labels \cup {Nothing}]
          /\ label'[t] = l /\ l # Nothing /\ \A u \in Tags \ {t} : label'[u] = label[u]
      BY <2>1, TagsAssumption DEF TagsTypeOK
    <2>3. tagged' \subseteq Stories \X {u \in Tags : label'[u] # Nothing}
      BY <1>1, <2>2 DEF TagsTypeOK
    <2>4. ASSUME IsRight(r)
          PROVE  entry = (ListStoryTags[t])'
      <3>1. t \in ProjectTags /\ entry = ListStoryTags[t]
        BY <1>1, <1>2, <2>4 DEF IsRight, OnThere
      <3>2. StoriesCount(t)' = StoriesCount(t)
        BY <1>1 DEF StoriesCount
      <3>3. (t \in ProjectTags)' = TRUE
        BY <2>2 DEF ProjectTags
      <3> QED BY <3>1, <3>2, <3>3 DEF ListStoryTags
    <2> HIDE DEF entry
    <2> QED BY <1>1, <1>2, <2>1, <2>2, <2>3, <2>4, ContinueHolds
  <1> QED BY <1>3, <1>4

LEMMA DeleteStoryTagHolds ==
    ASSUME TagsTypeOK, TagsInv, NEW r \in Requests, DeleteStoryTag(r)
    PROVE  TagsStepHolds(r)
  <1>1. tagging[r] # Nothing /\ tagging[r].at = "delete"
    BY DEF DeleteStoryTag, TaggingAt
  <1>2. PICK t \in Tags : t = tagging[r].tag
    BY <1>1, TaggingType
  <1>3. CASE t \notin ProjectTags
    BY <1>1, <1>2, <1>3, LeaveHolds DEF DeleteStoryTag, IsRight, OnThere
  <1>4. CASE t \in ProjectTags
    <2> DEFINE gone == Stories \X {t}
               missing == Missing(gone)
    <2>1. /\ label' = [label EXCEPT ![t] = Nothing]
          /\ tagged' = tagged \ gone
          /\ tagging' = [missing EXCEPT ![r] = [@ EXCEPT !.at = "publish", !.told = Absent]]
          /\ UNCHANGED shown
      BY <1>2, <1>4 DEF DeleteStoryTag
    <2>2. /\ missing \in [Requests -> Tagging \cup {Nothing}]
          /\ missing[r] # Nothing /\ missing[r].tag = t /\ missing[r].sure = tagging[r].sure
          /\ \A x \in Requests :
               /\ missing[x] = Nothing <=> tagging[x] = Nothing
               /\ tagging[x] # Nothing =>
                    /\ missing[x].tag = tagging[x].tag /\ missing[x].at = tagging[x].at
                    /\ missing[x].told = tagging[x].told /\ missing[x].sure = tagging[x].sure
      BY <1>1, <1>2, MissingFacts
    <2> HIDE DEF missing
    <2>3. missing[r] \in Tagging
      BY <2>2
    <2> DEFINE k == [missing[r] EXCEPT !.at = "publish"]
               q == [k EXCEPT !.told = Absent]
    <2>4. k \in Tagging /\ k.tag = t /\ k.sure = tagging[r].sure /\ k.at = "publish"
      BY <2>2, <2>3 DEF Tagging
    <2>5. tagging' = [missing EXCEPT ![r] = q]
      BY <2>1
    <2> HIDE DEF k
    <2>6. q \in Tagging /\ q.tag = t /\ q.sure = tagging[r].sure /\ q.at = "publish" /\ q.told = Absent
      BY <2>4, EntryFacts DEF Tagging
    <2> HIDE DEF q
    <2>7. /\ tagging' \in [Requests -> Tagging \cup {Nothing}]
          /\ tagging'[r] = q
          /\ \A x \in Requests \ {r} : tagging'[x] = missing[x]
      BY <2>2, <2>5, <2>6
    <2>8. /\ label' \in [Tags -> Labels \cup {Nothing}]
          /\ label'[t] = Nothing /\ \A u \in Tags \ {t} : label'[u] = label[u]
      BY <2>1 DEF TagsTypeOK
    <2>9. /\ tagged' \subseteq Stories \X {u \in Tags : label'[u] # Nothing}
          /\ \A s : <<s, t>> \notin tagged'
          /\ \A u \in Tags \ {t} : \A s : <<s, u>> \in tagged' <=> <<s, u>> \in tagged
      BY <2>1, <2>8 DEF TagsTypeOK
    <2>10. Absent = (ListStoryTags[t])'
      <3>1. StoriesCount(t)' = 0
        BY <2>9, FS_EmptySet DEF StoriesCount
      <3>2. (t \in ProjectTags)' = FALSE
        BY <2>8 DEF ProjectTags
      <3> QED BY <3>1, <3>2 DEF ListStoryTags, Absent
    <2>11. \A u \in Tags \ {t} : TagUnchanged(u)
      BY <2>1, <2>8, <2>9 DEF TagUnchanged
    <2>12. \A x \in Requests \ {r} : Same(x)
      BY <2>2, <2>7 DEF Same
    <2>13. TagsInv'
      BY <1>1, <1>2, <2>6, <2>7, <2>10, <2>11, <2>12, ActorSuffices
    <2>14. TagsTypeOK'
      BY <2>1, <2>7, <2>8, <2>9 DEF TagsTypeOK
    <2> QED BY <2>6, <2>7, <2>12, <2>13, <2>14, TaggingAssumption DEF TagsStepHolds, Same
  <1> QED BY <1>3, <1>4

LEMMA AssignTagHolds ==
    ASSUME TagsTypeOK, TagsInv, NEW r \in Requests, NEW there \in SUBSET Stories, AssignTag(r, there)
    PROVE  TagsStepHolds(r)
  <1>1. tagging[r] # Nothing /\ tagging[r].at = "assign" /\ UNCHANGED label
    BY DEF AssignTag, TaggingAt
  <1>2. PICK t \in Tags : t = tagging[r].tag
    BY <1>1, TaggingType
  <1> DEFINE pair == <<tagging[r].story, t>>
  <1>3. CASE ~(pair \notin tagged /\ pair \in there \X ProjectTags)
    BY <1>1, <1>2, <1>3, LeaveHolds DEF AssignTag, IsRight, Before
  <1>4. CASE pair \notin tagged /\ pair \in there \X ProjectTags
    <2>1. tagged' = tagged \cup {pair} /\ Continue(r, "count", tagging[r].told) /\ tagging[r].told \in Entry
      BY <1>1, <1>2, <1>4, TaggingType DEF AssignTag
    <2>2. /\ tagged' \subseteq Stories \X {u \in Tags : label'[u] # Nothing}
          /\ \A u \in Tags \ {t} : \A s : <<s, u>> \in tagged' <=> <<s, u>> \in tagged
      BY <1>1, <1>4, <2>1 DEF TagsTypeOK, ProjectTags
    <2>3. (t \in ProjectTags)'
      BY <1>1, <1>4 DEF ProjectTags
    <2>4. label' \in [Tags -> Labels \cup {Nothing}]
      BY <1>1 DEF TagsTypeOK
    <2> HIDE DEF pair
    <2> QED BY <1>1, <1>2, <2>1, <2>2, <2>3, <2>4, ContinueHolds
  <1> QED BY <1>3, <1>4

\* The number of the stories, or the tag, is loaded.
LEMMA LoadHolds ==
    ASSUME TagsTypeOK, TagsInv, NEW r \in Requests, NEW t \in Tags, tagging[r] # Nothing,
           tagging[r].tag = t, UNCHANGED <<label, tagged>>, NEW entry \in Entry,
           Continue(r, "publish", entry), IsRight(r) => entry = ListStoryTags[t]
    PROVE  TagsStepHolds(r)
  <1>1. (ListStoryTags[t])' = ListStoryTags[t]
    <2>1. StoriesCount(t)' = StoriesCount(t)
      BY DEF StoriesCount
    <2>2. (t \in ProjectTags)' = (t \in ProjectTags)
      BY DEF ProjectTags
    <2> QED BY <2>1, <2>2 DEF ListStoryTags
  <1>2. /\ label' \in [Tags -> Labels \cup {Nothing}]
        /\ tagged' \subseteq Stories \X {u \in Tags : label'[u] # Nothing}
    BY DEF TagsTypeOK
  <1> QED BY <1>1, <1>2, ContinueHolds

LEMMA CountStoriesHolds ==
    ASSUME TagsTypeOK, TagsInv, NEW r \in Requests, CountStories(r)
    PROVE  TagsStepHolds(r)
  <1>1. tagging[r] # Nothing /\ tagging[r].at = "count" /\ UNCHANGED <<label, tagged>>
    BY DEF CountStories, TaggingAt
  <1>2. PICK t \in Tags : t = tagging[r].tag
    BY <1>1, TaggingType
  <1> DEFINE entry == [there |-> TRUE, count |-> StoriesCount(t)]
  <1>3. entry \in Entry /\ Continue(r, "publish", entry)
    BY <1>2, EntryFacts DEF CountStories
  <1>4. IsRight(r) => entry = ListStoryTags[t]
    BY <1>1, <1>2, EntryFacts DEF IsRight, OnThere
  <1> HIDE DEF entry
  <1> QED BY <1>1, <1>2, <1>3, <1>4, LoadHolds

LEMMA RefreshTagHolds ==
    ASSUME TagsTypeOK, TagsInv, NEW r \in Requests, RefreshTag(r)
    PROVE  TagsStepHolds(r)
  <1>1. tagging[r] # Nothing /\ tagging[r].at = "refresh" /\ UNCHANGED <<label, tagged>>
    BY DEF RefreshTag, TaggingAt
  <1>2. PICK t \in Tags : t = tagging[r].tag
    BY <1>1, TaggingType
  <1>3. CASE t \notin ProjectTags
    BY <1>1, <1>2, <1>3, LeaveHolds DEF RefreshTag, IsRight, OnThere
  <1>4. CASE t \in ProjectTags
    <2> DEFINE entry == ListStoryTags[t]
    <2>1. entry \in Entry /\ Continue(r, "publish", entry)
      BY <1>2, <1>4, EntryFacts DEF RefreshTag
    <2> QED BY <1>1, <1>2, <2>1, LoadHolds
  <1> QED BY <1>3, <1>4

LEMMA UnassignTagHolds ==
    ASSUME TagsTypeOK, TagsInv, NEW r \in Requests, UnassignTag(r)
    PROVE  TagsStepHolds(r)
  <1>1. tagging[r] # Nothing /\ tagging[r].at = "unassign" /\ UNCHANGED <<label, shown>>
    BY DEF UnassignTag, TaggingAt
  <1>2. PICK t \in Tags : t = tagging[r].tag
    BY <1>1, TaggingType
  <1> DEFINE gone == IF tagging[r].row THEN {<<tagging[r].story, t>>} ELSE {}
             missing == Missing(gone)
  <1>3. tagged' = tagged \ gone /\ tagging' = [missing EXCEPT ![r].at = "refresh"]
    BY <1>2 DEF UnassignTag
  <1>4. \A u \in Tags \ {t} : \A s : <<s, u>> \notin gone
    OBVIOUS
  <1> HIDE DEF gone
  <1>5. /\ missing \in [Requests -> Tagging \cup {Nothing}]
        /\ missing[r] # Nothing /\ missing[r].tag = t /\ missing[r].sure = tagging[r].sure
        /\ \A x \in Requests :
             /\ missing[x] = Nothing <=> tagging[x] = Nothing
             /\ tagging[x] # Nothing =>
                  /\ missing[x].tag = tagging[x].tag /\ missing[x].at = tagging[x].at
                  /\ missing[x].told = tagging[x].told /\ missing[x].sure = tagging[x].sure
    BY <1>1, <1>2, MissingFacts
  <1> HIDE DEF missing
  <1> DEFINE q == [missing[r] EXCEPT !.at = "refresh"]
  <1>6. q \in Tagging /\ q.tag = t /\ q.sure = tagging[r].sure /\ q.at = "refresh"
    <2>1. missing[r] \in Tagging
      BY <1>5
    <2> QED BY <1>5, <2>1 DEF Tagging
  <1>7. tagging' = [missing EXCEPT ![r] = q]
    BY <1>3
  <1> HIDE DEF q
  <1>8. /\ tagging' \in [Requests -> Tagging \cup {Nothing}]
        /\ tagging'[r] = q
        /\ \A x \in Requests \ {r} : tagging'[x] = missing[x]
    BY <1>5, <1>6, <1>7
  <1>9. \A x \in Requests \ {r} : Same(x)
    BY <1>5, <1>8 DEF Same
  <1>10. \A u \in Tags \ {t} : TagUnchanged(u)
    BY <1>1, <1>3, <1>4 DEF TagUnchanged
  <1>11. IsRight(r) => (t \in ProjectTags)'
    BY <1>1, <1>2 DEF IsRight, OnThere, ProjectTags
  <1>12. TagsInv'
    BY <1>1, <1>2, <1>6, <1>8, <1>9, <1>10, <1>11, ActorSuffices
  <1>13. TagsTypeOK'
    BY <1>1, <1>3, <1>8 DEF TagsTypeOK
  <1> QED BY <1>6, <1>8, <1>9, <1>12, <1>13, TaggingAssumption DEF TagsStepHolds, Same

LEMMA PublishTagHolds ==
    ASSUME TagsTypeOK, TagsInv, NEW r \in Requests, PublishTag(r)
    PROVE  TagsStepHolds(r)
  <1>1. tagging[r] # Nothing /\ tagging[r].at = "publish" /\ UNCHANGED <<label, tagged>>
    BY DEF PublishTag, TaggingAt
  <1>2. PICK t \in Tags : t = tagging[r].tag
    BY <1>1, TaggingType
  <1> DEFINE entry == tagging[r].told
  <1>3. entry \in Entry /\ entry # Nothing
    BY <1>1, TaggingType, TagsAssumption
  <1>4. /\ shown' = [shown EXCEPT ![t] = entry]
        /\ tagging' \in [Requests -> Tagging \cup {Nothing}]
        /\ tagging'[r] = Nothing /\ \A x \in Requests \ {r} : tagging'[x] = tagging[x]
    BY <1>2, LeaveFacts DEF PublishTag
  <1>5. shown' \in [Tags -> Entry \cup {Nothing}] /\ shown'[t] = entry
          /\ \A u \in Tags \ {t} : shown'[u] = shown[u]
    BY <1>3, <1>4 DEF TagsTypeOK
  <1>6. TagsTypeOK'
    BY <1>1, <1>4, <1>5 DEF TagsTypeOK
  <1>7. \A u \in Tags \ {t} : TagUnchanged(u)
    BY <1>1, <1>5 DEF TagUnchanged
  <1>8. TagsInv'
    BY <1>1, <1>2, <1>4, <1>7, ActorSuffices, SameWhenEqual
  <1>9. ASSUME tagging[r].sure PROVE IsShownAsItIs(t)'
    <2>1. entry = ListStoryTags[t]
      BY <1>1, <1>2, <1>9 DEF TagsInv, IsRight
    <2>2. StoriesCount(t)' = StoriesCount(t) /\ (t \in ProjectTags)' = (t \in ProjectTags)
      BY <1>1 DEF StoriesCount, ProjectTags
    <2>3. (ListStoryTags[t])' = ListStoryTags[t]
      BY <2>2 DEF ListStoryTags
    <2> HIDE DEF entry
    <2> QED BY <1>3, <1>5, <2>1, <2>3 DEF IsShownAsItIs
  <1> QED BY <1>2, <1>4, <1>6, <1>8, <1>9 DEF TagsStepHolds

LEMMA TagsStepKeeps ==
    ASSUME TagsTypeOK, TagsInv, NEW r \in Requests, NEW there \in SUBSET Stories, TagsStep(r, there)
    PROVE  TagsStepHolds(r)
  <1>1. ASSUME NEW t \in Tags, NEW at \in {"update", "delete"}, GetStoryTag(r, t, at)
        PROVE  TagsStepHolds(r)
    BY <1>1, BeginTaggingHolds DEF GetStoryTag, Before
  <1>2. ASSUME NEW t \in Tags, BeginCreateStoryTag(r, t)
        PROVE  TagsStepHolds(r)
    <2>1. t \notin ProjectTags /\ BeginTagging(r, "create", t, Nothing)
      BY <1>2 DEF BeginCreateStoryTag, ProjectTags
    <2> QED BY <2>1, BeginTaggingHolds DEF Before, OnThere
  <1>3. ASSUME NEW t \in Tags, NEW s \in there, BeginAssignTag(r, s, t)
        PROVE  TagsStepHolds(r)
    BY <1>3, BeginTaggingHolds DEF BeginAssignTag, Before
  <1>4. ASSUME NEW t \in Tags, NEW s \in there, BeginUnassignTag(r, s, t)
        PROVE  TagsStepHolds(r)
    <2>1. t \in ProjectTags /\ BeginTagging(r, "unassign", t, s)
      BY <1>4 DEF BeginUnassignTag, TagsTypeOK, ProjectTags
    <2> QED BY <2>1, BeginTaggingHolds DEF Before
  <1> QED BY <1>1, <1>2, <1>3, <1>4, CreateStoryTagHolds, UpdateStoryTagHolds, DeleteStoryTagHolds,
      AssignTagHolds, CountStoriesHolds, UnassignTagHolds, RefreshTagHolds, PublishTagHolds
      DEF TagsStep, BeginUpdateStoryTag, BeginDeleteStoryTag

\* The requests on the tags of a story that is deleted are not sure any more.
LEMMA UntagStoryKeeps ==
    ASSUME TagsTypeOK, TagsInv, NEW ended \in Stories, UntagStory(ended)
    PROVE  /\ TagsTypeOK' /\ TagsInv'
           /\ \A x \in Requests : tagging'[x] = Nothing => tagging[x] = Nothing
  <1> DEFINE gone == {pair \in tagged : pair[1] = ended}
             hurt == {pair[2] : pair \in gone}
             missing == Missing(gone)
  <1>1. /\ UNCHANGED <<label, shown>> /\ tagged' = tagged \ gone
        /\ tagging' = [x \in Requests |->
             IF tagging[x] # Nothing /\ tagging[x].tag \in hurt
             THEN [missing[x] EXCEPT !.sure = FALSE] ELSE tagging[x]]
    BY DEF UntagStory
  <1>2. \A u \in Tags \ hurt : \A s : <<s, u>> \notin gone
    OBVIOUS
  <1> HIDE DEF gone, hurt
  <1>3. ASSUME NEW x \in Requests
        PROVE  /\ tagging'[x] \in Tagging \cup {Nothing}
               /\ Same(x)
               /\ tagging[x] # Nothing /\ tagging[x].tag \in hurt => ~tagging'[x].sure
    <2>1. CASE ~(tagging[x] # Nothing /\ tagging[x].tag \in hurt)
      BY <1>1, <2>1 DEF Same, TagsTypeOK
    <2>2. CASE tagging[x] # Nothing /\ tagging[x].tag \in hurt
      <3>1. /\ missing[x] \in Tagging
            /\ missing[x].tag = tagging[x].tag /\ missing[x].at = tagging[x].at
            /\ missing[x].told = tagging[x].told /\ missing[x].sure = tagging[x].sure
        BY <2>2, MissingFacts
      <3>2. tagging'[x] = [missing[x] EXCEPT !.sure = FALSE]
        BY <1>1, <2>2
      <3> HIDE DEF missing
      <3> QED BY <2>2, <3>1, <3>2, TaggingFields, TaggingAssumption DEF Same
    <2> QED BY <2>1, <2>2
  <1>4. TagsTypeOK'
    BY <1>1, <1>3 DEF TagsTypeOK
  <1>5. \A u \in Tags \ hurt : TagUnchanged(u)
    BY <1>1, <1>2 DEF TagUnchanged
  <1>6. ASSUME NEW x \in Requests, tagging'[x] # Nothing, tagging'[x].sure
        PROVE  IsRight(x)'
    <2>1. /\ tagging[x] # Nothing /\ tagging[x].sure
          /\ tagging'[x].tag = tagging[x].tag /\ tagging'[x].at = tagging[x].at
          /\ tagging'[x].told = tagging[x].told /\ tagging[x].tag \notin hurt
      BY <1>3, <1>6 DEF Same
    <2>2. IsRight(x)
      BY <2>1 DEF TagsInv
    <2>3. PICK u \in Tags \ hurt : u = tagging[x].tag /\ u = tagging'[x].tag
      BY <2>1, TaggingType
    <2>4. /\ (u \in ProjectTags)' = (u \in ProjectTags)
          /\ (ListStoryTags[u])' = ListStoryTags[u]
          /\ IsShownAsItIs(u)' = IsShownAsItIs(u)
      BY <1>5, TagUnchangedFacts
    <2>5. \A s \in Requests \ {x} : tagging'[s] # Nothing => tagging'[s].tag # u
      BY <1>3, <2>2, <2>3 DEF Same, IsRight
    <2> QED BY <2>1, <2>2, <2>3, <2>4, <2>5 DEF IsRight
  <1> QED BY <1>3, <1>4, <1>6 DEF TagsInv, Same

\* No step ends a request on a tag leaving what is shown of it wrong.
TagsStayRight ==
    \A r \in Requests, t \in Tags :
        r \in OnTag(t) /\ tagging[r].sure /\ tagging'[r] = Nothing => IsShownAsItIs(t)'

LEMMA TagsHold ==
    ASSUME TagsTypeOK, TagsInv, ContentTypeOK, StorageTypeOK, [Next]_vars
    PROVE  TagsTypeOK' /\ TagsInv' /\ (UNCHANGED tags \/ TagsStayRight)
  <1>1. ASSUME NEW r \in Requests, TagsStep(r, StoriesThere)
        PROVE  TagsTypeOK' /\ TagsInv' /\ TagsStayRight
    <2>1. StoriesThere \in SUBSET Stories
      BY DEF StoriesThere
    <2>2. TagsStepHolds(r)
      BY <1>1, <2>1, TagsStepKeeps
    <2>3. TagsStayRight
      <3> SUFFICES ASSUME NEW x \in Requests, NEW t \in Tags, x \in OnTag(t), tagging[x].sure,
                          tagging'[x] = Nothing
                   PROVE  IsShownAsItIs(t)'
        BY DEF TagsStayRight
      <3>1. tagging[x] # Nothing /\ t = tagging[x].tag
        BY DEF OnTag
      <3>2. x = r
        BY <2>2, <3>1 DEF TagsStepHolds
      <3> QED BY <2>2, <3>1, <3>2 DEF TagsStepHolds
    <2> QED BY <2>2, <2>3 DEF TagsStepHolds
  <1>2. ASSUME UntagStory(This)
        PROVE  TagsTypeOK' /\ TagsInv' /\ TagsStayRight
    <2>1. TagsTypeOK' /\ TagsInv' /\ \A x \in Requests : tagging'[x] = Nothing => tagging[x] = Nothing
      BY <1>2, UntagStoryKeeps, ContentAssumption
    <2> QED BY <2>1 DEF TagsStayRight, OnTag
  <1>3. ASSUME UNCHANGED tags PROVE TagsTypeOK' /\ TagsInv'
    <2>1. UNCHANGED <<label, tagged, shown, tagging>>
      BY <1>3 DEF tags
    <2>2. TagsTypeOK'
      BY <2>1 DEF TagsTypeOK
    <2>3. TagsInv'
      BY <2>1 DEF TagsInv, IsRight, IsShownAsItIs, ListStoryTags, ProjectTags, StoriesCount
    <2> QED BY <2>2, <2>3
  <1>4. ASSUME NEW r \in Requests, Arrive(r) PROVE UNCHANGED tags
    BY <1>4, Arrivals, BeginFacts DEF IsNew
  <1>5. ASSUME NEW r \in Requests, Advance(r) PROVE UNCHANGED tags \/ UntagStory(This)
    BY <1>5 DEF Advance, UpdateText, CreateComment, Notify, Tell, UpdateComment, DeleteComment,
       Upload, Attach, Detach, DeleteStory
  <1> QED BY <1>1, <1>2, <1>3, <1>4, <1>5 DEF Next, UpdateStatus, Assign, Unassign, vars

-----------------------------------------------------------------------------
IInv == TypeOK /\ FilesInv /\ TextInv /\ WritersInv /\ NoticesInv /\ TagsInv

LEMMA InitHolds == Init => IInv
  <1> SUFFICES ASSUME Init PROVE IInv
    OBVIOUS
  <1>1. StorageTypeOK /\ NoticesTypeOK /\ TagsTypeOK
    BY DEF Init, StorageInit, NoticesInit, TagsInit, StorageTypeOK, NoticesTypeOK, TagsTypeOK,
           Marking, NoMarking
  <1>2. ContentTypeOK
    <2>1. [version |-> 1, text |-> FirstText] \in [version : 1..MaxVersion, text : Texts]
      BY ContentAssumption
    <2> QED BY <2>1 DEF Init, ContentTypeOK
  <1>3. \A r \in Requests : request[r] = Nothing /\ tagging[r] = Nothing
    BY DEF Init, TagsInit
  <1>4. FilesInv /\ TextInv /\ WritersInv /\ TagsInv
    BY <1>3 DEF FilesInv, FilesAreKept, TextInv, WritersInv, Writes, At, TagsInv, Init, StorageInit
  <1>5. NoticesInv
    BY <1>3 DEF NoticesInv, At, Agree, IsRead, NoMarking, Init, NoticesInit
  <1> QED BY <1>1, <1>2, <1>4, <1>5 DEF IInv, TypeOK

LEMMA StepHolds == IInv /\ [Next]_vars => IInv'
  BY ContentTypeHolds, FilesHold, TextHolds, NoticesHold, TagsHold DEF IInv, TypeOK

LEMMA Invariance == Spec => []IInv
  BY InitHolds, StepHolds, PTL DEF Spec

\* What is stored of a story, and what its requests hold, keep their shape.
THEOREM StoryContentIsTyped == Spec => []TypeOK
  BY Invariance, PTL DEF IInv

\* For any number of uploads and deletions under way, the file of an attachment is
\* there and is not marked (commons/storage, attachments/services).
THEOREM AttachmentsAlwaysHaveFiles == Spec => []AttachmentsHaveFiles
  <1>1. IInv => AttachmentsHaveFiles
    BY DEF IInv, FilesInv, FilesAreKept, AttachmentsHaveFiles, ListStoryAttachments, CanBeDownloaded
  <1> QED BY <1>1, Invariance, PTL

\* For any number of comments written and notifications read at once, what a client
\* shows as unread is unread and is counted so once nothing is on its way, and what
\* is unread is shown so, save what was created between the two queries of a marking
\* (notifications/services, mark_notifications_as_read).
THEOREM UnreadIsAlwaysShownAsCounted == Spec => []UnreadIsShownAsCounted
  <1>1. IInv => UnreadIsShownAsCounted
    BY NoticesSuffice DEF IInv, TypeOK
  <1> QED BY <1>1, Invariance, PTL

\* No late update brings a deleted comment back to those that are shown and counted
\* (comments/repositories.py).
THEOREM DeletedCommentsAreGone == Spec => DeletedCommentsStayDeleted
  <1>1. IInv /\ [Next]_vars =>
          \A c \in Comments : due[c] # {} /\ ~IsVisible(c) =>
            /\ ~IsVisible(c)'
            /\ GetCommentsCount' <= Cardinality(Comments \ {c})
            /\ \A row \in ListStoryComments' : row.comment = c => row.deleted
    BY DeletedCommentsStep DEF IInv, TypeOK
  <1> QED BY <1>1, Invariance, PTL DEF Spec, DeletedCommentsStayDeleted

\* Only an update of the text changes it while the story is there.
LEMMA TextsStep ==
    ASSUME StorageTypeOK, ContentTypeOK, TextInv, [Next]_vars,
           story # Nothing, story' # Nothing, story'.text # story.text
    PROVE  \E r \in Requests : At(r, "edit") /\ request[r].saw = story.text
  <1>1. ASSUME NEW r \in Requests, NEW text \in Texts, UpdateText(r, text)
        PROVE  \E s \in Requests : At(s, "edit") /\ request[s].saw = story.text
    BY <1>1, TextUpdated DEF UpdateText
  <1>2. ~UpdateStatus
    <2> SUFFICES ASSUME UpdateStatus PROVE FALSE
      OBVIOUS
    <2>1. story \in [version : 1..MaxVersion, text : Texts]
      BY DEF ContentTypeOK
    <2>2. [story EXCEPT !.version = @ + 1].text = story.text
      BY <2>1
    <2> QED BY <2>2 DEF UpdateStatus
  <1>3. ASSUME NEW r \in Requests, Arrive(r) PROVE story' = story
    BY <1>3, Arrivals, BeginFacts DEF IsNew, content
  <1> QED BY <1>1, <1>2, <1>3
      DEF Next, Advance, CreateComment, Notify, Tell, UpdateComment, DeleteComment, Upload, Attach,
          Detach, DeleteStory, Assign, Unassign, vars, content

\* For any number of clients that edit at once, a title or a description is
\* overwritten only by who saw it (base/occ/repositories.py).
THEOREM TextsAreAlwaysSeenBeforeTheyChange == Spec => TextsAreSeenBeforeTheyChange
  <1>1. IInv /\ [Next]_vars =>
          (story # Nothing /\ story' # Nothing /\ story'.text # story.text =>
             \E r \in Requests : At(r, "edit") /\ request[r].saw = story.text)
    BY TextsStep DEF IInv, TypeOK
  <1> QED BY <1>1, Invariance, PTL DEF Spec, TextsAreSeenBeforeTheyChange

\* For any number of stories, tags and requests, one that met no other on its tag
\* leaves it shown as it is (projects/tags, stories/tags).
THEOREM TagsAreAlwaysShownAsTheyAre == Spec => TagsAreShownAsTheyAre
  <1>1. IInv /\ [Next]_vars => UNCHANGED tags \/
          \A r \in Requests, t \in Tags :
            r \in OnTag(t) /\ tagging[r].sure /\ tagging'[r] = Nothing => IsShownAsItIs(t)'
    BY TagsHold DEF IInv, TypeOK, TagsStayRight
  <1> QED BY <1>1, Invariance, PTL DEF Spec, TagsAreShownAsTheyAre

-----------------------------------------------------------------------------
(* Nobody is forgotten: what CommentsAreNotified promises is done, or is   *)
(* what a request is about to do.                                          *)

IsAboutToTell(r, c, p) ==
    (At(r, "notify") \/ At(r, "tell")) /\ request[r].comment = c /\ p \in request[r].who

NobodyIsForgotten ==
    \A c \in Comments, p \in People :
        p \in due[c] /\ (notification[c][p] = "none" \/ told[c][p] = "none") =>
            \E r \in Requests : IsAboutToTell(r, c, p)

LEMMA ForgottenByNoOther ==
    ASSUME NobodyIsForgotten, UNCHANGED due,
           \A c \in Comments, p \in People :
             /\ notification[c][p] # "none" => notification'[c][p] # "none"
             /\ told[c][p] # "none" => told'[c][p] # "none",
           \A r \in Requests : At(r, "notify") \/ At(r, "tell") => request'[r] = request[r]
    PROVE  NobodyIsForgotten'
  <1>1. ASSUME NEW r \in Requests, NEW c, NEW p, IsAboutToTell(r, c, p)
        PROVE  IsAboutToTell(r, c, p)'
    BY <1>1 DEF IsAboutToTell, At
  <1> QED BY <1>1 DEF NobodyIsForgotten

LEMMA NotForgottenWhenWritten ==
    ASSUME ContentTypeOK, NobodyIsForgotten, NEW r \in Requests, CreateComment(r)
    PROVE  NobodyIsForgotten'
  <1> DEFINE c == request[r].comment
  <1>1. /\ At(r, "comment") /\ due' = [due EXCEPT ![c] = request[r].who] /\ UNCHANGED notices
        /\ request' = [request EXCEPT ![r].at = "notify"] /\ request[r] # Nothing
    BY DEF CreateComment, At
  <1>2. /\ request'[r] # Nothing /\ request'[r].at = "notify" /\ OnlyRequest(r)
        /\ request'[r].comment = c /\ request'[r].who = request[r].who
    <2>1. request'[r] # Nothing
      BY <1>1, RequestAssumption, GoesOnFacts
    <2> QED BY <1>1, <2>1, GoesOnFacts
  <1>3. \A s \in Requests : \A d, p : IsAboutToTell(s, d, p) => IsAboutToTell(s, d, p)'
    BY <1>1, <1>2 DEF IsAboutToTell, At, OnlyRequest
  <1>4. \A d : d = c => \A p \in request[r].who : IsAboutToTell(r, d, p)'
    BY <1>2 DEF IsAboutToTell, At
  <1>5. \A d \in Comments : due'[d] = IF d = c THEN request[r].who ELSE due[d]
    BY <1>1 DEF ContentTypeOK
  <1> HIDE DEF c
  <1>6. ASSUME NEW d \in Comments, NEW p \in People, p \in due'[d],
               notification'[d][p] = "none" \/ told'[d][p] = "none"
        PROVE  \E s \in Requests : IsAboutToTell(s, d, p)'
    <2>1. CASE d = c
      <3>1. p \in request[r].who
        BY <1>5, <1>6, <2>1
      <3> QED BY <1>4, <2>1, <3>1
    <2>2. CASE d # c
      <3>1. p \in due[d]
        BY <1>5, <1>6, <2>2
      <3>2. notification[d][p] = "none" \/ told[d][p] = "none"
        BY <1>1, <1>6 DEF notices
      <3>3. PICK s \in Requests : IsAboutToTell(s, d, p)
        BY <3>1, <3>2 DEF NobodyIsForgotten
      <3> QED BY <1>3, <3>3
    <2> QED BY <2>1, <2>2
  <1> QED BY <1>6 DEF NobodyIsForgotten

LEMMA NotForgottenWhenNotified ==
    ASSUME ContentTypeOK, NoticesTypeOK, NobodyIsForgotten, NEW r \in Requests, Notify(r)
    PROVE  NobodyIsForgotten'
  <1>1. /\ At(r, "notify") /\ UNCHANGED <<told, due>>
        /\ request' = [request EXCEPT ![r].at = "tell"] /\ request[r] # Nothing
        /\ notification' = [notification EXCEPT ![request[r].comment] =
             [p \in People |-> IF p \in request[r].who THEN "unread" ELSE @[p]]]
    BY DEF Notify, CreateNotifications, At, content
  <1>2. /\ request'[r] # Nothing /\ request'[r].at = "tell" /\ OnlyRequest(r)
        /\ request'[r].comment = request[r].comment /\ request'[r].who = request[r].who
    <2>1. request'[r] # Nothing
      BY <1>1, RequestAssumption, GoesOnFacts
    <2> QED BY <1>1, <2>1, GoesOnFacts
  <1>3. \A s \in Requests : \A c, p : IsAboutToTell(s, c, p) => IsAboutToTell(s, c, p)'
    BY <1>1, <1>2 DEF IsAboutToTell, At, OnlyRequest
  <1>4. \A c \in Comments, p \in People :
          notification[c][p] # "none" => notification'[c][p] # "none"
    BY <1>1 DEF NoticesTypeOK
  <1> QED BY <1>1, <1>3, <1>4 DEF NobodyIsForgotten

LEMMA NotForgottenWhenTold ==
    ASSUME ContentTypeOK, NoticesTypeOK, WritersInv, NoticesInv, NobodyIsForgotten,
           NEW r \in Requests, Tell(r)
    PROVE  NobodyIsForgotten'
  <1> DEFINE c == request[r].comment
             who == request[r].who
  <1>1. /\ At(r, "tell") /\ c \in Comments /\ due[c] = who
        /\ UNCHANGED <<notification, due>> /\ Done(r)
        /\ told' = [told EXCEPT ![c] = [p \in People |->
             IF p \notin who THEN @[p] ELSE IF @[p] = "none" THEN "unread" ELSE "late"]]
    BY DEF Tell, TellCreation, WritersInv, Writes, At, content
  <1>2. \A p \in People : p \in who => notification[c][p] # "none"
    BY <1>1 DEF NoticesInv
  <1>3. \A s \in Requests \ {r} : \A d, p : IsAboutToTell(s, d, p) => IsAboutToTell(s, d, p)'
    BY <1>1, DoneFacts DEF IsAboutToTell, At, OnlyRequest
  <1>4. \A d, p : IsAboutToTell(r, d, p) => d = c
    BY DEF IsAboutToTell
  <1> HIDE DEF c, who
  <1>5. /\ \A p \in People : p \in who => told'[c][p] # "none"
        /\ \A d \in Comments \ {c}, p \in People : told'[d][p] = told[d][p]
    BY <1>1 DEF NoticesTypeOK
  <1>6. ASSUME NEW d \in Comments, NEW p \in People, p \in due'[d],
               notification'[d][p] = "none" \/ told'[d][p] = "none"
        PROVE  \E s \in Requests : IsAboutToTell(s, d, p)'
    <2>1. d # c
      BY <1>1, <1>2, <1>5, <1>6
    <2>2. PICK s \in Requests : IsAboutToTell(s, d, p)
      BY <1>1, <1>5, <1>6, <2>1 DEF NobodyIsForgotten
    <2> QED BY <1>3, <1>4, <2>1, <2>2
  <1> QED BY <1>6 DEF NobodyIsForgotten

LEMMA ReadIsNotForgotten ==
    ASSUME NoticesTypeOK, NobodyIsForgotten, NoticesStep, UNCHANGED <<request, due>>
    PROVE  NobodyIsForgotten'
  <1> DEFINE Kept ==
               \A c \in Comments, p \in People :
                 /\ notification[c][p] # "none" => notification'[c][p] # "none"
                 /\ told[c][p] # "none" => told'[c][p] # "none"
  <1>1. ASSUME NEW p \in People, NEW rows \in SUBSET Comments, MarkAsRead(p, rows)
        PROVE  Kept
    BY <1>1, MarkAsReadFacts
  <1>2. ASSUME NEW p \in People, SelectMarked(p) \/ TellReading(p)
        PROVE  Kept
    BY <1>2, SelectMarkedFacts, TellReadingFacts
  <1>3. ASSUME NEW p \in People, NEW c \in Comments, Age(c, p)
        PROVE  Kept
    BY <1>3, AgeFacts
  <1>4. ASSUME CleanReadNotifications PROVE Kept
    BY <1>4, CleanFacts
  <1> HIDE DEF Kept
  <1>5. Kept
    BY <1>1, <1>2, <1>3, <1>4
       DEF NoticesStep, MarkAllMyNotificationsAsRead, MarkMyNotificationAsRead
  <1> USE DEF Kept
  <1> QED BY <1>5, ForgottenByNoOther

LEMMA NobodyIsForgottenHolds ==
    ASSUME StorageTypeOK, ContentTypeOK, NoticesTypeOK, WritersInv, NoticesInv,
           NobodyIsForgotten, [Next]_vars
    PROVE  NobodyIsForgotten'
  <1>1. ASSUME UNCHANGED <<due, notices>>,
               \A r \in Requests : At(r, "notify") \/ At(r, "tell") => request'[r] = request[r]
        PROVE  NobodyIsForgotten'
    BY <1>1, ForgottenByNoOther DEF notices
  <1>2. ASSUME NEW r \in Requests, Arrive(r) PROVE NobodyIsForgotten'
    <2>1. PICK q : IsNew(q) /\ Begin(r, q)
      BY <1>2, Arrivals
    <2>2. request[r] = Nothing /\ OnlyRequest(r) /\ UNCHANGED <<due, notices>>
      BY <2>1, BeginFacts DEF IsNew, content
    <2> QED BY <1>1, <2>2 DEF OnlyRequest, At
  <1>3. ASSUME NEW r \in Requests, Advance(r) PROVE NobodyIsForgotten'
    <2>1. ASSUME ~At(r, "notify"), ~At(r, "tell"), OnlyRequest(r), UNCHANGED <<due, notices>>
          PROVE  NobodyIsForgotten'
      BY <1>1, <2>1 DEF OnlyRequest
    <2>2. (\E text \in Texts : UpdateText(r, text)) \/ UpdateComment(r) \/ DeleteComment(r)
            \/ Attach(r) \/ Detach(r) \/ DeleteStory(r)
            => Done(r) /\ UNCHANGED <<due, notices>> /\ ~At(r, "notify") /\ ~At(r, "tell")
      BY DEF UpdateText, UpdateComment, DeleteComment, Attach, Detach, DeleteStory, At, content
    <2>3. ASSUME NEW f \in Files, Upload(r, f)
          PROVE  OnlyRequest(r) /\ UNCHANGED <<due, notices>> /\ ~At(r, "notify") /\ ~At(r, "tell")
      BY <2>3 DEF Upload, ContentTypeOK, OnlyRequest, At, content
    <2> QED BY <1>3, <2>1, <2>2, <2>3, DoneFacts, NotForgottenWhenWritten,
               NotForgottenWhenNotified, NotForgottenWhenTold DEF Advance
  <1>4. UpdateStatus \/ (\E p \in People : Assign(p) \/ Unassign(p)) \/ UNCHANGED vars
          => UNCHANGED <<request, due, notices>>
    BY DEF UpdateStatus, Assign, Unassign, vars, content
  <1>5. (\E r \in Requests :
           part = "tags" /\ TagsStep(r, StoriesThere) /\ UNCHANGED <<storage, notices, content, request>>)
          \/ (StorageStep /\ UNCHANGED <<notices, tags, content, request>>)
          => UNCHANGED <<request, due, notices>>
    BY DEF content
  <1>6. NoticesStep /\ UNCHANGED <<storage, tags, content, request>> => NobodyIsForgotten'
    BY ReadIsNotForgotten DEF content
  <1> QED BY <1>1, <1>2, <1>3, <1>4, <1>5, <1>6 DEF Next

\* Who a comment was to be notified to when it was written has their notification and
\* was told of it, or a request that is not over is about to see to it: whatever is
\* read, cleaned or deleted meanwhile, nobody is forgotten (comments/notifications).
\* With the fairness of requests, that is CommentsAreNotified.
THEOREM NobodyIsEverForgotten == Spec => []NobodyIsForgotten
  <1>1. Init => NobodyIsForgotten
    BY DEF Init, NobodyIsForgotten
  <1>2. IInv /\ NobodyIsForgotten /\ [Next]_vars => NobodyIsForgotten'
    BY NobodyIsForgottenHolds DEF IInv, TypeOK
  <1> QED BY <1>1, <1>2, Invariance, PTL DEF Spec

-----------------------------------------------------------------------------
(* The news.                                                               *)

\* An action is there where it is called for, and a period does not end before it
\* begins.
IsGoodItem(row) == row.from < row.until /\ (row.type = "call_to_action" => row.action)

NoneOverlap ==
    \A i, j \in There :
        i # j /\ item[i].type = item[j].type /\ item[i].type \in {"maintenance", "release"} =>
            ~Overlaps(item[i], item[j])

\* What makes the news consistent, and is kept by each step: the form only has to be
\* good by itself, whether it overlaps is asked again when it is saved.
FeedsInv ==
    /\ FeedsTypeOK
    /\ \A i \in There : IsGoodItem(item[i])
    /\ \A a \in Admins : form[a] # NoItem => IsGoodItem(form[a].row)
    /\ \A i \in Items, u \in Readers : readAt[<<i, u>>] # Never => i \in There
    /\ NoneOverlap

LEMMA FeedsInvInit == FeedsInit => FeedsInv
  BY FeedsAssumption DEF FeedsInit, FeedsInv, FeedsTypeOK, There, NoneOverlap, Times, Never

LEMMA OverlapsIsSymmetric == \A r, s : Overlaps(r, s) <=> Overlaps(s, r)
  BY DEF Overlaps

\* Only the form of one administrator changes.
LEMMA CleanKeepsFeedsInv ==
    ASSUME FeedsInv, NEW a \in Admins, NEW i \in Items, NEW type \in FeedItemType,
           NEW action \in SUBSET {"title", "url"}, NEW from \in Times,
           NEW until \in Times \cup {Forever}, Clean(a, i, type, action, from, until)
    PROVE  FeedsInv'
  <1> DEFINE row == [type |-> type, from |-> from, until |-> until, action |-> action = {"title", "url"}]
  <1>1. UNCHANGED <<item, readAt, now>> /\ form' = [form EXCEPT ![a] = [item |-> i, row |-> row]]
    BY DEF Clean
  <1>2. row \in FeedItem
    BY DEF FeedItem
  <1>3. IsGoodItem(row)
    BY DEF Clean, ActionIsComplete, IsGoodItem
  <1> HIDE DEF row
  <1>4. form' \in [Admins -> Form \cup {NoItem}]
    BY <1>1, <1>2 DEF FeedsInv, FeedsTypeOK, Form
  <1>5. \A b \in Admins : form'[b] # NoItem => IsGoodItem(form'[b].row)
    BY <1>1, <1>3 DEF FeedsInv, FeedsTypeOK
  <1> QED BY <1>1, <1>4, <1>5 DEF FeedsInv, FeedsTypeOK, There, NoneOverlap

\* The database refuses what overlaps.
LEMMA SaveKeepsFeedsInv ==
    ASSUME FeedsInv, NEW a \in Admins, SaveModel(a)
    PROVE  FeedsInv'
  <1> DEFINE i == form[a].item
             row == form[a].row
  <1>1. form[a] \in Form /\ i \in Items /\ row \in FeedItem /\ IsGoodItem(row)
    BY DEF SaveModel, FeedsInv, FeedsTypeOK, Form
  <1>2. UNCHANGED <<readAt, now>> /\ form' = [form EXCEPT ![a] = NoItem]
        /\ item' = IF Excluded(i, row) THEN item ELSE [item EXCEPT ![i] = row]
    BY DEF SaveModel
  <1> HIDE DEF i, row
  <1>3. form' \in [Admins -> Form \cup {NoItem}]
        /\ \A b \in Admins : form'[b] # NoItem => IsGoodItem(form'[b].row)
    BY <1>2 DEF FeedsInv, FeedsTypeOK
  <1>4. CASE Excluded(i, row)
    BY <1>2, <1>3, <1>4 DEF FeedsInv, FeedsTypeOK, There, NoneOverlap
  <1>5. CASE ~Excluded(i, row)
    <2>1. item' \in [Items -> FeedItem \cup {NoItem}] /\ item'[i] = row
          /\ \A j \in Items \ {i} : item'[j] = item[j]
      BY <1>1, <1>2, <1>5 DEF FeedsInv, FeedsTypeOK
    <2>2. There' = There \cup {i}
      BY <1>1, <2>1, FeedsAssumption DEF There
    <2>3. \A j \in There' : IsGoodItem(item'[j])
      BY <1>1, <2>1, <2>2 DEF FeedsInv, There
    <2>4. NoneOverlap'
      <3>1. SUFFICES ASSUME NEW j \in There', NEW k \in There', j # k, item'[j].type = item'[k].type,
                            item'[j].type \in {"maintenance", "release"}
                     PROVE  ~Overlaps(item'[j], item'[k])
        BY DEF NoneOverlap, Overlaps
      <3>2. CASE j = i
        BY <1>5, <2>1, <2>2, <3>1, <3>2 DEF Excluded, There
      <3>3. CASE k = i
        BY <1>5, <2>1, <2>2, <3>1, <3>3, OverlapsIsSymmetric DEF Excluded, There
      <3>4. CASE j # i /\ k # i
        BY <2>1, <2>2, <3>1, <3>4 DEF FeedsInv, NoneOverlap, There
      <3> QED BY <3>2, <3>3, <3>4
    <2>5. \A j \in Items, u \in Readers : readAt'[<<j, u>>] # Never => j \in There'
      BY <1>2, <2>2 DEF FeedsInv
    <2> QED BY <1>2, <1>3, <2>1, <2>3, <2>4, <2>5 DEF FeedsInv, FeedsTypeOK
  <1> QED BY <1>4, <1>5

LEMMA DeleteKeepsFeedsInv ==
    ASSUME FeedsInv, NEW i \in Items, DeleteFeedItem(i)
    PROVE  FeedsInv'
  <1>1. item' = [item EXCEPT ![i] = NoItem] /\ UNCHANGED <<form, now>>
        /\ readAt' = [mark \in Items \X Readers |-> IF mark[1] = i THEN Never ELSE readAt[mark]]
    BY DEF DeleteFeedItem
  <1>2. item' \in [Items -> FeedItem \cup {NoItem}] /\ item'[i] = NoItem
        /\ \A j \in Items \ {i} : item'[j] = item[j]
    BY <1>1 DEF FeedsInv, FeedsTypeOK
  <1>3. There' = There \ {i}
    BY <1>2 DEF There
  <1>4. readAt' \in [Items \X Readers -> Times \cup {Never}]
    BY <1>1 DEF FeedsInv, FeedsTypeOK
  <1>5. \A j \in Items, u \in Readers : readAt'[<<j, u>>] # Never => j \in There'
    <2>1. SUFFICES ASSUME NEW j \in Items, NEW u \in Readers, readAt'[<<j, u>>] # Never
                   PROVE  j \in There'
      OBVIOUS
    <2>2. readAt'[<<j, u>>] = IF j = i THEN Never ELSE readAt[<<j, u>>]
      BY <1>1
    <2> QED BY <1>3, <2>1, <2>2 DEF FeedsInv
  <1>6. NoneOverlap' /\ \A j \in There' : IsGoodItem(item'[j])
    <2>1. \A j \in There' : j \in There /\ item'[j] = item[j]
      BY <1>2, <1>3 DEF There
    <2> QED BY <2>1 DEF FeedsInv, NoneOverlap, Overlaps
  <1> QED BY <1>1, <1>2, <1>4, <1>5, <1>6 DEF FeedsInv, FeedsTypeOK

LEMMA MarkKeepsFeedsInv ==
    ASSUME FeedsInv, NEW u \in Readers, NEW ids \in SUBSET Items, MarkFeedItemsAsRead(u, ids)
    PROVE  FeedsInv'
  <1>1. UNCHANGED <<item, form, now>> /\ ids \subseteq There
        /\ readAt' = [mark \in Items \X Readers |->
                        IF mark[2] = u /\ mark[1] \in ids /\ readAt[mark] = Never
                        THEN now ELSE readAt[mark]]
    BY DEF MarkFeedItemsAsRead
  <1>2. readAt' \in [Items \X Readers -> Times \cup {Never}]
    BY <1>1 DEF FeedsInv, FeedsTypeOK
  <1>3. \A j \in Items, v \in Readers : readAt'[<<j, v>>] # Never => j \in There'
    <2>1. SUFFICES ASSUME NEW j \in Items, NEW v \in Readers, readAt'[<<j, v>>] # Never
                   PROVE  j \in There
      BY <1>1 DEF There
    <2>2. readAt'[<<j, v>>] = IF v = u /\ j \in ids /\ readAt[<<j, v>>] = Never THEN now ELSE readAt[<<j, v>>]
      BY <1>1
    <2> QED BY <1>1, <2>1, <2>2 DEF FeedsInv
  <1> QED BY <1>1, <1>2, <1>3 DEF FeedsInv, FeedsTypeOK, There, NoneOverlap

\* A release that is published closes the one before at the time it begins.
LEMMA ReleaseKeepsFeedsInv ==
    ASSUME FeedsInv, NEW i \in Items, NEW action \in BOOLEAN, ApplyRelease(i, action)
    PROVE  FeedsInv'
  <1> DEFINE release == [type |-> "release", from |-> now, until |-> Forever, action |-> action]
             closed == [j \in Items |->
                          IF j \in Previous THEN [item[j] EXCEPT !.until = now] ELSE item[j]]
  <1>1. i \notin There /\ (\A j \in Previous : item[j].from < now) /\ UNCHANGED <<readAt, form, now>>
        /\ (\A j \in There \ Previous : item[j].type = "release" => ~Overlaps(release, item[j]))
        /\ item' = [closed EXCEPT ![i] = release]
    BY DEF ApplyRelease
  <1>2. now \in Times /\ LastTime \in Nat /\ release \in FeedItem /\ IsGoodItem(release)
    BY FeedsAssumption DEF FeedsInv, FeedsTypeOK, FeedItem, FeedItemType, IsGoodItem, Times, Forever
  <1>3. ASSUME NEW j \in Previous
        PROVE  /\ j \in There /\ j # i /\ item'[j] \in FeedItem /\ item'[j].type = "release"
               /\ item'[j].from = item[j].from /\ item'[j].until = now /\ IsGoodItem(item'[j])
    <2>1. j \in There /\ item[j] \in FeedItem /\ item[j].type = "release" /\ j \in Items /\ item[j].from < now
      BY <1>1 DEF Previous, There, FeedsInv, FeedsTypeOK
    <2>2. item'[j] = [item[j] EXCEPT !.until = now]
      BY <1>1, <2>1
    <2> QED BY <1>1, <1>2, <2>1, <2>2 DEF FeedItem, IsGoodItem
  <1>4. ASSUME NEW j \in Items \ Previous, j # i
        PROVE  item'[j] = item[j]
    BY <1>1, <1>4
  <1>5. item'[i] = release
    BY <1>1
  <1> HIDE DEF release, closed
  <1>6. There' = There \cup {i}
    <2>1. \A j \in Previous : item'[j] # NoItem
      BY <1>3, FeedsAssumption
    <2>2. i \in There'
      BY <1>2, <1>5, FeedsAssumption DEF There
    <2> QED BY <1>3, <1>4, <2>1, <2>2 DEF There
  <1>7. item' \in [Items -> FeedItem \cup {NoItem}]
    <2>1. \A j \in Items : item'[j] \in FeedItem \cup {NoItem}
      BY <1>2, <1>3, <1>4, <1>5 DEF FeedsInv, FeedsTypeOK
    <2>2. item' = [j \in Items |-> item'[j]]
      BY <1>1 DEF closed
    <2> QED BY <2>1, <2>2
  <1>8. \A j \in There' : IsGoodItem(item'[j])
    BY <1>2, <1>3, <1>4, <1>5, <1>6 DEF FeedsInv, There
  <1>9. ASSUME NEW j \in There, j # i, item'[j].type = "release"
        PROVE  ~Overlaps(release, item'[j])
    <2>1. CASE j \in Previous
      BY <1>2, <1>3, <2>1 DEF release, Overlaps, Times
    <2>2. CASE j \notin Previous
      BY <1>1, <1>4, <1>9, <2>2 DEF There
    <2> QED BY <2>1, <2>2
  <1>10. NoneOverlap'
    <2>1. SUFFICES ASSUME NEW j \in There', NEW k \in There', j # k, item'[j].type = item'[k].type,
                          item'[j].type \in {"maintenance", "release"}
                   PROVE  ~Overlaps(item'[j], item'[k])
      BY DEF NoneOverlap, Overlaps
    <2>2. release.type = "release"
      BY DEF release
    <2>3. CASE j = i
      BY <1>5, <1>6, <1>9, <2>1, <2>2, <2>3
    <2>4. CASE k = i
      BY <1>5, <1>6, <1>9, <2>1, <2>2, <2>4, OverlapsIsSymmetric
    <2>5. CASE j # i /\ k # i
      <3>1. j \in There /\ k \in There
        BY <1>6, <2>1, <2>5
      <3>2. \A l \in {j, k} : /\ item'[l].type = item[l].type /\ item'[l].from = item[l].from
                              /\ item[l] \in FeedItem /\ item'[l].until <= item[l].until
                              /\ item'[l] \in FeedItem
        <4>1. SUFFICES ASSUME NEW l \in {j, k}
                       PROVE  /\ item'[l].type = item[l].type /\ item'[l].from = item[l].from
                              /\ item[l] \in FeedItem /\ item'[l].until <= item[l].until
                              /\ item'[l] \in FeedItem
          OBVIOUS
        <4>2. l \in Items /\ item[l] \in FeedItem /\ l # i
          BY <2>5, <3>1 DEF There, FeedsInv, FeedsTypeOK
        <4>3. CASE l \in Previous
          BY <1>2, <1>3, <4>2, <4>3 DEF Previous, Times, Forever
        <4>4. CASE l \notin Previous
          BY <1>2, <1>4, <4>2, <4>4 DEF FeedItem, Times, Forever
        <4> QED BY <4>3, <4>4
      <3>3. ~Overlaps(item[j], item[k])
        BY <2>1, <3>1, <3>2 DEF FeedsInv, NoneOverlap
      <3>4. \A l \in {j, k} : item[l].from \in Int /\ item[l].until \in Int /\ item'[l].until \in Int
        BY <1>2, <3>2 DEF FeedItem, Times, Forever
      <3> QED BY <3>2, <3>3, <3>4 DEF Overlaps
    <2> QED BY <2>3, <2>4, <2>5
  <1> QED BY <1>1, <1>6, <1>7, <1>8, <1>10 DEF FeedsInv, FeedsTypeOK

LEMMA FeedsInvStep == FeedsInv /\ [FeedsStep]_feeds => FeedsInv'
  <1> SUFFICES ASSUME FeedsInv, [FeedsStep]_feeds PROVE FeedsInv'
    OBVIOUS
  <1>1. CASE Tick
    <2>1. now' \in Times /\ UNCHANGED <<item, readAt, form>>
      BY <1>1, FeedsAssumption DEF Tick, FeedsInv, FeedsTypeOK, Times
    <2> QED BY <2>1 DEF FeedsInv, FeedsTypeOK, There, NoneOverlap
  <1>2. CASE UNCHANGED feeds
    BY <1>2 DEF feeds, FeedsInv, FeedsTypeOK, There, NoneOverlap
  <1> QED
    BY <1>1, <1>2, CleanKeepsFeedsInv, SaveKeepsFeedsInv, DeleteKeepsFeedsInv, MarkKeepsFeedsInv,
       ReleaseKeepsFeedsInv DEF FeedsStep

LEMMA FeedsInvIsEnough == FeedsInv => NewsAreConsistent
  <1> SUFFICES ASSUME FeedsInv PROVE NewsAreConsistent
    OBVIOUS
  <1>1. \A i \in There : item[i] \in FeedItem /\ i \in Items
    BY DEF There, FeedsInv, FeedsTypeOK
  <1>2. ASSUME NEW i \in There
        PROVE  item[i].from \in Int /\ item[i].until \in Int /\ item[i].from < item[i].until
               /\ item[i].type \in FeedItemType
    BY <1>1, FeedsAssumption DEF FeedItem, Times, Forever, FeedsInv, IsGoodItem
  <1>3. \A at \in Times : at \in Int
    BY DEF Times
  <1>4. ASSUME NEW at \in Times, NEW i \in ActiveAt(at), NEW j \in ActiveAt(at), i # j,
               item[i].type = item[j].type
        PROVE  item[i].type = "call_to_action"
    <2>1. Overlaps(item[i], item[j]) /\ i \in There /\ j \in There
      BY <1>2, <1>3 DEF ActiveAt, Overlaps
    <2> QED BY <1>2, <1>4, <2>1 DEF FeedsInv, NoneOverlap, FeedItemType
  <1>5. ASSUME NEW at \in Times, NEW i \in ActiveAt(at), item[i].type = "maintenance",
               NEW j \in ActiveAt(at) \ {i}
        PROVE  ListedBefore(i, j)
    BY <1>4, <1>5 DEF ListedBefore
  <1>6. ASSUME NEW at \in Times, NEW i \in There
        PROVE  GetStatus(i, at) = StatusAnnotation(i, at) /\ (GetStatus(i, at) = "active" <=> i \in ActiveAt(at))
    BY <1>2, <1>3 DEF GetStatus, StatusAnnotation, ActiveAt
  <1> QED BY <1>4, <1>5, <1>6 DEF NewsAreConsistent, FeedsInv, IsGoodItem

\* Whatever the administrators, the migrations and the readers do, the news are
\* consistent, for any number of items, of people and of forms under way.
THEOREM NewsAreAlwaysConsistent == FeedsSpec => []NewsAreConsistent
  <1>1. FeedsSpec => []FeedsInv
    BY FeedsInvInit, FeedsInvStep, PTL DEF FeedsSpec
  <1> QED BY <1>1, FeedsInvIsEnough, PTL
=============================================================================
