------------------------------- MODULE Feeds -------------------------------
(***************************************************************************)
(* The news that every user sees (feeds): administrators write items with  *)
(* the period in which they are listed, a migration publishes a release    *)
(* and closes the one before, users mark items as read. The form of the    *)
(* administration looks for overlapping items before it saves; between the *)
(* two anything may happen, and the database has the last word. Periods    *)
(* are half-open; one that does not end lasts until Forever.               *)
(***************************************************************************)
EXTENDS Integers

CONSTANTS
    Items,     \* bound on the items
    Readers,
    Admins,
    LastTime,  \* bound on the time
    NoItem

Times == 0 .. LastTime
Forever == LastTime + 1
Never == -1

FeedItemType == {"maintenance", "release", "call_to_action"}

\* action: whether it has both a title and a url to act on.
FeedItem ==
    [type : FeedItemType, from : Times, until : Times \cup {Forever}, action : BOOLEAN]

ASSUME FeedsAssumption == LastTime \in Nat /\ NoItem \notin FeedItem

VARIABLES
    item,    \* the rows, or NoItem
    readAt,  \* when who read what, or Never
    form,    \* the valid form that each administrator is about to save, or NoItem
    now

feeds == <<item, readAt, form, now>>

Form == [item : Items, row : FeedItem]

FeedsTypeOK ==
    /\ item \in [Items -> FeedItem \cup {NoItem}]
    /\ readAt \in [Items \X Readers -> Times \cup {Never}]
    /\ form \in [Admins -> Form \cup {NoItem}]
    /\ now \in Times

There == {i \in Items : item[i] # NoItem}

\* active_period__contains: what is listed at a time.
ActiveAt(at) == {i \in There : item[i].from <= at /\ at < item[i].until}

\* The items of a user's list, each with when they read it.
ListActiveFeedItems(u, at) == {[item |-> i, readAt |-> readAt[<<i, u>>]] : i \in ActiveAt(at)}

\* Maintenance first, then the latest.
ListedBefore(i, j) ==
    \/ item[i].type = "maintenance" /\ item[j].type # "maintenance"
    \/ /\ (item[i].type = "maintenance") = (item[j].type = "maintenance")
       /\ item[i].from > item[j].from

\* The status as the model tells it.
GetStatus(i, at) ==
    IF i \in ActiveAt(at) THEN "active"
    ELSE IF at < item[i].from THEN "scheduled" ELSE "expired"

\* The status as the administration asks the database for it: a period that is
\* wholly after or wholly before the time.
StatusAnnotation(i, at) ==
    CASE item[i].from > at -> "scheduled"
      [] item[i].from <= at /\ item[i].until <= at -> "expired"
      [] OTHER -> "active"

Overlaps(row, other) == row.from < other.until /\ other.from < row.until

MutantExcluded(i, row) ==
    /\ row.type = "maintenance"
    /\ \E j \in There \ {i} : item[j].type = row.type /\ Overlaps(row, item[j])

\* no_overlapping_maintenance_or_release, which forms check and the database enforces.
Excluded(i, row) ==
    /\ row.type \in {"maintenance", "release"}
    /\ \E j \in There \ {i} : item[j].type = row.type /\ Overlaps(row, item[j])

\* clean: an action has a url when it has a title, and both when it is called for.
ActionIsComplete(type, action) ==
    /\ "title" \in action => "url" \in action
    /\ type = "call_to_action" => action = {"title", "url"}

\* An administrator submits the form of an item that is there, or of a new one.
Clean(a, i, type, action, from, until) ==
    LET row == [type |-> type, from |-> from, until |-> until, action |-> action = {"title", "url"}] IN
    /\ form[a] = NoItem
    /\ from < until
    /\ ActionIsComplete(type, action)
    /\ ~Excluded(i, row)
    /\ form' = [form EXCEPT ![a] = [item |-> i, row |-> row]]
    /\ UNCHANGED <<item, readAt, now>>

\* What the form has is written whole, and inserted anew when its item was deleted.
SaveModel(a) ==
    /\ form[a] # NoItem
    /\ form' = [form EXCEPT ![a] = NoItem]
    /\ item' = IF Excluded(form[a].item, form[a].row) THEN item
               ELSE [item EXCEPT ![form[a].item] = form[a].row]
    /\ UNCHANGED <<readAt, now>>

\* The marks of an item go with it.
DeleteFeedItem(i) ==
    /\ i \in There
    /\ item' = [item EXCEPT ![i] = NoItem]
    /\ readAt' = [mark \in Items \X Readers |-> IF mark[1] = i THEN Never ELSE readAt[mark]]
    /\ UNCHANGED <<form, now>>

\* All or none: an id without item is an error. What was read before stays as it was.
MarkFeedItemsAsRead(u, ids) ==
    /\ ids \subseteq There
    /\ readAt' = [mark \in Items \X Readers |->
                    IF mark[2] = u /\ mark[1] \in ids /\ readAt[mark] = Never
                    THEN now ELSE readAt[mark]]
    /\ UNCHANGED <<item, form, now>>

\* The release that has no end.
Previous == {i \in There : item[i].type = "release" /\ item[i].until = Forever}

\* The migration of a release, which fails when the one before is still to come or
\* another one is scheduled. The clock tells any two moments apart.
ApplyRelease(i, action) ==
    LET release == [type |-> "release", from |-> now, until |-> Forever, action |-> action]
        closed == [j \in Items |->
                     IF j \in Previous THEN [item[j] EXCEPT !.until = now] ELSE item[j]]
    IN
    /\ i \notin There
    /\ \A a \in Admins : form[a] # NoItem => form[a].item # i
    /\ \A j \in Previous : item[j].from < now
    /\ \A j \in There \ Previous : item[j].type = "release" => ~Overlaps(release, item[j])
    /\ item' = [closed EXCEPT ![i] = release]
    /\ UNCHANGED <<readAt, form, now>>

Tick ==
    /\ now < LastTime
    /\ now' = now + 1
    /\ UNCHANGED <<item, readAt, form>>

FeedsInit ==
    /\ item = [i \in Items |-> NoItem]
    /\ readAt = [mark \in Items \X Readers |-> Never]
    /\ form = [a \in Admins |-> NoItem]
    /\ now = 0

FeedsStep ==
    \/ \E a \in Admins :
         \/ SaveModel(a)
         \/ \E i \in Items, type \in FeedItemType, action \in SUBSET {"title", "url"},
               from \in Times, until \in Times \cup {Forever} :
              Clean(a, i, type, action, from, until)
    \/ \E i \in Items : DeleteFeedItem(i) \/ \E action \in BOOLEAN : ApplyRelease(i, action)
    \/ \E u \in Readers, ids \in SUBSET Items : MarkFeedItemsAsRead(u, ids)
    \/ Tick

FeedsSpec == FeedsInit /\ [][FeedsStep]_feeds

\* Whatever an administrator, a migration and the readers do between a check and
\* what it was for: at no time two releases or two maintenances are listed, a
\* maintenance is on top, what the administration shows of an item is what readers
\* get, and only items that are there were read.
NewsAreConsistent ==
    /\ \A at \in Times :
         /\ \A i, j \in ActiveAt(at) :
              i # j /\ item[i].type = item[j].type => item[i].type = "call_to_action"
         /\ \A i \in ActiveAt(at) :
              item[i].type = "maintenance" => \A j \in ActiveAt(at) \ {i} : ListedBefore(i, j)
         /\ \A i \in There :
              GetStatus(i, at) = StatusAnnotation(i, at) /\ (GetStatus(i, at) = "active" <=> i \in ActiveAt(at))
    /\ \A i \in Items, u \in Readers : readAt[<<i, u>>] # Never => i \in There
    /\ \A i \in There : item[i].type = "call_to_action" => item[i].action
=============================================================================
