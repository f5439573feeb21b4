--------------------------- MODULE Notifications ---------------------------
(***************************************************************************)
(* The notifications of the comments of a story: a row for each person who *)
(* is to know of the comment, and the events on the person's channel that  *)
(* their client follows.                                                   *)
(***************************************************************************)
EXTENDS Integers, FiniteSets

CONSTANTS
    People,
    Comments  \* bound

ASSUME CommentsAssumption == IsFiniteSet(Comments)

VARIABLES
    notification,  \* the row of each comment for each person
    told,          \* what the events last said of it to the person
    marking,       \* the request by which each person marks some as read
    overtaken      \* history: what was created between the two queries of a marking

notices == <<notification, told, marking, overtaken>>

\* at: what the marking is about to do. rows: those its filter is about, then those
\* it found.
Marking == [at : {"nothing", "select", "tell"}, rows : SUBSET Comments]

NoMarking == [at |-> "nothing", rows |-> {}]

\* "old": read for longer than MINUTES_TO_STORE_READ_NOTIFICATIONS. "late": its
\* creation was told after its reading was.
NoticesTypeOK ==
    /\ notification \in [Comments -> [People -> {"none", "unread", "read", "old", "gone"}]]
    /\ told \in [Comments -> [People -> {"none", "unread", "read", "late"}]]
    /\ marking \in [People -> Marking]
    /\ overtaken \in [People -> SUBSET Comments]

NoticesInit ==
    /\ notification = [c \in Comments |-> [p \in People |-> "none"]]
    /\ told = [c \in Comments |-> [p \in People |-> "none"]]
    /\ marking = [p \in People |-> NoMarking]
    /\ overtaken = [p \in People |-> {}]

\* The filter on read_at, if there is one.
ReadFilter(read) ==
    CASE read = "any" -> {"unread", "read", "old"}
      [] read = "yes" -> {"read", "old"}
      [] read = "no" -> {"unread"}

ListMyNotifications(p, read) == {c \in Comments : notification[c][p] \in ReadFilter(read)}

CountNotifications(p, read) == Cardinality(ListMyNotifications(p, read))

CountMyNotifications(p) ==
    [read |-> CountNotifications(p, "yes"), unread |-> CountNotifications(p, "no"),
     total |-> CountNotifications(p, "yes") + CountNotifications(p, "no")]

CreateNotifications(c, who) ==
    /\ notification' = [notification EXCEPT ![c] =
         [p \in People |-> IF p \in who THEN "unread" ELSE @[p]]]
    /\ overtaken' = [p \in People |->
         IF p \in who /\ marking[p].at = "select" /\ c \in marking[p].rows
         THEN overtaken[p] \cup {c}
         ELSE overtaken[p]]
    /\ UNCHANGED <<told, marking>>

\* emit_event_when_notifications_are_created, as they were created.
TellCreation(c, who) ==
    /\ told' = [told EXCEPT ![c] = [p \in People |->
         IF p \notin who THEN @[p] ELSE IF @[p] = "none" THEN "unread" ELSE "late"]]
    /\ UNCHANGED <<notification, marking, overtaken>>

\* mark_user_notifications_as_read, the UPDATE of the rows that match: what was
\* read already is read again.
MarkAsRead(p, rows) ==
    /\ marking[p] = NoMarking
    /\ notification' = [c \in Comments |->
         IF c \in rows \cap ListMyNotifications(p, "any")
         THEN [notification[c] EXCEPT ![p] = "read"]
         ELSE notification[c]]
    /\ marking' = [marking EXCEPT ![p] = [at |-> "select", rows |-> rows]]
    /\ UNCHANGED <<told, overtaken>>

MarkAllMyNotificationsAsRead(p) == MarkAsRead(p, Comments)

\* get_notification_or_404: a person's own.
GetNotification(p, c) == notification[c][p] \in ReadFilter("any")

MarkMyNotificationAsRead(p, c) ==
    /\ GetNotification(p, c)
    /\ MarkAsRead(p, {c})

MutantSelectMarked(p) ==
    /\ marking[p].at = "select"
    /\ marking' = [marking EXCEPT ![p] =
         [at |-> "tell", rows |-> @.rows \cap ListMyNotifications(p, "no")]]
    /\ UNCHANGED <<notification, told, overtaken>>

\* The SELECT after it, with the same filter: the rows that match now, read or not.
SelectMarked(p) ==
    /\ marking[p].at = "select"
    /\ marking' = [marking EXCEPT ![p] =
         [at |-> "tell", rows |-> @.rows \cap ListMyNotifications(p, "any")]]
    /\ UNCHANGED <<notification, told, overtaken>>

\* emit_event_when_notifications_are_read, of all that the SELECT found.
TellReading(p) ==
    /\ marking[p].at = "tell"
    /\ told' = [c \in Comments |->
         IF c \in marking[p].rows THEN [told[c] EXCEPT ![p] = "read"] ELSE told[c]]
    /\ marking' = [marking EXCEPT ![p] = NoMarking]
    /\ UNCHANGED <<notification, overtaken>>

\* MINUTES_TO_STORE_READ_NOTIFICATIONS pass: more than a request lasts.
Age(c, p) ==
    /\ notification[c][p] = "read"
    /\ marking[p] = NoMarking
    /\ notification' = [notification EXCEPT ![c][p] = "old"]
    /\ UNCHANGED <<told, marking, overtaken>>

\* clean_read_notifications, a periodic task.
CleanReadNotifications ==
    /\ notification' = [c \in Comments |-> [p \in People |->
         IF notification[c][p] = "old" THEN "gone" ELSE notification[c][p]]]
    /\ UNCHANGED <<told, marking, overtaken>>

NoticesStep ==
    \/ \E p \in People :
         \/ MarkAllMyNotificationsAsRead(p) \/ SelectMarked(p) \/ TellReading(p)
         \/ \E c \in Comments : MarkMyNotificationAsRead(p, c) \/ Age(c, p)
    \/ CleanReadNotifications
=============================================================================
