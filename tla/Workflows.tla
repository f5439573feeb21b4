----------------------------- MODULE Workflows -----------------------------
(***************************************************************************)
(* The kanban boards of one project: its workflows, the statuses of each   *)
(* and the stories in them (workflows/services, stories/stories/services). *)
(* Statuses are ordered in their workflow and stories in their status by   *)
(* an integer (Ordering). One action per request, performed as a whole.    *)
(*                                                                         *)
(* Names, colors, titles and slugs are left out, and so are the requests   *)
(* that change nothing else.                                               *)
(***************************************************************************)
EXTENDS Ordering, OrderedLists

CONSTANTS
    Workflows, Statuses, Stories,    \* the identities that may be in use
    NoWorkflow, NoStatus, NoStory,   \* one that is not
    TemplateSize,     \* how many statuses a new workflow gets
    MaxNumWorkflows,  \* MAX_NUM_WORKFLOWS
    StatusOrders, StoryOrders  \* the bounds of the orders explored

ASSUME WorkflowsAssumption ==
    /\ IsFiniteSet(Statuses) /\ IsFiniteSet(Stories)
    /\ NoWorkflow \notin Workflows /\ NoStatus \notin Statuses /\ NoStory \notin Stories
    /\ TemplateSize \in Nat
    /\ MaxNumWorkflows \in Nat \ {0}
    /\ StatusOrders \subseteq Int /\ StoryOrders \subseteq Int

\* The orders of the statuses of a new workflow are among those explored.
ASSUME TemplateAssumption == 1 .. TemplateSize \subseteq StatusOrders

VARIABLES
    workflows,  \* the workflows, in the order they were created
    landing,    \* the workflow the landing page of the project shows
    status,     \* the workflow of each status and its order in it
    story       \* the workflow and the status of each story, and its order

vars == <<workflows, landing, status, story>>

StatusRow == [workflow : Workflows, order : Int]

StoryRow == [workflow : Workflows, status : Statuses, order : Int]

ASSUME RowsAssumption == NoStatus \notin StatusRow /\ NoStory \notin StoryRow

TypeOK ==
    /\ workflows \in Seq(Workflows)
    /\ landing \in Workflows \cup {NoWorkflow}
    /\ status \in [Statuses -> StatusRow \cup {NoStatus}]
    /\ story \in [Stories -> StoryRow \cup {NoStory}]

-----------------------------------------------------------------------------
(* What the handlers query.                                                *)

StatusesOf(w) == {s \in Statuses : status[s] # NoStatus /\ status[s].workflow = w}

StoriesOf(w) == {x \in Stories : story[x] # NoStory /\ story[x].workflow = w}

StoriesIn(s) == {x \in Stories : story[x] # NoStory /\ story[x].status = s}

StatusOrder == [s \in {t \in Statuses : status[t] # NoStatus} |-> status[s].order]

StoryOrder == [x \in {y \in Stories : story[y] # NoStory} |-> story[x].order]

\* The statuses of each workflow and the stories of each status, as shown.
Columns == [w \in Workflows |-> Sorted(StatusesOf(w), StatusOrder)]

Cards == [s \in Statuses |-> Sorted(StoriesIn(s), StoryOrder)]

\* 0 when there is none.
Latest(S, order) == IF S = {} THEN 0 ELSE Max({order[i] : i \in S})

\* The orders of the items of a block, one offset after the other from pre on.
Numbered(block, pre, offset) ==
    [i \in Range(block) |->
       Position(pre, offset, CHOOSE k \in 1 .. Len(block) : block[k] = i)]

MutantPlacedBetween(block, others, order, place, anchor, prev, following) ==
    LET gap == CalculateOffset(place, order[anchor], prev, following, Len(block) + 1)
    IN Numbered(block, gap.pre, Lower(1, gap.offset))

\* The new orders when the items of block are placed before or after anchor,
\* whose neighbors have orders prev and following, among the others of its
\* list; some of the others may have to move too.
PlacedBetween(block, others, order, place, anchor, prev, following) ==
    LET n == Len(block)
        gap == CalculateOffset(place, order[anchor], prev, following, n + 1)
        next == Sorted({j \in others : order[j] > gap.pre}, order)
        orders == [k \in 1 .. Len(next) |-> order[next[k]]]
        displaced == IF gap.offset # 0 THEN 0 ELSE Displaced(orders, gap.pre, n)
        offset == IF gap.offset # 0 THEN gap.offset
                  ELSE OffsetWith(orders, gap.pre, n, displaced)
    IN Numbered(block \o SubSeq(next, 1, displaced), gap.pre, offset)

\* The orders of the closest of the others on both sides of anchor.
OrderBefore(others, order, anchor) ==
    LET below == {j \in others : order[j] < order[anchor]} IN
    IF below = {} THEN NoNeighbor ELSE Latest(below, order)

OrderAfter(others, order, anchor) ==
    LET above == {order[i] : i \in {j \in others : order[j] > order[anchor]}} IN
    IF above = {} THEN NoNeighbor ELSE Min(above)

Repositioned(block, others, order, place, anchor) ==
    PlacedBetween(block, others, order, place, anchor,
        OrderBefore(others, order, anchor), OrderAfter(others, order, anchor))

\* The new orders when the items of block go after all those of a list.
Appended(block, latest) == Numbered(block, latest, DefaultOrderOffset)

\* The orders of the rows stay in the bounds explored.
Bounded(rows, noRow, bound) ==
    \A i \in DOMAIN rows : rows[i] # noRow => rows[i].order \in bound

Arrangements(S) == SetToAllKPermutations(S) \ {<<>>}

-----------------------------------------------------------------------------
(* Workflows.                                                              *)

\* create_workflow; the statuses of the template are numbered from 1.
CreateWorkflow(w, ids) ==
    /\ w \notin Range(workflows)
    /\ Len(workflows) < MaxNumWorkflows
    /\ Len(ids) = TemplateSize
    /\ \A s \in Range(ids) : status[s] = NoStatus
    /\ workflows' = Append(workflows, w)
    /\ landing' = IF workflows = <<>> THEN w ELSE landing
    /\ status' = [s \in Statuses |->
         IF s \in Range(ids)
         THEN [workflow |-> w, order |-> CHOOSE k \in 1 .. Len(ids) : ids[k] = s]
         ELSE status[s]]
    /\ UNCHANGED story

\* The statuses that move to another workflow when w is deleted.
StatusesToMove(w) == {s \in StatusesOf(w) : StoriesIn(s) # {}}

\* Their orders in the target, and those of the statuses that make room: they
\* go after its last status, or keep their order if it has none.
MigrationOrders(w, target) ==
    LET moving == Sorted(StatusesToMove(w), StatusOrder) IN
    IF moving = <<>> THEN <<>>
    ELSE IF StatusesOf(target) = {}
    THEN [s \in Range(moving) |-> status[s].order]
    ELSE Repositioned(moving, StatusesOf(target), StatusOrder, "after",
                      Last(Columns[target]))

StatusesAfterMigration(w, target) ==
    LET orders == IF target = NoWorkflow THEN <<>> ELSE MigrationOrders(w, target) IN
    [s \in Statuses |->
       IF s \in DOMAIN orders THEN [workflow |-> target, order |-> orders[s]]
       ELSE IF s \in StatusesOf(w) THEN NoStatus ELSE status[s]]

MutantStoriesAfterMigration(w, target) ==
    [x \in Stories |-> IF x \in StoriesOf(w) THEN NoStory ELSE story[x]]

\* The stories follow their statuses, the others are deleted with w.
StoriesAfterMigration(w, target) ==
    [x \in Stories |->
       IF x \notin StoriesOf(w) THEN story[x]
       ELSE IF target # NoWorkflow /\ story[x].status \in StatusesToMove(w)
       THEN [story[x] EXCEPT !.workflow = target] ELSE NoStory]

MutantLandingWithout(w) == landing

WorkflowsWithout(w) ==
    RemoveAt(workflows, CHOOSE i \in DOMAIN workflows : workflows[i] = w)

\* The landing page shows the first workflow left.
LandingWithout(w) ==
    IF landing # w THEN landing
    ELSE IF WorkflowsWithout(w) = <<>> THEN NoWorkflow ELSE Head(WorkflowsWithout(w))

CanDeleteWorkflow(w, target) ==
    /\ w \in Range(workflows)
    /\ target \in Range(workflows) \cup {NoWorkflow}
    /\ target # w

DeleteWorkflow(w, target) ==
    /\ CanDeleteWorkflow(w, target)
    /\ Bounded(StatusesAfterMigration(w, target), NoStatus, StatusOrders)
    /\ status' = StatusesAfterMigration(w, target)
    /\ story' = StoriesAfterMigration(w, target)
    /\ workflows' = WorkflowsWithout(w)
    /\ landing' = LandingWithout(w)

-----------------------------------------------------------------------------
(* Statuses.                                                               *)

CreateStatus(w, s) ==
    LET order == NextOrder(Latest(StatusesOf(w), StatusOrder)) IN
    /\ w \in Range(workflows)
    /\ status[s] = NoStatus
    /\ order \in StatusOrders
    /\ status' = [status EXCEPT ![s] = [workflow |-> w, order |-> order]]
    /\ UNCHANGED <<workflows, landing, story>>

CanReorderStatuses(w, block, anchor) ==
    /\ Range(block) \subseteq StatusesOf(w)
    /\ anchor \in StatusesOf(w) \ Range(block)

StatusesAfterReorder(w, block, place, anchor) ==
    LET orders == Repositioned(block, StatusesOf(w) \ Range(block), StatusOrder,
                               place, anchor)
    IN [s \in Statuses |->
          IF s \in DOMAIN orders THEN [status[s] EXCEPT !.order = orders[s]]
          ELSE status[s]]

ReorderStatuses(w, block, place, anchor) ==
    /\ CanReorderStatuses(w, block, anchor)
    /\ status' = StatusesAfterReorder(w, block, place, anchor)
    /\ Bounded(status', NoStatus, StatusOrders)
    /\ UNCHANGED <<workflows, landing, story>>

MutantStoriesAfterDeletion(s, target) ==
    [x \in Stories |->
       IF x \notin StoriesIn(s) THEN story[x] ELSE [story[x] EXCEPT !.status = target]]

\* The stories of a status go to the end of another, or are deleted with it.
StoriesAfterDeletion(s, target) ==
    LET orders == IF target = NoStatus THEN <<>>
                  ELSE Appended(Cards[s], Latest(StoriesIn(target), StoryOrder))
    IN [x \in Stories |->
          IF x \notin StoriesIn(s) THEN story[x]
          ELSE IF target = NoStatus THEN NoStory
          ELSE [story[x] EXCEPT !.status = target, !.order = orders[x]]]

\* The target is in the same workflow if there is a story to move to it.
CanDeleteStatus(s, target) ==
    /\ status[s] # NoStatus
    /\ target # NoStatus =>
         /\ status[target] # NoStatus
         /\ target # s
         /\ StoriesIn(s) # {} => status[target].workflow = status[s].workflow

DeleteStatus(s, target) ==
    /\ CanDeleteStatus(s, target)
    /\ story' = StoriesAfterDeletion(s, target)
    /\ Bounded(story', NoStory, StoryOrders)
    /\ status' = [status EXCEPT ![s] = NoStatus]
    /\ UNCHANGED <<workflows, landing>>

-----------------------------------------------------------------------------
(* Stories.                                                                *)

MutantEndOf(s) == NextOrder(0)

\* The order of a story that comes last in status s.
EndOf(s) == NextOrder(Latest(StoriesIn(s), StoryOrder))

StoriesWithLast(x, s) ==
    [story EXCEPT ![x] = [workflow |-> status[s].workflow, status |-> s, order |-> EndOf(s)]]

CreateStory(x, s) ==
    /\ story[x] = NoStory
    /\ status[s] # NoStatus
    /\ EndOf(s) \in StoryOrders
    /\ story' = StoriesWithLast(x, s)
    /\ UNCHANGED <<workflows, landing, status>>

MutantCanChangeStatus(x, s) ==
    story[x] # NoStory /\ status[s] # NoStatus /\ s # story[x].status

CanChangeStatus(x, s) ==
    story[x] # NoStory /\ s \in StatusesOf(story[x].workflow) \ {story[x].status}

StoriesAfterUpdate(x, s) == [story EXCEPT ![x].status = s, ![x].order = EndOf(s)]

\* update_story with a status.
ChangeStatus(x, s) ==
    /\ CanChangeStatus(x, s)
    /\ EndOf(s) \in StoryOrders
    /\ story' = StoriesAfterUpdate(x, s)
    /\ UNCHANGED <<workflows, landing, status>>

CanChangeWorkflow(x, w) ==
    /\ story[x] # NoStory
    /\ w \in Range(workflows) \ {story[x].workflow}
    /\ StatusesOf(w) # {}

\* update_story with a workflow: the story goes to its first status.
ChangeWorkflow(x, w) ==
    /\ CanChangeWorkflow(x, w)
    /\ EndOf(Head(Columns[w])) \in StoryOrders
    /\ story' = StoriesWithLast(x, Head(Columns[w]))
    /\ UNCHANGED <<workflows, landing, status>>

\* The new orders of the stories of block, placed next to anchor in a status,
\* or at its end without one, and those of the stories that make room.
StoryOrdersAfter(s, block, place, anchor) ==
    IF anchor = NoStory
    THEN Appended(block, Latest(StoriesIn(s), StoryOrder))
    ELSE Repositioned(block, StoriesIn(s) \ Range(block), StoryOrder, place, anchor)

CanReorderStories(s, block, anchor) ==
    /\ status[s] # NoStatus
    /\ Range(block) \subseteq StoriesOf(status[s].workflow)
    /\ anchor # NoStory => anchor \in StoriesIn(s) \ Range(block)

StoriesAfterReorder(s, block, place, anchor) ==
    LET orders == StoryOrdersAfter(s, block, place, anchor) IN
    [x \in Stories |->
       IF x \in DOMAIN orders
       THEN [story[x] EXCEPT !.status = s, !.order = orders[x]] ELSE story[x]]

ReorderStories(s, block, place, anchor) ==
    /\ CanReorderStories(s, block, anchor)
    /\ story' = StoriesAfterReorder(s, block, place, anchor)
    /\ Bounded(story', NoStory, StoryOrders)
    /\ UNCHANGED <<workflows, landing, status>>

DeleteStory(x) ==
    /\ story[x] # NoStory
    /\ story' = [story EXCEPT ![x] = NoStory]
    /\ UNCHANGED <<workflows, landing, status>>

-----------------------------------------------------------------------------

\* A project starts with the workflow of its template.
Init ==
    /\ \E w \in Workflows :
         /\ workflows = <<w>>
         /\ landing = w
         /\ \E ids \in SetToAllKPermutations(Statuses) :
              /\ Len(ids) = TemplateSize
              /\ status = [s \in Statuses |->
                   IF s \in Range(ids)
                   THEN [workflow |-> w, order |-> CHOOSE k \in 1 .. Len(ids) : ids[k] = s]
                   ELSE NoStatus]
    /\ story = [x \in Stories |-> NoStory]

WorkflowStep ==
    \E w \in Workflows :
        \/ \E ids \in SetToAllKPermutations(Statuses) : CreateWorkflow(w, ids)
        \/ \E target \in Workflows \cup {NoWorkflow} : DeleteWorkflow(w, target)

StatusStep ==
    \/ \E w \in Workflows, s \in Statuses : CreateStatus(w, s)
    \/ \E w \in Workflows, block \in Arrangements(Statuses), place \in Places,
          anchor \in Statuses : ReorderStatuses(w, block, place, anchor)
    \/ \E s \in Statuses, target \in Statuses \cup {NoStatus} : DeleteStatus(s, target)

StoryStep ==
    \/ \E x \in Stories :
         \/ \E s \in Statuses : CreateStory(x, s) \/ ChangeStatus(x, s)
         \/ \E w \in Workflows : ChangeWorkflow(x, w)
         \/ DeleteStory(x)
    \/ \E s \in Statuses, block \in Arrangements(Stories), place \in Places,
          anchor \in Stories \cup {NoStory} : ReorderStories(s, block, place, anchor)

Next == WorkflowStep \/ StatusStep \/ StoryStep

Spec == Init /\ [][Next]_vars

-----------------------------------------------------------------------------
(* Properties.                                                             *)

\* A story is in a status of its own workflow, and both exist: whether it is
\* moved alone, reordered with others or carried along when its status or its
\* workflow is deleted.
StoriesAreInTheirWorkflow ==
    \A x \in Stories : story[x] # NoStory =>
        /\ story[x].workflow \in Range(workflows)
        /\ status[story[x].status] # NoStatus
        /\ status[story[x].status].workflow = story[x].workflow

\* No two statuses of a workflow, and no two stories of a status, have the same
\* order: a list is shown in one order only, and there is always an integer for
\* what is placed between two of them.
NoTies ==
    /\ \A w \in Workflows : \A s, t \in StatusesOf(w) :
         s # t => status[s].order # status[t].order
    /\ \A s \in Statuses : \A x, y \in StoriesIn(s) :
         x # y => story[x].order # story[y].order
=============================================================================
