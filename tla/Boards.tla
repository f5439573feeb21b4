------------------------------- MODULE Boards -------------------------------
(***************************************************************************)
(* What clients see of Workflows: the pages that show the board and its    *)
(* stories, the events that the requests publish on the channel of the     *)
(* project, and who is told of a story. A client, which is not in this     *)
(* repository, is taken to do what the events say: to put cards and        *)
(* columns where they were asked to go, and to take away what is deleted.  *)
(***************************************************************************)
EXTENDS Workflows

-----------------------------------------------------------------------------
(* The pages. They show these rows, or those a request would leave.        *)

ColumnsOf(rows) ==
    [w \in Workflows |->
       LET S == {s \in Statuses : rows[s] # NoStatus /\ rows[s].workflow = w}
       IN  Sorted(S, [s \in S |-> rows[s].order])]

CardsOf(rows) ==
    [s \in Statuses |->
       LET S == {x \in Stories : rows[x] # NoStory /\ rows[x].status = s}
       IN  Sorted(S, [x \in S |-> rows[x].order])]

\* list_workflows: each with its statuses. Of an unknown workflow, nothing.
ListWorkflows == [i \in DOMAIN workflows |-> [workflow |-> workflows[i], statuses |-> Columns[workflows[i]]]]

GetWorkflow(w) == {page \in Range(ListWorkflows) : page.workflow = w}

\* The landing page of a project names a workflow by its slug.
GetWorkflowBySlug == GetWorkflow(landing)

\* list_stories_for_workflow: by their order only, whatever their status.
ListStories(w) == Sorted(StoriesOf(w), StoryOrder)

\* Of two stories of a workflow, which comes first: by status, then by order.
ComesBefore(x, y) ==
    LET s == story[x].status
        t == story[y].status
    IN  IF s = t THEN story[x].order < story[y].order ELSE status[s].order < status[t].order

\* The stories of a workflow as they come, by the number of their row.
Walk(w) ==
    Sorted(StoriesOf(w),
           [x \in StoriesOf(w) |-> Cardinality({y \in StoriesOf(w) : ComesBefore(y, x)})])

\* get_story_detail: the stories before and after.
GetStoryDetail(x) ==
    LET walk == Walk(story[x].workflow)
        at == CHOOSE k \in DOMAIN walk : walk[k] = x
    IN  [prev |-> IF at = 1 THEN NoStory ELSE walk[at - 1],
         next |-> IF at = Len(walk) THEN NoStory ELSE walk[at + 1]]

\* A client loads the workflows and their stories, and shows each in its status.
Board ==
    [listed |-> [i \in DOMAIN ListWorkflows |-> ListWorkflows[i].workflow],
     columns |-> [w \in Workflows |->
        IF GetWorkflow(w) = {} THEN <<>> ELSE (CHOOSE page \in GetWorkflow(w) : TRUE).statuses],
     cards |-> [s \in Statuses |->
        IF status[s] = NoStatus THEN <<>>
        ELSE Without(ListStories(status[s].workflow), Stories \ StoriesIn(s))]]

-----------------------------------------------------------------------------
(* The events, in the order they are published.                            *)

WorkflowIsCreated(w, ids) == <<[type |-> "workflows.create", workflow |-> w, statuses |-> ids]>>

StatusesAreReordered(w, block, place, anchor) ==
    <<[type |-> "workflowstatuses.reorder", workflow |-> w, block |-> block,
       place |-> place, anchor |-> anchor]>>

\* What moves to the target is published as a reorder, without an anchor if the
\* target has no status.
WorkflowIsDeleted(w, target) ==
    LET moving == IF target = NoWorkflow THEN <<>> ELSE Sorted(StatusesToMove(w), StatusOrder) IN
    (IF moving = <<>> THEN <<>>
     ELSE StatusesAreReordered(target, moving, "after",
            IF Columns[target] = <<>> THEN NoStatus ELSE Last(Columns[target])))
      \o <<[type |-> "workflows.delete", workflow |-> w]>>

StatusIsCreated(w, s) == <<[type |-> "workflowstatuses.create", workflow |-> w, status |-> s]>>

StoriesAreReordered(s, block, place, anchor) ==
    <<[type |-> "stories.reorder", status |-> s, block |-> block,
       place |-> place, anchor |-> anchor]>>

MutantStatusIsDeleted(s, target) == <<[type |-> "workflowstatuses.delete", status |-> s]>>

\* The stories that move are published as reordered.
StatusIsDeleted(s, target) ==
    (IF target = NoStatus \/ Cards[s] = <<>> THEN <<>>
     ELSE StoriesAreReordered(target, Cards[s], "after", NoStory))
      \o <<[type |-> "workflowstatuses.delete", status |-> s]>>

StoryIsCreated(x, s) == <<[type |-> "stories.create", story |-> x, status |-> s]>>

StoryIsUpdated(x, s) == <<[type |-> "stories.update", story |-> x, status |-> s]>>

StoryIsDeleted(x) == <<[type |-> "stories.delete", story |-> x]>>

\* Who is assigned to a story and who created it are told that its status has
\* changed: of which of the stories that are reordered, or updated.
ToldOfReorder(s, block, place, anchor) ==
    {x \in DOMAIN StoryOrdersAfter(s, block, place, anchor) : story[x].status # s}

ToldOfUpdate(x) == {x}

-----------------------------------------------------------------------------
(* A client that follows them.                                             *)

Placed(lists, l, block, place, anchor, noAnchor) ==
    IF anchor = noAnchor THEN PlacedLast(lists, l, block)
    ELSE PlacedBeside(lists, l, block, place, anchor)

Cleared(cards, S) == [s \in DOMAIN cards |-> IF s \in S THEN <<>> ELSE cards[s]]

Follow(board, e) ==
    CASE e.type = "workflows.create" ->
           [board EXCEPT !.listed = Append(@, e.workflow), !.columns[e.workflow] = e.statuses]
      [] e.type = "workflows.delete" ->
           [listed |-> Without(board.listed, {e.workflow}),
            columns |-> [board.columns EXCEPT ![e.workflow] = <<>>],
            cards |-> Cleared(board.cards, Range(board.columns[e.workflow]))]
      [] e.type = "workflowstatuses.create" ->
           [board EXCEPT !.columns[e.workflow] = Append(@, e.status)]
      [] e.type = "workflowstatuses.reorder" ->
           [board EXCEPT !.columns = Placed(@, e.workflow, e.block, e.place, e.anchor, NoStatus)]
      [] e.type = "workflowstatuses.delete" ->
           [board EXCEPT !.columns = Removed(@, {e.status}), !.cards = Cleared(@, {e.status})]
      [] e.type = "stories.reorder" ->
           [board EXCEPT !.cards = Placed(@, e.status, e.block, e.place, e.anchor, NoStory)]
      [] e.type \in {"stories.create", "stories.update"} ->
           [board EXCEPT !.cards = PlacedLast(@, e.status, <<e.story>>)]
      [] e.type = "stories.delete" ->
           [board EXCEPT !.cards = Removed(@, {e.story})]

After(board, events) ==
    LET shown[k \in 0 .. Len(events)] ==
          IF k = 0 THEN board ELSE Follow(shown[k - 1], events[k])
    IN  shown[Len(events)]

-----------------------------------------------------------------------------
(* Properties.                                                             *)

\* The events of a request are all that a client needs to show what the pages show
\* after it: the cards and the columns that move go where they were asked to go,
\* next to each other and in the order given, no other moves, whichever orders are
\* rewritten to make room, and of what is deleted nothing is left or lost. Who
\* has to do with a story is told if its status changes, and not otherwise.
StoryEventsShowTheBoard ==
    LET board == Board IN
    /\ \A s \in Statuses, block \in Arrangements(Stories), anchor \in Stories \cup {NoStory} :
         CanReorderStories(s, block, anchor) =>
           \A place \in IF anchor = NoStory THEN {"after"} ELSE Places :
             LET rows == StoriesAfterReorder(s, block, place, anchor) IN
             /\ After(board, StoriesAreReordered(s, block, place, anchor)).cards = CardsOf(rows)
             /\ ToldOfReorder(s, block, place, anchor) =
                  {x \in StoriesOf(status[s].workflow) : rows[x].status # story[x].status}
    /\ \A x \in Stories, s \in Statuses :
         /\ story[x] = NoStory /\ status[s] # NoStatus =>
              After(board, StoryIsCreated(x, s)).cards = CardsOf(StoriesWithLast(x, s))
         /\ CanChangeStatus(x, s) =>
              /\ After(board, StoryIsUpdated(x, s)).cards = CardsOf(StoriesAfterUpdate(x, s))
              /\ x \in ToldOfUpdate(x)
    /\ \A x \in Stories :
         story[x] # NoStory =>
           After(board, StoryIsDeleted(x)).cards = CardsOf([story EXCEPT ![x] = NoStory])
    /\ \A x \in Stories, w \in Workflows :
         CanChangeWorkflow(x, w) =>
           After(board, StoryIsUpdated(x, Head(Columns[w]))).cards =
             CardsOf(StoriesWithLast(x, Head(Columns[w])))

StatusEventsShowTheBoard ==
    LET board == Board IN
    /\ \A w \in Workflows, block \in Arrangements(Statuses), place \in Places, anchor \in Statuses :
         CanReorderStatuses(w, block, anchor) =>
           After(board, StatusesAreReordered(w, block, place, anchor)).columns =
             ColumnsOf(StatusesAfterReorder(w, block, place, anchor))
    /\ \A s \in Statuses, target \in Statuses \cup {NoStatus} :
         CanDeleteStatus(s, target) =>
           LET shown == After(board, StatusIsDeleted(s, target)) IN
           /\ shown.cards = CardsOf(StoriesAfterDeletion(s, target))
           /\ shown.columns = ColumnsOf([status EXCEPT ![s] = NoStatus])
    /\ \A w \in Workflows, target \in Workflows \cup {NoWorkflow} :
         CanDeleteWorkflow(w, target) =>
           LET shown == After(board, WorkflowIsDeleted(w, target)) IN
           /\ shown.cards = CardsOf(StoriesAfterMigration(w, target))
           /\ shown.columns = ColumnsOf(StatusesAfterMigration(w, target))

FollowersSeeTheBoard == StoryEventsShowTheBoard /\ StatusEventsShowTheBoard

\* Where the cards of a workflow are shown: a column, and a place in it.
Spots(page, cards) ==
    {p \in (DOMAIN page.statuses) \X (1 .. Cardinality(Stories)) :
       p[2] \in DOMAIN cards[page.statuses[p[1]]]}

\* From the top of the first column to the bottom of the last.
Precedes(p, q) == p[1] < q[1] \/ (p[1] = q[1] /\ p[2] < q[2])

\* The pages fit together: the landing page opens a workflow of the project as long
\* as there is one, every story of a workflow is in one of the columns shown, once,
\* and who goes from each story to the next, or back, sees them all as on the board.
BoardPagesFit ==
    LET cards == Board.cards IN
    /\ IF workflows = <<>> THEN landing = NoWorkflow ELSE GetWorkflowBySlug # {}
    /\ \A i \in DOMAIN workflows :
         LET page == ListWorkflows[i]
             spots == Spots(page, cards)
             card == [p \in spots |-> cards[page.statuses[p[1]]][p[2]]]
             detail == [p \in spots |-> GetStoryDetail(card[p])]
         IN  /\ Range(card) = Range(ListStories(page.workflow))
             /\ \A p, q \in spots :
                  /\ p # q => card[p] # card[q]
                  /\ Precedes(p, q) /\ (~ \E r \in spots : Precedes(p, r) /\ Precedes(r, q)) =>
                       detail[p].next = card[q] /\ detail[q].prev = card[p]
             /\ \A p \in spots :
                  /\ (~ \E q \in spots : Precedes(q, p)) => detail[p].prev = NoStory
                  /\ (~ \E q \in spots : Precedes(p, q)) => detail[p].next = NoStory
=============================================================================
