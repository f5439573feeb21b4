--------------------------- MODULE BoardRequests ---------------------------
(***************************************************************************)
(* The requests of Workflows, cut where they read and where they write,    *)
(* and interleaved.                                                        *)
(*                                                                         *)
(* A request loads the row its path names (get_..._or_404), then the       *)
(* service reads what it needs to decide what to write, and writes. The    *)
(* writes are one transaction, or one statement. Rows are updated by       *)
(* identifier: one that is gone is not updated, except a status, which     *)
(* save() inserts again. The foreign keys hold at the end of a             *)
(* transaction, or it is rolled back.                                      *)
(***************************************************************************)
EXTENDS Workflows

CONSTANTS
    Requests,   \* the requests that can be in progress at once
    Ops,        \* the operations they perform
    OverlapOps, \* those they perform when they overlap
    MaxOverlapStories, MaxOverlapStatuses,
                \* bounds of the rows there are when requests overlap
    NoRequest, Nothing   \* no request in progress, nothing loaded or decided

StoryOps == {"create_story", "change_status", "change_workflow",
             "reorder_stories", "delete_story"}

StatusOps == {"create_status", "update_status", "reorder_statuses", "delete_status"}

ASSUME OpsAssumption ==
    /\ OverlapOps \subseteq Ops
    /\ Ops \subseteq StoryOps \cup StatusOps \cup {"create_workflow", "delete_workflow"}

VARIABLES
    request,  \* what each request in progress has loaded, and will write
    given,    \* the identities a request in progress may know
    alone     \* whether requests are made one at a time, from the start

boardVars == <<request, given, alone, vars>>

-----------------------------------------------------------------------------
(* Loading. What is refused whatever the rows are is not asked for.        *)

\* The identities of the rows.
InUse ==
    Range(workflows) \cup {s \in Statuses : status[s] # NoStatus}
      \cup {x \in Stories : story[x] # NoStory}

\* Identities are never given twice: here, not as long as a request is in
\* progress that may know them.
Remember ==
    /\ given' = (IF \A r \in Requests : request'[r] = NoRequest THEN {} ELSE given)
                  \cup InUse'
    /\ UNCHANGED alone

\* The identities there are left for new rows, within the bounds.
Free(identities, bound) ==
    IF alone \/ Cardinality(given \cap identities) < bound
    THEN identities \ given ELSE {}

FreeStories == Free(Stories, MaxOverlapStories)
FreeStatuses == Free(Statuses, MaxOverlapStatuses)

MayOverlap(op) ==
    IF alone THEN \A r \in Requests : request[r] = NoRequest ELSE op \in OverlapOps

Finish(r) == request' = [request EXCEPT ![r] = NoRequest]

EndWithout(r) == Finish(r) /\ UNCHANGED vars /\ Remember

Load(r, op, args, row) ==
    /\ request[r] = NoRequest
    /\ op \in Ops
    /\ MayOverlap(op)
    /\ request' = [request EXCEPT ![r] =
         [op |-> op, step |-> "read", args |-> args, row |-> row, plan |-> Nothing]]
    /\ UNCHANGED vars
    /\ Remember

\* A story with the identifiers of its workflow and of its status.
LoadStory(r, x) ==
    /\ story[x] # NoStory
    /\ \/ \E s \in Statuses \cap given :
            Load(r, "change_status", [story |-> x, status |-> s], story[x])
       \/ \E w \in Workflows \cap given :
            Load(r, "change_workflow", [story |-> x, workflow |-> w], story[x])
       \/ Load(r, "delete_story", [story |-> x], story[x])

\* A status with its workflow and its order.
LoadStatus(r, s) ==
    /\ status[s] # NoStatus
    /\ \/ Load(r, "update_status", [status |-> s], status[s])
       \/ \E target \in ((Statuses \cap given) \ {s}) \cup {NoStatus} :
            Load(r, "delete_status", [status |-> s, target |-> target], status[s])

\* A workflow with the landing page of its project.
LoadWorkflow(r, w) ==
    /\ w \in Range(workflows)
    /\ \/ \E s \in Statuses \cap given :
            Load(r, "create_story", [workflow |-> w, status |-> s], Nothing)
       \/ \E s \in Statuses \cap given, block \in Arrangements(Stories \cap given) :
          \E anchor \in ((Stories \cap given) \ Range(block)) \cup {NoStory} :
          \E place \in IF anchor = NoStory THEN {"after"} ELSE Places :
            Load(r, "reorder_stories", [workflow |-> w, status |-> s,
                   block |-> block, place |-> place, anchor |-> anchor], Nothing)
       \/ Load(r, "create_status", [workflow |-> w], Nothing)
       \/ \E block \in Arrangements(Statuses \cap given), place \in Places :
          \E anchor \in (Statuses \cap given) \ Range(block) :
            Load(r, "reorder_statuses", [workflow |-> w, block |-> block,
                   place |-> place, anchor |-> anchor], Nothing)
       \/ \E target \in ((Workflows \cap given) \ {w}) \cup {NoWorkflow} :
            Load(r, "delete_workflow", [workflow |-> w, target |-> target], landing)

LoadProject(r) == Load(r, "create_workflow", <<>>, Nothing)

-----------------------------------------------------------------------------
(* Reading: what the service finds decides what it will write. A request   *)
(* with nothing it may write is refused, and so is, as a bound of the      *)
(* exploration, one whose orders would leave StatusOrders or StoryOrders.  *)

At(r, op, step) ==
    request[r] # NoRequest /\ request[r].op = op /\ request[r].step = step

Decide(r, plans) ==
    \/ /\ \E plan \in plans :
            request' = [request EXCEPT ![r].step = "write", ![r].plan = plan]
       /\ UNCHANGED vars
       /\ Remember
    \/ plans = {} /\ EndWithout(r)

MutantToEndOf(s) ==
    {order \in StoryOrders : order = DefaultOrderOffset * (Cardinality(StoriesIn(s)) + 1)}

\* The story goes to the end of status s, if its order is in the bounds.
ToEndOf(s) == {order \in StoryOrders : order = EndOf(s)}

ReadCreateStory(r) ==
    LET args == request[r].args IN
    /\ At(r, "create_story", "read")
    /\ Decide(r, {[status |-> args.status, order |-> order] :
         order \in IF args.status \in StatusesOf(args.workflow)
                   THEN ToEndOf(args.status) ELSE {}})

\* The status asked for is looked up in the workflow the story had.
ReadChangeStatus(r) ==
    LET s == request[r].args.status
        row == request[r].row
    IN /\ At(r, "change_status", "read")
       /\ Decide(r, {[status |-> s, order |-> order] :
            order \in IF s \in StatusesOf(row.workflow) \ {row.status}
                      THEN ToEndOf(s) ELSE {}})

ReadChangeWorkflow(r) ==
    LET w == request[r].args.workflow IN
    /\ At(r, "change_workflow", "read")
    /\ Decide(r,
         IF w \in Range(workflows) \ {request[r].row.workflow} /\ StatusesOf(w) # {}
         THEN {[status |-> Head(Columns[w]), order |-> order] :
                 order \in ToEndOf(Head(Columns[w]))}
         ELSE {})

\* The orders of the items on both sides of anchor: among items with the order
\* of anchor, it may come first, last or in between.
Neighbors(others, order, anchor) ==
    LET prev == OrderBefore(others, order, anchor)
        following == OrderAfter(others, order, anchor)
        same == order[anchor]
        tied == {j \in others \ {anchor} : order[j] = same}
    IN IF tied = {} THEN {<<prev, following>>}
       ELSE {<<prev, same>>, <<same, following>>}
              \cup (IF Cardinality(tied) > 1 THEN {<<same, same>>} ELSE {})

Placements(block, others, order, place, anchor) ==
    {PlacedBetween(block, others, order, place, anchor, sides[1], sides[2]) :
       sides \in Neighbors(others, order, anchor)}

Within(orders, bound) == Range(orders) \subseteq bound

ReadReorderStories(r) ==
    LET args == request[r].args
        others == StoriesIn(args.status) \ Range(args.block)
    IN /\ At(r, "reorder_stories", "read")
       /\ Decide(r, {plan \in
            IF \/ args.status \notin StatusesOf(args.workflow)
               \/ ~CanReorderStories(args.status, args.block, args.anchor)
            THEN {}
            ELSE IF args.anchor = NoStory
            THEN {Appended(args.block, Latest(StoriesIn(args.status), StoryOrder))}
            ELSE Placements(args.block, others, StoryOrder, args.place, args.anchor) :
          Within(plan, StoryOrders)})

ReadReorderStatuses(r) ==
    LET args == request[r].args
        others == StatusesOf(args.workflow) \ Range(args.block)
    IN /\ At(r, "reorder_statuses", "read")
       /\ Decide(r, {plan \in
            IF CanReorderStatuses(args.workflow, args.block, args.anchor)
            THEN Placements(args.block, others, StatusOrder, args.place, args.anchor)
            ELSE {} :
          Within(plan, StatusOrders)})

\* The stories of the status, if they can be moved to the target.
ReadDeleteStatus(r) ==
    LET s == request[r].args.status
        target == request[r].args.target
        w == request[r].row.workflow
    IN /\ At(r, "delete_status", "read")
       /\ Decide(r, {plan \in
            IF target = NoStatus THEN {<<>>}
            ELSE IF /\ status[target] # NoStatus
                    /\ target # s
                    /\ StoriesIn(s) # {} => status[target].workflow = w
                    /\ StoriesIn(s) \subseteq StoriesOf(w)
            THEN {Appended(Cards[s], Latest(StoriesIn(target), StoryOrder))}
            ELSE {} :
          Within(plan, StoryOrders)})

ReadCreateWorkflow(r) ==
    /\ At(r, "create_workflow", "read")
    /\ Decide(r, {plan \in {[first |-> workflows = <<>>]} :
                    Len(workflows) < MaxNumWorkflows})

ReadDeleteWorkflow(r) ==
    LET w == request[r].args.workflow
        target == request[r].args.target
    IN /\ At(r, "delete_workflow", "read")
       /\ Decide(r, {plan \in
            IF target = NoWorkflow THEN {<<>>}
            ELSE IF target \in Range(workflows) \ {w} THEN {MigrationOrders(w, target)}
            ELSE {} :
          Within(plan, StatusOrders)})

Read(r) ==
    \/ ReadCreateStory(r)
    \/ ReadChangeStatus(r)
    \/ ReadChangeWorkflow(r)
    \/ ReadReorderStories(r)
    \/ ReadReorderStatuses(r)
    \/ ReadDeleteStatus(r)
    \/ ReadCreateWorkflow(r)
    \/ ReadDeleteWorkflow(r)

-----------------------------------------------------------------------------
(* Writing.                                                                *)

MutantRefers(ws, st, sy) == TRUE

\* The foreign keys of the statuses and of the stories.
Refers(ws, st, sy) ==
    /\ \A s \in Statuses : st[s] # NoStatus => st[s].workflow \in Range(ws)
    /\ \A x \in Stories : sy[x] # NoStory =>
         sy[x].workflow \in Range(ws) /\ st[sy[x].status] # NoStatus

\* The request ends; its writes are kept if the foreign keys hold.
Commit(r, ws, land, st, sy) ==
    /\ Finish(r)
    /\ IF Refers(ws, st, sy)
       THEN /\ workflows' = ws
            /\ landing' = land
            /\ status' = st
            /\ story' = sy
       ELSE UNCHANGED vars
    /\ Remember

CommitStories(r, sy) == Commit(r, workflows, landing, status, sy)

CommitStatuses(r, st) == Commit(r, workflows, landing, st, story)

\* A new story takes an identity that is free, if the instance has one left.
WriteCreateStory(r) ==
    LET req == request[r]
    IN /\ At(r, "create_story", "write")
       /\ \/ \E x \in FreeStories :
               CommitStories(r, [story EXCEPT ![x] = [workflow |-> req.args.workflow,
                                   status |-> req.plan.status, order |-> req.plan.order]])
          \/ FreeStories = {} /\ EndWithout(r)

\* The columns of a story that is still there.
WriteChangeStatus(r) ==
    LET req == request[r]
        x == req.args.story
    IN /\ At(r, "change_status", "write")
       /\ CommitStories(r, IF story[x] = NoStory THEN story
            ELSE [story EXCEPT ![x].status = req.plan.status, ![x].order = req.plan.order])

WriteChangeWorkflow(r) ==
    LET req == request[r]
        x == req.args.story
    IN /\ At(r, "change_workflow", "write")
       /\ CommitStories(r, IF story[x] = NoStory THEN story
            ELSE [story EXCEPT ![x] = [workflow |-> req.args.workflow,
                                status |-> req.plan.status, order |-> req.plan.order]])

\* bulk_update of the stories that are still there.
StoriesMoved(s, orders) ==
    [x \in Stories |->
       IF x \in DOMAIN orders /\ story[x] # NoStory
       THEN [story[x] EXCEPT !.status = s, !.order = orders[x]] ELSE story[x]]

\* bulk_update of the statuses that are still there.
StatusesMoved(w, orders) ==
    [s \in Statuses |->
       IF s \in DOMAIN orders /\ status[s] # NoStatus
       THEN [workflow |-> w, order |-> orders[s]] ELSE status[s]]

WriteReorderStories(r) ==
    /\ At(r, "reorder_stories", "write")
    /\ CommitStories(r, StoriesMoved(request[r].args.status, request[r].plan))

WriteReorderStatuses(r) ==
    /\ At(r, "reorder_statuses", "write")
    /\ CommitStatuses(r, StatusesMoved(request[r].args.workflow, request[r].plan))

DeleteLoadedStory(r) ==
    /\ At(r, "delete_story", "read")
    /\ CommitStories(r, [story EXCEPT ![request[r].args.story] = NoStory])

\* The order is read by the statement that inserts the status.
InsertStatus(r) ==
    LET w == request[r].args.workflow
        order == NextOrder(Latest(StatusesOf(w), StatusOrder))
        free == {s \in FreeStatuses : order \in StatusOrders}
    IN /\ At(r, "create_status", "read")
       /\ \/ \E s \in free :
               CommitStatuses(r, [status EXCEPT ![s] = [workflow |-> w, order |-> order]])
          \/ free = {} /\ EndWithout(r)

\* A new name is saved with all that was loaded, the order included.
SaveStatus(r) ==
    /\ At(r, "update_status", "read")
    /\ CommitStatuses(r, [status EXCEPT ![request[r].args.status] = request[r].row])

\* The stories in it when it is deleted are deleted too.
WriteDeleteStatus(r) ==
    LET s == request[r].args.status
        moved == StoriesMoved(request[r].args.target, request[r].plan)
    IN /\ At(r, "delete_status", "write")
       /\ Commit(r, workflows, landing, [status EXCEPT ![s] = NoStatus],
            [x \in Stories |->
               IF moved[x] # NoStory /\ moved[x].status = s THEN NoStory ELSE moved[x]])

WriteCreateWorkflow(r) ==
    LET free == Workflows \ given
        templates == {ids \in SetToAllKPermutations(FreeStatuses) :
                        Len(ids) = TemplateSize}
    IN /\ At(r, "create_workflow", "write")
       /\ \/ \E w \in free, ids \in templates :
               Commit(r, Append(workflows, w),
                 IF request[r].plan.first THEN w ELSE landing,
                 [s \in Statuses |->
                    IF s \in Range(ids)
                    THEN [workflow |-> w, order |-> CHOOSE k \in 1 .. Len(ids) : ids[k] = s]
                    ELSE status[s]],
                 story)
          \/ (free = {} \/ templates = {}) /\ EndWithout(r)

\* The statuses that were to move and what is in them change workflow, then
\* the workflow is deleted with what is still its own. The landing page it is
\* compared with is the one that was loaded.
WriteDeleteWorkflow(r) ==
    LET w == request[r].args.workflow
        target == request[r].args.target
        plan == request[r].plan
        st == StatusesMoved(target, plan)
        moved == [x \in Stories |->
                    IF /\ x \in StoriesOf(w)
                       /\ story[x].status \in DOMAIN plan
                    THEN [story[x] EXCEPT !.workflow = target] ELSE story[x]]
        gone == {s \in Statuses : st[s] # NoStatus /\ st[s].workflow = w}
        left == IF w \in Range(workflows) THEN WorkflowsWithout(w) ELSE workflows
    IN /\ At(r, "delete_workflow", "write")
       /\ Commit(r, left,
            IF w \notin Range(workflows) \/ request[r].row # w THEN landing
            ELSE IF left = <<>> THEN NoWorkflow ELSE Head(left),
            [s \in Statuses |-> IF s \in gone THEN NoStatus ELSE st[s]],
            [x \in Stories |->
               IF moved[x] # NoStory /\ (moved[x].workflow = w \/ moved[x].status \in gone)
               THEN NoStory ELSE moved[x]])

Write(r) ==
    \/ WriteCreateStory(r)
    \/ WriteChangeStatus(r)
    \/ WriteChangeWorkflow(r)
    \/ WriteReorderStories(r)
    \/ WriteReorderStatuses(r)
    \/ DeleteLoadedStory(r)
    \/ InsertStatus(r)
    \/ SaveStatus(r)
    \/ WriteDeleteStatus(r)
    \/ WriteCreateWorkflow(r)
    \/ WriteDeleteWorkflow(r)

-----------------------------------------------------------------------------

BoardInit ==
    /\ Init
    /\ request = [r \in Requests |-> NoRequest]
    /\ given = InUse
    /\ alone \in BOOLEAN

BoardNext ==
    \E r \in Requests :
        \/ \E x \in Stories : LoadStory(r, x)
        \/ \E s \in Statuses : LoadStatus(r, s)
        \/ \E w \in Workflows : LoadWorkflow(r, w)
        \/ LoadProject(r)
        \/ Read(r)
        \/ Write(r)

BoardSpec == BoardInit /\ [][BoardNext]_boardVars

-----------------------------------------------------------------------------
(* Properties.                                                             *)

\* A request that nothing overlaps does what Workflows says of it, or nothing:
\* its queries put together are the handler.
SerialBoard == [][alone => Next]_vars
=============================================================================
