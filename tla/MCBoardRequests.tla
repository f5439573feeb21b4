-------------------------- MODULE MCBoardRequests --------------------------
(* Instances of BoardRequests for TLC.                                     *)
EXTENDS BoardRequests

AllOps == StoryOps \cup StatusOps \cup {"create_workflow", "delete_workflow"}

\* Without what can put a story in a status of another workflow, and without
\* the reordering of statuses.
OpsWithinWorkflows == AllOps \ {"change_workflow", "reorder_statuses"}

\* The statuses of a template, and one after them.
MCStatusOrders == 1 .. TemplateSize + DefaultOrderOffset

\* The orders of stories put one after the other.
MCStoryOrders == 1 .. 2 * DefaultOrderOffset

\* Requests one at a time cannot make two rows with the same order, so that all
\* identities are alike. When they overlap, there is one story and none of
\* OpsWithinWorkflows moves two statuses together: whichever of two rows with
\* the same order is listed first, the orders written are the same.
Symmetry ==
    Permutations(Requests) \cup Permutations(Workflows)
      \cup Permutations(Statuses) \cup Permutations(Stories)
=============================================================================
