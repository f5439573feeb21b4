---------------------------- MODULE MCWorkflows ----------------------------
(* Instances of Workflows for TLC.                                         *)
EXTENDS Boards

\* Orders on both sides of 0, for four stories in lists with and without gaps.
MCOrders == -1 .. 2

\* The order of the template, and those of statuses moved around it.
MCFewOrders == 1 .. 3

Symmetry == Permutations(Workflows) \cup Permutations(Statuses) \cup Permutations(Stories)
=============================================================================
