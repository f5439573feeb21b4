---------------------------- MODULE OrderedLists ----------------------------
(***************************************************************************)
(* What ordering promises, without the integers that implement it: lists   *)
(* of items, where a block of items is placed together, in the order asked *)
(* for, next to an item of a list or at its end, and every other item      *)
(* stays where it was. Stories in statuses and statuses in workflows are   *)
(* such lists, which are read by the orders of their items.                *)
(***************************************************************************)
EXTENDS SequencesExt

\* The items of S in their order.
Sorted(S, order) ==
    CHOOSE list \in [1 .. Cardinality(S) -> S] :
      \A i, j \in DOMAIN list : i < j => list[i] # list[j] /\ order[list[i]] <= order[list[j]]

\* What is left of a list without the items of S.
Without(list, S) ==
    LET kept == {k \in DOMAIN list : list[k] \notin S}
        index == Sorted(kept, [k \in kept |-> k])
    IN  [n \in DOMAIN index |-> list[index[n]]]

\* A list with a block inserted after its first k items.
Inserted(list, block, k) ==
    SubSeq(list, 1, k) \o block \o SubSeq(list, k + 1, Len(list))

Beside(list, block, place, anchor) ==
    LET at == CHOOSE k \in 1 .. Len(list) : list[k] = anchor
    IN Inserted(list, block, IF place = "after" THEN at ELSE at - 1)

Removed(lists, S) == [l \in DOMAIN lists |-> Without(lists[l], S)]

\* The block leaves the lists its items were in and goes to list l.
PlacedBeside(lists, l, block, place, anchor) ==
    [Removed(lists, Range(block)) EXCEPT ![l] = Beside(@, block, place, anchor)]

PlacedLast(lists, l, block) == [Removed(lists, Range(block)) EXCEPT ![l] = @ \o block]
=============================================================================
