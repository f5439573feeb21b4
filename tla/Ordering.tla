------------------------------ MODULE Ordering ------------------------------
(***************************************************************************)
(* Where a block of items goes in a list that is kept as one integer per   *)
(* item (commons/ordering.py), as stories in a status and statuses in a    *)
(* workflow are.                                                           *)
(*                                                                         *)
(* A block of n items placed next to an item of order `reference` goes to  *)
(* pre + offset, pre + 2 * offset, ..., pre + n * offset, where pre is the *)
(* order of the item before it. The gap is cut in n + 1 slots; when it has *)
(* fewer integers than slots the offset is 0, and the items that follow    *)
(* are moved along with the block until the room is enough.                *)
(***************************************************************************)
EXTENDS Integers, Sequences

CONSTANTS
    DefaultOrderOffset,  \* DEFAULT_ORDER_OFFSET, the gap left by default
    NoNeighbor           \* the order of a neighbor that does not exist

ASSUME OffsetAssumption == DefaultOrderOffset \in Nat \ {0}

ASSUME NoNeighborAssumption == NoNeighbor \notin Int

Places == {"before", "after"}

\* The order of an item added after one of order `latest`.
NextOrder(latest) == DefaultOrderOffset + latest

Lower(a, b) == IF a < b THEN a ELSE b

\* The order the block comes after.
PreOrder(place, reference, prev, slots) ==
    IF place = "after" THEN reference
    ELSE IF prev # NoNeighbor THEN prev
    ELSE Lower(0, reference - DefaultOrderOffset * slots)

\* The order the block comes before.
PostOrder(place, reference, next, slots) ==
    IF place = "before" THEN reference
    ELSE IF next # NoNeighbor THEN next
    ELSE reference + DefaultOrderOffset * slots

\* calculate_offset.
CalculateOffset(place, reference, prev, next, slots) ==
    LET pre == PreOrder(place, reference, prev, slots)
        post == PostOrder(place, reference, next, slots)
    IN [pre |-> pre, offset |-> (post - pre) \div slots]

MutantFits(orders, pre, n, k) ==
    /\ \A j \in 1 .. k : orders[j] - pre < n + 1
    /\ k < Len(orders) => orders[k + 1] - pre >= n + 1

\* k items have to be moved along with the block of n when the items after it
\* have these orders: each of the k found less room than the slots needed so
\* far, and the next one has enough.
Fits(orders, pre, n, k) ==
    /\ \A j \in 1 .. k : orders[j] - pre < n + j
    /\ k < Len(orders) => orders[k + 1] - pre >= n + k + 1

Displaced(orders, pre, n) == CHOOSE k \in 0 .. Len(orders) : Fits(orders, pre, n, k)

\* The offset once k items are moved along: the room up to the next item, or
\* the default when no item is left.
OffsetWith(orders, pre, n, k) ==
    IF k = Len(orders) THEN DefaultOrderOffset
    ELSE (orders[k + 1] - pre) \div (n + k + 1)

\* The order of the i-th item of the block.
Position(pre, offset, i) == pre + offset * i
=============================================================================
