--------------------------- MODULE WorkflowsProofs ---------------------------
(***************************************************************************)
(* The boards of a project, for any number of workflows, statuses and      *)
(* stories and any default offset: stories stay in their workflow, and no  *)
(* two items of a list have the same order. First, why the positions that  *)
(* Ordering computes are free; then what the lists that are sorted by them *)
(* contain; then, for each request, the lists it leaves; then where the    *)
(* stories are when the requests overlap (BoardRequests).                  *)
(***************************************************************************)
EXTENDS BoardRequests, FiniteSetTheorems, FunctionTheorems, WellFoundedInduction, TLAPS

-----------------------------------------------------------------------------
(* The positions. The arithmetic is that of a gap of `room` integers cut   *)
(* into slots.                                                             *)

\* A multiple of a slot that is not the last stays inside the gap.
LEMMA SlotsFit ==
    ASSUME NEW room \in Int, NEW slots \in Nat \ {0}, NEW i \in 1 .. (slots - 1),
           room \div slots >= 1
    PROVE  0 < (room \div slots) * i /\ (room \div slots) * i < room
  <1> DEFINE q == room \div slots
  <1>1. q \in Int /\ slots * q <= room
    OBVIOUS
  <1>2. q >= 1
    OBVIOUS
  <1> HIDE DEF q
  <1>3. 0 < q * i
    BY <1>1, <1>2
  <1>4. q * i < q * slots
    <2>1. q * slots - q * i = q * (slots - i)
      BY <1>1
    <2>2. q * (slots - i) >= 1
      BY <1>1, <1>2
    <2> QED BY <1>1, <2>1, <2>2
  <1> QED BY <1>1, <1>3, <1>4 DEF q

LEMMA PositionsIncrease ==
    ASSUME NEW pre \in Int, NEW offset \in Nat \ {0}, NEW i \in Nat, NEW j \in Nat, i < j
    PROVE  Position(pre, offset, i) < Position(pre, offset, j)
  <1>1. offset * j - offset * i = offset * (j - i)
    OBVIOUS
  <1>2. offset * (j - i) >= 1
    OBVIOUS
  <1> QED BY <1>1, <1>2 DEF Position

\* What CalculateOffset is called with: the neighbors on either side.
IsBetween(reference, prev, next) ==
    /\ reference \in Int
    /\ prev \in Int \cup {NoNeighbor} /\ (prev # NoNeighbor => prev < reference)
    /\ next \in Int \cup {NoNeighbor} /\ (next # NoNeighbor => reference < next)

\* Next to a neighbor that does not exist the room is the default for each slot.
LEMMA GapType ==
    ASSUME NEW place \in Places, NEW reference, NEW prev, NEW next,
           IsBetween(reference, prev, next), NEW slots \in Nat \ {0}
    PROVE  LET pre == PreOrder(place, reference, prev, slots)
               post == PostOrder(place, reference, next, slots)
           IN  pre \in Int /\ post \in Int /\ pre < post
  <1>1. DefaultOrderOffset * slots \in Nat \ {0}
    BY OffsetAssumption
  <1> DEFINE width == DefaultOrderOffset * slots
  <1> HIDE DEF width
  <1>2. width \in Nat \ {0}
    BY <1>1 DEF width
  <1> QED BY <1>2, NoNeighborAssumption
          DEF PreOrder, PostOrder, Lower, Places, IsBetween, width

\* calculate_offset: if the offset is not 0, the items of the block get
\* increasing orders, all of them between the neighbors the block goes between,
\* so that the block is contiguous and no order is used twice.
THEOREM BlockFitsInGap ==
    ASSUME NEW place \in Places, NEW reference, NEW prev, NEW next,
           IsBetween(reference, prev, next), NEW n \in Nat \ {0},
           CalculateOffset(place, reference, prev, next, n + 1).offset # 0
    PROVE  LET gap == CalculateOffset(place, reference, prev, next, n + 1)
               post == PostOrder(place, reference, next, n + 1)
           IN  \A i \in 1 .. n :
                 /\ gap.pre < Position(gap.pre, gap.offset, i)
                 /\ Position(gap.pre, gap.offset, i) < post
                 /\ \A j \in 1 .. n : i < j =>
                      Position(gap.pre, gap.offset, i) < Position(gap.pre, gap.offset, j)
  <1> DEFINE pre == PreOrder(place, reference, prev, n + 1)
             post == PostOrder(place, reference, next, n + 1)
             gap == CalculateOffset(place, reference, prev, next, n + 1)
             room == post - pre
  <1>1. pre \in Int /\ post \in Int /\ pre < post
    BY GapType
  <1>2. gap.pre = pre /\ gap.offset = room \div (n + 1)
    BY DEF CalculateOffset
  <1>3. room \in Int /\ room >= 1
    BY <1>1
  <1> HIDE DEF pre, post, gap, room
  <1>4. room \div (n + 1) \in Nat
    BY <1>3
  <1>5. room \div (n + 1) >= 1
    BY <1>2, <1>4 DEF gap
  <1>6. ASSUME NEW i \in 1 .. n
        PROVE  /\ pre < Position(pre, gap.offset, i) /\ Position(pre, gap.offset, i) < post
               /\ \A j \in 1 .. n :
                    i < j => Position(pre, gap.offset, i) < Position(pre, gap.offset, j)
    <2> DEFINE offset == room \div (n + 1)
    <2>1. 0 < offset * i /\ offset * i < room
      BY <1>3, <1>5, SlotsFit
    <2> HIDE DEF offset
    <2>2. offset \in Nat \ {0} /\ gap.offset = offset
      BY <1>2, <1>4, <1>5 DEF offset
    <2>3. pre < Position(pre, offset, i) /\ Position(pre, offset, i) < post
      BY <1>1, <2>1, <2>2 DEF Position, room
    <2>4. \A j \in 1 .. n : i < j => Position(pre, offset, i) < Position(pre, offset, j)
      BY <1>1, <2>2, PositionsIncrease
    <2> QED BY <2>2, <2>3, <2>4
  <1> QED BY <1>2, <1>6 DEF gap, post

\* The loops that make room (reorder_stories, reorder_workflow_statuses): once
\* the k items found are moved along with the block, the last of them is still
\* before the next item, which keeps its order.
THEOREM RoomIsMade ==
    ASSUME NEW orders \in Seq(Int), NEW pre \in Int, NEW n \in Nat \ {0},
           NEW k \in 0 .. Len(orders), Fits(orders, pre, n, k)
    PROVE  LET offset == OffsetWith(orders, pre, n, k) IN
           /\ \A i \in 1 .. (n + k) :
                /\ pre < Position(pre, offset, i)
                /\ k < Len(orders) => Position(pre, offset, i) < orders[k + 1]
                /\ \A j \in 1 .. (n + k) :
                     i < j => Position(pre, offset, i) < Position(pre, offset, j)
  <1> DEFINE offset == OffsetWith(orders, pre, n, k)
             room == orders[k + 1] - pre
  <1>1. CASE k = Len(orders)
    <2>1. offset = DefaultOrderOffset
      BY <1>1 DEF OffsetWith
    <2> HIDE DEF offset
    <2>2. \A i \in 1 .. (n + k) : pre < Position(pre, offset, i)
      <3>1. ASSUME NEW i \in 1 .. (n + k) PROVE 0 < offset * i
        BY <2>1, OffsetAssumption
      <3> QED BY <2>1, <3>1, OffsetAssumption DEF Position
    <2>3. \A i, j \in 1 .. (n + k) :
            i < j => Position(pre, offset, i) < Position(pre, offset, j)
      BY <2>1, OffsetAssumption, PositionsIncrease
    <2> QED BY <1>1, <2>2, <2>3 DEF offset
  <1>2. CASE k < Len(orders)
    <2>1. room \in Int /\ room >= n + k + 1
      BY <1>2 DEF Fits
    <2>2. offset = room \div (n + k + 1)
      BY <1>2 DEF OffsetWith
    <2> HIDE DEF room, offset
    <2> DEFINE slots == n + k + 1
    <2>3. slots \in Nat \ {0} /\ room >= slots
      BY <2>1
    <2> HIDE DEF slots
    <2>4. room \div slots >= 1
      BY <2>1, <2>3
    <2>5. offset \in Nat \ {0}
      BY <2>1, <2>2, <2>3, <2>4 DEF slots
    <2>6. ASSUME NEW i \in 1 .. (n + k)
          PROVE  0 < offset * i /\ offset * i < room
      <3>1. i \in 1 .. (slots - 1)
        BY DEF slots
      <3> QED BY <2>1, <2>2, <2>3, <2>4, <3>1, SlotsFit DEF slots
    <2>7. \A i \in 1 .. (n + k) :
            pre < Position(pre, offset, i) /\ Position(pre, offset, i) < orders[k + 1]
      <3>1. ASSUME NEW i \in 1 .. (n + k), NEW m \in Int, m = offset * i
            PROVE  pre < pre + m /\ pre + m < orders[k + 1]
        <4>1. orders[k + 1] \in Int /\ 0 < m /\ m < orders[k + 1] - pre
          BY <1>2, <2>6, <3>1 DEF room
        <4> QED BY <4>1
      <3>2. \A i \in 1 .. (n + k) : offset * i \in Int
        BY <2>5
      <3> QED BY <3>1, <3>2 DEF Position
    <2>8. \A i, j \in 1 .. (n + k) :
            i < j => Position(pre, offset, i) < Position(pre, offset, j)
      BY <2>5, PositionsIncrease
    <2> QED BY <2>7, <2>8 DEF offset
  <1> QED BY <1>1, <1>2

-----------------------------------------------------------------------------
(* Lists that are sorted by their orders.                                  *)

LEMMA LeastNatural ==
    ASSUME NEW T \in SUBSET Nat, T # {}
    PROVE  \E n \in T : \A m \in T : n <= m
  <1> DEFINE R == OpToRel(<, Nat)
  <1>1. IsWellFoundedOn(R, Nat)
    BY NatLessThanWellFounded
  <1>2. \A m, n \in Nat : m < n => <<m, n>> \in R
    BY DEF OpToRel
  <1> HIDE DEF R
  <1>3. PICK n \in T : \A m \in T : <<m, n>> \notin R
    BY <1>1, WFMin
  <1>4. ASSUME NEW m \in T PROVE n <= m
    <2>1. ~(m < n)
      BY <1>2, <1>3
    <2> QED BY <2>1
  <1> QED BY <1>4

\* The orders of the items of S.
Ordered(S, order) == IsFiniteSet(S) /\ \A i \in S : order[i] \in Int

LEMMA HasGreatest ==
    ASSUME NEW S, NEW order, Ordered(S, order), S # {}
    PROVE  \E m \in S : \A i \in S : order[i] <= order[m]
  <1> DEFINE Has(U) == \E m \in U : \A i \in U : order[i] <= order[m]
             T == {n \in Nat : \E U \in SUBSET S : U # {} /\ Cardinality(U) = n /\ ~Has(U)}
  <1>1. T = {}
    <2> SUFFICES ASSUME T # {} PROVE FALSE
      OBVIOUS
    <2>1. PICK n \in T : \A m \in T : n <= m
      <3> HIDE DEF T
      <3>1. T \subseteq Nat
        BY DEF T
      <3> QED BY <3>1, LeastNatural
    <2>2. PICK U \in SUBSET S : U # {} /\ Cardinality(U) = n /\ ~Has(U)
      BY <2>1
    <2>3. PICK u \in U : TRUE
      BY <2>2
    <2>4. /\ IsFiniteSet(U \ {u}) /\ Cardinality(U \ {u}) \in Nat
          /\ Cardinality(U \ {u}) = n - 1 /\ n \in Nat
      <3>1. IsFiniteSet(U)
        BY FS_Subset DEF Ordered
      <3> QED BY <2>1, <2>2, <3>1, FS_RemoveElement, FS_CardinalityType
    <2>5. \A i \in U : order[i] \in Int
      BY DEF Ordered
    <2>6. CASE U \ {u} = {}
      BY <2>2, <2>5, <2>6
    <2>7. CASE U \ {u} # {}
      <3>1. n - 1 \notin T
        BY <2>1, <2>4
      <3>2. Has(U \ {u})
        BY <2>4, <2>7, <3>1
      <3>3. PICK m \in U \ {u} : \A i \in U \ {u} : order[i] <= order[m]
        BY <3>2
      <3>4. \A i \in U : order[i] <= order[IF order[u] <= order[m] THEN m ELSE u]
        BY <2>5, <3>3
      <3> QED BY <2>2, <3>4
    <2> QED BY <2>6, <2>7
  <1>2. Cardinality(S) \in Nat
    BY FS_CardinalityType DEF Ordered
  <1> QED BY <1>1, <1>2

LEMMA HasLeast ==
    ASSUME NEW S, NEW order, Ordered(S, order), S # {}
    PROVE  \E m \in S : \A i \in S : order[m] <= order[i]
  <1> DEFINE opposite == [i \in S |-> 0 - order[i]]
  <1>1. Ordered(S, opposite)
    BY DEF Ordered
  <1>2. PICK m \in S : \A i \in S : opposite[i] <= opposite[m]
    <2> HIDE DEF opposite
    <2> QED BY <1>1, HasGreatest
  <1>3. \A i \in S : order[m] <= order[i]
    BY <1>2 DEF Ordered
  <1> QED BY <1>3

IsInOrder(list, order) ==
    \A i, j \in DOMAIN list : i < j => list[i] # list[j] /\ order[list[i]] <= order[list[j]]

LEMMA SortedExists ==
    ASSUME NEW S, NEW order, Ordered(S, order)
    PROVE  \E list \in [1 .. Cardinality(S) -> S] : IsInOrder(list, order)
  <1> DEFINE Has(U, n) == \E list \in [1 .. n -> U] : IsInOrder(list, order)
             T == {n \in Nat : \E U \in SUBSET S : Cardinality(U) = n /\ ~Has(U, n)}
  <1>1. T = {}
    <2> SUFFICES ASSUME T # {} PROVE FALSE
      OBVIOUS
    <2>1. PICK n \in T : \A m \in T : n <= m
      <3> HIDE DEF T
      <3>1. T \subseteq Nat
        BY DEF T
      <3> QED BY <3>1, LeastNatural
    <2>2. PICK U \in SUBSET S : Cardinality(U) = n /\ ~Has(U, n)
      BY <2>1
    <2>3. n \in Nat /\ Ordered(U, order) /\ (n = 0 <=> U = {})
      BY <2>1, <2>2, FS_Subset, FS_EmptySet DEF Ordered
    <2>4. CASE n = 0
      <3>1. [k \in 1 .. n |-> 0] \in [1 .. n -> U] /\ IsInOrder([k \in 1 .. n |-> 0], order)
        BY <2>4 DEF IsInOrder
      <3> QED BY <2>2, <3>1
    <2>5. CASE n # 0
      <3>1. PICK m \in U : \A i \in U : order[i] <= order[m]
        BY <2>3, <2>5, HasGreatest
      <3>2. Cardinality(U \ {m}) = n - 1
        BY <2>2, <2>3, FS_RemoveElement DEF Ordered
      <3>3. Has(U \ {m}, n - 1)
        <4>1. n - 1 \notin T /\ n - 1 \in Nat
          BY <2>1, <2>3, <2>5
        <4> QED BY <3>2, <4>1
      <3>4. PICK list \in [1 .. (n - 1) -> U \ {m}] : IsInOrder(list, order)
        BY <3>3
      <3> DEFINE longer == [k \in 1 .. n |-> IF k = n THEN m ELSE list[k]]
      <3>5. longer \in [1 .. n -> U]
        BY <2>3, <2>5
      <3>6. ASSUME NEW i \in 1 .. n, NEW j \in 1 .. n, i < j
            PROVE  longer[i] # longer[j] /\ order[longer[i]] <= order[longer[j]]
        <4>1. i \in 1 .. (n - 1) /\ longer[i] = list[i] /\ list[i] \in U \ {m}
          BY <2>3, <3>6
        <4>2. CASE j = n
          BY <3>1, <4>1, <4>2
        <4>3. CASE j # n
          BY <2>3, <3>4, <3>6, <4>1, <4>3 DEF IsInOrder
        <4> QED BY <4>2, <4>3
      <3>7. IsInOrder(longer, order)
        BY <3>5, <3>6 DEF IsInOrder
      <3> QED BY <2>2, <3>5, <3>7
    <2> QED BY <2>4, <2>5
  <1>2. Cardinality(S) \in Nat
    BY FS_CardinalityType DEF Ordered
  <1> QED BY <1>1, <1>2

\* A sorted list has each of the items once.
LEMMA SortedFacts ==
    ASSUME NEW S, NEW order, Ordered(S, order)
    PROVE  LET list == Sorted(S, order) IN
           /\ list \in Seq(S) /\ Len(list) = Cardinality(S) /\ Range(list) = S
           /\ (list = <<>> <=> S = {})
           /\ \A i, j \in 1 .. Len(list) : i < j => list[i] # list[j] /\ order[list[i]] <= order[list[j]]
  <1> DEFINE list == Sorted(S, order)
             n == Cardinality(S)
  <1>1. list \in [1 .. n -> S] /\ IsInOrder(list, order)
    <2>1. list = CHOOSE l \in [1 .. n -> S] : IsInOrder(l, order)
      BY DEF Sorted, IsInOrder
    <2> HIDE DEF list
    <2> QED BY <2>1, SortedExists
  <1> HIDE DEF list
  <1>2. n \in Nat
    BY FS_CardinalityType DEF Ordered
  <1>3. list \in Seq(S) /\ Len(list) = n
    BY <1>1, <1>2
  <1>4. \A a, b \in 1 .. n : list[a] = list[b] => a = b
    BY <1>1, <1>2 DEF IsInOrder
  <1>5. list \in Surjection(1 .. n, S)
    <2>1. list \in Injection(1 .. n, S)
      BY <1>1, <1>4, Fun_IsInj
    <2>2. Cardinality(1 .. n) = n
      BY <1>2, FS_Interval
    <2> QED BY <2>1, <2>2, FS_Injection DEF Ordered
  <1>6. Range(list) = S
    BY <1>5, Fun_SurjectionProperties
  <1>7. list = <<>> <=> S = {}
    BY <1>2, <1>3, FS_EmptySet DEF Ordered
  <1> QED BY <1>1, <1>3, <1>6, <1>7 DEF IsInOrder, list

\* No two of the items have the same order.
Distinct(S, order) == \A i, j \in S : i # j => order[i] # order[j]

LEMMA LatestFacts ==
    ASSUME NEW S, NEW order, Ordered(S, order)
    PROVE  Latest(S, order) \in Int /\ \A i \in S : order[i] <= Latest(S, order)
  <1>1. CASE S = {}
    BY <1>1 DEF Latest
  <1>2. CASE S # {}
    <2>1. PICK m \in S : \A i \in S : order[i] <= order[m]
      BY <1>2, HasGreatest
    <2> DEFINE orders == {order[i] : i \in S}
    <2>2. order[m] \in orders /\ (\A x \in orders : x \in Int) /\ \A y \in orders : order[m] >= y
      BY <2>1 DEF Ordered
    <2>3. \E x \in orders : \A y \in orders : x >= y
      BY <2>2
    <2>4. Latest(S, order) \in orders /\ \A y \in orders : Latest(S, order) >= y
      <3>1. Latest(S, order) = CHOOSE x \in orders : \A y \in orders : x >= y
        BY <1>2 DEF Latest, Max
      <3> HIDE DEF orders
      <3> QED BY <2>3, <3>1
    <2>5. \A i \in S : order[i] \in orders
      OBVIOUS
    <2> HIDE DEF orders
    <2> QED BY <2>2, <2>4, <2>5
  <1> QED BY <1>1, <1>2

\* The neighbors of anchor are next to it.
LEMMA OrderBeforeFacts ==
    ASSUME NEW others, NEW order, Ordered(others, order), NEW anchor \in others
    PROVE  LET prev == OrderBefore(others, order, anchor) IN
           /\ prev \in Int \cup {NoNeighbor}
           /\ prev # NoNeighbor => prev < order[anchor]
           /\ \A j \in others : order[j] < order[anchor] => prev # NoNeighbor /\ order[j] <= prev
  <1> DEFINE below == {j \in others : order[j] < order[anchor]}
             prev == OrderBefore(others, order, anchor)
  <1>1. CASE below = {}
    BY <1>1 DEF OrderBefore
  <1>2. CASE below # {}
    <2>1. Ordered(below, order)
      BY FS_Subset DEF Ordered
    <2>2. prev = Latest(below, order)
      BY <1>2 DEF OrderBefore
    <2>3. prev \in Int /\ \A j \in below : order[j] <= prev
      BY <2>1, <2>2, LatestFacts
    <2>4. PICK m \in below : \A i \in below : order[i] <= order[m]
      BY <1>2, <2>1, HasGreatest
    <2>5. prev < order[anchor]
      <3>1. \E i \in below : prev = order[i]
        <4> DEFINE orders == {order[i] : i \in below}
        <4>1. order[m] \in orders /\ \A y \in orders : order[m] >= y
          BY <2>1, <2>4 DEF Ordered
        <4>2. prev = CHOOSE x \in orders : \A y \in orders : x >= y
          BY <1>2, <2>2 DEF Latest, Max
        <4>3. prev \in orders
          <5> HIDE DEF orders
          <5> QED BY <4>1, <4>2
        <4> QED BY <4>3
      <3> QED BY <3>1
    <2> HIDE DEF prev
    <2> QED BY <2>3, <2>5, NoNeighborAssumption DEF prev
  <1> QED BY <1>1, <1>2

LEMMA OrderAfterFacts ==
    ASSUME NEW others, NEW order, Ordered(others, order), NEW anchor \in others
    PROVE  LET following == OrderAfter(others, order, anchor) IN
           /\ following \in Int \cup {NoNeighbor}
           /\ following # NoNeighbor => order[anchor] < following
           /\ \A j \in others :
                order[anchor] < order[j] => following # NoNeighbor /\ following <= order[j]
  <1> DEFINE later == {j \in others : order[j] > order[anchor]}
             orders == {order[i] : i \in later}
             following == OrderAfter(others, order, anchor)
  <1>1. CASE orders = {}
    <2>1. following = NoNeighbor
      BY <1>1 DEF OrderAfter
    <2>2. \A j \in others : ~(order[j] > order[anchor])
      BY <1>1
    <2> QED BY <2>1, <2>2 DEF Ordered
  <1>2. CASE orders # {}
    <2>1. Ordered(later, order) /\ later # {}
      BY <1>2, FS_Subset DEF Ordered
    <2>2. PICK m \in later : \A i \in later : order[m] <= order[i]
      BY <2>1, HasLeast
    <2>3. order[m] \in orders /\ \A y \in orders : order[m] =< y
      BY <2>2
    <2>4. following = CHOOSE x \in orders : \A y \in orders : x =< y
      BY <1>2 DEF OrderAfter, Min
    <2>5. following \in orders /\ \A y \in orders : following =< y
      <3> HIDE DEF orders, following
      <3> QED BY <2>3, <2>4
    <2>6. \A j \in others : order[anchor] < order[j] => order[j] \in orders
      BY DEF Ordered
    <2>7. \A y \in orders : y \in Int /\ order[anchor] < y
      BY DEF Ordered
    <2> HIDE DEF orders, following
    <2> QED BY <2>5, <2>6, <2>7, NoNeighborAssumption DEF following
  <1> QED BY <1>1, <1>2

\* There is always a number of items to move along.
LEMMA FitsExists ==
    ASSUME NEW orders \in Seq(Int), NEW pre \in Int, NEW n \in Nat
    PROVE  Displaced(orders, pre, n) \in 0 .. Len(orders)
           /\ Fits(orders, pre, n, Displaced(orders, pre, n))
  <1> DEFINE T == {k \in 0 .. Len(orders) : k < Len(orders) => orders[k + 1] - pre >= n + k + 1}
  <1>1. Len(orders) \in Nat /\ \A j \in 1 .. Len(orders) : orders[j] \in Int
    OBVIOUS
  <1>2. PICK k \in T : \A m \in T : k <= m
    <2>1. Len(orders) \in T
      BY <1>1
    <2>2. T \in SUBSET Nat
      BY <1>1
    <2> HIDE DEF T
    <2> QED BY <2>1, <2>2, LeastNatural
  <1>3. ASSUME NEW j \in 1 .. k PROVE orders[j] - pre < n + j
    <2>1. j - 1 \in 0 .. Len(orders) /\ j - 1 < Len(orders) /\ j - 1 < k
      BY <1>1
    <2>2. j - 1 \notin T
      BY <1>2, <2>1
    <2>3. ~(orders[(j - 1) + 1] - pre >= n + (j - 1) + 1)
      BY <2>1, <2>2
    <2>4. (j - 1) + 1 = j /\ n + (j - 1) + 1 = n + j /\ orders[j] \in Int
      BY <1>1, <2>1
    <2> QED BY <2>3, <2>4
  <1>4. Fits(orders, pre, n, k)
    BY <1>2, <1>3 DEF Fits
  <1> QED BY <1>4 DEF Displaced

\* The items of a list get the positions from the first on.
LEMMA NumberedFacts ==
    ASSUME NEW Items, NEW moved \in Seq(Items), NEW pre, NEW offset,
           \A k \in 1 .. Len(moved) : Position(pre, offset, k) \in Int,
           \A k, l \in 1 .. Len(moved) : k < l => Position(pre, offset, k) < Position(pre, offset, l)
    PROVE  LET new == Numbered(moved, pre, offset) IN
           /\ DOMAIN new = Range(moved)
           /\ \A i \in Range(moved) :
                \E k \in 1 .. Len(moved) : new[i] = Position(pre, offset, k) /\ moved[k] = i
           /\ \A i \in Range(moved) : new[i] \in Int
           /\ Distinct(Range(moved), new)
  <1> DEFINE new == Numbered(moved, pre, offset)
  <1>1. DOMAIN new = Range(moved)
    BY DEF Numbered
  <1>2. ASSUME NEW i \in Range(moved)
        PROVE  \E k \in 1 .. Len(moved) : new[i] = Position(pre, offset, k) /\ moved[k] = i
    <2> DEFINE at == CHOOSE k \in 1 .. Len(moved) : moved[k] = i
    <2>1. \E k \in 1 .. Len(moved) : moved[k] = i
      BY DEF Range
    <2>2. at \in 1 .. Len(moved) /\ moved[at] = i
      BY <2>1
    <2>3. new[i] = Position(pre, offset, at)
      BY DEF Numbered
    <2> QED BY <2>2, <2>3
  <1> HIDE DEF new
  <1>3. ASSUME NEW i \in Range(moved), NEW j \in Range(moved), i # j
        PROVE  new[i] # new[j]
    <2>1. PICK k \in 1 .. Len(moved) : new[i] = Position(pre, offset, k) /\ moved[k] = i
      BY <1>2
    <2>2. PICK l \in 1 .. Len(moved) : new[j] = Position(pre, offset, l) /\ moved[l] = j
      BY <1>2
    <2>3. k # l
      BY <1>3, <2>1, <2>2
    <2>4. k < l \/ l < k
      BY <2>3
    <2>5. \A a, b \in 1 .. Len(moved) : a < b => Position(pre, offset, a) < Position(pre, offset, b)
      OBVIOUS
    <2>6. Position(pre, offset, k) \in Int /\ Position(pre, offset, l) \in Int
      OBVIOUS
    <2>7. Position(pre, offset, k) # Position(pre, offset, l)
      BY <2>4, <2>5, <2>6
    <2> QED BY <2>1, <2>2, <2>7
  <1>4. \A i \in Range(moved) : new[i] \in Int
    BY <1>2
  <1> QED BY <1>1, <1>2, <1>3, <1>4 DEF Distinct, new

\* The items that are numbered: the block, then those that are moved along.
LEMMA MovedFacts ==
    ASSUME NEW Items, NEW block \in Seq(Items), NEW next \in Seq(Items),
           NEW displaced \in Nat, displaced <= Len(next)
    PROVE  LET moved == block \o SubSeq(next, 1, displaced)
               n == Len(block)
           IN  /\ moved \in Seq(Items) /\ Len(moved) = n + displaced
               /\ \A k \in 1 .. n : k \in 1 .. (n + displaced) /\ moved[k] = block[k]
               /\ \A k \in 1 .. displaced : n + k \in 1 .. (n + displaced) /\ moved[n + k] = next[k]
               /\ \A i : i \in Range(moved) <=>
                    (i \in Range(block) \/ \E k \in 1 .. displaced : next[k] = i)
  <1> DEFINE n == Len(block)
             along == SubSeq(next, 1, displaced)
             moved == block \o along
  <1>1. n \in Nat /\ Len(next) \in Nat
    OBVIOUS
  <1>2. /\ along \in Seq(Items) /\ Len(along) = displaced
        /\ \A k \in 1 .. displaced : along[k] = next[k]
    OBVIOUS
  <1> HIDE DEF along
  <1>3. /\ moved \in Seq(Items) /\ Len(moved) = n + displaced
        /\ \A k \in 1 .. (n + displaced) : moved[k] = IF k <= n THEN block[k] ELSE along[k - n]
    BY <1>2
  <1> HIDE DEF moved
  <1>4. /\ \A k \in 1 .. n : k \in 1 .. (n + displaced) /\ moved[k] = block[k]
        /\ \A k \in 1 .. displaced : n + k \in 1 .. (n + displaced) /\ moved[n + k] = next[k]
    <2> HIDE DEF n
    <2>1. \A k \in 1 .. n : k \in 1 .. (n + displaced) /\ k <= n
      BY <1>1
    <2>2. \A k \in 1 .. displaced : n + k \in 1 .. (n + displaced) /\ ~(n + k <= n) /\ (n + k) - n = k
      BY <1>1
    <2> QED BY <1>2, <1>3, <2>1, <2>2
  <1>5. ASSUME NEW i
        PROVE  i \in Range(moved) <=> (i \in Range(block) \/ \E k \in 1 .. displaced : next[k] = i)
    <2>1. DOMAIN moved = 1 .. (n + displaced) /\ DOMAIN block = 1 .. n
      BY <1>3
    <2> HIDE DEF n
    <2>2. /\ i \in Range(moved) <=> \E k \in 1 .. (n + displaced) : moved[k] = i
          /\ i \in Range(block) <=> \E k \in 1 .. n : block[k] = i
      BY <2>1 DEF Range
    <2>3. \A k \in 1 .. (n + displaced) : /\ k <= n => k \in 1 .. n
                                          /\ k > n => k - n \in 1 .. displaced /\ n + (k - n) = k
                                          /\ k <= n \/ k > n
      BY <1>1
    <2>4. ASSUME NEW k \in 1 .. (n + displaced)
          PROVE  \/ k \in 1 .. n /\ moved[k] = block[k]
                 \/ \E l \in 1 .. displaced : moved[k] = next[l]
      BY <1>4, <2>3
    <2> QED BY <1>4, <2>2, <2>4
  <1> QED BY <1>3, <1>4, <1>5 DEF moved, along

\* Where the items that are placed next to another of a list go: after `pre`, along
\* with the first of those after it, and before the others of those.
IsPlan(block, others, order, place, anchor, pre, offset, next, displaced) ==
    /\ displaced <= Len(next)
    /\ Repositioned(block, others, order, place, anchor) =
         Numbered(block \o SubSeq(next, 1, displaced), pre, offset)
    /\ Range(next) = {j \in others : order[j] > pre}
    /\ \A k, l \in 1 .. Len(next) : k < l => next[k] # next[l] /\ order[next[k]] <= order[next[l]]
    /\ \A j \in others : order[j] > pre <=>
         (order[j] > order[anchor] \/ (order[j] = order[anchor] /\ place = "before"))
    /\ \A k \in 1 .. (Len(block) + displaced) :
         /\ Position(pre, offset, k) \in Int /\ pre < Position(pre, offset, k)
         /\ \A j \in others : order[j] > pre /\ (\A l \in 1 .. displaced : next[l] # j) =>
              Position(pre, offset, k) < order[j]
    /\ \A k, l \in 1 .. (Len(block) + displaced) :
         k < l => Position(pre, offset, k) < Position(pre, offset, l)

LEMMA RepositionedPlan ==
    ASSUME NEW Items, NEW block \in Seq(Items), block # <<>>,
           NEW others \in SUBSET Items, NEW order, Ordered(others, order),
           NEW place \in Places, NEW anchor \in others
    PROVE  \E pre \in Int, offset \in Int, next \in Seq(others), displaced \in Nat :
             IsPlan(block, others, order, place, anchor, pre, offset, next, displaced)
  <1> DEFINE n == Len(block)
             ref == order[anchor]
             prev == OrderBefore(others, order, anchor)
             following == OrderAfter(others, order, anchor)
             gap == CalculateOffset(place, ref, prev, following, n + 1)
             pre == gap.pre
             post == PostOrder(place, ref, following, n + 1)
             above == {j \in others : order[j] > pre}
             next == Sorted(above, order)
             orders == [k \in 1 .. Len(next) |-> order[next[k]]]
             displaced == IF gap.offset # 0 THEN 0 ELSE Displaced(orders, pre, n)
             offset == IF gap.offset # 0 THEN gap.offset ELSE OffsetWith(orders, pre, n, displaced)
             moved == block \o SubSeq(next, 1, displaced)
             new == Numbered(moved, pre, offset)
  <1>1. Repositioned(block, others, order, place, anchor) = new
    BY DEF Repositioned, PlacedBetween
  <1>2. n \in Nat \ {0}
    OBVIOUS
  <1>3. /\ IsBetween(ref, prev, following)
        /\ \A j \in others : order[j] < ref => prev # NoNeighbor /\ order[j] <= prev
        /\ \A j \in others : ref < order[j] => following # NoNeighbor /\ following <= order[j]
    <2> HIDE DEF prev, following
    <2> QED BY OrderBeforeFacts, OrderAfterFacts DEF IsBetween, Ordered, prev, following
  <1> HIDE DEF prev, following
  <1>4. pre = PreOrder(place, ref, prev, n + 1) /\ pre \in Int /\ post \in Int /\ pre < post
    <2>1. pre = PreOrder(place, ref, prev, n + 1)
      BY DEF CalculateOffset
    <2>2. n + 1 \in Nat \ {0}
      BY <1>2
    <2> HIDE DEF n, ref, pre, post
    <2>3. PreOrder(place, ref, prev, n + 1) \in Int /\ post \in Int /\ PreOrder(place, ref, prev, n + 1) < post
      BY <1>3, <2>2, GapType DEF post
    <2> QED BY <2>1, <2>3
  <1>5. \A j \in others :
          /\ order[j] > pre => order[j] >= post
          /\ order[j] > pre <=> (order[j] > ref \/ (order[j] = ref /\ place = "before"))
    <2>1. \A j \in others : order[j] \in Int
      BY DEF Ordered
    <2>2. CASE place = "after"
      <3>1. pre = ref /\ (following # NoNeighbor => post = following)
        BY <1>4, <2>2 DEF PreOrder, PostOrder
      <3>2. \A j \in others : order[j] > pre => order[j] >= post
        BY <1>3, <2>1, <3>1
      <3> HIDE DEF pre, post, ref, gap
      <3> QED BY <2>2, <3>1, <3>2
    <2>3. CASE place = "before"
      <3>1. post = ref /\ (prev # NoNeighbor => pre = prev)
        BY <1>4, <2>3 DEF PreOrder, PostOrder
      <3>2. ASSUME NEW j \in others, order[j] > pre PROVE order[j] >= ref
        <4>1. order[j] < ref => prev # NoNeighbor /\ order[j] <= prev
          BY <1>3
        <4>2. pre \in Int /\ order[j] \in Int /\ ref \in Int
          BY <1>4, <2>1
        <4>3. prev # NoNeighbor => pre = prev
          BY <3>1
        <4> HIDE DEF pre, post, ref, gap
        <4>4. order[j] > pre
          BY <3>2
        <4> QED BY <4>1, <4>2, <4>3, <4>4
      <3> HIDE DEF pre, post, ref, gap
      <3> QED BY <1>4, <2>1, <2>3, <3>1, <3>2
    <2> QED BY <2>2, <2>3 DEF Places
  <1> HIDE DEF gap, pre, post
  <1>6. /\ next \in Seq(above) /\ Range(next) = above
        /\ \A k, l \in 1 .. Len(next) : k < l => next[k] # next[l] /\ order[next[k]] <= order[next[l]]
    <2>1. Ordered(above, order)
      BY FS_Subset DEF Ordered
    <2> HIDE DEF above
    <2> QED BY <2>1, SortedFacts
  <1> HIDE DEF next
  <1>7. /\ orders \in Seq(Int) /\ Len(orders) = Len(next)
        /\ \A k \in 1 .. Len(next) : orders[k] = order[next[k]]
    BY <1>6 DEF Ordered
  <1> HIDE DEF orders
  <1>8. displaced \in 0 .. Len(next)
    BY <1>2, <1>4, <1>7, FitsExists
  <1>9. /\ offset \in Int
        /\ \A k \in 1 .. (n + displaced) :
             /\ Position(pre, offset, k) \in Int /\ pre < Position(pre, offset, k)
             /\ \A j \in others : order[j] > pre /\ (\A l \in 1 .. displaced : next[l] # j) =>
                  Position(pre, offset, k) < order[j]
        /\ \A k, l \in 1 .. (n + displaced) :
             k < l => Position(pre, offset, k) < Position(pre, offset, l)
    <2>1. CASE gap.offset # 0
      <3>1. displaced = 0 /\ offset = gap.offset
        BY <2>1
      <3>2. \A k \in 1 .. n :
              /\ pre < Position(pre, offset, k) /\ Position(pre, offset, k) < post
              /\ \A l \in 1 .. n : k < l => Position(pre, offset, k) < Position(pre, offset, l)
        <4> HIDE DEF n, ref
        <4> QED BY <1>2, <1>3, <2>1, <3>1, BlockFitsInGap DEF gap, pre, post
      <3>3. offset \in Int
        <4>1. gap.offset = (post - PreOrder(place, ref, prev, n + 1)) \div (n + 1)
          BY DEF gap, CalculateOffset, post
        <4> HIDE DEF n, offset
        <4> QED BY <1>2, <1>4, <3>1, <4>1
      <3>4. \A k \in 1 .. n : Position(pre, offset, k) \in Int
        <4> HIDE DEF offset
        <4> QED BY <1>2, <1>4, <3>3 DEF Position
      <3> HIDE DEF offset, displaced
      <3>5. n + displaced = n
        BY <1>2, <3>1
      <3>6. ASSUME NEW k \in 1 .. n, NEW j \in others, order[j] > pre
            PROVE  Position(pre, offset, k) < order[j]
        <4>1. Position(pre, offset, k) < post /\ post <= order[j]
          BY <1>5, <3>2, <3>6
        <4>2. Position(pre, offset, k) \in Int /\ post \in Int /\ order[j] \in Int
          BY <1>4, <3>4 DEF Ordered
        <4> QED BY <4>1, <4>2
      <3> QED BY <3>2, <3>3, <3>4, <3>5, <3>6
    <2>2. CASE gap.offset = 0
      <3>1. displaced = Displaced(orders, pre, n) /\ offset = OffsetWith(orders, pre, n, displaced)
        BY <2>2
      <3> HIDE DEF offset, displaced, n
      <3>2. Fits(orders, pre, n, displaced)
        BY <1>2, <1>4, <1>7, <3>1, FitsExists
      <3>3. \A k \in 1 .. (n + displaced) :
              /\ pre < Position(pre, offset, k)
              /\ displaced < Len(orders) => Position(pre, offset, k) < orders[displaced + 1]
              /\ \A l \in 1 .. (n + displaced) :
                   k < l => Position(pre, offset, k) < Position(pre, offset, l)
        BY <1>2, <1>4, <1>7, <1>8, <3>1, <3>2, RoomIsMade
      <3>4. offset \in Int
        <4>1. CASE displaced = Len(orders)
          BY <3>1, <4>1, OffsetAssumption DEF OffsetWith
        <4>2. CASE displaced < Len(orders)
          <5>1. orders[displaced + 1] \in Int /\ n + displaced + 1 \in Nat \ {0}
            BY <1>2, <1>7, <1>8, <4>2
          <5> QED BY <1>4, <3>1, <4>2, <5>1 DEF OffsetWith
        <4> QED BY <1>7, <1>8, <4>1, <4>2
      <3>5. \A k \in 1 .. (n + displaced) : Position(pre, offset, k) \in Int
        BY <1>2, <1>4, <1>8, <3>4 DEF Position
      <3>6. ASSUME NEW k \in 1 .. (n + displaced), NEW j \in others, order[j] > pre,
                   \A l \in 1 .. displaced : next[l] # j
            PROVE  Position(pre, offset, k) < order[j]
        <4>1. PICK l \in 1 .. Len(next) : next[l] = j
          BY <1>6, <3>6 DEF Range
        <4>2. l > displaced /\ displaced + 1 \in 1 .. Len(next) /\ displaced < Len(orders)
          BY <1>7, <1>8, <3>6, <4>1
        <4>3. orders[displaced + 1] <= order[j]
          <5>1. CASE l = displaced + 1
            BY <1>7, <4>1, <4>2, <5>1 DEF Ordered
          <5>2. CASE l # displaced + 1
            <6>1. displaced + 1 < l
              BY <1>8, <4>2, <5>2
            <6> QED BY <1>6, <1>7, <4>1, <4>2, <6>1
          <5> QED BY <5>1, <5>2
        <4>4. Position(pre, offset, k) < orders[displaced + 1] /\ orders[displaced + 1] \in Int
          BY <1>7, <3>3, <4>2
        <4> QED BY <3>5, <4>3, <4>4 DEF Ordered
      <3> QED BY <3>3, <3>4, <3>5, <3>6
    <2> QED BY <2>1, <2>2
  <1>10. displaced \in Nat /\ displaced <= Len(next) /\ next \in Seq(others)
    BY <1>6, <1>8
  <1>11. Repositioned(block, others, order, place, anchor) =
           Numbered(block \o SubSeq(next, 1, displaced), pre, offset)
    BY <1>1
  <1>12. Range(next) = {j \in others : order[j] > pre}
    BY <1>6
  <1>13. \A j \in others : order[j] > pre <=>
           (order[j] > order[anchor] \/ (order[j] = order[anchor] /\ place = "before"))
    BY <1>5
  <1>14. \A k \in 1 .. (Len(block) + displaced) :
           /\ Position(pre, offset, k) \in Int /\ pre < Position(pre, offset, k)
           /\ \A j \in others : order[j] > pre /\ (\A l \in 1 .. displaced : next[l] # j) =>
                Position(pre, offset, k) < order[j]
    BY <1>9
  <1>15. \A k, l \in 1 .. (Len(block) + displaced) :
           k < l => Position(pre, offset, k) < Position(pre, offset, l)
    BY <1>9
  <1> HIDE DEF displaced, offset
  <1> pre \in Int /\ offset \in Int /\ next \in Seq(others) /\ displaced \in Nat
    BY <1>4, <1>9, <1>10
  <1> WITNESS pre \in Int, offset \in Int, next \in Seq(others), displaced \in Nat
  <1> QED BY ONLY <1>6, <1>10, <1>11, <1>12, <1>13, <1>14, <1>15 DEF IsPlan

\* Items that are placed next to another of a list take orders that no other of
\* the list has or keeps.
LEMMA RepositionedFacts ==
    ASSUME NEW Items, NEW block \in Seq(Items), block # <<>>,
           NEW others \in SUBSET Items, NEW order, Ordered(others, order),
           NEW place \in Places, NEW anchor \in others
    PROVE  LET new == Repositioned(block, others, order, place, anchor) IN
           /\ Range(block) \subseteq DOMAIN new /\ DOMAIN new \subseteq Range(block) \cup others
           /\ \A i \in DOMAIN new : new[i] \in Int
           /\ Distinct(DOMAIN new, new)
           /\ \A i \in DOMAIN new, j \in others \ DOMAIN new : new[i] # order[j]
  <1>1. PICK pre \in Int, offset \in Int, next \in Seq(others), displaced \in Nat :
          IsPlan(block, others, order, place, anchor, pre, offset, next, displaced)
    BY RepositionedPlan
  <1> DEFINE moved == block \o SubSeq(next, 1, displaced)
             new == Numbered(moved, pre, offset)
  <1>2. /\ displaced <= Len(next)
        /\ Repositioned(block, others, order, place, anchor) = new
        /\ \A k \in 1 .. (Len(block) + displaced) :
             /\ Position(pre, offset, k) \in Int /\ pre < Position(pre, offset, k)
             /\ \A j \in others : order[j] > pre /\ (\A l \in 1 .. displaced : next[l] # j) =>
                  Position(pre, offset, k) < order[j]
        /\ \A k, l \in 1 .. (Len(block) + displaced) :
             k < l => Position(pre, offset, k) < Position(pre, offset, l)
    BY <1>1 DEF IsPlan
  <1>3. next \in Seq(Items) /\ \A k \in 1 .. displaced : next[k] \in others
    BY <1>2
  <1>4. /\ moved \in Seq(Items) /\ Len(moved) = Len(block) + displaced
        /\ \A i : i \in Range(moved) <=> (i \in Range(block) \/ \E k \in 1 .. displaced : next[k] = i)
    BY <1>2, <1>3, MovedFacts
  <1> HIDE DEF moved
  <1>5. /\ DOMAIN new = Range(moved)
        /\ \A i \in Range(moved) :
             \E k \in 1 .. Len(moved) : new[i] = Position(pre, offset, k) /\ moved[k] = i
        /\ \A i \in Range(moved) : new[i] \in Int
        /\ Distinct(Range(moved), new)
    BY <1>2, <1>4, NumberedFacts
  <1> HIDE DEF new
  <1>6. ASSUME NEW i \in Range(moved), NEW j \in others \ Range(moved)
        PROVE  new[i] # order[j]
    <2>1. PICK k \in 1 .. (Len(block) + displaced) : new[i] = Position(pre, offset, k)
      BY <1>4, <1>5
    <2>2. \A l \in 1 .. displaced : next[l] # j
      BY <1>4, <1>6
    <2>3. order[j] \in Int /\ Position(pre, offset, k) \in Int /\ pre < Position(pre, offset, k)
      BY <1>2 DEF Ordered
    <2>4. order[j] > pre => Position(pre, offset, k) < order[j]
      BY <1>2, <2>2
    <2> QED BY <2>1, <2>3, <2>4
  <1>7. Range(block) \subseteq Range(moved) /\ Range(moved) \subseteq Range(block) \cup others
    BY <1>3, <1>4
  <1> QED BY <1>2, <1>5, <1>6, <1>7

\* What is added after the last of a list takes orders above its own.
LEMMA AppendedFacts ==
    ASSUME NEW Items, NEW block \in Seq(Items), NEW latest \in Int
    PROVE  LET new == Appended(block, latest) IN
           /\ DOMAIN new = Range(block)
           /\ \A i \in Range(block) : new[i] \in Int /\ latest < new[i]
           /\ Distinct(Range(block), new)
  <1> DEFINE new == Numbered(block, latest, DefaultOrderOffset)
  <1>1. \A k \in 1 .. Len(block) :
          Position(latest, DefaultOrderOffset, k) \in Int /\ latest < Position(latest, DefaultOrderOffset, k)
    <2>1. ASSUME NEW k \in 1 .. Len(block), NEW m \in Int, m = DefaultOrderOffset * k
          PROVE  0 < m
      BY <2>1, OffsetAssumption
    <2>2. \A k \in 1 .. Len(block) : DefaultOrderOffset * k \in Int
      BY OffsetAssumption
    <2> QED BY <2>1, <2>2 DEF Position
  <1>2. \A k, l \in 1 .. Len(block) :
          k < l => Position(latest, DefaultOrderOffset, k) < Position(latest, DefaultOrderOffset, l)
    BY OffsetAssumption, PositionsIncrease
  <1>3. /\ DOMAIN new = Range(block)
        /\ \A i \in Range(block) :
             \E k \in 1 .. Len(block) : new[i] = Position(latest, DefaultOrderOffset, k) /\ block[k] = i
        /\ Distinct(Range(block), new)
    BY <1>1, <1>2, NumberedFacts
  <1> HIDE DEF new
  <1> QED BY <1>1, <1>3 DEF Appended, new

-----------------------------------------------------------------------------
(* The invariant: each part is about the rows of one table, or relates     *)
(* those of two.                                                           *)

GoodStatuses(rows, ws) ==
    /\ rows \in [Statuses -> StatusRow \cup {NoStatus}]
    /\ \A s \in Statuses : rows[s] # NoStatus => rows[s].workflow \in Range(ws)
    /\ \A s, t \in Statuses :
         /\ s # t /\ rows[s] # NoStatus /\ rows[t] # NoStatus
         /\ rows[s].workflow = rows[t].workflow
         => rows[s].order # rows[t].order

GoodStories(rows) ==
    /\ rows \in [Stories -> StoryRow \cup {NoStory}]
    /\ \A x, y \in Stories :
         /\ x # y /\ rows[x] # NoStory /\ rows[y] # NoStory
         /\ rows[x].status = rows[y].status
         => rows[x].order # rows[y].order

\* Each story is in a status of its workflow.
InPlace(rows, statusRows) ==
    \A x \in Stories : rows[x] # NoStory =>
        /\ statusRows[rows[x].status] # NoStatus
        /\ statusRows[rows[x].status].workflow = rows[x].workflow

IInv ==
    /\ workflows \in Seq(Workflows) /\ landing \in Workflows \cup {NoWorkflow}
    /\ GoodStatuses(status, workflows)
    /\ GoodStories(story)
    /\ InPlace(story, status)

LEMMA StatusFacts ==
    ASSUME GoodStatuses(status, workflows)
    PROVE  /\ \A s \in Statuses : status[s] # NoStatus =>
                /\ status[s] \in StatusRow /\ status[s].workflow \in Workflows
                /\ status[s].order \in Int /\ StatusOrder[s] = status[s].order
           /\ \A w : StatusesOf(w) \in SUBSET Statuses
           /\ \A w, S : S \subseteq StatusesOf(w) =>
                Ordered(S, StatusOrder) /\ Distinct(S, StatusOrder)
  <1>1. ASSUME NEW s \in Statuses, status[s] # NoStatus
        PROVE  /\ status[s] \in StatusRow /\ status[s].workflow \in Workflows
               /\ status[s].order \in Int /\ StatusOrder[s] = status[s].order
    <2>1. status[s] \in StatusRow
      BY <1>1 DEF GoodStatuses
    <2> QED BY <1>1, <2>1 DEF StatusRow, StatusOrder
  <1>2. ASSUME NEW w, NEW S, S \subseteq StatusesOf(w)
        PROVE  Ordered(S, StatusOrder) /\ Distinct(S, StatusOrder)
    <2>1. IsFiniteSet(S)
      BY <1>2, WorkflowsAssumption, FS_Subset DEF StatusesOf
    <2>2. \A s \in S : s \in Statuses /\ status[s] # NoStatus /\ status[s].workflow = w
      BY <1>2 DEF StatusesOf
    <2>3. Distinct(S, StatusOrder)
      BY <1>1, <2>2 DEF GoodStatuses, Distinct
    <2> QED BY <1>1, <2>1, <2>2, <2>3 DEF Ordered
  <1> QED BY <1>1, <1>2 DEF StatusesOf

LEMMA StoryFacts ==
    ASSUME GoodStories(story)
    PROVE  /\ \A x \in Stories : story[x] # NoStory =>
                /\ story[x] \in StoryRow
                /\ story[x].workflow \in Workflows /\ story[x].status \in Statuses
                /\ story[x].order \in Int /\ StoryOrder[x] = story[x].order
           /\ \A s : StoriesIn(s) \in SUBSET Stories
           /\ \A s, S : S \subseteq StoriesIn(s) =>
                Ordered(S, StoryOrder) /\ Distinct(S, StoryOrder)
  <1>1. ASSUME NEW x \in Stories, story[x] # NoStory
        PROVE  /\ story[x] \in StoryRow
               /\ story[x].workflow \in Workflows /\ story[x].status \in Statuses
               /\ story[x].order \in Int /\ StoryOrder[x] = story[x].order
    <2>1. story[x] \in StoryRow
      BY <1>1 DEF GoodStories
    <2> QED BY <1>1, <2>1 DEF StoryRow, StoryOrder
  <1>2. ASSUME NEW s, NEW S, S \subseteq StoriesIn(s)
        PROVE  Ordered(S, StoryOrder) /\ Distinct(S, StoryOrder)
    <2>1. IsFiniteSet(S)
      BY <1>2, WorkflowsAssumption, FS_Subset DEF StoriesIn
    <2>2. \A x \in S : x \in Stories /\ story[x] # NoStory /\ story[x].status = s
      BY <1>2 DEF StoriesIn
    <2>3. Distinct(S, StoryOrder)
      BY <1>1, <2>2 DEF GoodStories, Distinct
    <2> QED BY <1>1, <2>1, <2>2, <2>3 DEF Ordered
  <1> QED BY <1>1, <1>2 DEF StoriesIn

\* Statuses that take orders free in workflow w.
LEMMA StatusesPlaced ==
    ASSUME GoodStatuses(status, workflows), NEW w \in Workflows, NEW ws, w \in Range(ws),
           NEW D \in SUBSET Statuses, NEW new, NEW rows,
           \A s \in D : new[s] \in Int, Distinct(D, new),
           \A i \in D, j \in StatusesOf(w) \ D : new[i] # StatusOrder[j],
           rows = [s \in Statuses |-> rows[s]],
           \A s \in D : rows[s] = [workflow |-> w, order |-> new[s]],
           \A s \in Statuses \ D : rows[s] = NoStatus \/
             (rows[s] = status[s] /\ (status[s] # NoStatus => status[s].workflow \in Range(ws)))
    PROVE  GoodStatuses(rows, ws)
  <1>1. ASSUME NEW s \in D
        PROVE  /\ rows[s] \in StatusRow /\ rows[s] # NoStatus
               /\ rows[s].workflow = w /\ rows[s].order = new[s]
    <2>1. rows[s] = [workflow |-> w, order |-> new[s]] /\ new[s] \in Int
      OBVIOUS
    <2>2. rows[s] \in StatusRow
      BY <2>1 DEF StatusRow
    <2> QED BY <2>1, <2>2, RowsAssumption
  <1>2. ASSUME NEW s \in Statuses
        PROVE  /\ rows[s] \in StatusRow \cup {NoStatus}
               /\ rows[s] # NoStatus => rows[s].workflow \in Range(ws)
    BY <1>1 DEF GoodStatuses
  <1>3. rows \in [Statuses -> StatusRow \cup {NoStatus}]
    BY <1>2
  <1>4. ASSUME NEW i \in D, NEW j \in Statuses \ D, rows[j] # NoStatus,
               rows[i].workflow = rows[j].workflow
        PROVE  rows[i].order # rows[j].order
    <2>1. rows[j] = status[j] /\ j \in StatusesOf(w)
      BY <1>1, <1>4 DEF StatusesOf
    <2> QED BY <1>1, <2>1, StatusFacts DEF StatusesOf
  <1>5. ASSUME NEW s \in Statuses, NEW t \in Statuses, s # t, rows[s] # NoStatus,
               rows[t] # NoStatus, rows[s].workflow = rows[t].workflow
        PROVE  rows[s].order # rows[t].order
    <2>1. CASE s \in D /\ t \in D
      BY <1>1, <1>5, <2>1 DEF Distinct
    <2>2. CASE s \in D /\ t \notin D
      BY <1>4, <1>5, <2>2
    <2>3. CASE s \notin D /\ t \in D
      BY <1>4, <1>5, <2>3
    <2>4. CASE s \notin D /\ t \notin D
      <3>1. rows[s] = status[s] /\ rows[t] = status[t]
        BY <1>5, <2>4
      <3> QED BY <1>5, <3>1 DEF GoodStatuses
    <2> QED BY <2>1, <2>2, <2>3, <2>4
  <1> QED BY <1>2, <1>3, <1>5 DEF GoodStatuses

\* Stories that take orders free in status t.
LEMMA StoriesPlaced ==
    ASSUME GoodStories(story), NEW w \in Workflows, NEW t \in Statuses,
           NEW D \in SUBSET Stories, NEW new, NEW rows,
           \A x \in D : new[x] \in Int, Distinct(D, new),
           \A i \in D, j \in StoriesIn(t) \ D : new[i] # StoryOrder[j],
           rows = [x \in Stories |-> rows[x]],
           \A x \in D : rows[x] = [workflow |-> w, status |-> t, order |-> new[x]],
           \A x \in Stories \ D : rows[x] \in {story[x], NoStory}
    PROVE  GoodStories(rows)
           /\ \A x \in D : rows[x] # NoStory /\ rows[x].workflow = w /\ rows[x].status = t
  <1>1. ASSUME NEW x \in D
        PROVE  /\ rows[x] \in StoryRow /\ rows[x] # NoStory
               /\ rows[x].workflow = w /\ rows[x].status = t /\ rows[x].order = new[x]
    <2>1. rows[x] = [workflow |-> w, status |-> t, order |-> new[x]] /\ new[x] \in Int
      OBVIOUS
    <2>2. rows[x] \in StoryRow
      BY <2>1 DEF StoryRow
    <2> QED BY <2>1, <2>2, RowsAssumption
  <1>2. \A x \in Stories : rows[x] \in StoryRow \cup {NoStory}
    BY <1>1 DEF GoodStories
  <1>3. rows \in [Stories -> StoryRow \cup {NoStory}]
    BY <1>2
  <1>4. ASSUME NEW i \in D, NEW j \in Stories \ D, rows[j] # NoStory,
               rows[i].status = rows[j].status
        PROVE  rows[i].order # rows[j].order
    <2>1. rows[j] = story[j] /\ j \in StoriesIn(t)
      BY <1>1, <1>4 DEF StoriesIn
    <2> QED BY <1>1, <2>1, StoryFacts DEF StoriesIn
  <1>5. ASSUME NEW x \in Stories, NEW y \in Stories, x # y, rows[x] # NoStory,
               rows[y] # NoStory, rows[x].status = rows[y].status
        PROVE  rows[x].order # rows[y].order
    <2>1. CASE x \in D /\ y \in D
      BY <1>1, <1>5, <2>1 DEF Distinct
    <2>2. CASE x \in D /\ y \notin D
      BY <1>4, <1>5, <2>2
    <2>3. CASE x \notin D /\ y \in D
      BY <1>4, <1>5, <2>3
    <2>4. CASE x \notin D /\ y \notin D
      <3>1. rows[x] = story[x] /\ rows[y] = story[y]
        BY <1>5, <2>4
      <3> QED BY <1>5, <3>1 DEF GoodStories
    <2> QED BY <2>1, <2>2, <2>3, <2>4
  <1> QED BY <1>1, <1>3, <1>5 DEF GoodStories

-----------------------------------------------------------------------------
(* The requests on stories.                                                *)

\* A story that goes to the end of a status.
LEMMA LastKeeps ==
    ASSUME IInv, NEW x \in Stories, NEW s \in Statuses, status[s] # NoStatus,
           story' = StoriesWithLast(x, s), UNCHANGED <<workflows, landing, status>>
    PROVE  IInv'
  <1> DEFINE new == [y \in {x} |-> EndOf(s)]
             w == status[s].workflow
  <1>1. w \in Workflows
    BY StatusFacts DEF IInv
  <1>2. EndOf(s) \in Int /\ \A y \in StoriesIn(s) : StoryOrder[y] < EndOf(s)
    <2>1. Ordered(StoriesIn(s), StoryOrder)
      BY StoryFacts DEF IInv
    <2>2. /\ Latest(StoriesIn(s), StoryOrder) \in Int
          /\ \A y \in StoriesIn(s) : StoryOrder[y] \in Int /\ StoryOrder[y] <= Latest(StoriesIn(s), StoryOrder)
      BY <2>1, LatestFacts DEF Ordered
    <2> QED BY <2>2, OffsetAssumption DEF EndOf, NextOrder
  <1>3. /\ story' = [y \in Stories |-> story'[y]]
        /\ story'[x] = [workflow |-> w, status |-> s, order |-> EndOf(s)]
        /\ \A y \in Stories \ {x} : story'[y] = story[y]
    BY DEF StoriesWithLast, IInv, GoodStories
  <1>4. GoodStories(story') /\ story'[x].workflow = w /\ story'[x].status = s
    <2>1. /\ \A y \in {x} : new[y] \in Int
          /\ Distinct({x}, new)
          /\ \A i \in {x}, j \in StoriesIn(s) \ {x} : new[i] # StoryOrder[j]
          /\ \A y \in {x} : story'[y] = [workflow |-> w, status |-> s, order |-> new[y]]
      <3>1. new[x] = EndOf(s)
        OBVIOUS
      <3>2. \A j \in StoriesIn(s) : StoryOrder[j] \in Int
        BY StoryFacts DEF IInv, Ordered
      <3> HIDE DEF new
      <3> QED BY <1>2, <1>3, <3>1, <3>2 DEF Distinct
    <2>2. \A y \in Stories \ {x} : story'[y] \in {story[y], NoStory}
      BY <1>3
    <2>3. GoodStories(story)
      BY DEF IInv
    <2> HIDE DEF new, w
    <2> QED BY <1>1, <1>3, <2>1, <2>2, <2>3, StoriesPlaced
  <1>5. InPlace(story', status')
    BY <1>3, <1>4 DEF InPlace, IInv
  <1> QED BY <1>4, <1>5 DEF IInv

LEMMA CreateStoryKeeps ==
    ASSUME IInv, NEW x \in Stories, NEW s \in Statuses, CreateStory(x, s)
    PROVE  IInv'
  BY LastKeeps DEF CreateStory

LEMMA ChangeStatusKeeps ==
    ASSUME IInv, NEW x \in Stories, NEW s \in Statuses, ChangeStatus(x, s)
    PROVE  IInv'
  <1>1. story[x] # NoStory /\ status[s] # NoStatus /\ status[s].workflow = story[x].workflow
    BY DEF ChangeStatus, CanChangeStatus, StatusesOf
  <1>2. story[x] \in StoryRow /\ story \in [Stories -> StoryRow \cup {NoStory}]
    BY <1>1, StoryFacts DEF IInv, GoodStories
  <1>3. StoriesAfterUpdate(x, s) = StoriesWithLast(x, s)
    <2> DEFINE first == [story EXCEPT ![x].status = s]
    <2>1. first \in [Stories -> StoryRow \cup {NoStory}] /\ first[x] = [story[x] EXCEPT !.status = s]
      BY <1>2 DEF StoryRow
    <2>2. first[x] = [workflow |-> story[x].workflow, status |-> s, order |-> story[x].order]
      BY <1>2, <2>1 DEF StoryRow
    <2>3. [first[x] EXCEPT !.order = EndOf(s)]
            = [workflow |-> story[x].workflow, status |-> s, order |-> EndOf(s)]
      BY <2>2
    <2>4. StoriesAfterUpdate(x, s) = [first EXCEPT ![x] = [first[x] EXCEPT !.order = EndOf(s)]]
      BY <1>2 DEF StoriesAfterUpdate
    <2>5. \A row : [first EXCEPT ![x] = row] = [story EXCEPT ![x] = row]
      BY <1>2
    <2> QED BY <1>1, <2>3, <2>4, <2>5 DEF StoriesWithLast
  <1> QED BY <1>1, <1>3, LastKeeps DEF ChangeStatus

LEMMA ChangeWorkflowKeeps ==
    ASSUME IInv, NEW x \in Stories, NEW w \in Workflows, ChangeWorkflow(x, w)
    PROVE  IInv'
  <1> DEFINE list == Columns[w]
  <1>1. Ordered(StatusesOf(w), StatusOrder) /\ StatusesOf(w) # {}
    BY StatusFacts DEF ChangeWorkflow, CanChangeWorkflow, IInv
  <1>2. list \in Seq(StatusesOf(w)) /\ list # <<>>
    BY <1>1, SortedFacts DEF Columns
  <1> HIDE DEF list
  <1>3. Head(list) \in StatusesOf(w)
    BY <1>2
  <1>4. Head(list) \in Statuses /\ status[Head(list)] # NoStatus
    BY <1>3 DEF StatusesOf
  <1> QED BY <1>4, LastKeeps DEF ChangeWorkflow, list

LEMMA DeleteStoryKeeps ==
    ASSUME IInv, NEW x \in Stories, DeleteStory(x)
    PROVE  IInv'
  <1>1. story' \in [Stories -> StoryRow \cup {NoStory}]
    BY DEF DeleteStory, IInv, GoodStories
  <1>2. \A y \in Stories : story'[y] # NoStory => story'[y] = story[y]
    BY DEF DeleteStory, IInv, GoodStories
  <1>3. GoodStories(story')
    BY <1>1, <1>2 DEF IInv, GoodStories
  <1>4. InPlace(story', status')
    BY <1>2 DEF IInv, InPlace, DeleteStory
  <1> QED BY <1>3, <1>4 DEF IInv, DeleteStory

LEMMA Block ==
    ASSUME NEW S, IsFiniteSet(S), NEW block \in Arrangements(S)
    PROVE  block \in Seq(S) /\ block # <<>> /\ Range(block) \subseteq S
  <1>1. PICK T \in SUBSET S : block \in [1 .. Cardinality(T) -> T] /\ block # <<>>
    BY DEF Arrangements, SetToAllKPermutations, SetToSeqs
  <1>2. Cardinality(T) \in Nat
    BY FS_Subset, FS_CardinalityType
  <1> QED BY <1>1, <1>2 DEF Range

\* The orders a block of stories takes in a status are free there.
LEMMA StoryOrdersFacts ==
    ASSUME GoodStories(story), NEW s \in Statuses, NEW block \in Arrangements(Stories),
           NEW place \in Places, NEW anchor \in Stories \cup {NoStory},
           anchor # NoStory => anchor \in StoriesIn(s) \ Range(block)
    PROVE  LET new == StoryOrdersAfter(s, block, place, anchor) IN
           /\ Range(block) \subseteq DOMAIN new
           /\ DOMAIN new \subseteq Range(block) \cup StoriesIn(s)
           /\ \A i \in DOMAIN new : new[i] \in Int
           /\ Distinct(DOMAIN new, new)
           /\ \A i \in DOMAIN new, j \in StoriesIn(s) \ DOMAIN new : new[i] # StoryOrder[j]
  <1> DEFINE new == StoryOrdersAfter(s, block, place, anchor)
             others == StoriesIn(s) \ Range(block)
  <1>1. block \in Seq(Stories) /\ block # <<>> /\ Range(block) \subseteq Stories
    BY WorkflowsAssumption, Block
  <1>2. /\ Ordered(StoriesIn(s), StoryOrder) /\ StoriesIn(s) \in SUBSET Stories
        /\ Ordered(others, StoryOrder) /\ others \in SUBSET Stories
    BY StoryFacts
  <1>3. CASE anchor = NoStory
    <2> DEFINE latest == Latest(StoriesIn(s), StoryOrder)
    <2>1. new = Appended(block, latest)
      BY <1>3 DEF StoryOrdersAfter
    <2>2. latest \in Int /\ \A j \in StoriesIn(s) : StoryOrder[j] <= latest /\ StoryOrder[j] \in Int
      BY <1>2, LatestFacts DEF Ordered
    <2> HIDE DEF latest, new
    <2>3. /\ DOMAIN new = Range(block)
          /\ \A i \in Range(block) : new[i] \in Int /\ latest < new[i]
          /\ Distinct(Range(block), new)
      BY <1>1, <2>1, <2>2, AppendedFacts
    <2>4. ASSUME NEW i \in Range(block), NEW j \in StoriesIn(s) PROVE new[i] # StoryOrder[j]
      BY <2>2, <2>3
    <2> QED BY <2>3, <2>4 DEF new
  <1>4. CASE anchor # NoStory
    <2> DEFINE orders == Repositioned(block, others, StoryOrder, place, anchor)
    <2>1. new = orders
      BY <1>4 DEF StoryOrdersAfter
    <2>2. anchor \in others
      BY <1>4
    <2> HIDE DEF others, new
    <2>3. /\ Range(block) \subseteq DOMAIN orders /\ DOMAIN orders \subseteq Range(block) \cup others
          /\ \A i \in DOMAIN orders : orders[i] \in Int
          /\ Distinct(DOMAIN orders, orders)
          /\ \A i \in DOMAIN orders, j \in others \ DOMAIN orders : orders[i] # StoryOrder[j]
      BY <1>1, <1>2, <2>2, RepositionedFacts
    <2> HIDE DEF orders
    <2> QED BY <2>1, <2>3 DEF others, new
  <1> QED BY <1>3, <1>4

LEMMA ReorderStoriesKeeps ==
    ASSUME IInv, NEW s \in Statuses, NEW block \in Arrangements(Stories), NEW place \in Places,
           NEW anchor \in Stories \cup {NoStory}, ReorderStories(s, block, place, anchor)
    PROVE  IInv'
  <1> DEFINE new == StoryOrdersAfter(s, block, place, anchor)
             D == DOMAIN new
             w == status[s].workflow
  <1>1. /\ GoodStories(story) /\ status[s] # NoStatus /\ w \in Workflows
        /\ Range(block) \subseteq StoriesOf(w)
        /\ anchor # NoStory => anchor \in StoriesIn(s) \ Range(block)
    BY StatusFacts DEF IInv, ReorderStories, CanReorderStories
  <1>2. /\ D \subseteq Range(block) \cup StoriesIn(s)
        /\ \A i \in D : new[i] \in Int
        /\ Distinct(D, new)
        /\ \A i \in D, j \in StoriesIn(s) \ D : new[i] # StoryOrder[j]
    BY <1>1, StoryOrdersFacts
  <1>3. \A x \in D : x \in Stories /\ story[x] # NoStory /\ story[x].workflow = w
    BY <1>1, <1>2 DEF StoriesOf, StoriesIn, IInv, InPlace
  <1>4. story' = [x \in Stories |->
          IF x \in D THEN [story[x] EXCEPT !.status = s, !.order = new[x]] ELSE story[x]]
    BY DEF ReorderStories, StoriesAfterReorder
  <1> HIDE DEF new, D, w
  <1>5. ASSUME NEW x \in D
        PROVE  story'[x] = [workflow |-> w, status |-> s, order |-> new[x]]
    <2>1. story[x] \in StoryRow
      BY <1>1, <1>3, StoryFacts
    <2> DEFINE first == [story[x] EXCEPT !.status = s]
    <2>2. first = [workflow |-> w, status |-> s, order |-> story[x].order]
      BY <1>3, <2>1 DEF StoryRow
    <2>3. story'[x] = [first EXCEPT !.order = new[x]]
      BY <1>3, <1>4
    <2> HIDE DEF first
    <2> QED BY <2>2, <2>3
  <1>6. story' = [x \in Stories |-> story'[x]] /\ \A x \in Stories \ D : story'[x] = story[x]
    BY <1>4
  <1>7. /\ GoodStories(story')
        /\ \A x \in D : story'[x].workflow = w /\ story'[x].status = s
    <2>1. D \in SUBSET Stories /\ \A x \in Stories \ D : story'[x] \in {story[x], NoStory}
      BY <1>3, <1>6
    <2> QED BY <1>1, <1>2, <1>5, <1>6, <2>1, StoriesPlaced
  <1>8. InPlace(story', status) /\ UNCHANGED <<workflows, landing, status>>
    BY <1>1, <1>6, <1>7 DEF InPlace, IInv, ReorderStories, w
  <1> QED BY <1>7, <1>8 DEF IInv

-----------------------------------------------------------------------------
(* The requests on statuses.                                               *)

LEMMA CreateStatusKeeps ==
    ASSUME IInv, NEW w \in Workflows, NEW s \in Statuses, CreateStatus(w, s)
    PROVE  IInv'
  <1> DEFINE order == NextOrder(Latest(StatusesOf(w), StatusOrder))
             new == [t \in {s} |-> order]
  <1>1. order \in Int /\ \A t \in StatusesOf(w) : StatusOrder[t] < order
    <2>1. Ordered(StatusesOf(w), StatusOrder)
      BY StatusFacts DEF IInv
    <2>2. /\ Latest(StatusesOf(w), StatusOrder) \in Int
          /\ \A t \in StatusesOf(w) :
               StatusOrder[t] \in Int /\ StatusOrder[t] <= Latest(StatusesOf(w), StatusOrder)
      BY <2>1, LatestFacts DEF Ordered
    <2> QED BY <2>2, OffsetAssumption DEF NextOrder
  <1>2. /\ status' = [status EXCEPT ![s] = [workflow |-> w, order |-> order]]
        /\ w \in Range(workflows) /\ status[s] = NoStatus
        /\ UNCHANGED <<workflows, landing, story>>
    BY DEF CreateStatus
  <1> HIDE DEF order
  <1>3. GoodStatuses(status, workflows) /\ status \in [Statuses -> StatusRow \cup {NoStatus}]
    BY DEF IInv, GoodStatuses
  <1>4. /\ status' = [t \in Statuses |-> status'[t]]
        /\ status'[s] = [workflow |-> w, order |-> order]
        /\ \A t \in Statuses \ {s} : status'[t] = status[t]
    BY <1>2, <1>3
  <1>5. GoodStatuses(status', workflows)
    <2>1. /\ \A t \in {s} : new[t] \in Int
          /\ Distinct({s}, new)
          /\ \A i \in {s}, j \in StatusesOf(w) \ {s} : new[i] # StatusOrder[j]
          /\ \A t \in {s} : status'[t] = [workflow |-> w, order |-> new[t]]
      <3>1. new[s] = order
        OBVIOUS
      <3>2. \A j \in StatusesOf(w) : StatusOrder[j] \in Int
        BY <1>3, StatusFacts DEF Ordered
      <3> HIDE DEF new
      <3> QED BY <1>1, <1>4, <3>1, <3>2 DEF Distinct
    <2>2. \A t \in Statuses \ {s} :
            status'[t] = status[t] /\ (status[t] # NoStatus => status[t].workflow \in Range(workflows))
      BY <1>3, <1>4 DEF GoodStatuses
    <2>3. {s} \in SUBSET Statuses
      OBVIOUS
    <2> HIDE DEF new
    <2> QED BY <1>2, <1>3, <1>4, <2>1, <2>2, <2>3, StatusesPlaced
  <1>6. InPlace(story, status')
    BY <1>2, <1>4, StoryFacts DEF InPlace, IInv
  <1> QED BY <1>2, <1>5, <1>6 DEF IInv

LEMMA ReorderStatusesKeeps ==
    ASSUME IInv, NEW w \in Workflows, NEW block \in Arrangements(Statuses), NEW place \in Places,
           NEW anchor \in Statuses, ReorderStatuses(w, block, place, anchor)
    PROVE  IInv'
  <1> DEFINE others == StatusesOf(w) \ Range(block)
             new == Repositioned(block, others, StatusOrder, place, anchor)
             D == DOMAIN new
  <1>1. /\ GoodStatuses(status, workflows)
        /\ Range(block) \subseteq StatusesOf(w) /\ anchor \in others
        /\ UNCHANGED <<workflows, landing, story>>
    BY DEF IInv, ReorderStatuses, CanReorderStatuses
  <1>2. Ordered(others, StatusOrder) /\ others \in SUBSET Statuses
    BY <1>1, StatusFacts
  <1>3. block \in Seq(Statuses) /\ block # <<>>
    BY WorkflowsAssumption, Block
  <1>4. status' = [s \in Statuses |->
          IF s \in D THEN [status[s] EXCEPT !.order = new[s]] ELSE status[s]]
    BY DEF ReorderStatuses, StatusesAfterReorder
  <1> HIDE DEF others, new
  <1>5. /\ Range(block) \subseteq D /\ D \subseteq Range(block) \cup others
        /\ \A i \in D : new[i] \in Int
        /\ Distinct(D, new)
        /\ \A i \in D, j \in others \ D : new[i] # StatusOrder[j]
    BY <1>1, <1>2, <1>3, RepositionedFacts DEF new
  <1> HIDE DEF D
  <1>6. \A s \in D : s \in Statuses /\ status[s] # NoStatus /\ status[s].workflow = w
    BY <1>1, <1>5 DEF StatusesOf, others
  <1>7. ASSUME NEW s \in D PROVE status'[s] = [workflow |-> w, order |-> new[s]]
    <2>1. status[s] \in StatusRow
      BY <1>1, <1>6, StatusFacts
    <2> QED BY <1>4, <1>6, <2>1 DEF StatusRow
  <1>8. status' = [s \in Statuses |-> status'[s]] /\ \A s \in Statuses \ D : status'[s] = status[s]
    BY <1>4
  <1>9. w \in Range(workflows)
    BY <1>1 DEF StatusesOf, GoodStatuses, others
  <1>10. GoodStatuses(status', workflows)
    <2>1. D \in SUBSET Statuses /\ \A i \in D, j \in StatusesOf(w) \ D : new[i] # StatusOrder[j]
      BY <1>5, <1>6 DEF others
    <2>2. \A s \in Statuses \ D :
            status'[s] = status[s] /\ (status[s] # NoStatus => status[s].workflow \in Range(workflows))
      BY <1>1, <1>8 DEF GoodStatuses
    <2> QED BY <1>1, <1>5, <1>7, <1>8, <1>9, <2>1, <2>2, StatusesPlaced
  <1>11. \A s \in Statuses : status[s] # NoStatus =>
           status'[s] # NoStatus /\ status'[s].workflow = status[s].workflow
    <2>1. ASSUME NEW s \in D PROVE status'[s] \in StatusRow /\ status'[s].workflow = w
      <3>1. status'[s] = [workflow |-> w, order |-> new[s]] /\ new[s] \in Int
        BY <1>5, <1>7
      <3> QED BY <3>1 DEF StatusRow
    <2> QED BY <1>6, <1>8, <2>1, RowsAssumption
  <1>12. InPlace(story, status')
    BY <1>11, StoryFacts DEF InPlace, IInv
  <1> QED BY <1>1, <1>10, <1>12 DEF IInv

LEMMA DeleteStatusKeeps ==
    ASSUME IInv, NEW s \in Statuses, NEW target \in Statuses \cup {NoStatus},
           DeleteStatus(s, target)
    PROVE  IInv'
  <1>1. /\ GoodStatuses(status, workflows) /\ GoodStories(story) /\ InPlace(story, status)
        /\ status \in [Statuses -> StatusRow \cup {NoStatus}]
    BY DEF IInv, GoodStatuses
  <1>2. /\ status[s] # NoStatus
        /\ target # NoStatus =>
             /\ status[target] # NoStatus /\ target # s
             /\ StoriesIn(s) # {} => status[target].workflow = status[s].workflow
        /\ story' = StoriesAfterDeletion(s, target)
        /\ status' = [status EXCEPT ![s] = NoStatus]
        /\ UNCHANGED <<workflows, landing>>
    BY DEF DeleteStatus, CanDeleteStatus
  <1>3. GoodStatuses(status', workflows)
    <2>1. /\ status' \in [Statuses -> StatusRow \cup {NoStatus}]
          /\ \A t \in Statuses : status'[t] # NoStatus => status'[t] = status[t]
      BY <1>1, <1>2
    <2> QED BY <1>1, <2>1 DEF GoodStatuses
  <1>4. CASE target = NoStatus
    <2>1. /\ story' \in [Stories -> StoryRow \cup {NoStory}]
          /\ \A x \in Stories : story'[x] # NoStory => story'[x] = story[x] /\ x \notin StoriesIn(s)
      BY <1>1, <1>2, <1>4 DEF StoriesAfterDeletion, GoodStories
    <2>2. GoodStories(story')
      BY <1>1, <2>1 DEF GoodStories
    <2>3. InPlace(story', status')
      <3>1. ASSUME NEW x \in Stories, story'[x] # NoStory
            PROVE  story'[x] = story[x] /\ story[x].status \in Statuses \ {s}
        BY <1>1, <2>1, <3>1, StoryFacts DEF StoriesIn
      <3> QED BY <1>1, <1>2, <3>1 DEF InPlace
    <2> QED BY <1>2, <1>3, <2>2, <2>3 DEF IInv
  <1>5. CASE target # NoStatus
    <2> DEFINE D == StoriesIn(s)
               list == Cards[s]
               latest == Latest(StoriesIn(target), StoryOrder)
               new == Appended(list, latest)
               w == status[target].workflow
    <2>1. /\ Ordered(D, StoryOrder) /\ D \in SUBSET Stories
          /\ Ordered(StoriesIn(target), StoryOrder)
      BY <1>1, StoryFacts
    <2>2. list \in Seq(D) /\ Range(list) = D
      <3>1. list = Sorted(D, StoryOrder)
        BY DEF Cards
      <3> HIDE DEF list, D
      <3> QED BY <2>1, <3>1, SortedFacts
    <2>3. latest \in Int /\ \A j \in StoriesIn(target) : StoryOrder[j] <= latest /\ StoryOrder[j] \in Int
      BY <2>1, LatestFacts DEF Ordered
    <2>4. story' = [x \in Stories |->
            IF x \notin D THEN story[x]
            ELSE [story[x] EXCEPT !.status = target, !.order = new[x]]]
      BY <1>2, <1>5 DEF StoriesAfterDeletion
    <2>5. target \in Statuses /\ w \in Workflows
      BY <1>1, <1>2, <1>5, StatusFacts
    <2> HIDE DEF list, latest
    <2>6. /\ \A i \in D : new[i] \in Int /\ latest < new[i]
          /\ Distinct(D, new)
      BY <2>2, <2>3, AppendedFacts
    <2>7. ASSUME NEW x \in D
          PROVE  /\ x \in Stories /\ story[x].workflow = w
                 /\ story'[x] = [workflow |-> w, status |-> target, order |-> new[x]]
      <3>1. /\ x \in Stories /\ story[x] # NoStory /\ story[x].status = s
            /\ StoriesIn(s) # {}
        BY DEF StoriesIn
      <3>2. story[x] \in StoryRow /\ story[x].workflow = w
        BY <1>1, <1>2, <1>5, <3>1, StoryFacts DEF InPlace
      <3> HIDE DEF D, new, w
      <3> DEFINE first == [story[x] EXCEPT !.status = target]
      <3>3. first = [workflow |-> w, status |-> target, order |-> story[x].order]
        BY <3>2 DEF StoryRow
      <3>4. story'[x] = [first EXCEPT !.order = new[x]]
        BY <2>4, <3>1
      <3> HIDE DEF first
      <3> QED BY <3>1, <3>2, <3>3, <3>4
    <2>8. story' = [x \in Stories |-> story'[x]] /\ \A x \in Stories \ D : story'[x] = story[x]
      BY <2>4
    <2>9. /\ GoodStories(story')
          /\ \A x \in D : story'[x].workflow = w /\ story'[x].status = target
      <3>1. \A i \in D, j \in StoriesIn(target) \ D : new[i] # StoryOrder[j]
        BY <2>3, <2>6
      <3>2. \A x \in Stories \ D : story'[x] \in {story[x], NoStory}
        BY <2>8
      <3> HIDE DEF D, new, w
      <3> QED BY <1>1, <2>1, <2>5, <2>6, <2>7, <2>8, <3>1, <3>2, StoriesPlaced
    <2>10. InPlace(story', status')
      <3>1. ASSUME NEW x \in Stories \ D, story[x] # NoStory
            PROVE  story[x].status \in Statuses \ {s}
        BY <1>1, <3>1, StoryFacts DEF StoriesIn
      <3>2. \A t \in Statuses \ {s} : status'[t] = status[t]
        BY <1>1, <1>2
      <3> HIDE DEF D
      <3> QED BY <1>1, <1>2, <1>5, <2>5, <2>8, <2>9, <3>1, <3>2 DEF InPlace
    <2> QED BY <1>2, <1>3, <2>9, <2>10 DEF IInv
  <1> QED BY <1>4, <1>5

-----------------------------------------------------------------------------
(* The requests on workflows.                                              *)

\* A new workflow has no status yet, and those of its template are numbered.
LEMMA TemplateFacts ==
    ASSUME NEW ids \in SetToAllKPermutations(Statuses)
    PROVE  /\ ids \in Seq(Statuses) /\ Range(ids) \in SUBSET Statuses
           /\ \A s \in Range(ids) :
                /\ (CHOOSE k \in 1 .. Len(ids) : ids[k] = s) \in Int
                /\ ids[CHOOSE k \in 1 .. Len(ids) : ids[k] = s] = s
  <1>1. PICK T \in SUBSET Statuses : ids \in [1 .. Cardinality(T) -> T]
    BY DEF SetToAllKPermutations, SetToSeqs
  <1>2. Cardinality(T) \in Nat
    BY WorkflowsAssumption, FS_Subset, FS_CardinalityType
  <1>3. ids \in Seq(Statuses) /\ Range(ids) \in SUBSET Statuses
    BY <1>1, <1>2 DEF Range
  <1>4. ASSUME NEW s \in Range(ids)
        PROVE  \E k \in 1 .. Len(ids) : ids[k] = s
    BY <1>3 DEF Range
  <1>5. \A s \in Range(ids) : (CHOOSE k \in 1 .. Len(ids) : ids[k] = s) \in 1 .. Len(ids)
                              /\ ids[CHOOSE k \in 1 .. Len(ids) : ids[k] = s] = s
    BY <1>4
  <1> QED BY <1>3, <1>5

LEMMA TemplateRows ==
    ASSUME NEW ids \in SetToAllKPermutations(Statuses), NEW w \in Workflows, NEW rows,
           NEW old \in [Statuses -> StatusRow \cup {NoStatus}], NEW ws, NEW before,
           GoodStatuses(old, before), w \notin Range(before),
           Range(before) \subseteq Range(ws), w \in Range(ws),
           rows = [s \in Statuses |->
             IF s \in Range(ids)
             THEN [workflow |-> w, order |-> CHOOSE k \in 1 .. Len(ids) : ids[k] = s]
             ELSE old[s]]
    PROVE  GoodStatuses(rows, ws)
  <1> DEFINE at(s) == CHOOSE k \in 1 .. Len(ids) : ids[k] = s
  <1>1. ASSUME NEW s \in Range(ids)
        PROVE  /\ s \in Statuses /\ rows[s] \in StatusRow /\ rows[s].workflow = w
               /\ rows[s].order = at(s) /\ ids[at(s)] = s
    <2>1. s \in Statuses /\ at(s) \in Int /\ ids[at(s)] = s
      BY TemplateFacts
    <2>2. rows[s] = [workflow |-> w, order |-> at(s)]
      BY <2>1
    <2> HIDE DEF at
    <2> QED BY <2>1, <2>2 DEF StatusRow
  <1>2. \A s \in Statuses : s \notin Range(ids) => rows[s] = old[s]
    OBVIOUS
  <1>3. rows = [s \in Statuses |-> rows[s]]
    OBVIOUS
  <1> HIDE DEF at
  <1>4. \A s \in Statuses : rows[s] \in StatusRow \cup {NoStatus}
    BY <1>1, <1>2
  <1>5. \A s \in Statuses : rows[s] # NoStatus => rows[s].workflow \in Range(ws)
    BY <1>1, <1>2 DEF GoodStatuses
  <1>6. ASSUME NEW s \in Statuses, NEW t \in Statuses, s # t, rows[s] # NoStatus,
               rows[t] # NoStatus, rows[s].workflow = rows[t].workflow
        PROVE  rows[s].order # rows[t].order
    <2>1. CASE s \in Range(ids)
      <3>1. t \in Range(ids)
        BY <1>1, <1>2, <1>6, <2>1 DEF GoodStatuses
      <3> QED BY <1>1, <1>6, <2>1, <3>1
    <2>2. CASE s \notin Range(ids)
      <3>1. t \notin Range(ids)
        BY <1>1, <1>2, <1>6, <2>2 DEF GoodStatuses
      <3> QED BY <1>2, <1>6, <2>2, <3>1 DEF GoodStatuses
    <2> QED BY <2>1, <2>2
  <1> QED BY <1>3, <1>4, <1>5, <1>6 DEF GoodStatuses

LEMMA InitHolds == Init => IInv
  <1> SUFFICES ASSUME Init PROVE IInv
    OBVIOUS
  <1>1. PICK w \in Workflows :
          /\ workflows = <<w>> /\ landing = w
          /\ \E ids \in SetToAllKPermutations(Statuses) :
               status = [s \in Statuses |->
                 IF s \in Range(ids)
                 THEN [workflow |-> w, order |-> CHOOSE k \in 1 .. Len(ids) : ids[k] = s]
                 ELSE NoStatus]
    BY DEF Init
  <1>2. PICK ids \in SetToAllKPermutations(Statuses) :
          status = [s \in Statuses |->
            IF s \in Range(ids)
            THEN [workflow |-> w, order |-> CHOOSE k \in 1 .. Len(ids) : ids[k] = s]
            ELSE NoStatus]
    BY <1>1
  <1> DEFINE old == [s \in Statuses |-> NoStatus]
  <1>3. /\ old \in [Statuses -> StatusRow \cup {NoStatus}] /\ GoodStatuses(old, <<>>)
        /\ status = [s \in Statuses |->
             IF s \in Range(ids)
             THEN [workflow |-> w, order |-> CHOOSE k \in 1 .. Len(ids) : ids[k] = s]
             ELSE old[s]]
    BY <1>2 DEF GoodStatuses
  <1>4. workflows \in Seq(Workflows) /\ w \in Range(workflows) /\ Range(<<>>) = {}
    BY <1>1 DEF Range
  <1> HIDE DEF old
  <1>5. GoodStatuses(status, workflows)
    BY <1>3, <1>4, TemplateRows
  <1>6. GoodStories(story) /\ InPlace(story, status)
    <2>1. story = [x \in Stories |-> NoStory]
      BY DEF Init
    <2> QED BY <2>1 DEF GoodStories, InPlace
  <1> QED BY <1>1, <1>4, <1>5, <1>6 DEF IInv

LEMMA CreateWorkflowKeeps ==
    ASSUME IInv, NEW w \in Workflows, NEW ids \in SetToAllKPermutations(Statuses),
           CreateWorkflow(w, ids)
    PROVE  IInv'
  <1>1. /\ GoodStatuses(status, workflows) /\ GoodStories(story) /\ InPlace(story, status)
        /\ status \in [Statuses -> StatusRow \cup {NoStatus}] /\ workflows \in Seq(Workflows)
    BY DEF IInv, GoodStatuses
  <1>2. /\ w \notin Range(workflows) /\ \A s \in Range(ids) : status[s] = NoStatus
        /\ workflows' = Append(workflows, w) /\ UNCHANGED story
        /\ status' = [s \in Statuses |->
             IF s \in Range(ids)
             THEN [workflow |-> w, order |-> CHOOSE k \in 1 .. Len(ids) : ids[k] = s]
             ELSE status[s]]
    BY DEF CreateWorkflow
  <1>3. /\ workflows' \in Seq(Workflows) /\ w \in Range(workflows')
        /\ Range(workflows) \subseteq Range(workflows')
    <2>1. /\ Len(workflows') = Len(workflows) + 1
          /\ \A k \in 1 .. Len(workflows) : workflows'[k] = workflows[k]
          /\ workflows'[Len(workflows) + 1] = w /\ workflows' \in Seq(Workflows)
      BY <1>1, <1>2
    <2> QED BY <1>1, <2>1 DEF Range
  <1>4. GoodStatuses(status', workflows')
    BY <1>1, <1>2, <1>3, TemplateRows
  <1>5. \A s \in Statuses : status[s] # NoStatus => status'[s] = status[s]
    BY <1>2
  <1>6. InPlace(story', status')
    BY <1>1, <1>2, <1>5, StoryFacts DEF InPlace
  <1>7. landing' \in Workflows \cup {NoWorkflow}
    BY DEF CreateWorkflow, IInv
  <1> QED BY <1>1, <1>2, <1>3, <1>4, <1>6, <1>7 DEF IInv

\* Only w leaves the workflows.
LEMMA WorkflowsWithoutFacts ==
    ASSUME workflows \in Seq(Workflows), NEW w \in Range(workflows)
    PROVE  /\ WorkflowsWithout(w) \in Seq(Workflows)
           /\ \A v \in Range(workflows) : v # w => v \in Range(WorkflowsWithout(w))
           /\ LandingWithout(w) \in Workflows \cup {NoWorkflow, landing}
           /\ Len(WorkflowsWithout(w)) = Len(workflows) - 1
           /\ \E i \in 1 .. Len(workflows) :
                /\ workflows[i] = w
                /\ \A k \in 1 .. (i - 1) : WorkflowsWithout(w)[k] = workflows[k]
                /\ \A k \in (i + 1) .. Len(workflows) : WorkflowsWithout(w)[k - 1] = workflows[k]
  <1> DEFINE i == CHOOSE k \in DOMAIN workflows : workflows[k] = w
             n == Len(workflows)
             left == WorkflowsWithout(w)
             front == SubSeq(workflows, 1, i - 1)
             back == SubSeq(workflows, i + 1, n)
  <1>1. n \in Nat /\ DOMAIN workflows = 1 .. n
    OBVIOUS
  <1>2. i \in 1 .. n /\ workflows[i] = w
    <2>1. \E k \in DOMAIN workflows : workflows[k] = w
      BY DEF Range
    <2> QED BY <1>1, <2>1
  <1>3. left = front \o back
    BY DEF WorkflowsWithout, RemoveAt
  <1> HIDE DEF i
  <1>4. /\ front \in Seq(Workflows) /\ Len(front) = i - 1
        /\ \A k \in 1 .. (i - 1) : front[k] = workflows[k]
    BY <1>1, <1>2
  <1>5. /\ back \in Seq(Workflows) /\ Len(back) = n - i
        /\ \A k \in 1 .. (n - i) : back[k] = workflows[i + k]
    <2>1. \A k \in (i + 1) .. n : workflows[k] \in Workflows
      BY <1>1, <1>2
    <2>2. back = [k \in 1 .. (n - i) |-> workflows[i + k]]
      <3>1. back = [k \in 1 .. (n - (i + 1) + 1) |-> workflows[(i + 1) + k - 1]]
        BY <1>1, <1>2
      <3>2. n - (i + 1) + 1 = n - i /\ \A k \in 1 .. (n - i) : (i + 1) + k - 1 = i + k
        BY <1>1, <1>2
      <3> HIDE DEF back, n
      <3> QED BY <3>1, <3>2
    <2>3. n - i \in Nat /\ \A k \in 1 .. (n - i) : i + k \in (i + 1) .. n
      BY <1>1, <1>2
    <2> HIDE DEF back, n
    <2> QED BY <2>1, <2>2, <2>3
  <1> HIDE DEF n, left, front, back
  <1>6. /\ left \in Seq(Workflows) /\ Len(left) = n - 1
        /\ \A k \in 1 .. (i - 1) : left[k] = workflows[k]
        /\ \A k \in (i + 1) .. n : left[k - 1] = workflows[k]
    <2>1. left \in Seq(Workflows) /\ Len(left) = (i - 1) + (n - i)
      <3>1. front \in Seq(Workflows) /\ back \in Seq(Workflows)
        BY <1>4, <1>5
      <3>2. front \o back \in Seq(Workflows) /\ Len(front \o back) = Len(front) + Len(back)
        BY <3>1
      <3> QED BY <1>3, <1>4, <1>5, <3>2
    <2>2. \A k \in 1 .. Len(left) : left[k] = IF k <= i - 1 THEN front[k] ELSE back[k - (i - 1)]
      <3>1. \A k \in 1 .. (Len(front) + Len(back)) :
              (front \o back)[k] = IF k <= Len(front) THEN front[k] ELSE back[k - Len(front)]
        BY <1>4, <1>5
      <3> QED BY <1>3, <1>4, <1>5, <2>1, <3>1
    <2>3. ASSUME NEW k \in (i + 1) .. n PROVE left[k - 1] = workflows[k]
      <3>1. k - 1 \in 1 .. Len(left) /\ ~(k - 1 <= i - 1) /\ (k - 1) - (i - 1) = k - i
        BY <1>1, <1>2, <2>1
      <3>2. k - i \in 1 .. (n - i) /\ i + (k - i) = k
        BY <1>1, <1>2
      <3> QED BY <1>5, <2>2, <3>1, <3>2
    <2>4. ASSUME NEW k \in 1 .. (i - 1) PROVE left[k] = workflows[k]
      <3>1. k \in 1 .. Len(left) /\ k <= i - 1
        BY <1>1, <1>2, <2>1
      <3> QED BY <1>4, <2>2, <3>1
    <2> QED BY <1>1, <1>2, <2>1, <2>3, <2>4
  <1>7. ASSUME NEW v \in Range(workflows), v # w PROVE v \in Range(left)
    <2>1. PICK k \in 1 .. n : workflows[k] = v
      BY <1>1 DEF Range
    <2>2. k # i
      BY <1>2, <1>7, <2>1
    <2>3. CASE k < i
      <3>1. k \in 1 .. (i - 1) /\ k \in 1 .. Len(left)
        BY <1>1, <1>2, <1>6, <2>3
      <3> QED BY <1>6, <2>1, <3>1 DEF Range
    <2>4. CASE i < k
      <3>1. k \in (i + 1) .. n /\ k - 1 \in 1 .. Len(left)
        BY <1>1, <1>2, <1>6, <2>4
      <3> QED BY <1>6, <2>1, <3>1 DEF Range
    <2> QED BY <1>1, <1>2, <2>2, <2>3, <2>4
  <1>8. left # <<>> => Head(left) \in Workflows
    BY <1>6
  <1>9. LandingWithout(w) \in Workflows \cup {NoWorkflow, landing}
    BY <1>8 DEF LandingWithout, left
  <1> QED BY <1>2, <1>6, <1>7, <1>9 DEF left, n

\* The statuses that move take orders free in the target.
LEMMA MigrationFacts ==
    ASSUME GoodStatuses(status, workflows), NEW w, NEW target \in Workflows, w # target
    PROVE  LET new == MigrationOrders(w, target) IN
           /\ StatusesToMove(w) \subseteq DOMAIN new
           /\ DOMAIN new \subseteq StatusesToMove(w) \cup StatusesOf(target)
           /\ \A i \in DOMAIN new : new[i] \in Int
           /\ Distinct(DOMAIN new, new)
           /\ \A i \in DOMAIN new, j \in StatusesOf(target) \ DOMAIN new : new[i] # StatusOrder[j]
  <1> DEFINE new == MigrationOrders(w, target)
             others == StatusesOf(target)
             moving == Sorted(StatusesToMove(w), StatusOrder)
             list == Columns[target]
  <1>1. /\ StatusesToMove(w) \subseteq StatusesOf(w)
        /\ StatusesToMove(w) \in SUBSET Statuses /\ others \in SUBSET Statuses
        /\ Ordered(StatusesToMove(w), StatusOrder) /\ Distinct(StatusesToMove(w), StatusOrder)
        /\ Ordered(others, StatusOrder)
    <2>1. StatusesToMove(w) \subseteq StatusesOf(w)
      BY DEF StatusesToMove
    <2> QED BY <2>1, StatusFacts
  <1>2. /\ moving \in Seq(StatusesToMove(w)) /\ Range(moving) = StatusesToMove(w)
        /\ moving \in Seq(Statuses)
    BY <1>1, SortedFacts
  <1>3. list = Sorted(others, StatusOrder)
    BY DEF Columns
  <1>4. new = IF moving = <<>> THEN <<>>
              ELSE IF others = {} THEN [s \in Range(moving) |-> status[s].order]
              ELSE Repositioned(moving, others, StatusOrder, "after", Last(list))
    BY DEF MigrationOrders
  <1> HIDE DEF new, moving, list, others
  <1>5. CASE moving = <<>>
    <2>1. new = <<>> /\ DOMAIN new = {} /\ Range(moving) = {}
      BY <1>4, <1>5 DEF Range
    <2> QED BY <1>2, <2>1 DEF Distinct, new
  <1>6. CASE moving # <<>> /\ others = {}
    <2>1. new = [s \in StatusesToMove(w) |-> status[s].order]
      BY <1>2, <1>4, <1>6
    <2>2. ASSUME NEW s \in StatusesToMove(w)
          PROVE  new[s] = StatusOrder[s] /\ new[s] \in Int
      <3>1. s \in Statuses /\ status[s] # NoStatus
        BY DEF StatusesToMove, StatusesOf
      <3> QED BY <2>1, <3>1, StatusFacts
    <2>3. DOMAIN new = StatusesToMove(w)
      BY <2>1
    <2> QED BY <1>1, <1>6, <2>2, <2>3 DEF Distinct, others, new
  <1>7. CASE moving # <<>> /\ others # {}
    <2> DEFINE orders == Repositioned(moving, others, StatusOrder, "after", Last(list))
    <2>1. new = orders
      BY <1>4, <1>7
    <2>2. list \in Seq(others) /\ list # <<>>
      BY <1>1, <1>3, <1>7, SortedFacts
    <2>3. Last(list) \in others
      BY <2>2 DEF Last
    <2>4. "after" \in Places
      BY DEF Places
    <2>5. /\ Range(moving) \subseteq DOMAIN orders /\ DOMAIN orders \subseteq Range(moving) \cup others
          /\ \A i \in DOMAIN orders : orders[i] \in Int
          /\ Distinct(DOMAIN orders, orders)
          /\ \A i \in DOMAIN orders, j \in others \ DOMAIN orders : orders[i] # StatusOrder[j]
      BY <1>1, <1>2, <1>7, <2>3, <2>4, RepositionedFacts
    <2> HIDE DEF orders
    <2> QED BY <1>2, <2>1, <2>5 DEF others, new
  <1> QED BY <1>5, <1>6, <1>7

LEMMA DeleteWorkflowKeeps ==
    ASSUME IInv, NEW w \in Workflows, NEW target \in Workflows \cup {NoWorkflow},
           DeleteWorkflow(w, target)
    PROVE  IInv'
  <1> DEFINE orders == IF target = NoWorkflow THEN <<>> ELSE MigrationOrders(w, target)
             D == DOMAIN orders
  <1>1. /\ GoodStatuses(status, workflows) /\ GoodStories(story) /\ InPlace(story, status)
        /\ workflows \in Seq(Workflows) /\ w \in Range(workflows)
        /\ target # NoWorkflow => target \in Range(workflows) /\ target # w /\ target \in Workflows
    BY DEF IInv, DeleteWorkflow, CanDeleteWorkflow, Range
  <1>2. /\ workflows' \in Seq(Workflows) /\ landing' \in Workflows \cup {NoWorkflow}
        /\ \A v \in Range(workflows) : v # w => v \in Range(workflows')
    BY <1>1, WorkflowsWithoutFacts DEF IInv, DeleteWorkflow
  <1>3. /\ \A i \in D : orders[i] \in Int
        /\ Distinct(D, orders)
        /\ target = NoWorkflow => D = {}
        /\ target # NoWorkflow =>
             /\ StatusesToMove(w) \subseteq D
             /\ D \subseteq StatusesToMove(w) \cup StatusesOf(target)
             /\ \A i \in D, j \in StatusesOf(target) \ D : orders[i] # StatusOrder[j]
    <2>1. CASE target = NoWorkflow
      <3>1. D = {}
        BY <2>1
      <3> HIDE DEF D, orders
      <3> QED BY <2>1, <3>1 DEF Distinct
    <2>2. CASE target # NoWorkflow
      <3>1. orders = MigrationOrders(w, target)
        BY <2>2
      <3> HIDE DEF orders
      <3> QED BY <1>1, <2>2, <3>1, MigrationFacts
    <2> QED BY <2>1, <2>2
  <1>4. status' = [s \in Statuses |->
          IF s \in D THEN [workflow |-> target, order |-> orders[s]]
          ELSE IF s \in StatusesOf(w) THEN NoStatus ELSE status[s]]
    BY DEF DeleteWorkflow, StatusesAfterMigration
  <1> HIDE DEF orders, D
  <1>5. D \in SUBSET Statuses
    BY <1>3 DEF StatusesToMove, StatusesOf
  <1>6. /\ status' = [s \in Statuses |-> status'[s]]
        /\ \A s \in D : status'[s] = [workflow |-> target, order |-> orders[s]]
        /\ \A s \in Statuses \ D : status'[s] = IF s \in StatusesOf(w) THEN NoStatus ELSE status[s]
    BY <1>4, <1>5
  <1>7. GoodStatuses(status', workflows')
    <2>1. ASSUME NEW s \in Statuses \ D
          PROVE  \/ status'[s] = NoStatus
                 \/ /\ status'[s] = status[s]
                    /\ status[s] # NoStatus => status[s].workflow \in Range(workflows')
      BY <1>1, <1>2, <1>6 DEF GoodStatuses, StatusesOf
    <2>2. CASE target = NoWorkflow
      <3>1. D = {}
        BY <1>3, <2>2
      <3>2. /\ status' \in [Statuses -> StatusRow \cup {NoStatus}]
            /\ \A s \in Statuses : status'[s] # NoStatus =>
                 status'[s] = status[s] /\ status[s].workflow \in Range(workflows')
        BY <1>1, <1>6, <2>1, <3>1 DEF GoodStatuses
      <3> QED BY <1>1, <3>2 DEF GoodStatuses
    <2>3. CASE target # NoWorkflow
      <3>1. /\ target \in Workflows /\ target \in Range(workflows')
            /\ \A i \in D, j \in StatusesOf(target) \ D : orders[i] # StatusOrder[j]
        BY <1>1, <1>2, <1>3, <2>3
      <3> QED BY <1>1, <1>3, <1>5, <1>6, <2>1, <3>1, StatusesPlaced
    <2> QED BY <2>2, <2>3
  <1>8. story' = [x \in Stories |->
          IF x \notin StoriesOf(w) THEN story[x]
          ELSE IF target # NoWorkflow /\ story[x].status \in StatusesToMove(w)
          THEN [story[x] EXCEPT !.workflow = target] ELSE NoStory]
    BY DEF DeleteWorkflow, StoriesAfterMigration
  <1>9. ASSUME NEW x \in Stories, story'[x] # NoStory
        PROVE  /\ story[x] # NoStory
               /\ story'[x] \in StoryRow
               /\ story'[x].status = story[x].status /\ story'[x].order = story[x].order
               /\ IF x \in StoriesOf(w)
                  THEN /\ target # NoWorkflow /\ story[x].status \in StatusesToMove(w)
                       /\ story'[x].workflow = target
                  ELSE story'[x].workflow = story[x].workflow
    <2>1. CASE x \notin StoriesOf(w)
      <3>1. story'[x] = story[x]
        BY <1>8, <2>1
      <3> QED BY <1>1, <1>9, <2>1, <3>1, StoryFacts
    <2>2. CASE x \in StoriesOf(w)
      <3>1. story[x] # NoStory
        BY <2>2 DEF StoriesOf
      <3>2. story[x] \in StoryRow
        BY <1>1, <3>1, StoryFacts
      <3>3. /\ target # NoWorkflow /\ story[x].status \in StatusesToMove(w)
            /\ story'[x] = [story[x] EXCEPT !.workflow = target]
        BY <1>8, <1>9, <2>2
      <3>4. target \in Workflows
        BY <1>1, <3>3
      <3>5. story'[x] = [workflow |-> target, status |-> story[x].status, order |-> story[x].order]
        BY <3>2, <3>3 DEF StoryRow
      <3>6. story[x].status \in Statuses /\ story[x].order \in Int
        BY <3>2 DEF StoryRow
      <3> QED BY <2>2, <3>1, <3>3, <3>4, <3>5, <3>6 DEF StoryRow
    <2> QED BY <2>1, <2>2
  <1>10. GoodStories(story')
    <2>1. story' = [x \in Stories |-> story'[x]]
      BY <1>8
    <2>2. \A x \in Stories : story'[x] \in StoryRow \cup {NoStory}
      BY <1>9
    <2>3. story' \in [Stories -> StoryRow \cup {NoStory}]
      BY <2>1, <2>2
    <2> QED BY <1>1, <1>9, <2>3 DEF GoodStories
  <1>11. InPlace(story', status')
    <2> SUFFICES ASSUME NEW x \in Stories, story'[x] # NoStory
                 PROVE  /\ status'[story'[x].status] # NoStatus
                        /\ status'[story'[x].status].workflow = story'[x].workflow
      BY DEF InPlace
    <2> DEFINE s == story[x].status
    <2>1. /\ s \in Statuses /\ status[s] # NoStatus /\ status[s].workflow = story[x].workflow
          /\ story[x] # NoStory /\ story'[x].status = s
      BY <1>1, <1>9, StoryFacts DEF InPlace
    <2> HIDE DEF s
    <2>2. ASSUME s \in D
          PROVE  status'[s] # NoStatus /\ status'[s].workflow = target /\ target # NoWorkflow
      <3>1. status'[s] = [workflow |-> target, order |-> orders[s]] /\ orders[s] \in Int
        BY <1>3, <1>6, <2>2
      <3>2. target \in Workflows /\ target # NoWorkflow
        BY <1>1, <1>3, <2>2
      <3>3. status'[s] \in StatusRow
        BY <3>1, <3>2 DEF StatusRow
      <3> QED BY <3>1, <3>2, <3>3, RowsAssumption
    <2>3. CASE x \in StoriesOf(w)
      <3>1. s \in StatusesToMove(w) /\ target # NoWorkflow /\ story'[x].workflow = target
        BY <1>9, <2>3 DEF s
      <3> QED BY <1>3, <2>1, <2>2, <3>1
    <2>4. CASE x \notin StoriesOf(w)
      <3>1. story[x].workflow # w /\ story'[x].workflow = story[x].workflow
        BY <1>9, <2>1, <2>4 DEF StoriesOf
      <3>2. s \notin StatusesOf(w)
        BY <2>1, <3>1 DEF StatusesOf
      <3>3. CASE s \in D
        <4>1. s \in StatusesOf(target)
          BY <1>3, <2>2, <3>2, <3>3 DEF StatusesToMove
        <4> QED BY <2>1, <2>2, <3>1, <3>3, <4>1 DEF StatusesOf
      <3>4. CASE s \notin D
        BY <1>6, <2>1, <3>1, <3>2, <3>4
      <3> QED BY <3>3, <3>4
    <2> QED BY <2>3, <2>4
  <1> QED BY <1>2, <1>7, <1>10, <1>11 DEF IInv

-----------------------------------------------------------------------------
(* The theorems.                                                           *)

LEMMA NextKeeps ==
    ASSUME IInv, [Next]_vars
    PROVE  IInv'
  <1>1. CASE WorkflowStep
    BY <1>1, CreateWorkflowKeeps, DeleteWorkflowKeeps DEF WorkflowStep
  <1>2. CASE StatusStep
    BY <1>2, CreateStatusKeeps, ReorderStatusesKeeps, DeleteStatusKeeps DEF StatusStep
  <1>3. CASE StoryStep
    BY <1>3, CreateStoryKeeps, ChangeStatusKeeps, ChangeWorkflowKeeps, DeleteStoryKeeps,
       ReorderStoriesKeeps DEF StoryStep
  <1>4. CASE UNCHANGED vars
    BY <1>4 DEF vars, IInv
  <1> QED BY <1>1, <1>2, <1>3, <1>4 DEF Next

THEOREM BoardsAreGood == Spec => []IInv
  BY InitHolds, NextKeeps, PTL DEF Spec

\* The tables of workflows, statuses and stories keep their types, whatever is
\* requested: the orders that Ordering computes are always integers.
THEOREM WorkflowsAreTyped == Spec => []TypeOK
  <1>1. IInv => TypeOK
    BY DEF IInv, TypeOK, GoodStatuses, GoodStories
  <1> QED BY <1>1, BoardsAreGood, PTL

\* Every story is in a status of its own workflow, and both exist: after any
\* sequence of moves, reorders and deletions, with or without a target.
THEOREM StoriesAreAlwaysInTheirWorkflow == Spec => []StoriesAreInTheirWorkflow
  <1>1. IInv => StoriesAreInTheirWorkflow
    <2> SUFFICES ASSUME IInv PROVE StoriesAreInTheirWorkflow
      OBVIOUS
    <2>1. GoodStories(story) /\ InPlace(story, status) /\ GoodStatuses(status, workflows)
      BY DEF IInv
    <2> QED BY <2>1, StoryFacts DEF StoriesAreInTheirWorkflow, InPlace, GoodStatuses
  <1> QED BY <1>1, BoardsAreGood, PTL

\* No two statuses of a workflow and no two stories of a status ever have the
\* same order, for any default offset and any number of items, however full the
\* gaps between them are.
THEOREM ListsNeverHaveTies == Spec => []NoTies
  <1>1. IInv => NoTies
    <2> SUFFICES ASSUME IInv PROVE NoTies
      OBVIOUS
    <2>1. GoodStories(story) /\ GoodStatuses(status, workflows)
      BY DEF IInv
    <2>2. \A w : \A s, t \in StatusesOf(w) : s # t => status[s].order # status[t].order
      BY <2>1 DEF GoodStatuses, StatusesOf
    <2>3. \A s : \A x, y \in StoriesIn(s) : x # y => story[x].order # story[y].order
      BY <2>1 DEF GoodStories, StoriesIn
    <2> QED BY <2>2, <2>3 DEF NoTies
  <1> QED BY <1>1, BoardsAreGood, PTL

-----------------------------------------------------------------------------
(* Requests that overlap (BoardRequests). Foreign keys do not say that the *)
(* status of a story is in the workflow of the story. What does is that a  *)
(* status and the stories that are in it, or that a request is about to    *)
(* put in it, always move to another workflow together.                    *)

Is(req, op, step) == req.op = op /\ req.step = step

Busy(r) == request[r] # NoRequest

\* No two requests that overlap decide in which workflow the same stories are:
\* one that changes the workflow of a story overlaps nothing, and the statuses of
\* a workflow are not moved to two others at once.
Uncontested ==
    \A q, r \in Requests : q # r /\ Busy(q) /\ Busy(r) =>
        /\ request[q].op # "change_workflow"
        /\ \/ request[q].op # "delete_workflow" \/ request[r].op # "delete_workflow"
           \/ request[q].args.workflow # request[r].args.workflow
           \/ NoWorkflow \in {request[q].args.target, request[r].args.target}
           \/ request[q].args.target = request[r].args.target

Record(req) ==
    [op |-> req.op, step |-> req.step, args |-> req.args, row |-> req.row, plan |-> req.plan]

Orders(plan, Items) == DOMAIN plan \subseteq Items /\ \A i \in DOMAIN plan : plan[i] \in Int

\* What a request has loaded, and what it has decided, are identities it knows.
Loaded(req, known) ==
    /\ req.op \in {"change_status", "change_workflow", "delete_story"} =>
         req.args.story \in Stories \cap known /\ req.row \in StoryRow
    /\ req.op = "change_status" => req.row.workflow \in known
    /\ req.op \in {"create_story", "reorder_stories", "change_status"} =>
         req.args.status \in Statuses \cap known
    /\ req.op \in {"create_story", "change_workflow", "reorder_stories", "create_status",
                   "reorder_statuses", "delete_workflow"} =>
         req.args.workflow \in Workflows \cap known
    /\ req.op \in {"update_status", "delete_status"} =>
         /\ req.args.status \in Statuses \cap known
         /\ req.row \in StatusRow /\ req.row.workflow \in known
    /\ req.op = "reorder_stories" =>
         /\ req.args.block \in Arrangements(Stories) /\ req.args.place \in Places
         /\ req.args.anchor \in Stories \cup {NoStory}
    /\ req.op = "reorder_statuses" =>
         /\ req.args.block \in Arrangements(Statuses) /\ req.args.place \in Places
         /\ req.args.anchor \in Statuses
    /\ req.op = "delete_workflow" => req.args.target \in (Workflows \cap known) \cup {NoWorkflow}
    /\ req.op = "delete_status" => req.args.target \in (Statuses \cap known) \cup {NoStatus}

Decided(req, known) ==
    /\ req.op \in {"create_story", "change_status", "change_workflow"} =>
         req.plan.status \in Statuses \cap known /\ req.plan.order \in Int
    /\ req.op \in {"reorder_stories", "delete_status"} => Orders(req.plan, Stories \cap known)
    /\ req.op \in {"reorder_statuses", "delete_workflow"} => Orders(req.plan, Statuses \cap known)
    /\ req.op = "delete_status" /\ req.args.target = NoStatus => DOMAIN req.plan = {}
    /\ req.op = "delete_workflow" /\ req.args.target = NoWorkflow => DOMAIN req.plan = {}

Known(req, known) == Loaded(req, known) /\ (req.step = "write" => Decided(req, known))

\* The stories of X that there are belong in the workflow of status s.
Belong(X, s, home, sy) ==
    \A x \in X \cap Stories : sy[x] # NoStory => sy[x].workflow = home[s]

\* What a request is about to write agrees with home, the workflow of each status,
\* unless the foreign keys refuse it.
AgreesRead(req, home, ws, sy) ==
    /\ req.op = "update_status" /\ req.row.workflow \in Range(ws) =>
         home[req.args.status] = req.row.workflow
    /\ Is(req, "change_status", "read") /\ req.row.workflow \in Range(ws)
         /\ sy[req.args.story] # NoStory => sy[req.args.story].workflow = req.row.workflow

AgreesStories(req, home, ws, sy) ==
    /\ Is(req, "change_status", "write") => Belong({req.args.story}, req.plan.status, home, sy)
    /\ Is(req, "reorder_stories", "write") => Belong(DOMAIN req.plan, req.args.status, home, sy)
    /\ Is(req, "delete_status", "write") => Belong(DOMAIN req.plan, req.args.target, home, sy)
    /\ req.op \in {"create_story", "change_workflow"} /\ req.step = "write"
         /\ req.args.workflow \in Range(ws) => home[req.plan.status] = req.args.workflow

AgreesStatuses(req, home, ws) ==
    /\ Is(req, "reorder_statuses", "write") /\ req.args.workflow \in Range(ws) =>
         \A s \in DOMAIN req.plan : home[s] = req.args.workflow
    /\ Is(req, "delete_workflow", "write") /\ req.args.target \in Range(ws) =>
         \A s \in DOMAIN req.plan : home[s] \in {req.args.workflow, req.args.target}

Agrees(req, home, ws, sy) ==
    AgreesRead(req, home, ws, sy) /\ AgreesStories(req, home, ws, sy) /\ AgreesStatuses(req, home, ws)

\* Whatever is in a status is in its workflow.
AtHome(home, st, sy) ==
    /\ \A s \in Statuses : st[s] # NoStatus => st[s].workflow = home[s]
    /\ \A x \in Stories : sy[x] # NoStory => sy[x].workflow = home[sy[x].status]

Rows(ws, st, sy) ==
    /\ ws \in Seq(Workflows) /\ \A i, j \in DOMAIN ws : ws[i] = ws[j] => i = j
    /\ st \in [Statuses -> StatusRow \cup {NoStatus}]
    /\ sy \in [Stories -> StoryRow \cup {NoStory}]

AllKnown ==
    /\ InUse \subseteq given
    /\ request = [r \in Requests |-> request[r]]
    /\ \A r \in Requests : Busy(r) => request[r] = Record(request[r]) /\ Known(request[r], given)

Together(home) ==
    /\ AtHome(home, status, story)
    /\ \A r \in Requests : Busy(r) => Agrees(request[r], home, workflows, story)

BoardIInv ==
    /\ Rows(workflows, status, story) /\ Refers(workflows, status, story)
    /\ AllKnown
    /\ \E home \in [Statuses -> Workflows] : Together(home)

\* More is known as time goes, until no request is left.
LEMMA KnownStays ==
    ASSUME NEW req, NEW known, NEW more, known \subseteq more, Known(req, known)
    PROVE  Known(req, more)
  <1>1. \A Items : Items \cap known \subseteq Items \cap more
    OBVIOUS
  <1>2. Loaded(req, more)
    BY <1>1 DEF Known, Loaded
  <1>3. Decided(req, known) => Decided(req, more)
    BY <1>1 DEF Decided, Orders
  <1> QED BY <1>2, <1>3 DEF Known

LEMMA Remembered ==
    ASSUME Remember, NEW r \in Requests, Busy(r)'
    PROVE  given \subseteq given'
  BY DEF Remember, Busy

\* A request that begins, goes on or ends, and writes no row.
LEMMA RequestGoesOn ==
    ASSUME BoardIInv, NEW r \in Requests, NEW new, request' = [request EXCEPT ![r] = new],
           UNCHANGED vars, Remember,
           new # NoRequest =>
             /\ new = Record(new) /\ Known(new, given)
             /\ \A home \in [Statuses -> Workflows] :
                  Together(home) => Agrees(new, home, workflows, story)
    PROVE  BoardIInv'
  <1>1. UNCHANGED <<workflows, status, story>>
    BY DEF vars
  <1>2. /\ request' = [q \in Requests |-> request'[q]]
        /\ request'[r] = new
        /\ \A q \in Requests \ {r} : request'[q] = request[q]
    BY DEF BoardIInv, AllKnown
  <1>3. InUse' \subseteq given'
    BY DEF Remember
  <1>4. ASSUME NEW q \in Requests, Busy(q)'
        PROVE  request'[q] = Record(request'[q]) /\ Known(request'[q], given')
    <2>1. request'[q] = Record(request'[q]) /\ Known(request'[q], given)
      BY <1>2, <1>4 DEF BoardIInv, AllKnown, Busy
    <2>2. given \subseteq given'
      BY <1>4, Remembered
    <2> QED BY <2>1, <2>2, KnownStays
  <1>5. AllKnown'
    <2>1. \A q \in Requests : Busy(q)' => request'[q] = Record(request'[q]) /\ Known(request'[q], given')
      BY <1>4
    <2> QED BY <1>2, <1>3, <2>1 DEF AllKnown, Busy, Record
  <1>6. PICK home \in [Statuses -> Workflows] : Together(home)
    BY DEF BoardIInv
  <1>7. \A q \in Requests : request'[q] # NoRequest => Agrees(request'[q], home, workflows, story)
    BY <1>2, <1>6 DEF Together, Busy
  <1>8. Together(home)'
    BY <1>1, <1>6, <1>7 DEF Together, AtHome, Busy, Agrees, AgreesRead, AgreesStories,
       AgreesStatuses, Is, Belong
  <1> QED BY <1>1, <1>5, <1>8 DEF BoardIInv, Rows, Refers

\* What a request leaves when it writes.
Settled(r, ws, st, sy) ==
    /\ Rows(ws, st, sy)
    /\ \E home \in [Statuses -> Workflows] :
         /\ AtHome(home, st, sy)
         /\ \A q \in Requests \ {r} : Busy(q) => Agrees(request[q], home, ws, sy)

LEMMA CommitKeeps ==
    ASSUME BoardIInv, NEW r \in Requests, NEW ws, NEW land, NEW st, NEW sy,
           Commit(r, ws, land, st, sy), Refers(ws, st, sy) => Settled(r, ws, st, sy)
    PROVE  BoardIInv'
  <1>1. request' = [request EXCEPT ![r] = NoRequest] /\ Remember
    BY DEF Commit, Finish
  <1>2. CASE ~Refers(ws, st, sy)
    <2>1. UNCHANGED vars
      BY <1>2 DEF Commit
    <2> QED BY <1>1, <2>1, RequestGoesOn
  <1>3. CASE Refers(ws, st, sy)
    <2>1. workflows' = ws /\ status' = st /\ story' = sy
      BY <1>3 DEF Commit
    <2>2. /\ request' = [q \in Requests |-> request'[q]]
          /\ request'[r] = NoRequest
          /\ \A q \in Requests \ {r} : request'[q] = request[q]
      BY <1>1 DEF BoardIInv, AllKnown
    <2>3. InUse' \subseteq given'
      BY <1>1 DEF Remember
    <2>4. ASSUME NEW q \in Requests, Busy(q)'
          PROVE  request'[q] = Record(request'[q]) /\ Known(request'[q], given')
      <3>1. q # r /\ request'[q] = Record(request'[q]) /\ Known(request'[q], given)
        BY <2>2, <2>4 DEF BoardIInv, AllKnown, Busy
      <3>2. given \subseteq given'
        BY <1>1, <2>4, Remembered
      <3> QED BY <3>1, <3>2, KnownStays
    <2>5. AllKnown'
      <3>1. \A q \in Requests : Busy(q)' => request'[q] = Record(request'[q]) /\ Known(request'[q], given')
        BY <2>4
      <3> QED BY <2>2, <2>3, <3>1 DEF AllKnown, Busy, Record
    <2>6. PICK home \in [Statuses -> Workflows] :
             /\ AtHome(home, st, sy)
             /\ \A q \in Requests \ {r} : Busy(q) => Agrees(request[q], home, ws, sy)
      BY <1>3 DEF Settled
    <2>7. \A q \in Requests : request'[q] # NoRequest => Agrees(request'[q], home, ws, sy)
      BY <2>2, <2>6 DEF Busy
    <2>8. Together(home)'
      BY <2>1, <2>6, <2>7 DEF Together, AtHome, Busy, Agrees, AgreesRead, AgreesStories,
         AgreesStatuses, Is, Belong
    <2>9. Rows(ws, st, sy)
      BY <1>3 DEF Settled
    <2> QED BY <1>3, <2>1, <2>5, <2>8, <2>9 DEF BoardIInv, Rows, Refers
  <1> QED BY <1>2, <1>3

\* What others are about to write still agrees if no story they know changes
\* workflow, no status they know does, and no workflow they know comes back.
LEMMA StillAgrees ==
    ASSUME NEW req, NEW known, Known(req, known), NEW home, NEW ws, NEW sy,
           Agrees(req, home, ws, sy), NEW home2, NEW ws2, NEW sy2,
           \A s \in Statuses \cap known : home2[s] = home[s],
           \A w \in Workflows \cap known : w \in Range(ws2) => w \in Range(ws),
           \A x \in Stories \cap known : sy2[x] # NoStory =>
             sy[x] # NoStory /\ sy2[x].workflow = sy[x].workflow
    PROVE  Agrees(req, home2, ws2, sy2)
  <1>1. AgreesRead(req, home2, ws2, sy2)
    BY DEF Agrees, AgreesRead, Known, Loaded, StatusRow, StoryRow, Is
  <1>2. AgreesStatuses(req, home2, ws2)
    BY DEF Agrees, AgreesStatuses, Known, Loaded, Decided, Orders, Is
  <1>3. AgreesStories(req, home2, ws2, sy2)
    <2>1. ASSUME Is(req, "change_status", "write")
          PROVE  Belong({req.args.story}, req.plan.status, home2, sy2)
      BY <2>1 DEF Agrees, AgreesStories, Belong, Known, Loaded, Decided, Is
    <2>2. ASSUME Is(req, "reorder_stories", "write")
          PROVE  Belong(DOMAIN req.plan, req.args.status, home2, sy2)
      BY <2>2 DEF Agrees, AgreesStories, Belong, Known, Loaded, Decided, Orders, Is
    <2>3. ASSUME Is(req, "delete_status", "write")
          PROVE  Belong(DOMAIN req.plan, req.args.target, home2, sy2)
      BY <2>3 DEF Agrees, AgreesStories, Belong, Known, Loaded, Decided, Orders, Is
    <2>4. ASSUME req.op \in {"create_story", "change_workflow"}, req.step = "write",
                 req.args.workflow \in Range(ws2)
          PROVE  home2[req.plan.status] = req.args.workflow
      BY <2>4 DEF Agrees, AgreesStories, Known, Loaded, Decided
    <2> QED BY <2>1, <2>2, <2>3, <2>4 DEF AgreesStories
  <1> QED BY <1>1, <1>2, <1>3 DEF Agrees

-----------------------------------------------------------------------------
(* Loading.                                                                *)

LEMMA RowFacts ==
    ASSUME BoardIInv
    PROVE  /\ \A w \in Range(workflows) : w \in Workflows \cap given
           /\ \A s \in Statuses : status[s] # NoStatus =>
                /\ s \in given /\ status[s] \in StatusRow
                /\ status[s].workflow \in Range(workflows)
                /\ status[s].order \in Int /\ StatusOrder[s] = status[s].order
           /\ \A x \in Stories : story[x] # NoStory =>
                /\ x \in given /\ story[x] \in StoryRow
                /\ story[x].workflow \in Range(workflows)
                /\ story[x].status \in Statuses /\ status[story[x].status] # NoStatus
                /\ story[x].order \in Int /\ StoryOrder[x] = story[x].order
  <1>1. InUse \subseteq given /\ Rows(workflows, status, story) /\ Refers(workflows, status, story)
    BY DEF BoardIInv, AllKnown
  <1>2. \A w \in Range(workflows) : w \in Workflows \cap given
    BY <1>1 DEF InUse, Rows, Range
  <1>3. ASSUME NEW s \in Statuses, status[s] # NoStatus
        PROVE  /\ s \in given /\ status[s] \in StatusRow
               /\ status[s].workflow \in Range(workflows)
               /\ status[s].order \in Int /\ StatusOrder[s] = status[s].order
    <2>1. s \in given /\ status[s] \in StatusRow /\ status[s].workflow \in Range(workflows)
      BY <1>1, <1>3 DEF InUse, Rows, Refers
    <2> QED BY <1>3, <2>1 DEF StatusRow, StatusOrder
  <1>4. ASSUME NEW x \in Stories, story[x] # NoStory
        PROVE  /\ x \in given /\ story[x] \in StoryRow
               /\ story[x].workflow \in Range(workflows)
               /\ story[x].status \in Statuses /\ status[story[x].status] # NoStatus
               /\ story[x].order \in Int /\ StoryOrder[x] = story[x].order
    <2>1. /\ x \in given /\ story[x] \in StoryRow /\ story[x].workflow \in Range(workflows)
          /\ status[story[x].status] # NoStatus
      BY <1>1, <1>4 DEF InUse, Rows, Refers
    <2> QED BY <1>4, <2>1 DEF StoryRow, StoryOrder
  <1> QED BY <1>2, <1>3, <1>4

LEMMA LoadKeeps ==
    ASSUME BoardIInv, NEW r \in Requests, NEW op, NEW args, NEW row, Load(r, op, args, row),
           NEW new, new = [op |-> op, step |-> "read", args |-> args, row |-> row, plan |-> Nothing],
           Loaded(new, given),
           \A home \in [Statuses -> Workflows] :
             Together(home) => AgreesRead(new, home, workflows, story)
    PROVE  BoardIInv'
  <1>1. request' = [request EXCEPT ![r] = new] /\ UNCHANGED vars /\ Remember
    BY DEF Load
  <1>2. new.step = "read" /\ new = Record(new)
    BY DEF Record
  <1>3. Known(new, given)
    BY <1>2 DEF Known
  <1>4. \A home : AgreesStories(new, home, workflows, story) /\ AgreesStatuses(new, home, workflows)
    BY <1>2 DEF AgreesStories, AgreesStatuses, Is
  <1>5. \A home \in [Statuses -> Workflows] : Together(home) => Agrees(new, home, workflows, story)
    BY <1>4 DEF Agrees
  <1> QED BY <1>1, <1>2, <1>3, <1>5, RequestGoesOn

LEMMA LoadStoryKeeps ==
    ASSUME BoardIInv, NEW r \in Requests, NEW x \in Stories, LoadStory(r, x)
    PROVE  BoardIInv'
  <1>1. /\ x \in given /\ story[x] \in StoryRow /\ story[x] # NoStory
        /\ story[x].workflow \in given
    BY RowFacts DEF LoadStory
  <1>2. ASSUME NEW s \in Statuses \cap given,
               Load(r, "change_status", [story |-> x, status |-> s], story[x])
        PROVE  BoardIInv'
    <2> DEFINE new == [op |-> "change_status", step |-> "read", args |-> [story |-> x, status |-> s],
                       row |-> story[x], plan |-> Nothing]
    <2>1. /\ new.op = "change_status" /\ new.step = "read"
          /\ new.args.story = x /\ new.args.status = s /\ new.row = story[x]
      OBVIOUS
    <2> HIDE DEF new
    <2>2. Loaded(new, given)
      BY <1>1, <2>1 DEF Loaded
    <2>3. \A home : AgreesRead(new, home, workflows, story)
      BY <2>1 DEF AgreesRead
    <2> QED BY <1>2, <2>2, <2>3, LoadKeeps DEF new
  <1>3. ASSUME NEW w \in Workflows \cap given,
               Load(r, "change_workflow", [story |-> x, workflow |-> w], story[x])
        PROVE  BoardIInv'
    <2> DEFINE new == [op |-> "change_workflow", step |-> "read", args |-> [story |-> x, workflow |-> w],
                       row |-> story[x], plan |-> Nothing]
    <2>1. new.op = "change_workflow" /\ new.args.story = x /\ new.args.workflow = w /\ new.row = story[x]
      OBVIOUS
    <2> HIDE DEF new
    <2>2. Loaded(new, given)
      BY <1>1, <2>1 DEF Loaded
    <2>3. \A home : AgreesRead(new, home, workflows, story)
      BY <2>1 DEF AgreesRead, Is
    <2> QED BY <1>3, <2>2, <2>3, LoadKeeps DEF new
  <1>4. ASSUME Load(r, "delete_story", [story |-> x], story[x])
        PROVE  BoardIInv'
    <2> DEFINE new == [op |-> "delete_story", step |-> "read", args |-> [story |-> x],
                       row |-> story[x], plan |-> Nothing]
    <2>1. new.op = "delete_story" /\ new.args.story = x /\ new.row = story[x]
      OBVIOUS
    <2> HIDE DEF new
    <2>2. Loaded(new, given)
      BY <1>1, <2>1 DEF Loaded
    <2>3. \A home : AgreesRead(new, home, workflows, story)
      BY <2>1 DEF AgreesRead, Is
    <2> QED BY <1>4, <2>2, <2>3, LoadKeeps DEF new
  <1> QED BY <1>2, <1>3, <1>4 DEF LoadStory

LEMMA LoadStatusKeeps ==
    ASSUME BoardIInv, NEW r \in Requests, NEW s \in Statuses, LoadStatus(r, s)
    PROVE  BoardIInv'
  <1>1. /\ s \in given /\ status[s] \in StatusRow /\ status[s] # NoStatus
        /\ status[s].workflow \in given
    BY RowFacts DEF LoadStatus
  <1>2. ASSUME Load(r, "update_status", [status |-> s], status[s])
        PROVE  BoardIInv'
    <2> DEFINE new == [op |-> "update_status", step |-> "read", args |-> [status |-> s],
                       row |-> status[s], plan |-> Nothing]
    <2>1. new.op = "update_status" /\ new.args.status = s /\ new.row = status[s]
      OBVIOUS
    <2> HIDE DEF new
    <2>2. Loaded(new, given)
      BY <1>1, <2>1 DEF Loaded
    <2>3. \A home : Together(home) => AgreesRead(new, home, workflows, story)
      BY <1>1, <2>1 DEF AgreesRead, Is, Together, AtHome
    <2> QED BY <1>2, <2>2, <2>3, LoadKeeps DEF new
  <1>3. ASSUME NEW target \in ((Statuses \cap given) \ {s}) \cup {NoStatus},
               Load(r, "delete_status", [status |-> s, target |-> target], status[s])
        PROVE  BoardIInv'
    <2> DEFINE new == [op |-> "delete_status", step |-> "read",
                       args |-> [status |-> s, target |-> target], row |-> status[s], plan |-> Nothing]
    <2>1. /\ new.op = "delete_status" /\ new.args.status = s /\ new.args.target = target
          /\ new.row = status[s]
      OBVIOUS
    <2> HIDE DEF new
    <2>2. Loaded(new, given)
      BY <1>1, <2>1 DEF Loaded
    <2>3. \A home : AgreesRead(new, home, workflows, story)
      BY <2>1 DEF AgreesRead, Is
    <2> QED BY <1>3, <2>2, <2>3, LoadKeeps DEF new
  <1> QED BY <1>2, <1>3 DEF LoadStatus

LEMMA KnownArrangements ==
    ASSUME NEW S, NEW known, NEW block \in Arrangements(S \cap known)
    PROVE  block \in Arrangements(S)
  <1>1. PICK T \in SUBSET (S \cap known) : block \in SetToSeqs(T)
    BY DEF Arrangements, SetToAllKPermutations
  <1>2. T \in SUBSET S
    OBVIOUS
  <1> QED BY <1>1, <1>2 DEF Arrangements, SetToAllKPermutations

LEMMA LoadWorkflowKeeps ==
    ASSUME BoardIInv, NEW r \in Requests, NEW w \in Workflows, LoadWorkflow(r, w)
    PROVE  BoardIInv'
  <1> DEFINE Of(op, args, row) ==
               [op |-> op, step |-> "read", args |-> args, row |-> row, plan |-> Nothing]
  <1>1. w \in given
    BY RowFacts DEF LoadWorkflow
  <1>2. ASSUME NEW op \in {"create_story", "reorder_stories", "create_status", "reorder_statuses",
                          "delete_workflow"},
               NEW args, NEW row, Load(r, op, args, row), args.workflow = w,
               op \in {"create_story", "reorder_stories"} => args.status \in Statuses \cap given,
               op = "delete_workflow" => args.target \in (Workflows \cap given) \cup {NoWorkflow},
               op = "reorder_stories" =>
                 /\ args.block \in Arrangements(Stories) /\ args.place \in Places
                 /\ args.anchor \in Stories \cup {NoStory},
               op = "reorder_statuses" =>
                 /\ args.block \in Arrangements(Statuses) /\ args.place \in Places
                 /\ args.anchor \in Statuses
        PROVE  BoardIInv'
    <2> DEFINE new == Of(op, args, row)
    <2>1. new.op = op /\ new.args = args
      OBVIOUS
    <2>2. new = [op |-> op, step |-> "read", args |-> args, row |-> row, plan |-> Nothing]
      OBVIOUS
    <2> HIDE DEF new
    <2>3. Loaded(new, given)
      BY <1>1, <1>2, <2>1 DEF Loaded
    <2>4. \A home : AgreesRead(new, home, workflows, story)
      BY <1>2, <2>1 DEF AgreesRead, Is
    <2> QED BY <1>2, <2>2, <2>3, <2>4, LoadKeeps
  <1>3. ASSUME NEW s \in Statuses \cap given,
               Load(r, "create_story", [workflow |-> w, status |-> s], Nothing)
        PROVE  BoardIInv'
    <2> DEFINE args == [workflow |-> w, status |-> s]
    <2>1. args.workflow = w /\ args.status = s
      OBVIOUS
    <2> HIDE DEF args
    <2> QED BY <1>2, <1>3, <2>1 DEF args
  <1>4. ASSUME NEW s \in Statuses \cap given, NEW block \in Arrangements(Stories \cap given),
               NEW anchor \in ((Stories \cap given) \ Range(block)) \cup {NoStory},
               NEW place \in IF anchor = NoStory THEN {"after"} ELSE Places,
               Load(r, "reorder_stories", [workflow |-> w, status |-> s,
                      block |-> block, place |-> place, anchor |-> anchor], Nothing)
        PROVE  BoardIInv'
    <2> DEFINE args == [workflow |-> w, status |-> s, block |-> block, place |-> place, anchor |-> anchor]
    <2>1. /\ args.workflow = w /\ args.status = s
          /\ args.block = block /\ args.place = place /\ args.anchor = anchor
      OBVIOUS
    <2>2. block \in Arrangements(Stories)
      BY KnownArrangements
    <2>3. place \in Places
      BY DEF Places
    <2> HIDE DEF args
    <2> QED BY <1>2, <1>4, <2>1, <2>2, <2>3 DEF args
  <1>5. ASSUME Load(r, "create_status", [workflow |-> w], Nothing)
        PROVE  BoardIInv'
    <2> DEFINE args == [workflow |-> w]
    <2>1. args.workflow = w
      OBVIOUS
    <2> HIDE DEF args
    <2> QED BY <1>2, <1>5, <2>1 DEF args
  <1>6. ASSUME NEW block \in Arrangements(Statuses \cap given), NEW place \in Places,
               NEW anchor \in (Statuses \cap given) \ Range(block),
               Load(r, "reorder_statuses", [workflow |-> w, block |-> block,
                      place |-> place, anchor |-> anchor], Nothing)
        PROVE  BoardIInv'
    <2> DEFINE args == [workflow |-> w, block |-> block, place |-> place, anchor |-> anchor]
    <2>1. /\ args.workflow = w
          /\ args.block = block /\ args.place = place /\ args.anchor = anchor
      OBVIOUS
    <2>2. block \in Arrangements(Statuses)
      BY KnownArrangements
    <2> HIDE DEF args
    <2> QED BY <1>2, <1>6, <2>1, <2>2 DEF args
  <1>7. ASSUME NEW target \in ((Workflows \cap given) \ {w}) \cup {NoWorkflow},
               Load(r, "delete_workflow", [workflow |-> w, target |-> target], landing)
        PROVE  BoardIInv'
    <2> DEFINE args == [workflow |-> w, target |-> target]
    <2>1. args.workflow = w /\ args.target = target
      OBVIOUS
    <2> HIDE DEF args
    <2> QED BY <1>2, <1>7, <2>1 DEF args
  <1> QED BY <1>3, <1>4, <1>5, <1>6, <1>7 DEF LoadWorkflow

LEMMA LoadProjectKeeps ==
    ASSUME BoardIInv, NEW r \in Requests, LoadProject(r)
    PROVE  BoardIInv'
  <1> DEFINE new == [op |-> "create_workflow", step |-> "read", args |-> <<>>,
                     row |-> Nothing, plan |-> Nothing]
  <1>1. new.op = "create_workflow"
    OBVIOUS
  <1> HIDE DEF new
  <1>2. Loaded(new, given)
    BY <1>1 DEF Loaded
  <1>3. \A home : AgreesRead(new, home, workflows, story)
    BY <1>1 DEF AgreesRead, Is
  <1> QED BY <1>2, <1>3, LoadKeeps DEF LoadProject, new

\* Lists may have ties here; they are sorted all the same.
LEMMA ListsAreOrdered ==
    ASSUME BoardIInv
    PROVE  /\ \A s : \A S \in SUBSET StoriesIn(s) : S \in SUBSET Stories /\ Ordered(S, StoryOrder)
           /\ \A w : \A S \in SUBSET StatusesOf(w) : S \in SUBSET Statuses /\ Ordered(S, StatusOrder)
  <1>1. ASSUME NEW s, NEW S \in SUBSET StoriesIn(s)
        PROVE  S \in SUBSET Stories /\ Ordered(S, StoryOrder)
    <2>1. S \in SUBSET Stories /\ \A x \in S : story[x] # NoStory
      BY DEF StoriesIn
    <2>2. IsFiniteSet(S)
      BY <2>1, WorkflowsAssumption, FS_Subset
    <2> QED BY <2>1, <2>2, RowFacts DEF Ordered
  <1>2. ASSUME NEW w, NEW S \in SUBSET StatusesOf(w)
        PROVE  S \in SUBSET Statuses /\ Ordered(S, StatusOrder)
    <2>1. S \in SUBSET Statuses /\ \A s \in S : status[s] # NoStatus
      BY DEF StatusesOf
    <2>2. IsFiniteSet(S)
      BY <2>1, WorkflowsAssumption, FS_Subset
    <2> QED BY <2>1, <2>2, RowFacts DEF Ordered
  <1> QED BY <1>1, <1>2

\* Whatever neighbors were found, only the block and others are given an order.
LEMMA PlacedBetweenWhom ==
    ASSUME NEW Items, NEW block \in Seq(Items), NEW others \in SUBSET Items,
           NEW order, Ordered(others, order), NEW place \in Places, NEW anchor \in others,
           NEW prev \in Int \cup {NoNeighbor}, NEW following
    PROVE  DOMAIN PlacedBetween(block, others, order, place, anchor, prev, following)
             \subseteq Range(block) \cup others
  <1> DEFINE n == Len(block)
             gap == CalculateOffset(place, order[anchor], prev, following, n + 1)
             above == {j \in others : order[j] > gap.pre}
             next == Sorted(above, order)
             orders == [k \in 1 .. Len(next) |-> order[next[k]]]
             displaced == IF gap.offset # 0 THEN 0 ELSE Displaced(orders, gap.pre, n)
             offset == IF gap.offset # 0 THEN gap.offset
                       ELSE OffsetWith(orders, gap.pre, n, displaced)
             moved == block \o SubSeq(next, 1, displaced)
  <1>1. DOMAIN PlacedBetween(block, others, order, place, anchor, prev, following) = Range(moved)
    BY DEF PlacedBetween, Numbered
  <1>2. n \in Nat /\ order[anchor] \in Int
    BY DEF Ordered
  <1>3. gap.pre \in Int
    <2>1. gap.pre = PreOrder(place, order[anchor], prev, n + 1)
      BY DEF CalculateOffset
    <2> HIDE DEF n, gap
    <2>2. DefaultOrderOffset * (n + 1) \in Int
      BY <1>2, OffsetAssumption
    <2> QED BY <1>2, <2>1, <2>2 DEF PreOrder, Lower
  <1>4. Ordered(above, order) /\ above \in SUBSET others
    BY FS_Subset DEF Ordered
  <1>5. next \in Seq(above)
    <2> HIDE DEF above
    <2> QED BY <1>4, SortedFacts
  <1>6. displaced \in 0 .. Len(next)
    <2>1. orders \in Seq(Int) /\ Len(orders) = Len(next)
      <3>1. \A k \in 1 .. Len(next) : order[next[k]] \in Int
        <4>1. \A k \in 1 .. Len(next) : next[k] \in above
          BY <1>5
        <4> HIDE DEF above, next
        <4> QED BY <1>4, <4>1 DEF Ordered
      <3>2. Len(next) \in Nat
        BY <1>5
      <3> HIDE DEF next
      <3> QED BY <3>1, <3>2
    <2> HIDE DEF orders, gap, next
    <2>2. CASE gap.offset # 0
      BY <1>5, <2>2
    <2>3. CASE gap.offset = 0
      BY <1>2, <1>3, <2>1, <2>3, FitsExists
    <2> QED BY <2>2, <2>3
  <1> HIDE DEF displaced, next, above
  <1>7. /\ SubSeq(next, 1, displaced) \in Seq(Items) /\ Len(SubSeq(next, 1, displaced)) = displaced
        /\ \A k \in 1 .. displaced : SubSeq(next, 1, displaced)[k] \in others
    BY <1>4, <1>5, <1>6
  <1>8. ASSUME NEW k \in 1 .. Len(moved) PROVE moved[k] \in Range(block) \cup others
    <2>1. Len(moved) = n + displaced
      BY <1>7
    <2>2. moved[k] = IF k <= n THEN block[k] ELSE SubSeq(next, 1, displaced)[k - n]
      BY <1>7
    <2>3. CASE k <= n
      BY <2>2, <2>3 DEF Range
    <2>4. CASE ~(k <= n)
      <3>1. k - n \in 1 .. displaced
        BY <1>2, <1>6, <2>1, <2>4
      <3> QED BY <1>7, <2>2, <2>4, <3>1
    <2> QED BY <2>3, <2>4
  <1>9. moved \in Seq(Items)
    BY <1>7
  <1> HIDE DEF moved
  <1> QED BY <1>1, <1>8, <1>9 DEF Range

LEMMA PlacementsWhom ==
    ASSUME NEW Items, NEW block \in Seq(Items), NEW others \in SUBSET Items,
           NEW order, Ordered(others, order), NEW place \in Places, NEW anchor \in others,
           NEW plan \in Placements(block, others, order, place, anchor)
    PROVE  DOMAIN plan \subseteq Range(block) \cup others
  <1>1. PICK sides \in Neighbors(others, order, anchor) :
          plan = PlacedBetween(block, others, order, place, anchor, sides[1], sides[2])
    BY DEF Placements
  <1>2. sides[1] \in Int \cup {NoNeighbor}
    <2>1. OrderBefore(others, order, anchor) \in Int \cup {NoNeighbor}
      BY OrderBeforeFacts
    <2>2. order[anchor] \in Int
      BY DEF Ordered
    <2>3. sides[1] \in {OrderBefore(others, order, anchor), order[anchor]}
      BY DEF Neighbors
    <2> QED BY <2>1, <2>2, <2>3
  <1> QED BY <1>1, <1>2, PlacedBetweenWhom

LEMMA AppendedWhom ==
    ASSUME NEW block, NEW latest
    PROVE  DOMAIN Appended(block, latest) = Range(block)
  BY DEF Appended, Numbered

LEMMA MigrationWhom ==
    ASSUME BoardIInv, NEW w, NEW target
    PROVE  DOMAIN MigrationOrders(w, target) \subseteq StatusesToMove(w) \cup StatusesOf(target)
  <1> DEFINE moving == Sorted(StatusesToMove(w), StatusOrder)
             others == StatusesOf(target)
             list == Sorted(others, StatusOrder)
  <1>1. StatusesToMove(w) \in SUBSET StatusesOf(w)
    BY DEF StatusesToMove
  <1>2. /\ StatusesToMove(w) \in SUBSET Statuses /\ Ordered(StatusesToMove(w), StatusOrder)
        /\ others \in SUBSET Statuses /\ Ordered(others, StatusOrder)
    BY <1>1, ListsAreOrdered
  <1>3. moving \in Seq(StatusesToMove(w)) /\ Range(moving) = StatusesToMove(w) /\ moving \in Seq(Statuses)
    BY <1>2, SortedFacts
  <1>4. CASE moving = <<>>
    <2>1. MigrationOrders(w, target) = <<>>
      BY <1>4 DEF MigrationOrders
    <2> QED BY <2>1
  <1>5. CASE moving # <<>> /\ others = {}
    <2>1. MigrationOrders(w, target) = [s \in Range(moving) |-> status[s].order]
      BY <1>5 DEF MigrationOrders
    <2> HIDE DEF moving
    <2> QED BY <1>3, <2>1
  <1>6. CASE moving # <<>> /\ others # {}
    <2>1. MigrationOrders(w, target)
            = Repositioned(moving, others, StatusOrder, "after", Last(Columns[target]))
      BY <1>6 DEF MigrationOrders
    <2>2. target \in Workflows
      <3>1. PICK s \in Statuses : status[s] # NoStatus /\ status[s].workflow = target
        BY <1>6 DEF StatusesOf
      <3> QED BY <3>1, RowFacts
    <2>3. Columns[target] = list
      BY <2>2 DEF Columns
    <2>4. list \in Seq(others) /\ list # <<>>
      BY <1>2, <1>6, SortedFacts
    <2>5. Last(list) \in others
      BY <2>4 DEF Last
    <2>6. "after" \in Places
      BY DEF Places
    <2> HIDE DEF moving, others, list
    <2>7. DOMAIN Repositioned(moving, others, StatusOrder, "after", Last(list))
            \subseteq Range(moving) \cup others
      BY <1>2, <1>3, <1>6, <2>5, <2>6, RepositionedFacts
    <2> QED BY <1>3, <2>1, <2>3, <2>7 DEF others
  <1> QED BY <1>4, <1>5, <1>6

-----------------------------------------------------------------------------
(* Reading.                                                                *)

\* A request once it has decided what it will write.
Planned(req, plan) == [req EXCEPT !.step = "write", !.plan = plan]

LEMMA PlannedFields ==
    ASSUME NEW req, req = Record(req), NEW plan, NEW new, new = Planned(req, plan)
    PROVE  /\ new.op = req.op /\ new.step = "write" /\ new.args = req.args
           /\ new.row = req.row /\ new.plan = plan /\ new = Record(new)
  <1> DEFINE R == [op : {req.op}, step : {req.step, "write"}, args : {req.args},
                   row : {req.row}, plan : {req.plan, plan}]
  <1>1. req \in R
    BY DEF Record
  <1>2. new \in R /\ new.step = "write" /\ new.plan = plan
    BY <1>1 DEF Planned
  <1>3. new = Record(new)
    BY <1>2 DEF Record
  <1> QED BY <1>2, <1>3

LEMMA DecideKeeps ==
    ASSUME BoardIInv, NEW r \in Requests, Busy(r), NEW plans, Decide(r, plans),
           \A plan \in plans : LET new == Planned(request[r], plan) IN
             /\ Decided(new, given)
             /\ \A home \in [Statuses -> Workflows] : Together(home) =>
                  AgreesStories(new, home, workflows, story) /\ AgreesStatuses(new, home, workflows)
    PROVE  BoardIInv'
  <1>1. CASE EndWithout(r)
    BY <1>1, RequestGoesOn DEF EndWithout, Finish
  <1>2. ASSUME NEW plan \in plans,
               request' = [request EXCEPT ![r].step = "write", ![r].plan = plan],
               UNCHANGED vars, Remember
        PROVE  BoardIInv'
    <2> DEFINE req == request[r]
               new == Planned(req, plan)
    <2>1. /\ request = [q \in Requests |-> request[q]]
          /\ req = Record(req) /\ Known(req, given)
      BY DEF BoardIInv, AllKnown
    <2>2. request' = [request EXCEPT ![r] = [req EXCEPT !.step = "write", !.plan = plan]]
      BY <1>2, <2>1
    <2>3. request' = [request EXCEPT ![r] = new]
      BY <2>2 DEF Planned
    <2>4. /\ new.op = req.op /\ new.step = "write" /\ new.args = req.args
          /\ new.row = req.row /\ new.plan = plan /\ new = Record(new)
      BY <2>1, PlannedFields
    <2>5. /\ Decided(new, given)
          /\ \A home \in [Statuses -> Workflows] : Together(home) =>
               AgreesStories(new, home, workflows, story) /\ AgreesStatuses(new, home, workflows)
      OBVIOUS
    <2>6. \A home \in [Statuses -> Workflows] : Together(home) => AgreesRead(req, home, workflows, story)
      BY DEF Together, Agrees
    <2> HIDE DEF new, req
    <2>7. Loaded(new, given)
      BY <2>1, <2>4 DEF Known, Loaded
    <2>8. Known(new, given)
      BY <2>5, <2>7 DEF Known
    <2>9. \A home \in [Statuses -> Workflows] : Together(home) => AgreesRead(new, home, workflows, story)
      BY <2>4, <2>6 DEF AgreesRead, Is
    <2>10. \A home \in [Statuses -> Workflows] : Together(home) => Agrees(new, home, workflows, story)
      BY <2>5, <2>9 DEF Agrees
    <2> QED BY <1>2, <2>3, <2>4, <2>8, <2>10, RequestGoesOn
  <1> QED BY <1>1, <1>2 DEF Decide

\* What a request that is to decide or to write has loaded.
LEMMA RequestFacts ==
    ASSUME BoardIInv, NEW r \in Requests, NEW op, NEW step, At(r, op, step)
    PROVE  /\ Busy(r) /\ request[r] = Record(request[r])
           /\ request[r].op = op /\ request[r].step = step
           /\ Loaded(request[r], given)
           /\ step = "write" => Decided(request[r], given)
           /\ \A home \in [Statuses -> Workflows] :
                Together(home) => Agrees(request[r], home, workflows, story)
  BY DEF BoardIInv, AllKnown, At, Busy, Known, Together

LEMMA LiveStatuses ==
    ASSUME BoardIInv, NEW w, NEW s \in StatusesOf(w)
    PROVE  /\ s \in Statuses \cap given /\ w \in Range(workflows) /\ status[s] # NoStatus
           /\ status[s].workflow = w
           /\ \A home : Together(home) => home[s] = w
  BY RowFacts DEF StatusesOf, Together, AtHome

LEMMA LiveStories ==
    ASSUME BoardIInv
    PROVE  /\ \A w : \A x \in StoriesOf(w) :
                x \in Stories \cap given /\ story[x] # NoStory /\ story[x].workflow = w
           /\ \A s : \A x \in StoriesIn(s) :
                /\ x \in Stories \cap given /\ story[x] # NoStory /\ story[x].status = s
                /\ s \in Statuses /\ status[s] # NoStatus
                /\ \A home : Together(home) => story[x].workflow = home[s]
  <1>1. \A w : \A x \in StoriesOf(w) :
          x \in Stories \cap given /\ story[x] # NoStory /\ story[x].workflow = w
    BY RowFacts DEF StoriesOf
  <1>2. \A s : \A x \in StoriesIn(s) :
          /\ x \in Stories \cap given /\ story[x] # NoStory /\ story[x].status = s
          /\ s \in Statuses /\ status[s] # NoStatus
          /\ \A home : Together(home) => story[x].workflow = home[s]
    BY RowFacts DEF StoriesIn, Together, AtHome
  <1> QED BY <1>1, <1>2

LEMMA InBounds ==
    ASSUME NEW plan, NEW bound \in SUBSET Int, Within(plan, bound)
    PROVE  \A i \in DOMAIN plan : plan[i] \in Int
  BY DEF Within, Range

LEMMA ReadCreateStoryKeeps ==
    ASSUME BoardIInv, NEW r \in Requests, ReadCreateStory(r)
    PROVE  BoardIInv'
  <1> DEFINE args == request[r].args
             plans == {[status |-> args.status, order |-> order] :
                         order \in IF args.status \in StatusesOf(args.workflow)
                                   THEN ToEndOf(args.status) ELSE {}}
  <1>1. At(r, "create_story", "read") /\ Decide(r, plans)
    BY DEF ReadCreateStory
  <1>2. ASSUME NEW plan \in plans
        PROVE  LET new == Planned(request[r], plan) IN
               /\ Decided(new, given)
               /\ \A home \in [Statuses -> Workflows] : Together(home) =>
                    AgreesStories(new, home, workflows, story) /\ AgreesStatuses(new, home, workflows)
    <2> DEFINE new == Planned(request[r], plan)
    <2>1. /\ args.status \in StatusesOf(args.workflow)
          /\ plan.status = args.status /\ plan.order \in StoryOrders
      BY DEF ToEndOf
    <2>2. /\ new.op = "create_story" /\ new.step = "write" /\ new.args = args /\ new.plan = plan
      BY <1>1, PlannedFields, RequestFacts
    <2>3. plan.order \in Int /\ plan.status \in Statuses \cap given
      BY <2>1, LiveStatuses, WorkflowsAssumption
    <2>4. \A home : Together(home) => home[plan.status] = args.workflow
      BY <2>1, LiveStatuses
    <2> HIDE DEF new, plans, args
    <2>5. Decided(new, given)
      BY <2>2, <2>3 DEF Decided
    <2>6. \A home : Together(home) =>
            AgreesStories(new, home, workflows, story) /\ AgreesStatuses(new, home, workflows)
      BY <2>2, <2>4 DEF AgreesStories, AgreesStatuses, Is
    <2> QED BY <2>5, <2>6 DEF new
  <1> HIDE DEF plans
  <1> QED BY <1>1, <1>2, RequestFacts, DecideKeeps

LEMMA ReadChangeStatusKeeps ==
    ASSUME BoardIInv, NEW r \in Requests, ReadChangeStatus(r)
    PROVE  BoardIInv'
  <1> DEFINE s == request[r].args.status
             x == request[r].args.story
             w == request[r].row.workflow
             plans == {[status |-> s, order |-> order] :
                         order \in IF s \in StatusesOf(w) \ {request[r].row.status}
                                   THEN ToEndOf(s) ELSE {}}
  <1>1. At(r, "change_status", "read") /\ Decide(r, plans)
    BY DEF ReadChangeStatus
  <1>2. ASSUME NEW plan \in plans
        PROVE  LET new == Planned(request[r], plan) IN
               /\ Decided(new, given)
               /\ \A home \in [Statuses -> Workflows] : Together(home) =>
                    AgreesStories(new, home, workflows, story) /\ AgreesStatuses(new, home, workflows)
    <2> DEFINE new == Planned(request[r], plan)
    <2>1. s \in StatusesOf(w) /\ plan.status = s /\ plan.order \in StoryOrders
      BY DEF ToEndOf
    <2>2. /\ new.op = "change_status" /\ new.step = "write" /\ new.args.story = x /\ new.plan = plan
      BY <1>1, PlannedFields, RequestFacts
    <2>3. plan.order \in Int /\ plan.status \in Statuses \cap given
      BY <2>1, LiveStatuses, WorkflowsAssumption
    <2>4. ASSUME NEW home \in [Statuses -> Workflows], Together(home)
          PROVE  story[x] # NoStory => story[x].workflow = home[plan.status]
      <3>1. AgreesRead(request[r], home, workflows, story)
        BY <1>1, <2>4, RequestFacts DEF Agrees
      <3>2. Is(request[r], "change_status", "read")
        BY <1>1, RequestFacts DEF Is
      <3>3. w \in Range(workflows) /\ home[plan.status] = w
        BY <2>1, <2>4, LiveStatuses
      <3> QED BY <3>1, <3>2, <3>3 DEF AgreesRead
    <2> HIDE DEF new, plans, s, x, w
    <2>5. Decided(new, given)
      BY <2>2, <2>3 DEF Decided
    <2>6. \A home \in [Statuses -> Workflows] : Together(home) =>
            AgreesStories(new, home, workflows, story) /\ AgreesStatuses(new, home, workflows)
      BY <2>2, <2>4 DEF AgreesStories, AgreesStatuses, Is, Belong
    <2> QED BY <2>5, <2>6 DEF new
  <1> HIDE DEF plans
  <1> QED BY <1>1, <1>2, RequestFacts, DecideKeeps

LEMMA ReadChangeWorkflowKeeps ==
    ASSUME BoardIInv, NEW r \in Requests, ReadChangeWorkflow(r)
    PROVE  BoardIInv'
  <1> DEFINE w == request[r].args.workflow
             s == Head(Columns[w])
             plans == IF w \in Range(workflows) \ {request[r].row.workflow} /\ StatusesOf(w) # {}
                      THEN {[status |-> s, order |-> order] : order \in ToEndOf(s)} ELSE {}
  <1>1. At(r, "change_workflow", "read") /\ Decide(r, plans)
    BY DEF ReadChangeWorkflow
  <1>2. ASSUME NEW plan \in plans
        PROVE  LET new == Planned(request[r], plan) IN
               /\ Decided(new, given)
               /\ \A home \in [Statuses -> Workflows] : Together(home) =>
                    AgreesStories(new, home, workflows, story) /\ AgreesStatuses(new, home, workflows)
    <2> DEFINE new == Planned(request[r], plan)
               list == Sorted(StatusesOf(w), StatusOrder)
    <2>1. /\ w \in Range(workflows) /\ StatusesOf(w) # {}
          /\ plan.status = s /\ plan.order \in StoryOrders
      BY DEF ToEndOf
    <2>2. s \in StatusesOf(w)
      <3>1. Columns[w] = list
        BY <2>1, RowFacts DEF Columns
      <3>2. list \in Seq(StatusesOf(w)) /\ list # <<>>
        BY <2>1, ListsAreOrdered, SortedFacts
      <3>3. Head(list) \in StatusesOf(w)
        BY <3>2
      <3> QED BY <3>1, <3>3
    <2>3. /\ new.op = "change_workflow" /\ new.step = "write" /\ new.args.workflow = w /\ new.plan = plan
      BY <1>1, PlannedFields, RequestFacts
    <2>4. plan.order \in Int /\ plan.status \in Statuses \cap given
      <3>1. StoryOrders \subseteq Int
        BY WorkflowsAssumption
      <3> QED BY <2>1, <2>2, <3>1, LiveStatuses
    <2>5. \A home : Together(home) => home[plan.status] = w
      BY <2>1, <2>2, LiveStatuses
    <2> HIDE DEF new, plans, s, w
    <2>6. Decided(new, given)
      BY <2>3, <2>4 DEF Decided
    <2>7. \A home : Together(home) =>
            AgreesStories(new, home, workflows, story) /\ AgreesStatuses(new, home, workflows)
      BY <2>3, <2>5 DEF AgreesStories, AgreesStatuses, Is
    <2> QED BY <2>6, <2>7 DEF new
  <1> HIDE DEF plans
  <1> QED BY <1>1, <1>2, RequestFacts, DecideKeeps

LEMMA ReadReorderStoriesKeeps ==
    ASSUME BoardIInv, NEW r \in Requests, ReadReorderStories(r)
    PROVE  BoardIInv'
  <1> DEFINE s == request[r].args.status
             w == request[r].args.workflow
             block == request[r].args.block
             place == request[r].args.place
             anchor == request[r].args.anchor
             others == StoriesIn(s) \ Range(block)
             plans == {plan \in
                IF s \notin StatusesOf(w) \/ ~CanReorderStories(s, block, anchor)
                THEN {}
                ELSE IF anchor = NoStory
                THEN {Appended(block, Latest(StoriesIn(s), StoryOrder))}
                ELSE Placements(block, others, StoryOrder, place, anchor) :
              Within(plan, StoryOrders)}
  <1>1. At(r, "reorder_stories", "read") /\ Decide(r, plans)
    BY DEF ReadReorderStories
  <1>2. block \in Arrangements(Stories) /\ place \in Places
    BY <1>1, RequestFacts DEF Loaded
  <1>3. block \in Seq(Stories)
    BY <1>2, Block, WorkflowsAssumption
  <1>4. others \in SUBSET Stories /\ Ordered(others, StoryOrder)
    BY ListsAreOrdered
  <1>5. ASSUME NEW plan \in plans
        PROVE  LET new == Planned(request[r], plan) IN
               /\ Decided(new, given)
               /\ \A home \in [Statuses -> Workflows] : Together(home) =>
                    AgreesStories(new, home, workflows, story) /\ AgreesStatuses(new, home, workflows)
    <2> DEFINE new == Planned(request[r], plan)
    <2>1. s \in StatusesOf(w) /\ CanReorderStories(s, block, anchor) /\ Within(plan, StoryOrders)
      OBVIOUS
    <2>2. DOMAIN plan \subseteq Range(block) \cup others
      <3>1. CASE anchor = NoStory
        BY <2>1, <3>1, AppendedWhom
      <3>2. CASE anchor # NoStory
        <4>1. plan \in Placements(block, others, StoryOrder, place, anchor) /\ anchor \in others
          BY <2>1, <3>2 DEF CanReorderStories
        <4> HIDE DEF others, block, anchor, place
        <4> QED BY <1>2, <1>3, <1>4, <4>1, PlacementsWhom
      <3> QED BY <3>1, <3>2
    <2>3. \A x \in DOMAIN plan : x \in StoriesOf(status[s].workflow) \cup StoriesIn(s)
      BY <2>1, <2>2 DEF CanReorderStories
    <2>4. /\ new.op = "reorder_stories" /\ new.step = "write" /\ new.args = request[r].args
          /\ new.plan = plan
      BY <1>1, PlannedFields, RequestFacts
    <2>5. \A x \in DOMAIN plan : plan[x] \in Int
      BY <2>1, InBounds, WorkflowsAssumption
    <2>6. \A x \in DOMAIN plan : x \in Stories \cap given
      BY <2>3, LiveStories
    <2>7. \A home : Together(home) => \A x \in DOMAIN plan : story[x].workflow = home[s]
      <3>1. \A home : Together(home) => home[s] = w /\ status[s].workflow = w
        BY <2>1, LiveStatuses
      <3> QED BY <2>3, <3>1, LiveStories
    <2> HIDE DEF new, plans, others, block, anchor, place
    <2>8. Decided(new, given)
      BY <2>4, <2>5, <2>6 DEF Decided, Orders
    <2>9. \A home : Together(home) =>
            AgreesStories(new, home, workflows, story) /\ AgreesStatuses(new, home, workflows)
      BY <2>4, <2>7 DEF AgreesStories, AgreesStatuses, Is, Belong
    <2> QED BY <2>8, <2>9 DEF new
  <1> HIDE DEF plans
  <1> QED BY <1>1, <1>5, RequestFacts, DecideKeeps

LEMMA ReadReorderStatusesKeeps ==
    ASSUME BoardIInv, NEW r \in Requests, ReadReorderStatuses(r)
    PROVE  BoardIInv'
  <1> DEFINE w == request[r].args.workflow
             block == request[r].args.block
             place == request[r].args.place
             anchor == request[r].args.anchor
             others == StatusesOf(w) \ Range(block)
             plans == {plan \in
                IF CanReorderStatuses(w, block, anchor)
                THEN Placements(block, others, StatusOrder, place, anchor) ELSE {} :
              Within(plan, StatusOrders)}
  <1>1. At(r, "reorder_statuses", "read") /\ Decide(r, plans)
    BY DEF ReadReorderStatuses
  <1>2. block \in Arrangements(Statuses) /\ place \in Places
    BY <1>1, RequestFacts DEF Loaded
  <1>3. block \in Seq(Statuses)
    BY <1>2, Block, WorkflowsAssumption
  <1>4. others \in SUBSET Statuses /\ Ordered(others, StatusOrder)
    BY ListsAreOrdered
  <1>5. ASSUME NEW plan \in plans
        PROVE  LET new == Planned(request[r], plan) IN
               /\ Decided(new, given)
               /\ \A home \in [Statuses -> Workflows] : Together(home) =>
                    AgreesStories(new, home, workflows, story) /\ AgreesStatuses(new, home, workflows)
    <2> DEFINE new == Planned(request[r], plan)
    <2>1. /\ CanReorderStatuses(w, block, anchor) /\ Within(plan, StatusOrders)
          /\ plan \in Placements(block, others, StatusOrder, place, anchor)
      OBVIOUS
    <2>2. \A s \in DOMAIN plan : s \in StatusesOf(w)
      <3>1. anchor \in others /\ Range(block) \subseteq StatusesOf(w) /\ others \subseteq StatusesOf(w)
        BY <2>1 DEF CanReorderStatuses
      <3> HIDE DEF others, block, anchor, place
      <3>2. DOMAIN plan \subseteq Range(block) \cup others
        BY <1>2, <1>3, <1>4, <2>1, <3>1, PlacementsWhom
      <3> QED BY <3>1, <3>2
    <2>3. /\ new.op = "reorder_statuses" /\ new.step = "write" /\ new.args.workflow = w
          /\ new.plan = plan
      BY <1>1, PlannedFields, RequestFacts
    <2>4. \A s \in DOMAIN plan : plan[s] \in Int
      BY <2>1, InBounds, WorkflowsAssumption
    <2>5. \A s \in DOMAIN plan : s \in Statuses \cap given
      BY <2>2, LiveStatuses
    <2>6. \A home : Together(home) => \A s \in DOMAIN plan : home[s] = w
      BY <2>2, LiveStatuses
    <2> HIDE DEF new, plans, others, block, anchor, place, w
    <2>7. Decided(new, given)
      BY <2>3, <2>4, <2>5 DEF Decided, Orders
    <2>8. \A home : Together(home) =>
            AgreesStories(new, home, workflows, story) /\ AgreesStatuses(new, home, workflows)
      BY <2>3, <2>6 DEF AgreesStories, AgreesStatuses, Is
    <2> QED BY <2>7, <2>8 DEF new
  <1> HIDE DEF plans
  <1> QED BY <1>1, <1>5, RequestFacts, DecideKeeps

LEMMA CardsWhom ==
    ASSUME BoardIInv, NEW s \in Statuses
    PROVE  Range(Cards[s]) = StoriesIn(s)
  <1> DEFINE S == StoriesIn(s)
  <1>1. S \in SUBSET Stories /\ Ordered(S, StoryOrder)
    BY ListsAreOrdered
  <1>2. Cards[s] = Sorted(S, StoryOrder)
    BY DEF Cards
  <1> HIDE DEF S
  <1>3. Range(Sorted(S, StoryOrder)) = S
    BY <1>1, SortedFacts
  <1> QED BY <1>2, <1>3 DEF S

LEMMA ReadDeleteStatusKeeps ==
    ASSUME BoardIInv, NEW r \in Requests, ReadDeleteStatus(r)
    PROVE  BoardIInv'
  <1> DEFINE s == request[r].args.status
             target == request[r].args.target
             w == request[r].row.workflow
             plans == {plan \in
                IF target = NoStatus THEN {<<>>}
                ELSE IF /\ status[target] # NoStatus
                        /\ target # s
                        /\ StoriesIn(s) # {} => status[target].workflow = w
                        /\ StoriesIn(s) \subseteq StoriesOf(w)
                THEN {Appended(Cards[s], Latest(StoriesIn(target), StoryOrder))}
                ELSE {} :
              Within(plan, StoryOrders)}
  <1>1. At(r, "delete_status", "read") /\ Decide(r, plans)
    BY DEF ReadDeleteStatus
  <1>2. s \in Statuses /\ target \in Statuses \cup {NoStatus}
    BY <1>1, RequestFacts DEF Loaded
  <1>3. ASSUME NEW plan \in plans
        PROVE  LET new == Planned(request[r], plan) IN
               /\ Decided(new, given)
               /\ \A home \in [Statuses -> Workflows] : Together(home) =>
                    AgreesStories(new, home, workflows, story) /\ AgreesStatuses(new, home, workflows)
    <2> DEFINE new == Planned(request[r], plan)
    <2>1. Within(plan, StoryOrders)
      OBVIOUS
    <2>2. DOMAIN plan \subseteq StoriesIn(s) /\ (target = NoStatus => DOMAIN plan = {})
      <3>1. CASE target = NoStatus
        <4>1. plan = <<>>
          BY <3>1
        <4> QED BY <4>1
      <3>2. CASE target # NoStatus
        <4>1. plan = Appended(Cards[s], Latest(StoriesIn(target), StoryOrder))
          BY <3>2
        <4> HIDE DEF plans, s, target
        <4> QED BY <1>2, <3>2, <4>1, AppendedWhom, CardsWhom
      <3> QED BY <3>1, <3>2
    <2>3. \A x \in DOMAIN plan :
            /\ target # NoStatus /\ status[target] # NoStatus /\ status[target].workflow = w
            /\ x \in StoriesOf(w)
      <3>1. ASSUME NEW x \in DOMAIN plan
            PROVE  /\ target # NoStatus /\ status[target] # NoStatus /\ status[target].workflow = w
                   /\ x \in StoriesOf(w)
        <4>1. target # NoStatus /\ x \in StoriesIn(s) /\ StoriesIn(s) # {}
          BY <2>2
        <4> QED BY <4>1
      <3> QED BY <3>1
    <2>4. /\ new.op = "delete_status" /\ new.step = "write" /\ new.args = request[r].args
          /\ new.plan = plan
      BY <1>1, PlannedFields, RequestFacts
    <2>5. \A x \in DOMAIN plan : plan[x] \in Int
      BY <2>1, InBounds, WorkflowsAssumption
    <2>6. \A x \in DOMAIN plan : x \in Stories \cap given
      BY <2>3, LiveStories
    <2>7. \A home : Together(home) => \A x \in DOMAIN plan : story[x].workflow = home[target]
      BY <1>2, <2>3, LiveStories DEF Together, AtHome
    <2> HIDE DEF new, plans
    <2>8. Decided(new, given)
      BY <2>2, <2>4, <2>5, <2>6 DEF Decided, Orders
    <2>9. \A home : Together(home) =>
            AgreesStories(new, home, workflows, story) /\ AgreesStatuses(new, home, workflows)
      BY <2>4, <2>7 DEF AgreesStories, AgreesStatuses, Is, Belong
    <2> QED BY <2>8, <2>9 DEF new
  <1> HIDE DEF plans
  <1> QED BY <1>1, <1>3, RequestFacts, DecideKeeps

LEMMA ReadCreateWorkflowKeeps ==
    ASSUME BoardIInv, NEW r \in Requests, ReadCreateWorkflow(r)
    PROVE  BoardIInv'
  <1> DEFINE plans == {plan \in {[first |-> workflows = <<>>]} : Len(workflows) < MaxNumWorkflows}
  <1>1. At(r, "create_workflow", "read") /\ Decide(r, plans)
    BY DEF ReadCreateWorkflow
  <1>2. ASSUME NEW plan \in plans
        PROVE  LET new == Planned(request[r], plan) IN
               /\ Decided(new, given)
               /\ \A home \in [Statuses -> Workflows] : Together(home) =>
                    AgreesStories(new, home, workflows, story) /\ AgreesStatuses(new, home, workflows)
    <2> DEFINE new == Planned(request[r], plan)
    <2>1. new.op = "create_workflow"
      BY <1>1, PlannedFields, RequestFacts
    <2> HIDE DEF new
    <2>2. Decided(new, given)
      BY <2>1 DEF Decided
    <2>3. \A home :
            AgreesStories(new, home, workflows, story) /\ AgreesStatuses(new, home, workflows)
      BY <2>1 DEF AgreesStories, AgreesStatuses, Is
    <2> QED BY <2>2, <2>3 DEF new
  <1> HIDE DEF plans
  <1> QED BY <1>1, <1>2, RequestFacts, DecideKeeps

LEMMA ReadDeleteWorkflowKeeps ==
    ASSUME BoardIInv, NEW r \in Requests, ReadDeleteWorkflow(r)
    PROVE  BoardIInv'
  <1> DEFINE w == request[r].args.workflow
             target == request[r].args.target
             plans == {plan \in
                IF target = NoWorkflow THEN {<<>>}
                ELSE IF target \in Range(workflows) \ {w} THEN {MigrationOrders(w, target)}
                ELSE {} :
              Within(plan, StatusOrders)}
  <1>1. At(r, "delete_workflow", "read") /\ Decide(r, plans)
    BY DEF ReadDeleteWorkflow
  <1>2. ASSUME NEW plan \in plans
        PROVE  LET new == Planned(request[r], plan) IN
               /\ Decided(new, given)
               /\ \A home \in [Statuses -> Workflows] : Together(home) =>
                    AgreesStories(new, home, workflows, story) /\ AgreesStatuses(new, home, workflows)
    <2> DEFINE new == Planned(request[r], plan)
    <2>1. Within(plan, StatusOrders)
      OBVIOUS
    <2>2. DOMAIN plan \subseteq StatusesOf(w) \cup StatusesOf(target) /\ (target = NoWorkflow => DOMAIN plan = {})
      <3>1. CASE target = NoWorkflow
        <4>1. plan = <<>>
          BY <3>1
        <4> QED BY <4>1
      <3>2. CASE target # NoWorkflow
        <4>1. plan = MigrationOrders(w, target)
          BY <3>2
        <4> HIDE DEF plans, w, target
        <4>2. DOMAIN plan \subseteq StatusesToMove(w) \cup StatusesOf(target)
          BY <4>1, MigrationWhom
        <4> QED BY <3>2, <4>2 DEF StatusesToMove
      <3> QED BY <3>1, <3>2
    <2>3. /\ new.op = "delete_workflow" /\ new.step = "write" /\ new.args = request[r].args
          /\ new.plan = plan
      BY <1>1, PlannedFields, RequestFacts
    <2>4. \A s \in DOMAIN plan : plan[s] \in Int
      BY <2>1, InBounds, WorkflowsAssumption
    <2>5. \A s \in DOMAIN plan : s \in Statuses \cap given
      BY <2>2, LiveStatuses
    <2>6. \A home : Together(home) => \A s \in DOMAIN plan : home[s] \in {w, target}
      BY <2>2, LiveStatuses
    <2> HIDE DEF new, plans
    <2>7. Decided(new, given)
      BY <2>2, <2>3, <2>4, <2>5 DEF Decided, Orders
    <2>8. \A home : Together(home) =>
            AgreesStories(new, home, workflows, story) /\ AgreesStatuses(new, home, workflows)
      BY <2>3, <2>6 DEF AgreesStories, AgreesStatuses, Is
    <2> QED BY <2>7, <2>8 DEF new
  <1> HIDE DEF plans
  <1> QED BY <1>1, <1>2, RequestFacts, DecideKeeps

LEMMA ReadKeeps ==
    ASSUME BoardIInv, NEW r \in Requests, Read(r)
    PROVE  BoardIInv'
  BY ReadCreateStoryKeeps, ReadChangeStatusKeeps, ReadChangeWorkflowKeeps, ReadReorderStoriesKeeps,
     ReadReorderStatusesKeeps, ReadDeleteStatusKeeps, ReadCreateWorkflowKeeps,
     ReadDeleteWorkflowKeeps DEF Read

-----------------------------------------------------------------------------
(* Writing.                                                                *)

LEMMA StoriesCommitKeeps ==
    ASSUME BoardIInv, NEW r \in Requests, NEW sy \in [Stories -> StoryRow \cup {NoStory}],
           CommitStories(r, sy),
           \/ \A q \in Requests \ {r} : ~Busy(q)
           \/ \A x \in Stories \cap given : sy[x] # NoStory =>
                story[x] # NoStory /\ sy[x].workflow = story[x].workflow,
           ASSUME NEW home \in [Statuses -> Workflows], Together(home),
                  NEW x \in Stories, sy[x] # NoStory, sy[x].workflow \in Range(workflows)
           PROVE  sy[x].workflow = home[sy[x].status]
    PROVE  BoardIInv'
  <1>1. Commit(r, workflows, landing, status, sy)
    BY DEF CommitStories
  <1>2. ASSUME Refers(workflows, status, sy)
        PROVE  Settled(r, workflows, status, sy)
    <2>1. PICK home \in [Statuses -> Workflows] : Together(home)
      BY DEF BoardIInv
    <2>2. AtHome(home, status, sy)
      BY <1>2, <2>1 DEF Together, AtHome, Refers
    <2>3. ASSUME NEW q \in Requests \ {r}, Busy(q)
          PROVE  Agrees(request[q], home, workflows, sy)
      <3>1. Known(request[q], given) /\ Agrees(request[q], home, workflows, story)
        BY <2>1, <2>3 DEF Together, BoardIInv, AllKnown
      <3>2. \A x \in Stories \cap given : sy[x] # NoStory =>
              story[x] # NoStory /\ sy[x].workflow = story[x].workflow
        BY <2>3
      <3> QED BY <3>1, <3>2, StillAgrees
    <2>4. Rows(workflows, status, sy)
      BY DEF BoardIInv, Rows
    <2> QED BY <2>2, <2>3, <2>4 DEF Settled
  <1> QED BY <1>1, <1>2, CommitKeeps

\* The columns of a story, moved to a status.
LEMMA MovedRow ==
    ASSUME NEW row \in StoryRow, NEW s, NEW order
    PROVE  [row EXCEPT !.status = s, !.order = order]
             = [workflow |-> row.workflow, status |-> s, order |-> order]
  <1> DEFINE first == [row EXCEPT !.status = s]
  <1>1. first = [workflow |-> row.workflow, status |-> s, order |-> row.order]
    BY DEF StoryRow
  <1>2. [row EXCEPT !.status = s, !.order = order] = [first EXCEPT !.order = order]
    OBVIOUS
  <1> HIDE DEF first
  <1> QED BY <1>1, <1>2

LEMMA MovedStory ==
    ASSUME story \in [Stories -> StoryRow \cup {NoStory}], NEW x \in Stories, story[x] # NoStory,
           NEW s, NEW order
    PROVE  [story EXCEPT ![x].status = s, ![x].order = order]
             = [story EXCEPT ![x] = [workflow |-> story[x].workflow, status |-> s, order |-> order]]
  <1> DEFINE first == [story EXCEPT ![x].status = s]
  <1>1. story[x] \in StoryRow
    OBVIOUS
  <1>2. first[x] = [story[x] EXCEPT !.status = s] /\ first = [story EXCEPT ![x] = first[x]]
    OBVIOUS
  <1>3. first[x] = [workflow |-> story[x].workflow, status |-> s, order |-> story[x].order]
    BY <1>1, <1>2 DEF StoryRow
  <1>4. [first[x] EXCEPT !.order = order]
          = [workflow |-> story[x].workflow, status |-> s, order |-> order]
    <2> DEFINE row == first[x]
    <2>1. row = [workflow |-> story[x].workflow, status |-> s, order |-> story[x].order]
      BY <1>3
    <2> HIDE DEF row
    <2>2. [row EXCEPT !.order = order]
            = [workflow |-> story[x].workflow, status |-> s, order |-> order]
      BY <2>1
    <2> QED BY <2>2 DEF row
  <1>5. [story EXCEPT ![x].status = s, ![x].order = order]
          = [first EXCEPT ![x] = [first[x] EXCEPT !.order = order]]
    OBVIOUS
  <1>6. \A row : [first EXCEPT ![x] = row] = [story EXCEPT ![x] = row]
    OBVIOUS
  <1> QED BY <1>4, <1>5, <1>6

LEMMA NewRow ==
    ASSUME NEW w \in Workflows, NEW s \in Statuses, NEW order \in Int
    PROVE  /\ [workflow |-> w, status |-> s, order |-> order] \in StoryRow
           /\ [workflow |-> w, status |-> s, order |-> order] # NoStory
           /\ [workflow |-> w, order |-> order] \in StatusRow
           /\ [workflow |-> w, order |-> order] # NoStatus
  BY RowsAssumption DEF StoryRow, StatusRow

LEMMA WriteCreateStoryKeeps ==
    ASSUME BoardIInv, NEW r \in Requests, WriteCreateStory(r)
    PROVE  BoardIInv'
  <1> DEFINE req == request[r]
             row == [workflow |-> req.args.workflow, status |-> req.plan.status, order |-> req.plan.order]
  <1>1. At(r, "create_story", "write")
    BY DEF WriteCreateStory
  <1>2. /\ req.args.workflow \in Workflows /\ req.plan.status \in Statuses /\ req.plan.order \in Int
    BY <1>1, RequestFacts DEF Loaded, Decided
  <1>3. CASE EndWithout(r)
    BY <1>3, RequestGoesOn DEF EndWithout, Finish
  <1>4. ASSUME NEW x \in FreeStories, CommitStories(r, [story EXCEPT ![x] = row])
        PROVE  BoardIInv'
    <2> DEFINE sy == [story EXCEPT ![x] = row]
    <2>1. x \in Stories \ given
      BY DEF FreeStories, Free
    <2>2. story \in [Stories -> StoryRow \cup {NoStory}]
      BY DEF BoardIInv, Rows
    <2>3. row \in StoryRow /\ row.workflow = req.args.workflow /\ row.status = req.plan.status
      BY <1>2, NewRow
    <2> HIDE DEF row
    <2>4. sy \in [Stories -> StoryRow \cup {NoStory}]
      BY <2>2, <2>3
    <2>5. sy[x] = row /\ \A y \in Stories \ {x} : sy[y] = story[y]
      BY <2>1, <2>2
    <2>6. CommitStories(r, sy)
      BY <1>4
    <2> HIDE DEF sy
    <2>7. \A y \in Stories \cap given : sy[y] # NoStory =>
            story[y] # NoStory /\ sy[y].workflow = story[y].workflow
      BY <2>1, <2>5
    <2>8. ASSUME NEW home \in [Statuses -> Workflows], Together(home),
                 NEW y \in Stories, sy[y] # NoStory, sy[y].workflow \in Range(workflows)
          PROVE  sy[y].workflow = home[sy[y].status]
      <3>1. AgreesStories(req, home, workflows, story)
        BY <1>1, <2>8, RequestFacts DEF Agrees
      <3>2. req.op = "create_story" /\ req.step = "write"
        BY <1>1, RequestFacts
      <3>3. CASE y = x
        BY <2>3, <2>5, <2>8, <3>1, <3>2, <3>3 DEF AgreesStories
      <3>4. CASE y # x
        BY <2>5, <2>8, <3>4 DEF Together, AtHome
      <3> QED BY <3>3, <3>4
    <2> QED BY <2>4, <2>6, <2>7, <2>8, StoriesCommitKeeps
  <1> QED BY <1>3, <1>4 DEF WriteCreateStory

LEMMA WriteChangeStatusKeeps ==
    ASSUME BoardIInv, NEW r \in Requests, WriteChangeStatus(r)
    PROVE  BoardIInv'
  <1> DEFINE req == request[r]
             x == req.args.story
             row == [workflow |-> story[x].workflow, status |-> req.plan.status, order |-> req.plan.order]
             sy == IF story[x] = NoStory THEN story ELSE [story EXCEPT ![x] = row]
  <1>1. At(r, "change_status", "write")
    BY DEF WriteChangeStatus
  <1>2. /\ x \in Stories /\ req.plan.status \in Statuses /\ req.plan.order \in Int
        /\ req.op = "change_status" /\ req.step = "write"
    BY <1>1, RequestFacts DEF Loaded, Decided
  <1>3. story \in [Stories -> StoryRow \cup {NoStory}]
    BY DEF BoardIInv, Rows
  <1>4. CommitStories(r, sy)
    BY <1>2, <1>3, MovedStory DEF WriteChangeStatus
  <1>5. story[x] # NoStory => row \in StoryRow
    BY <1>2, NewRow, RowFacts DEF StoryRow
  <1>6. sy \in [Stories -> StoryRow \cup {NoStory}]
    BY <1>3, <1>5
  <1>7. /\ \A y \in Stories \ {x} : sy[y] = story[y]
        /\ sy[x] # NoStory => story[x] # NoStory /\ sy[x] = row
    BY <1>2, <1>3
  <1>8. row.workflow = story[x].workflow /\ row.status = req.plan.status
    OBVIOUS
  <1> HIDE DEF sy, row
  <1>9. \A y \in Stories \cap given : sy[y] # NoStory =>
          story[y] # NoStory /\ sy[y].workflow = story[y].workflow
    BY <1>7, <1>8
  <1>10. ASSUME NEW home \in [Statuses -> Workflows], Together(home),
                NEW y \in Stories, sy[y] # NoStory, sy[y].workflow \in Range(workflows)
         PROVE  sy[y].workflow = home[sy[y].status]
    <2>1. Belong({x}, req.plan.status, home, story)
      BY <1>1, <1>2, <1>10, RequestFacts DEF Agrees, AgreesStories, Is
    <2>2. CASE y = x
      BY <1>2, <1>7, <1>8, <1>10, <2>1, <2>2 DEF Belong
    <2>3. CASE y # x
      BY <1>7, <1>10, <2>3 DEF Together, AtHome
    <2> QED BY <2>2, <2>3
  <1> QED BY <1>4, <1>6, <1>9, <1>10, StoriesCommitKeeps

LEMMA WriteChangeWorkflowKeeps ==
    ASSUME BoardIInv, Uncontested, NEW r \in Requests, WriteChangeWorkflow(r)
    PROVE  BoardIInv'
  <1> DEFINE req == request[r]
             x == req.args.story
             row == [workflow |-> req.args.workflow, status |-> req.plan.status, order |-> req.plan.order]
             sy == IF story[x] = NoStory THEN story ELSE [story EXCEPT ![x] = row]
  <1>1. At(r, "change_workflow", "write") /\ CommitStories(r, sy)
    BY DEF WriteChangeWorkflow
  <1>2. /\ x \in Stories /\ req.plan.status \in Statuses /\ req.plan.order \in Int
        /\ req.args.workflow \in Workflows /\ Busy(r)
        /\ req.op = "change_workflow" /\ req.step = "write"
    BY <1>1, RequestFacts DEF Loaded, Decided
  <1>3. story \in [Stories -> StoryRow \cup {NoStory}]
    BY DEF BoardIInv, Rows
  <1>4. row \in StoryRow /\ row.workflow = req.args.workflow /\ row.status = req.plan.status
    BY <1>2, NewRow
  <1> HIDE DEF row
  <1>5. sy \in [Stories -> StoryRow \cup {NoStory}]
    BY <1>3, <1>4
  <1>6. /\ \A y \in Stories \ {x} : sy[y] = story[y]
        /\ sy[x] # NoStory => sy[x] = row
    BY <1>2, <1>3
  <1> HIDE DEF sy
  <1>7. \A q \in Requests \ {r} : ~Busy(q)
    BY <1>2 DEF Uncontested
  <1>8. ASSUME NEW home \in [Statuses -> Workflows], Together(home),
               NEW y \in Stories, sy[y] # NoStory, sy[y].workflow \in Range(workflows)
        PROVE  sy[y].workflow = home[sy[y].status]
    <2>1. AgreesStories(req, home, workflows, story)
      BY <1>1, <1>8, RequestFacts DEF Agrees
    <2>2. CASE y = x
      BY <1>2, <1>4, <1>6, <1>8, <2>1, <2>2 DEF AgreesStories
    <2>3. CASE y # x
      BY <1>6, <1>8, <2>3 DEF Together, AtHome
    <2> QED BY <2>2, <2>3
  <1> QED BY <1>1, <1>5, <1>7, <1>8, StoriesCommitKeeps

LEMMA DeleteLoadedStoryKeeps ==
    ASSUME BoardIInv, NEW r \in Requests, DeleteLoadedStory(r)
    PROVE  BoardIInv'
  <1> DEFINE x == request[r].args.story
             sy == [story EXCEPT ![x] = NoStory]
  <1>1. story \in [Stories -> StoryRow \cup {NoStory}]
    BY DEF BoardIInv, Rows
  <1>2. /\ CommitStories(r, sy) /\ sy \in [Stories -> StoryRow \cup {NoStory}]
        /\ \A y \in Stories : sy[y] # NoStory => sy[y] = story[y]
    BY <1>1 DEF DeleteLoadedStory
  <1> HIDE DEF sy
  <1>3. \A home : Together(home) =>
          \A y \in Stories : sy[y] # NoStory => sy[y].workflow = home[sy[y].status]
    BY <1>2 DEF Together, AtHome
  <1>4. \A y \in Stories \cap given : sy[y] # NoStory =>
          story[y] # NoStory /\ sy[y].workflow = story[y].workflow
    BY <1>2
  <1> QED BY <1>2, <1>3, <1>4, StoriesCommitKeeps

LEMMA StoriesMovedRows ==
    ASSUME BoardIInv, NEW s, NEW orders, Orders(orders, Stories \cap given),
           DOMAIN orders # {} => s \in Statuses, NEW x \in Stories
    PROVE  /\ StoriesMoved(s, orders)[x] \in StoryRow \cup {NoStory}
           /\ StoriesMoved(s, orders)[x] # NoStory =>
                /\ story[x] # NoStory
                /\ StoriesMoved(s, orders)[x].workflow = story[x].workflow
                /\ x \in DOMAIN orders => StoriesMoved(s, orders)[x].status = s
                /\ x \notin DOMAIN orders => StoriesMoved(s, orders)[x].status = story[x].status
  <1> DEFINE row == StoriesMoved(s, orders)[x]
  <1>1. CASE x \in DOMAIN orders /\ story[x] # NoStory
    <2>1. story[x] \in StoryRow /\ story[x].workflow \in Workflows
      BY <1>1, RowFacts DEF StoryRow
    <2>2. row = [workflow |-> story[x].workflow, status |-> s, order |-> orders[x]]
      BY <1>1, <2>1, MovedRow DEF StoriesMoved
    <2>3. orders[x] \in Int /\ s \in Statuses
      BY <1>1 DEF Orders
    <2>4. row \in StoryRow
      BY <2>1, <2>2, <2>3, NewRow
    <2>5. row.workflow = story[x].workflow /\ row.status = s
      BY <2>2
    <2> HIDE DEF row
    <2> QED BY <1>1, <2>4, <2>5 DEF row
  <1>2. CASE ~(x \in DOMAIN orders /\ story[x] # NoStory)
    <2>1. row = story[x]
      BY <1>2 DEF StoriesMoved
    <2> QED BY <1>2, <2>1 DEF BoardIInv, Rows
  <1> QED BY <1>1, <1>2

LEMMA StoriesMovedFacts ==
    ASSUME BoardIInv, NEW s, NEW orders, Orders(orders, Stories \cap given),
           DOMAIN orders # {} => s \in Statuses, NEW moved, moved = StoriesMoved(s, orders)
    PROVE  /\ moved \in [Stories -> StoryRow \cup {NoStory}]
           /\ \A x \in Stories : moved[x] # NoStory =>
                /\ story[x] # NoStory /\ moved[x].workflow = story[x].workflow
                /\ x \in DOMAIN orders => moved[x].status = s
                /\ x \notin DOMAIN orders => moved[x].status = story[x].status
  <1>1. moved = [x \in Stories |-> moved[x]]
    BY DEF StoriesMoved
  <1> QED BY <1>1, StoriesMovedRows

LEMMA WriteReorderStoriesKeeps ==
    ASSUME BoardIInv, NEW r \in Requests, WriteReorderStories(r)
    PROVE  BoardIInv'
  <1>1. PICK s, plan, sy : /\ s = request[r].args.status /\ plan = request[r].plan
                           /\ sy = StoriesMoved(s, plan)
    OBVIOUS
  <1>2. At(r, "reorder_stories", "write") /\ CommitStories(r, sy)
    BY <1>1 DEF WriteReorderStories
  <1>3. /\ s \in Statuses /\ Orders(plan, Stories \cap given)
        /\ Is(request[r], "reorder_stories", "write")
    BY <1>1, <1>2, RequestFacts DEF Loaded, Decided, Is
  <1>4. /\ sy \in [Stories -> StoryRow \cup {NoStory}]
        /\ \A x \in Stories : sy[x] # NoStory =>
             /\ story[x] # NoStory /\ sy[x].workflow = story[x].workflow
             /\ x \in DOMAIN plan => sy[x].status = s
             /\ x \notin DOMAIN plan => sy[x].status = story[x].status
    <2>1. Orders(plan, Stories \cap given) /\ (DOMAIN plan # {} => s \in Statuses)
      BY <1>3
    <2>2. sy = StoriesMoved(s, plan)
      BY <1>1
    <2> QED BY ONLY BoardIInv, <2>1, <2>2, StoriesMovedFacts, SMTT(30)
  <1>5. ASSUME NEW home \in [Statuses -> Workflows], Together(home),
               NEW x \in Stories, sy[x] # NoStory, sy[x].workflow \in Range(workflows)
        PROVE  sy[x].workflow = home[sy[x].status]
    <2>1. Belong(DOMAIN plan, s, home, story)
      BY <1>1, <1>2, <1>3, <1>5, RequestFacts DEF Agrees, AgreesStories
    <2>2. story[x] # NoStory => story[x].workflow = home[story[x].status]
      BY <1>5 DEF Together, AtHome
    <2> QED BY <1>4, <1>5, <2>1, <2>2 DEF Belong
  <1>6. \A x \in Stories \cap given : sy[x] # NoStory =>
          story[x] # NoStory /\ sy[x].workflow = story[x].workflow
    BY <1>4
  <1> QED BY <1>2, <1>4, <1>5, <1>6, StoriesCommitKeeps

\* A request that changes no story, and gives a workflow to new statuses only.
LEMMA StatusesCommitKeeps ==
    ASSUME BoardIInv, NEW r \in Requests, NEW ws, NEW land,
           NEW st \in [Statuses -> StatusRow \cup {NoStatus}], Commit(r, ws, land, st, story),
           ws \in Seq(Workflows), \A i, j \in DOMAIN ws : ws[i] = ws[j] => i = j,
           \A w \in Workflows \cap given : w \in Range(ws) => w \in Range(workflows),
           ASSUME NEW home \in [Statuses -> Workflows], Together(home), Refers(ws, st, story)
           PROVE  \E home2 \in [Statuses -> Workflows] :
                    /\ \A s \in Statuses \cap given : home2[s] = home[s]
                    /\ \A s \in Statuses : st[s] # NoStatus => st[s].workflow = home2[s]
    PROVE  BoardIInv'
  <1>1. ASSUME Refers(ws, st, story)
        PROVE  Settled(r, ws, st, story)
    <2>1. PICK home \in [Statuses -> Workflows] : Together(home)
      BY DEF BoardIInv
    <2>2. PICK home2 \in [Statuses -> Workflows] :
                    /\ \A s \in Statuses \cap given : home2[s] = home[s]
                    /\ \A s \in Statuses : st[s] # NoStatus => st[s].workflow = home2[s]
      BY <1>1, <2>1
    <2>3. \A x \in Stories : story[x] # NoStory => story[x].workflow = home2[story[x].status]
      <3>1. \A x \in Stories : story[x] # NoStory => story[x].status \in Statuses \cap given
        BY RowFacts
      <3> QED BY <2>1, <2>2, <3>1 DEF Together, AtHome
    <2>4. AtHome(home2, st, story)
      BY <2>2, <2>3 DEF AtHome
    <2>5. ASSUME NEW q \in Requests \ {r}, Busy(q)
          PROVE  Agrees(request[q], home2, ws, story)
      <3>1. Known(request[q], given) /\ Agrees(request[q], home, workflows, story)
        BY <2>1, <2>5 DEF Together, BoardIInv, AllKnown
      <3>2. \A x \in Stories \cap given : story[x] # NoStory =>
              story[x] # NoStory /\ story[x].workflow = story[x].workflow
        OBVIOUS
      <3> QED BY <2>2, <3>1, <3>2, StillAgrees
    <2>6. Rows(ws, st, story)
      BY DEF BoardIInv, Rows
    <2> QED BY <2>4, <2>5, <2>6 DEF Settled
  <1> QED BY <1>1, CommitKeeps

LEMMA WorkflowsAreKnown ==
    ASSUME BoardIInv
    PROVE  /\ workflows \in Seq(Workflows)
           /\ \A i, j \in DOMAIN workflows : workflows[i] = workflows[j] => i = j
           /\ status \in [Statuses -> StatusRow \cup {NoStatus}]
           /\ story \in [Stories -> StoryRow \cup {NoStory}]
  BY DEF BoardIInv, Rows

LEMMA StatusesMovedFacts ==
    ASSUME BoardIInv, NEW w, NEW orders, Orders(orders, Statuses \cap given),
           DOMAIN orders # {} => w \in Workflows, NEW moved, moved = StatusesMoved(w, orders)
    PROVE  /\ moved \in [Statuses -> StatusRow \cup {NoStatus}]
           /\ \A s \in Statuses : moved[s] # NoStatus => status[s] # NoStatus
           /\ \A s \in Statuses : s \in DOMAIN orders /\ status[s] # NoStatus =>
                moved[s] # NoStatus /\ moved[s].workflow = w
           /\ \A s \in Statuses : s \notin DOMAIN orders => moved[s] = status[s]
  <1>1. ASSUME NEW s \in Statuses, s \in DOMAIN orders, status[s] # NoStatus
        PROVE  moved[s] \in StatusRow /\ moved[s] # NoStatus /\ moved[s].workflow = w
    <2>1. moved[s] = [workflow |-> w, order |-> orders[s]]
      BY <1>1 DEF StatusesMoved
    <2>2. w \in Workflows /\ orders[s] \in Int
      BY <1>1 DEF Orders
    <2>3. moved[s] \in StatusRow /\ moved[s] # NoStatus
      BY <2>1, <2>2, RowsAssumption DEF StatusRow
    <2> QED BY <2>1, <2>3
  <1>2. \A s \in Statuses : s \notin DOMAIN orders \/ status[s] = NoStatus => moved[s] = status[s]
    BY DEF StatusesMoved
  <1>3. moved = [s \in Statuses |-> moved[s]]
    BY DEF StatusesMoved
  <1>4. \A s \in Statuses : moved[s] \in StatusRow \cup {NoStatus}
    BY <1>1, <1>2, WorkflowsAreKnown
  <1> QED BY <1>1, <1>2, <1>3, <1>4

LEMMA WriteReorderStatusesKeeps ==
    ASSUME BoardIInv, NEW r \in Requests, WriteReorderStatuses(r)
    PROVE  BoardIInv'
  <1>1. PICK w, plan, st : /\ w = request[r].args.workflow /\ plan = request[r].plan
                           /\ st = StatusesMoved(w, plan)
    OBVIOUS
  <1>2. At(r, "reorder_statuses", "write") /\ Commit(r, workflows, landing, st, story)
    BY <1>1 DEF WriteReorderStatuses, CommitStatuses
  <1>3. /\ w \in Workflows /\ Orders(plan, Statuses \cap given)
        /\ Is(request[r], "reorder_statuses", "write")
    BY <1>1, <1>2, RequestFacts DEF Loaded, Decided, Is
  <1>4. /\ st \in [Statuses -> StatusRow \cup {NoStatus}]
        /\ \A s \in Statuses : st[s] # NoStatus => status[s] # NoStatus
        /\ \A s \in Statuses : s \in DOMAIN plan /\ status[s] # NoStatus =>
             st[s] # NoStatus /\ st[s].workflow = w
        /\ \A s \in Statuses : s \notin DOMAIN plan => st[s] = status[s]
    <2>1. Orders(plan, Statuses \cap given) /\ (DOMAIN plan # {} => w \in Workflows)
      BY <1>3
    <2>2. st = StatusesMoved(w, plan)
      BY <1>1
    <2> QED BY ONLY BoardIInv, <2>1, <2>2, StatusesMovedFacts, SMTT(30)
  <1>5. ASSUME NEW home \in [Statuses -> Workflows], Together(home),
               Refers(workflows, st, story), NEW s \in Statuses, st[s] # NoStatus
        PROVE  st[s].workflow = home[s]
    <2>1. CASE s \in DOMAIN plan
      <3>1. st[s].workflow = w /\ w \in Range(workflows)
        BY <1>4, <1>5, <2>1 DEF Refers
      <3>2. AgreesStatuses(request[r], home, workflows)
        BY <1>2, <1>5, RequestFacts DEF Agrees
      <3> QED BY <1>1, <1>3, <2>1, <3>1, <3>2 DEF AgreesStatuses
    <2>2. CASE s \notin DOMAIN plan
      BY <1>4, <1>5, <2>2 DEF Together, AtHome
    <2> QED BY <2>1, <2>2
  <1> QED BY <1>2, <1>4, <1>5, WorkflowsAreKnown, StatusesCommitKeeps

LEMMA InsertStatusKeeps ==
    ASSUME BoardIInv, NEW r \in Requests, InsertStatus(r)
    PROVE  BoardIInv'
  <1> DEFINE w == request[r].args.workflow
             order == NextOrder(Latest(StatusesOf(w), StatusOrder))
             free == {s \in FreeStatuses : order \in StatusOrders}
             row == [workflow |-> w, order |-> order]
  <1>1. At(r, "create_status", "read")
    BY DEF InsertStatus
  <1>2. w \in Workflows
    BY <1>1, RequestFacts DEF Loaded
  <1>3. CASE EndWithout(r)
    BY <1>3, RequestGoesOn DEF EndWithout, Finish
  <1>4. ASSUME NEW s \in free, Commit(r, workflows, landing, [status EXCEPT ![s] = row], story)
        PROVE  BoardIInv'
    <2> DEFINE st == [status EXCEPT ![s] = row]
    <2>1. s \in Statuses \ given /\ order \in Int
      BY WorkflowsAssumption DEF FreeStatuses, Free
    <2> HIDE DEF order, w
    <2>2. row \in StatusRow /\ row.workflow = w
      BY <1>2, <2>1 DEF StatusRow
    <2> HIDE DEF row
    <2>3. st \in [Statuses -> StatusRow \cup {NoStatus}]
      BY <2>2, WorkflowsAreKnown
    <2>4. st[s] = row /\ \A t \in Statuses \ {s} : st[t] = status[t]
      BY <2>1, WorkflowsAreKnown
    <2>5. Commit(r, workflows, landing, st, story)
      BY <1>4
    <2> HIDE DEF st
    <2>6. ASSUME NEW home \in [Statuses -> Workflows], Together(home)
          PROVE  \E home2 \in [Statuses -> Workflows] :
                    /\ \A t \in Statuses \cap given : home2[t] = home[t]
                    /\ \A t \in Statuses : st[t] # NoStatus => st[t].workflow = home2[t]
      <3> DEFINE home2 == [home EXCEPT ![s] = w]
      <3>1. home2 \in [Statuses -> Workflows] /\ home2[s] = w
            /\ \A t \in Statuses \ {s} : home2[t] = home[t]
        BY <1>2, <2>1
      <3> HIDE DEF home2
      <3>2. \A t \in Statuses \cap given : home2[t] = home[t]
        BY <2>1, <3>1
      <3>3. \A t \in Statuses : st[t] # NoStatus => st[t].workflow = home2[t]
        BY <2>2, <2>4, <2>6, <3>1 DEF Together, AtHome
      <3> QED BY <3>1, <3>2, <3>3
    <2> QED BY <2>3, <2>5, <2>6, WorkflowsAreKnown, StatusesCommitKeeps
  <1> QED BY <1>3, <1>4 DEF InsertStatus, CommitStatuses

LEMMA SaveStatusKeeps ==
    ASSUME BoardIInv, NEW r \in Requests, SaveStatus(r)
    PROVE  BoardIInv'
  <1>1. PICK s, row : s = request[r].args.status /\ row = request[r].row
    OBVIOUS
  <1> DEFINE st == [status EXCEPT ![s] = row]
  <1>2. At(r, "update_status", "read") /\ Commit(r, workflows, landing, st, story)
    BY <1>1 DEF SaveStatus, CommitStatuses
  <1>3. s \in Statuses /\ row \in StatusRow /\ request[r].op = "update_status"
    BY <1>1, <1>2, RequestFacts DEF Loaded
  <1>4. /\ st \in [Statuses -> StatusRow \cup {NoStatus}]
        /\ st[s] = row /\ \A t \in Statuses \ {s} : st[t] = status[t]
    BY <1>3, WorkflowsAreKnown
  <1> HIDE DEF st
  <1>5. ASSUME NEW home \in [Statuses -> Workflows], Together(home),
               Refers(workflows, st, story), NEW t \in Statuses, st[t] # NoStatus
        PROVE  st[t].workflow = home[t]
    <2>1. CASE t = s
      <3>1. row.workflow \in Range(workflows)
        BY <1>4, <1>5, <2>1 DEF Refers
      <3>2. AgreesRead(request[r], home, workflows, story)
        BY <1>2, <1>5, RequestFacts DEF Agrees
      <3> QED BY <1>1, <1>3, <1>4, <2>1, <3>1, <3>2 DEF AgreesRead
    <2>2. CASE t # s
      BY <1>4, <1>5, <2>2 DEF Together, AtHome
    <2> QED BY <2>1, <2>2
  <1> QED BY <1>2, <1>4, <1>5, WorkflowsAreKnown, StatusesCommitKeeps

LEMMA FreeTemplates ==
    ASSUME NEW ids \in SetToAllKPermutations(FreeStatuses)
    PROVE  /\ ids \in SetToAllKPermutations(Statuses)
           /\ \A s \in Range(ids) : s \in Statuses \ given
  <1>1. FreeStatuses \subseteq Statuses \ given
    BY DEF FreeStatuses, Free
  <1>2. PICK T \in SUBSET FreeStatuses : ids \in SetToSeqs(T)
    BY DEF SetToAllKPermutations
  <1>3. T \in SUBSET Statuses
    BY <1>1
  <1>4. ids \in [1 .. Cardinality(T) -> T]
    BY <1>2 DEF SetToSeqs
  <1>5. Range(ids) \subseteq T
    BY <1>4 DEF Range
  <1> QED BY <1>1, <1>2, <1>3, <1>5 DEF SetToAllKPermutations

LEMMA WriteCreateWorkflowKeeps ==
    ASSUME BoardIInv, NEW r \in Requests, WriteCreateWorkflow(r)
    PROVE  BoardIInv'
  <1>1. CASE EndWithout(r)
    BY <1>1, RequestGoesOn DEF EndWithout, Finish
  <1>2. ASSUME NEW w \in Workflows \ given, NEW ids \in SetToAllKPermutations(FreeStatuses), NEW land,
               Commit(r, Append(workflows, w), land,
                 [s \in Statuses |->
                    IF s \in Range(ids)
                    THEN [workflow |-> w, order |-> CHOOSE k \in 1 .. Len(ids) : ids[k] = s]
                    ELSE status[s]],
                 story)
        PROVE  BoardIInv'
    <2> DEFINE at(s) == CHOOSE k \in 1 .. Len(ids) : ids[k] = s
               ws == Append(workflows, w)
    <2>1. PICK st : st = [s \in Statuses |->
                            IF s \in Range(ids) THEN [workflow |-> w, order |-> at(s)] ELSE status[s]]
      OBVIOUS
    <2>2. /\ \A s \in Range(ids) : at(s) \in Int /\ s \in Statuses \ given
      BY TemplateFacts, FreeTemplates
    <2>3. Commit(r, ws, land, st, story)
      BY <1>2, <2>1
    <2> HIDE DEF at
    <2>4. ASSUME NEW s \in Range(ids) PROVE st[s] \in StatusRow /\ st[s].workflow = w
      <3>1. st[s] = [workflow |-> w, order |-> at(s)]
        BY <2>1, <2>2
      <3> QED BY <2>2, <3>1 DEF StatusRow
    <2>5. \A s \in Statuses : s \notin Range(ids) => st[s] = status[s]
      BY <2>1
    <2>6. st \in [Statuses -> StatusRow \cup {NoStatus}]
      <3>1. \A s \in Statuses : st[s] \in StatusRow \cup {NoStatus}
        BY <2>4, <2>5, WorkflowsAreKnown
      <3>2. st = [s \in Statuses |-> st[s]]
        BY <2>1
      <3> QED BY <3>1, <3>2
    <2>7. w \notin Range(workflows)
      BY RowFacts
    <2>8. /\ ws \in Seq(Workflows)
          /\ \A v \in Range(ws) : v = w \/ v \in Range(workflows)
          /\ \A i, j \in DOMAIN ws : ws[i] = ws[j] => i = j
      <3>1. ws \in Seq(Workflows) /\ Len(ws) = Len(workflows) + 1 /\ Len(workflows) \in Nat
        BY WorkflowsAreKnown
      <3>2. \A i \in 1 .. Len(ws) : ws[i] = IF i <= Len(workflows) THEN workflows[i] ELSE w
        BY WorkflowsAreKnown
      <3>3. \A i \in 1 .. Len(workflows) : workflows[i] \in Range(workflows)
        BY WorkflowsAreKnown DEF Range
      <3>4. DOMAIN ws = 1 .. Len(ws) /\ DOMAIN workflows = 1 .. Len(workflows)
        BY <3>1, WorkflowsAreKnown
      <3> HIDE DEF ws
      <3>5. \A v \in Range(ws) : v = w \/ v \in Range(workflows)
        BY <3>1, <3>2, <3>3, <3>4 DEF Range
      <3>6. ASSUME NEW i \in DOMAIN ws, NEW j \in DOMAIN ws, ws[i] = ws[j]
            PROVE  i = j
        <4>1. CASE i <= Len(workflows) /\ j <= Len(workflows)
          BY <3>1, <3>2, <3>4, <3>6, <4>1, WorkflowsAreKnown
        <4>2. CASE ~(i <= Len(workflows)) /\ ~(j <= Len(workflows))
          BY <3>1, <3>4, <4>2
        <4>3. CASE i <= Len(workflows) /\ ~(j <= Len(workflows))
          <5>1. ws[i] \in Range(workflows) /\ ws[j] = w
            BY <3>1, <3>2, <3>3, <3>4, <4>3
          <5> QED BY <2>7, <3>6, <5>1
        <4>4. CASE ~(i <= Len(workflows)) /\ j <= Len(workflows)
          <5>1. ws[j] \in Range(workflows) /\ ws[i] = w
            BY <3>1, <3>2, <3>3, <3>4, <4>4
          <5> QED BY <2>7, <3>6, <5>1
        <4> QED BY <4>1, <4>2, <4>3, <4>4
      <3> QED BY <3>1, <3>5, <3>6
    <2> HIDE DEF ws
    <2>9. \A v \in Workflows \cap given : v \in Range(ws) => v \in Range(workflows)
      BY <2>8
    <2>10. ASSUME NEW home \in [Statuses -> Workflows], Together(home)
           PROVE  \E home2 \in [Statuses -> Workflows] :
                    /\ \A s \in Statuses \cap given : home2[s] = home[s]
                    /\ \A s \in Statuses : st[s] # NoStatus => st[s].workflow = home2[s]
      <3>1. PICK home2 : home2 = [s \in Statuses |-> IF s \in Range(ids) THEN w ELSE home[s]]
        OBVIOUS
      <3>2. home2 \in [Statuses -> Workflows]
        BY <3>1
      <3>3. \A s \in Statuses \cap given : home2[s] = home[s]
        BY <2>2, <3>1
      <3>4. \A s \in Statuses : st[s] # NoStatus => st[s].workflow = home2[s]
        BY <2>4, <2>5, <2>10, <3>1 DEF Together, AtHome
      <3> QED BY <3>2, <3>3, <3>4
    <2> QED BY <2>3, <2>6, <2>8, <2>9, <2>10, StatusesCommitKeeps
  <1> QED BY <1>1, <1>2 DEF WriteCreateWorkflow

LEMMA WriteDeleteStatusKeeps ==
    ASSUME BoardIInv, NEW r \in Requests, WriteDeleteStatus(r)
    PROVE  BoardIInv'
  <1>1. PICK s, target, plan, moved :
          /\ s = request[r].args.status /\ target = request[r].args.target
          /\ plan = request[r].plan /\ moved = StoriesMoved(target, plan)
    OBVIOUS
  <1>2. PICK st, sy :
          /\ st = [status EXCEPT ![s] = NoStatus]
          /\ sy = [x \in Stories |->
                     IF moved[x] # NoStory /\ moved[x].status = s THEN NoStory ELSE moved[x]]
    OBVIOUS
  <1>3. At(r, "delete_status", "write") /\ Commit(r, workflows, landing, st, sy)
    BY <1>1, <1>2 DEF WriteDeleteStatus
  <1>4. /\ s \in Statuses /\ Orders(plan, Stories \cap given)
        /\ DOMAIN plan # {} => target \in Statuses
        /\ Is(request[r], "delete_status", "write")
    BY <1>1, <1>3, RequestFacts DEF Loaded, Decided, Is
  <1>5. /\ moved \in [Stories -> StoryRow \cup {NoStory}]
        /\ \A x \in Stories : moved[x] # NoStory =>
             /\ story[x] # NoStory /\ moved[x].workflow = story[x].workflow
             /\ x \in DOMAIN plan => moved[x].status = target
             /\ x \notin DOMAIN plan => moved[x].status = story[x].status
    <2>1. moved = StoriesMoved(target, plan)
      BY <1>1
    <2> QED BY ONLY BoardIInv, <1>4, <2>1, StoriesMovedFacts, SMTT(30)
  <1>6. /\ sy \in [Stories -> StoryRow \cup {NoStory}]
        /\ \A x \in Stories : sy[x] # NoStory => sy[x] = moved[x] /\ moved[x] # NoStory
    BY <1>2, <1>5
  <1>7. /\ st \in [Statuses -> StatusRow \cup {NoStatus}]
        /\ \A t \in Statuses : st[t] # NoStatus => st[t] = status[t]
    BY <1>2, <1>4, WorkflowsAreKnown
  <1>8. Settled(r, workflows, st, sy)
    <2>1. PICK home \in [Statuses -> Workflows] : Together(home)
      BY DEF BoardIInv
    <2>2. Belong(DOMAIN plan, target, home, story)
      BY <1>1, <1>3, <1>4, <2>1, RequestFacts DEF Agrees, AgreesStories
    <2>3. ASSUME NEW x \in Stories, sy[x] # NoStory
          PROVE  sy[x].workflow = home[sy[x].status]
      <3>1. story[x] # NoStory => story[x].workflow = home[story[x].status]
        BY <2>1 DEF Together, AtHome
      <3> QED BY <1>5, <1>6, <2>2, <2>3, <3>1 DEF Belong
    <2>4. AtHome(home, st, sy)
      BY <1>7, <2>1, <2>3 DEF Together, AtHome
    <2>5. \A x \in Stories \cap given : sy[x] # NoStory =>
            story[x] # NoStory /\ sy[x].workflow = story[x].workflow
      BY <1>5, <1>6
    <2>6. ASSUME NEW q \in Requests \ {r}, Busy(q)
          PROVE  Agrees(request[q], home, workflows, sy)
      <3>1. Known(request[q], given) /\ Agrees(request[q], home, workflows, story)
        BY <2>1, <2>6 DEF Together, BoardIInv, AllKnown
      <3> QED BY <2>5, <3>1, StillAgrees
    <2>7. Rows(workflows, st, sy)
      BY <1>6, <1>7, WorkflowsAreKnown DEF Rows
    <2> QED BY <2>4, <2>6, <2>7 DEF Settled
  <1> QED BY <1>3, <1>8, CommitKeeps

LEMMA LeftFacts ==
    ASSUME BoardIInv, NEW w, NEW left,
           w \in Range(workflows) => left = WorkflowsWithout(w),
           w \notin Range(workflows) => left = workflows
    PROVE  /\ left \in Seq(Workflows)
           /\ \A i, j \in DOMAIN left : left[i] = left[j] => i = j
           /\ \A v \in Range(left) : v # w /\ v \in Range(workflows)
  <1>1. CASE w \notin Range(workflows)
    BY <1>1, WorkflowsAreKnown
  <1>2. CASE w \in Range(workflows)
    <2> DEFINE n == Len(workflows)
    <2>1. n \in Nat /\ DOMAIN workflows = 1 .. n
      BY WorkflowsAreKnown
    <2>2. left = WorkflowsWithout(w)
      BY <1>2
    <2>3. left \in Seq(Workflows) /\ Len(left) = n - 1
      BY <1>2, <2>2, WorkflowsAreKnown, WorkflowsWithoutFacts
    <2>4. PICK i \in 1 .. n :
            /\ workflows[i] = w
            /\ \A k \in 1 .. (i - 1) : left[k] = workflows[k]
            /\ \A k \in (i + 1) .. n : left[k - 1] = workflows[k]
      BY <1>2, <2>2, WorkflowsAreKnown, WorkflowsWithoutFacts
    <2> HIDE DEF n
    <2>5. DOMAIN left = 1 .. (n - 1)
      <3>1. DOMAIN left = 1 .. Len(left)
        BY <2>3
      <3> QED BY <2>3, <3>1
    <2> DEFINE at(k) == IF k < i THEN k ELSE k + 1
    <2>6. ASSUME NEW k \in 1 .. (n - 1)
          PROVE  at(k) \in 1 .. n /\ at(k) # i /\ left[k] = workflows[at(k)]
      <3>1. CASE k < i
        <4>1. k \in 1 .. (i - 1) /\ k \in 1 .. n
          BY <2>1, <2>4, <3>1
        <4> QED BY <2>4, <3>1, <4>1
      <3>2. CASE ~(k < i)
        <4>1. k + 1 \in (i + 1) .. n /\ (k + 1) - 1 = k /\ k + 1 \in 1 .. n /\ k + 1 # i
          BY <2>1, <2>4, <3>2
        <4>2. left[(k + 1) - 1] = workflows[k + 1]
          BY <2>4, <4>1
        <4> QED BY <3>2, <4>1, <4>2
      <3> QED BY <3>1, <3>2
    <2>7. \A j, k \in 1 .. (n - 1) : at(j) = at(k) => j = k
      BY <2>1, <2>4
    <2> HIDE DEF at
    <2>8. \A j, k \in 1 .. n : workflows[j] = workflows[k] => j = k
      BY <2>1, WorkflowsAreKnown
    <2>9. ASSUME NEW j \in DOMAIN left, NEW k \in DOMAIN left, left[j] = left[k]
          PROVE  j = k
      <3>1. at(j) \in 1 .. n /\ at(k) \in 1 .. n /\ workflows[at(j)] = workflows[at(k)]
        BY <2>5, <2>6, <2>9
      <3>2. at(j) = at(k)
        BY <2>8, <3>1
      <3> QED BY <2>5, <2>7, <3>2
    <2>10. \A v \in Range(left) : v # w /\ v \in Range(workflows)
      <3>1. ASSUME NEW k \in 1 .. (n - 1)
            PROVE  left[k] # w /\ left[k] \in Range(workflows)
        <4>1. at(k) \in 1 .. n /\ at(k) # i /\ left[k] = workflows[at(k)]
          BY <2>6
        <4> QED BY <2>1, <2>4, <2>8, <4>1 DEF Range
      <3> QED BY <2>5, <3>1 DEF Range
    <2> QED BY <2>3, <2>9, <2>10
  <1> QED BY <1>1, <1>2

\* What was at home in w is at home in target, with its stories, and w is gone.
Migrated(home, home2, ws, ws2, sy, sy2, w, target) ==
    /\ \A s \in Statuses : home[s] = w => home2[s] = target
    /\ \A s \in Statuses : home[s] # w => home2[s] = home[s]
    /\ \A v \in Range(ws2) : v # w /\ v \in Range(ws)
    /\ \A x \in Stories : sy2[x] # NoStory =>
         /\ sy[x] # NoStory
         /\ sy[x].workflow = w => sy2[x].workflow = target
         /\ sy[x].workflow # w => sy2[x].workflow = sy[x].workflow

LEMMA AgreesAfterMigration ==
    ASSUME NEW req, NEW known, Known(req, known), NEW home, NEW ws, NEW sy,
           Agrees(req, home, ws, sy), NEW ws2, NEW sy2, NEW w, NEW target, NEW home2,
           Migrated(home, home2, ws, ws2, sy, sy2, w, target),
           req.op = "delete_workflow" /\ req.args.workflow = w =>
             req.args.target \in {NoWorkflow, target}
    PROVE  Agrees(req, home2, ws2, sy2)
  <1>1. /\ \A s \in Statuses : home[s] = w => home2[s] = target
        /\ \A s \in Statuses : home[s] # w => home2[s] = home[s]
        /\ \A v \in Range(ws2) : v # w /\ v \in Range(ws)
        /\ \A x \in Stories : sy2[x] # NoStory =>
             /\ sy[x] # NoStory
             /\ sy[x].workflow = w => sy2[x].workflow = target
             /\ sy[x].workflow # w => sy2[x].workflow = sy[x].workflow
    BY DEF Migrated
  <1>2. AgreesRead(req, home2, ws2, sy2)
    BY <1>1 DEF Agrees, AgreesRead, Known, Loaded, Is
  <1>3. ASSUME NEW X, NEW s, X \cap Stories # {} => s \in Statuses, Belong(X, s, home, sy)
        PROVE  Belong(X, s, home2, sy2)
    <2>1. ASSUME NEW x \in X \cap Stories, sy2[x] # NoStory
          PROVE  sy2[x].workflow = home2[s]
      <3>1. s \in Statuses /\ sy[x] # NoStory /\ sy[x].workflow = home[s]
        BY <1>1, <1>3, <2>1 DEF Belong
      <3> QED BY <1>1, <2>1, <3>1
    <2> QED BY <2>1 DEF Belong
  <1>4. AgreesStories(req, home2, ws2, sy2)
    <2>1. ASSUME Is(req, "change_status", "write")
          PROVE  Belong({req.args.story}, req.plan.status, home2, sy2)
      BY <1>3, <2>1 DEF Agrees, AgreesStories, Known, Loaded, Decided, Is
    <2>2. ASSUME Is(req, "reorder_stories", "write")
          PROVE  Belong(DOMAIN req.plan, req.args.status, home2, sy2)
      BY <1>3, <2>2 DEF Agrees, AgreesStories, Known, Loaded, Is
    <2>3. ASSUME Is(req, "delete_status", "write")
          PROVE  Belong(DOMAIN req.plan, req.args.target, home2, sy2)
      <3>1. DOMAIN req.plan # {} => req.args.target \in Statuses
        BY <2>3 DEF Known, Loaded, Decided, Is
      <3>2. Belong(DOMAIN req.plan, req.args.target, home, sy)
        BY <2>3 DEF Agrees, AgreesStories
      <3> QED BY <1>3, <3>1, <3>2
    <2>4. ASSUME req.op \in {"create_story", "change_workflow"}, req.step = "write",
                 req.args.workflow \in Range(ws2)
          PROVE  home2[req.plan.status] = req.args.workflow
      <3>1. req.plan.status \in Statuses
        BY <2>4 DEF Known, Decided
      <3> QED BY <1>1, <2>4, <3>1 DEF Agrees, AgreesStories
    <2> QED BY <2>1, <2>2, <2>3, <2>4 DEF AgreesStories
  <1>5. AgreesStatuses(req, home2, ws2)
    <2>1. ASSUME Is(req, "reorder_statuses", "write"), req.args.workflow \in Range(ws2),
                 NEW s \in DOMAIN req.plan
          PROVE  home2[s] = req.args.workflow
      <3>1. s \in Statuses
        BY <2>1 DEF Known, Decided, Orders, Is
      <3> QED BY <1>1, <2>1, <3>1 DEF Agrees, AgreesStatuses
    <2>2. ASSUME Is(req, "delete_workflow", "write"), req.args.target \in Range(ws2),
                 NEW s \in DOMAIN req.plan
          PROVE  home2[s] \in {req.args.workflow, req.args.target}
      <3>1. s \in Statuses /\ req.args.target # NoWorkflow
        BY <2>2 DEF Known, Decided, Orders, Is
      <3>2. home[s] \in {req.args.workflow, req.args.target} /\ req.args.target # w
        BY <1>1, <2>2 DEF Agrees, AgreesStatuses
      <3>3. CASE home[s] = w
        <4>1. req.args.workflow = w /\ req.args.target = target
          BY <2>2, <3>1, <3>2, <3>3 DEF Is
        <4> QED BY <1>1, <3>1, <3>3, <4>1
      <3>4. CASE home[s] # w
        BY <1>1, <3>1, <3>2, <3>4
      <3> QED BY <3>3, <3>4
    <2> QED BY <2>1, <2>2 DEF AgreesStatuses
  <1> QED BY <1>2, <1>4, <1>5 DEF Agrees

LEMMA WriteDeleteWorkflowKeeps ==
    ASSUME BoardIInv, Uncontested, NEW r \in Requests, WriteDeleteWorkflow(r)
    PROVE  BoardIInv'
  <1> DEFINE w == request[r].args.workflow
             target == request[r].args.target
             plan == request[r].plan
             moving == StatusesMoved(target, plan)
             IsMoved(x) == x \in StoriesOf(w) /\ story[x].status \in DOMAIN plan
             moved == [x \in Stories |->
                         IF IsMoved(x) THEN [story[x] EXCEPT !.workflow = target] ELSE story[x]]
             gone == {s \in Statuses : moving[s] # NoStatus /\ moving[s].workflow = w}
             left == IF w \in Range(workflows) THEN WorkflowsWithout(w) ELSE workflows
             land == IF w \notin Range(workflows) \/ request[r].row # w THEN landing
                     ELSE IF left = <<>> THEN NoWorkflow ELSE Head(left)
             st == [s \in Statuses |-> IF s \in gone THEN NoStatus ELSE moving[s]]
             sy == [x \in Stories |->
                      IF moved[x] # NoStory /\ (moved[x].workflow = w \/ moved[x].status \in gone)
                      THEN NoStory ELSE moved[x]]
  <1>1. At(r, "delete_workflow", "write") /\ Commit(r, left, land, st, sy)
    BY DEF WriteDeleteWorkflow
  <1>2. /\ w = request[r].args.workflow /\ target = request[r].args.target
        /\ plan = request[r].plan /\ moving = StatusesMoved(target, plan)
        /\ w \in Range(workflows) => left = WorkflowsWithout(w)
        /\ w \notin Range(workflows) => left = workflows
    OBVIOUS
  <1> HIDE DEF w, target, plan, moving, left, land
  <1>3. /\ \A x \in Stories :
             moved[x] = IF IsMoved(x) THEN [story[x] EXCEPT !.workflow = target] ELSE story[x]
        /\ \A s : s \in gone <=> s \in Statuses /\ moving[s] # NoStatus /\ moving[s].workflow = w
    OBVIOUS
  <1> HIDE DEF moved, gone
  <1>4. /\ st = [s \in Statuses |-> IF s \in gone THEN NoStatus ELSE moving[s]]
        /\ sy = [x \in Stories |->
                   IF moved[x] # NoStory /\ (moved[x].workflow = w \/ moved[x].status \in gone)
                   THEN NoStory ELSE moved[x]]
    OBVIOUS
  <1> HIDE DEF st, sy
  <1>5. /\ w \in Workflows /\ target \in Workflows \cup {NoWorkflow}
        /\ Orders(plan, Statuses \cap given)
        /\ target = NoWorkflow => DOMAIN plan = {}
        /\ Is(request[r], "delete_workflow", "write") /\ Busy(r)
    BY <1>2, <1>1, RequestFacts DEF Loaded, Decided, Is
  <1>6. /\ moving \in [Statuses -> StatusRow \cup {NoStatus}]
        /\ \A s \in Statuses : moving[s] # NoStatus => status[s] # NoStatus
        /\ \A s \in Statuses : s \in DOMAIN plan /\ status[s] # NoStatus =>
             moving[s] # NoStatus /\ moving[s].workflow = target
        /\ \A s \in Statuses : s \notin DOMAIN plan => moving[s] = status[s]
    <2>1. Orders(plan, Statuses \cap given) /\ (DOMAIN plan # {} => target \in Workflows)
      BY <1>5
    <2>2. moving = StatusesMoved(target, plan)
      BY <1>2
    <2> QED BY ONLY BoardIInv, <2>1, <2>2, StatusesMovedFacts, SMTT(30)
  <1>7. /\ left \in Seq(Workflows)
        /\ \A i, j \in DOMAIN left : left[i] = left[j] => i = j
        /\ \A v \in Range(left) : v # w /\ v \in Range(workflows)
    <2>1. /\ w \in Range(workflows) => left = WorkflowsWithout(w)
          /\ w \notin Range(workflows) => left = workflows
      BY <1>2
    <2> QED BY ONLY BoardIInv, <2>1, LeftFacts, SMTT(30)
  <1>8. ASSUME NEW x \in Stories
        PROVE  /\ moved[x] \in StoryRow \cup {NoStory}
               /\ moved[x] # NoStory => story[x] # NoStory /\ moved[x].status = story[x].status
               /\ moved[x] # NoStory /\ IsMoved(x) => moved[x].workflow = target
               /\ ~IsMoved(x) => moved[x] = story[x]
    <2>1. CASE IsMoved(x)
      <3>1. story[x] # NoStory /\ story[x] \in StoryRow /\ target \in Workflows
        BY <1>5, <2>1, RowFacts DEF StoriesOf
      <3>2. moved[x] = [workflow |-> target, status |-> story[x].status, order |-> story[x].order]
        BY <1>3, <2>1, <3>1 DEF StoryRow
      <3>3. moved[x] \in StoryRow
        BY <3>1, <3>2 DEF StoryRow
      <3> QED BY <2>1, <3>1, <3>2, <3>3
    <2>2. CASE ~IsMoved(x)
      BY <1>3, <2>2, WorkflowsAreKnown
    <2> QED BY <2>1, <2>2
  <1>9. /\ st \in [Statuses -> StatusRow \cup {NoStatus}]
        /\ \A s \in Statuses : st[s] # NoStatus =>
             st[s] = moving[s] /\ moving[s] # NoStatus /\ st[s].workflow # w
    BY <1>3, <1>4, <1>6
  <1>10. /\ sy \in [Stories -> StoryRow \cup {NoStory}]
         /\ \A x \in Stories : sy[x] # NoStory =>
              sy[x] = moved[x] /\ moved[x] # NoStory /\ sy[x].workflow # w
    BY <1>4, <1>8
  <1>11. PICK home \in [Statuses -> Workflows] : Together(home)
    BY DEF BoardIInv
  <1>12. \A s \in Statuses : status[s] # NoStatus => status[s].workflow = home[s]
    BY <1>11 DEF Together, AtHome
  <1>13. \A x \in Stories : story[x] # NoStory =>
           story[x].workflow = home[story[x].status] /\ story[x].status \in Statuses
    BY <1>11, RowFacts DEF Together, AtHome
  <1>14. Rows(left, st, sy)
    BY <1>7, <1>9, <1>10 DEF Rows
  <1>15. ASSUME target \in Range(workflows), target # NoWorkflow
         PROVE  Settled(r, left, st, sy)
    <2>1. PICK home2 : home2 = [s \in Statuses |-> IF home[s] = w THEN target ELSE home[s]]
      OBVIOUS
    <2>2. home2 \in [Statuses -> Workflows]
      BY <1>5, <1>15, <2>1
    <2>3. /\ \A s \in Statuses : home[s] = w => home2[s] = target
          /\ \A s \in Statuses : home[s] # w => home2[s] = home[s]
      BY <2>1
    <2>4. \A s \in DOMAIN plan : home[s] \in {w, target}
      <3>1. AgreesStatuses(request[r], home, workflows)
        BY <1>1, <1>11, RequestFacts DEF Agrees
      <3> QED BY <1>2, <1>5, <1>15, <3>1 DEF AgreesStatuses
    <2>5. ASSUME NEW s \in Statuses, st[s] # NoStatus
          PROVE  st[s].workflow = home2[s]
      <3>1. CASE s \in DOMAIN plan
        BY <1>6, <1>9, <2>3, <2>4, <2>5, <3>1
      <3>2. CASE s \notin DOMAIN plan
        BY <1>6, <1>9, <1>12, <2>3, <2>5, <3>2
      <3> QED BY <3>1, <3>2
    <2>6. ASSUME NEW x \in Stories, sy[x] # NoStory
          PROVE  /\ story[x] # NoStory /\ sy[x].status = story[x].status
                 /\ story[x].workflow = w => sy[x].workflow = target
                 /\ story[x].workflow # w => sy[x].workflow = story[x].workflow
      <3>1. /\ sy[x] = moved[x] /\ moved[x] # NoStory /\ sy[x].workflow # w
            /\ story[x] # NoStory /\ moved[x].status = story[x].status
        BY <1>8, <1>10, <2>6
      <3>2. CASE IsMoved(x)
        <4>1. moved[x].workflow = target /\ story[x].workflow = w
          BY <1>8, <3>1, <3>2 DEF StoriesOf
        <4> QED BY <3>1, <4>1
      <3>3. CASE ~IsMoved(x)
        <4>1. moved[x] = story[x]
          BY <1>8, <3>3
        <4> QED BY <3>1, <4>1
      <3> QED BY <3>2, <3>3
    <2>7. ASSUME NEW x \in Stories, sy[x] # NoStory
          PROVE  sy[x].workflow = home2[sy[x].status]
      BY <1>13, <2>3, <2>6, <2>7
    <2>8. AtHome(home2, st, sy)
      BY <2>5, <2>7 DEF AtHome
    <2>9. ASSUME NEW q \in Requests \ {r}, Busy(q)
          PROVE  Agrees(request[q], home2, left, sy)
      <3>1. Known(request[q], given) /\ Agrees(request[q], home, workflows, story)
        BY <1>11, <2>9 DEF Together, BoardIInv, AllKnown
      <3>2. request[q].op = "delete_workflow" /\ request[q].args.workflow = w =>
              request[q].args.target \in {NoWorkflow, target}
        BY <1>2, <1>5, <1>15, <2>9 DEF Uncontested, Is
      <3>3. Migrated(home, home2, workflows, left, story, sy, w, target)
        BY <1>7, <2>3, <2>6 DEF Migrated
      <3> QED BY <3>1, <3>2, <3>3, AgreesAfterMigration
    <2> QED BY <1>14, <2>2, <2>8, <2>9 DEF Settled
  <1>16. ASSUME ~(target \in Range(workflows) /\ target # NoWorkflow), Refers(left, st, sy)
         PROVE  Settled(r, left, st, sy)
    <2>1. ASSUME NEW s \in Statuses, st[s] # NoStatus
          PROVE  st[s] = status[s] /\ st[s].workflow = home[s]
      <3>1. st[s].workflow \in Range(workflows)
        BY <1>7, <1>16, <2>1 DEF Refers
      <3>2. s \notin DOMAIN plan
        BY <1>5, <1>6, <1>9, <1>16, <2>1, <3>1
      <3> QED BY <1>6, <1>9, <1>12, <2>1, <3>2
    <2>2. ASSUME NEW x \in Stories, sy[x] # NoStory
          PROVE  story[x] # NoStory /\ sy[x] = story[x]
      <3>1. sy[x].workflow \in Range(workflows)
        BY <1>7, <1>16, <2>2 DEF Refers
      <3>2. /\ sy[x] = moved[x] /\ moved[x] # NoStory /\ story[x] # NoStory
        BY <1>8, <1>10, <2>2
      <3>3. ~IsMoved(x)
        <4>1. ASSUME IsMoved(x) PROVE FALSE
          <5>1. sy[x].workflow = target /\ DOMAIN plan # {}
            BY <1>8, <3>2, <4>1
          <5> QED BY <1>5, <1>16, <3>1, <5>1
        <4> QED BY <4>1
      <3> QED BY <1>8, <3>2, <3>3
    <2>3. AtHome(home, st, sy)
      BY <1>13, <2>1, <2>2 DEF AtHome
    <2>4. ASSUME NEW q \in Requests \ {r}, Busy(q)
          PROVE  Agrees(request[q], home, left, sy)
      <3>1. Known(request[q], given) /\ Agrees(request[q], home, workflows, story)
        BY <1>11, <2>4 DEF Together, BoardIInv, AllKnown
      <3>2. \A x \in Stories \cap given : sy[x] # NoStory =>
              story[x] # NoStory /\ sy[x].workflow = story[x].workflow
        BY <2>2
      <3> QED BY <1>7, <3>1, <3>2, StillAgrees
    <2> QED BY <1>14, <2>3, <2>4 DEF Settled
  <1> QED BY <1>1, <1>15, <1>16, CommitKeeps

LEMMA WriteKeeps ==
    ASSUME BoardIInv, Uncontested, NEW r \in Requests, Write(r)
    PROVE  BoardIInv'
  BY WriteCreateStoryKeeps, WriteChangeStatusKeeps, WriteChangeWorkflowKeeps,
     WriteReorderStoriesKeeps, WriteReorderStatusesKeeps, DeleteLoadedStoryKeeps,
     InsertStatusKeeps, SaveStatusKeeps, WriteDeleteStatusKeeps, WriteCreateWorkflowKeeps,
     WriteDeleteWorkflowKeeps DEF Write

LEMMA BoardInitHolds == BoardInit => BoardIInv
  <1> SUFFICES ASSUME BoardInit PROVE BoardIInv
    OBVIOUS
  <1>1. IInv
    BY InitHolds DEF BoardInit
  <1>2. \A x \in Stories : story[x] = NoStory
    BY DEF BoardInit, Init
  <1>3. PICK w \in Workflows : workflows = <<w>>
    BY DEF BoardInit, Init
  <1>4. Rows(workflows, status, story)
    BY <1>1, <1>3 DEF IInv, GoodStatuses, GoodStories, Rows
  <1>5. Refers(workflows, status, story)
    BY <1>1, <1>2 DEF IInv, GoodStatuses, Refers
  <1>6. AllKnown /\ \A r \in Requests : ~Busy(r)
    BY DEF BoardInit, AllKnown, Busy
  <1>7. \E home \in [Statuses -> Workflows] : Together(home)
    <2>1. PICK home : home = [s \in Statuses |-> w]
      OBVIOUS
    <2>2. home \in [Statuses -> Workflows]
      BY <2>1
    <2>3. \A s \in Statuses : status[s] # NoStatus => status[s].workflow = home[s]
      BY <1>3, <1>5, <2>1 DEF Refers, Range
    <2>4. Together(home)
      BY <1>2, <1>6, <2>3 DEF Together, AtHome
    <2> QED BY <2>2, <2>4
  <1> QED BY <1>4, <1>5, <1>6, <1>7 DEF BoardIInv

LEMMA BoardNextKeeps ==
    ASSUME BoardIInv, Uncontested, [BoardNext]_boardVars
    PROVE  BoardIInv'
  <1>1. ASSUME BoardNext PROVE BoardIInv'
    BY <1>1, LoadStoryKeeps, LoadStatusKeeps, LoadWorkflowKeeps, LoadProjectKeeps, ReadKeeps,
       WriteKeeps DEF BoardNext
  <1>2. ASSUME UNCHANGED boardVars PROVE BoardIInv'
    <2>1. UNCHANGED <<request, given, workflows, status, story>>
      BY <1>2 DEF boardVars, vars
    <2>2. PICK home \in [Statuses -> Workflows] : Together(home)
      BY DEF BoardIInv
    <2>3. Together(home)'
      BY <2>1, <2>2 DEF Together, AtHome, Busy, Agrees, AgreesRead, AgreesStories, AgreesStatuses,
         Is, Belong
    <2>4. AllKnown'
      BY <2>1 DEF BoardIInv, AllKnown, InUse, Busy, Record, Known, Loaded, Decided, Orders
    <2> QED BY <2>1, <2>3, <2>4 DEF BoardIInv, Rows, Refers
  <1> QED BY <1>1, <1>2

\* A story stays in a status of its own workflow also when requests overlap, cut
\* where they read and where they write, whatever they are and however many:
\* unless one that changes the workflow of a story overlaps another, or two
\* delete the same workflow and move its statuses to different ones. Together
\* moves what is in a status with it, and the foreign keys refuse the rest.
THEOREM OverlappingRequestsKeepStoriesInTheirWorkflow ==
    BoardSpec /\ []Uncontested => []StoriesAreInTheirWorkflow
  <1>1. BoardIInv => StoriesAreInTheirWorkflow
    BY RowFacts DEF BoardIInv, Together, AtHome, StoriesAreInTheirWorkflow
  <1> QED BY <1>1, BoardInitHolds, BoardNextKeeps, PTL DEF BoardSpec

-----------------------------------------------------------------------------
(* Requests one at a time. What such a request has read is still what      *)
(* there is when it writes, so that it does what Workflows says of it.     *)

\* What a request that nothing overlaps has loaded is what there is.
LoadedNow(req) ==
    /\ req.op \in {"change_status", "change_workflow", "delete_story"} =>
         story[req.args.story] # NoStory /\ req.row = story[req.args.story]
    /\ req.op \in {"update_status", "delete_status"} =>
         status[req.args.status] # NoStatus /\ req.row = status[req.args.status]
    /\ req.op \in {"create_story", "reorder_stories", "create_status", "reorder_statuses",
                   "delete_workflow"} => req.args.workflow \in Range(workflows)
    /\ req.op = "delete_workflow" => req.row = landing

\* And what it has decided is what it would decide now.
DecidedNow(req) ==
    /\ req.op = "create_story" =>
         /\ req.args.status \in StatusesOf(req.args.workflow)
         /\ req.plan.status = req.args.status
         /\ req.plan.order = EndOf(req.args.status) /\ req.plan.order \in StoryOrders
    /\ req.op = "change_status" =>
         /\ CanChangeStatus(req.args.story, req.args.status)
         /\ req.plan.status = req.args.status
         /\ req.plan.order = EndOf(req.args.status) /\ req.plan.order \in StoryOrders
    /\ req.op = "change_workflow" =>
         /\ CanChangeWorkflow(req.args.story, req.args.workflow)
         /\ req.plan.status = Head(Columns[req.args.workflow])
         /\ req.plan.order = EndOf(req.plan.status) /\ req.plan.order \in StoryOrders
    /\ req.op = "reorder_stories" =>
         /\ CanReorderStories(req.args.status, req.args.block, req.args.anchor)
         /\ req.plan = StoryOrdersAfter(req.args.status, req.args.block, req.args.place,
                                        req.args.anchor)
         /\ Within(req.plan, StoryOrders)
    /\ req.op = "reorder_statuses" =>
         /\ CanReorderStatuses(req.args.workflow, req.args.block, req.args.anchor)
         /\ req.plan = Repositioned(req.args.block,
                         StatusesOf(req.args.workflow) \ Range(req.args.block), StatusOrder,
                         req.args.place, req.args.anchor)
         /\ Within(req.plan, StatusOrders)
    /\ req.op = "delete_status" =>
         /\ CanDeleteStatus(req.args.status, req.args.target)
         /\ req.args.target # NoStatus =>
              req.plan = Appended(Cards[req.args.status],
                                  Latest(StoriesIn(req.args.target), StoryOrder))
         /\ req.args.target = NoStatus => DOMAIN req.plan = {}
         /\ Within(req.plan, StoryOrders)
    /\ req.op = "create_workflow" =>
         req.plan.first = (workflows = <<>>) /\ Len(workflows) < MaxNumWorkflows
    /\ req.op = "delete_workflow" =>
         /\ CanDeleteWorkflow(req.args.workflow, req.args.target)
         /\ req.args.target # NoWorkflow =>
              req.plan = MigrationOrders(req.args.workflow, req.args.target)
         /\ req.args.target = NoWorkflow => DOMAIN req.plan = {}
         /\ Within(req.plan, StatusOrders)

IsNow(req) == LoadedNow(req) /\ (req.step = "write" => DecidedNow(req))

StatusesBounded == Bounded(status, NoStatus, StatusOrders)
StoriesBounded == Bounded(story, NoStory, StoryOrders)

OneAtATime == \A q, r \in Requests : Busy(q) /\ Busy(r) => q = r

\* The requests in progress.
Waiting == {request[r] : r \in {q \in Requests : Busy(q)}}

NothingIsStale == OneAtATime /\ \A req \in Waiting : IsNow(req)

AloneIInv == BoardIInv /\ IInv /\ StatusesBounded /\ StoriesBounded /\ NothingIsStale

LEMMA SameLists ==
    ASSUME UNCHANGED vars
    PROVE  /\ \A w : StatusesOf(w)' = StatusesOf(w) /\ StoriesOf(w)' = StoriesOf(w)
           /\ \A s : StoriesIn(s)' = StoriesIn(s)
           /\ UNCHANGED <<StatusOrder, StoryOrder>>
  <1>1. UNCHANGED <<workflows, landing, status, story>>
    BY DEF vars
  <1>2. \A w : StatusesOf(w)' = StatusesOf(w)
    BY <1>1 DEF StatusesOf
  <1>3. \A w : StoriesOf(w)' = StoriesOf(w)
    BY <1>1 DEF StoriesOf
  <1>4. \A s : StoriesIn(s)' = StoriesIn(s)
    BY <1>1 DEF StoriesIn
  <1>5. UNCHANGED StatusOrder
    BY <1>1 DEF StatusOrder
  <1>6. UNCHANGED StoryOrder
    BY <1>1 DEF StoryOrder
  <1> QED BY <1>2, <1>3, <1>4, <1>5, <1>6

LEMMA SameEnds ==
    ASSUME UNCHANGED vars
    PROVE  /\ \A s : EndOf(s)' = EndOf(s)
           /\ UNCHANGED <<Columns, Cards>>
  <1>1. \A s : EndOf(s)' = EndOf(s)
    BY SameLists DEF EndOf
  <1>2. UNCHANGED Columns
    BY SameLists DEF Columns
  <1>3. UNCHANGED Cards
    BY SameLists DEF Cards
  <1> QED BY <1>1, <1>2, <1>3

\* What is written nowhere is still so.
LEMMA LoadedStays ==
    ASSUME UNCHANGED vars, NEW req, LoadedNow(req)
    PROVE  LoadedNow(req)'
  BY DEF LoadedNow, vars

LEMMA DecidedStays ==
    ASSUME UNCHANGED vars, NEW req, DecidedNow(req)
    PROVE  DecidedNow(req)'
  <1> USE SameLists, SameEnds
  <1>1. UNCHANGED <<workflows, landing, status, story>>
    BY DEF vars
  <1>2. req.op = "create_story" =>
          /\ req.args.status \in StatusesOf(req.args.workflow)'
          /\ req.plan.status = req.args.status
          /\ req.plan.order = EndOf(req.args.status)' /\ req.plan.order \in StoryOrders
    BY DEF DecidedNow
  <1>3. req.op = "change_status" =>
          /\ CanChangeStatus(req.args.story, req.args.status)'
          /\ req.plan.status = req.args.status
          /\ req.plan.order = EndOf(req.args.status)' /\ req.plan.order \in StoryOrders
    BY <1>1 DEF DecidedNow, CanChangeStatus
  <1>4. req.op = "change_workflow" =>
          /\ CanChangeWorkflow(req.args.story, req.args.workflow)'
          /\ req.plan.status = Head(Columns'[req.args.workflow])
          /\ req.plan.order = EndOf(req.plan.status)' /\ req.plan.order \in StoryOrders
    BY <1>1 DEF DecidedNow, CanChangeWorkflow
  <1>5. req.op = "reorder_stories" =>
          /\ CanReorderStories(req.args.status, req.args.block, req.args.anchor)'
          /\ req.plan = StoryOrdersAfter(req.args.status, req.args.block, req.args.place,
                                         req.args.anchor)'
          /\ Within(req.plan, StoryOrders)
    BY <1>1 DEF DecidedNow, CanReorderStories, StoryOrdersAfter
  <1>6. req.op = "reorder_statuses" =>
          /\ CanReorderStatuses(req.args.workflow, req.args.block, req.args.anchor)'
          /\ req.plan = Repositioned(req.args.block,
                          StatusesOf(req.args.workflow)' \ Range(req.args.block), StatusOrder',
                          req.args.place, req.args.anchor)
          /\ Within(req.plan, StatusOrders)
    BY <1>1 DEF DecidedNow, CanReorderStatuses
  <1>7. req.op = "delete_status" =>
          /\ CanDeleteStatus(req.args.status, req.args.target)'
          /\ req.args.target # NoStatus =>
               req.plan = Appended(Cards'[req.args.status],
                                   Latest(StoriesIn(req.args.target)', StoryOrder'))
          /\ req.args.target = NoStatus => DOMAIN req.plan = {}
          /\ Within(req.plan, StoryOrders)
    BY <1>1 DEF DecidedNow, CanDeleteStatus
  <1>8. req.op = "create_workflow" =>
          req.plan.first = (workflows' = <<>>) /\ Len(workflows') < MaxNumWorkflows
    BY <1>1 DEF DecidedNow
  <1>9. req.op = "delete_workflow" =>
          /\ CanDeleteWorkflow(req.args.workflow, req.args.target)'
          /\ req.args.target # NoWorkflow =>
               req.plan = MigrationOrders(req.args.workflow, req.args.target)'
          /\ req.args.target = NoWorkflow => DOMAIN req.plan = {}
          /\ Within(req.plan, StatusOrders)
    <2>1. \A w : StatusesToMove(w)' = StatusesToMove(w)
      BY DEF StatusesToMove
    <2>2. \A w, target : MigrationOrders(w, target)' = MigrationOrders(w, target)
      BY <1>1, <2>1 DEF MigrationOrders
    <2> QED BY <1>1, <2>2 DEF DecidedNow, CanDeleteWorkflow
  <1> QED BY <1>2, <1>3, <1>4, <1>5, <1>6, <1>7, <1>8, <1>9 DEF DecidedNow

\* The orders of the rows stay in the bounds explored.
LEMMA StatusesStayBounded ==
    ASSUME IInv, StatusesBounded, Next
    PROVE  StatusesBounded'
  <1>1. status \in [Statuses -> StatusRow \cup {NoStatus}]
    BY DEF IInv, GoodStatuses
  <1>2. \A s \in Statuses : status[s] # NoStatus => status[s].order \in StatusOrders
    BY <1>1 DEF StatusesBounded, Bounded
  <1>3. ASSUME status' = [s \in Statuses |-> status'[s]],
               \A s \in Statuses : status'[s] # NoStatus =>
                 status'[s] = status[s] \/ status'[s].order \in StatusOrders
        PROVE  StatusesBounded'
    BY <1>2, <1>3 DEF StatusesBounded, Bounded
  <1>4. ASSUME UNCHANGED status
        PROVE  StatusesBounded'
    BY <1>4 DEF StatusesBounded, Bounded
  <1>5. ASSUME NEW w \in Workflows, NEW ids \in SetToAllKPermutations(Statuses), CreateWorkflow(w, ids)
        PROVE  StatusesBounded'
    <2> DEFINE at(s) == CHOOSE k \in 1 .. Len(ids) : ids[k] = s
    <2>1. \A s \in Range(ids) : at(s) \in 1 .. TemplateSize
      <3>1. ids \in Seq(Statuses) /\ Len(ids) = TemplateSize
        BY <1>5, TemplateFacts DEF CreateWorkflow
      <3>2. \A s \in Range(ids) : \E k \in 1 .. Len(ids) : ids[k] = s
        BY <3>1 DEF Range
      <3> QED BY <3>1, <3>2
    <2>2. status' = [s \in Statuses |->
            IF s \in Range(ids) THEN [workflow |-> w, order |-> at(s)] ELSE status[s]]
      BY <1>5 DEF CreateWorkflow
    <2> HIDE DEF at
    <2> QED BY <1>3, <2>1, <2>2, TemplateAssumption
  <1>6. ASSUME NEW w \in Workflows, NEW target, DeleteWorkflow(w, target)
        PROVE  StatusesBounded'
    BY <1>6 DEF DeleteWorkflow, StatusesBounded
  <1>7. ASSUME NEW w \in Workflows, NEW s \in Statuses, CreateStatus(w, s)
        PROVE  StatusesBounded'
    <2> DEFINE order == NextOrder(Latest(StatusesOf(w), StatusOrder))
               row == [workflow |-> w, order |-> order]
    <2>1. order \in StatusOrders /\ status' = [status EXCEPT ![s] = row]
      BY <1>7 DEF CreateStatus
    <2>2. row.order = order
      OBVIOUS
    <2> HIDE DEF row, order
    <2>3. status' = [t \in Statuses |-> status'[t]] /\ status'[s] = row
          /\ \A t \in Statuses \ {s} : status'[t] = status[t]
      BY <1>1, <2>1
    <2> QED BY <1>3, <2>1, <2>2, <2>3
  <1>8. ASSUME NEW s \in Statuses, NEW target, DeleteStatus(s, target)
        PROVE  StatusesBounded'
    <2>1. status' = [t \in Statuses |-> status'[t]]
          /\ \A t \in Statuses : status'[t] # NoStatus => status'[t] = status[t]
      BY <1>1, <1>8 DEF DeleteStatus
    <2> QED BY <1>3, <2>1
  <1>9. ASSUME NEW w, NEW block, NEW place, NEW anchor, ReorderStatuses(w, block, place, anchor)
        PROVE  StatusesBounded'
    BY <1>9 DEF ReorderStatuses, StatusesBounded
  <1>10. CASE WorkflowStep
    BY <1>5, <1>6, <1>10 DEF WorkflowStep
  <1>11. CASE StatusStep
    BY <1>7, <1>8, <1>9, <1>11 DEF StatusStep
  <1>12. CASE StoryStep
    BY <1>4, <1>12 DEF StoryStep, CreateStory, ChangeStatus, ChangeWorkflow, ReorderStories, DeleteStory
  <1> QED BY <1>10, <1>11, <1>12 DEF Next

LEMMA StoriesStayBounded ==
    ASSUME IInv, StoriesBounded, Next
    PROVE  StoriesBounded'
  <1>1. story \in [Stories -> StoryRow \cup {NoStory}]
    BY DEF IInv, GoodStories
  <1>2. \A x \in Stories : story[x] # NoStory => story[x].order \in StoryOrders
    BY <1>1 DEF StoriesBounded, Bounded
  <1>3. ASSUME story' = [x \in Stories |-> story'[x]],
               \A x \in Stories : story'[x] # NoStory =>
                 story'[x] = story[x] \/ story'[x].order \in StoryOrders
        PROVE  StoriesBounded'
    BY <1>2, <1>3 DEF StoriesBounded, Bounded
  <1>4. ASSUME UNCHANGED story
        PROVE  StoriesBounded'
    BY <1>4 DEF StoriesBounded, Bounded
  <1>5. ASSUME NEW x \in Stories, NEW row, row.order \in StoryOrders, story' = [story EXCEPT ![x] = row]
        PROVE  StoriesBounded'
    <2>1. story' = [y \in Stories |-> story'[y]] /\ story'[x] = row
          /\ \A y \in Stories \ {x} : story'[y] = story[y]
      BY <1>1, <1>5
    <2> QED BY <1>3, <1>5, <2>1
  <1>6. ASSUME NEW x \in Stories, NEW s, EndOf(s) \in StoryOrders, story' = StoriesWithLast(x, s)
        PROVE  StoriesBounded'
    BY <1>5, <1>6 DEF StoriesWithLast
  <1>7. ASSUME NEW x \in Stories, NEW s \in Statuses, ChangeStatus(x, s)
        PROVE  StoriesBounded'
    <2>1. story[x] # NoStory /\ EndOf(s) \in StoryOrders
      BY <1>7 DEF ChangeStatus, CanChangeStatus
    <2>2. story' = [story EXCEPT ![x] =
                      [workflow |-> story[x].workflow, status |-> s, order |-> EndOf(s)]]
      BY <1>1, <1>7, <2>1, MovedStory DEF ChangeStatus, StoriesAfterUpdate
    <2> QED BY <1>5, <2>1, <2>2
  <1>8. ASSUME NEW x \in Stories, DeleteStory(x)
        PROVE  StoriesBounded'
    <2>1. story' = [y \in Stories |-> story'[y]]
          /\ \A y \in Stories : story'[y] # NoStory => story'[y] = story[y]
      BY <1>1, <1>8 DEF DeleteStory
    <2> QED BY <1>3, <2>1
  <1>9. ASSUME NEW w, NEW target, DeleteWorkflow(w, target)
        PROVE  StoriesBounded'
    <2>1. /\ story' = [x \in Stories |-> story'[x]]
          /\ \A x \in Stories : story'[x] \in {story[x], NoStory}
                                \/ (story[x] # NoStory
                                      /\ story'[x] = [story[x] EXCEPT !.workflow = target])
      BY <1>9 DEF DeleteWorkflow, StoriesAfterMigration, StoriesOf
    <2>2. ASSUME NEW x \in Stories, story[x] # NoStory
          PROVE  [story[x] EXCEPT !.workflow = target].order = story[x].order
      <3>1. story[x] \in StoryRow
        BY <1>1, <2>2
      <3> QED BY <3>1 DEF StoryRow
    <2> QED BY <1>2, <1>3, <2>1, <2>2
  <1>10. ASSUME NEW s, NEW target, DeleteStatus(s, target)
         PROVE  StoriesBounded'
    BY <1>10 DEF DeleteStatus, StoriesBounded
  <1>11. ASSUME NEW s, NEW block, NEW place, NEW anchor, ReorderStories(s, block, place, anchor)
         PROVE  StoriesBounded'
    BY <1>11 DEF ReorderStories, StoriesBounded
  <1>12. CASE WorkflowStep
    BY <1>4, <1>9, <1>12 DEF WorkflowStep, CreateWorkflow
  <1>13. CASE StatusStep
    BY <1>4, <1>10, <1>13 DEF StatusStep, CreateStatus, ReorderStatuses
  <1>14. CASE StoryStep
    BY <1>6, <1>7, <1>8, <1>11, <1>14 DEF StoryStep, CreateStory, ChangeWorkflow
  <1> QED BY <1>12, <1>13, <1>14 DEF Next

\* The only request in progress begins, goes on or ends, and writes no row.
LEMMA NothingGoesStale ==
    ASSUME NEW r \in Requests, NEW new, request = [q \in Requests |-> request[q]],
           request' = [request EXCEPT ![r] = new],
           UNCHANGED vars, \A q \in Requests \ {r} : ~Busy(q), new # NoRequest => IsNow(new)
    PROVE  NothingIsStale'
  <1>1. request'[r] = new /\ \A q \in Requests \ {r} : request'[q] = NoRequest
    BY DEF Busy
  <1>2. OneAtATime'
    BY <1>1 DEF OneAtATime, Busy
  <1>3. \A req \in Waiting' : req = new /\ new # NoRequest
    BY <1>1 DEF Waiting, Busy
  <1>4. new # NoRequest => IsNow(new)'
    BY LoadedStays, DecidedStays DEF IsNow
  <1> QED BY <1>2, <1>3, <1>4 DEF NothingIsStale

\* The request that ends was the only one.
LEMMA NobodyIsLeft ==
    ASSUME NothingIsStale, NEW r \in Requests, Busy(r), Finish(r),
           request = [q \in Requests |-> request[q]]
    PROVE  NothingIsStale'
  <1>1. \A q \in Requests : ~Busy(q)'
    BY DEF NothingIsStale, OneAtATime, Finish, Busy
  <1> QED BY <1>1 DEF NothingIsStale, OneAtATime, Waiting

LEMMA LoadIsFresh ==
    ASSUME BoardIInv, alone, NEW r \in Requests, NEW op, NEW args, NEW row, Load(r, op, args, row),
           NEW new, new = [op |-> op, step |-> "read", args |-> args, row |-> row, plan |-> Nothing],
           LoadedNow(new)
    PROVE  NothingIsStale'
  <1>1. request' = [request EXCEPT ![r] = new] /\ UNCHANGED vars
    BY DEF Load
  <1>2. \A q \in Requests : ~Busy(q)
    BY DEF Load, MayOverlap, Busy
  <1>3. new.step = "read"
    OBVIOUS
  <1>4. IsNow(new)
    BY <1>3 DEF IsNow
  <1> QED BY <1>1, <1>2, <1>4, NothingGoesStale DEF BoardIInv, AllKnown

Loads(r) ==
    \/ \E x \in Stories : LoadStory(r, x)
    \/ \E s \in Statuses : LoadStatus(r, s)
    \/ \E w \in Workflows : LoadWorkflow(r, w)
    \/ LoadProject(r)

LEMMA LoadsAreFresh ==
    ASSUME BoardIInv, alone, NEW r \in Requests, Loads(r)
    PROVE  NothingIsStale'
  <1>1. ASSUME NEW x \in Stories, LoadStory(r, x)
        PROVE  NothingIsStale'
    <2>1. PICK op \in {"change_status", "change_workflow", "delete_story"} :
            \E args : Load(r, op, args, story[x]) /\ args.story = x
      <3>1. \A s : [story |-> x, status |-> s].story = x
        OBVIOUS
      <3>2. \A w : [story |-> x, workflow |-> w].story = x
        OBVIOUS
      <3>3. [story |-> x].story = x
        OBVIOUS
      <3> QED BY <1>1, <3>1, <3>2, <3>3 DEF LoadStory
    <2>2. PICK args : Load(r, op, args, story[x]) /\ args.story = x
      BY <2>1
    <2>3. PICK new : new = [op |-> op, step |-> "read", args |-> args, row |-> story[x],
                            plan |-> Nothing]
      OBVIOUS
    <2>4. new.op = op /\ new.args.story = x /\ new.row = story[x] /\ story[x] # NoStory
      BY <1>1, <2>2, <2>3 DEF LoadStory
    <2>5. LoadedNow(new)
      BY <2>4 DEF LoadedNow
    <2> QED BY <2>2, <2>3, <2>5, LoadIsFresh
  <1>2. ASSUME NEW s \in Statuses, LoadStatus(r, s)
        PROVE  NothingIsStale'
    <2>1. PICK op \in {"update_status", "delete_status"} :
            \E args : Load(r, op, args, status[s]) /\ args.status = s
      <3>1. \A t : [status |-> s, target |-> t].status = s
        OBVIOUS
      <3>2. [status |-> s].status = s
        OBVIOUS
      <3> QED BY <1>2, <3>1, <3>2 DEF LoadStatus
    <2>2. PICK args : Load(r, op, args, status[s]) /\ args.status = s
      BY <2>1
    <2>3. PICK new : new = [op |-> op, step |-> "read", args |-> args, row |-> status[s],
                            plan |-> Nothing]
      OBVIOUS
    <2>4. new.op = op /\ new.args.status = s /\ new.row = status[s] /\ status[s] # NoStatus
      BY <1>2, <2>2, <2>3 DEF LoadStatus
    <2>5. LoadedNow(new)
      BY <2>4 DEF LoadedNow
    <2> QED BY <2>2, <2>3, <2>5, LoadIsFresh
  <1>3. ASSUME NEW w \in Workflows, LoadWorkflow(r, w)
        PROVE  NothingIsStale'
    <2>1. PICK op \in {"create_story", "reorder_stories", "create_status", "reorder_statuses",
                       "delete_workflow"} :
            \E args, row : /\ Load(r, op, args, row) /\ args.workflow = w
                           /\ op = "delete_workflow" => row = landing
      <3>1. \A s : [workflow |-> w, status |-> s].workflow = w
        OBVIOUS
      <3>2. \A s, block, place, anchor :
              /\ [workflow |-> w, status |-> s, block |-> block, place |-> place,
                  anchor |-> anchor].workflow = w
              /\ [workflow |-> w, block |-> block, place |-> place, anchor |-> anchor].workflow = w
        OBVIOUS
      <3>3. [workflow |-> w].workflow = w /\ \A t : [workflow |-> w, target |-> t].workflow = w
        OBVIOUS
      <3> QED BY <1>3, <3>1, <3>2, <3>3 DEF LoadWorkflow
    <2>2. PICK args, row : /\ Load(r, op, args, row) /\ args.workflow = w
                           /\ op = "delete_workflow" => row = landing
      BY <2>1
    <2>3. PICK new : new = [op |-> op, step |-> "read", args |-> args, row |-> row, plan |-> Nothing]
      OBVIOUS
    <2>4. /\ new.op = op /\ new.args.workflow = w /\ w \in Range(workflows)
          /\ op = "delete_workflow" => new.row = landing
      BY <1>3, <2>2, <2>3 DEF LoadWorkflow
    <2>5. LoadedNow(new)
      BY <2>4 DEF LoadedNow
    <2> QED BY <2>2, <2>3, <2>5, LoadIsFresh
  <1>4. ASSUME LoadProject(r)
        PROVE  NothingIsStale'
    <2>1. PICK new : new = [op |-> "create_workflow", step |-> "read", args |-> <<>>, row |-> Nothing,
                            plan |-> Nothing]
      OBVIOUS
    <2>2. LoadedNow(new)
      BY <2>1 DEF LoadedNow
    <2> QED BY <1>4, <2>1, <2>2, LoadIsFresh DEF LoadProject
  <1> QED BY <1>1, <1>2, <1>3, <1>4 DEF Loads

\* The only request in progress decides what it will write.
LEMMA DecisionIsFresh ==
    ASSUME AloneIInv, NEW r \in Requests, Busy(r), NEW plans, Decide(r, plans),
           \A plan \in plans : DecidedNow(Planned(request[r], plan))
    PROVE  NothingIsStale'
  <1>1. /\ request = [q \in Requests |-> request[q]] /\ request[r] = Record(request[r])
        /\ \A q \in Requests \ {r} : ~Busy(q)
        /\ IsNow(request[r])
    BY DEF AloneIInv, BoardIInv, AllKnown, NothingIsStale, OneAtATime, Waiting
  <1>2. CASE EndWithout(r)
    BY <1>1, <1>2, NothingGoesStale DEF EndWithout, Finish
  <1>3. ASSUME NEW plan \in plans,
               request' = [request EXCEPT ![r].step = "write", ![r].plan = plan],
               UNCHANGED vars
        PROVE  NothingIsStale'
    <2> DEFINE req == request[r]
               new == Planned(req, plan)
    <2>1. request' = [request EXCEPT ![r] = [req EXCEPT !.step = "write", !.plan = plan]]
      BY <1>1, <1>3
    <2>2. request' = [request EXCEPT ![r] = new]
      BY <2>1 DEF Planned
    <2>3. /\ new.op = req.op /\ new.args = req.args /\ new.row = req.row
      BY <1>1, PlannedFields
    <2>4. LoadedNow(req) /\ DecidedNow(new)
      BY <1>1 DEF IsNow
    <2> HIDE DEF req, new
    <2>5. LoadedNow(new)
      BY <2>3, <2>4 DEF LoadedNow
    <2>6. IsNow(new)
      BY <2>4, <2>5 DEF IsNow
    <2> QED BY <1>1, <1>3, <2>2, <2>6, NothingGoesStale
  <1> QED BY <1>2, <1>3 DEF Decide

\* What is decided, for a request that goes on from what it has loaded.
LEMMA NewPlan ==
    ASSUME BoardIInv, NothingIsStale, NEW r \in Requests, NEW op, At(r, op, "read"), NEW plan,
           NEW req, req = request[r], NEW new, new = Planned(req, plan)
    PROVE  /\ Busy(r) /\ LoadedNow(req) /\ req.op = op /\ Loaded(req, given)
           /\ new.op = op /\ new.args = req.args /\ new.row = req.row /\ new.plan = plan
  <1>1. Busy(r) /\ req = Record(req) /\ req.op = op /\ Loaded(req, given)
    BY RequestFacts
  <1>2. LoadedNow(req)
    BY <1>1 DEF NothingIsStale, Waiting, IsNow
  <1> QED BY <1>1, <1>2, PlannedFields

LEMMA ReadCreateStoryIsFresh ==
    ASSUME AloneIInv, NEW r \in Requests, ReadCreateStory(r)
    PROVE  NothingIsStale'
  <1> DEFINE req == request[r]
             plans == {[status |-> req.args.status, order |-> order] :
                         order \in IF req.args.status \in StatusesOf(req.args.workflow)
                                   THEN ToEndOf(req.args.status) ELSE {}}
  <1>1. At(r, "create_story", "read") /\ Decide(r, plans)
    BY DEF ReadCreateStory
  <1>2. BoardIInv /\ NothingIsStale
    BY DEF AloneIInv
  <1>3. ASSUME NEW plan \in plans
        PROVE  DecidedNow(Planned(req, plan))
    <2>1. PICK new : new = Planned(req, plan)
      OBVIOUS
    <2>2. new.op = "create_story" /\ new.args = req.args /\ new.plan = plan
      BY <1>1, <1>2, <2>1, NewPlan
    <2>3. /\ req.args.status \in StatusesOf(req.args.workflow)
          /\ plan.status = req.args.status
          /\ plan.order = EndOf(req.args.status) /\ plan.order \in StoryOrders
      BY DEF ToEndOf
    <2> HIDE DEF req, plans
    <2>4. DecidedNow(new)
      BY <2>2, <2>3 DEF DecidedNow
    <2> QED BY <2>1, <2>4
  <1> QED BY <1>1, <1>2, <1>3, DecisionIsFresh, RequestFacts

LEMMA ReadChangeStatusIsFresh ==
    ASSUME AloneIInv, NEW r \in Requests, ReadChangeStatus(r)
    PROVE  NothingIsStale'
  <1> DEFINE req == request[r]
             s == req.args.status
             plans == {[status |-> s, order |-> order] :
                         order \in IF s \in StatusesOf(req.row.workflow) \ {req.row.status}
                                   THEN ToEndOf(s) ELSE {}}
  <1>1. At(r, "change_status", "read") /\ Decide(r, plans)
    BY DEF ReadChangeStatus
  <1>2. BoardIInv /\ NothingIsStale
    BY DEF AloneIInv
  <1>3. ASSUME NEW plan \in plans
        PROVE  DecidedNow(Planned(req, plan))
    <2>1. PICK new : new = Planned(req, plan)
      OBVIOUS
    <2>2. /\ new.op = "change_status" /\ new.args = req.args /\ new.plan = plan
          /\ LoadedNow(req) /\ req.op = "change_status"
      BY <1>1, <1>2, <2>1, NewPlan
    <2>3. /\ s \in StatusesOf(req.row.workflow) \ {req.row.status}
          /\ plan.status = s /\ plan.order = EndOf(s) /\ plan.order \in StoryOrders
      BY DEF ToEndOf
    <2> HIDE DEF req, plans
    <2>4. CanChangeStatus(req.args.story, s)
      BY <2>2, <2>3 DEF LoadedNow, CanChangeStatus
    <2>5. DecidedNow(new)
      BY <2>2, <2>3, <2>4 DEF DecidedNow
    <2> QED BY <2>1, <2>5
  <1> QED BY <1>1, <1>2, <1>3, DecisionIsFresh, RequestFacts

LEMMA ReadChangeWorkflowIsFresh ==
    ASSUME AloneIInv, NEW r \in Requests, ReadChangeWorkflow(r)
    PROVE  NothingIsStale'
  <1> DEFINE req == request[r]
             w == req.args.workflow
             first == Head(Columns[w])
             plans == IF w \in Range(workflows) \ {req.row.workflow} /\ StatusesOf(w) # {}
                      THEN {[status |-> first, order |-> order] : order \in ToEndOf(first)}
                      ELSE {}
  <1>1. At(r, "change_workflow", "read") /\ Decide(r, plans)
    BY DEF ReadChangeWorkflow
  <1>2. BoardIInv /\ NothingIsStale
    BY DEF AloneIInv
  <1>3. ASSUME NEW plan \in plans
        PROVE  DecidedNow(Planned(req, plan))
    <2>1. PICK new : new = Planned(req, plan)
      OBVIOUS
    <2>2. /\ new.op = "change_workflow" /\ new.args = req.args /\ new.plan = plan
          /\ LoadedNow(req) /\ req.op = "change_workflow"
      BY <1>1, <1>2, <2>1, NewPlan
    <2>3. /\ w \in Range(workflows) \ {req.row.workflow} /\ StatusesOf(w) # {}
          /\ plan.status = first /\ plan.order = EndOf(first) /\ plan.order \in StoryOrders
      BY DEF ToEndOf
    <2> HIDE DEF req, plans
    <2>4. CanChangeWorkflow(req.args.story, w)
      BY <2>2, <2>3 DEF LoadedNow, CanChangeWorkflow
    <2>5. DecidedNow(new)
      BY <2>2, <2>3, <2>4 DEF DecidedNow
    <2> QED BY <2>1, <2>5
  <1> QED BY <1>1, <1>2, <1>3, DecisionIsFresh, RequestFacts

\* Without ties, there is one way to place a block.
LEMMA OnePlacement ==
    ASSUME NEW block, NEW others, NEW order, NEW place, NEW anchor \in others,
           Distinct(others, order)
    PROVE  Placements(block, others, order, place, anchor) =
             {Repositioned(block, others, order, place, anchor)}
  <1>1. {j \in others \ {anchor} : order[j] = order[anchor]} = {}
    BY DEF Distinct
  <1>2. Neighbors(others, order, anchor) =
          {<<OrderBefore(others, order, anchor), OrderAfter(others, order, anchor)>>}
    BY <1>1 DEF Neighbors
  <1> QED BY <1>2 DEF Placements, Repositioned

LEMMA NoTiesInLists ==
    ASSUME IInv
    PROVE  /\ \A w : Distinct(StatusesOf(w), StatusOrder)
           /\ \A s : Distinct(StoriesIn(s), StoryOrder)
  <1>1. \A w : Distinct(StatusesOf(w), StatusOrder)
    BY DEF IInv, GoodStatuses, StatusesOf, StatusOrder, Distinct
  <1>2. \A s : Distinct(StoriesIn(s), StoryOrder)
    BY DEF IInv, GoodStories, StoriesIn, StoryOrder, Distinct
  <1> QED BY <1>1, <1>2

LEMMA ReadReorderStoriesIsFresh ==
    ASSUME AloneIInv, NEW r \in Requests, ReadReorderStories(r)
    PROVE  NothingIsStale'
  <1> DEFINE req == request[r]
             args == req.args
             others == StoriesIn(args.status) \ Range(args.block)
             placed == IF \/ args.status \notin StatusesOf(args.workflow)
                          \/ ~CanReorderStories(args.status, args.block, args.anchor)
                       THEN {}
                       ELSE IF args.anchor = NoStory
                       THEN {Appended(args.block, Latest(StoriesIn(args.status), StoryOrder))}
                       ELSE Placements(args.block, others, StoryOrder, args.place, args.anchor)
             plans == {plan \in placed : Within(plan, StoryOrders)}
  <1>1. At(r, "reorder_stories", "read") /\ Decide(r, plans)
    BY DEF ReadReorderStories
  <1>2. BoardIInv /\ NothingIsStale /\ IInv
    BY DEF AloneIInv
  <1>3. ASSUME NEW plan \in plans
        PROVE  DecidedNow(Planned(req, plan))
    <2>1. PICK new : new = Planned(req, plan)
      OBVIOUS
    <2>2. /\ new.op = "reorder_stories" /\ new.args = args /\ new.plan = plan
      BY <1>1, <1>2, <2>1, NewPlan
    <2>3. /\ CanReorderStories(args.status, args.block, args.anchor) /\ Within(plan, StoryOrders)
          /\ plan \in placed
      OBVIOUS
    <2>4. args.anchor # NoStory => args.anchor \in others
      BY <2>3 DEF CanReorderStories
    <2>5. Distinct(others, StoryOrder)
      BY <1>2, NoTiesInLists DEF Distinct
    <2>6. plan = StoryOrdersAfter(args.status, args.block, args.place, args.anchor)
      BY <2>3, <2>4, <2>5, OnePlacement DEF StoryOrdersAfter
    <2> HIDE DEF req, plans, args, placed, others
    <2>7. DecidedNow(new)
      BY <2>2, <2>3, <2>6 DEF DecidedNow
    <2> QED BY <2>1, <2>7
  <1> QED BY <1>1, <1>2, <1>3, DecisionIsFresh, RequestFacts

LEMMA ReadReorderStatusesIsFresh ==
    ASSUME AloneIInv, NEW r \in Requests, ReadReorderStatuses(r)
    PROVE  NothingIsStale'
  <1> DEFINE req == request[r]
             args == req.args
             others == StatusesOf(args.workflow) \ Range(args.block)
             placed == IF CanReorderStatuses(args.workflow, args.block, args.anchor)
                       THEN Placements(args.block, others, StatusOrder, args.place, args.anchor)
                       ELSE {}
             plans == {plan \in placed : Within(plan, StatusOrders)}
  <1>1. At(r, "reorder_statuses", "read") /\ Decide(r, plans)
    BY DEF ReadReorderStatuses
  <1>2. BoardIInv /\ NothingIsStale /\ IInv
    BY DEF AloneIInv
  <1>3. ASSUME NEW plan \in plans
        PROVE  DecidedNow(Planned(req, plan))
    <2>1. PICK new : new = Planned(req, plan)
      OBVIOUS
    <2>2. /\ new.op = "reorder_statuses" /\ new.args = args /\ new.plan = plan
      BY <1>1, <1>2, <2>1, NewPlan
    <2>3. /\ CanReorderStatuses(args.workflow, args.block, args.anchor) /\ Within(plan, StatusOrders)
          /\ plan \in Placements(args.block, others, StatusOrder, args.place, args.anchor)
      OBVIOUS
    <2>4. args.anchor \in others
      BY <2>3 DEF CanReorderStatuses
    <2>5. Distinct(others, StatusOrder)
      BY <1>2, NoTiesInLists DEF Distinct
    <2>6. plan = Repositioned(args.block, others, StatusOrder, args.place, args.anchor)
      BY <2>3, <2>4, <2>5, OnePlacement
    <2> HIDE DEF req, plans, args, placed
    <2>7. DecidedNow(new)
      BY <2>2, <2>3, <2>6 DEF DecidedNow
    <2> QED BY <2>1, <2>7
  <1> QED BY <1>1, <1>2, <1>3, DecisionIsFresh, RequestFacts

LEMMA ReadDeleteStatusIsFresh ==
    ASSUME AloneIInv, NEW r \in Requests, ReadDeleteStatus(r)
    PROVE  NothingIsStale'
  <1> DEFINE req == request[r]
             s == req.args.status
             target == req.args.target
             w == req.row.workflow
             moved == IF target = NoStatus THEN {<<>>}
                      ELSE IF /\ status[target] # NoStatus
                              /\ target # s
                              /\ StoriesIn(s) # {} => status[target].workflow = w
                              /\ StoriesIn(s) \subseteq StoriesOf(w)
                      THEN {Appended(Cards[s], Latest(StoriesIn(target), StoryOrder))}
                      ELSE {}
             plans == {plan \in moved : Within(plan, StoryOrders)}
  <1>1. At(r, "delete_status", "read") /\ Decide(r, plans)
    BY DEF ReadDeleteStatus
  <1>2. BoardIInv /\ NothingIsStale
    BY DEF AloneIInv
  <1>3. ASSUME NEW plan \in plans
        PROVE  DecidedNow(Planned(req, plan))
    <2>1. PICK new : new = Planned(req, plan)
      OBVIOUS
    <2>2. /\ new.op = "delete_status" /\ new.args = req.args /\ new.plan = plan
          /\ LoadedNow(req) /\ req.op = "delete_status"
      BY <1>1, <1>2, <2>1, NewPlan
    <2>3. Within(plan, StoryOrders)
      OBVIOUS
    <2>4. target = NoStatus => plan = <<>>
      OBVIOUS
    <2>5. target # NoStatus =>
            /\ status[target] # NoStatus
            /\ target # s
            /\ StoriesIn(s) # {} => status[target].workflow = w
            /\ plan = Appended(Cards[s], Latest(StoriesIn(target), StoryOrder))
      OBVIOUS
    <2> HIDE DEF req, plans, moved
    <2>6. CanDeleteStatus(s, target)
      BY <2>2, <2>5 DEF LoadedNow, CanDeleteStatus
    <2>7. DecidedNow(new)
      BY <2>2, <2>3, <2>4, <2>5, <2>6 DEF DecidedNow
    <2> QED BY <2>1, <2>7
  <1> QED BY <1>1, <1>2, <1>3, DecisionIsFresh, RequestFacts

LEMMA ReadCreateWorkflowIsFresh ==
    ASSUME AloneIInv, NEW r \in Requests, ReadCreateWorkflow(r)
    PROVE  NothingIsStale'
  <1> DEFINE req == request[r]
             plans == {plan \in {[first |-> workflows = <<>>]} : Len(workflows) < MaxNumWorkflows}
  <1>1. At(r, "create_workflow", "read") /\ Decide(r, plans)
    BY DEF ReadCreateWorkflow
  <1>2. BoardIInv /\ NothingIsStale
    BY DEF AloneIInv
  <1>3. ASSUME NEW plan \in plans
        PROVE  DecidedNow(Planned(req, plan))
    <2>1. PICK new : new = Planned(req, plan)
      OBVIOUS
    <2>2. /\ new.op = "create_workflow" /\ new.plan = plan
      BY <1>1, <1>2, <2>1, NewPlan
    <2>3. plan.first = (workflows = <<>>) /\ Len(workflows) < MaxNumWorkflows
      OBVIOUS
    <2> HIDE DEF req, plans
    <2>4. DecidedNow(new)
      BY <2>2, <2>3 DEF DecidedNow
    <2> QED BY <2>1, <2>4
  <1> QED BY <1>1, <1>2, <1>3, DecisionIsFresh, RequestFacts

LEMMA ReadDeleteWorkflowIsFresh ==
    ASSUME AloneIInv, NEW r \in Requests, ReadDeleteWorkflow(r)
    PROVE  NothingIsStale'
  <1> DEFINE req == request[r]
             w == req.args.workflow
             target == req.args.target
             moved == IF target = NoWorkflow THEN {<<>>}
                      ELSE IF target \in Range(workflows) \ {w} THEN {MigrationOrders(w, target)}
                      ELSE {}
             plans == {plan \in moved : Within(plan, StatusOrders)}
  <1>1. At(r, "delete_workflow", "read") /\ Decide(r, plans)
    BY DEF ReadDeleteWorkflow
  <1>2. BoardIInv /\ NothingIsStale
    BY DEF AloneIInv
  <1>3. ASSUME NEW plan \in plans
        PROVE  DecidedNow(Planned(req, plan))
    <2>1. PICK new : new = Planned(req, plan)
      OBVIOUS
    <2>2. /\ new.op = "delete_workflow" /\ new.args = req.args /\ new.plan = plan
          /\ LoadedNow(req) /\ Loaded(req, given) /\ req.op = "delete_workflow"
      BY <1>1, <1>2, <2>1, NewPlan
    <2>3. Within(plan, StatusOrders)
      OBVIOUS
    <2>4. target = NoWorkflow => plan = <<>>
      OBVIOUS
    <2>5. target # NoWorkflow => target \in Range(workflows) \ {w} /\ plan = MigrationOrders(w, target)
      OBVIOUS
    <2> HIDE DEF req, plans, moved
    <2>6. w # NoWorkflow
      BY <2>2, WorkflowsAssumption DEF Loaded
    <2>7. CanDeleteWorkflow(w, target)
      BY <2>2, <2>5, <2>6 DEF LoadedNow, CanDeleteWorkflow
    <2>8. DecidedNow(new)
      BY <2>2, <2>3, <2>4, <2>5, <2>7 DEF DecidedNow
    <2> QED BY <2>1, <2>8
  <1> QED BY <1>1, <1>2, <1>3, DecisionIsFresh, RequestFacts

LEMMA ReadIsFresh ==
    ASSUME AloneIInv, NEW r \in Requests, Read(r)
    PROVE  NothingIsStale'
  BY ReadCreateStoryIsFresh, ReadChangeStatusIsFresh, ReadChangeWorkflowIsFresh,
     ReadReorderStoriesIsFresh, ReadReorderStatusesIsFresh, ReadDeleteStatusIsFresh,
     ReadCreateWorkflowIsFresh, ReadDeleteWorkflowIsFresh DEF Read

\* What the request that writes has loaded and decided.
LEMMA WriterFacts ==
    ASSUME AloneIInv, NEW r \in Requests, NEW op, NEW step, At(r, op, step),
           NEW req, req = request[r]
    PROVE  /\ req.op = op /\ LoadedNow(req) /\ Loaded(req, given)
           /\ step = "write" => DecidedNow(req) /\ Decided(req, given)
  <1>1. Busy(r) /\ req.op = op /\ req.step = step /\ Loaded(req, given)
        /\ (step = "write" => Decided(req, given))
    BY RequestFacts DEF AloneIInv
  <1>2. IsNow(req)
    BY <1>1 DEF AloneIInv, NothingIsStale, Waiting
  <1> QED BY <1>1, <1>2 DEF IsNow

LEMMA NewIdentities ==
    ASSUME AloneIInv
    PROVE  /\ \A x \in Stories \ given : story[x] = NoStory
           /\ \A s \in Statuses \ given : status[s] = NoStatus
           /\ \A w \in Workflows \ given : w \notin Range(workflows)
           /\ FreeStories \subseteq Stories \ given /\ FreeStatuses \subseteq Statuses \ given
  BY DEF AloneIInv, BoardIInv, AllKnown, InUse, FreeStories, FreeStatuses, Free

\* Nothing is written, or what Workflows says.
Serial == [Next]_vars

LEMMA WriteCreateStoryIsSerial ==
    ASSUME AloneIInv, NEW r \in Requests, WriteCreateStory(r)
    PROVE  Serial
  <1>1. PICK req : req = request[r]
    OBVIOUS
  <1> DEFINE s == req.args.status
  <1>2. At(r, "create_story", "write")
    BY DEF WriteCreateStory
  <1>3. req.op = "create_story" /\ DecidedNow(req)
    BY <1>1, <1>2, WriterFacts
  <1>4. /\ s \in StatusesOf(req.args.workflow) /\ req.plan.status = s
        /\ req.plan.order = EndOf(s) /\ req.plan.order \in StoryOrders
    BY <1>3 DEF DecidedNow
  <1>5. s \in Statuses /\ status[s] # NoStatus /\ status[s].workflow = req.args.workflow
    BY <1>4 DEF StatusesOf
  <1>6. ASSUME NEW x \in FreeStories,
               CommitStories(r, [story EXCEPT ![x] = [workflow |-> req.args.workflow,
                                   status |-> req.plan.status, order |-> req.plan.order]])
        PROVE  Serial
    <2>1. x \in Stories /\ story[x] = NoStory
      BY NewIdentities
    <2>2. [story EXCEPT ![x] = [workflow |-> req.args.workflow,
                                status |-> req.plan.status, order |-> req.plan.order]]
            = StoriesWithLast(x, s)
      BY <1>4, <1>5 DEF StoriesWithLast
    <2>3. \/ UNCHANGED vars
          \/ story' = StoriesWithLast(x, s) /\ UNCHANGED <<workflows, landing, status>>
      BY <1>6, <2>2 DEF CommitStories, Commit
    <2>4. UNCHANGED vars \/ CreateStory(x, s)
      BY <1>4, <1>5, <2>1, <2>3 DEF CreateStory
    <2> QED BY <1>5, <2>1, <2>4 DEF Serial, Next, StoryStep
  <1>7. EndWithout(r) => Serial
    BY DEF EndWithout, Serial
  <1> QED BY <1>1, <1>6, <1>7 DEF WriteCreateStory

LEMMA WriteChangeStatusIsSerial ==
    ASSUME AloneIInv, NEW r \in Requests, WriteChangeStatus(r)
    PROVE  Serial
  <1>1. PICK req : req = request[r]
    OBVIOUS
  <1> DEFINE s == req.args.status
             x == req.args.story
  <1>2. At(r, "change_status", "write")
    BY DEF WriteChangeStatus
  <1>3. req.op = "change_status" /\ DecidedNow(req) /\ Loaded(req, given)
    BY <1>1, <1>2, WriterFacts
  <1>4. /\ CanChangeStatus(x, s) /\ req.plan.status = s
        /\ req.plan.order = EndOf(s) /\ req.plan.order \in StoryOrders
        /\ x \in Stories
    BY <1>3 DEF DecidedNow, Loaded
  <1>5. story[x] # NoStory /\ s \in Statuses
    BY <1>4 DEF CanChangeStatus, StatusesOf
  <1>6. CommitStories(r, [story EXCEPT ![x].status = req.plan.status, ![x].order = req.plan.order])
    BY <1>1, <1>5 DEF WriteChangeStatus
  <1>7. \/ UNCHANGED vars
        \/ story' = StoriesAfterUpdate(x, s) /\ UNCHANGED <<workflows, landing, status>>
    BY <1>4, <1>6 DEF CommitStories, Commit, StoriesAfterUpdate
  <1>8. UNCHANGED vars \/ ChangeStatus(x, s)
    BY <1>4, <1>7 DEF ChangeStatus
  <1> QED BY <1>4, <1>5, <1>8 DEF Serial, Next, StoryStep

LEMMA WriteChangeWorkflowIsSerial ==
    ASSUME AloneIInv, NEW r \in Requests, WriteChangeWorkflow(r)
    PROVE  Serial
  <1>1. PICK req : req = request[r]
    OBVIOUS
  <1> DEFINE w == req.args.workflow
             x == req.args.story
             s == Head(Columns[w])
  <1>2. At(r, "change_workflow", "write")
    BY DEF WriteChangeWorkflow
  <1>3. req.op = "change_workflow" /\ DecidedNow(req) /\ Loaded(req, given)
    BY <1>1, <1>2, WriterFacts
  <1>4. /\ CanChangeWorkflow(x, w) /\ req.plan.status = s
        /\ req.plan.order = EndOf(s) /\ req.plan.order \in StoryOrders
        /\ x \in Stories /\ w \in Workflows
    BY <1>3 DEF DecidedNow, Loaded
  <1>5. story[x] # NoStory /\ StatusesOf(w) # {}
    BY <1>4 DEF CanChangeWorkflow
  <1>6. status[s].workflow = w
    <2>1. Ordered(StatusesOf(w), StatusOrder)
      BY ListsAreOrdered DEF AloneIInv
    <2>2. Columns[w] = Sorted(StatusesOf(w), StatusOrder)
      BY <1>4 DEF Columns
    <2>3. Range(Columns[w]) = StatusesOf(w) /\ Columns[w] \in Seq(StatusesOf(w))
      BY <2>1, <2>2, SortedFacts
    <2>4. s \in StatusesOf(w)
      BY <1>5, <2>3 DEF Range
    <2> QED BY <2>4 DEF StatusesOf
  <1>7. CommitStories(r, [story EXCEPT ![x] = [workflow |-> w,
                            status |-> req.plan.status, order |-> req.plan.order]])
    BY <1>1, <1>5 DEF WriteChangeWorkflow
  <1>8. [story EXCEPT ![x] = [workflow |-> w, status |-> req.plan.status, order |-> req.plan.order]]
          = StoriesWithLast(x, s)
    BY <1>4, <1>6 DEF StoriesWithLast
  <1>9. \/ UNCHANGED vars
        \/ story' = StoriesWithLast(x, s) /\ UNCHANGED <<workflows, landing, status>>
    BY <1>7, <1>8 DEF CommitStories, Commit
  <1>10. UNCHANGED vars \/ ChangeWorkflow(x, w)
    BY <1>4, <1>9 DEF ChangeWorkflow
  <1> QED BY <1>4, <1>10 DEF Serial, Next, StoryStep

LEMMA DeleteLoadedStoryIsSerial ==
    ASSUME AloneIInv, NEW r \in Requests, DeleteLoadedStory(r)
    PROVE  Serial
  <1>1. PICK req : req = request[r]
    OBVIOUS
  <1> DEFINE x == req.args.story
  <1>2. req.op = "delete_story" /\ LoadedNow(req) /\ Loaded(req, given)
    BY <1>1, WriterFacts DEF DeleteLoadedStory
  <1>3. story[x] # NoStory /\ x \in Stories
    BY <1>2 DEF LoadedNow, Loaded
  <1>4. UNCHANGED vars \/ DeleteStory(x)
    BY <1>1, <1>3 DEF DeleteLoadedStory, CommitStories, Commit, DeleteStory
  <1> QED BY <1>3, <1>4 DEF Serial, Next, StoryStep

LEMMA InsertStatusIsSerial ==
    ASSUME AloneIInv, NEW r \in Requests, InsertStatus(r)
    PROVE  Serial
  <1>1. PICK req : req = request[r]
    OBVIOUS
  <1> DEFINE w == req.args.workflow
             order == NextOrder(Latest(StatusesOf(w), StatusOrder))
             free == {s \in FreeStatuses : order \in StatusOrders}
  <1>2. req.op = "create_status" /\ LoadedNow(req) /\ Loaded(req, given)
    BY <1>1, WriterFacts DEF InsertStatus
  <1>3. w \in Range(workflows) /\ w \in Workflows
    BY <1>2 DEF LoadedNow, Loaded
  <1>4. ASSUME NEW s \in free,
               CommitStatuses(r, [status EXCEPT ![s] = [workflow |-> w, order |-> order]])
        PROVE  Serial
    <2>1. s \in Statuses /\ status[s] = NoStatus /\ order \in StatusOrders
      BY NewIdentities
    <2> HIDE DEF order, free
    <2>2. \/ UNCHANGED vars
          \/ /\ status' = [status EXCEPT ![s] = [workflow |-> w, order |-> order]]
             /\ UNCHANGED <<workflows, landing, story>>
      BY <1>4 DEF CommitStatuses, Commit
    <2>3. UNCHANGED vars \/ CreateStatus(w, s)
      BY <1>3, <2>1, <2>2 DEF CreateStatus, order
    <2> QED BY <1>3, <2>1, <2>3 DEF Serial, Next, StatusStep
  <1>5. EndWithout(r) => Serial
    BY DEF EndWithout, Serial
  <1>6. (\E s \in free : CommitStatuses(r, [status EXCEPT ![s] = [workflow |-> w, order |-> order]]))
          \/ EndWithout(r)
    BY <1>1 DEF InsertStatus
  <1> QED BY <1>4, <1>5, <1>6

\* What was loaded is what is there: nothing changes.
LEMMA SaveStatusIsSerial ==
    ASSUME AloneIInv, NEW r \in Requests, SaveStatus(r)
    PROVE  Serial
  <1>1. PICK req : req = request[r]
    OBVIOUS
  <1>2. req.op = "update_status" /\ LoadedNow(req)
    BY <1>1, WriterFacts DEF SaveStatus
  <1>3. req.row = status[req.args.status]
    BY <1>2 DEF LoadedNow
  <1>4. status = [s \in Statuses |-> status[s]]
    BY DEF AloneIInv, BoardIInv, Rows
  <1>5. [status EXCEPT ![req.args.status] = req.row] = status
    BY <1>3, <1>4
  <1>6. UNCHANGED vars
    BY <1>1, <1>5 DEF SaveStatus, CommitStatuses, Commit, vars
  <1> QED BY <1>6 DEF Serial

LEMMA WithinFacts ==
    ASSUME NEW plan, NEW bound, Within(plan, bound)
    PROVE  \A i \in DOMAIN plan : plan[i] \in bound
  BY DEF Within, Range

\* The stories that move take the orders that were decided, in the bounds.
LEMMA StoriesMovedStayBounded ==
    ASSUME AloneIInv, NEW s, NEW plan, Within(plan, StoryOrders),
           NEW moved, moved = StoriesMoved(s, plan)
    PROVE  \A x \in Stories : moved[x] # NoStory =>
             /\ story[x] # NoStory /\ moved[x].order \in StoryOrders
             /\ x \in DOMAIN plan => moved[x].status = s
             /\ x \notin DOMAIN plan => moved[x] = story[x]
  <1> SUFFICES ASSUME NEW x \in Stories, NEW row, row = moved[x], row # NoStory
               PROVE  /\ story[x] # NoStory /\ row.order \in StoryOrders
                      /\ x \in DOMAIN plan => row.status = s
                      /\ x \notin DOMAIN plan => row = story[x]
    OBVIOUS
  <1>1. story \in [Stories -> StoryRow \cup {NoStory}] /\ StoriesBounded
    BY DEF AloneIInv, IInv, GoodStories
  <1>2. row = IF x \in DOMAIN plan /\ story[x] # NoStory
              THEN [story[x] EXCEPT !.status = s, !.order = plan[x]] ELSE story[x]
    BY DEF StoriesMoved
  <1>3. story[x] # NoStory
    BY <1>2
  <1>4. CASE x \in DOMAIN plan
    <2>1. story[x] \in StoryRow /\ plan[x] \in StoryOrders
      BY <1>1, <1>3, <1>4, WithinFacts
    <2>2. row = [story[x] EXCEPT !.status = s, !.order = plan[x]]
      BY <1>2, <1>3, <1>4
    <2>3. row = [workflow |-> story[x].workflow, status |-> s, order |-> plan[x]]
      BY <2>1, <2>2, MovedRow
    <2>4. row.order = plan[x] /\ row.status = s
      BY <2>3
    <2> QED BY <1>3, <1>4, <2>1, <2>2, <2>4
  <1>5. CASE x \notin DOMAIN plan
    BY <1>1, <1>2, <1>3, <1>5 DEF StoriesBounded, Bounded
  <1> QED BY <1>4, <1>5

LEMMA WriteReorderStoriesIsSerial ==
    ASSUME AloneIInv, NEW r \in Requests, WriteReorderStories(r)
    PROVE  Serial
  <1>1. PICK req : req = request[r]
    OBVIOUS
  <1>2. PICK s, block, place, anchor, plan, sy :
          /\ s = req.args.status /\ block = req.args.block /\ place = req.args.place
          /\ anchor = req.args.anchor /\ plan = req.plan /\ sy = StoriesMoved(s, plan)
    OBVIOUS
  <1>3. At(r, "reorder_stories", "write") /\ CommitStories(r, sy)
    BY <1>1, <1>2 DEF WriteReorderStories
  <1>4. req.op = "reorder_stories" /\ DecidedNow(req) /\ Loaded(req, given)
    BY <1>1, <1>3, WriterFacts
  <1>5. /\ CanReorderStories(s, block, anchor)
        /\ plan = StoryOrdersAfter(s, block, place, anchor) /\ Within(plan, StoryOrders)
        /\ s \in Statuses /\ block \in Arrangements(Stories) /\ place \in Places
        /\ anchor \in Stories \cup {NoStory}
    BY <1>2, <1>4 DEF DecidedNow, Loaded
  <1>6. DOMAIN plan \subseteq Range(block) \cup StoriesIn(s)
    <2>1. GoodStories(story)
      BY DEF AloneIInv, IInv
    <2>2. anchor # NoStory => anchor \in StoriesIn(s) \ Range(block)
      BY <1>5 DEF CanReorderStories
    <2> QED BY <1>5, <2>1, <2>2, StoryOrdersFacts
  <1>7. \A x \in DOMAIN plan : story[x] # NoStory
    BY <1>5, <1>6 DEF CanReorderStories, StoriesOf, StoriesIn
  <1>8. sy = StoriesAfterReorder(s, block, place, anchor)
    BY <1>2, <1>5, <1>7 DEF StoriesMoved, StoriesAfterReorder
  <1>9. Bounded(sy, NoStory, StoryOrders)
    <2>1. DOMAIN sy = Stories
      BY <1>2 DEF StoriesMoved
    <2>2. \A x \in Stories : sy[x] # NoStory => sy[x].order \in StoryOrders
      BY <1>2, <1>5, StoriesMovedStayBounded
    <2> QED BY <2>1, <2>2 DEF Bounded
  <1>10. UNCHANGED vars \/ (story' = sy /\ UNCHANGED <<workflows, landing, status>>)
    BY <1>3 DEF CommitStories, Commit
  <1>11. UNCHANGED vars \/ ReorderStories(s, block, place, anchor)
    BY <1>5, <1>8, <1>9, <1>10 DEF ReorderStories
  <1> QED BY <1>5, <1>11 DEF Serial, Next, StoryStep

\* The statuses that move take the orders that were decided, in the bounds.
LEMMA StatusesMovedStayBounded ==
    ASSUME AloneIInv, NEW w, NEW plan, Within(plan, StatusOrders),
           NEW moved, moved = StatusesMoved(w, plan)
    PROVE  \A s \in Statuses : moved[s] # NoStatus =>
             /\ status[s] # NoStatus /\ moved[s].order \in StatusOrders
             /\ s \in DOMAIN plan => moved[s].workflow = w
             /\ s \notin DOMAIN plan => moved[s] = status[s]
  <1> SUFFICES ASSUME NEW s \in Statuses, NEW row, row = moved[s], row # NoStatus
               PROVE  /\ status[s] # NoStatus /\ row.order \in StatusOrders
                      /\ s \in DOMAIN plan => row.workflow = w
                      /\ s \notin DOMAIN plan => row = status[s]
    OBVIOUS
  <1>1. status \in [Statuses -> StatusRow \cup {NoStatus}] /\ StatusesBounded
    BY DEF AloneIInv, IInv, GoodStatuses
  <1>2. row = IF s \in DOMAIN plan /\ status[s] # NoStatus
              THEN [workflow |-> w, order |-> plan[s]] ELSE status[s]
    BY DEF StatusesMoved
  <1>3. status[s] # NoStatus
    BY <1>2
  <1>4. CASE s \in DOMAIN plan
    <2>1. row = [workflow |-> w, order |-> plan[s]]
      BY <1>2, <1>3, <1>4
    <2>2. row.order = plan[s] /\ row.workflow = w
      BY <2>1
    <2>3. plan[s] \in StatusOrders
      BY <1>4, WithinFacts
    <2> QED BY <1>3, <1>4, <2>1, <2>2, <2>3
  <1>5. CASE s \notin DOMAIN plan
    BY <1>1, <1>2, <1>3, <1>5 DEF StatusesBounded, Bounded
  <1> QED BY <1>4, <1>5

LEMMA WriteReorderStatusesIsSerial ==
    ASSUME AloneIInv, NEW r \in Requests, WriteReorderStatuses(r)
    PROVE  Serial
  <1>1. PICK req : req = request[r]
    OBVIOUS
  <1>2. PICK w, block, place, anchor, plan, st :
          /\ w = req.args.workflow /\ block = req.args.block /\ place = req.args.place
          /\ anchor = req.args.anchor /\ plan = req.plan /\ st = StatusesMoved(w, plan)
    OBVIOUS
  <1>3. At(r, "reorder_statuses", "write") /\ CommitStatuses(r, st)
    BY <1>1, <1>2 DEF WriteReorderStatuses
  <1>4. req.op = "reorder_statuses" /\ DecidedNow(req) /\ Loaded(req, given)
    BY <1>1, <1>3, WriterFacts
  <1> DEFINE others == StatusesOf(w) \ Range(block)
  <1>5. /\ CanReorderStatuses(w, block, anchor)
        /\ plan = Repositioned(block, others, StatusOrder, place, anchor)
        /\ Within(plan, StatusOrders)
        /\ w \in Workflows /\ block \in Arrangements(Statuses) /\ place \in Places
        /\ anchor \in Statuses
    BY <1>2, <1>4 DEF DecidedNow, Loaded
  <1>6. DOMAIN plan \subseteq StatusesOf(w)
    <2>1. block \in Seq(Statuses) /\ block # <<>>
      BY <1>5, WorkflowsAssumption, Block
    <2>2. others \in SUBSET Statuses /\ Ordered(others, StatusOrder)
      BY StatusFacts DEF AloneIInv, IInv
    <2>3. anchor \in others /\ Range(block) \subseteq StatusesOf(w)
      BY <1>5 DEF CanReorderStatuses
    <2> HIDE DEF others
    <2>4. DOMAIN Repositioned(block, others, StatusOrder, place, anchor) \subseteq Range(block) \cup others
      BY <1>5, <2>1, <2>2, <2>3, RepositionedFacts
    <2> QED BY <1>5, <2>3, <2>4 DEF others
  <1>7. st = StatusesAfterReorder(w, block, place, anchor)
    <2>1. ASSUME NEW s \in DOMAIN plan
          PROVE  [workflow |-> w, order |-> plan[s]] = [status[s] EXCEPT !.order = plan[s]]
      <3>1. status[s] \in StatusRow /\ status[s].workflow = w
        BY <1>6 DEF AloneIInv, IInv, GoodStatuses, StatusesOf
      <3> QED BY <3>1 DEF StatusRow
    <2>2. \A s \in DOMAIN plan : status[s] # NoStatus
      BY <1>6 DEF StatusesOf
    <2>3. st = [s \in Statuses |->
                  IF s \in DOMAIN plan THEN [workflow |-> w, order |-> plan[s]] ELSE status[s]]
      BY <1>2, <2>2 DEF StatusesMoved
    <2>4. StatusesAfterReorder(w, block, place, anchor)
            = [s \in Statuses |->
                 IF s \in DOMAIN plan THEN [status[s] EXCEPT !.order = plan[s]] ELSE status[s]]
      BY <1>5 DEF StatusesAfterReorder
    <2> QED BY <2>1, <2>3, <2>4
  <1>8. Bounded(st, NoStatus, StatusOrders)
    <2>1. DOMAIN st = Statuses
      BY <1>2 DEF StatusesMoved
    <2>2. \A s \in Statuses : st[s] # NoStatus => st[s].order \in StatusOrders
      BY <1>2, <1>5, StatusesMovedStayBounded
    <2> QED BY <2>1, <2>2 DEF Bounded
  <1>9. UNCHANGED vars \/ (status' = st /\ UNCHANGED <<workflows, landing, story>>)
    BY <1>3 DEF CommitStatuses, Commit
  <1>10. UNCHANGED vars \/ ReorderStatuses(w, block, place, anchor)
    BY <1>5, <1>7, <1>8, <1>9 DEF ReorderStatuses
  <1> QED BY <1>5, <1>10 DEF Serial, Next, StatusStep

LEMMA WriteDeleteStatusIsSerial ==
    ASSUME AloneIInv, NEW r \in Requests, WriteDeleteStatus(r)
    PROVE  Serial
  <1>1. PICK req : req = request[r]
    OBVIOUS
  <1>2. PICK s, target, plan, moved, sy :
          /\ s = req.args.status /\ target = req.args.target /\ plan = req.plan
          /\ moved = StoriesMoved(target, plan)
          /\ sy = [x \in Stories |->
                     IF moved[x] # NoStory /\ moved[x].status = s THEN NoStory ELSE moved[x]]
    OBVIOUS
  <1>3. /\ At(r, "delete_status", "write")
        /\ Commit(r, workflows, landing, [status EXCEPT ![s] = NoStatus], sy)
    BY <1>1, <1>2 DEF WriteDeleteStatus
  <1>4. req.op = "delete_status" /\ DecidedNow(req) /\ Loaded(req, given)
    BY <1>1, <1>3, WriterFacts
  <1>5. /\ CanDeleteStatus(s, target)
        /\ target # NoStatus =>
             plan = Appended(Cards[s], Latest(StoriesIn(target), StoryOrder))
        /\ target = NoStatus => DOMAIN plan = {}
        /\ Within(plan, StoryOrders)
        /\ s \in Statuses /\ target \in Statuses \cup {NoStatus}
    BY <1>2, <1>4 DEF DecidedNow, Loaded
  <1>6. target # NoStatus => DOMAIN plan = StoriesIn(s) /\ target # s
    <2>1. Range(Cards[s]) = StoriesIn(s)
      BY <1>5, CardsWhom DEF AloneIInv
    <2> QED BY <1>5, <2>1, AppendedWhom DEF CanDeleteStatus
  <1>7. \A x \in Stories : moved[x] # NoStory =>
          /\ story[x] # NoStory /\ moved[x].order \in StoryOrders
          /\ x \in DOMAIN plan => moved[x].status = target
          /\ x \notin DOMAIN plan => moved[x] = story[x]
    BY <1>2, <1>5, StoriesMovedStayBounded
  <1>8. \A x \in Stories : moved[x] = NoStory /\ x \notin DOMAIN plan => story[x] = NoStory
    BY <1>2 DEF StoriesMoved
  <1>9. sy = StoriesAfterDeletion(s, target)
    <2>1. CASE target = NoStatus
      <3>1. sy = [x \in Stories |-> IF x \notin StoriesIn(s) THEN story[x] ELSE NoStory]
        <4>1. ASSUME NEW x \in Stories
              PROVE  (IF moved[x] # NoStory /\ moved[x].status = s THEN NoStory ELSE moved[x])
                       = IF x \notin StoriesIn(s) THEN story[x] ELSE NoStory
          BY <1>5, <1>7, <1>8, <2>1 DEF StoriesIn
        <4> QED BY <1>2, <4>1
      <3> QED BY <2>1, <3>1 DEF StoriesAfterDeletion
    <2>2. CASE target # NoStatus
      <3>1. ASSUME NEW x \in Stories
            PROVE  (IF moved[x] # NoStory /\ moved[x].status = s THEN NoStory ELSE moved[x])
                     = IF x \notin StoriesIn(s) THEN story[x]
                       ELSE [story[x] EXCEPT !.status = target, !.order = plan[x]]
        <4>1. CASE x \in StoriesIn(s)
          <5>1. x \in DOMAIN plan /\ story[x] # NoStory
            BY <1>6, <2>2, <4>1 DEF StoriesIn
          <5>2. moved[x] = [story[x] EXCEPT !.status = target, !.order = plan[x]]
            BY <1>2, <5>1 DEF StoriesMoved
          <5>3. ~(moved[x] # NoStory /\ moved[x].status = s)
            BY <1>6, <1>7, <2>2, <5>1
          <5> QED BY <4>1, <5>2, <5>3
        <4>2. CASE x \notin StoriesIn(s)
          <5>1. moved[x] = story[x]
            BY <1>6, <1>7, <1>8, <2>2, <4>2
          <5>2. ~(story[x] # NoStory /\ story[x].status = s)
            BY <4>2 DEF StoriesIn
          <5> QED BY <4>2, <5>1, <5>2
        <4> QED BY <4>1, <4>2
      <3>2. sy = [x \in Stories |-> IF x \notin StoriesIn(s) THEN story[x]
                    ELSE [story[x] EXCEPT !.status = target, !.order = plan[x]]]
        BY <1>2, <3>1
      <3> QED BY <1>5, <2>2, <3>2 DEF StoriesAfterDeletion
    <2> QED BY <2>1, <2>2
  <1>10. Bounded(sy, NoStory, StoryOrders)
    <2>1. DOMAIN sy = Stories /\ \A x \in Stories : sy[x] # NoStory => sy[x] = moved[x]
      BY <1>2
    <2> QED BY <1>7, <2>1 DEF Bounded
  <1>11. \/ UNCHANGED vars
         \/ /\ story' = sy /\ status' = [status EXCEPT ![s] = NoStatus]
            /\ UNCHANGED <<workflows, landing>>
    BY <1>3 DEF Commit
  <1>12. UNCHANGED vars \/ DeleteStatus(s, target)
    BY <1>5, <1>9, <1>10, <1>11 DEF DeleteStatus
  <1> QED BY <1>5, <1>12 DEF Serial, Next, StatusStep

LEMMA WriteCreateWorkflowIsSerial ==
    ASSUME AloneIInv, NEW r \in Requests, WriteCreateWorkflow(r)
    PROVE  Serial
  <1>1. PICK req : req = request[r]
    OBVIOUS
  <1> DEFINE Filled(w, ids) ==
               [s \in Statuses |->
                  IF s \in Range(ids)
                  THEN [workflow |-> w, order |-> CHOOSE k \in 1 .. Len(ids) : ids[k] = s]
                  ELSE status[s]]
  <1>2. At(r, "create_workflow", "write")
    BY DEF WriteCreateWorkflow
  <1>3. req.op = "create_workflow" /\ DecidedNow(req)
    BY <1>1, <1>2, WriterFacts
  <1>4. req.plan.first = (workflows = <<>>) /\ Len(workflows) < MaxNumWorkflows
    BY <1>3 DEF DecidedNow
  <1>5. ASSUME NEW w \in Workflows \ given, NEW ids \in SetToAllKPermutations(FreeStatuses),
               Len(ids) = TemplateSize,
               Commit(r, Append(workflows, w), IF req.plan.first THEN w ELSE landing,
                      Filled(w, ids), story)
        PROVE  Serial
    <2>1. w \in Workflows /\ w \notin Range(workflows)
      BY NewIdentities
    <2>2. ids \in SetToAllKPermutations(Statuses) /\ \A s \in Range(ids) : status[s] = NoStatus
      BY FreeTemplates, NewIdentities
    <2>3. \/ UNCHANGED vars
          \/ /\ workflows' = Append(workflows, w)
             /\ landing' = IF req.plan.first THEN w ELSE landing
             /\ status' = Filled(w, ids)
             /\ UNCHANGED story
      BY <1>5 DEF Commit
    <2>4. (IF req.plan.first THEN w ELSE landing) = IF workflows = <<>> THEN w ELSE landing
      BY <1>4
    <2>5. UNCHANGED vars \/ CreateWorkflow(w, ids)
      BY <1>4, <1>5, <2>1, <2>2, <2>3, <2>4 DEF CreateWorkflow
    <2> QED BY <2>1, <2>2, <2>5 DEF Serial, Next, WorkflowStep
  <1>6. EndWithout(r) => Serial
    BY DEF EndWithout, Serial
  <1> QED BY <1>1, <1>5, <1>6 DEF WriteCreateWorkflow

LEMMA WriteDeleteWorkflowIsSerial ==
    ASSUME AloneIInv, NEW r \in Requests, WriteDeleteWorkflow(r)
    PROVE  Serial
  <1>1. PICK req : req = request[r]
    OBVIOUS
  <1> DEFINE w == request[r].args.workflow
             target == request[r].args.target
             plan == request[r].plan
             rows == StatusesMoved(target, plan)
             moved == [x \in Stories |->
                         IF x \in StoriesOf(w) /\ story[x].status \in DOMAIN plan
                         THEN [story[x] EXCEPT !.workflow = target] ELSE story[x]]
             gone == {s \in Statuses : rows[s] # NoStatus /\ rows[s].workflow = w}
             left == IF w \in Range(workflows) THEN WorkflowsWithout(w) ELSE workflows
             land == IF w \notin Range(workflows) \/ request[r].row # w THEN landing
                     ELSE IF left = <<>> THEN NoWorkflow ELSE Head(left)
             st == [s \in Statuses |-> IF s \in gone THEN NoStatus ELSE rows[s]]
             sy == [x \in Stories |->
                      IF moved[x] # NoStory /\ (moved[x].workflow = w \/ moved[x].status \in gone)
                      THEN NoStory ELSE moved[x]]
  <1>2. At(r, "delete_workflow", "write") /\ Commit(r, left, land, st, sy)
    BY DEF WriteDeleteWorkflow
  <1>3. /\ w = req.args.workflow /\ target = req.args.target /\ plan = req.plan
        /\ rows = StatusesMoved(target, plan)
        /\ left = IF w \in Range(workflows) THEN WorkflowsWithout(w) ELSE workflows
        /\ land = IF w \notin Range(workflows) \/ req.row # w THEN landing
                  ELSE IF left = <<>> THEN NoWorkflow ELSE Head(left)
    BY <1>1
  <1> HIDE DEF w, target, plan, rows, left, land
  <1>4. /\ \A x \in Stories : moved[x] =
             IF x \in StoriesOf(w) /\ story[x].status \in DOMAIN plan
             THEN [story[x] EXCEPT !.workflow = target] ELSE story[x]
        /\ \A s : s \in gone <=> s \in Statuses /\ rows[s] # NoStatus /\ rows[s].workflow = w
    OBVIOUS
  <1> HIDE DEF moved, gone
  <1>5. /\ st = [s \in Statuses |-> IF s \in gone THEN NoStatus ELSE rows[s]]
        /\ sy = [x \in Stories |->
             IF moved[x] # NoStory /\ (moved[x].workflow = w \/ moved[x].status \in gone)
             THEN NoStory ELSE moved[x]]
    OBVIOUS
  <1> HIDE DEF st, sy
  <1>6. req.op = "delete_workflow" /\ LoadedNow(req) /\ DecidedNow(req) /\ Loaded(req, given)
    BY <1>1, <1>2, WriterFacts
  <1>7. /\ CanDeleteWorkflow(w, target) /\ req.row = landing
        /\ target # NoWorkflow => plan = MigrationOrders(w, target)
        /\ target = NoWorkflow => DOMAIN plan = {}
        /\ Within(plan, StatusOrders)
        /\ w \in Workflows /\ target \in Workflows \cup {NoWorkflow}
    BY <1>3, <1>6 DEF LoadedNow, DecidedNow, Loaded
  <1>8. w \in Range(workflows) /\ target # w
    BY <1>7 DEF CanDeleteWorkflow
  <1>9. Commit(r, WorkflowsWithout(w), LandingWithout(w), st, sy)
    <2>1. left = WorkflowsWithout(w)
      BY <1>3, <1>8
    <2>2. land = LandingWithout(w)
      BY <1>3, <1>7, <1>8, <2>1 DEF LandingWithout
    <2> QED BY <1>2, <2>1, <2>2
  <1>10. /\ GoodStatuses(status, workflows) /\ InPlace(story, status)
         /\ story \in [Stories -> StoryRow \cup {NoStory}]
    BY DEF AloneIInv, IInv, GoodStories
  <1>11. target # NoWorkflow =>
           /\ StatusesToMove(w) \subseteq DOMAIN plan
           /\ DOMAIN plan \subseteq StatusesToMove(w) \cup StatusesOf(target)
    BY <1>7, <1>8, <1>10, MigrationFacts
  <1>12. \A s \in DOMAIN plan : s \in Statuses /\ status[s] # NoStatus
    BY <1>7, <1>11 DEF StatusesToMove, StatusesOf
  <1>13. \A s \in Statuses : rows[s] # NoStatus =>
           /\ rows[s].order \in StatusOrders
           /\ s \in DOMAIN plan => rows[s].workflow = target
           /\ s \notin DOMAIN plan => rows[s] = status[s]
    BY <1>3, <1>7, StatusesMovedStayBounded
  <1>14. \A s \in Statuses :
           rows[s] = IF s \in DOMAIN plan THEN [workflow |-> target, order |-> plan[s]] ELSE status[s]
    BY <1>3, <1>12 DEF StatusesMoved
  <1>15. \A s : s \in gone <=> s \in StatusesOf(w) /\ s \notin DOMAIN plan
    <2>1. ASSUME NEW s \in Statuses
          PROVE  s \in gone <=> s \in StatusesOf(w) /\ s \notin DOMAIN plan
      <3>1. CASE s \in DOMAIN plan
        BY <1>4, <1>8, <1>13, <3>1
      <3>2. CASE s \notin DOMAIN plan
        BY <1>4, <1>14, <3>2 DEF StatusesOf
      <3> QED BY <3>1, <3>2
    <2> QED BY <1>4, <2>1 DEF StatusesOf
  <1>16. st = StatusesAfterMigration(w, target)
    <2>1. st = [s \in Statuses |->
                  IF s \in DOMAIN plan THEN [workflow |-> target, order |-> plan[s]]
                  ELSE IF s \in StatusesOf(w) THEN NoStatus ELSE status[s]]
      BY <1>5, <1>14, <1>15
    <2>2. CASE target = NoWorkflow
      <3>1. st = [s \in Statuses |-> IF s \in StatusesOf(w) THEN NoStatus ELSE status[s]]
        BY <1>7, <2>1, <2>2
      <3> QED BY <2>2, <3>1 DEF StatusesAfterMigration
    <2>3. CASE target # NoWorkflow
      BY <1>7, <2>1, <2>3 DEF StatusesAfterMigration
    <2> QED BY <2>2, <2>3
  <1>17. Bounded(st, NoStatus, StatusOrders)
    <2>1. DOMAIN st = Statuses /\ \A s \in Statuses : st[s] # NoStatus => st[s] = rows[s]
      BY <1>5
    <2> QED BY <1>13, <2>1 DEF Bounded
  <1>18. ASSUME NEW x \in Stories
         PROVE  sy[x] = IF x \notin StoriesOf(w) THEN story[x]
                        ELSE IF target # NoWorkflow /\ story[x].status \in StatusesToMove(w)
                        THEN [story[x] EXCEPT !.workflow = target] ELSE NoStory
    <2>1. sy[x] = IF moved[x] # NoStory /\ (moved[x].workflow = w \/ moved[x].status \in gone)
                  THEN NoStory ELSE moved[x]
      BY <1>5
    <2>2. story[x] # NoStory =>
            /\ story[x] \in StoryRow /\ story[x].status \in Statuses
            /\ status[story[x].status] # NoStatus
            /\ status[story[x].status].workflow = story[x].workflow
      BY <1>10 DEF InPlace, StoryRow
    <2>3. CASE x \notin StoriesOf(w)
      <3>1. moved[x] = story[x] /\ (story[x] # NoStory => story[x].workflow # w)
        BY <1>4, <2>3 DEF StoriesOf
      <3>2. story[x] # NoStory => story[x].status \notin gone
        BY <1>15, <2>2, <3>1 DEF StatusesOf
      <3> QED BY <2>1, <2>3, <3>1, <3>2
    <2>4. CASE x \in StoriesOf(w)
      <3>1. story[x] # NoStory /\ story[x].workflow = w /\ story[x].status \in StatusesToMove(w)
        BY <2>2, <2>4 DEF StoriesOf, StatusesToMove, StatusesOf, StoriesIn
      <3>2. CASE target = NoWorkflow
        <4>1. moved[x] = story[x]
          BY <1>4, <1>7, <3>2
        <4> QED BY <2>1, <2>4, <3>1, <3>2, <4>1
      <3>3. CASE target # NoWorkflow
        <4>1. story[x].status \in DOMAIN plan
          BY <1>11, <3>1, <3>3
        <4>2. moved[x] = [story[x] EXCEPT !.workflow = target]
          BY <1>4, <2>4, <4>1
        <4>3. moved[x].workflow = target /\ moved[x].status = story[x].status
          BY <2>2, <3>1, <4>2 DEF StoryRow
        <4> QED BY <1>8, <1>15, <2>1, <2>4, <3>1, <3>3, <4>1, <4>2, <4>3
      <3> QED BY <3>2, <3>3
    <2> QED BY <2>3, <2>4
  <1>19. sy = StoriesAfterMigration(w, target)
    BY <1>5, <1>18 DEF StoriesAfterMigration
  <1>20. \/ UNCHANGED vars
         \/ /\ workflows' = WorkflowsWithout(w) /\ landing' = LandingWithout(w)
            /\ status' = st /\ story' = sy
    BY <1>9 DEF Commit
  <1>21. UNCHANGED vars \/ DeleteWorkflow(w, target)
    BY <1>7, <1>16, <1>17, <1>19, <1>20 DEF DeleteWorkflow
  <1> QED BY <1>7, <1>21 DEF Serial, Next, WorkflowStep

LEMMA WriteIsSerial ==
    ASSUME AloneIInv, NEW r \in Requests, Write(r)
    PROVE  Serial
  BY WriteCreateStoryIsSerial, WriteChangeStatusIsSerial, WriteChangeWorkflowIsSerial,
     WriteReorderStoriesIsSerial, WriteReorderStatusesIsSerial, DeleteLoadedStoryIsSerial,
     InsertStatusIsSerial, SaveStatusIsSerial, WriteDeleteStatusIsSerial,
     WriteCreateWorkflowIsSerial, WriteDeleteWorkflowIsSerial DEF Write

\* A request that writes has ended.
LEMMA WriteEnds ==
    ASSUME NEW r \in Requests, Write(r)
    PROVE  Busy(r) /\ Finish(r) /\ UNCHANGED alone
  <1>1. \A q, ws, land, st, sy : Commit(q, ws, land, st, sy) => Finish(q) /\ UNCHANGED alone
    BY DEF Commit, Remember
  <1>2. EndWithout(r) => Finish(r) /\ UNCHANGED alone
    BY DEF EndWithout, Remember
  <1>3. Finish(r) /\ UNCHANGED alone
    BY <1>1, <1>2 DEF Write, CommitStories, CommitStatuses, WriteCreateStory, WriteChangeStatus,
       WriteChangeWorkflow, WriteReorderStories, WriteReorderStatuses, DeleteLoadedStory,
       InsertStatus, SaveStatus, WriteDeleteStatus, WriteCreateWorkflow, WriteDeleteWorkflow
  <1>4. Busy(r)
    BY DEF Busy, At, Write, WriteCreateStory, WriteChangeStatus, WriteChangeWorkflow,
       WriteReorderStories, WriteReorderStatuses, DeleteLoadedStory, InsertStatus, SaveStatus,
       WriteDeleteStatus, WriteCreateWorkflow, WriteDeleteWorkflow
  <1> QED BY <1>3, <1>4

LEMMA ReadWritesNothing ==
    ASSUME NEW r \in Requests, Read(r)
    PROVE  UNCHANGED vars /\ UNCHANGED alone
  <1>1. \A plans : Decide(r, plans) => UNCHANGED vars /\ UNCHANGED alone
    BY DEF Decide, EndWithout, Remember
  <1> QED BY <1>1 DEF Read, ReadCreateStory, ReadChangeStatus, ReadChangeWorkflow,
       ReadReorderStories, ReadReorderStatuses, ReadDeleteStatus, ReadCreateWorkflow,
       ReadDeleteWorkflow

LEMMA LoadWritesNothing ==
    ASSUME NEW r \in Requests, Loads(r)
    PROVE  UNCHANGED vars /\ UNCHANGED alone
  <1>1. \A op, args, row : Load(r, op, args, row) => UNCHANGED vars /\ UNCHANGED alone
    BY DEF Load, Remember
  <1> QED BY <1>1 DEF Loads, LoadStory, LoadStatus, LoadWorkflow, LoadProject

LEMMA AloneInitHolds == BoardInit => AloneIInv
  <1> SUFFICES ASSUME BoardInit PROVE AloneIInv
    OBVIOUS
  <1>1. IInv /\ BoardIInv
    BY InitHolds, BoardInitHolds DEF BoardInit
  <1>2. StoriesBounded
    BY DEF BoardInit, Init, StoriesBounded, Bounded
  <1>3. StatusesBounded
    <2>1. PICK w \in Workflows, ids \in SetToAllKPermutations(Statuses) :
            /\ Len(ids) = TemplateSize
            /\ status = [s \in Statuses |->
                 IF s \in Range(ids)
                 THEN [workflow |-> w, order |-> CHOOSE k \in 1 .. Len(ids) : ids[k] = s]
                 ELSE NoStatus]
      BY DEF BoardInit, Init
    <2> DEFINE at(s) == CHOOSE k \in 1 .. Len(ids) : ids[k] = s
    <2>2. \A s \in Range(ids) : at(s) \in 1 .. TemplateSize
      <3>1. ids \in Seq(Statuses)
        BY TemplateFacts
      <3>2. \A s \in Range(ids) : \E k \in 1 .. Len(ids) : ids[k] = s
        BY <3>1 DEF Range
      <3> QED BY <2>1, <3>1, <3>2
    <2>3. status = [s \in Statuses |->
            IF s \in Range(ids) THEN [workflow |-> w, order |-> at(s)] ELSE NoStatus]
      BY <2>1
    <2> HIDE DEF at
    <2>4. \A s \in Statuses : status[s] # NoStatus => status[s].order \in StatusOrders
      BY <2>2, <2>3, TemplateAssumption
    <2>5. DOMAIN status = Statuses
      BY <2>3
    <2> QED BY <2>4, <2>5 DEF StatusesBounded, Bounded
  <1>4. NothingIsStale
    <2>1. \A r \in Requests : ~Busy(r)
      BY DEF BoardInit, Busy
    <2> QED BY <2>1 DEF NothingIsStale, OneAtATime, Waiting
  <1> QED BY <1>1, <1>2, <1>3, <1>4 DEF AloneIInv

LEMMA AloneNextKeeps ==
    ASSUME AloneIInv, alone, [BoardNext]_boardVars
    PROVE  AloneIInv' /\ Serial
  <1>1. BoardIInv /\ IInv /\ StatusesBounded /\ StoriesBounded /\ NothingIsStale
    BY DEF AloneIInv
  <1>2. Uncontested
    BY <1>1 DEF Uncontested, NothingIsStale, OneAtATime
  <1>3. BoardIInv'
    BY <1>1, <1>2, BoardNextKeeps
  <1>4. Serial /\ NothingIsStale'
    <2>1. ASSUME NEW r \in Requests, Loads(r)
          PROVE  Serial /\ NothingIsStale'
      BY <1>1, <2>1, LoadWritesNothing, LoadsAreFresh DEF Serial, Loads
    <2>2. ASSUME NEW r \in Requests, Read(r)
          PROVE  Serial /\ NothingIsStale'
      BY <2>2, ReadWritesNothing, ReadIsFresh DEF Serial
    <2>3. ASSUME NEW r \in Requests, Write(r)
          PROVE  Serial /\ NothingIsStale'
      <3>1. Busy(r) /\ Finish(r)
        BY <2>3, WriteEnds
      <3>2. request = [q \in Requests |-> request[q]]
        BY <1>1 DEF BoardIInv, AllKnown
      <3>3. NothingIsStale'
        BY <1>1, <3>1, <3>2, NobodyIsLeft
      <3> QED BY <2>3, <3>3, WriteIsSerial
    <2>4. ASSUME UNCHANGED boardVars
          PROVE  Serial /\ NothingIsStale'
      <3>1. UNCHANGED vars /\ UNCHANGED request
        BY <2>4 DEF boardVars
      <3>2. \A req \in Waiting : IsNow(req)'
        BY <1>1, <3>1, LoadedStays, DecidedStays DEF NothingIsStale, IsNow
      <3>3. Waiting' = Waiting /\ OneAtATime'
        BY <1>1, <3>1 DEF Waiting, Busy, NothingIsStale, OneAtATime
      <3>4. NothingIsStale'
        BY <3>2, <3>3 DEF NothingIsStale
      <3> QED BY <3>1, <3>4 DEF Serial
    <2>5. BoardNext => \E r \in Requests : Loads(r) \/ Read(r) \/ Write(r)
      BY DEF BoardNext, Loads
    <2> QED BY <2>1, <2>2, <2>3, <2>4, <2>5
  <1>5. IInv'
    BY <1>1, <1>4, NextKeeps DEF Serial
  <1>6. StatusesBounded' /\ StoriesBounded'
    <2>1. CASE Next
      BY <1>1, <2>1, StatusesStayBounded, StoriesStayBounded
    <2>2. CASE UNCHANGED vars
      BY <1>1, <2>2 DEF vars, StatusesBounded, StoriesBounded, Bounded
    <2> QED BY <1>4, <2>1, <2>2 DEF Serial
  <1> QED BY <1>3, <1>4, <1>5, <1>6 DEF AloneIInv

\* A request that nothing overlaps does what Workflows says of it, or nothing,
\* whatever there is on the board: what it has loaded and what it has decided are
\* still what there is when it writes, so that the queries of a handler, cut where
\* it reads and where it writes, put together make one action.
THEOREM SerialRequestsImplementBoards == BoardSpec => SerialBoard
  <1> DEFINE Inv == alone => AloneIInv
  <1>1. BoardInit => Inv
    BY AloneInitHolds
  <1>2. Inv /\ [BoardNext]_boardVars => Inv'
    <2> SUFFICES ASSUME Inv, [BoardNext]_boardVars, alone' PROVE AloneIInv'
      OBVIOUS
    <2>1. CASE alone
      BY <2>1, AloneNextKeeps
    <2>2. CASE ~alone
      <3>1. UNCHANGED alone
        <4>1. BoardNext => \E r \in Requests : Loads(r) \/ Read(r) \/ Write(r)
          BY DEF BoardNext, Loads
        <4>2. UNCHANGED boardVars => UNCHANGED alone
          BY DEF boardVars
        <4> QED BY <4>1, <4>2, LoadWritesNothing, ReadWritesNothing, WriteEnds
      <3> QED BY <2>2, <3>1
    <2> QED BY <2>1, <2>2
  <1>3. Inv /\ [BoardNext]_boardVars => [alone => Next]_vars
    BY AloneNextKeeps DEF Serial
  <1> QED BY <1>1, <1>2, <1>3, PTL DEF BoardSpec, SerialBoard
=============================================================================
