---------------------------- MODULE BoardsProofs ----------------------------
(***************************************************************************)
(* What clients see of boards, for any number of workflows, statuses and   *)
(* stories, any orders and any default offset: a client that follows the   *)
(* events of a request shows what the pages show after it, and the pages   *)
(* agree on the stories of a workflow and on which comes after which.      *)
(*                                                                         *)
(* First, the lists: one that increases with the orders of its items is    *)
(* the list sorted by them, so taking items away from a sorted list, and   *)
(* putting a block where its orders say, gives the list sorted by the new  *)
(* orders. Then what the pages show, and for each event what a client      *)
(* makes of it. Last, how the pages fit together.                          *)
(***************************************************************************)
EXTENDS WorkflowsProofs, Boards

-----------------------------------------------------------------------------
(* Lists that increase.                                                    *)

Increasing(list, order) ==
    \A i, j \in 1 .. Len(list) : i < j => order[list[i]] < order[list[j]]

NoRepeats(list) == \A i, j \in 1 .. Len(list) : i < j => list[i] # list[j]

LEMMA IncreasingFacts ==
    ASSUME NEW S, NEW order, \A i \in S : order[i] \in Int,
           NEW list \in Seq(S), Increasing(list, order)
    PROVE  /\ \A i, j \in 1 .. Len(list) : order[list[i]] < order[list[j]] => i < j
           /\ \A i, j \in 1 .. Len(list) : list[i] = list[j] => i = j
           /\ NoRepeats(list)
           /\ Distinct(Range(list), order)
  <1>1. \A i \in 1 .. Len(list) : order[list[i]] \in Int
    OBVIOUS
  <1>2. \A i, j \in 1 .. Len(list) : i < j \/ i = j \/ j < i
    OBVIOUS
  <1>3. \A i, j \in 1 .. Len(list) : order[list[i]] < order[list[j]] => i < j
    BY <1>1, <1>2 DEF Increasing
  <1>4. \A i, j \in 1 .. Len(list) : order[list[i]] = order[list[j]] => i = j
    BY <1>1, <1>2 DEF Increasing
  <1>5. Distinct(Range(list), order)
    <2>1. \A i \in Range(list) : \E k \in 1 .. Len(list) : list[k] = i
      BY DEF Range
    <2> QED BY <1>4, <2>1 DEF Distinct
  <1> QED BY <1>1, <1>3, <1>4, <1>5 DEF NoRepeats

\* Without ties, a sorted list increases.
LEMMA SortedIncreases ==
    ASSUME NEW S, NEW order, Ordered(S, order), Distinct(S, order)
    PROVE  /\ Sorted(S, order) \in Seq(S) /\ Range(Sorted(S, order)) = S
           /\ Increasing(Sorted(S, order), order)
  <1> DEFINE list == Sorted(S, order)
  <1>1. /\ list \in Seq(S) /\ Range(list) = S
        /\ \A i, j \in 1 .. Len(list) : i < j => list[i] # list[j] /\ order[list[i]] <= order[list[j]]
    BY SortedFacts
  <1> HIDE DEF list
  <1>2. \A i \in 1 .. Len(list) : list[i] \in S
    BY <1>1
  <1>3. \A i, j \in 1 .. Len(list) : i < j => order[list[i]] < order[list[j]]
    BY <1>1, <1>2 DEF Ordered, Distinct
  <1> QED BY <1>1, <1>3 DEF Increasing, list

\* There is only one list that increases.
LEMMA SortedUnique ==
    ASSUME NEW S, NEW order, Ordered(S, order),
           NEW list \in Seq(S), Range(list) = S, Increasing(list, order)
    PROVE  list = Sorted(S, order)
  <1> DEFINE sorted == Sorted(S, order)
  <1>1. /\ \A i, j \in 1 .. Len(list) : order[list[i]] < order[list[j]] => i < j
        /\ \A i, j \in 1 .. Len(list) : list[i] = list[j] => i = j
        /\ Distinct(S, order)
    BY IncreasingFacts DEF Ordered
  <1>2. sorted \in Seq(S) /\ Range(sorted) = S /\ Increasing(sorted, order)
    BY <1>1, SortedIncreases
  <1>3. Len(sorted) = Cardinality(S)
    BY SortedFacts
  <1> HIDE DEF sorted
  <1>4. /\ \A i, j \in 1 .. Len(sorted) : order[sorted[i]] < order[sorted[j]] => i < j
        /\ \A i, j \in 1 .. Len(sorted) : sorted[i] = sorted[j] => i = j
    BY <1>2, IncreasingFacts DEF Ordered
  <1>5. Len(list) = Cardinality(S)
    <2> DEFINE n == Len(list)
    <2>1. n \in Nat /\ list \in [1 .. n -> S]
      OBVIOUS
    <2>2. list \in Injection(1 .. n, S)
      BY <1>1, <2>1, Fun_IsInj
    <2>3. \A i \in S : \E k \in 1 .. n : list[k] = i
      BY DEF Range
    <2>4. list \in Surjection(1 .. n, S)
      BY <2>1, <2>3, Fun_IsSurj
    <2>5. Cardinality(1 .. n) = n
      BY <2>1, FS_Interval
    <2> HIDE DEF n
    <2>6. n = Cardinality(S)
      BY <2>2, <2>4, <2>5, FS_Injection DEF Ordered
    <2> QED BY <2>6 DEF n
  <1> DEFINE differ == {k \in 1 .. Len(list) : list[k] # sorted[k]}
  <1>6. differ = {}
    <2> SUFFICES ASSUME differ # {} PROVE FALSE
      OBVIOUS
    <2>1. PICK k \in differ : \A m \in differ : k <= m
      <3>1. differ \in SUBSET Nat
        OBVIOUS
      <3> HIDE DEF differ
      <3> QED BY <3>1, LeastNatural
    <2>2. k \in 1 .. Len(list) /\ k \in 1 .. Len(sorted) /\ list[k] # sorted[k]
      BY <1>3, <1>5
    <2>3. \A m \in 1 .. Len(list) : m < k => list[m] = sorted[m]
      BY <2>1, <2>2
    <2> HIDE DEF differ
    <2>4. PICK i \in 1 .. Len(sorted) : sorted[i] = list[k]
      BY <1>2, <2>2 DEF Range
    <2>5. PICK j \in 1 .. Len(list) : list[j] = sorted[k]
      BY <1>2, <2>2 DEF Range
    <2>6. k < i
      <3>1. i # k
        BY <2>2, <2>4
      <3>2. ~(i < k)
        BY <1>1, <1>3, <1>5, <2>2, <2>3, <2>4
      <3> QED BY <2>2, <3>1, <3>2
    <2>7. k < j
      <3>1. j # k
        BY <2>2, <2>5
      <3>2. ~(j < k)
        BY <1>3, <1>4, <1>5, <2>2, <2>3, <2>5
      <3> QED BY <2>2, <3>1, <3>2
    <2>8. order[sorted[k]] < order[list[k]] /\ order[list[k]] < order[sorted[k]]
      BY <1>2, <2>2, <2>4, <2>5, <2>6, <2>7 DEF Increasing
    <2>9. order[sorted[k]] \in Int /\ order[list[k]] \in Int
      BY <1>2, <2>2 DEF Ordered
    <2> QED BY <2>8, <2>9
  <1>7. \A k \in 1 .. Len(list) : list[k] = sorted[k]
    BY <1>6
  <1>8. list = sorted
    BY <1>2, <1>3, <1>5, <1>7
  <1> QED BY <1>8 DEF sorted

\* Orders that agree sort alike.
LEMMA SortedAlike ==
    ASSUME NEW S, NEW order, Ordered(S, order), Distinct(S, order),
           NEW new, Ordered(S, new),
           \A i, j \in S : order[i] < order[j] => new[i] < new[j]
    PROVE  Sorted(S, order) = Sorted(S, new)
  <1> DEFINE list == Sorted(S, order)
  <1>1. list \in Seq(S) /\ Range(list) = S /\ Increasing(list, order)
    BY SortedIncreases
  <1> HIDE DEF list
  <1>2. Increasing(list, new)
    <2>1. \A i \in 1 .. Len(list) : list[i] \in S
      BY <1>1
    <2> QED BY <1>1, <2>1 DEF Increasing
  <1>3. list = Sorted(S, new)
    BY <1>1, <1>2, SortedUnique
  <1> QED BY <1>3 DEF list

\* The items that are left of a list are those that are not taken away, in the
\* order they were.
LEMMA WithoutFacts ==
    ASSUME NEW S, NEW list \in Seq(S), NEW T
    PROVE  LET rest == Without(list, T) IN
           /\ rest \in Seq(S) /\ Range(rest) = Range(list) \ T
           /\ \A i, j \in 1 .. Len(rest) : i < j =>
                \E k, l \in 1 .. Len(list) : k < l /\ rest[i] = list[k] /\ rest[j] = list[l]
  <1> DEFINE kept == {k \in DOMAIN list : list[k] \notin T}
             self == [k \in kept |-> k]
             index == Sorted(kept, self)
             rest == [n \in DOMAIN index |-> list[index[n]]]
  <1>1. Without(list, T) = rest
    BY DEF Without
  <1>2. Len(list) \in Nat /\ DOMAIN list = 1 .. Len(list)
    OBVIOUS
  <1>3. Ordered(kept, self) /\ Distinct(kept, self)
    <2>1. IsFiniteSet(kept)
      <3>1. IsFiniteSet(1 .. Len(list)) /\ kept \subseteq 1 .. Len(list)
        BY <1>2, FS_Interval
      <3> HIDE DEF kept
      <3> QED BY <3>1, FS_Subset
    <2>2. \A k \in kept : self[k] = k /\ self[k] \in Int
      BY <1>2
    <2> QED BY <2>1, <2>2 DEF Ordered, Distinct
  <1>4. index \in Seq(kept) /\ Range(index) = kept /\ Increasing(index, self)
    <2> HIDE DEF self, kept
    <2> QED BY <1>3, SortedIncreases
  <1>5. kept \subseteq 1 .. Len(list) /\ \A k \in 1 .. Len(list) : k \in kept <=> list[k] \notin T
    BY <1>2
  <1>6. \A k \in kept : self[k] = k
    OBVIOUS
  <1> HIDE DEF index, self, kept
  <1>7. \A n \in 1 .. Len(index) : index[n] \in kept /\ index[n] \in 1 .. Len(list)
    <2>1. \A n \in 1 .. Len(index) : index[n] \in kept
      BY <1>4
    <2> QED BY <1>5, <2>1
  <1>8. /\ rest \in Seq(S) /\ Len(rest) = Len(index)
        /\ \A n \in 1 .. Len(index) : rest[n] = list[index[n]]
    <2>1. Len(index) \in Nat /\ DOMAIN index = 1 .. Len(index)
      BY <1>4
    <2>2. \A n \in 1 .. Len(index) : list[index[n]] \in S
      BY <1>7
    <2> QED BY <2>1, <2>2
  <1> HIDE DEF rest
  <1>9. Range(rest) = Range(list) \ T
    <2>1. \A n \in 1 .. Len(rest) : rest[n] \in Range(list) \ T
      BY <1>5, <1>7, <1>8 DEF Range
    <2>2. ASSUME NEW i \in Range(list) \ T PROVE \E n \in 1 .. Len(rest) : rest[n] = i
      <3>1. PICK k \in 1 .. Len(list) : list[k] = i
        BY DEF Range
      <3>2. k \in Range(index)
        BY <1>4, <1>5, <3>1
      <3>3. PICK n \in 1 .. Len(index) : index[n] = k
        BY <1>4, <3>2 DEF Range
      <3> QED BY <1>8, <3>1, <3>3
    <2>3. \A i : i \in Range(rest) <=> \E n \in 1 .. Len(rest) : rest[n] = i
      BY <1>8 DEF Range
    <2> QED BY <2>1, <2>2, <2>3
  <1>10. ASSUME NEW i \in 1 .. Len(rest), NEW j \in 1 .. Len(rest), i < j
         PROVE  \E k, l \in 1 .. Len(list) : k < l /\ rest[i] = list[k] /\ rest[j] = list[l]
    <2>1. i \in 1 .. Len(index) /\ j \in 1 .. Len(index)
      BY <1>8
    <2>2. index[i] \in kept /\ index[j] \in kept /\ self[index[i]] < self[index[j]]
      BY <1>4, <1>7, <1>10, <2>1 DEF Increasing
    <2>3. index[i] < index[j]
      BY <1>6, <2>2
    <2> QED BY <1>7, <1>8, <2>1, <2>3
  <1> QED BY <1>1, <1>8, <1>9, <1>10

LEMMA WithoutSorted ==
    ASSUME NEW S, NEW order, Ordered(S, order), NEW T, Distinct(S \ T, order)
    PROVE  Without(Sorted(S, order), T) = Sorted(S \ T, order)
  <1> DEFINE list == Sorted(S, order)
             rest == Without(list, T)
  <1>1. /\ list \in Seq(S) /\ Range(list) = S
        /\ \A i, j \in 1 .. Len(list) : i < j => list[i] # list[j] /\ order[list[i]] <= order[list[j]]
    BY SortedFacts
  <1> HIDE DEF list
  <1>2. /\ rest \in Seq(S) /\ Range(rest) = S \ T
        /\ \A i, j \in 1 .. Len(rest) : i < j =>
             \E k, l \in 1 .. Len(list) : k < l /\ rest[i] = list[k] /\ rest[j] = list[l]
    BY <1>1, WithoutFacts
  <1> HIDE DEF rest
  <1>3. \A i \in 1 .. Len(rest) : rest[i] \in S \ T
    BY <1>2 DEF Range
  <1>4. rest \in Seq(S \ T)
    BY <1>2, <1>3
  <1>5. Increasing(rest, order)
    <2> SUFFICES ASSUME NEW i \in 1 .. Len(rest), NEW j \in 1 .. Len(rest), i < j
                 PROVE  order[rest[i]] < order[rest[j]]
      BY DEF Increasing
    <2>1. rest[i] # rest[j] /\ order[rest[i]] <= order[rest[j]]
      BY <1>1, <1>2
    <2> QED BY <1>3, <2>1 DEF Distinct, Ordered
  <1>6. Ordered(S \ T, order)
    BY FS_Subset DEF Ordered
  <1>7. rest = Sorted(S \ T, order)
    BY <1>2, <1>4, <1>5, <1>6, SortedUnique
  <1> QED BY <1>7 DEF rest, list

\* What is joined increases if both parts do and the second comes after the first.
LEMMA JoinedIncrease ==
    ASSUME NEW Items, NEW order, NEW s \in Seq(Items), NEW t \in Seq(Items),
           Increasing(s, order), Increasing(t, order),
           \A i \in Range(s), j \in Range(t) : order[i] < order[j]
    PROVE  /\ s \o t \in Seq(Items) /\ Increasing(s \o t, order)
           /\ Range(s \o t) = Range(s) \cup Range(t)
  <1> DEFINE m == Len(s)
             n == Len(t)
             joined == s \o t
  <1>1. /\ m \in Nat /\ n \in Nat /\ joined \in Seq(Items) /\ Len(joined) = m + n
        /\ \A k \in 1 .. (m + n) : joined[k] = IF k <= m THEN s[k] ELSE t[k - m]
    OBVIOUS
  <1>2. /\ \A k \in 1 .. m : s[k] \in Range(s)
        /\ \A k \in 1 .. n : t[k] \in Range(t)
        /\ \A i \in Range(s) : \E k \in 1 .. m : s[k] = i
        /\ \A i \in Range(t) : \E k \in 1 .. n : t[k] = i
    BY DEF Range
  <1> HIDE DEF joined, m, n
  <1>3. \A k \in 1 .. (m + n) : /\ k <= m => k \in 1 .. m /\ joined[k] = s[k]
                                /\ k > m => k - m \in 1 .. n /\ joined[k] = t[k - m]
    BY <1>1
  <1>4. ASSUME NEW i \in 1 .. (m + n), NEW j \in 1 .. (m + n), i < j
        PROVE  order[joined[i]] < order[joined[j]]
    <2>1. CASE j <= m
      <3>1. i <= m
        BY <1>1, <1>4, <2>1
      <3> QED BY <1>3, <1>4, <2>1, <3>1 DEF Increasing, m
    <2>2. CASE i > m
      <3>1. j > m /\ i - m < j - m
        BY <1>1, <1>4, <2>2
      <3> QED BY <1>3, <2>2, <3>1 DEF Increasing, n
    <2>3. CASE i <= m /\ j > m
      BY <1>2, <1>3, <2>3
    <2> QED BY <1>1, <2>1, <2>2, <2>3
  <1>5. \A k \in 1 .. (m + n) : joined[k] \in Range(s) \cup Range(t)
    <2> SUFFICES ASSUME NEW k \in 1 .. (m + n) PROVE joined[k] \in Range(s) \cup Range(t)
      OBVIOUS
    <2>1. CASE k <= m
      BY <1>2, <1>3, <2>1
    <2>2. CASE k > m
      BY <1>2, <1>3, <2>2
    <2> QED BY <1>1, <2>1, <2>2
  <1>6. \A i \in Range(s) : \E k \in 1 .. (m + n) : joined[k] = i
    <2>1. \A k \in 1 .. m : k \in 1 .. (m + n) /\ joined[k] = s[k]
      BY <1>1
    <2> QED BY <1>2, <2>1
  <1>7. \A i \in Range(t) : \E k \in 1 .. (m + n) : joined[k] = i
    <2>1. \A k \in 1 .. n : k + m \in 1 .. (m + n) /\ joined[k + m] = t[k]
      BY <1>1
    <2> QED BY <1>2, <2>1
  <1>8. Range(joined) = Range(s) \cup Range(t)
    <2>1. DOMAIN joined = 1 .. (m + n)
      BY <1>1
    <2>2. \A i : i \in Range(joined) <=> \E k \in 1 .. (m + n) : joined[k] = i
      BY <2>1 DEF Range
    <2> QED BY <1>5, <1>6, <1>7, <2>2
  <1> QED BY <1>1, <1>4, <1>8 DEF Increasing, joined

Joined(s, t) == s \o t

\* A block that comes after all the items of a sorted list.
LEMMA AppendedSorted ==
    ASSUME NEW Items, NEW S \in SUBSET Items, NEW order, Ordered(S, order), Distinct(S, order),
           NEW block \in Seq(Items), NEW new, Ordered(S \cup Range(block), new),
           \A i, j \in S : order[i] < order[j] => new[i] < new[j],
           Increasing(block, new),
           \A i \in S, b \in Range(block) : new[i] < new[b]
    PROVE  Joined(Sorted(S, order), block) = Sorted(S \cup Range(block), new)
  <1> DEFINE list == Sorted(S, order)
  <1>1. list \in Seq(S) /\ Range(list) = S /\ Increasing(list, order)
    BY SortedIncreases
  <1> HIDE DEF list
  <1>2. Increasing(list, new)
    <2>1. \A i \in 1 .. Len(list) : list[i] \in S
      BY <1>1
    <2> QED BY <1>1, <2>1 DEF Increasing
  <1>3. list \in Seq(Items)
    BY <1>1
  <1>4. /\ list \o block \in Seq(Items) /\ Increasing(list \o block, new)
        /\ Range(list \o block) = S \cup Range(block)
    BY <1>1, <1>2, <1>3, JoinedIncrease
  <1> DEFINE joined == list \o block
  <1>5. joined \in Seq(Items) /\ Range(joined) = S \cup Range(block)
    BY <1>4
  <1> HIDE DEF joined
  <1>6. joined \in Seq(S \cup Range(block))
    <2>1. \A k \in 1 .. Len(joined) : joined[k] \in Range(joined)
      BY <1>5 DEF Range
    <2> QED BY <1>5, <2>1
  <1>7. joined = Sorted(S \cup Range(block), new)
    BY <1>4, <1>5, <1>6, SortedUnique DEF joined
  <1> QED BY <1>7 DEF joined, list, Joined

\* The first items of a list, and the others.
LEMMA CutIncreases ==
    ASSUME NEW S, NEW order, NEW list \in Seq(S), Increasing(list, order), NEW k \in 0 .. Len(list)
    PROVE  LET left == SubSeq(list, 1, k)
               right == SubSeq(list, k + 1, Len(list))
           IN  /\ left \in Seq(S) /\ Increasing(left, order)
               /\ right \in Seq(S) /\ Increasing(right, order)
               /\ \A i : i \in Range(left) <=> \E n \in 1 .. Len(list) : n <= k /\ list[n] = i
               /\ \A i : i \in Range(right) <=> \E n \in 1 .. Len(list) : n > k /\ list[n] = i
  <1> DEFINE left == SubSeq(list, 1, k)
             right == SubSeq(list, k + 1, Len(list))
             m == Len(list)
  <1>1. /\ m \in Nat /\ k \in Nat /\ k <= m
        /\ left \in Seq(S) /\ Len(left) = k
        /\ \A n \in 1 .. k : left[n] = list[n] /\ n \in 1 .. m
    OBVIOUS
  <1>2. /\ right \in Seq(S) /\ Len(right) = m - k
        /\ \A n \in 1 .. (m - k) : right[n] = list[n + k] /\ n + k \in 1 .. m
    <2>1. \A i \in (k + 1) .. m : list[i] \in S
      OBVIOUS
    <2>2. /\ right \in Seq(S) /\ Len(right) = IF k + 1 <= m THEN m - (k + 1) + 1 ELSE 0
          /\ \A n \in 1 .. (m - (k + 1) + 1) : right[n] = list[(k + 1) + n - 1]
      <3> HIDE DEF m
      <3>1. m \in Int /\ k + 1 \in Int
        BY <1>1
      <3> QED BY <2>1, <3>1 DEF m
    <2> HIDE DEF right, m
    <2>3. \A n \in 1 .. (m - k) : n \in 1 .. (m - (k + 1) + 1) /\ (k + 1) + n - 1 = n + k /\ n + k \in 1 .. m
      BY <1>1
    <2> QED BY <1>1, <2>2, <2>3
  <1> HIDE DEF left, right, m
  <1>3. Increasing(left, order) /\ Increasing(right, order)
    <2>1. \A i, j \in 1 .. m : i < j => order[list[i]] < order[list[j]]
      BY DEF Increasing, m
    <2>2. Increasing(left, order)
      BY <1>1, <2>1 DEF Increasing
    <2>3. \A i, j \in 1 .. (m - k) : i < j => i + k < j + k
      BY <1>1
    <2>4. Increasing(right, order)
      BY <1>2, <2>1, <2>3 DEF Increasing
    <2> QED BY <2>2, <2>4
  <1>4. ASSUME NEW i
        PROVE  i \in Range(left) <=> \E n \in 1 .. m : n <= k /\ list[n] = i
    <2>1. i \in Range(left) <=> \E n \in 1 .. k : left[n] = i
      BY <1>1 DEF Range
    <2>2. \A n \in 1 .. m : n <= k => n \in 1 .. k
      BY <1>1
    <2>3. \A n \in 1 .. k : n <= k
      BY <1>1
    <2> QED BY <1>1, <2>1, <2>2, <2>3
  <1>5. ASSUME NEW i
        PROVE  i \in Range(right) <=> \E n \in 1 .. m : n > k /\ list[n] = i
    <2>1. i \in Range(right) <=> \E n \in 1 .. (m - k) : right[n] = i
      BY <1>1, <1>2 DEF Range
    <2>2. \A n \in 1 .. m : n > k => n - k \in 1 .. (m - k) /\ (n - k) + k = n
      BY <1>1
    <2>3. \A n \in 1 .. (m - k) : n + k > k
      BY <1>1
    <2> QED BY <1>2, <2>1, <2>2, <2>3
  <1> QED BY <1>1, <1>2, <1>3, <1>4, <1>5 DEF left, right, m

\* A block whose orders are between those of the items it is put between.
LEMMA InsertedSorted ==
    ASSUME NEW Items, NEW S \in SUBSET Items, NEW order, Ordered(S, order), Distinct(S, order),
           NEW block \in Seq(Items), NEW new, Ordered(S \cup Range(block), new),
           \A i, j \in S : order[i] < order[j] => new[i] < new[j],
           Increasing(block, new),
           NEW k \in 0 .. Len(Sorted(S, order)),
           \A n \in 1 .. Len(Sorted(S, order)), b \in Range(block) :
             IF n <= k THEN new[Sorted(S, order)[n]] < new[b] ELSE new[b] < new[Sorted(S, order)[n]]
    PROVE  Inserted(Sorted(S, order), block, k) = Sorted(S \cup Range(block), new)
  <1> DEFINE list == Sorted(S, order)
             left == SubSeq(list, 1, k)
             right == SubSeq(list, k + 1, Len(list))
  <1>1. list \in Seq(S) /\ Range(list) = S /\ Increasing(list, order)
    BY SortedIncreases
  <1>2. /\ k \in 0 .. Len(list)
        /\ \A n \in 1 .. Len(list), b \in Range(block) :
             IF n <= k THEN new[list[n]] < new[b] ELSE new[b] < new[list[n]]
    OBVIOUS
  <1> HIDE DEF list
  <1>3. Len(list) \in Nat /\ list \in Seq(Items) /\ \A n \in 1 .. Len(list) : list[n] \in S
    BY <1>1
  <1>4. Increasing(list, new)
    BY <1>1, <1>3 DEF Increasing
  <1>5. /\ left \in Seq(Items) /\ Increasing(left, new)
        /\ right \in Seq(Items) /\ Increasing(right, new)
        /\ \A i : i \in Range(left) <=> \E n \in 1 .. Len(list) : n <= k /\ list[n] = i
        /\ \A i : i \in Range(right) <=> \E n \in 1 .. Len(list) : n > k /\ list[n] = i
    BY <1>2, <1>3, <1>4, CutIncreases
  <1> HIDE DEF left, right
  <1>6. \A i \in Range(left), b \in Range(block) : new[i] < new[b]
    BY <1>2, <1>5
  <1>7. \A b \in Range(block), i \in Range(right) : new[b] < new[i]
    <2>1. \A n \in 1 .. Len(list) : n > k => ~(n <= k)
      BY <1>2, <1>3
    <2> QED BY <1>2, <1>5, <2>1
  <1>8. \A i \in Range(left), j \in Range(right) : new[i] < new[j]
    <2>1. \A m, n \in 1 .. Len(list) : m <= k /\ n > k => m < n
      BY <1>2, <1>3
    <2> QED BY <1>4, <1>5, <2>1 DEF Increasing
  <1> DEFINE part == left \o block
  <1>9. part \in Seq(Items) /\ Increasing(part, new) /\ Range(part) = Range(left) \cup Range(block)
    BY <1>5, <1>6, JoinedIncrease
  <1> HIDE DEF part
  <1> DEFINE whole == part \o right
  <1>10. whole \in Seq(Items) /\ Increasing(whole, new) /\ Range(whole) = Range(part) \cup Range(right)
    <2>1. \A i \in Range(part), j \in Range(right) : new[i] < new[j]
      BY <1>7, <1>8, <1>9
    <2> QED BY <1>5, <1>9, <2>1, JoinedIncrease
  <1> HIDE DEF whole
  <1>11. Range(whole) = S \cup Range(block)
    <2>1. Range(left) \cup Range(right) = S
      <3>1. \A i \in S : \E n \in 1 .. Len(list) : list[n] = i
        BY <1>1 DEF Range
      <3>2. \A n \in 1 .. Len(list) : n <= k \/ n > k
        BY <1>2, <1>3
      <3> QED BY <1>3, <1>5, <3>1, <3>2
    <2> QED BY <1>9, <1>10, <2>1
  <1>12. whole \in Seq(S \cup Range(block))
    <2>1. \A n \in 1 .. Len(whole) : whole[n] \in Range(whole)
      BY <1>10 DEF Range
    <2> QED BY <1>10, <1>11, <2>1
  <1>13. whole = Sorted(S \cup Range(block), new)
    BY <1>10, <1>11, <1>12, SortedUnique
  <1>14. Inserted(list, block, k) = whole
    BY DEF Inserted, whole, part, left, right
  <1> QED BY <1>13, <1>14 DEF list

\* The block goes next to an item of the list.
GoesFirst(i, order, place, anchor) ==
    order[i] < order[anchor] \/ (i = anchor /\ place = "after")

LEMMA BesideSorted ==
    ASSUME NEW Items, NEW S \in SUBSET Items, NEW order, Ordered(S, order), Distinct(S, order),
           NEW block \in Seq(Items), NEW new, Ordered(S \cup Range(block), new),
           \A i, j \in S : order[i] < order[j] => new[i] < new[j],
           Increasing(block, new),
           NEW place \in Places, NEW anchor \in S,
           \A i \in S, b \in Range(block) :
             IF GoesFirst(i, order, place, anchor) THEN new[i] < new[b] ELSE new[b] < new[i]
    PROVE  Beside(Sorted(S, order), block, place, anchor) = Sorted(S \cup Range(block), new)
  <1> DEFINE list == Sorted(S, order)
             at == CHOOSE n \in 1 .. Len(list) : list[n] = anchor
             k == IF place = "after" THEN at ELSE at - 1
  <1>1. list \in Seq(S) /\ Range(list) = S /\ Increasing(list, order)
    BY SortedIncreases
  <1>2. Beside(list, block, place, anchor) = Inserted(list, block, k)
    BY DEF Beside
  <1> HIDE DEF list
  <1>3. Len(list) \in Nat /\ \A n \in 1 .. Len(list) : list[n] \in S
    BY <1>1
  <1>4. at \in 1 .. Len(list) /\ list[at] = anchor
    <2>1. \E n \in 1 .. Len(list) : list[n] = anchor
      BY <1>1 DEF Range
    <2> QED BY <2>1
  <1> HIDE DEF at
  <1>5. \A n \in 1 .. Len(list) : n < at <=> order[list[n]] < order[anchor]
    BY <1>1, <1>3, <1>4, IncreasingFacts DEF Ordered, Increasing
  <1>6. \A n \in 1 .. Len(list) : list[n] = anchor <=> n = at
    BY <1>1, <1>3, <1>4, IncreasingFacts DEF Ordered
  <1>7. \A n \in 1 .. Len(list) : n <= k <=> GoesFirst(list[n], order, place, anchor)
    <2>1. \A n \in 1 .. Len(list) : n <= k <=> n < at \/ (n = at /\ place = "after")
      BY <1>3, <1>4
    <2> QED BY <1>5, <1>6, <2>1 DEF GoesFirst
  <1>8. k \in 0 .. Len(list)
    BY <1>3, <1>4
  <1> HIDE DEF k
  <1>9. \A n \in 1 .. Len(list), b \in Range(block) :
          IF n <= k THEN new[list[n]] < new[b] ELSE new[b] < new[list[n]]
    BY <1>3, <1>7
  <1>10. Inserted(list, block, k) = Sorted(S \cup Range(block), new)
    BY <1>8, <1>9, InsertedSorted DEF list
  <1> QED BY <1>2, <1>10 DEF list

LEMMA NumberedPositions ==
    ASSUME NEW Items, NEW moved \in Seq(Items), NoRepeats(moved), NEW pre, NEW offset
    PROVE  /\ DOMAIN Numbered(moved, pre, offset) = Range(moved)
           /\ \A k \in 1 .. Len(moved) :
                Numbered(moved, pre, offset)[moved[k]] = Position(pre, offset, k)
  <1>1. \A k, l \in 1 .. Len(moved) : moved[k] = moved[l] => k = l
    <2>1. \A k, l \in 1 .. Len(moved) : k < l \/ k = l \/ l < k
      OBVIOUS
    <2> QED BY <2>1 DEF NoRepeats
  <1>2. ASSUME NEW k \in 1 .. Len(moved)
        PROVE  Numbered(moved, pre, offset)[moved[k]] = Position(pre, offset, k)
    <2>1. moved[k] \in Range(moved)
      BY DEF Range
    <2>2. (CHOOSE l \in 1 .. Len(moved) : moved[l] = moved[k]) = k
      BY <1>1
    <2> QED BY <2>1, <2>2 DEF Numbered
  <1> QED BY <1>2 DEF Numbered

\* Once a block has been placed next to an item, what it is placed with has these orders.
NewOrder(block, others, order, new) ==
    [i \in others \cup Range(block) |-> IF i \in DOMAIN new THEN new[i] ELSE order[i]]

LEMMA BlockIsFinite ==
    ASSUME NEW Items, NEW block \in Seq(Items)
    PROVE  IsFiniteSet(Range(block))
  <1>1. block \in Surjection(1 .. Len(block), Range(block))
    <2>1. Len(block) \in Nat /\ DOMAIN block = 1 .. Len(block)
      OBVIOUS
    <2>2. block \in [1 .. Len(block) -> Range(block)]
      BY <2>1 DEF Range
    <2>3. \A i \in Range(block) : \E k \in 1 .. Len(block) : block[k] = i
      BY <2>1 DEF Range
    <2> QED BY <2>2, <2>3, Fun_IsSurj
  <1>2. IsFiniteSet(1 .. Len(block))
    <2>1. Len(block) \in Nat
      OBVIOUS
    <2> QED BY <2>1, FS_Interval
  <1> QED BY <1>1, <1>2, FS_Surjection

\* The items that are placed next to another come next to each other, in the order
\* asked for, and the others stay in the order they were.
LEMMA RepositionedOrder ==
    ASSUME NEW Items, NEW block \in Seq(Items), block # <<>>, NoRepeats(block),
           NEW others \in SUBSET Items, Range(block) \cap others = {},
           NEW order, Ordered(others, order), Distinct(others, order),
           NEW place \in Places, NEW anchor \in others
    PROVE  LET new == NewOrder(block, others, order,
                               Repositioned(block, others, order, place, anchor)) IN
           /\ Ordered(others \cup Range(block), new)
           /\ \A i, j \in others : order[i] < order[j] => new[i] < new[j]
           /\ Increasing(block, new)
           /\ \A i \in others, b \in Range(block) :
                IF GoesFirst(i, order, place, anchor) THEN new[i] < new[b] ELSE new[b] < new[i]
  <1>0. PICK pre \in Int, offset \in Int, next \in Seq(others), displaced \in Nat :
             IsPlan(block, others, order, place, anchor, pre, offset, next, displaced)
    BY RepositionedPlan
  <1>1. /\ displaced <= Len(next)
        /\ Repositioned(block, others, order, place, anchor) =
             Numbered(block \o SubSeq(next, 1, displaced), pre, offset)
        /\ Range(next) = {j \in others : order[j] > pre}
        /\ \A k, l \in 1 .. Len(next) : k < l => next[k] # next[l] /\ order[next[k]] <= order[next[l]]
        /\ \A j \in others : order[j] > pre <=>
             (order[j] > order[anchor] \/ (order[j] = order[anchor] /\ place = "before"))
        /\ \A k \in 1 .. (Len(block) + displaced) :
             /\ Position(pre, offset, k) \in Int /\ pre < Position(pre, offset, k)
             /\ \A j \in others : order[j] > pre /\ (\A l \in 1 .. displaced : next[l] # j) =>
                  Position(pre, offset, k) < order[j]
        /\ \A k, l \in 1 .. (Len(block) + displaced) :
             k < l => Position(pre, offset, k) < Position(pre, offset, l)
    BY <1>0 DEF IsPlan
  <1> DEFINE n == Len(block)
             orders == Repositioned(block, others, order, place, anchor)
             new == NewOrder(block, others, order, orders)
  <1> HIDE DEF orders
  <1> DEFINE moved == block \o SubSeq(next, 1, displaced)
  <1>2. next \in Seq(Items) /\ n \in Nat /\ Len(next) \in Nat
    OBVIOUS
  <1>3. /\ moved \in Seq(Items) /\ Len(moved) = n + displaced
        /\ \A k \in 1 .. n : k \in 1 .. (n + displaced) /\ moved[k] = block[k]
        /\ \A k \in 1 .. displaced : n + k \in 1 .. (n + displaced) /\ moved[n + k] = next[k]
        /\ \A i : i \in Range(moved) <=> (i \in Range(block) \/ \E k \in 1 .. displaced : next[k] = i)
    <2>1. displaced <= Len(next)
      BY <1>1
    <2> QED BY <1>2, <2>1, MovedFacts
  <1>4. /\ \A k \in 1 .. n : block[k] \in Range(block)
        /\ \A i \in Range(block) : \E k \in 1 .. n : block[k] = i
        /\ \A k \in 1 .. Len(next) : next[k] \in others /\ order[next[k]] > pre
        /\ \A i \in others : order[i] > pre => \E k \in 1 .. Len(next) : next[k] = i
    BY <1>1 DEF Range
  <1>5. orders = Numbered(moved, pre, offset)
    BY <1>1 DEF orders
  <1> HIDE DEF moved, n
  <1>6. NoRepeats(moved)
    <2> SUFFICES ASSUME NEW k \in 1 .. (n + displaced), NEW l \in 1 .. (n + displaced), k < l
                 PROVE  moved[k] # moved[l]
      BY <1>3 DEF NoRepeats
    <2>1. CASE l <= n
      <3>1. k \in 1 .. n /\ l \in 1 .. n
        BY <1>2, <2>1
      <3> QED BY <1>3, <3>1 DEF NoRepeats, n
    <2>2. CASE k > n
      <3>1. k - n \in 1 .. displaced /\ l - n \in 1 .. displaced /\ k - n < l - n
            /\ n + (k - n) = k /\ n + (l - n) = l
        BY <1>2, <2>2
      <3>2. k - n \in 1 .. Len(next) /\ l - n \in 1 .. Len(next)
        BY <1>1, <1>2, <3>1
      <3>3. moved[k] = next[k - n] /\ moved[l] = next[l - n]
        BY <1>3, <3>1
      <3> QED BY <1>1, <3>1, <3>2, <3>3
    <2>3. CASE k <= n /\ l > n
      <3>1. k \in 1 .. n /\ l - n \in 1 .. displaced /\ n + (l - n) = l /\ l - n \in 1 .. Len(next)
        BY <1>1, <1>2, <2>3
      <3>2. moved[k] = block[k] /\ moved[l] = next[l - n]
        BY <1>3, <3>1
      <3>3. block[k] \in Range(block) /\ next[l - n] \in others
        BY <1>4, <3>1
      <3> QED BY <3>2, <3>3
    <2> QED BY <1>2, <2>1, <2>2, <2>3
  <1>7. /\ DOMAIN orders = Range(moved)
        /\ \A k \in 1 .. (n + displaced) : orders[moved[k]] = Position(pre, offset, k)
    BY <1>3, <1>5, <1>6, NumberedPositions
  \* A block, what moves along with it, and what does not move.
  <1>8. \A k \in 1 .. n : new[block[k]] = Position(pre, offset, k)
    <2>1. \A k \in 1 .. n : block[k] \in DOMAIN orders /\ orders[block[k]] = Position(pre, offset, k)
      BY <1>3, <1>4, <1>7
    <2> QED BY <1>4, <2>1 DEF NewOrder
  <1>9. \A k \in 1 .. displaced : new[next[k]] = Position(pre, offset, n + k) /\ n + k \in 1 .. (n + displaced)
    <2>1. \A k \in 1 .. displaced : k \in 1 .. Len(next)
      BY <1>1, <1>2
    <2>2. \A k \in 1 .. displaced : next[k] \in DOMAIN orders /\ orders[next[k]] = Position(pre, offset, n + k)
      BY <1>3, <1>7
    <2> QED BY <1>3, <1>4, <2>1, <2>2 DEF NewOrder
  <1>10. \A i \in others : (\A k \in 1 .. displaced : next[k] # i) => new[i] = order[i]
    <2>1. \A i \in others : (\A k \in 1 .. displaced : next[k] # i) => i \notin DOMAIN orders
      BY <1>3, <1>7
    <2> QED BY <2>1 DEF NewOrder
  <1> HIDE DEF new
  <1>11. \A i \in others : order[i] \in Int
    BY DEF Ordered
  <1>12. ASSUME NEW i \in others, ~(order[i] > pre)
         PROVE  new[i] = order[i] /\ order[i] <= pre
    <2>1. \A k \in 1 .. displaced : next[k] # i
      <3>1. \A k \in 1 .. displaced : k \in 1 .. Len(next)
        BY <1>1, <1>2
      <3> QED BY <1>4, <1>12, <3>1
    <2> QED BY <1>10, <1>11, <1>12, <2>1
  <1>13. ASSUME NEW i \in others, order[i] > pre
         PROVE  \E k \in 1 .. Len(next) :
                  /\ next[k] = i
                  /\ k <= displaced => /\ n + k \in 1 .. (n + displaced)
                                       /\ new[i] = Position(pre, offset, n + k)
                  /\ k > displaced => /\ new[i] = order[i]
                                      /\ \A m \in 1 .. (n + displaced) : Position(pre, offset, m) < order[i]
    <2>1. PICK k \in 1 .. Len(next) : next[k] = i
      BY <1>4, <1>13
    <2>2. CASE k <= displaced
      <3>1. k \in 1 .. displaced
        BY <1>2, <2>2
      <3>2. ~(k > displaced)
        BY <1>2, <2>2
      <3> QED BY <1>9, <2>1, <3>1, <3>2
    <2>3. CASE k > displaced
      <3>1. \A l \in 1 .. displaced : l < k /\ l \in 1 .. Len(next)
        BY <1>2, <2>3
      <3>2. \A l \in 1 .. displaced : next[l] # i
        BY <1>1, <2>1, <3>1
      <3>3. \A m \in 1 .. (n + displaced) : Position(pre, offset, m) < order[i]
        BY <1>1, <1>13, <3>2 DEF n
      <3>4. ~(k <= displaced)
        BY <1>2, <2>3
      <3> QED BY <1>10, <2>1, <3>2, <3>3, <3>4
    <2> QED BY <1>2, <2>2, <2>3
  <1>14. \A k \in 1 .. (n + displaced) : Position(pre, offset, k) \in Int /\ pre < Position(pre, offset, k)
    BY <1>1 DEF n
  <1>15. \A k, l \in 1 .. (n + displaced) : k < l => Position(pre, offset, k) < Position(pre, offset, l)
    BY <1>1 DEF n
  <1>16. \A i \in others : new[i] \in Int /\ (order[i] > pre => new[i] > pre)
    <2> SUFFICES ASSUME NEW i \in others PROVE new[i] \in Int /\ (order[i] > pre => new[i] > pre)
      OBVIOUS
    <2>1. CASE ~(order[i] > pre)
      BY <1>11, <1>12, <2>1
    <2>2. CASE order[i] > pre
      <3>1. PICK k \in 1 .. Len(next) :
              /\ k <= displaced => n + k \in 1 .. (n + displaced) /\ new[i] = Position(pre, offset, n + k)
              /\ k > displaced => new[i] = order[i]
        BY <1>13, <2>2
      <3>2. CASE k <= displaced
        BY <1>14, <3>1, <3>2
      <3>3. CASE k > displaced
        BY <1>11, <2>2, <3>1, <3>3
      <3> QED BY <1>2, <3>2, <3>3
    <2> QED BY <2>1, <2>2
  <1>17. Ordered(others \cup Range(block), new)
    <2>1. IsFiniteSet(others \cup Range(block))
      BY BlockIsFinite, FS_Union DEF Ordered
    <2>2. ASSUME NEW b \in Range(block) PROVE new[b] \in Int
      <3>1. PICK k \in 1 .. n : block[k] = b
        BY <1>4
      <3>2. k \in 1 .. (n + displaced)
        BY <1>3
      <3> QED BY <1>8, <1>14, <3>1, <3>2
    <2> QED BY <1>16, <2>1, <2>2 DEF Ordered
  <1>18. Increasing(block, new)
    <2>1. \A k, l \in 1 .. n : k < l => new[block[k]] < new[block[l]]
      BY <1>3, <1>8, <1>15
    <2> QED BY <2>1 DEF Increasing, n
  <1>19. ASSUME NEW i \in others, NEW j \in others, order[i] < order[j]
         PROVE  new[i] < new[j]
    <2>1. CASE ~(order[i] > pre)
      <3>1. CASE ~(order[j] > pre)
        BY <1>12, <1>19, <2>1, <3>1
      <3>2. CASE order[j] > pre
        BY <1>11, <1>12, <1>16, <2>1, <3>2
      <3> QED BY <3>1, <3>2
    <2>2. CASE order[i] > pre
      <3>1. order[j] > pre
        BY <1>11, <1>19, <2>2
      <3>2. PICK k \in 1 .. Len(next) :
              /\ next[k] = i
              /\ k <= displaced => n + k \in 1 .. (n + displaced) /\ new[i] = Position(pre, offset, n + k)
              /\ k > displaced => new[i] = order[i]
        BY <1>13, <2>2
      <3>3. PICK l \in 1 .. Len(next) :
              /\ next[l] = j
              /\ l <= displaced => n + l \in 1 .. (n + displaced) /\ new[j] = Position(pre, offset, n + l)
              /\ l > displaced =>
                   new[j] = order[j] /\ \A m \in 1 .. (n + displaced) : Position(pre, offset, m) < order[j]
        BY <1>13, <3>1
      <3>4. k < l
        <4>1. k # l
          BY <1>11, <1>19, <3>2, <3>3
        <4>2. ~(l < k)
          <5>1. l < k => order[j] <= order[i]
            BY <1>1, <3>2, <3>3
          <5> QED BY <1>11, <1>19, <5>1
        <4> QED BY <1>2, <4>1, <4>2
      <3>5. CASE l <= displaced
        <4>1. k <= displaced /\ n + k < n + l
          BY <1>2, <3>4, <3>5
        <4> QED BY <1>15, <3>2, <3>3, <3>5, <4>1
      <3>6. CASE l > displaced /\ k <= displaced
        BY <3>2, <3>3, <3>6
      <3>7. CASE l > displaced /\ k > displaced
        BY <1>19, <3>2, <3>3, <3>7
      <3> QED BY <1>2, <3>5, <3>6, <3>7
    <2> QED BY <2>1, <2>2
  <1>20. ASSUME NEW i \in others, NEW b \in Range(block)
         PROVE  IF order[i] > pre THEN new[b] < new[i] ELSE new[i] < new[b]
    <2>1. PICK k \in 1 .. n : block[k] = b
      BY <1>4
    <2>2. new[b] = Position(pre, offset, k) /\ k \in 1 .. (n + displaced)
      BY <1>3, <1>8, <2>1
    <2>3. CASE ~(order[i] > pre)
      BY <1>11, <1>12, <1>14, <2>2, <2>3
    <2>4. CASE order[i] > pre
      <3>1. PICK l \in 1 .. Len(next) :
              /\ l <= displaced => n + l \in 1 .. (n + displaced) /\ new[i] = Position(pre, offset, n + l)
              /\ l > displaced =>
                   new[i] = order[i] /\ \A m \in 1 .. (n + displaced) : Position(pre, offset, m) < order[i]
        BY <1>13, <2>4
      <3>2. CASE l <= displaced
        <4>1. k < n + l
          BY <1>2, <2>1, <3>2
        <4> QED BY <1>15, <2>2, <2>4, <3>1, <3>2, <4>1
      <3>3. CASE l > displaced
        BY <2>2, <2>4, <3>1, <3>3
      <3> QED BY <1>2, <3>2, <3>3
    <2> QED BY <2>3, <2>4
  <1>21. \A i \in others : order[i] > pre <=> ~GoesFirst(i, order, place, anchor)
    <2> SUFFICES ASSUME NEW i \in others
                 PROVE  order[i] > pre <=> ~GoesFirst(i, order, place, anchor)
      OBVIOUS
    <2>1. order[i] > pre <=> (order[i] > order[anchor] \/ (order[i] = order[anchor] /\ place = "before"))
      BY <1>1
    <2>2. order[i] = order[anchor] <=> i = anchor
      BY DEF Distinct
    <2>3. order[i] \in Int /\ order[anchor] \in Int
      BY <1>11
    <2>4. place = "before" <=> place # "after"
      BY DEF Places
    <2> QED BY <2>1, <2>2, <2>3, <2>4 DEF GoesFirst
  <1>22. \A i \in others, b \in Range(block) :
           IF GoesFirst(i, order, place, anchor) THEN new[i] < new[b] ELSE new[b] < new[i]
    BY <1>20, <1>21
  <1> QED BY <1>17, <1>18, <1>19, <1>22 DEF new, orders

\* What a list looks like does not depend on the orders of what is not in it.
LEMMA SortedSame ==
    ASSUME NEW S, NEW order, Ordered(S, order), Distinct(S, order),
           NEW new, \A i \in S : new[i] = order[i]
    PROVE  Ordered(S, new) /\ Sorted(S, new) = Sorted(S, order)
  <1>1. Ordered(S, new)
    BY DEF Ordered
  <1>2. \A i, j \in S : order[i] < order[j] => new[i] < new[j]
    OBVIOUS
  <1> QED BY <1>1, <1>2, SortedAlike

LEMMA SortedOfNone ==
    ASSUME NEW order
    PROVE  Sorted({}, order) = <<>>
  <1>1. Ordered({}, order) /\ Distinct({}, order)
    BY FS_EmptySet DEF Ordered, Distinct
  <1>2. Sorted({}, order) \in Seq({})
    BY <1>1, SortedIncreases
  <1> QED BY <1>2

LEMMA SingleFacts ==
    ASSUME NEW Items, NEW x \in Items, NEW order
    PROVE  /\ <<x>> \in Seq(Items) /\ <<x>> # <<>> /\ Range(<<x>>) = {x}
           /\ NoRepeats(<<x>>) /\ Increasing(<<x>>, order)
  BY DEF Range, Increasing, NoRepeats

\* The items of a list that is put at the end of another.
LEMMA AppendedOrder ==
    ASSUME NEW Items, NEW block \in Seq(Items), NoRepeats(block), NEW latest \in Int
    PROVE  LET orders == Appended(block, latest) IN
           /\ DOMAIN orders = Range(block)
           /\ \A b \in Range(block) : orders[b] \in Int /\ latest < orders[b]
           /\ Increasing(block, orders)
  <1> DEFINE orders == Appended(block, latest)
  <1>1. /\ DOMAIN orders = Range(block)
        /\ \A k \in 1 .. Len(block) : orders[block[k]] = Position(latest, DefaultOrderOffset, k)
    BY NumberedPositions DEF Appended
  <1> HIDE DEF orders
  <1>2. Len(block) \in Nat /\ DOMAIN block = 1 .. Len(block)
    OBVIOUS
  <1>3. \A k \in 1 .. Len(block) : /\ Position(latest, DefaultOrderOffset, k) \in Int
                                   /\ latest < Position(latest, DefaultOrderOffset, k)
    <2> SUFFICES ASSUME NEW k \in 1 .. Len(block)
                 PROVE  /\ Position(latest, DefaultOrderOffset, k) \in Int
                        /\ latest < Position(latest, DefaultOrderOffset, k)
      OBVIOUS
    <2>1. DefaultOrderOffset \in Nat \ {0} /\ k \in Nat /\ 0 < k
      BY <1>2, OffsetAssumption
    <2>2. Position(latest, DefaultOrderOffset, 0) < Position(latest, DefaultOrderOffset, k)
      BY <2>1, PositionsIncrease
    <2>3. Position(latest, DefaultOrderOffset, 0) = latest
      BY <2>1 DEF Position
    <2>4. Position(latest, DefaultOrderOffset, k) \in Int
      BY <2>1 DEF Position
    <2> QED BY <2>2, <2>3, <2>4
  <1>4. \A b \in Range(block) : orders[b] \in Int /\ latest < orders[b]
    <2> SUFFICES ASSUME NEW b \in Range(block) PROVE orders[b] \in Int /\ latest < orders[b]
      OBVIOUS
    <2>1. PICK k \in 1 .. Len(block) : block[k] = b
      BY <1>2 DEF Range
    <2> QED BY <1>1, <1>3, <2>1
  <1>5. Increasing(block, orders)
    <2> SUFFICES ASSUME NEW k \in 1 .. Len(block), NEW l \in 1 .. Len(block), k < l
                 PROVE  orders[block[k]] < orders[block[l]]
      BY DEF Increasing
    <2>1. k \in Nat /\ l \in Nat /\ DefaultOrderOffset \in Nat \ {0}
      BY <1>2, OffsetAssumption
    <2> QED BY <1>1, <2>1, PositionsIncrease
  <1> QED BY <1>1, <1>4, <1>5 DEF orders

Listing(lists, Lists) == lists = [m \in Lists |-> lists[m]]

\* The lists that are shown, of what each holds.
Shows(lists, Lists, held, order) ==
    /\ Listing(lists, Lists)
    /\ \A m \in Lists : /\ Ordered(held[m], order) /\ Distinct(held[m], order)
                       /\ lists[m] = Sorted(held[m], order)

LEMMA RemovedSorted ==
    ASSUME NEW Lists, NEW held, NEW order, NEW lists, Shows(lists, Lists, held, order), NEW B
    PROVE  /\ Listing(Removed(lists, B), Lists)
           /\ \A m \in Lists : /\ Removed(lists, B)[m] = Sorted(held[m] \ B, order)
                              /\ Ordered(held[m] \ B, order) /\ Distinct(held[m] \ B, order)
  <1>1. \A m \in Lists : Ordered(held[m] \ B, order) /\ Distinct(held[m] \ B, order)
    <2> SUFFICES ASSUME NEW m \in Lists
                 PROVE  Ordered(held[m] \ B, order) /\ Distinct(held[m] \ B, order)
      OBVIOUS
    <2>1. Ordered(held[m], order) /\ Distinct(held[m], order)
      BY DEF Shows
    <2>2. IsFiniteSet(held[m] \ B)
      BY <2>1, FS_Subset DEF Ordered
    <2> QED BY <2>1, <2>2 DEF Ordered, Distinct
  <1>2. \A m \in Lists : Without(lists[m], B) = Sorted(held[m] \ B, order)
    <2> SUFFICES ASSUME NEW m \in Lists PROVE Without(lists[m], B) = Sorted(held[m] \ B, order)
      OBVIOUS
    <2>1. Ordered(held[m], order) /\ lists[m] = Sorted(held[m], order)
      BY DEF Shows
    <2> QED BY <1>1, <2>1, WithoutSorted
  <1>3. DOMAIN lists = Lists
    BY DEF Shows, Listing
  <1> QED BY <1>1, <1>2, <1>3 DEF Removed, Listing

\* The lists after a block has been put at the end of one of them.
LEMMA LastLists ==
    ASSUME NEW Items, NEW Lists, NEW held \in [Lists -> SUBSET Items], NEW order,
           NEW lists, Shows(lists, Lists, held, order),
           NEW l \in Lists, NEW block \in Seq(Items),
           NEW kept, kept[l] = held[l] \cup Range(block),
           \A m \in Lists \ {l} : kept[m] = held[m] \ Range(block),
           NEW by,
           \A m \in Lists \ {l} : \A i \in held[m] \ Range(block) : by[m][i] = order[i],
           \A i \in held[l] \ Range(block) : by[l][i] = order[i],
           \A b \in Range(block) : by[l][b] \in Int,
           \A i \in held[l] \ Range(block), b \in Range(block) : order[i] < by[l][b],
           Increasing(block, by[l])
    PROVE  LET after == PlacedLast(lists, l, block) IN
           Listing(after, Lists) /\ \A m \in Lists : after[m] = Sorted(kept[m], by[m])
  <1> DEFINE B == Range(block)
             S == held[l] \ B
  <1>0. /\ Listing(Removed(lists, B), Lists)
        /\ \A m \in Lists : /\ Removed(lists, B)[m] = Sorted(held[m] \ B, order)
                           /\ Ordered(held[m] \ B, order) /\ Distinct(held[m] \ B, order)
    BY RemovedSorted
  <1>1. \A m \in Lists : Ordered(held[m] \ B, order) /\ Distinct(held[m] \ B, order)
    BY <1>0
  <1>2. \A m \in Lists \ {l} : Sorted(held[m] \ B, order) = Sorted(held[m] \ B, by[m])
    BY <1>1, SortedSame
  <1>3. Sorted(S, order) \o block = Sorted(S \cup B, by[l])
    <2>1. Ordered(S \cup B, by[l])
      <3>1. IsFiniteSet(S \cup B)
        BY <1>0, BlockIsFinite, FS_Union DEF Ordered
      <3>2. \A i \in S : by[l][i] \in Int
        BY <1>1 DEF Ordered
      <3> QED BY <3>1, <3>2 DEF Ordered
    <2>2. \A i, j \in S : order[i] < order[j] => by[l][i] < by[l][j]
      OBVIOUS
    <2>3. \A i \in S, b \in B : by[l][i] < by[l][b]
      OBVIOUS
    <2>4. S \in SUBSET Items
      OBVIOUS
    <2>5. Ordered(S, order) /\ Distinct(S, order)
      BY <1>1
    <2>6. Increasing(block, by[l])
      OBVIOUS
    <2> DEFINE new == by[l]
    <2> HIDE DEF S, new
    <2>7. Ordered(S \cup Range(block), new) /\ Increasing(block, new)
      BY <2>1, <2>6 DEF new
    <2>8. \A i, j \in S : order[i] < order[j] => new[i] < new[j]
      BY <2>2 DEF new
    <2>9. \A i \in S, b \in Range(block) : new[i] < new[b]
      BY <2>3 DEF new
    <2>10. Joined(Sorted(S, order), block) = Sorted(S \cup Range(block), new)
      BY ONLY <2>4, <2>5, <2>7, <2>8, <2>9, AppendedSorted, block \in Seq(Items)
    <2> QED BY <2>10 DEF new, Joined
  <1>4. S \cup B = held[l] \cup B
    OBVIOUS
  <1>5. /\ PlacedLast(lists, l, block) = [Removed(lists, B) EXCEPT ![l] = @ \o block]
        /\ S = held[l] \ B
    BY DEF PlacedLast
  <1>6. DOMAIN Removed(lists, B) = Lists
    BY <1>0 DEF Listing
  <1> HIDE DEF S, B
  <1> DEFINE rest == Removed(lists, B)
  <1> HIDE DEF rest
  <1>7. /\ DOMAIN rest = Lists /\ rest[l] \o block = Sorted(kept[l], by[l])
        /\ \A m \in Lists \ {l} : rest[m] = Sorted(kept[m], by[m])
    BY <1>0, <1>2, <1>3, <1>4, <1>5, <1>6 DEF rest, B
  <1>8. PlacedLast(lists, l, block) = [rest EXCEPT ![l] = @ \o block]
    BY <1>5 DEF rest
  <1> QED BY <1>7, <1>8 DEF B, Listing

\* The lists after a block has been put next to an item.
LEMMA BesideLists ==
    ASSUME NEW Items, NEW Lists, NEW held \in [Lists -> SUBSET Items], NEW order,
           NEW lists, Shows(lists, Lists, held, order),
           NEW l \in Lists, NEW block \in Seq(Items), block # <<>>, NoRepeats(block),
           NEW place \in Places, NEW anchor \in held[l] \ Range(block),
           NEW others, others = held[l] \ Range(block),
           NEW orders, orders = Repositioned(block, others, order, place, anchor),
           NEW kept, kept[l] = held[l] \cup Range(block),
           \A m \in Lists \ {l} : kept[m] = held[m] \ Range(block),
           NEW by,
           \A m \in Lists \ {l} : \A i \in held[m] \ Range(block) : by[m][i] = order[i],
           \A i \in held[l] \cup Range(block) :
             by[l][i] = IF i \in DOMAIN orders THEN orders[i] ELSE order[i]
    PROVE  LET after == PlacedBeside(lists, l, block, place, anchor) IN
           Listing(after, Lists) /\ \A m \in Lists : after[m] = Sorted(kept[m], by[m])
  <1> DEFINE B == Range(block)
             S == held[l] \ B
             new == NewOrder(block, S, order, Repositioned(block, S, order, place, anchor))
  <1>0. /\ Listing(Removed(lists, B), Lists)
        /\ \A m \in Lists : /\ Removed(lists, B)[m] = Sorted(held[m] \ B, order)
                           /\ Ordered(held[m] \ B, order) /\ Distinct(held[m] \ B, order)
    BY RemovedSorted
  <1>1. \A m \in Lists : Ordered(held[m] \ B, order) /\ Distinct(held[m] \ B, order)
    BY <1>0
  <1>2. \A m \in Lists \ {l} : Sorted(held[m] \ B, order) = Sorted(held[m] \ B, by[m])
    BY <1>1, SortedSame
  <1>3. S \cup B = held[l] \cup B /\ S \in SUBSET Items /\ B \cap S = {} /\ anchor \in S
    OBVIOUS
  <1>4. Ordered(S, order) /\ Distinct(S, order)
    BY <1>1
  <1>5. \A i \in S \cup B : by[l][i] = new[i]
    <2>1. orders = Repositioned(block, S, order, place, anchor)
      OBVIOUS
    <2> QED BY <1>3, <2>1 DEF NewOrder
  <1>6. S = held[l] \ B
    OBVIOUS
  <1> HIDE DEF S
  <1>7. /\ Ordered(S \cup B, new)
        /\ \A i, j \in S : order[i] < order[j] => new[i] < new[j]
        /\ Increasing(block, new)
        /\ \A i \in S, b \in B :
             IF GoesFirst(i, order, place, anchor) THEN new[i] < new[b] ELSE new[b] < new[i]
    BY <1>3, <1>4, RepositionedOrder
  <1> HIDE DEF new
  <1>9. /\ Ordered(S \cup B, by[l])
        /\ \A i, j \in S : order[i] < order[j] => by[l][i] < by[l][j]
        /\ \A i \in S, b \in B :
             IF GoesFirst(i, order, place, anchor) THEN by[l][i] < by[l][b] ELSE by[l][b] < by[l][i]
    BY <1>5, <1>7 DEF Ordered
  <1>10. Increasing(block, by[l])
    <2>1. \A k \in 1 .. Len(block) : block[k] \in B
      BY DEF Range
    <2> QED BY <1>5, <1>7, <2>1 DEF Increasing
  <1> HIDE DEF B
  <1>11. Beside(Sorted(S, order), block, place, anchor) = Sorted(S \cup B, by[l])
    BY <1>3, <1>4, <1>9, <1>10, BesideSorted DEF B
  <1>12. PlacedBeside(lists, l, block, place, anchor)
           = [Removed(lists, B) EXCEPT ![l] = Beside(@, block, place, anchor)]
    BY DEF PlacedBeside, B
  <1> DEFINE rest == Removed(lists, B)
  <1> HIDE DEF rest
  <1>13. DOMAIN rest = Lists
    BY <1>0 DEF rest, Listing
  <1>14. /\ Beside(rest[l], block, place, anchor) = Sorted(kept[l], by[l])
         /\ \A m \in Lists \ {l} : rest[m] = Sorted(kept[m], by[m])
    BY <1>0, <1>2, <1>3, <1>6, <1>11 DEF rest, B
  <1>15. PlacedBeside(lists, l, block, place, anchor)
           = [rest EXCEPT ![l] = Beside(@, block, place, anchor)]
    BY <1>12 DEF rest
  <1> QED BY <1>13, <1>14, <1>15 DEF B, Listing

-----------------------------------------------------------------------------
(* The pages show what each status and each workflow holds.                *)

HeldStories == [s \in Statuses |-> StoriesIn(s)]

HeldStatuses == [w \in Workflows |-> StatusesOf(w)]

LEMMA StoriesHeld ==
    ASSUME IInv
    PROVE  /\ HeldStories \in [Statuses -> SUBSET Stories]
           /\ \A s \in Statuses : HeldStories[s] = StoriesIn(s)
           /\ Shows(Cards, Statuses, HeldStories, StoryOrder)
  <1>1. \A s \in Statuses : /\ StoriesIn(s) \in SUBSET Stories
                            /\ Ordered(StoriesIn(s), StoryOrder) /\ Distinct(StoriesIn(s), StoryOrder)
    BY StoryFacts DEF IInv
  <1>2. \A s \in Statuses : HeldStories[s] = StoriesIn(s)
    BY DEF HeldStories
  <1>3. HeldStories \in [Statuses -> SUBSET Stories]
    BY <1>1 DEF HeldStories
  <1>4. Cards = [s \in Statuses |-> Cards[s]] /\ \A s \in Statuses : Cards[s] = Sorted(StoriesIn(s), StoryOrder)
    BY DEF Cards
  <1> QED BY <1>1, <1>2, <1>3, <1>4 DEF Shows, Listing

LEMMA StatusesHeld ==
    ASSUME IInv
    PROVE  /\ HeldStatuses \in [Workflows -> SUBSET Statuses]
           /\ \A w \in Workflows : HeldStatuses[w] = StatusesOf(w)
           /\ Shows(Columns, Workflows, HeldStatuses, StatusOrder)
  <1>1. \A w \in Workflows : /\ StatusesOf(w) \in SUBSET Statuses
                             /\ Ordered(StatusesOf(w), StatusOrder) /\ Distinct(StatusesOf(w), StatusOrder)
    BY StatusFacts DEF IInv
  <1>2. \A w \in Workflows : HeldStatuses[w] = StatusesOf(w)
    BY DEF HeldStatuses
  <1>3. HeldStatuses \in [Workflows -> SUBSET Statuses]
    BY <1>1 DEF HeldStatuses
  <1>4. Columns = [w \in Workflows |-> Columns[w]] /\ \A w \in Workflows : Columns[w] = Sorted(StatusesOf(w), StatusOrder)
    BY DEF Columns
  <1> QED BY <1>1, <1>2, <1>3, <1>4 DEF Shows, Listing

\* Stories are listed by workflow, in the order of their integers whatever their
\* status, and each status shows its own of them.
LEMMA CardsAreShown ==
    ASSUME IInv
    PROVE  Board.cards = Cards
  <1>1. ASSUME NEW s \in Statuses, status[s] = NoStatus PROVE Cards[s] = <<>>
    <2>1. StoriesIn(s) = {}
      BY <1>1 DEF StoriesIn, IInv, InPlace
    <2> QED BY <2>1, SortedOfNone DEF Cards
  <1>2. ASSUME NEW s \in Statuses, status[s] # NoStatus
        PROVE  Without(ListStories(status[s].workflow), Stories \ StoriesIn(s)) = Cards[s]
    <2> DEFINE S == StoriesOf(status[s].workflow)
               T == Stories \ StoriesIn(s)
    <2>1. S \ T = StoriesIn(s)
      BY DEF StoriesOf, StoriesIn, IInv, InPlace
    <2>2. Ordered(S, StoryOrder)
      <3>1. S \in SUBSET Stories /\ \A x \in S : story[x] # NoStory
        BY DEF StoriesOf
      <3>2. IsFiniteSet(S)
        BY <3>1, WorkflowsAssumption, FS_Subset
      <3> QED BY <3>1, <3>2, StoryFacts DEF Ordered, IInv
    <2>3. Distinct(StoriesIn(s), StoryOrder)
      BY StoryFacts DEF IInv
    <2>4. Without(Sorted(S, StoryOrder), T) = Sorted(S \ T, StoryOrder)
      <3> HIDE DEF S, T
      <3> QED BY <2>1, <2>2, <2>3, WithoutSorted
    <2> QED BY <2>1, <2>4 DEF ListStories, Cards
  <1>3. Board.cards = [s \in Statuses |->
            IF status[s] = NoStatus THEN <<>>
            ELSE Without(ListStories(status[s].workflow), Stories \ StoriesIn(s))]
    BY DEF Board
  <1>4. Cards = [s \in Statuses |-> Cards[s]]
    BY DEF Cards
  <1> QED BY <1>1, <1>2, <1>3, <1>4

LEMMA ColumnsAreShown ==
    ASSUME IInv
    PROVE  Board.columns = Columns
  <1>1. /\ DOMAIN ListWorkflows = DOMAIN workflows
        /\ \A i \in DOMAIN workflows :
             ListWorkflows[i] = [workflow |-> workflows[i], statuses |-> Columns[workflows[i]]]
    BY DEF ListWorkflows
  <1>2. ASSUME NEW w \in Workflows, GetWorkflow(w) = {} PROVE Columns[w] = <<>>
    <2>1. w \notin Range(workflows)
      <3> SUFFICES ASSUME NEW i \in DOMAIN workflows, workflows[i] = w PROVE FALSE
        BY DEF Range
      <3>1. ListWorkflows[i].workflow = w /\ ListWorkflows[i] \in Range(ListWorkflows)
        BY <1>1 DEF Range
      <3> QED BY <1>2, <3>1 DEF GetWorkflow
    <2>2. StatusesOf(w) = {}
      BY <2>1 DEF StatusesOf, IInv, GoodStatuses
    <2> QED BY <2>2, SortedOfNone DEF Columns
  <1>3. ASSUME NEW w \in Workflows, GetWorkflow(w) # {}
        PROVE  (CHOOSE page \in GetWorkflow(w) : TRUE).statuses = Columns[w]
    <2> DEFINE page == CHOOSE page \in GetWorkflow(w) : TRUE
    <2>1. page \in GetWorkflow(w)
      BY <1>3
    <2> HIDE DEF page
    <2>2. PICK i \in DOMAIN workflows : page = ListWorkflows[i]
      BY <1>1, <2>1 DEF GetWorkflow, Range
    <2>3. page.workflow = w
      BY <2>1 DEF GetWorkflow
    <2>4. page.statuses = Columns[w]
      BY <1>1, <2>2, <2>3
    <2> QED BY <2>4 DEF page
  <1>4. Board.columns = [w \in Workflows |->
          IF GetWorkflow(w) = {} THEN <<>> ELSE (CHOOSE page \in GetWorkflow(w) : TRUE).statuses]
    BY DEF Board
  <1>5. Columns = [w \in Workflows |-> Columns[w]]
    BY DEF Columns
  <1> QED BY <1>2, <1>3, <1>4, <1>5

LEMMA Arranged ==
    ASSUME NEW S, IsFiniteSet(S), NEW block \in Arrangements(S)
    PROVE  block \in Seq(S) /\ block # <<>> /\ Range(block) \subseteq S /\ NoRepeats(block)
  <1>1. PICK T \in SUBSET S : /\ block \in [1 .. Cardinality(T) -> T] /\ block # <<>>
                              /\ \A i, j \in 1 .. Cardinality(T) : i # j => block[i] # block[j]
    BY DEF Arrangements, SetToAllKPermutations, SetToSeqs
  <1>2. Cardinality(T) \in Nat
    BY FS_Subset, FS_CardinalityType
  <1>3. Len(block) = Cardinality(T)
    BY <1>1, <1>2
  <1>4. NoRepeats(block)
    BY <1>1, <1>2, <1>3 DEF NoRepeats
  <1> QED BY <1>4, Block

\* A board after an event, and after two.
LEMMA AfterOne ==
    ASSUME NEW board, NEW e
    PROVE  After(board, <<e>>) = Follow(board, e)
  <1> DEFINE F(shown, k) == IF k = 0 THEN board ELSE Follow(shown[k - 1], <<e>>[k])
             f == [k \in 0 .. 1 |-> IF k = 0 THEN board ELSE Follow(board, e)]
             g == CHOOSE shown : shown = [k \in 0 .. 1 |-> F(shown, k)]
  <1>1. \A k \in 0 .. 1 : f[k] = F(f, k)
    <2>1. f[0] = F(f, 0)
      OBVIOUS
    <2>2. f[1] = F(f, 1)
      OBVIOUS
    <2> QED BY <2>1, <2>2
  <1>2. f = [k \in 0 .. 1 |-> F(f, k)]
    <2> HIDE DEF F
    <2>1. f = [k \in 0 .. 1 |-> f[k]]
      OBVIOUS
    <2> HIDE DEF f
    <2> QED BY <1>1, <2>1
  <1>3. g = [k \in 0 .. 1 |-> F(g, k)]
    <2> HIDE DEF F, f
    <2> QED BY <1>2
  <1> HIDE DEF g
  <1>4. g[1] = F(g, 1) /\ g[0] = F(g, 0)
    <2> HIDE DEF F
    <2> QED BY <1>3
  <1>5. g[1] = Follow(board, e)
    BY <1>4
  <1>6. Len(<<e>>) = 1
    OBVIOUS
  <1> QED BY <1>5, <1>6 DEF After, g

LEMMA AfterTwo ==
    ASSUME NEW board, NEW e, NEW d
    PROVE  After(board, <<e, d>>) = Follow(Follow(board, e), d)
  <1> DEFINE F(shown, k) == IF k = 0 THEN board ELSE Follow(shown[k - 1], <<e, d>>[k])
             f == [k \in 0 .. 2 |-> IF k = 0 THEN board
                                    ELSE IF k = 1 THEN Follow(board, e) ELSE Follow(Follow(board, e), d)]
             g == CHOOSE shown : shown = [k \in 0 .. 2 |-> F(shown, k)]
  <1>1. \A k \in 0 .. 2 : f[k] = F(f, k)
    <2>1. f[0] = F(f, 0)
      OBVIOUS
    <2>2. f[1] = F(f, 1)
      OBVIOUS
    <2>3. f[2] = F(f, 2)
      OBVIOUS
    <2> HIDE DEF F, f
    <2> QED BY <2>1, <2>2, <2>3
  <1>2. f = [k \in 0 .. 2 |-> F(f, k)]
    <2> HIDE DEF F
    <2>1. f = [k \in 0 .. 2 |-> f[k]]
      OBVIOUS
    <2> HIDE DEF f
    <2> QED BY <1>1, <2>1
  <1>3. g = [k \in 0 .. 2 |-> F(g, k)]
    <2> HIDE DEF F, f
    <2> QED BY <1>2
  <1> HIDE DEF g
  <1>4. g[2] = F(g, 2) /\ g[1] = F(g, 1) /\ g[0] = F(g, 0)
    <2> HIDE DEF F
    <2> QED BY <1>3
  <1>5. g[2] = Follow(Follow(board, e), d)
    BY <1>4
  <1>6. Len(<<e, d>>) = 2
    OBVIOUS
  <1> QED BY <1>5, <1>6 DEF After, g

\* What a request leaves in each status, and in each workflow.
LeftIn(rows, s) == {x \in Stories : rows[x] # NoStory /\ rows[x].status = s}

LeftOf(rows, w) == {s \in Statuses : rows[s] # NoStatus /\ rows[s].workflow = w}

StoryOrdersIn(rows) == [s \in Statuses |-> [x \in LeftIn(rows, s) |-> rows[x].order]]

StatusOrdersOf(rows) == [w \in Workflows |-> [s \in LeftOf(rows, w) |-> rows[s].order]]

LEMMA CardsLeft ==
    ASSUME NEW rows
    PROVE  /\ Listing(CardsOf(rows), Statuses)
           /\ \A s \in Statuses :
                /\ CardsOf(rows)[s] = Sorted(LeftIn(rows, s), StoryOrdersIn(rows)[s])
                /\ \A x \in LeftIn(rows, s) : StoryOrdersIn(rows)[s][x] = rows[x].order
  <1>1. Listing(CardsOf(rows), Statuses)
    BY DEF CardsOf, Listing
  <1>2. ASSUME NEW s \in Statuses
        PROVE  /\ CardsOf(rows)[s] = Sorted(LeftIn(rows, s), StoryOrdersIn(rows)[s])
               /\ \A x \in LeftIn(rows, s) : StoryOrdersIn(rows)[s][x] = rows[x].order
    <2>1. StoryOrdersIn(rows)[s] = [x \in LeftIn(rows, s) |-> rows[x].order]
      BY DEF StoryOrdersIn
    <2>2. CardsOf(rows)[s] = Sorted(LeftIn(rows, s), [x \in LeftIn(rows, s) |-> rows[x].order])
      BY DEF CardsOf, LeftIn
    <2> QED BY <2>1, <2>2
  <1> QED BY <1>1, <1>2

LEMMA ColumnsLeft ==
    ASSUME NEW rows
    PROVE  /\ Listing(ColumnsOf(rows), Workflows)
           /\ \A w \in Workflows :
                /\ ColumnsOf(rows)[w] = Sorted(LeftOf(rows, w), StatusOrdersOf(rows)[w])
                /\ \A s \in LeftOf(rows, w) : StatusOrdersOf(rows)[w][s] = rows[s].order
  <1>1. Listing(ColumnsOf(rows), Workflows)
    BY DEF ColumnsOf, Listing
  <1>2. ASSUME NEW w \in Workflows
        PROVE  /\ ColumnsOf(rows)[w] = Sorted(LeftOf(rows, w), StatusOrdersOf(rows)[w])
               /\ \A s \in LeftOf(rows, w) : StatusOrdersOf(rows)[w][s] = rows[s].order
    <2>1. StatusOrdersOf(rows)[w] = [s \in LeftOf(rows, w) |-> rows[s].order]
      BY DEF StatusOrdersOf
    <2>2. ColumnsOf(rows)[w] = Sorted(LeftOf(rows, w), [s \in LeftOf(rows, w) |-> rows[s].order])
      BY DEF ColumnsOf, LeftOf
    <2> QED BY <2>1, <2>2
  <1> QED BY <1>1, <1>2

\* Stories that take the last orders of a status are shown last in it.
LEMMA StoriesGoLast ==
    ASSUME IInv, NEW s \in Statuses, NEW block \in Seq(Stories), NEW rows,
           \A x \in Stories \ Range(block) : rows[x] = story[x],
           \A b \in Range(block) : rows[b] # NoStory /\ rows[b].status = s /\ rows[b].order \in Int,
           \A i \in StoriesIn(s) \ Range(block), b \in Range(block) : StoryOrder[i] < rows[b].order,
           \A k, l \in 1 .. Len(block) : k < l => rows[block[k]].order < rows[block[l]].order
    PROVE  PlacedLast(Cards, s, block) = CardsOf(rows)
  <1> DEFINE B == Range(block)
             by == StoryOrdersIn(rows)
             kept == [m \in Statuses |-> LeftIn(rows, m)]
             after == PlacedLast(Cards, s, block)
  <1>1. /\ HeldStories \in [Statuses -> SUBSET Stories]
        /\ \A m \in Statuses : HeldStories[m] = StoriesIn(m)
        /\ Shows(Cards, Statuses, HeldStories, StoryOrder)
    BY StoriesHeld
  <1>2. /\ LeftIn(rows, s) = StoriesIn(s) \cup B
        /\ \A m \in Statuses \ {s} : LeftIn(rows, m) = StoriesIn(m) \ B
    <2>1. B \subseteq Stories
      BY DEF Range
    <2> QED BY <2>1 DEF LeftIn, StoriesIn
  <1>21. /\ \A m \in Statuses : kept[m] = LeftIn(rows, m)
         /\ kept[s] = HeldStories[s] \cup Range(block)
         /\ \A m \in Statuses \ {s} : kept[m] = HeldStories[m] \ Range(block)
    BY <1>1, <1>2
  <1>3. \A m \in Statuses : /\ CardsOf(rows)[m] = Sorted(LeftIn(rows, m), by[m])
                            /\ \A x \in LeftIn(rows, m) : by[m][x] = rows[x].order
    BY CardsLeft
  <1>4. \A x \in Stories : story[x] # NoStory => StoryOrder[x] = story[x].order
    BY StoryFacts DEF IInv
  <1> HIDE DEF by, kept
  <1>5. \A m \in Statuses : \A i \in StoriesIn(m) \ B : by[m][i] = StoryOrder[i]
    <2> SUFFICES ASSUME NEW m \in Statuses, NEW i \in StoriesIn(m) \ B PROVE by[m][i] = StoryOrder[i]
      OBVIOUS
    <2>1. i \in Stories /\ story[i] # NoStory /\ rows[i] = story[i]
      BY DEF StoriesIn
    <2>2. i \in LeftIn(rows, m)
      BY <1>2
    <2> QED BY <1>3, <1>4, <2>1, <2>2
  <1>6. \A b \in B : by[s][b] = rows[b].order
    BY <1>2, <1>3
  <1>7. Increasing(block, by[s])
    <2>1. \A k \in 1 .. Len(block) : block[k] \in B
      BY DEF Range
    <2> QED BY <1>6, <2>1 DEF Increasing
  <1>8. /\ \A m \in Statuses \ {s} : \A i \in HeldStories[m] \ Range(block) : by[m][i] = StoryOrder[i]
        /\ \A i \in HeldStories[s] \ Range(block) : by[s][i] = StoryOrder[i]
        /\ \A b \in Range(block) : by[s][b] \in Int
        /\ \A i \in HeldStories[s] \ Range(block), b \in Range(block) : StoryOrder[i] < by[s][b]
    BY <1>1, <1>5, <1>6
  <1>9. /\ Listing(after, Statuses)
        /\ \A m \in Statuses : after[m] = Sorted(kept[m], by[m])
    BY ONLY <1>1, <1>21, <1>7, <1>8, LastLists, s \in Statuses, block \in Seq(Stories)
       DEF after
  <1> HIDE DEF after, B
  <1>10. \A m \in Statuses : after[m] = CardsOf(rows)[m]
    BY <1>21, <1>3, <1>9
  <1>11. Listing(CardsOf(rows), Statuses)
    BY CardsLeft
  <1> QED BY <1>9, <1>10, <1>11 DEF after, Listing

StoriesTake(rows, orders, block, s) ==
    /\ Range(block) \subseteq DOMAIN orders
    /\ DOMAIN orders \subseteq Range(block) \cup StoriesIn(s)
    /\ \A x \in Stories \ DOMAIN orders : rows[x] = story[x]
    /\ \A x \in DOMAIN orders : rows[x] # NoStory /\ rows[x].status = s /\ rows[x].order = orders[x]

\* Stories that take orders next to another are shown next to it.
LEMMA StoriesGoBeside ==
    ASSUME IInv, NEW s \in Statuses, NEW block \in Seq(Stories), block # <<>>, NoRepeats(block),
           NEW others, others = StoriesIn(s) \ Range(block),
           NEW place \in Places, NEW anchor \in others, NEW orders,
           orders = Repositioned(block, others, StoryOrder, place, anchor),
           NEW rows, StoriesTake(rows, orders, block, s)
    PROVE  PlacedBeside(Cards, s, block, place, anchor) = CardsOf(rows)
  <1> DEFINE B == Range(block)
             by == StoryOrdersIn(rows)
             kept == [m \in Statuses |-> LeftIn(rows, m)]
             after == PlacedBeside(Cards, s, block, place, anchor)
  <1>0. /\ Range(block) \subseteq DOMAIN orders
        /\ DOMAIN orders \subseteq Range(block) \cup StoriesIn(s)
        /\ \A x \in Stories \ DOMAIN orders : rows[x] = story[x]
        /\ \A x \in DOMAIN orders : rows[x] # NoStory /\ rows[x].status = s /\ rows[x].order = orders[x]
    BY DEF StoriesTake
  <1>1. /\ HeldStories \in [Statuses -> SUBSET Stories]
        /\ \A m \in Statuses : HeldStories[m] = StoriesIn(m)
        /\ Shows(Cards, Statuses, HeldStories, StoryOrder)
    BY StoriesHeld
  <1>2. /\ LeftIn(rows, s) = StoriesIn(s) \cup B
        /\ \A m \in Statuses \ {s} : LeftIn(rows, m) = StoriesIn(m) \ B
    <2>1. B \subseteq Stories
      BY DEF Range
    <2> HIDE DEF B
    <2>2. B \subseteq DOMAIN orders /\ DOMAIN orders \subseteq B \cup StoriesIn(s)
      BY <1>0 DEF B
    <2>3. \A x \in Stories : IF x \in DOMAIN orders THEN rows[x] # NoStory /\ rows[x].status = s
                             ELSE rows[x] = story[x]
      BY <1>0
    <2>4. \A x \in StoriesIn(s) : x \in Stories /\ story[x] # NoStory /\ story[x].status = s
      BY DEF StoriesIn
    <2>5. DOMAIN orders \subseteq Stories
      BY <2>1, <2>2, <2>4
    <2>6. LeftIn(rows, s) = StoriesIn(s) \cup B
      <3>1. ASSUME NEW x \in Stories
            PROVE  x \in LeftIn(rows, s) <=> x \in StoriesIn(s) \cup B
        <4>1. CASE x \in DOMAIN orders
          BY <2>2, <2>3, <4>1 DEF LeftIn
        <4>2. CASE x \notin DOMAIN orders
          BY <2>2, <2>3, <4>2 DEF LeftIn, StoriesIn
        <4> QED BY <4>1, <4>2
      <3>2. LeftIn(rows, s) \subseteq Stories /\ StoriesIn(s) \subseteq Stories
        BY DEF LeftIn, StoriesIn
      <3> QED BY <2>1, <3>1, <3>2
    <2>7. ASSUME NEW m \in Statuses \ {s}
          PROVE  LeftIn(rows, m) = StoriesIn(m) \ B
      <3>1. ASSUME NEW x \in Stories
            PROVE  x \in LeftIn(rows, m) <=> x \in StoriesIn(m) \ B
        <4>1. CASE x \in DOMAIN orders
          BY <2>2, <2>3, <2>4, <4>1 DEF LeftIn, StoriesIn
        <4>2. CASE x \notin DOMAIN orders
          BY <2>2, <2>3, <4>2 DEF LeftIn, StoriesIn
        <4> QED BY <4>1, <4>2
      <3>2. LeftIn(rows, m) \subseteq Stories /\ StoriesIn(m) \subseteq Stories
        BY DEF LeftIn, StoriesIn
      <3> QED BY <3>1, <3>2
    <2> QED BY <2>6, <2>7
  <1>21. /\ \A m \in Statuses : kept[m] = LeftIn(rows, m)
         /\ kept[s] = HeldStories[s] \cup Range(block)
         /\ \A m \in Statuses \ {s} : kept[m] = HeldStories[m] \ Range(block)
    BY <1>1, <1>2
  <1>3. \A m \in Statuses : /\ CardsOf(rows)[m] = Sorted(LeftIn(rows, m), by[m])
                            /\ \A x \in LeftIn(rows, m) : by[m][x] = rows[x].order
    BY CardsLeft
  <1>4. \A x \in Stories : story[x] # NoStory => StoryOrder[x] = story[x].order
    BY StoryFacts DEF IInv
  <1> HIDE DEF by, kept
  <1>5. \A m \in Statuses \ {s} : \A i \in StoriesIn(m) \ B : by[m][i] = StoryOrder[i]
    <2> SUFFICES ASSUME NEW m \in Statuses \ {s}, NEW i \in StoriesIn(m) \ B PROVE by[m][i] = StoryOrder[i]
      OBVIOUS
    <2>1. i \in Stories /\ story[i] # NoStory /\ i \notin StoriesIn(s)
      BY DEF StoriesIn
    <2>2. rows[i] = story[i]
      BY <1>0, <2>1
    <2>3. i \in LeftIn(rows, m)
      BY <1>2
    <2> QED BY <1>3, <1>4, <2>1, <2>2, <2>3
  <1>6. \A i \in StoriesIn(s) \cup B : by[s][i] = IF i \in DOMAIN orders THEN orders[i] ELSE StoryOrder[i]
    <2> SUFFICES ASSUME NEW i \in StoriesIn(s) \cup B
                 PROVE  by[s][i] = IF i \in DOMAIN orders THEN orders[i] ELSE StoryOrder[i]
      OBVIOUS
    <2>1. by[s][i] = rows[i].order
      BY <1>2, <1>3
    <2>2. CASE i \in DOMAIN orders
      BY <1>0, <2>1, <2>2
    <2>3. CASE i \notin DOMAIN orders
      <3>1. i \in Stories /\ story[i] # NoStory
        BY <1>0, <2>3 DEF StoriesIn
      <3> QED BY <1>0, <1>4, <2>1, <2>3, <3>1
    <2> QED BY <2>2, <2>3
  <1>7. /\ \A m \in Statuses \ {s} : \A i \in HeldStories[m] \ Range(block) : by[m][i] = StoryOrder[i]
        /\ \A i \in HeldStories[s] \cup Range(block) :
             by[s][i] = IF i \in DOMAIN orders THEN orders[i] ELSE StoryOrder[i]
        /\ others = HeldStories[s] \ Range(block)
        /\ anchor \in HeldStories[s] \ Range(block)
    <2>1. \A i \in HeldStories[s] \cup Range(block) :
            by[s][i] = IF i \in DOMAIN orders THEN orders[i] ELSE StoryOrder[i]
      BY <1>1, <1>6
    <2>2. \A m \in Statuses \ {s} : \A i \in HeldStories[m] \ Range(block) : by[m][i] = StoryOrder[i]
      BY <1>1, <1>5
    <2>3. others = HeldStories[s] \ Range(block) /\ anchor \in HeldStories[s] \ Range(block)
      BY <1>1
    <2> QED BY ONLY <2>1, <2>2, <2>3
  <1>8. /\ Listing(after, Statuses)
        /\ \A m \in Statuses : after[m] = Sorted(kept[m], by[m])
    BY ONLY <1>1, <1>21, <1>7, BesideLists, s \in Statuses, block \in Seq(Stories), block # <<>>,
            NoRepeats(block), place \in Places, orders = Repositioned(block, others, StoryOrder, place, anchor)
       DEF after
  <1> HIDE DEF after, B
  <1>9. \A m \in Statuses : after[m] = CardsOf(rows)[m]
    BY <1>21, <1>3, <1>8
  <1>10. Listing(CardsOf(rows), Statuses)
    BY CardsLeft
  <1> QED BY <1>8, <1>9, <1>10 DEF after, Listing

\* Statuses that take the last orders of a workflow are shown last in it.
LEMMA StatusesGoLast ==
    ASSUME IInv, NEW w \in Workflows, NEW block \in Seq(Statuses), NEW rows,
           \A x \in Statuses \ Range(block) : rows[x] = status[x],
           \A b \in Range(block) : rows[b] # NoStatus /\ rows[b].workflow = w /\ rows[b].order \in Int,
           \A i \in StatusesOf(w) \ Range(block), b \in Range(block) : StatusOrder[i] < rows[b].order,
           \A k, l \in 1 .. Len(block) : k < l => rows[block[k]].order < rows[block[l]].order
    PROVE  PlacedLast(Columns, w, block) = ColumnsOf(rows)
  <1> DEFINE B == Range(block)
             by == StatusOrdersOf(rows)
             kept == [m \in Workflows |-> LeftOf(rows, m)]
             after == PlacedLast(Columns, w, block)
  <1>1. /\ HeldStatuses \in [Workflows -> SUBSET Statuses]
        /\ \A m \in Workflows : HeldStatuses[m] = StatusesOf(m)
        /\ Shows(Columns, Workflows, HeldStatuses, StatusOrder)
    BY StatusesHeld
  <1>2. /\ LeftOf(rows, w) = StatusesOf(w) \cup B
        /\ \A m \in Workflows \ {w} : LeftOf(rows, m) = StatusesOf(m) \ B
    <2>1. B \subseteq Statuses
      BY DEF Range
    <2> QED BY <2>1 DEF LeftOf, StatusesOf
  <1>21. /\ \A m \in Workflows : kept[m] = LeftOf(rows, m)
         /\ kept[w] = HeldStatuses[w] \cup Range(block)
         /\ \A m \in Workflows \ {w} : kept[m] = HeldStatuses[m] \ Range(block)
    BY <1>1, <1>2
  <1>3. \A m \in Workflows : /\ ColumnsOf(rows)[m] = Sorted(LeftOf(rows, m), by[m])
                            /\ \A x \in LeftOf(rows, m) : by[m][x] = rows[x].order
    BY ColumnsLeft
  <1>4. \A x \in Statuses : status[x] # NoStatus => StatusOrder[x] = status[x].order
    BY StatusFacts DEF IInv
  <1> HIDE DEF by, kept
  <1>5. \A m \in Workflows : \A i \in StatusesOf(m) \ B : by[m][i] = StatusOrder[i]
    <2> SUFFICES ASSUME NEW m \in Workflows, NEW i \in StatusesOf(m) \ B PROVE by[m][i] = StatusOrder[i]
      OBVIOUS
    <2>1. i \in Statuses /\ status[i] # NoStatus /\ rows[i] = status[i]
      BY DEF StatusesOf
    <2>2. i \in LeftOf(rows, m)
      BY <1>2
    <2> QED BY <1>3, <1>4, <2>1, <2>2
  <1>6. \A b \in B : by[w][b] = rows[b].order
    BY <1>2, <1>3
  <1>7. Increasing(block, by[w])
    <2>1. \A k \in 1 .. Len(block) : block[k] \in B
      BY DEF Range
    <2> QED BY <1>6, <2>1 DEF Increasing
  <1>8. /\ \A m \in Workflows \ {w} : \A i \in HeldStatuses[m] \ Range(block) : by[m][i] = StatusOrder[i]
        /\ \A i \in HeldStatuses[w] \ Range(block) : by[w][i] = StatusOrder[i]
        /\ \A b \in Range(block) : by[w][b] \in Int
        /\ \A i \in HeldStatuses[w] \ Range(block), b \in Range(block) : StatusOrder[i] < by[w][b]
    BY <1>1, <1>5, <1>6
  <1>9. /\ Listing(after, Workflows)
        /\ \A m \in Workflows : after[m] = Sorted(kept[m], by[m])
    BY ONLY <1>1, <1>21, <1>7, <1>8, LastLists, w \in Workflows, block \in Seq(Statuses)
       DEF after
  <1> HIDE DEF after, B
  <1>10. \A m \in Workflows : after[m] = ColumnsOf(rows)[m]
    BY <1>21, <1>3, <1>9
  <1>11. Listing(ColumnsOf(rows), Workflows)
    BY ColumnsLeft
  <1> QED BY <1>9, <1>10, <1>11 DEF after, Listing

StatusesTake(rows, orders, block, w) ==
    /\ Range(block) \subseteq DOMAIN orders
    /\ DOMAIN orders \subseteq Range(block) \cup StatusesOf(w)
    /\ \A x \in Statuses \ DOMAIN orders : rows[x] = status[x]
    /\ \A x \in DOMAIN orders : rows[x] # NoStatus /\ rows[x].workflow = w /\ rows[x].order = orders[x]

\* Statuses that take orders next to another are shown next to it.
LEMMA StatusesGoBeside ==
    ASSUME IInv, NEW w \in Workflows, NEW block \in Seq(Statuses), block # <<>>, NoRepeats(block),
           NEW others, others = StatusesOf(w) \ Range(block),
           NEW place \in Places, NEW anchor \in others, NEW orders,
           orders = Repositioned(block, others, StatusOrder, place, anchor),
           NEW rows, StatusesTake(rows, orders, block, w)
    PROVE  PlacedBeside(Columns, w, block, place, anchor) = ColumnsOf(rows)
  <1> DEFINE B == Range(block)
             by == StatusOrdersOf(rows)
             kept == [m \in Workflows |-> LeftOf(rows, m)]
             after == PlacedBeside(Columns, w, block, place, anchor)
  <1>0. /\ Range(block) \subseteq DOMAIN orders
        /\ DOMAIN orders \subseteq Range(block) \cup StatusesOf(w)
        /\ \A x \in Statuses \ DOMAIN orders : rows[x] = status[x]
        /\ \A x \in DOMAIN orders : rows[x] # NoStatus /\ rows[x].workflow = w /\ rows[x].order = orders[x]
    BY DEF StatusesTake
  <1>1. /\ HeldStatuses \in [Workflows -> SUBSET Statuses]
        /\ \A m \in Workflows : HeldStatuses[m] = StatusesOf(m)
        /\ Shows(Columns, Workflows, HeldStatuses, StatusOrder)
    BY StatusesHeld
  <1>2. /\ LeftOf(rows, w) = StatusesOf(w) \cup B
        /\ \A m \in Workflows \ {w} : LeftOf(rows, m) = StatusesOf(m) \ B
    <2>1. B \subseteq Statuses
      BY DEF Range
    <2> HIDE DEF B
    <2>2. B \subseteq DOMAIN orders /\ DOMAIN orders \subseteq B \cup StatusesOf(w)
      BY <1>0 DEF B
    <2>3. \A x \in Statuses : IF x \in DOMAIN orders THEN rows[x] # NoStatus /\ rows[x].workflow = w
                             ELSE rows[x] = status[x]
      BY <1>0
    <2>4. \A x \in StatusesOf(w) : x \in Statuses /\ status[x] # NoStatus /\ status[x].workflow = w
      BY DEF StatusesOf
    <2>5. DOMAIN orders \subseteq Statuses
      BY <2>1, <2>2, <2>4
    <2>6. LeftOf(rows, w) = StatusesOf(w) \cup B
      <3>1. ASSUME NEW x \in Statuses
            PROVE  x \in LeftOf(rows, w) <=> x \in StatusesOf(w) \cup B
        <4>1. CASE x \in DOMAIN orders
          BY <2>2, <2>3, <4>1 DEF LeftOf
        <4>2. CASE x \notin DOMAIN orders
          BY <2>2, <2>3, <4>2 DEF LeftOf, StatusesOf
        <4> QED BY <4>1, <4>2
      <3>2. LeftOf(rows, w) \subseteq Statuses /\ StatusesOf(w) \subseteq Statuses
        BY DEF LeftOf, StatusesOf
      <3> QED BY <2>1, <3>1, <3>2
    <2>7. ASSUME NEW m \in Workflows \ {w}
          PROVE  LeftOf(rows, m) = StatusesOf(m) \ B
      <3>1. ASSUME NEW x \in Statuses
            PROVE  x \in LeftOf(rows, m) <=> x \in StatusesOf(m) \ B
        <4>1. CASE x \in DOMAIN orders
          BY <2>2, <2>3, <2>4, <4>1 DEF LeftOf, StatusesOf
        <4>2. CASE x \notin DOMAIN orders
          BY <2>2, <2>3, <4>2 DEF LeftOf, StatusesOf
        <4> QED BY <4>1, <4>2
      <3>2. LeftOf(rows, m) \subseteq Statuses /\ StatusesOf(m) \subseteq Statuses
        BY DEF LeftOf, StatusesOf
      <3> QED BY <3>1, <3>2
    <2> QED BY <2>6, <2>7
  <1>21. /\ \A m \in Workflows : kept[m] = LeftOf(rows, m)
         /\ kept[w] = HeldStatuses[w] \cup Range(block)
         /\ \A m \in Workflows \ {w} : kept[m] = HeldStatuses[m] \ Range(block)
    BY <1>1, <1>2
  <1>3. \A m \in Workflows : /\ ColumnsOf(rows)[m] = Sorted(LeftOf(rows, m), by[m])
                            /\ \A x \in LeftOf(rows, m) : by[m][x] = rows[x].order
    BY ColumnsLeft
  <1>4. \A x \in Statuses : status[x] # NoStatus => StatusOrder[x] = status[x].order
    BY StatusFacts DEF IInv
  <1> HIDE DEF by, kept
  <1>5. \A m \in Workflows \ {w} : \A i \in StatusesOf(m) \ B : by[m][i] = StatusOrder[i]
    <2> SUFFICES ASSUME NEW m \in Workflows \ {w}, NEW i \in StatusesOf(m) \ B PROVE by[m][i] = StatusOrder[i]
      OBVIOUS
    <2>1. i \in Statuses /\ status[i] # NoStatus /\ i \notin StatusesOf(w)
      BY DEF StatusesOf
    <2>2. rows[i] = status[i]
      BY <1>0, <2>1
    <2>3. i \in LeftOf(rows, m)
      BY <1>2
    <2> QED BY <1>3, <1>4, <2>1, <2>2, <2>3
  <1>6. \A i \in StatusesOf(w) \cup B : by[w][i] = IF i \in DOMAIN orders THEN orders[i] ELSE StatusOrder[i]
    <2> SUFFICES ASSUME NEW i \in StatusesOf(w) \cup B
                 PROVE  by[w][i] = IF i \in DOMAIN orders THEN orders[i] ELSE StatusOrder[i]
      OBVIOUS
    <2>1. by[w][i] = rows[i].order
      BY <1>2, <1>3
    <2>2. CASE i \in DOMAIN orders
      BY <1>0, <2>1, <2>2
    <2>3. CASE i \notin DOMAIN orders
      <3>1. i \in Statuses /\ status[i] # NoStatus
        BY <1>0, <2>3 DEF StatusesOf
      <3> QED BY <1>0, <1>4, <2>1, <2>3, <3>1
    <2> QED BY <2>2, <2>3
  <1>7. /\ \A m \in Workflows \ {w} : \A i \in HeldStatuses[m] \ Range(block) : by[m][i] = StatusOrder[i]
        /\ \A i \in HeldStatuses[w] \cup Range(block) :
             by[w][i] = IF i \in DOMAIN orders THEN orders[i] ELSE StatusOrder[i]
        /\ others = HeldStatuses[w] \ Range(block)
        /\ anchor \in HeldStatuses[w] \ Range(block)
    <2>1. \A i \in HeldStatuses[w] \cup Range(block) :
            by[w][i] = IF i \in DOMAIN orders THEN orders[i] ELSE StatusOrder[i]
      BY <1>1, <1>6
    <2>2. \A m \in Workflows \ {w} : \A i \in HeldStatuses[m] \ Range(block) : by[m][i] = StatusOrder[i]
      BY <1>1, <1>5
    <2>3. others = HeldStatuses[w] \ Range(block) /\ anchor \in HeldStatuses[w] \ Range(block)
      BY <1>1
    <2> QED BY ONLY <2>1, <2>2, <2>3
  <1>8. /\ Listing(after, Workflows)
        /\ \A m \in Workflows : after[m] = Sorted(kept[m], by[m])
    BY ONLY <1>1, <1>21, <1>7, BesideLists, w \in Workflows, block \in Seq(Statuses), block # <<>>,
            NoRepeats(block), place \in Places, orders = Repositioned(block, others, StatusOrder, place, anchor)
       DEF after
  <1> HIDE DEF after, B
  <1>9. \A m \in Workflows : after[m] = ColumnsOf(rows)[m]
    BY <1>21, <1>3, <1>8
  <1>10. Listing(ColumnsOf(rows), Workflows)
    BY ColumnsLeft
  <1> QED BY <1>8, <1>9, <1>10 DEF after, Listing

-----------------------------------------------------------------------------
(* What each event shows: the events of stories.                           *)

LEMMA StoriesEvents ==
    ASSUME NEW s, NEW block, NEW place, NEW anchor, NEW x
    PROVE  /\ After(Board, StoriesAreReordered(s, block, place, anchor)).cards
                = Placed(Board.cards, s, block, place, anchor, NoStory)
           /\ After(Board, StoryIsCreated(x, s)).cards = PlacedLast(Board.cards, s, <<x>>)
           /\ After(Board, StoryIsUpdated(x, s)).cards = PlacedLast(Board.cards, s, <<x>>)
           /\ After(Board, StoryIsDeleted(x)).cards = Removed(Board.cards, {x})
  <1>1. Board = [listed |-> Board.listed, columns |-> Board.columns, cards |-> Board.cards]
    BY DEF Board
  <1> DEFINE board == Board
  <1> HIDE DEF board
  <1>2. board = [listed |-> board.listed, columns |-> board.columns, cards |-> board.cards]
    BY <1>1 DEF board
  <1> DEFINE e == [type |-> "stories.reorder", status |-> s, block |-> block,
                   place |-> place, anchor |-> anchor]
             c == [type |-> "stories.create", story |-> x, status |-> s]
             u == [type |-> "stories.update", story |-> x, status |-> s]
             d == [type |-> "stories.delete", story |-> x]
  <1>3. Follow(board, e).cards = Placed(board.cards, s, block, place, anchor, NoStory)
    BY <1>2 DEF Follow
  <1>4. /\ Follow(board, c).cards = PlacedLast(board.cards, s, <<x>>)
        /\ Follow(board, u).cards = PlacedLast(board.cards, s, <<x>>)
    BY <1>2 DEF Follow
  <1>5. Follow(board, d).cards = Removed(board.cards, {x})
    BY <1>2 DEF Follow
  <1>6. /\ After(Board, StoriesAreReordered(s, block, place, anchor)) = Follow(board, e)
        /\ After(Board, StoryIsCreated(x, s)) = Follow(board, c)
        /\ After(Board, StoryIsUpdated(x, s)) = Follow(board, u)
        /\ After(Board, StoryIsDeleted(x)) = Follow(board, d)
    BY AfterOne DEF StoriesAreReordered, StoryIsCreated, StoryIsUpdated, StoryIsDeleted, board
  <1> HIDE DEF e, c, u, d
  <1> QED BY <1>3, <1>4, <1>5, <1>6 DEF board

\* A story that gets the last order of a status.
LEMMA LastIsShown ==
    ASSUME IInv, NEW s \in Statuses, NEW x \in Stories, NEW rows,
           \A y \in Stories \ {x} : rows[y] = story[y],
           rows[x] # NoStory, rows[x].status = s, rows[x].order = EndOf(s)
    PROVE  PlacedLast(Cards, s, <<x>>) = CardsOf(rows)
  <1>1. /\ <<x>> \in Seq(Stories) /\ Range(<<x>>) = {x} /\ Len(<<x>>) = 1
    BY SingleFacts
  <1>2. rows[x].order \in Int /\ \A i \in StoriesIn(s) : StoryOrder[i] < rows[x].order
    <2> DEFINE latest == Latest(StoriesIn(s), StoryOrder)
    <2>1. latest \in Int /\ \A j \in StoriesIn(s) : StoryOrder[j] <= latest /\ StoryOrder[j] \in Int
      BY StoryFacts, LatestFacts DEF Ordered, IInv
    <2> HIDE DEF latest
    <2>2. rows[x].order = DefaultOrderOffset + latest
      BY DEF EndOf, NextOrder, latest
    <2>3. DefaultOrderOffset \in Nat \ {0}
      BY OffsetAssumption
    <2>4. rows[x].order \in Int /\ latest < rows[x].order
      BY <2>1, <2>2, <2>3
    <2> QED BY <2>1, <2>4
  <1> DEFINE block == <<x>>
  <1>3. /\ \A y \in Stories \ Range(block) : rows[y] = story[y]
        /\ \A b \in Range(block) : rows[b] # NoStory /\ rows[b].status = s /\ rows[b].order \in Int
        /\ \A i \in StoriesIn(s) \ Range(block), b \in Range(block) : StoryOrder[i] < rows[b].order
        /\ \A k, l \in 1 .. Len(block) : k < l => rows[block[k]].order < rows[block[l]].order
    BY <1>1, <1>2
  <1>4. block \in Seq(Stories)
    BY <1>1
  <1> HIDE DEF block
  <1>5. PlacedLast(Cards, s, block) = CardsOf(rows)
    BY ONLY <1>3, <1>4, StoriesGoLast, IInv, s \in Statuses
  <1> QED BY <1>5 DEF block

LEMMA StoryCreationIsShown ==
    ASSUME IInv, NEW x \in Stories, NEW s \in Statuses, status[s] # NoStatus
    PROVE  PlacedLast(Cards, s, <<x>>) = CardsOf(StoriesWithLast(x, s))
  <1> DEFINE rows == StoriesWithLast(x, s)
  <1>1. /\ story \in [Stories -> StoryRow \cup {NoStory}] /\ status[s].workflow \in Workflows
    BY StatusFacts DEF IInv, GoodStories
  <1>2. /\ \A y \in Stories \ {x} : rows[y] = story[y]
        /\ rows[x] = [workflow |-> status[s].workflow, status |-> s, order |-> EndOf(s)]
    BY <1>1 DEF StoriesWithLast
  <1>3. EndOf(s) \in Int
    <2>1. Latest(StoriesIn(s), StoryOrder) \in Int
      BY StoryFacts, LatestFacts DEF Ordered, IInv
    <2> QED BY <2>1, OffsetAssumption DEF EndOf, NextOrder
  <1> HIDE DEF rows
  <1>4. rows[x] \in StoryRow /\ rows[x].status = s /\ rows[x].order = EndOf(s)
    BY <1>1, <1>2, <1>3 DEF StoryRow
  <1>5. rows[x] # NoStory
    BY <1>4, RowsAssumption
  <1>6. PlacedLast(Cards, s, <<x>>) = CardsOf(rows)
    BY <1>2, <1>4, <1>5, LastIsShown
  <1> QED BY <1>6 DEF rows

LEMMA StoryUpdateIsShown ==
    ASSUME IInv, NEW x \in Stories, NEW s \in Statuses, story[x] # NoStory
    PROVE  PlacedLast(Cards, s, <<x>>) = CardsOf(StoriesAfterUpdate(x, s))
  <1> DEFINE rows == StoriesAfterUpdate(x, s)
  <1>1. /\ story \in [Stories -> StoryRow \cup {NoStory}] /\ story[x] \in StoryRow
    BY StoryFacts DEF IInv, GoodStories
  <1>2. /\ \A y \in Stories \ {x} : rows[y] = story[y]
        /\ rows[x] = [workflow |-> story[x].workflow, status |-> s, order |-> EndOf(s)]
    BY <1>1 DEF StoriesAfterUpdate, StoryRow
  <1>3. EndOf(s) \in Int
    <2>1. Latest(StoriesIn(s), StoryOrder) \in Int
      BY StoryFacts, LatestFacts DEF Ordered, IInv
    <2> QED BY <2>1, OffsetAssumption DEF EndOf, NextOrder
  <1> HIDE DEF rows
  <1>4. rows[x] \in StoryRow /\ rows[x].status = s /\ rows[x].order = EndOf(s)
    BY <1>1, <1>2, <1>3 DEF StoryRow
  <1>5. rows[x] # NoStory
    BY <1>4, RowsAssumption
  <1>6. PlacedLast(Cards, s, <<x>>) = CardsOf(rows)
    BY <1>2, <1>4, <1>5, LastIsShown
  <1> QED BY <1>6 DEF rows

LEMMA StoryDeletionIsShown ==
    ASSUME IInv, NEW x \in Stories
    PROVE  Removed(Cards, {x}) = CardsOf([story EXCEPT ![x] = NoStory])
  <1> DEFINE rows == [story EXCEPT ![x] = NoStory]
             by == StoryOrdersIn(rows)
             after == Removed(Cards, {x})
  <1>1. /\ \A m \in Statuses : HeldStories[m] = StoriesIn(m)
        /\ Shows(Cards, Statuses, HeldStories, StoryOrder)
    BY StoriesHeld
  <1>2. \A m \in Statuses : LeftIn(rows, m) = StoriesIn(m) \ {x}
    <2>1. /\ rows[x] = NoStory /\ \A y \in Stories \ {x} : rows[y] = story[y]
      BY DEF IInv, GoodStories
    <2> HIDE DEF rows
    <2> QED BY <2>1 DEF LeftIn, StoriesIn
  <1>3. \A m \in Statuses : \A y \in StoriesIn(m) \ {x} : rows[y].order = StoryOrder[y]
    <2>1. \A y \in Stories : story[y] # NoStory => StoryOrder[y] = story[y].order
      BY StoryFacts DEF IInv
    <2>2. \A y \in Stories \ {x} : rows[y] = story[y]
      BY DEF IInv, GoodStories
    <2> HIDE DEF rows
    <2> QED BY <2>1, <2>2 DEF StoriesIn
  <1> HIDE DEF rows
  <1>4. \A m \in Statuses : /\ CardsOf(rows)[m] = Sorted(LeftIn(rows, m), by[m])
                            /\ \A y \in LeftIn(rows, m) : by[m][y] = rows[y].order
    BY CardsLeft
  <1> HIDE DEF by
  <1>5. /\ Listing(after, Statuses)
        /\ \A m \in Statuses : /\ after[m] = Sorted(HeldStories[m] \ {x}, StoryOrder)
                               /\ Ordered(HeldStories[m] \ {x}, StoryOrder)
                               /\ Distinct(HeldStories[m] \ {x}, StoryOrder)
    BY <1>1, RemovedSorted
  <1> HIDE DEF after
  <1>6. ASSUME NEW m \in Statuses PROVE after[m] = CardsOf(rows)[m]
    <2> DEFINE S == StoriesIn(m) \ {x}
    <2>1. /\ after[m] = Sorted(S, StoryOrder) /\ Ordered(S, StoryOrder) /\ Distinct(S, StoryOrder)
          /\ LeftIn(rows, m) = S /\ \A y \in S : by[m][y] = StoryOrder[y]
      BY <1>1, <1>2, <1>3, <1>4, <1>5
    <2> HIDE DEF S
    <2>2. Sorted(S, by[m]) = Sorted(S, StoryOrder)
      BY <2>1, SortedSame
    <2> QED BY <1>4, <2>1, <2>2
  <1>7. Listing(CardsOf(rows), Statuses)
    BY CardsLeft
  <1> QED BY <1>5, <1>6, <1>7 DEF after, rows, Listing

LEMMA StoryOrdersHeld ==
    ASSUME IInv, NEW s \in Statuses, NEW block \in Arrangements(Stories), NEW place \in Places,
           NEW anchor \in Stories \cup {NoStory}, CanReorderStories(s, block, anchor)
    PROVE  LET orders == StoryOrdersAfter(s, block, place, anchor)
               rows == StoriesAfterReorder(s, block, place, anchor)
           IN  /\ Range(block) \subseteq DOMAIN orders
               /\ DOMAIN orders \subseteq Range(block) \cup StoriesIn(s)
               /\ DOMAIN orders \subseteq StoriesOf(status[s].workflow)
               /\ \A x \in Stories \ DOMAIN orders : rows[x] = story[x]
               /\ \A x \in DOMAIN orders :
                    rows[x] # NoStory /\ rows[x].status = s /\ rows[x].order = orders[x]
  <1> DEFINE orders == StoryOrdersAfter(s, block, place, anchor)
             rows == StoriesAfterReorder(s, block, place, anchor)
  <1>1. /\ Range(block) \subseteq DOMAIN orders
        /\ DOMAIN orders \subseteq Range(block) \cup StoriesIn(s)
        /\ \A x \in DOMAIN orders : orders[x] \in Int
    BY StoryOrdersFacts DEF IInv, CanReorderStories
  <1>2. DOMAIN orders \subseteq StoriesOf(status[s].workflow)
    <2>1. StoriesIn(s) \subseteq StoriesOf(status[s].workflow)
      BY DEF IInv, InPlace, StoriesIn, StoriesOf
    <2> HIDE DEF orders
    <2> QED BY <1>1, <2>1 DEF CanReorderStories
  <1>3. /\ \A x \in Stories \ DOMAIN orders : rows[x] = story[x]
        /\ \A x \in DOMAIN orders : x \in Stories =>
             rows[x] = [story[x] EXCEPT !.status = s, !.order = orders[x]]
    BY DEF StoriesAfterReorder
  <1> HIDE DEF orders, rows
  <1>4. ASSUME NEW x \in DOMAIN orders
        PROVE  rows[x] # NoStory /\ rows[x].status = s /\ rows[x].order = orders[x]
    <2>1. x \in Stories /\ story[x] # NoStory
      BY <1>2 DEF StoriesOf
    <2>2. story[x] \in StoryRow
      BY <2>1, StoryFacts DEF IInv
    <2>3. rows[x] \in StoryRow /\ rows[x].status = s /\ rows[x].order = orders[x]
      BY <1>1, <1>3, <2>1, <2>2 DEF StoryRow
    <2> QED BY <2>3, RowsAssumption
  <1> QED BY <1>1, <1>2, <1>3, <1>4 DEF orders, rows

LEMMA StoriesReorderIsShown ==
    ASSUME IInv, NEW s \in Statuses, NEW block \in Arrangements(Stories), NEW place \in Places,
           NEW anchor \in Stories \cup {NoStory}, CanReorderStories(s, block, anchor)
    PROVE  Placed(Cards, s, block, place, anchor, NoStory)
             = CardsOf(StoriesAfterReorder(s, block, place, anchor))
  <1> DEFINE orders == StoryOrdersAfter(s, block, place, anchor)
             rows == StoriesAfterReorder(s, block, place, anchor)
  <1>1. block \in Seq(Stories) /\ block # <<>> /\ Range(block) \subseteq Stories /\ NoRepeats(block)
    BY WorkflowsAssumption, Arranged
  <1>2. /\ Range(block) \subseteq DOMAIN orders
        /\ DOMAIN orders \subseteq Range(block) \cup StoriesIn(s)
        /\ \A x \in Stories \ DOMAIN orders : rows[x] = story[x]
        /\ \A x \in DOMAIN orders :
             rows[x] # NoStory /\ rows[x].status = s /\ rows[x].order = orders[x]
    BY StoryOrdersHeld
  <1> HIDE DEF rows
  <1>3. CASE anchor = NoStory
    <2> DEFINE latest == Latest(StoriesIn(s), StoryOrder)
    <2>1. orders = Appended(block, latest)
      BY <1>3 DEF StoryOrdersAfter
    <2>2. latest \in Int /\ \A j \in StoriesIn(s) : StoryOrder[j] <= latest /\ StoryOrder[j] \in Int
      BY StoryFacts, LatestFacts DEF Ordered, IInv
    <2> HIDE DEF latest, orders
    <2>3. /\ DOMAIN orders = Range(block)
          /\ \A b \in Range(block) : orders[b] \in Int /\ latest < orders[b]
          /\ Increasing(block, orders)
      BY <1>1, <2>1, <2>2, AppendedOrder
    <2>4. /\ \A x \in Stories \ Range(block) : rows[x] = story[x]
          /\ \A b \in Range(block) : rows[b] # NoStory /\ rows[b].status = s /\ rows[b].order \in Int
      BY <1>2, <2>3
    <2>5. ASSUME NEW i \in StoriesIn(s) \ Range(block), NEW b \in Range(block)
          PROVE  StoryOrder[i] < rows[b].order
      <3>1. rows[b].order = orders[b]
        BY <1>2, <2>3
      <3> QED BY <2>2, <2>3, <3>1
    <2>6. \A k, l \in 1 .. Len(block) : k < l => rows[block[k]].order < rows[block[l]].order
      <3>1. \A k \in 1 .. Len(block) : block[k] \in Range(block)
        BY <1>1 DEF Range
      <3>2. \A k \in 1 .. Len(block) : rows[block[k]].order = orders[block[k]]
        BY <1>2, <2>3, <3>1
      <3> QED BY <2>3, <3>2 DEF Increasing
    <2>7. PlacedLast(Cards, s, block) = CardsOf(rows)
      BY <1>1, <2>4, <2>5, <2>6, StoriesGoLast
    <2> QED BY <1>3, <2>7 DEF Placed, rows
  <1>4. CASE anchor # NoStory
    <2> DEFINE others == StoriesIn(s) \ Range(block)
    <2>1. orders = Repositioned(block, others, StoryOrder, place, anchor)
      BY <1>4 DEF StoryOrdersAfter
    <2>2. others = StoriesIn(s) \ Range(block) /\ anchor \in others
      BY <1>4 DEF CanReorderStories
    <2> HIDE DEF orders, others
    <2>3. StoriesTake(rows, orders, block, s)
      BY <1>2 DEF StoriesTake
    <2>4. PlacedBeside(Cards, s, block, place, anchor) = CardsOf(rows)
      BY ONLY <1>1, <2>1, <2>2, <2>3, StoriesGoBeside, IInv, s \in Statuses, place \in Places
    <2> QED BY <1>4, <2>4 DEF Placed, rows
  <1> QED BY <1>3, <1>4

LEMMA TheyAreTold ==
    ASSUME IInv, NEW s \in Statuses, NEW block \in Arrangements(Stories), NEW place \in Places,
           NEW anchor \in Stories \cup {NoStory}, CanReorderStories(s, block, anchor)
    PROVE  ToldOfReorder(s, block, place, anchor) =
             {x \in StoriesOf(status[s].workflow) :
                StoriesAfterReorder(s, block, place, anchor)[x].status # story[x].status}
  <1> DEFINE orders == StoryOrdersAfter(s, block, place, anchor)
             rows == StoriesAfterReorder(s, block, place, anchor)
  <1>1. /\ DOMAIN orders \subseteq StoriesOf(status[s].workflow)
        /\ \A x \in Stories \ DOMAIN orders : rows[x] = story[x]
        /\ \A x \in DOMAIN orders : rows[x].status = s
    BY StoryOrdersHeld
  <1>2. ToldOfReorder(s, block, place, anchor) = {x \in DOMAIN orders : story[x].status # s}
    BY DEF ToldOfReorder
  <1> HIDE DEF orders, rows
  <1>3. StoriesOf(status[s].workflow) \subseteq Stories
    BY DEF StoriesOf
  <1>4. {x \in DOMAIN orders : story[x].status # s}
          = {x \in StoriesOf(status[s].workflow) : rows[x].status # story[x].status}
    BY <1>1, <1>3
  <1> QED BY <1>2, <1>4 DEF rows

LEMMA StoryEventsAreEnough ==
    ASSUME IInv
    PROVE  StoryEventsShowTheBoard
  <1>1. ASSUME NEW s \in Statuses, NEW block \in Arrangements(Stories), NEW anchor \in Stories \cup {NoStory},
               CanReorderStories(s, block, anchor),
               NEW place \in IF anchor = NoStory THEN {"after"} ELSE Places
        PROVE  LET rows == StoriesAfterReorder(s, block, place, anchor) IN
               /\ After(Board, StoriesAreReordered(s, block, place, anchor)).cards = CardsOf(rows)
               /\ ToldOfReorder(s, block, place, anchor) =
                    {x \in StoriesOf(status[s].workflow) : rows[x].status # story[x].status}
    <2>1. place \in Places
      BY DEF Places
    <2>2. Placed(Cards, s, block, place, anchor, NoStory)
            = CardsOf(StoriesAfterReorder(s, block, place, anchor))
      BY <1>1, <2>1, StoriesReorderIsShown
    <2>3. After(Board, StoriesAreReordered(s, block, place, anchor)).cards
            = Placed(Cards, s, block, place, anchor, NoStory)
      BY StoriesEvents, CardsAreShown
    <2>4. ToldOfReorder(s, block, place, anchor) =
            {x \in StoriesOf(status[s].workflow) :
               StoriesAfterReorder(s, block, place, anchor)[x].status # story[x].status}
      BY <1>1, <2>1, TheyAreTold
    <2> QED BY <2>2, <2>3, <2>4
  <1>2. ASSUME NEW x \in Stories, NEW s \in Statuses, status[s] # NoStatus
        PROVE  After(Board, StoryIsCreated(x, s)).cards = CardsOf(StoriesWithLast(x, s))
    BY <1>2, StoriesEvents, CardsAreShown, StoryCreationIsShown
  <1>3. ASSUME NEW x \in Stories, NEW s \in Statuses, CanChangeStatus(x, s)
        PROVE  /\ After(Board, StoryIsUpdated(x, s)).cards = CardsOf(StoriesAfterUpdate(x, s))
               /\ x \in ToldOfUpdate(x)
    <2>1. story[x] # NoStory
      BY <1>3 DEF CanChangeStatus
    <2> QED BY <2>1, StoriesEvents, CardsAreShown, StoryUpdateIsShown DEF ToldOfUpdate
  <1>4. ASSUME NEW x \in Stories
        PROVE  After(Board, StoryIsDeleted(x)).cards = CardsOf([story EXCEPT ![x] = NoStory])
    BY StoriesEvents, CardsAreShown, StoryDeletionIsShown
  <1>5. ASSUME NEW x \in Stories, NEW w \in Workflows, CanChangeWorkflow(x, w)
        PROVE  After(Board, StoryIsUpdated(x, Head(Columns[w]))).cards =
                 CardsOf(StoriesWithLast(x, Head(Columns[w])))
    <2> DEFINE list == Columns[w]
    <2>1. list \in Seq(StatusesOf(w)) /\ Range(list) = StatusesOf(w) /\ StatusesOf(w) # {}
      <3>1. Ordered(StatusesOf(w), StatusOrder)
        BY StatusFacts DEF IInv
      <3> QED BY <1>5, <3>1, SortedFacts DEF Columns, CanChangeWorkflow
    <2> HIDE DEF list
    <2>2. Head(list) \in StatusesOf(w)
      <3>1. list # <<>>
        BY <2>1 DEF Range
      <3> QED BY <2>1, <3>1
    <2>3. Head(list) \in Statuses /\ status[Head(list)] # NoStatus
      BY <2>2 DEF StatusesOf
    <2> DEFINE s == Head(list)
    <2> HIDE DEF s
    <2>4. s \in Statuses /\ status[s] # NoStatus
      BY <2>3 DEF s
    <2>5. After(Board, StoryIsUpdated(x, s)).cards = CardsOf(StoriesWithLast(x, s))
      BY <2>4, StoriesEvents, CardsAreShown, StoryCreationIsShown
    <2> QED BY <2>5 DEF s, list
  <1> QED BY <1>1, <1>2, <1>3, <1>4, <1>5 DEF StoryEventsShowTheBoard

-----------------------------------------------------------------------------
(* What each event shows: the events of statuses and workflows.            *)

LEMMA CardsNow ==
    ASSUME IInv
    PROVE  Cards = CardsOf(story)
  <1> DEFINE by == StoryOrdersIn(story)
  <1>1. /\ Listing(CardsOf(story), Statuses)
        /\ \A s \in Statuses : /\ CardsOf(story)[s] = Sorted(LeftIn(story, s), by[s])
                               /\ \A x \in LeftIn(story, s) : by[s][x] = story[x].order
    BY CardsLeft
  <1> HIDE DEF by
  <1>2. ASSUME NEW s \in Statuses PROVE Cards[s] = CardsOf(story)[s]
    <2> DEFINE S == StoriesIn(s)
    <2>1. LeftIn(story, s) = S /\ Cards[s] = Sorted(S, StoryOrder)
      BY DEF LeftIn, StoriesIn, Cards
    <2>2. \A x \in S : by[s][x] = StoryOrder[x]
      BY <1>1, <2>1, StoryFacts DEF StoriesIn, IInv
    <2>3. Ordered(S, StoryOrder) /\ Distinct(S, StoryOrder)
      BY StoryFacts DEF IInv
    <2> HIDE DEF S
    <2>4. Sorted(S, by[s]) = Sorted(S, StoryOrder)
      BY <2>2, <2>3, SortedSame
    <2> QED BY <1>1, <2>1, <2>4
  <1>3. Cards = [s \in Statuses |-> Cards[s]]
    BY DEF Cards
  <1> QED BY <1>1, <1>2, <1>3 DEF Listing

LEMMA ColumnsNow ==
    ASSUME IInv
    PROVE  Columns = ColumnsOf(status)
  <1> DEFINE by == StatusOrdersOf(status)
  <1>1. /\ Listing(ColumnsOf(status), Workflows)
        /\ \A w \in Workflows : /\ ColumnsOf(status)[w] = Sorted(LeftOf(status, w), by[w])
                                /\ \A s \in LeftOf(status, w) : by[w][s] = status[s].order
    BY ColumnsLeft
  <1> HIDE DEF by
  <1>2. ASSUME NEW w \in Workflows PROVE Columns[w] = ColumnsOf(status)[w]
    <2> DEFINE S == StatusesOf(w)
    <2>1. LeftOf(status, w) = S /\ Columns[w] = Sorted(S, StatusOrder)
      BY DEF LeftOf, StatusesOf, Columns
    <2>2. \A s \in S : by[w][s] = StatusOrder[s]
      BY <1>1, <2>1, StatusFacts DEF StatusesOf, IInv
    <2>3. Ordered(S, StatusOrder) /\ Distinct(S, StatusOrder)
      BY StatusFacts DEF IInv
    <2> HIDE DEF S
    <2>4. Sorted(S, by[w]) = Sorted(S, StatusOrder)
      BY <2>2, <2>3, SortedSame
    <2> QED BY <1>1, <2>1, <2>4
  <1>3. Columns = [w \in Workflows |-> Columns[w]]
    BY DEF Columns
  <1> QED BY <1>1, <1>2, <1>3 DEF Listing

\* The statuses of S lose their stories, the others keep theirs.
OnlyLose(rows, left, S) ==
    /\ \A s \in S : LeftIn(left, s) = {}
    /\ \A s \in Statuses \ S : /\ LeftIn(left, s) = LeftIn(rows, s)
                               /\ \A x \in LeftIn(rows, s) : left[x].order = rows[x].order

LEMMA CardsCleared ==
    ASSUME NEW rows, NEW left, NEW S, OnlyLose(rows, left, S)
    PROVE  Cleared(CardsOf(rows), S) = CardsOf(left)
  <1>1. Listing(CardsOf(rows), Statuses) /\ Listing(CardsOf(left), Statuses)
    BY CardsLeft
  <1>2. ASSUME NEW s \in Statuses, s \in S PROVE CardsOf(left)[s] = <<>>
    <2>1. LeftIn(left, s) = {}
      BY <1>2 DEF OnlyLose
    <2>2. CardsOf(left)[s] = Sorted(LeftIn(left, s), StoryOrdersIn(left)[s])
      BY CardsLeft
    <2>3. CardsOf(left)[s] = Sorted({}, StoryOrdersIn(left)[s])
      BY <2>1, <2>2
    <2> QED BY <2>3, SortedOfNone
  <1>3. ASSUME NEW s \in Statuses, s \notin S PROVE CardsOf(left)[s] = CardsOf(rows)[s]
    <2> DEFINE L == LeftIn(rows, s)
    <2>1. LeftIn(left, s) = L /\ \A x \in L : left[x].order = rows[x].order
      BY <1>3 DEF OnlyLose
    <2>2. /\ CardsOf(rows)[s] = Sorted(LeftIn(rows, s), [x \in LeftIn(rows, s) |-> rows[x].order])
          /\ CardsOf(left)[s] = Sorted(LeftIn(left, s), [x \in LeftIn(left, s) |-> left[x].order])
      BY DEF CardsOf, LeftIn
    <2>3. [x \in L |-> left[x].order] = [x \in L |-> rows[x].order]
      <3> HIDE DEF L
      <3> QED BY <2>1
    <2> QED BY <2>1, <2>2, <2>3
  <1> HIDE DEF CardsOf
  <1>4. DOMAIN CardsOf(rows) = Statuses
    BY <1>1 DEF Listing
  <1>5. CardsOf(left) = [s \in Statuses |-> IF s \in S THEN <<>> ELSE CardsOf(rows)[s]]
    BY <1>1, <1>2, <1>3 DEF Listing
  <1> QED BY <1>4, <1>5 DEF Cleared

LEMMA ColumnCleared ==
    ASSUME NEW rows, NEW left, NEW w \in Workflows, LeftOf(left, w) = {},
           \A v \in Workflows \ {w} : /\ LeftOf(left, v) = LeftOf(rows, v)
                                      /\ \A s \in LeftOf(rows, v) : left[s].order = rows[s].order
    PROVE  [ColumnsOf(rows) EXCEPT ![w] = <<>>] = ColumnsOf(left)
  <1>1. Listing(ColumnsOf(rows), Workflows) /\ Listing(ColumnsOf(left), Workflows)
    BY ColumnsLeft
  <1>2. ColumnsOf(left)[w] = <<>>
    <2>1. ColumnsOf(left)[w] = Sorted(LeftOf(left, w), StatusOrdersOf(left)[w])
      BY ColumnsLeft
    <2>2. ColumnsOf(left)[w] = Sorted({}, StatusOrdersOf(left)[w])
      BY <2>1
    <2> QED BY <2>2, SortedOfNone
  <1>3. ASSUME NEW v \in Workflows \ {w} PROVE ColumnsOf(left)[v] = ColumnsOf(rows)[v]
    <2> DEFINE L == LeftOf(rows, v)
    <2>1. LeftOf(left, v) = L /\ \A s \in L : left[s].order = rows[s].order
      OBVIOUS
    <2>2. /\ ColumnsOf(rows)[v] = Sorted(LeftOf(rows, v), [s \in LeftOf(rows, v) |-> rows[s].order])
          /\ ColumnsOf(left)[v] = Sorted(LeftOf(left, v), [s \in LeftOf(left, v) |-> left[s].order])
      BY DEF ColumnsOf, LeftOf
    <2>3. [s \in L |-> left[s].order] = [s \in L |-> rows[s].order]
      <3> HIDE DEF L
      <3> QED BY <2>1
    <2> QED BY <2>1, <2>2, <2>3
  <1> QED BY <1>1, <1>2, <1>3 DEF Listing

LEMMA StatusDeletionIsShown ==
    ASSUME IInv, NEW s \in Statuses
    PROVE  Removed(Columns, {s}) = ColumnsOf([status EXCEPT ![s] = NoStatus])
  <1> DEFINE rows == [status EXCEPT ![s] = NoStatus]
             by == StatusOrdersOf(rows)
             after == Removed(Columns, {s})
  <1>1. /\ \A m \in Workflows : HeldStatuses[m] = StatusesOf(m)
        /\ Shows(Columns, Workflows, HeldStatuses, StatusOrder)
    BY StatusesHeld
  <1>2. \A m \in Workflows : LeftOf(rows, m) = StatusesOf(m) \ {s}
    <2>1. /\ rows[s] = NoStatus /\ \A y \in Statuses \ {s} : rows[y] = status[y]
      BY DEF IInv, GoodStatuses
    <2> HIDE DEF rows
    <2> QED BY <2>1 DEF LeftOf, StatusesOf
  <1>3. \A m \in Workflows : \A y \in StatusesOf(m) \ {s} : rows[y].order = StatusOrder[y]
    <2>1. \A y \in Statuses : status[y] # NoStatus => StatusOrder[y] = status[y].order
      BY StatusFacts DEF IInv
    <2>2. \A y \in Statuses \ {s} : rows[y] = status[y]
      BY DEF IInv, GoodStatuses
    <2> HIDE DEF rows
    <2> QED BY <2>1, <2>2 DEF StatusesOf
  <1> HIDE DEF rows
  <1>4. \A m \in Workflows : /\ ColumnsOf(rows)[m] = Sorted(LeftOf(rows, m), by[m])
                            /\ \A y \in LeftOf(rows, m) : by[m][y] = rows[y].order
    BY ColumnsLeft
  <1> HIDE DEF by
  <1>5. /\ Listing(after, Workflows)
        /\ \A m \in Workflows : /\ after[m] = Sorted(HeldStatuses[m] \ {s}, StatusOrder)
                               /\ Ordered(HeldStatuses[m] \ {s}, StatusOrder)
                               /\ Distinct(HeldStatuses[m] \ {s}, StatusOrder)
    BY <1>1, RemovedSorted
  <1> HIDE DEF after
  <1>6. ASSUME NEW m \in Workflows PROVE after[m] = ColumnsOf(rows)[m]
    <2> DEFINE S == StatusesOf(m) \ {s}
    <2>1. /\ after[m] = Sorted(S, StatusOrder) /\ Ordered(S, StatusOrder) /\ Distinct(S, StatusOrder)
          /\ LeftOf(rows, m) = S /\ \A y \in S : by[m][y] = StatusOrder[y]
      BY <1>1, <1>2, <1>3, <1>4, <1>5
    <2> HIDE DEF S
    <2>2. Sorted(S, by[m]) = Sorted(S, StatusOrder)
      BY <2>1, SortedSame
    <2> QED BY <1>4, <2>1, <2>2
  <1>7. Listing(ColumnsOf(rows), Workflows)
    BY ColumnsLeft
  <1> QED BY <1>5, <1>6, <1>7 DEF after, rows, Listing

LEMMA StatusesEvents ==
    ASSUME NEW w, NEW block, NEW place, NEW anchor, NEW s
    PROVE  /\ After(Board, StatusesAreReordered(w, block, place, anchor)).columns
                = Placed(Board.columns, w, block, place, anchor, NoStatus)
           /\ LET shown == After(Board, <<[type |-> "workflowstatuses.delete", status |-> s]>>)
              IN  /\ shown.columns = Removed(Board.columns, {s})
                  /\ shown.cards = Cleared(Board.cards, {s})
  <1>1. Board = [listed |-> Board.listed, columns |-> Board.columns, cards |-> Board.cards]
    BY DEF Board
  <1> DEFINE board == Board
             e == [type |-> "workflowstatuses.reorder", workflow |-> w, block |-> block,
                   place |-> place, anchor |-> anchor]
             d == [type |-> "workflowstatuses.delete", status |-> s]
  <1> HIDE DEF board
  <1>2. board = [listed |-> board.listed, columns |-> board.columns, cards |-> board.cards]
    BY <1>1 DEF board
  <1>3. Follow(board, e).columns = Placed(board.columns, w, block, place, anchor, NoStatus)
    BY <1>2 DEF Follow
  <1>4. /\ Follow(board, d).columns = Removed(board.columns, {s})
        /\ Follow(board, d).cards = Cleared(board.cards, {s})
    BY <1>2 DEF Follow
  <1>5. /\ After(Board, StatusesAreReordered(w, block, place, anchor)) = Follow(board, e)
        /\ After(Board, <<d>>) = Follow(board, d)
    BY AfterOne DEF StatusesAreReordered, board
  <1> HIDE DEF e
  <1> QED BY <1>3, <1>4, <1>5 DEF board

LEMMA JoinedEvents ==
    ASSUME NEW e, NEW d
    PROVE  <<>> \o <<d>> = <<d>> /\ <<e>> \o <<d>> = <<e, d>>
  <1>1. <<d>> \in Seq({e, d}) /\ <<e>> \in Seq({e, d}) /\ <<e, d>> \in Seq({e, d})
    OBVIOUS
  <1>2. <<>> \o <<d>> = <<d>>
    BY <1>1
  <1> DEFINE both == <<e>> \o <<d>>
  <1>3. both \in Seq({e, d}) /\ Len(both) = 2
    BY <1>1
  <1>4. both[1] = e /\ both[2] = d
    BY <1>1
  <1> HIDE DEF both
  <1>5. both = <<e, d>>
    BY <1>1, <1>3, <1>4
  <1> QED BY <1>2, <1>5 DEF both

LEMMA StatusesReorderIsShown ==
    ASSUME IInv, NEW w \in Workflows, NEW block \in Arrangements(Statuses), NEW place \in Places,
           NEW anchor \in Statuses, CanReorderStatuses(w, block, anchor)
    PROVE  Placed(Columns, w, block, place, anchor, NoStatus)
             = ColumnsOf(StatusesAfterReorder(w, block, place, anchor))
  <1> DEFINE others == StatusesOf(w) \ Range(block)
             orders == Repositioned(block, others, StatusOrder, place, anchor)
             rows == StatusesAfterReorder(w, block, place, anchor)
  <1>1. block \in Seq(Statuses) /\ block # <<>> /\ Range(block) \subseteq Statuses /\ NoRepeats(block)
    BY WorkflowsAssumption, Arranged
  <1>2. others \subseteq StatusesOf(w) /\ anchor \in others /\ Range(block) \subseteq StatusesOf(w)
    BY DEF CanReorderStatuses
  <1>3. Ordered(others, StatusOrder) /\ others \in SUBSET Statuses
    BY StatusFacts DEF IInv
  <1>4. /\ \A s \in Statuses \ DOMAIN orders : rows[s] = status[s]
        /\ \A s \in DOMAIN orders : s \in Statuses => rows[s] = [status[s] EXCEPT !.order = orders[s]]
    BY DEF StatusesAfterReorder
  <1>5. others = StatusesOf(w) \ Range(block)
    OBVIOUS
  <1> HIDE DEF others
  <1>6. /\ Range(block) \subseteq DOMAIN orders
        /\ DOMAIN orders \subseteq Range(block) \cup others
        /\ \A i \in DOMAIN orders : orders[i] \in Int
    BY <1>1, <1>2, <1>3, RepositionedFacts
  <1>7. orders = Repositioned(block, others, StatusOrder, place, anchor)
    OBVIOUS
  <1> HIDE DEF orders, rows
  <1>8. ASSUME NEW s \in DOMAIN orders
        PROVE  rows[s] # NoStatus /\ rows[s].workflow = w /\ rows[s].order = orders[s]
    <2>1. s \in Statuses /\ status[s] # NoStatus /\ status[s].workflow = w
      BY <1>2, <1>6 DEF StatusesOf
    <2>2. status[s] \in StatusRow
      BY <2>1, StatusFacts DEF IInv
    <2>3. rows[s] \in StatusRow /\ rows[s].workflow = w /\ rows[s].order = orders[s]
      BY <1>4, <1>6, <2>1, <2>2 DEF StatusRow
    <2> QED BY <2>3, RowsAssumption
  <1>9. StatusesTake(rows, orders, block, w)
    BY <1>4, <1>5, <1>6, <1>8 DEF StatusesTake
  <1>10. PlacedBeside(Columns, w, block, place, anchor) = ColumnsOf(rows)
    BY ONLY <1>1, <1>2, <1>5, <1>7, <1>9, StatusesGoBeside, IInv, w \in Workflows, place \in Places
  <1>11. anchor # NoStatus
    BY WorkflowsAssumption
  <1> QED BY <1>10, <1>11 DEF Placed, rows

\* The stories of a status that is deleted go to the end of the target, as the
\* event says, before the status is taken away with what is left in it.
LEMMA StatusDeletionEvents ==
    ASSUME IInv, NEW s \in Statuses, NEW target \in Statuses \cup {NoStatus},
           CanDeleteStatus(s, target)
    PROVE  LET shown == After(Board, StatusIsDeleted(s, target)) IN
           /\ shown.cards = CardsOf(StoriesAfterDeletion(s, target))
           /\ shown.columns = ColumnsOf([status EXCEPT ![s] = NoStatus])
  <1> DEFINE rows == StoriesAfterDeletion(s, target)
             d == [type |-> "workflowstatuses.delete", status |-> s]
             block == Cards[s]
  <1>1. /\ Board.cards = Cards /\ Board.columns = Columns
        /\ Cards = CardsOf(story) /\ Removed(Columns, {s}) = ColumnsOf([status EXCEPT ![s] = NoStatus])
    BY CardsAreShown, ColumnsAreShown, CardsNow, StatusDeletionIsShown
  <1>2. /\ block \in Seq(StoriesIn(s)) /\ Range(block) = StoriesIn(s) /\ Increasing(block, StoryOrder)
        /\ NoRepeats(block) /\ block \in Seq(Stories)
    <2>1. Ordered(StoriesIn(s), StoryOrder) /\ Distinct(StoriesIn(s), StoryOrder)
      BY StoryFacts DEF IInv
    <2>2. block = Sorted(StoriesIn(s), StoryOrder)
      BY DEF Cards
    <2> HIDE DEF block
    <2>3. block \in Seq(StoriesIn(s)) /\ Range(block) = StoriesIn(s) /\ Increasing(block, StoryOrder)
      BY <2>1, <2>2, SortedIncreases
    <2>4. StoriesIn(s) \subseteq Stories
      BY DEF StoriesIn
    <2>5. \A x \in StoriesIn(s) : StoryOrder[x] \in Int
      BY <2>1 DEF Ordered
    <2>6. NoRepeats(block)
      BY <2>3, <2>5, IncreasingFacts
    <2> QED BY <2>3, <2>4, <2>6
  <1>3. /\ \A x \in Stories \ StoriesIn(s) : rows[x] = story[x]
        /\ target = NoStatus => \A x \in StoriesIn(s) : rows[x] = NoStory
        /\ target # NoStatus => \A x \in StoriesIn(s) :
             rows[x] = [story[x] EXCEPT !.status = target,
                        !.order = Appended(block, Latest(StoriesIn(target), StoryOrder))[x]]
    BY DEF StoriesAfterDeletion, StoriesIn
  <1> HIDE DEF rows, block
  <1>4. CASE target = NoStatus \/ block = <<>>
    <2>1. StatusIsDeleted(s, target) = <<d>>
      <3>1. StatusIsDeleted(s, target) = <<>> \o <<d>>
        BY <1>4 DEF StatusIsDeleted, block
      <3> HIDE DEF d
      <3> QED BY <3>1, JoinedEvents
    <2>2. /\ After(Board, <<d>>).columns = Removed(Columns, {s})
          /\ After(Board, <<d>>).cards = Cleared(Cards, {s})
      BY <1>1, StatusesEvents
    <2>3. OnlyLose(story, rows, {s})
      <3>1. \A x \in StoriesIn(s) : rows[x] = NoStory
        <4>1. CASE target = NoStatus
          BY <1>3, <4>1
        <4>2. CASE block = <<>>
          <5>1. StoriesIn(s) = {}
            BY <1>2, <4>2 DEF Range
          <5> QED BY <5>1
        <4> QED BY <1>4, <4>1, <4>2
      <3> QED BY <1>3, <3>1 DEF OnlyLose, LeftIn, StoriesIn
    <2>4. Cleared(CardsOf(story), {s}) = CardsOf(rows)
      BY <2>3, CardsCleared
    <2> HIDE DEF d
    <2> QED BY <1>1, <2>1, <2>2, <2>4 DEF rows
  <1>5. CASE target # NoStatus /\ block # <<>>
    <2> DEFINE e == [type |-> "stories.reorder", status |-> target, block |-> block,
                     place |-> "after", anchor |-> NoStory]
               latest == Latest(StoriesIn(target), StoryOrder)
               orders == Appended(block, latest)
    <2>1. StatusIsDeleted(s, target) = <<e, d>>
      <3>1. StatusIsDeleted(s, target) = <<e>> \o <<d>>
        BY <1>5 DEF StatusIsDeleted, StoriesAreReordered, block
      <3> HIDE DEF d, e
      <3> QED BY <3>1, JoinedEvents
    <2>2. target \in Statuses /\ target # s
      BY <1>5 DEF CanDeleteStatus
    <2>3. latest \in Int /\ \A j \in StoriesIn(target) : StoryOrder[j] <= latest /\ StoryOrder[j] \in Int
      BY StoryFacts, LatestFacts DEF Ordered, IInv
    <2> HIDE DEF latest
    <2>4. /\ DOMAIN orders = Range(block)
          /\ \A b \in Range(block) : orders[b] \in Int /\ latest < orders[b]
          /\ Increasing(block, orders)
      BY <1>2, <2>3, AppendedOrder
    <2>5. \A x \in StoriesIn(s) : rows[x] = [story[x] EXCEPT !.status = target, !.order = orders[x]]
      BY <1>3, <1>5 DEF latest
    <2> HIDE DEF orders
    <2>6. ASSUME NEW b \in Range(block)
          PROVE  /\ rows[b] # NoStory /\ rows[b].status = target
                 /\ rows[b].order = orders[b] /\ rows[b].order \in Int
      <3>1. b \in StoriesIn(s)
        BY <1>2
      <3>2. story[b] \in StoryRow
        BY <3>1, StoryFacts DEF StoriesIn, IInv
      <3>3. rows[b] \in StoryRow /\ rows[b].status = target /\ rows[b].order = orders[b]
        BY <2>2, <2>4, <2>5, <3>1, <3>2 DEF StoryRow
      <3> QED BY <2>4, <3>3, RowsAssumption
    <2>7. /\ \A x \in Stories \ Range(block) : rows[x] = story[x]
          /\ \A b \in Range(block) : rows[b] # NoStory /\ rows[b].status = target /\ rows[b].order \in Int
      BY <1>2, <1>3, <2>6
    <2>8. ASSUME NEW i \in StoriesIn(target) \ Range(block), NEW b \in Range(block)
          PROVE  StoryOrder[i] < rows[b].order
      <3>1. rows[b].order = orders[b]
        BY <2>6
      <3> QED BY <2>3, <2>4, <3>1
    <2>9. \A k, l \in 1 .. Len(block) : k < l => rows[block[k]].order < rows[block[l]].order
      <3>1. \A k \in 1 .. Len(block) : block[k] \in Range(block)
        BY <1>2 DEF Range
      <3>2. \A k \in 1 .. Len(block) : rows[block[k]].order = orders[block[k]]
        BY <2>6, <3>1
      <3> QED BY <2>4, <3>2 DEF Increasing
    <2>10. PlacedLast(Cards, target, block) = CardsOf(rows)
      BY <1>2, <2>2, <2>7, <2>8, <2>9, StoriesGoLast
    <2>11. OnlyLose(rows, rows, {s})
      <3>1. LeftIn(rows, s) = {}
        BY <1>2, <2>2, <2>7 DEF LeftIn, StoriesIn
      <3> QED BY <3>1 DEF OnlyLose
    <2>12. Cleared(CardsOf(rows), {s}) = CardsOf(rows)
      BY <2>11, CardsCleared
    <2>13. After(Board, <<e, d>>) = Follow(Follow(Board, e), d)
      BY AfterTwo
    <2> DEFINE board == Board
               moved == Follow(board, e)
    <2> HIDE DEF board
    <2>14. board = [listed |-> board.listed, columns |-> board.columns, cards |-> board.cards]
      BY DEF board, Board
    <2>15. /\ moved = [listed |-> moved.listed, columns |-> moved.columns, cards |-> moved.cards]
           /\ moved.cards = Placed(board.cards, target, block, "after", NoStory, NoStory)
           /\ moved.columns = board.columns
      BY <2>14 DEF Follow
    <2> HIDE DEF moved, e
    <2>16. /\ Follow(moved, d).columns = Removed(moved.columns, {s})
           /\ Follow(moved, d).cards = Cleared(moved.cards, {s})
      BY <2>15 DEF Follow
    <2>17. moved.cards = CardsOf(rows) /\ moved.columns = Columns
      BY <1>1, <2>10, <2>15 DEF Placed, board
    <2>18. After(Board, StatusIsDeleted(s, target)) = Follow(moved, d)
      BY <2>1, <2>13 DEF moved, board
    <2> HIDE DEF d
    <2> QED BY <1>1, <2>12, <2>16, <2>17, <2>18 DEF rows
  <1> QED BY <1>4, <1>5

\* The statuses that move, and what they make room for, before the others are deleted.
MigrationMoved(w, target) ==
    LET orders == MigrationOrders(w, target) IN
    [s \in Statuses |->
       IF s \in DOMAIN orders THEN [workflow |-> target, order |-> orders[s]] ELSE status[s]]

MigrationAnchor(target) == IF Columns[target] = <<>> THEN NoStatus ELSE Last(Columns[target])

LEMMA MovingFacts ==
    ASSUME IInv, NEW w, NEW moving, moving = Sorted(StatusesToMove(w), StatusOrder)
    PROVE  /\ moving \in Seq(Statuses) /\ Range(moving) = StatusesToMove(w) /\ NoRepeats(moving)
           /\ Increasing(moving, StatusOrder)
           /\ StatusesToMove(w) \subseteq StatusesOf(w)
           /\ moving = <<>> <=> StatusesToMove(w) = {}
  <1>1. StatusesToMove(w) \subseteq StatusesOf(w)
    BY DEF StatusesToMove
  <1>2. Ordered(StatusesToMove(w), StatusOrder) /\ Distinct(StatusesToMove(w), StatusOrder)
    BY <1>1, StatusFacts DEF IInv
  <1>3. /\ moving \in Seq(StatusesToMove(w)) /\ Range(moving) = StatusesToMove(w)
        /\ Increasing(moving, StatusOrder)
    BY <1>2, SortedIncreases
  <1>4. \A s \in StatusesToMove(w) : StatusOrder[s] \in Int
    BY <1>2 DEF Ordered
  <1>5. NoRepeats(moving)
    BY <1>3, <1>4, IncreasingFacts
  <1>6. moving \in Seq(Statuses)
    BY <1>1, <1>3 DEF StatusesOf
  <1>7. moving = <<>> <=> StatusesToMove(w) = {}
    <2>1. Range(moving) = {} <=> moving = <<>>
      <3>1. Len(moving) \in Nat /\ DOMAIN moving = 1 .. Len(moving)
        BY <1>6
      <3>2. moving = <<>> => Range(moving) = {}
        BY DEF Range
      <3>3. moving # <<>> => moving[1] \in Range(moving)
        BY <1>6 DEF Range
      <3> QED BY <3>2, <3>3
    <2> QED BY <1>3, <2>1
  <1> QED BY <1>1, <1>3, <1>5, <1>6, <1>7

LEMMA MigrationIsShown ==
    ASSUME IInv, NEW w \in Workflows, NEW target \in Workflows, w # target,
           NEW moving, moving = Sorted(StatusesToMove(w), StatusOrder), moving # <<>>
    PROVE  Placed(Columns, target, moving, "after", MigrationAnchor(target), NoStatus)
             = ColumnsOf(MigrationMoved(w, target))
  <1> DEFINE orders == MigrationOrders(w, target)
             list == Columns[target]
             rows == MigrationMoved(w, target)
  <1>1. /\ moving \in Seq(Statuses) /\ Range(moving) = StatusesToMove(w) /\ NoRepeats(moving)
        /\ Increasing(moving, StatusOrder) /\ StatusesToMove(w) \subseteq StatusesOf(w)
    BY MovingFacts
  <1>2. /\ StatusesToMove(w) \subseteq DOMAIN orders
        /\ DOMAIN orders \subseteq StatusesToMove(w) \cup StatusesOf(target)
        /\ \A s \in DOMAIN orders : orders[s] \in Int
    BY MigrationFacts DEF IInv
  <1>3. /\ list \in Seq(StatusesOf(target)) /\ Range(list) = StatusesOf(target)
        /\ list = <<>> <=> StatusesOf(target) = {}
    <2>1. Ordered(StatusesOf(target), StatusOrder)
      BY StatusFacts DEF IInv
    <2>2. list = Sorted(StatusesOf(target), StatusOrder)
      BY DEF Columns
    <2> HIDE DEF list
    <2>3. list \in Seq(StatusesOf(target)) /\ Range(list) = StatusesOf(target)
      BY <2>1, <2>2, SortedFacts
    <2>4. list = <<>> => Range(list) = {}
      BY DEF Range
    <2>5. list # <<>> => list[1] \in Range(list)
      BY <2>3 DEF Range
    <2> QED BY <2>3, <2>4, <2>5
  <1>4. orders = IF StatusesOf(target) = {} THEN [s \in Range(moving) |-> status[s].order]
                 ELSE Repositioned(moving, StatusesOf(target), StatusOrder, "after", Last(list))
    BY DEF MigrationOrders
  <1>5. \A s \in Statuses : rows[s] = IF s \in DOMAIN orders THEN [workflow |-> target, order |-> orders[s]]
                                      ELSE status[s]
    BY DEF MigrationMoved
  <1>6. StatusesOf(target) = StatusesOf(target) \ Range(moving)
    BY <1>1 DEF StatusesOf
  <1>7. DOMAIN orders \subseteq Statuses
    BY <1>1, <1>2 DEF StatusesOf
  <1> HIDE DEF orders, rows, list
  <1>8. ASSUME NEW s \in DOMAIN orders
        PROVE  rows[s] # NoStatus /\ rows[s].workflow = target /\ rows[s].order = orders[s]
    <2>1. rows[s] \in StatusRow /\ rows[s].workflow = target /\ rows[s].order = orders[s]
      <3>1. orders[s] \in Int /\ s \in Statuses
        BY <1>2, <1>7
      <3>2. rows[s] = [workflow |-> target, order |-> orders[s]]
        BY <1>5, <3>1
      <3> QED BY <3>1, <3>2 DEF StatusRow
    <2> QED BY <2>1, RowsAssumption
  <1>9. CASE StatusesOf(target) = {}
    <2>1. orders = [s \in Range(moving) |-> status[s].order]
      BY <1>4, <1>9
    <2>2. \A s \in Range(moving) : rows[s].order = StatusOrder[s] /\ StatusOrder[s] \in Int
      <3>1. \A s \in Range(moving) : orders[s] = StatusOrder[s] /\ StatusOrder[s] \in Int
        BY <1>1, <2>1, StatusFacts DEF StatusesOf, IInv
      <3> QED BY <1>8, <2>1, <3>1
    <2>3. /\ \A s \in Statuses \ Range(moving) : rows[s] = status[s]
          /\ \A b \in Range(moving) : rows[b] # NoStatus /\ rows[b].workflow = target /\ rows[b].order \in Int
      BY <1>5, <1>8, <2>1, <2>2
    <2>4. \A i \in StatusesOf(target) \ Range(moving), b \in Range(moving) : StatusOrder[i] < rows[b].order
      BY <1>9
    <2>5. \A k, l \in 1 .. Len(moving) : k < l => rows[moving[k]].order < rows[moving[l]].order
      <3>1. \A k \in 1 .. Len(moving) : moving[k] \in Range(moving)
        BY <1>1 DEF Range
      <3> QED BY <1>1, <2>2, <3>1 DEF Increasing
    <2>6. PlacedLast(Columns, target, moving) = ColumnsOf(rows)
      BY <1>1, <2>3, <2>4, <2>5, StatusesGoLast
    <2>7. MigrationAnchor(target) = NoStatus
      BY <1>3, <1>9 DEF MigrationAnchor, list
    <2> QED BY <2>6, <2>7 DEF Placed, rows
  <1>10. CASE StatusesOf(target) # {}
    <2> DEFINE anchor == Last(list)
               others == StatusesOf(target)
    <2>1. anchor \in others
      BY <1>3, <1>10 DEF Last
    <2>2. MigrationAnchor(target) = anchor /\ anchor # NoStatus
      <3>1. anchor \in Statuses
        BY <2>1 DEF StatusesOf
      <3>2. MigrationAnchor(target) = anchor
        BY <1>3, <1>10 DEF MigrationAnchor, list
      <3> QED BY <3>1, <3>2, WorkflowsAssumption
    <2>3. others = StatusesOf(target) \ Range(moving)
      BY <1>6
    <2>4. orders = Repositioned(moving, others, StatusOrder, "after", anchor)
      BY <1>4, <1>10
    <2> HIDE DEF anchor
    <2>5. StatusesTake(rows, orders, moving, target)
      BY <1>1, <1>2, <1>5, <1>8 DEF StatusesTake
    <2>6. "after" \in Places
      BY DEF Places
    <2> HIDE DEF others
    <2>7. PlacedBeside(Columns, target, moving, "after", anchor) = ColumnsOf(rows)
      BY ONLY <1>1, <2>1, <2>3, <2>4, <2>5, <2>6, StatusesGoBeside, IInv, target \in Workflows, moving # <<>>
    <2> QED BY <2>2, <2>7 DEF Placed, rows
  <1> QED BY <1>9, <1>10

\* What the last event of a deletion takes away.
LEMMA WorkflowDeletionEvents ==
    ASSUME IInv, NEW w \in Workflows, NEW target \in Workflows \cup {NoWorkflow},
           CanDeleteWorkflow(w, target)
    PROVE  LET shown == After(Board, WorkflowIsDeleted(w, target)) IN
           /\ shown.cards = CardsOf(StoriesAfterMigration(w, target))
           /\ shown.columns = ColumnsOf(StatusesAfterMigration(w, target))
  <1> DEFINE d == [type |-> "workflows.delete", workflow |-> w]
             moving == IF target = NoWorkflow THEN <<>> ELSE Sorted(StatusesToMove(w), StatusOrder)
             rows == StatusesAfterMigration(w, target)
             left == StoriesAfterMigration(w, target)
             orders == IF target = NoWorkflow THEN <<>> ELSE MigrationOrders(w, target)
  <1>1. /\ Board.cards = Cards /\ Board.columns = Columns
        /\ Cards = CardsOf(story) /\ Columns = ColumnsOf(status)
    BY CardsAreShown, ColumnsAreShown, CardsNow, ColumnsNow
  <1>2. target # w /\ NoWorkflow \notin Workflows
    BY WorkflowsAssumption DEF CanDeleteWorkflow
  <1>3. WorkflowIsDeleted(w, target) =
          (IF moving = <<>> THEN <<>>
           ELSE StatusesAreReordered(target, moving, "after", MigrationAnchor(target))) \o <<d>>
    BY DEF WorkflowIsDeleted, MigrationAnchor
  <1>4. \A s \in Statuses : rows[s] = IF s \in DOMAIN orders THEN [workflow |-> target, order |-> orders[s]]
                                      ELSE IF s \in StatusesOf(w) THEN NoStatus ELSE status[s]
    BY DEF StatusesAfterMigration
  <1>5. /\ \A x \in Stories \ StoriesOf(w) : left[x] = story[x]
        /\ \A x \in StoriesOf(w) :
             left[x] = IF target # NoWorkflow /\ story[x].status \in StatusesToMove(w)
                       THEN [story[x] EXCEPT !.workflow = target] ELSE NoStory
    BY DEF StoriesAfterMigration, StoriesOf
  <1>6. /\ \A x \in StoriesOf(w) : story[x].status \in StatusesToMove(w)
        /\ \A x \in Stories : story[x] # NoStory => (x \in StoriesOf(w) <=> story[x].status \in StatusesOf(w))
    <2>1. \A x \in Stories : story[x] # NoStory =>
            /\ story[x].status \in Statuses /\ status[story[x].status] # NoStatus
            /\ status[story[x].status].workflow = story[x].workflow
      BY StoryFacts DEF IInv, InPlace
    <2> QED BY <2>1 DEF StoriesOf, StatusesToMove, StatusesOf, StoriesIn
  <1> DEFINE board == Board
  <1>7. board = [listed |-> board.listed, columns |-> board.columns, cards |-> board.cards]
    BY DEF Board
  <1>8. ASSUME NEW b, b = [listed |-> b.listed, columns |-> b.columns, cards |-> b.cards]
        PROVE  /\ Follow(b, d).columns = [b.columns EXCEPT ![w] = <<>>]
               /\ Follow(b, d).cards = Cleared(b.cards, Range(b.columns[w]))
    BY <1>8 DEF Follow
  <1> HIDE DEF rows, left, orders, board
  <1>9. CASE moving = <<>>
    <2>1. WorkflowIsDeleted(w, target) = <<d>>
      <3>1. WorkflowIsDeleted(w, target) = <<>> \o <<d>>
        BY <1>3, <1>9
      <3> HIDE DEF d
      <3> QED BY <3>1, JoinedEvents
    <2>2. DOMAIN orders = {}
      <3>1. CASE target = NoWorkflow
        BY <3>1 DEF orders
      <3>2. CASE target # NoWorkflow
        <4>1. orders = <<>>
          BY <1>9, <3>2 DEF orders, MigrationOrders
        <4> QED BY <4>1
      <3> QED BY <3>1, <3>2
    <2>3. target # NoWorkflow => StatusesToMove(w) = {}
      BY <1>9, MovingFacts
    <2>4. \A x \in StoriesOf(w) : left[x] = NoStory
      BY <1>5, <2>3
    <2>5. Range(Columns[w]) = StatusesOf(w)
      BY StatusFacts, SortedFacts DEF Columns, IInv
    <2>6. OnlyLose(story, left, StatusesOf(w))
      <3>1. \A s \in StatusesOf(w) : LeftIn(left, s) = {}
        BY <1>5, <1>6, <2>4 DEF LeftIn
      <3>2. \A s \in Statuses \ StatusesOf(w) : LeftIn(left, s) = LeftIn(story, s)
        BY <1>5, <1>6, <2>4 DEF LeftIn
      <3>3. \A s \in Statuses \ StatusesOf(w) : \A x \in LeftIn(story, s) : left[x].order = story[x].order
        BY <1>5, <1>6 DEF LeftIn
      <3> QED BY <3>1, <3>2, <3>3 DEF OnlyLose
    <2>7. Cleared(CardsOf(story), StatusesOf(w)) = CardsOf(left)
      BY <2>6, CardsCleared
    <2>8. /\ LeftOf(rows, w) = {}
          /\ \A v \in Workflows \ {w} : /\ LeftOf(rows, v) = LeftOf(status, v)
                                        /\ \A s \in LeftOf(status, v) : rows[s].order = status[s].order
      <3>1. \A s \in Statuses : rows[s] = IF s \in StatusesOf(w) THEN NoStatus ELSE status[s]
        BY <1>4, <2>2
      <3> QED BY <3>1 DEF LeftOf, StatusesOf
    <2>9. [ColumnsOf(status) EXCEPT ![w] = <<>>] = ColumnsOf(rows)
      BY <2>8, ColumnCleared
    <2>10. After(Board, <<d>>) = Follow(board, d)
      BY AfterOne DEF board
    <2>11. /\ Follow(board, d).columns = [Columns EXCEPT ![w] = <<>>]
           /\ Follow(board, d).cards = Cleared(Cards, Range(Columns[w]))
      <3> HIDE DEF d
      <3>1. board.columns = Columns /\ board.cards = Cards
        BY <1>1 DEF board
      <3> QED BY <1>7, <1>8, <3>1
    <2> HIDE DEF d
    <2> QED BY <1>1, <2>1, <2>5, <2>7, <2>9, <2>10, <2>11 DEF rows, left
  <1>10. CASE moving # <<>>
    <2> DEFINE e == [type |-> "workflowstatuses.reorder", workflow |-> target, block |-> moving,
                     place |-> "after", anchor |-> MigrationAnchor(target)]
               part == MigrationMoved(w, target)
    <2>1. WorkflowIsDeleted(w, target) = <<e, d>>
      <3>1. WorkflowIsDeleted(w, target) = <<e>> \o <<d>>
        BY <1>3, <1>10 DEF StatusesAreReordered
      <3> HIDE DEF d, e
      <3> QED BY <3>1, JoinedEvents
    <2>2. target \in Workflows /\ target # NoWorkflow
      BY <1>2, <1>10
    <2>3. orders = MigrationOrders(w, target)
      BY <2>2 DEF orders
    <2>4. moving = Sorted(StatusesToMove(w), StatusOrder)
      BY <2>2
    <2> HIDE DEF moving
    <2>5. Placed(Columns, target, moving, "after", MigrationAnchor(target), NoStatus) = ColumnsOf(part)
      BY <1>2, <1>10, <2>2, <2>4, MigrationIsShown
    <2>6. /\ StatusesToMove(w) \subseteq DOMAIN orders
          /\ DOMAIN orders \subseteq StatusesToMove(w) \cup StatusesOf(target)
          /\ \A s \in DOMAIN orders : orders[s] \in Int
      BY <1>2, <2>2, <2>3, MigrationFacts DEF IInv
    <2>7. StatusesToMove(w) \subseteq StatusesOf(w)
      BY DEF StatusesToMove
    <2>8. \A s \in Statuses : part[s] = IF s \in DOMAIN orders THEN [workflow |-> target, order |-> orders[s]]
                                        ELSE status[s]
      BY <2>3 DEF MigrationMoved
    <2> HIDE DEF part
    <2>9. /\ LeftOf(rows, w) = {}
          /\ \A v \in Workflows \ {w} : /\ LeftOf(rows, v) = LeftOf(part, v)
                                        /\ \A s \in LeftOf(part, v) : rows[s].order = part[s].order
          /\ LeftOf(part, w) = StatusesOf(w) \ StatusesToMove(w)
      <3>1. \A s \in Statuses : s \in DOMAIN orders =>
              /\ part[s] = rows[s] /\ part[s].workflow = target /\ part[s].order = orders[s]
              /\ part[s] # NoStatus
        <4> SUFFICES ASSUME NEW s \in Statuses, s \in DOMAIN orders
                     PROVE  /\ part[s] = rows[s] /\ part[s].workflow = target /\ part[s].order = orders[s]
                            /\ part[s] # NoStatus
          OBVIOUS
        <4>1. part[s] = [workflow |-> target, order |-> orders[s]] /\ part[s] = rows[s]
          BY <1>4, <2>8
        <4>2. part[s] \in StatusRow
          BY <2>2, <2>6, <4>1 DEF StatusRow
        <4> QED BY <4>1, <4>2, RowsAssumption
      <3>2. \A s \in Statuses : s \notin DOMAIN orders =>
              part[s] = status[s] /\ rows[s] = IF s \in StatusesOf(w) THEN NoStatus ELSE status[s]
        BY <1>4, <2>8
      <3>3. \A s \in StatusesOf(w) : s \in DOMAIN orders => s \in StatusesToMove(w)
        BY <1>2, <2>6 DEF StatusesOf
      <3>4. LeftOf(rows, w) = {}
        BY <1>2, <3>1, <3>2 DEF LeftOf, StatusesOf
      <3>5. LeftOf(part, w) = StatusesOf(w) \ StatusesToMove(w)
        <4>1. ASSUME NEW s \in Statuses
              PROVE  s \in LeftOf(part, w) <=> s \in StatusesOf(w) \ StatusesToMove(w)
          <5>1. CASE s \in DOMAIN orders
            BY <1>2, <3>1, <3>3, <5>1 DEF LeftOf
          <5>2. CASE s \notin DOMAIN orders
            BY <2>6, <3>2, <5>2 DEF LeftOf, StatusesOf
          <5> QED BY <5>1, <5>2
        <4>2. LeftOf(part, w) \subseteq Statuses /\ StatusesOf(w) \subseteq Statuses
          BY DEF LeftOf, StatusesOf
        <4> QED BY <4>1, <4>2
      <3>6. ASSUME NEW v \in Workflows \ {w}
            PROVE  /\ LeftOf(rows, v) = LeftOf(part, v)
                   /\ \A s \in LeftOf(part, v) : rows[s].order = part[s].order
        <4>1. \A s \in Statuses : s \in LeftOf(part, v) => rows[s] = part[s]
          BY <3>1, <3>2 DEF LeftOf, StatusesOf
        <4>2. \A s \in Statuses : s \in LeftOf(rows, v) => rows[s] = part[s]
          BY <3>1, <3>2 DEF LeftOf
        <4> QED BY <4>1, <4>2 DEF LeftOf
      <3> QED BY <3>4, <3>5, <3>6
    <2>10. [ColumnsOf(part) EXCEPT ![w] = <<>>] = ColumnsOf(rows)
      BY <2>9, ColumnCleared
    <2>11. Range(ColumnsOf(part)[w]) = StatusesOf(w) \ StatusesToMove(w)
      <3> DEFINE S == LeftOf(part, w)
                 by == StatusOrdersOf(part)[w]
      <3>1. ColumnsOf(part)[w] = Sorted(S, by) /\ \A s \in S : by[s] = part[s].order
        BY ColumnsLeft
      <3>2. S \subseteq StatusesOf(w) /\ \A s \in S : s \in Statuses /\ s \notin DOMAIN orders
        <4>1. \A s \in S : s \in StatusesOf(w) /\ s \notin StatusesToMove(w)
          BY <2>9
        <4>2. \A s \in StatusesOf(w) : s \notin StatusesOf(target)
          BY <1>2 DEF StatusesOf
        <4>3. \A s \in StatusesOf(w) : s \in Statuses
          BY DEF StatusesOf
        <4> HIDE DEF S
        <4> QED BY <2>6, <4>1, <4>2, <4>3
      <3>3. \A s \in S : by[s] = StatusOrder[s]
        BY <2>8, <3>1, <3>2, StatusFacts DEF StatusesOf, IInv
      <3>4. Ordered(S, StatusOrder) /\ Distinct(S, StatusOrder)
        BY <3>2, StatusFacts DEF IInv
      <3> HIDE DEF S, by
      <3>5. Range(Sorted(S, by)) = S
        BY <3>3, <3>4, SortedSame, SortedIncreases
      <3> QED BY <2>9, <3>1, <3>5 DEF S
    <2>12. OnlyLose(story, left, StatusesOf(w) \ StatusesToMove(w))
      <3>1. \A x \in StoriesOf(w) : /\ left[x] # NoStory /\ left[x].status = story[x].status
                                    /\ left[x].order = story[x].order
        <4> SUFFICES ASSUME NEW x \in StoriesOf(w)
                     PROVE  /\ left[x] # NoStory /\ left[x].status = story[x].status
                            /\ left[x].order = story[x].order
          OBVIOUS
        <4>1. story[x] \in StoryRow
          BY StoryFacts DEF StoriesOf, IInv
        <4>2. left[x] = [story[x] EXCEPT !.workflow = target]
          BY <1>5, <1>6, <2>2
        <4>3. left[x] \in StoryRow /\ left[x].status = story[x].status /\ left[x].order = story[x].order
          BY <2>2, <4>1, <4>2 DEF StoryRow
        <4> QED BY <4>3, RowsAssumption
      <3>2. ASSUME NEW s \in Statuses
            PROVE  /\ LeftIn(left, s) = LeftIn(story, s)
                   /\ \A x \in LeftIn(story, s) : left[x].order = story[x].order
        <4>1. \A x \in Stories : /\ left[x] = NoStory <=> story[x] = NoStory
                                 /\ story[x] # NoStory => /\ left[x].status = story[x].status
                                                          /\ left[x].order = story[x].order
          <5>1. \A x \in StoriesOf(w) : story[x] # NoStory
            BY DEF StoriesOf
          <5> QED BY <1>5, <3>1, <5>1
        <4> QED BY <4>1 DEF LeftIn
      <3>3. \A s \in StatusesOf(w) \ StatusesToMove(w) : LeftIn(story, s) = {}
        BY DEF StatusesToMove, LeftIn, StoriesIn
      <3>4. StatusesOf(w) \subseteq Statuses
        BY DEF StatusesOf
      <3> QED BY <3>2, <3>3, <3>4 DEF OnlyLose
    <2>13. Cleared(CardsOf(story), StatusesOf(w) \ StatusesToMove(w)) = CardsOf(left)
      BY <2>12, CardsCleared
    <2>14. After(Board, <<e, d>>) = Follow(Follow(Board, e), d)
      BY AfterTwo
    <2> DEFINE moved == Follow(board, e)
    <2>15. /\ moved = [listed |-> moved.listed, columns |-> moved.columns, cards |-> moved.cards]
           /\ moved.columns = Placed(board.columns, target, moving, "after", MigrationAnchor(target), NoStatus)
           /\ moved.cards = board.cards
      BY <1>7 DEF Follow
    <2> HIDE DEF moved, e, d
    <2>16. /\ Follow(moved, d).columns = [moved.columns EXCEPT ![w] = <<>>]
           /\ Follow(moved, d).cards = Cleared(moved.cards, Range(moved.columns[w]))
      BY <1>8, <2>15
    <2>17. moved.columns = ColumnsOf(part) /\ moved.cards = CardsOf(story)
      BY <1>1, <2>5, <2>15 DEF board
    <2>18. After(Board, WorkflowIsDeleted(w, target)) = Follow(moved, d)
      BY <2>1, <2>14 DEF moved, board
    <2> QED BY <2>10, <2>11, <2>13, <2>16, <2>17, <2>18 DEF rows, left
  <1> QED BY <1>9, <1>10

LEMMA StatusEventsAreEnough ==
    ASSUME IInv
    PROVE  StatusEventsShowTheBoard
  <1>1. ASSUME NEW w \in Workflows, NEW block \in Arrangements(Statuses), NEW place \in Places,
               NEW anchor \in Statuses, CanReorderStatuses(w, block, anchor)
        PROVE  After(Board, StatusesAreReordered(w, block, place, anchor)).columns =
                 ColumnsOf(StatusesAfterReorder(w, block, place, anchor))
    <2>1. Placed(Columns, w, block, place, anchor, NoStatus)
            = ColumnsOf(StatusesAfterReorder(w, block, place, anchor))
      BY <1>1, StatusesReorderIsShown
    <2>2. After(Board, StatusesAreReordered(w, block, place, anchor)).columns
            = Placed(Columns, w, block, place, anchor, NoStatus)
      BY StatusesEvents, ColumnsAreShown
    <2> QED BY <2>1, <2>2
  <1>2. ASSUME NEW s \in Statuses, NEW target \in Statuses \cup {NoStatus}, CanDeleteStatus(s, target)
        PROVE  LET shown == After(Board, StatusIsDeleted(s, target)) IN
               /\ shown.cards = CardsOf(StoriesAfterDeletion(s, target))
               /\ shown.columns = ColumnsOf([status EXCEPT ![s] = NoStatus])
    BY <1>2, StatusDeletionEvents
  <1>3. ASSUME NEW w \in Workflows, NEW target \in Workflows \cup {NoWorkflow},
               CanDeleteWorkflow(w, target)
        PROVE  LET shown == After(Board, WorkflowIsDeleted(w, target)) IN
               /\ shown.cards = CardsOf(StoriesAfterMigration(w, target))
               /\ shown.columns = ColumnsOf(StatusesAfterMigration(w, target))
    BY <1>3, WorkflowDeletionEvents
  <1> QED BY <1>1, <1>2, <1>3 DEF StatusEventsShowTheBoard

\* Whatever orders are rewritten to make room, and whatever moves or goes along with
\* what is deleted, the events that a request publishes are enough: a client that
\* does what they say shows the statuses and the stories as the pages would, and who
\* has to do with a story is told exactly when its status changes.
THEOREM FollowersAlwaysSeeTheBoard == Spec => []FollowersSeeTheBoard
  <1>1. IInv => FollowersSeeTheBoard
    BY StoryEventsAreEnough, StatusEventsAreEnough DEF FollowersSeeTheBoard
  <1> QED BY <1>1, BoardsAreGood, PTL

-----------------------------------------------------------------------------
(* The pages fit together. The landing page names a workflow of the        *)
(* project as long as there is one.                                        *)

LandingExists ==
    IF workflows = <<>> THEN landing = NoWorkflow ELSE landing \in Range(workflows)

LEMMA LandingStays ==
    ASSUME IInv, LandingExists, [Next]_vars
    PROVE  LandingExists'
  <1>1. ASSUME NEW w \in Workflows, NEW ids, CreateWorkflow(w, ids)
        PROVE  LandingExists'
    <2>1. /\ workflows' = Append(workflows, w)
          /\ landing' = IF workflows = <<>> THEN w ELSE landing
      BY <1>1 DEF CreateWorkflow
    <2>2. /\ workflows \in Seq(Workflows) /\ workflows' # <<>>
          /\ DOMAIN workflows' = 1 .. (Len(workflows) + 1)
          /\ \A k \in 1 .. Len(workflows) : workflows'[k] = workflows[k]
          /\ workflows'[Len(workflows) + 1] = w
      BY <2>1 DEF IInv
    <2>3. CASE workflows = <<>>
      BY <2>1, <2>2, <2>3 DEF LandingExists, Range
    <2>4. CASE workflows # <<>>
      <3>1. PICK k \in 1 .. Len(workflows) : landing = workflows[k]
        BY <2>2, <2>4 DEF LandingExists, Range
      <3>2. k \in 1 .. (Len(workflows) + 1) /\ landing' = workflows'[k]
        BY <2>1, <2>2, <2>4, <3>1
      <3> QED BY <2>2, <3>2 DEF LandingExists, Range
    <2> QED BY <2>3, <2>4
  <1>2. ASSUME NEW w \in Workflows, NEW target, DeleteWorkflow(w, target)
        PROVE  LandingExists'
    <2> DEFINE left == WorkflowsWithout(w)
    <2>1. /\ w \in Range(workflows) /\ workflows' = left /\ landing' = LandingWithout(w)
      BY <1>2 DEF DeleteWorkflow, CanDeleteWorkflow
    <2>2. left \in Seq(Workflows) /\ \A v \in Range(workflows) : v # w => v \in Range(left)
      BY <2>1, WorkflowsWithoutFacts DEF IInv
    <2>3. landing \in Range(workflows)
      <3>1. workflows # <<>>
        BY <2>1 DEF Range
      <3> QED BY <3>1 DEF LandingExists
    <2>4. landing' = IF landing # w THEN landing
                     ELSE IF left = <<>> THEN NoWorkflow ELSE Head(left)
      BY <2>1 DEF LandingWithout
    <2> HIDE DEF left
    <2>5. left # <<>> => Head(left) \in Range(left)
      BY <2>2 DEF Range
    <2>6. Range(<<>>) = {}
      BY DEF Range
    <2> QED BY <2>1, <2>2, <2>3, <2>4, <2>5, <2>6 DEF LandingExists
  <1>3. ASSUME UNCHANGED <<workflows, landing>> PROVE LandingExists'
    BY <1>3 DEF LandingExists
  <1>4. CASE WorkflowStep
    BY <1>1, <1>2, <1>4 DEF WorkflowStep
  <1>5. CASE StatusStep
    BY <1>3, <1>5 DEF StatusStep, CreateStatus, ReorderStatuses, DeleteStatus
  <1>6. CASE StoryStep
    BY <1>3, <1>6 DEF StoryStep, CreateStory, ChangeStatus, ChangeWorkflow, DeleteStory, ReorderStories
  <1>7. CASE UNCHANGED vars
    BY <1>3, <1>7 DEF vars
  <1> QED BY <1>4, <1>5, <1>6, <1>7 DEF Next

LEMMA LandingOpens ==
    ASSUME IInv, LandingExists
    PROVE  IF workflows = <<>> THEN landing = NoWorkflow ELSE GetWorkflowBySlug # {}
  <1>1. SUFFICES ASSUME workflows # <<>> PROVE GetWorkflowBySlug # {}
    BY DEF LandingExists
  <1>2. PICK i \in DOMAIN workflows : workflows[i] = landing
    BY <1>1 DEF LandingExists, Range
  <1>3. ListWorkflows[i].workflow = landing /\ ListWorkflows[i] \in Range(ListWorkflows)
    BY <1>2 DEF ListWorkflows, Range
  <1> QED BY <1>3 DEF GetWorkflowBySlug, GetWorkflow

-----------------------------------------------------------------------------
(* Who goes from a story to the next. The stories of a workflow come one   *)
(* before the other, whichever two are taken.                              *)

LEMMA PlacedStories ==
    ASSUME IInv, NEW w, NEW x \in StoriesOf(w)
    PROVE  /\ x \in Stories /\ x \in StoriesIn(story[x].status)
           /\ story[x].order \in Int /\ StoryOrder[x] = story[x].order
           /\ story[x].workflow = w /\ story[x].status \in StatusesOf(w)
           /\ status[story[x].status].order \in Int
  <1>1. x \in Stories /\ story[x] # NoStory /\ story[x].workflow = w
    BY DEF StoriesOf
  <1>2. story[x].status \in Statuses /\ story[x].order \in Int /\ StoryOrder[x] = story[x].order
    BY <1>1, StoryFacts DEF IInv
  <1>3. status[story[x].status] # NoStatus /\ status[story[x].status].workflow = w
    BY <1>1 DEF IInv, InPlace
  <1>4. status[story[x].status].order \in Int
    BY <1>2, <1>3, StatusFacts DEF IInv
  <1> QED BY <1>1, <1>2, <1>3, <1>4 DEF StoriesIn, StatusesOf

LEMMA OneComesBefore ==
    ASSUME IInv, NEW w
    PROVE  /\ \A x \in StoriesOf(w) : ~ ComesBefore(x, x)
           /\ \A x, y \in StoriesOf(w) : x # y => ComesBefore(x, y) \/ ComesBefore(y, x)
           /\ \A x, y, z \in StoriesOf(w) :
                ComesBefore(x, y) /\ ComesBefore(y, z) => ComesBefore(x, z)
  <1>1. \A x \in StoriesOf(w) :
          /\ story[x].order \in Int /\ story[x].status \in StatusesOf(w)
          /\ status[story[x].status].order \in Int
    BY PlacedStories
  <1>2. ASSUME NEW x \in StoriesOf(w), NEW y \in StoriesOf(w), x # y
        PROVE  /\ story[x].status = story[y].status => story[x].order # story[y].order
               /\ story[x].status # story[y].status =>
                    status[story[x].status].order # status[story[y].status].order
    <2>1. story[x].status = story[y].status => story[x].order # story[y].order
      BY <1>2 DEF StoriesOf, IInv, GoodStories
    <2>2. \A s, t \in StatusesOf(w) : s # t => status[s].order # status[t].order
      BY DEF StatusesOf, IInv, GoodStatuses
    <2> QED BY <1>1, <2>1, <2>2
  <1>3. \A x \in StoriesOf(w) : ~ ComesBefore(x, x)
    BY <1>1 DEF ComesBefore
  <1>4. \A x, y \in StoriesOf(w) : x # y => ComesBefore(x, y) \/ ComesBefore(y, x)
    BY <1>1, <1>2 DEF ComesBefore
  <1>5. \A x, y, z \in StoriesOf(w) :
          ComesBefore(x, y) /\ ComesBefore(y, z) => ComesBefore(x, z)
    BY <1>1 DEF ComesBefore
  <1> QED BY <1>3, <1>4, <1>5

LEMMA SmallerSet ==
    ASSUME NEW S, NEW T, IsFiniteSet(T), S \subseteq T, S # T
    PROVE  Cardinality(S) < Cardinality(T)
  <1>1. S \in SUBSET T
    OBVIOUS
  <1>2. IsFiniteSet(S) /\ Cardinality(S) <= Cardinality(T) /\ Cardinality(S) # Cardinality(T)
    BY <1>1, FS_Subset
  <1>3. Cardinality(S) \in Nat /\ Cardinality(T) \in Nat
    BY <1>2, FS_CardinalityType
  <1> QED BY <1>2, <1>3

Row(w) == [x \in StoriesOf(w) |-> Cardinality({y \in StoriesOf(w) : ComesBefore(y, x)})]

\* The more stories come before one, the further it is.
LEMMA RowsIncrease ==
    ASSUME IInv, NEW w
    PROVE  /\ Ordered(StoriesOf(w), Row(w)) /\ Distinct(StoriesOf(w), Row(w))
           /\ \A x, y \in StoriesOf(w) : ComesBefore(x, y) <=> Row(w)[x] < Row(w)[y]
  <1> DEFINE S == StoriesOf(w)
             Before(x) == {y \in S : ComesBefore(y, x)}
  <1>1. IsFiniteSet(S)
    BY WorkflowsAssumption, FS_Subset DEF StoriesOf
  <1>2. \A x \in S : Row(w)[x] = Cardinality(Before(x))
    BY DEF Row
  <1>3. \A x \in S : IsFiniteSet(Before(x)) /\ Cardinality(Before(x)) \in Nat
    <2> SUFFICES ASSUME NEW x \in S PROVE IsFiniteSet(Before(x)) /\ Cardinality(Before(x)) \in Nat
      OBVIOUS
    <2>1. Before(x) \in SUBSET S
      OBVIOUS
    <2> QED BY <1>1, <2>1, FS_Subset, FS_CardinalityType
  <1>4. ASSUME NEW x \in S, NEW y \in S, ComesBefore(x, y)
        PROVE  Row(w)[x] < Row(w)[y]
    <2>1. Before(x) \subseteq Before(y)
      BY <1>4, OneComesBefore
    <2>2. x \in Before(y) /\ x \notin Before(x)
      BY <1>4, OneComesBefore
    <2>3. Before(x) # Before(y)
      BY <2>2
    <2>4. IsFiniteSet(Before(y))
      BY <1>3
    <2>5. Cardinality(Before(x)) < Cardinality(Before(y))
      <3> HIDE DEF Before
      <3> QED BY <2>1, <2>3, <2>4, SmallerSet
    <2> QED BY <1>2, <2>5
  <1>5. \A x \in S : Row(w)[x] \in Int
    <2>1. \A x \in S : Row(w)[x] \in Nat
      BY <1>2, <1>3
    <2> HIDE DEF S
    <2> QED BY <2>1
  <1>6. \A x, y \in S : ComesBefore(x, y) <=> Row(w)[x] < Row(w)[y]
    <2> SUFFICES ASSUME NEW x \in S, NEW y \in S, Row(w)[x] < Row(w)[y], ~ ComesBefore(x, y)
                 PROVE  FALSE
      BY <1>4
    <2>1. x = y \/ ComesBefore(y, x)
      BY OneComesBefore
    <2>2. ComesBefore(y, x) => Row(w)[y] < Row(w)[x]
      BY <1>4
    <2> QED BY <1>5, <2>1, <2>2
  <1>7. Distinct(S, Row(w))
    <2> SUFFICES ASSUME NEW x \in S, NEW y \in S, x # y PROVE Row(w)[x] # Row(w)[y]
      BY DEF Distinct
    <2>1. Row(w)[x] < Row(w)[y] \/ Row(w)[y] < Row(w)[x]
      BY <1>4, OneComesBefore
    <2> QED BY <1>5, <2>1
  <1> QED BY <1>1, <1>5, <1>6, <1>7 DEF Ordered

LEMMA WalkFacts ==
    ASSUME IInv, NEW w
    PROVE  /\ Walk(w) \in Seq(StoriesOf(w)) /\ Range(Walk(w)) = StoriesOf(w)
           /\ \A k, l \in 1 .. Len(Walk(w)) :
                /\ k < l <=> ComesBefore(Walk(w)[k], Walk(w)[l])
                /\ Walk(w)[k] = Walk(w)[l] => k = l
  <1> DEFINE walk == Walk(w)
             S == StoriesOf(w)
  <1>1. walk = Sorted(S, Row(w))
    BY DEF Walk, Row
  <1>2. Ordered(S, Row(w)) /\ Distinct(S, Row(w))
    BY RowsIncrease
  <1>3. walk \in Seq(S) /\ Range(walk) = S /\ Increasing(walk, Row(w))
    BY <1>1, <1>2, SortedIncreases
  <1> HIDE DEF walk
  <1>4. \A x \in S : Row(w)[x] \in Int
    BY <1>2 DEF Ordered
  <1>5. /\ \A k, l \in 1 .. Len(walk) : Row(w)[walk[k]] < Row(w)[walk[l]] => k < l
        /\ \A k, l \in 1 .. Len(walk) : walk[k] = walk[l] => k = l
    BY <1>3, <1>4, IncreasingFacts
  <1>6. \A k \in 1 .. Len(walk) : walk[k] \in S
    BY <1>3
  <1>7. \A k, l \in 1 .. Len(walk) : k < l <=> Row(w)[walk[k]] < Row(w)[walk[l]]
    BY <1>3, <1>5 DEF Increasing
  <1>8. \A x, y \in S : ComesBefore(x, y) <=> Row(w)[x] < Row(w)[y]
    BY RowsIncrease
  <1>9. \A k, l \in 1 .. Len(walk) : k < l <=> ComesBefore(walk[k], walk[l])
    BY <1>6, <1>7, <1>8
  <1> HIDE DEF S
  <1> QED BY <1>3, <1>5, <1>9 DEF walk, S

LEMMA DetailFacts ==
    ASSUME IInv, NEW w, NEW k \in 1 .. Len(Walk(w))
    PROVE  /\ GetStoryDetail(Walk(w)[k]).prev = IF k = 1 THEN NoStory ELSE Walk(w)[k - 1]
           /\ GetStoryDetail(Walk(w)[k]).next = IF k = Len(Walk(w)) THEN NoStory ELSE Walk(w)[k + 1]
  <1> DEFINE walk == Walk(w)
             x == walk[k]
             at == CHOOSE l \in DOMAIN walk : walk[l] = x
  <1>1. walk \in Seq(StoriesOf(w)) /\ DOMAIN walk = 1 .. Len(walk)
    BY WalkFacts
  <1>2. x \in StoriesOf(w)
    BY <1>1
  <1>3. story[x].workflow = w
    BY <1>2, PlacedStories
  <1>4. at = k
    <2>1. \A l \in 1 .. Len(walk) : walk[l] = walk[k] => l = k
      BY WalkFacts
    <2> HIDE DEF walk
    <2> QED BY <1>1, <2>1
  <1>5. GetStoryDetail(x) = [prev |-> IF at = 1 THEN NoStory ELSE walk[at - 1],
                             next |-> IF at = Len(walk) THEN NoStory ELSE walk[at + 1]]
    <2>1. Walk(story[x].workflow) = walk
      BY <1>3
    <2> HIDE DEF x, walk
    <2> QED BY <2>1 DEF GetStoryDetail
  <1> HIDE DEF at, walk
  <1> QED BY <1>4, <1>5 DEF walk

\* The columns of a workflow, its cards, and the spots where they are shown.
LEMMA ColumnFacts ==
    ASSUME IInv, NEW w \in Workflows
    PROVE  /\ Columns[w] \in Seq(StatusesOf(w)) /\ Range(Columns[w]) = StatusesOf(w)
           /\ DOMAIN Columns[w] = 1 .. Len(Columns[w])
           /\ \A i, j \in 1 .. Len(Columns[w]) : i < j =>
                /\ Columns[w][i] # Columns[w][j]
                /\ status[Columns[w][i]].order < status[Columns[w][j]].order
  <1> DEFINE list == Columns[w]
  <1>1. list = Sorted(StatusesOf(w), StatusOrder)
    BY DEF Columns
  <1>2. Ordered(StatusesOf(w), StatusOrder) /\ Distinct(StatusesOf(w), StatusOrder)
    BY StatusFacts DEF IInv
  <1> HIDE DEF list
  <1>3. list \in Seq(StatusesOf(w)) /\ Range(list) = StatusesOf(w) /\ Increasing(list, StatusOrder)
    BY <1>1, <1>2, SortedIncreases
  <1>4. \A s \in StatusesOf(w) : StatusOrder[s] = status[s].order /\ status[s].order \in Int
    BY StatusFacts DEF IInv, StatusesOf
  <1>5. \A i \in 1 .. Len(list) : list[i] \in StatusesOf(w)
    BY <1>3
  <1>6. \A i, j \in 1 .. Len(list) : i < j => status[list[i]].order < status[list[j]].order
    BY <1>3, <1>4, <1>5 DEF Increasing
  <1>7. \A i, j \in 1 .. Len(list) : i < j => list[i] # list[j]
    BY <1>4, <1>5, <1>6
  <1> QED BY <1>3, <1>6, <1>7 DEF list

LEMMA CardFacts ==
    ASSUME IInv, NEW s \in Statuses
    PROVE  /\ Cards[s] \in Seq(StoriesIn(s)) /\ Range(Cards[s]) = StoriesIn(s)
           /\ DOMAIN Cards[s] = 1 .. Len(Cards[s]) /\ Len(Cards[s]) <= Cardinality(Stories)
           /\ \A i, j \in 1 .. Len(Cards[s]) : i < j =>
                story[Cards[s][i]].order < story[Cards[s][j]].order
  <1> DEFINE list == Cards[s]
  <1>1. list = Sorted(StoriesIn(s), StoryOrder)
    BY DEF Cards
  <1>2. Ordered(StoriesIn(s), StoryOrder) /\ Distinct(StoriesIn(s), StoryOrder)
    BY StoryFacts DEF IInv
  <1> HIDE DEF list
  <1>3. list \in Seq(StoriesIn(s)) /\ Range(list) = StoriesIn(s) /\ Increasing(list, StoryOrder)
    BY <1>1, <1>2, SortedIncreases
  <1>4. Len(list) = Cardinality(StoriesIn(s))
    BY <1>1, <1>2, SortedFacts
  <1>5. Cardinality(StoriesIn(s)) <= Cardinality(Stories)
    <2>1. StoriesIn(s) \in SUBSET Stories
      BY DEF StoriesIn
    <2> QED BY <2>1, WorkflowsAssumption, FS_Subset
  <1>6. \A x \in StoriesIn(s) : StoryOrder[x] = story[x].order
    BY StoryFacts DEF IInv, StoriesIn
  <1>7. \A i \in 1 .. Len(list) : list[i] \in StoriesIn(s)
    BY <1>3
  <1>8. \A i, j \in 1 .. Len(list) : i < j => story[list[i]].order < story[list[j]].order
    BY <1>3, <1>6, <1>7 DEF Increasing
  <1> QED BY <1>3, <1>4, <1>5, <1>8 DEF list

SpotsOf(w) ==
    {p \in (DOMAIN Columns[w]) \X (1 .. Cardinality(Stories)) :
       p[2] \in DOMAIN Cards[Columns[w][p[1]]]}

CardAt(w, p) == Cards[Columns[w][p[1]]][p[2]]

LEMMA SpotFacts ==
    ASSUME IInv, NEW w \in Workflows, NEW p \in SpotsOf(w)
    PROVE  /\ p = <<p[1], p[2]>> /\ p[1] \in 1 .. Len(Columns[w])
           /\ Columns[w][p[1]] \in StatusesOf(w) /\ Columns[w][p[1]] \in Statuses
           /\ p[2] \in 1 .. Len(Cards[Columns[w][p[1]]])
           /\ CardAt(w, p) \in StoriesOf(w) /\ story[CardAt(w, p)].status = Columns[w][p[1]]
  <1> DEFINE s == Columns[w][p[1]]
  <1>1. p = <<p[1], p[2]>> /\ p[1] \in DOMAIN Columns[w] /\ p[2] \in DOMAIN Cards[s]
    BY DEF SpotsOf
  <1>2. p[1] \in 1 .. Len(Columns[w]) /\ s \in StatusesOf(w)
    <2>1. DOMAIN Columns[w] = 1 .. Len(Columns[w]) /\ Columns[w] \in Seq(StatusesOf(w))
      BY ColumnFacts
    <2> QED BY <1>1, <2>1
  <1>3. s \in Statuses /\ status[s] # NoStatus /\ status[s].workflow = w
    BY <1>2 DEF StatusesOf
  <1> HIDE DEF s
  <1>4. p[2] \in 1 .. Len(Cards[s]) /\ Cards[s][p[2]] \in StoriesIn(s)
    <2>1. DOMAIN Cards[s] = 1 .. Len(Cards[s]) /\ Cards[s] \in Seq(StoriesIn(s))
      BY <1>3, CardFacts
    <2> QED BY <1>1, <2>1
  <1>5. \A x \in StoriesIn(s) : x \in StoriesOf(w) /\ story[x].status = s
    BY <1>3 DEF StoriesIn, StoriesOf, IInv, InPlace
  <1>6. CardAt(w, p) \in StoriesOf(w) /\ story[CardAt(w, p)].status = s
    BY <1>4, <1>5 DEF CardAt, s
  <1> QED BY <1>1, <1>2, <1>3, <1>4, <1>6 DEF s

LEMMA EveryStoryHasASpot ==
    ASSUME IInv, NEW w \in Workflows, NEW x \in StoriesOf(w)
    PROVE  \E p \in SpotsOf(w) : CardAt(w, p) = x
  <1> DEFINE s == story[x].status
  <1>1. s \in StatusesOf(w) /\ s \in Statuses /\ x \in StoriesIn(s)
    BY PlacedStories DEF StatusesOf
  <1> HIDE DEF s
  <1>2. PICK i \in DOMAIN Columns[w] : Columns[w][i] = s
    BY <1>1, ColumnFacts DEF Range
  <1>3. PICK k \in DOMAIN Cards[s] : Cards[s][k] = x
    BY <1>1, CardFacts DEF Range
  <1>4. k \in 1 .. Cardinality(Stories)
    <2>1. DOMAIN Cards[s] = 1 .. Len(Cards[s]) /\ Len(Cards[s]) <= Cardinality(Stories)
      BY <1>1, CardFacts
    <2>2. Len(Cards[s]) \in Nat /\ Cardinality(Stories) \in Nat
      BY <1>1, CardFacts, WorkflowsAssumption, FS_CardinalityType
    <2> QED BY <2>1, <2>2
  <1> DEFINE p == <<i, k>>
  <1>5. p \in (DOMAIN Columns[w]) \X (1 .. Cardinality(Stories)) /\ p[1] = i /\ p[2] = k
    BY <1>2, <1>4
  <1> HIDE DEF p
  <1>6. p \in SpotsOf(w) /\ CardAt(w, p) = x
    BY <1>2, <1>3, <1>5 DEF SpotsOf, CardAt
  <1> QED BY <1>6

\* The cards come in the order of their spots.
LEMMA SpotsInOrder ==
    ASSUME IInv, NEW w \in Workflows, NEW p \in SpotsOf(w), NEW q \in SpotsOf(w)
    PROVE  /\ Precedes(p, q) <=> ComesBefore(CardAt(w, p), CardAt(w, q))
           /\ p # q => CardAt(w, p) # CardAt(w, q)
  <1>1. ASSUME NEW a \in SpotsOf(w), NEW b \in SpotsOf(w), Precedes(a, b)
        PROVE  ComesBefore(CardAt(w, a), CardAt(w, b))
    <2>1. /\ a[1] \in 1 .. Len(Columns[w]) /\ b[1] \in 1 .. Len(Columns[w])
          /\ a[2] \in 1 .. Len(Cards[Columns[w][a[1]]]) /\ b[2] \in 1 .. Len(Cards[Columns[w][b[1]]])
          /\ story[CardAt(w, a)].status = Columns[w][a[1]]
          /\ story[CardAt(w, b)].status = Columns[w][b[1]]
          /\ Columns[w][a[1]] \in Statuses
      BY SpotFacts
    <2>2. CASE a[1] < b[1]
      <3>1. /\ Columns[w][a[1]] # Columns[w][b[1]]
            /\ status[Columns[w][a[1]]].order < status[Columns[w][b[1]]].order
        BY <2>1, <2>2, ColumnFacts
      <3> QED BY <2>1, <3>1 DEF ComesBefore
    <2>3. CASE a[1] = b[1] /\ a[2] < b[2]
      <3> DEFINE s == Columns[w][a[1]]
      <3>1. /\ s \in Statuses /\ a[2] \in 1 .. Len(Cards[s]) /\ b[2] \in 1 .. Len(Cards[s])
            /\ CardAt(w, a) = Cards[s][a[2]] /\ CardAt(w, b) = Cards[s][b[2]]
        BY <2>1, <2>3 DEF CardAt
      <3> HIDE DEF s
      <3>2. story[CardAt(w, a)].order < story[CardAt(w, b)].order
        BY <2>3, <3>1, CardFacts
      <3> QED BY <2>1, <2>3, <3>2 DEF ComesBefore
    <2> QED BY <1>1, <2>2, <2>3 DEF Precedes
  <1>2. p = q \/ Precedes(p, q) \/ Precedes(q, p)
    <2>1. /\ p = <<p[1], p[2]>> /\ q = <<q[1], q[2]>>
          /\ p[1] \in Int /\ p[2] \in Int /\ q[1] \in Int /\ q[2] \in Int
      BY SpotFacts
    <2> QED BY <2>1 DEF Precedes
  <1>3. CardAt(w, p) \in StoriesOf(w) /\ CardAt(w, q) \in StoriesOf(w)
    BY SpotFacts
  <1>4. \A x, y \in StoriesOf(w) : ~ (ComesBefore(x, y) /\ ComesBefore(y, x)) /\ ~ ComesBefore(x, x)
    BY OneComesBefore
  <1> QED BY <1>1, <1>2, <1>3, <1>4

\* The spot after another shows the story after it, and the first and the last
\* those without one before, or after.
LEMMA NeighborsAreShown ==
    ASSUME IInv, NEW w \in Workflows, NEW p \in SpotsOf(w)
    PROVE  /\ \A q \in SpotsOf(w) :
                /\ Precedes(p, q)
                /\ ~ \E r \in SpotsOf(w) : Precedes(p, r) /\ Precedes(r, q)
                => /\ GetStoryDetail(CardAt(w, p)).next = CardAt(w, q)
                   /\ GetStoryDetail(CardAt(w, q)).prev = CardAt(w, p)
           /\ (~ \E q \in SpotsOf(w) : Precedes(q, p)) =>
                GetStoryDetail(CardAt(w, p)).prev = NoStory
           /\ (~ \E q \in SpotsOf(w) : Precedes(p, q)) =>
                GetStoryDetail(CardAt(w, p)).next = NoStory
  <1> DEFINE walk == Walk(w)
             n == Len(walk)
  <1>1. /\ n \in Nat /\ Range(walk) = StoriesOf(w) /\ DOMAIN walk = 1 .. n
        /\ \A k \in 1 .. n : walk[k] \in StoriesOf(w)
        /\ \A k, l \in 1 .. n : k < l <=> ComesBefore(walk[k], walk[l])
    <2>1. walk \in Seq(StoriesOf(w)) /\ Range(walk) = StoriesOf(w)
      BY WalkFacts
    <2>2. \A k, l \in 1 .. n : k < l <=> ComesBefore(walk[k], walk[l])
      BY WalkFacts
    <2> HIDE DEF walk
    <2> QED BY <2>1, <2>2
  <1>2. \A k \in 1 .. n :
          /\ GetStoryDetail(walk[k]).prev = IF k = 1 THEN NoStory ELSE walk[k - 1]
          /\ GetStoryDetail(walk[k]).next = IF k = n THEN NoStory ELSE walk[k + 1]
    BY DetailFacts
  <1> HIDE DEF walk, n
  <1>3. \A q \in SpotsOf(w) : \E k \in 1 .. n : walk[k] = CardAt(w, q)
    BY <1>1, SpotFacts DEF Range
  <1>4. \A k \in 1 .. n : \E q \in SpotsOf(w) : walk[k] = CardAt(w, q)
    BY <1>1, EveryStoryHasASpot
  <1>5. \A q, r \in SpotsOf(w) : Precedes(q, r) <=> ComesBefore(CardAt(w, q), CardAt(w, r))
    BY SpotsInOrder
  <1>6. PICK k \in 1 .. n : walk[k] = CardAt(w, p)
    BY <1>3
  <1>7. ASSUME NEW q \in SpotsOf(w), Precedes(p, q),
               ~ \E r \in SpotsOf(w) : Precedes(p, r) /\ Precedes(r, q)
        PROVE  /\ GetStoryDetail(CardAt(w, p)).next = CardAt(w, q)
               /\ GetStoryDetail(CardAt(w, q)).prev = CardAt(w, p)
    <2>1. PICK l \in 1 .. n : walk[l] = CardAt(w, q)
      BY <1>3
    <2>2. k < l
      BY <1>1, <1>5, <1>6, <1>7, <2>1
    <2>3. l = k + 1
      <3> SUFFICES ASSUME l # k + 1 PROVE FALSE
        OBVIOUS
      <3>1. k + 1 \in 1 .. n /\ k < k + 1 /\ k + 1 < l
        BY <1>1, <2>2
      <3>2. PICK r \in SpotsOf(w) : walk[k + 1] = CardAt(w, r)
        BY <1>4, <3>1
      <3>3. ComesBefore(walk[k], walk[k + 1]) /\ ComesBefore(walk[k + 1], walk[l])
        BY <1>1, <3>1
      <3> QED BY <1>5, <1>6, <1>7, <2>1, <3>2, <3>3
    <2>4. k # n /\ l # 1 /\ l - 1 = k
      BY <1>1, <2>2, <2>3
    <2> QED BY <1>2, <1>6, <2>1, <2>3, <2>4
  <1>8. ASSUME ~ \E q \in SpotsOf(w) : Precedes(q, p)
        PROVE  GetStoryDetail(CardAt(w, p)).prev = NoStory
    <2>1. k = 1
      <3> SUFFICES ASSUME k # 1 PROVE FALSE
        OBVIOUS
      <3>1. 1 \in 1 .. n /\ 1 < k
        BY <1>1
      <3>2. PICK q \in SpotsOf(w) : walk[1] = CardAt(w, q)
        BY <1>4, <3>1
      <3> QED BY <1>1, <1>5, <1>6, <1>8, <3>1, <3>2
    <2> QED BY <1>2, <1>6, <2>1
  <1>9. ASSUME ~ \E q \in SpotsOf(w) : Precedes(p, q)
        PROVE  GetStoryDetail(CardAt(w, p)).next = NoStory
    <2>1. k = n
      <3> SUFFICES ASSUME k # n PROVE FALSE
        OBVIOUS
      <3>1. n \in 1 .. n /\ k < n
        BY <1>1
      <3>2. PICK q \in SpotsOf(w) : walk[n] = CardAt(w, q)
        BY <1>4, <3>1
      <3> QED BY <1>1, <1>5, <1>6, <1>9, <3>1, <3>2
    <2> QED BY <1>2, <1>6, <2>1
  <1> QED BY <1>7, <1>8, <1>9

\* list_stories_for_workflow gives the stories of the workflow.
LEMMA AllAreListed ==
    ASSUME IInv, NEW w
    PROVE  Range(ListStories(w)) = StoriesOf(w)
  <1>1. \A x \in StoriesOf(w) : StoryOrder[x] \in Int
    BY PlacedStories
  <1>2. IsFiniteSet(StoriesOf(w))
    BY WorkflowsAssumption, FS_Subset DEF StoriesOf
  <1>3. Ordered(StoriesOf(w), StoryOrder)
    BY <1>1, <1>2 DEF Ordered
  <1>4. Range(Sorted(StoriesOf(w), StoryOrder)) = StoriesOf(w)
    BY <1>3, SortedFacts
  <1> QED BY <1>4 DEF ListStories

\* The landing page opens a workflow as long as there is one. Whatever orders were
\* rewritten or left alike by requests, the columns of a workflow show each of its
\* stories once, and those before and after a story are its neighbors on the board.
THEOREM BoardPagesAlwaysFit == Spec => []BoardPagesFit
  <1>1. IInv /\ LandingExists => BoardPagesFit
    <2> SUFFICES ASSUME IInv, LandingExists PROVE BoardPagesFit
      OBVIOUS
    <2> DEFINE cards == Board.cards
    <2>1. cards = Cards
      BY CardsAreShown
    <2>2. ASSUME NEW i \in DOMAIN workflows
          PROVE  LET page == ListWorkflows[i]
                     spots == Spots(page, cards)
                     card == [p \in spots |-> cards[page.statuses[p[1]]][p[2]]]
                     detail == [p \in spots |-> GetStoryDetail(card[p])]
                 IN  /\ Range(card) = Range(ListStories(page.workflow))
                     /\ \A p, q \in spots :
                          /\ p # q => card[p] # card[q]
                          /\ Precedes(p, q) /\ (~ \E r \in spots : Precedes(p, r) /\ Precedes(r, q)) =>
                               detail[p].next = card[q] /\ detail[q].prev = card[p]
                     /\ \A p \in spots :
                          /\ (~ \E q \in spots : Precedes(q, p)) => detail[p].prev = NoStory
                          /\ (~ \E q \in spots : Precedes(p, q)) => detail[p].next = NoStory
      <3> DEFINE w == workflows[i]
                 page == ListWorkflows[i]
                 spots == Spots(page, cards)
                 card == [p \in spots |-> cards[page.statuses[p[1]]][p[2]]]
                 detail == [p \in spots |-> GetStoryDetail(card[p])]
      <3>1. w \in Workflows /\ page.workflow = w /\ page.statuses = Columns[w]
        BY DEF ListWorkflows, IInv
      <3> HIDE DEF w, page, cards
      <3>2. spots = SpotsOf(w)
        BY <2>1, <3>1 DEF Spots, SpotsOf
      <3>3. /\ DOMAIN card = SpotsOf(w)
            /\ \A p \in SpotsOf(w) : card[p] = CardAt(w, p) /\ detail[p] = GetStoryDetail(CardAt(w, p))
        BY <2>1, <3>1, <3>2 DEF CardAt
      <3> HIDE DEF spots, card, detail
      <3>4. Range(card) = Range(ListStories(page.workflow))
        <4>1. Range(card) = StoriesOf(w)
          BY <3>1, <3>3, SpotFacts, EveryStoryHasASpot DEF Range
        <4> QED BY <3>1, <4>1, AllAreListed
      <3>5. \A p, q \in SpotsOf(w) : p # q => card[p] # card[q]
        BY <3>1, <3>3, SpotsInOrder
      <3>6. \A p, q \in SpotsOf(w) :
              Precedes(p, q) /\ (~ \E r \in SpotsOf(w) : Precedes(p, r) /\ Precedes(r, q)) =>
                detail[p].next = card[q] /\ detail[q].prev = card[p]
        BY <3>1, <3>3, NeighborsAreShown
      <3>7. \A p \in SpotsOf(w) :
              /\ (~ \E q \in SpotsOf(w) : Precedes(q, p)) => detail[p].prev = NoStory
              /\ (~ \E q \in SpotsOf(w) : Precedes(p, q)) => detail[p].next = NoStory
        BY <3>1, <3>3, NeighborsAreShown
      <3>8. /\ Range(card) = Range(ListStories(page.workflow))
            /\ \A p, q \in spots :
                 /\ p # q => card[p] # card[q]
                 /\ Precedes(p, q) /\ (~ \E r \in spots : Precedes(p, r) /\ Precedes(r, q)) =>
                      detail[p].next = card[q] /\ detail[q].prev = card[p]
            /\ \A p \in spots :
                 /\ (~ \E q \in spots : Precedes(q, p)) => detail[p].prev = NoStory
                 /\ (~ \E q \in spots : Precedes(p, q)) => detail[p].next = NoStory
        BY <3>2, <3>4, <3>5, <3>6, <3>7
      <3> QED BY <3>8 DEF page, spots, card, detail
    <2> HIDE DEF cards
    <2>3. IF workflows = <<>> THEN landing = NoWorkflow ELSE GetWorkflowBySlug # {}
      BY LandingOpens
    <2> QED BY <2>2, <2>3 DEF BoardPagesFit, cards
  <1>2. Init => LandingExists
    BY DEF Init, LandingExists, Range
  <1>3. IInv /\ LandingExists /\ [Next]_vars => LandingExists'
    BY LandingStays
  <1> QED BY <1>1, <1>2, <1>3, BoardsAreGood, PTL DEF Spec
=============================================================================
