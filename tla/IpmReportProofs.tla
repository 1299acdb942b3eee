--------------------------- MODULE IpmReportProofs ---------------------------
(***************************************************************************)
(* Proofs about the report: that index_doubles ranks, for every table;     *)
(* that the tasks' collective operations match and the sums that task 0    *)
(* prints are of the region it names, when the tasks entered the same      *)
(* regions and hold trace entries all or none; and that task 0 prints each *)
(* region once, and each call that took time once, in their order.         *)
(***************************************************************************)
EXTENDS IpmReport, TLAPS, FiniteSetTheorems, SequenceTheorems, WellFoundedInduction

(* The lemmas about sums; none of those about folds is used here.          *)
Plus(x, y) == x + y
AnyValue(b, x) == TRUE

INSTANCE FoldTheorems WITH Step <- Plus, Good <- AnyValue

-----------------------------------------------------------------------------
(***************************************************************************)
(* index_doubles.                                                          *)
(***************************************************************************)

(* One round of the inner loop of index_doubles. *)
OneRound(n, val, idx, k) ==
  LET p == LoopPair(n, k)
  IN IF val[idx[p[1]]] > val[idx[p[2]]] THEN Swapped(idx, p[1], p[2]) ELSE idx

(* The function of the rounds that index_doubles defines, up to round m.   *)
IsSorting(g, n, val, m) ==
  g = [k \in 0 .. m |-> IF k = 0 THEN [i \in 0 .. n - 1 |-> i] ELSE OneRound(n, val, g[k - 1], k)]

Sorting(n, val, m) == CHOOSE g : IsSorting(g, n, val, m)

(* index_doubles is what the rounds have made of the indices at the end.   *)
LEMMA IndexIsSorting ==
  ASSUME NEW n, NEW val
  PROVE  index_doubles(n, val) = Sorting(n, val, n * n)[n * n]
BY DEF index_doubles, Sorting, IsSorting, OneRound

(* There is such a function.                                               *)
LEMMA SortingExists ==
  ASSUME NEW n, NEW val, NEW m \in Nat
  PROVE  IsSorting(Sorting(n, val, m), n, val, m)
<1>. DEFINE Bad == {k \in 0 .. m : ~ \E g : IsSorting(g, n, val, k)}
<1>1. SUFFICES Bad = {}
  <2>1. \E g : IsSorting(g, n, val, m)
    BY <1>1
  <2>. QED
    BY <2>1 DEF Sorting
<1>2. SUFFICES ASSUME Bad # {}
               PROVE  FALSE
  OBVIOUS
<1>3. PICK k \in Bad : \A j \in Bad : k <= j
  <2>. Bad \in SUBSET (0 .. m)
    OBVIOUS
  <2>. HIDE DEF Bad
  <2>. QED
    BY <1>2, LeastNatural
<1>. DEFINE Zero == [i \in 0 .. n - 1 |-> i]
            first == [j \in 0 .. 0 |-> Zero]
<1>4. k # 0
  <2>1. SUFFICES ASSUME k = 0
                 PROVE  IsSorting(first, n, val, k)
    BY <1>3
  <2>2. \A j \in 0 .. 0 : first[j] = IF j = 0 THEN Zero ELSE OneRound(n, val, first[j - 1], j)
    OBVIOUS
  <2>3. first = [j \in 0 .. 0 |-> first[j]]
    OBVIOUS
  <2>. HIDE DEF first
  <2>. QED
    BY <2>1, <2>2, <2>3 DEF IsSorting
<1>5. k - 1 \in 0 .. m /\ k \in Nat
  BY <1>4
<1>6. PICK g : IsSorting(g, n, val, k - 1)
  BY <1>3, <1>5
<1>. DEFINE h == [j \in 0 .. k |-> IF j = k THEN OneRound(n, val, g[k - 1], k) ELSE g[j]]
<1>7. \A j \in 0 .. k - 1 : g[j] = IF j = 0 THEN Zero ELSE OneRound(n, val, g[j - 1], j)
  BY <1>6 DEF IsSorting
<1>8. \A j \in 0 .. k : h[j] = IF j = 0 THEN Zero ELSE OneRound(n, val, h[j - 1], j)
  <2>. SUFFICES ASSUME NEW j \in 0 .. k
                PROVE  h[j] = IF j = 0 THEN Zero ELSE OneRound(n, val, h[j - 1], j)
    OBVIOUS
  <2>1. CASE j = k
    <3>1. h[j - 1] = g[k - 1] /\ h[j] = OneRound(n, val, g[k - 1], k)
      BY <1>4, <1>5, <2>1
    <3>. QED
      BY <1>4, <2>1, <3>1
  <2>2. CASE j # k
    <3>1. j \in 0 .. k - 1 /\ h[j] = g[j]
      BY <1>5, <2>2
    <3>2. j # 0 => h[j - 1] = g[j - 1]
      BY <1>5, <3>1
    <3>. HIDE DEF h, Zero
    <3>. QED
      BY <1>7, <3>1, <3>2
  <2>. QED
    BY <2>1, <2>2
<1>9. IsSorting(h, n, val, k)
  <2>1. h = [j \in 0 .. k |-> h[j]]
    OBVIOUS
  <2>. HIDE DEF h
  <2>. QED
    BY <1>8, <2>1 DEF IsSorting
<1>. QED
  BY <1>3, <1>9

(* A rearrangement of 0 .. n - 1. *)
Permutation(idx, n) ==
  /\ idx \in [0 .. n - 1 -> 0 .. n - 1]
  /\ \A x, y \in 0 .. n - 1 : idx[x] = idx[y] => x = y
  /\ \A v \in 0 .. n - 1 : \E x \in 0 .. n - 1 : idx[x] = v

(* What holds before the rounds compare i with j: what the outer loop has  *)
(* passed is in order, the least value of all is the last of it, and the   *)
(* inner loop lets it sink to i.                                           *)
Sunk(v, n, i, j) ==
  /\ \A x, y \in 0 .. i - 1 : x <= y => v[x] >= v[y]
  /\ \A x \in 0 .. i - 1 : x < j => v[x] >= v[i]
  /\ i = 0 => \A x \in 0 .. j - 1 : v[0] <= v[x]
  /\ i > 0 => LET least == IF j < i THEN i - 1 ELSE i
              IN \A x \in 0 .. n - 1 : v[least] <= v[x]

(* A comparison keeps it.                                                  *)
LEMMA SunkStep ==
  ASSUME NEW n \in Nat, NEW i \in 0 .. n - 1, NEW j \in 0 .. n - 1,
         NEW v \in [0 .. n - 1 -> Int], NEW w \in [0 .. n - 1 -> Int], Sunk(v, n, i, j),
         IF v[i] > v[j]
         THEN w[i] = v[j] /\ w[j] = v[i] /\ \A x \in 0 .. n - 1 : x \notin {i, j} => w[x] = v[x]
         ELSE w = v
  PROVE  Sunk(w, n, i, j + 1)
<1>1. CASE ~(v[i] > v[j])
  <2>1. w = v
    BY <1>1
  <2>2. CASE i = 0
    BY <1>1, <2>1, <2>2 DEF Sunk
  <2>3. CASE i > 0 /\ j # i - 1
    BY <1>1, <2>1, <2>3 DEF Sunk
  <2>4. CASE i > 0 /\ j = i - 1
    <3>1. v[i] <= v[i - 1] /\ v[i] \in Int /\ v[i - 1] \in Int
      BY <1>1, <2>4
    <3>2. \A x \in 0 .. n - 1 : v[i - 1] <= v[x] /\ v[x] \in Int
      BY <2>4 DEF Sunk
    <3>3. \A x \in 0 .. n - 1 : v[i] <= v[x]
      BY <3>1, <3>2
    <3>. QED
      BY <1>1, <2>1, <2>4, <3>3 DEF Sunk
  <2>. QED
    BY <2>2, <2>3, <2>4
<1>2. CASE v[i] > v[j]
  <2>0. /\ w[i] = v[j] /\ w[j] = v[i] /\ i # j
        /\ \A x \in 0 .. n - 1 : x \notin {i, j} => w[x] = v[x]
    BY <1>2
  <2>1. CASE i = 0
    BY <1>2, <2>0, <2>1 DEF Sunk
  <2>2. CASE i > 0
    <3>1. j < i
      BY <1>2, <2>2 DEF Sunk
    <3>2. \A x, y \in 0 .. i - 1 : x <= y => w[x] >= w[y]
      <4>. SUFFICES ASSUME NEW x \in 0 .. i - 1, NEW y \in 0 .. i - 1, x <= y
                    PROVE  w[x] >= w[y]
        OBVIOUS
      <4>1. v[x] >= v[y] /\ (x < j => v[x] >= v[i]) /\ (y > j => v[j] >= v[y])
        BY <3>1 DEF Sunk
      <4>2. v[x] \in Int /\ v[y] \in Int /\ v[i] \in Int /\ v[j] \in Int
        OBVIOUS
      <4>3. w[x] = (IF x = j THEN v[i] ELSE v[x]) /\ w[y] = (IF y = j THEN v[i] ELSE v[y])
        BY <2>0
      <4>4. CASE x < j
        BY <4>1, <4>2, <4>3, <4>4
      <4>5. CASE x >= j
        BY <1>2, <4>1, <4>2, <4>3, <4>5
      <4>. QED
        BY <4>4, <4>5
    <3>3. \A x \in 0 .. i - 1 : x < j + 1 => w[x] >= w[i]
      BY <1>2, <2>0, <3>1 DEF Sunk
    <3>4. \A x \in 0 .. n - 1 : w[IF j + 1 < i THEN i - 1 ELSE i] <= w[x]
      <4>1. \A x \in 0 .. n - 1 : v[i - 1] <= v[x]
        BY <2>2, <3>1 DEF Sunk
      <4>2. CASE j + 1 < i
        <5>1. w[i - 1] = v[i - 1]
          BY <2>0, <3>1, <4>2
        <5>. QED
          BY <2>0, <4>1, <4>2, <5>1
      <4>3. CASE ~(j + 1 < i)
        <5>1. w[i] = v[i - 1]
          BY <2>0, <3>1, <4>3
        <5>. QED
          BY <2>0, <4>1, <4>3, <5>1
      <4>. QED
        BY <4>2, <4>3
    <3>. QED
      BY <2>2, <3>2, <3>3, <3>4 DEF Sunk
  <2>. QED
    BY <2>1, <2>2
<1>. QED
  BY <1>1, <1>2

(* The end of a row is the beginning of the next.                          *)
LEMMA SunkRow ==
  ASSUME NEW n \in Nat, NEW i \in 0 .. n - 1, NEW v \in [0 .. n - 1 -> Int],
         Sunk(v, n, i, n)
  PROVE  Sunk(v, n, i + 1, 0)
BY DEF Sunk
(* The number of the round with i and j. *)
Round(n, i, j) == i * n + j + 1

(* It comes after i rows and j columns.                                    *)
LEMMA PairOfRound ==
  ASSUME NEW n \in Nat \ {0}, NEW i \in Nat, NEW j \in 0 .. n - 1
  PROVE  LoopPair(n, Round(n, i, j)) = <<i, j>>
<1>. DEFINE k == n * i + j
            a == k \div n
            b == k % n
<1>1. a = i
  BY Quotient
<1>2. k \in Nat
  OBVIOUS
<1>3. k = n * a + b /\ b \in 0 .. n - 1
  <2>. HIDE DEF k
  <2>. QED
    BY <1>2
<1>4. b = j
  <2>1. n * i \in Nat /\ k = n * i + b
    BY <1>1, <1>3
  <2>. HIDE DEF a, b
  <2>. QED
    BY <1>3, <2>1
<1>5. Round(n, i, j) - 1 = k
  BY DEF Round
<1>. HIDE DEF a, b, k
<1>6. LoopPair(n, Round(n, i, j)) = <<k \div n, k % n>>
  BY <1>5 DEF LoopPair
<1>. QED
  BY <1>1, <1>4, <1>6 DEF a, b

(* Exchanging two elements of a rearrangement gives one.                   *)
LEMMA SwappedPermutation ==
  ASSUME NEW n \in Nat, NEW i \in 0 .. n - 1, NEW j \in 0 .. n - 1, NEW idx, Permutation(idx, n)
  PROVE  /\ Permutation(Swapped(idx, i, j), n)
         /\ Swapped(idx, i, j)[i] = idx[j] /\ Swapped(idx, i, j)[j] = idx[i]
         /\ \A x \in 0 .. n - 1 : x \notin {i, j} => Swapped(idx, i, j)[x] = idx[x]
<1>. DEFINE w == Swapped(idx, i, j)
<1>1. w \in [0 .. n - 1 -> 0 .. n - 1] /\ idx \in [0 .. n - 1 -> 0 .. n - 1]
  BY DEF Permutation, Swapped
<1>2. /\ w[i] = idx[j] /\ w[j] = idx[i]
      /\ \A x \in 0 .. n - 1 : x \notin {i, j} => w[x] = idx[x]
  BY <1>1 DEF Swapped
<1>. HIDE DEF w
<1>. DEFINE other(x) == IF x = i THEN j ELSE IF x = j THEN i ELSE x
<1>3. \A x, y \in 0 .. n - 1 : w[x] = w[y] => x = y
  <2>1. \A x \in 0 .. n - 1 : w[x] = idx[other(x)] /\ other(x) \in 0 .. n - 1
    BY <1>2
  <2>2. \A x, y \in 0 .. n - 1 : other(x) = other(y) => x = y
    OBVIOUS
  <2>. HIDE DEF other
  <2>. QED
    BY <2>1, <2>2 DEF Permutation
<1>4. ASSUME NEW u \in 0 .. n - 1
      PROVE  \E x \in 0 .. n - 1 : w[x] = u
  <2>1. PICK x \in 0 .. n - 1 : idx[x] = u
    BY DEF Permutation
  <2>2. w[IF x = i THEN j ELSE IF x = j THEN i ELSE x] = u
    BY <1>2, <2>1
  <2>. QED
    BY <2>2
<1>. QED
  BY <1>1, <1>2, <1>3, <1>4 DEF Permutation, w

(* The values in an order of the indices. *)
InOrder(n, val, idx) == [x \in 0 .. n - 1 |-> val[idx[x]]]

(* What holds after k rounds. *)
Sorted(n, val, idx, k) ==
  /\ Permutation(idx, n)
  /\ \A i \in 0 .. n, j \in 0 .. n - 1 : k = i * n + j => Sunk(InOrder(n, val, idx), n, i, j)

(* A round keeps it.                                                       *)
LEMMA SortedStep ==
  ASSUME NEW n \in Nat \ {0}, NEW val \in [0 .. n - 1 -> Int], NEW i \in 0 .. n - 1,
         NEW j \in 0 .. n - 1, NEW idx, Permutation(idx, n), Sunk(InOrder(n, val, idx), n, i, j)
  PROVE  LET next == OneRound(n, val, idx, Round(n, i, j))
         IN Permutation(next, n) /\ Sunk(InOrder(n, val, next), n, i, j + 1)
<1>. DEFINE next == OneRound(n, val, idx, Round(n, i, j))
            v == InOrder(n, val, idx)
            w == InOrder(n, val, next)
<1>1. next = IF val[idx[i]] > val[idx[j]] THEN Swapped(idx, i, j) ELSE idx
  <2>1. LoopPair(n, Round(n, i, j)) = <<i, j>>
    BY PairOfRound
  <2>. QED
    BY <2>1 DEF OneRound
<1>2. /\ Permutation(next, n)
      /\ val[idx[i]] > val[idx[j]] =>
           /\ next[i] = idx[j] /\ next[j] = idx[i]
           /\ \A x \in 0 .. n - 1 : x \notin {i, j} => next[x] = idx[x]
      /\ ~(val[idx[i]] > val[idx[j]]) => next = idx
  BY <1>1, SwappedPermutation
<1>. HIDE DEF next
<1>3. v \in [0 .. n - 1 -> Int] /\ w \in [0 .. n - 1 -> Int]
  BY <1>2 DEF Permutation, InOrder
<1>4. v[i] = val[idx[i]] /\ v[j] = val[idx[j]]
  BY DEF InOrder
<1>5. IF v[i] > v[j]
      THEN w[i] = v[j] /\ w[j] = v[i] /\ \A x \in 0 .. n - 1 : x \notin {i, j} => w[x] = v[x]
      ELSE w = v
  <2>1. CASE v[i] > v[j]
    BY <1>2, <1>4, <2>1 DEF InOrder
  <2>2. CASE ~(v[i] > v[j])
    BY <1>2, <1>4, <2>2
  <2>. QED
    BY <2>1, <2>2
<1>6. Sunk(v, n, i, j)
  OBVIOUS
<1>. HIDE DEF v, w
<1>7. Sunk(w, n, i, j + 1)
  BY <1>3, <1>5, <1>6, SunkStep
<1>. QED
  BY <1>2, <1>7 DEF next, w

(* index_doubles ranks: its result has each index once, that of a greater  *)
(* value before that of a smaller one, although its loops compare every    *)
(* pair twice and in both directions (ipm_util.c).                         *)
THEOREM IndexDoublesRanks ==
  ASSUME NEW n \in Nat, NEW val \in [0 .. n - 1 -> Int]
  PROVE  LET idx == index_doubles(n, val)
         IN /\ Permutation(idx, n)
            /\ \A x, y \in 0 .. n - 1 : x <= y => val[idx[x]] >= val[idx[y]]
<1>. DEFINE N == n * n
            g == Sorting(n, val, N)
            Bad == {k \in 0 .. N : ~Sorted(n, val, g[k], k)}
<1>1. N \in Nat
  OBVIOUS
<1>2. IsSorting(g, n, val, N)
  BY <1>1, SortingExists
<1>. HIDE DEF g, N
<1>3. g[0] = [i \in 0 .. n - 1 |-> i]
  BY <1>1, <1>2 DEF IsSorting
<1>4. ASSUME NEW k \in 1 .. N
      PROVE  g[k] = OneRound(n, val, g[k - 1], k)
  <2>1. k \in 0 .. N /\ k # 0
    BY <1>1
  <2>. HIDE DEF Bad
  <2>. QED
    BY <1>2, <2>1 DEF IsSorting
<1>5. Bad = {}
  <2>1. SUFFICES ASSUME Bad # {}
                 PROVE  FALSE
    OBVIOUS
  <2>2. PICK k \in Bad : \A m \in Bad : k <= m
    <3>. Bad \in SUBSET (0 .. N)
      OBVIOUS
    <3>. HIDE DEF Bad
    <3>. QED
      BY <1>1, <2>1, LeastNatural
  <2>3. k \in 0 .. N /\ ~Sorted(n, val, g[k], k)
    OBVIOUS
  <2>4. Permutation(g[0], n)
    BY <1>3 DEF Permutation
  <2>5. k # 0
    <3>1. \A i \in 0 .. n, j \in 0 .. n - 1 : 0 = i * n + j => i = 0 /\ j = 0
      OBVIOUS
    <3>2. Sunk(InOrder(n, val, g[0]), n, 0, 0)
      BY DEF Sunk
    <3>. QED
      BY <2>3, <2>4, <3>1, <3>2 DEF Sorted
  <2>6. n # 0
    BY <2>3, <2>5 DEF N
  <2>7. Sorted(n, val, g[k - 1], k - 1) /\ k \in 1 .. N /\ k - 1 \in Nat
    BY <1>1, <2>2, <2>3, <2>5
  <2>8. PICK i \in Nat, j \in 0 .. n - 1 : k - 1 = i * n + j
    <3>. DEFINE m == k - 1
                a == m \div n
                b == m % n
    <3>0. m \in Nat
      BY <2>7
    <3>1. m = n * a + b /\ a \in Nat /\ b \in 0 .. n - 1
      <4>. HIDE DEF m
      <4>. QED
        BY <2>6, <3>0
    <3>. HIDE DEF a, b
    <3>2. n * a = a * n
      BY <3>1
    <3>. QED
      BY <3>1, <3>2
  <2>9. i < n
    <3>1. ASSUME i >= n
          PROVE  FALSE
      <4>. DEFINE d == i - n
      <4>1. d \in Nat /\ i = n + d
        BY <3>1
      <4>. HIDE DEF d
      <4>2. i * n = n * n + d * n
        BY <4>1
      <4>3. d * n \in Nat /\ n * n \in Nat
        BY <4>1
      <4>. QED
        BY <2>7, <2>8, <4>2, <4>3 DEF N
    <3>. QED
      BY <3>1
  <2>. DEFINE v == InOrder(n, val, g[k])
  <2>10. Permutation(g[k], n) /\ Sunk(v, n, i, j + 1)
    <3>1. Permutation(g[k - 1], n) /\ Sunk(InOrder(n, val, g[k - 1]), n, i, j)
      BY <2>7, <2>8, <2>9 DEF Sorted
    <3>2. k = Round(n, i, j)
      BY <2>7, <2>8 DEF Round
    <3>3. g[k] = OneRound(n, val, g[k - 1], Round(n, i, j))
      BY <1>4, <2>7, <3>2
    <3>4. n \in Nat \ {0} /\ i \in 0 .. n - 1
      BY <2>6, <2>9
    <3>. HIDE DEF Bad
    <3>. QED
      BY <3>1, <3>3, <3>4, SortedStep
  <2>11. v \in [0 .. n - 1 -> Int]
    <3>. DEFINE idx == g[k]
    <3>1. idx \in [0 .. n - 1 -> 0 .. n - 1]
      BY <2>10 DEF Permutation
    <3>. HIDE DEF Bad, idx
    <3>2. \A x \in 0 .. n - 1 : val[idx[x]] \in Int
      BY <3>1
    <3>. QED
      BY <3>2 DEF InOrder, idx
  <2>12. \A i2 \in 0 .. n, j2 \in 0 .. n - 1 : k = i2 * n + j2 =>
           \/ i2 = i /\ j2 = j + 1
           \/ i2 = i + 1 /\ j2 = 0 /\ j = n - 1
    <3>. SUFFICES ASSUME NEW i2 \in 0 .. n, NEW j2 \in 0 .. n - 1, k = i2 * n + j2
                  PROVE  \/ i2 = i /\ j2 = j + 1
                         \/ i2 = i + 1 /\ j2 = 0 /\ j = n - 1
      OBVIOUS
    <3>0. n \in Nat \ {0} /\ i2 \in Nat /\ i \in Nat /\ i + 1 \in Nat
      BY <2>6
    <3>1. LoopPair(n, Round(n, i2, j2)) = <<i2, j2>>
      BY <3>0, PairOfRound
    <3>2. k + 1 = Round(n, i2, j2)
      BY DEF Round
    <3>3. CASE j + 1 \in 0 .. n - 1
      <4>1. k + 1 = Round(n, i, j + 1)
        BY <2>7, <2>8 DEF Round
      <4>2. LoopPair(n, Round(n, i, j + 1)) = <<i, j + 1>>
        BY <3>0, <3>3, PairOfRound
      <4>3. <<i2, j2>> = <<i, j + 1>>
        BY <3>1, <3>2, <4>1, <4>2
      <4>. QED
        BY <4>3
    <3>4. CASE j + 1 = n
      <4>1. k + 1 = Round(n, i + 1, 0)
        <5>1. (i + 1) * n = i * n + n
          OBVIOUS
        <5>. QED
          BY <2>7, <2>8, <3>4, <5>1 DEF Round
      <4>2. 0 \in 0 .. n - 1
        BY <3>0
      <4>3. LoopPair(n, Round(n, i + 1, 0)) = <<i + 1, 0>>
        BY <3>0, <4>2, PairOfRound
      <4>4. <<i2, j2>> = <<i + 1, 0>>
        BY <3>1, <3>2, <4>1, <4>3
      <4>. QED
        BY <3>4, <4>4
    <3>. QED
      BY <3>3, <3>4
  <2>. HIDE DEF v
  <2>13. j = n - 1 => Sunk(v, n, i + 1, 0)
    BY <2>9, <2>10, <2>11, SunkRow
  <2>. QED
    BY <2>3, <2>10, <2>12, <2>13 DEF Sorted, v
<1>6. Sorted(n, val, g[N], N)
  BY <1>1, <1>5
<1>7. index_doubles(n, val) = g[N]
  BY IndexIsSorting DEF g, N
<1>8. \A x, y \in 0 .. n - 1 : x <= y => val[g[N][x]] >= val[g[N][y]]
  <2>. SUFFICES ASSUME NEW x \in 0 .. n - 1, NEW y \in 0 .. n - 1, x <= y
                PROVE  val[g[N][x]] >= val[g[N][y]]
    OBVIOUS
  <2>1. N = n * n + 0 /\ n \in 0 .. n /\ 0 \in 0 .. n - 1
    BY DEF N
  <2>2. Sunk(InOrder(n, val, g[N]), n, n, 0)
    BY <1>6, <2>1 DEF Sorted
  <2>. QED
    BY <2>2 DEF Sunk, InOrder
<1>. QED
  BY <1>6, <1>7, <1>8 DEF Sorted

-----------------------------------------------------------------------------
(***************************************************************************)
(* The table of regions.                                                   *)
(***************************************************************************)

NReg == region_nregion(0)

(* What the tasks are given, and nothing changes. *)
GivenInv ==
  /\ region_label \in [Ranks -> LabelLists]
  /\ SameRegions => \A q, r \in Ranks, l \in Labels : Entered(q, l) <=> Entered(r, l)
  /\ flags \in Settings
  /\ profile \in Profiles
  /\ preg = RankedRegions
  /\ traced \in [Ranks -> BOOLEAN]
  /\ SameTracing => \A q, r \in Ranks : traced[q] = traced[r]

(* It holds at first, ...                                                   *)
LEMMA GivenInit ==
  ASSUME Init
  PROVE  GivenInv
BY DEF Init, GivenInv

(* ... and no step changes it.                                             *)
LEMMA GivenKept ==
  ASSUME GivenInv, UNCHANGED given
  PROVE  GivenInv'
<1>2. region_label' = region_label /\ flags' = flags /\ profile' = profile /\ preg' = preg
      /\ traced' = traced
  BY DEF given
<1>3. RankedRegions' = RankedRegions
  BY <1>2 DEF RankedRegions, region_nregion
<1>4. \A r \in Ranks, l \in Labels : Entered(r, l)' <=> Entered(r, l)
  BY <1>2 DEF Entered, region_nregion
<1>. QED
  BY <1>2, <1>3, <1>4 DEF GivenInv

(* Task 0 is a task.                                                       *)
LEMMA ZeroRank == 0 \in Ranks
BY SizeAssumption DEF Ranks

(* A task's list of labels has each label once, and at least one.          *)
LEMMA ListFacts ==
  ASSUME GivenInv, NEW r \in Ranks
  PROVE  /\ region_nregion(r) \in Nat \ {0}
         /\ region_nregion(r) <= MAXSIZE_REGION
         /\ region_label[r] \in [1 .. region_nregion(r) -> Labels]
         /\ \A i, j \in 1 .. region_nregion(r) :
              region_label[r][i] = region_label[r][j] => i = j
<1>. DEFINE s == region_label[r]
<1>1. s \in LabelLists
  BY DEF GivenInv
<1>2. PICK n \in 1 .. Cardinality(Labels) : s \in [1 .. n -> Labels]
  BY <1>1 DEF LabelLists
<1>3. Cardinality(Labels) \in Nat /\ Cardinality(Labels) <= MAXSIZE_REGION /\ MAXSIZE_REGION \in Nat
  BY ReportAssumption, FS_CardinalityType
<1>4. n \in Nat \ {0} /\ n <= MAXSIZE_REGION
  BY <1>2, <1>3
<1>5. Injective(s)
  BY <1>1 DEF LabelLists
<1>. HIDE DEF s
<1>6. s \in Seq(Labels)
  BY <1>2, <1>4, SeqDef
<1>7. Len(s) = n
  BY <1>2, <1>4, <1>6, LenProperties
<1>8. \A i, j \in 1 .. n : s[i] = s[j] => i = j
  BY <1>2, <1>5 DEF Injective
<1>. QED
  BY <1>2, <1>4, <1>7, <1>8 DEF s, region_nregion

Distinct(s, n) == \A i, j \in 1 .. n : s[i] = s[j] => i = j
Within(s, n, t, m) == \A i \in 1 .. n : \E k \in 1 .. m : s[i] = t[k]

(* A list without repetitions is not longer than one with all its elements. *)
LEMMA NotLonger ==
  ASSUME NEW n \in Nat, NEW m \in Nat, NEW s, NEW t, Distinct(s, n), Within(s, n, t, m)
  PROVE  n <= m
<1>1. SUFFICES ASSUME m < n
               PROVE  FALSE
  OBVIOUS
<1>. DEFINE f == [i \in 1 .. n |-> CHOOSE k \in 1 .. m : s[i] = t[k]]
<1>2. \A i \in 1 .. n : f[i] \in 1 .. m /\ s[i] = t[f[i]]
  BY DEF Within
<1>3. f \in [1 .. n -> 1 .. m]
  BY <1>2
<1>4. /\ IsFiniteSet(1 .. n) /\ IsFiniteSet(1 .. m)
      /\ Cardinality(1 .. m) < Cardinality(1 .. n)
  <2>1. \A k \in Nat : IsFiniteSet(1 .. k) /\ Cardinality(1 .. k) = IF 1 > k THEN 0 ELSE k - 1 + 1
    BY FS_Interval
  <2>2. \A k \in Nat : Cardinality(1 .. k) = k
    BY <2>1
  <2>. QED
    BY <1>1, <2>1, <2>2
<1>. HIDE DEF f
<1>5. \E x, y \in 1 .. n : x # y /\ f[x] = f[y]
  BY <1>3, <1>4, FS_PigeonHole
<1>. QED
  BY <1>2, <1>5 DEF Distinct

(* Tasks that entered the same regions have the same number of them.       *)
LEMMA SameNumber ==
  ASSUME GivenInv, SameRegions, NEW q \in Ranks, NEW r \in Ranks
  PROVE  region_nregion(q) <= region_nregion(r)
<1>. DEFINE s == region_label[q]
            t == region_label[r]
            n == region_nregion(q)
            m == region_nregion(r)
<1>1. n \in Nat /\ m \in Nat /\ Distinct(s, n)
  BY ListFacts DEF Distinct
<1>2. ASSUME NEW i \in 1 .. n
      PROVE  \E k \in 1 .. m : s[i] = t[k]
  <2>1. s[i] \in Labels
    BY ListFacts
  <2>2. Entered(q, s[i])
    BY DEF Entered
  <2>3. Entered(r, s[i])
    BY <2>1, <2>2 DEF GivenInv
  <2>. QED
    BY <2>3 DEF Entered
<1>3. Within(s, n, t, m)
  BY <1>2 DEF Within
<1>. HIDE DEF s, t, n, m
<1>4. n <= m
  BY <1>1, <1>3, NotLonger
<1>. QED
  BY <1>4 DEF n, m

(* In short, every task has as many as task 0.                             *)
LEMMA SameNumbers ==
  ASSUME GivenInv, SameRegions, NEW r \in Ranks
  PROVE  region_nregion(r) = NReg
<1>1. region_nregion(r) <= NReg /\ NReg <= region_nregion(r)
  BY ZeroRank, SameNumber DEF NReg
<1>2. region_nregion(r) \in Nat /\ NReg \in Nat
  BY ZeroRank, ListFacts DEF NReg
<1>. QED
  BY <1>1, <1>2

(* The first k indices.                                                    *)
LEMMA FirstIndices ==
  ASSUME NEW k \in Nat
  PROVE  IsFiniteSet(0 .. k - 1) /\ Cardinality(0 .. k - 1) = k
<1>1. 0 \in Int /\ k - 1 \in Int
  OBVIOUS
<1>2. /\ IsFiniteSet(0 .. k - 1)
      /\ Cardinality(0 .. k - 1) = IF 0 > k - 1 THEN 0 ELSE (k - 1) - 0 + 1
  BY <1>1, FS_Interval
<1>. QED
  BY <1>2

(* Positive values at the first m indices, and zeros behind them. *)
Leading(val, m, n) == \A i \in 0 .. n - 1 : IF i < m THEN val[i] > 0 ELSE val[i] = 0

Descending(val, idx, n) == \A x, y \in 0 .. n - 1 : x <= y => val[idx[x]] >= val[idx[y]]

(* An order in which the first m indices have the positive values. *)
Ranking(val, idx, m, n) ==
  /\ n \in Nat /\ m \in 0 .. n /\ val \in [0 .. n - 1 -> Int]
  /\ Leading(val, m, n) /\ Permutation(idx, n) /\ Descending(val, idx, n)

(* The ranking puts the positive values first: the places below m are      *)
(* those of the m indices with positive values.                            *)
LEMMA PositiveFirst ==
  ASSUME NEW n, NEW m, NEW val, NEW idx, Ranking(val, idx, m, n)
  PROVE  /\ \A x \in 0 .. m - 1 : idx[x] \in 0 .. m - 1
         /\ \A v \in 0 .. m - 1 : \E x \in 0 .. m - 1 : idx[x] = v
<1>. /\ n \in Nat /\ m \in 0 .. n /\ val \in [0 .. n - 1 -> Int]
     /\ Leading(val, m, n) /\ Permutation(idx, n) /\ Descending(val, idx, n)
  BY DEF Ranking
<1>1. idx \in [0 .. n - 1 -> 0 .. n - 1]
  BY DEF Permutation
<1>0. m \in Nat /\ \A v \in 0 .. m - 1 : v \in 0 .. n - 1
  OBVIOUS
<1>2. ASSUME NEW x \in 0 .. m - 1
      PROVE  idx[x] \in 0 .. m - 1
  <2>1. SUFFICES ASSUME idx[x] \notin 0 .. m - 1
                 PROVE  FALSE
    OBVIOUS
  <2>2. x \in 0 .. n - 1 /\ idx[x] \in 0 .. n - 1 /\ val[idx[x]] = 0
    BY <1>0, <1>1, <2>1 DEF Leading
  <2>3. ASSUME NEW v \in 0 .. m - 1
        PROVE  \E y \in 0 .. x - 1 : idx[y] = v
    <3>1. PICK y \in 0 .. n - 1 : idx[y] = v
      BY <1>0 DEF Permutation
    <3>2. val[idx[y]] > 0
      BY <1>0, <3>1 DEF Leading
    <3>3. val[idx[y]] \in Int
      BY <1>0, <3>1
    <3>4. ~(x <= y)
      BY <2>2, <3>2, <3>3 DEF Descending
    <3>. QED
      BY <2>2, <3>1, <3>4
  <2>. DEFINE f == [v \in 0 .. m - 1 |-> CHOOSE y \in 0 .. x - 1 : idx[y] = v]
  <2>4. \A v \in 0 .. m - 1 : f[v] \in 0 .. x - 1 /\ idx[f[v]] = v
    BY <2>3
  <2>5. f \in [0 .. m - 1 -> 0 .. x - 1]
    BY <2>4
  <2>6. /\ IsFiniteSet(0 .. m - 1) /\ IsFiniteSet(0 .. x - 1)
        /\ Cardinality(0 .. x - 1) < Cardinality(0 .. m - 1)
    <3>1. x \in Nat /\ x < m
      BY <1>0
    <3>. QED
      BY <1>0, <3>1, FirstIndices
  <2>. HIDE DEF f
  <2>7. PICK u \in 0 .. m - 1, v \in 0 .. m - 1 : u # v /\ f[u] = f[v]
    BY <2>5, <2>6, FS_PigeonHole
  <2>. QED
    BY <2>4, <2>7
<1>. DEFINE S == 0 .. m - 1
            h == [x \in S |-> idx[x]]
<1>3. h \in Injection(S, S)
  <2>1. h \in [S -> S]
    BY <1>2
  <2>2. \A x, y \in S : h[x] = h[y] => x = y
    BY <1>0 DEF Permutation
  <2>. QED
    BY <2>1, <2>2 DEF Injection, IsInjective
<1>4. IsFiniteSet(S)
  BY FS_Interval
<1>5. h \in Surjection(S, S)
  <2>. HIDE DEF S, h
  <2>. QED
    BY <1>3, <1>4, FS_Injection
<1>6. \A v \in S : \E x \in S : h[x] = v
  BY <1>5 DEF Surjection
<1>. QED
  BY <1>2, <1>6

(* Task 0's table of regions has each region it entered once, the one with *)
(* the most wall time first: ipm_report ranks all of the table, and the    *)
(* places without a region come last.                                      *)
THEOREM RegionsRanked ==
  ASSUME GivenInv
  PROVE  /\ preg \in [1 .. NReg -> Labels]
         /\ \A k \in 1 .. NReg : Entered(0, preg[k])
         /\ \A l \in Labels : Entered(0, l) => \E k \in 1 .. NReg : preg[k] = l
         /\ \A j, k \in 1 .. NReg : j < k =>
              preg[j] # preg[k] /\ profile.wtime[preg[j]] >= profile.wtime[preg[k]]
<1>. DEFINE n == MAXSIZE_REGION
            s == region_label[0]
            w == profile.wtime
            val == [i \in 0 .. n - 1 |-> IF i < NReg THEN w[s[i + 1]] ELSE 0]
            idx == index_doubles(n, val)
<1>1. /\ NReg \in Nat \ {0} /\ NReg <= n /\ n \in Nat
      /\ s \in [1 .. NReg -> Labels]
      /\ \A i, j \in 1 .. NReg : s[i] = s[j] => i = j
  BY ZeroRank, ListFacts, ReportAssumption DEF NReg
<1>2. \A l \in Labels : w[l] \in Nat \ {0}
  BY ReportAssumption DEF GivenInv
<1>3. preg = [k \in 1 .. NReg |-> IF idx[k - 1] < NReg THEN s[idx[k - 1] + 1] ELSE None]
  BY DEF GivenInv, RankedRegions, NReg
<1>. HIDE DEF n, s, w
<1>4. /\ val \in [0 .. n - 1 -> Int]
      /\ Leading(val, NReg, n)
  <2>1. \A i \in 0 .. n - 1 : i < NReg => s[i + 1] \in Labels
    BY <1>1
  <2>. QED
    BY <1>2, <2>1 DEF Leading
<1>5. /\ \A i \in 0 .. NReg - 1 : val[i] = w[s[i + 1]]
      /\ NReg \in 0 .. n
  BY <1>1
<1>. HIDE DEF val
<1>6. Permutation(idx, n) /\ Descending(val, idx, n)
  BY <1>1, <1>4, IndexDoublesRanks DEF Descending
<1>. HIDE DEF idx
<1>7. /\ \A x \in 0 .. NReg - 1 : idx[x] \in 0 .. NReg - 1
      /\ \A v \in 0 .. NReg - 1 : \E x \in 0 .. NReg - 1 : idx[x] = v
  <2>1. NReg \in 0 .. n
    BY <1>1
  <2>2. Ranking(val, idx, NReg, n)
    BY <1>1, <1>4, <1>6, <2>1 DEF Ranking
  <2>. QED
    BY <2>2, PositiveFirst, SMTT(30)
<1>8. \A k \in 1 .. NReg : /\ k - 1 \in 0 .. NReg - 1 /\ k - 1 \in 0 .. n - 1
                          /\ idx[k - 1] + 1 \in 1 .. NReg
                          /\ idx[k - 1] \in 0 .. NReg - 1
                          /\ preg[k] = s[idx[k - 1] + 1]
  <2>. TAKE k \in 1 .. NReg
  <2>1. k - 1 \in 0 .. NReg - 1 /\ k - 1 \in 0 .. n - 1
    BY <1>1
  <2>2. idx[k - 1] \in 0 .. NReg - 1
    BY <1>7, <2>1
  <2>3. idx[k - 1] + 1 \in 1 .. NReg /\ idx[k - 1] < NReg
    BY <1>1, <2>2
  <2>. QED
    BY <1>3, <2>1, <2>2, <2>3
<1>9. preg \in [1 .. NReg -> Labels]
  <2>1. \A k \in 1 .. NReg : preg[k] \in Labels
    BY <1>1, <1>8
  <2>. QED
    BY <1>3, <2>1
<1>10. \A k \in 1 .. NReg : Entered(0, preg[k])
  BY <1>8 DEF Entered, NReg, s
<1>11. ASSUME NEW l \in Labels, Entered(0, l)
       PROVE  \E k \in 1 .. NReg : preg[k] = l
  <2>1. PICK i \in 1 .. NReg : s[i] = l
    BY <1>11 DEF Entered, NReg, s
  <2>2. i - 1 \in 0 .. NReg - 1
    BY <1>1
  <2>3. PICK x \in 0 .. NReg - 1 : idx[x] = i - 1
    BY <1>7, <2>2
  <2>4. x + 1 \in 1 .. NReg /\ (x + 1) - 1 = x
    BY <1>1
  <2>5. preg[x + 1] = s[idx[x] + 1]
    BY <1>8, <2>4
  <2>6. idx[x] + 1 = i
    BY <2>3
  <2>. QED
    BY <2>1, <2>4, <2>5, <2>6
<1>12. ASSUME NEW j \in 1 .. NReg, NEW k \in 1 .. NReg, j < k
       PROVE  preg[j] # preg[k] /\ w[preg[j]] >= w[preg[k]]
  <2>. DEFINE a == idx[j - 1]
              b == idx[k - 1]
  <2>1. /\ j - 1 \in 0 .. n - 1 /\ k - 1 \in 0 .. n - 1 /\ j - 1 # k - 1 /\ j - 1 <= k - 1
        /\ a \in 0 .. NReg - 1 /\ b \in 0 .. NReg - 1
        /\ preg[j] = s[a + 1] /\ preg[k] = s[b + 1]
        /\ a + 1 \in 1 .. NReg /\ b + 1 \in 1 .. NReg
    BY <1>8, <1>12
  <2>2. val[a] >= val[b] /\ a # b
    BY <1>6, <2>1 DEF Permutation, Descending
  <2>. HIDE DEF a, b
  <2>3. val[a] = w[preg[j]] /\ val[b] = w[preg[k]]
    BY <1>5, <2>1
  <2>4. preg[j] # preg[k]
    BY <1>1, <2>1, <2>2
  <2>. QED
    BY <2>2, <2>3, <2>4
<1>. QED
  BY <1>9, <1>10, <1>11, <1>12 DEF w

-----------------------------------------------------------------------------
(***************************************************************************)
(* The operations of the tasks.                                            *)
(***************************************************************************)

(* The numbers of operations of the report, of the dump and of the log.    *)
Reported == IF "REPORT_NONE" \in flags THEN 0 ELSE IF NReg = 1 THEN 1 ELSE 2 * NReg + 1
Dumped == IF traced[0] THEN 1 ELSE 0
Logged == IF "LOG_NONE" \in flags THEN 0 ELSE 1

(* The kind of the n-th operation, the same for all tasks. *)
KindAt(n) ==
  IF n <= Reported THEN IF n % 2 = 0 THEN "bcast" ELSE "reduce"
  ELSE IF n <= Reported + Dumped THEN "barrier"
  ELSE IF n <= Reported + Dumped + Logged THEN "allreduce"
  ELSE "finalize"

(* The operations a task has returned from. *)
Returned(r) ==
  CASE at[r] = "totals"   -> 0
    [] at[r] = "label"    -> 2 * ireg[r] - 1
    [] at[r] = "times"    -> 2 * ireg[r]
    [] at[r] = "trace"    -> Reported
    [] at[r] = "log"      -> Reported + Dumped
    [] at[r] = "finalize" -> Reported + Dumped + Logged
    [] at[r] = "done"     -> Reported + Dumped + Logged + 1

Kinds == {"reduce", "bcast", "barrier", "allreduce", "finalize"}
Parts == Labels \cup {None, All}
Contribution == [rbuf : Parts, mpi_time : Parts]
Operation == [kind : Kinds, data : Parts \cup Contribution]

Of(l) == [rbuf |-> l, mpi_time |-> l]

TypeOK ==
  /\ ops \in [Ranks -> Seq(Operation)]
  /\ inside \in [Ranks -> BOOLEAN]
  /\ at \in [Ranks -> {"totals", "label", "times", "trace", "log", "finalize", "done"}]
  /\ ireg \in [Ranks -> Nat]
  /\ mpi_time \in [Ranks -> Parts]

(* Where a task is, and what it has called. *)
PlaceOf(r) ==
  /\ Len(ops[r]) = Returned(r) + IF inside[r] THEN 1 ELSE 0
  /\ at[r] \in {"totals", "label", "times"} => "REPORT_NONE" \notin flags
  /\ at[r] \in {"label", "times"} => NReg > 1 /\ ireg[r] \in 1 .. NReg
  /\ at[r] = "totals" => ireg[r] = 1
  /\ at[r] = "times" => Len(ops[0]) >= 2 * ireg[r]
  /\ at[r] = "trace" => traced[0]
  /\ at[r] = "log" => "LOG_NONE" \notin flags
  /\ at[r] = "done" => ~inside[r]

PlaceInv == \A r \in Ranks : PlaceOf(r)

KindsInv == \A r \in Ranks : \A n \in 1 .. Len(ops[r]) : ops[r][n].kind = KindAt(n)

DataInv ==
  \A r \in Ranks :
    /\ Reported > 0 /\ Len(ops[r]) >= 1 => ops[r][1].data = Of(All)
    /\ NReg > 1 /\ Reported > 0 => \A i \in 1 .. NReg :
         /\ r = 0 /\ 2 * i <= Len(ops[0]) => ops[0][2 * i].data = preg[i]
         /\ 2 * i + 1 <= Len(ops[r]) => ops[r][2 * i + 1].data = Of(preg[i])

EntryFor(l) == [region |-> l, from |-> [q \in Ranks |-> Of(l)]]

ReportInv ==
  /\ Len(report) = IF "REPORT_NONE" \in flags \/ at[0] = "totals" THEN 0
                   ELSE IF at[0] \in {"label", "times"} THEN ireg[0]
                   ELSE IF NReg = 1 THEN 1 ELSE NReg + 1
  /\ report = [i \in 1 .. Len(report) |-> EntryFor(IF i = 1 THEN All ELSE preg[i - 1])]

(* What all of it rests on. *)
IInv == GivenInv /\ TypeOK /\ PlaceInv /\ KindsInv /\ DataInv /\ ReportInv

(* It holds at first.                                                      *)
LEMMA ReportInit ==
  ASSUME SameRegions, SameTracing, Init
  PROVE  IInv
<1>1. GivenInv
  BY GivenInit
<1>2. ops = [r \in Ranks |-> <<>>] /\ inside = [r \in Ranks |-> FALSE] /\ ireg = [r \in Ranks |-> 1]
      /\ at = [r \in Ranks |-> IF "REPORT_NONE" \in flags THEN AfterReport(r) ELSE "totals"]
      /\ mpi_time = [r \in Ranks |-> All] /\ report = <<>>
  BY DEF Init, InitCollectives
<1>3. \A r \in Ranks : traced[r] \in BOOLEAN /\ traced[r] = traced[0]
  BY <1>1, ZeroRank DEF GivenInv
<1>4. \A r \in Ranks : AfterReport(r) \in {"trace", "log", "finalize"}
  BY DEF AfterReport, AfterTrace
<1>5. TypeOK
  <2>1. <<>> \in Seq(Operation)
    OBVIOUS
  <2>. QED
    BY <1>2, <1>4, <2>1 DEF TypeOK, Parts
<1>6. PlaceInv
  <2>. SUFFICES ASSUME NEW r \in Ranks
                PROVE  PlaceOf(r)
    BY DEF PlaceInv
  <2>1. CASE "REPORT_NONE" \in flags
    BY <1>2, <1>3, <2>1 DEF AfterReport, AfterTrace, Returned, Reported, Dumped, Logged, PlaceOf
  <2>2. CASE "REPORT_NONE" \notin flags
    BY <1>2, <2>2 DEF Returned, PlaceOf
  <2>. QED
    BY <2>1, <2>2
<1>7. KindsInv /\ DataInv
  <2>1. \A r \in Ranks : Len(ops[r]) = 0
    BY <1>2
  <2>2. NReg \in Nat \ {0}
    BY <1>1, ZeroRank, ListFacts DEF NReg
  <2>. QED
    BY <2>1, <2>2, ZeroRank DEF KindsInv, DataInv
<1>8. ReportInv
  <2>1. at[0] \in {"totals", "trace", "log", "finalize"} /\ (at[0] # "totals" => "REPORT_NONE" \in flags)
    BY <1>2, <1>4, ZeroRank
  <2>2. Len(report) = 0 /\ report = [i \in 1 .. 0 |-> EntryFor(IF i = 1 THEN All ELSE preg[i - 1])]
    BY <1>2
  <2>. QED
    BY <2>1, <2>2 DEF ReportInv
<1>. QED
  BY <1>1, <1>5, <1>6, <1>7, <1>8 DEF IInv

(* The counts of operations, while nothing that is given changes.          *)
LEMMA SameCounts ==
  ASSUME UNCHANGED given
  PROVE  /\ flags' = flags /\ traced' = traced /\ preg' = preg /\ region_label' = region_label
         /\ profile' = profile
         /\ NReg' = NReg /\ Reported' = Reported /\ Dumped' = Dumped /\ Logged' = Logged
         /\ \A n : KindAt(n)' = KindAt(n)
<1>1. /\ flags' = flags /\ traced' = traced /\ preg' = preg /\ region_label' = region_label
      /\ profile' = profile
  BY DEF given
<1>2. NReg' = NReg
  BY <1>1 DEF NReg, region_nregion
<1>. QED
  BY <1>1, <1>2 DEF Reported, Dumped, Logged, KindAt

(* How many there are of each.                                             *)
LEMMA CountTypes ==
  ASSUME IInv
  PROVE  /\ NReg \in Nat \ {0} /\ Reported \in Nat /\ Dumped \in {0, 1} /\ Logged \in {0, 1}
         /\ Reported > 0 <=> "REPORT_NONE" \notin flags
         /\ Reported > 0 => Reported = IF NReg = 1 THEN 1 ELSE 2 * NReg + 1
<1>1. NReg \in Nat \ {0}
  BY ZeroRank, ListFacts DEF NReg, IInv
<1>. QED
  BY <1>1 DEF Reported, Dumped, Logged

(* The operation that comes next.                                          *)
LEMMA KindOfPlace ==
  ASSUME IInv, NEW r \in Ranks, at[r] # "done"
  PROVE  KindAt(Returned(r) + 1) = Kind[at[r]]
<1>0. /\ NReg \in Nat \ {0} /\ Reported \in Nat /\ Dumped \in {0, 1} /\ Logged \in {0, 1}
      /\ Reported > 0 <=> "REPORT_NONE" \notin flags
      /\ Reported > 0 => Reported = IF NReg = 1 THEN 1 ELSE 2 * NReg + 1
  BY CountTypes
<1>. USE DEF Kind, KindAt, Returned
<1>1. PlaceOf(r) /\ at[r] \in {"totals", "label", "times", "trace", "log", "finalize", "done"}
  BY DEF IInv, PlaceInv, TypeOK
<1>2. CASE at[r] = "totals"
  BY <1>0, <1>1, <1>2 DEF PlaceOf
<1>3. CASE at[r] = "label"
  <2>1. ireg[r] \in 1 .. NReg /\ NReg > 1 /\ Reported = 2 * NReg + 1
    BY <1>0, <1>1, <1>3 DEF PlaceOf
  <2>2. (2 * ireg[r] - 1) + 1 = 2 * ireg[r] /\ 2 * ireg[r] <= Reported /\ (2 * ireg[r]) % 2 = 0
    BY <1>0, <2>1
  <2>. QED
    BY <1>3, <2>2
<1>4. CASE at[r] = "times"
  <2>1. ireg[r] \in 1 .. NReg /\ NReg > 1 /\ Reported = 2 * NReg + 1
    BY <1>0, <1>1, <1>4 DEF PlaceOf
  <2>2. 2 * ireg[r] + 1 <= Reported /\ (2 * ireg[r] + 1) % 2 # 0
    BY <1>0, <2>1
  <2>. QED
    BY <1>4, <2>2
<1>5. CASE at[r] = "trace"
  BY <1>0, <1>1, <1>5 DEF PlaceOf, Dumped
<1>6. CASE at[r] = "log"
  BY <1>0, <1>1, <1>6 DEF PlaceOf, Logged
<1>7. CASE at[r] = "finalize"
  BY <1>0, <1>1, <1>7 DEF PlaceOf
<1>. QED
  BY <1>1, <1>2, <1>3, <1>4, <1>5, <1>6, <1>7

(* What the data of the n-th operation of task r must be. *)
RightData(r, n, data) ==
  /\ Reported > 0 /\ n = 1 => data = Of(All)
  /\ NReg > 1 /\ Reported > 0 => \A i \in 1 .. NReg :
       /\ r = 0 /\ n = 2 * i => data = preg[i]
       /\ n = 2 * i + 1 => data = Of(preg[i])

(* A call adds the operation of the place to the task's.                   *)
LEMMA CallKeeps ==
  ASSUME IInv, NEW r \in Ranks, NEW data, CallOp(r, Kind[at[r]], data), at[r] # "done",
         data \in Parts \cup Contribution, UNCHANGED <<given, at, ireg, report>>,
         mpi_time' \in [Ranks -> Parts], RightData(r, Returned(r) + 1, data)
  PROVE  IInv'
<1>. DEFINE op == [kind |-> Kind[at[r]], data |-> data]
            n == Returned(r) + 1
<1>0. /\ flags' = flags /\ traced' = traced /\ preg' = preg /\ region_label' = region_label
      /\ profile' = profile
      /\ NReg' = NReg /\ Reported' = Reported /\ Dumped' = Dumped /\ Logged' = Logged
      /\ \A m : KindAt(m)' = KindAt(m)
  BY SameCounts
<1>1. /\ at' = at /\ ireg' = ireg /\ report' = report
      /\ ~inside[r] /\ ops' = [ops EXCEPT ![r] = Append(@, op)]
      /\ inside' = [inside EXCEPT ![r] = TRUE]
  BY DEF CallOp
<1>2. TypeOK /\ PlaceInv /\ KindsInv /\ DataInv /\ ReportInv /\ GivenInv
  BY DEF IInv
<1>3. /\ at[r] \in {"totals", "label", "times", "trace", "log", "finalize"}
      /\ ops[r] \in Seq(Operation)
  BY <1>2 DEF TypeOK
<1>4. op \in Operation
  <2>1. Kind[at[r]] \in Kinds
    <3>1. /\ Kind["totals"] = "reduce" /\ Kind["label"] = "bcast" /\ Kind["times"] = "reduce"
          /\ Kind["trace"] = "barrier" /\ Kind["log"] = "allreduce"
          /\ Kind["finalize"] = "finalize"
      BY DEF Kind
    <3>. QED
      BY <1>3, <3>1 DEF Kinds
  <2>. QED
    BY <2>1 DEF Operation
<1>5. Len(ops[r]) = n - 1 /\ n - 1 \in Nat /\ n \in Nat
  <2>1. Len(ops[r]) \in Nat
    BY <1>3
  <2>2. Len(ops[r]) = Returned(r) + 0
    BY <1>1, <1>2 DEF PlaceInv, PlaceOf
  <2>3. Returned(r) \in Int
    <3>1. NReg \in Nat \ {0} /\ Reported \in Nat /\ Dumped \in {0, 1} /\ Logged \in {0, 1}
      BY CountTypes
    <3>2. ireg[r] \in Nat
      BY <1>2 DEF TypeOK
    <3>. QED
      BY <1>3, <3>1, <3>2 DEF Returned
  <2>. QED
    BY <2>1, <2>2, <2>3
<1>6. op.kind = KindAt(n)
  BY KindOfPlace
<1>. HIDE DEF op, n
<1>7. /\ ops'[r] = Append(ops[r], op) /\ Len(ops'[r]) = n
      /\ \A m \in 1 .. n - 1 : ops'[r][m] = ops[r][m]
      /\ ops'[r][n] = op
      /\ \A q \in Ranks : q # r => ops'[q] = ops[q]
  BY <1>1, <1>2, <1>3, <1>4, <1>5 DEF TypeOK
<1>8. \A q \in Ranks : Len(ops'[q]) >= Len(ops[q]) /\ Len(ops[q]) \in Nat
  <2>. TAKE q \in Ranks
  <2>1. ops[q] \in Seq(Operation)
    BY <1>2 DEF TypeOK
  <2>2. Len(ops[q]) \in Nat
    BY <2>1
  <2>. QED
    BY <1>5, <1>7, <2>2
<1>9. GivenInv'
  BY <1>2, GivenKept
<1>10. TypeOK'
  <2>1. Append(ops[r], op) \in Seq(Operation)
    BY <1>3, <1>4
  <2>. QED
    BY <1>1, <1>2, <2>1 DEF TypeOK
<1>11. PlaceInv'
  <2>. SUFFICES ASSUME NEW q \in Ranks
                PROVE  PlaceOf(q)'
    BY DEF PlaceInv
  <2>1. PlaceOf(q) /\ Returned(q)' = Returned(q) /\ Returned(r)' = Returned(r)
    BY <1>0, <1>1, <1>2 DEF PlaceInv, Returned
  <2>2. Len(ops'[q]) = Returned(q) + IF inside'[q] THEN 1 ELSE 0
    <3>1. CASE q = r
      BY <1>1, <1>2, <1>7, <3>1 DEF TypeOK, n
    <3>2. CASE q # r
      BY <1>1, <1>2, <1>7, <2>1, <3>2 DEF TypeOK, PlaceOf
    <3>. QED
      BY <3>1, <3>2
  <2>3. at[q] = "times" => Len(ops'[0]) >= 2 * ireg[q]
    BY <1>2, <1>8, <2>1, ZeroRank DEF PlaceOf, TypeOK
  <2>4. at[q] = "done" => ~inside'[q]
    BY <1>1, <1>2, <2>1 DEF PlaceOf, TypeOK
  <2>. QED
    BY <1>0, <1>1, <2>1, <2>2, <2>3, <2>4 DEF PlaceOf
<1>12. KindsInv'
  <2>. SUFFICES ASSUME NEW q \in Ranks, NEW m \in 1 .. Len(ops'[q])
                PROVE  ops'[q][m].kind = KindAt(m)
    BY <1>0 DEF KindsInv
  <2>1. CASE q = r /\ m = n
    BY <1>6, <1>7, <2>1
  <2>2. CASE q = r /\ m # n
    BY <1>2, <1>5, <1>7, <2>2 DEF KindsInv
  <2>3. CASE q # r
    BY <1>2, <1>7, <2>3 DEF KindsInv
  <2>. QED
    BY <2>1, <2>2, <2>3
<1>13. DataInv'
  <2>. SUFFICES ASSUME NEW q \in Ranks
                PROVE  /\ Reported > 0 /\ Len(ops'[q]) >= 1 => ops'[q][1].data = Of(All)
                       /\ NReg > 1 /\ Reported > 0 => \A i \in 1 .. NReg :
                            /\ q = 0 /\ 2 * i <= Len(ops'[0]) => ops'[0][2 * i].data = preg[i]
                            /\ 2 * i + 1 <= Len(ops'[q]) => ops'[q][2 * i + 1].data = Of(preg[i])
    BY <1>0 DEF DataInv
  <2>1. CASE q # r
    BY <1>2, <1>7, <2>1 DEF DataInv
  <2>2. CASE q = r
    <3>1. RightData(r, n, op.data)
      BY DEF n, op
    <3>2. \A m \in 1 .. n : ops'[q][m] = IF m = n THEN op ELSE ops[q][m]
      BY <1>5, <1>7, <2>2
    <3>3. Len(ops'[q]) = n /\ Len(ops[q]) = n - 1
      BY <1>5, <1>7, <2>2
    <3>4. Reported > 0 /\ n >= 1 => ops'[q][1].data = Of(All)
      BY <1>2, <1>5, <3>1, <3>2, <3>3 DEF DataInv, RightData
    <3>5. ASSUME NReg > 1, Reported > 0, NEW i \in 1 .. NReg
          PROVE  /\ q = 0 /\ 2 * i <= n => ops'[q][2 * i].data = preg[i]
                 /\ 2 * i + 1 <= n => ops'[q][2 * i + 1].data = Of(preg[i])
      <4>1. NReg \in Nat
        BY CountTypes
      <4>2. i \in Nat /\ 2 * i >= 1 /\ 2 * i + 1 >= 1
        BY <4>1
      <4>3. /\ q = 0 /\ 2 * i <= n - 1 => ops[q][2 * i].data = preg[i]
            /\ 2 * i + 1 <= n - 1 => ops[q][2 * i + 1].data = Of(preg[i])
        BY <1>2, <3>3, <3>5 DEF DataInv
      <4>4. /\ q = 0 /\ n = 2 * i => op.data = preg[i]
            /\ n = 2 * i + 1 => op.data = Of(preg[i])
        BY <2>2, <3>1, <3>5 DEF RightData
      <4>. QED
        BY <1>5, <3>2, <4>2, <4>3, <4>4
    <3>. QED
      BY <1>5, <3>3, <3>4, <3>5
  <2>. QED
    BY <2>1, <2>2
<1>14. ReportInv'
  <2>1. \A l : EntryFor(l)' = EntryFor(l)
    BY DEF EntryFor, Of
  <2>. QED
    BY <1>0, <1>1, <1>2, <2>1 DEF ReportInv
<1>. QED
  BY <1>9, <1>10, <1>11, <1>12, <1>13, <1>14 DEF IInv

(* A task calls an operation whose data are the totals, or do not matter.  *)
LEMMA CallPlainKeeps ==
  ASSUME IInv, NEW r \in Ranks, CallPlain(r)
  PROVE  IInv'
<1>1. CallOp(r, Kind[at[r]], Of(All)) /\ UNCHANGED <<given, at, ireg, mpi_time, report>>
  BY DEF CallPlain, Call, Of
<1>2. at[r] \in {"totals", "trace", "log", "finalize"}
  BY DEF CallPlain
<1>3. RightData(r, Returned(r) + 1, Of(All))
  <2>0. /\ NReg \in Nat \ {0} /\ Reported \in Nat /\ Dumped \in {0, 1} /\ Logged \in {0, 1}
        /\ Reported > 0 => Reported = IF NReg = 1 THEN 1 ELSE 2 * NReg + 1
    BY CountTypes
  <2>1. Returned(r) = 0 \/ (Returned(r) \in Nat /\ Returned(r) >= Reported)
    BY <1>2, <2>0 DEF Returned
  <2>2. ASSUME NReg > 1, Reported > 0, NEW i \in 1 .. NReg
        PROVE  Returned(r) + 1 # 2 * i /\ Returned(r) + 1 # 2 * i + 1
    <3>1. Reported = 2 * NReg + 1
      BY <2>0, <2>2
    <3>. QED
      BY <2>0, <2>1, <3>1
  <2>. QED
    BY <2>2 DEF RightData
<1>4. mpi_time' \in [Ranks -> Parts] /\ Of(All) \in Parts \cup Contribution
  BY <1>1 DEF IInv, TypeOK, Of, Contribution, Parts
<1>. QED
  BY <1>1, <1>2, <1>3, <1>4, CallKeeps

(* A task calls the broadcast: task 0 with the label of its next region.   *)
LEMMA CallBcastKeeps ==
  ASSUME IInv, NEW r \in Ranks, CallBcast(r)
  PROVE  IInv'
<1>. DEFINE data == IF r = 0 THEN preg[ireg[r]] ELSE None
<1>1. CallOp(r, Kind[at[r]], data) /\ UNCHANGED <<given, at, ireg, mpi_time, report>>
  BY DEF CallBcast, Call
<1>2. at[r] = "label" /\ ireg[r] \in 1 .. NReg
  BY DEF CallBcast, IInv, PlaceInv, PlaceOf
<1>3. NReg \in Nat
  BY CountTypes
<1>4. RightData(r, Returned(r) + 1, data)
  <2>1. Returned(r) + 1 = 2 * ireg[r]
    BY <1>2, <1>3 DEF Returned
  <2>2. ASSUME NEW i \in 1 .. NReg
        PROVE  /\ 2 * ireg[r] # 2 * i + 1 /\ 2 * ireg[r] # 1
               /\ 2 * ireg[r] = 2 * i => ireg[r] = i
    BY <1>2, <1>3
  <2>. QED
    BY <1>2, <2>1, <2>2 DEF RightData
<1>5. mpi_time' \in [Ranks -> Parts] /\ data \in Parts \cup Contribution
  <2>1. preg \in [1 .. NReg -> Labels]
    BY RegionsRanked DEF IInv
  <2>2. mpi_time \in [Ranks -> Parts]
    BY DEF IInv, TypeOK
  <2>. QED
    BY <1>1, <1>2, <2>1, <2>2 DEF Parts
<1>. HIDE DEF data
<1>. QED
  BY <1>1, <1>2, <1>4, <1>5, CallKeeps

(* A task calls the reduction of the times of a region.                    *)
LEMMA CallTimesKeeps ==
  ASSUME IInv, SameRegions, NEW r \in Ranks, CallTimes(r)
  PROVE  IInv'
<1>. DEFINE l == preg[ireg[r]]
<1>1. at[r] = "times" /\ ireg[r] \in 1 .. NReg /\ NReg > 1 /\ Len(ops[0]) >= 2 * ireg[r]
      /\ "REPORT_NONE" \notin flags
  BY DEF CallTimes, IInv, PlaceInv, PlaceOf
<1>2. NReg \in Nat /\ Reported > 0
  BY <1>1, CountTypes
<1>3. Returned(r) = 2 * ireg[r]
  BY <1>1 DEF Returned
<1>4. l \in Labels /\ Entered(0, l)
  BY <1>1, RegionsRanked DEF IInv
<1>5. Entered(r, l)
  BY <1>4, ZeroRank DEF IInv, GivenInv
<1>6. egregious_mistake(r) = l
  <2>1. ~inside[r]
    BY DEF CallTimes, CallOp
  <2>2. Len(ops[r]) = 2 * ireg[r]
    BY <1>1, <1>2, <1>3, <2>1 DEF IInv, PlaceInv, PlaceOf
  <2>3. ops[0][2 * ireg[r]].data = l
    BY <1>1, <1>2, ZeroRank DEF IInv, DataInv
  <2>. QED
    BY <2>2, <2>3 DEF egregious_mistake, DataOf, Position
<1>. HIDE DEF l
<1>7. /\ CallOp(r, Kind[at[r]], Of(l)) /\ UNCHANGED <<given, at, ireg, report>>
      /\ mpi_time' = [mpi_time EXCEPT ![r] = l]
  BY <1>1, <1>5, <1>6 DEF CallTimes, Of, Kind
<1>8. mpi_time' \in [Ranks -> Parts] /\ Of(l) \in Parts \cup Contribution
  <2>1. l \in Parts /\ mpi_time \in [Ranks -> Parts]
    BY <1>4 DEF Parts, IInv, TypeOK
  <2>. QED
    BY <1>7, <2>1 DEF Contribution, Of
<1>9. RightData(r, Returned(r) + 1, Of(l))
  <2>1. ASSUME NEW i \in 1 .. NReg
        PROVE  /\ 2 * ireg[r] + 1 # 2 * i /\ 2 * ireg[r] + 1 # 1
               /\ 2 * ireg[r] + 1 = 2 * i + 1 => ireg[r] = i
    BY <1>1, <1>2
  <2>. QED
    BY <1>1, <1>2, <1>3, <2>1 DEF RightData, l
<1>. QED
  BY <1>1, <1>7, <1>8, <1>9, CallKeeps

(* A return takes a task to its next place.                                *)
LEMMA ReturnKeeps ==
  ASSUME IInv, NEW r \in Ranks, NEW place, Goto(r, place), ReturnOp(r),
         place \in {"totals", "label", "times", "trace", "log", "finalize", "done"},
         UNCHANGED <<given, mpi_time>>, ireg' \in [Ranks -> Nat],
         \A q \in Ranks : q # r => ireg'[q] = ireg[q],
         PlaceOf(r)', ReportInv'
  PROVE  IInv'
<1>0. /\ flags' = flags /\ traced' = traced /\ preg' = preg
      /\ NReg' = NReg /\ Reported' = Reported /\ Dumped' = Dumped /\ Logged' = Logged
      /\ \A m : KindAt(m)' = KindAt(m)
  BY SameCounts
<1>1. TypeOK /\ PlaceInv /\ KindsInv /\ DataInv /\ GivenInv
  BY DEF IInv
<1>2. /\ ops' = ops /\ inside' = [inside EXCEPT ![r] = FALSE] /\ at' = [at EXCEPT ![r] = place]
      /\ mpi_time' = mpi_time
  BY DEF ReturnOp, Goto
<1>3. GivenInv'
  BY <1>1, GivenKept
<1>4. TypeOK'
  BY <1>1, <1>2 DEF TypeOK
<1>5. PlaceInv'
  <2>. SUFFICES ASSUME NEW q \in Ranks, q # r
                PROVE  PlaceOf(q)'
    BY DEF PlaceInv
  <2>1. /\ PlaceOf(q) /\ at'[q] = at[q] /\ ireg'[q] = ireg[q] /\ inside'[q] = inside[q]
        /\ Returned(q)' = Returned(q)
    BY <1>0, <1>1, <1>2 DEF PlaceInv, TypeOK, Returned
  <2>. QED
    BY <1>0, <1>2, <2>1 DEF PlaceOf
<1>6. KindsInv' /\ DataInv'
  BY <1>0, <1>1, <1>2 DEF KindsInv, DataInv, Of
<1>. QED
  BY <1>3, <1>4, <1>5, <1>6 DEF IInv

(* The operations of a task that returns.                                  *)
LEMMA ReturnedOne ==
  ASSUME IInv, NEW r \in Ranks, ReturnOp(r)
  PROVE  /\ inside[r] /\ Len(ops[r]) = Returned(r) + 1 /\ Len(ops[r]) \in Nat
         /\ inside'[r] = FALSE /\ ops' = ops
         /\ PlaceOf(r)
         /\ at[r] # "done"
<1>1. inside[r] /\ ops' = ops /\ inside' = [inside EXCEPT ![r] = FALSE]
  BY DEF ReturnOp
<1>2. PlaceOf(r) /\ ops[r] \in Seq(Operation) /\ inside \in [Ranks -> BOOLEAN]
  BY DEF IInv, PlaceInv, TypeOK
<1>3. Len(ops[r]) \in Nat
  BY <1>2
<1>4. Len(ops[r]) = Returned(r) + 1 /\ at[r] # "done"
  BY <1>1, <1>2 DEF PlaceOf
<1>. QED
  BY <1>1, <1>2, <1>3, <1>4

(* The operation a task is in is that of its place.                        *)
LEMMA LastKind ==
  ASSUME IInv, NEW r \in Ranks, ReturnOp(r)
  PROVE  ops[r][Len(ops[r])].kind = Kind[at[r]]
<1>1. /\ Len(ops[r]) = Returned(r) + 1 /\ Len(ops[r]) \in Nat /\ PlaceOf(r) /\ at[r] # "done"
      /\ at[r] \in {"totals", "label", "times", "trace", "log", "finalize", "done"}
  BY ReturnedOne DEF IInv, TypeOK
<1>2. /\ NReg \in Nat \ {0} /\ Reported \in Nat /\ Dumped \in {0, 1} /\ Logged \in {0, 1}
  BY CountTypes
<1>3. Returned(r) \in Nat
  <2>1. at[r] \in {"label", "times"} => ireg[r] \in 1 .. NReg
    BY <1>1 DEF PlaceOf
  <2>. QED
    BY <1>1, <1>2, <2>1 DEF Returned
<1>4. Len(ops[r]) \in 1 .. Len(ops[r])
  BY <1>1, <1>3
<1>5. ops[r][Len(ops[r])].kind = KindAt(Len(ops[r]))
  BY <1>4 DEF IInv, KindsInv
<1>6. KindAt(Returned(r) + 1) = Kind[at[r]]
  BY <1>1, KindOfPlace
<1>. QED
  BY <1>1, <1>5, <1>6

(* Task 0 returns from a reduction when all tasks have called it.          *)
LEMMA AllHere ==
  ASSUME IInv, ReturnOp(0), at[0] \in {"totals", "times"}
  PROVE  /\ Len(ops[0]) = Returned(0) + 1
         /\ \A q \in Ranks : Len(ops[q]) >= Len(ops[0])
<1>1. Len(ops[0]) = Returned(0) + 1 /\ ops[0][Len(ops[0])].kind = Kind[at[0]]
  BY ZeroRank, ReturnedOne, LastKind
<1>2. Kind["totals"] = "reduce" /\ Kind["times"] = "reduce"
  BY DEF Kind
<1>3. ops[0][Len(ops[0])].kind = "reduce"
  BY <1>1, <1>2
<1>4. AllCalled(0)
  BY <1>3 DEF ReturnOp, Position
<1>. QED
  BY <1>1, <1>4 DEF AllCalled, Called, Position

(* One more entry. *)
LEMMA ReportAppend ==
  ASSUME NEW n \in Nat, Len(report) = n, ReportInv, UNCHANGED preg,
         report' = Append(report, EntryFor(IF n = 0 THEN All ELSE preg[n]))
  PROVE  /\ Len(report') = n + 1
         /\ report' = [i \in 1 .. Len(report') |-> EntryFor(IF i = 1 THEN All ELSE preg'[i - 1])]
<1>. DEFINE e(i) == EntryFor(IF i = 1 THEN All ELSE preg[i - 1])
            last == EntryFor(IF n = 0 THEN All ELSE preg[n])
            S == {e(i) : i \in 1 .. n} \cup {last}
<1>1. report = [i \in 1 .. n |-> e(i)]
  BY DEF ReportInv
<1>2. last = e(n + 1)
  OBVIOUS
<1>. HIDE DEF e, last
<1>3. report \in [1 .. n -> S]
  BY <1>1
<1>4. report \in Seq(S) /\ last \in S
  BY <1>3, SeqDef
<1>5. report' = Append(report, last)
  BY DEF last
<1>. HIDE DEF S
<1>6. /\ Len(report') = n + 1
      /\ DOMAIN report' = 1 .. n + 1
      /\ \A i \in 1 .. n : report'[i] = report[i]
      /\ report'[n + 1] = last
      /\ report' \in Seq(S)
  BY <1>4, <1>5
<1>7. \A i \in 1 .. n + 1 : report'[i] = e(i)
  <2>. TAKE i \in 1 .. n + 1
  <2>1. CASE i = n + 1
    BY <1>2, <1>6, <2>1
  <2>2. CASE i # n + 1
    <3>1. i \in 1 .. n
      BY <2>2
    <3>. QED
      BY <1>1, <1>6, <3>1
  <2>. QED
    BY <2>1, <2>2
<1>8. report' = [i \in 1 .. n + 1 |-> report'[i]]
  BY <1>6, LenProperties
<1>9. report' = [i \in 1 .. n + 1 |-> e(i)]
  BY <1>7, <1>8
<1>. QED
  BY <1>6, <1>9 DEF e

(* What task 0 prints does not change when it does not return from a       *)
(* reduction.                                                              *)
LEMMA ReportSame ==
  ASSUME IInv, UNCHANGED <<given, report>>, at'[0] = at[0], ireg'[0] = ireg[0]
  PROVE  ReportInv'
<1>1. /\ flags' = flags /\ preg' = preg /\ NReg' = NReg /\ report' = report
  BY SameCounts
<1>2. \A l : EntryFor(l)' = EntryFor(l)
  BY DEF EntryFor, Of
<1>. QED
  BY <1>1, <1>2 DEF IInv, ReportInv

(* The place after the report.                                             *)
LEMMA PlaceAfterReport ==
  ASSUME IInv, SameTracing, NEW r \in Ranks, Goto(r, AfterReport(r)), UNCHANGED given
  PROVE  /\ Returned(r)' = Reported
         /\ at'[r] \in {"trace", "log", "finalize"}
         /\ at'[r] = "trace" => traced[0]
         /\ at'[r] = "log" => "LOG_NONE" \notin flags
<1>1. at'[r] = AfterReport(r)
  BY DEF Goto, IInv, TypeOK
<1>2. traced[r] = traced[0] /\ traced[0] \in BOOLEAN
  BY ZeroRank DEF IInv, GivenInv
<1>3. Reported' = Reported /\ Dumped' = Dumped /\ Logged' = Logged
  BY SameCounts
<1>4. Reported \in Nat
  BY CountTypes
<1>. QED
  BY <1>1, <1>2, <1>3, <1>4 DEF AfterReport, AfterTrace, Returned, Dumped, Logged

(* A task returns from the reduction of the totals.                        *)
LEMMA ReturnTotalsKeeps ==
  ASSUME IInv, SameRegions, SameTracing, NEW r \in Ranks, ReturnTotals(r)
  PROVE  IInv'
<1>. DEFINE place == IF region_nregion(r) > 1 THEN "label" ELSE AfterReport(r)
<1>1. /\ at[r] = "totals" /\ ReturnOp(r) /\ Goto(r, place) /\ Print0(r, All)
      /\ UNCHANGED given /\ ireg' = ireg /\ mpi_time' = mpi_time
  BY DEF ReturnTotals
<1>2. region_nregion(r) = NReg
  BY SameNumbers DEF IInv
<1>3. /\ "REPORT_NONE" \notin flags /\ ireg[r] = 1 /\ Len(ops[r]) = 1
  <2>1. PlaceOf(r) /\ Len(ops[r]) = Returned(r) + 1
    BY <1>1, ReturnedOne
  <2>. QED
    BY <1>1, <2>1 DEF PlaceOf, Returned
<1>4. /\ NReg \in Nat \ {0} /\ Reported > 0 /\ Reported = IF NReg = 1 THEN 1 ELSE 2 * NReg + 1
  BY <1>3, CountTypes
<1>5. /\ flags' = flags /\ traced' = traced /\ preg' = preg /\ NReg' = NReg /\ Reported' = Reported
      /\ Dumped' = Dumped /\ Logged' = Logged
  BY <1>1, SameCounts
<1>6. at'[r] = place /\ inside'[r] = FALSE /\ ops' = ops /\ \A q \in Ranks : q # r => at'[q] = at[q]
  BY <1>1 DEF Goto, ReturnOp, IInv, TypeOK
<1>7. CASE NReg > 1
  <2>1. place = "label" /\ at'[r] = "label"
    BY <1>2, <1>6, <1>7
  <2>2. PlaceOf(r)'
    <3>1. Returned(r)' = 1 /\ Len(ops'[r]) = 1 /\ ireg'[r] = 1
      BY <1>1, <1>3, <1>6, <2>1 DEF Returned
    <3>2. NReg' > 1 /\ ireg'[r] \in 1 .. NReg' /\ "REPORT_NONE" \notin flags'
      BY <1>3, <1>4, <1>5, <1>7, <3>1
    <3>3. Len(ops'[r]) = Returned(r)' + IF inside'[r] THEN 1 ELSE 0
      BY <1>6, <3>1
    <3>. QED
      BY <2>1, <3>2, <3>3 DEF PlaceOf
  <2>. HIDE DEF place
  <2>3. CASE r # 0
    <3>1. ReportInv'
      BY <1>1, <1>6, <2>3, ReportSame, ZeroRank DEF Print0
    <3>. QED
      BY <1>1, <2>1, <2>2, <3>1, ReturnKeeps DEF IInv, TypeOK
  <2>4. CASE r = 0
    <3>1. \A q \in Ranks : DataOf(q, 0) = Of(All)
      BY <1>1, <1>3, <1>4, <2>4, AllHere DEF IInv, DataInv, DataOf, Position
    <3>2. report' = Append(report, EntryFor(All)) /\ Len(report) = 0 /\ ReportInv
      BY <1>1, <2>4, <3>1 DEF Print0, EntryFor, IInv, ReportInv
    <3>3. /\ Len(report') = 1
          /\ report' = [i \in 1 .. Len(report') |-> EntryFor(IF i = 1 THEN All ELSE preg'[i - 1])]
      BY <1>5, <3>2, ReportAppend
    <3>4. ReportInv'
      <4>1. \A l : EntryFor(l)' = EntryFor(l)
        BY DEF EntryFor, Of
      <4>. QED
        BY <1>1, <1>3, <1>5, <2>1, <2>4, <3>3, <4>1 DEF ReportInv
    <3>. QED
      BY <1>1, <2>1, <2>2, <3>4, ReturnKeeps DEF IInv, TypeOK
  <2>. QED
    BY <2>3, <2>4
<1>8. CASE ~(NReg > 1)
  <2>1. place = AfterReport(r) /\ NReg = 1
    BY <1>2, <1>4, <1>8
  <2>. HIDE DEF place
  <2>2. /\ Returned(r)' = Reported
        /\ at'[r] \in {"trace", "log", "finalize"}
        /\ at'[r] = "trace" => traced[0]
        /\ at'[r] = "log" => "LOG_NONE" \notin flags
    BY <1>1, <2>1, PlaceAfterReport
  <2>3. PlaceOf(r)'
    <3>1. Returned(r)' = 1 /\ Len(ops'[r]) = 1
      BY <1>3, <1>4, <1>6, <2>1, <2>2
    <3>. QED
      BY <1>5, <1>6, <2>2, <3>1 DEF PlaceOf
  <2>4. ReportInv'
    <3>1. CASE r # 0
      BY <1>1, <1>6, <3>1, ReportSame, ZeroRank DEF Print0
    <3>2. CASE r = 0
      <4>1. \A q \in Ranks : DataOf(q, 0) = Of(All)
        BY <1>1, <1>3, <1>4, <3>2, AllHere DEF IInv, DataInv, DataOf, Position
      <4>2. report' = Append(report, EntryFor(All)) /\ Len(report) = 0 /\ ReportInv
        BY <1>1, <3>2, <4>1 DEF Print0, EntryFor, IInv, ReportInv
      <4>3. /\ Len(report') = 1
            /\ report' = [i \in 1 .. Len(report') |-> EntryFor(IF i = 1 THEN All ELSE preg'[i - 1])]
        BY <1>5, <4>2, ReportAppend
      <4>4. \A l : EntryFor(l)' = EntryFor(l)
        BY DEF EntryFor, Of
      <4>. QED
        BY <1>3, <1>5, <2>1, <2>2, <3>2, <4>3, <4>4 DEF ReportInv
    <3>. QED
      BY <3>1, <3>2
  <2>. QED
    BY <1>1, <1>6, <2>2, <2>3, <2>4, ReturnKeeps DEF IInv, TypeOK
<1>. QED
  BY <1>7, <1>8

(* A task returns from the broadcast.                                      *)
LEMMA ReturnBcastKeeps ==
  ASSUME IInv, NEW r \in Ranks, ReturnBcast(r)
  PROVE  IInv'
<1>1. /\ at[r] = "label" /\ ReturnOp(r) /\ Goto(r, "times")
      /\ UNCHANGED given /\ ireg' = ireg /\ mpi_time' = mpi_time /\ report' = report
  BY DEF ReturnBcast
<1>2. /\ Len(ops[r]) = Returned(r) + 1 /\ inside'[r] = FALSE /\ ops' = ops /\ PlaceOf(r)
      /\ \A q \in Ranks : q # r => at'[q] = at[q]
      /\ at'[r] = "times" /\ Len(ops[r]) \in Nat
  BY <1>1, ReturnedOne DEF Goto, IInv, TypeOK
<1>3. /\ "REPORT_NONE" \notin flags /\ ireg[r] \in 1 .. NReg /\ NReg > 1
  BY <1>1, <1>2 DEF PlaceOf
<1>4. /\ flags' = flags /\ NReg' = NReg
  BY <1>1, SameCounts
<1>5. NReg \in Nat
  BY CountTypes
<1>6. Len(ops[r]) = 2 * ireg[r]
  BY <1>1, <1>2, <1>3, <1>5 DEF Returned
<1>7. Len(ops[0]) >= Len(ops[r])
  <2>1. ops[r][Len(ops[r])].kind = "bcast"
    BY <1>1, LastKind DEF Kind
  <2>2. r = 0 \/ Called(0, r)
    BY <1>1, <2>1, ZeroRank DEF ReturnOp, AllCalled, Position
  <2>. QED
    BY <1>2, <2>2 DEF Called, Position
<1>8. PlaceOf(r)'
  <2>1. Returned(r)' = 2 * ireg[r]
    BY <1>1, <1>2 DEF Returned
  <2>2. Len(ops'[r]) = Returned(r)' + IF inside'[r] THEN 1 ELSE 0
    BY <1>2, <1>3, <1>5, <1>6, <2>1
  <2>3. NReg' > 1 /\ ireg'[r] \in 1 .. NReg' /\ "REPORT_NONE" \notin flags'
    BY <1>1, <1>3, <1>4
  <2>4. Len(ops'[0]) >= 2 * ireg'[r]
    BY <1>1, <1>2, <1>6, <1>7
  <2>. QED
    BY <1>2, <2>2, <2>3, <2>4 DEF PlaceOf
<1>9. ReportInv'
  <2>1. CASE r # 0
    BY <1>1, <1>2, <2>1, ReportSame, ZeroRank
  <2>2. CASE r = 0
    <3>1. \A l : EntryFor(l)' = EntryFor(l)
      BY DEF EntryFor, Of
    <3>2. preg' = preg
      BY <1>1, SameCounts
    <3>. QED
      BY <1>1, <1>2, <1>4, <2>2, <3>1, <3>2 DEF ReportInv, IInv
  <2>. QED
    BY <2>1, <2>2
<1>. QED
  BY <1>1, <1>8, <1>9, ReturnKeeps DEF IInv, TypeOK

(* A task returns from the reduction of the times of a region.             *)
LEMMA ReturnTimesKeeps ==
  ASSUME IInv, SameRegions, SameTracing, NEW r \in Ranks, ReturnTimes(r)
  PROVE  IInv'
<1>. DEFINE place == IF ireg[r] < region_nregion(r) THEN "label" ELSE AfterReport(r)
            i == ireg[r]
<1>1. /\ at[r] = "times" /\ ReturnOp(r) /\ Goto(r, place) /\ Print0(r, preg[ireg[0]])
      /\ UNCHANGED given /\ ireg' = [ireg EXCEPT ![r] = i + 1] /\ mpi_time' = mpi_time
  BY DEF ReturnTimes
<1>2. region_nregion(r) = NReg
  BY SameNumbers DEF IInv
<1>3. /\ Len(ops[r]) = Returned(r) + 1 /\ inside'[r] = FALSE /\ ops' = ops /\ PlaceOf(r)
      /\ \A q \in Ranks : q # r => at'[q] = at[q] /\ ireg'[q] = ireg[q]
      /\ at'[r] = place /\ ireg'[r] = i + 1 /\ ireg \in [Ranks -> Nat]
  BY <1>1, ReturnedOne DEF Goto, IInv, TypeOK
<1>4. /\ "REPORT_NONE" \notin flags /\ i \in 1 .. NReg /\ NReg > 1
  BY <1>1, <1>3 DEF PlaceOf
<1>5. /\ flags' = flags /\ traced' = traced /\ preg' = preg /\ NReg' = NReg /\ Reported' = Reported
  BY <1>1, SameCounts
<1>6. NReg \in Nat /\ Reported > 0 /\ Reported = 2 * NReg + 1
  BY <1>4, CountTypes
<1>7. Len(ops[r]) = 2 * i + 1 /\ i \in Nat
  BY <1>1, <1>3, <1>4, <1>6 DEF Returned
<1>. HIDE DEF place, i
<1>8. ireg' \in [Ranks -> Nat]
  BY <1>1, <1>3, <1>7
<1>9. PlaceOf(r)' /\ (IF i < NReg THEN at'[r] = "label"
                      ELSE i = NReg /\ at'[r] \in {"trace", "log", "finalize"})
  <2>1. CASE i < NReg
    <3>1. at'[r] = "label"
      BY <1>2, <1>3, <2>1 DEF place, i
    <3>2. Returned(r)' = 2 * i + 1
      BY <1>3, <1>7, <3>1 DEF Returned
    <3>3. Len(ops'[r]) = Returned(r)' + IF inside'[r] THEN 1 ELSE 0
      BY <1>3, <1>7, <3>2
    <3>4. NReg' > 1 /\ ireg'[r] \in 1 .. NReg' /\ "REPORT_NONE" \notin flags'
      BY <1>3, <1>4, <1>5, <1>6, <1>7, <2>1
    <3>. QED
      BY <2>1, <3>1, <3>3, <3>4 DEF PlaceOf
  <2>2. CASE ~(i < NReg)
    <3>1. i = NReg /\ Goto(r, AfterReport(r))
      BY <1>1, <1>2, <1>4, <1>6, <2>2 DEF place, i
    <3>2. /\ Returned(r)' = Reported
          /\ at'[r] \in {"trace", "log", "finalize"}
          /\ at'[r] = "trace" => traced[0]
          /\ at'[r] = "log" => "LOG_NONE" \notin flags
      BY <1>1, <3>1, PlaceAfterReport
    <3>3. Len(ops'[r]) = Returned(r)' + IF inside'[r] THEN 1 ELSE 0
      BY <1>3, <1>6, <1>7, <3>1, <3>2
    <3>. QED
      BY <1>5, <2>2, <3>1, <3>2, <3>3 DEF PlaceOf
  <2>. QED
    BY <2>1, <2>2
<1>10. ReportInv'
  <2>1. CASE r # 0
    BY <1>1, <1>3, <2>1, ReportSame, ZeroRank DEF Print0
  <2>2. CASE r = 0
    <3>1. ASSUME NEW q \in Ranks
          PROVE  DataOf(q, 0) = Of(preg[i])
      <4>1. Len(ops[q]) >= Len(ops[0])
        BY <1>1, <2>2, AllHere
      <4>2. Len(ops[q]) >= 2 * i + 1
        BY <1>7, <2>2, <4>1
      <4>3. ops[q][2 * i + 1].data = Of(preg[i])
        BY <1>4, <1>6, <4>2 DEF IInv, DataInv
      <4>. QED
        BY <1>7, <2>2, <4>3 DEF DataOf, Position
    <3>2. Len(report) = i /\ ReportInv
      BY <1>1, <1>4, <2>2 DEF IInv, ReportInv, i
    <3>3. report' = Append(report, EntryFor(preg[i]))
      BY <1>1, <2>2, <3>1 DEF Print0, EntryFor, i
    <3>4. report' = Append(report, EntryFor(IF i = 0 THEN All ELSE preg[i]))
      BY <1>4, <1>6, <3>3
    <3>5. /\ Len(report') = i + 1
          /\ report' = [j \in 1 .. Len(report') |-> EntryFor(IF j = 1 THEN All ELSE preg'[j - 1])]
      BY <1>5, <1>7, <3>2, <3>4, ReportAppend
    <3>6. \A l : EntryFor(l)' = EntryFor(l)
      BY DEF EntryFor, Of
    <3>7. /\ at'[0] # "totals" /\ "REPORT_NONE" \notin flags'
          /\ i + 1 = IF at'[0] \in {"label", "times"} THEN ireg'[0]
                     ELSE IF NReg' = 1 THEN 1 ELSE NReg' + 1
      BY <1>3, <1>4, <1>5, <1>6, <1>9, <2>2
    <3>. QED
      BY <3>5, <3>6, <3>7 DEF ReportInv
  <2>. QED
    BY <2>1, <2>2
<1>11. place \in {"totals", "label", "times", "trace", "log", "finalize", "done"}
  BY <1>3, <1>9
<1>. QED
  BY <1>1, <1>3, <1>8, <1>9, <1>10, <1>11, ReturnKeeps

(* A task returns from the barrier, the log or PMPI_Finalize.              *)
LEMMA ReturnPlainKeeps ==
  ASSUME IInv, NEW r \in Ranks, ReturnPlain(r)
  PROVE  IInv'
<1>. DEFINE place == CASE at[r] = "trace" -> AfterTrace [] at[r] = "log" -> "finalize"
                       [] OTHER -> "done"
<1>1. /\ at[r] \in {"trace", "log", "finalize"} /\ ReturnOp(r) /\ Goto(r, place)
      /\ UNCHANGED given /\ ireg' = ireg /\ mpi_time' = mpi_time /\ report' = report
  BY DEF ReturnPlain
<1>2. /\ Len(ops[r]) = Returned(r) + 1 /\ inside'[r] = FALSE /\ ops' = ops /\ PlaceOf(r)
      /\ \A q \in Ranks : q # r => at'[q] = at[q]
      /\ at'[r] = place /\ Len(ops[r]) \in Nat
  BY <1>1, ReturnedOne DEF Goto, IInv, TypeOK
<1>3. /\ flags' = flags /\ NReg' = NReg /\ traced' = traced /\ preg' = preg
      /\ Reported' = Reported /\ Dumped' = Dumped /\ Logged' = Logged
  BY <1>1, SameCounts
<1>4. Reported \in Nat /\ Dumped \in {0, 1} /\ Logged \in {0, 1}
  BY CountTypes
<1>5. at'[r] \in {"log", "finalize", "done"} /\ (at'[r] = "log" => "LOG_NONE" \notin flags)
  BY <1>1, <1>2 DEF AfterTrace
<1>6. Returned(r)' = Len(ops[r])
  <2>1. CASE at[r] = "trace"
    BY <1>2, <1>3, <1>4, <2>1 DEF PlaceOf, Returned, AfterTrace, Dumped, Logged
  <2>2. CASE at[r] = "log"
    BY <1>2, <1>3, <1>4, <2>2 DEF PlaceOf, Returned, Logged
  <2>3. CASE at[r] = "finalize"
    BY <1>2, <1>3, <1>4, <2>3 DEF PlaceOf, Returned
  <2>. QED
    BY <1>1, <2>1, <2>2, <2>3
<1>7. PlaceOf(r)'
  <2>1. Len(ops'[r]) = Returned(r)' + IF inside'[r] THEN 1 ELSE 0
    BY <1>2, <1>6
  <2>. QED
    BY <1>2, <1>3, <1>5, <2>1 DEF PlaceOf
<1>. HIDE DEF place
<1>8. ReportInv'
  <2>1. CASE r # 0
    BY <1>1, <1>2, <2>1, ReportSame, ZeroRank
  <2>2. CASE r = 0
    <3>1. \A l : EntryFor(l)' = EntryFor(l)
      BY DEF EntryFor, Of
    <3>. QED
      BY <1>1, <1>2, <1>3, <1>5, <2>2, <3>1 DEF ReportInv, IInv
  <2>. QED
    BY <2>1, <2>2
<1>9. place \in {"totals", "label", "times", "trace", "log", "finalize", "done"}
  BY <1>2, <1>5
<1>. QED
  BY <1>1, <1>7, <1>8, <1>9, ReturnKeeps DEF IInv, TypeOK

(* Every step keeps it.                                                    *)
LEMMA ReportStep ==
  ASSUME SameRegions, SameTracing, IInv, [Next]_vars
  PROVE  IInv'
<1>1. CASE UNCHANGED vars
  <2>1. UNCHANGED <<given, report, ops, inside, at, ireg, mpi_time>>
    BY <1>1 DEF vars, given
  <2>2. /\ flags' = flags /\ traced' = traced /\ preg' = preg
        /\ NReg' = NReg /\ Reported' = Reported /\ Dumped' = Dumped /\ Logged' = Logged
        /\ \A m : KindAt(m)' = KindAt(m)
    BY <2>1, SameCounts
  <2>3. GivenInv' /\ ReportInv'
    BY <2>1, GivenKept, ReportSame DEF IInv
  <2>4. TypeOK' /\ KindsInv' /\ DataInv'
    BY <2>1, <2>2 DEF IInv, TypeOK, KindsInv, DataInv, Of
  <2>5. PlaceInv'
    BY <2>1, <2>2 DEF IInv, PlaceInv, PlaceOf, Returned
  <2>. QED
    BY <2>3, <2>4, <2>5 DEF IInv
<1>2. ASSUME NEW r \in Ranks, Step(r)
      PROVE  IInv'
  <2>1. CASE CallPlain(r)
    BY <2>1, CallPlainKeeps
  <2>2. CASE CallBcast(r)
    BY <2>2, CallBcastKeeps
  <2>3. CASE CallTimes(r)
    BY <2>3, CallTimesKeeps
  <2>4. CASE ReturnTotals(r)
    BY <2>4, ReturnTotalsKeeps
  <2>5. CASE ReturnBcast(r)
    BY <2>5, ReturnBcastKeeps
  <2>6. CASE ReturnTimes(r)
    BY <2>6, ReturnTimesKeeps
  <2>7. CASE ReturnPlain(r)
    BY <2>7, ReturnPlainKeeps
  <2>. QED
    BY <1>2, <2>1, <2>2, <2>3, <2>4, <2>5, <2>6, <2>7 DEF Step
<1>. QED
  BY <1>1, <1>2 DEF Next

(* The collective operations of the report match: when the tasks entered   *)
(* the same regions, and hold trace entries all or none, they call the     *)
(* same operations in the same order.                                      *)
THEOREM CollectivesCorrect ==
  ASSUME SameRegions, SameTracing
  PROVE  Spec => []CollectivesMatch
<1>1. IInv => CollectivesMatch
  <2>. SUFFICES ASSUME IInv, NEW q \in Ranks, NEW r \in Ranks, NEW n \in 1 .. Position(r),
                       n <= Position(q)
                PROVE  ops[q][n].kind = ops[r][n].kind
    BY DEF CollectivesMatch
  <2>1. n \in 1 .. Len(ops[q]) /\ n \in 1 .. Len(ops[r])
    <3>1. ops[q] \in Seq(Operation) /\ ops[r] \in Seq(Operation)
      BY DEF IInv, TypeOK
    <3>. QED
      BY <3>1 DEF Position
  <2>. QED
    BY <2>1 DEF IInv, KindsInv
<1>. QED
  BY <1>1, ReportInit, ReportStep, PTL DEF Spec

(* Whatever order each task entered the regions in, the sums that task 0   *)
(* prints for a region are of the data of that region.                     *)
THEOREM RegionReductionCorrect ==
  ASSUME SameRegions, SameTracing
  PROVE  Spec => []RegionReduction
<1>1. IInv => RegionReduction
  <2>. SUFFICES ASSUME IInv, NEW i \in DOMAIN report, NEW q \in Ranks
                PROVE  LET l == report[i].region
                           part == IF l = All \/ Entered(q, l) THEN l ELSE None
                       IN report[i].from[q] = [rbuf |-> part, mpi_time |-> part]
    BY DEF RegionReduction
  <2>. DEFINE l == IF i = 1 THEN All ELSE preg[i - 1]
  <2>1. NReg \in Nat \ {0}
    BY CountTypes
  <2>2. /\ report[i] = EntryFor(l)
        /\ i \in 1 .. Len(report)
    BY DEF IInv, ReportInv
  <2>3. Len(report) \in Nat /\ Len(report) <= NReg + 1
    <3>1. ireg[0] \in Nat /\ (at[0] \in {"label", "times"} => ireg[0] <= NReg)
      BY <2>1, ZeroRank DEF IInv, TypeOK, PlaceInv, PlaceOf
    <3>. QED
      BY <2>1, <3>1 DEF IInv, ReportInv
  <2>4. l = All \/ Entered(q, l)
    <3>1. CASE i = 1
      BY <3>1
    <3>2. CASE i # 1
      <4>1. i - 1 \in 1 .. NReg
        BY <2>1, <2>2, <2>3, <3>2
      <4>2. l \in Labels /\ Entered(0, l)
        BY <3>2, <4>1, RegionsRanked DEF IInv
      <4>. QED
        BY <4>2, ZeroRank DEF IInv, GivenInv
    <3>. QED
      BY <3>1, <3>2
  <2>. HIDE DEF l
  <2>. QED
    BY <2>2, <2>4 DEF EntryFor, Of
<1>. QED
  BY <1>1, ReportInit, ReportStep, PTL DEF Spec

-----------------------------------------------------------------------------
(***************************************************************************)
(* The lines of the report.                                                *)
(***************************************************************************)

(* What ipm_report_internal prints lines of. *)
LineKinds ==
  {"banner", "heading", "region", "times", "flops", "memory", "counters", "call"}
Lines == [kind : LineKinds, label : Parts \cup {""}, call : Int]

(* A line that is not of the table of calls.                               *)
LEMMA LineType ==
  ASSUME NEW l \in Parts, NEW k \in LineKinds
  PROVE  /\ Line(k, l) \in Lines /\ Line(k, l).kind = k
         /\ <<Line(k, l)>> \in Seq(Lines) /\ Len(<<Line(k, l)>>) = 1
         /\ <<Line(k, l)>>[1] = Line(k, l)
<1>1. Line(k, l) \in Lines /\ Line(k, l).kind = k
  <2>. DEFINE m == -1
  <2>1. m \in Int
    OBVIOUS
  <2>. HIDE DEF m
  <2>2. [kind |-> k, label |-> l, call |-> m] \in Lines
    BY <2>1 DEF Lines
  <2>. QED
    BY <2>2 DEF Line, m
<1>. DEFINE x == Line(k, l)
<1>. HIDE DEF x
<1>2. <<x>> \in Seq(Lines) /\ Len(<<x>>) = 1 /\ <<x>>[1] = x
  BY <1>1 DEF x
<1>. QED
  BY <1>1, <1>2 DEF x

Before(s, t) == s \in Seq(Lines) /\ t \in Seq(Lines)

(* The lines of a text are those of its parts.                             *)
LEMMA Joined ==
  ASSUME NEW s, NEW t, Before(s, t)
  PROVE  /\ s \o t \in Seq(Lines)
         /\ Len(s) \in Nat /\ Len(t) \in Nat /\ Len(s \o t) = Len(s) + Len(t)
         /\ DOMAIN s = 1 .. Len(s) /\ DOMAIN t = 1 .. Len(t)
         /\ DOMAIN (s \o t) = 1 .. Len(s) + Len(t)
         /\ \A i \in 1 .. Len(s) : (s \o t)[i] = s[i]
         /\ \A i \in 1 .. Len(t) : (s \o t)[Len(s) + i] = t[i]
<1>1. s \in Seq(Lines) /\ t \in Seq(Lines)
  BY DEF Before
<1>2. Len(s) \in Nat /\ Len(t) \in Nat /\ DOMAIN s = 1 .. Len(s) /\ DOMAIN t = 1 .. Len(t)
  BY <1>1, LenProperties
<1>3. /\ s \o t \in Seq(Lines)
      /\ Len(s \o t) = Len(s) + Len(t)
      /\ \A i \in 1 .. Len(s) + Len(t) : (s \o t)[i] =
              IF i <= Len(s) THEN s[i] ELSE t[i - Len(s)]
  BY <1>1, ConcatProperties
<1>4. DOMAIN (s \o t) = 1 .. Len(s) + Len(t)
  BY <1>3, LenProperties
<1>. DEFINE u == s \o t
            m == Len(s)
            n == Len(t)
<1>5. m \in Nat /\ n \in Nat /\ \A i \in 1 .. m + n : u[i] = IF i <= m THEN s[i] ELSE t[i - m]
  BY <1>2, <1>3
<1>. HIDE DEF u, m, n
<1>6. \A i \in 1 .. m : u[i] = s[i]
  BY <1>5
<1>7. \A i \in 1 .. n : u[m + i] = t[i]
  <2>. TAKE i \in 1 .. n
  <2>1. m + i \in 1 .. m + n /\ ~(m + i <= m) /\ (m + i) - m = i
    BY <1>5
  <2>. QED
    BY <1>5, <2>1
<1>. QED
  BY <1>2, <1>3, <1>4, <1>6, <1>7 DEF u, m, n

(* The head of a text, with a line l at its beginning or with no calls. *)
Begins(s, l) == s \in Seq(Lines) /\ Len(s) >= 1 /\ s[1] = l
NoCalls(s) == s \in Seq(Lines) /\ \A k \in 1 .. Len(s) : s[k].kind # "call"

(* What follows a text does not change how it begins.                      *)
LEMMA BeginsBefore ==
  ASSUME NEW s, NEW t, NEW l, Begins(s, l), t \in Seq(Lines)
  PROVE  Begins(s \o t, l)
<1>1. Before(s, t)
  BY DEF Before, Begins
<1>2. /\ s \o t \in Seq(Lines)
      /\ Len(s) \in Nat /\ Len(t) \in Nat /\ Len(s \o t) = Len(s) + Len(t)
      /\ \A i \in 1 .. Len(s) : (s \o t)[i] = s[i]
  BY <1>1, Joined
<1>. QED
  BY <1>2 DEF Begins

(* Two texts without calls have none together.                             *)
LEMMA NoCallsJoined ==
  ASSUME NEW s, NEW t, NoCalls(s), NoCalls(t)
  PROVE  NoCalls(s \o t)
<1>1. Before(s, t)
  BY DEF Before, NoCalls
<1>2. /\ s \o t \in Seq(Lines)
      /\ Len(s) \in Nat /\ Len(t) \in Nat /\ Len(s \o t) = Len(s) + Len(t)
      /\ \A i \in 1 .. Len(s) : (s \o t)[i] = s[i]
      /\ \A i \in 1 .. Len(t) : (s \o t)[Len(s) + i] = t[i]
  BY <1>1, Joined
<1>3. ASSUME NEW k \in 1 .. Len(s \o t)
      PROVE  (s \o t)[k].kind # "call"
  <2>1. CASE k <= Len(s)
    BY <1>2, <2>1 DEF NoCalls
  <2>2. CASE k > Len(s)
    <3>1. k - Len(s) \in 1 .. Len(t) /\ Len(s) + (k - Len(s)) = k
      BY <1>2, <2>2
    <3>2. (s \o t)[k] = t[k - Len(s)]
      BY <1>2, <3>1
    <3>. QED
      BY <3>1, <3>2 DEF NoCalls
  <2>. QED
    BY <1>2, <2>1, <2>2
<1>. QED
  BY <1>2, <1>3 DEF NoCalls

(* The lines of calls of a text are those of the calls that took time,     *)
(* each once, by time. *)
Rows(lines) == {k \in DOMAIN lines : lines[k].kind = "call"}
Ranked(g, lines) ==
  /\ {lines[k].call : k \in Rows(lines)} = {c - 1 : c \in {d \in Calls : g[d] > 0}}
  /\ \A j, k \in Rows(lines) : j < k => /\ lines[j].call # lines[k].call
                                         /\ g[lines[j].call + 1] >= g[lines[k].call + 1]

(* They stay so behind a head without calls.                               *)
LEMMA RankedBehind ==
  ASSUME NEW g, NEW s, NEW t, NoCalls(s), t \in Seq(Lines), Ranked(g, t)
  PROVE  Ranked(g, s \o t)
<1>. DEFINE u == s \o t
            m == Len(s)
            n == Len(t)
<1>1. Before(s, t)
  BY DEF Before, NoCalls
<1>2. /\ m \in Nat /\ n \in Nat
      /\ DOMAIN t = 1 .. n /\ DOMAIN u = 1 .. m + n
      /\ \A i \in 1 .. m : u[i] = s[i]
      /\ \A i \in 1 .. n : u[m + i] = t[i]
  BY <1>1, Joined
<1>3. \A i \in 1 .. m : s[i].kind # "call"
  BY DEF NoCalls
<1>. HIDE DEF u, m, n
<1>4. ASSUME NEW k \in Rows(u)
      PROVE  k - m \in Rows(t) /\ u[k] = t[k - m] /\ k \in Int
  <2>1. k \in 1 .. m + n /\ u[k].kind = "call"
    BY <1>2 DEF Rows
  <2>2. ~(k <= m)
    BY <1>2, <1>3, <2>1
  <2>3. k - m \in 1 .. n /\ m + (k - m) = k
    BY <1>2, <2>1, <2>2
  <2>4. u[k] = t[k - m]
    BY <1>2, <2>3
  <2>. QED
    BY <1>2, <2>1, <2>3, <2>4 DEF Rows
<1>5. ASSUME NEW i \in Rows(t)
      PROVE  m + i \in Rows(u) /\ u[m + i] = t[i]
  <2>1. i \in 1 .. n /\ t[i].kind = "call"
    BY <1>2 DEF Rows
  <2>. QED
    BY <1>2, <2>1 DEF Rows
<1>6. {u[k].call : k \in Rows(u)} = {t[k].call : k \in Rows(t)}
  BY <1>4, <1>5
<1>7. \A j, k \in Rows(u) : j < k => j - m < k - m
  BY <1>2, <1>4
<1>8. \A j, k \in Rows(u) : j < k => /\ u[j].call # u[k].call
                                      /\ g[u[j].call + 1] >= g[u[k].call + 1]
  BY <1>4, <1>7 DEF Ranked
<1>. QED
  BY <1>6, <1>8 DEF Ranked, u

(* What ipm_report_internal prints before the table of calls. *)
Heading(fl, total, l) ==
  (IF "REPORT_FULL" \in fl THEN <<Line("region", l)>> ELSE <<>>)
    \o <<Line("times", l)>>
    \o (IF "IPM_HPM_CANCELED" \in fl THEN <<>> ELSE <<Line("flops", l)>>)
    \o (IF total THEN <<Line("memory", l)>> ELSE <<>>)
    \o (IF "IPM_HPM_CANCELED" \in fl THEN <<>> ELSE <<Line("counters", l)>>)

Table(g) == IF \A k \in DOMAIN g : g[k] = 0 THEN <<>> ELSE CallLines(g)

(* Nothing, or a line that is not of a call.                               *)
LEMMA LineOrNone ==
  ASSUME NEW l \in Parts, NEW k \in LineKinds \ {"call"}, NEW b \in BOOLEAN
  PROVE  NoCalls(IF b THEN <<>> ELSE <<Line(k, l)>>)
<1>1. NoCalls(<<>>)
  BY DEF NoCalls
<1>2. NoCalls(<<Line(k, l)>>)
  <2>1. /\ Line(k, l).kind = k
        /\ <<Line(k, l)>> \in Seq(Lines) /\ Len(<<Line(k, l)>>) = 1
        /\ <<Line(k, l)>>[1] = Line(k, l)
    BY LineType
  <2>. QED
    BY <2>1 DEF NoCalls
<1>. QED
  BY <1>1, <1>2

(* It begins with the line of the region and has no line of a call.        *)
LEMMA HeadLines ==
  ASSUME NEW l \in Parts, NEW fl, "REPORT_FULL" \in fl, NEW total \in BOOLEAN
  PROVE  Begins(Heading(fl, total, l), Line("region", l)) /\ NoCalls(Heading(fl, total, l))
<1>. DEFINE x == Line("region", l)
            a == <<x>>
            b == <<Line("times", l)>>
            h == "IPM_HPM_CANCELED" \in fl
            c == IF h THEN <<>> ELSE <<Line("flops", l)>>
            d == IF total THEN <<Line("memory", l)>> ELSE <<>>
            e == IF h THEN <<>> ELSE <<Line("counters", l)>>
<1>1. Heading(fl, total, l) = a \o b \o c \o d \o e
  BY DEF Heading
<1>2. {"region", "times", "flops", "memory", "counters"} \subseteq LineKinds \ {"call"}
  BY DEF LineKinds
<1>3. NoCalls(a) /\ NoCalls(b)
  <2>1. /\ NoCalls(IF FALSE THEN <<>> ELSE <<Line("region", l)>>)
        /\ NoCalls(IF FALSE THEN <<>> ELSE <<Line("times", l)>>)
    BY <1>2, LineOrNone
  <2>. QED
    BY <2>1
<1>4. NoCalls(c) /\ NoCalls(e)
  <2>. DEFINE z == h
  <2>1. z \in BOOLEAN
    OBVIOUS
  <2>. HIDE DEF z
  <2>2. /\ NoCalls(IF z THEN <<>> ELSE <<Line("flops", l)>>)
        /\ NoCalls(IF z THEN <<>> ELSE <<Line("counters", l)>>)
    BY <1>2, <2>1, LineOrNone
  <2>. QED
    BY <2>2 DEF z
<1>5. NoCalls(d)
  <2>1. NoCalls(IF ~total THEN <<>> ELSE <<Line("memory", l)>>)
    BY <1>2, LineOrNone
  <2>. QED
    BY <2>1
<1>6. Begins(a, x)
  <2>1. Len(a) = 1 /\ a[1] = x
    BY LineType, <1>2
  <2>. QED
    BY <1>3, <2>1 DEF NoCalls, Begins
<1>. HIDE DEF x, a, b, c, d, e
<1>7. NoCalls(a \o b \o c \o d \o e)
  <2>1. NoCalls(a \o b)
    BY <1>3, NoCallsJoined
  <2>2. NoCalls(a \o b \o c)
    BY <1>4, <2>1, NoCallsJoined
  <2>3. NoCalls(a \o b \o c \o d)
    BY <1>5, <2>2, NoCallsJoined
  <2>. QED
    BY <1>4, <2>3, NoCallsJoined
<1>8. Begins(a \o b \o c \o d \o e, x)
  <2>0. b \in Seq(Lines) /\ c \in Seq(Lines) /\ d \in Seq(Lines) /\ e \in Seq(Lines)
    BY <1>3, <1>4, <1>5 DEF NoCalls
  <2>1. Begins(a \o b, x)
    BY <1>6, <2>0, BeginsBefore
  <2>2. Begins(a \o b \o c, x)
    BY <2>0, <2>1, BeginsBefore
  <2>3. Begins(a \o b \o c \o d, x)
    BY <2>0, <2>2, BeginsBefore
  <2>. QED
    BY <2>0, <2>3, BeginsBefore
<1>. QED
  BY <1>1, <1>7, <1>8 DEF x

(* The table of calls: the indices that come first in the ranking, to the  *)
(* last whose value is positive.                                           *)
LEMMA CallRows ==
  ASSUME NEW n \in Nat, NEW g \in [1 .. n -> Nat]
  PROVE  LET val == [i \in 0 .. n - 1 |-> g[i + 1]]
             idx == index_doubles(n, val)
         IN /\ Permutation(idx, n) /\ Descending(val, idx, n)
            /\ \E rows \in 0 .. n :
                 /\ \A i \in 0 .. n - 1 : i < rows <=> val[idx[i]] > 0
                 /\ CallLines(g) =
                      [k \in 1 .. rows |-> [kind |-> "call", label |-> "", call |-> idx[k - 1]]]
<1>. DEFINE val == [i \in 0 .. n - 1 |-> g[i + 1]]
            idx == index_doubles(n, val)
            stop == {i \in 0 .. n - 1 : val[idx[i]] = 0}
            rows == IF stop = {} THEN n ELSE CHOOSE i \in stop : \A j \in stop : i <= j
<1>1. g \in Seq(Nat) /\ Len(g) = n
  <2>1. g \in Seq(Nat)
    BY SeqDef
  <2>. QED
    BY <2>1, LenProperties
<1>2. CallLines(g) = [k \in 1 .. rows |-> [kind |-> "call", label |-> "", call |-> idx[k - 1]]]
  BY <1>1 DEF CallLines
<1>3. val \in [0 .. n - 1 -> Nat]
  <2>1. \A i \in 0 .. n - 1 : i + 1 \in 1 .. n
    OBVIOUS
  <2>. QED
    BY <2>1
<1>. HIDE DEF val
<1>4. Permutation(idx, n) /\ Descending(val, idx, n)
  <2>1. val \in [0 .. n - 1 -> Int]
    BY <1>3
  <2>. QED
    BY <2>1, IndexDoublesRanks DEF Descending
<1>. HIDE DEF idx
<1>5. idx \in [0 .. n - 1 -> 0 .. n - 1]
  BY <1>4 DEF Permutation
<1>6. rows \in 0 .. n /\ \A i \in 0 .. n - 1 : i < rows <=> val[idx[i]] > 0
  <2>0. \A i \in 0 .. n - 1 : val[idx[i]] \in Nat
    BY <1>3, <1>5
  <2>1. CASE stop = {}
    <3>1. rows = n
      BY <2>1
    <3>. QED
      BY <2>0, <2>1, <3>1
  <2>2. CASE stop # {}
    <3>1. \E i \in stop : \A j \in stop : i <= j
      <4>. stop \in SUBSET (0 .. n)
        OBVIOUS
      <4>. HIDE DEF stop
      <4>. QED
        BY <2>2, LeastNatural
    <3>2. rows \in stop /\ \A j \in stop : rows <= j
      BY <2>2, <3>1
    <3>. HIDE DEF rows
    <3>3. rows \in 0 .. n - 1 /\ val[idx[rows]] = 0
      BY <3>2
    <3>4. \A i \in 0 .. n - 1 : rows <= i => val[idx[i]] = 0
      BY <1>4, <2>0, <3>3 DEF Descending
    <3>5. \A i \in 0 .. n - 1 : i < rows => val[idx[i]] # 0
      BY <3>2, <3>3
    <3>. QED
      BY <2>0, <3>3, <3>4, <3>5
  <2>. QED
    BY <2>1, <2>2
<1>. HIDE DEF rows
<1>. QED
  BY <1>2, <1>4, <1>6 DEF val, idx

(* It has the calls that took time, each once, by time.                    *)
LEMMA TableRanked ==
  ASSUME NEW n \in Nat, Calls = 1 .. n, NEW g \in [Calls -> Nat]
  PROVE  Table(g) \in Seq(Lines) /\ Ranked(g, Table(g))
<1>1. CASE \A k \in DOMAIN g : g[k] = 0
  <2>1. Table(g) = <<>>
    BY <1>1 DEF Table
  <2>2. Rows(<<>>) = {}
    BY DEF Rows
  <2>3. {d \in Calls : g[d] > 0} = {}
    BY <1>1
  <2>. QED
    BY <2>1, <2>2, <2>3 DEF Ranked
<1>2. CASE ~ \A k \in DOMAIN g : g[k] = 0
  <2>. DEFINE val == [i \in 0 .. n - 1 |-> g[i + 1]]
              idx == index_doubles(n, val)
              lines == Table(g)
  <2>1. lines = CallLines(g)
    BY <1>2 DEF Table
  <2>2. Permutation(idx, n) /\ Descending(val, idx, n)
    BY CallRows
  <2>3. PICK rows \in 0 .. n :
             /\ \A i \in 0 .. n - 1 : i < rows <=> val[idx[i]] > 0
             /\ CallLines(g) =
                  [k \in 1 .. rows |-> [kind |-> "call", label |-> "", call |-> idx[k - 1]]]
    BY CallRows
  <2>4. /\ \A k \in 1 .. rows : lines[k] = [kind |-> "call", label |-> "", call |-> idx[k - 1]]
        /\ DOMAIN lines = 1 .. rows
        /\ lines = [k \in 1 .. rows |-> lines[k]]
    BY <2>1, <2>3
  <2>5. \A i \in 0 .. n - 1 : val[i] = g[i + 1] /\ i + 1 \in 1 .. n
    OBVIOUS
  <2>. HIDE DEF val, idx, lines
  <2>6. idx \in [0 .. n - 1 -> 0 .. n - 1]
    BY <2>2 DEF Permutation
  <2>7. \A k \in 1 .. rows : k - 1 \in 0 .. n - 1 /\ k - 1 < rows /\ idx[k - 1] \in 0 .. n - 1
    <3>1. \A k \in 1 .. rows : k - 1 \in 0 .. n - 1 /\ k - 1 < rows
      OBVIOUS
    <3>. QED
      BY <2>6, <3>1
  <2>8. Rows(lines) = 1 .. rows /\ \A k \in 1 .. rows : lines[k].call = idx[k - 1]
    <3>1. ASSUME NEW k \in 1 .. rows
          PROVE  lines[k].kind = "call" /\ lines[k].call = idx[k - 1]
      <4>. DEFINE c == idx[k - 1]
      <4>1. lines[k] = [kind |-> "call", label |-> "", call |-> c]
        BY <2>4
      <4>. DEFINE y == [kind |-> "call", label |-> "", call |-> c]
      <4>. HIDE DEF c
      <4>2. y.kind = "call" /\ y.call = c
        OBVIOUS
      <4>. HIDE DEF y
      <4>3. lines[k] = y
        BY <4>1 DEF y
      <4>. QED
        BY <4>2, <4>3 DEF c
    <3>2. Rows(lines) = {k \in 1 .. rows : lines[k].kind = "call"}
      BY <2>4 DEF Rows
    <3>. QED
      BY <3>1, <3>2
  <2>9. lines \in Seq(Lines)
    <3>1. ASSUME NEW k \in 1 .. rows
          PROVE  lines[k] \in Lines
      <4>. DEFINE c == idx[k - 1]
      <4>1. c \in Int
        BY <2>7
      <4>2. lines[k] = [kind |-> "call", label |-> "", call |-> c]
        BY <2>4
      <4>. HIDE DEF c
      <4>3. [kind |-> "call", label |-> "", call |-> c] \in Lines
        BY <4>1 DEF Lines, LineKinds
      <4>. QED
        BY <4>2, <4>3
    <3>2. lines \in [1 .. rows -> Lines]
      BY <2>4, <3>1
    <3>3. rows \in Nat
      OBVIOUS
    <3>. QED
      BY <3>2, <3>3, SeqDef
  <2>10. {lines[k].call : k \in Rows(lines)} = {c - 1 : c \in {d \in Calls : g[d] > 0}}
    <3>1. ASSUME NEW k \in 1 .. rows
          PROVE  \E c \in {d \in Calls : g[d] > 0} : lines[k].call = c - 1
      <4>. DEFINE c == idx[k - 1] + 1
      <4>1. val[idx[k - 1]] > 0 /\ idx[k - 1] \in 0 .. n - 1
        BY <2>3, <2>7
      <4>2. c \in Calls /\ g[c] > 0
        BY <2>5, <4>1
      <4>3. lines[k].call = c - 1
        BY <2>8, <4>1
      <4>. HIDE DEF c
      <4>. QED
        BY <4>2, <4>3
    <3>2. ASSUME NEW c \in Calls, g[c] > 0
          PROVE  \E k \in 1 .. rows : lines[k].call = c - 1
      <4>1. c - 1 \in 0 .. n - 1 /\ (c - 1) + 1 = c
        OBVIOUS
      <4>2. PICK x \in 0 .. n - 1 : idx[x] = c - 1
        BY <2>2, <4>1 DEF Permutation
      <4>3. val[idx[x]] > 0
        BY <2>5, <3>2, <4>1, <4>2
      <4>4. x < rows
        BY <2>3, <4>3
      <4>5. x + 1 \in 1 .. rows /\ (x + 1) - 1 = x
        BY <4>4
      <4>6. lines[x + 1].call = c - 1
        BY <2>8, <4>2, <4>5
      <4>. QED
        BY <4>5, <4>6
    <3>. DEFINE took == {d \in Calls : g[d] > 0}
    <3>3. \A c \in took : \E k \in 1 .. rows : lines[k].call = c - 1
      BY <3>2
    <3>4. \A k \in 1 .. rows : \E c \in took : lines[k].call = c - 1
      BY <3>1
    <3>. HIDE DEF took
    <3>5. {lines[k].call : k \in 1 .. rows} = {c - 1 : c \in took}
      BY <3>3, <3>4
    <3>. QED
      BY <2>8, <3>5 DEF took
  <2>11. ASSUME NEW j \in Rows(lines), NEW k \in Rows(lines), j < k
         PROVE  /\ lines[j].call # lines[k].call
                /\ g[lines[j].call + 1] >= g[lines[k].call + 1]
    <3>. DEFINE x == j - 1
                y == k - 1
    <3>1. /\ x \in 0 .. n - 1 /\ y \in 0 .. n - 1 /\ x # y /\ x <= y
          /\ lines[j].call = idx[x] /\ lines[k].call = idx[y]
      <4>1. j \in 1 .. rows /\ k \in 1 .. rows
        BY <2>8
      <4>. QED
        BY <2>7, <2>8, <2>11, <4>1
    <3>. HIDE DEF x, y
    <3>2. idx[x] # idx[y]
      BY <2>2, <3>1 DEF Permutation
    <3>3. val[idx[x]] >= val[idx[y]]
      BY <2>2, <3>1 DEF Descending
    <3>4. val[idx[x]] = g[idx[x] + 1] /\ val[idx[y]] = g[idx[y] + 1]
      BY <2>5, <2>6, <3>1
    <3>. QED
      BY <3>1, <3>2, <3>3, <3>4
  <2>. QED
    BY <2>9, <2>10, <2>11 DEF Ranked, lines
<1>. QED
  BY <1>1, <1>2

(* What a contribution of the regions S has of call c. *)
OfLabels(S, c) == MapThenSumSet(LAMBDA l : profile.mtime[l][c], S)

(* It is a natural number.                                                 *)
LEMMA LabelsSum ==
  ASSUME NEW S, IsFiniteSet(S), NEW c, \A l \in S : profile.mtime[l][c] \in Nat
  PROVE  OfLabels(S, c) \in Nat
<1>. DEFINE f == [l \in S |-> profile.mtime[l][c]]
            Adds(g) == g = [s \in SUBSET S |-> IF s = {} THEN 0
                              ELSE profile.mtime[Chosen(s)][c] + g[s \ {Chosen(s)}]]
<1>1. ASSUME NEW g
      PROVE  Adds(g) <=> IsIter(g, f, S)
  <2>1. \A s \in SUBSET S : s # {} => f[Chosen(s)] = profile.mtime[Chosen(s)][c]
    BY DEF Chosen
  <2>. HIDE DEF f
  <2>. QED
    BY <2>1 DEF IsIter
<1>2. OfLabels(S, c) = (CHOOSE g : Adds(g))[S]
  BY DEF OfLabels, MapThenSumSet, MapThenFoldSet, Chosen
<1>3. \A l \in S : f[l] \in Nat
  OBVIOUS
<1>. HIDE DEF Adds, f
<1>4. (CHOOSE g : Adds(g)) = IterOf(f, S)
  BY Zenon, <1>1 DEF IterOf
<1>5. (CHOOSE g : Adds(g))[S] = SumOver(f, S)
  BY Zenon, <1>4, SumIsIter
<1>6. SumOver(f, S) \in Nat
  BY <1>3, SumType
<1>. QED
  BY <1>2, <1>5, <1>6

(* The calls are numbered from 1.                                          *)
LEMMA CallNumbers ==
  ASSUME GivenInv
  PROVE  /\ Calls = 1 .. Len(profile.mtime[NoRegion])
         /\ Len(profile.mtime[NoRegion]) \in Nat
         /\ \A l \in Labels, c \in Calls : profile.mtime[l][c] \in Nat
<1>. DEFINE t == profile.mtime
            n == Len(t[NoRegion])
<1>1. \A l \in Labels : t[l] \in Seq(Nat) /\ Len(t[l]) = n
  BY ReportAssumption DEF GivenInv
<1>2. NoRegion \in Labels
  BY ReportAssumption
<1>. HIDE DEF n
<1>3. \A l \in Labels : DOMAIN t[l] = 1 .. n /\ t[l] \in [1 .. n -> Nat]
  BY <1>1, LenProperties
<1>4. n \in Nat
  BY <1>1, <1>2, LenProperties
<1>5. Calls = 1 .. n
  <2>1. Calls = UNION {DOMAIN t[l] : l \in Labels}
    BY DEF Calls
  <2>. HIDE DEF t
  <2>. QED
    BY <1>2, <1>3, <2>1
<1>. QED
  BY <1>3, <1>4, <1>5 DEF n

(* The times of the calls that task 0 prints are natural numbers.          *)
LEMMA TimesPrinted ==
  ASSUME GivenInv, NEW from, \A q \in Ranks : from[q].mpi_time \in Parts
  PROVE  g_mpi_time(from) \in [Calls -> Nat]
<1>1. ASSUME NEW q \in Ranks, NEW c \in Calls
      PROVE  MpiTime(q, from[q].mpi_time, c) \in Nat
  <2>. DEFINE part == from[q].mpi_time
              S == CASE part = All -> {l \in Labels : Entered(q, l)}
                     [] part = None -> {}
                     [] OTHER -> {part}
  <2>1. part \in Labels \cup {None, All}
    BY DEF Parts
  <2>2. S \subseteq Labels
    BY <2>1
  <2>3. IsFiniteSet(S)
    BY <2>2, ReportAssumption, FS_Subset
  <2>4. MpiTime(q, part, c) = OfLabels(S, c)
    BY DEF MpiTime, OfLabels
  <2>. HIDE DEF S, part
  <2>5. \A l \in S : profile.mtime[l][c] \in Nat
    BY <2>2, CallNumbers
  <2>6. OfLabels(S, c) \in Nat
    BY <2>3, <2>5, LabelsSum
  <2>. QED
    BY <2>4, <2>6 DEF part
<1>2. ASSUME NEW c \in Calls
      PROVE  MapThenSumSet(LAMBDA q : MpiTime(q, from[q].mpi_time, c), Ranks) \in Nat
  <2>. DEFINE f == [q \in Ranks |-> MpiTime(q, from[q].mpi_time, c)]
              Adds(g) == g = [s \in SUBSET Ranks |-> IF s = {} THEN 0
                                ELSE MpiTime(Chosen(s), from[Chosen(s)].mpi_time, c)
                                       + g[s \ {Chosen(s)}]]
  <2>1. ASSUME NEW g
        PROVE  Adds(g) <=> IsIter(g, f, Ranks)
    <3>1. \A s \in SUBSET Ranks : s # {} =>
            f[Chosen(s)] = MpiTime(Chosen(s), from[Chosen(s)].mpi_time, c)
      BY DEF Chosen
    <3>. HIDE DEF f
    <3>. QED
      BY <3>1 DEF IsIter
  <2>2. MapThenSumSet(LAMBDA q : MpiTime(q, from[q].mpi_time, c), Ranks)
          = (CHOOSE g : Adds(g))[Ranks]
    BY DEF MapThenSumSet, MapThenFoldSet, Chosen
  <2>3. \A q \in Ranks : f[q] \in Nat
    BY <1>1
  <2>. HIDE DEF Adds, f
  <2>4. (CHOOSE g : Adds(g)) = IterOf(f, Ranks)
    BY Zenon, <2>1 DEF IterOf
  <2>5. (CHOOSE g : Adds(g))[Ranks] = SumOver(f, Ranks)
    BY Zenon, <2>4, SumIsIter
  <2>6. IsFiniteSet(Ranks)
    BY SizeAssumption, FS_Interval DEF Ranks
  <2>7. SumOver(f, Ranks) \in Nat
    BY <2>3, <2>6, SumType
  <2>. QED
    BY <2>2, <2>5, <2>7
<1>. QED
  BY <1>2 DEF g_mpi_time

(* The parts of what is printed for region l, or for all.                  *)
LEMMA PrintedParts ==
  ASSUME GivenInv, NEW l \in Labels \cup {All}
  PROVE  LET g     == g_mpi_time([q \in Ranks |-> Of(l)])
             total == l = All
         IN /\ Printed(EntryFor(l)) =
                 Banner(total, l) \o (IF "REPORT_TERSE" \in flags THEN TerseLines(NReg, total, l)
                                      ELSE Heading(flags, total, l) \o Table(g))
            /\ NoCalls(Banner(total, l))
            /\ Begins(Heading(flags, total, l), Line("region", l)) /\ NoCalls(Heading(flags, total, l))
            /\ Table(g) \in Seq(Lines) /\ Ranked(g, Table(g))
            /\ g \in [Calls -> Nat]
<1>. DEFINE from == [q \in Ranks |-> Of(l)]
            g == g_mpi_time(from)
            total == l = All
<1>1. /\ EntryFor(l).region = l
      /\ EntryFor(l).from = from
  BY DEF EntryFor
<1>2. g \in [Calls -> Nat]
  <2>1. \A q \in Ranks : from[q].mpi_time \in Parts
    BY DEF Of, Parts
  <2>. HIDE DEF from
  <2>. QED
    BY <2>1, TimesPrinted
<1>3. Table(g) \in Seq(Lines) /\ Ranked(g, Table(g))
  <2>1. /\ Calls = 1 .. Len(profile.mtime[NoRegion])
        /\ Len(profile.mtime[NoRegion]) \in Nat
    BY CallNumbers
  <2>. HIDE DEF g
  <2>. QED
    BY <1>2, <2>1, TableRanked
<1>4. l \in Parts /\ total \in BOOLEAN
  BY DEF Parts
<1>5. "REPORT_FULL" \in flags
  BY ReportAssumption DEF GivenInv
<1>6. Begins(Heading(flags, total, l), Line("region", l)) /\ NoCalls(Heading(flags, total, l))
  <2>. HIDE DEF total
  <2>. QED
    BY <1>4, <1>5, HeadLines
<1>7. NoCalls(Banner(total, l))
  <2>1. "banner" \in LineKinds \ {"call"}
    BY DEF LineKinds
  <2>2. NoCalls(IF ~total THEN <<>> ELSE <<Line("banner", l)>>)
    <3>. DEFINE z == ~total
    <3>1. z \in BOOLEAN
      OBVIOUS
    <3>. HIDE DEF z
    <3>2. NoCalls(IF z THEN <<>> ELSE <<Line("banner", l)>>)
      BY <1>4, <2>1, <3>1, LineOrNone
    <3>. QED
      BY <3>2 DEF z
  <2>. QED
    BY <2>2 DEF Banner
<1>. HIDE DEF from
<1>8. Printed(EntryFor(l)) =
        Banner(total, l) \o (IF "REPORT_TERSE" \in flags THEN TerseLines(NReg, total, l)
                             ELSE FullLines(flags, total, l, g))
  BY <1>1 DEF Printed, ipm_report_internal, NReg
<1>9. FullLines(flags, total, l, g) = Heading(flags, total, l) \o Table(g)
  BY DEF FullLines, Heading, Table
<1>. QED
  BY <1>2, <1>3, <1>6, <1>7, <1>8, <1>9 DEF from

(* A region has its line, in a terse and in a full report.                 *)
LEMMA RegionLine ==
  ASSUME GivenInv, NReg > 1, NEW l \in Labels
  PROVE  \E k \in DOMAIN Printed(EntryFor(l)) : Printed(EntryFor(l))[k].kind = "region"
<1>. DEFINE g == g_mpi_time([q \in Ranks |-> Of(l)])
            text == Printed(EntryFor(l))
            body == IF "REPORT_TERSE" \in flags THEN <<Line("region", l)>>
                    ELSE Heading(flags, FALSE, l) \o Table(g)
<1>1. (l = All) = FALSE
  BY ReportAssumption
<1>2. /\ text = Banner(FALSE, l) \o (IF "REPORT_TERSE" \in flags THEN TerseLines(NReg, FALSE, l)
                                   ELSE Heading(flags, FALSE, l) \o Table(g))
      /\ Begins(Heading(flags, FALSE, l), Line("region", l))
      /\ Table(g) \in Seq(Lines)
  BY <1>1, PrintedParts
<1>3. NReg \in Nat
  BY ZeroRank, ListFacts DEF NReg
<1>4. text = <<>> \o body
  <2>1. TerseLines(NReg, FALSE, l) = <<Line("region", l)>>
    BY <1>3 DEF TerseLines
  <2>2. Banner(FALSE, l) = <<>>
    BY DEF Banner
  <2>. QED
    BY <1>2, <2>1, <2>2
<1>5. /\ Line("region", l).kind = "region"
      /\ <<Line("region", l)>> \in Seq(Lines) /\ Len(<<Line("region", l)>>) = 1
      /\ <<Line("region", l)>>[1] = Line("region", l)
  BY LineType DEF Parts, LineKinds
<1>6. Begins(body, Line("region", l))
  <2>1. CASE "REPORT_TERSE" \in flags
    BY <1>5, <2>1 DEF Begins
  <2>2. CASE "REPORT_TERSE" \notin flags
    <3>1. Begins(Heading(flags, FALSE, l) \o Table(g), Line("region", l))
      BY <1>2, BeginsBefore
    <3>. QED
      BY <2>2, <3>1
  <2>. QED
    BY <2>1, <2>2
<1>. HIDE DEF text, body
<1>7. text = body
  BY <1>4, <1>6, ConcatEmptySeq DEF Begins
<1>8. 1 \in DOMAIN text /\ text[1].kind = "region"
  <2>1. text \in Seq(Lines) /\ Len(text) >= 1 /\ text[1] = Line("region", l)
    BY <1>6, <1>7 DEF Begins
  <2>2. DOMAIN text = 1 .. Len(text) /\ Len(text) \in Nat
    BY <2>1, LenProperties
  <2>. QED
    BY <1>5, <2>1, <2>2
<1>. QED
  BY <1>8 DEF text

(* The entries of the report, and how many there are.                      *)
LEMMA Entries ==
  ASSUME IInv
  PROVE  /\ Len(report) \in Nat /\ Len(report) <= NReg + 1
         /\ NReg = 1 => Len(report) <= 1
         /\ DOMAIN report = 1 .. Len(report)
         /\ \A i \in 1 .. Len(report) : report[i] = EntryFor(IF i = 1 THEN All ELSE preg[i - 1])
<1>1. NReg \in Nat \ {0}
  BY CountTypes
<1>2. ireg[0] \in Nat /\ (at[0] \in {"label", "times"} => ireg[0] <= NReg /\ NReg > 1)
  BY <1>1, ZeroRank DEF IInv, TypeOK, PlaceInv, PlaceOf
<1>3. Len(report) \in Nat /\ Len(report) <= NReg + 1 /\ (NReg = 1 => Len(report) <= 1)
  BY <1>1, <1>2 DEF IInv, ReportInv
<1>4. report = [i \in 1 .. Len(report) |-> EntryFor(IF i = 1 THEN All ELSE preg[i - 1])]
  BY DEF IInv, ReportInv
<1>. QED
  BY <1>3, <1>4

(* Each region of task 0 is printed once, the one with the most wall time  *)
(* first.                                                                  *)
THEOREM EachRegionOnceCorrect ==
  ASSUME SameRegions, SameTracing
  PROVE  Spec => []EachRegionOnce
<1>1. ASSUME IInv, AllDone, "REPORT_NONE" \notin flags
      PROVE  IF region_nregion(0) = 1 THEN RegionEntries = {}
             ELSE /\ \A i \in RegionEntries : Entered(0, report[i].region)
                  /\ \A l \in Labels : Entered(0, l) => \E i \in RegionEntries : report[i].region = l
                  /\ \A i, j \in RegionEntries : i < j =>
                       /\ report[i].region # report[j].region
                       /\ profile.wtime[report[i].region] >= profile.wtime[report[j].region]
  <2>0. /\ GivenInv
        /\ NReg \in Nat \ {0}
        /\ DOMAIN report = 1 .. Len(report)
        /\ \A i \in 1 .. Len(report) : report[i] = EntryFor(IF i = 1 THEN All ELSE preg[i - 1])
    BY <1>1, Entries, CountTypes DEF IInv
  <2>1. Len(report) = IF NReg = 1 THEN 1 ELSE NReg + 1
    <3>1. at[0] = "done"
      BY <1>1, ZeroRank DEF AllDone
    <3>. QED
      BY <1>1, <3>1 DEF IInv, ReportInv
  <2>2. \A i \in 1 .. Len(report) :
          report[i].region = IF i = 1 THEN All ELSE preg[i - 1]
    BY <2>0 DEF EntryFor
  <2>3. CASE NReg = 1
    <3>1. Len(report) = 1
      BY <2>1, <2>3
    <3>2. RegionEntries = {}
      BY <2>0, <2>2, <3>1 DEF RegionEntries
    <3>. QED
      BY <2>3, <3>2 DEF NReg
  <2>4. CASE NReg # 1
    <3>1. Len(report) = NReg + 1 /\ NReg > 1
      BY <2>0, <2>1, <2>4
    <3>2. /\ preg \in [1 .. NReg -> Labels]
          /\ \A k \in 1 .. NReg : Entered(0, preg[k])
          /\ \A l \in Labels : Entered(0, l) => \E k \in 1 .. NReg : preg[k] = l
          /\ \A j, k \in 1 .. NReg : j < k =>
               preg[j] # preg[k] /\ profile.wtime[preg[j]] >= profile.wtime[preg[k]]
      BY <2>0, RegionsRanked
    <3>3. \A i \in 2 .. NReg + 1 : /\ i \in DOMAIN report /\ i - 1 \in 1 .. NReg
                                   /\ report[i] = EntryFor(preg[i - 1])
                                   /\ report[i].region = preg[i - 1]
      BY <2>0, <2>2, <3>1
    <3>4. RegionEntries = 2 .. NReg + 1
      <4>1. ASSUME NEW i \in RegionEntries
            PROVE  i \in 2 .. NReg + 1
        <5>1. i \in 1 .. NReg + 1 /\ report[i].region # All
          BY <2>0, <3>1 DEF RegionEntries
        <5>2. i # 1
          BY <2>2, <3>1, <5>1
        <5>. QED
          BY <2>0, <5>1, <5>2
      <4>2. ASSUME NEW i \in 2 .. NReg + 1
            PROVE  i \in RegionEntries
        <5>1. i - 1 \in 1 .. NReg
          BY <3>3
        <5>2. preg[i - 1] \in Labels /\ preg[i - 1] # All
          BY <3>2, <5>1, ReportAssumption
        <5>. DEFINE l == preg[i - 1]
        <5>. HIDE DEF l
        <5>3. \E k \in DOMAIN Printed(EntryFor(l)) : Printed(EntryFor(l))[k].kind = "region"
          BY <2>0, <3>1, <5>2, RegionLine DEF l
        <5>4. report[i] = EntryFor(l) /\ report[i].region # All /\ i \in DOMAIN report
          BY <3>3, <5>2 DEF l
        <5>. QED
          BY <5>3, <5>4 DEF RegionEntries
      <4>. QED
        BY <4>1, <4>2
    <3>5. \A i \in RegionEntries : Entered(0, report[i].region)
      BY <3>2, <3>3, <3>4
    <3>6. ASSUME NEW l \in Labels, Entered(0, l)
          PROVE  \E i \in RegionEntries : report[i].region = l
      <4>1. PICK k \in 1 .. NReg : preg[k] = l
        BY <3>2, <3>6
      <4>2. k + 1 \in 2 .. NReg + 1 /\ (k + 1) - 1 = k
        BY <2>0
      <4>. QED
        BY <3>3, <3>4, <4>1, <4>2
    <3>7. ASSUME NEW i \in RegionEntries, NEW j \in RegionEntries, i < j
          PROVE  /\ report[i].region # report[j].region
                 /\ profile.wtime[report[i].region] >= profile.wtime[report[j].region]
      <4>1. i - 1 \in 1 .. NReg /\ j - 1 \in 1 .. NReg /\ i - 1 < j - 1
        BY <2>0, <3>4, <3>7
      <4>2. report[i].region = preg[i - 1] /\ report[j].region = preg[j - 1]
        BY <3>3, <3>4
      <4>. QED
        BY <3>2, <4>1, <4>2
    <3>. QED
      BY <2>4, <3>5, <3>6, <3>7 DEF NReg
  <2>. QED
    BY <2>3, <2>4
<1>2. IInv => EachRegionOnce
  BY <1>1 DEF EachRegionOnce
<1>. QED
  BY <1>2, ReportInit, ReportStep, PTL DEF Spec

(* A full report has a table of the calls that took time, each once, in    *)
(* the order of their times, for all regions and for each.                 *)
THEOREM CallsRankedCorrect ==
  ASSUME SameRegions, SameTracing
  PROVE  Spec => []CallsRanked
<1>1. ASSUME IInv, "REPORT_TERSE" \notin flags, report # <<>>
      PROVE  LET last  == report[Len(report)]
                 g     == <<>> \o g_mpi_time(last.from)
             IN Ranked(g, Printed(last))
  <2>. DEFINE m == Len(report)
              l == IF m = 1 THEN All ELSE preg[m - 1]
              g == g_mpi_time([q \in Ranks |-> Of(l)])
              total == l = All
  <2>1. /\ GivenInv
        /\ NReg \in Nat \ {0}
        /\ m \in Nat /\ m <= NReg + 1
        /\ \A i \in 1 .. m : report[i] = EntryFor(IF i = 1 THEN All ELSE preg[i - 1])
    BY <1>1, Entries, CountTypes DEF IInv
  <2>2. m # 0
    <3>1. report = [i \in 1 .. m |-> EntryFor(IF i = 1 THEN All ELSE preg[i - 1])]
      BY <1>1 DEF IInv, ReportInv
    <3>. HIDE DEF m
    <3>. QED
      BY <1>1, <3>1
  <2>3. m \in 1 .. m
    BY <2>1, <2>2
  <2>. HIDE DEF m
  <2>4. report[m] = EntryFor(l)
    BY <2>1, <2>3
  <2>5. l \in Labels \cup {All}
    <3>1. preg \in [1 .. NReg -> Labels]
      BY <2>1, RegionsRanked
    <3>. QED
      BY <2>1, <2>2, <3>1
  <2>. HIDE DEF l
  <2>6. /\ Printed(EntryFor(l)) = Banner(total, l) \o (Heading(flags, total, l) \o Table(g))
        /\ NoCalls(Banner(total, l)) /\ NoCalls(Heading(flags, total, l))
        /\ Table(g) \in Seq(Lines) /\ Ranked(g, Table(g))
        /\ g \in [Calls -> Nat]
    BY <1>1, <2>1, <2>5, PrintedParts
  <2>7. <<>> \o g = g
    <3>1. /\ Calls = 1 .. Len(profile.mtime[NoRegion])
          /\ Len(profile.mtime[NoRegion]) \in Nat
      BY <2>1, CallNumbers
    <3>. HIDE DEF g
    <3>2. g \in Seq(Nat)
      BY <2>6, <3>1, SeqDef
    <3>. QED
      BY <3>2, ConcatEmptySeq
  <2>8. report[m].from = [q \in Ranks |-> Of(l)]
    BY <2>4 DEF EntryFor
  <2>9. g_mpi_time(report[m].from) = g
    BY <2>8
  <2>. HIDE DEF g
  <2>10. Ranked(g, Heading(flags, total, l) \o Table(g))
    BY <2>6, RankedBehind
  <2>11. Heading(flags, total, l) \o Table(g) \in Seq(Lines)
    BY <2>6, ConcatProperties DEF NoCalls
  <2>12. Ranked(g, Printed(EntryFor(l)))
    <3>. DEFINE s == Banner(total, l)
                t == Heading(flags, total, l) \o Table(g)
    <3>1. NoCalls(s) /\ t \in Seq(Lines) /\ Ranked(g, t) /\ Printed(EntryFor(l)) = s \o t
      BY <2>6, <2>10, <2>11
    <3>. HIDE DEF s, t
    <3>2. Ranked(g, s \o t)
      BY <3>1, RankedBehind
    <3>. QED
      BY <3>1, <3>2
  <2>. QED
    BY <2>4, <2>7, <2>9, <2>12 DEF m
<1>2. IInv => CallsRanked
  BY <1>1 DEF CallsRanked, Ranked, Rows
<1>. QED
  BY <1>2, ReportInit, ReportStep, PTL DEF Spec
=============================================================================
