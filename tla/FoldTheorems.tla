---------------------------- MODULE FoldTheorems ----------------------------
(***************************************************************************)
(* What the proofs need of sums over finite sets and of folds over         *)
(* sequences, as MapThenSumSet and FoldLeft define them.  The lemmas about *)
(* folds are for any step of a fold and any relation of its value to the   *)
(* first one that every step keeps.  The modules that use them give a step *)
(* and a relation of theirs (an instance has no operator parameters left,  *)
(* so that its lemmas can be cited, which those of the library's induction *)
(* theorems cannot).  Both kinds rest on the well-foundedness of the       *)
(* strict subset order of a finite set.                                    *)
(***************************************************************************)
EXTENDS Sequences, Integers, FiniteSets, FiniteSetsExt, TLAPS, FiniteSetTheorems,
        WellFoundedInduction

CONSTANTS
  Step(_, _),   (* what one element of the sequence makes of a value       *)
  Good(_, _)    (* how a value is related to the one the fold begins with  *)

(* The least-number principle, from the well-foundedness of the strict     *)
(* subset order on the initial segments 0..x-1.                            *)
LEMMA LeastNatural ==
  ASSUME NEW n \in Nat, NEW S \in SUBSET (0 .. n), S # {}
  PROVE  \E x \in S : \A y \in S : x <= y
<1>. DEFINE Below(x) == 0 .. x - 1
            T == {Below(x) : x \in S}
<1>1. T \subseteq FiniteSubsetsOf(0 .. n)
  <2>1. \A x \in S : Below(x) \in SUBSET (0 .. n)
    OBVIOUS
  <2>2. \A x \in S : IsFiniteSet(Below(x))
    BY FS_Interval
  <2>. QED
    BY <2>1, <2>2 DEF FiniteSubsetsOf
<1>2. T # {}
  OBVIOUS
<1>3. PICK t \in T : \A u \in T : ~ (<<u, t>> \in StrictSubsetOrdering(0 .. n))
  <2>. HIDE DEF T
  <2>. QED
    BY <1>1, <1>2, FS_StrictSubsetOrderingWellFounded, WFMin
<1>4. PICK x \in S : t = Below(x)
  OBVIOUS
<1>5. ASSUME NEW y \in S, y < x
      PROVE  FALSE
  <2>1. Below(y) \subseteq Below(x) /\ Below(y) # Below(x)
    <3>1. y \in Below(x) /\ y \notin Below(y)
      BY <1>5
    <3>. QED
      BY <1>5, <3>1
  <2>2. Below(y) \in SUBSET (0 .. n) /\ Below(x) \in SUBSET (0 .. n)
    OBVIOUS
  <2>3. <<Below(y), Below(x)>> \in StrictSubsetOrdering(0 .. n)
    BY <2>1, <2>2 DEF StrictSubsetOrdering
  <2>. QED
    BY <1>3, <1>4, <2>3
<1>. QED
  BY <1>5

(* A quotient, from what it leaves.                                        *)
LEMMA Quotient ==
  ASSUME NEW d \in Nat \ {0}, NEW p \in Nat, NEW m \in 0 .. d - 1
  PROVE  (d * p + m) \div d = p
<1>. DEFINE x == d * p + m
            z == x \div d
            y == x % d
<1>1. x \in Nat
  BY DEF x
<1>2. z \in Nat /\ y \in 0 .. d - 1 /\ x = d * z + y
  <2>. HIDE DEF x
  <2>. QED
    BY <1>1
<1>. HIDE DEF z, y
<1>3. ASSUME NEW u \in Nat, NEW v \in Nat, u < v
      PROVE  d * v >= d * u + d
  <2>. DEFINE e == v - u
              f == e - 1
  <2>1. e \in Nat /\ f \in Nat /\ v = u + (f + 1)
    BY <1>3
  <2>. HIDE DEF e, f
  <2>2. d * v = d * u + (d * f + d)
    BY <2>1
  <2>3. d * f \in Nat /\ d * u \in Nat
    BY <2>1
  <2>. QED
    BY <2>2, <2>3
<1>4. d * z \in Nat /\ d * p \in Nat
  BY <1>2
<1>5. ~(z < p) /\ ~(p < z)
  BY <1>2, <1>3, <1>4
<1>. QED
  BY <1>2, <1>5 DEF z

(* Induction up to n, over a set in place of a predicate.                  *)
LEMMA UpTo ==
  ASSUME NEW n \in Nat, NEW S \in SUBSET (0 .. n), 0 \in S,
         \A k \in 0 .. n - 1 : k \in S => k + 1 \in S
  PROVE  \A k \in 0 .. n : k \in S
<1>. DEFINE Bad == {k \in 0 .. n : k \notin S}
<1>1. SUFFICES ASSUME Bad # {}
               PROVE  FALSE
  OBVIOUS
<1>2. PICK x \in Bad : \A y \in Bad : x <= y
  <2>. Bad \in SUBSET (0 .. n)
    OBVIOUS
  <2>. HIDE DEF Bad
  <2>. QED
    BY <1>1, LeastNatural
<1>3. x # 0 /\ x - 1 \in 0 .. n - 1
  BY <1>2
<1>4. x - 1 \notin Bad
  BY <1>2, <1>3
<1>5. (x - 1) + 1 \in S
  BY <1>3, <1>4
<1>. QED
  BY <1>2, <1>3, <1>5

(* The sum of f[i] for all i in S. *)
SumOver(f, S) == MapThenSumSet(LAMBDA i : f[i], S)

Chosen(s) == CHOOSE x \in s : TRUE

(* The function that MapThenFoldSet defines, on the subsets of S.          *)
IsIter(g, f, S) ==
  g = [s \in SUBSET S |-> IF s = {} THEN 0 ELSE f[Chosen(s)] + g[s \ {Chosen(s)}]]

IterOf(f, S) == CHOOSE g : IsIter(g, f, S)

(* A sum is a value of that function.                                      *)
LEMMA SumIsIter ==
  ASSUME NEW f, NEW S
  PROVE  SumOver(f, S) = IterOf(f, S)[S]
BY DEF SumOver, MapThenSumSet, MapThenFoldSet, IterOf, IsIter, Chosen

(* Among the subsets of a finite set with a property there is a smallest.  *)
LEMMA SmallestSubset ==
  ASSUME NEW S, IsFiniteSet(S), NEW Bad \in SUBSET SUBSET S, Bad # {}
  PROVE  \E T \in Bad : \A U \in Bad : U \subseteq T => U = T
<1>1. FiniteSubsetsOf(S) = SUBSET S
  BY FS_FiniteSubsetsOfFinite
<1>2. IsWellFoundedOn(StrictSubsetOrdering(S), SUBSET S)
  BY <1>1, FS_StrictSubsetOrderingWellFounded
<1>3. PICK T \in Bad : \A U \in Bad : ~ (<<U, T>> \in StrictSubsetOrdering(S))
  BY <1>2, WFMin
<1>4. ASSUME NEW U \in Bad, U \subseteq T, U # T
      PROVE  FALSE
  <2>1. <<U, T>> \in StrictSubsetOrdering(S)
    BY <1>4 DEF StrictSubsetOrdering
  <2>. QED
    BY <2>1, <1>3
<1>. QED
  BY <1>3, <1>4

(* The function is what it is on a smaller set of subsets ...              *)
LEMMA IterRestricted ==
  ASSUME NEW f, NEW S, NEW T \in SUBSET S, NEW g, IsIter(g, f, S)
  PROVE  IsIter([s \in SUBSET T |-> g[s]], f, T)
<1>. DEFINE h == [s \in SUBSET T |-> g[s]]
<1>1. \A s \in SUBSET T : s # {} => s \ {Chosen(s)} \in SUBSET T
  OBVIOUS
<1>2. \A s \in SUBSET T : h[s] = IF s = {} THEN 0 ELSE f[Chosen(s)] + h[s \ {Chosen(s)}]
  BY <1>1 DEF IsIter
<1>3. h = [s \in SUBSET T |-> h[s]]
  OBVIOUS
<1>. HIDE DEF h
<1>4. h = [s \in SUBSET T |-> IF s = {} THEN 0 ELSE f[Chosen(s)] + h[s \ {Chosen(s)}]]
  BY <1>2, <1>3
<1>. QED
  BY <1>4 DEF IsIter, h

(* ... and the only one there.                                             *)
LEMMA IterUnique ==
  ASSUME NEW f, NEW S, IsFiniteSet(S), NEW g, NEW h, IsIter(g, f, S), IsIter(h, f, S)
  PROVE  g = h
<1>. DEFINE Bad == {s \in SUBSET S : g[s] # h[s]}
<1>1. SUFFICES Bad = {}
  <2>1. \A s \in SUBSET S : g[s] = h[s]
    BY <1>1
  <2>2. g = [s \in SUBSET S |-> g[s]] /\ h = [s \in SUBSET S |-> h[s]]
    BY DEF IsIter
  <2>. QED
    BY <2>1, <2>2
<1>2. SUFFICES ASSUME Bad # {}
               PROVE  FALSE
  OBVIOUS
<1>3. PICK T \in Bad : \A U \in Bad : U \subseteq T => U = T
  <2>. Bad \in SUBSET SUBSET S
    OBVIOUS
  <2>. HIDE DEF Bad
  <2>. QED
    BY <1>2, SmallestSubset
<1>4. T # {}
  BY DEF IsIter
<1>5. Chosen(T) \in T
  BY <1>4 DEF Chosen
<1>6. T \ {Chosen(T)} \notin Bad
  BY <1>3, <1>5
<1>7. g[T \ {Chosen(T)}] = h[T \ {Chosen(T)}]
  BY <1>6
<1>8. /\ g[T] = f[Chosen(T)] + g[T \ {Chosen(T)}]
      /\ h[T] = f[Chosen(T)] + h[T \ {Chosen(T)}]
  BY <1>4 DEF IsIter
<1>. QED
  BY <1>7, <1>8

(* There is such a function.                                               *)
LEMMA IterExists ==
  ASSUME NEW f, NEW S, IsFiniteSet(S)
  PROVE  IsIter(IterOf(f, S), f, S)
<1>. DEFINE Bad == {s \in SUBSET S : ~ \E g : IsIter(g, f, s)}
<1>1. SUFFICES Bad = {}
  <2>1. \E g : IsIter(g, f, S)
    BY <1>1
  <2>. QED
    BY <2>1 DEF IterOf
<1>2. SUFFICES ASSUME Bad # {}
               PROVE  FALSE
  OBVIOUS
<1>3. PICK T \in Bad : \A U \in Bad : U \subseteq T => U = T
  <2>. Bad \in SUBSET SUBSET S
    OBVIOUS
  <2>. HIDE DEF Bad
  <2>. QED
    BY <1>2, SmallestSubset
<1>4. \A U \in SUBSET T : U # T => IsIter(IterOf(f, U), f, U)
  <2>1. \A U \in SUBSET T : U # T => \E g : IsIter(g, f, U)
    BY <1>3
  <2>. QED
    BY <2>1 DEF IterOf
<1>. DEFINE val(s) == IterOf(f, s)[s]
            term(s) == IF s = {} THEN 0 ELSE f[Chosen(s)] + val(s \ {Chosen(s)})
            G == [s \in SUBSET T |-> term(s)]
<1>5. ASSUME NEW U \in SUBSET T, U # T
      PROVE  val(U) = term(U)
  <2>1. IsIter(IterOf(f, U), f, U)
    BY <1>4, <1>5
  <2>2. CASE U = {}
    BY <2>1, <2>2 DEF IsIter
  <2>3. CASE U # {}
    <3>. DEFINE V == U \ {Chosen(U)}
    <3>1. Chosen(U) \in U
      BY <2>3 DEF Chosen
    <3>2. val(U) = f[Chosen(U)] + IterOf(f, U)[V]
      BY <2>1, <2>3 DEF IsIter
    <3>3. V \in SUBSET T /\ V \in SUBSET U /\ V # T /\ IsFiniteSet(V)
      BY <3>1, FS_Subset
    <3>4. IsIter([s \in SUBSET V |-> IterOf(f, U)[s]], f, V)
      BY <2>1, <3>3, IterRestricted
    <3>5. IsIter(IterOf(f, V), f, V)
      BY <1>4, <3>3
    <3>6. IterOf(f, V) = [s \in SUBSET V |-> IterOf(f, U)[s]]
      BY <3>3, <3>4, <3>5, IterUnique
    <3>7. IterOf(f, V)[V] = IterOf(f, U)[V]
      BY <3>6
    <3>. QED
      BY <2>3, <3>2, <3>7
  <2>. QED
    BY <2>2, <2>3
<1>6. \A s \in SUBSET T : G[s] = IF s = {} THEN 0 ELSE f[Chosen(s)] + G[s \ {Chosen(s)}]
  <2>1. SUFFICES ASSUME NEW s \in SUBSET T, s # {}
                 PROVE  G[s] = f[Chosen(s)] + G[s \ {Chosen(s)}]
    OBVIOUS
  <2>2. Chosen(s) \in s
    BY <2>1 DEF Chosen
  <2>3. s \ {Chosen(s)} \in SUBSET T /\ s \ {Chosen(s)} # T
    BY <2>2
  <2>4. G[s \ {Chosen(s)}] = val(s \ {Chosen(s)})
    BY <1>5, <2>3
  <2>. QED
    BY <2>1, <2>4
<1>7. IsIter(G, f, T)
  <2>. G = [s \in SUBSET T |-> G[s]]
    OBVIOUS
  <2>. HIDE DEF G
  <2>. QED
    BY <1>6 DEF IsIter
<1>. QED
  BY <1>3, <1>7

(* A sum is 0, or one of its terms and the sum of the others.              *)
LEMMA SumStep ==
  ASSUME NEW f, NEW S, IsFiniteSet(S)
  PROVE  SumOver(f, S) = IF S = {} THEN 0 ELSE f[Chosen(S)] + SumOver(f, S \ {Chosen(S)})
<1>1. IsIter(IterOf(f, S), f, S)
  BY IterExists
<1>2. CASE S = {}
  BY <1>1, <1>2, SumIsIter DEF IsIter
<1>3. CASE S # {}
  <2>. DEFINE V == S \ {Chosen(S)}
  <2>1. SumOver(f, S) = f[Chosen(S)] + IterOf(f, S)[V]
    BY <1>1, <1>3, SumIsIter DEF IsIter
  <2>2. IsFiniteSet(V) /\ V \in SUBSET S
    BY FS_Subset
  <2>3. IsIter(IterOf(f, V), f, V)
    BY <2>2, IterExists
  <2>4. IsIter([s \in SUBSET V |-> IterOf(f, S)[s]], f, V)
    BY <1>1, <2>2, IterRestricted
  <2>5. IterOf(f, V) = [s \in SUBSET V |-> IterOf(f, S)[s]]
    BY <2>2, <2>3, <2>4, IterUnique
  <2>6. SumOver(f, V) = IterOf(f, S)[V]
    BY <2>5, SumIsIter
  <2>. QED
    BY <1>3, <2>1, <2>6
<1>. QED
  BY <1>2, <1>3

(* A sum of integers is one, of natural numbers too; one whose terms are   *)
(* at most those of another is at most the other.                          *)
LEMMA SumType ==
  ASSUME NEW f, NEW S, IsFiniteSet(S), \A i \in S : f[i] \in Int
  PROVE  /\ SumOver(f, S) \in Int
         /\ (\A i \in S : f[i] >= 0) => SumOver(f, S) >= 0
<1>. DEFINE Fine(s) == /\ SumOver(f, s) \in Int
                       /\ (\A i \in s : f[i] >= 0) => SumOver(f, s) >= 0
            Bad == {s \in SUBSET S : ~Fine(s)}
<1>1. SUFFICES ASSUME Bad # {}
               PROVE  FALSE
  OBVIOUS
<1>2. PICK T \in Bad : \A U \in Bad : U \subseteq T => U = T
  <2>. Bad \in SUBSET SUBSET S
    OBVIOUS
  <2>. HIDE DEF Bad
  <2>. QED
    BY <1>1, SmallestSubset
<1>3. IsFiniteSet(T)
  BY FS_Subset
<1>4. T # {}
  <2>1. SUFFICES ASSUME T = {}
                 PROVE  Fine(T)
    OBVIOUS
  <2>2. SumOver(f, T) = 0
    BY <1>3, <2>1, SumStep
  <2>. QED
    BY <2>2
<1>. DEFINE c == Chosen(T)
            V == T \ {c}
<1>5. c \in T
  BY <1>4 DEF Chosen
<1>6. SumOver(f, T) = f[c] + SumOver(f, V)
  BY <1>3, <1>4, SumStep
<1>7. V \notin Bad
  BY <1>2, <1>5
<1>. HIDE DEF c
<1>8. Fine(V)
  BY <1>7
<1>9. f[c] \in Int
  BY <1>5
<1>10. ~Fine(T)
  OBVIOUS
<1>. HIDE DEF Bad
<1>. QED
  BY <1>5, <1>6, <1>8, <1>9, <1>10

(* Any of the terms may be taken out: the order does not matter.           *)
LEMMA SumTakeOut ==
  ASSUME NEW f, NEW S, IsFiniteSet(S), \A i \in S : f[i] \in Int, NEW i \in S
  PROVE  SumOver(f, S) = f[i] + SumOver(f, S \ {i})
<1>. DEFINE Out(s, j) == SumOver(f, s) = f[j] + SumOver(f, s \ {j})
            Bad == {s \in SUBSET S : ~ \A j \in s : Out(s, j)}
<1>1. SUFFICES ASSUME Bad # {}
               PROVE  FALSE
  OBVIOUS
<1>2. PICK T \in Bad : \A U \in Bad : U \subseteq T => U = T
  <2>. Bad \in SUBSET SUBSET S
    OBVIOUS
  <2>. HIDE DEF Bad
  <2>. QED
    BY <1>1, SmallestSubset
<1>3. PICK j \in T : ~Out(T, j)
  OBVIOUS
<1>. DEFINE c == Chosen(T)
<1>4. c \in T
  BY DEF Chosen
<1>5. \A U \in SUBSET T : IsFiniteSet(U) /\ SumOver(f, U) \in Int
  <2>1. \A U \in SUBSET T : IsFiniteSet(U)
    BY FS_Subset
  <2>. QED
    BY <2>1, SumType
<1>6. SumOver(f, T) = f[c] + SumOver(f, T \ {c})
  BY <1>5, SumStep
<1>7. c # j
  BY <1>3, <1>6
<1>. HIDE DEF c
<1>8. T \ {c} \notin Bad /\ T \ {j} \notin Bad
  BY <1>2, <1>4
<1>9. Out(T \ {c}, j) /\ Out(T \ {j}, c)
  BY <1>4, <1>7, <1>8
<1>10. (T \ {c}) \ {j} = (T \ {j}) \ {c}
  OBVIOUS
<1>11. f[c] \in Int /\ f[j] \in Int /\ SumOver(f, (T \ {c}) \ {j}) \in Int
  BY <1>4, <1>5
<1>12. SumOver(f, T) = f[j] + SumOver(f, T \ {j})
  <2>1. /\ SumOver(f, T) = f[c] + SumOver(f, T \ {c})
        /\ SumOver(f, T \ {c}) = f[j] + SumOver(f, (T \ {c}) \ {j})
        /\ SumOver(f, T \ {j}) = f[c] + SumOver(f, (T \ {c}) \ {j})
    BY <1>6, <1>9, <1>10
  <2>. QED
    BY <2>1, <1>11
<1>. QED
  BY <1>3, <1>12

(* The sum depends on the terms only.                                      *)
LEMMA SumSame ==
  ASSUME NEW f, NEW g, NEW S, IsFiniteSet(S), \A i \in S : f[i] = g[i]
  PROVE  SumOver(f, S) = SumOver(g, S)
<1>. DEFINE Bad == {s \in SUBSET S : SumOver(f, s) # SumOver(g, s)}
<1>1. SUFFICES ASSUME Bad # {}
               PROVE  FALSE
  OBVIOUS
<1>2. PICK T \in Bad : \A U \in Bad : U \subseteq T => U = T
  <2>. Bad \in SUBSET SUBSET S
    OBVIOUS
  <2>. HIDE DEF Bad
  <2>. QED
    BY <1>1, SmallestSubset
<1>3. IsFiniteSet(T)
  BY FS_Subset
<1>4. T # {}
  BY <1>3, SumStep
<1>5. Chosen(T) \in T
  BY <1>4 DEF Chosen
<1>6. T \ {Chosen(T)} \notin Bad
  BY <1>2, <1>5
<1>7. SumOver(f, T \ {Chosen(T)}) = SumOver(g, T \ {Chosen(T)})
  BY <1>6
<1>8. /\ SumOver(f, T) = f[Chosen(T)] + SumOver(f, T \ {Chosen(T)})
      /\ SumOver(g, T) = g[Chosen(T)] + SumOver(g, T \ {Chosen(T)})
  BY <1>3, <1>4, SumStep
<1>. QED
  BY <1>5, <1>7, <1>8

(* A term that changes by d changes the sum by d.                          *)
LEMMA SumOneMore ==
  ASSUME NEW f, NEW g, NEW S, IsFiniteSet(S), NEW k \in S, NEW d \in Int,
         \A i \in S : f[i] \in Int,
         \A i \in S : g[i] = IF i = k THEN f[i] + d ELSE f[i]
  PROVE  SumOver(g, S) = SumOver(f, S) + d
<1>1. \A i \in S : g[i] \in Int
  OBVIOUS
<1>2. IsFiniteSet(S \ {k})
  BY FS_Subset
<1>3. SumOver(f, S \ {k}) = SumOver(g, S \ {k})
  BY <1>2, SumSame
<1>4. SumOver(f, S) = f[k] + SumOver(f, S \ {k})
  BY SumTakeOut
<1>5. SumOver(g, S) = g[k] + SumOver(g, S \ {k})
  BY <1>1, SumTakeOut
<1>6. SumOver(f, S \ {k}) \in Int
  BY <1>2, SumType
<1>. QED
  BY <1>3, <1>4, <1>5, <1>6

(* A sum of zeros is zero.                                                 *)
LEMMA SumZero ==
  ASSUME NEW f, NEW S, IsFiniteSet(S), \A i \in S : f[i] = 0
  PROVE  SumOver(f, S) = 0
<1>. DEFINE Bad == {s \in SUBSET S : SumOver(f, s) # 0}
<1>1. SUFFICES ASSUME Bad # {}
               PROVE  FALSE
  OBVIOUS
<1>2. PICK T \in Bad : \A U \in Bad : U \subseteq T => U = T
  <2>. Bad \in SUBSET SUBSET S
    OBVIOUS
  <2>. HIDE DEF Bad
  <2>. QED
    BY <1>1, SmallestSubset
<1>3. IsFiniteSet(T)
  BY FS_Subset
<1>4. T # {}
  BY <1>3, SumStep
<1>5. Chosen(T) \in T
  BY <1>4 DEF Chosen
<1>6. T \ {Chosen(T)} \notin Bad
  BY <1>2, <1>5
<1>7. SumOver(f, T \ {Chosen(T)}) = 0
  BY <1>6
<1>8. SumOver(f, T) = f[Chosen(T)] + SumOver(f, T \ {Chosen(T)})
  BY <1>3, <1>4, SumStep
<1>. QED
  BY <1>5, <1>7, <1>8

(* A sum over more elements.                                               *)
LEMMA SumAdded ==
  ASSUME NEW f, NEW S, IsFiniteSet(S), NEW k, k \notin S,
         \A i \in S \cup {k} : f[i] \in Int
  PROVE  SumOver(f, S \cup {k}) = f[k] + SumOver(f, S)
<1>1. IsFiniteSet(S \cup {k})
  BY FS_AddElement
<1>2. (S \cup {k}) \ {k} = S
  OBVIOUS
<1>. QED
  BY <1>1, <1>2, SumTakeOut

(* The values of a function on a finite set are finite in number.          *)
LEMMA ImageFinite ==
  ASSUME NEW S, IsFiniteSet(S), NEW b
  PROVE  IsFiniteSet({b[i] : i \in S})
<1>. DEFINE T == {b[i] : i \in S}
            onto == [i \in S |-> b[i]]
<1>1. onto \in Surjection(S, T)
  BY DEF Surjection
<1>. HIDE DEF T, onto
<1>. QED
  BY <1>1, FS_Surjection DEF T

(* The same terms under other names.                                       *)
LEMMA SumRenamed ==
  ASSUME NEW f, NEW g, NEW b, NEW S, IsFiniteSet(S),
         \A i, j \in S : b[i] = b[j] => i = j,
         \A i \in S : f[i] \in Int /\ g[b[i]] = f[i]
  PROVE  SumOver(g, {b[i] : i \in S}) = SumOver(f, S)
<1>. DEFINE Image(s) == {b[i] : i \in s}
            Bad == {s \in SUBSET S : SumOver(g, Image(s)) # SumOver(f, s)}
<1>1. SUFFICES ASSUME Bad # {}
               PROVE  FALSE
  OBVIOUS
<1>2. PICK T \in Bad : \A U \in Bad : U \subseteq T => U = T
  <2>. Bad \in SUBSET SUBSET S
    OBVIOUS
  <2>. HIDE DEF Bad
  <2>. QED
    BY <1>1, SmallestSubset
<1>3. IsFiniteSet(T) /\ T \subseteq S
  BY FS_Subset
<1>4. T # {}
  <2>1. CASE T = {}
    <3>1. Image(T) = {} /\ IsFiniteSet(Image(T))
      BY <2>1, FS_EmptySet
    <3>2. SumOver(f, T) = 0 /\ SumOver(g, Image(T)) = 0
      BY <1>3, <2>1, <3>1, SumStep
    <3>. QED
      BY <3>2
  <2>. QED
    BY <2>1
<1>. DEFINE c == Chosen(T)
            V == T \ {c}
<1>5. c \in T
  BY <1>4 DEF Chosen
<1>6. SumOver(f, T) = f[c] + SumOver(f, V)
  BY <1>3, <1>4, SumStep
<1>7. SumOver(g, Image(V)) = SumOver(f, V)
  BY <1>2, <1>5
<1>8. Image(T) = Image(V) \cup {b[c]} /\ b[c] \notin Image(V)
  BY <1>3, <1>5
<1>9. IsFiniteSet(Image(V))
  <2>. DEFINE W == V
  <2>1. IsFiniteSet(W)
    BY <1>3, FS_Subset
  <2>. HIDE DEF W
  <2>2. IsFiniteSet({b[i] : i \in W})
    BY <2>1, ImageFinite
  <2>. QED
    BY <2>2 DEF W
<1>10. \A j \in Image(V) \cup {b[c]} : g[j] \in Int
  BY <1>3, <1>5
<1>11. SumOver(g, Image(T)) = g[b[c]] + SumOver(g, Image(V))
  <2>. DEFINE W == Image(V)
              k == b[c]
  <2>1. IsFiniteSet(W) /\ k \notin W /\ \A j \in W \cup {k} : g[j] \in Int
    BY <1>8, <1>9, <1>10
  <2>. HIDE DEF W, k
  <2>2. SumOver(g, W \cup {k}) = g[k] + SumOver(g, W)
    BY <2>1, SumAdded
  <2>. QED
    BY <1>8, <2>2 DEF W, k
<1>12. g[b[c]] = f[c]
  BY <1>3, <1>5
<1>13. SumOver(g, Image(T)) = SumOver(f, T)
  BY <1>6, <1>7, <1>11, <1>12
<1>. QED
  BY <1>13

(* Term by term.                                                           *)
LEMMA SumLeq ==
  ASSUME NEW f, NEW g, NEW S, IsFiniteSet(S),
         \A i \in S : f[i] \in Int /\ g[i] \in Int /\ f[i] <= g[i]
  PROVE  SumOver(f, S) <= SumOver(g, S)
<1>. DEFINE Bad == {s \in SUBSET S : ~(SumOver(f, s) <= SumOver(g, s))}
<1>1. SUFFICES ASSUME Bad # {}
               PROVE  FALSE
  OBVIOUS
<1>2. PICK T \in Bad : \A U \in Bad : U \subseteq T => U = T
  <2>. Bad \in SUBSET SUBSET S
    OBVIOUS
  <2>. HIDE DEF Bad
  <2>. QED
    BY <1>1, SmallestSubset
<1>3. IsFiniteSet(T)
  BY FS_Subset
<1>4. T # {}
  <2>1. CASE T = {}
    <3>1. SumOver(f, T) = 0 /\ SumOver(g, T) = 0
      BY <1>3, <2>1, SumStep
    <3>. QED
      BY <3>1
  <2>. QED
    BY <2>1
<1>. DEFINE c == Chosen(T)
            V == T \ {c}
<1>5. c \in T
  BY <1>4 DEF Chosen
<1>6. /\ SumOver(f, T) = f[c] + SumOver(f, V)
      /\ SumOver(g, T) = g[c] + SumOver(g, V)
  BY <1>3, <1>4, SumStep
<1>7. SumOver(f, V) <= SumOver(g, V)
  BY <1>2, <1>5
<1>. HIDE DEF c
<1>8. SumOver(f, V) \in Int /\ SumOver(g, V) \in Int
  <2>1. IsFiniteSet(V)
    BY FS_Subset
  <2>. QED
    BY <2>1, SumType
<1>9. f[c] \in Int /\ g[c] \in Int /\ f[c] <= g[c]
  BY <1>5
<1>10. ~(SumOver(f, T) <= SumOver(g, T))
  OBVIOUS
<1>. HIDE DEF Bad, V
<1>. QED
  BY <1>6, <1>7, <1>8, <1>9, <1>10

(* The sum over two sets that have nothing in common.                      *)
LEMMA SumUnion ==
  ASSUME NEW f, NEW S, IsFiniteSet(S), NEW U, IsFiniteSet(U), S \cap U = {},
         \A i \in S \cup U : f[i] \in Int
  PROVE  SumOver(f, S \cup U) = SumOver(f, S) + SumOver(f, U)
<1>. DEFINE Bad == {s \in SUBSET U : SumOver(f, S \cup s) # SumOver(f, S) + SumOver(f, s)}
<1>1. SUFFICES ASSUME Bad # {}
               PROVE  FALSE
  OBVIOUS
<1>2. PICK T \in Bad : \A V \in Bad : V \subseteq T => V = T
  <2>. Bad \in SUBSET SUBSET U
    OBVIOUS
  <2>. HIDE DEF Bad
  <2>. QED
    BY <1>1, SmallestSubset
<1>3. IsFiniteSet(T)
  BY FS_Subset
<1>4. SumOver(f, S) \in Int
  BY SumType
<1>5. T # {}
  <2>1. SumOver(f, {}) = 0
    BY FS_EmptySet, SumStep
  <2>2. SumOver(f, S \cup {}) = SumOver(f, S)
    <3>1. S \cup {} = S
      OBVIOUS
    <3>. QED
      BY <3>1
  <2>3. {} \notin Bad
    BY <1>4, <2>1, <2>2
  <2>. HIDE DEF Bad
  <2>. QED
    BY <1>2, <2>3
<1>6. PICK i \in T : TRUE
  BY <1>5
<1>. DEFINE V == T \ {i}
<1>7. SumOver(f, S \cup V) = SumOver(f, S) + SumOver(f, V)
  BY <1>2, <1>6
<1>8. SumOver(f, S \cup T) = f[i] + SumOver(f, S \cup V)
  <2>1. IsFiniteSet(S \cup T)
    BY <1>3, FS_Union
  <2>2. (S \cup T) \ {i} = S \cup V /\ i \in S \cup T
    BY <1>6
  <2>3. \A j \in S \cup T : f[j] \in Int
    OBVIOUS
  <2>. HIDE DEF V
  <2>. QED
    BY <2>1, <2>2, <2>3, SumTakeOut
<1>9. SumOver(f, T) = f[i] + SumOver(f, V)
  BY <1>3, <1>6, SumTakeOut
<1>10. SumOver(f, V) \in Int
  <2>1. IsFiniteSet(V)
    BY <1>3, FS_Subset
  <2>. QED
    BY <2>1, SumType
<1>11. f[i] \in Int
  BY <1>6
<1>. HIDE DEF V
<1>. QED
  BY <1>2, <1>4, <1>7, <1>8, <1>9, <1>10, <1>11
-----------------------------------------------------------------------------
(* FoldLeft of the community modules is this. *)
Fold(base, ws) ==
  MapThenFoldSet(LAMBDA x, y : Step(y, x), base, LAMBDA i : ws[i], LAMBDA S : Max(S), DOMAIN ws)

(* The function that MapThenFoldSet defines, on the subsets of S.          *)
IsFold(g, base, ws, S) ==
  g = [s \in SUBSET S |-> IF s = {} THEN base ELSE Step(g[s \ {Max(s)}], ws[Max(s)])]

FoldOf(base, ws, S) == CHOOSE g : IsFold(g, base, ws, S)

(* A fold is a value of that function.                                     *)
LEMMA FoldIsFold ==
  ASSUME NEW base, NEW ws
  PROVE  Fold(base, ws) = FoldOf(base, ws, DOMAIN ws)[DOMAIN ws]
BY DEF Fold, MapThenFoldSet, FoldOf, IsFold

(* Indices of a sequence of length n. *)
Part(n, s) == s \in SUBSET (1 .. n)

(* The domain of a sequence, and its subsets, are finite.                  *)
LEMMA PartFinite ==
  ASSUME NEW n \in Nat, NEW s, Part(n, s)
  PROVE  IsFiniteSet(s)
<1>1. IsFiniteSet(1 .. n)
  BY FS_Interval
<1>. QED
  BY <1>1, FS_Subset DEF Part

(* Part of a part is a part.                                               *)
LEMMA PartOfPart ==
  ASSUME NEW n \in Nat, NEW s, Part(n, s), NEW t \in SUBSET s
  PROVE  Part(n, t)
BY DEF Part

(* A set of numbers that are not above n has a greatest.                   *)
LEMMA MaxOfSome ==
  ASSUME NEW n \in Nat, NEW s, Part(n, s), s # {}
  PROVE  Max(s) \in s /\ \A y \in s : Max(s) >= y
<1>. DEFINE Above(T) == {y \in s : \A x \in T : y > x}
            Bad == {T \in SUBSET s : Above(T) = {}}
<1>1. IsFiniteSet(s)
  BY PartFinite
<1>2. s \in Bad
  <2>1. SUFFICES ASSUME NEW y \in s, \A x \in s : y > x
                 PROVE  FALSE
    OBVIOUS
  <2>2. y > y /\ y \in Int
    BY <2>1 DEF Part
  <2>. QED
    BY <2>2
<1>3. PICK T \in Bad : \A U \in Bad : U \subseteq T => U = T
  <2>1. Bad \in SUBSET SUBSET s
    OBVIOUS
  <2>2. Bad # {}
    BY <1>2
  <2>. HIDE DEF Bad
  <2>. QED
    BY <1>1, <2>1, <2>2, SmallestSubset
<1>4. T # {}
  OBVIOUS
<1>5. PICK x \in T : TRUE
  BY <1>4
<1>6. T \ {x} \notin Bad
  BY <1>3, <1>5
<1>7. PICK y \in s : \A z \in T \ {x} : y > z
  BY <1>6
<1>8. x \in s /\ ~ (y > x)
  BY <1>5, <1>7
<1>9. \A z \in T : x >= z
  BY <1>7, <1>8 DEF Part
<1>10. \A y1 \in s : x >= y1
  BY <1>8, <1>9 DEF Part
<1>11. \E m \in s : \A y1 \in s : m >= y1
  BY <1>8, <1>10
<1>. QED
  BY <1>11 DEF Max

(* The function is what it is on a smaller set of subsets ...              *)
LEMMA FoldRestricted ==
  ASSUME NEW base, NEW ws, NEW S, NEW T \in SUBSET S, NEW g, IsFold(g, base, ws, S)
  PROVE  IsFold([s \in SUBSET T |-> g[s]], base, ws, T)
<1>. DEFINE h == [s \in SUBSET T |-> g[s]]
<1>1. \A s \in SUBSET T : s # {} => s \ {Max(s)} \in SUBSET T
  OBVIOUS
<1>2. \A s \in SUBSET T : h[s] = IF s = {} THEN base ELSE Step(h[s \ {Max(s)}], ws[Max(s)])
  BY <1>1 DEF IsFold
<1>3. h = [s \in SUBSET T |-> h[s]]
  OBVIOUS
<1>. HIDE DEF h
<1>4. h = [s \in SUBSET T |-> IF s = {} THEN base ELSE Step(h[s \ {Max(s)}], ws[Max(s)])]
  BY <1>2, <1>3
<1>. QED
  BY <1>4 DEF IsFold, h

(* ... and the only one there.                                             *)
LEMMA FoldUnique ==
  ASSUME NEW base, NEW ws, NEW n \in Nat, NEW S, Part(n, S),
         NEW g, NEW h, IsFold(g, base, ws, S), IsFold(h, base, ws, S)
  PROVE  g = h
<1>. DEFINE Bad == {s \in SUBSET S : g[s] # h[s]}
<1>1. SUFFICES Bad = {}
  <2>1. \A s \in SUBSET S : g[s] = h[s]
    BY <1>1
  <2>2. g = [s \in SUBSET S |-> g[s]] /\ h = [s \in SUBSET S |-> h[s]]
    BY DEF IsFold
  <2>. QED
    BY <2>1, <2>2
<1>2. SUFFICES ASSUME Bad # {}
               PROVE  FALSE
  OBVIOUS
<1>3. PICK T \in Bad : \A U \in Bad : U \subseteq T => U = T
  <2>1. IsFiniteSet(S)
    BY PartFinite
  <2>2. Bad \in SUBSET SUBSET S
    OBVIOUS
  <2>. HIDE DEF Bad
  <2>. QED
    BY <1>2, <2>1, <2>2, SmallestSubset
<1>4. T # {}
  BY DEF IsFold
<1>5. Max(T) \in T
  BY <1>4, PartOfPart, MaxOfSome
<1>6. T \ {Max(T)} \notin Bad
  BY <1>3, <1>5
<1>7. g[T \ {Max(T)}] = h[T \ {Max(T)}]
  BY <1>6
<1>8. /\ g[T] = Step(g[T \ {Max(T)}], ws[Max(T)])
      /\ h[T] = Step(h[T \ {Max(T)}], ws[Max(T)])
  BY <1>4 DEF IsFold
<1>. QED
  BY <1>7, <1>8

(* There is such a function.                                               *)
LEMMA FoldExists ==
  ASSUME NEW base, NEW ws, NEW n \in Nat, NEW S, Part(n, S)
  PROVE  IsFold(FoldOf(base, ws, S), base, ws, S)
<1>. DEFINE Bad == {s \in SUBSET S : ~ \E g : IsFold(g, base, ws, s)}
<1>1. SUFFICES Bad = {}
  <2>1. \E g : IsFold(g, base, ws, S)
    BY <1>1
  <2>. QED
    BY <2>1 DEF FoldOf
<1>2. SUFFICES ASSUME Bad # {}
               PROVE  FALSE
  OBVIOUS
<1>3. PICK T \in Bad : \A U \in Bad : U \subseteq T => U = T
  <2>1. IsFiniteSet(S)
    BY PartFinite
  <2>2. Bad \in SUBSET SUBSET S
    OBVIOUS
  <2>. HIDE DEF Bad
  <2>. QED
    BY <1>2, <2>1, <2>2, SmallestSubset
<1>4. \A U \in SUBSET T : U # T => IsFold(FoldOf(base, ws, U), base, ws, U)
  <2>1. \A U \in SUBSET T : U # T => \E g : IsFold(g, base, ws, U)
    BY <1>3
  <2>. QED
    BY <2>1 DEF FoldOf
<1>. DEFINE val(s) == FoldOf(base, ws, s)[s]
            term(s) == IF s = {} THEN base ELSE Step(val(s \ {Max(s)}), ws[Max(s)])
            G == [s \in SUBSET T |-> term(s)]
<1>5. ASSUME NEW U \in SUBSET T, U # T
      PROVE  val(U) = term(U)
  <2>1. IsFold(FoldOf(base, ws, U), base, ws, U)
    BY <1>4, <1>5
  <2>2. CASE U = {}
    BY <2>1, <2>2 DEF IsFold
  <2>3. CASE U # {}
    <3>. DEFINE V == U \ {Max(U)}
    <3>1. Max(U) \in U
      BY <2>3, PartOfPart, MaxOfSome
    <3>2. val(U) = Step(FoldOf(base, ws, U)[V], ws[Max(U)])
      BY <2>1, <2>3 DEF IsFold
    <3>3. V \in SUBSET T /\ V \in SUBSET U /\ V # T /\ Part(n, V)
      BY <3>1 DEF Part
    <3>4. IsFold([s \in SUBSET V |-> FoldOf(base, ws, U)[s]], base, ws, V)
      BY <2>1, <3>3, FoldRestricted
    <3>5. IsFold(FoldOf(base, ws, V), base, ws, V)
      BY <1>4, <3>3
    <3>6. FoldOf(base, ws, V) = [s \in SUBSET V |-> FoldOf(base, ws, U)[s]]
      BY <3>3, <3>4, <3>5, FoldUnique
    <3>7. FoldOf(base, ws, V)[V] = FoldOf(base, ws, U)[V]
      BY <3>6
    <3>. QED
      BY <2>3, <3>2, <3>7
  <2>. QED
    BY <2>2, <2>3
<1>6. \A s \in SUBSET T : G[s] = IF s = {} THEN base ELSE Step(G[s \ {Max(s)}], ws[Max(s)])
  <2>1. SUFFICES ASSUME NEW s \in SUBSET T, s # {}
                 PROVE  G[s] = Step(G[s \ {Max(s)}], ws[Max(s)])
    OBVIOUS
  <2>2. Max(s) \in s
    BY <2>1, PartOfPart, MaxOfSome
  <2>3. s \ {Max(s)} \in SUBSET T /\ s \ {Max(s)} # T
    BY <2>2
  <2>4. G[s \ {Max(s)}] = val(s \ {Max(s)})
    BY <1>5, <2>3
  <2>. QED
    BY <2>1, <2>4
<1>7. IsFold(G, base, ws, T)
  <2>. G = [s \in SUBSET T |-> G[s]]
    OBVIOUS
  <2>. HIDE DEF G
  <2>. QED
    BY <1>6 DEF IsFold
<1>. QED
  BY <1>3, <1>7

(* The fold of the elements at the indices S. *)
FoldOver(base, ws, S) == FoldOf(base, ws, S)[S]

(* A fold is its base, or a step from the fold without the last element.   *)
LEMMA FoldStep ==
  ASSUME NEW base, NEW ws, NEW n \in Nat, NEW S, Part(n, S)
  PROVE  FoldOver(base, ws, S) = IF S = {} THEN base
                                 ELSE Step(FoldOver(base, ws, S \ {Max(S)}), ws[Max(S)])
<1>1. IsFold(FoldOf(base, ws, S), base, ws, S)
  BY FoldExists
<1>2. CASE S = {}
  BY <1>1, <1>2 DEF IsFold, FoldOver
<1>3. CASE S # {}
  <2>. DEFINE V == S \ {Max(S)}
  <2>1. FoldOver(base, ws, S) = Step(FoldOf(base, ws, S)[V], ws[Max(S)])
    BY <1>1, <1>3 DEF IsFold, FoldOver
  <2>2. Part(n, V) /\ V \in SUBSET S
    BY DEF Part
  <2>3. IsFold(FoldOf(base, ws, V), base, ws, V)
    BY <2>2, FoldExists
  <2>4. IsFold([s \in SUBSET V |-> FoldOf(base, ws, S)[s]], base, ws, V)
    BY <1>1, <2>2, FoldRestricted
  <2>5. FoldOf(base, ws, V) = [s \in SUBSET V |-> FoldOf(base, ws, S)[s]]
    BY <2>2, <2>3, <2>4, FoldUnique
  <2>6. FoldOver(base, ws, V) = FoldOf(base, ws, S)[V]
    BY <2>5 DEF FoldOver
  <2>. QED
    BY <1>3, <2>1, <2>6
<1>. QED
  BY <1>2, <1>3

(* What holds at first and is kept by every step holds at last.            *)
LEMMA FoldGood ==
  ASSUME NEW base, NEW ws, NEW n \in Nat, DOMAIN ws = 1 .. n, Good(base, base),
         \A t : Good(base, t) => \A i \in 1 .. n : Good(base, Step(t, ws[i]))
  PROVE  Good(base, Fold(base, ws))
<1>. DEFINE S == 1 .. n
            Bad == {s \in SUBSET S : ~Good(base, FoldOver(base, ws, s))}
<1>1. Part(n, S)
  BY DEF Part
<1>2. Fold(base, ws) = FoldOver(base, ws, S)
  BY FoldIsFold DEF FoldOver
<1>3. SUFFICES ASSUME Bad # {}
               PROVE  FALSE
  BY <1>2
<1>4. PICK T \in Bad : \A U \in Bad : U \subseteq T => U = T
  <2>1. IsFiniteSet(S)
    BY <1>1, PartFinite
  <2>2. Bad \in SUBSET SUBSET S
    OBVIOUS
  <2>. HIDE DEF Bad, S
  <2>. QED
    BY <1>3, <2>1, <2>2, SmallestSubset
<1>5. Part(n, T)
  BY DEF Part
<1>6. FoldOver(base, ws, T) = IF T = {} THEN base
                              ELSE Step(FoldOver(base, ws, T \ {Max(T)}), ws[Max(T)])
  <2>. HIDE DEF Bad, S
  <2>. QED
    BY <1>5, FoldStep
<1>7. T # {}
  BY <1>6
<1>8. Max(T) \in T /\ Max(T) \in 1 .. n
  BY <1>5, <1>7, MaxOfSome DEF Part
<1>9. T \ {Max(T)} \notin Bad
  BY <1>4, <1>8
<1>10. Good(base, FoldOver(base, ws, T \ {Max(T)}))
  BY <1>9
<1>11. Good(base, Step(FoldOver(base, ws, T \ {Max(T)}), ws[Max(T)]))
  BY <1>8, <1>10
<1>. QED
  BY <1>6, <1>7, <1>11

(* A fold depends on the elements at its indices only.                     *)
LEMMA FoldSame ==
  ASSUME NEW base, NEW ws, NEW vs, NEW n \in Nat, NEW S, Part(n, S),
         \A i \in S : ws[i] = vs[i]
  PROVE  FoldOver(base, ws, S) = FoldOver(base, vs, S)
<1>. DEFINE Bad == {s \in SUBSET S : FoldOver(base, ws, s) # FoldOver(base, vs, s)}
<1>1. SUFFICES ASSUME Bad # {}
               PROVE  FALSE
  OBVIOUS
<1>2. PICK T \in Bad : \A U \in Bad : U \subseteq T => U = T
  <2>1. IsFiniteSet(S)
    BY PartFinite
  <2>2. Bad \in SUBSET SUBSET S
    OBVIOUS
  <2>. HIDE DEF Bad
  <2>. QED
    BY <1>1, <2>1, <2>2, SmallestSubset
<1>3. Part(n, T)
  BY PartOfPart
<1>. DEFINE V == T \ {Max(T)}
<1>4. /\ FoldOver(base, ws, T) = IF T = {} THEN base
                                 ELSE Step(FoldOver(base, ws, V), ws[Max(T)])
      /\ FoldOver(base, vs, T) = IF T = {} THEN base
                                 ELSE Step(FoldOver(base, vs, V), vs[Max(T)])
  BY <1>3, FoldStep
<1>5. T # {}
  BY <1>4
<1>6. Max(T) \in T
  BY <1>3, <1>5, MaxOfSome
<1>7. V \notin Bad
  BY <1>2, <1>6
<1>8. FoldOver(base, ws, V) = FoldOver(base, vs, V) /\ ws[Max(T)] = vs[Max(T)]
  BY <1>6, <1>7
<1>. QED
  BY <1>4, <1>8

(* The fold of nothing is its base, and one more element is one more step. *)
LEMMA FoldEmpty ==
  ASSUME NEW base, NEW ws, DOMAIN ws = {}
  PROVE  Fold(base, ws) = base
<1>1. Part(0, {})
  BY DEF Part
<1>. QED
  BY <1>1, FoldIsFold, FoldStep DEF FoldOver

(* One more element is one more step, after all others.                    *)
LEMMA FoldAppend ==
  ASSUME NEW base, NEW T, NEW ws \in Seq(T), NEW e \in T
  PROVE  Fold(base, Append(ws, e)) = Step(Fold(base, ws), e)
<1>. DEFINE n == Len(ws) + 1
            vs == Append(ws, e)
<1>1. /\ n \in Nat /\ Len(ws) \in Nat
      /\ DOMAIN ws = 1 .. Len(ws) /\ DOMAIN vs = 1 .. n
      /\ vs[n] = e
      /\ \A i \in 1 .. Len(ws) : vs[i] = ws[i]
  OBVIOUS
<1>. HIDE DEF vs
<1>2. Part(n, 1 .. n) /\ Part(n, 1 .. Len(ws)) /\ 1 .. n # {}
  BY <1>1 DEF Part
<1>3. (1 .. n) \ {n} = 1 .. Len(ws)
  BY <1>1
<1>4. Max(1 .. n) = n
  <2>1. Max(1 .. n) \in 1 .. n /\ \A y \in 1 .. n : Max(1 .. n) >= y
    BY <1>1, <1>2, MaxOfSome
  <2>2. n \in 1 .. n
    BY <1>1
  <2>. QED
    BY <1>1, <2>1, <2>2
<1>5. FoldOver(base, vs, 1 .. n) = Step(FoldOver(base, vs, 1 .. Len(ws)), e)
  <2>. DEFINE R == 1 .. n
  <2>1. FoldOver(base, vs, R) = IF R = {} THEN base
                                ELSE Step(FoldOver(base, vs, R \ {Max(R)}), vs[Max(R)])
    <3>1. Part(n, R)
      BY <1>2
    <3>. HIDE DEF R
    <3>. QED
      BY <1>1, <3>1, FoldStep
  <2>. QED
    BY <1>1, <1>2, <1>3, <1>4, <2>1
<1>6. FoldOver(base, vs, 1 .. Len(ws)) = FoldOver(base, ws, 1 .. Len(ws))
  BY <1>1, <1>2, FoldSame
<1>7. /\ Fold(base, vs) = FoldOver(base, vs, 1 .. n)
      /\ Fold(base, ws) = FoldOver(base, ws, 1 .. Len(ws))
  BY <1>1, FoldIsFold DEF FoldOver
<1>. QED
  BY <1>5, <1>6, <1>7 DEF vs

(* The fold is its value after all elements; after none it is the base,    *)
(* and after one more a step from what it was.                             *)
LEMMA FoldWhole ==
  ASSUME NEW base, NEW ws, NEW n, DOMAIN ws = 1 .. n
  PROVE  Fold(base, ws) = FoldOver(base, ws, 1 .. n) /\ FoldOver(base, ws, 1 .. 0) = base
<1>1. Fold(base, ws) = FoldOver(base, ws, 1 .. n)
  BY FoldIsFold DEF FoldOver
<1>2. Part(0, 1 .. 0) /\ 1 .. 0 = {}
  BY DEF Part
<1>. QED
  BY <1>1, <1>2, FoldStep

LEMMA FoldNext ==
  ASSUME NEW base, NEW ws, NEW k \in Nat
  PROVE  FoldOver(base, ws, 1 .. k + 1) = Step(FoldOver(base, ws, 1 .. k), ws[k + 1])
<1>. DEFINE n == k + 1
            R == 1 .. n
<1>1. n \in Nat /\ Part(n, R) /\ R # {} /\ R \ {n} = 1 .. k
  BY DEF Part
<1>2. Max(R) = n
  <2>1. Max(R) \in R /\ \A y \in R : Max(R) >= y
    <3>. HIDE DEF R, n
    <3>. QED
      BY <1>1, MaxOfSome
  <2>. QED
    BY <2>1
<1>3. FoldOver(base, ws, R) = IF R = {} THEN base
                              ELSE Step(FoldOver(base, ws, R \ {Max(R)}), ws[Max(R)])
  <2>. HIDE DEF R, n
  <2>. QED
    BY <1>1, FoldStep
<1>. QED
  BY <1>1, <1>2, <1>3
=============================================================================
