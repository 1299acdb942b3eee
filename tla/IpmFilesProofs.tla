--------------------------- MODULE IpmFilesProofs ---------------------------
(***************************************************************************)
(* What the program files counts is right, and what it prints as far as    *)
(* its conversions write it, for every directory, every size of the table, *)
(* every hash of the types and every command line: the table (TableExact), *)
(* the lines of the report (OrderRight) and its heading (TotalsRight).     *)
(*                                                                         *)
(* The table: each type was put where its probing stopped, and slots are   *)
(* never given up, so probing for it stops there again (Reached, OneSlot); *)
(* each slot in use describes the files of its type that were counted      *)
(* (Describes).  The totals are a fold over the slots (TotalsOfAll), the   *)
(* orders a sort by exchanges of the slots in use (SortedRight).  The      *)
(* conversions are right to half a tenth of the unit they choose           *)
(* (TenthsNear, BytesSaid, AgeSaid), and each line has the figures of its  *)
(* own slot although the buffers are shared (TextSays, XmlSays).           *)
(***************************************************************************)
EXTENDS IpmFiles, TLAPS, FiniteSetTheorems, SequenceTheorems, WellFoundedInduction

(* The options of a command line ask for one report at most.               *)
OneReport(o) ==
  /\ DOMAIN o = {"flags", "users", "groups"}
  /\ ~("REPORT_TXT" \in o.flags /\ "REPORT_XML" \in o.flags)

OneReportStill(o, p) == OneReport(p)

(* Of the folds of the other passes every step is followed (FoldNext), and *)
(* no property of all values is needed.                                    *)
AnyValue(b, x) == TRUE

(* The folds: over the options, of the totals, of the slots in use, and of *)
(* the two loops of the sort.                                              *)
INSTANCE FoldTheorems WITH Step <- WithOption, Good <- OneReportStill
AddFold      == INSTANCE FoldTheorems WITH Step <- AddSlot, Good <- AnyValue
PutFold      == INSTANCE FoldTheorems WITH Step <- PutSlot, Good <- AnyValue
ExchangeFold == INSTANCE FoldTheorems WITH Step <- Exchange, Good <- AnyValue
SettleFold   == INSTANCE FoldTheorems WITH Step <- Settle, Good <- AnyValue

(* Whatever the options are, they ask for one report at most.              *)
LEMMA OptionsSound ==
  ASSUME NEW command \in Commands
  PROVE  OneReport(Options(command))
<1>. DEFINE base == [flags  |-> {"byte", "REPORT_TXT"},
                     users  |-> [given |-> FALSE, ids |-> {}],
                     groups |-> [given |-> FALSE, ids |-> {}]]
<1>1. Options(command) = Fold(base, command)
  BY Zenon DEF Options, Fold, FoldLeft, MapThenFoldSet, Max
<1>2. OneReport(base)
  BY DEF OneReport
<1>3. ASSUME NEW o, OneReport(o), NEW arg
      PROVE  OneReport(WithOption(o, arg))
  BY <1>3 DEF OneReport, WithOption, Fields
<1>4. Len(command) \in Nat /\ DOMAIN command = 1 .. Len(command)
  BY FilesAssumption
<1>. HIDE DEF base
<1>. QED
  BY <1>1, <1>2, <1>3, <1>4, FoldGood DEF OneReportStill
-----------------------------------------------------------------------------
(* The numbers of a file are integers.                                     *)
LEMMA FileValues ==
  ASSUME NEW f \in Files, NEW m \in Measures
  PROVE  f[m] \in Int
BY FilesAssumption DEF Measures

(* A measure as a function of the files.                                   *)
Values(m) == [f \in Files |-> f[m]]

(* The sum as the one the theorems are about.                              *)
LEMMA SumWritten ==
  ASSUME NEW S \in SUBSET Files, NEW m
  PROVE  Sum(S, m) = SumOver(Values(m), S)
<1>. DEFINE v == Values(m)
            Adds(g) == g = [s \in SUBSET S |-> IF s = {} THEN 0 ELSE Chosen(s)[m] + g[s \ {Chosen(s)}]]
<1>1. ASSUME NEW g
      PROVE  Adds(g) <=> IsIter(g, v, S)
  <2>1. \A s \in SUBSET S : s # {} => v[Chosen(s)] = Chosen(s)[m]
    BY DEF Chosen, Values
  <2>. HIDE DEF v
  <2>. QED
    BY <2>1 DEF IsIter
<1>2. Sum(S, m) = (CHOOSE g : Adds(g))[S]
  BY DEF Sum, MapThenSumSet, MapThenFoldSet, Chosen
<1>. HIDE DEF Adds, v
<1>3. (CHOOSE g : Adds(g)) = IterOf(v, S)
  BY Zenon, <1>1 DEF IterOf
<1>. QED
  BY Zenon, <1>2, <1>3, SumIsIter DEF v

(* Sums of nothing, of one file more and of files of two kinds.            *)
LEMMA SumOfFiles ==
  ASSUME NEW S \in SUBSET Files, NEW m \in Measures
  PROVE  /\ Sum(S, m) \in Int
         /\ Sum({}, m) = 0
         /\ \A f \in Files \ S : Sum(S \cup {f}, m) = f[m] + Sum(S, m)
         /\ \A U \in SUBSET (Files \ S) : Sum(S \cup U, m) = Sum(S, m) + Sum(U, m)
<1>1. \A f \in Files : Values(m)[f] = f[m] /\ Values(m)[f] \in Int
  BY FileValues DEF Values
<1>2. \A U \in SUBSET Files : IsFiniteSet(U)
  BY FilesAssumption, FS_Subset
<1>3. \A U \in SUBSET Files : Sum(U, m) = SumOver(Values(m), U)
  BY SumWritten
<1>4. Sum(S, m) \in Int
  BY <1>1, <1>2, <1>3, SumType
<1>5. Sum({}, m) = 0
  BY <1>2, <1>3, SumStep
<1>6. ASSUME NEW f \in Files \ S
      PROVE  Sum(S \cup {f}, m) = f[m] + Sum(S, m)
  BY <1>1, <1>2, <1>3, SumAdded
<1>7. ASSUME NEW U \in SUBSET (Files \ S)
      PROVE  Sum(S \cup U, m) = Sum(S, m) + Sum(U, m)
  BY <1>1, <1>2, <1>3, SumUnion
<1>. QED
  BY <1>4, <1>5, <1>6, <1>7

(* The types and the names of the files, and what a slot may hold.         *)
Types == {TypeOf(f) : f \in Files}
Names == {f.name : f \in Files}
Entry == [desc : Types \cup {""}, nfile : Nat,
          sum : [Measures -> Int], min : [Measures -> Int], max : [Measures -> Int],
          minf : [Measures -> Names \cup {""}], maxf : [Measures -> Names \cup {""}]]

(* A slot of the table tells of the files S.                               *)
Describes(e, S) ==
  /\ S # {}
  /\ e.nfile = Cardinality(S)
  /\ \A m \in Measures :
       /\ e.sum[m] = Sum(S, m)
       /\ \A f \in S : e.min[m] <= f[m] /\ f[m] <= e.max[m]
       /\ \E f \in S : f[m] = e.min[m] /\ (m # "block" => f.name = e.minf[m])
       /\ \E f \in S : f[m] = e.max[m] /\ (m # "block" => f.name = e.maxf[m])

(* The first file of a type ...                                            *)
LEMMA FirstDescribes ==
  ASSUME NEW f \in Files
  PROVE  FirstFile(f) \in Entry /\ FirstFile(f).desc = TypeOf(f) /\ Describes(FirstFile(f), {f})
<1>. DEFINE e == FirstFile(f)
<1>1. \A m \in Measures : f[m] \in Int
  BY FileValues
<1>2. f.name \in Names /\ TypeOf(f) \in Types
  BY DEF Names, Types
<1>3. e \in Entry /\ e.desc = TypeOf(f)
  BY <1>1, <1>2 DEF FirstFile, Entry
<1>4. /\ e.nfile = 1
      /\ \A m \in Measures : /\ e.sum[m] = f[m] /\ e.min[m] = f[m] /\ e.max[m] = f[m]
                             /\ m # "block" => e.minf[m] = f.name /\ e.maxf[m] = f.name
  BY DEF FirstFile
<1>5. \A m \in Measures : Sum({f}, m) = f[m]
  <2>1. SUFFICES ASSUME NEW m \in Measures
                 PROVE  Sum({f}, m) = f[m]
    OBVIOUS
  <2>2. Sum({} \cup {f}, m) = f[m] + Sum({}, m) /\ Sum({}, m) = 0
    BY SumOfFiles
  <2>3. {} \cup {f} = {f}
    OBVIOUS
  <2>. QED
    BY <1>1, <2>2, <2>3
<1>6. Cardinality({f}) = 1
  BY FS_Singleton
<1>. HIDE DEF e
<1>7. ASSUME NEW m \in Measures
      PROVE  /\ e.sum[m] = Sum({f}, m)
             /\ \A g \in {f} : e.min[m] <= g[m] /\ g[m] <= e.max[m]
             /\ \E g \in {f} : g[m] = e.min[m] /\ (m # "block" => g.name = e.minf[m])
             /\ \E g \in {f} : g[m] = e.max[m] /\ (m # "block" => g.name = e.maxf[m])
  <2>1. f[m] \in Int /\ e.min[m] = f[m] /\ e.max[m] = f[m]
    BY <1>1, <1>4
  <2>2. e.sum[m] = Sum({f}, m)
    BY <1>4, <1>5
  <2>3. f[m] <= f[m]
    BY <2>1
  <2>. QED
    BY <1>4, <2>1, <2>2, <2>3
<1>8. Describes(e, {f})
  BY <1>4, <1>6, <1>7 DEF Describes
<1>. QED
  BY <1>3, <1>8 DEF e

(* ... and one file more.                                                  *)
LEMMA MoreDescribes ==
  ASSUME NEW e \in Entry, NEW S \in SUBSET Files, Describes(e, S), NEW f \in Files \ S
  PROVE  /\ OneFileMore(e, f) \in Entry /\ OneFileMore(e, f).desc = e.desc
         /\ Describes(OneFileMore(e, f), S \cup {f})
<1>. DEFINE o == OneFileMore(e, f)
<1>1. \A m \in Measures : f[m] \in Int /\ Sum(S, m) \in Int
  BY FileValues, SumOfFiles
<1>2. f.name \in Names /\ \A g \in S : \A m \in Measures : g[m] \in Int
  BY FileValues DEF Names
<1>3. o \in Entry /\ o.desc = e.desc
  <2>. DEFINE sum == [m \in Measures |-> e.sum[m] + f[m]]
              min == [m \in Measures |-> IF f[m] < e.min[m] THEN f[m] ELSE e.min[m]]
              max == [m \in Measures |-> IF f[m] > e.max[m] THEN f[m] ELSE e.max[m]]
              minf == [m \in Measures |-> IF f[m] < e.min[m] THEN f.name ELSE e.minf[m]]
              maxf == [m \in Measures |-> IF f[m] > e.max[m] THEN f.name ELSE e.maxf[m]]
  <2>. HIDE DEF sum, min, max, minf, maxf, o
  <2>1. /\ e.sum \in [Measures -> Int] /\ e.min \in [Measures -> Int]
        /\ e.max \in [Measures -> Int] /\ e.minf \in [Measures -> Names \cup {""}]
        /\ e.maxf \in [Measures -> Names \cup {""}] /\ e.desc \in Types \cup {""}
        /\ e.nfile \in Nat
    BY DEF Entry
  <2>2. ASSUME NEW m \in Measures
        PROVE  /\ sum[m] \in Int /\ min[m] \in Int /\ max[m] \in Int
               /\ minf[m] \in Names \cup {""} /\ maxf[m] \in Names \cup {""}
    <3>1. e.sum[m] \in Int /\ e.min[m] \in Int /\ e.max[m] \in Int
      BY <2>1
    <3>2. e.minf[m] \in Names \cup {""} /\ e.maxf[m] \in Names \cup {""}
      BY <2>1
    <3>3. f[m] \in Int /\ f.name \in Names
      BY <1>1, <1>2
    <3>4. sum[m] \in Int
      BY <3>1, <3>3 DEF sum
    <3>5. min[m] \in Int /\ max[m] \in Int
      BY <3>1, <3>3 DEF min, max
    <3>. QED
      BY <3>2, <3>3, <3>4, <3>5 DEF minf, maxf
  <2>3. /\ sum \in [Measures -> Int] /\ min \in [Measures -> Int] /\ max \in [Measures -> Int]
        /\ minf \in [Measures -> Names \cup {""}] /\ maxf \in [Measures -> Names \cup {""}]
    BY <2>2 DEF sum, min, max, minf, maxf
  <2>4. o = [desc |-> e.desc, nfile |-> e.nfile + 1, sum |-> sum, min |-> min, max |-> max,
             minf |-> minf, maxf |-> maxf]
    <3>1. o = [e EXCEPT !.nfile = e.nfile + 1, !.sum = sum, !.min = min, !.max = max,
                        !.minf = minf, !.maxf = maxf]
      BY DEF OneFileMore, sum, min, max, minf, maxf, o
    <3>. QED
      BY <3>1 DEF Entry
  <2>5. e.nfile + 1 \in Nat
    <3>1. e.nfile \in Nat
      BY <2>1
    <3>. QED
      BY <3>1
  <2>6. o \in Entry
    BY Zenon, <2>1, <2>3, <2>4, <2>5 DEF Entry
  <2>. QED
    BY <2>4, <2>6
<1>4. /\ o.nfile = e.nfile + 1
      /\ \A m \in Measures :
           /\ o.sum[m] = e.sum[m] + f[m]
           /\ o.min[m] = IF f[m] < e.min[m] THEN f[m] ELSE e.min[m]
           /\ o.max[m] = IF f[m] > e.max[m] THEN f[m] ELSE e.max[m]
           /\ o.minf[m] = IF f[m] < e.min[m] THEN f.name ELSE e.minf[m]
           /\ o.maxf[m] = IF f[m] > e.max[m] THEN f.name ELSE e.maxf[m]
  BY DEF OneFileMore, Entry
<1>5. Cardinality(S \cup {f}) = Cardinality(S) + 1
  BY FilesAssumption, FS_Subset, FS_AddElement
<1>6. \A m \in Measures : Sum(S \cup {f}, m) = f[m] + Sum(S, m)
  BY SumOfFiles
<1>7. \A m \in Measures : e.min[m] \in Int /\ e.max[m] \in Int
  BY DEF Entry
<1>. HIDE DEF o
<1>8. o.nfile = Cardinality(S \cup {f}) /\ S \cup {f} # {}
  BY <1>4, <1>5 DEF Describes
<1>9. ASSUME NEW m \in Measures
      PROVE  /\ o.sum[m] = Sum(S \cup {f}, m)
             /\ \A g \in S \cup {f} : o.min[m] <= g[m] /\ g[m] <= o.max[m]
             /\ \E g \in S \cup {f} : g[m] = o.min[m] /\ (m # "block" => g.name = o.minf[m])
             /\ \E g \in S \cup {f} : g[m] = o.max[m] /\ (m # "block" => g.name = o.maxf[m])
  <2>1. o.sum[m] = Sum(S \cup {f}, m)
    <3>1. e.sum[m] = Sum(S, m)
      BY DEF Describes
    <3>2. o.sum[m] = e.sum[m] + f[m] /\ Sum(S \cup {f}, m) = f[m] + Sum(S, m)
      BY <1>4, <1>6
    <3>3. f[m] \in Int /\ Sum(S, m) \in Int
      BY <1>1
    <3>. QED
      BY <3>1, <3>2, <3>3
  <2>2. \A g \in S \cup {f} : o.min[m] <= g[m] /\ g[m] <= o.max[m]
    BY <1>1, <1>2, <1>4, <1>7 DEF Describes
  <2>3. \E g \in S \cup {f} : g[m] = o.min[m] /\ (m # "block" => g.name = o.minf[m])
    BY <1>4 DEF Describes
  <2>4. \E g \in S \cup {f} : g[m] = o.max[m] /\ (m # "block" => g.name = o.maxf[m])
    BY <1>4 DEF Describes
  <2>. QED
    BY <2>1, <2>2, <2>3, <2>4
<1>. QED
  BY <1>3, <1>8, <1>9 DEF Describes, o
-----------------------------------------------------------------------------
(* Every probe is inside the table.                                       *)
LEMMA ProbeType ==
  ASSUME NEW d, HashOf[d] \in Nat, NEW n \in Nat
  PROVE  Probe(d, n) \in Slots
<1>1. HashOf[d] + n \in Int /\ ftypes_max \in Nat /\ ftypes_max > 0
  BY FilesAssumption
<1>2. (HashOf[d] + n) % ftypes_max \in 0 .. ftypes_max - 1
  BY <1>1
<1>. QED
  BY <1>2 DEF Probe, Slots

(* The type of slot k was put where its probing stopped: all slots probed  *)
(* before it are in use, by other types.                                   *)
Reached(d, k) ==
  \E n \in 0 .. ftypes_max - 2 :
    /\ Probe(d, n) = k
    /\ \A m \in 0 .. n - 1 : t[Probe(d, m)].nfile # 0 /\ t[Probe(d, m)].desc # d

(* What the table, the files counted and the last type have to do with     *)
(* each other.                                                             *)
TableInv ==
  /\ t \in [Slots -> Entry]
  /\ counted \in SUBSET Files /\ rest \in SUBSET Files /\ counted \cap rest = {}
  /\ \A k \in Used : t[k].desc \in Types /\ Reached(t[k].desc, k)
  /\ \A k \in Used : Describes(t[k], OfType(t[k].desc))
  /\ \A f \in counted : \E k \in Used : t[k].desc = TypeOf(f)
  /\ last.desc # "NULL" => last.key \in Used /\ t[last.key].desc = last.desc

(* The hash of a type is a number, and no type is the one ftype_last       *)
(* begins with.                                                            *)
LEMMA TypesFine ==
  ASSUME NEW d \in Types
  PROVE  HashOf[d] \in Nat /\ d # "NULL"
BY TypesAssumption DEF Types

(* No type has two slots.                                                  *)
LEMMA OneSlot ==
  ASSUME TableInv, NEW j \in Used, NEW k \in Used, t[j].desc = t[k].desc
  PROVE  j = k
<1>. DEFINE d == t[j].desc
<1>1. Reached(d, j) /\ Reached(d, k)
  BY DEF TableInv
<1>2. PICK n \in 0 .. ftypes_max - 2 :
        /\ Probe(d, n) = j
        /\ \A i \in 0 .. n - 1 : t[Probe(d, i)].nfile # 0 /\ t[Probe(d, i)].desc # d
  BY <1>1 DEF Reached
<1>3. PICK m \in 0 .. ftypes_max - 2 :
        /\ Probe(d, m) = k
        /\ \A i \in 0 .. m - 1 : t[Probe(d, i)].nfile # 0 /\ t[Probe(d, i)].desc # d
  BY <1>1 DEF Reached
<1>4. t[Probe(d, n)].desc = d /\ t[Probe(d, m)].desc = d
  BY <1>2, <1>3
<1>. HIDE DEF d
<1>5. ~ (n \in 0 .. m - 1) /\ ~ (m \in 0 .. n - 1)
  BY <1>2, <1>3, <1>4
<1>6. n = m
  BY <1>5, FilesAssumption
<1>. QED
  BY <1>2, <1>3, <1>6

(* The search stops at the first slot that is free or has the type.        *)
LEMMA FirstStop ==
  ASSUME NEW d, HashOf[d] \in Nat, d # last.desc, KeyOf(d) # -1
  PROVE  \E n \in 0 .. ftypes_max - 2 :
           /\ KeyOf(d) = Probe(d, n) /\ Stops(d, Probe(d, n))
           /\ \A m \in 0 .. n - 1 : ~Stops(d, Probe(d, m))
<1>. DEFINE stops == {n \in 0 .. ftypes_max - 2 : Stops(d, Probe(d, n))}
            b == ftypes_max - 2
<1>1. KeyOf(d) = IF stops = {} THEN -1 ELSE Probe(d, Min(stops))
  BY DEF KeyOf
<1>2. stops # {} /\ stops \in SUBSET (0 .. b) /\ b \in Nat
  BY <1>1, FilesAssumption
<1>3. \E x \in stops : \A y \in stops : x <= y
  <2>. HIDE DEF stops, b
  <2>. QED
    BY <1>2, LeastNatural
<1>4. Min(stops) \in stops /\ \A y \in stops : Min(stops) <= y
  <2>. HIDE DEF stops
  <2>. QED
    BY <1>3 DEF Min
<1>. DEFINE n == Min(stops)
<1>5. n \in 0 .. ftypes_max - 2 /\ Stops(d, Probe(d, n))
  BY <1>4
<1>6. \A m \in 0 .. n - 1 : ~Stops(d, Probe(d, m))
  <2>1. SUFFICES ASSUME NEW m \in 0 .. n - 1, Stops(d, Probe(d, m))
                 PROVE  FALSE
    OBVIOUS
  <2>2. m \in 0 .. ftypes_max - 2
    <3>. HIDE DEF n
    <3>. QED
      BY <1>5, FilesAssumption
  <2>3. m \in stops
    BY <2>1, <2>2
  <2>4. n <= m
    BY <1>4, <2>3
  <2>. HIDE DEF n
  <2>. QED
    BY <1>5, <2>2, <2>4
<1>7. KeyOf(d) = Probe(d, n)
  BY <1>1, <1>2
<1>. QED
  BY <1>5, <1>6, <1>7

(* The slot found is that of the type, if it has one, and a free one that  *)
(* its probing reaches first, if not.                                      *)
LEMMA KeyFound ==
  ASSUME TableInv, NEW d \in Types, KeyOf(d) # -1
  PROVE  /\ KeyOf(d) \in Slots /\ Reached(d, KeyOf(d))
         /\ IF KeyOf(d) \in Used THEN t[KeyOf(d)].desc = d
            ELSE \A k \in Used : t[k].desc # d
<1>. DEFINE key == KeyOf(d)
<1>1. HashOf[d] \in Nat /\ d # "NULL"
  BY TypesFine
<1>2. CASE d = last.desc
  <2>1. key = last.key
    BY <1>2 DEF KeyOf
  <2>2. key \in Used /\ t[key].desc = d
    BY <1>1, <1>2, <2>1 DEF TableInv
  <2>3. Reached(d, key)
    BY <2>2 DEF TableInv
  <2>. HIDE DEF key
  <2>. QED
    BY <2>2, <2>3 DEF Used, key
<1>3. CASE d # last.desc
  <2>1. PICK n \in 0 .. ftypes_max - 2 :
          /\ key = Probe(d, n) /\ Stops(d, Probe(d, n))
          /\ \A m \in 0 .. n - 1 : ~Stops(d, Probe(d, m))
    BY <1>1, <1>3, FirstStop
  <2>. HIDE DEF key
  <2>2. key \in Slots
    BY <1>1, <2>1, ProbeType
  <2>3. \A k \in Slots : t[k].nfile \in Nat
    BY DEF TableInv, Entry
  <2>4. Reached(d, key)
    BY <2>1 DEF Reached, Stops
  <2>5. key \in Used => t[key].desc = d
    BY <2>1, <2>3 DEF Stops, Used
  <2>6. ASSUME key \notin Used, NEW k \in Used, t[k].desc = d
        PROVE  FALSE
    <3>1. PICK m \in 0 .. ftypes_max - 2 :
            /\ Probe(d, m) = k
            /\ \A i \in 0 .. m - 1 : t[Probe(d, i)].nfile # 0 /\ t[Probe(d, i)].desc # d
      BY <2>6 DEF TableInv, Reached
    <3>2. Stops(d, Probe(d, m))
      BY <2>6, <3>1 DEF Stops
    <3>3. ~ (m \in 0 .. n - 1)
      BY <2>1, <3>2
    <3>4. t[key].nfile = 0
      BY <2>2, <2>3, <2>6 DEF Used
    <3>5. ~ (n \in 0 .. m - 1)
      BY <2>1, <3>1, <3>4
    <3>6. n = m
      BY <3>3, <3>5, FilesAssumption
    <3>. QED
      BY <2>1, <2>6, <3>1, <3>6
  <2>. QED
    BY <2>2, <2>4, <2>5, <2>6 DEF key
<1>. QED
  BY <1>2, <1>3
-----------------------------------------------------------------------------
(* A file counted: the table is right about it too.                        *)
LEMMA CountKeepsTable ==
  ASSUME TableInv, NEW f \in Files, Count(f)
  PROVE  TableInv'
<1>. DEFINE d == TypeOf(f)
            key == KeyOf(d)
            e == IF t[key].nfile = 0 THEN FirstFile(f) ELSE OneFileMore(t[key], f)
<1>1. /\ f \in rest /\ rest' = rest \ {f} /\ key # -1
      /\ t' = [t EXCEPT ![key] = e]
      /\ last' = [desc |-> d, key |-> key]
      /\ counted' = counted \cup {f}
  BY DEF Count, Walked
<1>2. d \in Types /\ f \notin counted
  BY <1>1 DEF Types, TableInv
<1>3. /\ key \in Slots /\ Reached(d, key)
      /\ IF key \in Used THEN t[key].desc = d ELSE \A k \in Used : t[k].desc # d
  BY <1>1, <1>2, KeyFound
<1>4. \A k \in Slots : t[k] \in Entry /\ t[k].nfile \in Nat
  BY DEF TableInv, Entry
<1>5. t[key].nfile = 0 <=> key \notin Used
  BY <1>3, <1>4 DEF Used
<1>6. \A c : OfType(c)' = IF c = d THEN OfType(c) \cup {f} ELSE OfType(c)
  BY <1>1 DEF OfType
<1>7. \A c : OfType(c) \in SUBSET Files /\ f \notin OfType(c)
  BY <1>2 DEF OfType, TableInv
<1>8. e \in Entry /\ e.desc = d /\ Describes(e, OfType(d) \cup {f})
  <2>1. CASE key \in Used
    <3>1. Describes(t[key], OfType(d)) /\ t[key].desc = d
      BY <1>3, <2>1 DEF TableInv
    <3>2. e = OneFileMore(t[key], f)
      BY <1>5, <2>1
    <3>3. f \in Files \ OfType(d)
      BY <1>7
    <3>. HIDE DEF e, d, key
    <3>. QED
      BY <1>3, <1>4, <1>7, <3>1, <3>2, <3>3, MoreDescribes
  <2>2. CASE key \notin Used
    <3>1. e = FirstFile(f)
      BY <1>5, <2>2
    <3>2. OfType(d) = {}
      BY <1>3, <2>2 DEF TableInv, OfType
    <3>. QED
      BY <3>1, <3>2, FirstDescribes
  <2>. QED
    BY <2>1, <2>2
<1>9. e.nfile \in Nat /\ e.nfile > 0
  <2>1. IsFiniteSet(OfType(d) \cup {f})
    BY <1>7, FilesAssumption, FS_Subset, FS_AddElement
  <2>2. Cardinality(OfType(d) \cup {f}) # 0
    BY <2>1, FS_EmptySet
  <2>3. e.nfile = Cardinality(OfType(d) \cup {f})
    BY <1>8 DEF Describes
  <2>4. Cardinality(OfType(d) \cup {f}) \in Nat
    BY <2>1, FS_CardinalityType
  <2>. HIDE DEF e, d
  <2>. QED
    BY <2>2, <2>3, <2>4
<1>. HIDE DEF e, d, key
<1>10. /\ t' \in [Slots -> Entry]
       /\ t'[key] = e
       /\ \A k \in Slots : k # key => t'[k] = t[k]
  BY <1>1, <1>3, <1>8 DEF TableInv
<1>11. Used' = Used \cup {key}
  BY <1>3, <1>4, <1>9, <1>10 DEF Used
<1>. DEFINE NowReached(c, k) ==
              \E n \in 0 .. ftypes_max - 2 :
                /\ Probe(c, n) = k
                /\ \A m \in 0 .. n - 1 : t'[Probe(c, m)].nfile # 0 /\ t'[Probe(c, m)].desc # c
<1>12. ASSUME NEW c \in Types, NEW k, Reached(c, k)
       PROVE  NowReached(c, k)
  <2>1. PICK n \in 0 .. ftypes_max - 2 :
          /\ Probe(c, n) = k
          /\ \A m \in 0 .. n - 1 : t[Probe(c, m)].nfile # 0 /\ t[Probe(c, m)].desc # c
    BY <1>12 DEF Reached
  <2>2. ASSUME NEW m \in 0 .. n - 1
        PROVE  t'[Probe(c, m)].nfile # 0 /\ t'[Probe(c, m)].desc # c
    <3>1. Probe(c, m) \in Slots
      BY TypesFine, ProbeType
    <3>2. CASE Probe(c, m) = key
      <4>1. key \in Used /\ t[key].desc # c
        BY <1>3, <1>5, <2>1, <3>2
      <4>. QED
        BY <1>3, <1>8, <1>9, <1>10, <3>2, <4>1
    <3>3. CASE Probe(c, m) # key
      BY <1>10, <2>1, <3>1, <3>3
    <3>. QED
      BY <3>2, <3>3
  <2>. QED
    BY <2>1, <2>2
<1>. HIDE DEF NowReached
<1>13. ASSUME NEW k \in Used'
       PROVE  /\ t'[k].desc \in Types /\ NowReached(t'[k].desc, k)
              /\ Describes(t'[k], OfType(t[k].desc)')
  <2>1. CASE k = key
    <3>1. t'[k].desc = d /\ t'[k] = e
      BY <1>8, <1>10, <2>1
    <3>2. NowReached(d, k)
      BY <1>2, <1>3, <1>12, <2>1
    <3>3. OfType(t[k].desc)' = OfType(d) \cup {f}
      BY <1>1, <3>1 DEF OfType, d
    <3>. QED
      BY <1>2, <1>8, <3>1, <3>2, <3>3
  <2>2. CASE k # key
    <3>1. k \in Used /\ t'[k] = t[k]
      BY <1>10, <1>11, <2>2 DEF Used
    <3>2. t[k].desc \in Types /\ Reached(t[k].desc, k) /\ Describes(t[k], OfType(t[k].desc))
      BY <3>1 DEF TableInv
    <3>3. t[k].desc # d
      BY <1>3, <2>2, <3>1, OneSlot
    <3>4. NowReached(t[k].desc, k)
      BY <1>12, <3>2
    <3>5. OfType(t[k].desc)' = OfType(t[k].desc)
      BY <1>1, <3>1, <3>3 DEF OfType, d
    <3>. QED
      BY <3>1, <3>2, <3>4, <3>5
  <2>. QED
    BY <2>1, <2>2
<1>14. ASSUME NEW g \in counted'
       PROVE  \E k \in Used' : t'[k].desc = TypeOf(g)
  <2>1. CASE g = f
    BY <1>8, <1>10, <1>11, <2>1 DEF d
  <2>2. CASE g # f
    <3>1. PICK k \in Used : t[k].desc = TypeOf(g)
      BY <1>1, <2>2 DEF TableInv
    <3>2. t'[k].desc = t[k].desc
      BY <1>3, <1>8, <1>10, <3>1 DEF Used
    <3>. QED
      BY <1>11, <3>1, <3>2
  <2>. QED
    BY <2>1, <2>2
<1>15. last'.key \in Used' /\ t'[last'.key].desc = last'.desc
  BY <1>1, <1>8, <1>10, <1>11
<1>16. counted' \in SUBSET Files /\ rest' \in SUBSET Files /\ counted' \cap rest' = {}
  BY <1>1 DEF TableInv
<1>17. \A k \in Used' : Reached(t[k].desc, k)'
  BY <1>13 DEF NowReached, Reached, Probe
<1>. QED
  BY <1>10, <1>13, <1>14, <1>15, <1>16, <1>17 DEF TableInv
-----------------------------------------------------------------------------
(* The measures of which the heading has the extremes, and what T may      *)
(* hold.                                                                   *)
Ages == {"cage", "mage"}
TotalsType == [nfile : Nat, sum : [{"byte", "block"} -> Int],
               min : [Measures -> Int], max : [Measures -> Int]]

(* The totals are those of the files S: their number, their bytes, and the *)
(* oldest and the newest.                                                  *)
Totalled(x, S) ==
  /\ x.nfile = Cardinality(S)
  /\ x.sum["byte"] = Sum(S, "byte")
  /\ S # {} => \A m \in Ages :
                 /\ \A f \in S : x.min[m] <= f[m] /\ f[m] <= x.max[m]
                 /\ \E f \in S : f[m] = x.min[m]
                 /\ \E f \in S : f[m] = x.max[m]

(* One slot more: the files of another type.                               *)
LEMMA OneSlotMore ==
  ASSUME NEW x \in TotalsType, NEW S \in SUBSET Files, Totalled(x, S),
         NEW e \in Entry, NEW U \in SUBSET (Files \ S), Describes(e, U)
  PROVE  AddTotals(x, e) \in TotalsType /\ Totalled(AddTotals(x, e), S \cup U)
<1>. DEFINE y == AddTotals(x, e)
<1>1. IsFiniteSet(S) /\ IsFiniteSet(U)
  BY FilesAssumption, FS_Subset
<1>2. Cardinality(S \cup U) = Cardinality(S) + Cardinality(U)
  <2>1. Cardinality(S \cup U) = Cardinality(S) + Cardinality(U) - Cardinality(S \cap U)
    BY <1>1, FS_Union
  <2>2. S \cap U = {} /\ Cardinality({}) = 0
    BY FS_EmptySet
  <2>3. Cardinality(S \cap U) = 0
    BY <2>2
  <2>4. Cardinality(S) \in Nat /\ Cardinality(U) \in Nat
    BY <1>1, FS_CardinalityType
  <2>. QED
    BY <2>1, <2>3, <2>4
<1>3. Cardinality(S) \in Nat /\ Cardinality(U) \in Nat /\ (Cardinality(S) = 0 <=> S = {})
  BY <1>1, FS_CardinalityType, FS_EmptySet
<1>4. /\ Sum(S \cup U, "byte") = Sum(S, "byte") + Sum(U, "byte")
      /\ Sum(S, "byte") \in Int /\ Sum(U, "byte") \in Int /\ Sum({}, "byte") = 0
  BY SumOfFiles DEF Measures
<1>5. e.nfile = Cardinality(U) /\ e.sum["byte"] = Sum(U, "byte") /\ U # {}
  BY DEF Describes, Measures
<1>6. ASSUME NEW m \in Ages
      PROVE  /\ m \in Measures /\ e.min[m] \in Int /\ e.max[m] \in Int
             /\ \A f \in U : e.min[m] <= f[m] /\ f[m] <= e.max[m]
             /\ \E f \in U : f[m] = e.min[m]
             /\ \E f \in U : f[m] = e.max[m]
  BY DEF Describes, Measures, Ages, Entry
<1>7. /\ e.nfile \in Nat /\ e.sum["byte"] \in Int /\ e.sum["block"] \in Int
      /\ e.min \in [Measures -> Int] /\ e.max \in [Measures -> Int]
  BY DEF Entry, Measures
<1>8. /\ x.nfile \in Nat /\ x.sum["byte"] \in Int /\ x.sum["block"] \in Int
      /\ DOMAIN x.sum = {"byte", "block"} /\ x.sum \in [{"byte", "block"} -> Int]
      /\ x.min \in [Measures -> Int] /\ x.max \in [Measures -> Int]
      /\ x = [nfile |-> x.nfile, sum |-> x.sum, min |-> x.min, max |-> x.max]
  BY DEF TotalsType
<1>9. ASSUME NEW m \in Ages, NEW f \in Files
      PROVE  f[m] \in Int
  BY FileValues DEF Ages, Measures
<1>10. CASE S = {}
  <2>. DEFINE sum == [x.sum EXCEPT !["byte"] = e.sum["byte"]]
              min == [x.min EXCEPT !["cage"] = e.min["cage"], !["mage"] = e.min["mage"]]
              max == [x.max EXCEPT !["cage"] = e.max["cage"], !["mage"] = e.max["mage"]]
  <2>1. y = [x EXCEPT !.nfile = e.nfile, !.sum = sum, !.min = min, !.max = max]
    BY <1>3, <1>10 DEF Totalled, AddTotals
  <2>2. sum \in [{"byte", "block"} -> Int] /\ sum["byte"] = e.sum["byte"]
    BY <1>7, <1>8
  <2>3. min \in [Measures -> Int] /\ \A m \in Ages : min[m] = e.min[m]
    BY <1>7, <1>8 DEF Ages, Measures
  <2>4. max \in [Measures -> Int] /\ \A m \in Ages : max[m] = e.max[m]
    BY <1>7, <1>8 DEF Ages, Measures
  <2>. HIDE DEF y, sum, min, max
  <2>5. y = [nfile |-> e.nfile, sum |-> sum, min |-> min, max |-> max]
    BY <1>8, <2>1
  <2>6. y \in TotalsType
    BY <1>7, <2>2, <2>3, <2>4, <2>5 DEF TotalsType
  <2>7. S \cup U = U
    BY <1>10
  <2>8. Totalled(y, U)
    BY <1>5, <1>6, <2>2, <2>3, <2>4, <2>5 DEF Totalled
  <2>. QED
    BY <2>6, <2>7, <2>8 DEF y
<1>11. CASE S # {}
  <2>. DEFINE sum == [m \in DOMAIN x.sum |-> x.sum[m] + e.sum[m]]
              min == [m \in Measures |-> IF e.min[m] < x.min[m] THEN e.min[m] ELSE x.min[m]]
              max == [m \in Measures |-> IF e.max[m] > x.max[m] THEN e.max[m] ELSE x.max[m]]
  <2>1. y = [nfile |-> x.nfile + e.nfile, sum |-> sum, min |-> min, max |-> max]
    BY <1>3, <1>11 DEF Totalled, AddTotals
  <2>2. sum \in [{"byte", "block"} -> Int] /\ sum["byte"] = x.sum["byte"] + e.sum["byte"]
    BY <1>7, <1>8
  <2>3. /\ min \in [Measures -> Int]
        /\ \A m \in Ages : min[m] = IF e.min[m] < x.min[m] THEN e.min[m] ELSE x.min[m]
    BY <1>7, <1>8 DEF Ages, Measures
  <2>4. /\ max \in [Measures -> Int]
        /\ \A m \in Ages : max[m] = IF e.max[m] > x.max[m] THEN e.max[m] ELSE x.max[m]
    BY <1>7, <1>8 DEF Ages, Measures
  <2>. HIDE DEF y, sum, min, max
  <2>5. y \in TotalsType
    BY <1>7, <1>8, <2>1, <2>2, <2>3, <2>4 DEF TotalsType
  <2>6. ASSUME NEW m \in Ages
        PROVE  /\ \A f \in S : x.min[m] <= f[m] /\ f[m] <= x.max[m]
               /\ \E f \in S : f[m] = x.min[m]
               /\ \E f \in S : f[m] = x.max[m]
               /\ x.min[m] \in Int /\ x.max[m] \in Int
    BY <1>6, <1>8, <1>11 DEF Totalled
  <2>7. ASSUME NEW m \in Ages
        PROVE  /\ \A f \in S \cup U : min[m] <= f[m] /\ f[m] <= max[m]
               /\ \E f \in S \cup U : f[m] = min[m]
               /\ \E f \in S \cup U : f[m] = max[m]
    <3>1. \A f \in S \cup U : min[m] <= f[m]
      BY <1>6, <1>9, <2>3, <2>6
    <3>2. \A f \in S \cup U : f[m] <= max[m]
      BY <1>6, <1>9, <2>4, <2>6
    <3>3. \E f \in S \cup U : f[m] = min[m]
      BY <1>6, <2>3, <2>6
    <3>4. \E f \in S \cup U : f[m] = max[m]
      BY <1>6, <2>4, <2>6
    <3>. QED
      BY <3>1, <3>2, <3>3, <3>4
  <2>8. y.nfile = Cardinality(S \cup U) /\ y.sum["byte"] = Sum(S \cup U, "byte")
    BY <1>2, <1>4, <1>5, <2>1, <2>2 DEF Totalled
  <2>9. y.min = min /\ y.max = max
    BY <2>1
  <2>. QED
    BY <2>5, <2>7, <2>8, <2>9 DEF Totalled, y
<1>. QED
  BY <1>10, <1>11

(* The files counted whose type has a slot below k. *)
Below(k) == {f \in counted : \E j \in Used : j < k /\ t[j].desc = TypeOf(f)}

(* The totals are those of all files counted.                              *)
LEMMA TotalsOfAll ==
  ASSUME TableInv
  PROVE  Totals \in TotalsType /\ Totalled(Totals, counted)
<1>. DEFINE n == ftypes_max
            upTo(k) == AddFold!FoldOver(NoTotals, AllSlots, 1 .. k)
            Fine == {k \in 0 .. n : upTo(k) \in TotalsType /\ Totalled(upTo(k), Below(k))}
<1>1. n \in Nat /\ DOMAIN AllSlots = 1 .. n /\ \A k \in 0 .. n - 1 : AllSlots[k + 1] = k
  BY FilesAssumption DEF AllSlots
<1>2. /\ AddFold!Fold(NoTotals, AllSlots) = upTo(n)
      /\ upTo(0) = NoTotals
      /\ \A k \in 0 .. n - 1 : upTo(k + 1) = AddSlot(upTo(k), AllSlots[k + 1])
  <2>1. n \in Nat /\ DOMAIN AllSlots = 1 .. n
    BY <1>1
  <2>. HIDE DEF n
  <2>2. AddFold!Fold(NoTotals, AllSlots) = upTo(n) /\ upTo(0) = NoTotals
    BY <2>1, AddFold!FoldWhole
  <2>3. \A k \in Nat : upTo(k + 1) = AddSlot(upTo(k), AllSlots[k + 1])
    BY AddFold!FoldNext
  <2>4. \A k \in 0 .. n - 1 : k \in Nat
    BY <2>1
  <2>. HIDE DEF upTo
  <2>. QED
    BY <2>2, <2>3, <2>4
<1>3. Totals = upTo(n)
  <2>1. Totals = AddFold!Fold(NoTotals, AllSlots)
    BY Zenon DEF Totals, AddFold!Fold, FoldLeft, MapThenFoldSet, AddFold!MapThenFoldSet,
                 Max, AddFold!Max
  <2>. QED
    BY <1>2, <2>1
<1>. HIDE DEF upTo
<1>4. \A k \in 0 .. n : Below(k) \in SUBSET Files
  BY DEF Below, TableInv
<1>5. 0 \in Fine
  <2>1. Below(0) = {}
    BY FilesAssumption DEF Below, Used, Slots
  <2>2. NoTotals \in TotalsType
    BY DEF NoTotals, TotalsType
  <2>3. Sum({}, "byte") = 0 /\ Cardinality({}) = 0
    BY SumOfFiles, FS_EmptySet DEF Measures
  <2>4. NoTotals.nfile = 0 /\ NoTotals.sum["byte"] = 0
    BY DEF NoTotals
  <2>5. Totalled(NoTotals, {})
    BY <2>3, <2>4 DEF Totalled
  <2>6. upTo(0) \in TotalsType /\ Totalled(upTo(0), Below(0))
    BY <1>2, <2>1, <2>2, <2>5
  <2>7. 0 \in 0 .. n
    BY <1>1
  <2>. QED
    BY <2>6, <2>7
<1>6. ASSUME NEW k \in 0 .. n - 1, k \in Fine
      PROVE  k + 1 \in Fine
  <2>1. upTo(k + 1) = AddSlot(upTo(k), k) /\ k + 1 \in 0 .. n
    BY <1>1, <1>2
  <2>2. CASE k \in Used
    <3>. DEFINE U == OfType(t[k].desc)
    <3>1. Describes(t[k], U) /\ t[k] \in Entry
      BY <2>2 DEF TableInv, Used
    <3>2. U \in SUBSET (Files \ Below(k))
      <4>1. SUFFICES ASSUME NEW f \in U, f \in Below(k)
                     PROVE  FALSE
        BY DEF OfType, TableInv
      <4>2. PICK j \in Used : j < k /\ t[j].desc = TypeOf(f)
        BY <4>1 DEF Below
      <4>3. j = k
        BY <2>2, <4>1, <4>2, OneSlot DEF OfType
      <4>. QED
        BY <4>2, <4>3
    <3>3. Below(k + 1) = Below(k) \cup U
      <4>1. \A j \in Used : j < k + 1 <=> (j < k \/ j = k)
        BY DEF Used, Slots
      <4>. QED
        BY <2>2, <4>1 DEF Below, OfType
    <3>4. upTo(k + 1) = AddTotals(upTo(k), t[k])
      BY <2>1, <2>2 DEF AddSlot
    <3>5. upTo(k) \in TotalsType /\ Totalled(upTo(k), Below(k)) /\ Below(k) \in SUBSET Files
      BY <1>4, <1>6
    <3>. HIDE DEF U
    <3>6. upTo(k + 1) \in TotalsType /\ Totalled(upTo(k + 1), Below(k + 1))
      BY <3>1, <3>2, <3>3, <3>4, <3>5, OneSlotMore
    <3>. QED
      BY <2>1, <3>6
  <2>3. CASE k \notin Used
    <3>1. Below(k + 1) = Below(k)
      <4>1. \A j \in Used : j < k + 1 <=> j < k
        BY <2>3 DEF Used, Slots
      <4>. QED
        BY <4>1 DEF Below
    <3>2. upTo(k + 1) = upTo(k)
      BY <2>1, <2>3 DEF AddSlot
    <3>. QED
      BY <1>6, <2>1, <3>1, <3>2
  <2>. QED
    BY <2>2, <2>3
<1>7. \A k \in 0 .. n : k \in Fine
  <2>. HIDE DEF Fine, n
  <2>1. Fine \in SUBSET (0 .. n)
    BY DEF Fine
  <2>. QED
    BY <1>1, <1>5, <1>6, <2>1, UpTo
<1>8. Below(n) = counted
  <2>1. \A j \in Used : j < n
    BY FilesAssumption DEF Used, Slots
  <2>. QED
    BY <2>1 DEF Below, TableInv
<1>9. n \in Fine
  BY <1>1, <1>7
<1>. QED
  BY <1>3, <1>8, <1>9
-----------------------------------------------------------------------------
(* The slots in use that are below k, in their order. *)
ListsBelow(s, k) ==
  /\ s \in Seq(Slots)
  /\ \A i \in 1 .. Len(s) : s[i] \in Used /\ s[i] < k
  /\ \A j \in Used : j < k => \E i \in 1 .. Len(s) : s[i] = j
  /\ \A i, j \in 1 .. Len(s) : i < j => s[i] < s[j]

(* One slot more. *)
LEMMA OneSlotListed ==
  ASSUME NEW k \in Slots, NEW s, ListsBelow(s, k)
  PROVE  ListsBelow(PutSlot(s, k), k + 1)
<1>1. \A j \in Used : j \in Int /\ (j < k + 1 <=> j < k \/ j = k)
  BY DEF Used, Slots
<1>2. s \in Seq(Slots) /\ Len(s) \in Nat /\ k \in Int
  BY DEF ListsBelow, Slots
<1>3. CASE k \in Used
  <2>. DEFINE r == Append(s, k)
  <2>1. /\ r \in Seq(Slots) /\ Len(r) = Len(s) + 1 /\ r[Len(s) + 1] = k
        /\ \A i \in 1 .. Len(s) : r[i] = s[i]
    BY <1>2, AppendProperties
  <2>2. PutSlot(s, k) = r
    BY <1>3 DEF PutSlot
  <2>. HIDE DEF r
  <2>3. \A i \in 1 .. Len(s) : s[i] \in Used /\ s[i] \in Int /\ s[i] < k
    BY <1>1 DEF ListsBelow
  <2>4. ASSUME NEW i \in 1 .. Len(r)
        PROVE  r[i] \in Used /\ r[i] < k + 1
    BY <1>2, <1>3, <2>1, <2>3
  <2>5. ASSUME NEW j \in Used, j < k + 1
        PROVE  \E i \in 1 .. Len(r) : r[i] = j
    <3>1. CASE j = k
      <4>1. Len(s) + 1 \in 1 .. Len(r)
        BY <1>2, <2>1
      <4>. QED
        BY <2>1, <3>1, <4>1
    <3>2. CASE j < k
      <4>1. PICK i \in 1 .. Len(s) : s[i] = j
        BY <3>2 DEF ListsBelow
      <4>2. i \in 1 .. Len(r) /\ r[i] = j
        BY <1>2, <2>1, <4>1
      <4>. QED
        BY <4>2
    <3>. QED
      BY <1>1, <2>5, <3>1, <3>2
  <2>6. ASSUME NEW i \in 1 .. Len(r), NEW j \in 1 .. Len(r), i < j
        PROVE  r[i] < r[j]
    <3>1. i \in 1 .. Len(s) /\ r[i] = s[i] /\ s[i] < k
      BY <1>2, <2>1, <2>3, <2>6
    <3>2. CASE j \in 1 .. Len(s)
      BY <2>1, <2>6, <3>1, <3>2 DEF ListsBelow
    <3>3. CASE j = Len(s) + 1
      BY <2>1, <3>1, <3>3
    <3>. QED
      BY <1>2, <2>1, <3>2, <3>3
  <2>. QED
    BY <2>1, <2>2, <2>4, <2>5, <2>6 DEF ListsBelow
<1>4. CASE k \notin Used
  <2>1. PutSlot(s, k) = s
    BY <1>4 DEF PutSlot
  <2>2. \A j \in Used : j < k + 1 <=> j < k
    BY <1>1, <1>4
  <2>3. \A i \in 1 .. Len(s) : s[i] \in Used /\ s[i] < k + 1
    BY <1>1, <2>2 DEF ListsBelow
  <2>. QED
    BY <2>1, <2>2, <2>3 DEF ListsBelow
<1>. QED
  BY <1>3, <1>4

(* The second pass lists the slots in use. *)
LEMMA InUseLists ==
  ListsBelow(InUse, ftypes_max)
<1>. DEFINE n == ftypes_max
            none == <<>>
            upTo(k) == PutFold!FoldOver(none, AllSlots, 1 .. k)
            Fine == {k \in 0 .. n : ListsBelow(upTo(k), k)}
<1>1. n \in Nat /\ DOMAIN AllSlots = 1 .. n /\ \A k \in 0 .. n - 1 : AllSlots[k + 1] = k
  BY FilesAssumption DEF AllSlots
<1>2. /\ PutFold!Fold(none, AllSlots) = upTo(n)
      /\ upTo(0) = none
      /\ \A k \in 0 .. n - 1 : upTo(k + 1) = PutSlot(upTo(k), AllSlots[k + 1])
  <2>1. n \in Nat /\ DOMAIN AllSlots = 1 .. n
    BY <1>1
  <2>. HIDE DEF n, none
  <2>2. PutFold!Fold(none, AllSlots) = upTo(n) /\ upTo(0) = none
    BY <2>1, PutFold!FoldWhole
  <2>3. \A k \in Nat : upTo(k + 1) = PutSlot(upTo(k), AllSlots[k + 1])
    BY PutFold!FoldNext
  <2>4. \A k \in 0 .. n - 1 : k \in Nat
    BY <2>1
  <2>. HIDE DEF upTo
  <2>. QED
    BY <2>2, <2>3, <2>4
<1>3. InUse = upTo(n)
  <2>1. InUse = PutFold!Fold(none, AllSlots)
    BY Zenon DEF InUse, PutFold!Fold, FoldLeft, MapThenFoldSet, PutFold!MapThenFoldSet,
                 Max, PutFold!Max
  <2>. QED
    BY <1>2, <2>1
<1>. HIDE DEF upTo
<1>4. 0 \in Fine
  <2>1. ListsBelow(<<>>, 0)
    BY EmptySeq DEF ListsBelow, Used, Slots
  <2>2. 0 \in 0 .. n
    BY <1>1
  <2>3. ListsBelow(upTo(0), 0)
    BY <1>2, <2>1
  <2>. QED
    BY <2>2, <2>3
<1>5. ASSUME NEW k \in 0 .. n - 1, k \in Fine
      PROVE  k + 1 \in Fine
  <2>1. upTo(k + 1) = PutSlot(upTo(k), k) /\ k + 1 \in 0 .. n /\ k \in Slots
    BY <1>1, <1>2 DEF Slots
  <2>2. ListsBelow(upTo(k + 1), k + 1)
    BY <1>5, <2>1, OneSlotListed
  <2>. QED
    BY <2>1, <2>2
<1>6. n \in Fine
  <2>. HIDE DEF Fine, n
  <2>1. Fine \in SUBSET (0 .. n)
    BY DEF Fine
  <2>2. n \in 0 .. n
    BY <1>1
  <2>. QED
    BY <1>1, <1>4, <1>5, <2>1, <2>2, UpTo
<1>. QED
  BY <1>3, <1>6

(* The places of a sort order.                                             *)
Places == 1 .. Len(InUse)

(* All slots in use, each of them once. *)
Lists(s) ==
  /\ s \in [Places -> Used]
  /\ \A k \in Used : \E i \in Places : s[i] = k
  /\ \A i, j \in Places : s[i] = s[j] => i = j

(* The second pass gives the places of an order to the slots in use.       *)
LEMMA InUseRight ==
  /\ Len(InUse) \in Nat /\ DOMAIN InUse = Places /\ Cardinality(Used) = Len(InUse)
  /\ Lists(InUse)
<1>. DEFINE s == InUse
<1>1. ListsBelow(s, ftypes_max)
  BY InUseLists
<1>. HIDE DEF s
<1>2. s \in Seq(Slots) /\ Len(s) \in Nat /\ DOMAIN s = 1 .. Len(s)
  BY <1>1 DEF ListsBelow
<1>3. \A i \in 1 .. Len(s) : s[i] \in Used
  BY <1>1 DEF ListsBelow
<1>4. s \in [1 .. Len(s) -> Used]
  BY <1>2, <1>3
<1>5. \A k \in Used : \E i \in 1 .. Len(s) : s[i] = k
  <2>1. \A k \in Used : k < ftypes_max
    BY FilesAssumption DEF Used, Slots
  <2>. QED
    BY <1>1, <2>1 DEF ListsBelow
<1>6. ASSUME NEW i \in 1 .. Len(s), NEW j \in 1 .. Len(s), s[i] = s[j]
      PROVE  i = j
  <2>1. s[i] \in Int
    BY <1>3 DEF Used, Slots
  <2>2. ~ (s[i] < s[j]) /\ ~ (s[j] < s[i])
    BY <1>6, <2>1
  <2>3. ~ (i < j) /\ ~ (j < i)
    BY <1>1, <2>2 DEF ListsBelow
  <2>. QED
    BY <1>2, <2>3
<1>7. Cardinality(Used) = Len(s)
  <2>1. s \in Bijection(1 .. Len(s), Used)
    BY <1>4, <1>5, <1>6 DEF Bijection, Injection, Surjection, IsInjective
  <2>2. IsFiniteSet(1 .. Len(s)) /\ Cardinality(1 .. Len(s)) = Len(s)
    BY <1>2, FS_Interval
  <2>3. ExistsBijection(1 .. Len(s), Used)
    BY <2>1 DEF ExistsBijection
  <2>. QED
    BY <2>2, <2>3, FS_Bijection
<1>. QED
  BY <1>2, <1>4, <1>5, <1>6, <1>7 DEF Lists, Places, s
-----------------------------------------------------------------------------
(* Multiplying by a positive number keeps the order. *)
LEMMA Scaled ==
  ASSUME NEW a \in Int, NEW b \in Int, NEW c \in Nat, c > 0
  PROVE  a < b <=> a * c < b * c
<1>1. CASE a < b
  <2>1. PICK d \in Nat : b = a + d /\ d > 0
    <3>1. b - a \in Nat /\ b = a + (b - a) /\ b - a > 0
      BY <1>1
    <3>. QED
      BY <3>1
  <2>2. b * c = a * c + d * c
    BY <2>1
  <2>3. d * c > 0 /\ d * c \in Int /\ a * c \in Int
    BY <2>1
  <2>. QED
    BY <1>1, <2>2, <2>3
<1>2. CASE ~(a < b)
  <2>1. PICK d \in Nat : a = b + d
    <3>1. a - b \in Nat /\ a = b + (a - b)
      BY <1>2
    <3>. QED
      BY <3>1
  <2>2. a * c = b * c + d * c
    BY <2>1
  <2>3. d * c >= 0 /\ d * c \in Int /\ b * c \in Int
    BY <2>1
  <2>. QED
    BY <1>2, <2>2, <2>3
<1>. QED
  BY <1>1, <1>2

(* Averages, a sum x over n files, are ordered. *)
LEMMA AveragesOrdered ==
  ASSUME NEW x \in Int, NEW y \in Int, NEW z \in Int,
         NEW l \in Nat, l > 0, NEW m \in Nat, m > 0, NEW n \in Nat, n > 0,
         x * m < y * l, y * n < z * m
  PROVE  x * n < z * l
<1>1. (x * m) * n < (y * l) * n
  <2>1. x * m \in Int /\ y * l \in Int
    OBVIOUS
  <2>. QED
    BY <2>1, Scaled
<1>2. (y * n) * l < (z * m) * l
  <2>1. y * n \in Int /\ z * m \in Int
    OBVIOUS
  <2>. QED
    BY <2>1, Scaled
<1>3. (y * l) * n = (y * n) * l /\ (x * m) * n = (x * n) * m /\ (z * m) * l = (z * l) * m
  OBVIOUS
<1>4. (x * n) * m < (z * l) * m
  <2>1. (x * n) * m \in Int /\ (z * l) * m \in Int /\ (y * n) * l \in Int
    OBVIOUS
  <2>. QED
    BY <1>1, <1>2, <1>3, <2>1
<1>5. x * n \in Int /\ z * l \in Int
  OBVIOUS
<1>. QED
  BY <1>4, <1>5, Scaled

(* Precedes is a strict order of the slots in use, by every field.         *)
LEMMA PrecedesOrder ==
  ASSUME TableInv, NEW field \in Fields, NEW i \in Used, NEW j \in Used, NEW k \in Used
  PROVE  /\ Precedes(field, i, j) => ~Precedes(field, j, i)
         /\ Precedes(field, i, j) /\ Precedes(field, j, k) => Precedes(field, i, k)
<1>1. ASSUME NEW h \in Used
      PROVE  /\ t[h].nfile \in Nat /\ t[h].nfile > 0
             /\ \A m \in Measures : t[h].sum[m] \in Int
  BY <1>1 DEF TableInv, Used, Entry
<1>2. CASE field = "nfile"
  BY <1>1, <1>2 DEF Precedes
<1>3. CASE field \in {"byte", "block"}
  <2>1. t[i].sum[field] \in Int /\ t[j].sum[field] \in Int /\ t[k].sum[field] \in Int
    BY <1>1, <1>3 DEF Measures
  <2>2. \A p, q \in Used : Precedes(field, p, q) <=> t[p].sum[field] > t[q].sum[field]
    BY <1>3 DEF Precedes
  <2>3. Precedes(field, i, j) => ~Precedes(field, j, i)
    BY <2>1, <2>2
  <2>4. Precedes(field, i, j) /\ Precedes(field, j, k) => Precedes(field, i, k)
    BY <2>1, <2>2
  <2>. QED
    BY <2>3, <2>4
<1>4. CASE field \in {"cage", "mage"}
  <2>1. t[i].sum[field] \in Int /\ t[j].sum[field] \in Int /\ t[k].sum[field] \in Int
    BY <1>1, <1>4 DEF Measures
  <2>2. \A p, q \in Used : Precedes(field, p, q) <=>
          t[p].sum[field] * t[q].nfile < t[q].sum[field] * t[p].nfile
    BY <1>4 DEF Precedes
  <2>3. Precedes(field, i, j) => ~Precedes(field, j, i)
    <3>1. t[i].sum[field] * t[j].nfile \in Int /\ t[j].sum[field] * t[i].nfile \in Int
      BY <1>1, <2>1
    <3>. QED
      BY <2>2, <3>1
  <2>4. ASSUME Precedes(field, i, j), Precedes(field, j, k)
        PROVE  Precedes(field, i, k)
    <3>1. /\ t[i].sum[field] * t[j].nfile < t[j].sum[field] * t[i].nfile
          /\ t[j].sum[field] * t[k].nfile < t[k].sum[field] * t[j].nfile
      BY <2>2, <2>4
    <3>2. t[i].sum[field] * t[k].nfile < t[k].sum[field] * t[i].nfile
      BY <1>1, <2>1, <3>1, AveragesOrdered
    <3>. QED
      BY <2>2, <3>2
  <2>. QED
    BY <2>3, <2>4
<1>. QED
  BY <1>2, <1>3, <1>4 DEF Fields
-----------------------------------------------------------------------------
(* The first i places of s are in the order of the field. *)
SortedTo(field, s, i) ==
  \A a, b \in 1 .. i : a < b => ~Precedes(field, s[b], s[a])

(* The same but for place i, whose slot precedes none of the first j. *)
Settling(field, s, i, j) ==
  /\ Lists(s)
  /\ SortedTo(field, s, i - 1)
  /\ \A a \in 1 .. j : ~Precedes(field, s[i], s[a])

(* Each order has its own exchange. *)
LEMMA ExchangeOf ==
  ASSUME NEW o, NEW p, NEW field \in Fields
  PROVE  Exchange(o, p)[field] = Exchanged(field, o[field], p)
<1>1. /\ Exchange(o, p)["nfile"] = Exchanged("nfile", o["nfile"], p)
      /\ Exchange(o, p)["byte"] = Exchanged("byte", o["byte"], p)
      /\ Exchange(o, p)["block"] = Exchanged("block", o["block"], p)
      /\ Exchange(o, p)["cage"] = Exchanged("cage", o["cage"], p)
      /\ Exchange(o, p)["mage"] = Exchanged("mage", o["mage"], p)
  BY DEF Exchange
<1>. QED
  BY <1>1 DEF Fields

(* An exchange of two places loses no slot. *)
LEMMA SwapLists ==
  ASSUME NEW s, Lists(s), NEW i \in Places, NEW j \in Places, i # j,
         NEW r \in [Places -> Used], r[i] = s[j], r[j] = s[i],
         \A h \in Places : h # i /\ h # j => r[h] = s[h]
  PROVE  Lists(r)
<1>1. /\ s \in [Places -> Used]
      /\ \A k \in Used : \E h \in Places : s[h] = k
      /\ \A g, h \in Places : s[g] = s[h] => g = h
  BY DEF Lists
<1>2. \A k \in Used : \E h \in Places : r[h] = k
  BY <1>1
<1>3. \A g, h \in Places : r[g] = r[h] => g = h
  BY <1>1
<1>. QED
  BY <1>2, <1>3 DEF Lists

(* One comparison, and the exchange it may lead to. *)
LEMMA OneExchange ==
  ASSUME TableInv, NEW field \in Fields, NEW i \in Places, NEW q \in 1 .. i - 1,
         NEW s, Settling(field, s, i, q - 1)
  PROVE  Settling(field, Exchanged(field, s, <<i, q>>), i, q)
<1>. DEFINE r == [s EXCEPT ![i] = s[q], ![q] = s[i]]
            P(x, y) == Precedes(field, x, y)
<1>1. i \in Nat /\ q \in Places /\ q # i /\ \A a \in 1 .. i - 1 : a \in Places /\ a # i
  BY InUseRight DEF Places
<1>2. \A a \in Places : s[a] \in Used
  BY DEF Settling, Lists
<1>3. \A x, y, z \in Used : (P(x, y) => ~P(y, x)) /\ (P(x, y) /\ P(y, z) => P(x, z))
  BY PrecedesOrder
<1>4. /\ \A a, b \in 1 .. i - 1 : a < b => ~P(s[b], s[a])
      /\ \A a \in 1 .. q - 1 : ~P(s[i], s[a])
  BY DEF Settling, SortedTo
<1>5. CASE P(s[i], s[q])
  <2>1. Exchanged(field, s, <<i, q>>) = r
    BY <1>5 DEF Exchanged
  <2>2. /\ Lists(r) /\ r[i] = s[q] /\ r[q] = s[i]
        /\ \A h \in Places : h # i /\ h # q => r[h] = s[h]
    <3>1. Lists(s) /\ s \in [Places -> Used]
      BY DEF Settling, Lists
    <3>2. /\ r \in [Places -> Used] /\ r[i] = s[q] /\ r[q] = s[i]
          /\ \A h \in Places : h # i /\ h # q => r[h] = s[h]
      BY <1>1, <3>1
    <3>. HIDE DEF r
    <3>. QED
      BY <1>1, <3>1, <3>2, SwapLists
  <2>. HIDE DEF r, P
  <2>3. ASSUME NEW a \in 1 .. i - 1, NEW b \in 1 .. i - 1, a < b
        PROVE  ~P(r[b], r[a])
    <3>1. CASE a # q /\ b # q
      BY <1>1, <1>4, <2>2, <2>3, <3>1
    <3>2. CASE b = q
      <4>1. r[b] = s[i] /\ r[a] = s[a] /\ a \in 1 .. q - 1
        BY <1>1, <2>2, <2>3, <3>2
      <4>. QED
        BY <1>4, <4>1
    <3>3. CASE a = q
      <4>1. r[a] = s[i] /\ r[b] = s[b]
        BY <1>1, <2>2, <2>3, <3>3
      <4>2. ~P(s[b], s[q])
        BY <1>4, <2>3, <3>3
      <4>3. s[b] \in Used /\ s[i] \in Used /\ s[q] \in Used
        BY <1>1, <1>2
      <4>. QED
        BY <1>3, <1>5, <4>1, <4>2, <4>3
    <3>. QED
      BY <3>1, <3>2, <3>3
  <2>4. ASSUME NEW a \in 1 .. q
        PROVE  ~P(r[i], r[a])
    <3>1. CASE a = q
      <4>1. s[i] \in Used /\ s[q] \in Used
        BY <1>1, <1>2
      <4>. QED
        BY <1>3, <1>5, <2>2, <3>1, <4>1
    <3>2. CASE a # q
      <4>1. a \in 1 .. i - 1 /\ a < q /\ q \in 1 .. i - 1
        BY <1>1, <3>2
      <4>2. r[a] = s[a]
        BY <1>1, <2>2, <3>2, <4>1
      <4>. QED
        BY <1>4, <2>2, <4>1, <4>2
    <3>. QED
      BY <3>1, <3>2
  <2>. QED
    BY <2>1, <2>2, <2>3, <2>4 DEF Settling, SortedTo, P
<1>6. CASE ~P(s[i], s[q])
  <2>1. Exchanged(field, s, <<i, q>>) = s
    BY <1>6 DEF Exchanged
  <2>2. \A a \in 1 .. q : ~P(s[i], s[a])
    <3>. HIDE DEF P
    <3>1. \A a \in 1 .. q : a \in 1 .. q - 1 \/ a = q
      OBVIOUS
    <3>. QED
      BY <1>4, <1>6, <3>1
  <2>. QED
    BY <2>1, <2>2 DEF Settling
<1>. QED
  BY <1>5, <1>6

(* Place i settled: the first i places are in order. *)
LEMMA SettleSorts ==
  ASSUME TableInv, NEW i \in Places, NEW o,
         \A field \in Fields : Lists(o[field]) /\ SortedTo(field, o[field], i - 1)
  PROVE  \A field \in Fields : /\ Lists(Settle(o, i)[field])
                               /\ SortedTo(field, Settle(o, i)[field], i)
<1>. DEFINE n == i - 1
            pairs == [j \in 1 .. n |-> <<i, j>>]
            upTo(k) == ExchangeFold!FoldOver(o, pairs, 1 .. k)
            Fine == {k \in 0 .. n : \A field \in Fields : Settling(field, upTo(k)[field], i, k)}
<1>1. i \in Nat /\ n \in Nat /\ DOMAIN pairs = 1 .. n /\ \A k \in 0 .. n - 1 : pairs[k + 1] = <<i, k + 1>>
  BY InUseRight DEF Places
<1>2. Settle(o, i) = ExchangeFold!Fold(o, pairs)
  BY Zenon DEF Settle, ExchangeFold!Fold, FoldLeft, MapThenFoldSet,
               ExchangeFold!MapThenFoldSet, Max, ExchangeFold!Max
<1>. HIDE DEF pairs
<1>3. /\ ExchangeFold!Fold(o, pairs) = upTo(n)
      /\ upTo(0) = o
      /\ \A k \in 0 .. n - 1 : upTo(k + 1) = Exchange(upTo(k), pairs[k + 1])
  <2>1. n \in Nat /\ DOMAIN pairs = 1 .. n
    BY <1>1
  <2>. HIDE DEF n
  <2>2. ExchangeFold!Fold(o, pairs) = upTo(n) /\ upTo(0) = o
    BY <2>1, ExchangeFold!FoldWhole
  <2>3. \A k \in Nat : upTo(k + 1) = Exchange(upTo(k), pairs[k + 1])
    BY ExchangeFold!FoldNext
  <2>4. \A k \in 0 .. n - 1 : k \in Nat
    BY <2>1
  <2>. HIDE DEF upTo
  <2>. QED
    BY <2>2, <2>3, <2>4
<1>. HIDE DEF upTo
<1>4. 0 \in Fine
  <2>1. \A field \in Fields : Settling(field, o[field], i, 0)
    BY DEF Settling
  <2>2. \A field \in Fields : Settling(field, upTo(0)[field], i, 0)
    BY <1>3, <2>1
  <2>. QED
    BY <1>1, <2>2
<1>5. ASSUME NEW k \in 0 .. n - 1, k \in Fine
      PROVE  k + 1 \in Fine
  <2>1. upTo(k + 1) = Exchange(upTo(k), <<i, k + 1>>) /\ k + 1 \in 0 .. n
    BY <1>1, <1>3
  <2>2. ASSUME NEW field \in Fields
        PROVE  Settling(field, upTo(k + 1)[field], i, k + 1)
    <3>. DEFINE q == k + 1
    <3>1. q \in 1 .. i - 1 /\ q - 1 = k
      BY <1>1
    <3>2. upTo(q)[field] = Exchanged(field, upTo(k)[field], <<i, q>>)
      BY <2>1, ExchangeOf
    <3>3. Settling(field, upTo(k)[field], i, q - 1)
      BY <1>5, <3>1
    <3>. HIDE DEF q
    <3>4. Settling(field, upTo(q)[field], i, q)
      BY <3>1, <3>2, <3>3, OneExchange
    <3>. QED
      BY <3>4 DEF q
  <2>. QED
    BY <2>1, <2>2
<1>6. n \in Fine
  <2>. HIDE DEF Fine, n
  <2>1. Fine \in SUBSET (0 .. n)
    BY DEF Fine
  <2>2. n \in 0 .. n
    BY <1>1
  <2>. QED
    BY <1>1, <1>4, <1>5, <2>1, <2>2, UpTo
<1>7. ASSUME NEW field \in Fields
      PROVE  Lists(upTo(n)[field]) /\ SortedTo(field, upTo(n)[field], i)
  <2>. DEFINE s == upTo(n)[field]
  <2>1. Settling(field, s, i, n)
    BY <1>6
  <2>. HIDE DEF s
  <2>2. ASSUME NEW a \in 1 .. i, NEW b \in 1 .. i, a < b
        PROVE  ~Precedes(field, s[b], s[a])
    <3>1. a \in 1 .. i - 1 /\ (b \in 1 .. i - 1 \/ b = i)
      BY <1>1, <2>2
    <3>. QED
      BY <2>1, <2>2, <3>1 DEF Settling, SortedTo
  <2>. QED
    BY <2>1, <2>2 DEF Settling, SortedTo, s
<1>. QED
  BY <1>2, <1>3, <1>7

(* The third pass sorts the slots in use by every field. *)
LEMMA SortedRight ==
  ASSUME TableInv
  PROVE  \A field \in Fields : Lists(Sorted[field]) /\ SortedTo(field, Sorted[field], Len(InUse))
<1>. DEFINE n == Len(InUse)
            places == [i \in DOMAIN InUse |-> i]
            base == [field \in Fields |-> InUse]
            upTo(k) == SettleFold!FoldOver(base, places, 1 .. k)
            Fine == {k \in 0 .. n : \A field \in Fields : Lists(upTo(k)[field]) /\ SortedTo(field, upTo(k)[field], k)}
<1>1. n \in Nat /\ DOMAIN places = 1 .. n /\ \A k \in 0 .. n - 1 : places[k + 1] = k + 1
  BY InUseRight DEF Places
<1>2. Sorted = SettleFold!Fold(base, places)
  BY Zenon DEF Sorted, SettleFold!Fold, FoldLeft, MapThenFoldSet,
               SettleFold!MapThenFoldSet, Max, SettleFold!Max
<1>3. \A field \in Fields : Lists(base[field]) /\ SortedTo(field, base[field], 0)
  <2>1. \A field \in Fields : base[field] = InUse
    OBVIOUS
  <2>. HIDE DEF base
  <2>. QED
    BY <2>1, InUseRight DEF SortedTo
<1>. HIDE DEF places, base
<1>4. /\ SettleFold!Fold(base, places) = upTo(n)
      /\ upTo(0) = base
      /\ \A k \in 0 .. n - 1 : upTo(k + 1) = Settle(upTo(k), places[k + 1])
  <2>1. n \in Nat /\ DOMAIN places = 1 .. n
    BY <1>1
  <2>. HIDE DEF n
  <2>2. SettleFold!Fold(base, places) = upTo(n) /\ upTo(0) = base
    BY <2>1, SettleFold!FoldWhole
  <2>3. \A k \in Nat : upTo(k + 1) = Settle(upTo(k), places[k + 1])
    BY SettleFold!FoldNext
  <2>4. \A k \in 0 .. n - 1 : k \in Nat
    BY <2>1
  <2>. HIDE DEF upTo
  <2>. QED
    BY <2>2, <2>3, <2>4
<1>. HIDE DEF upTo
<1>5. 0 \in Fine
  <2>1. \A field \in Fields : Lists(upTo(0)[field]) /\ SortedTo(field, upTo(0)[field], 0)
    BY <1>3, <1>4
  <2>. QED
    BY <1>1, <2>1
<1>6. ASSUME NEW k \in 0 .. n - 1, k \in Fine
      PROVE  k + 1 \in Fine
  <2>. DEFINE i == k + 1
              o == upTo(k)
  <2>1. upTo(i) = Settle(o, i) /\ i \in 0 .. n /\ i \in Places /\ i - 1 = k
    BY <1>1, <1>4 DEF Places
  <2>2. \A field \in Fields : Lists(o[field]) /\ SortedTo(field, o[field], i - 1)
    BY <1>6, <2>1
  <2>. HIDE DEF i, o
  <2>3. \A field \in Fields : Lists(upTo(i)[field]) /\ SortedTo(field, upTo(i)[field], i)
    BY <2>1, <2>2, SettleSorts
  <2>. QED
    BY <2>1, <2>3 DEF i
<1>7. n \in Fine
  <2>. HIDE DEF Fine, n
  <2>1. Fine \in SUBSET (0 .. n)
    BY DEF Fine
  <2>2. n \in 0 .. n
    BY <1>1
  <2>. QED
    BY <1>1, <1>5, <1>6, <2>1, <2>2, UpTo
<1>. QED
  BY <1>2, <1>4, <1>7
-----------------------------------------------------------------------------
(* The report printed is of the slots in use, in the order asked for. *)
Printed(s) ==
  /\ s \in Seq(Used) /\ Len(s) = Cardinality(Used)
  /\ \A k \in Used : \E i \in 1 .. Len(s) : s[i] = k
  /\ SortedTo(SortBy, s, Len(s))
  /\ \E wraps \in BOOLEAN :
       printed = IF "REPORT_TXT" \in flags THEN files_report_txt(T, s, wraps) ELSE files_report_xml(s)

(* What is known during the walk, of the owners and of the files not       *)
(* counted.                                                                *)
WalkInv ==
  /\ owners \subseteq {f.uid : f \in counted}
  /\ pc # "exit" /\ "JUST_CORE" \notin flags => \A f \in (Files \ rest) \ counted : ~Wanted(f)
  /\ ~("REPORT_TXT" \in flags /\ "REPORT_XML" \in flags)

(* What is known at the end, of the totals and of the report.              *)
DoneInv ==
  pc = "done" =>
    /\ T \in TotalsType /\ Totalled(T, counted)
    /\ IF flags \cap {"REPORT_TXT", "REPORT_XML"} = {} THEN printed = NoReport
       ELSE \E s \in Seq(Used) : Printed(s)

(* The inductive invariant.                                                *)
FilesInv == TableInv /\ WalkInv /\ DoneInv

(* It holds at the beginning, whatever the command line.                   *)
LEMMA FilesInit ==
  ASSUME Init
  PROVE  FilesInv
<1>1. PICK command \in Commands : flags = Options(command).flags
  BY DEF Init
<1>2. ~("REPORT_TXT" \in flags /\ "REPORT_XML" \in flags)
  BY <1>1, OptionsSound DEF OneReport
<1>3. Free \in Entry
  BY DEF Free, Entry
<1>4. t \in [Slots -> Entry] /\ \A k \in Slots : t[k].nfile = 0
  <2>1. t = [k \in Slots |-> Free]
    BY DEF Init
  <2>2. Free.nfile = 0
    BY DEF Free
  <2>. QED
    BY <1>3, <2>1, <2>2
<1>5. Used = {}
  BY <1>4 DEF Used
<1>6. counted = {} /\ rest = Files /\ last.desc = "NULL" /\ owners = {} /\ pc = "walk"
  BY DEF Init
<1>7. TableInv
  BY <1>4, <1>5, <1>6 DEF TableInv
<1>. QED
  BY <1>2, <1>6, <1>7 DEF FilesInv, WalkInv, DoneInv

(* The table is kept by every step that counts no file. *)
LEMMA TableKept ==
  ASSUME TableInv, UNCHANGED <<t, last, counted>>, rest' \in SUBSET rest
  PROVE  TableInv'
<1>1. UNCHANGED <<t, last, counted>> /\ Used' = Used
  BY DEF Used
<1>2. t' \in [Slots -> Entry] /\ counted' \in SUBSET Files /\ rest' \in SUBSET Files /\ counted' \cap rest' = {}
  BY DEF TableInv
<1>3. (\A k \in Used : t[k].desc \in Types /\ Reached(t[k].desc, k))'
  BY <1>1 DEF TableInv, Reached
<1>4. (\A k \in Used : Describes(t[k], OfType(t[k].desc)))'
  BY <1>1 DEF TableInv, OfType
<1>5. (\A f \in counted : \E k \in Used : t[k].desc = TypeOf(f))'
  BY <1>1 DEF TableInv
<1>6. (last.desc # "NULL" => last.key \in Used /\ t[last.key].desc = last.desc)'
  BY <1>1 DEF TableInv
<1>. QED
  BY <1>2, <1>3, <1>4, <1>5, <1>6 DEF TableInv

(* What the report says later depends on what has changed only.            *)
LEMMA PrintedLater ==
  ASSUME UNCHANGED <<flags, t, owners>>
  PROVE  \A x : Printed(x)' <=>
                  /\ x \in Seq(Used) /\ Len(x) = Cardinality(Used)
                  /\ \A k \in Used : \E i \in 1 .. Len(x) : x[i] = k
                  /\ SortedTo(SortBy, x, Len(x))
                  /\ \E wraps \in BOOLEAN :
                       printed' = IF "REPORT_TXT" \in flags THEN files_report_txt(T', x, wraps)
                                  ELSE files_report_xml(x)
<1>1. Used' = Used /\ SortBy' = SortBy /\ flags' = flags
  BY DEF Used, SortBy
<1>2. \A g, i, j : Precedes(g, i, j)' <=> Precedes(g, i, j)
  BY DEF Precedes
<1>3. \A g, x, n : SortedTo(g, x, n)' <=> SortedTo(g, x, n)
  BY <1>2 DEF SortedTo
<1>4. /\ \A x, w : files_report_txt(T, x, w)' = files_report_txt(T', x, w)
      /\ \A x : files_report_xml(x)' = files_report_xml(x)
  BY DEF files_report_txt, files_report_xml, TextLine, XmlType
<1>5. \A x : SortedTo(SortBy, x, Len(x))' <=> SortedTo(SortBy, x, Len(x))
  BY <1>1, <1>2 DEF SortedTo
<1>. QED
  BY <1>1, <1>4, <1>5 DEF Printed

(* The walk: each step keeps what is known of the files and the owners. *)
LEMMA SkipKeeps ==
  ASSUME FilesInv, NEW f \in Files, Skip(f)
  PROVE  FilesInv'
<1>1. /\ pc = "walk" /\ f \in rest /\ rest' = rest \ {f}
      /\ "JUST_CORE" \in flags \/ ~Wanted(f)
      /\ UNCHANGED <<flags, selected, t, last, owners, T, order, printed, pc, counted>>
  BY DEF Skip, Walked
<1>2. TableInv'
  BY <1>1, TableKept DEF FilesInv
<1>3. WalkInv'
  BY <1>1 DEF FilesInv, WalkInv, Wanted
<1>. QED
  BY <1>1, <1>2, <1>3 DEF FilesInv, DoneInv

(* The walk ends with "ftypes_max exceeded".                               *)
LEMMA ExceededKeeps ==
  ASSUME FilesInv, NEW f \in Files, Exceeded(f)
  PROVE  FilesInv'
<1>1. /\ rest' = rest \ {f} /\ pc' = "exit"
      /\ UNCHANGED <<flags, selected, t, last, owners, T, order, printed, counted>>
  BY DEF Exceeded, Walked
<1>2. TableInv'
  BY <1>1, TableKept DEF FilesInv
<1>. QED
  BY <1>1, <1>2 DEF FilesInv, WalkInv, DoneInv

(* A file counted, in the whole state.                                     *)
LEMMA CountKeeps ==
  ASSUME FilesInv, NEW f \in Files, Count(f)
  PROVE  FilesInv'
<1>1. /\ pc = "walk" /\ f \in rest /\ rest' = rest \ {f}
      /\ owners' \in {owners, owners \cup {f.uid}}
      /\ counted' = counted \cup {f}
      /\ UNCHANGED <<flags, selected, pc>>
  BY DEF Count, Walked
<1>2. TableInv'
  BY CountKeepsTable DEF FilesInv
<1>3. owners' \subseteq {g.uid : g \in counted'}
  BY <1>1 DEF FilesInv, WalkInv
<1>4. WalkInv'
  BY <1>1, <1>3 DEF FilesInv, WalkInv, Wanted
<1>. QED
  BY <1>1, <1>2, <1>4 DEF FilesInv, DoneInv

(* The report is printed in an order of the slots in use, or there is none. *)
LEMMA ReportOrdered ==
  ASSUME TableInv, NEW s,
         s = IF SortBy = "none" THEN <<>> ELSE Sorted[SortBy],
         SortBy = "none" => Used = {}
  PROVE  /\ s \in Seq(Used) /\ Len(s) = Cardinality(Used)
         /\ \A k \in Used : \E i \in 1 .. Len(s) : s[i] = k
         /\ SortedTo(SortBy, s, Len(s))
<1>1. CASE SortBy = "none"
  <2>1. s = <<>> /\ Used = {} /\ Cardinality({}) = 0
    BY <1>1, FS_EmptySet
  <2>2. s \in Seq(Used) /\ Len(s) = 0
    <3>1. <<>> \in Seq(Used) /\ Len(<<>>) = 0
      BY EmptySeq
    <3>. QED
      BY <2>1, <3>1
  <2>. QED
    BY <2>1, <2>2 DEF SortedTo
<1>2. CASE SortBy # "none"
  <2>1. SortBy \in Fields
    <3>. DEFINE names == <<"byte", "nfile", "block", "cage", "mage">>
                chosen == {n \in 1 .. 5 : names[n] \in flags}
    <3>1. chosen # {} /\ SortBy = names[Max(chosen)]
      BY <1>2 DEF SortBy
    <3>2. PICK x \in chosen : \A y \in chosen : y <= x
      <4>. DEFINE below == {5 - y : y \in chosen}
      <4>1. \A y \in chosen : y \in Nat /\ 5 - y \in 0 .. 5
        OBVIOUS
      <4>2. chosen # {}
        BY <3>1
      <4>. HIDE DEF chosen, names
      <4>3. below \in SUBSET (0 .. 5)
        BY <4>1
      <4>4. below # {}
        BY <4>2
      <4>5. PICK z \in below : \A y \in below : z <= y
        <5>. HIDE DEF below
        <5>. QED
          BY <4>3, <4>4, LeastNatural
      <4>6. PICK x \in chosen : z = 5 - x
        OBVIOUS
      <4>7. \A y \in chosen : 5 - x <= 5 - y
        BY <4>5, <4>6
      <4>. QED
        BY <4>1, <4>7
    <3>3. Max(chosen) \in chosen
      <4>. HIDE DEF chosen
      <4>. QED
        BY <3>2 DEF Max
    <3>4. Max(chosen) \in 1 .. 5
      BY <3>3
    <3>. HIDE DEF chosen
    <3>. QED
      BY <3>1, <3>4 DEF Fields
  <2>2. Lists(s) /\ SortedTo(SortBy, s, Len(InUse))
    BY <1>2, <2>1, SortedRight
  <2>3. Len(InUse) \in Nat /\ Cardinality(Used) = Len(InUse)
    BY InUseRight
  <2>4. s \in [1 .. Len(InUse) -> Used]
    BY <2>2 DEF Lists, Places
  <2>5. s \in Seq(Used) /\ Len(s) = Len(InUse)
    BY <2>3, <2>4
  <2>6. \A k \in Used : \E i \in 1 .. Len(s) : s[i] = k
    BY <2>2, <2>5 DEF Lists, Places
  <2>. QED
    BY <2>2, <2>3, <2>5, <2>6
<1>. QED
  BY <1>1, <1>2

(* The passes and the report.                                              *)
LEMMA ReportKeeps ==
  ASSUME FilesInv, Report
  PROVE  FilesInv'
<1>1. /\ T' = Totals /\ order' = Sorted
      /\ UNCHANGED <<flags, selected, rest, t, last, owners, counted>>
      /\ pc = "walk" /\ pc' \in {"crash", "done"}
  BY DEF Report
<1>2. TableInv'
  BY <1>1, TableKept DEF FilesInv
<1>3. WalkInv'
  BY <1>1 DEF FilesInv, WalkInv, Wanted
<1>4. ASSUME pc' = "done"
      PROVE  /\ T' \in TotalsType /\ Totalled(T', counted)
             /\ IF flags \cap {"REPORT_TXT", "REPORT_XML"} = {} THEN printed' = NoReport
                ELSE \E s \in Seq(Used) : Printed(s)'
  <2>. DEFINE s == IF SortBy = "none" THEN <<>> ELSE Sorted[SortBy]
  <2>1. T' \in TotalsType /\ Totalled(T', counted)
    BY <1>1, TotalsOfAll DEF FilesInv
  <2>2. ~(SortBy = "none" /\ Used # {} /\ flags \cap {"REPORT_TXT", "REPORT_XML"} # {})
    BY <1>4 DEF Report
  <2>3. PICK wraps \in BOOLEAN :
          printed' = CASE "REPORT_TXT" \in flags -> files_report_txt(T', s, wraps)
                       [] "REPORT_XML" \in flags -> files_report_xml(s)
                       [] OTHER                  -> NoReport
    BY <1>1, <2>2 DEF Report
  <2>. HIDE DEF s
  <2>4. CASE flags \cap {"REPORT_TXT", "REPORT_XML"} = {}
    BY <2>1, <2>3, <2>4
  <2>5. CASE flags \cap {"REPORT_TXT", "REPORT_XML"} # {}
    <3>1. SortBy = "none" => Used = {}
      BY <2>2, <2>5
    <3>2. /\ s \in Seq(Used) /\ Len(s) = Cardinality(Used)
          /\ \A k \in Used : \E i \in 1 .. Len(s) : s[i] = k
          /\ SortedTo(SortBy, s, Len(s))
      <4>1. TableInv /\ s = IF SortBy = "none" THEN <<>> ELSE Sorted[SortBy]
        BY DEF FilesInv, s
      <4>. QED
        BY <3>1, <4>1, ReportOrdered
    <3>3. ~("REPORT_TXT" \in flags /\ "REPORT_XML" \in flags)
      BY DEF FilesInv, WalkInv
    <3>4. printed' = IF "REPORT_TXT" \in flags THEN files_report_txt(T', s, wraps) ELSE files_report_xml(s)
      BY <2>3, <2>5, <3>3
    <3>5. PICK x : /\ x \in Seq(Used) /\ Len(x) = Cardinality(Used)
                   /\ \A k \in Used : \E i \in 1 .. Len(x) : x[i] = k
                   /\ SortedTo(SortBy, x, Len(x))
                   /\ printed' = IF "REPORT_TXT" \in flags THEN files_report_txt(T', x, wraps)
                                 ELSE files_report_xml(x)
      BY <3>2, <3>4
    <3>6. Printed(x)'
      BY <1>1, <3>5, PrintedLater
    <3>. QED
      BY <2>1, <2>5, <3>5, <3>6
  <2>. QED
    BY <2>4, <2>5
<1>5. Used' = Used
  BY <1>1 DEF Used
<1>6. DoneInv'
  BY <1>1, <1>4, <1>5 DEF DoneInv
<1>. QED
  BY <1>2, <1>3, <1>6 DEF FilesInv

(* Every step keeps the invariant. *)
LEMMA FilesStep ==
  ASSUME FilesInv, [Next]_vars
  PROVE  FilesInv'
<1>1. CASE UNCHANGED vars
  <2>1. /\ UNCHANGED <<flags, selected, rest, t, last, owners>>
        /\ UNCHANGED <<T, order, printed, pc, counted>>
    BY <1>1 DEF vars
  <2>2. TableInv'
    BY <2>1, TableKept DEF FilesInv
  <2>3. WalkInv'
    BY <2>1 DEF FilesInv, WalkInv, Wanted
  <2>4. DoneInv'
    <3>1. \A x : Printed(x)' <=> Printed(x)
      BY <2>1, PrintedLater DEF Printed
    <3>2. Used' = Used
      BY <2>1 DEF Used
    <3>. QED
      BY <2>1, <3>1, <3>2 DEF FilesInv, DoneInv
  <2>. QED
    BY <2>2, <2>3, <2>4 DEF FilesInv
<1>. QED
  BY <1>1, SkipKeeps, CountKeeps, ExceededKeeps, ReportKeeps DEF Next

(* What the walk and the report keep, in every reachable state of files.   *)
THEOREM FilesCorrect == Spec => []FilesInv
<1>1. Init => FilesInv
  BY FilesInit
<1>2. FilesInv /\ [Next]_vars => FilesInv'
  BY FilesStep
<1>. QED
  BY <1>1, <1>2, PTL DEF Spec
-----------------------------------------------------------------------------
(* The least and the greatest number of a set.                             *)
LEMMA LeastIs ==
  ASSUME NEW S \in SUBSET Int, NEW x \in S, \A y \in S : x <= y
  PROVE  Min(S) = x
<1>1. Min(S) \in S /\ \A y \in S : Min(S) <= y
  BY DEF Min
<1>. DEFINE u == Min(S)
<1>2. u \in Int /\ x \in Int
  BY <1>1
<1>3. u <= x /\ x <= u
  BY <1>1
<1>. HIDE DEF u
<1>4. u = x
  BY <1>2, <1>3
<1>. QED
  BY <1>4 DEF u

(* The greatest one, likewise.                                             *)
LEMMA GreatestIs ==
  ASSUME NEW S \in SUBSET Int, NEW x \in S, \A y \in S : y <= x
  PROVE  Max(S) = x
<1>1. Max(S) \in S /\ \A y \in S : y <= Max(S)
  BY DEF Max
<1>. DEFINE u == Max(S)
<1>2. u \in Int /\ x \in Int
  BY <1>1
<1>3. u <= x /\ x <= u
  BY <1>1
<1>. HIDE DEF u
<1>4. u = x
  BY <1>2, <1>3
<1>. QED
  BY <1>4 DEF u

(* The extremes of a measure of files, from a bound that one of them has.  *)
LEMMA Extremes ==
  ASSUME NEW S \in SUBSET Files, NEW m \in Measures, NEW x, NEW y,
         \A f \in S : x <= f[m] /\ f[m] <= y,
         \E f \in S : f[m] = x, \E f \in S : f[m] = y
  PROVE  Min({f[m] : f \in S}) = x /\ Max({f[m] : f \in S}) = y
<1>. DEFINE V == {f[m] : f \in S}
<1>1. V \in SUBSET Int
  BY FileValues
<1>2. x \in V /\ y \in V /\ \A v \in V : x <= v /\ v <= y
  OBVIOUS
<1>. HIDE DEF V
<1>3. Min(V) = x
  BY <1>1, <1>2, LeastIs
<1>4. Max(V) = y
  BY <1>1, <1>2, GreatestIs
<1>. QED
  BY <1>3, <1>4 DEF V

(* %.1f gives the nearest tenth.                                           *)
LEMMA TenthsNear ==
  ASSUME NEW x \in Int, NEW size \in Nat \ {0}
  PROVE  /\ Tenths(x, size) \in Int
         /\ -size <= 2 * (Tenths(x, size) * size - 10 * x)
         /\ 2 * (Tenths(x, size) * size - 10 * x) <= size
<1>. DEFINE n == (10 * x) \div size
            r == (10 * x) % size
            p == n * size
<1>1. n \in Int /\ r \in 0 .. size - 1 /\ 10 * x = size * n + r
  OBVIOUS
<1>2. p \in Int /\ p + r = 10 * x
  BY <1>1
<1>3. (n + 1) * size = p + size
  BY <1>1
<1>4. CASE Tenths(x, size) = n + 1 /\ 2 * r >= size
  <2>. DEFINE y == Tenths(x, size) * size
  <2>1. y = p + size
    BY <1>3, <1>4
  <2>. HIDE DEF y, p, r, n
  <2>2. -size <= 2 * (y - 10 * x) /\ 2 * (y - 10 * x) <= size
    BY <1>1, <1>2, <1>4, <2>1
  <2>. QED
    BY <1>1, <1>4, <2>2 DEF y
<1>5. CASE Tenths(x, size) = n /\ 2 * r <= size
  <2>. DEFINE y == Tenths(x, size) * size
  <2>1. y = p
    BY <1>5
  <2>. HIDE DEF y, p, r, n
  <2>2. -size <= 2 * (y - 10 * x) /\ 2 * (y - 10 * x) <= size
    BY <1>1, <1>2, <1>5, <2>1
  <2>. QED
    BY <1>1, <1>5, <2>2 DEF y
<1>6. IF 2 * r > size \/ (2 * r = size /\ n \in HalfUp) THEN Tenths(x, size) = n + 1 ELSE Tenths(x, size) = n
  BY DEF Tenths
<1>7. r \in Int /\ size \in Int
  BY <1>1
<1>. HIDE DEF n, r, p
<1>. QED
  BY <1>4, <1>5, <1>6, <1>7

(* The unit is one that the number reaches, and no later one is reached.   *)
LEMMA UnitReached ==
  ASSUME NEW x \in Int, NEW units \in Seq(Nat), Len(units) = 5
  PROVE  /\ UnitOf(x, units) \in 0 .. 5
         /\ UnitOf(x, units) # 0 => units[UnitOf(x, units)] <= x
         /\ \A u \in 1 .. 5 : units[u] <= x => u <= UnitOf(x, units)
<1>. DEFINE S == {0} \cup {u \in DOMAIN units : units[u] <= x}
<1>1. DOMAIN units = 1 .. 5
  OBVIOUS
<1>2. S \in SUBSET (0 .. 5) /\ 0 \in S
  BY <1>1
<1>3. UnitOf(x, units) = Max(S)
  BY DEF UnitOf
<1>4. \E u \in S : \A v \in S : v <= u
  <2>. HIDE DEF S
  <2>1. \A v \in S : v \in 0 .. 5
    BY <1>2
  <2>2. CASE 5 \in S
    BY <2>1, <2>2
  <2>3. CASE 4 \in S /\ 5 \notin S
    BY <2>1, <2>3
  <2>4. CASE 3 \in S /\ 4 \notin S /\ 5 \notin S
    <3>1. \A v \in S : v <= 3
      BY <2>1, <2>4
    <3>. QED
      BY <2>4, <3>1
  <2>5. CASE 2 \in S /\ 3 \notin S /\ 4 \notin S /\ 5 \notin S
    <3>1. \A v \in S : v <= 2
      BY <2>1, <2>5
    <3>. QED
      BY <2>5, <3>1
  <2>6. CASE 1 \in S /\ 2 \notin S /\ 3 \notin S /\ 4 \notin S /\ 5 \notin S
    <3>1. \A v \in S : v <= 1
      BY <2>1, <2>6
    <3>. QED
      BY <2>6, <3>1
  <2>7. CASE 1 \notin S /\ 2 \notin S /\ 3 \notin S /\ 4 \notin S /\ 5 \notin S
    <3>1. \A v \in S : v <= 0
      BY <2>1, <2>7
    <3>. QED
      BY <1>2, <3>1
  <2>. QED
    BY <2>2, <2>3, <2>4, <2>5, <2>6, <2>7
<1>5. Max(S) \in S /\ \A u \in S : u <= Max(S)
  <2>. HIDE DEF S
  <2>1. PICK u \in S : \A v \in S : v <= u
    BY <1>4
  <2>2. S \in SUBSET Int
    BY <1>2
  <2>. QED
    BY <2>1, <2>2, GreatestIs
<1>. QED
  BY <1>1, <1>2, <1>3, <1>5

(* A buffer says the number put in it last.                                *)
LEMMA BytesSaid ==
  ASSUME NEW b, NEW n \in Nat, n >= 1, b[n] \in Int, NEW wraps \in BOOLEAN
  PROVE  SaysBytes(Buffer(b, n, wraps), b[n])
<1>. DEFINE x == b[n]
            text == Buffer(b, n, wraps)
            u == UnitOf(x, ByteUnits)
<1>1. /\ ByteUnits \in Seq(Nat) /\ Len(ByteUnits) = 5 /\ ByteUnits[1] > 0 /\ IntLimit \in Nat
      /\ \A v, w \in 1 .. 5 : v < w => ByteUnits[v] < ByteUnits[w]
      /\ ByteUnits[1] <= IntLimit /\ IntLimit <= ByteUnits[5]
  BY FilesAssumption
<1>2. \A v \in 1 .. 5 : ByteUnits[v] \in Nat \ {0}
  <2>1. ByteUnits \in Seq(Nat) /\ Len(ByteUnits) = 5
    BY <1>1
  <2>2. \A v \in 1 .. 5 : ByteUnits[v] \in Nat
    BY <2>1, ElementOfSeq
  <2>3. ASSUME NEW v \in 1 .. 5
        PROVE  ByteUnits[v] \in Nat \ {0}
    <3>1. v = 1 \/ ByteUnits[1] < ByteUnits[v]
      BY <1>1
    <3>2. ByteUnits[v] \in Nat /\ ByteUnits[1] \in Nat
      BY <2>2
    <3>3. ByteUnits[1] > 0
      BY <1>1
    <3>. QED
      BY <3>1, <3>2, <3>3
  <2>. QED
    BY <2>3
<1>3. /\ u \in 0 .. 5 /\ (u # 0 => ByteUnits[u] <= x)
      /\ \A v \in 1 .. 5 : ByteUnits[v] <= x => v <= u
  BY <1>1, UnitReached
<1>4. ASSUME x \in ByteUnits[1] .. ByteUnits[5] - 1
      PROVE  /\ text = NoFigure \/ Near(text, x, ByteUnits)
             /\ x < IntLimit => text # NoFigure
  <2>1. text = human_byte(x, wraps)
    <3>. DEFINE written == {i \in 1 .. n : Writes(b[i], wraps)}
    <3>1. x < ByteUnits[5]
      <4>1. x \in Int /\ ByteUnits[1] \in Int /\ ByteUnits[5] \in Int
        BY <1>2
      <4>. QED
        BY <1>4, <4>1
    <3>2. n \in written /\ written \in SUBSET Int /\ \A i \in written : i <= n
      BY <3>1 DEF Writes
    <3>3. Max(written) = n
      <4>. HIDE DEF written
      <4>. QED
        BY <3>2, GreatestIs
    <3>. QED
      BY <3>2, <3>3 DEF Buffer
  <2>2. u \in 1 .. 5 /\ u # 0 /\ ByteUnits[u] \in Nat \ {0}
    <3>1. u >= 1
      BY <1>1, <1>2, <1>3, <1>4
    <3>. HIDE DEF u
    <3>. QED
      BY <1>2, <1>3, <3>1
  <2>3. text = IF wraps /\ x >= IntLimit THEN NoFigure
               ELSE [unit |-> u, tenths |-> Tenths(x, ByteUnits[u])]
    BY <2>1, <2>2 DEF human_byte
  <2>4. CASE text = NoFigure
    <3>1. wraps /\ x >= IntLimit
      <4>. HIDE DEF u, x, text
      <4>. QED
        BY <2>2, <2>3, <2>4 DEF NoFigure
    <3>. QED
      BY <1>1, <2>4, <3>1
  <2>5. CASE text # NoFigure
    <3>1. text.unit = u /\ text.tenths = Tenths(x, ByteUnits[u])
      <4>. HIDE DEF u, x, text
      <4>. QED
        BY <2>3, <2>5
    <3>2. /\ -ByteUnits[u] <= 2 * (text.tenths * ByteUnits[u] - 10 * x)
          /\ 2 * (text.tenths * ByteUnits[u] - 10 * x) <= ByteUnits[u]
      <4>. HIDE DEF u, text
      <4>. QED
        BY <2>2, <3>1, TenthsNear
    <3>3. DOMAIN ByteUnits = 1 .. 5
      BY <1>1
    <3>. HIDE DEF u, x, text
    <3>. QED
      BY <2>2, <2>5, <3>1, <3>2, <3>3 DEF Near
  <2>. QED
    BY <2>4, <2>5
<1>5. x \in ByteUnits[1] .. IntLimit - 1 => x \in ByteUnits[1] .. ByteUnits[5] - 1 /\ x < IntLimit
  <2>1. x \in Int /\ ByteUnits[1] \in Int /\ ByteUnits[5] \in Int /\ IntLimit \in Int
    BY <1>1, <1>2
  <2>2. IntLimit <= ByteUnits[5]
    BY <1>1
  <2>. HIDE DEF x
  <2>. QED
    BY <2>1, <2>2
<1>. QED
  BY <1>4, <1>5 DEF SaysBytes

(* An age is said, of a time before the start and of one after it.         *)
LEMMA AgeSaid ==
  ASSUME NEW x \in Int
  PROVE  SaysAge(human_age(x), x)
<1>. DEFINE age == IF x < 0 THEN -x ELSE x
            u   == UnitOf(age, AgeUnits)
            n   == IF u = 0 THEN 10 * age ELSE Tenths(age, AgeUnits[u])
            text == human_age(x)
<1>1. age \in Int
  OBVIOUS
<1>2. AgeUnits \in Seq(Nat) /\ Len(AgeUnits) = 5 /\ DOMAIN AgeUnits = 1 .. 5
      /\ \A v \in 1 .. 5 : AgeUnits[v] \in Nat \ {0}
  BY DEF AgeUnits
<1>3. u \in 0 .. 5
  <2>. HIDE DEF age
  <2>. QED
    BY <1>1, <1>2, UnitReached
<1>4. text.unit = u /\ text.tenths = IF x < 0 THEN -n ELSE n
  BY DEF human_age
<1>5. CASE u = 0
  <2>1. n = 10 * age
    BY <1>5
  <2>. HIDE DEF text, u, n
  <2>. QED
    BY <1>4, <1>5, <2>1 DEF SaysAge, text
<1>6. CASE u # 0
  <2>. DEFINE size == AgeUnits[u]
  <2>1. size \in Nat \ {0} /\ u \in DOMAIN AgeUnits
    <3>. HIDE DEF u
    <3>1. u \in 1 .. 5
      BY <1>3, <1>6
    <3>. QED
      BY <1>2, <3>1
  <2>2. n \in Int /\ -size <= 2 * (n * size - 10 * age) /\ 2 * (n * size - 10 * age) <= size
    <3>1. n = Tenths(age, size)
      BY <1>6
    <3>. HIDE DEF n, u, age, size
    <3>. QED
      BY <1>1, <2>1, <3>1, TenthsNear
  <2>3. -size <= 2 * (text.tenths * size - 10 * x) /\ 2 * (text.tenths * size - 10 * x) <= size
    <3>. HIDE DEF n, u, size, text
    <3>1. CASE x < 0
      <4>1. text.tenths = -n /\ age = -x
        BY <1>4, <3>1
      <4>2. (-n) * size = -(n * size)
        BY <2>1, <2>2
      <4>. DEFINE p == n * size
      <4>3. p \in Int
        BY <2>1, <2>2
      <4>4. text.tenths * size = -p
        BY <4>1, <4>2
      <4>5. -size <= 2 * (p - 10 * (-x)) /\ 2 * (p - 10 * (-x)) <= size
        BY <2>2, <4>1
      <4>. HIDE DEF p
      <4>6. -size <= 2 * (-p - 10 * x) /\ 2 * (-p - 10 * x) <= size
        BY <2>1, <4>3, <4>5
      <4>. QED
        BY <4>4, <4>6
    <3>2. CASE ~(x < 0)
      BY <1>4, <2>2, <3>2
    <3>. QED
      BY <3>1, <3>2
  <2>. HIDE DEF text, u, n, age
  <2>. QED
    BY <1>4, <1>6, <2>1, <2>3 DEF SaysAge, Near, text, size
<1>. QED
  BY <1>5, <1>6

(* An int is printed as it is.                                             *)
LEMMA IntSaid ==
  ASSUME NEW x \in Int
  PROVE  SaysInt(AsInt(x), x)
<1>1. IntLimit \in Nat
  BY FilesAssumption
<1>2. ASSUME x \in -IntLimit .. IntLimit - 1
      PROVE  AsInt(x) = x
  <2>. DEFINE y == x + IntLimit
              m == 2 * IntLimit
  <2>1. y \in Int /\ m \in Int /\ 0 <= y /\ y < m
    BY <1>1, <1>2
  <2>2. y % m = y
    <3>. HIDE DEF y, m
    <3>. QED
      BY <2>1
  <2>. QED
    BY <1>1, <2>2 DEF AsInt
<1>. QED
  BY <1>2 DEF SaysInt

(* What a slot has is numbers.                                             *)
LEMMA EntryType ==
  ASSUME NEW e \in Entry
  PROVE  e.sum \in [Measures -> Int] /\ e.min \in [Measures -> Int] /\ e.max \in [Measures -> Int]
BY DEF Entry

(* The numbers of one sequence and then those of another.                  *)
LEMMA OneThenOther ==
  ASSUME NEW a \in Seq(Int), NEW b \in Seq(Int), NEW i \in Nat, i >= 1
  PROVE  /\ i <= Len(a) => (a \o b)[i] = a[i]
         /\ i <= Len(b) => (a \o b)[i + Len(a)] = b[i]
<1>. DEFINE c == a \o b
<1>1. Len(a) \in Nat /\ Len(b) \in Nat
  OBVIOUS
<1>2. \A j \in 1 .. Len(a) + Len(b) : c[j] = IF j <= Len(a) THEN a[j] ELSE b[j - Len(a)]
  BY ConcatProperties
<1>. HIDE DEF c
<1>3. ASSUME i <= Len(a)
      PROVE  c[i] = a[i]
  <2>1. i \in 1 .. Len(a) + Len(b) /\ i <= Len(a)
    BY <1>1, <1>3
  <2>. QED
    BY <1>2, <2>1
<1>4. ASSUME i <= Len(b)
      PROVE  c[i + Len(a)] = b[i]
  <2>1. i + Len(a) \in 1 .. Len(a) + Len(b) /\ ~(i + Len(a) <= Len(a))
    BY <1>1, <1>4
  <2>2. (i + Len(a)) - Len(a) = i
    BY <1>1
  <2>. QED
    BY <1>2, <2>1, <2>2
<1>. QED
  BY <1>3, <1>4 DEF c

(* The text report: its lines are those of the slots s, and say their      *)
(* bytes and blocks; its heading says the bytes of all.                    *)
LEMMA TextSays ==
  ASSUME t \in [Slots -> Entry], NEW all \in TotalsType, NEW s \in Seq(Used), NEW wraps \in BOOLEAN
  PROVE  LET text == files_report_txt(all, s, wraps)
         IN /\ SaysBytes(text.heading.data, all.sum["byte"])
            /\ DOMAIN text.types = 1 .. Len(s) /\ Len(text.types) = Len(s)
            /\ \A i \in 1 .. Len(s) :
                 /\ text.types[i].desc = t[s[i]].desc /\ text.types[i].nfile = t[s[i]].nfile
                 /\ SaysBytes(text.types[i].byte, t[s[i]].sum["byte"])
                 /\ SaysBytes(text.types[i].block, BlockSize * t[s[i]].sum["block"])
<1>. DEFINE first == <<all.sum["byte"], all.max["byte"]>>
            least == <<all.min["byte"]>>
            ofBytes == [i \in DOMAIN s |-> t[s[i]].sum["byte"]]
            ofBlocks == [i \in DOMAIN s |-> BlockSize * t[s[i]].sum["block"]]
            bytes == first \o ofBytes
            blocks == least \o ofBlocks
            lines == [i \in DOMAIN s |-> TextLine(t[s[i]], Buffer(bytes, i + 2, wraps), Buffer(blocks, i + 1, wraps))]
            text == files_report_txt(all, s, wraps)
<1>1. Len(s) \in Nat /\ DOMAIN s = 1 .. Len(s) /\ \A i \in 1 .. Len(s) : s[i] \in Slots
  BY DEF Used
<1>2. ASSUME NEW k \in Slots
      PROVE  t[k].sum["byte"] \in Int /\ t[k].sum["block"] \in Int
  <2>1. t[k].sum \in [Measures -> Int]
    BY EntryType
  <2>. QED
    BY <2>1 DEF Measures
<1>3. all.sum["byte"] \in Int /\ all.min["byte"] \in Int /\ all.max["byte"] \in Int
  BY DEF TotalsType, Measures
<1>4. BlockSize \in Nat
  BY FilesAssumption
<1>5. /\ first \in Seq(Int) /\ Len(first) = 2 /\ first[1] = all.sum["byte"]
      /\ least \in Seq(Int) /\ Len(least) = 1
  BY <1>3
<1>6. \A i \in 1 .. Len(s) : ofBytes[i] \in Int /\ ofBlocks[i] \in Int
  <2>1. ASSUME NEW i \in 1 .. Len(s)
        PROVE  ofBytes[i] \in Int /\ ofBlocks[i] \in Int
    <3>1. s[i] \in Slots
      BY <1>1
    <3>2. t[s[i]].sum["byte"] \in Int /\ t[s[i]].sum["block"] \in Int
      BY <1>2, <3>1
    <3>. QED
      BY <1>1, <1>4, <3>2
  <2>. QED
    BY <2>1
<1>7. DOMAIN ofBytes = 1 .. Len(s) /\ DOMAIN ofBlocks = 1 .. Len(s)
  BY <1>1
<1>8. /\ ofBytes \in Seq(Int) /\ Len(ofBytes) = Len(s)
      /\ ofBlocks \in Seq(Int) /\ Len(ofBlocks) = Len(s)
  <2>1. ofBytes = [i \in 1 .. Len(s) |-> ofBytes[i]] /\ ofBlocks = [i \in 1 .. Len(s) |-> ofBlocks[i]]
    BY <1>1
  <2>. HIDE DEF ofBytes, ofBlocks
  <2>2. ofBytes \in Seq(Int)
    BY <1>1, <1>6, <2>1
  <2>3. ofBlocks \in Seq(Int)
    BY <1>1, <1>6, <2>1
  <2>4. Len(ofBytes) = Len(s) /\ Len(ofBlocks) = Len(s)
    BY <1>1, <1>7, <2>2, <2>3
  <2>. QED
    BY <2>2, <2>3, <2>4
<1>9. bytes[1] = all.sum["byte"]
  <2>. HIDE DEF first, ofBytes
  <2>1. \A i \in Nat : i >= 1 => (i <= Len(first) => (first \o ofBytes)[i] = first[i])
    BY <1>5, <1>8, OneThenOther
  <2>2. 1 \in Nat /\ 1 >= 1 /\ 1 <= Len(first)
    BY <1>5
  <2>3. (first \o ofBytes)[1] = first[1]
    BY Zenon, <2>1, <2>2
  <2>. QED
    BY <1>5, <2>3
<1>10. ASSUME NEW i \in 1 .. Len(s)
       PROVE  bytes[i + 2] = ofBytes[i] /\ blocks[i + 1] = ofBlocks[i]
  <2>. HIDE DEF first, least, ofBytes, ofBlocks
  <2>1. i \in Nat /\ i >= 1 /\ i <= Len(s)
    BY <1>1
  <2>2. (first \o ofBytes)[i + Len(first)] = ofBytes[i] /\ (least \o ofBlocks)[i + Len(least)] = ofBlocks[i]
    BY <1>5, <1>8, <2>1, OneThenOther
  <2>. QED
    BY <1>5, <2>2
<1>11. text.heading.data = Buffer(bytes, 1, wraps) /\ text.types = lines
  BY DEF files_report_txt
<1>12. SaysBytes(text.heading.data, all.sum["byte"])
  <2>. HIDE DEF bytes, text
  <2>. QED
    BY <1>3, <1>9, <1>11, BytesSaid
<1>13. DOMAIN lines = 1 .. Len(s) /\ Len(lines) = Len(s)
  <2>1. DOMAIN lines = 1 .. Len(s)
    BY <1>1
  <2>2. lines \in Seq({lines[i] : i \in 1 .. Len(s)})
    BY <1>1
  <2>. HIDE DEF lines
  <2>. QED
    BY <1>1, <2>1, <2>2
<1>14. ASSUME NEW i \in 1 .. Len(s)
       PROVE  /\ lines[i].desc = t[s[i]].desc /\ lines[i].nfile = t[s[i]].nfile
              /\ SaysBytes(lines[i].byte, t[s[i]].sum["byte"])
              /\ SaysBytes(lines[i].block, BlockSize * t[s[i]].sum["block"])
  <2>1. lines[i] = TextLine(t[s[i]], Buffer(bytes, i + 2, wraps), Buffer(blocks, i + 1, wraps))
    BY <1>1
  <2>. HIDE DEF lines, bytes, blocks
  <2>2. /\ lines[i].desc = t[s[i]].desc /\ lines[i].nfile = t[s[i]].nfile
        /\ lines[i].byte = Buffer(bytes, i + 2, wraps)
        /\ lines[i].block = Buffer(blocks, i + 1, wraps)
    BY <2>1 DEF TextLine
  <2>3. bytes[i + 2] = t[s[i]].sum["byte"] /\ blocks[i + 1] = BlockSize * t[s[i]].sum["block"]
    BY <1>1, <1>10
  <2>4. bytes[i + 2] \in Int /\ blocks[i + 1] \in Int
    <3>. HIDE DEF ofBytes, ofBlocks
    <3>. QED
      BY <1>6, <1>10
  <2>5. i + 2 \in Nat /\ i + 1 \in Nat /\ i + 2 >= 1 /\ i + 1 >= 1
    BY <1>1
  <2>6. SaysBytes(Buffer(bytes, i + 2, wraps), bytes[i + 2])
    BY <2>4, <2>5, BytesSaid
  <2>7. SaysBytes(Buffer(blocks, i + 1, wraps), blocks[i + 1])
    BY <2>4, <2>5, BytesSaid
  <2>. QED
    BY Zenon, <2>2, <2>3, <2>6, <2>7
<1>. HIDE DEF lines, text
<1>15. /\ DOMAIN text.types = 1 .. Len(s) /\ Len(text.types) = Len(s)
       /\ \A i \in 1 .. Len(s) :
            /\ text.types[i].desc = t[s[i]].desc /\ text.types[i].nfile = t[s[i]].nfile
            /\ SaysBytes(text.types[i].byte, t[s[i]].sum["byte"])
            /\ SaysBytes(text.types[i].block, BlockSize * t[s[i]].sum["block"])
  BY Zenon, <1>11, <1>13, <1>14
<1>. QED
  BY Zenon, <1>12, <1>15 DEF text

(* The XML report: its types are those of the slots s, with their sums,    *)
(* and with their extremes as far as these are ints.                       *)
LEMMA XmlSays ==
  ASSUME t \in [Slots -> Entry], NEW s \in Seq(Used)
  PROVE  LET types == files_report_xml(s).types
         IN /\ DOMAIN types = 1 .. Len(s) /\ Len(types) = Len(s)
            /\ \A i \in 1 .. Len(s) :
                 /\ types[i].desc = t[s[i]].desc /\ types[i].nfile = t[s[i]].nfile
                 /\ types[i].byte = t[s[i]].sum["byte"] /\ types[i].block = t[s[i]].sum["block"]
                 /\ \A m \in Measures : /\ SaysInt(types[i].min[m], t[s[i]].min[m])
                                        /\ SaysInt(types[i].max[m], t[s[i]].max[m])
<1>. DEFINE types == files_report_xml(s).types
            lines == [i \in DOMAIN s |-> XmlType(t[s[i]])]
<1>1. Len(s) \in Nat /\ DOMAIN s = 1 .. Len(s) /\ \A i \in 1 .. Len(s) : s[i] \in Slots
  BY DEF Used
<1>2. types = lines
  BY DEF files_report_xml
<1>3. DOMAIN lines = 1 .. Len(s) /\ Len(lines) = Len(s)
  <2>1. DOMAIN lines = 1 .. Len(s)
    BY <1>1
  <2>2. lines \in Seq({lines[i] : i \in 1 .. Len(s)})
    BY <1>1
  <2>. HIDE DEF lines
  <2>. QED
    BY <1>1, <2>1, <2>2
<1>4. ASSUME NEW i \in 1 .. Len(s)
      PROVE  /\ lines[i].desc = t[s[i]].desc /\ lines[i].nfile = t[s[i]].nfile
             /\ lines[i].byte = t[s[i]].sum["byte"] /\ lines[i].block = t[s[i]].sum["block"]
             /\ \A m \in Measures : /\ SaysInt(lines[i].min[m], t[s[i]].min[m])
                                    /\ SaysInt(lines[i].max[m], t[s[i]].max[m])
  <2>. DEFINE e == t[s[i]]
  <2>1. lines[i] = XmlType(e)
    BY <1>1
  <2>2. e \in Entry
    BY <1>1
  <2>. HIDE DEF lines, e
  <2>3. /\ lines[i].desc = e.desc /\ lines[i].nfile = e.nfile
        /\ lines[i].byte = e.sum["byte"] /\ lines[i].block = e.sum["block"]
        /\ lines[i].min = [m \in Measures |-> AsInt(e.min[m])]
        /\ lines[i].max = [m \in Measures |-> AsInt(e.max[m])]
    BY <2>1 DEF XmlType
  <2>4. ASSUME NEW m \in Measures
        PROVE  SaysInt(lines[i].min[m], e.min[m]) /\ SaysInt(lines[i].max[m], e.max[m])
    <3>1. e.min[m] \in Int /\ e.max[m] \in Int
      <4>1. e.min \in [Measures -> Int] /\ e.max \in [Measures -> Int]
        BY <2>2, EntryType
      <4>. QED
        BY <4>1
    <3>2. lines[i].min[m] = AsInt(e.min[m]) /\ lines[i].max[m] = AsInt(e.max[m])
      BY <2>3
    <3>3. SaysInt(AsInt(e.min[m]), e.min[m]) /\ SaysInt(AsInt(e.max[m]), e.max[m])
      BY <3>1, IntSaid
    <3>. QED
      BY Zenon, <3>2, <3>3
  <2>. QED
    BY <2>3, <2>4 DEF e
<1>. HIDE DEF lines, types
<1>. QED
  BY Zenon, <1>2, <1>3, <1>4 DEF types

(* The invariant says that the table is exact ...                          *)
LEMMA TableFollows ==
  ASSUME FilesInv
  PROVE  TableExact
<1>1. TableInv /\ WalkInv
  BY DEF FilesInv
<1>2. ASSUME NEW d \in {TypeOf(f) : f \in counted}
      PROVE  \E k \in Slots :
               /\ {j \in Used : t[j].desc = d} = {k}
               /\ t[k].nfile = Cardinality(OfType(d))
               /\ \A m \in Measures :
                    /\ t[k].sum[m] = Sum(OfType(d), m)
                    /\ t[k].min[m] = Min({f[m] : f \in OfType(d)})
                    /\ t[k].max[m] = Max({f[m] : f \in OfType(d)})
                    /\ m # "block" => /\ \E f \in OfType(d) : f.name = t[k].minf[m] /\ f[m] = t[k].min[m]
                                      /\ \E f \in OfType(d) : f.name = t[k].maxf[m] /\ f[m] = t[k].max[m]
  <2>. DEFINE S == OfType(d)
  <2>1. PICK k \in Used : t[k].desc = d
    BY <1>1 DEF TableInv
  <2>2. {j \in Used : t[j].desc = d} = {k}
    BY <1>1, <2>1, OneSlot
  <2>3. Describes(t[k], S) /\ S \in SUBSET Files
    BY <1>1, <2>1 DEF TableInv, OfType
  <2>4. k \in Slots
    BY DEF Used
  <2>. HIDE DEF S
  <2>5. t[k].nfile = Cardinality(S)
    BY <2>3 DEF Describes
  <2>6. ASSUME NEW m \in Measures
        PROVE  /\ t[k].sum[m] = Sum(S, m)
               /\ t[k].min[m] = Min({f[m] : f \in S})
               /\ t[k].max[m] = Max({f[m] : f \in S})
               /\ m # "block" => /\ \E f \in S : f.name = t[k].minf[m] /\ f[m] = t[k].min[m]
                                 /\ \E f \in S : f.name = t[k].maxf[m] /\ f[m] = t[k].max[m]
    <3>1. /\ t[k].sum[m] = Sum(S, m)
          /\ \A f \in S : t[k].min[m] <= f[m] /\ f[m] <= t[k].max[m]
          /\ \E f \in S : f[m] = t[k].min[m] /\ (m # "block" => f.name = t[k].minf[m])
          /\ \E f \in S : f[m] = t[k].max[m] /\ (m # "block" => f.name = t[k].maxf[m])
      BY <2>3 DEF Describes
    <3>. DEFINE lo == t[k].min[m]
                hi == t[k].max[m]
    <3>2. /\ \A f \in S : lo <= f[m] /\ f[m] <= hi
          /\ \E f \in S : f[m] = lo
          /\ \E f \in S : f[m] = hi
      BY <3>1
    <3>3. Min({f[m] : f \in S}) = lo /\ Max({f[m] : f \in S}) = hi
      <4>. HIDE DEF lo, hi
      <4>. QED
        BY Zenon, <2>3, <3>2, Extremes
    <3>. QED
      BY <3>1, <3>2, <3>3
  <2>. QED
    BY <2>2, <2>4, <2>5, <2>6 DEF S
<1>3. \A k \in Used : OfType(t[k].desc) # {}
  BY <1>1 DEF TableInv, Describes
<1>. QED
  BY <1>1, <1>2, <1>3 DEF TableExact, WalkInv

(* ... the order right ...                                                 *)
LEMMA OrderFollows ==
  ASSUME FilesInv
  PROVE  OrderRight
<1>1. SUFFICES ASSUME pc = "done", printed # NoReport
               PROVE  OrderRight
  BY DEF OrderRight
<1>2. TableInv /\ DoneInv
  BY DEF FilesInv
<1>3. flags \cap {"REPORT_TXT", "REPORT_XML"} # {} /\ \E s \in Seq(Used) : Printed(s)
  BY <1>1, <1>2 DEF DoneInv
<1>4. PICK s \in Seq(Used) : Printed(s)
  BY <1>3
<1>5. /\ s \in Seq(Used) /\ Len(s) = Cardinality(Used)
      /\ \A k \in Used : \E i \in 1 .. Len(s) : s[i] = k
      /\ \A a, b \in 1 .. Len(s) : a < b => ~Precedes(SortBy, s[b], s[a])
  BY <1>4 DEF Printed, SortedTo
<1>6. /\ Len(s) \in Nat /\ DOMAIN s = 1 .. Len(s)
      /\ \A i \in 1 .. Len(s) : s[i] \in Used
  BY <1>5
<1>7. PICK wraps \in BOOLEAN :
        printed = IF "REPORT_TXT" \in flags THEN files_report_txt(T, s, wraps) ELSE files_report_xml(s)
  BY <1>4 DEF Printed
<1>. DEFINE types == printed.types
<1>8. /\ DOMAIN types = 1 .. Len(s) /\ Len(types) = Len(s)
      /\ \A i \in 1 .. Len(s) :
           /\ types[i].desc = t[s[i]].desc /\ types[i].nfile = t[s[i]].nfile
           /\ "REPORT_TXT" \in flags =>
                /\ SaysBytes(types[i].byte, t[s[i]].sum["byte"])
                /\ SaysBytes(types[i].block, BlockSize * t[s[i]].sum["block"])
           /\ "REPORT_XML" \in flags =>
                /\ types[i].byte = t[s[i]].sum["byte"] /\ types[i].block = t[s[i]].sum["block"]
                /\ \A m \in Measures : /\ SaysInt(types[i].min[m], t[s[i]].min[m])
                                       /\ SaysInt(types[i].max[m], t[s[i]].max[m])
  <2>1. t \in [Slots -> Entry] /\ T \in TotalsType
    BY <1>1, <1>2 DEF TableInv, DoneInv
  <2>2. CASE "REPORT_TXT" \in flags
    <3>1. types = files_report_txt(T, s, wraps).types
      BY <1>7, <2>2
    <3>2. ~("REPORT_XML" \in flags)
      BY <2>2 DEF FilesInv, WalkInv
    <3>. DEFINE lines == files_report_txt(T, s, wraps).types
    <3>3. /\ DOMAIN lines = 1 .. Len(s) /\ Len(lines) = Len(s)
          /\ \A i \in 1 .. Len(s) :
               /\ lines[i].desc = t[s[i]].desc /\ lines[i].nfile = t[s[i]].nfile
               /\ SaysBytes(lines[i].byte, t[s[i]].sum["byte"])
               /\ SaysBytes(lines[i].block, BlockSize * t[s[i]].sum["block"])
      BY Zenon, <2>1, TextSays
    <3>4. types = lines
      BY <3>1
    <3>. HIDE DEF types, lines
    <3>5. DOMAIN types = 1 .. Len(s) /\ Len(types) = Len(s)
      BY Zenon, <3>3, <3>4
    <3>6. \A i \in 1 .. Len(s) :
            /\ types[i].desc = t[s[i]].desc /\ types[i].nfile = t[s[i]].nfile
            /\ SaysBytes(types[i].byte, t[s[i]].sum["byte"])
            /\ SaysBytes(types[i].block, BlockSize * t[s[i]].sum["block"])
      BY Zenon, <3>3, <3>4
    <3>. QED
      BY Zenon, <3>2, <3>5, <3>6
  <2>3. CASE "REPORT_TXT" \notin flags
    <3>1. types = files_report_xml(s).types
      BY <1>7, <2>3
    <3>. HIDE DEF types
    <3>. QED
      BY Zenon, <2>1, <2>3, <3>1, XmlSays
  <2>. QED
    BY <2>2, <2>3
<1>9. \A i \in 1 .. Len(s) : types[i].desc = t[s[i]].desc /\ types[i].nfile = t[s[i]].nfile
  BY Zenon, <1>8
<1>. HIDE DEF types
<1>. DEFINE slot(i) == CHOOSE k \in Used : t[k].desc = types[i].desc
<1>10. ASSUME NEW i \in 1 .. Len(s)
       PROVE  slot(i) = s[i]
  <2>1. s[i] \in Used /\ t[s[i]].desc = types[i].desc
    BY <1>6, <1>9
  <2>2. slot(i) \in Used /\ t[slot(i)].desc = types[i].desc
    BY <2>1
  <2>. HIDE DEF slot
  <2>. QED
    BY <1>2, <2>1, <2>2, OneSlot
<1>11. \A i, j \in DOMAIN types : i < j => ~Precedes(SortBy, slot(j), slot(i))
  <2>. HIDE DEF slot
  <2>. QED
    BY <1>5, <1>8, <1>10
<1>12. {types[i].desc : i \in DOMAIN types} = {TypeOf(f) : f \in counted}
  <2>1. ASSUME NEW i \in DOMAIN types
        PROVE  types[i].desc \in {TypeOf(f) : f \in counted}
    <3>1. s[i] \in Used /\ types[i].desc = t[s[i]].desc
      BY <1>6, <1>8, <1>9
    <3>2. PICK f \in OfType(t[s[i]].desc) : TRUE
      BY <1>2, <3>1 DEF TableInv, Describes
    <3>. QED
      BY <3>1, <3>2 DEF OfType
  <2>2. ASSUME NEW f \in counted
        PROVE  \E i \in DOMAIN types : types[i].desc = TypeOf(f)
    <3>1. PICK k \in Used : t[k].desc = TypeOf(f)
      BY <1>2 DEF TableInv
    <3>2. PICK i \in 1 .. Len(s) : s[i] = k
      BY <1>5
    <3>. QED
      BY <1>8, <1>9, <3>1, <3>2
  <2>. QED
    BY <2>1, <2>2
<1>13. ASSUME NEW i \in DOMAIN types
       PROVE  /\ types[i].nfile = Cardinality(OfType(types[i].desc))
              /\ "REPORT_TXT" \in flags =>
                   /\ SaysBytes(types[i].byte, Sum(OfType(types[i].desc), "byte"))
                   /\ SaysBytes(types[i].block, BlockSize * Sum(OfType(types[i].desc), "block"))
              /\ "REPORT_XML" \in flags =>
                   /\ types[i].byte = Sum(OfType(types[i].desc), "byte")
                   /\ types[i].block = Sum(OfType(types[i].desc), "block")
                   /\ \A m \in Measures :
                        /\ SaysInt(types[i].min[m], Min({f[m] : f \in OfType(types[i].desc)}))
                        /\ SaysInt(types[i].max[m], Max({f[m] : f \in OfType(types[i].desc)}))
  <2>. DEFINE S == OfType(types[i].desc)
              e == t[s[i]]
  <2>1. s[i] \in Used /\ i \in 1 .. Len(s) /\ types[i].desc = e.desc
    BY <1>6, <1>8, <1>9
  <2>2. Describes(e, S) /\ S \in SUBSET Files
    BY <1>2, <2>1 DEF TableInv, OfType
  <2>. HIDE DEF S
  <2>3. e.nfile = Cardinality(S) /\ \A m \in Measures : e.sum[m] = Sum(S, m)
    BY <2>2 DEF Describes
  <2>4. types[i].nfile = Cardinality(S)
    BY <1>9, <2>1, <2>3
  <2>5. e.sum["byte"] = Sum(S, "byte") /\ e.sum["block"] = Sum(S, "block")
    BY <2>3 DEF Measures
  <2>6. ASSUME NEW m \in Measures
        PROVE  Min({f[m] : f \in S}) = e.min[m] /\ Max({f[m] : f \in S}) = e.max[m]
    <3>. DEFINE lo == e.min[m]
                hi == e.max[m]
    <3>1. /\ \A f \in S : lo <= f[m] /\ f[m] <= hi
          /\ \E f \in S : f[m] = lo
          /\ \E f \in S : f[m] = hi
      BY <2>2 DEF Describes
    <3>. HIDE DEF lo, hi
    <3>2. Min({f[m] : f \in S}) = lo /\ Max({f[m] : f \in S}) = hi
      BY Zenon, <2>2, <3>1, Extremes
    <3>. QED
      BY <3>2 DEF lo, hi
  <2>7. "REPORT_TXT" \in flags =>
          /\ SaysBytes(types[i].byte, Sum(S, "byte"))
          /\ SaysBytes(types[i].block, BlockSize * Sum(S, "block"))
    BY Zenon, <1>8, <2>1, <2>5
  <2>8. "REPORT_XML" \in flags =>
          /\ types[i].byte = Sum(S, "byte") /\ types[i].block = Sum(S, "block")
          /\ \A m \in Measures : /\ SaysInt(types[i].min[m], Min({f[m] : f \in S}))
                                 /\ SaysInt(types[i].max[m], Max({f[m] : f \in S}))
    BY Zenon, <1>8, <2>1, <2>5, <2>6
  <2>. QED
    BY Zenon, <2>4, <2>7, <2>8 DEF S
<1>14. Len(types) = Cardinality(Used)
  BY <1>5, <1>8
<1>. QED
  BY Zenon, <1>11, <1>12, <1>13, <1>14 DEF OrderRight, types

(* ... and so the totals.                                                  *)
LEMMA TotalsFollow ==
  ASSUME FilesInv
  PROVE  TotalsRight
<1>1. SUFFICES ASSUME pc = "done", counted # {}
               PROVE  TotalsRight
  BY DEF TotalsRight
<1>2. TableInv /\ WalkInv /\ DoneInv
  BY DEF FilesInv
<1>3. Totalled(T, counted) /\ counted \in SUBSET Files
  BY <1>1, <1>2 DEF DoneInv, TableInv
<1>4. ASSUME NEW m \in Ages
      PROVE  T.min[m] = Min({f[m] : f \in counted}) /\ T.max[m] = Max({f[m] : f \in counted})
  <2>. DEFINE lo == T.min[m]
              hi == T.max[m]
  <2>1. /\ \A f \in counted : lo <= f[m] /\ f[m] <= hi
        /\ \E f \in counted : f[m] = lo
        /\ \E f \in counted : f[m] = hi
    BY <1>1, <1>3 DEF Totalled
  <2>2. m \in Measures
    BY DEF Ages, Measures
  <2>3. Min({f[m] : f \in counted}) = lo /\ Max({f[m] : f \in counted}) = hi
    <3>. HIDE DEF lo, hi
    <3>. QED
      BY Zenon, <1>3, <2>1, <2>2, Extremes
  <2>. QED
    BY <2>3
<1>5. ASSUME "REPORT_TXT" \in flags
      PROVE  /\ printed.heading.files = Cardinality(counted)
             /\ SaysBytes(printed.heading.data, Sum(counted, "byte"))
             /\ SaysAge(printed.heading.oldest, files_start_t - Min({f.cage : f \in counted}))
             /\ SaysAge(printed.heading.newest, files_start_t - Max({f.cage : f \in counted}))
             /\ printed.heading.users \subseteq {f.uid : f \in counted}
  <2>1. PICK s \in Seq(Used) : Printed(s)
    BY <1>1, <1>2, <1>5 DEF DoneInv
  <2>2. PICK wraps \in BOOLEAN : printed = files_report_txt(T, s, wraps)
    BY <1>5, <2>1 DEF Printed
  <2>3. /\ printed.heading.users = owners /\ printed.heading.files = T.nfile
        /\ printed.heading.oldest = human_age(files_start_t - T.min["cage"])
        /\ printed.heading.newest = human_age(files_start_t - T.max["cage"])
    BY <2>2 DEF files_report_txt
  <2>4. T.min["cage"] = Min({f["cage"] : f \in counted}) /\ T.max["cage"] = Max({f["cage"] : f \in counted})
    BY <1>4 DEF Ages
  <2>5. T.nfile = Cardinality(counted) /\ T.sum["byte"] = Sum(counted, "byte")
    BY <1>3 DEF Totalled
  <2>6. t \in [Slots -> Entry] /\ T \in TotalsType
    BY <1>1, <1>2 DEF TableInv, DoneInv
  <2>7. SaysBytes(printed.heading.data, T.sum["byte"])
    BY Zenon, <2>1, <2>2, <2>6, TextSays
  <2>8. files_start_t - T.min["cage"] \in Int /\ files_start_t - T.max["cage"] \in Int
    <3>1. T.min["cage"] \in Int /\ T.max["cage"] \in Int
      BY <2>6 DEF TotalsType, Measures
    <3>2. files_start_t \in Int
      BY FilesAssumption
    <3>. QED
      BY <3>1, <3>2
  <2>9. /\ SaysAge(human_age(files_start_t - T.min["cage"]), files_start_t - T.min["cage"])
        /\ SaysAge(human_age(files_start_t - T.max["cage"]), files_start_t - T.max["cage"])
    BY <2>8, AgeSaid
  <2>. QED
    BY <1>2, <2>3, <2>4, <2>5, <2>7, <2>9 DEF WalkInv
<1>6. T.min["mage"] = Min({f["mage"] : f \in counted}) /\ T.max["mage"] = Max({f["mage"] : f \in counted})
  BY <1>4 DEF Ages
<1>. QED
  BY <1>5, <1>6 DEF TotalsRight

(* Whatever the order of the walk and the collisions of the types, each    *)
(* type counted has one slot, with its files, their sums and extremes      *)
(* (pfile).                                                                *)
THEOREM TableCorrect == Spec => []TableExact
<1>1. FilesInv => TableExact
  BY TableFollows
<1>. QED
  BY <1>1, FilesCorrect, PTL

(* The report of main lists each type once, in the order of the field      *)
(* asked for, with the number of its files (the three passes); their sums  *)
(* and extremes are in the XML report, and the text report says their      *)
(* bytes and blocks where human_byte writes a figure (from 1024 on).       *)
THEOREM OrderCorrect == Spec => []OrderRight
<1>1. FilesInv => OrderRight
  BY OrderFollows
<1>. QED
  BY <1>1, FilesCorrect, PTL

(* The heading of the text report has the number of all files counted and  *)
(* owners of these only; it says the ages of the oldest and the newest,    *)
(* and the bytes of all where human_byte writes a figure (from 1024 on).   *)
THEOREM TotalsCorrect == Spec => []TotalsRight
<1>1. FilesInv => TotalsRight
  BY TotalsFollow
<1>. QED
  BY <1>1, FilesCorrect, PTL
=============================================================================
