--------------------------- MODULE IpmHashProofs ----------------------------
(***************************************************************************)
(* Theorems about the event hash table, for every table size, limit, key   *)
(* layout and number of events.                                            *)
(***************************************************************************)
EXTENDS IpmHash, TLAPS, FiniteSetTheorems, SequenceTheorems, WellFoundedInduction

(* The lemmas about sums; none of those about folds is used here.          *)
Plus(x, y) == x + y
AnyValue(b, x) == TRUE

INSTANCE FoldTheorems WITH Step <- Plus, Good <- AnyValue

Frames == [saved : [Slots -> Entries], i : Slots, key : Keys]

(* Masking a key (IPM_MPI_KEY) leaves a key.                               *)
LEMMA MaskedType ==
  ASSUME NEW k \in Keys, NEW g \in [Calls -> Nat \ {0}]
  PROVE  Masked(k, g) \in Keys
<1>1. k.call \in Calls /\ k.size \in Nat
  BY DEF Keys
<1>2. g[k.call] \in Nat /\ g[k.call] > 0
  BY <1>1
<1>3. k.size \div g[k.call] \in Nat
  BY <1>1, <1>2
<1>4. (k.size \div g[k.call]) * g[k.call] \in Nat
  BY <1>2, <1>3
<1>. QED
  BY <1>4 DEF Masked, Keys

(* Every probe of IPM_HASH_HKEY is inside the table.                       *)
LEMMA ProbeType ==
  ASSUME NEW k \in Keys, NEW c \in Nat
  PROVE  Probe(k, c) \in Slots
<1>1. /\ k.region \in Nat /\ k.call \in Nat /\ k.rank \in Int /\ k.size \in Nat
  BY KeyAssumption DEF Keys
<1>2. Packed(k) \in Nat
  <2>. DEFINE r == IF k.rank < 0 THEN -k.rank ELSE k.rank
              n == IF k.rank < 0 THEN SizeSpan ELSE 0
  <2>1. r \in Nat /\ n \in Nat
    BY <1>1, TableAssumption
  <2>2. k.region * CallRadix \in Nat
    BY <1>1, TableAssumption
  <2>3. (k.region * CallRadix + k.call) * RankRadix \in Nat
    BY <1>1, <2>2, TableAssumption
  <2>4. ((k.region * CallRadix + k.call) * RankRadix + r) * (2 * SizeSpan) \in Nat
    BY <2>1, <2>3, TableAssumption
  <2>. QED
    BY <1>1, <2>1, <2>4 DEF Packed
<1>3. (Packed(k) % (M - 2)) \in Nat
  BY <1>2, TableAssumption
<1>4. (c * (1 + (Packed(k) % (M - 2)))) \in Nat
  BY <1>3
<1>. QED
  BY <1>2, <1>4, TableAssumption DEF Probe, Slots

(* A non-empty set of slots has a lowest one, where the re-insertion loop  *)
(* of ipm_hash_cull goes on.                                               *)
LEMMA LowestSlot ==
  ASSUME NEW S \in SUBSET Slots, S # {}
  PROVE  LowestOf(S) \in S
<1>1. M - 1 \in Nat /\ S \in SUBSET (0 .. M - 1)
  BY TableAssumption DEF Slots
<1>2. \E x \in S : \A y \in S : x <= y
  BY <1>1, LeastNatural
<1>. QED
  BY <1>2 DEF LowestOf

(* Merging two entries gives an entry.                                     *)
LEMMA MergedType ==
  ASSUME NEW e \in Entries,
         NEW f, f.count \in Nat, f.t_tot \in Nat, f.t_max \in Nat, f.t_min \in Nat
  PROVE  /\ Merged(e, f) \in Entries
         /\ Merged(e, f).key = e.key
<1>1. /\ e.count + f.count \in Nat /\ e.t_tot + f.t_tot \in Nat
      /\ (IF f.t_max > e.t_max THEN f.t_max ELSE e.t_max) \in Nat
      /\ (IF f.t_min < e.t_min THEN f.t_min ELSE e.t_min) \in Nat
  BY DEF Entries
<1>2. e.key \in Keys \cup {NoKey}
  BY DEF Entries
<1>. QED
  BY <1>1, <1>2 DEF Merged, Entries

(* The two entries a slot is set to are entries.                           *)
LEMMA EntryTypes ==
  /\ FreeEntry \in Entries
  /\ \A k \in Keys : NewEntry(k) \in Entries
BY KeyAssumption DEF FreeEntry, NewEntry, Entries

(* A loop of ipm_hash_cull that goes on from a saved entry is well formed. *)
LEMMA ReinsertingType ==
  ASSUME NEW saved \in [Slots -> Entries], NEW n \in Int,
         NEW g \in [Calls -> Nat \ {0}], Remaining(saved, n) # {}
  PROVE  Reinserting(saved, LowestOf(Remaining(saved, n)), g) \in Frames
<1>. DEFINE s == LowestOf(Remaining(saved, n))
<1>1. s \in Slots /\ saved[s].key # NoKey
  BY LowestSlot DEF Remaining
<1>2. saved[s].key \in Keys
  BY <1>1 DEF Entries
<1>. QED
  BY <1>1, <1>2, MaskedType DEF Reinserting, Frames

(* While a probe is under way, its key is a key and its slot a slot.       *)
LEMMA CurType ==
  ASSUME TypeOK, pc = "probe"
  PROVE  CurKey \in Keys /\ CurSlot \in Slots
<1>1. CurKey \in Keys
  <2>1. CASE culls = <<>>
    BY <2>1 DEF TypeOK, CurKey
  <2>2. CASE culls # <<>>
    <3>1. Head(culls) \in Frames
      BY <2>2, HeadTailProperties DEF TypeOK, Frames
    <3>. QED
      BY <2>2, <3>1 DEF CurKey, Frames
  <2>. QED
    BY <2>1, <2>2
<1>2. collisions \in Nat
  BY TableAssumption DEF TypeOK
<1>. QED
  BY <1>1, <1>2, ProbeType DEF CurSlot

(* The probe counter stays below the size of the table.                    *)
LEMMA NextCollision ==
  ASSUME collisions \in 0 .. M - 1
  PROVE  (collisions + 1) % M \in 0 .. M - 1
BY TableAssumption
-----------------------------------------------------------------------------
(* Every variable of the table keeps its type.                             *)
THEOREM TypeCorrect == Spec => []TypeOK
<1>1. Init => TypeOK
  <2>. SUFFICES ASSUME Init PROVE TypeOK
    OBVIOUS
  <2>1. culls \in Seq(Frames)
    BY EmptySeq DEF Init
  <2>2. hash \in [Slots -> Entries] /\ grain \in [Calls -> Nat \ {0}]
    BY EntryTypes DEF Init
  <2>3. event \in [key : Keys \cup {NoKey}, wall : Nat]
    BY DEF Init
  <2>4. hash_nlog \in 0 .. MaxEvents /\ collisions \in 0 .. M - 1
    BY TableAssumption DEF Init
  <2>5. hash_nkey \in Nat /\ pc = "idle" /\ resumed \in BOOLEAN
    BY DEF Init
  <2>. QED
    BY <2>1, <2>2, <2>3, <2>4, <2>5 DEF TypeOK, Frames
<1>2. TypeOK /\ [Next]_vars => TypeOK'
  <2>. SUFFICES ASSUME TypeOK, [Next]_vars PROVE TypeOK'
    OBVIOUS
  <2>. USE DEF Frames
  <2>1. ASSUME NEW k \in EventKeys, NEW wall \in Walls, LogEvent(k, wall)
        PROVE  TypeOK'
    <3>1. k \in Keys /\ wall \in Nat
      BY KeyAssumption DEF EventKeys, Keys
    <3>2. Masked(k, grain) \in Keys
      BY <3>1, MaskedType DEF TypeOK
    <3>3. hash_nlog + 1 \in 0 .. MaxEvents
      BY <2>1, TableAssumption DEF LogEvent, TypeOK
    <3>. QED
      BY <2>1, <3>1, <3>2, <3>3, TableAssumption DEF LogEvent, TypeOK
  <2>2. CASE InsertKey
    <3>1. CurKey \in Keys /\ CurSlot \in Slots
      BY <2>2, CurType DEF InsertKey
    <3>2. NewEntry(CurKey) \in Entries
      BY <3>1, EntryTypes
    <3>. QED
      BY <2>2, <3>1, <3>2 DEF InsertKey, TypeOK
  <2>3. CASE CountEvent
    <3>1. CurSlot \in Slots
      BY <2>3, CurType DEF CountEvent
    <3>. DEFINE one == [count |-> 1, t_tot |-> event.wall,
                        t_max |-> event.wall, t_min |-> event.wall]
    <3>2. Merged(hash[CurSlot], one) \in Entries
      BY <3>1, MergedType DEF TypeOK
    <3>. QED
      BY <2>3, <3>1, <3>2 DEF CountEvent, TypeOK
  <2>4. CASE ReinsertEntry
    <3>. DEFINE top == Head(culls)
                rest == Remaining(top.saved, top.i + 1)
    <3>1. CurSlot \in Slots
      BY <2>4, CurType DEF ReinsertEntry
    <3>2. top \in Frames /\ Tail(culls) \in Seq(Frames)
      BY <2>4, HeadTailProperties DEF ReinsertEntry, TypeOK
    <3>3. top.saved \in [Slots -> Entries] /\ top.i \in Slots
      BY <3>2
    <3>4. Merged(hash[CurSlot], top.saved[top.i]) \in Entries
      <4>1. top.saved[top.i] \in Entries
        BY <3>3
      <4>. QED
        BY <3>1, <4>1, MergedType DEF Entries, TypeOK
    <3>5. hash' \in [Slots -> Entries]
      BY <2>4, <3>1, <3>4 DEF ReinsertEntry, TypeOK
    <3>6. CASE rest = {}
      <4>1. culls' = Tail(culls) /\ collisions' = (collisions + 1) % M /\ resumed' = TRUE
        BY <2>4, <3>6 DEF ReinsertEntry
      <4>2. collisions' \in 0 .. M - 1
        BY <4>1, NextCollision DEF TypeOK
      <4>. QED
        BY <2>4, <3>2, <3>5, <4>1, <4>2 DEF ReinsertEntry, TypeOK
    <3>7. CASE rest # {}
      <4>. DEFINE next == Reinserting(top.saved, LowestOf(rest), grain)
      <4>1. /\ culls' = <<next>> \o Tail(culls)
            /\ collisions' = 0 /\ resumed' = resumed
        BY <2>4, <3>7 DEF ReinsertEntry
      <4>2. top.i + 1 \in Int
        BY <3>3, TableAssumption DEF Slots
      <4>3. next \in Frames
        BY <3>3, <3>7, <4>2, ReinsertingType DEF TypeOK
      <4>4. <<next>> \in Seq(Frames)
        BY <4>3
      <4>5. culls' \in Seq(Frames)
        BY <3>2, <4>1, <4>4, ConcatProperties
      <4>. QED
        BY <2>4, <3>5, <4>1, <4>5, TableAssumption DEF ReinsertEntry, TypeOK
    <3>. QED
      BY <3>6, <3>7
  <2>5. CASE NextProbe
    BY <2>5, NextCollision DEF NextProbe, TypeOK
  <2>6. CASE Cull
    <3>1. CurSlot \in Slots /\ CurSlot \in Remaining(hash, 0)
      BY <2>6, CurType, TableAssumption DEF Cull, Collision, Remaining, Slots
    <3>2. grain' \in [Calls -> Nat \ {0}]
      <4>. DEFINE d == MostDenseCall
      <4>1. grain' = [grain EXCEPT ![d] = 2 * @]
        BY <2>6 DEF Cull
      <4>. HIDE DEF d
      <4>2. grain \in [Calls -> Nat \ {0}]
        BY DEF TypeOK
      <4>3. \A c \in Calls : 2 * grain[c] \in Nat \ {0}
        BY <4>2
      <4>. QED
        BY <4>1, <4>2, <4>3
    <3>3. hash' \in [Slots -> Entries] /\ hash_nkey' \in Nat
      BY <2>6, EntryTypes DEF Cull
    <3>. DEFINE first == Reinserting(hash, LowestOf(Remaining(hash, 0)), grain')
    <3>4. CASE 2 * grain[MostDenseCall] < MaskRange
      <4>1. /\ culls' = <<first>> \o culls
            /\ collisions' = 0 /\ pc' = pc
        BY <2>6, <3>4 DEF Cull
      <4>2. first \in Frames
        <5>1. Remaining(hash, 0) # {} /\ hash \in [Slots -> Entries] /\ 0 \in Int
          BY <3>1 DEF TypeOK
        <5>. QED
          BY <3>2, <5>1, ReinsertingType
      <4>3. <<first>> \in Seq(Frames)
        BY <4>2
      <4>4. culls' \in Seq(Frames)
        BY <4>1, <4>3, ConcatProperties DEF TypeOK
      <4>. QED
        <5>1. UNCHANGED <<hash_nlog, event, resumed>>
          BY <2>6 DEF Cull
        <5>2. collisions' \in 0 .. M - 1
          BY <4>1, TableAssumption
        <5>3. pc' = pc
          BY <4>1
        <5>. QED
          BY <3>2, <3>3, <4>4, <5>1, <5>2, <5>3 DEF TypeOK
    <3>5. CASE ~(2 * grain[MostDenseCall] < MaskRange)
      BY <2>6, <3>2, <3>3, <3>5 DEF Cull, TypeOK
    <3>. QED
      BY <3>4, <3>5
  <2>7. CASE UNCHANGED vars
    BY <2>7 DEF vars, TypeOK
  <2>. QED
    BY <2>1, <2>2, <2>3, <2>4, <2>5, <2>6, <2>7 DEF Next, HashStep
<1>. QED
  BY <1>1, <1>2, PTL DEF Spec
-----------------------------------------------------------------------------
(* The slots in use can be counted.                                        *)
LEMMA OccupiedFinite == IsFiniteSet(Occupied)
<1>1. IsFiniteSet(Slots)
  BY FS_Interval, TableAssumption DEF Slots
<1>. QED
  BY <1>1, FS_Subset DEF Occupied

(* Counting an event in an entry, or merging a saved entry into it, leaves *)
(* every slot's key as it was.                                             *)
LEMMA MergeKeepsKeys ==
  ASSUME TypeOK, CountEvent \/ ReinsertEntry
  PROVE  \A s \in Slots : hash'[s].key = hash[s].key
<1>1. CurSlot \in Slots
  BY CurType DEF CountEvent, ReinsertEntry
<1>2. \E f : hash' = [hash EXCEPT ![CurSlot] = Merged(@, f)]
  BY DEF CountEvent, ReinsertEntry
<1>3. \A f : Merged(hash[CurSlot], f).key = hash[CurSlot].key
  BY DEF Merged
<1>. QED
  BY <1>1, <1>2, <1>3 DEF TypeOK

(* hash_nkey counts the slots in use, at every step of a probe or a cull.  *)
THEOREM NkeyCorrect == Spec => []NkeyExact
<1>1. Init => NkeyExact
  <2>. SUFFICES ASSUME Init PROVE NkeyExact
    OBVIOUS
  <2>1. Occupied = {}
    BY DEF Init, Occupied, FreeEntry
  <2>. QED
    BY <2>1, FS_EmptySet DEF Init, NkeyExact
<1>2. TypeOK /\ NkeyExact /\ [Next]_vars => NkeyExact'
  <2>. SUFFICES ASSUME TypeOK, NkeyExact, [Next]_vars PROVE NkeyExact'
    OBVIOUS
  <2>1. CASE InsertKey
    <3>1. CurKey \in Keys /\ CurSlot \in Slots
      BY <2>1, CurType DEF InsertKey
    <3>2. CurKey # NoKey
      BY <3>1, NoKeyAssumption
    <3>3. hash' = [hash EXCEPT ![CurSlot] = NewEntry(CurKey)]
      BY <2>1 DEF InsertKey
    <3>4. NewEntry(CurKey).key = CurKey
      BY DEF NewEntry
    <3>5. Occupied' = Occupied \cup {CurSlot}
      BY <3>1, <3>2, <3>3, <3>4 DEF Occupied, TypeOK
    <3>6. CurSlot \notin Occupied
      BY <2>1 DEF InsertKey, Occupied
    <3>7. Cardinality(Occupied \cup {CurSlot}) = Cardinality(Occupied) + 1
      BY <3>6, OccupiedFinite, FS_AddElement
    <3>. QED
      BY <2>1, <3>5, <3>7 DEF InsertKey, NkeyExact
  <2>2. CASE CountEvent \/ ReinsertEntry
    <3>1. Occupied' = Occupied
      BY <2>2, MergeKeepsKeys DEF Occupied
    <3>2. hash_nkey' = hash_nkey
      BY <2>2 DEF CountEvent, ReinsertEntry
    <3>. QED
      BY <3>1, <3>2 DEF NkeyExact
  <2>3. CASE Cull
    <3>1. Occupied' = {}
      BY <2>3 DEF Cull, Occupied, FreeEntry
    <3>. QED
      BY <2>3, <3>1, FS_EmptySet DEF Cull, NkeyExact
  <2>4. CASE UNCHANGED <<hash, hash_nkey>>
    BY <2>4 DEF NkeyExact, Occupied
  <2>5. ASSUME NEW k \in EventKeys, NEW wall \in Walls, LogEvent(k, wall)
        PROVE  NkeyExact'
    BY <2>4, <2>5 DEF LogEvent
  <2>6. CASE NextProbe
    BY <2>4, <2>6 DEF NextProbe
  <2>7. CASE UNCHANGED vars
    BY <2>4, <2>7 DEF vars
  <2>. QED
    BY <2>1, <2>2, <2>3, <2>5, <2>6, <2>7 DEF Next, HashStep
<1>. QED
  BY <1>1, <1>2, TypeCorrect, PTL DEF Spec
-----------------------------------------------------------------------------
(* The slots probed before the present one hold other keys.                *)
ProbedOthers ==
  pc = "probe" =>
    \A d \in 0 .. collisions - 1 : hash[Probe(CurKey, d)].key \notin {NoKey, CurKey}

FindInv == FindableUntilResumed /\ (~resumed => ProbedOthers)

(* Entering the key of the probe in the free slot it has reached keeps     *)
(* every entry findable, the new one included.                             *)
LEMMA InsertKeepsFindable ==
  ASSUME TypeOK, FindInv, ~resumed, InsertKey
  PROVE  FindInv'
<1>1. CurKey \in Keys /\ CurSlot \in Slots
  BY CurType DEF InsertKey
<1>2. hash' = [hash EXCEPT ![CurSlot] = NewEntry(CurKey)]
  BY DEF InsertKey
<1>3. /\ CurKey' = CurKey /\ collisions' = collisions /\ pc' = pc
      /\ resumed' = resumed
  BY DEF InsertKey, CurKey
<1>4. hash[CurSlot].key = NoKey /\ pc = "probe"
  BY DEF InsertKey
<1>5. hash'[CurSlot].key = CurKey
  BY <1>1, <1>2 DEF NewEntry, TypeOK
<1>6. \A s \in Slots \ {CurSlot} : hash'[s] = hash[s]
  BY <1>2 DEF TypeOK
<1>7. ASSUME NEW k \in Keys, NEW c \in 0 .. M - 1,
             \A d \in 0 .. c - 1 : hash[Probe(k, d)].key \notin {NoKey, k}
      PROVE  \A d \in 0 .. c - 1 : hash'[Probe(k, d)].key \notin {NoKey, k}
  <2>. SUFFICES ASSUME NEW d \in 0 .. c - 1
                PROVE  hash'[Probe(k, d)].key \notin {NoKey, k}
    OBVIOUS
  <2>1. hash[Probe(k, d)].key \notin {NoKey, k}
    BY <1>7
  <2>2. d \in Nat
    BY TableAssumption
  <2>3. Probe(k, d) \in Slots
    BY <2>2, ProbeType
  <2>4. Probe(k, d) # CurSlot
    BY <1>4, <2>1
  <2>. QED
    BY <1>6, <2>1, <2>3, <2>4
<1>8. collisions \in 0 .. M - 1
  BY DEF TypeOK
<1>9. \A d \in 0 .. collisions - 1 : hash'[Probe(CurKey, d)].key \notin {NoKey, CurKey}
  <2>1. \A d \in 0 .. collisions - 1 : hash[Probe(CurKey, d)].key \notin {NoKey, CurKey}
    BY <1>4 DEF FindInv, ProbedOthers
  <2>. QED
    BY <1>1, <1>7, <1>8, <2>1
<1>10. ASSUME NEW s \in Slots, hash'[s].key # NoKey
       PROVE  FoundAt(hash[s].key, s)'
  <2>1. CASE s = CurSlot
    BY <1>5, <1>8, <1>9, <2>1 DEF FoundAt, CurSlot
  <2>2. CASE s # CurSlot
    <3>1. hash'[s] = hash[s]
      BY <1>6, <2>2
    <3>2. FoundAt(hash[s].key, s)
      BY <1>10, <3>1 DEF FindInv, FindableUntilResumed, Occupied
    <3>3. hash[s].key \in Keys
      BY <1>10, <3>1 DEF TypeOK, Entries
    <3>4. PICK c \in 0 .. M - 1 :
            /\ Probe(hash[s].key, c) = s
            /\ \A d \in 0 .. c - 1 : hash[Probe(hash[s].key, d)].key \notin {NoKey, hash[s].key}
      BY <3>2 DEF FoundAt
    <3>5. \A d \in 0 .. c - 1 : hash'[Probe(hash[s].key, d)].key \notin {NoKey, hash[s].key}
      BY <1>7, <3>3, <3>4
    <3>. QED
      BY <3>1, <3>4, <3>5 DEF FoundAt
  <2>. QED
    BY <2>1, <2>2
<1>11. FindableUntilResumed'
  BY <1>10 DEF FindableUntilResumed, Occupied
<1>12. ProbedOthers'
  BY <1>3, <1>9 DEF ProbedOthers
<1>. QED
  BY <1>11, <1>12 DEF FindInv

(* A step that changes no key leaves every entry findable.                 *)
LEMMA SameKeysFindable ==
  ASSUME TypeOK, FindableUntilResumed, ~resumed,
         \A s \in Slots : hash'[s].key = hash[s].key
  PROVE  FindableUntilResumed'
<1>1. ASSUME NEW s \in Slots, hash[s].key # NoKey
      PROVE  FoundAt(hash[s].key, s)'
  <2>1. hash[s].key \in Keys
    BY <1>1 DEF TypeOK, Entries
  <2>2. PICK c \in 0 .. M - 1 :
          /\ Probe(hash[s].key, c) = s
          /\ \A d \in 0 .. c - 1 : hash[Probe(hash[s].key, d)].key \notin {NoKey, hash[s].key}
    BY <1>1 DEF FindableUntilResumed, FoundAt, Occupied
  <2>3. \A d \in 0 .. c - 1 : Probe(hash[s].key, d) \in Slots
    <3>1. \A d \in 0 .. c - 1 : d \in Nat
      BY TableAssumption
    <3>. QED
      BY <2>1, <3>1, ProbeType
  <2>. QED
    BY <2>2, <2>3 DEF FoundAt
<1>. QED
  BY <1>1 DEF FindableUntilResumed, Occupied

(* Until a probe goes on after a cull it called, a later event finds every *)
(* entry (FindableUntilResumed), in the table and in one being rebuilt.    *)
THEOREM FindableCorrect == Spec => []FindableUntilResumed
<1>1. Init => FindInv
  BY DEF Init, FindInv, FindableUntilResumed, Occupied, FreeEntry, ProbedOthers
<1>2. TypeOK /\ FindInv /\ [Next]_vars => FindInv'
  <2>. SUFFICES ASSUME TypeOK, FindInv, [Next]_vars, ~resumed' PROVE FindInv'
    BY DEF FindInv, FindableUntilResumed
  <2>1. ~resumed
    BY DEF Next, HashStep, LogEvent, InsertKey, CountEvent, ReinsertEntry, NextProbe, Cull, vars
  <2>2. ASSUME NEW k \in EventKeys, NEW wall \in Walls, LogEvent(k, wall)
        PROVE  FindInv'
    <3>1. hash' = hash /\ collisions' = 0
      BY <2>2 DEF LogEvent
    <3>2. FindableUntilResumed'
      BY <2>1, <3>1, SameKeysFindable DEF FindInv
    <3>. QED
      BY <3>1, <3>2 DEF FindInv, ProbedOthers
  <2>3. CASE InsertKey
    BY <2>1, <2>3, InsertKeepsFindable
  <2>4. CASE CountEvent
    <3>1. FindableUntilResumed'
      BY <2>1, <2>4, MergeKeepsKeys, SameKeysFindable DEF FindInv
    <3>. QED
      BY <2>4, <3>1 DEF CountEvent, FindInv, ProbedOthers
  <2>5. CASE ReinsertEntry
    <3>1. FindableUntilResumed'
      BY <2>1, <2>5, MergeKeepsKeys, SameKeysFindable DEF FindInv
    <3>2. collisions' = 0
      BY <2>5 DEF ReinsertEntry
    <3>. QED
      BY <3>1, <3>2 DEF FindInv, ProbedOthers
  <2>6. CASE NextProbe
    <3>1. FindableUntilResumed'
      BY <2>1, <2>6, SameKeysFindable DEF NextProbe, FindInv
    <3>2. hash' = hash /\ CurKey' = CurKey /\ collisions' = (collisions + 1) % M
      BY <2>6 DEF NextProbe, CurKey
    <3>3. collisions \in 0 .. M - 1 /\ pc = "probe"
      BY <2>6 DEF NextProbe, Collision, TypeOK
    <3>4. hash[Probe(CurKey, collisions)].key \notin {NoKey, CurKey}
      BY <2>6 DEF NextProbe, Collision, CurSlot
    <3>5. \A d \in 0 .. collisions : hash[Probe(CurKey, d)].key \notin {NoKey, CurKey}
      BY <2>1, <3>3, <3>4, TableAssumption DEF FindInv, ProbedOthers
    <3>6. collisions' = IF collisions = M - 1 THEN 0 ELSE collisions + 1
      BY <3>2, <3>3, TableAssumption
    <3>7. \A d \in 0 .. collisions' - 1 : d \in 0 .. collisions
      BY <3>3, <3>6, TableAssumption
    <3>8. ProbedOthers'
      BY <3>2, <3>5, <3>7 DEF ProbedOthers
    <3>. QED
      BY <3>1, <3>8 DEF FindInv
  <2>7. CASE Cull
    <3>1. Occupied' = {}
      BY <2>7 DEF Cull, Occupied, FreeEntry
    <3>2. pc' = "exit" \/ collisions' = 0
      BY <2>7 DEF Cull
    <3>. QED
      BY <3>1, <3>2 DEF FindInv, FindableUntilResumed, ProbedOthers
  <2>8. CASE UNCHANGED vars
    BY <2>8 DEF vars, FindInv, FindableUntilResumed, Occupied, FoundAt, ProbedOthers, CurKey
  <2>. QED
    BY <2>2, <2>3, <2>4, <2>5, <2>6, <2>7, <2>8 DEF Next, HashStep
<1>3. FindInv => FindableUntilResumed
  BY DEF FindInv
<1>. QED
  BY <1>1, <1>2, <1>3, TypeCorrect, PTL DEF Spec

(* Until then the table holds no key twice (UniqueKeys): of two slots with *)
(* the same key, the probe that reaches the later one passes the other.    *)
THEOREM UniqueUntilResumed == Spec => [](~resumed => UniqueKeys)
<1>1. TypeOK /\ FindableUntilResumed => (~resumed => UniqueKeys)
  <2>. SUFFICES ASSUME TypeOK, FindableUntilResumed, ~resumed,
                       NEW s \in Occupied, NEW t \in Occupied,
                       hash[s].key = hash[t].key
                PROVE  s = t
    BY DEF UniqueKeys
  <2>. DEFINE k == hash[s].key
  <2>1. PICK c \in 0 .. M - 1 :
          /\ Probe(k, c) = s
          /\ \A d \in 0 .. c - 1 : hash[Probe(k, d)].key \notin {NoKey, k}
    BY DEF FindableUntilResumed, FoundAt
  <2>2. PICK e \in 0 .. M - 1 :
          /\ Probe(k, e) = t
          /\ \A d \in 0 .. e - 1 : hash[Probe(k, d)].key \notin {NoKey, k}
    BY DEF FindableUntilResumed, FoundAt
  <2>3. ~(c < e) /\ ~(e < c)
    <3>1. c < e => c \in 0 .. e - 1
      BY TableAssumption
    <3>2. e < c => e \in 0 .. c - 1
      BY TableAssumption
    <3>. QED
      BY <2>1, <2>2, <3>1, <3>2
  <2>4. c = e
    BY <2>3, TableAssumption
  <2>. QED
    BY <2>1, <2>2, <2>4
<1>. QED
  BY <1>1, TypeCorrect, FindableCorrect, PTL
-----------------------------------------------------------------------------
(***************************************************************************)
(* No event is lost or counted twice.                                      *)
(***************************************************************************)

(* The events that an entry, or what was logged with a key, stands for,    *)
(* and their time.                                                         *)
Figures == {"count", "t_tot"}
Figure(e, w) == IF w = "count" THEN e.count ELSE e.t_tot

(* The sum of a figure of the entries held, and of what was logged, with   *)
(* the keys that are masked to one of C.                                   *)
FiguresHeld(w) == [h \in Held |-> Figure(EntryAt(h), w)]
HeldIn(C) == {h \in Held : Masked(EntryAt(h).key, grain) \in C}
HeldSum(C, w) == SumOver(FiguresHeld(w), HeldIn(C))

FiguresLogged(w) == [k \in EventKeys |-> Figure(seen[k], w)]
LoggedIn(C) == {k \in EventKeys : Masked(k, grain) \in C}
LoggedSum(C, w) == SumOver(FiguresLogged(w), LoggedIn(C))

(* What the event that is being entered adds.                              *)
InHand(w) == IF w = "count" THEN 1 ELSE event.wall
InHandOf(C, w) == IF pc = "probe" /\ Masked(event.key, grain) \in C THEN InHand(w) ELSE 0

(* The inductive invariant is about every set of masked keys and not about *)
(* single ones: what one bit of precision less makes one key of were       *)
(* several.                                                                *)
Conserved ==
  pc # "exit" => \A C \in SUBSET Keys, w \in Figures :
                   HeldSum(C, w) + InHandOf(C, w) = LoggedSum(C, w)

(* The entry that a loop of ipm_hash_cull has reached is one that is in    *)
(* use, and the key that is looked for in the table is in its class.       *)
FramesInv ==
  \A n \in 1 .. Len(culls) :
    LET e == culls[n].saved[culls[n].i]
    IN e.key # NoKey /\ Masked(e.key, grain) = Masked(culls[n].key, grain)

SeenInv == seen \in [EventKeys -> [count : Nat, t_tot : Nat]]

(* Halving a number. *)
LEMMA Halves ==
  ASSUME NEW q \in Nat
  PROVE  \E p \in Nat, b \in {0, 1} : q = 2 * p + b
<1>1. q = 2 * (q \div 2) + (q % 2) /\ q \div 2 \in Nat /\ q % 2 \in {0, 1}
  OBVIOUS
<1>. QED
  BY <1>1

(* One bit of precision less, or the same precision: it does not matter    *)
(* that the key has been masked before.                                    *)
LEMMA MaskedTwice ==
  ASSUME NEW k \in Keys, NEW g \in [Calls -> Nat \ {0}], NEW u \in [Calls -> Nat \ {0}],
         \A c \in Calls : u[c] \in {g[c], 2 * g[c]}
  PROVE  Masked(Masked(k, g), u) = Masked(k, u)
<1>. DEFINE s == k.size
            a == g[k.call]
            q == s \div a
            r == s % a
<1>1. s \in Nat /\ a \in Nat \ {0} /\ k.call \in Calls
  BY DEF Keys
<1>2. u[k.call] \in {a, 2 * a}
  BY <1>1
<1>3. q \in Nat /\ r \in 0 .. a - 1 /\ s = a * q + r
  BY <1>1
<1>4. CASE u[k.call] = a
  <2>1. (q * a) \div a = q
    BY <1>1, <1>3
  <2>. QED
    BY <1>4, <2>1 DEF Masked, Keys
<1>5. CASE u[k.call] = 2 * a
  <2>. DEFINE d == 2 * a
  <2>1. PICK p \in Nat, b \in {0, 1} : q = 2 * p + b
    BY <1>3, Halves
  <2>. DEFINE n == b * a
  <2>2. d \in Nat \ {0} /\ n \in {0, a} /\ d = 2 * a
    <3>1. 0 * a = 0 /\ 1 * a = a
      BY <1>1
    <3>. QED
      BY <1>1, <2>1, <3>1
  <2>3. q * a = d * p + n
    <3>1. q * a = (2 * p + b) * a
      BY <2>1
    <3>2. (2 * p + b) * a = (2 * p) * a + b * a
      BY <1>1, <2>1
    <3>3. (2 * p) * a = (2 * a) * p
      BY <1>1, <2>1
    <3>. QED
      BY <3>1, <3>2, <3>3
  <2>4. a * q = q * a
    BY <1>1, <1>3
  <2>5. s = d * p + (n + r)
    BY <1>1, <1>3, <2>1, <2>2, <2>3, <2>4
  <2>6. n \in 0 .. d - 1 /\ n + r \in 0 .. d - 1
    <3>. HIDE DEF n, d, r, a
    <3>. QED
      BY <1>1, <1>3, <2>2
  <2>7. (d * p + n) \div d = p /\ (d * p + (n + r)) \div d = p
    <3>. HIDE DEF n, d, r
    <3>. QED
      BY <2>1, <2>2, <2>6, Quotient
  <2>8. (q * a) \div d = s \div d
    BY <2>3, <2>5, <2>6, <2>7
  <2>. QED
    BY <1>1, <1>5, <2>8 DEF Masked, Keys
<1>. QED
  BY <1>2, <1>4, <1>5

(* What is held is in the table or in the rest of a saved one.             *)
LEMMA HeldMember ==
  ASSUME TypeOK
  PROVE  /\ \A n, s : <<n, s>> \in Held <=>
                        \/ n = 0 /\ s \in Occupied
                        \/ n \in 1 .. Len(culls) /\ s \in Remaining(culls[n].saved, culls[n].i)
         /\ \A h \in Held : h = <<h[1], h[2]>> /\ h[1] \in 0 .. Len(culls) /\ h[2] \in Slots
<1>1. Len(culls) \in Nat
  BY LenProperties DEF TypeOK
<1>. QED
  BY <1>1 DEF Held, Occupied, Remaining

(* There are finitely many of them, and each has a key.                    *)
LEMMA HeldTypes ==
  ASSUME TypeOK
  PROVE  /\ IsFiniteSet(Held)
         /\ \A h \in Held : EntryAt(h) \in Entries /\ EntryAt(h).key \in Keys
<1>1. Len(culls) \in Nat /\ \A n \in 1 .. Len(culls) : culls[n] \in Frames
  BY LenProperties, ElementOfSeq DEF TypeOK, Frames
<1>2. IsFiniteSet(0 .. Len(culls)) /\ IsFiniteSet(Slots)
  BY <1>1, FS_Interval, TableAssumption DEF Slots
<1>3. Held \subseteq (0 .. Len(culls)) \X Slots
  BY <1>1, HeldMember
<1>4. IsFiniteSet(Held)
  BY <1>2, <1>3, FS_Product, FS_Subset
<1>5. ASSUME NEW h \in Held
      PROVE  EntryAt(h) \in Entries /\ EntryAt(h).key # NoKey
  <2>1. h = <<h[1], h[2]>> /\ h[1] \in 0 .. Len(culls) /\ h[2] \in Slots
    BY HeldMember
  <2>2. CASE h[1] = 0
    <3>1. h[2] \in Occupied
      BY <2>1, <2>2, HeldMember
    <3>. QED
      BY <2>1, <2>2, <3>1 DEF Occupied, EntryAt, TypeOK
  <2>3. CASE h[1] # 0
    <3>1. h[1] \in 1 .. Len(culls) /\ h[2] \in Remaining(culls[h[1]].saved, culls[h[1]].i)
      BY <1>1, <2>1, <2>3, HeldMember
    <3>. QED
      BY <1>1, <2>1, <2>3, <3>1 DEF Remaining, EntryAt, Frames
  <2>. QED
    BY <2>2, <2>3
<1>. QED
  BY <1>4, <1>5 DEF Entries

(* The keys that events are logged with are keys, and finite in number.    *)
LEMMA EventKeysFinite ==
  IsFiniteSet(EventKeys) /\ EventKeys \subseteq Keys
<1>1. EventKeys \subseteq Keys
  BY KeyAssumption DEF EventKeys, Keys
<1>. DEFINE T == (Regions \X Calls) \X (Ranks \X Sizes)
            make == [t \in T |-> [region |-> t[1][1], call |-> t[1][2],
                                  rank |-> t[2][1], size |-> t[2][2]]]
<1>2. IsFiniteSet(T)
  <2>1. IsFiniteSet(Regions \X Calls) /\ IsFiniteSet(Ranks \X Sizes)
    BY FieldAssumption, FS_Product
  <2>. QED
    BY <2>1, FS_Product
<1>3. IsFiniteSet({make[t] : t \in T})
  <2>. HIDE DEF T, make
  <2>. QED
    BY <1>2, ImageFinite
<1>4. EventKeys \subseteq {make[t] : t \in T}
  <2>1. SUFFICES ASSUME NEW k \in EventKeys
                 PROVE  \E t \in T : make[t] = k
    OBVIOUS
  <2>. DEFINE t == <<<<k.region, k.call>>, <<k.rank, k.size>>>>
  <2>2. t \in T /\ make[t] = k
    BY DEF EventKeys
  <2>. QED
    BY <2>2
<1>. QED
  BY <1>1, <1>3, <1>4, FS_Subset

(* The figures of what is held and of what was logged are natural numbers. *)
LEMMA FiguresTypes ==
  ASSUME TypeOK, SeenInv, NEW w \in Figures
  PROVE  /\ \A h \in Held : FiguresHeld(w)[h] \in Nat
         /\ \A k \in EventKeys : FiguresLogged(w)[k] \in Nat
<1>1. \A h \in Held : EntryAt(h) \in Entries
  BY HeldTypes
<1>. QED
  BY <1>1 DEF FiguresHeld, FiguresLogged, Figure, Entries, SeenInv

(* The lowest of a set of slots is below the others.                       *)
LEMMA LowestBelow ==
  ASSUME NEW S \in SUBSET Slots, S # {}
  PROVE  LowestOf(S) \in S /\ \A t \in S : LowestOf(S) <= t
<1>1. M - 1 \in Nat /\ S \in SUBSET (0 .. M - 1)
  BY TableAssumption DEF Slots
<1>2. \E x \in S : \A y \in S : x <= y
  BY <1>1, LeastNatural
<1>. QED
  BY <1>2 DEF LowestOf

(* The loop of ipm_hash_cull that goes on from the lowest entry has all of *)
(* them before it.                                                         *)
LEMMA RemainingFromLowest ==
  ASSUME NEW saved, NEW n \in Int, Remaining(saved, n) # {}
  PROVE  LET lo == LowestOf(Remaining(saved, n))
         IN /\ lo \in Slots /\ saved[lo].key # NoKey
            /\ Remaining(saved, lo) = Remaining(saved, n)
<1>. DEFINE S == Remaining(saved, n)
            lo == LowestOf(S)
<1>1. S \in SUBSET Slots
  BY DEF Remaining
<1>2. lo \in S /\ \A t \in S : lo <= t
  BY <1>1, LowestBelow
<1>3. S \subseteq Remaining(saved, lo)
  <2>. HIDE DEF lo
  <2>. QED
    BY <1>2 DEF Remaining
<1>4. Remaining(saved, lo) \subseteq S
  <2>. HIDE DEF lo
  <2>1. lo \in Int /\ lo >= n
    BY <1>2, TableAssumption DEF Remaining, Slots
  <2>. QED
    BY <2>1, TableAssumption DEF Remaining, Slots
<1>. QED
  BY <1>2, <1>3, <1>4 DEF Remaining

(* The same precision: masking a key again does not change it.             *)
LEMMA MaskedSame ==
  ASSUME NEW k \in Keys, NEW g \in [Calls -> Nat \ {0}]
  PROVE  Masked(Masked(k, g), g) = Masked(k, g)
<1>1. \A c \in Calls : g[c] \in {g[c], 2 * g[c]}
  OBVIOUS
<1>. QED
  BY <1>1, MaskedTwice

(* A cull takes one bit of precision from one call.                        *)
LEMMA CullCoarsens ==
  ASSUME TypeOK, Cull
  PROVE  \A c \in Calls : grain'[c] \in {grain[c], 2 * grain[c]}
<1>. DEFINE d == MostDenseCall
<1>1. grain' = [grain EXCEPT ![d] = 2 * @]
  BY DEF Cull
<1>. HIDE DEF d
<1>. QED
  BY <1>1 DEF TypeOK

(* The activations of ipm_hash_cull are a sequence of frames.              *)
LEMMA CullsTypes ==
  ASSUME TypeOK
  PROVE  /\ Len(culls) \in Nat
         /\ culls \in Seq(Frames)
         /\ \A n \in 1 .. Len(culls) : culls[n] \in Frames
BY LenProperties, ElementOfSeq DEF TypeOK, Frames

(* A cull that begins is the innermost activation from then on.            *)
LEMMA CullPushes ==
  ASSUME TypeOK, TypeOK', Cull, pc' # "exit"
  PROVE  LET lo == LowestOf(Remaining(hash, 0))
         IN /\ Remaining(hash, 0) # {}
            /\ Len(culls') = Len(culls) + 1
            /\ culls'[1] = Reinserting(hash, lo, grain')
            /\ \A n \in 1 .. Len(culls) : culls'[n + 1] = culls[n]
<1>. DEFINE first == Reinserting(hash, LowestOf(Remaining(hash, 0)), grain')
<1>1. CurSlot \in Slots /\ CurSlot \in Remaining(hash, 0)
  BY CurType, TableAssumption DEF Cull, Collision, Remaining, Slots
<1>2. culls' = <<first>> \o culls
  BY DEF Cull
<1>3. first \in Frames
  <2>1. Remaining(hash, 0) # {} /\ hash \in [Slots -> Entries] /\ 0 \in Int
    BY <1>1 DEF TypeOK
  <2>2. grain' \in [Calls -> Nat \ {0}]
    BY DEF TypeOK
  <2>. QED
    BY <2>1, <2>2, ReinsertingType
<1>. HIDE DEF first
<1>4. <<first>> \in Seq(Frames) /\ Len(<<first>>) = 1 /\ <<first>>[1] = first
  BY <1>3
<1>5. /\ Len(culls') = 1 + Len(culls)
      /\ \A i \in 1 .. 1 + Len(culls) : culls'[i] = IF i <= 1 THEN <<first>>[i] ELSE culls[i - 1]
  BY <1>2, <1>4, CullsTypes, ConcatProperties
<1>6. Len(culls) \in Nat
  BY CullsTypes
<1>. QED
  BY <1>1, <1>4, <1>5, <1>6 DEF first

(* The activation that goes on from another saved entry is still the       *)
(* innermost one; the one that returns uncovers the one that called it.    *)
LEMMA ReinsertMoves ==
  ASSUME TypeOK, TypeOK', ReinsertEntry
  PROVE  LET top  == culls[1]
             rest == Remaining(top.saved, top.i + 1)
         IN /\ Len(culls) \in Nat \ {0} /\ Head(culls) = culls[1] /\ top \in Frames
            /\ rest = {} =>
                 /\ Len(culls') = Len(culls) - 1
                 /\ \A n \in 1 .. Len(culls) - 1 : culls'[n] = culls[n + 1]
            /\ rest # {} =>
                 /\ Len(culls') = Len(culls)
                 /\ culls'[1] = Reinserting(top.saved, LowestOf(rest), grain)
                 /\ \A n \in 2 .. Len(culls) : culls'[n] = culls[n]
<1>. DEFINE top == culls[1]
            rest == Remaining(top.saved, top.i + 1)
            next == Reinserting(top.saved, LowestOf(rest), grain)
<1>1. Len(culls) \in Nat \ {0} /\ culls # <<>> /\ culls \in Seq(Frames)
  BY CullsTypes, EmptySeq DEF ReinsertEntry
<1>2. Head(culls) = culls[1] /\ top \in Frames
  BY <1>1, CullsTypes
<1>3. /\ Tail(culls) \in Seq(Frames) /\ Len(Tail(culls)) = Len(culls) - 1
      /\ \A i \in 1 .. Len(culls) - 1 : Tail(culls)[i] = culls[i + 1]
  BY <1>1, HeadTailProperties
<1>4. ASSUME rest # {}
      PROVE  /\ Len(culls') = Len(culls)
             /\ culls'[1] = next
             /\ \A n \in 2 .. Len(culls) : culls'[n] = culls[n]
  <2>1. culls' = <<next>> \o Tail(culls)
    BY <1>2, <1>4 DEF ReinsertEntry
  <2>2. next \in Frames
    <3>1. top.saved \in [Slots -> Entries] /\ top.i + 1 \in Int /\ grain \in [Calls -> Nat \ {0}]
      <4>1. top.saved \in [Slots -> Entries] /\ top.i \in Slots
        <5>. HIDE DEF top
        <5>. QED
          BY <1>2 DEF Frames
      <4>2. grain \in [Calls -> Nat \ {0}]
        BY DEF TypeOK
      <4>. QED
        BY <4>1, <4>2, TableAssumption DEF Slots
    <3>2. Remaining(top.saved, top.i + 1) # {}
      BY <1>4
    <3>3. Reinserting(top.saved, LowestOf(Remaining(top.saved, top.i + 1)), grain) \in Frames
      <4>. HIDE DEF top
      <4>. QED
        BY <3>1, <3>2, ReinsertingType
    <3>. QED
      BY <3>3
  <2>. HIDE DEF next
  <2>3. <<next>> \in Seq(Frames) /\ Len(<<next>>) = 1 /\ <<next>>[1] = next
    BY <2>2
  <2>4. Len(<<next>> \o Tail(culls)) = 1 + (Len(culls) - 1)
    BY <1>3, <2>3, ConcatProperties
  <2>5. \A i \in 1 .. 1 + (Len(culls) - 1) : (<<next>> \o Tail(culls))[i] =
           IF i <= 1 THEN <<next>>[i] ELSE Tail(culls)[i - 1]
    BY <1>3, <2>3, ConcatProperties
  <2>6. \A n \in 2 .. Len(culls) : culls'[n] = culls[n]
    <3>. SUFFICES ASSUME NEW n \in 2 .. Len(culls) PROVE culls'[n] = culls[n]
      OBVIOUS
    <3>1. culls'[n] = Tail(culls)[n - 1]
      BY <1>1, <2>1, <2>5
    <3>2. Tail(culls)[n - 1] = culls[n]
      BY <1>1, <1>3
    <3>. QED
      BY <3>1, <3>2
  <2>. QED
    BY <1>1, <2>1, <2>3, <2>4, <2>5, <2>6
<1>5. ASSUME rest = {}
      PROVE  culls' = Tail(culls)
  BY <1>2, <1>5 DEF ReinsertEntry
<1>. QED
  BY <1>1, <1>2, <1>3, <1>4, <1>5
-----------------------------------------------------------------------------
(* Nothing is being re-inserted at first.                                  *)
LEMMA FramesInit == ASSUME Init PROVE FramesInv
BY EmptySeq DEF Init, FramesInv

(* Every step keeps what FramesInv says of the re-insertion loops.         *)
LEMMA FramesStep ==
  ASSUME TypeOK, TypeOK', FramesInv, [Next]_vars
  PROVE  FramesInv'
<1>. DEFINE Fine(f, g) == /\ f.saved[f.i].key # NoKey
                          /\ Masked(f.saved[f.i].key, g) = Masked(f.key, g)
<1>1. FramesInv <=> \A n \in 1 .. Len(culls) : Fine(culls[n], grain)
  BY DEF FramesInv
<1>2. FramesInv' <=> \A n \in 1 .. Len(culls') : Fine(culls'[n], grain')
  BY DEF FramesInv
<1>3. ASSUME NEW saved \in [Slots -> Entries], NEW n \in Int, Remaining(saved, n) # {},
             NEW g \in [Calls -> Nat \ {0}]
      PROVE  Fine(Reinserting(saved, LowestOf(Remaining(saved, n)), g), g)
  <2>. DEFINE lo == LowestOf(Remaining(saved, n))
  <2>1. lo \in Slots /\ saved[lo].key # NoKey
    BY <1>3, RemainingFromLowest
  <2>. HIDE DEF lo
  <2>2. saved[lo].key \in Keys
    BY <2>1 DEF Entries
  <2>3. Masked(Masked(saved[lo].key, g), g) = Masked(saved[lo].key, g)
    BY <2>2, MaskedSame
  <2>. QED
    BY <2>1, <2>3 DEF Reinserting, lo
<1>4. grain \in [Calls -> Nat \ {0}] /\ grain' \in [Calls -> Nat \ {0}]
  BY DEF TypeOK
<1>5. CASE ReinsertEntry
  <2>. DEFINE top == culls[1]
              rest == Remaining(top.saved, top.i + 1)
  <2>1. grain' = grain
    BY <1>5 DEF ReinsertEntry
  <2>2. Len(culls) \in Nat \ {0} /\ top \in Frames
    BY <1>5, ReinsertMoves
  <2>3. CASE rest = {}
    <3>1. /\ Len(culls') = Len(culls) - 1
          /\ \A n \in 1 .. Len(culls) - 1 : culls'[n] = culls[n + 1]
      BY <1>5, <2>3, ReinsertMoves
    <3>2. \A n \in 1 .. Len(culls) : Fine(culls[n], grain)
      BY <1>1
    <3>. HIDE DEF Fine
    <3>3. \A n \in 1 .. Len(culls') : Fine(culls'[n], grain')
      <4>. SUFFICES ASSUME NEW n \in 1 .. Len(culls') PROVE Fine(culls'[n], grain')
        OBVIOUS
      <4>1. n \in 1 .. Len(culls) - 1 /\ n + 1 \in 1 .. Len(culls)
        BY <2>2, <3>1
      <4>. QED
        BY <2>1, <3>1, <3>2, <4>1
    <3>. QED
      BY <1>2, <3>3
  <2>4. CASE rest # {}
    <3>1. /\ Len(culls') = Len(culls)
          /\ culls'[1] = Reinserting(top.saved, LowestOf(rest), grain)
          /\ \A n \in 2 .. Len(culls) : culls'[n] = culls[n]
      BY <1>5, <2>4, ReinsertMoves
    <3>2. top.saved \in [Slots -> Entries] /\ top.i + 1 \in Int
      BY <2>2, TableAssumption DEF Frames, Slots
    <3>3. Fine(culls'[1], grain')
      BY <1>3, <1>4, <2>1, <2>4, <3>1, <3>2
    <3>4. \A n \in 1 .. Len(culls) : Fine(culls[n], grain)
      BY <1>1
    <3>. HIDE DEF Fine
    <3>5. \A n \in 1 .. Len(culls') : Fine(culls'[n], grain')
      <4>. SUFFICES ASSUME NEW n \in 1 .. Len(culls') PROVE Fine(culls'[n], grain')
        OBVIOUS
      <4>1. n = 1 \/ n \in 2 .. Len(culls)
        BY <2>2, <3>1
      <4>. QED
        BY <2>1, <2>2, <3>1, <3>3, <3>4, <4>1
    <3>. QED
      BY <1>2, <3>5
  <2>. QED
    BY <2>3, <2>4
<1>6. CASE Cull
  <2>1. ASSUME NEW n \in 1 .. Len(culls)
        PROVE  Fine(culls[n], grain')
    <3>1. Fine(culls[n], grain)
      BY <1>1
    <3>. DEFINE e == culls[n].saved[culls[n].i]
    <3>2. e.key \in Keys /\ culls[n].key \in Keys
      BY <3>1, CullsTypes DEF Frames, Entries
    <3>3. \A k \in Keys : Masked(Masked(k, grain), grain') = Masked(k, grain')
      BY <1>4, <1>6, CullCoarsens, MaskedTwice
    <3>4. Masked(e.key, grain) = Masked(culls[n].key, grain)
      BY <3>1
    <3>. HIDE DEF e
    <3>5. Masked(e.key, grain') = Masked(culls[n].key, grain')
      BY Zenon, <3>2, <3>3, <3>4
    <3>. QED
      BY <3>1, <3>5 DEF e
  <2>2. CASE pc' = "exit"
    <3>1. culls' = culls
      BY <1>6, <2>2 DEF Cull, Collision
    <3>. HIDE DEF Fine
    <3>. QED
      BY <1>2, <2>1, <3>1
  <2>3. CASE pc' # "exit"
    <3>1. /\ Remaining(hash, 0) # {}
          /\ Len(culls') = Len(culls) + 1
          /\ culls'[1] = Reinserting(hash, LowestOf(Remaining(hash, 0)), grain')
          /\ \A n \in 1 .. Len(culls) : culls'[n + 1] = culls[n]
      BY <1>6, <2>3, CullPushes
    <3>2. hash \in [Slots -> Entries] /\ 0 \in Int
      BY DEF TypeOK
    <3>3. Fine(culls'[1], grain')
      BY <1>3, <1>4, <3>1, <3>2
    <3>. HIDE DEF Fine
    <3>4. \A n \in 1 .. Len(culls') : Fine(culls'[n], grain')
      <4>. SUFFICES ASSUME NEW n \in 1 .. Len(culls'), n # 1 PROVE Fine(culls'[n], grain')
        BY <3>3
      <4>1. Len(culls) \in Nat
        BY CullsTypes
      <4>2. n - 1 \in 1 .. Len(culls) /\ (n - 1) + 1 = n
        BY <3>1, <4>1
      <4>3. culls'[(n - 1) + 1] = culls[n - 1]
        BY <3>1, <4>2
      <4>. QED
        BY <2>1, <4>2, <4>3
    <3>. QED
      BY <1>2, <3>4
  <2>. QED
    BY <2>2, <2>3
<1>7. CASE UNCHANGED <<culls, grain>>
  BY <1>7 DEF FramesInv
<1>. QED
  BY <1>5, <1>6, <1>7 DEF Next, HashStep, LogEvent, InsertKey, CountEvent, NextProbe, vars

(* The entry that is held at h after a step.                               *)
EntryNext(h) == IF h[1] = 0 THEN hash'[h[2]] ELSE culls'[h[1]].saved[h[2]]

(* The same of what is held after a step.                                  *)
LEMMA HeldMemberNext ==
  ASSUME TypeOK'
  PROVE  /\ \A n, s : <<n, s>> \in Held' <=>
                        \/ n = 0 /\ s \in Occupied'
                        \/ n \in 1 .. Len(culls') /\ s \in Remaining(culls'[n].saved, culls'[n].i)
         /\ \A h \in Held' : h = <<h[1], h[2]>> /\ h[1] \in 0 .. Len(culls') /\ h[2] \in Slots
<1>1. Len(culls') \in Nat
  BY LenProperties DEF TypeOK
<1>. QED
  BY <1>1 DEF Held, Occupied, Remaining

(* The entries of the table, and those of every saved one, are saved one   *)
(* activation further down when a cull begins.                             *)
LEMMA HeldAfterCull ==
  ASSUME TypeOK, TypeOK', Cull, pc' # "exit"
  PROVE  LET down == [h \in Held |-> <<h[1] + 1, h[2]>>]
         IN /\ Held' = {down[h] : h \in Held}
            /\ \A h, j \in Held : down[h] = down[j] => h = j
            /\ \A h \in Held : EntryNext(down[h]) = EntryAt(h)
<1>. DEFINE down == [h \in Held |-> <<h[1] + 1, h[2]>>]
            lo == LowestOf(Remaining(hash, 0))
<1>1. /\ Remaining(hash, 0) # {}
      /\ Len(culls') = Len(culls) + 1
      /\ culls'[1] = Reinserting(hash, lo, grain')
      /\ \A n \in 1 .. Len(culls) : culls'[n + 1] = culls[n]
  BY CullPushes
<1>2. Remaining(hash, lo) = Occupied
  <2>1. 0 \in Int
    OBVIOUS
  <2>2. Remaining(hash, lo) = Remaining(hash, 0)
    BY <1>1, <2>1, RemainingFromLowest
  <2>. QED
    BY <2>2, TableAssumption DEF Remaining, Occupied, Slots
<1>3. culls'[1].saved = hash /\ culls'[1].i = lo
  BY <1>1 DEF Reinserting
<1>. HIDE DEF lo
<1>4. Occupied' = {}
  BY DEF Cull, Occupied, FreeEntry
<1>5. Len(culls) \in Nat
  BY CullsTypes
<1>6. \A n, s : <<n, s>> \in Held <=>
                  \/ n = 0 /\ s \in Occupied
                  \/ n \in 1 .. Len(culls) /\ s \in Remaining(culls[n].saved, culls[n].i)
  BY HeldMember
<1>7. \A h \in Held : h = <<h[1], h[2]>> /\ h[1] \in 0 .. Len(culls) /\ h[2] \in Slots
  BY HeldMember
<1>8. \A n, s : <<n, s>> \in Held' <=>
                  n \in 1 .. Len(culls') /\ s \in Remaining(culls'[n].saved, culls'[n].i)
  BY <1>4, HeldMemberNext
<1>9. \A h \in Held' : h = <<h[1], h[2]>> /\ h[1] \in 0 .. Len(culls')
  BY HeldMemberNext
<1>10. ASSUME NEW h \in Held
       PROVE  down[h] \in Held' /\ EntryNext(down[h]) = EntryAt(h)
  <2>1. h = <<h[1], h[2]>> /\ h[1] \in 0 .. Len(culls)
    BY <1>7
  <2>2. down[h] = <<h[1] + 1, h[2]>> /\ h[1] + 1 # 0 /\ h[1] + 1 \in 1 .. Len(culls')
    BY <1>1, <1>5, <2>1
  <2>3. EntryNext(down[h]) = culls'[h[1] + 1].saved[h[2]]
    BY <2>2 DEF EntryAt, EntryNext
  <2>4. CASE h[1] = 0
    <3>1. h[2] \in Occupied
      BY <1>5, <1>6, <2>1, <2>4
    <3>2. h[1] + 1 = 1
      BY <2>4
    <3>. QED
      BY <1>2, <1>3, <1>8, <2>2, <2>3, <2>4, <3>1, <3>2 DEF EntryAt, EntryNext
  <2>5. CASE h[1] # 0
    <3>1. h[1] \in 1 .. Len(culls)
      BY <1>5, <2>1, <2>5
    <3>2. culls'[h[1] + 1] = culls[h[1]]
      BY <1>1, <3>1
    <3>3. h[2] \in Remaining(culls[h[1]].saved, culls[h[1]].i)
      BY <1>6, <2>1, <2>5
    <3>4. <<h[1] + 1, h[2]>> \in Held'
      BY <1>8, <2>2, <3>2, <3>3
    <3>. QED
      BY <2>2, <2>3, <2>5, <3>2, <3>4 DEF EntryAt, EntryNext
  <2>. QED
    BY <2>4, <2>5
<1>11. ASSUME NEW j \in Held'
       PROVE  \E h \in Held : down[h] = j
  <2>1. j = <<j[1], j[2]>> /\ j[1] \in 1 .. Len(culls')
        /\ j[2] \in Remaining(culls'[j[1]].saved, culls'[j[1]].i)
    BY <1>8, <1>9
  <2>. DEFINE h == <<j[1] - 1, j[2]>>
  <2>2. j[1] - 1 \in 0 .. Len(culls) /\ (j[1] - 1) + 1 = j[1]
    BY <1>1, <1>5, <2>1
  <2>3. h \in Held
    <3>1. CASE j[1] = 1
      <4>1. j[1] - 1 = 0 /\ j[2] \in Occupied
        BY <1>2, <1>3, <2>1, <3>1
      <4>. QED
        BY <1>6, <4>1
    <3>2. CASE j[1] # 1
      <4>1. j[1] - 1 \in 1 .. Len(culls)
        BY <2>2, <3>2, <1>5
      <4>2. culls'[j[1]] = culls[j[1] - 1]
        BY <1>1, <2>2, <4>1
      <4>3. j[2] \in Remaining(culls[j[1] - 1].saved, culls[j[1] - 1].i)
        BY <2>1, <4>2
      <4>. QED
        BY <1>6, <4>1, <4>3
    <3>. QED
      BY <3>1, <3>2
  <2>4. down[h] = j
    BY <2>1, <2>2, <2>3
  <2>. QED
    BY <2>3, <2>4
<1>12. Held' = {down[h] : h \in Held}
  <2>. HIDE DEF down
  <2>. QED
    BY <1>10, <1>11
<1>13. ASSUME NEW h \in Held, NEW j \in Held, down[h] = down[j]
       PROVE  h = j
  <2>1. h = <<h[1], h[2]>> /\ j = <<j[1], j[2]>> /\ h[1] \in Int /\ j[1] \in Int
    BY <1>5, <1>7
  <2>2. h[1] + 1 = j[1] + 1 /\ h[2] = j[2]
    BY <1>13
  <2>. QED
    BY <2>1, <2>2
<1>. QED
  BY <1>10, <1>12, <1>13

(* The entry that a loop has reached leaves the saved table for the slot   *)
(* of its key; when it was the last one, the other activations are one     *)
(* further up.                                                             *)
LEMMA HeldAfterReinsert ==
  ASSUME TypeOK, TypeOK', FramesInv, ReinsertEntry
  PROVE  LET p  == <<0, CurSlot>>
             q  == <<1, culls[1].i>>
             up == IF Len(culls') = Len(culls)
                     THEN [h \in Held |-> h]
                     ELSE [h \in Held |-> IF h[1] = 0 THEN h ELSE <<h[1] - 1, h[2]>>]
         IN /\ p \in Held /\ q \in Held /\ p # q
            /\ Held' = {up[h] : h \in Held \ {q}}
            /\ \A h, j \in Held \ {q} : up[h] = up[j] => h = j
            /\ \A h \in Held \ {q} :
                 EntryNext(up[h]) = IF h = p THEN Merged(EntryAt(p), EntryAt(q)) ELSE EntryAt(h)
<1>. DEFINE top == culls[1]
            rest == Remaining(top.saved, top.i + 1)
            here == Remaining(top.saved, top.i)
            p == <<0, CurSlot>>
            q == <<1, top.i>>
            same == [h \in Held |-> h]
            shift == [h \in Held |-> IF h[1] = 0 THEN h ELSE <<h[1] - 1, h[2]>>]
            New(h) == IF h = p THEN Merged(EntryAt(p), EntryAt(q)) ELSE EntryAt(h)
<1>1. /\ Len(culls) \in Nat \ {0} /\ Head(culls) = culls[1] /\ top \in Frames
      /\ top.i \in Slots
  BY ReinsertMoves DEF Frames
<1>2. CurSlot \in Slots /\ CurKey \in Keys /\ hash[CurSlot].key = CurKey
  BY CurType DEF ReinsertEntry
<1>3. /\ hash' = [hash EXCEPT ![CurSlot] = Merged(@, top.saved[top.i])]
  BY <1>1 DEF ReinsertEntry
<1>4. \A n, s : <<n, s>> \in Held <=>
                  \/ n = 0 /\ s \in Occupied
                  \/ n \in 1 .. Len(culls) /\ s \in Remaining(culls[n].saved, culls[n].i)
  BY HeldMember
<1>5. \A h \in Held : h = <<h[1], h[2]>> /\ h[1] \in 0 .. Len(culls) /\ h[2] \in Slots
  BY HeldMember
<1>6. \A n, s : <<n, s>> \in Held' <=>
                  \/ n = 0 /\ s \in Occupied'
                  \/ n \in 1 .. Len(culls') /\ s \in Remaining(culls'[n].saved, culls'[n].i)
  BY HeldMemberNext
<1>7. \A h \in Held' : h = <<h[1], h[2]>> /\ h[1] \in 0 .. Len(culls') /\ h[2] \in Slots
  BY HeldMemberNext
<1>8. Occupied' = Occupied
  BY MergeKeepsKeys DEF Occupied
<1>9. top.i \in here /\ rest = here \ {top.i}
  <2>1. top.saved[top.i].key # NoKey
    BY <1>1 DEF FramesInv
  <2>2. top.i \in here
    BY <1>1, <2>1, TableAssumption DEF Remaining, Slots
  <2>3. \A s \in Slots : s >= top.i + 1 <=> s >= top.i /\ s # top.i
    BY <1>1, TableAssumption DEF Slots
  <2>. QED
    BY <2>2, <2>3 DEF Remaining
<1>10. CurSlot \in Occupied
  BY <1>2, NoKeyAssumption DEF Occupied
<1>11. p \in Held /\ q \in Held /\ p # q
  BY <1>1, <1>4, <1>9, <1>10
<1>12. EntryAt(p) = hash[CurSlot] /\ EntryAt(q) = top.saved[top.i]
  BY DEF EntryAt, EntryNext
<1>13. ASSUME NEW s \in Slots
       PROVE  /\ EntryAt(<<0, s>>) = hash[s]
              /\ EntryNext(<<0, s>>) = New(<<0, s>>)
              /\ <<0, s>> \in Held <=> s \in Occupied
              /\ <<0, s>> \in Held' <=> s \in Occupied
  <2>1. EntryAt(<<0, s>>) = hash[s] /\ EntryNext(<<0, s>>) = hash'[s]
    BY DEF EntryAt, EntryNext
  <2>2. hash'[s] = New(<<0, s>>)
    BY <1>2, <1>3, <1>12, <2>1 DEF TypeOK
  <2>3. <<0, s>> \in Held <=> s \in Occupied
    BY <1>4
  <2>4. <<0, s>> \in Held' <=> s \in Occupied
    BY <1>6, <1>8
  <2>. QED
    BY <2>1, <2>2, <2>3, <2>4
<1>14. \A h : h[1] # 0 => New(h) = culls[h[1]].saved[h[2]]
  BY DEF EntryAt, EntryNext
<1>15. \A h : h[1] # 0 => EntryNext(h) = culls'[h[1]].saved[h[2]]
  BY DEF EntryAt, EntryNext
<1>. HIDE DEF New
<1>16. CASE rest # {}
  <2>1. /\ Len(culls') = Len(culls)
        /\ culls'[1] = Reinserting(top.saved, LowestOf(rest), grain)
        /\ \A n \in 2 .. Len(culls) : culls'[n] = culls[n]
    BY <1>16, ReinsertMoves
  <2>2. culls'[1].saved = top.saved /\ Remaining(culls'[1].saved, culls'[1].i) = rest
    <3>1. top.i + 1 \in Int
      BY <1>1, TableAssumption DEF Slots
    <3>2. Remaining(top.saved, LowestOf(rest)) = rest
      BY <1>16, <3>1, RemainingFromLowest
    <3>3. culls'[1].saved = top.saved /\ culls'[1].i = LowestOf(rest)
      BY <2>1 DEF Reinserting
    <3>. HIDE DEF rest
    <3>. QED
      BY <3>2, <3>3
  <2>. HIDE DEF rest, here
  <2>3. ASSUME NEW n \in 0 .. Len(culls), NEW s \in Slots
        PROVE  <<n, s>> \in Held' <=> <<n, s>> \in Held \ {q}
    <3>1. CASE n = 0
      BY <1>13, <3>1
    <3>2. CASE n = 1
      <4>1. <<n, s>> \in Held' <=> s \in rest
        BY <1>1, <1>6, <2>1, <2>2, <3>2
      <4>2. <<n, s>> \in Held <=> s \in here
        BY <1>1, <1>4, <3>2 DEF here
      <4>3. <<n, s>> = q <=> s = top.i
        BY <3>2
      <4>. QED
        BY <1>9, <4>1, <4>2, <4>3
    <3>3. CASE n \in 2 .. Len(culls)
      <4>1. culls'[n] = culls[n] /\ n # 0 /\ n # 1 /\ n \in 1 .. Len(culls)
        BY <1>1, <2>1, <3>3
      <4>2. <<n, s>> # q
        BY <4>1
      <4>. QED
        BY <1>4, <1>6, <2>1, <4>1, <4>2
    <3>. QED
      BY <1>1, <3>1, <3>2, <3>3
  <2>4. Held' = Held \ {q}
    <3>1. ASSUME NEW h \in Held' PROVE h \in Held \ {q}
      <4>1. h = <<h[1], h[2]>> /\ h[1] \in 0 .. Len(culls) /\ h[2] \in Slots
        BY <1>7, <2>1
      <4>. QED
        BY <2>3, <4>1
    <3>2. ASSUME NEW h \in Held \ {q} PROVE h \in Held'
      <4>1. h = <<h[1], h[2]>> /\ h[1] \in 0 .. Len(culls) /\ h[2] \in Slots
        BY <1>5
      <4>. QED
        BY <2>3, <4>1
    <3>. QED
      BY <3>1, <3>2
  <2>5. ASSUME NEW h \in Held \ {q}
        PROVE  EntryNext(h) = New(h)
    <3>1. h = <<h[1], h[2]>> /\ h[1] \in 0 .. Len(culls) /\ h[2] \in Slots
      BY <1>5
    <3>2. CASE h[1] = 0
      BY <1>13, <3>1, <3>2
    <3>3. CASE h[1] # 0
      <4>1. culls'[h[1]].saved = culls[h[1]].saved
        <5>1. h[1] = 1 \/ h[1] \in 2 .. Len(culls)
          BY <1>1, <3>1, <3>3
        <5>. QED
          BY <2>1, <2>2, <5>1
      <4>. QED
        BY <1>14, <1>15, <3>3, <4>1
    <3>. QED
      BY <3>2, <3>3
  <2>6. \A h \in Held : same[h] = h
    OBVIOUS
  <2>. QED
    BY <1>11, <2>1, <2>4, <2>5, <2>6 DEF New
<1>17. CASE rest = {}
  <2>1. /\ Len(culls') = Len(culls) - 1
        /\ \A n \in 1 .. Len(culls) - 1 : culls'[n] = culls[n + 1]
    BY <1>17, ReinsertMoves
  <2>2. here = {top.i}
    BY <1>9, <1>17
  <2>. HIDE DEF rest, here
  <2>3. ASSUME NEW h \in Held \ {q}
        PROVE  /\ shift[h] \in Held' /\ EntryNext(shift[h]) = New(h)
               /\ h = <<h[1], h[2]>> /\ h[2] \in Slots
               /\ \/ h[1] = 0 /\ shift[h] = <<0, h[2]>>
                  \/ h[1] \in 2 .. Len(culls) /\ shift[h] = <<h[1] - 1, h[2]>>
    <3>1. h = <<h[1], h[2]>> /\ h[1] \in 0 .. Len(culls) /\ h[2] \in Slots
      BY <1>5
    <3>2. CASE h[1] = 0
      <4>1. shift[h] = h /\ h = <<0, h[2]>>
        BY <3>1, <3>2
      <4>. QED
        BY <1>13, <3>1, <3>2, <4>1
    <3>3. CASE h[1] # 0
      <4>1. h[2] \in Remaining(culls[h[1]].saved, culls[h[1]].i) /\ h[1] \in 1 .. Len(culls)
        BY <1>1, <1>4, <3>1, <3>3
      <4>2. h[1] # 1
        <5>. SUFFICES ASSUME h[1] = 1 PROVE FALSE
          OBVIOUS
        <5>1. h[2] \in here
          BY <4>1 DEF here
        <5>. QED
          BY <2>2, <3>1, <5>1
      <4>3. h[1] \in 2 .. Len(culls) /\ h[1] - 1 \in 1 .. Len(culls') /\ (h[1] - 1) + 1 = h[1]
        BY <1>1, <2>1, <4>1, <4>2
      <4>4. shift[h] = <<h[1] - 1, h[2]>>
        BY <3>3
      <4>5. culls'[h[1] - 1] = culls[h[1]]
        BY <2>1, <4>3
      <4>6. shift[h] \in Held'
        BY <1>6, <4>1, <4>3, <4>4, <4>5
      <4>7. EntryNext(shift[h]) = culls[h[1]].saved[h[2]]
        <5>1. shift[h][1] = h[1] - 1 /\ shift[h][2] = h[2] /\ h[1] - 1 # 0
          BY <1>1, <4>3, <4>4
        <5>. QED
          BY <1>15, <4>5, <5>1
      <4>. QED
        BY <1>14, <3>1, <3>3, <4>3, <4>4, <4>6, <4>7
    <3>. QED
      BY <3>2, <3>3
  <2>4. ASSUME NEW j \in Held'
        PROVE  \E h \in Held \ {q} : shift[h] = j
    <3>1. j = <<j[1], j[2]>> /\ j[1] \in 0 .. Len(culls') /\ j[2] \in Slots
      BY <1>7
    <3>2. CASE j[1] = 0
      <4>1. j = <<0, j[2]>> /\ j \in Held /\ j # q
        BY <1>13, <3>1, <3>2
      <4>. QED
        BY <4>1
    <3>3. CASE j[1] # 0
      <4>. DEFINE h == <<j[1] + 1, j[2]>>
      <4>1. j[1] \in 1 .. Len(culls') /\ j[2] \in Remaining(culls'[j[1]].saved, culls'[j[1]].i)
        BY <1>1, <1>6, <2>1, <3>1, <3>3
      <4>2. j[1] + 1 \in 2 .. Len(culls) /\ (j[1] + 1) - 1 = j[1] /\ j[1] \in 1 .. Len(culls) - 1
        BY <1>1, <2>1, <4>1
      <4>3. culls'[j[1]] = culls[j[1] + 1]
        BY <2>1, <4>2
      <4>4. h \in Held
        BY <1>1, <1>4, <4>1, <4>2, <4>3
      <4>5. h # q
        BY <1>1, <4>2
      <4>6. shift[h] = <<(j[1] + 1) - 1, j[2]>>
        BY <1>1, <4>2, <4>4
      <4>. QED
        BY <3>1, <4>2, <4>4, <4>5, <4>6
    <3>. QED
      BY <3>2, <3>3
  <2>. HIDE DEF shift
  <2>5. Held' = {shift[h] : h \in Held \ {q}}
    BY <2>3, <2>4
  <2>6. ASSUME NEW h \in Held \ {q}, NEW j \in Held \ {q}, shift[h] = shift[j]
        PROVE  h = j
    <3>1. /\ \/ h[1] = 0 /\ shift[h] = <<0, h[2]>>
             \/ h[1] \in 2 .. Len(culls) /\ shift[h] = <<h[1] - 1, h[2]>>
          /\ \/ j[1] = 0 /\ shift[j] = <<0, j[2]>>
             \/ j[1] \in 2 .. Len(culls) /\ shift[j] = <<j[1] - 1, j[2]>>
          /\ h = <<h[1], h[2]>> /\ j = <<j[1], j[2]>>
      BY <2>3
    <3>2. h[2] = j[2] /\ h[1] = j[1]
      BY <1>1, <2>6, <3>1
    <3>. QED
      BY <3>1, <3>2
  <2>7. Len(culls') # Len(culls)
    BY <1>1, <2>1
  <2>. QED
    BY <1>11, <2>3, <2>5, <2>6, <2>7 DEF New, shift
<1>. QED
  BY <1>16, <1>17

(* What is held after a step is what was held at S before it, moved by up  *)
(* to another place and with the figures of g: the sum for a set of keys   *)
(* is that of g, for what had a key of D.                                  *)
Moved(C, D, w, up, g, S) ==
  /\ S \subseteq Held
  /\ Held' = {up[h] : h \in S}
  /\ \A h, j \in S : up[h] = up[j] => h = j
  /\ \A h \in S : Figure(EntryNext(up[h]), w) = g[h] /\ g[h] \in Int
  /\ \A h \in S : Masked(EntryNext(up[h]).key, grain') \in C <=> h \in HeldIn(D)

(* The sum of what has been moved so.                                      *)
LEMMA HeldSumMoved ==
  ASSUME TypeOK, NEW w \in Figures, NEW C, NEW D, NEW up, NEW g, NEW S,
         Moved(C, D, w, up, g, S)
  PROVE  HeldSum(C, w)' = SumOver(g, S \cap HeldIn(D))
<1>. DEFINE next == [h \in Held' |-> Figure(EntryNext(h), w)]
            in == {h \in Held' : Masked(EntryNext(h).key, grain') \in C}
            T == S \cap HeldIn(D)
<1>1. HeldSum(C, w)' = SumOver(next, in)
  BY DEF HeldSum, FiguresHeld, HeldIn, EntryAt, EntryNext
<1>2. /\ S \subseteq Held
      /\ Held' = {up[h] : h \in S}
      /\ \A h, j \in S : up[h] = up[j] => h = j
      /\ \A h \in S : Figure(EntryNext(up[h]), w) = g[h] /\ g[h] \in Int
      /\ \A h \in S : Masked(EntryNext(up[h]).key, grain') \in C <=> h \in HeldIn(D)
  BY DEF Moved
<1>3. in = {up[h] : h \in T}
  BY <1>2
<1>4. IsFiniteSet(T)
  BY <1>2, HeldTypes, FS_Subset
<1>5. \A h \in T : g[h] \in Int /\ next[up[h]] = g[h]
  BY <1>2
<1>6. \A h, j \in T : up[h] = up[j] => h = j
  BY <1>2
<1>. HIDE DEF next, in, T
<1>7. SumOver(next, {up[h] : h \in T}) = SumOver(g, T)
  BY <1>4, <1>5, <1>6, SumRenamed
<1>. QED
  BY <1>1, <1>3, <1>7 DEF T

(* What was logged, for the keys that a step gives another precision.      *)
LEMMA LoggedSumSame ==
  ASSUME NEW w, NEW C, NEW D, seen' = seen,
         \A k \in EventKeys : Masked(k, grain') \in C <=> Masked(k, grain) \in D
  PROVE  LoggedSum(C, w)' = LoggedSum(D, w)
<1>1. (LoggedIn(C))' = LoggedIn(D)
  BY DEF LoggedIn
<1>2. (FiguresLogged(w))' = FiguresLogged(w)
  BY DEF FiguresLogged
<1>. QED
  BY Zenon, <1>1, <1>2 DEF LoggedSum

(* All of these sums are over finite sets, and integers.                   *)
LEMMA SumsTypes ==
  ASSUME TypeOK, SeenInv, NEW w \in Figures, NEW C
  PROVE  /\ IsFiniteSet(HeldIn(C)) /\ HeldIn(C) \subseteq Held
         /\ IsFiniteSet(LoggedIn(C)) /\ LoggedIn(C) \subseteq EventKeys
         /\ HeldSum(C, w) \in Int /\ LoggedSum(C, w) \in Int /\ InHandOf(C, w) \in Int
<1>1. IsFiniteSet(HeldIn(C)) /\ HeldIn(C) \subseteq Held
  BY HeldTypes, FS_Subset DEF HeldIn
<1>2. IsFiniteSet(LoggedIn(C)) /\ LoggedIn(C) \subseteq EventKeys
  BY EventKeysFinite, FS_Subset DEF LoggedIn
<1>3. HeldSum(C, w) \in Int
  BY <1>1, FiguresTypes, SumType DEF HeldSum
<1>4. LoggedSum(C, w) \in Int
  BY <1>2, FiguresTypes, SumType DEF LoggedSum
<1>5. InHandOf(C, w) \in Int
  BY DEF InHandOf, InHand, TypeOK
<1>. QED
  BY <1>1, <1>2, <1>3, <1>4, <1>5
-----------------------------------------------------------------------------
(* The precision and what was logged stay: it is enough to look at what is *)
(* held and what is in hand.                                               *)
LEMMA ConservedSame ==
  ASSUME TypeOK, SeenInv, Conserved, UNCHANGED <<grain, seen>>, pc # "exit",
         \A C \in SUBSET Keys, w \in Figures :
            HeldSum(C, w)' + InHandOf(C, w)' = HeldSum(C, w) + InHandOf(C, w)
  PROVE  Conserved'
<1>1. \A C, w : LoggedSum(C, w)' = LoggedSum(C, w)
  BY DEF LoggedSum, LoggedIn, FiguresLogged
<1>. QED
  BY <1>1 DEF Conserved

(* An event that is logged is in hand until it is counted                  *)
(* (IPM_LOG_MPIEVENT).                                                     *)
LEMMA LogEventConserves ==
  ASSUME TypeOK, TypeOK', SeenInv, Conserved,
         NEW k \in EventKeys, NEW wall \in Walls, LogEvent(k, wall)
  PROVE  Conserved'
<1>. SUFFICES ASSUME NEW C \in SUBSET Keys, NEW w \in Figures
              PROVE  HeldSum(C, w)' + InHandOf(C, w)' = LoggedSum(C, w)'
  BY DEF Conserved
<1>. DEFINE d == IF w = "count" THEN 1 ELSE wall
            into == Masked(k, grain) \in C
<1>1. /\ pc = "idle" /\ pc' = "probe" /\ grain' = grain /\ hash' = hash /\ culls' = culls
      /\ event' = [key |-> Masked(k, grain), wall |-> wall]
      /\ seen' = [seen EXCEPT ![k] = [count |-> @.count + 1, t_tot |-> @.t_tot + wall]]
  BY DEF LogEvent
<1>2. HeldSum(C, w) + InHandOf(C, w) = LoggedSum(C, w) /\ InHandOf(C, w) = 0
  BY <1>1 DEF Conserved, InHandOf
<1>3. HeldSum(C, w)' = HeldSum(C, w)
  BY <1>1 DEF HeldSum, HeldIn, FiguresHeld, Held, EntryAt, Occupied
<1>4. k \in Keys /\ wall \in Nat /\ d \in Nat
  BY KeyAssumption, EventKeysFinite
<1>5. InHandOf(C, w)' = IF into THEN d ELSE 0
  <2>1. Masked(event'.key, grain') = Masked(k, grain)
    BY <1>1, <1>4, MaskedSame DEF TypeOK
  <2>2. InHand(w)' = d
    BY <1>1 DEF InHand
  <2>. QED
    BY <1>1, <2>1, <2>2 DEF InHandOf
<1>6. (LoggedIn(C))' = LoggedIn(C)
  BY <1>1 DEF LoggedIn
<1>. DEFINE f == FiguresLogged(w)
            g == (FiguresLogged(w))'
            L == LoggedIn(C)
<1>7. \A i \in EventKeys : f[i] \in Int /\ g[i] = IF i = k THEN f[i] + d ELSE f[i]
  BY <1>1, FiguresTypes DEF FiguresLogged, Figure, SeenInv, Figures
<1>8. LoggedSum(C, w) = SumOver(f, L) /\ LoggedSum(C, w)' = SumOver(g, L)
  BY <1>6 DEF LoggedSum
<1>9. IsFiniteSet(L) /\ L \subseteq EventKeys /\ (k \in L <=> into) /\ SumOver(f, L) \in Int
  BY <1>8, SumsTypes DEF LoggedIn
<1>10. HeldSum(C, w) \in Int
  BY SumsTypes
<1>. HIDE DEF f, g, L, d
<1>11. CASE into
  <2>1. SumOver(g, L) = SumOver(f, L) + d
    BY <1>4, <1>7, <1>9, <1>11, SumOneMore
  <2>. QED
    BY <1>2, <1>3, <1>5, <1>8, <1>9, <1>10, <1>11, <2>1
<1>12. CASE ~into
  <2>1. SumOver(g, L) = SumOver(f, L)
    BY <1>7, <1>9, <1>12, SumSame
  <2>. QED
    BY <1>2, <1>3, <1>5, <1>8, <1>9, <1>10, <1>12, <2>1
<1>. QED
  BY <1>11, <1>12

(* The slot that a key is entered in becomes one more entry, with nothing  *)
(* in it.                                                                  *)
LEMMA HeldAfterInsert ==
  ASSUME TypeOK, InsertKey
  PROVE  LET p == <<0, CurSlot>>
         IN /\ p \notin Held /\ Held' = Held \cup {p}
            /\ EntryNext(p) = NewEntry(CurKey)
            /\ \A h \in Held : EntryNext(h) = EntryAt(h)
<1>. DEFINE p == <<0, CurSlot>>
<1>1. /\ CurSlot \in Slots /\ CurKey \in Keys /\ CurKey # NoKey /\ hash[CurSlot].key = NoKey
      /\ hash' = [hash EXCEPT ![CurSlot] = NewEntry(CurKey)]
      /\ UNCHANGED <<grain, culls, pc, event>>
  BY CurType, NoKeyAssumption DEF InsertKey
<1>3. p \notin Held /\ Held' = Held \cup {p}
  <2>1. CurSlot \notin Occupied /\ Occupied' = Occupied \cup {CurSlot}
    BY <1>1 DEF Occupied, NewEntry, TypeOK
  <2>2. Len(culls) \in Nat
    BY CullsTypes
  <2>3. p \notin Held
    BY <2>1, <2>2, HeldMember
  <2>. QED
    BY <1>1, <2>1, <2>3 DEF Held
<1>4. EntryNext(p) = NewEntry(CurKey) /\ \A h \in Held : EntryNext(h) = EntryAt(h)
  <2>1. EntryNext(p) = NewEntry(CurKey)
    BY <1>1 DEF EntryNext, TypeOK
  <2>2. ASSUME NEW h \in Held PROVE EntryNext(h) = EntryAt(h)
    <3>1. h = <<h[1], h[2]>> /\ h[2] \in Slots /\ h # p
      BY <1>3, HeldMember
    <3>. QED
      BY <1>1, <3>1 DEF EntryNext, EntryAt, TypeOK
  <2>. QED
    BY <2>1, <2>2
<1>. QED
  BY <1>3, <1>4

(* Entering a key adds an entry that holds nothing yet.                    *)
LEMMA InsertConserves ==
  ASSUME TypeOK, TypeOK', SeenInv, Conserved, InsertKey
  PROVE  Conserved'
<1>. SUFFICES ASSUME NEW C \in SUBSET Keys, NEW w \in Figures
              PROVE  HeldSum(C, w)' + InHandOf(C, w)' = HeldSum(C, w) + InHandOf(C, w)
  BY ConservedSame DEF InsertKey
<1>. DEFINE p == <<0, CurSlot>>
<1>1. /\ CurSlot \in Slots /\ CurKey \in Keys /\ CurKey # NoKey /\ hash[CurSlot].key = NoKey
      /\ hash' = [hash EXCEPT ![CurSlot] = NewEntry(CurKey)]
      /\ UNCHANGED <<grain, culls, pc, event>>
  BY CurType, NoKeyAssumption DEF InsertKey
<1>2. InHandOf(C, w)' = InHandOf(C, w)
  BY <1>1 DEF InHandOf, InHand
<1>3. p \notin Held /\ Held' = Held \cup {p}
  BY HeldAfterInsert
<1>4. EntryNext(p) = NewEntry(CurKey) /\ \A h \in Held : EntryNext(h) = EntryAt(h)
  BY HeldAfterInsert
<1>. DEFINE f == (FiguresHeld(w))'
            g == FiguresHeld(w)
            T == HeldIn(C)
<1>5. \A h \in T : f[h] = g[h] /\ g[h] \in Int
  BY <1>3, <1>4, FiguresTypes DEF FiguresHeld, HeldIn, EntryAt, EntryNext
<1>6. f[p] = 0
  <2>1. f[p] = Figure(EntryNext(p), w)
    BY <1>3 DEF FiguresHeld, EntryAt, EntryNext
  <2>. QED
    BY <1>4, <2>1 DEF Figure, NewEntry
<1>7. (HeldIn(C))' = T \/ (HeldIn(C))' = T \cup {p}
  <2>1. (HeldIn(C))' = {h \in Held \cup {p} : Masked(EntryNext(h).key, grain) \in C}
    BY <1>1, <1>3 DEF HeldIn, EntryAt, EntryNext
  <2>. QED
    BY <1>4, <2>1 DEF HeldIn
<1>8. IsFiniteSet(T) /\ p \notin T /\ SumOver(g, T) \in Int /\ HeldSum(C, w) = SumOver(g, T)
  BY <1>3, SumsTypes DEF HeldIn, HeldSum
<1>9. HeldSum(C, w)' = SumOver(f, (HeldIn(C))')
  BY DEF HeldSum
<1>. HIDE DEF f, g, T, p
<1>10. SumOver(f, T) = SumOver(g, T)
  BY <1>5, <1>8, SumSame
<1>11. SumOver(f, T \cup {p}) = f[p] + SumOver(f, T)
  <2>1. \A h \in T \cup {p} : f[h] \in Int
    BY <1>5, <1>6
  <2>. QED
    BY <1>8, <2>1, SumAdded
<1>12. HeldSum(C, w)' = SumOver(g, T)
  <2>1. CASE (HeldIn(C))' = T
    BY <1>9, <1>10, <2>1
  <2>2. CASE (HeldIn(C))' = T \cup {p}
    <3>1. HeldSum(C, w)' = SumOver(f, T \cup {p})
      BY <1>9, <2>2
    <3>. QED
      BY <1>6, <1>8, <1>10, <1>11, <3>1
  <2>. QED
    BY <1>7, <2>1, <2>2
<1>. QED
  BY <1>2, <1>8, <1>12

(* The event is merged into the entry of its key.                          *)
LEMMA HeldAfterCount ==
  ASSUME TypeOK, CountEvent
  PROVE  LET p == <<0, CurSlot>>
             one == [count |-> 1, t_tot |-> event.wall,
                     t_max |-> event.wall, t_min |-> event.wall]
         IN /\ Held' = Held /\ p \in Held /\ EntryAt(p).key = event.key
            /\ EntryNext(p) = Merged(EntryAt(p), one)
            /\ \A h \in Held \ {p} : EntryNext(h) = EntryAt(h)
<1>. DEFINE p == <<0, CurSlot>>
            one == [count |-> 1, t_tot |-> event.wall,
                    t_max |-> event.wall, t_min |-> event.wall]
<1>1. /\ CurSlot \in Slots /\ CurKey \in Keys /\ CurKey # NoKey /\ hash[CurSlot].key = CurKey
      /\ CurKey = event.key
      /\ hash' = [hash EXCEPT ![CurSlot] = Merged(@, one)]
      /\ UNCHANGED <<grain, culls, event>>
  BY CurType, NoKeyAssumption DEF CountEvent, CurKey
<1>2. Occupied' = Occupied /\ CurSlot \in Occupied
  BY <1>1, MergeKeepsKeys DEF Occupied
<1>3. Held' = Held /\ p \in Held
  <2>1. Held' = Held
    BY <1>1, <1>2 DEF Held
  <2>. QED
    BY <1>2, <2>1, HeldMember
<1>4. EntryNext(p) = Merged(hash[CurSlot], one) /\ EntryAt(p) = hash[CurSlot]
  BY <1>1 DEF EntryNext, EntryAt, TypeOK
<1>5. ASSUME NEW h \in Held \ {p}
      PROVE  EntryNext(h) = EntryAt(h)
  <2>1. h = <<h[1], h[2]>> /\ h[2] \in Slots
    BY HeldMember
  <2>. QED
    BY <1>1, <2>1 DEF EntryNext, EntryAt, TypeOK
<1>. QED
  BY <1>1, <1>3, <1>4, <1>5

(* Counting the event moves it from the hand to its entry.                 *)
LEMMA CountConserves ==
  ASSUME TypeOK, TypeOK', SeenInv, Conserved, CountEvent
  PROVE  Conserved'
<1>. SUFFICES ASSUME NEW C \in SUBSET Keys, NEW w \in Figures
              PROVE  HeldSum(C, w)' + InHandOf(C, w)' = HeldSum(C, w) + InHandOf(C, w)
  BY ConservedSame DEF CountEvent
<1>. DEFINE p == <<0, CurSlot>>
            one == [count |-> 1, t_tot |-> event.wall,
                    t_max |-> event.wall, t_min |-> event.wall]
            f == FiguresHeld(w)
            g == [h \in Held |-> IF h = p THEN f[h] + InHand(w) ELSE f[h]]
            id == [h \in Held |-> h]
            T == HeldIn(C)
<1>1. pc = "probe" /\ pc' = "idle" /\ UNCHANGED <<grain, culls, event>>
  BY DEF CountEvent
<1>3. /\ Held' = Held /\ p \in Held /\ EntryAt(p).key = event.key
      /\ EntryNext(p) = Merged(EntryAt(p), one)
      /\ \A h \in Held \ {p} : EntryNext(h) = EntryAt(h)
  BY HeldAfterCount
<1>4. InHand(w) \in Nat
  BY DEF InHand, TypeOK
<1>5. ASSUME NEW h \in Held
      PROVE  /\ Figure(EntryNext(h), w) = g[h]
             /\ EntryNext(h).key = EntryAt(h).key
  <2>1. CASE h = p
    BY <1>3, <2>1 DEF FiguresHeld, Figure, Figures, Merged, InHand
  <2>2. CASE h # p
    BY <1>3, <2>2 DEF FiguresHeld
  <2>. QED
    BY <2>1, <2>2
<1>6. \A h \in Held : f[h] \in Int /\ g[h] \in Int
  BY <1>4, FiguresTypes
<1>7. IsFiniteSet(T) /\ T \subseteq Held /\ HeldSum(C, w) = SumOver(f, T) /\ SumOver(f, T) \in Int
  BY SumsTypes DEF HeldSum
<1>8. HeldSum(C, w)' = SumOver(g, T)
  <2>1. Held' = {id[h] : h \in Held} /\ \A h, j \in Held : id[h] = id[j] => h = j
    BY <1>3
  <2>2. \A h \in Held : /\ Figure(EntryNext(id[h]), w) = g[h] /\ g[h] \in Int
                        /\ Masked(EntryNext(id[h]).key, grain') \in C <=> h \in HeldIn(C)
    <3>. SUFFICES ASSUME NEW h \in Held
                  PROVE  /\ Figure(EntryNext(h), w) = g[h] /\ g[h] \in Int
                         /\ Masked(EntryNext(h).key, grain') \in C <=> h \in HeldIn(C)
      OBVIOUS
    <3>1. Masked(EntryNext(h).key, grain') = Masked(EntryAt(h).key, grain)
      BY <1>1, <1>5
    <3>. QED
      BY <1>5, <1>6, <3>1 DEF HeldIn
  <2>3. Held \cap HeldIn(C) = T
    BY <1>7
  <2>. HIDE DEF g, id
  <2>4. HeldSum(C, w)' = SumOver(g, Held \cap HeldIn(C))
    <3>1. Moved(C, C, w, id, g, Held)
      BY <2>1, <2>2 DEF Moved
    <3>. QED
      BY <3>1, HeldSumMoved
  <2>. QED
    BY <2>3, <2>4
<1>9. InHandOf(C, w)' = 0 /\ InHandOf(C, w) = IF p \in T THEN InHand(w) ELSE 0
  BY <1>1, <1>3 DEF InHandOf, HeldIn
<1>10. \A h \in T : f[h] \in Int /\ g[h] = IF h = p THEN f[h] + InHand(w) ELSE f[h]
  BY <1>6, <1>7
<1>. HIDE DEF f, g, T, p
<1>11. CASE p \in T
  <2>1. SumOver(g, T) = SumOver(f, T) + InHand(w)
    BY <1>4, <1>7, <1>10, <1>11, SumOneMore
  <2>. QED
    BY <1>4, <1>7, <1>8, <1>9, <1>11, <2>1
<1>12. CASE p \notin T
  <2>1. SumOver(g, T) = SumOver(f, T)
    BY <1>7, <1>10, <1>12, SumSame
  <2>. QED
    BY <1>7, <1>8, <1>9, <1>12, <2>1
<1>. QED
  BY <1>11, <1>12

(* Re-inserting an entry moves what it holds to another of the same class. *)
LEMMA ReinsertConserves ==
  ASSUME TypeOK, TypeOK', SeenInv, FramesInv, Conserved, ReinsertEntry
  PROVE  Conserved'
<1>. SUFFICES ASSUME NEW C \in SUBSET Keys, NEW w \in Figures
              PROVE  HeldSum(C, w)' + InHandOf(C, w)' = HeldSum(C, w) + InHandOf(C, w)
  BY ConservedSame DEF ReinsertEntry
<1>. DEFINE p == <<0, CurSlot>>
            q == <<1, culls[1].i>>
            up == IF Len(culls') = Len(culls)
                    THEN [h \in Held |-> h]
                    ELSE [h \in Held |-> IF h[1] = 0 THEN h ELSE <<h[1] - 1, h[2]>>]
            S == Held \ {q}
            f == FiguresHeld(w)
            g == [h \in Held |-> IF h = p THEN f[h] + f[q] ELSE f[h]]
            T == HeldIn(C)
<1>1. /\ p \in Held /\ q \in Held /\ p # q
      /\ Held' = {up[h] : h \in S}
      /\ \A h, j \in S : up[h] = up[j] => h = j
      /\ \A h \in S : EntryNext(up[h]) = IF h = p THEN Merged(EntryAt(p), EntryAt(q)) ELSE EntryAt(h)
  BY HeldAfterReinsert
<1>. HIDE DEF up
<1>2. UNCHANGED <<grain, event, pc>>
  BY DEF ReinsertEntry
<1>3. InHandOf(C, w)' = InHandOf(C, w) /\ InHandOf(C, w) \in Int
  BY <1>2, SumsTypes DEF InHandOf, InHand
<1>4. \A h \in Held : f[h] \in Int /\ g[h] \in Int /\ EntryAt(h) \in Entries
  BY <1>1, FiguresTypes, HeldTypes
<1>5. p \in T <=> q \in T
  <2>1. /\ Len(culls) \in Nat \ {0} /\ Head(culls) = culls[1]
    BY ReinsertMoves
  <2>2. EntryAt(p).key = CurKey /\ EntryAt(q) = culls[1].saved[culls[1].i]
    BY DEF EntryAt, ReinsertEntry
  <2>3. CurKey = culls[1].key
    BY <2>1 DEF CurKey, ReinsertEntry
  <2>4. Masked(EntryAt(q).key, grain) = Masked(EntryAt(p).key, grain)
    BY <2>1, <2>2, <2>3 DEF FramesInv
  <2>. QED
    BY <1>1, <2>4 DEF HeldIn
<1>6. ASSUME NEW h \in S
      PROVE  /\ Figure(EntryNext(up[h]), w) = g[h] /\ g[h] \in Int
             /\ Masked(EntryNext(up[h]).key, grain') \in C <=> h \in HeldIn(C)
  <2>1. CASE h = p
    <3>1. EntryNext(up[h]) = Merged(EntryAt(p), EntryAt(q))
      BY <1>1, <2>1
    <3>2. Figure(EntryNext(up[h]), w) = g[h]
      BY <1>1, <1>4, <2>1, <3>1 DEF FiguresHeld, Figure, Merged
    <3>3. EntryNext(up[h]).key = EntryAt(h).key
      BY <2>1, <3>1 DEF Merged
    <3>. QED
      BY <1>2, <1>4, <3>2, <3>3 DEF HeldIn
  <2>2. CASE h # p
    <3>1. EntryNext(up[h]) = EntryAt(h)
      BY <1>1, <2>2
    <3>. QED
      BY <1>2, <1>4, <2>2, <3>1 DEF HeldIn, FiguresHeld
  <2>. QED
    BY <2>1, <2>2
<1>7. HeldSum(C, w)' = SumOver(g, S \cap HeldIn(C))
  <2>1. S \in SUBSET Held
    OBVIOUS
  <2>2. /\ Held' = {up[h] : h \in S}
        /\ \A h, j \in S : up[h] = up[j] => h = j
    BY <1>1
  <2>3. \A h \in S : /\ Figure(EntryNext(up[h]), w) = g[h] /\ g[h] \in Int
                     /\ Masked(EntryNext(up[h]).key, grain') \in C <=> h \in HeldIn(C)
    BY <1>6
  <2>. HIDE DEF g, S
  <2>4. Moved(C, C, w, up, g, S)
    BY <2>1, <2>2, <2>3 DEF Moved
  <2>. QED
    BY <2>4, HeldSumMoved
<1>8. S \cap HeldIn(C) = T \ {q}
  BY DEF HeldIn
<1>9. IsFiniteSet(T) /\ T \subseteq Held /\ HeldSum(C, w) = SumOver(f, T)
  BY SumsTypes DEF HeldSum
<1>10. IsFiniteSet(T \ {q}) /\ SumOver(f, T \ {q}) \in Int
  <2>1. IsFiniteSet(T \ {q})
    BY <1>9, FS_Subset
  <2>2. \A h \in T \ {q} : f[h] \in Int
    BY <1>4, <1>9
  <2>. HIDE DEF f, T, q
  <2>. QED
    BY <2>1, <2>2, SumType
<1>11. \A h \in T \ {q} : f[h] \in Int /\ g[h] = IF h = p THEN f[h] + f[q] ELSE f[h]
  BY <1>4, <1>9
<1>12. f[q] \in Int /\ \A h \in T : f[h] \in Int
  BY <1>1, <1>4, <1>9
<1>13. p # q
  BY <1>1
<1>. HIDE DEF f, g, T, p, q
<1>14. SumOver(g, T \ {q}) = SumOver(f, T)
  <2>1. CASE q \in T
    <3>1. SumOver(f, T) = f[q] + SumOver(f, T \ {q})
      BY <1>9, <1>12, <2>1, SumTakeOut
    <3>2. SumOver(g, T \ {q}) = SumOver(f, T \ {q}) + f[q]
      <4>1. p \in T \ {q}
        BY <1>5, <1>13, <2>1
      <4>. DEFINE V == T \ {q}
                  d == f[q]
      <4>2. /\ IsFiniteSet(V) /\ p \in V /\ d \in Int
            /\ \A h \in V : f[h] \in Int
            /\ \A h \in V : g[h] = IF h = p THEN f[h] + d ELSE f[h]
        BY <1>10, <1>11, <1>12, <4>1
      <4>. HIDE DEF V, d
      <4>3. SumOver(g, V) = SumOver(f, V) + d
        BY <4>2, SumOneMore
      <4>. QED
        BY <4>3 DEF V, d
    <3>. QED
      BY <1>10, <1>12, <3>1, <3>2
  <2>2. CASE q \notin T
    <3>1. \A h \in T \ {q} : f[h] = g[h]
      BY <1>5, <1>11, <2>2
    <3>2. T \ {q} = T
      BY <2>2
    <3>. QED
      BY <1>9, <3>1, <3>2, SumSame
  <2>. QED
    BY <2>1, <2>2
<1>. QED
  BY <1>3, <1>7, <1>8, <1>9, <1>14

(* One bit of precision less makes the keys of D those of C: what is       *)
(* conserved for every set of keys before the cull is so after it.         *)
LEMMA CullConserves ==
  ASSUME TypeOK, TypeOK', SeenInv, Conserved, Cull
  PROVE  Conserved'
<1>. SUFFICES ASSUME NEW C \in SUBSET Keys, NEW w \in Figures, pc' # "exit"
              PROVE  HeldSum(C, w)' + InHandOf(C, w)' = LoggedSum(C, w)'
  BY DEF Conserved
<1>. DEFINE D == {c \in Keys : Masked(c, grain') \in C}
            down == [h \in Held |-> <<h[1] + 1, h[2]>>]
            f == FiguresHeld(w)
<1>1. grain \in [Calls -> Nat \ {0}] /\ grain' \in [Calls -> Nat \ {0}]
  BY DEF TypeOK
<1>2. ASSUME NEW k \in Keys
      PROVE  Masked(k, grain') \in C <=> Masked(k, grain) \in D
  <2>1. Masked(Masked(k, grain), grain') = Masked(k, grain')
    BY <1>1, CullCoarsens, MaskedTwice
  <2>2. Masked(k, grain) \in Keys
    BY <1>1, MaskedType
  <2>. QED
    BY <2>1, <2>2
<1>3. pc = "probe" /\ pc' = "probe" /\ event' = event /\ seen' = seen
  BY DEF Cull, Collision
<1>4. D \in SUBSET Keys
  OBVIOUS
<1>. HIDE DEF D
<1>5. InHandOf(C, w)' = InHandOf(D, w)
  <2>1. event.key \in Keys
    BY <1>3 DEF TypeOK
  <2>2. Masked(event'.key, grain') \in C <=> Masked(event.key, grain) \in D
    BY <1>2, <1>3, <2>1
  <2>. QED
    BY <1>3, <2>2 DEF InHandOf, InHand
<1>6. LoggedSum(C, w)' = LoggedSum(D, w)
  <2>1. \A k \in EventKeys : Masked(k, grain') \in C <=> Masked(k, grain) \in D
    BY <1>2, EventKeysFinite
  <2>. QED
    BY <1>3, <2>1, LoggedSumSame
<1>7. /\ Held' = {down[h] : h \in Held}
      /\ \A h, j \in Held : down[h] = down[j] => h = j
      /\ \A h \in Held : EntryNext(down[h]) = EntryAt(h)
  BY HeldAfterCull
<1>. HIDE DEF down
<1>8. \A h \in Held : /\ Figure(EntryNext(down[h]), w) = f[h] /\ f[h] \in Int
                      /\ Masked(EntryNext(down[h]).key, grain') \in C <=> h \in HeldIn(D)
  <2>. SUFFICES ASSUME NEW h \in Held
                PROVE  /\ Figure(EntryNext(down[h]), w) = f[h] /\ f[h] \in Int
                       /\ Masked(EntryNext(down[h]).key, grain') \in C <=> h \in HeldIn(D)
    OBVIOUS
  <2>1. EntryNext(down[h]) = EntryAt(h) /\ EntryAt(h).key \in Keys
    BY <1>7, HeldTypes
  <2>2. Masked(EntryAt(h).key, grain') \in C <=> h \in HeldIn(D)
    BY <1>2, <2>1 DEF HeldIn
  <2>. QED
    BY <2>1, <2>2, FiguresTypes DEF FiguresHeld
<1>9. HeldSum(C, w)' = HeldSum(D, w)
  <2>1. HeldSum(C, w)' = SumOver(f, Held \cap HeldIn(D))
    <3>. HIDE DEF f
    <3>1. Moved(C, D, w, down, f, Held)
      BY <1>7, <1>8 DEF Moved
    <3>. QED
      BY <3>1, HeldSumMoved
  <2>2. Held \cap HeldIn(D) = HeldIn(D)
    BY DEF HeldIn
  <2>. QED
    BY <2>1, <2>2 DEF HeldSum
<1>10. HeldSum(D, w) + InHandOf(D, w) = LoggedSum(D, w)
  BY <1>3, <1>4 DEF Conserved
<1>. QED
  BY <1>5, <1>6, <1>9, <1>10
-----------------------------------------------------------------------------
(* What was logged stays a table of natural numbers.                       *)
LEMMA SeenStep ==
  ASSUME SeenInv, [Next]_vars
  PROVE  SeenInv'
<1>1. ASSUME NEW k \in EventKeys, NEW wall \in Walls, LogEvent(k, wall)
      PROVE  SeenInv'
  <2>1. wall \in Nat
    BY KeyAssumption
  <2>. QED
    BY <1>1, <2>1 DEF LogEvent, SeenInv
<1>2. CASE UNCHANGED seen
  BY <1>2 DEF SeenInv
<1>. QED
  BY <1>1, <1>2 DEF Next, HashStep, InsertKey, CountEvent, ReinsertEntry, NextProbe, Cull, vars

(* Nothing is logged and nothing is held at first.                         *)
LEMMA ConservedInit ==
  ASSUME Init
  PROVE  SeenInv /\ Conserved
<1>1. SeenInv
  BY DEF Init, SeenInv
<1>2. Held = {}
  BY EmptySeq DEF Init, Held, Occupied, FreeEntry
<1>3. ASSUME NEW C, NEW w \in Figures
      PROVE  HeldSum(C, w) + InHandOf(C, w) = LoggedSum(C, w)
  <2>. DEFINE f == FiguresHeld(w)
              g == FiguresLogged(w)
              L == LoggedIn(C)
  <2>1. HeldIn(C) = {} /\ InHandOf(C, w) = 0
    BY <1>2 DEF HeldIn, InHandOf, Init
  <2>2. IsFiniteSet(L) /\ \A k \in L : g[k] = 0
    BY EventKeysFinite, FS_Subset DEF LoggedIn, FiguresLogged, Figure, Init
  <2>3. HeldSum(C, w) = SumOver(f, {}) /\ LoggedSum(C, w) = SumOver(g, L)
    BY <2>1 DEF HeldSum, LoggedSum
  <2>. HIDE DEF f, g, L
  <2>4. SumOver(f, {}) = 0
    BY FS_EmptySet, SumZero
  <2>5. SumOver(g, L) = 0
    BY <2>2, SumZero
  <2>. QED
    BY <2>1, <2>3, <2>4, <2>5
<1>. QED
  BY <1>1, <1>3 DEF Conserved

(* Every step conserves the events.                                        *)
LEMMA ConservedStep ==
  ASSUME TypeOK, TypeOK', SeenInv, FramesInv, Conserved, [Next]_vars
  PROVE  Conserved'
<1>1. ASSUME UNCHANGED <<hash, grain, event, culls, pc, seen>>
      PROVE  Conserved'
  BY <1>1 DEF Conserved, HeldSum, HeldIn, FiguresHeld, Held, EntryAt, Occupied, InHandOf, InHand,
              LoggedSum, LoggedIn, FiguresLogged
<1>2. CASE NextProbe
  BY <1>1, <1>2 DEF NextProbe
<1>3. CASE UNCHANGED vars
  BY <1>1, <1>3 DEF vars
<1>. QED
  BY <1>2, <1>3, LogEventConserves, InsertConserves, CountConserves, ReinsertConserves,
     CullConserves DEF Next, HashStep
-----------------------------------------------------------------------------
(* The sums that EventsConserved writes out are these.                     *)
LEMMA SumsWritten ==
  ASSUME NEW H \in SUBSET Held, NEW L \in SUBSET EventKeys
  PROVE  /\ MapThenSumSet(LAMBDA h : EntryAt(h).count, H) = SumOver(FiguresHeld("count"), H)
         /\ MapThenSumSet(LAMBDA h : EntryAt(h).t_tot, H) = SumOver(FiguresHeld("t_tot"), H)
         /\ MapThenSumSet(LAMBDA k : seen[k].count, L) = SumOver(FiguresLogged("count"), L)
         /\ MapThenSumSet(LAMBDA k : seen[k].t_tot, L) = SumOver(FiguresLogged("t_tot"), L)
<1>1. MapThenSumSet(LAMBDA h : EntryAt(h).count, H) = SumOver(FiguresHeld("count"), H)
  <2>. DEFINE f == FiguresHeld("count")
              Adds(g) == g = [s \in SUBSET H |-> IF s = {} THEN 0 ELSE EntryAt(Chosen(s)).count + g[s \ {Chosen(s)}]]
  <2>1. ASSUME NEW g
        PROVE  Adds(g) <=> IsIter(g, f, H)
    <3>1. \A s \in SUBSET H : s # {} => f[Chosen(s)] = EntryAt(Chosen(s)).count
      BY DEF Chosen, FiguresHeld, Figure
    <3>. HIDE DEF f
    <3>. QED
      BY <3>1 DEF IsIter
  <2>2. MapThenSumSet(LAMBDA h : EntryAt(h).count, H) = (CHOOSE g : Adds(g))[H]
    BY DEF MapThenSumSet, MapThenFoldSet, Chosen
  <2>. HIDE DEF Adds, f
  <2>3. (CHOOSE g : Adds(g)) = IterOf(f, H)
    BY Zenon, <2>1 DEF IterOf
  <2>. QED
    BY Zenon, <2>2, <2>3, SumIsIter DEF f
<1>2. MapThenSumSet(LAMBDA h : EntryAt(h).t_tot, H) = SumOver(FiguresHeld("t_tot"), H)
  <2>. DEFINE f == FiguresHeld("t_tot")
              Adds(g) == g = [s \in SUBSET H |-> IF s = {} THEN 0 ELSE EntryAt(Chosen(s)).t_tot + g[s \ {Chosen(s)}]]
  <2>1. ASSUME NEW g
        PROVE  Adds(g) <=> IsIter(g, f, H)
    <3>1. \A s \in SUBSET H : s # {} => f[Chosen(s)] = EntryAt(Chosen(s)).t_tot
      BY DEF Chosen, FiguresHeld, Figure
    <3>. HIDE DEF f
    <3>. QED
      BY <3>1 DEF IsIter
  <2>2. MapThenSumSet(LAMBDA h : EntryAt(h).t_tot, H) = (CHOOSE g : Adds(g))[H]
    BY DEF MapThenSumSet, MapThenFoldSet, Chosen
  <2>. HIDE DEF Adds, f
  <2>3. (CHOOSE g : Adds(g)) = IterOf(f, H)
    BY Zenon, <2>1 DEF IterOf
  <2>. QED
    BY Zenon, <2>2, <2>3, SumIsIter DEF f
<1>3. MapThenSumSet(LAMBDA k : seen[k].count, L) = SumOver(FiguresLogged("count"), L)
  <2>. DEFINE f == FiguresLogged("count")
              Adds(g) == g = [s \in SUBSET L |-> IF s = {} THEN 0 ELSE seen[Chosen(s)].count + g[s \ {Chosen(s)}]]
  <2>1. ASSUME NEW g
        PROVE  Adds(g) <=> IsIter(g, f, L)
    <3>1. \A s \in SUBSET L : s # {} => f[Chosen(s)] = seen[Chosen(s)].count
      BY DEF Chosen, FiguresLogged, Figure
    <3>. HIDE DEF f
    <3>. QED
      BY <3>1 DEF IsIter
  <2>2. MapThenSumSet(LAMBDA k : seen[k].count, L) = (CHOOSE g : Adds(g))[L]
    BY DEF MapThenSumSet, MapThenFoldSet, Chosen
  <2>. HIDE DEF Adds, f
  <2>3. (CHOOSE g : Adds(g)) = IterOf(f, L)
    BY Zenon, <2>1 DEF IterOf
  <2>. QED
    BY Zenon, <2>2, <2>3, SumIsIter DEF f
<1>4. MapThenSumSet(LAMBDA k : seen[k].t_tot, L) = SumOver(FiguresLogged("t_tot"), L)
  <2>. DEFINE f == FiguresLogged("t_tot")
              Adds(g) == g = [s \in SUBSET L |-> IF s = {} THEN 0 ELSE seen[Chosen(s)].t_tot + g[s \ {Chosen(s)}]]
  <2>1. ASSUME NEW g
        PROVE  Adds(g) <=> IsIter(g, f, L)
    <3>1. \A s \in SUBSET L : s # {} => f[Chosen(s)] = seen[Chosen(s)].t_tot
      BY DEF Chosen, FiguresLogged, Figure
    <3>. HIDE DEF f
    <3>. QED
      BY <3>1 DEF IsIter
  <2>2. MapThenSumSet(LAMBDA k : seen[k].t_tot, L) = (CHOOSE g : Adds(g))[L]
    BY DEF MapThenSumSet, MapThenFoldSet, Chosen
  <2>. HIDE DEF Adds, f
  <2>3. (CHOOSE g : Adds(g)) = IterOf(f, L)
    BY Zenon, <2>1 DEF IterOf
  <2>. QED
    BY Zenon, <2>2, <2>3, SumIsIter DEF f
<1>. QED
  BY <1>1, <1>2, <1>3, <1>4

(* However often the table is compressed, every event counted so far is    *)
(* held once, under its own region, call and rank and under the size class *)
(* it has at the present precision (IPM_HASH_HKEY, ipm_hash_cull).         *)
THEOREM EventsConservedCorrect == Spec => []EventsConserved
<1>1. ASSUME TypeOK, Conserved
      PROVE  EventsConserved
  <2>. SUFFICES ASSUME pc # "exit", NEW k0 \in EventKeys
                PROVE  LET class == Masked(k0, grain)
                           held   == {h \in Held : Masked(EntryAt(h).key, grain) = class}
                           logged == {k \in EventKeys : Masked(k, grain) = class}
                           inHand == IF pc = "probe" /\ Masked(event.key, grain) = class THEN 1 ELSE 0
                       IN /\ MapThenSumSet(LAMBDA h : EntryAt(h).count, held) + inHand
                               = MapThenSumSet(LAMBDA k : seen[k].count, logged)
                          /\ MapThenSumSet(LAMBDA h : EntryAt(h).t_tot, held) + inHand * event.wall
                               = MapThenSumSet(LAMBDA k : seen[k].t_tot, logged)
    BY DEF EventsConserved
  <2>. DEFINE class == Masked(k0, grain)
              held == {h \in Held : Masked(EntryAt(h).key, grain) = class}
              logged == {k \in EventKeys : Masked(k, grain) = class}
              inHand == IF pc = "probe" /\ Masked(event.key, grain) = class THEN 1 ELSE 0
  <2>1. held = HeldIn({class}) /\ logged = LoggedIn({class})
    BY DEF HeldIn, LoggedIn
  <2>2. class \in Keys
    <3>1. k0 \in Keys /\ grain \in [Calls -> Nat \ {0}]
      BY <1>1, EventKeysFinite DEF TypeOK
    <3>. QED
      BY <3>1, MaskedType
  <2>3. ASSUME NEW w \in Figures
        PROVE  SumOver(FiguresHeld(w), held) + InHandOf({class}, w) = SumOver(FiguresLogged(w), logged)
    <3>1. HeldSum({class}, w) + InHandOf({class}, w) = LoggedSum({class}, w)
      BY <1>1, <2>2 DEF Conserved
    <3>. HIDE DEF class, held, logged
    <3>. QED
      BY <2>1, <3>1 DEF HeldSum, LoggedSum
  <2>4. /\ InHandOf({class}, "count") = inHand
        /\ InHandOf({class}, "t_tot") = inHand * event.wall
    BY <1>1 DEF InHandOf, InHand, TypeOK
  <2>5. held \in SUBSET Held /\ logged \in SUBSET EventKeys
    OBVIOUS
  <2>6. "count" \in Figures /\ "t_tot" \in Figures
    BY DEF Figures
  <2>. HIDE DEF class, held, logged, inHand
  <2>7. /\ SumOver(FiguresHeld("count"), held) + inHand = SumOver(FiguresLogged("count"), logged)
        /\ SumOver(FiguresHeld("t_tot"), held) + inHand * event.wall
             = SumOver(FiguresLogged("t_tot"), logged)
    BY <2>3, <2>4, <2>6
  <2>8. /\ MapThenSumSet(LAMBDA h : EntryAt(h).count, held) = SumOver(FiguresHeld("count"), held)
        /\ MapThenSumSet(LAMBDA h : EntryAt(h).t_tot, held) = SumOver(FiguresHeld("t_tot"), held)
        /\ MapThenSumSet(LAMBDA k : seen[k].count, logged) = SumOver(FiguresLogged("count"), logged)
        /\ MapThenSumSet(LAMBDA k : seen[k].t_tot, logged) = SumOver(FiguresLogged("t_tot"), logged)
    BY <2>5, SumsWritten
  <2>9. /\ MapThenSumSet(LAMBDA h : EntryAt(h).count, held) + inHand
             = MapThenSumSet(LAMBDA k : seen[k].count, logged)
        /\ MapThenSumSet(LAMBDA h : EntryAt(h).t_tot, held) + inHand * event.wall
             = MapThenSumSet(LAMBDA k : seen[k].t_tot, logged)
    BY <2>7, <2>8
  <2>. QED
    BY <2>9 DEF class, held, logged, inHand
<1>. QED
  BY <1>1, ConservedInit, ConservedStep, SeenStep, FramesInit, FramesStep, TypeCorrect, PTL DEF Spec
-----------------------------------------------------------------------------
(***************************************************************************)
(* The table implements the profile.                                       *)
(***************************************************************************)

(* A finite set of numbers has a lowest and a highest one.                 *)
LEMMA Extremes ==
  ASSUME NEW S \in SUBSET Nat, IsFiniteSet(S), S # {}
  PROVE  /\ Min(S) \in S /\ \A y \in S : Min(S) <= y
         /\ Max(S) \in S /\ \A y \in S : Max(S) >= y
<1>1. \E x \in S : \A y \in S : x <= y
  <2>1. PICK n \in S : TRUE
    OBVIOUS
  <2>. DEFINE U == S \cap (0 .. n)
  <2>2. U # {} /\ U \in SUBSET (0 .. n) /\ n \in Nat
    BY <2>1
  <2>3. \E x \in U : \A y \in U : x <= y
    <3>. HIDE DEF U
    <3>. QED
      BY <2>2, LeastNatural
  <2>4. PICK x \in U : \A y \in U : x <= y
    BY <2>3
  <2>5. \A y \in S : x <= y
    BY <2>4
  <2>. QED
    BY <2>4, <2>5
<1>2. \E x \in S : \A y \in S : x >= y
  <2>. DEFINE Above(T) == {y \in S : \A x \in T : y > x}
              Bad == {T \in SUBSET S : Above(T) = {}}
  <2>1. S \in Bad
    <3>1. SUFFICES ASSUME NEW y \in S, \A x \in S : y > x
                   PROVE  FALSE
      OBVIOUS
    <3>2. y > y /\ y \in Nat
      BY <3>1
    <3>. QED
      BY <3>2
  <2>2. PICK T \in Bad : \A U \in Bad : U \subseteq T => U = T
    <3>. DEFINE Whole == S
    <3>1. Bad \in SUBSET SUBSET Whole /\ IsFiniteSet(Whole)
      OBVIOUS
    <3>2. Bad # {}
      BY <2>1
    <3>. HIDE DEF Bad, Whole
    <3>. QED
      BY <3>1, <3>2, SmallestSubset
  <2>3. T # {}
    OBVIOUS
  <2>4. PICK x \in T : TRUE
    BY <2>3
  <2>5. T \ {x} \notin Bad
    BY <2>2, <2>4
  <2>6. PICK y \in S : \A z \in T \ {x} : y > z
    BY <2>5
  <2>7. x \in S /\ ~ (y > x)
    BY <2>4, <2>6
  <2>8. \A z \in T : x >= z
    BY <2>6, <2>7
  <2>9. \A y1 \in S : x >= y1
    BY <2>7, <2>8
  <2>. QED
    BY <2>7, <2>9
<1>. QED
  BY <1>1, <1>2 DEF Min, Max

(* Two sets of which each has an element below every one of the other have *)
(* the same lowest one; and the same for the highest.                      *)
LEMMA SameExtremes ==
  ASSUME NEW A \in SUBSET Nat, IsFiniteSet(A), A # {},
         NEW B \in SUBSET Nat, IsFiniteSet(B), B # {}
  PROVE  /\ (\A x \in A : \E y \in B : y <= x) /\ (\A y \in B : \E x \in A : x <= y)
              => Min(A) = Min(B)
         /\ (\A x \in A : \E y \in B : y >= x) /\ (\A y \in B : \E x \in A : x >= y)
              => Max(A) = Max(B)
<1>1. /\ Min(A) \in A /\ \A y \in A : Min(A) <= y
      /\ Max(A) \in A /\ \A y \in A : Max(A) >= y
      /\ Min(B) \in B /\ \A y \in B : Min(B) <= y
      /\ Max(B) \in B /\ \A y \in B : Max(B) >= y
  BY Extremes
<1>2. ASSUME \A x \in A : \E y \in B : y <= x, \A y \in B : \E x \in A : x <= y
      PROVE  Min(A) = Min(B)
  <2>1. PICK y \in B : y <= Min(A)
    BY <1>1, <1>2
  <2>2. PICK x \in A : x <= Min(B)
    BY <1>1, <1>2
  <2>3. Min(B) <= y /\ Min(A) <= x /\ Min(A) \in Nat /\ Min(B) \in Nat /\ x \in Nat /\ y \in Nat
    BY <1>1, <2>1, <2>2
  <2>. QED
    BY <2>1, <2>2, <2>3
<1>3. ASSUME \A x \in A : \E y \in B : y >= x, \A y \in B : \E x \in A : x >= y
      PROVE  Max(A) = Max(B)
  <2>1. PICK y \in B : y >= Max(A)
    BY <1>1, <1>3
  <2>2. PICK x \in A : x >= Max(B)
    BY <1>1, <1>3
  <2>3. Max(B) >= y /\ Max(A) >= x /\ Max(A) \in Nat /\ Max(B) \in Nat /\ x \in Nat /\ y \in Nat
    BY <1>1, <2>1, <2>2
  <2>. QED
    BY <2>1, <2>2, <2>3
<1>. QED
  BY <1>2, <1>3

(* One number more.                                                        *)
LEMMA ExtremeOfOneMore ==
  ASSUME NEW A \in SUBSET Nat, IsFiniteSet(A), A # {}, NEW n \in Nat
  PROVE  /\ Min(A \cup {n}) = IF n < Min(A) THEN n ELSE Min(A)
         /\ Max(A \cup {n}) = IF n > Max(A) THEN n ELSE Max(A)
<1>. DEFINE B == A \cup {n}
<1>1. B \in SUBSET Nat /\ IsFiniteSet(B) /\ B # {}
  BY FS_AddElement
<1>2. /\ Min(A) \in A /\ \A y \in A : Min(A) <= y
      /\ Max(A) \in A /\ \A y \in A : Max(A) >= y
  BY Extremes
<1>3. /\ Min(B) \in B /\ \A y \in B : Min(B) <= y
      /\ Max(B) \in B /\ \A y \in B : Max(B) >= y
  <2>. HIDE DEF B
  <2>. QED
    BY <1>1, Extremes
<1>4. Min(B) \in Nat /\ Max(B) \in Nat /\ Min(A) \in Nat /\ Max(A) \in Nat
  BY <1>1, <1>2, <1>3
<1>5. Min(B) <= n /\ Min(B) <= Min(A) /\ Max(B) >= n /\ Max(B) >= Max(A)
  BY <1>2, <1>3
<1>6. /\ Min(B) = n \/ Min(A) <= Min(B)
      /\ Max(B) = n \/ Max(A) >= Max(B)
  BY <1>2, <1>3
<1>. QED
  BY <1>4, <1>5, <1>6
-----------------------------------------------------------------------------
(* The keys of a site, and what the table holds of it.                     *)
KeysOf(site) == {k \in Keys : SiteOf(k) = site}
HeldAt(site) == {h \in Held : SiteOf(EntryAt(h).key) = site}
Lows(site) == {TMinInit} \cup {EntryAt(h).t_min : h \in HeldAt(site)}
Highs(site) == {0} \cup {EntryAt(h).t_max : h \in HeldAt(site)}

(* The profile of a site, in terms of the sums that are conserved.         *)
ProfileWritten ==
  \A site \in Sites :
    ProfileOf(site) = [count |-> HeldSum(KeysOf(site), "count"),
                       t_tot |-> HeldSum(KeysOf(site), "t_tot"),
                       t_min |-> Min(Lows(site)),
                       t_max |-> Max(Highs(site))]

(* Masking a key leaves its site.                                          *)
LEMMA SiteOfMasked ==
  ASSUME NEW k \in Keys, NEW g \in [Calls -> Nat \ {0}], NEW site
  PROVE  Masked(k, g) \in KeysOf(site) <=> SiteOf(k) = site
<1>1. Masked(k, g) \in Keys
  BY MaskedType
<1>2. SiteOf(Masked(k, g)) = SiteOf(k)
  BY DEF Masked, SiteOf, Keys
<1>. QED
  BY <1>1, <1>2 DEF KeysOf

(* The profile of a site is made of conserved sums, and of extremes.       *)
LEMMA ProfileIsWritten ==
  ASSUME TypeOK
  PROVE  ProfileWritten
<1>. SUFFICES ASSUME NEW site \in Sites
              PROVE  ProfileOf(site) = [count |-> HeldSum(KeysOf(site), "count"),
                                        t_tot |-> HeldSum(KeysOf(site), "t_tot"),
                                        t_min |-> Min(Lows(site)),
                                        t_max |-> Max(Highs(site))]
  BY DEF ProfileWritten
<1>1. HeldIn(KeysOf(site)) = HeldAt(site)
  <2>1. \A h \in Held : EntryAt(h).key \in Keys
    BY HeldTypes
  <2>2. grain \in [Calls -> Nat \ {0}]
    BY DEF TypeOK
  <2>3. \A h \in Held : Masked(EntryAt(h).key, grain) \in KeysOf(site) <=> SiteOf(EntryAt(h).key) = site
    BY <2>1, <2>2, SiteOfMasked
  <2>. QED
    BY <2>3 DEF HeldIn, HeldAt
<1>2. HeldAt(site) \in SUBSET Held /\ {} \in SUBSET EventKeys
  BY DEF HeldAt
<1>3. /\ MapThenSumSet(LAMBDA h : EntryAt(h).count, HeldAt(site)) = HeldSum(KeysOf(site), "count")
      /\ MapThenSumSet(LAMBDA h : EntryAt(h).t_tot, HeldAt(site)) = HeldSum(KeysOf(site), "t_tot")
  BY <1>1, <1>2, SumsWritten DEF HeldSum
<1>4. ProfileOf(site) = [count |-> MapThenSumSet(LAMBDA h : EntryAt(h).count, HeldAt(site)),
                         t_tot |-> MapThenSumSet(LAMBDA h : EntryAt(h).t_tot, HeldAt(site)),
                         t_min |-> Min(Lows(site)),
                         t_max |-> Max(Highs(site))]
  BY DEF ProfileOf, HeldAt, Lows, Highs
<1>. QED
  BY <1>3, <1>4

(* The extremes are taken of finite sets of natural numbers.               *)
LEMMA BoundsTypes ==
  ASSUME TypeOK, NEW site
  PROVE  /\ Lows(site) \in SUBSET Nat /\ IsFiniteSet(Lows(site)) /\ Lows(site) # {}
         /\ Highs(site) \in SUBSET Nat /\ IsFiniteSet(Highs(site)) /\ Highs(site) # {}
<1>1. IsFiniteSet(HeldAt(site)) /\ HeldAt(site) \subseteq Held
  BY HeldTypes, FS_Subset DEF HeldAt
<1>2. \A h \in HeldAt(site) : EntryAt(h).t_min \in Nat /\ EntryAt(h).t_max \in Nat
  BY <1>1, HeldTypes DEF Entries
<1>. DEFINE low == [h \in Held |-> EntryAt(h).t_min]
            high == [h \in Held |-> EntryAt(h).t_max]
<1>3. /\ Lows(site) = {low[h] : h \in HeldAt(site)} \cup {TMinInit}
      /\ Highs(site) = {high[h] : h \in HeldAt(site)} \cup {0}
  BY <1>1 DEF Lows, Highs
<1>4. IsFiniteSet({low[h] : h \in HeldAt(site)}) /\ IsFiniteSet({high[h] : h \in HeldAt(site)})
  <2>. HIDE DEF low, high
  <2>. QED
    BY <1>1, ImageFinite
<1>5. IsFiniteSet(Lows(site)) /\ IsFiniteSet(Highs(site))
  <2>. HIDE DEF low, high
  <2>. QED
    BY <1>3, <1>4, FS_AddElement
<1>. QED
  BY <1>2, <1>5, KeyAssumption DEF Lows, Highs

(* What follows of the profile from the types of the variables.            *)
ProfileInv ==
  /\ ProfileWritten
  /\ \A site \in Sites, w \in Figures :
       HeldSum(KeysOf(site), w) \in Int /\ InHandOf(KeysOf(site), w) \in Int
  /\ \A site \in Sites :
       /\ Lows(site) \in SUBSET Nat /\ IsFiniteSet(Lows(site)) /\ Lows(site) # {}
       /\ Highs(site) \in SUBSET Nat /\ IsFiniteSet(Highs(site)) /\ Highs(site) # {}

(* It follows from the types of the variables.                             *)
LEMMA ProfileTypes ==
  ASSUME TypeOK, SeenInv
  PROVE  ProfileInv
<1>1. \A site \in Sites, w \in Figures :
        HeldSum(KeysOf(site), w) \in Int /\ InHandOf(KeysOf(site), w) \in Int
  BY SumsTypes
<1>2. \A site \in Sites :
        /\ Lows(site) \in SUBSET Nat /\ IsFiniteSet(Lows(site)) /\ Lows(site) # {}
        /\ Highs(site) \in SUBSET Nat /\ IsFiniteSet(Highs(site)) /\ Highs(site) # {}
  BY BoundsTypes
<1>. QED
  BY <1>1, <1>2, ProfileIsWritten DEF ProfileInv

(* The duration of the event that is being entered is one.                 *)
WallInv == pc = "probe" => event.wall \in Walls

(* Every step keeps the duration in hand one of those of events.           *)
LEMMA WallStep ==
  ASSUME WallInv, [Next]_vars
  PROVE  WallInv'
BY DEF WallInv, Next, HashStep, LogEvent, InsertKey, CountEvent, ReinsertEntry, NextProbe, Cull,
       Collision, vars
-----------------------------------------------------------------------------
(* The sums of a site change by what was in hand and is not any more.      *)
LEMMA SiteSums ==
  ASSUME TypeOK, TypeOK', Conserved, Conserved', ProfileInv, ProfileInv',
         pc # "exit", pc' # "exit", seen' = seen, NEW site \in Sites, NEW w \in Figures
  PROVE  HeldSum(KeysOf(site), w)'
           = HeldSum(KeysOf(site), w) + InHandOf(KeysOf(site), w) - InHandOf(KeysOf(site), w)'
<1>. DEFINE K == KeysOf(site)
<1>1. K \in SUBSET Keys
  BY DEF KeysOf
<1>2. grain \in [Calls -> Nat \ {0}] /\ grain' \in [Calls -> Nat \ {0}]
  BY DEF TypeOK
<1>3. \A k \in EventKeys : Masked(k, grain') \in K <=> Masked(k, grain) \in K
  BY <1>2, EventKeysFinite, SiteOfMasked
<1>4. /\ HeldSum(K, w) \in Int /\ InHandOf(K, w) \in Int
      /\ HeldSum(K, w)' \in Int /\ InHandOf(K, w)' \in Int
  BY DEF ProfileInv
<1>. HIDE DEF K
<1>5. LoggedSum(K, w)' = LoggedSum(K, w)
  BY <1>3, LoggedSumSame
<1>6. /\ HeldSum(K, w) + InHandOf(K, w) = LoggedSum(K, w)
      /\ HeldSum(K, w)' + InHandOf(K, w)' = LoggedSum(K, w)'
  BY <1>1 DEF Conserved
<1>. QED
  BY <1>4, <1>5, <1>6 DEF K

(* What is in hand for a site, before and after a step of the probe.       *)
LEMMA SiteInHand ==
  ASSUME TypeOK, TypeOK', NEW site, NEW w
  PROVE  /\ InHandOf(KeysOf(site), w)
              = IF pc = "probe" /\ SiteOf(event.key) = site THEN InHand(w) ELSE 0
         /\ InHandOf(KeysOf(site), w)'
              = IF pc' = "probe" /\ SiteOf(event'.key) = site THEN InHand(w)' ELSE 0
<1>1. grain \in [Calls -> Nat \ {0}] /\ grain' \in [Calls -> Nat \ {0}]
  BY DEF TypeOK
<1>2. pc = "probe" => (Masked(event.key, grain) \in KeysOf(site) <=> SiteOf(event.key) = site)
  BY <1>1, SiteOfMasked DEF TypeOK
<1>3. pc' = "probe" => (Masked(event'.key, grain') \in KeysOf(site) <=> SiteOf(event'.key) = site)
  BY <1>1, SiteOfMasked DEF TypeOK
<1>. QED
  BY <1>2, <1>3 DEF InHandOf

(* The shortest and the longest event of a site are the same when each of  *)
(* its entries has one at least as short, and one at least as long, on the *)
(* other side of a step.                                                   *)
LEMMA SiteBounds ==
  ASSUME ProfileInv, ProfileInv', NEW site \in Sites,
         \A h \in HeldAt(site) : \E j \in HeldAt(site)' :
           EntryNext(j).t_min <= EntryAt(h).t_min /\ EntryNext(j).t_max >= EntryAt(h).t_max,
         \A j \in HeldAt(site)' :
           /\ EntryNext(j).t_min = TMinInit
              \/ \E h \in HeldAt(site) : EntryAt(h).t_min = EntryNext(j).t_min
           /\ EntryNext(j).t_max = 0
              \/ \E h \in HeldAt(site) : EntryAt(h).t_max = EntryNext(j).t_max
  PROVE  Min(Lows(site))' = Min(Lows(site)) /\ Max(Highs(site))' = Max(Highs(site))
<1>. DEFINE A == Lows(site)
            B == Lows(site)'
            U == Highs(site)
            V == Highs(site)'
<1>1. /\ A = {TMinInit} \cup {EntryAt(h).t_min : h \in HeldAt(site)}
      /\ B = {TMinInit} \cup {EntryNext(j).t_min : j \in HeldAt(site)'}
      /\ U = {0} \cup {EntryAt(h).t_max : h \in HeldAt(site)}
      /\ V = {0} \cup {EntryNext(j).t_max : j \in HeldAt(site)'}
  BY DEF Lows, Highs, EntryAt, EntryNext
<1>2. /\ A \in SUBSET Nat /\ IsFiniteSet(A) /\ A # {} /\ B \in SUBSET Nat /\ IsFiniteSet(B) /\ B # {}
      /\ U \in SUBSET Nat /\ IsFiniteSet(U) /\ U # {} /\ V \in SUBSET Nat /\ IsFiniteSet(V) /\ V # {}
  BY DEF ProfileInv
<1>. HIDE DEF A, B, U, V
<1>3. \A x \in A : \E y \in B : y <= x
  <2>. SUFFICES ASSUME NEW x \in A PROVE \E y \in B : y <= x
    OBVIOUS
  <2>1. CASE x = TMinInit
    BY <1>1, <2>1, KeyAssumption
  <2>2. CASE x # TMinInit
    <3>1. PICK h \in HeldAt(site) : x = EntryAt(h).t_min
      BY <1>1, <2>2
    <3>2. PICK j \in HeldAt(site)' : EntryNext(j).t_min <= x
      BY <3>1
    <3>. QED
      BY <1>1, <3>2
  <2>. QED
    BY <2>1, <2>2
<1>4. \A x \in U : \E y \in V : y >= x
  <2>. SUFFICES ASSUME NEW x \in U PROVE \E y \in V : y >= x
    OBVIOUS
  <2>1. CASE x = 0
    BY <1>1, <2>1
  <2>2. CASE x # 0
    <3>1. PICK h \in HeldAt(site) : x = EntryAt(h).t_max
      BY <1>1, <2>2
    <3>2. PICK j \in HeldAt(site)' : EntryNext(j).t_max >= x
      BY <3>1
    <3>. QED
      BY <1>1, <3>2
  <2>. QED
    BY <2>1, <2>2
<1>5. B \subseteq A /\ V \subseteq U
  BY <1>1
<1>6. (\A y \in B : \E x \in A : x <= y) /\ (\A y \in V : \E x \in U : x >= y)
  <2>1. (\A y \in B : y <= y) /\ (\A y \in V : y >= y)
    BY <1>2
  <2>. QED
    BY <1>5, <2>1
<1>7. Min(A) = Min(B)
  BY <1>2, <1>3, <1>6, SameExtremes
<1>8. Max(U) = Max(V)
  BY <1>2, <1>4, <1>6, SameExtremes
<1>9. Min(Lows(site))' = Min(B) /\ Max(Highs(site))' = Max(V)
  BY DEF B, V, Min, Max
<1>. QED
  BY <1>7, <1>8, <1>9 DEF A, U

(* The profile of a site of which nothing changes.                         *)
LEMMA SiteSame ==
  ASSUME ProfileInv, ProfileInv', NEW site \in Sites,
         \A w \in Figures : HeldSum(KeysOf(site), w)' = HeldSum(KeysOf(site), w),
         Min(Lows(site))' = Min(Lows(site)), Max(Highs(site))' = Max(Highs(site))
  PROVE  ProfileOf(site)' = ProfileOf(site)
BY DEF ProfileInv, ProfileWritten, Figures

(* What is held of a site after a step.                                    *)
LEMMA HeldAtNext ==
  ASSUME NEW site
  PROVE  HeldAt(site)' = {h \in Held' : SiteOf(EntryNext(h).key) = site}
BY DEF HeldAt, EntryAt, EntryNext

(* Entering a key changes no extreme: the new entry has the initial ones.  *)
LEMMA InsertBounds ==
  ASSUME TypeOK, ProfileInv, ProfileInv', InsertKey, NEW site \in Sites
  PROVE  Min(Lows(site))' = Min(Lows(site)) /\ Max(Highs(site))' = Max(Highs(site))
<1>. DEFINE p == <<0, CurSlot>>
<1>1. /\ Held' = Held \cup {p}
      /\ EntryNext(p) = NewEntry(CurKey)
      /\ \A h \in Held : EntryNext(h) = EntryAt(h)
  BY HeldAfterInsert
<1>. HIDE DEF p
<1>2. ASSUME NEW h \in HeldAt(site)
      PROVE  \E j \in HeldAt(site)' :
               EntryNext(j).t_min <= EntryAt(h).t_min /\ EntryNext(j).t_max >= EntryAt(h).t_max
  <2>1. h \in Held /\ SiteOf(EntryAt(h).key) = site
    BY DEF HeldAt
  <2>2. h \in HeldAt(site)' /\ EntryNext(h) = EntryAt(h)
    BY <1>1, <2>1, HeldAtNext
  <2>3. EntryAt(h).t_min \in Nat /\ EntryAt(h).t_max \in Nat
    BY <2>1, HeldTypes DEF Entries
  <2>. QED
    BY <2>2, <2>3
<1>3. ASSUME NEW j \in HeldAt(site)'
      PROVE  /\ EntryNext(j).t_min = TMinInit
                \/ \E h \in HeldAt(site) : EntryAt(h).t_min = EntryNext(j).t_min
             /\ EntryNext(j).t_max = 0
                \/ \E h \in HeldAt(site) : EntryAt(h).t_max = EntryNext(j).t_max
  <2>1. j \in Held \cup {p} /\ SiteOf(EntryNext(j).key) = site
    BY <1>1, HeldAtNext
  <2>2. CASE j = p
    BY <1>1, <2>2 DEF NewEntry
  <2>3. CASE j \in Held
    BY <1>1, <2>1, <2>3 DEF HeldAt
  <2>. QED
    BY <2>1, <2>2, <2>3
<1>. QED
  BY <1>2, <1>3, SiteBounds

(* Saving the table changes no extreme ...                                 *)
LEMMA CullBounds ==
  ASSUME TypeOK, TypeOK', ProfileInv, ProfileInv', Cull, pc' # "exit", NEW site \in Sites
  PROVE  Min(Lows(site))' = Min(Lows(site)) /\ Max(Highs(site))' = Max(Highs(site))
<1>. DEFINE down == [h \in Held |-> <<h[1] + 1, h[2]>>]
<1>1. /\ Held' = {down[h] : h \in Held}
      /\ \A h \in Held : EntryNext(down[h]) = EntryAt(h)
  BY HeldAfterCull
<1>. HIDE DEF down
<1>2. ASSUME NEW h \in HeldAt(site)
      PROVE  \E j \in HeldAt(site)' :
               EntryNext(j).t_min <= EntryAt(h).t_min /\ EntryNext(j).t_max >= EntryAt(h).t_max
  <2>1. h \in Held /\ SiteOf(EntryAt(h).key) = site
    BY DEF HeldAt
  <2>2. down[h] \in HeldAt(site)' /\ EntryNext(down[h]) = EntryAt(h)
    BY <1>1, <2>1, HeldAtNext
  <2>3. EntryAt(h).t_min \in Nat /\ EntryAt(h).t_max \in Nat
    BY <2>1, HeldTypes DEF Entries
  <2>. QED
    BY <2>2, <2>3
<1>3. ASSUME NEW j \in HeldAt(site)'
      PROVE  /\ EntryNext(j).t_min = TMinInit
                \/ \E h \in HeldAt(site) : EntryAt(h).t_min = EntryNext(j).t_min
             /\ EntryNext(j).t_max = 0
                \/ \E h \in HeldAt(site) : EntryAt(h).t_max = EntryNext(j).t_max
  <2>1. PICK h \in Held : j = down[h]
    BY <1>1, HeldAtNext
  <2>2. EntryNext(j) = EntryAt(h) /\ SiteOf(EntryNext(j).key) = site
    BY <1>1, <2>1, HeldAtNext
  <2>. QED
    BY <2>2 DEF HeldAt
<1>. QED
  BY <1>2, <1>3, SiteBounds

(* ... and neither does merging a saved entry into another.                *)
LEMMA ReinsertBounds ==
  ASSUME TypeOK, TypeOK', FramesInv, ProfileInv, ProfileInv', ReinsertEntry, NEW site \in Sites
  PROVE  Min(Lows(site))' = Min(Lows(site)) /\ Max(Highs(site))' = Max(Highs(site))
<1>. DEFINE p == <<0, CurSlot>>
            q == <<1, culls[1].i>>
            up == IF Len(culls') = Len(culls)
                    THEN [h \in Held |-> h]
                    ELSE [h \in Held |-> IF h[1] = 0 THEN h ELSE <<h[1] - 1, h[2]>>]
            S == Held \ {q}
<1>1. /\ p \in Held /\ q \in Held /\ p # q
      /\ Held' = {up[h] : h \in S}
      /\ \A h \in S : EntryNext(up[h]) = IF h = p THEN Merged(EntryAt(p), EntryAt(q)) ELSE EntryAt(h)
  BY HeldAfterReinsert
<1>2. SiteOf(EntryAt(p).key) = SiteOf(EntryAt(q).key)
  <2>1. Len(culls) \in Nat \ {0} /\ Head(culls) = culls[1] /\ culls[1].key \in Keys
    BY ReinsertMoves DEF Frames
  <2>2. EntryAt(p).key = CurKey /\ EntryAt(q) = culls[1].saved[culls[1].i]
    BY DEF EntryAt, ReinsertEntry
  <2>3. CurKey = culls[1].key
    BY <2>1 DEF CurKey, ReinsertEntry
  <2>4. Masked(EntryAt(q).key, grain) = Masked(EntryAt(p).key, grain)
    BY <2>1, <2>2, <2>3 DEF FramesInv
  <2>5. EntryAt(p).key \in Keys /\ EntryAt(q).key \in Keys /\ grain \in [Calls -> Nat \ {0}]
    BY <1>1, HeldTypes DEF TypeOK
  <2>6. \A k \in Keys : SiteOf(Masked(k, grain)) = SiteOf(k)
    BY DEF SiteOf, Masked, Keys
  <2>. HIDE DEF p, q
  <2>. QED
    BY <2>4, <2>5, <2>6
<1>. HIDE DEF p, q, up, S
<1>3. \A h \in Held : EntryAt(h).t_min \in Nat /\ EntryAt(h).t_max \in Nat
  BY HeldTypes DEF Entries
<1>. DEFINE m == Merged(EntryAt(p), EntryAt(q))
<1>4. /\ m.key = EntryAt(p).key
      /\ m.t_min <= EntryAt(p).t_min /\ m.t_min <= EntryAt(q).t_min
      /\ m.t_max >= EntryAt(p).t_max /\ m.t_max >= EntryAt(q).t_max
      /\ m.t_min = EntryAt(p).t_min \/ m.t_min = EntryAt(q).t_min
      /\ m.t_max = EntryAt(p).t_max \/ m.t_max = EntryAt(q).t_max
  BY <1>1, <1>3 DEF Merged
<1>5. up[p] \in Held' /\ EntryNext(up[p]) = m
  BY <1>1 DEF S
<1>. HIDE DEF m
<1>6. ASSUME NEW h \in HeldAt(site)
      PROVE  \E j \in HeldAt(site)' :
               EntryNext(j).t_min <= EntryAt(h).t_min /\ EntryNext(j).t_max >= EntryAt(h).t_max
  <2>1. h \in Held /\ SiteOf(EntryAt(h).key) = site
    BY DEF HeldAt
  <2>2. CASE h \in {p, q}
    <3>1. up[p] \in HeldAt(site)'
      BY <1>2, <1>4, <1>5, <2>1, <2>2, HeldAtNext
    <3>. QED
      BY <1>4, <1>5, <2>2, <3>1
  <2>3. CASE h \notin {p, q}
    <3>1. up[h] \in HeldAt(site)' /\ EntryNext(up[h]) = EntryAt(h)
      BY <1>1, <2>1, <2>3, HeldAtNext DEF S
    <3>. QED
      BY <1>3, <2>1, <3>1
  <2>. QED
    BY <2>2, <2>3
<1>7. ASSUME NEW j \in HeldAt(site)'
      PROVE  /\ EntryNext(j).t_min = TMinInit
                \/ \E h \in HeldAt(site) : EntryAt(h).t_min = EntryNext(j).t_min
             /\ EntryNext(j).t_max = 0
                \/ \E h \in HeldAt(site) : EntryAt(h).t_max = EntryNext(j).t_max
  <2>1. j \in Held' /\ SiteOf(EntryNext(j).key) = site
    BY HeldAtNext
  <2>2. PICK h \in S : j = up[h]
    BY <1>1, <2>1
  <2>3. CASE h = p
    <3>1. EntryNext(j) = m
      BY <1>5, <2>2, <2>3
    <3>2. p \in HeldAt(site) /\ q \in HeldAt(site)
      BY <1>1, <1>2, <1>4, <2>1, <3>1 DEF HeldAt
    <3>. QED
      BY <1>4, <3>1, <3>2
  <2>4. CASE h # p
    <3>1. EntryNext(j) = EntryAt(h) /\ h \in HeldAt(site)
      BY <1>1, <2>1, <2>2, <2>4 DEF HeldAt, S
    <3>. QED
      BY <3>1
  <2>. QED
    BY <2>3, <2>4
<1>. QED
  BY <1>6, <1>7, SiteBounds

(* A step of the probe, of the cull or of the re-insertion changes the     *)
(* profile of no site.                                                     *)
LEMMA QuietStep ==
  ASSUME TypeOK, TypeOK', FramesInv, Conserved, Conserved', ProfileInv, ProfileInv',
         InsertKey \/ ReinsertEntry \/ NextProbe \/ Cull, pc' # "exit", NEW site \in Sites
  PROVE  ProfileOf(site)' = ProfileOf(site)
<1>1. pc = "probe" /\ pc' = pc /\ event' = event /\ seen' = seen
  BY DEF InsertKey, ReinsertEntry, NextProbe, Cull, Collision
<1>2. ASSUME NEW w \in Figures
      PROVE  HeldSum(KeysOf(site), w)' = HeldSum(KeysOf(site), w)
  <2>1. InHandOf(KeysOf(site), w)' = InHandOf(KeysOf(site), w)
    BY <1>1, SiteInHand DEF InHand
  <2>2. HeldSum(KeysOf(site), w)' = HeldSum(KeysOf(site), w) + InHandOf(KeysOf(site), w)
                                      - InHandOf(KeysOf(site), w)'
    BY <1>1, SiteSums
  <2>3. HeldSum(KeysOf(site), w) \in Int /\ InHandOf(KeysOf(site), w) \in Int
    BY DEF ProfileInv
  <2>. QED
    BY <2>1, <2>2, <2>3
<1>3. Min(Lows(site))' = Min(Lows(site)) /\ Max(Highs(site))' = Max(Highs(site))
  <2>1. CASE NextProbe
    BY <2>1 DEF NextProbe, Lows, Highs, HeldAt, Held, EntryAt, Occupied
  <2>. QED
    BY <2>1, InsertBounds, ReinsertBounds, CullBounds
<1>. QED
  BY <1>2, <1>3, SiteSame

(* Counting an event makes it the shortest, or the longest, of its site if *)
(* it is so, and is nothing to other sites.                                *)
LEMMA CountBounds ==
  ASSUME TypeOK, ProfileInv, ProfileInv', CountEvent, NEW site \in Sites
  PROVE  LET low  == Min(Lows(site))
             high == Max(Highs(site))
             here == SiteOf(event.key) = site
         IN /\ Min(Lows(site))' = IF here /\ event.wall < low THEN event.wall ELSE low
            /\ Max(Highs(site))' = IF here /\ event.wall > high THEN event.wall ELSE high
<1>. DEFINE p == <<0, CurSlot>>
            one == [count |-> 1, t_tot |-> event.wall,
                    t_max |-> event.wall, t_min |-> event.wall]
            e == EntryNext(p)
            n == event.wall
<1>1. /\ Held' = Held /\ p \in Held /\ EntryAt(p).key = event.key
      /\ EntryNext(p) = Merged(EntryAt(p), one)
      /\ \A h \in Held \ {p} : EntryNext(h) = EntryAt(h)
  BY HeldAfterCount
<1>. HIDE DEF p
<1>2. n \in Nat /\ \A h \in Held : EntryAt(h).t_min \in Nat /\ EntryAt(h).t_max \in Nat
  BY HeldTypes DEF Entries, TypeOK
<1>3. /\ e.key = event.key
      /\ e.t_min <= EntryAt(p).t_min /\ e.t_min <= n
      /\ e.t_max >= EntryAt(p).t_max /\ e.t_max >= n
      /\ e.t_min = EntryAt(p).t_min \/ e.t_min = n
      /\ e.t_max = EntryAt(p).t_max \/ e.t_max = n
  BY <1>1, <1>2 DEF Merged
<1>4. \A h \in Held : EntryNext(h).key = EntryAt(h).key
  BY <1>1, <1>3
<1>5. HeldAt(site)' = HeldAt(site)
  BY <1>1, <1>4, HeldAtNext DEF HeldAt
<1>6. HeldAt(site) \subseteq Held
  BY DEF HeldAt
<1>. DEFINE A == Lows(site)
            B == Lows(site)'
            U == Highs(site)
            V == Highs(site)'
<1>7. /\ A = {TMinInit} \cup {EntryAt(h).t_min : h \in HeldAt(site)}
      /\ B = {TMinInit} \cup {EntryNext(h).t_min : h \in HeldAt(site)}
      /\ U = {0} \cup {EntryAt(h).t_max : h \in HeldAt(site)}
      /\ V = {0} \cup {EntryNext(h).t_max : h \in HeldAt(site)}
  <2>1. /\ B = {TMinInit} \cup {EntryNext(j).t_min : j \in HeldAt(site)'}
        /\ V = {0} \cup {EntryNext(j).t_max : j \in HeldAt(site)'}
    BY DEF Lows, Highs, EntryAt, EntryNext
  <2>. QED
    BY <1>5, <2>1 DEF Lows, Highs
<1>8. /\ A \in SUBSET Nat /\ IsFiniteSet(A) /\ A # {} /\ B \in SUBSET Nat /\ IsFiniteSet(B) /\ B # {}
      /\ U \in SUBSET Nat /\ IsFiniteSet(U) /\ U # {} /\ V \in SUBSET Nat /\ IsFiniteSet(V) /\ V # {}
  BY DEF ProfileInv
<1>9. Min(Lows(site))' = Min(B) /\ Max(Highs(site))' = Max(V)
  BY DEF Min, Max
<1>. HIDE DEF A, B, U, V, e, n, one
<1>10. CASE SiteOf(event.key) # site
  <2>1. p \notin HeldAt(site)
    BY <1>1, <1>10 DEF HeldAt
  <2>2. \A h \in HeldAt(site) : EntryNext(h) = EntryAt(h)
    BY <1>1, <1>6, <2>1
  <2>3. A = B /\ U = V
    BY <1>7, <2>2
  <2>. QED
    BY <1>9, <1>10, <2>3 DEF A, U
<1>11. CASE SiteOf(event.key) = site
  <2>1. p \in HeldAt(site)
    BY <1>1, <1>11 DEF HeldAt
  <2>. DEFINE A1 == A \cup {n}
              U1 == U \cup {n}
  <2>2. /\ A1 \in SUBSET Nat /\ IsFiniteSet(A1) /\ A1 # {}
        /\ U1 \in SUBSET Nat /\ IsFiniteSet(U1) /\ U1 # {}
    BY <1>2, <1>8, FS_AddElement
  <2>3. /\ Min(A1) = IF n < Min(A) THEN n ELSE Min(A)
        /\ Max(U1) = IF n > Max(U) THEN n ELSE Max(U)
    BY <1>2, <1>8, ExtremeOfOneMore
  <2>4. \A x \in A1 : \E y \in B : y <= x
    <3>. SUFFICES ASSUME NEW x \in A1 PROVE \E y \in B : y <= x
      OBVIOUS
    <3>1. x \in Nat /\ e.t_min \in B
      BY <1>7, <2>1, <2>2 DEF e
    <3>2. CASE x = n
      BY <1>3, <3>1, <3>2
    <3>3. CASE x = TMinInit
      BY <1>7, <3>1, <3>3
    <3>4. CASE x \notin {n, TMinInit}
      <4>1. PICK h \in HeldAt(site) : x = EntryAt(h).t_min
        BY <1>7, <3>4
      <4>2. CASE h = p
        BY <1>3, <3>1, <4>1, <4>2
      <4>3. CASE h # p
        <5>1. EntryNext(h) = EntryAt(h)
          BY <1>1, <1>6, <4>3
        <5>2. x \in B
          BY <1>7, <4>1, <5>1
        <5>. QED
          BY <3>1, <5>2
      <4>. QED
        BY <4>2, <4>3
    <3>. QED
      BY <3>2, <3>3, <3>4
  <2>5. \A x \in U1 : \E y \in V : y >= x
    <3>. SUFFICES ASSUME NEW x \in U1 PROVE \E y \in V : y >= x
      OBVIOUS
    <3>1. x \in Nat /\ e.t_max \in V
      BY <1>7, <2>1, <2>2 DEF e
    <3>2. CASE x = n
      BY <1>3, <3>1, <3>2
    <3>3. CASE x = 0
      BY <1>7, <3>1, <3>3
    <3>4. CASE x \notin {n, 0}
      <4>1. PICK h \in HeldAt(site) : x = EntryAt(h).t_max
        BY <1>7, <3>4
      <4>2. CASE h = p
        BY <1>3, <3>1, <4>1, <4>2
      <4>3. CASE h # p
        <5>1. EntryNext(h) = EntryAt(h)
          BY <1>1, <1>6, <4>3
        <5>2. x \in V
          BY <1>7, <4>1, <5>1
        <5>. QED
          BY <3>1, <5>2
      <4>. QED
        BY <4>2, <4>3
    <3>. QED
      BY <3>2, <3>3, <3>4
  <2>6. B \subseteq A1 /\ V \subseteq U1
    <3>1. \A h \in HeldAt(site) : EntryNext(h).t_min \in A1 /\ EntryNext(h).t_max \in U1
      <4>. SUFFICES ASSUME NEW h \in HeldAt(site)
                    PROVE  EntryNext(h).t_min \in A1 /\ EntryNext(h).t_max \in U1
        OBVIOUS
      <4>1. EntryAt(h).t_min \in A /\ EntryAt(h).t_max \in U
        BY <1>7
      <4>2. CASE h = p
        BY <1>3, <4>1, <4>2 DEF e
      <4>3. CASE h # p
        BY <1>1, <1>6, <4>1, <4>3
      <4>. QED
        BY <4>2, <4>3
    <3>. QED
      BY <1>7, <3>1
  <2>7. (\A y \in B : \E x \in A1 : x <= y) /\ (\A y \in V : \E x \in U1 : x >= y)
    <3>1. (\A y \in B : y <= y) /\ (\A y \in V : y >= y)
      BY <1>8
    <3>. QED
      BY <2>6, <3>1
  <2>. HIDE DEF A1, U1
  <2>8. Min(A1) = Min(B)
    BY <1>8, <2>2, <2>4, <2>7, SameExtremes
  <2>9. Max(U1) = Max(V)
    BY <1>8, <2>2, <2>5, <2>7, SameExtremes
  <2>. QED
    BY <1>9, <1>11, <2>3, <2>8, <2>9 DEF A, U, n
<1>. QED
  BY <1>10, <1>11

(* Counting an event changes the profile of its site by that event, and of *)
(* no other site.                                                          *)
LEMMA CountStep ==
  ASSUME TypeOK, TypeOK', Conserved, Conserved', ProfileInv, ProfileInv', CountEvent,
         NEW site \in Sites
  PROVE  ProfileOf(site)' =
           IF SiteOf(event.key) = site
             THEN [count |-> ProfileOf(site).count + 1,
                   t_tot |-> ProfileOf(site).t_tot + event.wall,
                   t_min |-> IF event.wall < ProfileOf(site).t_min
                               THEN event.wall ELSE ProfileOf(site).t_min,
                   t_max |-> IF event.wall > ProfileOf(site).t_max
                               THEN event.wall ELSE ProfileOf(site).t_max]
             ELSE ProfileOf(site)
<1>1. pc = "probe" /\ pc' = "idle" /\ event' = event /\ seen' = seen
  BY DEF CountEvent
<1>. DEFINE here == SiteOf(event.key) = site
<1>2. ASSUME NEW w \in Figures
      PROVE  HeldSum(KeysOf(site), w)' = HeldSum(KeysOf(site), w) + (IF here THEN InHand(w) ELSE 0)
  <2>1. /\ InHandOf(KeysOf(site), w)' = 0
        /\ InHandOf(KeysOf(site), w) = IF here THEN InHand(w) ELSE 0
    BY <1>1, SiteInHand
  <2>2. HeldSum(KeysOf(site), w)' = HeldSum(KeysOf(site), w) + InHandOf(KeysOf(site), w)
                                      - InHandOf(KeysOf(site), w)'
    BY <1>1, SiteSums
  <2>3. HeldSum(KeysOf(site), w) \in Int /\ InHandOf(KeysOf(site), w) \in Int
    BY DEF ProfileInv
  <2>. QED
    BY <2>1, <2>2, <2>3
<1>3. /\ HeldSum(KeysOf(site), "count")' = HeldSum(KeysOf(site), "count") + (IF here THEN 1 ELSE 0)
      /\ HeldSum(KeysOf(site), "t_tot")' = HeldSum(KeysOf(site), "t_tot")
                                             + (IF here THEN event.wall ELSE 0)
      /\ HeldSum(KeysOf(site), "count") \in Int /\ HeldSum(KeysOf(site), "t_tot") \in Int
  BY <1>2 DEF InHand, Figures, ProfileInv
<1>4. /\ Min(Lows(site))' = IF here /\ event.wall < Min(Lows(site)) THEN event.wall ELSE Min(Lows(site))
      /\ Max(Highs(site))' = IF here /\ event.wall > Max(Highs(site)) THEN event.wall ELSE Max(Highs(site))
  BY CountBounds
<1>5. ProfileOf(site) = [count |-> HeldSum(KeysOf(site), "count"),
                         t_tot |-> HeldSum(KeysOf(site), "t_tot"),
                         t_min |-> Min(Lows(site)),
                         t_max |-> Max(Highs(site))]
  BY DEF ProfileInv, ProfileWritten
<1>6. ProfileOf(site)' = [count |-> HeldSum(KeysOf(site), "count")',
                          t_tot |-> HeldSum(KeysOf(site), "t_tot")',
                          t_min |-> Min(Lows(site))',
                          t_max |-> Max(Highs(site))']
  BY DEF ProfileInv, ProfileWritten
<1>7. CASE here
  BY <1>3, <1>4, <1>5, <1>6, <1>7
<1>8. CASE ~here
  BY <1>3, <1>4, <1>5, <1>6, <1>8
<1>. QED
  BY <1>7, <1>8

(* A step that leaves the table, and what is saved of it, as they are.     *)
LEMMA SameTable ==
  ASSUME ProfileInv, ProfileInv', UNCHANGED <<hash, culls, grain>>, NEW site \in Sites
  PROVE  ProfileOf(site)' = ProfileOf(site)
<1>1. \A w : HeldSum(KeysOf(site), w)' = HeldSum(KeysOf(site), w)
  BY DEF HeldSum, HeldIn, FiguresHeld, Held, EntryAt, Occupied
<1>2. Lows(site)' = Lows(site) /\ Highs(site)' = Highs(site)
  BY DEF Lows, Highs, HeldAt, Held, EntryAt, Occupied
<1>3. Min(Lows(site))' = Min(Lows(site)) /\ Max(Highs(site))' = Max(Highs(site))
  BY <1>2 DEF Min, Max
<1>. QED
  BY <1>1, <1>3, SiteSame
-----------------------------------------------------------------------------
(* The table implements the profile (IpmProfile): whatever the sizes, the  *)
(* number of events and the moments at which it is compressed, the steps   *)
(* of the probe, of ipm_hash_cull and of its re-insertion loop change no   *)
(* site's numbers, and the step that counts an event changes its site's.   *)
THEOREM TableIsProfile == Spec => ImplementsProfile
<1>. DEFINE Map == [s \in Sites |-> IF pc = "exit" THEN LostProfile ELSE ProfileOf(s)]
            alive == pc # "exit"
<1>1. Init /\ ProfileInv => Profile!Init
  <2>. SUFFICES ASSUME Init, ProfileInv, NEW site \in Sites
                PROVE  ProfileOf(site) = Profile!NoEvents
    BY DEF Profile!Init, Init
  <2>1. Held = {}
    BY EmptySeq DEF Init, Held, Occupied, FreeEntry
  <2>2. HeldAt(site) = {} /\ \A C : HeldIn(C) = {}
    BY <2>1 DEF HeldAt, HeldIn
  <2>3. \A w : HeldSum(KeysOf(site), w) = 0
    BY <2>2, FS_EmptySet, SumZero DEF HeldSum
  <2>4. Lows(site) = {TMinInit} /\ Highs(site) = {0}
    BY <2>2 DEF Lows, Highs
  <2>5. Min({TMinInit}) = TMinInit /\ Max({0}) = 0
    <3>1. /\ {TMinInit} \in SUBSET Nat /\ IsFiniteSet({TMinInit}) /\ {TMinInit} # {}
          /\ {0} \in SUBSET Nat /\ IsFiniteSet({0}) /\ {0} # {}
      <4>1. TMinInit \in Nat
        BY KeyAssumption
      <4>2. IsFiniteSet({TMinInit}) /\ IsFiniteSet({0})
        BY FS_Singleton
      <4>. QED
        BY <4>1, <4>2
    <3>2. Min({TMinInit}) \in {TMinInit} /\ Max({0}) \in {0}
      BY <3>1, Extremes
    <3>. QED
      BY <3>2
  <2>6. ProfileOf(site) = [count |-> HeldSum(KeysOf(site), "count"),
                           t_tot |-> HeldSum(KeysOf(site), "t_tot"),
                           t_min |-> Min(Lows(site)),
                           t_max |-> Max(Highs(site))]
    BY DEF ProfileInv, ProfileWritten
  <2>. QED
    BY <2>3, <2>4, <2>5, <2>6 DEF Profile!NoEvents
<1>2. ASSUME TypeOK, TypeOK', FramesInv, Conserved, Conserved', ProfileInv, ProfileInv', WallInv,
             [Next]_vars
      PROVE  [Profile!Next]_<<Map, alive>>
  <2>1. ASSUME pc # "exit", pc' # "exit", \A site \in Sites : ProfileOf(site)' = ProfileOf(site)
        PROVE  Map' = Map /\ alive' = alive
    BY <2>1
  <2>2. CASE UNCHANGED vars
    <3>1. \A site \in Sites : ProfileOf(site)' = ProfileOf(site)
      BY <1>2, <2>2, SameTable DEF vars
    <3>2. pc' = pc
      BY <2>2 DEF vars
    <3>. QED
      BY <3>1, <3>2
  <2>3. CASE \E k \in EventKeys, wall \in Walls : LogEvent(k, wall)
    <3>1. UNCHANGED <<hash, culls, grain>> /\ pc = "idle" /\ pc' = "probe"
      BY <2>3 DEF LogEvent
    <3>2. \A site \in Sites : ProfileOf(site)' = ProfileOf(site)
      BY <1>2, <3>1, SameTable
    <3>. QED
      BY <2>1, <3>1, <3>2
  <2>4. CASE (InsertKey \/ ReinsertEntry \/ NextProbe \/ Cull) /\ pc' # "exit"
    <3>1. pc # "exit"
      BY <2>4 DEF InsertKey, ReinsertEntry, NextProbe, Cull, Collision
    <3>2. \A site \in Sites : ProfileOf(site)' = ProfileOf(site)
      BY <1>2, <2>4, QuietStep
    <3>. QED
      BY <2>1, <2>4, <3>1, <3>2
  <2>5. CASE Cull /\ pc' = "exit"
    <3>1. pc # "exit"
      BY <2>5 DEF Cull, Collision
    <3>2. Profile!GiveUp
      BY <2>5, <3>1 DEF Profile!GiveUp, Profile!NoEvents, LostProfile
    <3>. QED
      BY <3>2 DEF Profile!Next
  <2>6. CASE CountEvent
    <3>. DEFINE site0 == SiteOf(event.key)
    <3>1. pc = "probe" /\ pc' = "idle" /\ event.wall \in Walls /\ event.key \in Keys
      BY <1>2, <2>6 DEF CountEvent, WallInv, TypeOK
    <3>2. site0 \in Sites
      BY <3>1 DEF SiteOf, Sites, Keys
    <3>3. \A site \in Sites :
            ProfileOf(site)' =
              IF site0 = site
                THEN [count |-> ProfileOf(site).count + 1,
                      t_tot |-> ProfileOf(site).t_tot + event.wall,
                      t_min |-> IF event.wall < ProfileOf(site).t_min
                                  THEN event.wall ELSE ProfileOf(site).t_min,
                      t_max |-> IF event.wall > ProfileOf(site).t_max
                                  THEN event.wall ELSE ProfileOf(site).t_max]
                ELSE ProfileOf(site)
      BY <1>2, <2>6, CountStep
    <3>. HIDE DEF site0
    <3>4. Map' = [Map EXCEPT ![site0] =
                    [count |-> @.count + 1,
                     t_tot |-> @.t_tot + event.wall,
                     t_min |-> IF event.wall < @.t_min THEN event.wall ELSE @.t_min,
                     t_max |-> IF event.wall > @.t_max THEN event.wall ELSE @.t_max]]
      BY <3>1, <3>2, <3>3
    <3>5. Profile!Record(site0, event.wall)
      BY <3>1, <3>4 DEF Profile!Record
    <3>. QED
      BY <3>1, <3>2, <3>5 DEF Profile!Next
  <2>7. InsertKey \/ ReinsertEntry \/ NextProbe => pc' # "exit"
    BY DEF InsertKey, ReinsertEntry, NextProbe, Collision
  <2>. HIDE DEF Map, alive
  <2>. QED
    BY <1>2, <2>2, <2>3, <2>4, <2>5, <2>6, <2>7 DEF Next, HashStep
<1>3. Init => WallInv
  BY DEF Init, WallInv
<1>. QED
  BY <1>1, <1>2, <1>3, ConservedInit, ConservedStep, SeenStep, FramesInit, FramesStep, WallStep,
     ProfileTypes, TypeCorrect, PTL DEF Spec, ImplementsProfile, Profile!Spec
=============================================================================
