---------------------------- MODULE IpmTaskProofs ----------------------------
(***************************************************************************)
(* Theorems about the time accounting (Spec, of IpmRegion), about the text *)
(* of the log (IpmLogText), and about a task with all that its             *)
(* wrappers do (TaskSpec, of IpmTask), for every set of environments,      *)
(* labels and calls, every size of the table of labels and every bound.    *)
(***************************************************************************)
EXTENDS IpmTask, TLAPS, FiniteSetTheorems, SequenceTheorems, WellFoundedInduction

(* The lemmas about sums, and those about folds for the time of events.    *)
AddTime(sum, ev) == sum + (ev.t2 - ev.t1)
AnyValue(b, x) == TRUE

INSTANCE FoldTheorems WITH Step <- AddTime, Good <- AnyValue

(***************************************************************************)
(* The time accounting by itself.                                          *)
(***************************************************************************)

(* What ipm_region keeps of the fields it works on, from its first call on. *)
Distinct(r) ==
  \A i, j \in Known(r) : LabelOf(r, i) = LabelOf(r, j) => i = j

RegOK(r) ==
  /\ r \in RegType
  /\ Nregion(r) <= MAXSIZE_REGION
  /\ Distinct(r)

SetUp(r) ==
  /\ 0 \in Known(r)
  /\ LabelOf(r, 0) = NoRegion
  /\ r.region_current \in {-1} \cup Known(r)

(* The labels that r has keep their indices in q. *)
Keeps(r, q) ==
  \A i \in Known(r) : i \in Known(q) /\ LabelOf(q, i) = LabelOf(r, i)

(* The table of labels as a function on its indices.                       *)
LEMMA KnownTypes ==
  ASSUME NEW r \in RegType
  PROVE  /\ Nregion(r) \in Nat
         /\ \A i \in Known(r) : i \in Nat /\ i + 1 \in 1 .. Len(r.region_label)
         /\ \A i \in Known(r) : LabelOf(r, i) \in Labels
<1>1. r.region_label \in Seq(Labels)
  BY DEF RegType
<1>2. Len(r.region_label) \in Nat
  BY <1>1, LenProperties
<1>3. \A i \in Known(r) : i \in Nat /\ i + 1 \in 1 .. Len(r.region_label)
  BY <1>2 DEF Known, Nregion
<1>4. \A n \in 1 .. Len(r.region_label) : r.region_label[n] \in Labels
  BY <1>1, ElementOfSeq
<1>. QED
  BY <1>2, <1>3, <1>4 DEF Nregion, LabelOf

(* The search of ipm_region finds the index of a label that is known ...   *)
LEMMA TagOfKnown ==
  ASSUME NEW r \in RegType, Distinct(r), NEW i \in Known(r)
  PROVE  RegionTag(r, LabelOf(r, i)) = i
<1>. DEFINE match == {j \in Known(r) : LabelOf(r, j) = LabelOf(r, i)}
<1>1. match = {i}
  BY DEF Distinct
<1>2. i \in Int
  BY KnownTypes
<1>3. Max({i}) = i
  BY <1>2 DEF Max
<1>. QED
  BY <1>1, <1>3 DEF RegionTag

(* ... and no other.                                                       *)
LEMMA TagOfUnknown ==
  ASSUME NEW r \in RegType, Distinct(r), NEW tag
  PROVE  \/ /\ RegionTag(r, tag) = -1
            /\ \A i \in Known(r) : LabelOf(r, i) # tag
         \/ /\ RegionTag(r, tag) \in Known(r)
            /\ LabelOf(r, RegionTag(r, tag)) = tag
<1>1. CASE \E i \in Known(r) : LabelOf(r, i) = tag
  BY <1>1, TagOfKnown
<1>2. CASE \A i \in Known(r) : LabelOf(r, i) # tag
  <2>1. {i \in Known(r) : LabelOf(r, i) = tag} = {}
    BY <1>2
  <2>. QED
    BY <1>2, <2>1 DEF RegionTag
<1>. QED
  BY <1>1, <1>2

(* The labels after an entry or exit: as they were, or with one more at    *)
(* the end that none of them is.                                           *)
LEMMA LabelsAfter ==
  ASSUME NEW r, RegOK(r), NEW io \in {1, -1}, NEW tag \in Labels,
         ~TooManyRegions(r, io, tag)
  PROVE  /\ ipm_region(r, io, tag).region_label \in Seq(Labels)
         /\ Nregion(ipm_region(r, io, tag)) <= MAXSIZE_REGION
         /\ Distinct(ipm_region(r, io, tag))
         /\ Keeps(r, ipm_region(r, io, tag))
         /\ NextRegion(r, io, tag) \in {-1} \cup Known(ipm_region(r, io, tag))
         /\ NextRegion(r, io, tag) = -1 => io = -1 /\ RegionTag(r, tag) = -1
         /\ io = 1 => LabelOf(ipm_region(r, io, tag), NextRegion(r, io, tag)) = tag
         /\ ~IsNew(r, io, tag) => Known(ipm_region(r, io, tag)) = Known(r)
         /\ IsNew(r, io, tag) =>
              /\ Known(ipm_region(r, io, tag)) = Known(r) \cup {Nregion(r)}
              /\ Nregion(r) \notin Known(r)
<1>. DEFINE q == ipm_region(r, io, tag)
<1>0. q.region_label = IF IsNew(r, io, tag) THEN Append(r.region_label, tag)
                                            ELSE r.region_label
  BY DEF ipm_region
<1>. SUFFICES /\ q.region_label \in Seq(Labels)
              /\ Nregion(q) <= MAXSIZE_REGION
              /\ Distinct(q)
              /\ Keeps(r, q)
              /\ NextRegion(r, io, tag) \in {-1} \cup Known(q)
              /\ NextRegion(r, io, tag) = -1 => io = -1 /\ RegionTag(r, tag) = -1
              /\ io = 1 => LabelOf(q, NextRegion(r, io, tag)) = tag
              /\ ~IsNew(r, io, tag) => Known(q) = Known(r)
              /\ IsNew(r, io, tag) => Known(q) = Known(r) \cup {Nregion(r)}
                                      /\ Nregion(r) \notin Known(r)
  OBVIOUS
<1>. HIDE DEF q
<1>1. r.region_label \in Seq(Labels) /\ r \in RegType
  BY DEF RegOK, RegType
<1>2. Nregion(r) \in Nat /\ Nregion(r) = Len(r.region_label) /\ Nregion(r) <= MAXSIZE_REGION
  BY KnownTypes, <1>1 DEF Nregion, RegOK
<1>3. r.region_current \in {-1} \cup Nat
  BY <1>1, RegionAssumption DEF RegType, Indices
<1>4. \/ /\ RegionTag(r, tag) = -1
         /\ \A i \in Known(r) : LabelOf(r, i) # tag
      \/ /\ RegionTag(r, tag) \in Known(r)
         /\ LabelOf(r, RegionTag(r, tag)) = tag
  BY <1>1, TagOfUnknown DEF RegOK
<1>5. CASE IsNew(r, io, tag)
  <2>1. io = 1 /\ RegionTag(r, tag) = -1 /\ Nregion(r) < MAXSIZE_REGION
    BY <1>5, <1>2, RegionAssumption DEF IsNew, TooManyRegions
  <2>2. q.region_label = Append(r.region_label, tag)
    BY <1>0, <1>5
  <2>3. /\ Len(q.region_label) = Len(r.region_label) + 1
        /\ q.region_label \in Seq(Labels)
        /\ \A n \in 1 .. Len(r.region_label) : q.region_label[n] = r.region_label[n]
        /\ q.region_label[Len(r.region_label) + 1] = tag
    BY <1>1, <2>2, AppendProperties
  <2>4. Known(q) = Known(r) \cup {Nregion(r)} /\ Nregion(r) \notin Known(r)
    BY <1>2, <2>3 DEF Known, Nregion
  <2>5. \A i \in Known(r) : LabelOf(q, i) = LabelOf(r, i)
    BY <1>1, <2>3, KnownTypes DEF LabelOf
  <2>6. LabelOf(q, Nregion(r)) = tag
    BY <2>3 DEF LabelOf, Nregion
  <2>7. \A i \in Known(r) : LabelOf(r, i) # tag
    <3>1. \A i \in Known(r) : i \in Nat
      BY <1>1, KnownTypes
    <3>. QED
      BY <1>4, <2>1, <3>1
  <2>8. Distinct(q)
    BY <2>4, <2>5, <2>6, <2>7 DEF Distinct, RegOK
  <2>9. NextRegion(r, io, tag) = Nregion(r)
    BY <1>5, <2>1 DEF NextRegion
  <2>10. Nregion(q) <= MAXSIZE_REGION
    BY <1>2, <2>1, <2>3, RegionAssumption DEF Nregion
  <2>. QED
    BY <1>2, <1>5, <2>1, <2>3, <2>4, <2>5, <2>6, <2>8, <2>9, <2>10 DEF Keeps
<1>6. CASE ~IsNew(r, io, tag)
  <2>1. q.region_label = r.region_label
    BY <1>0, <1>6
  <2>2. Known(q) = Known(r) /\ Nregion(q) = Nregion(r)
    BY <2>1 DEF Known, Nregion
  <2>3. \A i : LabelOf(q, i) = LabelOf(r, i)
    BY <2>1 DEF LabelOf
  <2>4. io = 1 => RegionTag(r, tag) # -1
    BY <1>6 DEF IsNew
  <2>5. NextRegion(r, io, tag)
          = IF r.region_current >= 0 /\ RegionTag(r, tag) > 0 /\ io = -1
            THEN 0 ELSE RegionTag(r, tag)
    BY <1>6 DEF NextRegion
  <2>6. RegionTag(r, tag) > 0 => 0 \in Known(r)
    BY <1>2, <1>4 DEF Known
  <2>. QED
    BY <1>1, <1>2, <1>4, <1>6, <2>1, <2>2, <2>3, <2>4, <2>5, <2>6 DEF Keeps, Distinct, RegOK
<1>. QED
  BY <1>5, <1>6

(* Charging a stopwatch keeps the times natural numbers.                   *)
LEMMA ChargeType ==
  ASSUME NEW f \in Times, NEW current, NEW d \in Nat
  PROVE  Charge(f, current, d) \in Times
BY DEF Charge, Times

(* A call of ipm_region.                                                   *)
LEMMA RegionStep ==
  ASSUME NEW r, RegOK(r), NEW io \in {1, -1}, NEW tag \in Labels,
         ~TooManyRegions(r, io, tag), now \in Nat, r.region_wtime_init <= now
  PROVE  /\ RegOK(ipm_region(r, io, tag))
         /\ SetUp(r) => SetUp(ipm_region(r, io, tag))
<1>. DEFINE q == ipm_region(r, io, tag)
<1>1. /\ q.region_label = IF IsNew(r, io, tag) THEN Append(r.region_label, tag)
                                               ELSE r.region_label
      /\ q.region_current = NextRegion(r, io, tag)
  BY DEF ipm_region
<1>2. /\ q.region_label \in Seq(Labels)
      /\ Nregion(q) <= MAXSIZE_REGION
      /\ Distinct(q)
      /\ Keeps(r, q)
      /\ NextRegion(r, io, tag) \in {-1} \cup Known(q)
  BY LabelsAfter
<1>3. r.region_wtime_init \in Nat /\ r.region_wtime \in Times /\ r.region_count \in Times
  BY DEF RegOK, RegType
<1>4. /\ Charge(r.region_wtime, r.region_current, now - r.region_wtime_init) \in Times
      /\ Charge(r.region_count, r.region_current, 1) \in Times
  BY <1>3, ChargeType
<1>5. NextRegion(r, io, tag) \in {-1} \cup Indices
  <2>1. Len(q.region_label) \in Nat
    BY <1>2, LenProperties
  <2>. QED
    BY <1>2, <2>1, RegionAssumption DEF Known, Nregion, Indices
<1>6. (NextRegion(r, io, tag) > 0) \in BOOLEAN
  OBVIOUS
<1>7. q \in RegType
  BY <1>1, <1>2, <1>4, <1>5, <1>6 DEF ipm_region, RegType
<1>8. SetUp(r) => SetUp(q)
  <2>. HIDE DEF q
  <2>. QED
    BY <1>1, <1>2 DEF SetUp, Keeps
<1>. QED
  BY <1>2, <1>7, <1>8 DEF RegOK

(* ipm_region keeps the label that region 0 has, so the entry to           *)
(* "ipm_noregion" leads to region 0 and no exit is needed after it.        *)
LEMMA LeaveStep ==
  ASSUME NEW r, RegOK(r), SetUp(r), now \in Nat, r.region_wtime_init <= now
  PROVE  /\ ~IsNew(r, 1, NoRegion)
         /\ NextRegion(r, 1, NoRegion) = 0
         /\ ~TooManyRegions(r, 1, NoRegion)
         /\ LeaveRegions(r) = ipm_region(r, 1, NoRegion)
         /\ RegOK(LeaveRegions(r))
         /\ SetUp(LeaveRegions(r))
<1>1. r \in RegType /\ Distinct(r) /\ 0 \in Known(r) /\ LabelOf(r, 0) = NoRegion
  BY DEF RegOK, SetUp
<1>2. RegionTag(r, NoRegion) = 0
  BY <1>1, TagOfKnown
<1>3. ~IsNew(r, 1, NoRegion) /\ NextRegion(r, 1, NoRegion) = 0
  BY <1>2 DEF IsNew, NextRegion
<1>4. ~TooManyRegions(r, 1, NoRegion)
  BY <1>3 DEF TooManyRegions
<1>5. RegOK(ipm_region(r, 1, NoRegion)) /\ SetUp(ipm_region(r, 1, NoRegion))
  BY <1>4, RegionStep, RegionAssumption
<1>6. /\ ipm_region(r, 1, NoRegion).region_current = 0
      /\ ~ipm_region(r, 1, NoRegion).regionalized
  <2>1. ipm_region(r, 1, NoRegion).region_current = NextRegion(r, 1, NoRegion)
    BY DEF ipm_region
  <2>2. ipm_region(r, 1, NoRegion).regionalized = (NextRegion(r, 1, NoRegion) > 0)
    BY DEF ipm_region
  <2>3. ~(NextRegion(r, 1, NoRegion) > 0)
    BY <1>3
  <2>. QED
    BY <1>3, <2>1, <2>2, <2>3
<1>7. [ipm_region(r, 1, NoRegion) EXCEPT !.region_current = 0] = ipm_region(r, 1, NoRegion)
  BY <1>6 DEF ipm_region
<1>8. LeaveRegions(r) = ipm_region(r, 1, NoRegion)
  BY <1>6, <1>7 DEF LeaveRegions
<1>. QED
  BY <1>3, <1>4, <1>5, <1>8

(* The inductive invariant: the fields of ipm_region are well formed, and  *)
(* set up once MPI_Init has returned; no stamp is in the future.           *)
Stamps ==
  /\ now \in Nat
  /\ T1 \in Nat
  /\ stamp_init <= T1
  /\ T1 <= now
  /\ stamp_init <= reg.region_wtime_init
  /\ reg.region_wtime_init <= now

RegionInv ==
  /\ RegOK(reg)
  /\ Stamps
  /\ hash \in [KeyRegions -> Nat]
  /\ pc \in {"init", "app", "call", "done", "exit"}
  /\ app.label \in Labels
  /\ app.switches \in Nat
  /\ app.inCalls \in [Labels -> Nat]
  /\ pc = "init" => reg.region_label = <<>> /\ reg.region_current = 0
  /\ pc # "init" => SetUp(reg)

(* The first call of ipm_region, at the end of ipm_mpi_init: it makes      *)
(* "ipm_noregion" region 0.                                                *)
LEMMA FirstStep ==
  ASSUME RegionInv, MpiInit
  PROVE  /\ RegOK(reg') /\ SetUp(reg')
         /\ reg'.region_label = <<NoRegion>>
         /\ reg'.region_current = 0
         /\ reg'.region_wtime_init = now
<1>. DEFINE r == [reg EXCEPT !.region_wtime = NoTimes, !.region_count = NoTimes]
<1>1. reg.region_label = <<>> /\ reg \in RegType /\ now \in Nat
  BY DEF RegionInv, MpiInit, RegOK, Stamps
<1>2. NoTimes \in Times
  BY DEF NoTimes, Times
<1>3. r \in RegType
  BY <1>1, <1>2 DEF RegType
<1>4. /\ r.region_label = <<>> /\ r.region_wtime_init = reg.region_wtime_init
      /\ r.region_current = reg.region_current
  BY <1>1 DEF RegType
<1>5. Nregion(r) = 0 /\ Known(r) = {}
  BY <1>4 DEF Nregion, Known
<1>6. RegOK(r)
  BY <1>3, <1>5, RegionAssumption DEF RegOK, Distinct
<1>7. r.region_wtime_init <= now
  BY <1>4 DEF RegionInv, Stamps
<1>8. reg' = ipm_region(r, 1, NoRegion)
  BY DEF MpiInit
<1>. HIDE DEF r
<1>9. RegionTag(r, NoRegion) = -1
  BY <1>5 DEF RegionTag
<1>10. /\ IsNew(r, 1, NoRegion) /\ ~TooManyRegions(r, 1, NoRegion)
       /\ NextRegion(r, 1, NoRegion) = 0
  BY <1>5, <1>9, RegionAssumption DEF IsNew, TooManyRegions, NextRegion
<1>11. reg'.region_label = <<NoRegion>> /\ reg'.region_current = 0
       /\ reg'.region_wtime_init = now
  BY <1>4, <1>8, <1>10 DEF ipm_region
<1>12. RegOK(reg')
  BY <1>1, <1>6, <1>7, <1>8, <1>10, RegionStep, RegionAssumption
<1>13. Known(reg') = {0} /\ LabelOf(reg', 0) = NoRegion
  BY <1>11 DEF Known, Nregion, LabelOf
<1>. QED
  BY <1>11, <1>12, <1>13 DEF SetUp

(* What a snapshot in the wrapper of a call does to the regions.           *)
LEMMA CheckpointStep ==
  ASSUME RegionInv, pc = "call", ipm_mpi_checkpoint
  PROVE  /\ RegOK(reg') /\ SetUp(reg')
         /\ stamp_init <= reg'.region_wtime_init /\ reg'.region_wtime_init <= now
<1>1. RegOK(reg) /\ SetUp(reg) /\ now \in Nat /\ reg.region_wtime_init <= now
      /\ stamp_init <= reg.region_wtime_init
  BY DEF RegionInv, Stamps
<1>2. CASE reg' = LeaveRegions(reg)
  <2>1. LeaveRegions(reg).region_wtime_init = now
    BY <1>1, LeaveStep DEF ipm_region
  <2>2. stamp_init <= now
    BY <1>1 DEF stamp_init, RegOK, RegType
  <2>. QED
    BY <1>1, <1>2, <2>1, <2>2, LeaveStep
<1>3. CASE reg' = reg
  BY <1>1, <1>3
<1>. QED
  BY <1>2, <1>3 DEF ipm_mpi_checkpoint

(* The fields of ipm_region are well formed when ipm_init has returned.    *)
LEMMA RegionInvInit ==
  ASSUME Init
  PROVE  RegionInv
<1>1. NoTimes \in Times /\ <<>> \in Seq(Labels) /\ 0 \in Indices /\ stamp_init \in Nat
  BY RegionAssumption, EmptySeq DEF NoTimes, Times, Indices, stamp_init
<1>2. reg \in RegType
  BY <1>1 DEF Init, RegType
<1>3. Nregion(reg) = 0 /\ Known(reg) = {}
  BY DEF Init, Nregion, Known
<1>4. RegOK(reg)
  BY <1>2, <1>3, RegionAssumption DEF RegOK, Distinct
<1>5. Stamps
  BY DEF Init, Stamps, stamp_init
<1>6. hash \in [KeyRegions -> Nat]
  BY DEF Init, NoEvents
<1>7. app.label \in Labels /\ app.switches \in Nat /\ app.inCalls \in [Labels -> Nat]
  BY RegionAssumption DEF Init
<1>. QED
  BY <1>4, <1>5, <1>6, <1>7 DEF Init, RegionInv

(* Every step keeps the fields of ipm_region well formed.                  *)
LEMMA RegionInvStep ==
  ASSUME RegionInv, [Next]_vars
  PROVE  RegionInv'
<1>1. CASE Tick
  <2>1. reg.region_wtime_init \in Nat
    BY DEF RegionInv, RegOK, RegType
  <2>2. Stamps'
    BY <1>1, <2>1 DEF Tick, RegionInv, Stamps, stamp_init
  <2>3. RegOK(reg)' /\ (pc' # "init" => SetUp(reg)')
    BY <1>1 DEF Tick, RegionInv
  <2>. QED
    BY <1>1, <2>2, <2>3 DEF Tick, RegionInv
<1>2. CASE MpiInit
  <2>1. RegOK(reg') /\ SetUp(reg') /\ reg'.region_wtime_init = now
    BY <1>2, FirstStep
  <2>2. Stamps'
    BY <1>2, <2>1 DEF MpiInit, RegionInv, Stamps, stamp_init
  <2>3. hash' \in [KeyRegions -> Nat]
    BY <1>2 DEF MpiInit, NoEvents
  <2>. QED
    BY <1>2, <2>1, <2>2, <2>3 DEF MpiInit, RegionInv
<1>3. ASSUME NEW l \in Labels, Enter(l) PROVE RegionInv'
  <2>1. /\ RegOK(reg) /\ SetUp(reg) /\ now \in Nat /\ reg.region_wtime_init <= now
        /\ ~TooManyRegions(reg, 1, l) /\ reg' = ipm_region(reg, 1, l)
    BY <1>3 DEF RegionInv, Stamps, Enter, AppSwitches
  <2>2. RegOK(reg') /\ SetUp(reg')
    BY <2>1, RegionStep
  <2>3. reg'.region_wtime_init = now
    BY <2>1 DEF ipm_region
  <2>4. Stamps'
    BY <1>3, <2>3 DEF Enter, AppSwitches, RegionInv, Stamps, stamp_init
  <2>. QED
    BY <1>3, <2>2, <2>4 DEF Enter, AppSwitches, RegionInv
<1>4. ASSUME NEW l \in Labels, EnterTooMany(l) PROVE RegionInv'
  BY <1>4 DEF EnterTooMany, AppSwitches, RegionInv, Stamps
<1>5. ASSUME NEW l \in Labels, Exit(l) PROVE RegionInv'
  <2>1. /\ RegOK(reg) /\ SetUp(reg) /\ now \in Nat /\ reg.region_wtime_init <= now
        /\ ~TooManyRegions(reg, -1, l) /\ reg' = ipm_region(reg, -1, l)
    BY <1>5 DEF RegionInv, Stamps, Exit, AppSwitches, TooManyRegions, IsNew
  <2>2. RegOK(reg') /\ SetUp(reg')
    BY <2>1, RegionStep
  <2>3. reg'.region_wtime_init = now
    BY <2>1 DEF ipm_region
  <2>4. Stamps'
    BY <1>5, <2>3 DEF Exit, AppSwitches, RegionInv, Stamps, stamp_init
  <2>. QED
    BY <1>5, <2>2, <2>4, RegionAssumption DEF Exit, AppSwitches, RegionInv
<1>6. CASE BeginCall
  BY <1>6 DEF BeginCall, RegionInv, Stamps, RegOK, RegType, stamp_init
<1>7. CASE EndCall
  <2>1. /\ RegOK(reg') /\ SetUp(reg')
        /\ stamp_init <= reg'.region_wtime_init /\ reg'.region_wtime_init <= now
    BY <1>7, CheckpointStep DEF EndCall
  <2>2. Stamps'
    BY <1>7, <2>1 DEF EndCall, RegionInv, Stamps
  <2>3. now - T1 \in Nat
    BY DEF RegionInv, Stamps
  <2>4. hash' \in [KeyRegions -> Nat]
    <3>1. \A k \in KeyRegions : hash[k] + (now - T1) \in Nat
      BY <2>3 DEF RegionInv
    <3>. QED
      BY <1>7, <3>1 DEF EndCall, RegionInv
  <2>5. app'.inCalls \in [Labels -> Nat]
    <3>1. \A l \in Labels : app.inCalls[l] + (now - T1) \in Nat
      BY <2>3 DEF RegionInv
    <3>2. app'.inCalls
            = [app.inCalls EXCEPT ![app.label] = app.inCalls[app.label] + (now - T1)]
      BY <1>7 DEF EndCall
    <3>. QED
      BY <3>1, <3>2 DEF RegionInv
  <2>. QED
    BY <1>7, <2>1, <2>2, <2>4, <2>5 DEF EndCall, RegionInv
<1>8. CASE Finalize
  <2>1. RegOK(reg) /\ SetUp(reg) /\ now \in Nat /\ reg.region_wtime_init <= now
    BY <1>8 DEF RegionInv, Stamps, Finalize
  <2>2. RegOK(reg') /\ SetUp(reg')
    BY <1>8, <2>1, LeaveStep DEF Finalize
  <2>3. reg'.region_wtime_init = now
    BY <1>8, <2>1, LeaveStep DEF Finalize, ipm_region
  <2>4. Stamps'
    BY <1>8, <2>3 DEF Finalize, RegionInv, Stamps, stamp_init
  <2>. QED
    BY <1>8, <2>2, <2>4 DEF Finalize, RegionInv
<1>9. CASE UNCHANGED vars
  BY <1>9 DEF vars, RegionInv, Stamps
<1>. QED
  BY <1>1, <1>2, <1>3, <1>4, <1>5, <1>6, <1>7, <1>8, <1>9 DEF Next

(* The regions are well formed at any time, with snapshots and unmatched   *)
(* exits as without.                                                       *)
THEOREM RegionInvariant == Spec => []RegionInv
BY RegionInvInit, RegionInvStep, PTL DEF Spec

(* No label ever has two indices in the table of labels, whatever the      *)
(* application enters and exits and whenever snapshots are taken.          *)
THEOREM LabelsCorrect == Spec => []LabelsDistinct
<1>1. RegionInv => LabelsDistinct
  BY DEF RegionInv, RegOK, Distinct, LabelsDistinct
<1>. QED
  BY <1>1, RegionInvariant, PTL

(***************************************************************************)
(* Without snapshots the MPI time of each region is within its wall time.  *)
(***************************************************************************)

(* A call that is being made began after the running period of its region. *)
WithinInv ==
  /\ MpiWithinWall
  /\ pc = "call" => reg.region_wtime_init <= T1

(* An entry or exit moves the running period of a region into its time.    *)
LEMMA ChargeKeepsWallTime ==
  ASSUME RegionInv, NEW io \in {1, -1}, NEW tag \in Labels,
         reg' = ipm_region(reg, io, tag), now' = now
  PROVE  \A i \in Indices : WallTime(i)' = WallTime(i) /\ WallTime(i) \in Nat
<1>. SUFFICES ASSUME NEW i \in Indices
              PROVE  WallTime(i)' = WallTime(i) /\ WallTime(i) \in Nat
  OBVIOUS
<1>1. /\ reg.region_wtime \in Times /\ reg.region_wtime_init \in Nat
      /\ now \in Nat /\ reg.region_wtime_init <= now
  BY DEF RegionInv, RegOK, RegType, Stamps
<1>2. reg.region_wtime[i] \in Nat
  BY <1>1 DEF Times
<1>3. WallTime(i) = reg.region_wtime[i]
         + (IF reg.region_current = i THEN now - reg.region_wtime_init ELSE 0)
  BY DEF WallTime
<1>4. reg'.region_wtime[i] =
        IF i = reg.region_current THEN reg.region_wtime[i] + (now - reg.region_wtime_init)
                                  ELSE reg.region_wtime[i]
  BY DEF ipm_region, Charge
<1>5. reg'.region_wtime_init = now
  BY DEF ipm_region
<1>6. WallTime(i)' = reg'.region_wtime[i]
  BY <1>1, <1>2, <1>4, <1>5 DEF WallTime
<1>. QED
  BY <1>1, <1>2, <1>3, <1>4, <1>6

(* Without snapshots the MPI time of no region is more than its wall time, *)
(* even if the application exits regions it never entered.                 *)
THEOREM MpiWithinWallCorrect ==
  ASSUME ~IPM_CHECKPOINT
  PROVE  Spec => []MpiWithinWall
<1>1. Init => WithinInv
  <2>. SUFFICES ASSUME Init PROVE WithinInv
    OBVIOUS
  <2>1. \A i \in Indices : hash[i] = 0 /\ reg.region_wtime[i] = 0
    BY RegionAssumption DEF Init, NoEvents, NoTimes, KeyRegions, Indices
  <2>2. now - reg.region_wtime_init = 0 /\ pc = "init"
    BY DEF Init, stamp_init
  <2>. QED
    BY <2>1, <2>2 DEF WithinInv, MpiWithinWall, WallTime
<1>2. RegionInv /\ RegionInv' /\ WithinInv /\ [Next]_vars => WithinInv'
  <2>. SUFFICES ASSUME RegionInv, RegionInv', WithinInv, [Next]_vars PROVE WithinInv'
    OBVIOUS
  <2>1. /\ now \in Nat /\ T1 \in Nat /\ T1 <= now
        /\ reg.region_wtime_init \in Nat /\ reg.region_wtime_init <= now
        /\ \A i \in Indices : hash[i] \in Nat /\ reg.region_wtime[i] \in Nat
    <3>1. Indices \subseteq KeyRegions
      BY RegionAssumption DEF Indices, KeyRegions
    <3>. QED
      BY <3>1 DEF RegionInv, Stamps, RegOK, RegType, Times
  <2>2. CASE Tick
    <3>. SUFFICES ASSUME NEW i \in Indices
                  PROVE  (hash[i] + (IF pc = "call" /\ reg.region_current = i
                                     THEN now - T1 ELSE 0) <= WallTime(i))'
      BY <2>2 DEF Tick, WithinInv, MpiWithinWall
    <3>1. hash[i] + (IF pc = "call" /\ reg.region_current = i THEN now - T1 ELSE 0)
            <= WallTime(i)
      BY DEF WithinInv, MpiWithinWall
    <3>2. now' = now + 1 /\ hash' = hash /\ reg' = reg /\ pc' = pc /\ T1' = T1
      BY <2>2 DEF Tick
    <3>. QED
      BY <2>1, <3>1, <3>2 DEF WallTime
  <2>3. ASSUME NEW io \in {1, -1}, NEW tag \in Labels, pc # "call", pc' # "call",
               reg' = ipm_region(reg, io, tag), now' = now, hash' = hash
        PROVE  WithinInv'
    <3>1. \A i \in Indices : WallTime(i)' = WallTime(i) /\ WallTime(i) \in Nat
      BY <2>3, ChargeKeepsWallTime
    <3>2. \A i \in Indices : hash[i] <= WallTime(i)
      BY <2>1, <2>3 DEF WithinInv, MpiWithinWall
    <3>3. MpiWithinWall'
      BY <2>1, <2>3, <3>1, <3>2 DEF MpiWithinWall
    <3>. QED
      BY <2>3, <3>3 DEF WithinInv
  <2>4. CASE MpiInit
    <3>1. \A i \in Indices : hash'[i] = 0
      BY <2>4, RegionAssumption DEF MpiInit, NoEvents, Indices, KeyRegions
    <3>2. /\ now' \in Nat /\ reg'.region_wtime_init \in Nat
          /\ reg'.region_wtime_init <= now'
          /\ \A i \in Indices : reg'.region_wtime[i] \in Nat
      BY DEF RegionInv, Stamps, RegOK, RegType, Times
    <3>3. \A i \in Indices : WallTime(i)' >= 0
      BY <3>2 DEF WallTime
    <3>4. pc' = "app"
      BY <2>4 DEF MpiInit
    <3>. QED
      BY <3>1, <3>3, <3>4 DEF WithinInv, MpiWithinWall
  <2>5. ASSUME NEW l \in Labels, Enter(l) PROVE WithinInv'
    BY <2>3, <2>5 DEF Enter, AppSwitches
  <2>6. ASSUME NEW l \in Labels, Exit(l) PROVE WithinInv'
    BY <2>3, <2>6 DEF Exit, AppSwitches
  <2>7. ASSUME NEW l \in Labels, EnterTooMany(l) PROVE WithinInv'
    BY <2>7 DEF EnterTooMany, AppSwitches, WithinInv, MpiWithinWall, WallTime
  <2>8. CASE BeginCall
    <3>1. /\ hash' = hash /\ reg' = reg /\ now' = now /\ T1' = now /\ pc = "app"
      BY <2>8 DEF BeginCall
    <3>2. \A i \in Indices : WallTime(i)' = WallTime(i)
      BY <3>1 DEF WallTime
    <3>3. \A i \in Indices : hash[i] <= WallTime(i)
      BY <2>1, <3>1 DEF WithinInv, MpiWithinWall
    <3>4. MpiWithinWall'
      BY <2>1, <3>1, <3>2, <3>3 DEF MpiWithinWall
    <3>. QED
      BY <2>1, <3>1, <3>4 DEF WithinInv
  <2>9. CASE EndCall
    <3>1. reg' = reg /\ now' = now /\ T1' = T1 /\ pc = "call" /\ pc' = "app"
      BY <2>9 DEF EndCall, ipm_mpi_checkpoint, SnapshotDue
    <3>2. hash' = [hash EXCEPT ![KeyRegion(reg.region_current)]
                                  = hash[KeyRegion(reg.region_current)] + (now - T1)]
      BY <2>9, <3>1 DEF EndCall
    <3>3. hash \in [KeyRegions -> Nat] /\ Indices \subseteq KeyRegions
      BY RegionAssumption DEF RegionInv, Indices, KeyRegions
    <3>4. reg.region_current \in {-1} \cup Indices
      BY DEF RegionInv, RegOK, RegType
    <3>5. \A i \in Indices : KeyRegion(reg.region_current) = i <=> reg.region_current = i
      BY <3>4, RegionAssumption DEF KeyRegion, Indices
    <3>6. \A i \in Indices :
            hash'[i] = hash[i] + (IF reg.region_current = i THEN now - T1 ELSE 0)
      BY <2>1, <3>2, <3>3, <3>5
    <3>7. \A i \in Indices : WallTime(i)' = WallTime(i)
      BY <3>1 DEF WallTime
    <3>8. \A i \in Indices : hash'[i] <= WallTime(i)' /\ hash'[i] \in Nat
      BY <2>1, <3>1, <3>6, <3>7 DEF WithinInv, MpiWithinWall
    <3>. QED
      BY <3>1, <3>8 DEF WithinInv, MpiWithinWall
  <2>10. CASE Finalize
    <3>1. /\ reg' = ipm_region(reg, 1, NoRegion) /\ pc = "app" /\ pc' = "done"
          /\ now' = now /\ hash' = hash
      BY <2>10, LeaveStep DEF Finalize, RegionInv, Stamps
    <3>. QED
      BY <2>3, <3>1, RegionAssumption
  <2>11. CASE UNCHANGED vars
    BY <2>11 DEF vars, WithinInv, MpiWithinWall, WallTime
  <2>. QED
    BY <2>2, <2>4, <2>5, <2>6, <2>7, <2>8, <2>9, <2>10, <2>11 DEF Next
<1>3. WithinInv => MpiWithinWall
  BY DEF WithinInv
<1>. QED
  BY <1>1, <1>2, <1>3, RegionInvariant, PTL DEF Spec

(***************************************************************************)
(* Without snapshots and unmatched exits the events are counted with the   *)
(* region the application is in, and regions are stopwatches.              *)
(***************************************************************************)

(* The current region is the application's; an index that has no label yet *)
(* has no time and no events.                                              *)
AppInv ==
  /\ pc = "init" => app.label = NoRegion
  /\ pc # "init" => reg.region_current \in Known(reg)
  /\ pc \in {"app", "call"} => LabelOf(reg, reg.region_current) = app.label
  /\ \A i \in Known(reg) : app.inCalls[LabelOf(reg, i)] = hash[i]
  /\ \A l \in Labels :
       (\A i \in Known(reg) : LabelOf(reg, i) # l) => app.inCalls[l] = 0
  /\ \A i \in Indices \ Known(reg) :
       /\ hash[i] = 0
       /\ pc # "init" => reg.region_wtime[i] = 0 /\ reg.region_count[i] = 0

(* Each label has a place in the arrays of times.                          *)
LEMMA KnownIndices ==
  ASSUME NEW r, RegOK(r)
  PROVE  Known(r) \subseteq Indices /\ Nregion(r) \in Nat
<1>1. Nregion(r) \in Nat /\ Nregion(r) <= MAXSIZE_REGION
  BY KnownTypes DEF RegOK
<1>. QED
  BY <1>1, RegionAssumption DEF Known, Indices

(* What is known of the labels after an entry or exit that leads to a      *)
(* region.                                                                 *)
LEMMA SwitchFacts ==
  ASSUME RegionInv, AppInv, pc = "app", NEW io \in {1, -1}, NEW tag \in Labels,
         ~TooManyRegions(reg, io, tag), reg' = ipm_region(reg, io, tag),
         NextRegion(reg, io, tag) # -1
  PROVE  /\ RegOK(reg') /\ Keeps(reg, reg')
         /\ reg.region_current \in Known(reg)
         /\ reg'.region_current \in Known(reg')
         /\ io = 1 => LabelOf(reg', reg'.region_current) = tag
         /\ \A i \in Known(reg') \ Known(reg) :
              /\ \A j \in Known(reg) : LabelOf(reg, j) # LabelOf(reg', i)
              /\ LabelOf(reg', i) \in Labels
              /\ i \in Indices
<1>1. RegOK(reg) /\ now \in Nat /\ reg.region_wtime_init <= now
  BY DEF RegionInv, Stamps
<1>2. RegOK(reg')
  BY <1>1, RegionStep
<1>3. reg'.region_current = NextRegion(reg, io, tag)
  BY DEF ipm_region
<1>4. /\ Keeps(reg, reg')
      /\ reg'.region_current \in Known(reg')
      /\ io = 1 => LabelOf(reg', reg'.region_current) = tag
  BY <1>1, <1>3, LabelsAfter
<1>5. Distinct(reg') /\ Known(reg') \subseteq Indices
  BY <1>2, KnownIndices DEF RegOK
<1>6. \A i \in Known(reg') : LabelOf(reg', i) \in Labels
  BY <1>2, KnownTypes DEF RegOK
<1>7. \A i \in Known(reg') \ Known(reg) : \A j \in Known(reg) :
        LabelOf(reg, j) # LabelOf(reg', i)
  BY <1>4, <1>5 DEF Keeps, Distinct
<1>8. reg.region_current \in Known(reg)
  BY DEF AppInv
<1>. QED
  BY <1>2, <1>4, <1>5, <1>6, <1>7, <1>8

(* Such an entry or exit keeps AppInv, if the application is in the region *)
(* it leads to or has finished.                                            *)
LEMMA SwitchKeepsApp ==
  ASSUME RegionInv, AppInv, pc = "app", NEW io \in {1, -1}, NEW tag \in Labels,
         ~TooManyRegions(reg, io, tag), reg' = ipm_region(reg, io, tag),
         NextRegion(reg, io, tag) # -1, hash' = hash, app'.inCalls = app.inCalls,
         pc' \in {"app", "done"},
         pc' = "app" => LabelOf(reg', reg'.region_current) = app'.label
  PROVE  AppInv'
<1>1. /\ RegOK(reg') /\ Keeps(reg, reg')
      /\ reg.region_current \in Known(reg)
      /\ reg'.region_current \in Known(reg')
      /\ \A i \in Known(reg') \ Known(reg) :
           /\ \A j \in Known(reg) : LabelOf(reg, j) # LabelOf(reg', i)
           /\ LabelOf(reg', i) \in Labels
           /\ i \in Indices
  BY SwitchFacts
<1>2. ASSUME NEW i \in Known(reg')
      PROVE  app'.inCalls[LabelOf(reg', i)] = hash'[i]
  <2>1. CASE i \in Known(reg)
    BY <1>1, <2>1 DEF Keeps, AppInv
  <2>2. CASE i \notin Known(reg)
    <3>1. app.inCalls[LabelOf(reg', i)] = 0
      BY <1>1, <2>2 DEF AppInv
    <3>2. hash[i] = 0
      BY <1>1, <2>2 DEF AppInv
    <3>. QED
      BY <3>1, <3>2
  <2>. QED
    BY <2>1, <2>2
<1>3. ASSUME NEW l \in Labels, \A i \in Known(reg') : LabelOf(reg', i) # l
      PROVE  app'.inCalls[l] = 0
  BY <1>1, <1>3 DEF Keeps, AppInv
<1>4. ASSUME NEW i \in Indices \ Known(reg')
      PROVE  hash'[i] = 0 /\ reg'.region_wtime[i] = 0 /\ reg'.region_count[i] = 0
  <2>1. i \notin Known(reg) /\ i # reg.region_current
    BY <1>1 DEF Keeps
  <2>2. hash[i] = 0 /\ reg.region_wtime[i] = 0 /\ reg.region_count[i] = 0
    BY <2>1 DEF AppInv
  <2>. QED
    BY <2>1, <2>2 DEF ipm_region, Charge
<1>. QED
  BY <1>1, <1>2, <1>3, <1>4 DEF AppInv

(* A matched exit leads to region 0, which is the application's then.      *)
LEMMA ExitLeads ==
  ASSUME RegionInv, AppInv, pc = "app", NEW l \in Labels, RegionTag(reg, l) # -1,
         reg' = ipm_region(reg, -1, l)
  PROVE  /\ NextRegion(reg, -1, l) = 0
         /\ LabelOf(reg', reg'.region_current) = NoRegion
<1>1. /\ reg \in RegType /\ Distinct(reg) /\ RegOK(reg)
      /\ 0 \in Known(reg) /\ LabelOf(reg, 0) = NoRegion
  BY DEF RegionInv, RegOK, SetUp
<1>2. reg.region_current \in Nat
  BY <1>1, KnownTypes DEF AppInv
<1>3. RegionTag(reg, l) \in Nat
  BY <1>1, TagOfUnknown, KnownTypes
<1>4. ~IsNew(reg, -1, l)
  BY DEF IsNew
<1>5. NextRegion(reg, -1, l) = 0
  BY <1>2, <1>3, <1>4 DEF NextRegion
<1>6. reg'.region_current = 0 /\ reg'.region_label = reg.region_label
  BY <1>4, <1>5 DEF ipm_region
<1>. QED
  BY <1>1, <1>5, <1>6 DEF LabelOf

(* AppInv is an invariant without snapshots and unmatched exits.           *)
THEOREM AppInvariant ==
  ASSUME ~IPM_CHECKPOINT, KnownExits
  PROVE  Spec => []AppInv
<1>1. Init => AppInv
  <2>. SUFFICES ASSUME Init PROVE AppInv
    OBVIOUS
  <2>1. Known(reg) = {} /\ pc = "init" /\ app.label = NoRegion
    BY DEF Init, Known, Nregion
  <2>2. \A i \in Indices : hash[i] = 0
    BY RegionAssumption DEF Init, NoEvents, Indices, KeyRegions
  <2>3. \A l \in Labels : app.inCalls[l] = 0
    BY DEF Init
  <2>. QED
    BY <2>1, <2>2, <2>3 DEF AppInv
<1>2. RegionInv /\ AppInv /\ [Next]_vars => AppInv'
  <2>. SUFFICES ASSUME RegionInv, AppInv, [Next]_vars PROVE AppInv'
    OBVIOUS
  <2>1. CASE Tick
    BY <2>1 DEF Tick, AppInv
  <2>2. CASE MpiInit
    <3>1. RegOK(reg') /\ reg'.region_label = <<NoRegion>> /\ reg'.region_current = 0
      BY <2>2, FirstStep
    <3>2. Known(reg') = {0} /\ LabelOf(reg', 0) = NoRegion
      BY <3>1 DEF Known, Nregion, LabelOf
    <3>3. Known(reg) = {}
      BY <2>2 DEF MpiInit, RegionInv, Known, Nregion
    <3>4. \A l \in Labels : app.inCalls[l] = 0
      BY <3>3 DEF AppInv
    <3>5. \A i \in Indices : hash'[i] = 0
      BY <2>2, RegionAssumption DEF MpiInit, NoEvents, Indices, KeyRegions
    <3>6. ASSUME NEW i \in Indices \ Known(reg')
          PROVE  reg'.region_wtime[i] = 0 /\ reg'.region_count[i] = 0
      <4>. DEFINE r == [reg EXCEPT !.region_wtime = NoTimes, !.region_count = NoTimes]
      <4>1. /\ r.region_wtime = NoTimes /\ r.region_count = NoTimes
            /\ r.region_current = 0
        BY <2>2 DEF MpiInit, RegionInv, RegOK, RegType
      <4>2. reg' = ipm_region(r, 1, NoRegion)
        BY <2>2 DEF MpiInit
      <4>. HIDE DEF r
      <4>. QED
        BY <3>2, <4>1, <4>2 DEF ipm_region, Charge, NoTimes
    <3>7. app' = app /\ pc' = "app" /\ app.label = NoRegion
      BY <2>2 DEF MpiInit, AppInv
    <3>. QED
      BY <3>1, <3>2, <3>4, <3>5, <3>6, <3>7, RegionAssumption DEF AppInv, Indices
  <2>3. ASSUME NEW l \in Labels, Enter(l) PROVE AppInv'
    <3>1. /\ pc = "app" /\ pc' = "app" /\ ~TooManyRegions(reg, 1, l)
          /\ reg' = ipm_region(reg, 1, l) /\ hash' = hash
          /\ app'.inCalls = app.inCalls /\ app'.label = l
      BY <2>3 DEF Enter, AppSwitches
    <3>2. NextRegion(reg, 1, l) # -1
      BY <3>1, LabelsAfter DEF RegionInv
    <3>3. LabelOf(reg', reg'.region_current) = l
      BY <3>1, <3>2, SwitchFacts
    <3>. QED
      BY <3>1, <3>2, <3>3, SwitchKeepsApp
  <2>4. ASSUME NEW l \in Labels, EnterTooMany(l) PROVE AppInv'
    BY <2>4 DEF EnterTooMany, AppSwitches, AppInv
  <2>5. ASSUME NEW l \in Labels, Exit(l) PROVE AppInv'
    <3>1. /\ pc = "app" /\ pc' = "app" /\ RegionTag(reg, l) # -1
          /\ reg' = ipm_region(reg, -1, l) /\ hash' = hash
          /\ app'.inCalls = app.inCalls /\ app'.label = NoRegion
      BY <2>5 DEF Exit, AppSwitches
    <3>2. ~TooManyRegions(reg, -1, l)
      BY DEF TooManyRegions, IsNew
    <3>3. /\ NextRegion(reg, -1, l) = 0
          /\ LabelOf(reg', reg'.region_current) = NoRegion
      BY <3>1, ExitLeads
    <3>4. NextRegion(reg, -1, l) # -1
      BY <3>3
    <3>. QED
      BY <3>1, <3>2, <3>3, <3>4, SwitchKeepsApp
  <2>6. CASE BeginCall
    BY <2>6 DEF BeginCall, AppInv
  <2>7. CASE EndCall
    <3>1. /\ reg' = reg /\ pc = "call" /\ pc' = "app" /\ app'.label = app.label
          /\ app'.inCalls
               = [app.inCalls EXCEPT ![app.label] = app.inCalls[app.label] + (now - T1)]
      BY <2>7 DEF EndCall, ipm_mpi_checkpoint, SnapshotDue
    <3>2. hash' = [hash EXCEPT ![KeyRegion(reg.region_current)]
                                  = hash[KeyRegion(reg.region_current)] + (now - T1)]
      BY <2>7, <3>1 DEF EndCall
    <3>3. /\ hash \in [KeyRegions -> Nat] /\ app.inCalls \in [Labels -> Nat]
          /\ app.label \in Labels /\ Indices \subseteq KeyRegions
          /\ RegOK(reg)
      BY RegionAssumption DEF RegionInv, Indices, KeyRegions
    <3>4. /\ reg.region_current \in Known(reg) /\ Known(reg) \subseteq Indices
          /\ LabelOf(reg, reg.region_current) = app.label
          /\ \A i \in Known(reg) : LabelOf(reg, i) = app.label => i = reg.region_current
      BY <3>1, <3>3, KnownIndices DEF AppInv, RegOK, Distinct
    <3>5. KeyRegion(reg.region_current) = reg.region_current
      BY <3>4 DEF KeyRegion, Indices
    <3>6. \A i \in Indices :
            hash'[i] = IF i = reg.region_current THEN hash[i] + (now - T1) ELSE hash[i]
      BY <3>2, <3>3, <3>5
    <3>7. \A l \in Labels : app'.inCalls[l] =
            IF l = app.label THEN app.inCalls[l] + (now - T1) ELSE app.inCalls[l]
      BY <3>1, <3>3
    <3>8. ASSUME NEW i \in Known(reg)
          PROVE  app'.inCalls[LabelOf(reg, i)] = hash'[i]
      <4>1. app.inCalls[LabelOf(reg, i)] = hash[i] /\ i \in Indices
        BY <3>4 DEF AppInv
      <4>2. LabelOf(reg, i) \in Labels
        BY <3>3, KnownTypes DEF RegOK
      <4>3. LabelOf(reg, i) = app.label <=> i = reg.region_current
        BY <3>4
      <4>. QED
        BY <3>6, <3>7, <4>1, <4>2, <4>3
    <3>9. ASSUME NEW l \in Labels, \A i \in Known(reg) : LabelOf(reg, i) # l
          PROVE  app'.inCalls[l] = 0
      BY <3>4, <3>7, <3>9 DEF AppInv
    <3>10. ASSUME NEW i \in Indices \ Known(reg)
           PROVE  hash'[i] = 0 /\ reg'.region_wtime[i] = 0 /\ reg'.region_count[i] = 0
      BY <3>1, <3>4, <3>6 DEF AppInv
    <3>. QED
      BY <3>1, <3>4, <3>8, <3>9, <3>10 DEF AppInv
  <2>8. CASE Finalize
    <3>1. /\ reg' = ipm_region(reg, 1, NoRegion) /\ pc = "app" /\ pc' = "done"
          /\ hash' = hash /\ app' = app
          /\ NextRegion(reg, 1, NoRegion) = 0 /\ ~TooManyRegions(reg, 1, NoRegion)
      BY <2>8, LeaveStep DEF Finalize, RegionInv, Stamps
    <3>2. NextRegion(reg, 1, NoRegion) # -1
      BY <3>1
    <3>. QED
      BY <3>1, <3>2, RegionAssumption, SwitchKeepsApp
  <2>9. CASE UNCHANGED vars
    BY <2>9 DEF vars, AppInv
  <2>. QED
    BY <2>1, <2>2, <2>3, <2>4, <2>5, <2>6, <2>7, <2>8, <2>9 DEF Next
<1>. QED
  BY <1>1, <1>2, RegionInvariant, PTL DEF Spec

(* Without snapshots and unmatched exits, the time of the MPI calls that   *)
(* the application made in a region is the time counted with that region.  *)
THEOREM AttributionCorrect ==
  ASSUME ~IPM_CHECKPOINT, KnownExits
  PROVE  Spec => []EventsInAppRegion
<1>1. RegionInv /\ AppInv => EventsInAppRegion
  <2>. SUFFICES ASSUME RegionInv, AppInv, NEW l \in Labels
                PROVE  app.inCalls[l] = IF RegionTag(reg, l) = -1
                                        THEN 0 ELSE hash[RegionTag(reg, l)]
    BY DEF EventsInAppRegion
  <2>1. reg \in RegType /\ Distinct(reg)
    BY DEF RegionInv, RegOK
  <2>2. CASE RegionTag(reg, l) = -1 /\ \A i \in Known(reg) : LabelOf(reg, i) # l
    BY <2>2 DEF AppInv
  <2>3. CASE RegionTag(reg, l) \in Known(reg) /\ LabelOf(reg, RegionTag(reg, l)) = l
    <3>1. RegionTag(reg, l) \in Nat
      BY <2>1, <2>3, KnownTypes
    <3>. QED
      BY <2>3, <3>1 DEF AppInv
  <2>. QED
    BY <2>1, <2>2, <2>3, TagOfUnknown
<1>. QED
  BY <1>1, RegionInvariant, AppInvariant, PTL

(***************************************************************************)
(* Unless the application exits a region that it never entered, the times  *)
(* of the regions add up, with snapshots as without.                       *)
(***************************************************************************)

(* The indices of the regions and of the region fields of keys are finite  *)
(* in number, and one of the fields is not an index.                       *)
LEMMA IndicesFinite ==
  /\ IsFiniteSet(Indices) /\ IsFiniteSet(KeyRegions)
  /\ KeyRegions = Indices \cup {MAXSIZE_REGION} /\ MAXSIZE_REGION \notin Indices
  /\ 0 \in Indices
BY RegionAssumption, FS_Interval DEF Indices, KeyRegions

(* SumOf is the sum that the theorems are about.                           *)
LEMMA SumOfIsSum ==
  ASSUME NEW f
  PROVE  SumOf(f) = SumOver(f, Indices)
BY DEF SumOf, SumOver

(* A call of ipm_region charges the period that it ends to one region.     *)
LEMMA ChargedOnce ==
  ASSUME NEW r, RegOK(r), r.region_current \in Indices, NEW io, NEW tag,
         now \in Nat, r.region_wtime_init <= now
  PROVE  SumOf(ipm_region(r, io, tag).region_wtime)
           = SumOf(r.region_wtime) + (now - r.region_wtime_init)
<1>. DEFINE d == now - r.region_wtime_init
            f == r.region_wtime
            g == Charge(f, r.region_current, d)
<1>1. f \in Times /\ d \in Int
  BY DEF RegOK, RegType
<1>2. \A i \in Indices : f[i] \in Int
  BY <1>1 DEF Times
<1>3. ipm_region(r, io, tag).region_wtime = g
  BY DEF ipm_region
<1>. HIDE DEF d, f
<1>4. \A i \in Indices : g[i] = IF i = r.region_current THEN f[i] + d ELSE f[i]
  BY DEF Charge
<1>. HIDE DEF g
<1>5. SumOver(g, Indices) = SumOver(f, Indices) + d
  BY <1>1, <1>2, <1>4, IndicesFinite, SumOneMore
<1>. QED
  BY <1>3, <1>5, SumOfIsSum DEF f, d

(* The task is in a region, and all time up to the last entry or exit is   *)
(* some region's.                                                          *)
ChargedInv ==
  /\ AllTimeCharged
  /\ reg.region_current \in Indices
  /\ pc = "init" => reg.region_wtime_init = stamp_init

(* No time has passed when ipm_init has returned.                          *)
LEMMA ChargedInit ==
  ASSUME Init
  PROVE  ChargedInv
<1>1. \A i \in Indices : reg.region_wtime[i] = 0
  BY DEF Init, NoTimes
<1>2. SumOf(reg.region_wtime) = 0
  BY <1>1, SumZero, IndicesFinite, SumOfIsSum
<1>. QED
  BY <1>2, IndicesFinite DEF Init, ChargedInv, AllTimeCharged, stamp_init

(* An entry or exit that leads to a region.                                *)
LEMMA ChargedSwitch ==
  ASSUME RegionInv, ChargedInv, NEW io \in {1, -1}, NEW tag \in Labels,
         reg' = ipm_region(reg, io, tag), ~TooManyRegions(reg, io, tag),
         NextRegion(reg, io, tag) # -1, pc' # "init"
  PROVE  ChargedInv'
<1>1. RegOK(reg) /\ now \in Nat /\ reg.region_wtime_init \in Nat /\ reg.region_wtime_init <= now
  BY DEF RegionInv, Stamps, RegOK, RegType
<1>2. SumOf(reg'.region_wtime) = SumOf(reg.region_wtime) + (now - reg.region_wtime_init)
  BY <1>1, ChargedOnce DEF ChargedInv
<1>3. SumOf(reg.region_wtime) = reg.region_wtime_init - stamp_init
  BY DEF ChargedInv, AllTimeCharged
<1>4. reg'.region_wtime_init = now /\ reg'.region_current = NextRegion(reg, io, tag)
  BY DEF ipm_region
<1>5. SumOf(reg'.region_wtime) = reg'.region_wtime_init - stamp_init
  BY <1>1, <1>2, <1>3, <1>4 DEF stamp_init
<1>6. reg'.region_current \in Indices
  <2>1. reg'.region_current \in Known(reg')
    BY <1>1, <1>4, LabelsAfter
  <2>2. RegOK(reg')
    BY <1>1, RegionStep
  <2>. QED
    BY <2>1, <2>2, KnownIndices
<1>. QED
  BY <1>5, <1>6 DEF ChargedInv, AllTimeCharged

(* The regions are left for a snapshot and at the end.                     *)
LEMMA ChargedLeave ==
  ASSUME RegionInv, ChargedInv, pc # "init", reg' = LeaveRegions(reg), pc' # "init"
  PROVE  ChargedInv' /\ SumOf(reg'.region_wtime) = now - stamp_init
<1>1. RegOK(reg) /\ SetUp(reg) /\ now \in Nat /\ reg.region_wtime_init <= now
  BY DEF RegionInv, Stamps
<1>2. /\ reg' = ipm_region(reg, 1, NoRegion) /\ ~TooManyRegions(reg, 1, NoRegion)
      /\ NextRegion(reg, 1, NoRegion) = 0
  BY <1>1, LeaveStep
<1>3. ChargedInv'
  BY <1>2, ChargedSwitch, RegionAssumption
<1>4. reg'.region_wtime_init = now
  BY <1>2 DEF ipm_region
<1>. QED
  BY <1>3, <1>4 DEF ChargedInv, AllTimeCharged

(* Every step keeps the sum of the times right.                            *)
LEMMA ChargedStep ==
  ASSUME KnownExits, RegionInv, ChargedInv, [Next]_vars
  PROVE  ChargedInv'
<1>1. CASE Tick
  BY <1>1 DEF Tick, ChargedInv, AllTimeCharged
<1>2. CASE MpiInit
  <2>. DEFINE r == [reg EXCEPT !.region_wtime = NoTimes, !.region_count = NoTimes]
  <2>1. reg \in RegType /\ Nregion(reg) = 0 /\ Known(reg) = {} /\ now \in Nat
    BY <1>2 DEF MpiInit, RegionInv, RegOK, Nregion, Known, Stamps
  <2>2. /\ r \in RegType /\ r.region_label = reg.region_label /\ r.region_wtime = NoTimes
        /\ r.region_current = reg.region_current
        /\ r.region_wtime_init = reg.region_wtime_init
    BY <2>1 DEF RegType, NoTimes, Times
  <2>3. reg' = ipm_region(r, 1, NoRegion)
    BY <1>2 DEF MpiInit
  <2>. HIDE DEF r
  <2>4. RegOK(r)
    BY <2>1, <2>2, RegionAssumption DEF RegOK, Distinct, Nregion, Known
  <2>5. r.region_wtime_init = stamp_init /\ r.region_wtime_init <= now
    BY <1>2, <2>2 DEF MpiInit, ChargedInv, RegionInv, Stamps
  <2>6. SumOf(reg'.region_wtime) = SumOf(NoTimes) + (now - stamp_init)
    BY <2>1, <2>2, <2>3, <2>4, <2>5, ChargedOnce DEF ChargedInv
  <2>7. SumOf(NoTimes) = 0
    BY SumZero, IndicesFinite, SumOfIsSum DEF NoTimes
  <2>8. reg'.region_wtime_init = now /\ reg'.region_current = 0 /\ pc' = "app"
    BY <1>2, FirstStep DEF MpiInit
  <2>. QED
    BY <2>1, <2>6, <2>7, <2>8, IndicesFinite DEF ChargedInv, AllTimeCharged, stamp_init
<1>3. ASSUME NEW l \in Labels, Enter(l) PROVE ChargedInv'
  <2>1. /\ ~TooManyRegions(reg, 1, l) /\ reg' = ipm_region(reg, 1, l)
        /\ pc = "app" /\ pc' = "app"
    BY <1>3 DEF Enter, AppSwitches
  <2>2. NextRegion(reg, 1, l) # -1
    BY <2>1, LabelsAfter DEF RegionInv
  <2>. QED
    BY <2>1, <2>2, ChargedSwitch
<1>4. ASSUME NEW l \in Labels, EnterTooMany(l) PROVE ChargedInv'
  BY <1>4 DEF EnterTooMany, ChargedInv, AllTimeCharged
<1>5. ASSUME NEW l \in Labels, Exit(l) PROVE ChargedInv'
  <2>1. /\ RegionTag(reg, l) # -1 /\ reg' = ipm_region(reg, -1, l)
        /\ pc = "app" /\ pc' = "app"
    BY <1>5 DEF Exit, AppSwitches
  <2>2. ~TooManyRegions(reg, -1, l)
    BY DEF TooManyRegions, IsNew
  <2>3. NextRegion(reg, -1, l) # -1
    BY <2>1, <2>2, LabelsAfter DEF RegionInv
  <2>. QED
    BY <2>1, <2>2, <2>3, ChargedSwitch
<1>6. CASE BeginCall
  BY <1>6 DEF BeginCall, ChargedInv, AllTimeCharged
<1>7. CASE EndCall
  <2>1. pc = "call" /\ pc' = "app" /\ (reg' = reg \/ reg' = LeaveRegions(reg))
    BY <1>7 DEF EndCall, ipm_mpi_checkpoint
  <2>2. CASE reg' = reg
    BY <2>1, <2>2 DEF ChargedInv, AllTimeCharged
  <2>. QED
    BY <2>1, <2>2, ChargedLeave
<1>8. CASE Finalize
  BY <1>8, ChargedLeave DEF Finalize
<1>9. CASE UNCHANGED vars
  BY <1>9 DEF vars, ChargedInv, AllTimeCharged
<1>. QED
  BY <1>1, <1>2, <1>3, <1>4, <1>5, <1>6, <1>7, <1>8, <1>9 DEF Next

(* The times of all regions add up to the time from ipm_init to the last   *)
(* call of ipm_region: no period of time is lost and none is counted twice. *)
THEOREM AllTimeChargedCorrect ==
  ASSUME KnownExits
  PROVE  Spec => []AllTimeCharged
<1>1. ChargedInv => AllTimeCharged
  BY DEF ChargedInv
<1>. QED
  BY <1>1, RegionInvariant, ChargedInit, ChargedStep, PTL DEF Spec

(* The events that the end of a task finds are those of the regions, and   *)
(* no totals have been made before.                                        *)
BeforeTotals ==
  /\ hash[MAXSIZE_REGION] = 0
  /\ pc \notin {"done", "exit"} =>
       totals = [call_mtime |-> NoTimes, region_mtime |-> NoTimes, mtime |-> 0, wtime |-> 0]

(* What ipm_report is given at the end: the regions' times add up to the   *)
(* task's wall time, their MPI times to its MPI time, which was not cut to *)
(* the wall time, and no region has more MPI time than wall time.          *)
THEOREM FinalTotalsCorrect ==
  ASSUME ~IPM_CHECKPOINT, KnownExits
  PROVE  Spec => []FinalTotals
<1>1. Init => BeforeTotals /\ FinalTotals
  BY IndicesFinite DEF Init, BeforeTotals, FinalTotals, NoEvents
<1>2. ASSUME RegionInv, ChargedInv, ChargedInv', MpiWithinWall, BeforeTotals, FinalTotals,
             [Next]_vars
      PROVE  BeforeTotals' /\ FinalTotals'
  <2>1. CASE Tick
    BY <1>2, <2>1 DEF Tick, BeforeTotals, FinalTotals
  <2>2. CASE MpiInit
    BY <1>2, <2>2, IndicesFinite DEF MpiInit, BeforeTotals, FinalTotals, NoEvents
  <2>3. ASSUME NEW l \in Labels, Enter(l) \/ EnterTooMany(l) \/ Exit(l)
        PROVE  BeforeTotals' /\ FinalTotals'
    BY <1>2, <2>3
    DEF Enter, EnterTooMany, Exit, AppSwitches, BeforeTotals, FinalTotals
  <2>4. CASE BeginCall
    BY <1>2, <2>4 DEF BeginCall, BeforeTotals, FinalTotals
  <2>5. CASE EndCall
    <3>1. pc' = "app" /\ pc = "call" /\ UNCHANGED <<reg, totals>>
      BY <2>5 DEF EndCall, ipm_mpi_checkpoint, SnapshotDue
    <3>2. KeyRegion(reg'.region_current) # MAXSIZE_REGION
      BY <1>2, <3>1, IndicesFinite DEF ChargedInv, KeyRegion, Indices
    <3>3. hash'[MAXSIZE_REGION] = 0
      BY <1>2, <2>5, <3>2, IndicesFinite DEF EndCall, BeforeTotals, RegionInv
    <3>. QED
      BY <1>2, <3>1, <3>3 DEF BeforeTotals, FinalTotals
  <2>6. CASE Finalize
    <3>. DEFINE wall == now - stamp_init
                mpi  == SumOver(hash, KeyRegions)
    <3>1. /\ pc = "app" /\ pc' = "done" /\ UNCHANGED <<hash, now>> /\ reg' = LeaveRegions(reg)
          /\ totals.region_mtime = NoTimes /\ totals.mtime = 0
      BY <1>2, <2>6 DEF Finalize, BeforeTotals
    <3>2. /\ totals'.call_mtime = [i \in Indices |-> hash[i]]
          /\ totals'.region_mtime = [i \in Indices |-> NoTimes[i] + hash[i]]
          /\ totals'.mtime = IF 0 + mpi > wall THEN wall ELSE 0 + mpi
          /\ totals'.wtime = wall
      BY <2>6, <3>1 DEF Finalize, ipm_sync, SumOver
    <3>3. \A i \in KeyRegions : hash[i] \in Nat
      BY <1>2 DEF RegionInv
    <3>4. \A i \in Indices : hash[i] \in Int /\ hash[i] \in Nat
      BY <3>3, IndicesFinite
    <3>5. mpi = hash[MAXSIZE_REGION] + SumOver(hash, Indices)
      BY <3>3, IndicesFinite, SumAdded
    <3>6. SumOver(hash, Indices) \in Int
      BY <3>4, IndicesFinite, SumType
    <3>7. mpi = SumOver(hash, Indices)
      BY <1>2, <3>5, <3>6 DEF BeforeTotals
    <3>8. SumOf(reg'.region_wtime) = wall
      BY <1>2, <3>1, ChargedLeave
    <3>9. \A i \in Indices : hash[i] <= reg'.region_wtime[i] /\ reg'.region_wtime[i] \in Nat
      <4>1. RegOK(reg) /\ SetUp(reg) /\ now \in Nat /\ reg.region_wtime_init <= now
        BY <1>2, <3>1 DEF RegionInv, Stamps
      <4>2. reg' = ipm_region(reg, 1, NoRegion)
        BY <3>1, <4>1, LeaveStep
      <4>3. \A i \in Indices : WallTime(i)' = WallTime(i) /\ WallTime(i) \in Nat
        BY <1>2, <3>1, <4>2, ChargeKeepsWallTime, RegionAssumption
      <4>4. \A i \in Indices : hash[i] <= WallTime(i)
        BY <1>2, <3>1, <3>4 DEF MpiWithinWall
      <4>5. reg'.region_wtime_init = now
        BY <4>2 DEF ipm_region
      <4>6. RegOK(reg')
        BY <3>1, <4>1, LeaveStep
      <4>7. \A i \in Indices : reg'.region_wtime[i] \in Nat
        BY <4>6 DEF RegOK, RegType, Times
      <4>8. \A i \in Indices : WallTime(i)' = reg'.region_wtime[i]
        BY <3>1, <4>1, <4>5, <4>7 DEF WallTime
      <4>. QED
        BY <4>3, <4>4, <4>7, <4>8
    <3>10. SumOver(hash, Indices) <= wall
      <4>1. SumOver(hash, Indices) <= SumOver(reg'.region_wtime, Indices)
        BY <3>4, <3>9, IndicesFinite, SumLeq
      <4>. QED
        BY <3>8, <4>1, SumOfIsSum
    <3>11. totals'.mtime = SumOver(hash, Indices)
      <4>1. wall \in Int
        BY <1>2 DEF RegionInv, Stamps, stamp_init
      <4>. QED
        BY <3>2, <3>6, <3>7, <3>10, <4>1
    <3>12. \A i \in Indices : totals'.region_mtime[i] = hash[i]
      BY <3>2, <3>4 DEF NoTimes
    <3>13. totals'.region_mtime = totals'.call_mtime
      BY <3>2, <3>4 DEF NoTimes
    <3>14. SumOf(totals'.region_mtime) = totals'.mtime
      BY <3>11, <3>12, IndicesFinite, SumSame, SumOfIsSum
    <3>. QED
      BY <1>2, <3>1, <3>2, <3>8, <3>9, <3>12, <3>13, <3>14 DEF FinalTotals, BeforeTotals
  <2>7. CASE UNCHANGED vars
    BY <1>2, <2>7 DEF vars, BeforeTotals, FinalTotals
  <2>. QED
    BY <1>2, <2>1, <2>2, <2>3, <2>4, <2>5, <2>6, <2>7 DEF Next
<1>. QED
  BY <1>1, <1>2, RegionInvariant, MpiWithinWallCorrect, ChargedInit, ChargedStep, PTL DEF Spec

(***************************************************************************)
(* The refinement of IpmStopwatch.                                         *)
(***************************************************************************)

(* PerLabel for given fields of ipm_region. *)
PerLabelOf(r, f) ==
  [l \in Labels |-> IF RegionTag(r, l) = -1 THEN 0 ELSE f[RegionTag(r, l)]]

(* The time of a label is that at its index, or none if it has no index.   *)
LEMMA PerLabelValues ==
  ASSUME NEW r, RegOK(r), NEW f
  PROVE  /\ \A i \in Known(r) : PerLabelOf(r, f)[LabelOf(r, i)] = f[i]
         /\ \A l \in Labels :
              (\A i \in Known(r) : LabelOf(r, i) # l) => PerLabelOf(r, f)[l] = 0
<1>1. r \in RegType /\ Distinct(r)
  BY DEF RegOK
<1>2. ASSUME NEW i \in Known(r)
      PROVE  PerLabelOf(r, f)[LabelOf(r, i)] = f[i]
  <2>1. LabelOf(r, i) \in Labels /\ i \in Nat /\ RegionTag(r, LabelOf(r, i)) = i
    BY <1>1, KnownTypes, TagOfKnown
  <2>. QED
    BY <2>1 DEF PerLabelOf
<1>3. ASSUME NEW l \in Labels, \A i \in Known(r) : LabelOf(r, i) # l
      PROVE  PerLabelOf(r, f)[l] = 0
  BY <1>1, <1>3, TagOfUnknown DEF PerLabelOf
<1>. QED
  BY <1>2, <1>3

(* Charging the current region is adding to the stopwatch of its label,    *)
(* also when a label is added that has no time yet.                        *)
LEMMA ChargeIsAdd ==
  ASSUME NEW r, RegOK(r), NEW q, RegOK(q), Keeps(r, q),
         r.region_current \in Known(r), NEW f \in Times, NEW d \in Nat,
         \A i \in Indices \ Known(r) : f[i] = 0,
         \A i \in Known(q) \ Known(r) : \A j \in Known(r) : LabelOf(r, j) # LabelOf(q, i)
  PROVE  PerLabelOf(q, Charge(f, r.region_current, d))
           = [PerLabelOf(r, f) EXCEPT ![LabelOf(r, r.region_current)]
                                        = PerLabelOf(r, f)[LabelOf(r, r.region_current)] + d]
<1>. DEFINE g == Charge(f, r.region_current, d)
            a == LabelOf(r, r.region_current)
<1>1. \A i \in Indices : g[i] = IF i = r.region_current THEN f[i] + d ELSE f[i]
  BY DEF Charge
<1>2. Known(r) \subseteq Indices /\ Known(q) \subseteq Indices
  BY KnownIndices
<1>3. a \in Labels
  BY KnownTypes DEF RegOK
<1>. HIDE DEF g
<1>4. ASSUME NEW l \in Labels
      PROVE  PerLabelOf(q, g)[l]
               = IF l = a THEN PerLabelOf(r, f)[a] + d ELSE PerLabelOf(r, f)[l]
  <2>1. CASE \E i \in Known(r) : LabelOf(r, i) = l
    <3>1. PICK i \in Known(r) : LabelOf(r, i) = l
      BY <2>1
    <3>2. i \in Known(q) /\ LabelOf(q, i) = l
      BY <3>1 DEF Keeps
    <3>3. PerLabelOf(q, g)[l] = g[i] /\ PerLabelOf(r, f)[l] = f[i]
      BY <3>1, <3>2, PerLabelValues
    <3>4. l = a <=> i = r.region_current
      BY <3>1 DEF RegOK, Distinct
    <3>. QED
      BY <1>1, <1>2, <3>3, <3>4
  <2>2. CASE \A i \in Known(r) : LabelOf(r, i) # l
    <3>1. l # a /\ PerLabelOf(r, f)[l] = 0
      BY <2>2, PerLabelValues
    <3>2. PerLabelOf(q, g)[l] = 0
      <4>1. CASE \E i \in Known(q) : LabelOf(q, i) = l
        <5>1. PICK i \in Known(q) : LabelOf(q, i) = l
          BY <4>1
        <5>2. i \notin Known(r) /\ i \in Indices
          BY <1>2, <2>2, <5>1 DEF Keeps
        <5>3. g[i] = 0
          BY <1>1, <5>2
        <5>. QED
          BY <5>1, <5>3, PerLabelValues
      <4>2. CASE \A i \in Known(q) : LabelOf(q, i) # l
        BY <4>2, PerLabelValues
      <4>. QED
        BY <4>1, <4>2
    <3>. QED
      BY <3>1, <3>2
  <2>. QED
    BY <2>1, <2>2
<1>. DEFINE x == PerLabelOf(r, f)
            y == PerLabelOf(q, g)
<1>5. y = [x EXCEPT ![a] = x[a] + d]
  <2>1. /\ x = [l \in Labels |-> x[l]]
        /\ y = [l \in Labels |-> y[l]]
        /\ \A l \in Labels : y[l] = IF l = a THEN x[a] + d ELSE x[l]
    BY <1>4 DEF PerLabelOf
  <2>. HIDE DEF x, y
  <2>. QED
    BY <2>1
<1>. QED
  BY <1>5 DEF g

(* An entry or exit stops the running stopwatch and starts the next.       *)
LEMMA SwitchRefines ==
  ASSUME RegionInv, AppInv, pc = "app", NEW io \in {1, -1}, NEW tag \in Labels,
         ~TooManyRegions(reg, io, tag), reg' = ipm_region(reg, io, tag),
         NextRegion(reg, io, tag) # -1, hash' = hash, now' = now,
         pc' \in {"app", "done"}
  PROVE  /\ Stopwatch!Switch(LabelOf(reg', reg'.region_current))
         /\ LabelOf(reg', reg'.region_current) \in Labels
<1>. DEFINE a == LabelOf(reg, reg.region_current)
            d == now - reg.region_wtime_init
<1>1. /\ RegOK(reg) /\ RegOK(reg') /\ Keeps(reg, reg')
      /\ reg.region_current \in Known(reg)
      /\ reg'.region_current \in Known(reg')
      /\ \A i \in Known(reg') \ Known(reg) :
           /\ \A j \in Known(reg) : LabelOf(reg, j) # LabelOf(reg', i)
           /\ LabelOf(reg', i) \in Labels
           /\ i \in Indices
  BY SwitchFacts DEF RegionInv
<1>2. /\ now \in Nat /\ reg.region_wtime_init \in Nat /\ d \in Nat
      /\ reg.region_wtime \in Times /\ reg.region_count \in Times
  BY DEF RegionInv, RegOK, RegType, Stamps
<1>3. \A i \in Indices \ Known(reg) : reg.region_wtime[i] = 0 /\ reg.region_count[i] = 0
  BY DEF AppInv
<1>4. /\ reg'.region_wtime = Charge(reg.region_wtime, reg.region_current, d)
      /\ reg'.region_count = Charge(reg.region_count, reg.region_current, 1)
      /\ reg'.region_wtime_init = now
  BY DEF ipm_region
<1>5. PerLabelOf(reg', reg'.region_wtime)
        = [PerLabelOf(reg, reg.region_wtime) EXCEPT
             ![a] = PerLabelOf(reg, reg.region_wtime)[a] + d]
  BY <1>1, <1>2, <1>3, <1>4, ChargeIsAdd
<1>6. PerLabelOf(reg', reg'.region_count)
        = [PerLabelOf(reg, reg.region_count) EXCEPT
             ![a] = PerLabelOf(reg, reg.region_count)[a] + 1]
  BY <1>1, <1>2, <1>3, <1>4, ChargeIsAdd
<1>7. PerLabelOf(reg', hash) = PerLabelOf(reg, hash)
  <2>1. ASSUME NEW l \in Labels
        PROVE  PerLabelOf(reg', hash)[l] = PerLabelOf(reg, hash)[l]
    <3>1. CASE \E i \in Known(reg) : LabelOf(reg, i) = l
      <4>1. PICK i \in Known(reg) : LabelOf(reg, i) = l
        BY <3>1
      <4>2. i \in Known(reg') /\ LabelOf(reg', i) = l
        BY <1>1, <4>1 DEF Keeps
      <4>. QED
        BY <1>1, <4>1, <4>2, PerLabelValues
    <3>2. CASE \E i \in Known(reg') \ Known(reg) : LabelOf(reg', i) = l
      <4>1. PICK i \in Known(reg') \ Known(reg) : LabelOf(reg', i) = l
        BY <3>2
      <4>2. PerLabelOf(reg', hash)[l] = hash[i]
        BY <1>1, <4>1, PerLabelValues
      <4>3. hash[i] = 0
        BY <1>1, <4>1 DEF AppInv
      <4>4. PerLabelOf(reg, hash)[l] = 0
        BY <1>1, <4>1, PerLabelValues
      <4>. QED
        BY <4>2, <4>3, <4>4
    <3>3. CASE \A i \in Known(reg') : LabelOf(reg', i) # l
      <4>1. \A i \in Known(reg) : LabelOf(reg, i) # l
        BY <1>1, <3>3 DEF Keeps
      <4>. QED
        BY <1>1, <3>3, <4>1, PerLabelValues
    <3>. QED
      BY <1>1, <3>1, <3>2, <3>3 DEF Keeps
  <2>. QED
    BY <2>1 DEF PerLabelOf
<1>8. LabelOf(reg', reg'.region_current) \in Labels
  BY <1>1, KnownTypes DEF RegOK
<1>9. /\ PerLabel(reg.region_wtime)' = PerLabelOf(reg', reg'.region_wtime)
      /\ PerLabel(reg.region_count)' = PerLabelOf(reg', reg'.region_count)
      /\ PerLabel(hash)' = PerLabelOf(reg', hash')
      /\ PerLabel(reg.region_wtime) = PerLabelOf(reg, reg.region_wtime)
      /\ PerLabel(reg.region_count) = PerLabelOf(reg, reg.region_count)
      /\ PerLabel(hash) = PerLabelOf(reg, hash)
  BY DEF PerLabel, PerLabelOf
<1>10. (now - stamp_init) - (reg.region_wtime_init - stamp_init) = d
  BY <1>2 DEF stamp_init
<1>. QED
  BY <1>4, <1>5, <1>6, <1>7, <1>8, <1>9, <1>10 DEF Stopwatch!Switch

(* The first entry is a switch from and to the stopwatch outside all       *)
(* regions; the events before it have been cleared.                        *)
LEMMA FirstRefines ==
  ASSUME RegionInv, MpiInit
  PROVE  Stopwatch!Switch(NoRegion)
<1>. DEFINE r == [reg EXCEPT !.region_wtime = NoTimes, !.region_count = NoTimes]
            d == now - reg.region_wtime_init
            Zero == [l \in Labels |-> 0]
<1>1. /\ RegOK(reg') /\ reg'.region_label = <<NoRegion>> /\ reg'.region_current = 0
      /\ reg'.region_wtime_init = now
  BY FirstStep
<1>2. Known(reg') = {0} /\ LabelOf(reg', 0) = NoRegion
  BY <1>1 DEF Known, Nregion, LabelOf
<1>3. /\ pc = "init" /\ pc' = "app" /\ now' = now /\ hash' = NoEvents
      /\ reg' = ipm_region(r, 1, NoRegion)
  BY DEF MpiInit
<1>4. /\ now \in Nat /\ reg.region_wtime_init \in Nat /\ d \in Nat
      /\ reg.region_current = 0 /\ reg.region_label = <<>>
      /\ reg \in RegType
  BY <1>3 DEF RegionInv, RegOK, RegType, Stamps
<1>5. /\ r.region_wtime = NoTimes /\ r.region_count = NoTimes
      /\ r.region_current = 0 /\ r.region_wtime_init = reg.region_wtime_init
  BY <1>4 DEF RegType
<1>6. Known(reg) = {}
  BY <1>4 DEF Known, Nregion
<1>7. \A f : PerLabelOf(reg, f) = Zero
  <2>1. \A l \in Labels : RegionTag(reg, l) = -1
    BY <1>6 DEF RegionTag
  <2>. QED
    BY <2>1 DEF PerLabelOf
<1>. HIDE DEF r
<1>8. /\ reg'.region_wtime[0] = d /\ reg'.region_count[0] = 1 /\ hash'[0] = 0
  BY <1>3, <1>4, <1>5, RegionAssumption
  DEF ipm_region, Charge, NoTimes, NoEvents, Indices, KeyRegions
<1>9. \A f : PerLabelOf(reg', f) = [l \in Labels |-> IF l = NoRegion THEN f[0] ELSE 0]
  <2>1. ASSUME NEW f, NEW l \in Labels
        PROVE  PerLabelOf(reg', f)[l] = IF l = NoRegion THEN f[0] ELSE 0
    BY <1>1, <1>2, PerLabelValues
  <2>. QED
    BY <2>1 DEF PerLabelOf
<1>10. /\ PerLabel(reg.region_wtime)' = PerLabelOf(reg', reg'.region_wtime)
       /\ PerLabel(reg.region_count)' = PerLabelOf(reg', reg'.region_count)
       /\ PerLabel(hash)' = PerLabelOf(reg', hash')
       /\ PerLabel(reg.region_wtime) = Zero
       /\ PerLabel(reg.region_count) = Zero
       /\ PerLabel(hash) = Zero
  BY <1>7 DEF PerLabel, PerLabelOf
<1>11. /\ PerLabel(reg.region_wtime)' = [Zero EXCEPT ![NoRegion] = Zero[NoRegion] + d]
       /\ PerLabel(reg.region_count)' = [Zero EXCEPT ![NoRegion] = Zero[NoRegion] + 1]
       /\ PerLabel(hash)' = Zero
  <2>1. /\ PerLabel(reg.region_wtime)' = [l \in Labels |-> IF l = NoRegion THEN d ELSE 0]
        /\ PerLabel(reg.region_count)' = [l \in Labels |-> IF l = NoRegion THEN 1 ELSE 0]
        /\ PerLabel(hash)' = [l \in Labels |-> IF l = NoRegion THEN 0 ELSE 0]
    <3>1. /\ PerLabelOf(reg', reg'.region_wtime)
               = [l \in Labels |-> IF l = NoRegion THEN reg'.region_wtime[0] ELSE 0]
          /\ PerLabelOf(reg', reg'.region_count)
               = [l \in Labels |-> IF l = NoRegion THEN reg'.region_count[0] ELSE 0]
          /\ PerLabelOf(reg', hash')
               = [l \in Labels |-> IF l = NoRegion THEN hash'[0] ELSE 0]
      BY <1>9
    <3>. HIDE DEF d
    <3>2. PerLabel(reg.region_wtime)' = [l \in Labels |-> IF l = NoRegion THEN d ELSE 0]
      BY <1>8, <1>10, <3>1
    <3>3. PerLabel(reg.region_count)' = [l \in Labels |-> IF l = NoRegion THEN 1 ELSE 0]
      BY <1>8, <1>10, <3>1
    <3>4. PerLabel(hash)' = [l \in Labels |-> IF l = NoRegion THEN 0 ELSE 0]
      BY <1>8, <1>10, <3>1
    <3>. QED
      BY <3>2, <3>3, <3>4
  <2>2. /\ Zero[NoRegion] + d = d /\ Zero[NoRegion] + 1 = 1
        /\ NoRegion \in Labels
    BY <1>4, RegionAssumption
  <2>3. \A v : [Zero EXCEPT ![NoRegion] = v]
                 = [l \in Labels |-> IF l = NoRegion THEN v ELSE 0]
    BY <2>2
  <2>4. [l \in Labels |-> IF l = NoRegion THEN 0 ELSE 0] = Zero
    OBVIOUS
  <2>. HIDE DEF d, Zero
  <2>. QED
    BY <2>1, <2>2, <2>3, <2>4
<1>12. (now - stamp_init) - (reg.region_wtime_init - stamp_init) = d
  BY <1>4 DEF stamp_init
<1>. QED
  BY <1>1, <1>2, <1>3, <1>10, <1>11, <1>12 DEF Stopwatch!Switch

(* The event of a call is counted with the stopwatch that runs.            *)
LEMMA CallRefines ==
  ASSUME ~IPM_CHECKPOINT, RegionInv, AppInv, MpiWithinWall, EndCall
  PROVE  Stopwatch!Call(now - T1) /\ now - T1 \in 0 .. now - stamp_init
<1>. DEFINE a == LabelOf(reg, reg.region_current)
            d == now - T1
<1>1. /\ reg' = reg /\ now' = now /\ pc = "call" /\ pc' = "app"
      /\ hash' = [hash EXCEPT ![KeyRegion(reg.region_current)]
                                = hash[KeyRegion(reg.region_current)] + d]
  BY DEF EndCall, ipm_mpi_checkpoint, SnapshotDue
<1>2. /\ now \in Nat /\ T1 \in Nat /\ T1 <= now /\ stamp_init <= T1 /\ d \in Nat
      /\ reg.region_wtime_init \in Nat /\ RegOK(reg)
      /\ hash \in [KeyRegions -> Nat] /\ Indices \subseteq KeyRegions
  <2>1. now \in Nat /\ T1 \in Nat /\ T1 <= now /\ stamp_init <= T1
    BY <1>1 DEF RegionInv, Stamps, stamp_init
  <2>2. d \in Nat
    BY <2>1
  <2>3. reg.region_wtime_init \in Nat /\ RegOK(reg)
    BY DEF RegionInv, RegOK, RegType
  <2>4. hash \in [KeyRegions -> Nat]
    BY DEF RegionInv
  <2>5. Indices \subseteq KeyRegions
    BY RegionAssumption DEF Indices, KeyRegions
  <2>. QED
    BY <2>1, <2>2, <2>3, <2>4, <2>5
<1>3. reg.region_current \in Known(reg) /\ Known(reg) \subseteq Indices
  BY <1>1, <1>2, KnownIndices DEF AppInv
<1>4. KeyRegion(reg.region_current) = reg.region_current
  BY <1>3 DEF KeyRegion, Indices
<1>5. a \in Labels
  BY <1>2, <1>3, KnownTypes DEF RegOK
<1>6. PerLabelOf(reg, hash') = [PerLabelOf(reg, hash) EXCEPT ![a]
                                  = PerLabelOf(reg, hash)[a] + d]
  <2>1. PerLabelOf(reg, hash')
          = PerLabelOf(reg, Charge(hash, reg.region_current, d))
    <3>1. \A i \in Known(reg) : hash'[i] = Charge(hash, reg.region_current, d)[i]
      BY <1>1, <1>2, <1>3, <1>4 DEF Charge
    <3>2. ASSUME NEW l \in Labels
          PROVE  PerLabelOf(reg, hash')[l]
                   = PerLabelOf(reg, Charge(hash, reg.region_current, d))[l]
      <4>1. CASE \E i \in Known(reg) : LabelOf(reg, i) = l
        BY <1>2, <3>1, <4>1, PerLabelValues
      <4>2. CASE \A i \in Known(reg) : LabelOf(reg, i) # l
        BY <1>2, <4>2, PerLabelValues
      <4>. QED
        BY <4>1, <4>2
    <3>. QED
      BY <3>2 DEF PerLabelOf
  <2>. DEFINE h == [i \in Indices |-> hash[i]]
  <2>2. h \in Times /\ \A i \in Indices \ Known(reg) : h[i] = 0
    BY <1>2 DEF Times, AppInv
  <2>3. Charge(hash, reg.region_current, d) = Charge(h, reg.region_current, d)
    BY DEF Charge
  <2>4. PerLabelOf(reg, h) = PerLabelOf(reg, hash)
    <3>1. ASSUME NEW l \in Labels
          PROVE  PerLabelOf(reg, h)[l] = PerLabelOf(reg, hash)[l]
      <4>1. CASE \E i \in Known(reg) : LabelOf(reg, i) = l
        BY <1>2, <1>3, <4>1, PerLabelValues
      <4>2. CASE \A i \in Known(reg) : LabelOf(reg, i) # l
        BY <1>2, <4>2, PerLabelValues
      <4>. QED
        BY <4>1, <4>2
    <3>. QED
      BY <3>1 DEF PerLabelOf
  <2>5. Keeps(reg, reg)
    BY DEF Keeps
  <2>. HIDE DEF h
  <2>6. PerLabelOf(reg, Charge(h, reg.region_current, d))
          = [PerLabelOf(reg, h) EXCEPT ![a] = PerLabelOf(reg, h)[a] + d]
    BY <1>2, <1>3, <2>2, <2>5, ChargeIsAdd
  <2>. QED
    BY <2>1, <2>3, <2>4, <2>6
<1>7. PerLabelOf(reg, hash)[a] + d
        <= PerLabelOf(reg, reg.region_wtime)[a] + (now - reg.region_wtime_init)
  <2>1. /\ PerLabelOf(reg, hash)[a] = hash[reg.region_current]
        /\ PerLabelOf(reg, reg.region_wtime)[a] = reg.region_wtime[reg.region_current]
    BY <1>2, <1>3, PerLabelValues
  <2>2. hash[reg.region_current] + d <= WallTime(reg.region_current)
    BY <1>1, <1>3 DEF MpiWithinWall
  <2>. QED
    BY <2>1, <2>2 DEF WallTime
<1>8. /\ PerLabel(reg.region_wtime)' = PerLabel(reg.region_wtime)
      /\ PerLabel(reg.region_count)' = PerLabel(reg.region_count)
      /\ PerLabel(hash)' = PerLabelOf(reg, hash')
      /\ PerLabel(reg.region_wtime) = PerLabelOf(reg, reg.region_wtime)
      /\ PerLabel(hash) = PerLabelOf(reg, hash)
  BY <1>1 DEF PerLabel, PerLabelOf
<1>9. (now - stamp_init) - (reg.region_wtime_init - stamp_init)
        = now - reg.region_wtime_init
  BY <1>2 DEF stamp_init
<1>10. d \in 0 .. now - stamp_init
  BY <1>2 DEF stamp_init
<1>. QED
  BY <1>1, <1>6, <1>7, <1>8, <1>9, <1>10 DEF Stopwatch!Call

(* The regions of a task are stopwatches (IpmStopwatch): one of them runs  *)
(* at any time, and the MPI calls in a region take no longer than it does. *)
THEOREM RegionsAreStopwatches ==
  ASSUME ~IPM_CHECKPOINT, KnownExits
  PROVE  Spec => ImplementsStopwatch
<1>1. Init => Stopwatch!Init
  <2>. SUFFICES ASSUME Init PROVE Stopwatch!Init
    OBVIOUS
  <2>1. reg.region_label = <<>> /\ now = stamp_init /\ reg.region_wtime_init = stamp_init
        /\ pc = "init"
    BY DEF Init
  <2>2. Known(reg) = {}
    BY <2>1 DEF Known, Nregion
  <2>3. \A l \in Labels : RegionTag(reg, l) = -1
    BY <2>2 DEF RegionTag
  <2>4. \A f : PerLabel(f) = [l \in Labels |-> 0]
    BY <2>3 DEF PerLabel
  <2>. QED
    BY <2>1, <2>4 DEF Stopwatch!Init, stamp_init
<1>2. RegionInv /\ RegionInv' /\ AppInv /\ AppInv' /\ MpiWithinWall /\ [Next]_vars
        => [Stopwatch!Next]_(Stopwatch!vars)
  <2>. SUFFICES ASSUME RegionInv, RegionInv', AppInv, AppInv', MpiWithinWall, [Next]_vars
                PROVE  Stopwatch!Next \/ UNCHANGED Stopwatch!vars
    OBVIOUS
  <2>1. CASE Tick
    <3>1. now' = now + 1 /\ reg' = reg /\ hash' = hash /\ pc' = pc /\ now \in Nat
      BY <2>1 DEF Tick, RegionInv, Stamps
    <3>2. (now - stamp_init)' = (now - stamp_init) + 1
      BY <3>1 DEF stamp_init
    <3>3. Stopwatch!Tick
      BY <3>1, <3>2 DEF Stopwatch!Tick, PerLabel
    <3>. QED
      BY <3>3 DEF Stopwatch!Next
  <2>2. CASE MpiInit
    BY <2>2, FirstRefines, RegionAssumption DEF Stopwatch!Next
  <2>3. ASSUME NEW l \in Labels, Enter(l) PROVE Stopwatch!Next
    <3>1. /\ pc = "app" /\ pc' = "app" /\ ~TooManyRegions(reg, 1, l)
          /\ reg' = ipm_region(reg, 1, l) /\ hash' = hash /\ now' = now
      BY <2>3 DEF Enter, AppSwitches
    <3>2. NextRegion(reg, 1, l) # -1
      BY <3>1, LabelsAfter DEF RegionInv
    <3>3. /\ Stopwatch!Switch(LabelOf(reg', reg'.region_current))
          /\ LabelOf(reg', reg'.region_current) \in Labels
      BY <3>1, <3>2, SwitchRefines
    <3>. QED
      BY <3>3 DEF Stopwatch!Next
  <2>4. ASSUME NEW l \in Labels, EnterTooMany(l) PROVE UNCHANGED Stopwatch!vars
    BY <2>4 DEF EnterTooMany, AppSwitches, Stopwatch!vars, PerLabel
  <2>5. ASSUME NEW l \in Labels, Exit(l) PROVE Stopwatch!Next
    <3>1. /\ pc = "app" /\ pc' = "app" /\ RegionTag(reg, l) # -1
          /\ reg' = ipm_region(reg, -1, l) /\ hash' = hash /\ now' = now
      BY <2>5 DEF Exit, AppSwitches
    <3>2. ~TooManyRegions(reg, -1, l)
      BY DEF TooManyRegions, IsNew
    <3>3. NextRegion(reg, -1, l) # -1
      BY <3>1, ExitLeads
    <3>4. /\ Stopwatch!Switch(LabelOf(reg', reg'.region_current))
          /\ LabelOf(reg', reg'.region_current) \in Labels
      BY <3>1, <3>2, <3>3, SwitchRefines
    <3>. QED
      BY <3>4 DEF Stopwatch!Next
  <2>6. CASE BeginCall
    BY <2>6 DEF BeginCall, Stopwatch!vars, PerLabel
  <2>7. CASE EndCall
    BY <2>7, CallRefines DEF Stopwatch!Next
  <2>8. CASE Finalize
    <3>1. /\ reg' = ipm_region(reg, 1, NoRegion) /\ pc = "app" /\ pc' = "done"
          /\ hash' = hash /\ now' = now
          /\ NextRegion(reg, 1, NoRegion) = 0 /\ ~TooManyRegions(reg, 1, NoRegion)
      BY <2>8, LeaveStep DEF Finalize, RegionInv, Stamps
    <3>2. NextRegion(reg, 1, NoRegion) # -1
      BY <3>1
    <3>3. /\ Stopwatch!Switch(LabelOf(reg', reg'.region_current))
          /\ LabelOf(reg', reg'.region_current) \in Labels
      BY <3>1, <3>2, SwitchRefines, RegionAssumption
    <3>. QED
      BY <3>3 DEF Stopwatch!Next
  <2>9. CASE UNCHANGED vars
    BY <2>9 DEF vars, Stopwatch!vars, PerLabel
  <2>. QED
    BY <2>1, <2>2, <2>3, <2>4, <2>5, <2>6, <2>7, <2>8, <2>9 DEF Next
<1>. QED
  BY <1>1, <1>2, RegionInvariant, AppInvariant, MpiWithinWallCorrect, PTL
  DEF Spec, ImplementsStopwatch, Stopwatch!Spec
-----------------------------------------------------------------------------
(***************************************************************************)
(* The text of the log. WellFormed halves it wherever the halves meet, so  *)
(* the effect of any stretch of tags is stated by the elements that are    *)
(* open at its ends and those that stay open throughout.                   *)
(***************************************************************************)
(* The elements of a log.                                                  *)
Names ==
  {"ipm_job_profile", "task", "job", "host", "perf", "switch", "cmdline", "exec", "pre",
   "exec_bin", "env", "ru_s_ti", "ru_s_tf", "ru_c_ti", "ru_c_tf", "call_mask", "call",
   "regions", "region", "hpm", "counter", "func", "hash", "hent", "internal"}
(* The tags of a log, and the elements open at a place in it, outermost    *)
(* first.                                                                  *)
Tags == [name : Names, opens : BOOLEAN]
Stacks == Seq(Names)

(* One tag takes the stack of the elements that are open from c to d.      *)
Takes(tag, c, d) == IF tag.opens THEN d = Append(c, tag.name) ELSE c = Append(d, tag.name)

(* st has the elements that are open before each tag, and after the last.  *)
StackOf(s, st) ==
  /\ s \in Seq(Tags) /\ Len(s) \in Nat
  /\ st \in [1 .. Len(s) + 1 -> Stacks]
  /\ \A k \in 1 .. Len(s) : Takes(s[k], st[k], st[k + 1])

(* What a stretch of tags takes from the stack s to u, if m of the elements *)
(* of s stay open throughout and no more.                                  *)
Effect(s, m, u) ==
  [closes |-> [i \in 1 .. Len(s) - m |-> s[Len(s) + 1 - i]],
   opens  |-> [i \in 1 .. Len(u) - m |-> u[m + i]]]

(* The m outermost elements are the same.                                  *)
Agree(s, u, m) == m \in Nat /\ m <= Len(s) /\ m <= Len(u) /\ \A j \in 1 .. m : s[j] = u[j]

(* Two stretches have the effect of both.                                  *)
LEMMA EffectsJoin ==
  ASSUME NEW s \in Stacks, NEW t \in Stacks, NEW u \in Stacks, NEW m, NEW n,
         Agree(s, t, m), Agree(t, u, n)
  PROVE  FollowedBy(Effect(s, m, t), Effect(t, n, u)) = Effect(s, IF m <= n THEN m ELSE n, u)
<1>. DEFINE x == Effect(s, m, t)
            y == Effect(t, n, u)
            a == x.closes
            b == x.opens
            c == y.closes
            d == y.opens
            k == Len(s)
            l == Len(t)
            h == Len(u)
            p == IF Len(b) <= Len(c) THEN Len(b) ELSE Len(c)
            q == IF m <= n THEN m ELSE n
<1>1. k \in Nat /\ l \in Nat /\ h \in Nat
  BY LenProperties DEF Stacks
<1>a. m \in Nat /\ n \in Nat /\ m <= k /\ m <= l /\ n <= l /\ n <= h
  BY DEF Agree
<1>b. (\A j \in 1 .. m : s[j] = t[j]) /\ (\A j \in 1 .. n : t[j] = u[j])
  BY DEF Agree
<1>c. /\ \A i \in 1 .. k : s[i] \in Names
      /\ \A i \in 1 .. l : t[i] \in Names
      /\ \A i \in 1 .. h : u[i] \in Names
  BY ElementOfSeq DEF Stacks
<1>2. /\ a = [i \in 1 .. k - m |-> s[k + 1 - i]]
      /\ b = [i \in 1 .. l - m |-> t[m + i]]
      /\ c = [i \in 1 .. l - n |-> t[l + 1 - i]]
      /\ d = [i \in 1 .. h - n |-> u[n + i]]
  BY DEF Effect
<1>4. FollowedBy(x, y) =
        IF \E i \in 1 .. p : b[Len(b) + 1 - i] # c[i] THEN Mismatch
        ELSE [closes |-> a \o SubSeq(c, p + 1, Len(c)), opens |-> SubSeq(b, 1, Len(b) - p) \o d]
  BY DEF FollowedBy
<1>d. Effect(s, q, u) = [closes |-> [i \in 1 .. k - q |-> s[k + 1 - i]],
                         opens  |-> [i \in 1 .. h - q |-> u[q + i]]]
  BY DEF Effect
<1>. HIDE DEF x, y, a, b, c, d, k, l, h
<1>3. /\ a \in Seq(Names) /\ Len(a) = k - m
      /\ b \in Seq(Names) /\ Len(b) = l - m
      /\ c \in Seq(Names) /\ Len(c) = l - n
      /\ d \in Seq(Names) /\ Len(d) = h - n
  <2>0. ASSUME NEW g \in Nat, NEW z \in [1 .. g -> Names]
        PROVE  z \in Seq(Names) /\ Len(z) = g
    <3>1. z \in Seq(Names)
      BY SeqDef
    <3>. QED
      BY <3>1, LenProperties
  <2>1. a \in [1 .. k - m -> Names] /\ k - m \in Nat
    <3>1. \A i \in 1 .. k - m : k + 1 - i \in 1 .. k
      BY <1>1, <1>a
    <3>2. \A i \in 1 .. k - m : s[k + 1 - i] \in Names
      BY <1>c, <3>1
    <3>3. k - m \in Nat
      BY <1>1, <1>a
    <3>. QED
      BY <1>2, <3>2, <3>3
  <2>2. b \in [1 .. l - m -> Names] /\ l - m \in Nat
    <3>1. \A i \in 1 .. l - m : m + i \in 1 .. l
      BY <1>1, <1>a
    <3>2. \A i \in 1 .. l - m : t[m + i] \in Names
      BY <1>c, <3>1
    <3>3. l - m \in Nat
      BY <1>1, <1>a
    <3>. QED
      BY <1>2, <3>2, <3>3
  <2>3. c \in [1 .. l - n -> Names] /\ l - n \in Nat
    <3>1. \A i \in 1 .. l - n : l + 1 - i \in 1 .. l
      BY <1>1, <1>a
    <3>2. \A i \in 1 .. l - n : t[l + 1 - i] \in Names
      BY <1>c, <3>1
    <3>3. l - n \in Nat
      BY <1>1, <1>a
    <3>. QED
      BY <1>2, <3>2, <3>3
  <2>4. d \in [1 .. h - n -> Names] /\ h - n \in Nat
    <3>1. \A i \in 1 .. h - n : n + i \in 1 .. h
      BY <1>1, <1>a
    <3>2. \A i \in 1 .. h - n : u[n + i] \in Names
      BY <1>c, <3>1
    <3>3. h - n \in Nat
      BY <1>1, <1>a
    <3>. QED
      BY <1>2, <3>2, <3>3
  <2>. QED
    BY <2>0, <2>1, <2>2, <2>3, <2>4
<1>e. Len(a) = k - m /\ Len(b) = l - m /\ Len(c) = l - n /\ Len(d) = h - n
  BY <1>3
<1>5. /\ m <= n => p = l - n /\ q = m
      /\ m > n => p = l - m /\ q = n
      /\ p \in Nat /\ q \in Nat /\ p <= l - m /\ p <= l - n /\ q <= m /\ q <= n
      /\ (k - m) + ((l - n) - p) = k - q
      /\ ((l - m) - p) + (h - n) = h - q
      /\ k - q \in Nat /\ h - q \in Nat
  <2>1. CASE m <= n
    BY <1>1, <1>a, <1>e, <2>1
  <2>2. CASE m > n
    BY <1>1, <1>a, <1>e, <2>2
  <2>. QED
    BY <1>a, <2>1, <2>2
<1>. HIDE DEF p, q
<1>6. \A i \in 1 .. p : b[Len(b) + 1 - i] = c[i]
  <2>. TAKE i \in 1 .. p
  <2>. DEFINE j == Len(b) + 1 - i
  <2>1. j \in 1 .. l - m /\ i \in 1 .. l - n /\ m + j = l + 1 - i
    BY <1>1, <1>a, <1>e, <1>5
  <2>. HIDE DEF j
  <2>2. b[j] = t[m + j] /\ c[i] = t[l + 1 - i]
    BY <1>2, <2>1
  <2>3. b[j] = c[i]
    BY <2>1, <2>2
  <2>. QED
    BY <2>3 DEF j
<1>7. FollowedBy(x, y) =
        [closes |-> a \o SubSeq(c, p + 1, Len(c)), opens |-> SubSeq(b, 1, Len(b) - p) \o d]
  BY <1>4, <1>6
<1>. DEFINE e == SubSeq(c, p + 1, Len(c))
            f == SubSeq(b, 1, Len(b) - p)
            g == (l - n) - p
            r == (l - m) - p
<1>8. /\ e \in Seq(Names) /\ Len(e) = g /\ g \in Nat
      /\ \A i \in 1 .. g : e[i] = c[p + i]
  <2>1. \A i \in p + 1 .. Len(c) : c[i] \in Names
    <3>1. \A i \in p + 1 .. Len(c) : i \in 1 .. Len(c)
      BY <1>1, <1>a, <1>e, <1>5
    <3>. QED
      BY <1>3, <3>1, ElementOfSeq
  <2>2. p + 1 \in Int /\ Len(c) \in Int
    BY <1>1, <1>a, <1>e, <1>5
  <2>. DEFINE lo == p + 1
              hi == Len(c)
  <2>. HIDE DEF lo, hi
  <2>3. lo \in Int /\ hi \in Int /\ \A i \in lo .. hi : c[i] \in Names
    BY <2>1, <2>2 DEF lo, hi
  <2>4. /\ SubSeq(c, lo, hi) \in Seq(Names)
        /\ Len(SubSeq(c, lo, hi)) = IF lo <= hi THEN hi - lo + 1 ELSE 0
        /\ \A i \in 1 .. hi - lo + 1 : SubSeq(c, lo, hi)[i] = c[lo + i - 1]
    BY <2>3, SubSeqProperties
  <2>5. e = SubSeq(c, lo, hi)
    BY DEF lo, hi
  <2>. HIDE DEF e
  <2>6. /\ hi - lo + 1 = g /\ g \in Nat
        /\ (IF lo <= hi THEN hi - lo + 1 ELSE 0) = g
        /\ \A i \in 1 .. g : lo + i - 1 = p + i
    BY <1>1, <1>a, <1>e, <1>5 DEF lo, hi
  <2>. HIDE DEF g
  <2>. QED
    BY <2>4, <2>5, <2>6
<1>9. /\ f \in Seq(Names) /\ Len(f) = r /\ r \in Nat
      /\ \A i \in 1 .. r : f[i] = b[i]
  <2>. DEFINE hi == Len(b) - p
  <2>1. hi = r /\ r \in Nat /\ hi \in Int /\ \A i \in 1 .. hi : i \in 1 .. Len(b)
    BY <1>1, <1>a, <1>e, <1>5
  <2>2. f = SubSeq(b, 1, hi)
    OBVIOUS
  <2>. HIDE DEF hi
  <2>3. 1 \in Int /\ hi \in Int /\ \A i \in 1 .. hi : b[i] \in Names
    BY <1>3, <2>1, ElementOfSeq
  <2>4. /\ SubSeq(b, 1, hi) \in Seq(Names)
        /\ Len(SubSeq(b, 1, hi)) = IF 1 <= hi THEN hi - 1 + 1 ELSE 0
        /\ \A i \in 1 .. hi - 1 + 1 : SubSeq(b, 1, hi)[i] = b[1 + i - 1]
    BY <2>3, SubSeqProperties
  <2>. HIDE DEF f, r
  <2>5. /\ hi - 1 + 1 = r
        /\ (IF 1 <= hi THEN hi - 1 + 1 ELSE 0) = r
        /\ \A i \in 1 .. r : 1 + i - 1 = i
    BY <2>1
  <2>. QED
    BY <2>1, <2>2, <2>4, <2>5
<1>. HIDE DEF e, f
<1>10. a \o e = [i \in 1 .. k - q |-> s[k + 1 - i]]
  <2>0. Len(a) + Len(e) = k - q
    BY <1>e, <1>5, <1>8
  <2>1. /\ a \o e \in Seq(Names) /\ Len(a \o e) = k - q
        /\ \A i \in 1 .. k - q : (a \o e)[i] = IF i <= k - m THEN a[i] ELSE e[i - (k - m)]
    <3>1. a \in Seq(Names) /\ e \in Seq(Names) /\ Len(a) = k - m
      BY <1>3, <1>8
    <3>2. /\ a \o e \in Seq(Names) /\ Len(a \o e) = Len(a) + Len(e)
          /\ \A i \in 1 .. Len(a) + Len(e) :
               (a \o e)[i] = IF i <= Len(a) THEN a[i] ELSE e[i - Len(a)]
      BY <3>1, ConcatProperties
    <3>. QED
      BY <2>0, <3>1, <3>2
  <2>. DEFINE z == a \o e
  <2>. HIDE DEF z
  <2>2. /\ z \in Seq(Names) /\ Len(z) = k - q
        /\ \A i \in 1 .. k - q : z[i] = IF i <= k - m THEN a[i] ELSE e[i - (k - m)]
    BY <2>1 DEF z
  <2>3. ASSUME NEW i \in 1 .. k - q
        PROVE  z[i] = s[k + 1 - i]
    <3>1. CASE i <= k - m
      <4>1. z[i] = a[i]
        BY <2>2, <3>1
      <4>2. i \in 1 .. k - m
        BY <1>1, <1>a, <1>5, <3>1
      <4>. QED
        BY <1>2, <4>1, <4>2
    <3>2. CASE ~(i <= k - m)
      <4>. DEFINE j == i - (k - m)
      <4>1. ~(m <= n)
        BY <1>1, <1>a, <1>5, <3>2
      <4>2. /\ j \in 1 .. g
            /\ p + j \in 1 .. l - n
            /\ l + 1 - (p + j) = k + 1 - i
            /\ k + 1 - i \in 1 .. m
        BY <1>1, <1>a, <1>5, <3>2, <4>1
      <4>3. z[i] = e[j]
        BY <2>2, <3>2
      <4>. HIDE DEF j, g
      <4>4. e[j] = c[p + j]
        BY <1>8, <4>2
      <4>5. c[p + j] = t[l + 1 - (p + j)]
        BY <1>2, <4>2
      <4>6. t[k + 1 - i] = s[k + 1 - i]
        BY <1>b, <4>2
      <4>. QED
        BY <4>2, <4>3, <4>4, <4>5, <4>6
    <3>. QED
      BY <3>1, <3>2
  <2>4. z = [i \in 1 .. k - q |-> z[i]]
    <3>1. DOMAIN z = 1 .. k - q /\ z = [i \in DOMAIN z |-> z[i]]
      BY <2>2, LenProperties
    <3>. QED
      BY <3>1
  <2>5. z = [i \in 1 .. k - q |-> s[k + 1 - i]]
    BY <2>3, <2>4
  <2>. QED
    BY <2>5 DEF z
<1>11. f \o d = [i \in 1 .. h - q |-> u[q + i]]
  <2>0. Len(f) + Len(d) = h - q
    BY <1>e, <1>5, <1>9
  <2>1. /\ f \o d \in Seq(Names) /\ Len(f \o d) = h - q
        /\ \A i \in 1 .. h - q : (f \o d)[i] = IF i <= r THEN f[i] ELSE d[i - r]
    <3>1. f \in Seq(Names) /\ d \in Seq(Names) /\ Len(f) = r
      BY <1>3, <1>9
    <3>2. /\ f \o d \in Seq(Names) /\ Len(f \o d) = Len(f) + Len(d)
          /\ \A i \in 1 .. Len(f) + Len(d) :
               (f \o d)[i] = IF i <= Len(f) THEN f[i] ELSE d[i - Len(f)]
      BY <3>1, ConcatProperties
    <3>. QED
      BY <2>0, <3>1, <3>2
  <2>. DEFINE z == f \o d
  <2>. HIDE DEF z
  <2>2. /\ z \in Seq(Names) /\ Len(z) = h - q
        /\ \A i \in 1 .. h - q : z[i] = IF i <= r THEN f[i] ELSE d[i - r]
    BY <2>1 DEF z
  <2>3. ASSUME NEW i \in 1 .. h - q
        PROVE  z[i] = u[q + i]
    <3>1. CASE i <= r
      <4>0. m <= n
        BY <1>1, <1>a, <1>5, <3>1
      <4>1. z[i] = f[i]
        BY <2>2, <3>1
      <4>2. i \in 1 .. r /\ i \in 1 .. l - m /\ m + i \in 1 .. n
        BY <1>1, <1>a, <1>5, <3>1, <4>0
      <4>. HIDE DEF r
      <4>3. f[i] = b[i]
        BY <1>9, <4>2
      <4>5. b[i] = t[m + i]
        BY <1>2, <4>2
      <4>4. t[m + i] = u[m + i]
        BY <1>b, <4>2
      <4>. QED
        BY <1>5, <4>0, <4>1, <4>3, <4>4, <4>5
    <3>2. CASE ~(i <= r)
      <4>. DEFINE j == i - r
      <4>1. j \in 1 .. h - n /\ n + j = q + i
        <5>1. CASE m <= n
          BY <1>1, <1>a, <1>5, <3>2, <5>1
        <5>2. CASE m > n
          BY <1>1, <1>a, <1>5, <3>2, <5>2
        <5>. QED
          BY <1>a, <5>1, <5>2
      <4>2. z[i] = d[j]
        BY <2>2, <3>2
      <4>. HIDE DEF j
      <4>3. d[j] = u[n + j]
        BY <1>2, <4>1
      <4>. QED
        BY <4>1, <4>2, <4>3
    <3>. QED
      BY <3>1, <3>2
  <2>4. z = [i \in 1 .. h - q |-> z[i]]
    <3>1. DOMAIN z = 1 .. h - q /\ z = [i \in DOMAIN z |-> z[i]]
      BY <2>2, LenProperties
    <3>. QED
      BY <3>1
  <2>5. z = [i \in 1 .. h - q |-> u[q + i]]
    BY <2>3, <2>4
  <2>. QED
    BY <2>5 DEF z
<1>12. Effect(s, q, u) = [closes |-> a \o e, opens |-> f \o d]
  BY <1>d, <1>10, <1>11
<1>. QED
  BY <1>7, <1>12 DEF x, y, e, f, q

(* One tag has the effect of what it does to the stack.                    *)
LEMMA EffectOfOne ==
  ASSUME NEW tag \in Tags, NEW c \in Stacks, NEW d \in Stacks, Takes(tag, c, d)
  PROVE  \E m \in Nat : /\ m <= Len(c) /\ m <= Len(d) /\ (m = Len(c) \/ m = Len(d))
                        /\ Agree(c, d, m) /\ EffectOf(tag) = Effect(c, m, d)
<1>. DEFINE name == tag.name
<1>1. name \in Names /\ Len(c) \in Nat /\ Len(d) \in Nat
  BY LenProperties DEF Tags, Stacks
<1>2. CASE tag.opens
  <2>1. d = Append(c, name)
    BY <1>2 DEF Takes
  <2>2. EffectOf(tag) = [closes |-> <<>>, opens |-> <<name>>]
    BY <1>2 DEF EffectOf, Neutral
  <2>. HIDE DEF name
  <2>3. Len(d) = Len(c) + 1 /\ d[Len(c) + 1] = name /\ \A i \in 1 .. Len(c) : d[i] = c[i]
    BY <1>1, <2>1, AppendProperties DEF Stacks
  <2>. DEFINE k == Len(c)
              l == Len(d)
  <2>4. Effect(c, k, d) = [closes |-> [i \in 1 .. k - k |-> c[k + 1 - i]],
                           opens  |-> [i \in 1 .. l - k |-> d[k + i]]]
    BY DEF Effect
  <2>5. k \in Nat /\ l \in Nat /\ l = k + 1 /\ d[k + 1] = name
    BY <1>1, <2>3
  <2>6. Agree(c, d, k)
    BY <2>3, <2>5 DEF Agree
  <2>. HIDE DEF k, l
  <2>7. [i \in 1 .. k - k |-> c[k + 1 - i]] = <<>>
    <3>1. k - k = 0
      BY <2>5
    <3>. QED
      BY <3>1
  <2>8. [i \in 1 .. l - k |-> d[k + i]] = <<name>>
    <3>1. l - k = 1
      BY <2>5
    <3>2. \A i \in 1 .. 1 : d[k + i] = <<name>>[i]
      BY <2>5
    <3>3. [i \in 1 .. 1 |-> <<name>>[i]] = <<name>>
      OBVIOUS
    <3>. QED
      BY <3>1, <3>2, <3>3
  <2>9. EffectOf(tag) = Effect(c, k, d)
    BY <2>2, <2>4, <2>7, <2>8
  <2>. QED
    BY <2>5, <2>6, <2>9 DEF k, l
<1>3. CASE ~tag.opens
  <2>1. c = Append(d, name)
    BY <1>3 DEF Takes
  <2>2. EffectOf(tag) = [closes |-> <<name>>, opens |-> <<>>]
    BY <1>3 DEF EffectOf, Neutral
  <2>. HIDE DEF name
  <2>3. Len(c) = Len(d) + 1 /\ c[Len(d) + 1] = name /\ \A i \in 1 .. Len(d) : c[i] = d[i]
    BY <1>1, <2>1, AppendProperties DEF Stacks
  <2>. DEFINE k == Len(c)
              l == Len(d)
  <2>4. Effect(c, l, d) = [closes |-> [i \in 1 .. k - l |-> c[k + 1 - i]],
                           opens  |-> [i \in 1 .. l - l |-> d[l + i]]]
    BY DEF Effect
  <2>5. k \in Nat /\ l \in Nat /\ k = l + 1 /\ c[l + 1] = name
    BY <1>1, <2>3
  <2>6. Agree(c, d, l)
    BY <2>3, <2>5 DEF Agree
  <2>. HIDE DEF k, l
  <2>7. [i \in 1 .. l - l |-> d[l + i]] = <<>>
    <3>1. l - l = 0
      BY <2>5
    <3>. QED
      BY <3>1
  <2>8. [i \in 1 .. k - l |-> c[k + 1 - i]] = <<name>>
    <3>1. k - l = 1
      BY <2>5
    <3>2. \A i \in 1 .. 1 : c[k + 1 - i] = <<name>>[i]
      <4>1. \A i \in 1 .. 1 : k + 1 - i = l + 1 /\ i = 1
        BY <2>5
      <4>. QED
        BY <2>5, <4>1
    <3>3. [i \in 1 .. 1 |-> <<name>>[i]] = <<name>>
      OBVIOUS
    <3>. QED
      BY <3>1, <3>2, <3>3
  <2>9. EffectOf(tag) = Effect(c, l, d)
    BY <2>2, <2>4, <2>7, <2>8
  <2>. QED
    BY <2>5, <2>6, <2>9 DEF k, l
<1>. QED
  BY <1>2, <1>3

(* m is the least number of elements that are open at a place between      *)
(* the tags from lo to hi, and they are the same ones at both ends.        *)
Lowest(st, lo, hi, m) ==
  /\ \A k \in lo .. hi + 1 : m <= Len(st[k])
  /\ \E k \in lo .. hi + 1 : m = Len(st[k])
  /\ Agree(st[lo], st[hi + 1], m)

(* That number.                                                            *)
Low(st, lo, hi) == CHOOSE m : Lowest(st, lo, hi, m)

(* Of two stretches it is the lesser of the two numbers, ...               *)
LEMMA LowestJoined ==
  ASSUME NEW n \in Nat, NEW st \in [1 .. n + 1 -> Stacks],
         NEW lo \in 1 .. n, NEW hi \in 1 .. n, NEW mid \in lo .. hi - 1, NEW p, NEW q,
         Lowest(st, lo, mid, p), Lowest(st, mid + 1, hi, q)
  PROVE  Lowest(st, lo, hi, IF p <= q THEN p ELSE q)
<1>. DEFINE r == IF p <= q THEN p ELSE q
<1>1. p \in Nat /\ q \in Nat
  BY DEF Lowest, Agree
<1>2. r \in Nat /\ r <= p /\ r <= q /\ (r = p \/ r = q)
  BY <1>1
<1>. HIDE DEF r
<1>3. \A k \in lo .. hi + 1 : k \in lo .. mid + 1 \/ k \in mid + 1 .. hi + 1
  OBVIOUS
<1>4. \A k \in lo .. hi + 1 : Len(st[k]) \in Nat
  <2>1. \A k \in lo .. hi + 1 : k \in 1 .. n + 1
    OBVIOUS
  <2>. QED
    BY <2>1, LenProperties DEF Stacks
<1>5. ASSUME NEW k \in lo .. hi + 1
      PROVE  r <= Len(st[k])
  <2>1. Len(st[k]) \in Nat
    BY <1>4
  <2>2. p <= Len(st[k]) \/ q <= Len(st[k])
    BY <1>3 DEF Lowest
  <2>. QED
    BY <1>1, <1>2, <2>1, <2>2
<1>6. \E k \in lo .. hi + 1 : r = Len(st[k])
  <2>1. PICK i \in lo .. mid + 1 : p = Len(st[i])
    BY DEF Lowest
  <2>2. PICK j \in mid + 1 .. hi + 1 : q = Len(st[j])
    BY DEF Lowest
  <2>3. i \in lo .. hi + 1 /\ j \in lo .. hi + 1
    OBVIOUS
  <2>. QED
    BY <1>2, <2>1, <2>2, <2>3
<1>7. Agree(st[lo], st[hi + 1], r)
  <2>1. Agree(st[lo], st[mid + 1], p) /\ Agree(st[mid + 1], st[hi + 1], q)
    BY DEF Lowest
  <2>2. r <= Len(st[lo]) /\ r <= Len(st[hi + 1])
    BY <1>5
  <2>3. \A j \in 1 .. r : j \in 1 .. p /\ j \in 1 .. q
    BY <1>1, <1>2
  <2>. QED
    BY <1>2, <2>1, <2>2, <2>3 DEF Agree
<1>8. Lowest(st, lo, hi, r)
  BY <1>5, <1>6, <1>7 DEF Lowest
<1>. QED
  BY <1>8 DEF r

(* ... and there is only one.                                              *)
LEMMA LowestOne ==
  ASSUME NEW st, NEW lo, NEW hi, NEW p, NEW q, Lowest(st, lo, hi, p), Lowest(st, lo, hi, q)
  PROVE  p = q
<1>1. p \in Nat /\ q \in Nat
  BY DEF Lowest, Agree
<1>2. p <= q /\ q <= p
  BY DEF Lowest
<1>. QED
  BY <1>1, <1>2

(* Each stretch has one.                                                   *)
LEMMA LowIsLowest ==
  ASSUME NEW s, NEW st, StackOf(s, st),
         NEW lo \in 1 .. Len(s), NEW hi \in 1 .. Len(s), lo <= hi
  PROVE  Lowest(st, lo, hi, Low(st, lo, hi))
<1>. DEFINE n == Len(s)
            Bad == {d \in 0 .. n : \E a \in 1 .. n, b \in 1 .. n :
                       d = b - a /\ ~ \E m : Lowest(st, a, b, m)}
<1>0. n \in Nat /\ st \in [1 .. n + 1 -> Stacks]
  BY DEF StackOf
<1>1. SUFFICES Bad = {}
  <2>1. hi - lo \in 0 .. n /\ lo \in 1 .. n /\ hi \in 1 .. n
    BY <1>0
  <2>2. \E m : Lowest(st, lo, hi, m)
    <3>. HIDE DEF n
    <3>. QED
      BY <1>1, <2>1
  <2>. QED
    BY <2>2 DEF Low
<1>2. SUFFICES ASSUME Bad # {}
               PROVE  FALSE
  OBVIOUS
<1>3. PICK d \in Bad : \A e \in Bad : d <= e
  <2>. Bad \in SUBSET (0 .. n)
    OBVIOUS
  <2>. HIDE DEF Bad, n
  <2>. QED
    BY <1>0, <1>2, LeastNatural
<1>4. PICK a \in 1 .. n, b \in 1 .. n : d = b - a /\ ~ \E m : Lowest(st, a, b, m)
  OBVIOUS
<1>5. CASE a = b
  <2>1. s[a] \in Tags /\ st[a] \in Stacks /\ st[a + 1] \in Stacks /\ Takes(s[a], st[a], st[a + 1])
    <3>1. a \in 1 .. n + 1 /\ a + 1 \in 1 .. n + 1
      BY <1>0
    <3>. QED
      BY <1>0, <3>1, ElementOfSeq DEF StackOf
  <2>. DEFINE c == st[a]
              e == st[a + 1]
  <2>2. PICK m \in Nat : m <= Len(c) /\ m <= Len(e) /\ (m = Len(c) \/ m = Len(e)) /\ Agree(c, e, m)
    <3>. HIDE DEF c, e
    <3>. QED
      BY <2>1, EffectOfOne DEF c, e
  <2>3. \A k \in a .. b + 1 : k = a \/ k = a + 1
    BY <1>5
  <2>4. a \in a .. b + 1 /\ a + 1 \in a .. b + 1 /\ b + 1 = a + 1
    BY <1>5
  <2>. HIDE DEF n
  <2>5. Lowest(st, a, b, m)
    BY <2>2, <2>3, <2>4 DEF Lowest
  <2>. QED
    BY <1>4, <2>5
<1>6. CASE a # b
  <2>1. d \in 0 .. n
    OBVIOUS
  <2>2. /\ 0 \in 0 .. n /\ 0 < d /\ a = a - 0 + 0
        /\ b - 1 \in 1 .. n /\ (b - 1) - a = d - 1 /\ d - 1 \in 0 .. n /\ d - 1 < d
        /\ b - b = 0 /\ a \in 1 .. n /\ b - 1 \in a .. b - 1 /\ (b - 1) + 1 = b
    BY <1>0, <1>4, <1>6, <2>1
  <2>3. d - 1 \notin Bad /\ 0 \notin Bad
    <3>. HIDE DEF Bad
    <3>. QED
      BY <1>3, <2>2, <2>1
  <2>4. PICK p : Lowest(st, a, b - 1, p)
    BY <2>2, <2>3
  <2>5. PICK q : Lowest(st, b, b, q)
    BY <2>2, <2>3
  <2>6. Lowest(st, (b - 1) + 1, b, q)
    BY <2>2, <2>5
  <2>. DEFINE mid == b - 1
  <2>. HIDE DEF mid, Bad, n
  <2>7. mid \in a .. b - 1 /\ Lowest(st, a, mid, p) /\ Lowest(st, mid + 1, b, q)
    BY <2>2, <2>4, <2>6 DEF mid
  <2>8. \E m : Lowest(st, a, b, m)
    BY <1>0, <2>7, LowestJoined
  <2>. QED
    BY <1>4, <2>8
<1>. QED
  BY <1>5, <1>6

(* The table of effects that WellFormed computes.                          *)
IsEffects(f, s) ==
  f = [p \in (1 .. Len(s)) \X (1 .. Len(s)) |->
        IF p[1] = p[2] THEN EffectOf(s[p[1]])
        ELSE LET middle == (p[1] + p[2]) \div 2
             IN FollowedBy(f[<<p[1], middle>>], f[<<middle + 1, p[2]>>])]

(* The one that WellFormed uses.                                           *)
Effects(s) == CHOOSE f : IsEffects(f, s)

(* WellFormed asks for the effect of what is between the first and the     *)
(* last tag.                                                               *)
LEMMA WellFormedIsEffects ==
  ASSUME NEW s
  PROVE  WellFormed(s) <=> /\ Len(s) > 2
                           /\ Head(s).opens /\ ~Last(s).opens /\ Head(s).name = Last(s).name
                           /\ Effects(s)[<<2, Len(s) - 1>>] = Neutral
BY DEF WellFormed, Effects, IsEffects

(* Where the halves of a stretch meet.                                     *)
LEMMA Middle ==
  ASSUME NEW n \in Nat, NEW lo \in 1 .. n, NEW hi \in 1 .. n, lo # hi
  PROVE  LET middle == (lo + hi) \div 2
         IN /\ middle \in 1 .. n /\ middle + 1 \in 1 .. n
            /\ lo < hi => lo <= middle /\ middle < hi
            /\ hi < lo => hi <= middle /\ middle < lo
<1>. DEFINE m == (lo + hi) \div 2
<1>1. m \in Int /\ 2 * m <= lo + hi /\ lo + hi < 2 * m + 2
  OBVIOUS
<1>. HIDE DEF m
<1>2. /\ m \in 1 .. n /\ m + 1 \in 1 .. n
      /\ lo < hi => lo <= m /\ m < hi
      /\ hi < lo => hi <= m /\ m < lo
  BY <1>1
<1>. QED
  BY <1>2 DEF m

(* What the stretches do to the stack is such a table, with nothing for    *)
(* those that are empty.                                                   *)
StackEffect(st, lo, hi) ==
  IF lo <= hi THEN Effect(st[lo], Low(st, lo, hi), st[hi + 1]) ELSE Neutral

(* The effect of a stretch on the stack is that of its parts, wherever it   *)
(* is divided, ...                                                         *)
LEMMA StackEffectJoined ==
  ASSUME NEW s, NEW st, StackOf(s, st),
         NEW lo \in 1 .. Len(s), NEW hi \in 1 .. Len(s), lo < hi,
         NEW mid \in lo .. hi - 1
  PROVE  StackEffect(st, lo, hi) =
           FollowedBy(StackEffect(st, lo, mid), StackEffect(st, mid + 1, hi))
<1>. DEFINE n == Len(s)
            p == Low(st, lo, mid)
            q == Low(st, mid + 1, hi)
            r == Low(st, lo, hi)
<1>1. n \in Nat /\ st \in [1 .. n + 1 -> Stacks]
  BY DEF StackOf
<1>2. /\ mid \in 1 .. n /\ mid + 1 \in 1 .. n /\ lo <= mid /\ mid + 1 <= hi /\ lo <= hi
      /\ lo \in 1 .. n + 1 /\ mid + 1 \in 1 .. n + 1 /\ hi + 1 \in 1 .. n + 1
  BY <1>1
<1>3. Lowest(st, lo, mid, p) /\ Lowest(st, mid + 1, hi, q) /\ Lowest(st, lo, hi, r)
  BY <1>2, LowIsLowest
<1>. HIDE DEF p, q, r, n
<1>4. Lowest(st, lo, hi, IF p <= q THEN p ELSE q)
  <2>1. lo \in 1 .. n /\ hi \in 1 .. n
    BY DEF n
  <2>. QED
    BY <1>1, <1>3, <2>1, LowestJoined
<1>5. r = IF p <= q THEN p ELSE q
  BY <1>3, <1>4, LowestOne
<1>. DEFINE a == st[lo]
            b == st[mid + 1]
            c == st[hi + 1]
<1>6. a \in Stacks /\ b \in Stacks /\ c \in Stacks
  BY <1>1, <1>2
<1>7. Agree(a, b, p) /\ Agree(b, c, q)
  BY <1>3 DEF Lowest
<1>8. /\ StackEffect(st, lo, mid) = Effect(a, p, b)
      /\ StackEffect(st, mid + 1, hi) = Effect(b, q, c)
      /\ StackEffect(st, lo, hi) = Effect(a, r, c)
  BY <1>2 DEF StackEffect, p, q, r
<1>. HIDE DEF a, b, c
<1>9. FollowedBy(Effect(a, p, b), Effect(b, q, c)) = Effect(a, IF p <= q THEN p ELSE q, c)
  BY <1>6, <1>7, EffectsJoin
<1>. QED
  BY <1>5, <1>8, <1>9

(* ... down to single tags, ...                                            *)
LEMMA StackEffectOne ==
  ASSUME NEW s, NEW st, StackOf(s, st), NEW k \in 1 .. Len(s)
  PROVE  StackEffect(st, k, k) = EffectOf(s[k])
<1>. DEFINE n == Len(s)
            c == st[k]
            d == st[k + 1]
            m == Low(st, k, k)
<1>1. n \in Nat /\ st \in [1 .. n + 1 -> Stacks] /\ k \in 1 .. n + 1 /\ k + 1 \in 1 .. n + 1
  BY DEF StackOf
<1>2. c \in Stacks /\ d \in Stacks /\ s[k] \in Tags /\ Takes(s[k], c, d)
  BY <1>1, ElementOfSeq DEF StackOf
<1>3. PICK p \in Nat : /\ p <= Len(c) /\ p <= Len(d) /\ (p = Len(c) \/ p = Len(d))
                       /\ Agree(c, d, p) /\ EffectOf(s[k]) = Effect(c, p, d)
  <2>. HIDE DEF c, d
  <2>. QED
    BY <1>2, EffectOfOne
<1>4. Lowest(st, k, k, p)
  <2>1. \A i \in k .. k + 1 : i = k \/ i = k + 1
    OBVIOUS
  <2>2. k \in k .. k + 1 /\ k + 1 \in k .. k + 1
    OBVIOUS
  <2>. QED
    BY <1>3, <2>1, <2>2 DEF Lowest
<1>5. Lowest(st, k, k, m)
  BY LowIsLowest
<1>6. m = p
  <2>. HIDE DEF m
  <2>. QED
    BY <1>4, <1>5, LowestOne
<1>. QED
  BY <1>3, <1>6 DEF StackEffect

(* ... so that there is a table as WellFormed computes it.                 *)
LEMMA EffectsExist ==
  ASSUME NEW s, NEW st, StackOf(s, st)
  PROVE  IsEffects(Effects(s), s)
<1>. DEFINE n == Len(s)
            f == [p \in (1 .. n) \X (1 .. n) |-> StackEffect(st, p[1], p[2])]
            body(lo, hi) == IF lo = hi THEN EffectOf(s[lo])
                            ELSE LET middle == (lo + hi) \div 2
                                 IN FollowedBy(f[<<lo, middle>>], f[<<middle + 1, hi>>])
<1>1. n \in Nat
  BY DEF StackOf
<1>2. FollowedBy(Neutral, Neutral) = Neutral
  <2>1. Len(<<>>) = 0 /\ SubSeq(<<>>, 1, 0) = <<>> /\ <<>> \o <<>> = <<>>
    OBVIOUS
  <2>2. Neutral.closes = <<>> /\ Neutral.opens = <<>>
    BY DEF Neutral
  <2>. QED
    BY <2>1, <2>2 DEF FollowedBy, Neutral
<1>3. ASSUME NEW lo \in 1 .. n, NEW hi \in 1 .. n
      PROVE  StackEffect(st, lo, hi) = body(lo, hi)
  <2>1. CASE lo = hi
    BY <2>1, StackEffectOne
  <2>2. CASE lo # hi
    <3>. DEFINE m == (lo + hi) \div 2
    <3>1. /\ m \in 1 .. n /\ m + 1 \in 1 .. n
          /\ lo < hi => lo <= m /\ m < hi
          /\ hi < lo => hi <= m /\ m < lo
      BY <1>1, <2>2, Middle
    <3>2. body(lo, hi) = FollowedBy(f[<<lo, m>>], f[<<m + 1, hi>>])
      BY <2>2
    <3>. HIDE DEF m, body
    <3>3. f[<<lo, m>>] = StackEffect(st, lo, m) /\ f[<<m + 1, hi>>] = StackEffect(st, m + 1, hi)
      BY <3>1
    <3>. HIDE DEF f
    <3>4. CASE lo < hi
      <4>1. m \in lo .. hi - 1
        BY <3>1, <3>4
      <4>2. StackEffect(st, lo, hi) = FollowedBy(StackEffect(st, lo, m), StackEffect(st, m + 1, hi))
        BY <3>4, <4>1, StackEffectJoined
      <4>. QED
        BY <3>2, <3>3, <4>2
    <3>5. CASE hi < lo
      <4>1. StackEffect(st, lo, hi) = Neutral
        BY <3>5 DEF StackEffect
      <4>2. StackEffect(st, lo, m) = Neutral /\ StackEffect(st, m + 1, hi) = Neutral
        <5>1. ~(lo <= m) /\ ~(m + 1 <= hi)
          BY <3>1, <3>5
        <5>. QED
          BY <5>1 DEF StackEffect
      <4>. QED
        BY <1>2, <3>2, <3>3, <4>1, <4>2
    <3>. QED
      BY <2>2, <3>4, <3>5
  <2>. QED
    BY <2>1, <2>2
<1>4. f = [p \in (1 .. n) \X (1 .. n) |-> body(p[1], p[2])]
  <2>. HIDE DEF body
  <2>. QED
    BY <1>3
<1>. HIDE DEF f
<1>5. IsEffects(f, s)
  BY <1>4 DEF IsEffects
<1>. QED
  BY <1>5 DEF Effects

(* What WellFormed computes is what a stretch does to the stack.           *)
LEMMA EffectsAreStackEffects ==
  ASSUME NEW s, NEW st, StackOf(s, st),
         NEW lo \in 1 .. Len(s), NEW hi \in 1 .. Len(s), lo <= hi
  PROVE  Effects(s)[<<lo, hi>>] = StackEffect(st, lo, hi)
<1>. DEFINE n == Len(s)
            f == Effects(s)
            Bad == {d \in 0 .. n : \E a \in 1 .. n, b \in 1 .. n :
                       d = b - a /\ f[<<a, b>>] # StackEffect(st, a, b)}
<1>1. n \in Nat
  BY DEF StackOf
<1>2. \A a, b \in 1 .. n :
        f[<<a, b>>] = IF a = b THEN EffectOf(s[a])
                  ELSE LET middle == (a + b) \div 2
                       IN FollowedBy(f[<<a, middle>>], f[<<middle + 1, b>>])
  <2>1. IsEffects(f, s)
    BY EffectsExist
  <2>. HIDE DEF f
  <2>. QED
    BY <2>1 DEF IsEffects
<1>. HIDE DEF f
<1>3. SUFFICES Bad = {}
  <2>1. hi - lo \in 0 .. n /\ lo \in 1 .. n /\ hi \in 1 .. n
    BY <1>1
  <2>2. f[<<lo, hi>>] = StackEffect(st, lo, hi)
    <3>. HIDE DEF n
    <3>. QED
      BY <1>3, <2>1
  <2>. QED
    BY <2>2 DEF f
<1>4. SUFFICES ASSUME Bad # {}
               PROVE  FALSE
  OBVIOUS
<1>5. PICK d \in Bad : \A e \in Bad : d <= e
  <2>. Bad \in SUBSET (0 .. n)
    OBVIOUS
  <2>. HIDE DEF Bad, n
  <2>. QED
    BY <1>1, <1>4, LeastNatural
<1>6. PICK a \in 1 .. n, b \in 1 .. n : d = b - a /\ f[<<a, b>>] # StackEffect(st, a, b)
  OBVIOUS
<1>7. CASE a = b
  <2>1. f[<<a, a>>] = EffectOf(s[a])
    BY <1>2
  <2>2. StackEffect(st, a, a) = EffectOf(s[a])
    BY StackEffectOne
  <2>. QED
    BY <1>6, <1>7, <2>1, <2>2
<1>8. CASE a # b
  <2>0. d \in 0 .. n
    OBVIOUS
  <2>1. a < b
    BY <1>1, <1>6, <1>8, <2>0
  <2>. DEFINE m == (a + b) \div 2
  <2>2. m \in 1 .. n /\ m + 1 \in 1 .. n /\ a <= m /\ m < b
    BY <1>1, <1>8, <2>1, Middle
  <2>3. f[<<a, b>>] = FollowedBy(f[<<a, m>>], f[<<m + 1, b>>])
    BY <1>2, <1>8
  <2>. HIDE DEF m
  <2>4. /\ m - a \in 0 .. n /\ m - a < d /\ b - (m + 1) \in 0 .. n /\ b - (m + 1) < d
        /\ m \in a .. b - 1
    BY <1>1, <1>6, <2>1, <2>2
  <2>5. m - a \notin Bad /\ b - (m + 1) \notin Bad
    <3>. HIDE DEF Bad
    <3>. QED
      BY <1>5, <2>0, <2>4
  <2>6. f[<<a, m>>] = StackEffect(st, a, m) /\ f[<<m + 1, b>>] = StackEffect(st, m + 1, b)
    BY <2>2, <2>4, <2>5
  <2>7. StackEffect(st, a, b) = FollowedBy(StackEffect(st, a, m), StackEffect(st, m + 1, b))
    <3>. HIDE DEF Bad
    <3>. QED
      BY <2>1, <2>4, StackEffectJoined
  <2>. QED
    BY <1>6, <2>3, <2>6, <2>7
<1>. QED
  BY <1>7, <1>8

(* The tags take the stack from a to b, and some element is open all the   *)
(* time between.                                                           *)
Path(s, a, b) ==
  \E st : /\ StackOf(s, st) /\ st[1] = a /\ st[Len(s) + 1] = b
          /\ \A k \in 2 .. Len(s) : Len(st[k]) >= 1

(* Such tags from nothing to nothing are one element.                      *)
THEOREM PathIsElement ==
  ASSUME NEW s, Path(s, <<>>, <<>>), Len(s) > 2
  PROVE  WellFormed(s)
<1>. DEFINE n == Len(s)
<1>1. PICK st : /\ StackOf(s, st) /\ st[1] = <<>> /\ st[n + 1] = <<>>
                /\ \A k \in 2 .. n : Len(st[k]) >= 1
  BY DEF Path
<1>2. s \in Seq(Tags) /\ n \in Nat /\ n > 2 /\ st \in [1 .. n + 1 -> Stacks]
  BY <1>1 DEF StackOf
<1>3. /\ 1 \in 1 .. n /\ 2 \in 1 .. n /\ n \in 1 .. n /\ n - 1 \in 1 .. n /\ 2 <= n - 1
      /\ 1 \in 1 .. n + 1 /\ 2 \in 1 .. n + 1 /\ n \in 1 .. n + 1 /\ n + 1 \in 1 .. n + 1
      /\ n - 1 + 1 = n /\ 1 + 1 = 2 /\ 2 \in 2 .. n /\ n \in 2 .. n /\ 2 \in 2 .. n - 1 + 1
  BY <1>2
<1>. DEFINE a == st[2]
            b == st[n]
            x == s[1]
            y == s[n]
<1>4. a \in Stacks /\ b \in Stacks /\ Len(a) >= 1 /\ Len(b) >= 1 /\ x \in Tags /\ y \in Tags
  BY <1>1, <1>2, <1>3, ElementOfSeq
<1>5. Takes(x, <<>>, a) /\ Takes(y, b, <<>>)
  BY <1>1, <1>3 DEF StackOf
<1>6. Head(s) = x /\ Last(s) = y
  BY <1>2 DEF Last
<1>. DEFINE m == Low(st, 2, n - 1)
<1>7. Lowest(st, 2, n - 1, m)
  BY <1>1, <1>3, LowIsLowest
<1>8. Effects(s)[<<2, n - 1>>] = Effect(a, m, b)
  BY <1>1, <1>3, EffectsAreStackEffects DEF StackEffect
<1>. HIDE DEF n, a, b, x, y, m
<1>9. /\ x.opens /\ x.name \in Names /\ Len(a) = 1 /\ a[1] = x.name
      /\ ~y.opens /\ y.name \in Names /\ Len(b) = 1 /\ b[1] = y.name
  <2>1. x.name \in Names /\ y.name \in Names
    BY <1>4 DEF Tags
  <2>. DEFINE v == x.name
              w == y.name
  <2>. HIDE DEF v, w
  <2>2. v \in Names /\ w \in Names
    BY <2>1 DEF v, w
  <2>3. \A t \in Stacks, z \in Names :
          /\ Len(Append(t, z)) = Len(t) + 1 /\ Append(t, z)[Len(t) + 1] = z
          /\ Len(t) \in Nat
    BY AppendProperties, LenProperties DEF Stacks
  <2>4. <<>> \in Stacks /\ Len(<<>>) = 0
    BY DEF Stacks
  <2>5. Len(Append(<<>>, v)) = 1 /\ Append(<<>>, v)[1] = v
    BY <2>2, <2>3, <2>4
  <2>6. Len(Append(<<>>, w)) = 1 /\ Append(<<>>, w)[1] = w
    BY <2>2, <2>3, <2>4
  <2>7. /\ x.opens => a = Append(<<>>, v)
        /\ ~x.opens => <<>> = Append(a, v)
        /\ y.opens => <<>> = Append(b, w)
        /\ ~y.opens => b = Append(<<>>, w)
    BY <1>5 DEF Takes, v, w
  <2>8. x.opens
    BY <1>4, <2>2, <2>3, <2>4, <2>7
  <2>9. ~y.opens
    BY <1>4, <2>2, <2>3, <2>4, <2>7
  <2>. QED
    BY <2>1, <2>5, <2>6, <2>7, <2>8, <2>9 DEF v, w
<1>10. m = 1 /\ Agree(a, b, m)
  <2>1. Agree(a, b, m) /\ m \in Nat /\ m <= Len(a)
    BY <1>3, <1>7 DEF Lowest, Agree, a, b
  <2>2. PICK k \in 2 .. n - 1 + 1 : m = Len(st[k])
    BY <1>7 DEF Lowest
  <2>3. k \in 2 .. n
    BY <1>3, <2>2
  <2>4. m >= 1
    BY <1>1, <2>2, <2>3 DEF n
  <2>. QED
    BY <1>9, <2>1, <2>4
<1>11. a[1] = b[1]
  BY <1>10 DEF Agree
<1>12. Effect(a, m, b) = Neutral
  <2>1. Effect(a, 1, b) = [closes |-> [i \in 1 .. 1 - 1 |-> a[1 + 1 - i]],
                           opens  |-> [i \in 1 .. 1 - 1 |-> b[1 + i]]]
    BY <1>9 DEF Effect
  <2>2. [i \in 1 .. 1 - 1 |-> a[1 + 1 - i]] = <<>> /\ [i \in 1 .. 1 - 1 |-> b[1 + i]] = <<>>
    OBVIOUS
  <2>. QED
    BY <1>10, <2>1, <2>2 DEF Neutral
<1>13. Effects(s)[<<2, n - 1>>] = Neutral
  BY <1>8, <1>12
<1>14. n > 2 /\ Head(s).opens /\ ~Last(s).opens /\ Head(s).name = Last(s).name
  BY <1>2, <1>6, <1>9, <1>11
<1>. QED
  BY <1>13, <1>14, WellFormedIsEffects DEF n

(* Two paths are one, if an element is open where they meet.               *)
LEMMA PathsJoin ==
  ASSUME NEW s, NEW t, NEW a, NEW b, NEW c, Path(s, a, b), Path(t, b, c), Len(b) >= 1
  PROVE  /\ Path(s \o t, a, c)
         /\ Len(s \o t) = Len(s) + Len(t)
<1>. DEFINE m == Len(s)
            n == Len(t)
            z == s \o t
<1>1. PICK u : /\ StackOf(s, u) /\ u[1] = a /\ u[m + 1] = b
               /\ \A k \in 2 .. m : Len(u[k]) >= 1
  BY DEF Path
<1>2. PICK v : /\ StackOf(t, v) /\ v[1] = b /\ v[n + 1] = c
               /\ \A k \in 2 .. n : Len(v[k]) >= 1
  BY DEF Path
<1>3. /\ s \in Seq(Tags) /\ m \in Nat /\ u \in [1 .. m + 1 -> Stacks]
      /\ t \in Seq(Tags) /\ n \in Nat /\ v \in [1 .. n + 1 -> Stacks]
      /\ \A k \in 1 .. m : Takes(s[k], u[k], u[k + 1])
      /\ \A k \in 1 .. n : Takes(t[k], v[k], v[k + 1])
  BY <1>1, <1>2 DEF StackOf
<1>4. /\ z \in Seq(Tags) /\ Len(z) = m + n
      /\ \A i \in 1 .. m + n : z[i] = IF i <= m THEN s[i] ELSE t[i - m]
  BY <1>3, ConcatProperties
<1>. DEFINE w == [k \in 1 .. m + n + 1 |-> IF k <= m THEN u[k] ELSE v[k - m]]
<1>. HIDE DEF m, n, z
<1>5. w \in [1 .. Len(z) + 1 -> Stacks] /\ Len(z) \in Nat
  <2>1. ASSUME NEW k \in 1 .. m + n + 1
        PROVE  (IF k <= m THEN u[k] ELSE v[k - m]) \in Stacks
    <3>1. CASE k <= m
      <4>1. k \in 1 .. m + 1
        BY <1>3, <3>1
      <4>. QED
        BY <1>3, <3>1, <4>1
    <3>2. CASE ~(k <= m)
      <4>1. k - m \in 1 .. n + 1
        BY <1>3, <3>2
      <4>. QED
        BY <1>3, <3>2, <4>1
    <3>. QED
      BY <3>1, <3>2
  <2>2. w \in [1 .. m + n + 1 -> Stacks]
    BY <2>1
  <2>. HIDE DEF w
  <2>. QED
    BY <1>3, <1>4, <2>2
<1>6. /\ \A k \in 1 .. m + 1 : w[k] = u[k]
      /\ \A k \in 1 .. n + 1 : w[m + k] = v[k]
  <2>1. ASSUME NEW k \in 1 .. m + 1
        PROVE  w[k] = u[k]
    <3>1. CASE k <= m
      BY <1>3, <3>1
    <3>2. CASE ~(k <= m)
      <4>1. k = m + 1 /\ k - m = 1 /\ k \in 1 .. m + n + 1
        BY <1>3, <3>2
      <4>2. w[k] = v[k - m]
        BY <3>2, <4>1
      <4>. HIDE DEF w
      <4>. QED
        BY <1>1, <1>2, <4>1, <4>2 DEF m
    <3>. QED
      BY <3>1, <3>2
  <2>2. ASSUME NEW k \in 1 .. n + 1
        PROVE  w[m + k] = v[k]
    <3>. DEFINE i == m + k
    <3>1. i \in 1 .. m + n + 1 /\ ~(i <= m) /\ i - m = k
      BY <1>3
    <3>. HIDE DEF i
    <3>2. w[i] = v[i - m]
      BY <3>1
    <3>3. w[i] = v[k]
      <4>. HIDE DEF w
      <4>. QED
        BY <3>1, <3>2
    <3>. QED
      BY <3>3 DEF i
  <2>. QED
    BY <2>1, <2>2
<1>. HIDE DEF w
<1>7. ASSUME NEW k \in 1 .. m + n
      PROVE  Takes(z[k], w[k], w[k + 1])
  <2>1. CASE k <= m
    <3>1. k \in 1 .. m /\ k \in 1 .. m + 1 /\ k + 1 \in 1 .. m + 1
      BY <1>3, <2>1
    <3>2. z[k] = s[k] /\ w[k] = u[k] /\ w[k + 1] = u[k + 1]
      BY <1>4, <1>6, <2>1, <3>1
    <3>. QED
      BY <1>3, <3>1, <3>2
  <2>2. CASE ~(k <= m)
    <3>. DEFINE j == k - m
    <3>1. j \in 1 .. n /\ j \in 1 .. n + 1 /\ j + 1 \in 1 .. n + 1 /\ k = m + j /\ k + 1 = m + (j + 1)
      BY <1>3, <2>2
    <3>2. z[k] = t[j]
      BY <1>4, <2>2
    <3>. HIDE DEF j
    <3>3. w[k] = v[j] /\ w[k + 1] = v[j + 1]
      BY <1>6, <3>1
    <3>. QED
      BY <1>3, <3>1, <3>2, <3>3
  <2>. QED
    BY <2>1, <2>2
<1>8. w[1] = a /\ w[Len(z) + 1] = c
  <2>1. 1 \in 1 .. m + 1 /\ n + 1 \in 1 .. n + 1 /\ Len(z) + 1 = m + (n + 1)
    BY <1>3, <1>4
  <2>. QED
    BY <1>1, <1>2, <1>6, <2>1 DEF n
<1>9. ASSUME NEW k \in 2 .. m + n
      PROVE  Len(w[k]) >= 1
  <2>1. CASE k <= m
    <3>1. k \in 2 .. m /\ k \in 1 .. m + 1
      BY <1>3, <2>1
    <3>. QED
      BY <1>1, <1>6, <3>1 DEF m
  <2>2. CASE ~(k <= m)
    <3>. DEFINE j == k - m
    <3>1. j \in 1 .. n + 1 /\ k = m + j /\ (j = 1 \/ j \in 2 .. n)
      BY <1>3, <2>2
    <3>. HIDE DEF j
    <3>2. w[k] = v[j]
      BY <1>6, <3>1
    <3>. QED
      BY <1>2, <3>1, <3>2 DEF n
  <2>. QED
    BY <2>1, <2>2
<1>10. StackOf(z, w)
  BY <1>4, <1>5, <1>7 DEF StackOf
<1>11. Path(z, a, c)
  BY <1>4, <1>8, <1>9, <1>10 DEF Path
<1>. QED
  BY <1>4, <1>11 DEF z, m, n

(* No tags, ...                                                            *)
LEMMA NoTags ==
  ASSUME NEW a \in Stacks
  PROVE  Path(<<>>, a, a) /\ Len(<<>>) = 0
<1>. DEFINE st == [k \in 1 .. 1 |-> a]
<1>1. /\ <<>> \in Seq(Tags) /\ Len(<<>>) = 0
      /\ st \in [1 .. 0 + 1 -> Stacks] /\ st[1] = a /\ st[0 + 1] = a
  OBVIOUS
<1>. HIDE DEF st
<1>2. StackOf(<<>>, st)
  BY <1>1 DEF StackOf
<1>. QED
  BY <1>1, <1>2 DEF Path

(* ... one tag, ...                                                        *)
LEMMA OneTag ==
  ASSUME NEW tag \in Tags, NEW a \in Stacks, NEW b \in Stacks, Takes(tag, a, b)
  PROVE  Path(<<tag>>, a, b) /\ Len(<<tag>>) = 1
<1>. DEFINE st == [k \in 1 .. 2 |-> IF k = 1 THEN a ELSE b]
            s == <<tag>>
<1>1. s \in Seq(Tags) /\ Len(s) = 1 /\ s[1] = tag
  OBVIOUS
<1>2. st \in [1 .. 1 + 1 -> Stacks] /\ st[1] = a /\ st[1 + 1] = b
  OBVIOUS
<1>. HIDE DEF st, s
<1>3. StackOf(s, st)
  BY <1>1, <1>2 DEF StackOf
<1>. QED
  BY <1>1, <1>2, <1>3 DEF Path, s

(* What is open in an element that starts where a is open.                 *)
Within(a, name) == Append(a, name)

(* The first tag of an element leads into it, ...                          *)
LEMMA OpenOne ==
  ASSUME NEW a \in Stacks, NEW name \in Names
  PROVE  Path(<<Open(name)>>, a, Within(a, name)) /\ Len(<<Open(name)>>) = 1
<1>1. Open(name) \in Tags /\ Takes(Open(name), a, Within(a, name)) /\ Within(a, name) \in Stacks
  BY AppendProperties DEF Open, Tags, Takes, Within, Stacks
<1>. QED
  BY <1>1, OneTag

(* ... and the last one out of it.                                         *)
LEMMA CloseOne ==
  ASSUME NEW a \in Stacks, NEW name \in Names
  PROVE  Path(<<Close(name)>>, Within(a, name), a) /\ Len(<<Close(name)>>) = 1
<1>1. Close(name) \in Tags /\ Takes(Close(name), Within(a, name), a) /\ Within(a, name) \in Stacks
  BY AppendProperties DEF Close, Tags, Takes, Within, Stacks
<1>. QED
  BY <1>1, OneTag

(* A stack within an element is one, on which something is open.           *)
LEMMA WithinStack ==
  ASSUME NEW a \in Stacks, NEW name \in Names
  PROVE  Within(a, name) \in Stacks /\ Len(Within(a, name)) >= 1
<1>1. Within(a, name) \in Stacks /\ Len(Within(a, name)) = Len(a) + 1 /\ Len(a) \in Nat
  BY AppendProperties, LenProperties DEF Within, Stacks
<1>. DEFINE k == Len(a)
            l == Len(Within(a, name))
<1>2. k \in Nat /\ l = k + 1
  BY <1>1
<1>. HIDE DEF k, l
<1>3. l >= 1
  BY <1>2
<1>. QED
  BY <1>1, <1>3 DEF l

(* ... and what one call of ipmprintf prints.                              *)
LEMMA WholePath ==
  ASSUME NEW a \in Stacks, NEW name \in Names
  PROVE  Path(Whole(name), a, a) /\ Len(Whole(name)) = 2
<1>. DEFINE b == Within(a, name)
            s == <<Open(name), Close(name)>>
            st == [k \in 1 .. 3 |-> IF k = 2 THEN b ELSE a]
<1>1. b \in Stacks /\ Len(b) >= 1
  BY WithinStack
<1>2. Takes(Open(name), a, b) /\ Takes(Close(name), b, a)
  BY DEF Takes, Open, Close, Within
<1>3. s \in Seq(Tags) /\ Len(s) = 2 /\ s[1] = Open(name) /\ s[2] = Close(name)
  BY DEF Open, Close, Tags
<1>. HIDE DEF b, s
<1>4. st \in [1 .. 2 + 1 -> Stacks] /\ st[1] = a /\ st[2] = b /\ st[3] = a
  BY <1>1
<1>. HIDE DEF st
<1>5. StackOf(s, st)
  <2>1. ASSUME NEW k \in 1 .. 2
        PROVE  Takes(s[k], st[k], st[k + 1])
    <3>1. (k = 1 /\ k + 1 = 2) \/ (k = 2 /\ k + 1 = 3)
      OBVIOUS
    <3>. QED
      BY <1>2, <1>3, <1>4, <3>1
  <2>2. Len(s) + 1 = 2 + 1 /\ Len(s) \in Nat /\ 1 .. Len(s) = 1 .. 2
    BY <1>3
  <2>. QED
    BY <1>3, <1>4, <2>1, <2>2 DEF StackOf
<1>6. Path(s, a, a)
  <2>1. \A k \in 2 .. 2 : k = 2
    OBVIOUS
  <2>. QED
    BY <1>1, <1>3, <1>4, <1>5, <2>1 DEF Path
<1>. QED
  BY <1>3, <1>6 DEF s, Whole

(* Any number of elements with nothing in them leave the stack as it was   *)
(* (the loops over variables, calls, counters and entries).                *)
LEMMA ForEachPath ==
  ASSUME NEW a \in Stacks, Len(a) >= 1, NEW name \in Names, NEW S, IsFiniteSet(S)
  PROVE  Path(WholeForEach(name, S), a, a) /\ Len(WholeForEach(name, S)) \in Nat
<1>. DEFINE n == 2 * Cardinality(S)
            s == WholeForEach(name, S)
            b == Within(a, name)
            st == [k \in 1 .. n + 1 |-> IF k % 2 = 1 THEN a ELSE b]
<1>1. Cardinality(S) \in Nat
  BY FS_CardinalityType
<1>2. n \in Nat /\ (n + 1) % 2 = 1 /\ 1 % 2 = 1
  BY <1>1
<1>3. b \in Stacks /\ Len(b) >= 1
  BY WithinStack
<1>4. Open(name) \in Tags /\ Close(name) \in Tags
  BY DEF Open, Close, Tags
<1>5. Takes(Open(name), a, b) /\ Takes(Close(name), b, a)
  BY DEF Takes, Open, Close, Within
<1>6. s = [k \in 1 .. n |-> IF k % 2 = 1 THEN Open(name) ELSE Close(name)]
  BY DEF WholeForEach
<1>. HIDE DEF n, s, b
<1>7. s \in Seq(Tags) /\ Len(s) = n /\ \A k \in 1 .. n : s[k] = IF k % 2 = 1 THEN Open(name) ELSE Close(name)
  <2>1. s \in [1 .. n -> Tags]
    BY <1>4, <1>6
  <2>2. s \in Seq(Tags)
    BY <1>2, <2>1, SeqDef
  <2>3. Len(s) = n
    BY <1>2, <2>1, <2>2, LenProperties
  <2>4. \A k \in 1 .. n : s[k] = IF k % 2 = 1 THEN Open(name) ELSE Close(name)
    BY <1>6
  <2>. QED
    BY <2>2, <2>3, <2>4
<1>8. st \in [1 .. n + 1 -> Stacks] /\ \A k \in 1 .. n + 1 : st[k] = IF k % 2 = 1 THEN a ELSE b
  BY <1>3
<1>. HIDE DEF st
<1>9. ASSUME NEW k \in 1 .. n
      PROVE  Takes(s[k], st[k], st[k + 1])
  <2>1. k \in 1 .. n + 1 /\ k + 1 \in 1 .. n + 1
    BY <1>2
  <2>2. k % 2 = 1 => (k + 1) % 2 # 1
    BY <1>2
  <2>3. k % 2 # 1 => (k + 1) % 2 = 1
    BY <1>2
  <2>. QED
    BY <1>5, <1>7, <1>8, <2>1, <2>2, <2>3
<1>10. st[1] = a /\ st[n + 1] = a
  <2>1. 1 \in 1 .. n + 1 /\ n + 1 \in 1 .. n + 1
    BY <1>2
  <2>. QED
    BY <1>2, <1>8, <2>1
<1>11. \A k \in 2 .. n : Len(st[k]) >= 1
  <2>1. \A k \in 2 .. n : k \in 1 .. n + 1
    BY <1>2
  <2>. QED
    BY <1>3, <1>8, <2>1
<1>12. StackOf(s, st)
  BY <1>2, <1>7, <1>8, <1>9 DEF StackOf
<1>13. Path(s, a, a)
  BY <1>7, <1>10, <1>11, <1>12 DEF Path
<1>. QED
  BY <1>2, <1>7, <1>13 DEF s
-----------------------------------------------------------------------------
(* The concatenations that FlattenSeq makes, up to the m-th.               *)
IsFlatten(f, g, m) == f = [i \in 1 .. m |-> IF i = 1 THEN g[i] ELSE f[i - 1] \o g[i]]

(* The ones that FlattenSeq uses.                                          *)
Flatten(g, m) == CHOOSE f : IsFlatten(f, g, m)

(* FlattenSeq returns the last of them.                                    *)
LEMMA FlattenIs ==
  ASSUME NEW g, Len(g) # 0
  PROVE  FlattenSeq(g) = Flatten(g, Len(g))[Len(g)]
BY DEF FlattenSeq, Flatten, IsFlatten

(* There are such concatenations, for every length.                        *)
LEMMA FlattenExists ==
  ASSUME NEW g, NEW n \in Nat
  PROVE  IsFlatten(Flatten(g, n), g, n)
<1>. DEFINE Bad == {m \in 0 .. n : ~ \E f : IsFlatten(f, g, m)}
<1>1. SUFFICES Bad = {}
  <2>1. \E f : IsFlatten(f, g, n)
    BY <1>1
  <2>. QED
    BY <2>1 DEF Flatten
<1>2. SUFFICES ASSUME Bad # {}
               PROVE  FALSE
  OBVIOUS
<1>3. PICK m \in Bad : \A j \in Bad : m <= j
  <2>. Bad \in SUBSET (0 .. n)
    OBVIOUS
  <2>. HIDE DEF Bad
  <2>. QED
    BY <1>2, LeastNatural
<1>4. m \in 0 .. n
  OBVIOUS
<1>5. CASE m = 0
  <2>. DEFINE f == [i \in 1 .. 0 |-> g[i]]
  <2>1. IsFlatten(f, g, 0)
    BY DEF IsFlatten
  <2>. QED
    BY <1>5, <2>1
<1>6. CASE m # 0
  <2>1. m - 1 \in 0 .. n /\ m - 1 < m
    BY <1>4, <1>6
  <2>2. m - 1 \notin Bad
    <3>. HIDE DEF Bad
    <3>. QED
      BY <1>3, <1>4, <2>1
  <2>3. PICK f : IsFlatten(f, g, m - 1)
    BY <2>1, <2>2
  <2>. DEFINE h == [i \in 1 .. m |-> IF i = 1 THEN g[i] ELSE f[i - 1] \o g[i]]
  <2>4. \A i \in 1 .. m - 1 : h[i] = f[i]
    <3>1. \A i \in 1 .. m - 1 : f[i] = IF i = 1 THEN g[i] ELSE f[i - 1] \o g[i]
      BY <2>3 DEF IsFlatten
    <3>2. \A i \in 1 .. m - 1 : i \in 1 .. m
      BY <1>4
    <3>. QED
      BY <3>1, <3>2
  <2>5. \A i \in 1 .. m : i # 1 => f[i - 1] = h[i - 1]
    <3>1. \A i \in 1 .. m : i # 1 => i - 1 \in 1 .. m - 1
      BY <1>4
    <3>. HIDE DEF h
    <3>. QED
      BY <2>4, <3>1
  <2>6. h = [i \in 1 .. m |-> IF i = 1 THEN g[i] ELSE h[i - 1] \o g[i]]
    BY <2>5
  <2>. HIDE DEF h
  <2>7. IsFlatten(h, g, m)
    BY <2>6 DEF IsFlatten
  <2>. QED
    BY <2>7
<1>. QED
  BY <1>5, <1>6

(* Paths that follow each other are one, if an element is open between     *)
(* any two.                                                                *)
LEMMA FlattenPath ==
  ASSUME NEW n \in Nat, n # 0, NEW g, Len(g) = n, NEW e \in [0 .. n -> Stacks],
         \A i \in 1 .. n : Path(g[i], e[i - 1], e[i]),
         \A i \in 1 .. n - 1 : Len(e[i]) >= 1
  PROVE  Path(FlattenSeq(g), e[0], e[n]) /\ Len(FlattenSeq(g)) >= Len(g[1])
<1>. DEFINE f == Flatten(g, n)
            Bad == {m \in 0 .. n : m # 0 /\ ~(Path(f[m], e[0], e[m]) /\ Len(f[m]) >= Len(g[1]))}
<1>1. \A i \in 1 .. n : f[i] = IF i = 1 THEN g[i] ELSE f[i - 1] \o g[i]
  <2>1. IsFlatten(f, g, n)
    BY FlattenExists
  <2>. HIDE DEF f
  <2>. QED
    BY <2>1 DEF IsFlatten
<1>2. FlattenSeq(g) = f[n]
  BY FlattenIs
<1>. HIDE DEF f
<1>3. \A i \in 1 .. n : Len(g[i]) \in Nat
  BY DEF Path, StackOf
<1>4. SUFFICES Bad = {}
  BY <1>2
<1>5. SUFFICES ASSUME Bad # {}
               PROVE  FALSE
  OBVIOUS
<1>6. PICK m \in Bad : \A j \in Bad : m <= j
  <2>. Bad \in SUBSET (0 .. n)
    OBVIOUS
  <2>. HIDE DEF Bad
  <2>. QED
    BY <1>5, LeastNatural
<1>7. m \in 1 .. n /\ 1 \in 1 .. n /\ ~(Path(f[m], e[0], e[m]) /\ Len(f[m]) >= Len(g[1]))
  OBVIOUS
<1>8. CASE m = 1
  <2>1. f[1] = g[1] /\ Path(g[1], e[1 - 1], e[1]) /\ 1 - 1 = 0
    BY <1>1, <1>7
  <2>. HIDE DEF Bad
  <2>. QED
    BY <1>3, <1>7, <1>8, <2>1
<1>9. CASE m # 1
  <2>. DEFINE k == m - 1
  <2>1. k \in 1 .. n - 1 /\ k \in 0 .. n /\ k # 0 /\ k < m /\ k \in 1 .. n
    BY <1>7, <1>9
  <2>2. f[m] = f[k] \o g[m] /\ Path(g[m], e[k], e[m]) /\ Len(e[k]) >= 1
    BY <1>1, <1>7, <1>9, <2>1
  <2>. HIDE DEF k
  <2>3. k \notin Bad
    <3>. HIDE DEF Bad
    <3>. QED
      BY <1>6, <1>7, <2>1
  <2>4. Path(f[k], e[0], e[k]) /\ Len(f[k]) >= Len(g[1])
    BY <2>1, <2>3
  <2>. HIDE DEF Bad
  <2>5. Path(f[k] \o g[m], e[0], e[m]) /\ Len(f[k] \o g[m]) = Len(f[k]) + Len(g[m])
    BY <2>2, <2>4, PathsJoin
  <2>6. Len(f[k]) \in Nat
    BY <2>4 DEF Path, StackOf
  <2>. QED
    BY <1>3, <1>7, <2>2, <2>4, <2>5, <2>6
<1>. QED
  BY <1>8, <1>9
-----------------------------------------------------------------------------
(* What a task has to print is finite.                                     *)
IsProfile(p) ==
  /\ IsFiniteSet(p.variables) /\ IsFiniteSet(p.reduced)
  /\ IsFiniteSet(p.counters) /\ IsFiniteSet(p.keys)
  /\ Len(p.called) \in Nat /\ DOMAIN p.called = 1 .. Len(p.called)
  /\ \A i \in DOMAIN p.called : IsFiniteSet(p.called[i])

(* The parts of a section between its first and its last tag leave the     *)
(* stack as it was.                                                        *)
LEMMA ExecInfoPath ==
  ASSUME NEW a \in Stacks, Len(a) >= 1
  PROVE  Path(ExecInfo, a, a)
<1>. DEFINE exec == "exec"
            pre == "pre"
            exec_bin == "exec_bin"
<1>0. exec \in Names /\ pre \in Names /\ exec_bin \in Names
  BY DEF Names
<1>a. ExecInfo = <<Open(exec), Open(pre), Close(pre), Close(exec),
                   Open(exec_bin), Open(pre), Close(pre), Close(exec_bin)>>
  BY DEF ExecInfo
<1>. HIDE DEF exec, pre, exec_bin
<1>. DEFINE b == Within(a, exec)
            c == Within(b, pre)
            d == Within(a, exec_bin)
            e == Within(d, pre)
<1>1. /\ b \in Stacks /\ c \in Stacks /\ d \in Stacks /\ e \in Stacks
      /\ Len(b) >= 1 /\ Len(c) >= 1 /\ Len(d) >= 1 /\ Len(e) >= 1
  <2>1. b \in Stacks /\ d \in Stacks /\ Len(b) >= 1 /\ Len(d) >= 1
    BY <1>0, WithinStack
  <2>. HIDE DEF b, d
  <2>. QED
    BY <1>0, <2>1, WithinStack
<1>2. /\ Takes(Open(exec), a, b) /\ Takes(Close(exec), b, a)
      /\ Takes(Open(pre), b, c) /\ Takes(Close(pre), c, b)
      /\ Takes(Open(exec_bin), a, d) /\ Takes(Close(exec_bin), d, a)
      /\ Takes(Open(pre), d, e) /\ Takes(Close(pre), e, d)
  BY DEF Takes, Open, Close, Within
<1>3. /\ ExecInfo \in Seq(Tags) /\ Len(ExecInfo) = 8
      /\ ExecInfo[1] = Open(exec) /\ ExecInfo[2] = Open(pre)
      /\ ExecInfo[3] = Close(pre) /\ ExecInfo[4] = Close(exec)
      /\ ExecInfo[5] = Open(exec_bin) /\ ExecInfo[6] = Open(pre)
      /\ ExecInfo[7] = Close(pre) /\ ExecInfo[8] = Close(exec_bin)
  <2>1. \A name \in Names : Open(name) \in Tags /\ Close(name) \in Tags
    BY DEF Open, Close, Tags
  <2>2. /\ Open(exec) \in Tags /\ Open(pre) \in Tags /\ Close(pre) \in Tags
        /\ Close(exec) \in Tags /\ Open(exec_bin) \in Tags /\ Close(exec_bin) \in Tags
    BY <1>0, <2>1
  <2>. QED
    BY <1>a, <2>2
<1>. HIDE DEF b, c, d, e
<1>. DEFINE st == [k \in 1 .. 9 |->
                     IF k = 1 THEN a ELSE IF k = 2 THEN b ELSE IF k = 3 THEN c ELSE IF k = 4 THEN b
                     ELSE IF k = 5 THEN a ELSE IF k = 6 THEN d ELSE IF k = 7 THEN e
                     ELSE IF k = 8 THEN d ELSE a]
<1>4. /\ st \in [1 .. 8 + 1 -> Stacks]
      /\ st[1] = a /\ st[2] = b /\ st[3] = c /\ st[4] = b /\ st[5] = a
      /\ st[6] = d /\ st[7] = e /\ st[8] = d /\ st[9] = a
  BY <1>1
<1>. HIDE DEF st
<1>5. ASSUME NEW k \in 1 .. 8
      PROVE  Takes(ExecInfo[k], st[k], st[k + 1])
  <2>1. \/ (k = 1 /\ k + 1 = 2) \/ (k = 2 /\ k + 1 = 3) \/ (k = 3 /\ k + 1 = 4)
        \/ (k = 4 /\ k + 1 = 5) \/ (k = 5 /\ k + 1 = 6) \/ (k = 6 /\ k + 1 = 7)
        \/ (k = 7 /\ k + 1 = 8) \/ (k = 8 /\ k + 1 = 9)
    OBVIOUS
  <2>. QED
    BY <1>2, <1>3, <1>4, <2>1
<1>6. ASSUME NEW k \in 2 .. 8
      PROVE  Len(st[k]) >= 1
  <2>1. k = 2 \/ k = 3 \/ k = 4 \/ k = 5 \/ k = 6 \/ k = 7 \/ k = 8
    OBVIOUS
  <2>. QED
    BY <1>1, <1>4, <2>1
<1>7. StackOf(ExecInfo, st) /\ st[Len(ExecInfo) + 1] = a
  <2>1. Len(ExecInfo) + 1 = 8 + 1 /\ Len(ExecInfo) \in Nat /\ 1 .. Len(ExecInfo) = 1 .. 8 /\ 8 + 1 = 9
    BY <1>3
  <2>2. st[Len(ExecInfo) + 1] = a
    BY <1>4, <2>1
  <2>. QED
    BY <1>3, <1>4, <1>5, <2>1, <2>2 DEF StackOf
<1>. QED
  BY <1>3, <1>4, <1>6, <1>7 DEF Path

(* The head of a section opens its task, ...                               *)
LEMMA TaskHeadPath ==
  ASSUME NEW a \in Stacks
  PROVE  Path(TaskHead, a, Within(a, "task")) /\ Len(TaskHead) = 11
<1>. DEFINE taskName == "task"
            job == "job"
            host == "host"
            perf == "perf"
            switch == "switch"
            cmdline == "cmdline"
            b == Within(a, taskName)
            s1 == <<Open(taskName)>>
            s2 == s1 \o Whole(job)
            s3 == s2 \o Whole(host)
            s4 == s3 \o Whole(perf)
            s5 == s4 \o Whole(switch)
            s6 == s5 \o Whole(cmdline)
<1>1. /\ taskName \in Names /\ job \in Names /\ host \in Names /\ perf \in Names
      /\ switch \in Names /\ cmdline \in Names
  BY DEF Names
<1>a. TaskHead = s6 /\ Within(a, "task") = b
  BY DEF TaskHead
<1>. HIDE DEF taskName, job, host, perf, switch, cmdline
<1>2. b \in Stacks /\ Len(b) >= 1
  BY <1>1, WithinStack
<1>3. Path(s1, a, b) /\ Len(s1) = 1
  BY <1>1, OpenOne
<1>. HIDE DEF b, s1
<1>4. \A name \in Names : Path(Whole(name), b, b) /\ Len(Whole(name)) = 2
  BY <1>2, WholePath
<1>5. Path(s2, a, b) /\ Len(s2) = 3
  <2>. DEFINE t == Whole(job)
  <2>1. Path(t, b, b) /\ Len(t) = 2
    BY <1>1, <1>4
  <2>. HIDE DEF t
  <2>2. Path(s1 \o t, a, b) /\ Len(s1 \o t) = Len(s1) + Len(t)
    BY <1>2, <1>3, <2>1, PathsJoin
  <2>. QED
    BY <1>3, <2>1, <2>2 DEF t
<1>. HIDE DEF s2
<1>6. Path(s3, a, b) /\ Len(s3) = 5
  <2>. DEFINE t == Whole(host)
  <2>1. Path(t, b, b) /\ Len(t) = 2
    BY <1>1, <1>4
  <2>. HIDE DEF t
  <2>2. Path(s2 \o t, a, b) /\ Len(s2 \o t) = Len(s2) + Len(t)
    BY <1>2, <1>5, <2>1, PathsJoin
  <2>. QED
    BY <1>5, <2>1, <2>2 DEF t
<1>. HIDE DEF s3
<1>7. Path(s4, a, b) /\ Len(s4) = 7
  <2>. DEFINE t == Whole(perf)
  <2>1. Path(t, b, b) /\ Len(t) = 2
    BY <1>1, <1>4
  <2>. HIDE DEF t
  <2>2. Path(s3 \o t, a, b) /\ Len(s3 \o t) = Len(s3) + Len(t)
    BY <1>2, <1>6, <2>1, PathsJoin
  <2>. QED
    BY <1>6, <2>1, <2>2 DEF t
<1>. HIDE DEF s4
<1>8. Path(s5, a, b) /\ Len(s5) = 9
  <2>. DEFINE t == Whole(switch)
  <2>1. Path(t, b, b) /\ Len(t) = 2
    BY <1>1, <1>4
  <2>. HIDE DEF t
  <2>2. Path(s4 \o t, a, b) /\ Len(s4 \o t) = Len(s4) + Len(t)
    BY <1>2, <1>7, <2>1, PathsJoin
  <2>. QED
    BY <1>7, <2>1, <2>2 DEF t
<1>. HIDE DEF s5
<1>9. Path(s6, a, b) /\ Len(s6) = 11
  <2>. DEFINE t == Whole(cmdline)
  <2>1. Path(t, b, b) /\ Len(t) = 2
    BY <1>1, <1>4
  <2>. HIDE DEF t
  <2>2. Path(s5 \o t, a, b) /\ Len(s5 \o t) = Len(s5) + Len(t)
    BY <1>2, <1>8, <2>1, PathsJoin
  <2>. QED
    BY <1>8, <2>1, <2>2 DEF t
<1>. QED
  BY <1>a, <1>9

(* ... and what follows leaves it open: the resource usage, ...            *)
LEMMA RusageInfoPath ==
  ASSUME NEW a \in Stacks, Len(a) >= 1
  PROVE  Path(RusageInfo, a, a)
<1>. DEFINE s_ti == "ru_s_ti"
            s_tf == "ru_s_tf"
            c_ti == "ru_c_ti"
            c_tf == "ru_c_tf"
            s2 == Whole(s_ti) \o Whole(s_tf)
            s3 == s2 \o Whole(c_ti)
            s4 == s3 \o Whole(c_tf)
<1>1. s_ti \in Names /\ s_tf \in Names /\ c_ti \in Names /\ c_tf \in Names
  BY DEF Names
<1>a. RusageInfo = s4
  BY DEF RusageInfo
<1>. HIDE DEF s_ti, s_tf, c_ti, c_tf
<1>2. \A name \in Names : Path(Whole(name), a, a)
  BY WholePath
<1>3. Path(s2, a, a)
  BY <1>1, <1>2, PathsJoin
<1>. HIDE DEF s2
<1>4. Path(s3, a, a)
  BY <1>1, <1>2, <1>3, PathsJoin
<1>. HIDE DEF s3
<1>5. Path(s4, a, a)
  BY <1>1, <1>2, <1>4, PathsJoin
<1>. QED
  BY <1>a, <1>5

(* An element with what it contains.                                       *)
LEMMA AroundPath ==
  ASSUME NEW a \in Stacks, NEW name \in Names, NEW s, Path(s, Within(a, name), Within(a, name))
  PROVE  Path(<<Open(name)>> \o s \o <<Close(name)>>, a, a)
<1>. DEFINE b == Within(a, name)
            t == <<Open(name)>> \o s
<1>1. b \in Stacks /\ Len(b) >= 1
  BY WithinStack
<1>2. Path(<<Open(name)>>, a, b) /\ Path(<<Close(name)>>, b, a)
  BY OpenOne, CloseOne
<1>. HIDE DEF b
<1>3. Path(s, b, b)
  BY DEF b
<1>4. Path(t, a, b)
  BY <1>1, <1>2, <1>3, PathsJoin
<1>. HIDE DEF t
<1>5. Path(t \o <<Close(name)>>, a, a)
  BY <1>1, <1>2, <1>4, PathsJoin
<1>. QED
  BY <1>5 DEF t

(* ... the mask of reduced calls, ...                                      *)
LEMMA MaskInfoPath ==
  ASSUME NEW a \in Stacks, NEW S, IsFiniteSet(S)
  PROVE  Path(MaskInfo(S), a, a)
<1>. DEFINE mask == "call_mask"
            callName == "call"
            b == Within(a, mask)
<1>1. mask \in Names /\ callName \in Names
  BY DEF Names
<1>a. MaskInfo(S) = <<Open(mask)>> \o WholeForEach(callName, S) \o <<Close(mask)>>
  BY DEF MaskInfo
<1>. HIDE DEF mask, callName
<1>2. b \in Stacks /\ Len(b) >= 1
  BY <1>1, WithinStack
<1>. HIDE DEF b
<1>3. Path(WholeForEach(callName, S), b, b)
  BY <1>1, <1>2, ForEachPath
<1>. QED
  BY <1>1, <1>a, <1>3, AroundPath DEF b

(* ... the entries of the table, if they are asked for, ...                *)
LEMMA HashInfoPath ==
  ASSUME NEW a \in Stacks, NEW flags, NEW S, IsFiniteSet(S)
  PROVE  Path(HashInfo(flags, S), a, a)
<1>. DEFINE hashName == "hash"
            hent == "hent"
            b == Within(a, hashName)
            s == <<Open(hashName)>> \o WholeForEach(hent, S) \o <<Close(hashName)>>
<1>1. hashName \in Names /\ hent \in Names
  BY DEF Names
<1>a. HashInfo(flags, S) = s \/ HashInfo(flags, S) = <<>>
  BY DEF HashInfo
<1>. HIDE DEF hashName, hent
<1>2. b \in Stacks /\ Len(b) >= 1
  BY <1>1, WithinStack
<1>. HIDE DEF b
<1>3. Path(WholeForEach(hent, S), b, b)
  BY <1>1, <1>2, ForEachPath
<1>4. Path(s, a, a)
  BY <1>1, <1>3, AroundPath DEF b
<1>. QED
  BY <1>a, <1>4, NoTags

(* ... the environment, which only the first task prints, ...              *)
LEMMA EnvInfoPath ==
  ASSUME NEW a \in Stacks, Len(a) >= 1, NEW rank, NEW S, IsFiniteSet(S)
  PROVE  Path(EnvInfo(rank, S), a, a)
<1>. DEFINE env == "env"
<1>1. env \in Names
  BY DEF Names
<1>a. EnvInfo(rank, S) = WholeForEach(env, S) \/ EnvInfo(rank, S) = <<>>
  BY DEF EnvInfo
<1>. HIDE DEF env
<1>2. Path(WholeForEach(env, S), a, a)
  BY <1>1, ForEachPath
<1>. QED
  BY <1>a, <1>2, NoTags

(* ... a region with its counters and its calls, ...                       *)
LEMMA RegionInfoPath ==
  ASSUME NEW a \in Stacks, NEW flags, NEW S, IsFiniteSet(S), NEW T, IsFiniteSet(T)
  PROVE  Path(RegionInfo(flags, S, T), a, a)
<1>. DEFINE region == "region"
            hpmName == "hpm"
            func == "func"
            counter == "counter"
            b == Within(a, region)
            c == Within(b, hpmName)
            counts == IF "IPM_HPM_CANCELED" \in flags THEN <<>> ELSE WholeForEach(counter, S)
            head == <<Open(region), Open(hpmName)>>
            s2 == head \o counts
            s3 == s2 \o <<Close(hpmName)>>
            s4 == s3 \o WholeForEach(func, T)
            s5 == s4 \o <<Close(region)>>
<1>0. region \in Names /\ hpmName \in Names /\ func \in Names /\ counter \in Names
  BY DEF Names
<1>a. RegionInfo(flags, S, T) = s5
  BY DEF RegionInfo
<1>b. counts = WholeForEach(counter, S) \/ counts = <<>>
  OBVIOUS
<1>. HIDE DEF region, hpmName, func, counter, counts
<1>1. b \in Stacks /\ Len(b) >= 1
  BY <1>0, WithinStack
<1>2. c \in Stacks /\ Len(c) >= 1
  <2>. HIDE DEF b
  <2>. QED
    BY <1>0, <1>1, WithinStack
<1>3. Path(head, a, c)
  <2>. DEFINE st == [k \in 1 .. 3 |-> IF k = 1 THEN a ELSE IF k = 2 THEN b ELSE c]
  <2>1. Takes(Open(region), a, b) /\ Takes(Open(hpmName), b, c)
    BY DEF Takes, Open, Within
  <2>2. head \in Seq(Tags) /\ Len(head) = 2 /\ head[1] = Open(region) /\ head[2] = Open(hpmName)
    BY <1>0 DEF Open, Tags
  <2>. HIDE DEF head, b, c
  <2>3. st \in [1 .. 2 + 1 -> Stacks] /\ st[1] = a /\ st[2] = b /\ st[3] = c
    BY <1>1, <1>2
  <2>. HIDE DEF st
  <2>4. ASSUME NEW k \in 1 .. 2
        PROVE  Takes(head[k], st[k], st[k + 1])
    <3>1. (k = 1 /\ k + 1 = 2) \/ (k = 2 /\ k + 1 = 3)
      OBVIOUS
    <3>. QED
      BY <2>1, <2>2, <2>3, <3>1
  <2>5. Len(head) + 1 = 2 + 1 /\ Len(head) \in Nat /\ 1 .. Len(head) = 1 .. 2 /\ 2 + 1 = 3
    BY <2>2
  <2>6. StackOf(head, st)
    BY <2>2, <2>3, <2>4, <2>5 DEF StackOf
  <2>7. \A k \in 2 .. 2 : k = 2
    OBVIOUS
  <2>8. st[Len(head) + 1] = c
    BY <2>3, <2>5
  <2>. QED
    BY <1>1, <2>2, <2>3, <2>6, <2>7, <2>8 DEF Path
<1>5. Path(<<Close(hpmName)>>, c, b) /\ Path(<<Close(region)>>, b, a)
  <2>1. Path(<<Close(region)>>, b, a)
    BY <1>0, CloseOne
  <2>. HIDE DEF b
  <2>. QED
    BY <1>0, <1>1, <2>1, CloseOne
<1>. HIDE DEF b, c, head
<1>6. Path(counts, c, c)
  <2>1. Path(WholeForEach(counter, S), c, c)
    BY <1>2, <1>0, ForEachPath
  <2>. QED
    BY <1>b, <1>2, <2>1, NoTags
<1>7. Path(WholeForEach(func, T), b, b)
  BY <1>1, <1>0, ForEachPath
<1>8. Path(s2, a, c)
  BY <1>2, <1>3, <1>6, PathsJoin
<1>. HIDE DEF s2
<1>9. Path(s3, a, b)
  BY <1>2, <1>5, <1>8, PathsJoin
<1>. HIDE DEF s3
<1>10. Path(s4, a, b)
  BY <1>1, <1>7, <1>9, PathsJoin
<1>. HIDE DEF s4
<1>11. Path(s5, a, a)
  BY <1>1, <1>5, <1>10, PathsJoin
<1>. QED
  BY <1>a, <1>11

(* ... all regions, however many, ...                                      *)
LEMMA RegionsInfoPath ==
  ASSUME NEW a \in Stacks, NEW flags, NEW S, IsFiniteSet(S),
         NEW called, Len(called) \in Nat, DOMAIN called = 1 .. Len(called),
         \A i \in DOMAIN called : IsFiniteSet(called[i])
  PROVE  Path(RegionsInfo(flags, S, called), a, a)
<1>. DEFINE n == Len(called)
            g == [i \in DOMAIN called |-> RegionInfo(flags, S, called[i])]
            regions == "regions"
            b == Within(a, regions)
<1>0. regions \in Names
  BY DEF Names
<1>a. RegionsInfo(flags, S, called) = <<Open(regions)>> \o FlattenSeq(g) \o <<Close(regions)>>
  BY DEF RegionsInfo
<1>. HIDE DEF regions
<1>1. b \in Stacks /\ Len(b) >= 1
  BY <1>0, WithinStack
<1>2. \A i \in 1 .. n : Path(g[i], b, b)
  <2>. HIDE DEF b
  <2>. QED
    BY <1>1, RegionInfoPath
<1>3. DOMAIN g = 1 .. n
  OBVIOUS
<1>. HIDE DEF g, b
<1>5. Len(g) = n /\ g = [i \in 1 .. n |-> g[i]]
  <2>1. g \in [1 .. n -> {g[i] : i \in 1 .. n}]
    <3>1. g = [i \in DOMAIN g |-> g[i]]
      BY DEF g
    <3>. QED
      BY <1>3, <3>1
  <2>2. g \in Seq({g[i] : i \in 1 .. n})
    BY <2>1, SeqDef
  <2>3. DOMAIN g = 1 .. Len(g) /\ Len(g) \in Nat
    BY <2>2, LenProperties
  <2>. QED
    BY <1>3, <2>1, <2>3
<1>6. Path(FlattenSeq(g), b, b)
  <2>1. CASE n = 0
    <3>1. g = <<>>
      BY <1>5, <2>1
    <3>2. FlattenSeq(g) = <<>>
      BY <1>5, <2>1, <3>1 DEF FlattenSeq
    <3>. QED
      BY <1>1, <3>2, NoTags
  <2>2. CASE n # 0
    <3>. DEFINE e == [i \in 0 .. n |-> b]
    <3>1. e \in [0 .. n -> Stacks] /\ e[0] = b /\ e[n] = b
      BY <1>1
    <3>2. \A i \in 1 .. n : Path(g[i], e[i - 1], e[i])
      BY <1>2
    <3>3. \A i \in 1 .. n - 1 : Len(e[i]) >= 1
      BY <1>1
    <3>. HIDE DEF e, n
    <3>4. Path(FlattenSeq(g), e[0], e[n])
      BY <1>5, <2>2, <3>1, <3>2, <3>3, FlattenPath DEF n
    <3>. QED
      BY <3>1, <3>4
  <2>. QED
    BY <2>1, <2>2
<1>. QED
  BY <1>0, <1>a, <1>6, AroundPath DEF b

(* What is open between the sections.                                      *)
Job == Within(<<>>, "ipm_job_profile")

(* The first tag of the log opens the job, the last closes it.             *)
LEMMA JobStack ==
  /\ Job \in Stacks /\ Len(Job) >= 1 /\ <<>> \in Stacks
  /\ Path(<<Open("ipm_job_profile")>>, <<>>, Job)
  /\ Path(<<Close("ipm_job_profile")>>, Job, <<>>)
<1>. DEFINE name == "ipm_job_profile"
<1>1. name \in Names
  BY DEF Names
<1>2. Job = Within(<<>>, name)
  BY DEF Job
<1>3. <<>> \in Stacks
  BY DEF Stacks
<1>. HIDE DEF name
<1>4. /\ Within(<<>>, name) \in Stacks /\ Len(Within(<<>>, name)) >= 1
      /\ Path(<<Open(name)>>, <<>>, Within(<<>>, name))
      /\ Path(<<Close(name)>>, Within(<<>>, name), <<>>)
  BY <1>1, <1>3, WithinStack, OpenOne, CloseOne
<1>. QED
  BY <1>2, <1>3, <1>4 DEF name

(* ... and the footer, which closes the task, and in the last task the job. *)
LEMMA FooterPath ==
  ASSUME NEW n, NEW rank
  PROVE  Path(Footer(rank, n), Within(Job, "task"), IF rank = n - 1 THEN <<>> ELSE Job)
<1>. DEFINE taskName == "task"
            internal == "internal"
            b == Within(Job, taskName)
            last == IF rank = n - 1 THEN <<Close("ipm_job_profile")>> ELSE <<>>
            c == IF rank = n - 1 THEN <<>> ELSE Job
            s == Whole(internal) \o <<Close(taskName)>>
<1>1. taskName \in Names /\ internal \in Names
  BY DEF Names
<1>2. Footer(rank, n) = s \o last
  BY DEF Footer
<1>3. Path(last, Job, c)
  BY JobStack, NoTags
<1>. HIDE DEF taskName, internal, last
<1>4. b \in Stacks /\ Len(b) >= 1
  BY <1>1, JobStack, WithinStack
<1>5. Path(<<Close(taskName)>>, b, Job)
  BY <1>1, JobStack, CloseOne
<1>. HIDE DEF b
<1>6. Path(Whole(internal), b, b)
  BY <1>1, <1>4, WholePath
<1>7. Path(s, b, Job)
  BY <1>4, <1>5, <1>6, PathsJoin
<1>. HIDE DEF s, c
<1>8. Path(s \o last, b, c)
  BY <1>3, <1>7, JobStack, PathsJoin
<1>. QED
  BY <1>2, <1>8 DEF b, c, taskName

(* The section of task 0 opens the job, that of the last task closes it.   *)
LEMMA SectionPath ==
  ASSUME NEW n \in Nat \ {0}, NEW rank \in 0 .. n - 1, NEW p, IsProfile(p)
  PROVE  /\ Path(ipm_log_write(p, rank, n),
                 IF rank = 0 THEN <<>> ELSE Job, IF rank = n - 1 THEN <<>> ELSE Job)
         /\ Len(ipm_log_write(p, rank, n)) > 2
<1>. DEFINE a == IF rank = 0 THEN <<>> ELSE Job
            b == Within(Job, "task")
            c == IF rank = n - 1 THEN <<>> ELSE Job
            s1 == Header(rank)
            s2 == s1 \o TaskHead
            s3 == s2 \o ExecInfo
            s4 == s3 \o ExecInfo
            s5 == s4 \o EnvInfo(rank, p.variables)
            s6 == s5 \o RusageInfo
            s7 == s6 \o MaskInfo(p.reduced)
            s8 == s7 \o RegionsInfo(p.flags, p.counters, p.called)
            s9 == s8 \o HashInfo(p.flags, p.keys)
            s10 == s9 \o Footer(rank, n)
<1>1. ipm_log_write(p, rank, n) = s10
  BY DEF ipm_log_write
<1>2. b \in Stacks /\ Len(b) >= 1
  <2>. DEFINE taskName == "task"
  <2>1. taskName \in Names
    BY DEF Names
  <2>. HIDE DEF taskName
  <2>2. Within(Job, taskName) \in Stacks /\ Len(Within(Job, taskName)) >= 1
    BY <2>1, JobStack, WithinStack
  <2>. QED
    BY <2>2 DEF taskName
<1>3. Path(s1, a, Job)
  BY JobStack, NoTags DEF Header
<1>4. Path(TaskHead, Job, b) /\ Len(TaskHead) = 11
  BY JobStack, TaskHeadPath
<1>5. Path(Footer(rank, n), b, c)
  BY FooterPath
<1>. HIDE DEF a, b, c, s1
<1>6. \A s, t : Path(s, a, b) /\ Path(t, b, b) /\ Len(s) >= 11 =>
                  Path(s \o t, a, b) /\ Len(s \o t) >= 11
  <2>. TAKE s, t
  <2>1. HAVE Path(s, a, b) /\ Path(t, b, b) /\ Len(s) >= 11
  <2>2. Path(s \o t, a, b) /\ Len(s \o t) = Len(s) + Len(t)
    BY <1>2, <2>1, PathsJoin
  <2>3. Len(s) \in Nat /\ Len(t) \in Nat
    BY <2>1 DEF Path, StackOf
  <2>. QED
    BY <2>1, <2>2, <2>3
<1>7. Path(s2, a, b) /\ Len(s2) >= 11
  <2>1. Path(s2, a, b) /\ Len(s2) = Len(s1) + Len(TaskHead)
    BY <1>3, <1>4, JobStack, PathsJoin
  <2>2. Len(s1) \in Nat
    BY <1>3 DEF Path, StackOf
  <2>. QED
    BY <1>4, <2>1, <2>2
<1>. HIDE DEF s2
<1>8. Path(s3, a, b) /\ Len(s3) >= 11
  BY <1>2, <1>6, <1>7, ExecInfoPath
<1>. HIDE DEF s3
<1>9. Path(s4, a, b) /\ Len(s4) >= 11
  BY <1>2, <1>6, <1>8, ExecInfoPath
<1>. HIDE DEF s4
<1>10. Path(s5, a, b) /\ Len(s5) >= 11
  <2>1. Path(EnvInfo(rank, p.variables), b, b)
    BY <1>2, EnvInfoPath DEF IsProfile
  <2>. QED
    BY <1>6, <1>9, <2>1
<1>. HIDE DEF s5
<1>11. Path(s6, a, b) /\ Len(s6) >= 11
  BY <1>2, <1>6, <1>10, RusageInfoPath
<1>. HIDE DEF s6
<1>12. Path(s7, a, b) /\ Len(s7) >= 11
  <2>1. Path(MaskInfo(p.reduced), b, b)
    BY <1>2, MaskInfoPath DEF IsProfile
  <2>. QED
    BY <1>6, <1>11, <2>1
<1>. HIDE DEF s7
<1>13. Path(s8, a, b) /\ Len(s8) >= 11
  <2>1. Path(RegionsInfo(p.flags, p.counters, p.called), b, b)
    BY <1>2, RegionsInfoPath DEF IsProfile
  <2>. QED
    BY <1>6, <1>12, <2>1
<1>. HIDE DEF s8
<1>14. Path(s9, a, b) /\ Len(s9) >= 11
  <2>1. Path(HashInfo(p.flags, p.keys), b, b)
    BY <1>2, HashInfoPath DEF IsProfile
  <2>. QED
    BY <1>6, <1>13, <2>1
<1>. HIDE DEF s9
<1>15. Path(s10, a, c) /\ Len(s10) > 2
  <2>. DEFINE t == Footer(rank, n)
  <2>1. Path(t, b, c)
    BY <1>5
  <2>. HIDE DEF t
  <2>2. Path(s9 \o t, a, c) /\ Len(s9 \o t) = Len(s9) + Len(t)
    BY <1>2, <1>14, <2>1, PathsJoin
  <2>3. Len(s9) \in Nat /\ Len(t) \in Nat
    BY <1>14, <2>1 DEF Path, StackOf
  <2>4. Len(s9 \o t) > 2
    BY <1>14, <2>2, <2>3
  <2>. QED
    BY <2>2, <2>4 DEF t
<1>. QED
  BY <1>1, <1>15 DEF a, c

(* The log of a job of any number of tasks is one element, with all others *)
(* properly nested in it (ipm_log_write).                                  *)
THEOREM LogIsElement ==
  ASSUME NEW n \in Nat \ {0}, NEW profiles, Len(profiles) = n, DOMAIN profiles = 1 .. n,
         \A k \in 1 .. n : IsProfile(profiles[k])
  PROVE  WellFormed(WholeLog(profiles))
<1>. DEFINE g == [k \in DOMAIN profiles |-> ipm_log_write(profiles[k], k - 1, Len(profiles))]
            e == [k \in 0 .. n |-> IF k = 0 \/ k = n THEN <<>> ELSE Job]
<1>1. WholeLog(profiles) = FlattenSeq(g)
  BY DEF WholeLog
<1>2. ASSUME NEW k \in 1 .. n
      PROVE  Path(g[k], e[k - 1], e[k]) /\ Len(g[k]) > 2
  <2>. DEFINE r == k - 1
  <2>1. r \in 0 .. n - 1 /\ (r = 0 <=> k - 1 = 0) /\ (r = n - 1 <=> k = n)
        /\ k - 1 \in 0 .. n /\ k \in 0 .. n /\ k # 0 /\ k - 1 # n
    OBVIOUS
  <2>2. g[k] = ipm_log_write(profiles[k], r, n)
    OBVIOUS
  <2>3. e[k - 1] = (IF r = 0 THEN <<>> ELSE Job) /\ e[k] = (IF r = n - 1 THEN <<>> ELSE Job)
    BY <2>1
  <2>. HIDE DEF r, g, e
  <2>4. /\ Path(ipm_log_write(profiles[k], r, n),
                IF r = 0 THEN <<>> ELSE Job, IF r = n - 1 THEN <<>> ELSE Job)
        /\ Len(ipm_log_write(profiles[k], r, n)) > 2
    BY <2>1, SectionPath
  <2>. QED
    BY <2>2, <2>3, <2>4
<1>3. e \in [0 .. n -> Stacks] /\ e[0] = <<>> /\ e[n] = <<>>
  BY JobStack
<1>4. \A k \in 1 .. n - 1 : Len(e[k]) >= 1
  BY JobStack
<1>5. DOMAIN g = 1 .. n
  OBVIOUS
<1>6. Len(g) = n
  <2>1. g \in [1 .. n -> {g[i] : i \in 1 .. n}]
    <3>1. g = [i \in DOMAIN g |-> g[i]]
      OBVIOUS
    <3>. HIDE DEF g
    <3>. QED
      BY <1>5, <3>1
  <2>. HIDE DEF g
  <2>2. g \in Seq({g[i] : i \in 1 .. n})
    BY <2>1, SeqDef
  <2>3. DOMAIN g = 1 .. Len(g) /\ Len(g) \in Nat
    BY <2>2, LenProperties
  <2>. QED
    BY <1>5, <2>1, <2>3
<1>. HIDE DEF g, e
<1>7. Path(FlattenSeq(g), e[0], e[n]) /\ Len(FlattenSeq(g)) >= Len(g[1])
  BY <1>2, <1>3, <1>4, <1>6, FlattenPath
<1>8. Len(FlattenSeq(g)) > 2
  <2>1. 1 \in 1 .. n
    OBVIOUS
  <2>2. Len(g[1]) > 2 /\ Len(g[1]) \in Nat
    BY <1>2, <2>1 DEF Path, StackOf
  <2>3. Len(FlattenSeq(g)) \in Nat
    BY <1>7 DEF Path, StackOf
  <2>. QED
    BY <1>7, <2>2, <2>3
<1>. QED
  BY <1>1, <1>3, <1>7, <1>8, PathIsElement
-----------------------------------------------------------------------------
(***************************************************************************)
(* The time accounting, as in IpmRegion.                                   *)
(***************************************************************************)

(* The program has crashed or was killed: nothing happens any more.        *)
Ended == pc \in {"crash", "killed"}

(* What a step of the task is to IpmRegion: a step of it, or the last one, *)
(* which leaves the accounting as it is or is in the middle of a wrapper.  *)
LEMMA TaskStepRegion ==
  ASSUME TaskNext, RegionInv
  PROVE  \/ [Next]_vars /\ ~Ended'
         \/ /\ Ended'
            /\ reg' = reg \/ (pc = "call" /\ reg' = LeaveRegions(reg))
<1>1. pc \notin {"crash", "killed"}
  BY DEF RegionInv
<1>2. CASE TaskTick
  BY <1>1, <1>2 DEF TaskTick, Tick, Next, Ended
<1>3. CASE AlarmRings
  BY <1>1, <1>3 DEF AlarmRings, vars, Ended
<1>4. CASE TaskMpiInit
  BY <1>4 DEF TaskMpiInit, MpiInit, Next, Ended
<1>5. CASE InitWithoutArguments
  BY <1>5 DEF InitWithoutArguments, Ended
<1>6. CASE TraceMallocFails
  BY <1>6 DEF TraceMallocFails, Ended
<1>7. ASSUME NEW c \in Calls, TaskBeginCall(c)
      PROVE  [Next]_vars /\ ~Ended'
  BY <1>7 DEF TaskBeginCall, BeginCall, Next, Ended
<1>8. CASE TaskEndCall
  BY <1>8 DEF TaskEndCall, EndCall, Next, Ended
<1>9. CASE TraceWithoutBuffer
  BY <1>9 DEF TraceWithoutBuffer, ipm_mpi_checkpoint, Ended
<1>10. CASE SnapshotNotOpened
  BY <1>10 DEF SnapshotNotOpened, Ended
<1>11. CASE KilledInSnapshot
  BY <1>11 DEF KilledInSnapshot, Ended
<1>12. ASSUME NEW l \in Labels, TaskEnter(l) \/ TaskEnterTooMany(l) \/ TaskExit(l)
       PROVE  [Next]_vars /\ ~Ended'
  <2>1. Enter(l) \/ EnterTooMany(l) \/ Exit(l)
    BY <1>12 DEF TaskEnter, TaskEnterTooMany, TaskExit
  <2>2. pc = "app" /\ pc' \in {pc, "exit"}
    BY <2>1 DEF Enter, EnterTooMany, Exit, AppSwitches
  <2>. QED
    BY <2>1, <2>2 DEF Next, Ended
<1>13. CASE TaskFinalize
  BY <1>13 DEF TaskFinalize, Finalize, Next, Ended
<1>. QED
  BY <1>2, <1>3, <1>4, <1>5, <1>6, <1>7, <1>8, <1>9, <1>10, <1>11, <1>12, <1>13 DEF TaskNext

(* A program that has ended takes no step.                                 *)
LEMMA EndedStays ==
  ASSUME TaskNext
  PROVE  ~Ended
BY DEF TaskNext, TaskTick, Tick, AlarmRings, TaskMpiInit, MpiInit, InitWithoutArguments,
       TraceMallocFails, TaskBeginCall, BeginCall, TaskEndCall, EndCall, TraceWithoutBuffer,
       SnapshotNotOpened, KilledInSnapshot, TaskEnter, TaskEnterTooMany, TaskExit, Enter,
       EnterTooMany, Exit, AppSwitches, TaskFinalize, Finalize, Ended

(* The invariant of the accounting holds until the program ends, and then  *)
(* at least the sum of the times is right.                                 *)
Accounted ==
  /\ ~Ended => RegionInv /\ ChargedInv
  /\ AllTimeCharged

(* The accounting is right when ipm_init has returned ...                  *)
LEMMA AccountedInit ==
  ASSUME TaskInit
  PROVE  Accounted
<1>1. RegionInv /\ ChargedInv
  BY RegionInvInit, ChargedInit DEF TaskInit
<1>. QED
  BY <1>1 DEF Accounted, ChargedInv

(* ... and stays so, also in the step in which the program ends.           *)
LEMMA AccountedStep ==
  ASSUME KnownExits, Accounted, [TaskNext]_taskVars
  PROVE  Accounted'
<1>1. CASE TaskNext
  <2>1. RegionInv /\ ChargedInv
    BY <1>1, EndedStays DEF Accounted
  <2>2. CASE [Next]_vars /\ ~Ended'
    <3>1. RegionInv' /\ ChargedInv'
      BY <2>1, <2>2, RegionInvStep, ChargedStep
    <3>. QED
      BY <3>1 DEF Accounted, ChargedInv
  <2>3. CASE Ended' /\ reg' = reg
    BY <2>1, <2>3 DEF Accounted, ChargedInv, AllTimeCharged
  <2>4. CASE Ended' /\ pc = "call" /\ reg' = LeaveRegions(reg)
    <3>1. pc # "init" /\ pc' # "init"
      BY <2>4 DEF Ended
    <3>2. ChargedInv'
      BY <2>1, <2>4, <3>1, ChargedLeave
    <3>. QED
      BY <2>4, <3>2 DEF Accounted, ChargedInv
  <2>. QED
    BY <1>1, <2>1, <2>2, <2>3, <2>4, TaskStepRegion
<1>2. CASE UNCHANGED taskVars
  <2>1. UNCHANGED vars
    BY <1>2 DEF taskVars
  <2>2. CASE Ended
    BY <2>1, <2>2 DEF Accounted, Ended, AllTimeCharged, vars
  <2>3. CASE ~Ended
    <3>1. RegionInv' /\ ChargedInv'
      BY <2>1, <2>3, RegionInvStep, ChargedStep DEF Accounted
    <3>. QED
      BY <3>1 DEF Accounted, ChargedInv
  <2>. QED
    BY <2>2, <2>3
<1>. QED
  BY <1>1, <1>2

(* The times of all regions add up, whatever the environment asks for and  *)
(* wherever the program crashes or is killed.                              *)
THEOREM TaskTimeCharged ==
  ASSUME KnownExits
  PROVE  TaskSpec => []AllTimeCharged
<1>1. Accounted => AllTimeCharged
  BY DEF Accounted
<1>. QED
  BY <1>1, AccountedInit, AccountedStep, PTL DEF TaskSpec
-----------------------------------------------------------------------------
(***************************************************************************)
(* The options of a task.                                                  *)
(***************************************************************************)

TaskFields ==
  {"flags", "call_mask", "hpm_eventset", "log_dir", "log_fname", "trc_region", "trc_time",
   "trc_count_max"}

(* What every variable of the environment leaves true of the options: the *)
(* counters are not both active and canceled.                              *)
Sound(t) ==
  /\ DOMAIN t = TaskFields
  /\ t.flags \subseteq Flags
  /\ t.call_mask \in [Calls -> SUBSET {"TRACE", "PASS", "NOOP"}]
  /\ "IPM_HPM_ACTIVE" \in t.flags => "IPM_HPM_CANCELED" \notin t.flags
  /\ t.trc_count_max \in Nat
  /\ t.trc_time \in [init : Int, final : Int]
  /\ t.trc_time.init >= 0 => t.trc_time.final >= 0
-----------------------------------------------------------------------------
(***************************************************************************)
(* The hardware counters.                                                  *)
(***************************************************************************)

(* Tracing that is turned on or off leaves the other options alone.        *)
FlagsKept(t, u) ==
  u.flags \ {"IPM_TRC_ACTIVE"} = t.flags \ {"IPM_TRC_ACTIVE"}

OthersKept(t, u) ==
  /\ DOMAIN u = TaskFields
  /\ FlagsKept(t, u)
  /\ u.call_mask = t.call_mask
  /\ u.log_dir = t.log_dir
  /\ u.trc_count_max = t.trc_count_max
  /\ u.trc_time = t.trc_time
  /\ u.trc_region = t.trc_region

(* The regions of IPM_MPI_TRACE only turn tracing on ...                   *)
LEMMA TraceAtRegionKeeps ==
  ASSUME NEW t, Sound(t), NEW r
  PROVE  Sound(TraceAtRegion(t, r)) /\ OthersKept(t, TraceAtRegion(t, r))
BY DEF Sound, TaskFields, TraceAtRegion, OthersKept, FlagsKept, Flags

(* ... also when the regions are left for a snapshot or at the end.        *)
LEMMA TraceAtLeaveKeeps ==
  ASSUME NEW t, Sound(t)
  PROVE  Sound(TraceAtLeave(t)) /\ OthersKept(t, TraceAtLeave(t))
<1>. DEFINE u == TraceAtRegion(t, ipm_region(reg, 1, NoRegion))
<1>1. Sound(u) /\ OthersKept(t, u)
  BY TraceAtRegionKeeps
<1>. HIDE DEF u
<1>2. Sound(TraceAtRegion(u, LeaveRegions(reg))) /\ OthersKept(u, TraceAtRegion(u, LeaveRegions(reg)))
  BY <1>1, TraceAtRegionKeeps
<1>. QED
  BY <1>1, <1>2 DEF TraceAtLeave, OthersKept, FlagsKept, u

(* When the counters run, what they have counted for the regions is the    *)
(* time the regions are charged, and the period that has not ended began   *)
(* for both at the same time.                                              *)
CountersFollow ==
  /\ hpm.state = "running" /\ hpm.since \in Nat
  /\ hpm.region_init = reg.region_wtime_init - hpm.since
  /\ \A i \in Indices \ {0} : hpm.hpm_count[i] = reg.region_wtime[i]
  /\ hpm.hpm_count[0] = reg.region_wtime[0] - (hpm.since - stamp_init)

NothingCounted == \A i \in Indices : hpm.hpm_count[i] = 0

Counters ==
  /\ DOMAIN hpm = {"state", "since", "region_init", "hpm_count"}
  /\ DOMAIN hpm.hpm_count = Indices
  /\ pc # "init" /\ "IPM_HPM_ACTIVE" \in task.flags =>
       IF pc = "done" THEN HpmFollowsWall ELSE CountersFollow
  /\ pc = "init" \/ "IPM_HPM_ACTIVE" \notin task.flags => NothingCounted

HpmInv ==
  /\ Sound(task)
  /\ ~Ended => /\ RegionInv
               /\ Counters
               /\ pc = "init" => reg.region_wtime_init = stamp_init

(* An entry or exit charges the counters and the time to the same region.  *)
LEMMA CountersSwitch ==
  ASSUME RegionInv, Counters, pc \in {"app", "call"}, pc' \in {"app", "call", "exit"},
         Sound(task), NEW io, NEW tag, reg' = ipm_region(reg, io, tag),
         hpm' = CountersAtRegion(hpm, task.flags, reg.region_current),
         FlagsKept(task, task')
  PROVE  Counters'
<1>1. /\ now \in Nat /\ reg.region_wtime_init \in Nat
      /\ reg.region_wtime \in Times /\ Indices \subseteq Nat
  BY RegionAssumption DEF RegionInv, Stamps, RegOK, RegType, Indices
<1>. DEFINE active == "IPM_HPM_ACTIVE" \in task.flags
            d == now - reg.region_wtime_init
            current == reg.region_current
<1>2. "IPM_HPM_ACTIVE" \in task'.flags <=> active
  BY DEF FlagsKept
<1>3. reg'.region_wtime = Charge(reg.region_wtime, current, d) /\ reg'.region_wtime_init = now
  BY DEF ipm_region
<1>4. /\ DOMAIN hpm' = {"state", "since", "region_init", "hpm_count"}
      /\ DOMAIN hpm'.hpm_count = Indices
  BY DEF Counters, CountersAtRegion, Charge
<1>5. CASE ~active
  <2>1. hpm'.hpm_count = hpm.hpm_count
    BY <1>5 DEF CountersAtRegion, Counters
  <2>2. NothingCounted'
    BY <1>5, <2>1 DEF Counters, NothingCounted
  <2>. QED
    BY <1>2, <1>4, <1>5, <2>2 DEF Counters
<1>6. CASE active
  <2>1. CountersFollow /\ "IPM_HPM_CANCELED" \notin task.flags
    BY <1>6 DEF Counters, Sound
  <2>2. ipm_hpm_read(hpm) = now - hpm.since
    BY <2>1 DEF ipm_hpm_read, CountersFollow
  <2>3. ipm_hpm_read(hpm) - hpm.region_init = d
    BY <1>1, <2>1, <2>2 DEF CountersFollow
  <2>4. /\ hpm'.state = hpm.state /\ hpm'.since = hpm.since
        /\ hpm'.hpm_count = Charge(hpm.hpm_count, current, d)
        /\ hpm'.region_init = now - hpm.since
    BY <1>6, <2>1, <2>2, <2>3 DEF CountersAtRegion, Counters
  <2>5. d \in Int /\ stamp_init \in Int
    BY <1>1 DEF stamp_init
  <2>. HIDE DEF d, active, current
  <2>6. 0 \in Indices /\ \A i \in Indices : reg.region_wtime[i] \in Int
    BY <1>1, RegionAssumption DEF Indices, Times
  <2>7. ASSUME NEW i \in Indices
        PROVE  /\ hpm'.hpm_count[i] = IF i = current THEN hpm.hpm_count[i] + d ELSE hpm.hpm_count[i]
               /\ reg'.region_wtime[i] = IF i = current THEN reg.region_wtime[i] + d
                                                        ELSE reg.region_wtime[i]
    BY <1>3, <2>4 DEF Charge
  <2>8. \A i \in Indices \ {0} : hpm'.hpm_count[i] = reg'.region_wtime[i]
    BY <2>1, <2>7 DEF CountersFollow
  <2>9. hpm'.hpm_count[0] = reg'.region_wtime[0] - (hpm'.since - stamp_init)
    BY <2>1, <2>4, <2>5, <2>6, <2>7 DEF CountersFollow
  <2>10. CountersFollow'
    BY <1>3, <2>1, <2>4, <2>8, <2>9 DEF CountersFollow, stamp_init
  <2>. QED
    BY <1>2, <1>4, <1>6, <2>10 DEF Counters, active
<1>. QED
  BY <1>5, <1>6

(* A step that leaves the counters, the options and the regions alone.     *)
LEMMA CountersKept ==
  ASSUME Counters, Sound(task), UNCHANGED <<reg, hpm>>, FlagsKept(task, task'),
         pc' = pc \/ (pc \in {"app", "call"} /\ pc' \in {"app", "call", "exit"})
  PROVE  Counters'
<1>1. "IPM_HPM_ACTIVE" \in task'.flags <=> "IPM_HPM_ACTIVE" \in task.flags
  BY DEF FlagsKept
<1>2. "IPM_HPM_CANCELED" \in task'.flags <=> "IPM_HPM_CANCELED" \in task.flags
  BY DEF FlagsKept
<1>3. CASE "IPM_HPM_ACTIVE" \notin task.flags \/ pc = "init"
  BY <1>1, <1>3 DEF Counters, NothingCounted
<1>4. CASE "IPM_HPM_ACTIVE" \in task.flags /\ pc # "init"
  <2>1. CASE pc = "done"
    BY <1>1, <1>2, <1>4, <2>1 DEF Counters, HpmFollowsWall
  <2>2. CASE pc # "done"
    BY <1>1, <1>4, <2>2 DEF Counters, CountersFollow
  <2>. QED
    BY <2>1, <2>2
<1>. QED
  BY <1>3, <1>4

(* MPI_Init: the counters start, or do not.                                *)
LEMMA CountersStart ==
  ASSUME RegionInv, Counters, Sound(task), reg.region_wtime_init = stamp_init, TaskMpiInit
  PROVE  Counters' /\ Sound(task')
<1>1. /\ pc = "init" /\ pc' = "app" /\ now \in Nat
      /\ reg.region_current = 0 /\ reg.region_wtime \in Times
      /\ reg' = ipm_region([reg EXCEPT !.region_wtime = NoTimes, !.region_count = NoTimes],
                           1, NoRegion)
  BY DEF TaskMpiInit, MpiInit, RegionInv, Stamps, RegOK, RegType
<1>2. 0 \in Indices /\ \A i \in Indices : i \in Nat
  BY RegionAssumption DEF Indices
<1>3. /\ reg'.region_wtime_init = now
      /\ \A i \in Indices : reg'.region_wtime[i] = IF i = 0 THEN now - stamp_init ELSE 0
  <2>1. reg \in RegType
    BY DEF RegionInv, RegOK
  <2>. DEFINE r == [reg EXCEPT !.region_wtime = NoTimes, !.region_count = NoTimes]
  <2>2. r.region_current = 0 /\ r.region_wtime_init = stamp_init /\ r.region_wtime = NoTimes
    BY <1>1, <2>1 DEF RegType
  <2>. HIDE DEF r
  <2>3. reg'.region_wtime = Charge(NoTimes, 0, now - stamp_init) /\ reg'.region_wtime_init = now
    BY <1>1, <2>2 DEF ipm_region, r
  <2>. QED
    BY <1>1, <2>3 DEF Charge, NoTimes, stamp_init
<1>4. PICK ok \in BOOLEAN :
        LET canceled == "IPM_HPM_CANCELED" \in task.flags
            started  == IF canceled \/ ok THEN task
                        ELSE [task EXCEPT !.flags = @ \ {"IPM_HPM_ACTIVE"}]
        IN /\ hpm' = CountersAtRegion(IF canceled THEN hpm ELSE ipm_hpm_start(ok),
                                      started.flags, reg.region_current)
           /\ task' = TraceAtRegion(started, reg')
  BY DEF TaskMpiInit
<1>. DEFINE canceled == "IPM_HPM_CANCELED" \in task.flags
            started  == IF canceled \/ ok THEN task
                        ELSE [task EXCEPT !.flags = @ \ {"IPM_HPM_ACTIVE"}]
            h == IF canceled THEN hpm ELSE ipm_hpm_start(ok)
<1>5. Sound(started) /\ (canceled <=> "IPM_HPM_CANCELED" \in started.flags)
  BY DEF Sound, TaskFields
<1>6. /\ DOMAIN h = {"state", "since", "region_init", "hpm_count"}
      /\ DOMAIN h.hpm_count = Indices
      /\ \A i \in Indices : h.hpm_count[i] = 0
  BY <1>1 DEF Counters, NothingCounted, ipm_hpm_start, NoCounters
<1>7. ~canceled /\ "IPM_HPM_ACTIVE" \in started.flags =>
        h.state = "running" /\ h.since = now /\ h.region_init = 0
  BY DEF Sound, TaskFields, ipm_hpm_start, NoCounters
<1>8. hpm' = CountersAtRegion(h, started.flags, 0) /\ task' = TraceAtRegion(started, reg')
  BY <1>1, <1>4
<1>. HIDE DEF canceled, started, h
<1>9. Sound(task') /\ OthersKept(started, task')
  BY <1>5, <1>8, TraceAtRegionKeeps
<1>10. "IPM_HPM_ACTIVE" \in task'.flags <=> "IPM_HPM_ACTIVE" \in started.flags
  BY <1>9 DEF OthersKept, FlagsKept
<1>11. /\ DOMAIN hpm' = {"state", "since", "region_init", "hpm_count"}
       /\ DOMAIN hpm'.hpm_count = Indices
  BY <1>6, <1>8 DEF CountersAtRegion, Charge
<1>12. CASE "IPM_HPM_ACTIVE" \notin started.flags
  <2>1. hpm'.hpm_count = h.hpm_count
    BY <1>6, <1>8, <1>12 DEF CountersAtRegion
  <2>. QED
    BY <1>1, <1>6, <1>9, <1>10, <1>11, <1>12, <2>1 DEF Counters, NothingCounted
<1>13. CASE "IPM_HPM_ACTIVE" \in started.flags
  <2>1. ~canceled
    BY <1>5, <1>13 DEF Sound
  <2>2. h.state = "running" /\ h.since = now /\ h.region_init = 0
    BY <1>7, <1>13, <2>1
  <2>3. ipm_hpm_read(h) = 0
    BY <1>1, <2>2 DEF ipm_hpm_read
  <2>4. /\ hpm'.state = "running" /\ hpm'.since = now /\ hpm'.region_init = 0
        /\ hpm'.hpm_count = Charge(h.hpm_count, 0, 0)
    BY <1>5, <1>6, <1>8, <1>13, <2>1, <2>2, <2>3 DEF CountersAtRegion
  <2>5. \A i \in Indices : hpm'.hpm_count[i] = 0
    BY <1>6, <2>4 DEF Charge
  <2>6. CountersFollow'
    BY <1>1, <1>2, <1>3, <2>4, <2>5 DEF CountersFollow, stamp_init
  <2>. QED
    BY <1>1, <1>9, <1>10, <1>11, <1>13, <2>6 DEF Counters
<1>. QED
  BY <1>9, <1>12, <1>13

(* MPI_Finalize: the counters are read a last time and stop.               *)
LEMMA CountersStop ==
  ASSUME RegionInv, Counters, Sound(task), TaskFinalize
  PROVE  Counters' /\ Sound(task')
<1>1. /\ pc = "app" /\ pc' = "done"
      /\ reg' = LeaveRegions(reg)
      /\ RegOK(reg) /\ SetUp(reg) /\ now \in Nat /\ reg.region_wtime_init <= now
  BY DEF TaskFinalize, Finalize, RegionInv, Stamps
<1>2. reg' = ipm_region(reg, 1, NoRegion)
  BY <1>1, LeaveStep
<1>. DEFINE h == CountersAtRegion(hpm, task.flags, reg.region_current)
            t == TraceAtLeave(task)
            active == "IPM_HPM_ACTIVE" \in task.flags
            current == reg.region_current
            d == now - reg.region_wtime_init
<1>3. Sound(t) /\ OthersKept(task, t)
  BY TraceAtLeaveKeeps
<1>4. /\ hpm' = IF active THEN ipm_hpm_stop(h) ELSE h
      /\ task' = [t EXCEPT !.flags = (@ \ {"IPM_APP_RUNNING"})
                                       \cup {"IPM_APP_COMPLETED", "IPM_MPI_FINALIZING"}]
  BY DEF TaskFinalize
<1>5. /\ Sound(task')
      /\ "IPM_HPM_ACTIVE" \in task'.flags <=> active
      /\ "IPM_HPM_CANCELED" \in task'.flags <=> "IPM_HPM_CANCELED" \in task.flags
  <2>. HIDE DEF t
  <2>. QED
    BY <1>3, <1>4 DEF Sound, TaskFields, OthersKept, FlagsKept, Flags
<1>6. /\ DOMAIN h = {"state", "since", "region_init", "hpm_count"}
      /\ DOMAIN h.hpm_count = Indices
      /\ DOMAIN hpm' = {"state", "since", "region_init", "hpm_count"}
      /\ hpm'.hpm_count = h.hpm_count
  BY <1>4 DEF Counters, CountersAtRegion, Charge, ipm_hpm_stop
<1>7. CASE ~active
  <2>1. h.hpm_count = hpm.hpm_count
    BY <1>7 DEF CountersAtRegion, Counters
  <2>. QED
    BY <1>1, <1>5, <1>6, <1>7, <2>1 DEF Counters, NothingCounted
<1>8. CASE active
  <2>1. CountersFollow /\ "IPM_HPM_CANCELED" \notin task.flags
    BY <1>1, <1>8 DEF Counters, Sound
  <2>2. ipm_hpm_read(hpm) = now - hpm.since
    BY <2>1 DEF ipm_hpm_read, CountersFollow
  <2>3. /\ reg.region_wtime \in Times /\ reg.region_wtime_init \in Nat
        /\ reg'.region_wtime = Charge(reg.region_wtime, current, d)
    BY <1>1, <1>2 DEF RegOK, RegType, ipm_region
  <2>4. ipm_hpm_read(hpm) - hpm.region_init = d
    BY <1>1, <2>1, <2>2, <2>3 DEF CountersFollow
  <2>5. h.state = "running" /\ h.hpm_count = Charge(hpm.hpm_count, current, d)
    BY <1>8, <2>1, <2>4 DEF CountersAtRegion, Counters, CountersFollow
  <2>6. hpm'.state = "stopped"
    BY <1>4, <1>6, <1>8, <2>5 DEF ipm_hpm_stop
  <2>. HIDE DEF d, current, h
  <2>7. ASSUME NEW i \in Indices \ {0}
        PROVE  hpm'.hpm_count[i] = reg'.region_wtime[i]
    BY <1>6, <2>1, <2>3, <2>5 DEF CountersFollow, Charge
  <2>8. HpmFollowsWall'
    BY <1>1, <1>5, <1>8, <2>1, <2>6, <2>7 DEF HpmFollowsWall
  <2>. QED
    BY <1>1, <1>5, <1>6, <1>8, <2>5, <2>8 DEF Counters, Charge
<1>. QED
  BY <1>5, <1>7, <1>8

(* The end of a call, with the snapshot if one is due, and with the entry  *)
(* of the trace.                                                           *)
LEMMA CountersEndCall ==
  ASSUME RegionInv, Counters, Sound(task), TaskEndCall
  PROVE  Counters' /\ Sound(task')
<1>1. /\ pc = "call" /\ pc' = "app"
      /\ RegOK(reg) /\ SetUp(reg) /\ now \in Nat /\ reg.region_wtime_init <= now
  BY DEF TaskEndCall, EndCall, RegionInv, Stamps
<1>2. Sound(AfterCheckpoint) /\ OthersKept(task, AfterCheckpoint)
  BY TraceAtLeaveKeeps DEF AfterCheckpoint, OthersKept, FlagsKept, Sound
<1>3. PICK t : /\ t = IF SnapshotWanted THEN [AfterCheckpoint EXCEPT !.log_dir = LogDir]
                                        ELSE AfterCheckpoint
               /\ task' = t \/ task' = [t EXCEPT !.flags = @ \ {"IPM_TRC_ACTIVE"}]
  BY DEF TaskEndCall
<1>4. Sound(t) /\ t.flags = AfterCheckpoint.flags /\ t.call_mask = task.call_mask
  BY <1>2, <1>3 DEF Sound, TaskFields, OthersKept
<1>5. Sound(task')
  BY <1>3, <1>4 DEF Sound, TaskFields
<1>6. FlagsKept(task, task')
  <2>1. AfterCheckpoint.flags \ {"IPM_TRC_ACTIVE"} = task.flags \ {"IPM_TRC_ACTIVE"}
    BY <1>2 DEF OthersKept, FlagsKept
  <2>2. task'.flags = t.flags \/ task'.flags = t.flags \ {"IPM_TRC_ACTIVE"}
    BY <1>3, <1>4 DEF Sound, TaskFields
  <2>. QED
    BY <1>4, <2>1, <2>2 DEF FlagsKept
<1>7. CASE SnapshotDue
  <2>1. reg' = LeaveRegions(reg) /\ hpm' = CountersAtRegion(hpm, task.flags, reg.region_current)
    BY <1>7 DEF TaskEndCall, EndCall, ipm_mpi_checkpoint
  <2>2. reg' = ipm_region(reg, 1, NoRegion)
    BY <1>1, <2>1, LeaveStep
  <2>. QED
    BY <1>1, <1>5, <1>6, <2>1, <2>2, CountersSwitch
<1>8. CASE ~SnapshotDue
  <2>1. UNCHANGED <<reg, hpm>>
    BY <1>8 DEF TaskEndCall, EndCall, ipm_mpi_checkpoint
  <2>. QED
    BY <1>1, <1>5, <1>6, <2>1, CountersKept
<1>. QED
  BY <1>7, <1>8

(* Every step keeps the counters in step with the times of the regions.    *)
LEMMA HpmStep ==
  ASSUME HpmInv, [TaskNext]_taskVars
  PROVE  HpmInv'
<1>1. CASE UNCHANGED taskVars
  BY <1>1, RegionInvStep DEF taskVars, vars, own, HpmInv, Ended, Counters, NothingCounted,
                             HpmFollowsWall, CountersFollow
<1>2. CASE TaskNext
  <2>1. RegionInv /\ Sound(task) /\ Counters /\ (pc = "init" => reg.region_wtime_init = stamp_init)
    BY <1>2, EndedStays DEF HpmInv
  <2>2. SUFFICES ASSUME ~(Ended' /\ task' = task)
                 PROVE  /\ Sound(task')
                        /\ Counters'
                        /\ pc' = "init" => reg'.region_wtime_init = stamp_init
    <3>1. ~Ended' => [Next]_vars
      BY <1>2, <2>1, TaskStepRegion
    <3>2. ~Ended' => RegionInv'
      BY <2>1, <3>1, RegionInvStep
    <3>. QED
      BY <2>1, <2>2, <3>2 DEF HpmInv, stamp_init
  <2>3. ASSUME UNCHANGED <<reg, hpm, task>>,
               pc' = pc \/ (pc \in {"app", "call"} /\ pc' \in {"app", "call", "exit"})
        PROVE  /\ Sound(task') /\ Counters'
               /\ pc' = "init" => reg'.region_wtime_init = stamp_init
    BY <2>1, <2>3, CountersKept DEF FlagsKept
  <2>4. CASE TaskTick
    BY <2>3, <2>4 DEF TaskTick, Tick, own
  <2>5. CASE AlarmRings
    <3>1. /\ UNCHANGED <<reg, hpm, pc>>
          /\ \/ task' = [task EXCEPT !.flags = @ \cup {"IPM_TRC_ACTIVE"}]
             \/ task' = [task EXCEPT !.flags = @ \ {"IPM_TRC_ACTIVE"}]
      BY <2>5 DEF AlarmRings, HandleAlarm, vars
    <3>2. Sound(task') /\ FlagsKept(task, task')
      BY <2>1, <3>1 DEF Sound, TaskFields, FlagsKept, Flags
    <3>. QED
      BY <2>1, <3>1, <3>2, CountersKept
  <2>6. CASE TaskMpiInit
    <3>1. pc = "init" /\ pc' = "app"
      BY <2>6 DEF TaskMpiInit, MpiInit
    <3>. QED
      BY <2>1, <2>6, <3>1, CountersStart
  <2>7. CASE InitWithoutArguments \/ TraceMallocFails \/ TraceWithoutBuffer \/ SnapshotNotOpened
             \/ KilledInSnapshot
    BY <2>2, <2>7 DEF InitWithoutArguments, TraceMallocFails, TraceWithoutBuffer,
                      SnapshotNotOpened, KilledInSnapshot, Ended, own
  <2>8. ASSUME NEW c \in Calls, TaskBeginCall(c)
        PROVE  /\ Sound(task') /\ Counters'
               /\ pc' = "init" => reg'.region_wtime_init = stamp_init
    BY <2>3, <2>8 DEF TaskBeginCall, BeginCall
  <2>9. CASE TaskEndCall
    <3>1. pc' = "app"
      BY <2>9 DEF TaskEndCall, EndCall
    <3>. QED
      BY <2>1, <2>9, <3>1, CountersEndCall
  <2>10. ASSUME NEW l \in Labels, TaskEnter(l) \/ TaskExit(l)
         PROVE  /\ Sound(task') /\ Counters'
                /\ pc' = "init" => reg'.region_wtime_init = stamp_init
    <3>1. /\ pc = "app" /\ pc' = "app"
          /\ \E io \in {1, -1} : reg' = ipm_region(reg, io, l)
          /\ hpm' = CountersAtRegion(hpm, task.flags, reg.region_current)
          /\ task' = TraceAtRegion(task, reg')
      BY <2>10 DEF TaskEnter, TaskExit, Enter, Exit, AppSwitches, AtRegion
    <3>2. Sound(task') /\ FlagsKept(task, task')
      BY <2>1, <3>1, TraceAtRegionKeeps DEF OthersKept
    <3>. QED
      BY <2>1, <3>1, <3>2, CountersSwitch
  <2>11. ASSUME NEW l \in Labels, TaskEnterTooMany(l)
         PROVE  /\ Sound(task') /\ Counters'
                /\ pc' = "init" => reg'.region_wtime_init = stamp_init
    BY <2>3, <2>11 DEF TaskEnterTooMany, EnterTooMany, AppSwitches, own
  <2>12. CASE TaskFinalize
    <3>1. pc' = "done"
      BY <2>12 DEF TaskFinalize, Finalize
    <3>. QED
      BY <2>1, <2>12, <3>1, CountersStop
  <2>. QED
    BY <1>2, <2>4, <2>5, <2>6, <2>7, <2>8, <2>9, <2>10, <2>11, <2>12 DEF TaskNext
<1>. QED
  BY <1>1, <1>2
-----------------------------------------------------------------------------
(***************************************************************************)
(* The periodic snapshot.                                                  *)
(***************************************************************************)

(* Once a snapshot is whole, the settings that it needs stay as they are,  *)
(* so that no later checkpoint passes it by.                               *)
SnapshotInv ==
  snapshot.state = "whole" =>
    /\ SnapshotExact
    /\ snapshot.stamp \in Nat \ {0}
    /\ "LOG_NONE" \notin task.flags
    /\ task.log_dir # "/dev/null"

(* A step that is no checkpoint, and does not change where the log goes.   *)
LEMMA SnapshotKept ==
  ASSUME SnapshotInv, snapshot' = snapshot, stamp'.prev_cp = stamp.prev_cp,
         "LOG_NONE" \in task'.flags => "LOG_NONE" \in task.flags,
         task'.log_dir = task.log_dir
  PROVE  SnapshotInv'
BY DEF SnapshotInv, SnapshotExact, stamp_init

(* A checkpoint: the snapshot is written after the regions are left, and   *)
(* the time it is written with is the time of the checkpoint.              *)
LEMMA SnapshotTaken ==
  ASSUME RegionInv, ChargedInv, SnapshotInv, pc = "call", pc' # "init", ipm_mpi_checkpoint,
         snapshot' = IF SnapshotWanted THEN WholeSnapshot ELSE snapshot,
         "LOG_NONE" \in task'.flags => "LOG_NONE" \in task.flags,
         task'.log_dir \in {task.log_dir, LogDir}
  PROVE  SnapshotInv'
<1>1. now \in Nat /\ now # 0 /\ stamp_init = 1
  BY DEF RegionInv, Stamps, stamp_init
<1>2. task.log_dir # "/dev/null" => task'.log_dir # "/dev/null"
  BY DEF LogDir
<1>3. CASE SnapshotWanted
  <2>1. /\ reg' = LeaveRegions(reg) /\ ipm_sync /\ stamp' = [final |-> now, prev_cp |-> now]
        /\ "LOG_NONE" \notin task.flags /\ task.log_dir # "/dev/null"
    BY <1>3 DEF SnapshotWanted, ipm_mpi_checkpoint
  <2>2. SumOf(reg'.region_wtime) = now - stamp_init
    BY <2>1, ChargedLeave
  <2>3. totals'.wtime = now - stamp_init
    BY <2>1 DEF ipm_sync
  <2>4. /\ snapshot'.stamp = now /\ snapshot'.wtime = totals'.wtime
        /\ snapshot'.region_wtime = reg'.region_wtime
    BY <1>3 DEF WholeSnapshot
  <2>5. SnapshotExact'
    BY <2>1, <2>2, <2>3, <2>4 DEF SnapshotExact, stamp_init
  <2>. QED
    BY <1>1, <1>2, <2>1, <2>4, <2>5 DEF SnapshotInv
<1>4. CASE SnapshotDue /\ ~SnapshotWanted
  <2>1. snapshot' = snapshot /\ snapshot.state # "whole"
    BY <1>4 DEF SnapshotWanted, SnapshotInv
  <2>. QED
    BY <2>1 DEF SnapshotInv
<1>5. CASE ~SnapshotDue
  <2>1. snapshot' = snapshot
    BY <1>5 DEF SnapshotWanted
  <2>2. SUFFICES ASSUME snapshot.state = "whole"
                 PROVE  SnapshotInv'
    BY <2>1 DEF SnapshotInv
  <2>3. SnapshotExact /\ snapshot.stamp \in Nat \ {0} /\ snapshot.stamp = stamp.prev_cp
    BY <2>2 DEF SnapshotInv, SnapshotExact
  <2>4. stamp'.prev_cp = stamp.prev_cp
    BY <1>5, <2>3 DEF ipm_mpi_checkpoint, LastSnapshot
  <2>5. SnapshotExact'
    BY <2>1, <2>2, <2>3, <2>4 DEF SnapshotExact, stamp_init
  <2>. QED
    BY <1>2, <2>1, <2>2, <2>3, <2>5 DEF SnapshotInv
<1>. QED
  BY <1>3, <1>4, <1>5

(* Every step keeps the snapshot exact.                                    *)
LEMMA SnapshotStep ==
  ASSUME Accounted, HpmInv, SnapshotInv, [TaskNext]_taskVars
  PROVE  SnapshotInv'
<1>1. CASE UNCHANGED taskVars
  BY <1>1, SnapshotKept DEF taskVars, vars, own
<1>2. CASE TaskNext
  <2>1. RegionInv /\ ChargedInv /\ Sound(task)
    BY <1>2, EndedStays DEF HpmInv, Accounted
  <2>2. CASE TaskTick
    BY <2>2, SnapshotKept DEF TaskTick, Tick, own
  <2>3. CASE AlarmRings
    <3>1. /\ UNCHANGED <<stamp, snapshot>>
          /\ \/ task' = [task EXCEPT !.flags = @ \cup {"IPM_TRC_ACTIVE"}]
             \/ task' = [task EXCEPT !.flags = @ \ {"IPM_TRC_ACTIVE"}]
      BY <2>3 DEF AlarmRings, HandleAlarm, vars
    <3>. QED
      BY <2>1, <3>1, SnapshotKept DEF Sound, TaskFields
  <2>4. CASE TaskMpiInit
    <3>1. PICK t : /\ t = task \/ t = [task EXCEPT !.flags = @ \ {"IPM_HPM_ACTIVE"}]
                   /\ task' = TraceAtRegion(t, reg')
      BY <2>4 DEF TaskMpiInit
    <3>2. Sound(t) /\ t.log_dir = task.log_dir /\ t.flags \subseteq task.flags
      BY <2>1, <3>1 DEF Sound, TaskFields
    <3>3. OthersKept(t, task')
      BY <3>1, <3>2, TraceAtRegionKeeps
    <3>4. UNCHANGED <<stamp, snapshot>>
      BY <2>4 DEF TaskMpiInit, MpiInit
    <3>. QED
      BY <3>2, <3>3, <3>4, SnapshotKept DEF OthersKept, FlagsKept
  <2>5. CASE InitWithoutArguments \/ TraceMallocFails \/ SnapshotNotOpened
    BY <2>5, SnapshotKept DEF InitWithoutArguments, TraceMallocFails, SnapshotNotOpened, own
  <2>6. CASE KilledInSnapshot
    BY <2>6 DEF KilledInSnapshot, NoSnapshot, SnapshotInv
  <2>7. ASSUME NEW c \in Calls, TaskBeginCall(c)
        PROVE  SnapshotInv'
    BY <2>7, SnapshotKept DEF TaskBeginCall, BeginCall
  <2>8. CASE TraceWithoutBuffer
    <3>1. /\ pc = "call" /\ pc' = "crash" /\ ipm_mpi_checkpoint /\ task' = task
          /\ snapshot' = IF SnapshotWanted THEN WholeSnapshot ELSE snapshot
      BY <2>8 DEF TraceWithoutBuffer
    <3>. QED
      BY <2>1, <3>1, SnapshotTaken
  <2>9. CASE TaskEndCall
    <3>1. /\ pc = "call" /\ pc' = "app" /\ ipm_mpi_checkpoint
          /\ snapshot' = IF SnapshotWanted THEN WholeSnapshot ELSE snapshot
      BY <2>9 DEF TaskEndCall, EndCall
    <3>2. Sound(AfterCheckpoint) /\ OthersKept(task, AfterCheckpoint)
      BY <2>1, TraceAtLeaveKeeps DEF AfterCheckpoint, OthersKept, FlagsKept, Sound
    <3>3. PICK t : /\ t = IF SnapshotWanted THEN [AfterCheckpoint EXCEPT !.log_dir = LogDir]
                                            ELSE AfterCheckpoint
                   /\ task' = t \/ task' = [t EXCEPT !.flags = @ \ {"IPM_TRC_ACTIVE"}]
      BY <2>9 DEF TaskEndCall
    <3>4. Sound(t) /\ t.flags = AfterCheckpoint.flags /\ t.log_dir \in {task.log_dir, LogDir}
      BY <3>2, <3>3 DEF Sound, TaskFields, OthersKept
    <3>5. task'.log_dir = t.log_dir /\ task'.flags \subseteq t.flags
      BY <3>3, <3>4 DEF Sound, TaskFields
    <3>6. "LOG_NONE" \in task'.flags => "LOG_NONE" \in task.flags
      BY <3>2, <3>4, <3>5 DEF OthersKept, FlagsKept
    <3>. QED
      BY <2>1, <3>1, <3>4, <3>5, <3>6, SnapshotTaken
  <2>10. ASSUME NEW l \in Labels, TaskEnter(l) \/ TaskExit(l)
         PROVE  SnapshotInv'
    <3>1. UNCHANGED <<stamp, snapshot>> /\ task' = TraceAtRegion(task, reg')
      BY <2>10 DEF TaskEnter, TaskExit, Enter, Exit, AppSwitches, AtRegion
    <3>2. OthersKept(task, task')
      BY <2>1, <3>1, TraceAtRegionKeeps
    <3>. QED
      BY <3>1, <3>2, SnapshotKept DEF OthersKept, FlagsKept
  <2>11. ASSUME NEW l \in Labels, TaskEnterTooMany(l)
         PROVE  SnapshotInv'
    BY <2>11, SnapshotKept DEF TaskEnterTooMany, EnterTooMany, AppSwitches, own
  <2>12. CASE TaskFinalize
    <3>1. /\ snapshot' = snapshot /\ stamp' = [stamp EXCEPT !.final = now]
          /\ task' = [TraceAtLeave(task) EXCEPT
                        !.flags = (@ \ {"IPM_APP_RUNNING"})
                                    \cup {"IPM_APP_COMPLETED", "IPM_MPI_FINALIZING"}]
      BY <2>12 DEF TaskFinalize, Finalize
    <3>2. Sound(TraceAtLeave(task)) /\ OthersKept(task, TraceAtLeave(task))
      BY <2>1, TraceAtLeaveKeeps
    <3>3. /\ task'.log_dir = task.log_dir
          /\ "LOG_NONE" \in task'.flags => "LOG_NONE" \in task.flags
      BY <3>1, <3>2 DEF Sound, TaskFields, OthersKept, FlagsKept
    <3>4. stamp'.prev_cp = stamp.prev_cp
      BY <3>1
    <3>. QED
      BY <3>1, <3>3, <3>4, SnapshotKept
  <2>. QED
    BY <1>2, <2>2, <2>3, <2>4, <2>5, <2>6, <2>7, <2>8, <2>9, <2>10, <2>11, <2>12 DEF TaskNext
<1>. QED
  BY <1>1, <1>2
-----------------------------------------------------------------------------
(***************************************************************************)
(* The types of the task's fields.                                         *)
(***************************************************************************)

(* The buffer and what is printed of it.                                   *)
DumpEntries == [call : Calls, region : KeyRegions, t : Int]

TraceTypes ==
  /\ now \in 1 .. MaxTime
  /\ call \in Calls \cup {"none"}
  /\ pc = "call" => call \in Calls
  /\ trc \in [allocated : BOOLEAN, buf : Seq(TraceEntries), dump : Seq(DumpEntries)]
  /\ Len(trc.dump) <= Len(trc.buf)
  /\ Len(trc.buf) <= task.trc_count_max

(* An entry is added if there is room.                                     *)
LEMMA TraceEntry ==
  ASSUME NEW x \in [buf : Seq(TraceEntries), on : BOOLEAN, max : Nat], Len(x.buf) <= x.max,
         NEW entry \in TraceEntries
  PROVE  /\ ipm_trace(x, entry) \in [buf : Seq(TraceEntries), on : BOOLEAN, max : {x.max}]
         /\ Len(ipm_trace(x, entry).buf) <= x.max
         /\ Len(ipm_trace(x, entry).buf) >= Len(x.buf)
<1>1. CASE Len(x.buf) >= x.max
  <2>1. ipm_trace(x, entry) = [x EXCEPT !.on = FALSE]
    BY <1>1 DEF ipm_trace
  <2>2. Len(x.buf) \in Nat
    BY LenProperties
  <2>3. ipm_trace(x, entry) \in [buf : {x.buf}, on : BOOLEAN, max : {x.max}]
    BY <2>1
  <2>4. ipm_trace(x, entry).buf = x.buf
    BY <2>1
  <2>5. x.buf \in Seq(TraceEntries)
    OBVIOUS
  <2>6. ipm_trace(x, entry) \in [buf : Seq(TraceEntries), on : BOOLEAN, max : {x.max}]
    BY <2>3, <2>5
  <2>. QED
    BY <2>2, <2>4, <2>6
<1>2. CASE ~(Len(x.buf) >= x.max)
  <2>1. ipm_trace(x, entry) = [x EXCEPT !.buf = Append(x.buf, entry)]
    BY <1>2 DEF ipm_trace
  <2>2. Append(x.buf, entry) \in Seq(TraceEntries) /\ Len(Append(x.buf, entry)) = Len(x.buf) + 1
    BY AppendProperties
  <2>. DEFINE y == Append(x.buf, entry)
              z == ipm_trace(x, entry)
  <2>3. Len(x.buf) \in Nat
    BY LenProperties
  <2>4. y \in Seq(TraceEntries) /\ Len(y) = Len(x.buf) + 1 /\ z = [x EXCEPT !.buf = y]
    BY <2>1, <2>2
  <2>. HIDE DEF y, z
  <2>5. z \in [buf : Seq(TraceEntries), on : BOOLEAN, max : {x.max}] /\ z.buf = y
    BY <2>4
  <2>6. Len(z.buf) <= x.max /\ Len(z.buf) >= Len(x.buf)
    BY <1>2, <2>3, <2>4, <2>5
  <2>. QED
    BY <2>5, <2>6 DEF z
<1>. QED
  BY <1>1, <1>2

(* The region field of a key.                                              *)
LEMMA KeyRegionType ==
  ASSUME NEW current \in {-1} \cup Indices
  PROVE  KeyRegion(current) \in KeyRegions
BY RegionAssumption DEF KeyRegion, KeyRegions, Indices

(* The two entries of a call fit the buffer, or are left out.              *)
LEMMA TraceCallTypes ==
  ASSUME NEW t, t.trc_count_max \in Nat, NEW region \in KeyRegions, call \in Calls,
         T1 \in 1 .. MaxTime, now \in 1 .. MaxTime,
         trc.buf \in Seq(TraceEntries), Len(trc.buf) <= t.trc_count_max
  PROVE  /\ TraceCall(t, region).buf \in Seq(TraceEntries)
         /\ Len(TraceCall(t, region).buf) <= t.trc_count_max
         /\ Len(TraceCall(t, region).buf) >= Len(trc.buf)
<1>. DEFINE entry(time) == [call |-> call, region |-> region, t |-> time]
            x0 == [buf |-> trc.buf, on |-> TRUE, max |-> t.trc_count_max]
            x1 == ipm_trace(x0, entry(T1))
            x2 == ipm_trace(x1, entry(now))
<1>1. entry(T1) \in TraceEntries /\ entry(now) \in TraceEntries
  BY DEF TraceEntries
<1>2. x0 \in [buf : Seq(TraceEntries), on : BOOLEAN, max : Nat] /\ Len(x0.buf) <= x0.max
  OBVIOUS
<1>3. TraceCall(t, region) = x2
  BY DEF TraceCall
<1>4. x0.max = t.trc_count_max /\ x0.buf = trc.buf
  OBVIOUS
<1>. HIDE DEF x0, entry
<1>5. /\ x1 \in [buf : Seq(TraceEntries), on : BOOLEAN, max : {x0.max}]
      /\ Len(x1.buf) <= x0.max /\ Len(x1.buf) >= Len(x0.buf)
  BY <1>1, <1>2, TraceEntry
<1>6. x1 \in [buf : Seq(TraceEntries), on : BOOLEAN, max : Nat] /\ x1.max = x0.max
  BY <1>2, <1>4, <1>5
<1>. HIDE DEF x1
<1>7. /\ x2 \in [buf : Seq(TraceEntries), on : BOOLEAN, max : {x1.max}]
      /\ Len(x2.buf) <= x1.max /\ Len(x2.buf) >= Len(x1.buf)
  BY <1>1, <1>5, <1>6, TraceEntry
<1>. HIDE DEF x2
<1>8. Len(x0.buf) \in Nat /\ Len(x1.buf) \in Nat /\ Len(x2.buf) \in Nat
  BY <1>2, <1>6, <1>7, LenProperties
<1>. QED
  BY <1>3, <1>4, <1>5, <1>6, <1>7, <1>8

(* The dump has as many lines as the buffer has entries.                   *)
LEMMA DumpTypes ==
  ASSUME trc \in [allocated : BOOLEAN, buf : Seq(TraceEntries), dump : Seq(DumpEntries)]
  PROVE  /\ ipm_trc_dump \in [allocated : {trc.allocated}, buf : {trc.buf},
                              dump : Seq(DumpEntries)]
         /\ Len(ipm_trc_dump.dump) = Len(trc.buf)
<1>. DEFINE Relative(entry) == [call |-> entry.call, region |-> entry.region,
                                t |-> entry.t - stamp_init]
            b == trc.buf
            d == [k \in DOMAIN b |-> Relative(b[k])]
<1>1. b \in Seq(TraceEntries)
  OBVIOUS
<1>2. ipm_trc_dump = [trc EXCEPT !.dump = d]
  BY DEF ipm_trc_dump
<1>. HIDE DEF b
<1>3. Len(b) \in Nat /\ DOMAIN b = 1 .. Len(b) /\ \A k \in 1 .. Len(b) : b[k] \in TraceEntries
  BY <1>1, LenProperties, ElementOfSeq
<1>4. \A k \in 1 .. Len(b) : Relative(b[k]) \in DumpEntries
  BY <1>3 DEF TraceEntries, DumpEntries, stamp_init
<1>. HIDE DEF Relative
<1>5. d \in [1 .. Len(b) -> DumpEntries]
  BY <1>3, <1>4
<1>6. d \in Seq(DumpEntries) /\ Len(d) = Len(b)
  BY <1>3, <1>5, SeqDef, LenProperties
<1>. QED
  BY <1>2, <1>6 DEF b

(* No step changes the options but the flags and the directory.            *)
LEMMA OptionsKept ==
  ASSUME Sound(task), TaskNext
  PROVE  /\ task'.call_mask = task.call_mask
         /\ task'.trc_count_max = task.trc_count_max
         /\ task'.trc_time = task.trc_time
         /\ task'.trc_region = task.trc_region
<1>. DEFINE Kept(t, u) == /\ u.call_mask = t.call_mask
                          /\ u.trc_count_max = t.trc_count_max
                          /\ u.trc_time = t.trc_time
                          /\ u.trc_region = t.trc_region
<1>1. CASE task' = task
  BY <1>1
<1>2. CASE AlarmRings
  BY <1>2 DEF AlarmRings, HandleAlarm, Sound, TaskFields
<1>3. CASE TaskMpiInit
  <2>1. PICK t : /\ t = task \/ t = [task EXCEPT !.flags = @ \ {"IPM_HPM_ACTIVE"}]
                 /\ task' = TraceAtRegion(t, reg')
    BY <1>3 DEF TaskMpiInit
  <2>2. Sound(t) /\ Kept(task, t)
    BY <2>1 DEF Sound, TaskFields
  <2>3. OthersKept(t, task')
    BY <2>1, <2>2, TraceAtRegionKeeps
  <2>. QED
    BY <2>2, <2>3 DEF OthersKept
<1>4. CASE TaskEndCall
  <2>1. Sound(AfterCheckpoint) /\ OthersKept(task, AfterCheckpoint)
    BY TraceAtLeaveKeeps DEF AfterCheckpoint, OthersKept, FlagsKept, Sound
  <2>2. PICK t : /\ t = IF SnapshotWanted THEN [AfterCheckpoint EXCEPT !.log_dir = LogDir]
                                          ELSE AfterCheckpoint
                 /\ task' = t \/ task' = [t EXCEPT !.flags = @ \ {"IPM_TRC_ACTIVE"}]
    BY <1>4 DEF TaskEndCall
  <2>3. Sound(t) /\ Kept(task, t)
    BY <2>1, <2>2 DEF Sound, TaskFields, OthersKept
  <2>. QED
    BY <2>2, <2>3 DEF Sound, TaskFields
<1>5. CASE \E l \in Labels : TaskEnter(l) \/ TaskExit(l)
  BY <1>5, TraceAtRegionKeeps DEF TaskEnter, TaskExit, AtRegion, OthersKept
<1>6. CASE TaskFinalize
  <2>1. Sound(TraceAtLeave(task)) /\ OthersKept(task, TraceAtLeave(task))
    BY TraceAtLeaveKeeps
  <2>2. task' = [TraceAtLeave(task) EXCEPT
                   !.flags = (@ \ {"IPM_APP_RUNNING"})
                               \cup {"IPM_APP_COMPLETED", "IPM_MPI_FINALIZING"}]
    BY <1>6 DEF TaskFinalize
  <2>. QED
    BY <2>1, <2>2 DEF Sound, TaskFields, OthersKept
<1>7. \/ task' = task \/ AlarmRings \/ TaskMpiInit \/ TaskEndCall \/ TaskFinalize
      \/ \E l \in Labels : TaskEnter(l) \/ TaskExit(l)
  BY DEF TaskNext, TaskTick, own, InitWithoutArguments, TraceMallocFails, TaskBeginCall,
         TraceWithoutBuffer, SnapshotNotOpened, KilledInSnapshot, TaskEnterTooMany
<1>. QED
  BY <1>1, <1>2, <1>3, <1>4, <1>5, <1>6, <1>7

(* ... and never holds more than trc_count_max entries.                    *)
LEMMA TraceTypesStep ==
  ASSUME HpmInv, HpmInv', TraceTypes, [TaskNext]_taskVars
  PROVE  TraceTypes'
<1>1. CASE UNCHANGED taskVars
  BY <1>1 DEF taskVars, vars, own, TraceTypes
<1>2. CASE TaskNext
  <2>1. RegionInv /\ Sound(task) /\ Sound(task') /\ task'.trc_count_max = task.trc_count_max
    BY <1>2, EndedStays, OptionsKept DEF HpmInv
  <2>2. CASE UNCHANGED <<now, call, trc>> /\ (pc' = "call" => pc = "call")
    BY <2>1, <2>2 DEF TraceTypes
  <2>3. CASE TaskTick
    <3>1. now' \in 1 .. MaxTime
      BY <2>3, RegionAssumption DEF TaskTick, Tick, TraceTypes
    <3>. QED
      BY <2>1, <2>3, <3>1 DEF TaskTick, Tick, own, TraceTypes
  <2>4. CASE TraceMallocFails
    BY <2>1, <2>4 DEF TraceMallocFails, TraceTypes
  <2>5. ASSUME NEW c \in Calls, TaskBeginCall(c)
        PROVE  TraceTypes'
    BY <2>1, <2>5 DEF TaskBeginCall, BeginCall, TraceTypes
  <2>6. CASE TaskFinalize
    <3>1. trc' = ipm_trc_dump /\ UNCHANGED <<now, call>> /\ pc' = "done"
      BY <2>6 DEF TaskFinalize, Finalize
    <3>2. /\ trc' \in [allocated : {trc.allocated}, buf : {trc.buf}, dump : Seq(DumpEntries)]
          /\ Len(trc'.dump) = Len(trc.buf)
      BY <3>1, DumpTypes DEF TraceTypes
    <3>3. Len(trc.buf) \in Nat
      BY LenProperties DEF TraceTypes
    <3>. QED
      BY <2>1, <3>1, <3>2, <3>3 DEF TraceTypes
  <2>7. CASE TaskEndCall
    <3>1. pc = "call" /\ pc' = "app" /\ call' = "none" /\ now' = now
      BY <2>7 DEF TaskEndCall, EndCall
    <3>. DEFINE dumped == IF SnapshotDue THEN ipm_trc_dump ELSE trc
                r == KeyRegion(reg'.region_current)
    <3>2. PICK t : /\ t.trc_count_max = task.trc_count_max
                   /\ \/ trc' = [dumped EXCEPT !.buf = TraceCall(t, r).buf]
                      \/ trc' = dumped
      <4>1. Sound(AfterCheckpoint) /\ OthersKept(task, AfterCheckpoint)
        BY <2>1, TraceAtLeaveKeeps DEF AfterCheckpoint, OthersKept, FlagsKept, Sound
      <4>. DEFINE t == IF SnapshotWanted THEN [AfterCheckpoint EXCEPT !.log_dir = LogDir]
                                         ELSE AfterCheckpoint
      <4>2. t.trc_count_max = task.trc_count_max
        BY <4>1 DEF Sound, TaskFields, OthersKept
      <4>3. \/ trc' = [dumped EXCEPT !.buf = TraceCall(t, r).buf]
            \/ trc' = dumped
        BY <2>7 DEF TaskEndCall
      <4>. QED
        BY <4>2, <4>3
    <3>3. dumped \in [allocated : BOOLEAN, buf : {trc.buf}, dump : Seq(DumpEntries)]
          /\ Len(dumped.dump) <= Len(trc.buf)
      <4>1. Len(trc.buf) \in Nat
        BY LenProperties DEF TraceTypes
      <4>2. CASE SnapshotDue
        BY <4>1, <4>2, DumpTypes DEF TraceTypes
      <4>3. CASE ~SnapshotDue
        BY <4>3 DEF TraceTypes
      <4>. QED
        BY <4>2, <4>3
    <3>4. r \in KeyRegions
      <4>1. RegionInv'
        BY <3>1 DEF HpmInv, Ended
      <4>2. reg'.region_current \in {-1} \cup Indices
        BY <4>1 DEF RegionInv, RegOK, RegType
      <4>. QED
        BY <4>2, KeyRegionType
    <3>. DEFINE b == TraceCall(t, r).buf
    <3>5. /\ b \in Seq(TraceEntries)
          /\ Len(b) <= task.trc_count_max
          /\ Len(b) >= Len(trc.buf)
      <4>1. T1 \in 1 .. MaxTime /\ call \in Calls /\ now \in 1 .. MaxTime
        BY <2>1, <3>1, RegionAssumption DEF RegionInv, Stamps, TraceTypes, stamp_init
      <4>2. t.trc_count_max \in Nat
        BY <2>1, <3>2 DEF Sound
      <4>. HIDE DEF r
      <4>. QED
        BY <3>2, <3>4, <4>1, <4>2, TraceCallTypes DEF TraceTypes
    <3>. HIDE DEF b, dumped
    <3>6. CASE trc' = [dumped EXCEPT !.buf = b]
      <4>1. Len(dumped.dump) \in Nat /\ Len(b) \in Nat /\ Len(trc.buf) \in Nat
        BY <3>3, <3>5, LenProperties DEF TraceTypes
      <4>. QED
        BY <2>1, <3>1, <3>3, <3>5, <3>6, <4>1 DEF TraceTypes
    <3>7. CASE trc' = dumped
      BY <2>1, <3>1, <3>3, <3>7 DEF TraceTypes
    <3>. QED
      BY <3>2, <3>6, <3>7 DEF b
  <2>8. \/ UNCHANGED <<now, call, trc>> /\ (pc' = "call" => pc = "call")
        \/ TaskTick \/ TraceMallocFails \/ TaskFinalize \/ TaskEndCall
        \/ \E c \in Calls : TaskBeginCall(c)
    BY <1>2 DEF TaskNext, AlarmRings, vars, own, TaskMpiInit, MpiInit, InitWithoutArguments,
                TraceWithoutBuffer, SnapshotNotOpened, KilledInSnapshot, TaskEnter,
                TaskEnterTooMany, TaskExit, Enter, EnterTooMany, Exit, AppSwitches, AtRegion
  <2>. QED
    BY <2>2, <2>3, <2>4, <2>5, <2>6, <2>7, <2>8
<1>. QED
  BY <1>1, <1>2

(* The alarm is set for a window of time only.                             *)
AlarmTypes ==
  /\ alarm \in [handler : {"none", "tron", "troff"}, due : Nat]
  /\ alarm.handler # "none" => task.trc_time.init >= 0

(* ... and the second, from its handler, for the end.                      *)
LEMMA AlarmTypesStep ==
  ASSUME HpmInv, AlarmTypes, [TaskNext]_taskVars
  PROVE  AlarmTypes'
<1>1. CASE UNCHANGED taskVars
  BY <1>1 DEF taskVars, vars, own, AlarmTypes
<1>2. CASE TaskNext
  <2>1. Sound(task) /\ task'.trc_time = task.trc_time
    BY <1>2, OptionsKept DEF HpmInv
  <2>2. CASE alarm' = alarm
    BY <2>1, <2>2 DEF AlarmTypes
  <2>3. CASE AlarmRings
    <3>1. alarm' = NoAlarm \/ alarm' = Alarm("troff", task.trc_time.final)
      BY <2>3 DEF AlarmRings, HandleAlarm
    <3>2. task.trc_time.init >= 0 /\ task.trc_time.final \in Nat /\ now \in Nat
      <4>1. alarm.handler # "none" /\ pc \in {"init", "app", "call"}
        BY <2>3 DEF AlarmRings, HandleAlarm
      <4>2. task.trc_time.init >= 0 /\ now \in Nat
        BY <4>1 DEF AlarmTypes, HpmInv, Ended, RegionInv, Stamps
      <4>. QED
        BY <2>1, <4>2 DEF Sound
    <3>. QED
      BY <2>1, <3>1, <3>2 DEF AlarmTypes, Alarm, NoAlarm
  <2>. QED
    BY <1>2, <2>2, <2>3
       DEF TaskNext, TaskTick, TaskMpiInit, InitWithoutArguments, TraceMallocFails, own,
           TaskBeginCall, TaskEndCall, TraceWithoutBuffer, SnapshotNotOpened, KilledInSnapshot,
           TaskEnter, TaskEnterTooMany, TaskExit, AtRegion, TaskFinalize
<1>. QED
  BY <1>1, <1>2

(* What MPI_Init links the names of the calls to.                          *)
LinkTypes == link \in [Calls -> {"pass", "noop", "topo"}]

(* A call is linked in one of three ways at any time.                      *)
LEMMA LinkTypesStep ==
  ASSUME LinkTypes, [TaskNext]_taskVars
  PROVE  LinkTypes'
<1>1. CASE link' = link
  BY <1>1 DEF LinkTypes
<1>2. CASE TaskMpiInit
  BY <1>2 DEF TaskMpiInit, Linked, LinkTypes
<1>. QED
  BY <1>1, <1>2
     DEF TaskNext, TaskTick, AlarmRings, InitWithoutArguments, TraceMallocFails, own, taskVars,
         TaskBeginCall, TaskEndCall, TraceWithoutBuffer, SnapshotNotOpened, KilledInSnapshot,
         TaskEnter, TaskEnterTooMany, TaskExit, AtRegion, TaskFinalize

(* The counters only grow. *)
CounterTypes ==
  /\ hpm.state \in {"null", "created", "running", "stopped"}
  /\ hpm.hpm_count \in [Indices -> Nat]

(* The counters begin with zero, whatever step of their test failed.       *)
LEMMA CounterTypesInit ==
  ASSUME TaskInit
  PROVE  CounterTypes
<1>1. environ \in Environments
  BY DEF TaskInit
<1>. DEFINE got == ipm_get_env(environ)
<1>2. PICK failing \in TestSteps \cup {"none"} :
        hpm = IF "IPM_HPM_CANCELED" \in got.flags THEN NoCounters ELSE ipm_hpm_test(failing)
  BY DEF TaskInit
<1>. HIDE DEF got
<1>3. hpm \in [state : {"null", "created", "running"}, since : {0, now}, region_init : {0},
               hpm_count : {[i \in Indices |-> 0]}]
  BY <1>2 DEF NoCounters, ipm_hpm_test, TestSteps
<1>. QED
  BY <1>3 DEF CounterTypes

(* What is charged to a region for a period is not negative.               *)
LEMMA CountersGrow ==
  ASSUME RegionInv, Counters, Sound(task), CounterTypes, pc \in {"app", "call"}
  PROVE  /\ CountersAtRegion(hpm, task.flags, reg.region_current).state = hpm.state
         /\ CountersAtRegion(hpm, task.flags, reg.region_current).hpm_count \in [Indices -> Nat]
<1>. DEFINE d == ipm_hpm_read(hpm) - hpm.region_init
            h == CountersAtRegion(hpm, task.flags, reg.region_current)
<1>1. "IPM_HPM_ACTIVE" \in task.flags => d \in Nat
  <2>1. SUFFICES ASSUME "IPM_HPM_ACTIVE" \in task.flags
                 PROVE  d \in Nat
    OBVIOUS
  <2>2. CountersFollow
    BY <2>1 DEF Counters
  <2>3. /\ now \in Nat /\ reg.region_wtime_init \in Nat /\ reg.region_wtime_init <= now
    BY DEF RegionInv, Stamps, RegOK, RegType
  <2>. QED
    BY <2>2, <2>3 DEF CountersFollow, ipm_hpm_read
<1>2. h.state = hpm.state
  BY DEF CountersAtRegion, Counters
<1>3. \/ h.hpm_count = hpm.hpm_count
      \/ "IPM_HPM_ACTIVE" \in task.flags /\ h.hpm_count = Charge(hpm.hpm_count, reg.region_current, d)
  BY DEF CountersAtRegion, Counters
<1>. HIDE DEF d, h
<1>4. ASSUME d \in Nat
      PROVE  Charge(hpm.hpm_count, reg.region_current, d) \in [Indices -> Nat]
  BY <1>4 DEF Charge, CounterTypes
<1>. QED
  BY <1>1, <1>2, <1>3, <1>4 DEF CounterTypes, h

(* Every step keeps the counters natural numbers.                          *)
LEMMA CounterTypesStep ==
  ASSUME HpmInv, CounterTypes, [TaskNext]_taskVars
  PROVE  CounterTypes'
<1>. DEFINE charged == CountersAtRegion(hpm, task.flags, reg.region_current)
<1>1. CASE hpm' = hpm
  BY <1>1 DEF CounterTypes
<1>2. ASSUME pc \in {"app", "call"}
      PROVE  charged.state = hpm.state /\ charged.hpm_count \in [Indices -> Nat]
             /\ DOMAIN charged = {"state", "since", "region_init", "hpm_count"}
  <2>1. RegionInv /\ Counters /\ Sound(task)
    BY <1>2 DEF HpmInv, Ended
  <2>2. DOMAIN charged = {"state", "since", "region_init", "hpm_count"}
    BY <2>1 DEF Counters, CountersAtRegion
  <2>. QED
    BY <1>2, <2>1, <2>2, CountersGrow
<1>3. CASE TaskEndCall
  <2>1. pc = "call" /\ (hpm' = charged \/ hpm' = hpm)
    BY <1>3 DEF TaskEndCall, EndCall
  <2>. QED
    BY <1>2, <2>1 DEF CounterTypes
<1>4. CASE \E l \in Labels : TaskEnter(l) \/ TaskExit(l)
  <2>1. pc = "app" /\ hpm' = charged
    BY <1>4 DEF TaskEnter, TaskExit, Enter, Exit, AppSwitches, AtRegion
  <2>. QED
    BY <1>2, <2>1 DEF CounterTypes
<1>5. CASE TaskFinalize
  <2>1. pc = "app" /\ (hpm' = charged \/ hpm' = ipm_hpm_stop(charged))
    BY <1>5 DEF TaskFinalize, Finalize
  <2>. HIDE DEF charged
  <2>. QED
    BY <1>2, <2>1 DEF CounterTypes, ipm_hpm_stop
<1>6. CASE TaskMpiInit
  <2>. DEFINE canceled == "IPM_HPM_CANCELED" \in task.flags
  <2>1. /\ pc = "init" /\ RegionInv /\ NothingCounted /\ DOMAIN hpm.hpm_count = Indices
        /\ now \in Nat
    BY <1>6 DEF TaskMpiInit, MpiInit, HpmInv, Ended, Counters, RegionInv, Stamps
  <2>2. PICK ok \in BOOLEAN :
          LET started == IF canceled \/ ok THEN task
                         ELSE [task EXCEPT !.flags = @ \ {"IPM_HPM_ACTIVE"}]
          IN hpm' = CountersAtRegion(IF canceled THEN hpm ELSE ipm_hpm_start(ok),
                                     started.flags, reg.region_current)
    BY <1>6 DEF TaskMpiInit
  <2>3. CASE canceled
    BY <2>2, <2>3 DEF CounterTypes, CountersAtRegion
  <2>4. CASE ~canceled
    <3>. DEFINE started == IF ok THEN task ELSE [task EXCEPT !.flags = @ \ {"IPM_HPM_ACTIVE"}]
                h == ipm_hpm_start(ok)
    <3>1. /\ h \in [state : {"running", "created"}, since : {now}, region_init : {0},
                    hpm_count : {NoTimes}]
          /\ h.state = "running" <=> ok
      BY DEF ipm_hpm_start, NoCounters, NoTimes
    <3>2. /\ "IPM_HPM_CANCELED" \notin started.flags
          /\ "IPM_HPM_ACTIVE" \in started.flags => ok
      BY <2>4 DEF HpmInv, Sound, TaskFields
    <3>3. hpm' = CountersAtRegion(h, started.flags, reg.region_current)
      BY <2>2, <2>4
    <3>. HIDE DEF started, h
    <3>4. hpm'.state = h.state
      BY <3>1, <3>2, <3>3 DEF CountersAtRegion
    <3>5. hpm'.hpm_count = NoTimes \/ hpm'.hpm_count = Charge(NoTimes, reg.region_current, 0)
      <4>1. CASE "IPM_HPM_ACTIVE" \in started.flags
        <5>1. ipm_hpm_read(h) - h.region_init = 0
          BY <2>1, <3>1, <3>2, <4>1 DEF ipm_hpm_read
        <5>. QED
          BY <3>1, <3>2, <3>3, <4>1, <5>1 DEF CountersAtRegion
      <4>2. CASE "IPM_HPM_ACTIVE" \notin started.flags
        BY <3>1, <3>2, <3>3, <4>2 DEF CountersAtRegion
      <4>. QED
        BY <4>1, <4>2
    <3>6. NoTimes \in [Indices -> Nat] /\ Charge(NoTimes, reg.region_current, 0) \in [Indices -> Nat]
      BY DEF NoTimes, Charge
    <3>. QED
      BY <3>1, <3>4, <3>5, <3>6 DEF CounterTypes
  <2>. QED
    BY <2>3, <2>4
<1>. QED
  BY <1>1, <1>3, <1>4, <1>5, <1>6
     DEF TaskNext, TaskTick, AlarmRings, InitWithoutArguments, TraceMallocFails, own, taskVars,
         TaskBeginCall, TraceWithoutBuffer, SnapshotNotOpened, KilledInSnapshot,
         TaskEnterTooMany

(* What the file of the snapshot holds.                                    *)
SnapshotTypes ==
  snapshot \in [state : {"none", "partial", "whole"}, stamp : Nat, region_wtime : Times,
                wtime : Nat]

(* The times that are written are those of regions just left, and the wall *)
(* time since the start.                                                   *)
LEMMA SnapshotTypesStep ==
  ASSUME HpmInv, SnapshotTypes, [TaskNext]_taskVars
  PROVE  SnapshotTypes'
<1>1. CASE snapshot' = snapshot
  BY <1>1 DEF SnapshotTypes
<1>2. CASE snapshot' = [NoSnapshot EXCEPT !.state = "partial"]
  <2>1. NoTimes \in Times
    BY DEF NoTimes, Times
  <2>. QED
    BY <1>2, <2>1 DEF SnapshotTypes, NoSnapshot
<1>3. CASE pc = "call" /\ ipm_mpi_checkpoint /\ SnapshotWanted /\ snapshot' = WholeSnapshot
  <2>1. RegionInv
    BY <1>3 DEF HpmInv, Ended
  <2>2. reg'.region_wtime \in Times
    BY <1>3, <2>1, CheckpointStep DEF RegOK, RegType
  <2>3. totals'.wtime = now - stamp_init
    BY <1>3 DEF ipm_mpi_checkpoint, SnapshotWanted, ipm_sync
  <2>4. now \in Nat /\ stamp_init = 1 /\ 1 <= now
    BY <2>1 DEF RegionInv, Stamps, stamp_init
  <2>5. totals'.wtime \in Nat
    BY <2>3, <2>4
  <2>. QED
    BY <1>3, <2>2, <2>4, <2>5 DEF SnapshotTypes, WholeSnapshot
<1>. QED
  BY <1>1, <1>2, <1>3
     DEF TaskNext, TaskTick, AlarmRings, InitWithoutArguments, TraceMallocFails, own, taskVars,
         TaskMpiInit, TaskBeginCall, TaskEndCall, EndCall, TraceWithoutBuffer, SnapshotNotOpened,
         KilledInSnapshot, TaskEnter, TaskEnterTooMany, TaskExit, AtRegion, TaskFinalize
-----------------------------------------------------------------------------
(***************************************************************************)
(* The figures shared with PBS.                                            *)
(***************************************************************************)


(* The time of some calls.                                                 *)
TimeOf(evs) == FoldLeft(LAMBDA sum, ev : sum + (ev.t2 - ev.t1), 0, evs)

CountedCalls == [call : Calls, region : KeyRegions, t1 : Nat, t2 : Nat \ {0}]

(* What is written is the time of all calls so far, since the table holds  *)
(* just that; the times of the writes follow each other at most an         *)
(* interval apart, as long as calls end.                                   *)
SharedInv ==
  /\ share \in [mapped : BOOLEAN, prev_share_stamp : Nat, mtime : Nat, initial : Nat,
                counted : Nat]
  /\ events \in Seq(CountedCalls)
  /\ share.counted <= Len(events)
  /\ SHARE_INTERVAL \in Int
  /\ pc = "init" => events = <<>>
  /\ events = <<>> => share.prev_share_stamp = 0
  /\ ~Ended => SumOver(hash, KeyRegions) = TimeOf(events)
  /\ ~Ended /\ events # <<>> => events[1].t2 <= now
  /\ share.mtime - share.initial = TimeOf(SubSeq(events, 1, share.counted))
  /\ share.mtime >= share.initial
  /\ SHARE_INTERVAL > 0 /\ events # <<>> =>
       /\ share.prev_share_stamp >= events[1].t2
       /\ events[Len(events)].t2 - share.prev_share_stamp < SHARE_INTERVAL
       /\ share.mapped => \A n \in share.counted + 2 .. Len(events) :
                            events[n].t2 - share.prev_share_stamp < SHARE_INTERVAL

(* The time of some calls as a fold that the theorems are about.           *)
LEMMA TimeIsFold ==
  ASSUME NEW evs
  PROVE  TimeOf(evs) = Fold(0, evs)
BY Zenon DEF TimeOf, AddTime, Fold, FoldLeft, MapThenFoldSet, Max

(* One more call adds its time ...                                         *)
LEMMA TimeOfMore ==
  ASSUME NEW evs \in Seq(CountedCalls), NEW ev \in CountedCalls
  PROVE  TimeOf(Append(evs, ev)) = TimeOf(evs) + (ev.t2 - ev.t1)
<1>1. Fold(0, Append(evs, ev)) = AddTime(Fold(0, evs), ev)
  BY FoldAppend
<1>. QED
  BY <1>1, TimeIsFold DEF AddTime

(* ... and no call has none.                                               *)
LEMMA TimeOfNone ==
  TimeOf(<<>>) = 0
<1>1. DOMAIN <<>> = {}
  OBVIOUS
<1>. QED
  BY <1>1, TimeIsFold, FoldEmpty

(* Nothing is shared yet when ipm_init has returned.                       *)
LEMMA SharedInit ==
  ASSUME TaskInit
  PROVE  SharedInv
<1>1. PICK m \in BOOLEAN : share = [NotShared EXCEPT !.mapped = m]
  BY DEF TaskInit, ShareMapped
<1>2. events = <<>> /\ environ \in Environments /\ hash = NoEvents
  BY DEF TaskInit, Init
<1>3. SHARE_INTERVAL \in Int
  BY <1>2, EnvironmentsAssumption DEF SHARE_INTERVAL, Early
<1>4. SumOver(hash, KeyRegions) = 0
  BY <1>2, IndicesFinite, SumZero DEF NoEvents
<1>5. SubSeq(events, 1, 0) = <<>>
  BY <1>2, SubSeqEmpty
<1>6. /\ share \in [mapped : BOOLEAN, prev_share_stamp : {0}, mtime : {0}, initial : {0},
                    counted : {0}]
  BY <1>1 DEF NotShared
<1>7. Len(events) = 0 /\ events \in Seq(CountedCalls)
  BY <1>2, EmptySeq
<1>8. share.counted = 0 /\ share.mtime = 0 /\ share.initial = 0 /\ share.prev_share_stamp = 0
  BY <1>6
<1>9. share \in [mapped : BOOLEAN, prev_share_stamp : Nat, mtime : Nat, initial : Nat,
                 counted : Nat]
  BY <1>6
<1>10. TimeOf(SubSeq(events, 1, share.counted)) = 0 /\ TimeOf(events) = 0
  BY <1>2, <1>5, <1>8, TimeOfNone
<1>11. share.counted <= Len(events) /\ share.mtime - share.initial = 0
  BY <1>7, <1>8
<1>. HIDE DEF SHARE_INTERVAL
<1>. QED
  BY <1>2, <1>3, <1>4, <1>7, <1>8, <1>9, <1>10, <1>11 DEF SharedInv

(* The calls that were counted have ended, after the program began.        *)
LEMMA FirstEnds ==
  ASSUME events \in Seq(CountedCalls)
  PROVE  /\ Len(events) \in Nat
         /\ events = <<>> <=> Len(events) = 0
         /\ \A n \in 1 .. Len(events) : events[n] \in CountedCalls /\ events[n].t2 \in Nat \ {0}
<1>1. Len(events) \in Nat /\ (events = <<>> <=> Len(events) = 0)
  BY EmptySeq, LenProperties
<1>2. \A n \in 1 .. Len(events) : events[n] \in CountedCalls
  BY ElementOfSeq
<1>. QED
  BY <1>1, <1>2 DEF CountedCalls

(* A step in which no call ends and the table is not cleared.              *)
LEMMA SharedKept ==
  ASSUME SharedInv, UNCHANGED <<share, events, environ, hash>>, Ended => Ended',
         ~Ended' => now \in Nat /\ now' \in Nat /\ now <= now', pc' = "init" => pc = "init"
  PROVE  SharedInv'
<1>1. SHARE_INTERVAL' = SHARE_INTERVAL
  BY DEF SHARE_INTERVAL
<1>2. events # <<>> => events[1].t2 \in Nat
  BY FirstEnds DEF SharedInv
<1>. HIDE DEF SHARE_INTERVAL
<1>3. events # <<>> /\ ~Ended' => events[1].t2 <= now'
  BY <1>2 DEF SharedInv
<1>. QED
  BY <1>1, <1>3 DEF SharedInv

(* The end of a call: the figures are written, if at all, before the call  *)
(* is counted.                                                             *)
LEMMA SharedCall ==
  ASSUME RegionInv, SharedInv, pc = "call", pc' # "init", call \in Calls, ipm_mpi_checkpoint,
         ipm_external_entry, UNCHANGED <<now, environ>>,
         hash' = [hash EXCEPT ![KeyRegion(reg'.region_current)] = @ + (now - T1)],
         events' = Append(events, Event(reg'.region_current))
  PROVE  SharedInv'
<1>. DEFINE n == Len(events)
            ev == Event(reg'.region_current)
            k == KeyRegion(reg'.region_current)
            total == SumOver(hash, KeyRegions)
            I == SHARE_INTERVAL
<1>1. /\ now \in Nat \ {0} /\ T1 \in Nat /\ hash \in [KeyRegions -> Nat] /\ ~Ended
  BY DEF RegionInv, Stamps, stamp_init, Ended
<1>2. k \in KeyRegions
  BY CheckpointStep, KeyRegionType DEF RegOK, RegType
<1>3. ev \in CountedCalls /\ ev.t2 = now /\ ev.t2 - ev.t1 = now - T1
  BY <1>1, <1>2 DEF Event, CountedCalls
<1>4. I \in Int /\ I' = I
  BY DEF SharedInv, SHARE_INTERVAL
<1>5. /\ events \in Seq(CountedCalls) /\ n \in Nat
      /\ events = <<>> <=> n = 0
      /\ \A m \in 1 .. n : events[m].t2 \in Nat \ {0}
  BY FirstEnds DEF SharedInv
<1>6. /\ events' \in Seq(CountedCalls) /\ Len(events') = n + 1
      /\ \A m \in 1 .. n : events'[m] = events[m]
      /\ events'[n + 1] = ev
  BY <1>3, <1>5, AppendProperties
<1>7. TimeOf(events') = TimeOf(events) + (now - T1)
  BY <1>3, <1>5, TimeOfMore
<1>8. SumOver(hash', KeyRegions) = total + (now - T1)
  <2>1. \A i \in KeyRegions : hash'[i] = IF i = k THEN hash[i] + (now - T1) ELSE hash[i]
    BY <1>1, <1>2
  <2>2. now - T1 \in Int /\ \A i \in KeyRegions : hash[i] \in Int
    BY <1>1
  <2>. DEFINE d == now - T1
              g == hash'
              f == hash
  <2>3. \A i \in KeyRegions : g[i] = IF i = k THEN hash[i] + d ELSE hash[i]
    BY <2>1
  <2>4. d \in Int /\ IsFiniteSet(KeyRegions) /\ \A i \in KeyRegions : f[i] \in Int
    BY <2>2, IndicesFinite
  <2>. HIDE DEF k, d, g, f
  <2>5. SumOver(g, KeyRegions) = SumOver(f, KeyRegions) + d
    BY <1>2, <2>3, <2>4, SumOneMore DEF f
  <2>. QED
    BY <2>5 DEF g, d, f, total
<1>9. total \in Nat /\ total = TimeOf(events)
  <2>1. total \in Int /\ total >= 0
    BY <1>1, IndicesFinite, SumType
  <2>. QED
    BY <1>1, <2>1 DEF SharedInv
<1>10. MapThenSumSet(LAMBDA r : hash[r], KeyRegions) = total
  BY DEF SumOver
<1>11. PICK initial \in Garbage \cup {share.initial} :
         \/ ~ShareDue /\ share' = IF I <= 0 THEN share
                                  ELSE [share EXCEPT !.prev_share_stamp = ShareStamp]
         \/ /\ ShareDue /\ share.mapped
            /\ share' = [share EXCEPT !.mtime = initial + total, !.initial = initial,
                                      !.counted = n, !.prev_share_stamp = now]
         \/ ShareDue /\ ~share.mapped /\ share' = [share EXCEPT !.prev_share_stamp = now]
  BY <1>10 DEF ipm_external_entry, ipm_pbs_share_mmap
<1>12. /\ share \in [mapped : BOOLEAN, prev_share_stamp : Nat, mtime : Nat, initial : Nat,
                     counted : Nat]
       /\ initial \in Nat /\ ShareStamp \in Nat
       /\ share.counted <= n /\ share.counted \in Nat
  BY <1>1, TaskAssumption DEF SharedInv, ShareStamp
<1>. HIDE DEF n, ev, k, total, I
<1>13. share' \in [mapped : {share.mapped}, prev_share_stamp : Nat, mtime : Nat, initial : Nat,
                   counted : Nat]
  <2>1. CASE share' = share
    BY <1>12, <2>1
  <2>2. CASE share' = [share EXCEPT !.prev_share_stamp = ShareStamp]
    BY <1>12, <2>2
  <2>3. CASE share' = [share EXCEPT !.prev_share_stamp = now]
    BY <1>1, <1>12, <2>3
  <2>4. CASE share' = [share EXCEPT !.mtime = initial + total, !.initial = initial,
                                    !.counted = n, !.prev_share_stamp = now]
    <3>. DEFINE m == initial + total
    <3>1. m \in Nat /\ now \in Nat /\ n \in Nat
      BY <1>1, <1>5, <1>9, <1>12
    <3>. HIDE DEF m
    <3>. QED
      BY <1>12, <2>4, <3>1 DEF m
  <2>. QED
    BY <1>11, <2>1, <2>2, <2>3, <2>4
<1>14. \/ /\ share'.counted = share.counted /\ share'.mtime = share.mtime
          /\ share'.initial = share.initial
       \/ /\ share'.counted = n /\ share'.mtime = initial + total /\ share'.initial = initial
          /\ share'.prev_share_stamp = now /\ I > 0
  BY <1>11, <1>12 DEF ShareDue, I
<1>15. SubSeq(events', 1, share'.counted) = SubSeq(events, 1, share'.counted)
  BY <1>5, <1>6, <1>12, <1>14, SubSeqProperties
<1>16. share'.mtime - share'.initial = TimeOf(SubSeq(events', 1, share'.counted))
       /\ share'.mtime >= share'.initial
  <2>1. CASE /\ share'.counted = share.counted /\ share'.mtime = share.mtime
             /\ share'.initial = share.initial
    BY <1>15, <2>1 DEF SharedInv
  <2>2. CASE share'.counted = n /\ share'.mtime = initial + total /\ share'.initial = initial
    <3>1. SubSeq(events', 1, share'.counted) = events
      BY <1>5, <1>15, <2>2, SubSeqFull DEF n
    <3>2. share'.mtime - share'.initial = total /\ share'.mtime >= share'.initial
      BY <1>9, <1>12, <2>2
    <3>. QED
      BY <1>9, <3>1, <3>2
  <2>. QED
    BY <1>14, <2>1, <2>2
<1>17. events'[1].t2 <= now /\ events'[1].t2 \in Nat \ {0}
  <2>1. CASE n = 0
    BY <1>1, <1>3, <1>6, <2>1
  <2>2. CASE n # 0
    BY <1>1, <1>5, <1>6, <2>2 DEF SharedInv
  <2>. QED
    BY <2>1, <2>2
<1>18. ASSUME n # 0, I > 0
       PROVE  /\ events'[1] = events[1]
              /\ share.prev_share_stamp >= events[1].t2
              /\ ShareStamp = share.prev_share_stamp
              /\ share.mapped => \A m \in share.counted + 2 .. n :
                                   events[m].t2 - share.prev_share_stamp < I
  <2>1. /\ share.prev_share_stamp >= events[1].t2
        /\ share.mapped => \A m \in share.counted + 2 .. n :
                             events[m].t2 - share.prev_share_stamp < I
    BY <1>5, <1>18 DEF SharedInv, I, n
  <2>2. events'[1] = events[1] /\ events[1].t2 \in Nat \ {0}
    BY <1>5, <1>6, <1>18
  <2>. QED
    BY <1>12, <2>1, <2>2 DEF ShareStamp
<1>19. ASSUME I > 0
       PROVE  /\ share'.prev_share_stamp >= events'[1].t2
              /\ events'[n + 1].t2 - share'.prev_share_stamp < I
              /\ share'.mapped => \A m \in share'.counted + 2 .. n + 1 :
                                    events'[m].t2 - share'.prev_share_stamp < I
  <2>1. events'[n + 1].t2 = now
    BY <1>3, <1>6
  <2>2. CASE ShareDue
    <3>1. share'.prev_share_stamp = now /\ (share.mapped => share'.counted = n)
      BY <1>11, <1>12, <2>2
    <3>2. share'.mapped => share'.counted = n
      BY <1>13, <3>1
    <3>. QED
      BY <1>1, <1>4, <1>5, <1>17, <1>19, <2>1, <3>1, <3>2
  <2>3. CASE ~ShareDue
    <3>1. now - ShareStamp < I
      BY <1>1, <1>4, <1>12, <1>19, <2>3 DEF ShareDue, I
    <3>2. /\ share'.prev_share_stamp = ShareStamp /\ share'.counted = share.counted
          /\ share'.mapped = share.mapped
      BY <1>4, <1>11, <1>12, <1>19, <2>3
    <3>3. CASE n = 0
      <4>1. ShareStamp = now
        BY <1>5, <3>3 DEF SharedInv, ShareStamp
      <4>. QED
        BY <1>4, <1>12, <1>17, <1>19, <2>1, <3>1, <3>2, <3>3, <4>1
    <3>4. CASE n # 0
      <4>1. ASSUME share'.mapped, NEW m \in share'.counted + 2 .. n + 1
            PROVE  events'[m].t2 - share'.prev_share_stamp < I
        <5>1. CASE m = n + 1
          BY <2>1, <3>1, <3>2, <5>1
        <5>2. CASE m # n + 1
          <6>1. m \in share.counted + 2 .. n /\ m \in 1 .. n
            <7>1. share.counted \in Nat /\ n \in Nat
              BY <1>5, <1>12
            <7>2. m \in share.counted + 2 .. n + 1
              BY <3>2, <4>1
            <7>. QED
              BY <5>2, <7>1, <7>2
          <6>2. events'[m] = events[m]
            BY <1>6, <6>1
          <6>. QED
            BY <1>18, <1>19, <3>2, <3>4, <4>1, <6>1, <6>2
        <5>. QED
          BY <5>1, <5>2
      <4>. QED
        BY <1>18, <1>19, <2>1, <3>1, <3>2, <3>4, <4>1
    <3>. QED
      BY <3>3, <3>4
  <2>. QED
    BY <2>2, <2>3
<1>20. /\ share' \in [mapped : BOOLEAN, prev_share_stamp : Nat, mtime : Nat, initial : Nat,
                      counted : Nat]
       /\ share'.counted <= Len(events')
  BY <1>5, <1>6, <1>12, <1>13, <1>14
<1>21. events' # <<>>
  BY <1>5, <1>6, EmptySeq
<1>22. SumOver(hash', KeyRegions) = TimeOf(events')
  BY <1>7, <1>8, <1>9
<1>. QED
  BY <1>4, <1>6, <1>16, <1>17, <1>19, <1>20, <1>21, <1>22 DEF SharedInv, I

(* Every step keeps the figures right.                                     *)
LEMMA SharedStep ==
  ASSUME HpmInv, TraceTypes, SharedInv, [TaskNext]_taskVars
  PROVE  SharedInv'
<1>1. CASE UNCHANGED taskVars
  <2>1. ~Ended => now \in Nat
    BY DEF HpmInv, RegionInv, Stamps
  <2>. QED
    BY <1>1, <2>1, SharedKept DEF taskVars, vars, own, Ended
<1>2. CASE TaskNext
  <2>1. RegionInv /\ ~Ended /\ now \in Nat
    BY <1>2, EndedStays DEF HpmInv, RegionInv, Stamps
  <2>2. CASE UNCHANGED <<share, events, environ, hash>> /\ now' \in {now, now + 1}
             /\ (pc' = "init" => pc = "init")
    BY <2>1, <2>2, SharedKept
  <2>3. CASE TaskMpiInit
    <3>1. pc = "init" /\ pc' = "app" /\ hash' = NoEvents /\ now' = now
          /\ UNCHANGED <<share, events, environ>>
      BY <2>3 DEF TaskMpiInit, MpiInit
    <3>2. events = <<>>
      BY <3>1 DEF SharedInv
    <3>3. SumOver(hash', KeyRegions) = TimeOf(events')
      <4>. DEFINE g == hash'
      <4>1. \A i \in KeyRegions : g[i] = 0
        BY <3>1 DEF NoEvents
      <4>. HIDE DEF g
      <4>2. SumOver(g, KeyRegions) = 0
        BY <4>1, IndicesFinite, SumZero
      <4>. QED
        BY <3>1, <3>2, <4>2, TimeOfNone DEF g
    <3>4. SHARE_INTERVAL' = SHARE_INTERVAL
      BY <3>1 DEF SHARE_INTERVAL
    <3>. HIDE DEF SHARE_INTERVAL
    <3>. QED
      BY <3>1, <3>2, <3>3, <3>4 DEF SharedInv
  <2>4. CASE TaskEndCall \/ TraceWithoutBuffer
    <3>1. /\ pc = "call" /\ pc' # "init" /\ ipm_mpi_checkpoint /\ ipm_external_entry
          /\ UNCHANGED <<now, environ>>
          /\ hash' = [hash EXCEPT ![KeyRegion(reg'.region_current)] = @ + (now - T1)]
          /\ events' = Append(events, Event(reg'.region_current))
      BY <2>4 DEF TaskEndCall, EndCall, TraceWithoutBuffer
    <3>2. call \in Calls
      BY <3>1 DEF TraceTypes
    <3>. QED
      BY <2>1, <3>1, <3>2, SharedCall
  <2>5. \/ UNCHANGED <<share, events, environ, hash>> /\ now' \in {now, now + 1}
           /\ (pc' = "init" => pc = "init")
        \/ TaskMpiInit \/ TaskEndCall \/ TraceWithoutBuffer
    BY <1>2 DEF TaskNext, TaskTick, Tick, AlarmRings, vars, own, InitWithoutArguments,
                TraceMallocFails, TaskBeginCall, BeginCall, SnapshotNotOpened, KilledInSnapshot,
                TaskEnter, TaskEnterTooMany, TaskExit, Enter, EnterTooMany, Exit, AppSwitches,
                AtRegion, TaskFinalize, Finalize
  <2>. QED
    BY <2>2, <2>3, <2>4, <2>5
<1>. QED
  BY <1>1, <1>2
-----------------------------------------------------------------------------
(* What ipm_log_write prints of a task is finite.                          *)
LogGiven == environ \in Environments

(* The environment stays what it was.                                      *)
LEMMA EnvironStays ==
  ASSUME [TaskNext]_taskVars
  PROVE  environ' = environ
<1>1. CASE UNCHANGED taskVars
  BY <1>1 DEF taskVars, own
<1>2. CASE TaskNext
  BY <1>2 DEF TaskNext, TaskTick, AlarmRings, own, TaskMpiInit, InitWithoutArguments,
              TraceMallocFails, TaskBeginCall, TaskEndCall, TraceWithoutBuffer,
              SnapshotNotOpened, KilledInSnapshot, TaskEnter, TaskEnterTooMany, TaskExit,
              AtRegion, TaskFinalize
<1>. QED
  BY <1>1, <1>2

LEMMA LogGivenStep ==
  ASSUME LogGiven, [TaskNext]_taskVars
  PROVE  LogGiven'
BY EnvironStays DEF LogGiven

(* A task that has not crashed has a finite number of things to print:     *)
(* variables, regions, calls and entries.                                  *)
LEMMA ProfileFinite ==
  ASSUME LogGiven, HpmInv, SharedInv, ~Ended
  PROVE  IsProfile(Profile)
<1>1. IsFiniteSet(DOMAIN environ)
  <2>1. DOMAIN environ = 1 .. Len(environ) /\ Len(environ) \in Nat
    BY EnvironmentsAssumption DEF LogGiven
  <2>. QED
    BY <2>1, FS_Interval
<1>2. DOMAIN events = 1 .. Len(events) /\ Len(events) \in Nat /\ IsFiniteSet(DOMAIN events)
  <2>1. DOMAIN events = 1 .. Len(events) /\ Len(events) \in Nat
    BY LenProperties DEF SharedInv
  <2>. QED
    BY <2>1, FS_Interval
<1>3. Nregion(reg) \in Nat
  BY LenProperties DEF HpmInv, RegionInv, RegOK, Nregion
<1>. DEFINE madeIn(i) == {c \in Calls : \E n \in DOMAIN events :
                                          events[n].call = c /\ events[n].region = i - 1}
            called == [i \in 1 .. Nregion(reg) |-> madeIn(i)]
            keys == {<<events[n].call, events[n].region>> : n \in DOMAIN events}
<1>4. \A i \in 1 .. Nregion(reg) : IsFiniteSet(called[i])
  <2>. DEFINE b == [n \in DOMAIN events |-> events[n].call]
  <2>1. IsFiniteSet({b[n] : n \in DOMAIN events})
    <3>. HIDE DEF b
    <3>. QED
      BY <1>2, ImageFinite
  <2>2. \A i \in 1 .. Nregion(reg) : called[i] \subseteq {b[n] : n \in DOMAIN events}
    OBVIOUS
  <2>. HIDE DEF called, b
  <2>. QED
    BY <2>1, <2>2, FS_Subset
<1>5. IsFiniteSet(keys)
  <2>. DEFINE b == [n \in DOMAIN events |-> <<events[n].call, events[n].region>>]
  <2>1. IsFiniteSet({b[n] : n \in DOMAIN events})
    <3>. HIDE DEF b
    <3>. QED
      BY <1>2, ImageFinite
  <2>2. {b[n] : n \in DOMAIN events} = keys
    OBVIOUS
  <2>. QED
    BY <2>1, <2>2
<1>6. Len(called) = Nregion(reg) /\ DOMAIN called = 1 .. Nregion(reg)
  <2>1. called \in [1 .. Nregion(reg) -> SUBSET Calls]
    OBVIOUS
  <2>. HIDE DEF called
  <2>2. called \in Seq(SUBSET Calls)
    BY <1>3, <2>1, SeqDef
  <2>3. DOMAIN called = 1 .. Len(called) /\ Len(called) \in Nat
    BY <2>2, LenProperties
  <2>. QED
    BY <1>3, <2>1, <2>3
<1>7. IsFiniteSet({1}) /\ IsFiniteSet({})
  BY FS_Singleton, FS_EmptySet
<1>8. Profile = [flags |-> task.flags, variables |-> DOMAIN environ, reduced |-> {},
                 counters |-> {1}, called |-> called, keys |-> keys]
  BY DEF Profile
<1>. HIDE DEF called, keys
<1>9. /\ Profile.variables = DOMAIN environ /\ Profile.reduced = {} /\ Profile.counters = {1}
      /\ Profile.called = called /\ Profile.keys = keys
  BY <1>8
<1>. QED
  BY <1>1, <1>3, <1>4, <1>5, <1>6, <1>7, <1>9 DEF IsProfile
-----------------------------------------------------------------------------
(***************************************************************************)
(* The options that ipm_init makes of the environment.                     *)
(***************************************************************************)

(* One word of a value, or one clause, as the loops of ipm_get_env see it. *)
FlagWord(t, table, w) ==
  IF w.word \in DOMAIN table
  THEN [t EXCEPT !.flags = (@ \ table[w.word].off) \cup table[w.word].on]
  ELSE t
MaskWord(t, option, w) ==
  [t EXCEPT !.call_mask =
     [c \in Calls |-> IF w.word \in {"*", c} THEN @[c] \cup {option} ELSE @[c]]]

ReportWord(t, w)   == FlagWord(t, ReportWords, w)
LogWord(t, w)      == FlagWord(t, LogWords, w)
ModWord(t, w)      == FlagWord(t, ModWords, w)
ParallelWord(t, w) == FlagWord(t, ParallelWords, w)
NoopWord(t, w)     == MaskWord(t, "NOOP", w)
PassWord(t, w)     == MaskWord(t, "PASS", w)

(* A loop over words leaves the options sound, and those about tracing as  *)
(* they were.                                                              *)
TraceKept(t, u) ==
  /\ Sound(u)
  /\ u.trc_region = t.trc_region
  /\ u.trc_time = t.trc_time
  /\ \A c \in Calls : "TRACE" \in u.call_mask[c] <=> "TRACE" \in t.call_mask[c]

ReportFold   == INSTANCE FoldTheorems WITH Step <- ReportWord, Good <- TraceKept
LogFold      == INSTANCE FoldTheorems WITH Step <- LogWord, Good <- TraceKept
ModFold      == INSTANCE FoldTheorems WITH Step <- ModWord, Good <- TraceKept
ParallelFold == INSTANCE FoldTheorems WITH Step <- ParallelWord, Good <- TraceKept
HpmFold      == INSTANCE FoldTheorems WITH Step <- HpmWord, Good <- TraceKept
NoopFold     == INSTANCE FoldTheorems WITH Step <- NoopWord, Good <- TraceKept
PassFold     == INSTANCE FoldTheorems WITH Step <- PassWord, Good <- TraceKept
TraceFold    == INSTANCE FoldTheorems WITH Step <- TraceClause, Good <- AnyValue
EnvFold      == INSTANCE FoldTheorems WITH Step <- Setting, Good <- AnyValue

IsSequence(s) == DOMAIN s = 1 .. Len(s) /\ Len(s) \in Nat

(* The words of each variable leave the options sound: IPM_REPORT, ...     *)
LEMMA ReportKeeps ==
  ASSUME NEW t, Sound(t), NEW ws, IsSequence(ws)
  PROVE  TraceKept(t, SetFlags(t, ReportWords, ws))
<1>1. SetFlags(t, ReportWords, ws) = ReportFold!Fold(t, ws)
  BY Zenon DEF SetFlags, ReportFold!Fold, ReportWord, FlagWord,
     FoldLeft, MapThenFoldSet, ReportFold!MapThenFoldSet, Max, ReportFold!Max
<1>2. ASSUME NEW u, TraceKept(t, u), NEW w
      PROVE  TraceKept(t, ReportWord(u, w))
  BY <1>2 DEF TraceKept, Sound, ReportWord, FlagWord, ReportWords, Switch, Flags, TaskFields
<1>3. \A u : TraceKept(t, u) => \A i \in 1 .. Len(ws) : TraceKept(t, ReportWord(u, ws[i]))
  BY <1>2
<1>4. TraceKept(t, t)
  BY DEF TraceKept
<1>. QED
  BY <1>1, <1>3, <1>4, ReportFold!FoldGood DEF IsSequence

(* ... IPM_LOG, ...                                                        *)
LEMMA LogKeeps ==
  ASSUME NEW t, Sound(t), NEW ws, IsSequence(ws)
  PROVE  TraceKept(t, SetFlags(t, LogWords, ws))
<1>1. SetFlags(t, LogWords, ws) = LogFold!Fold(t, ws)
  BY Zenon DEF SetFlags, LogFold!Fold, LogWord, FlagWord,
     FoldLeft, MapThenFoldSet, LogFold!MapThenFoldSet, Max, LogFold!Max
<1>2. ASSUME NEW u, TraceKept(t, u), NEW w
      PROVE  TraceKept(t, LogWord(u, w))
  BY <1>2 DEF TraceKept, Sound, LogWord, FlagWord, LogWords, Switch, Flags, TaskFields
<1>3. \A u : TraceKept(t, u) => \A i \in 1 .. Len(ws) : TraceKept(t, LogWord(u, ws[i]))
  BY <1>2
<1>4. TraceKept(t, t)
  BY DEF TraceKept
<1>. QED
  BY <1>1, <1>3, <1>4, LogFold!FoldGood DEF IsSequence

(* ... IPM_MPI_MOD, ...                                                    *)
LEMMA ModKeeps ==
  ASSUME NEW t, Sound(t), NEW ws, IsSequence(ws)
  PROVE  TraceKept(t, SetFlags(t, ModWords, ws))
<1>1. SetFlags(t, ModWords, ws) = ModFold!Fold(t, ws)
  BY Zenon DEF SetFlags, ModFold!Fold, ModWord, FlagWord,
     FoldLeft, MapThenFoldSet, ModFold!MapThenFoldSet, Max, ModFold!Max
<1>2. ASSUME NEW u, TraceKept(t, u), NEW w
      PROVE  TraceKept(t, ModWord(u, w))
  BY <1>2 DEF TraceKept, Sound, ModWord, FlagWord, ModWords, Switch, Flags, TaskFields
<1>3. \A u : TraceKept(t, u) => \A i \in 1 .. Len(ws) : TraceKept(t, ModWord(u, ws[i]))
  BY <1>2
<1>4. TraceKept(t, t)
  BY DEF TraceKept
<1>. QED
  BY <1>1, <1>3, <1>4, ModFold!FoldGood DEF IsSequence

(* ... IPM_PARALLEL_IO, ...                                                *)
LEMMA ParallelKeeps ==
  ASSUME NEW t, Sound(t), NEW ws, IsSequence(ws)
  PROVE  TraceKept(t, SetFlags(t, ParallelWords, ws))
<1>1. SetFlags(t, ParallelWords, ws) = ParallelFold!Fold(t, ws)
  BY Zenon DEF SetFlags, ParallelFold!Fold, ParallelWord, FlagWord,
     FoldLeft, MapThenFoldSet, ParallelFold!MapThenFoldSet, Max, ParallelFold!Max
<1>2. ASSUME NEW u, TraceKept(t, u), NEW w
      PROVE  TraceKept(t, ParallelWord(u, w))
  BY <1>2 DEF TraceKept, Sound, ParallelWord, FlagWord, ParallelWords, Switch, Flags, TaskFields
<1>3. \A u : TraceKept(t, u) => \A i \in 1 .. Len(ws) : TraceKept(t, ParallelWord(u, ws[i]))
  BY <1>2
<1>4. TraceKept(t, t)
  BY DEF TraceKept
<1>. QED
  BY <1>1, <1>3, <1>4, ParallelFold!FoldGood DEF IsSequence

(* ... IPM_MPI_NOOP, ...                                                   *)
LEMMA NoopKeeps ==
  ASSUME NEW t, Sound(t), NEW ws, IsSequence(ws)
  PROVE  TraceKept(t, Mark(t, "NOOP", ws))
<1>1. Mark(t, "NOOP", ws) = NoopFold!Fold(t, ws)
  BY Zenon DEF Mark, NoopFold!Fold, NoopWord, MaskWord,
     FoldLeft, MapThenFoldSet, NoopFold!MapThenFoldSet, Max, NoopFold!Max
<1>2. ASSUME NEW u, TraceKept(t, u), NEW w
      PROVE  TraceKept(t, NoopWord(u, w))
  BY <1>2 DEF TraceKept, Sound, NoopWord, MaskWord, TaskFields
<1>3. \A u : TraceKept(t, u) => \A i \in 1 .. Len(ws) : TraceKept(t, NoopWord(u, ws[i]))
  BY <1>2
<1>4. TraceKept(t, t)
  BY DEF TraceKept
<1>. QED
  BY <1>1, <1>3, <1>4, NoopFold!FoldGood DEF IsSequence

(* ... IPM_MPI_PASS, ...                                                   *)
LEMMA PassKeeps ==
  ASSUME NEW t, Sound(t), NEW ws, IsSequence(ws)
  PROVE  TraceKept(t, Mark(t, "PASS", ws))
<1>1. Mark(t, "PASS", ws) = PassFold!Fold(t, ws)
  BY Zenon DEF Mark, PassFold!Fold, PassWord, MaskWord,
     FoldLeft, MapThenFoldSet, PassFold!MapThenFoldSet, Max, PassFold!Max
<1>2. ASSUME NEW u, TraceKept(t, u), NEW w
      PROVE  TraceKept(t, PassWord(u, w))
  BY <1>2 DEF TraceKept, Sound, PassWord, MaskWord, TaskFields
<1>3. \A u : TraceKept(t, u) => \A i \in 1 .. Len(ws) : TraceKept(t, PassWord(u, ws[i]))
  BY <1>2
<1>4. TraceKept(t, t)
  BY DEF TraceKept
<1>. QED
  BY <1>1, <1>3, <1>4, PassFold!FoldGood DEF IsSequence

(* ... IPM_HPM, ...                                                        *)
LEMMA HpmKeeps ==
  ASSUME NEW t, Sound(t), NEW ws, IsSequence(ws)
  PROVE  TraceKept(t, Hpm(t, ws))
<1>1. ASSUME NEW u, TraceKept(t, u), NEW w
      PROVE  TraceKept(t, HpmWord(u, w))
  <2>1. CASE w.word = "no"
    BY <1>1, <2>1 DEF TraceKept, Sound, HpmWord, Flags, TaskFields
  <2>2. CASE w.word # "no"
    <3>1. \E n : HpmWord(u, w) = [u EXCEPT !.hpm_eventset = n]
      BY <2>2 DEF HpmWord
    <3>. QED
      BY <1>1, <3>1 DEF TraceKept, Sound, TaskFields
  <2>. QED
    BY <2>1, <2>2
<1>2. \A u : TraceKept(t, u) => \A i \in 1 .. Len(ws) : TraceKept(t, HpmWord(u, ws[i]))
  BY <1>1
<1>. DEFINE u == FoldLeft(HpmWord, t, ws)
<1>3. u = HpmFold!Fold(t, ws)
  BY Zenon DEF HpmFold!Fold,
     FoldLeft, MapThenFoldSet, HpmFold!MapThenFoldSet, Max, HpmFold!Max
<1>4. TraceKept(t, t)
  BY DEF TraceKept
<1>5. TraceKept(t, u)
  BY <1>2, <1>3, <1>4, HpmFold!FoldGood DEF IsSequence
<1>. HIDE DEF u
<1>6. TraceKept(t, [u EXCEPT !.hpm_eventset = 0])
  BY <1>5 DEF TraceKept, Sound, TaskFields
<1>. QED
  BY <1>5, <1>6 DEF Hpm, u

ClauseTyped(w) ==
  /\ w.sel = "mem" => w.args[1].n \in Nat
  /\ w.sel = "time" => w.args[1] \in [init : Int, final : Nat]

(* The clauses of a kind among the first m.                                *)
Named(ws, m, sel) == {i \in 1 .. m : ws[i].sel = sel}

CallNamed(args, c) == \E i \in DOMAIN args : args[i].word \in {c, "MPI_P2P", "MPI_COL"}

(* What the first m clauses of a setting make of the options t: the last   *)
(* of each kind counts.                                                    *)
ClausesRead(t, u, ws, m) ==
  /\ \A c \in Calls : "TRACE" \in u.call_mask[c] <=>
       (Named(ws, m, "call") # {} => CallNamed(ws[Max(Named(ws, m, "call"))].args, c))
  /\ u.trc_region # <<>> => Named(ws, m, "region") # {}
  /\ u.trc_time = IF Named(ws, m, "time") = {} THEN t.trc_time
                  ELSE ws[Max(Named(ws, m, "time"))].args[1]

(* The greatest number of a set that is known.                             *)
LEMMA MaxIs ==
  ASSUME NEW n \in Nat, NEW S \in SUBSET (1 .. n), n \in S
  PROVE  Max(S) = n
<1>. DEFINE x == Max(S)
<1>1. \A y \in S : n >= y
  OBVIOUS
<1>2. x \in S /\ \A y \in S : x >= y
  BY <1>1 DEF Max
<1>. HIDE DEF x
<1>3. x \in 1 .. n /\ x >= n
  BY <1>2
<1>4. x = n
  BY <1>3
<1>. QED
  BY <1>4 DEF x

(* One more clause is named, or none.                                      *)
LEMMA NamedNext ==
  ASSUME NEW ws, NEW m \in Nat, NEW sel
  PROVE  /\ ws[m + 1].sel # sel => Named(ws, m + 1, sel) = Named(ws, m, sel)
         /\ ws[m + 1].sel = sel => /\ Named(ws, m + 1, sel) # {}
                                  /\ Max(Named(ws, m + 1, sel)) = m + 1
<1>. DEFINE n == m + 1
<1>1. n \in Nat /\ n \in 1 .. n /\ 1 .. n = (1 .. m) \cup {n} /\ 1 .. m \subseteq 1 .. n
  OBVIOUS
<1>. HIDE DEF n
<1>2. ASSUME ws[n].sel # sel
      PROVE  Named(ws, n, sel) = Named(ws, m, sel)
  BY <1>1, <1>2 DEF Named
<1>3. ASSUME ws[n].sel = sel
      PROVE  Named(ws, n, sel) # {} /\ Max(Named(ws, n, sel)) = n
  <2>1. n \in Named(ws, n, sel) /\ Named(ws, n, sel) \in SUBSET (1 .. n)
    BY <1>1, <1>3 DEF Named
  <2>. QED
    BY <1>1, <2>1, MaxIs
<1>. QED
  BY <1>2, <1>3 DEF n

(* A clause decides about what it names.                                   *)
LEMMA ClauseRead ==
  ASSUME NEW u, Sound(u), NEW w, ClauseTyped(w)
  PROVE  /\ Sound(TraceClause(u, w))
         /\ \A c \in Calls : "TRACE" \in TraceClause(u, w).call_mask[c] <=>
              IF w.sel = "call" THEN CallNamed(w.args, c) ELSE "TRACE" \in u.call_mask[c]
         /\ w.sel # "region" => TraceClause(u, w).trc_region = u.trc_region
         /\ TraceClause(u, w).trc_time = IF w.sel = "time" THEN w.args[1] ELSE u.trc_time
<1>. DEFINE v == TraceClause(u, w)
<1>1. CASE w.sel = "region"
  <2>1. v = [u EXCEPT !.trc_region = @ \o w.args]
    BY <1>1 DEF TraceClause, TraceRegions
  <2>. QED
    BY <1>1, <2>1 DEF Sound, TaskFields
<1>2. CASE w.sel = "rank"
  <2>1. \E F \in SUBSET Flags :
          /\ v = [u EXCEPT !.flags = F]
          /\ "IPM_HPM_ACTIVE" \in F <=> "IPM_HPM_ACTIVE" \in u.flags
          /\ "IPM_HPM_CANCELED" \in F <=> "IPM_HPM_CANCELED" \in u.flags
    <3>1. v = TraceRanks(u, w.args)
      BY <1>2 DEF TraceClause
    <3>. QED
      BY <3>1 DEF TraceRanks, Sound, TaskFields, Flags
  <2>. QED
    BY <1>2, <2>1 DEF Sound, TaskFields
<1>3. CASE w.sel = "time"
  <2>1. v = [u EXCEPT !.trc_time = w.args[1]]
    BY <1>3 DEF TraceClause, TraceTime
  <2>. QED
    BY <1>3, <2>1 DEF Sound, TaskFields, ClauseTyped
<1>4. CASE w.sel = "call"
  <2>. DEFINE mask == [c \in Calls |-> IF CallNamed(w.args, c) THEN u.call_mask[c] \cup {"TRACE"}
                                       ELSE u.call_mask[c] \ {"TRACE"}]
  <2>1. v = [u EXCEPT !.call_mask = mask]
    BY <1>4 DEF TraceClause, TraceCalls, CallNamed
  <2>2. u.call_mask \in [Calls -> SUBSET {"TRACE", "PASS", "NOOP"}]
    BY DEF Sound
  <2>3. /\ mask \in [Calls -> SUBSET {"TRACE", "PASS", "NOOP"}]
        /\ \A c \in Calls : "TRACE" \in mask[c] <=> CallNamed(w.args, c)
    BY <2>2
  <2>. HIDE DEF mask
  <2>. QED
    BY <1>4, <2>1, <2>3 DEF Sound, TaskFields
<1>5. CASE w.sel = "mem"
  <2>1. v = [u EXCEPT !.trc_count_max = w.args[1].n]
    BY <1>5 DEF TraceClause, TraceMem
  <2>. QED
    BY <1>5, <2>1 DEF Sound, TaskFields, ClauseTyped
<1>6. CASE w.sel \notin {"region", "rank", "time", "call", "mem"}
  <2>1. v = u
    BY <1>6 DEF TraceClause
  <2>. QED
    BY <1>6, <2>1
<1>. QED
  BY <1>1, <1>2, <1>3, <1>4, <1>5, <1>6

(* A setting of IPM_MPI_TRACE is read as its clauses say.                  *)
LEMMA TraceReads ==
  ASSUME NEW t, Sound(t), NEW ws, IsSequence(ws), \A i \in DOMAIN ws : ClauseTyped(ws[i])
  PROVE  Sound(ipm_trc_select(t, ws)) /\ ClausesRead(t, ipm_trc_select(t, ws), ws, Len(ws))
<1>. DEFINE n == Len(ws)
            base == TraceAll(t)
            U(m) == TraceFold!FoldOver(base, ws, 1 .. m)
            Read == {m \in 0 .. n : Sound(U(m)) /\ ClausesRead(t, U(m), ws, m)}
<1>1. n \in Nat /\ DOMAIN ws = 1 .. n
  BY DEF IsSequence
<1>2. ipm_trc_select(t, ws) = TraceFold!Fold(base, ws)
  BY Zenon DEF ipm_trc_select, TraceFold!Fold,
     FoldLeft, MapThenFoldSet, TraceFold!MapThenFoldSet, Max, TraceFold!Max
<1>3. /\ Sound(base) /\ base.trc_region = <<>> /\ base.trc_time = t.trc_time
      /\ \A c \in Calls : "TRACE" \in base.call_mask[c]
  BY DEF Sound, TaskFields, TraceAll, Flags
<1>. HIDE DEF base, n
<1>4. ipm_trc_select(t, ws) = U(n) /\ U(0) = base
  BY <1>1, <1>2, TraceFold!FoldWhole
<1>5. 0 \in Read
  <2>1. Named(ws, 0, "call") = {} /\ Named(ws, 0, "time") = {}
    BY DEF Named
  <2>. QED
    BY <1>1, <1>3, <1>4, <2>1 DEF ClausesRead
<1>6. ASSUME NEW m \in 0 .. n - 1, m \in Read
      PROVE  m + 1 \in Read
  <2>. DEFINE u == U(m)
              w == ws[m + 1]
              v == TraceClause(u, w)
  <2>1. U(m + 1) = v
    BY TraceFold!FoldNext
  <2>2. Sound(u) /\ ClausesRead(t, u, ws, m)
    BY <1>6
  <2>3. m \in Nat /\ m + 1 \in 1 .. n /\ m + 1 \in 0 .. n
    BY <1>1
  <2>4. ClauseTyped(w)
    BY <1>1, <2>3
  <2>. HIDE DEF u, U
  <2>5. /\ Sound(v)
        /\ \A c \in Calls : "TRACE" \in v.call_mask[c] <=>
             IF w.sel = "call" THEN CallNamed(w.args, c) ELSE "TRACE" \in u.call_mask[c]
        /\ w.sel # "region" => v.trc_region = u.trc_region
        /\ v.trc_time = IF w.sel = "time" THEN w.args[1] ELSE u.trc_time
    BY <2>2, <2>4, ClauseRead
  <2>. HIDE DEF v
  <2>6. \A c \in Calls : "TRACE" \in v.call_mask[c] <=>
          (Named(ws, m + 1, "call") # {} => CallNamed(ws[Max(Named(ws, m + 1, "call"))].args, c))
    <3>1. CASE w.sel = "call"
      BY <2>3, <2>5, <3>1, NamedNext
    <3>2. CASE w.sel # "call"
      BY <2>2, <2>3, <2>5, <3>2, NamedNext DEF ClausesRead
    <3>. QED
      BY <3>1, <3>2
  <2>7. v.trc_region # <<>> => Named(ws, m + 1, "region") # {}
    BY <2>2, <2>3, <2>5, NamedNext DEF ClausesRead
  <2>8. v.trc_time = IF Named(ws, m + 1, "time") = {} THEN t.trc_time
                     ELSE ws[Max(Named(ws, m + 1, "time"))].args[1]
    <3>1. CASE w.sel = "time"
      BY <2>3, <2>5, <3>1, NamedNext
    <3>2. CASE w.sel # "time"
      BY <2>2, <2>3, <2>5, <3>2, NamedNext DEF ClausesRead
    <3>. QED
      BY <3>1, <3>2
  <2>9. ClausesRead(t, v, ws, m + 1)
    BY <2>6, <2>7, <2>8 DEF ClausesRead
  <2>. QED
    BY <2>1, <2>3, <2>5, <2>9
<1>7. n \in Read
  <2>1. Read \in SUBSET (0 .. n)
    OBVIOUS
  <2>2. \A k \in 0 .. n : k \in Read
    <3>. HIDE DEF Read
    <3>. QED
      BY <1>1, <1>5, <1>6, <2>1, UpTo
  <2>. QED
    BY <1>1, <2>2
<1>. QED
  BY <1>4, <1>7 DEF n

EnvironmentTyped(e) ==
  /\ IsSequence(e)
  /\ \A k \in DOMAIN e :
       IF e[k].key = "IPM_MPI_TRACE"
       THEN IsSequence(e[k].clauses) /\ \A i \in DOMAIN e[k].clauses : ClauseTyped(e[k].clauses[i])
       ELSE IsSequence(e[k].words)

(* The environments of a run are sequences of typed settings.              *)
LEMMA EnvironmentsTyped ==
  ASSUME NEW e \in Environments
  PROVE  EnvironmentTyped(e)
BY EnvironmentsAssumption DEF EnvironmentTyped, IsSequence, ClauseTyped

(* The settings of IPM_MPI_TRACE among the first n of an environment, and  *)
(* those of them with a window of time.                                    *)
Settings(e, n) == {k \in 1 .. n : e[k].key = "IPM_MPI_TRACE"}
All(e, k, sel) == Named(e[k].clauses, Len(e[k].clauses), sel)
Timed(e, n) == {k \in Settings(e, n) : All(e, k, "time") # {}}
LastOf(e, k, sel) == e[k].clauses[Max(All(e, k, sel))]

(* What the first n settings make of the options.                          *)
CallsRead(e, n, t) ==
  \A c \in Calls : "TRACE" \in t.call_mask[c] <=>
    /\ Settings(e, n) # {}
    /\ All(e, Max(Settings(e, n)), "call") # {} =>
         CallNamed(LastOf(e, Max(Settings(e, n)), "call").args, c)

RegionsRead(e, n, t) ==
  t.trc_region # <<>> =>
    Settings(e, n) # {} /\ All(e, Max(Settings(e, n)), "region") # {}

TimeRead(e, n, t) ==
  t.trc_time = IF Timed(e, n) = {} THEN [init |-> -1, final |-> -2]
               ELSE LastOf(e, Max(Timed(e, n)), "time").args[1]

EnvRead(e, n, t) == Sound(t) /\ CallsRead(e, n, t) /\ RegionsRead(e, n, t) /\ TimeRead(e, n, t)

(* A setting of another variable changes nothing about tracing.            *)
LEMMA OtherSetting ==
  ASSUME NEW t, Sound(t), NEW s, IsSequence(s.words), s.key # "IPM_MPI_TRACE"
  PROVE  TraceKept(t, Setting(t, s))
<1>1. TraceKept(t, SetFlags(t, ReportWords, s.words)) /\ TraceKept(t, SetFlags(t, LogWords, s.words))
  BY ReportKeeps, LogKeeps
<1>2. TraceKept(t, SetFlags(t, ModWords, s.words)) /\ TraceKept(t, SetFlags(t, ParallelWords, s.words))
  BY ModKeeps, ParallelKeeps
<1>3. /\ TraceKept(t, Mark(t, "NOOP", s.words)) /\ TraceKept(t, Mark(t, "PASS", s.words))
      /\ TraceKept(t, Hpm(t, s.words))
  BY NoopKeeps, PassKeeps, HpmKeeps
<1>4. TraceKept(t, [t EXCEPT !.flags = @ \cup {"IPM_PRELOAD"}])
  BY DEF TraceKept, Sound, TaskFields, Flags
<1>5. /\ TraceKept(t, [t EXCEPT !.log_dir = s.words[1].word])
      /\ TraceKept(t, [t EXCEPT !.log_fname = s.words[1].word])
      /\ TraceKept(t, t)
  BY DEF TraceKept, Sound, TaskFields
<1>. QED
  BY <1>1, <1>2, <1>3, <1>4, <1>5 DEF Setting

(* One more setting, if it is of another variable ...                      *)
LEMMA OtherRead ==
  ASSUME NEW e, NEW n \in Nat, NEW t, EnvRead(e, n, t), NEW u, TraceKept(t, u),
         e[n + 1].key # "IPM_MPI_TRACE"
  PROVE  EnvRead(e, n + 1, u)
<1>1. Settings(e, n + 1) = Settings(e, n)
  BY DEF Settings
<1>2. Timed(e, n + 1) = Timed(e, n)
  BY <1>1 DEF Timed
<1>. QED
  BY <1>1, <1>2 DEF EnvRead, CallsRead, RegionsRead, TimeRead, TraceKept

(* ... and if it is IPM_MPI_TRACE.                                         *)
LEMMA TraceSettingRead ==
  ASSUME NEW e, NEW n \in Nat, NEW t, EnvRead(e, n, t), NEW u, Sound(u),
         ClausesRead(t, u, e[n + 1].clauses, Len(e[n + 1].clauses)),
         e[n + 1].key = "IPM_MPI_TRACE"
  PROVE  EnvRead(e, n + 1, u)
<1>. DEFINE m == n + 1
<1>1. m \in Nat /\ m \in 1 .. m /\ 1 .. m = (1 .. n) \cup {m}
  OBVIOUS
<1>. HIDE DEF m
<1>2. /\ \A c \in Calls : "TRACE" \in u.call_mask[c] <=>
           (All(e, m, "call") # {} => CallNamed(LastOf(e, m, "call").args, c))
      /\ u.trc_region # <<>> => All(e, m, "region") # {}
      /\ u.trc_time = IF All(e, m, "time") = {} THEN t.trc_time
                      ELSE LastOf(e, m, "time").args[1]
  BY DEF ClausesRead, All, LastOf, m
<1>3. m \in Settings(e, m) /\ Settings(e, m) \in SUBSET (1 .. m)
      /\ Settings(e, m) = Settings(e, n) \cup {m}
  BY <1>1 DEF Settings, m
<1>4. Settings(e, m) # {} /\ Max(Settings(e, m)) = m
  BY <1>1, <1>3, MaxIs
<1>5. CallsRead(e, m, u) /\ RegionsRead(e, m, u)
  BY <1>2, <1>4 DEF CallsRead, RegionsRead
<1>6. TimeRead(e, m, u)
  <2>1. CASE All(e, m, "time") = {}
    <3>1. Timed(e, m) = Timed(e, n)
      BY <1>3, <2>1 DEF Timed
    <3>. QED
      BY <1>2, <2>1, <3>1 DEF EnvRead, TimeRead
  <2>2. CASE All(e, m, "time") # {}
    <3>1. m \in Timed(e, m) /\ Timed(e, m) \in SUBSET (1 .. m)
      BY <1>3, <2>2 DEF Timed
    <3>2. Timed(e, m) # {} /\ Max(Timed(e, m)) = m
      BY <1>1, <3>1, MaxIs
    <3>. QED
      BY <1>2, <2>2, <3>2 DEF TimeRead
  <2>. QED
    BY <2>1, <2>2
<1>. QED
  BY <1>5, <1>6 DEF EnvRead, m

(* The options are sound whatever the environment says, in whatever order, *)
(* and about tracing they are what IPM_MPI_TRACE says.                     *)
LEMMA EnvReads ==
  ASSUME NEW e, EnvironmentTyped(e)
  PROVE  EnvRead(e, Len(e), ipm_get_env(e))
<1>. DEFINE n == Len(e)
            base == [InitTask EXCEPT !.flags = @ \cup DebugFlags(e)]
            U(m) == EnvFold!FoldOver(base, e, 1 .. m)
            Read == {m \in 0 .. n : EnvRead(e, m, U(m))}
<1>1. n \in Nat /\ DOMAIN e = 1 .. n
  BY DEF EnvironmentTyped, IsSequence
<1>2. ipm_get_env(e) = EnvFold!Fold(base, e)
  BY Zenon DEF ipm_get_env, EnvFold!Fold,
     FoldLeft, MapThenFoldSet, EnvFold!MapThenFoldSet, Max, EnvFold!Max
<1>3. /\ Sound(base) /\ base.trc_region = <<>>
      /\ base.trc_time = [init |-> -1, final |-> -2]
      /\ \A c \in Calls : "TRACE" \notin base.call_mask[c]
  BY DEF Sound, InitTask, DebugFlags, TaskFields, Flags
<1>. HIDE DEF base, n
<1>4. ipm_get_env(e) = U(n) /\ U(0) = base
  BY <1>1, <1>2, EnvFold!FoldWhole
<1>5. 0 \in Read
  <2>1. Settings(e, 0) = {} /\ Timed(e, 0) = {}
    BY DEF Settings, Timed
  <2>2. EnvRead(e, 0, base)
    BY <1>3, <2>1 DEF EnvRead, CallsRead, RegionsRead, TimeRead
  <2>. QED
    BY <1>1, <1>4, <2>2
<1>6. ASSUME NEW m \in 0 .. n - 1, m \in Read
      PROVE  m + 1 \in Read
  <2>. DEFINE u == U(m)
              s == e[m + 1]
              v == Setting(u, s)
  <2>1. U(m + 1) = v
    BY EnvFold!FoldNext
  <2>2. EnvRead(e, m, u) /\ Sound(u)
    BY <1>6 DEF EnvRead
  <2>3. m \in Nat /\ m + 1 \in 1 .. n /\ m + 1 \in 0 .. n
    BY <1>1
  <2>4. IF s.key = "IPM_MPI_TRACE"
        THEN IsSequence(s.clauses) /\ \A j \in DOMAIN s.clauses : ClauseTyped(s.clauses[j])
        ELSE IsSequence(s.words)
    BY <1>1, <2>3 DEF EnvironmentTyped
  <2>. HIDE DEF u, U
  <2>5. CASE s.key = "IPM_MPI_TRACE"
    <3>1. v = ipm_trc_select(u, s.clauses)
      BY <2>5 DEF Setting
    <3>2. Sound(v) /\ ClausesRead(u, v, s.clauses, Len(s.clauses))
      BY <2>2, <2>4, <2>5, <3>1, TraceReads
    <3>. HIDE DEF v
    <3>3. EnvRead(e, m + 1, v)
      BY <2>2, <2>3, <2>5, <3>2, TraceSettingRead
    <3>. QED
      BY <2>1, <2>3, <3>3
  <2>6. CASE s.key # "IPM_MPI_TRACE"
    <3>1. TraceKept(u, v)
      BY <2>2, <2>4, <2>6, OtherSetting
    <3>. HIDE DEF v
    <3>2. EnvRead(e, m + 1, v)
      BY <2>2, <2>3, <2>6, <3>1, OtherRead
    <3>. QED
      BY <2>1, <2>3, <3>2
  <2>. QED
    BY <2>5, <2>6
<1>7. n \in Read
  <2>1. Read \in SUBSET (0 .. n)
    OBVIOUS
  <2>2. \A k \in 0 .. n : k \in Read
    <3>. HIDE DEF Read
    <3>. QED
      BY <1>1, <1>5, <1>6, <2>1, UpTo
  <2>. QED
    BY <1>1, <2>2
<1>. QED
  BY <1>4, <1>7 DEF n

(* Before MPI_Init nothing has been counted.                               *)
LEMMA HpmInit ==
  ASSUME TaskInit
  PROVE  HpmInv
<1>1. RegionInv /\ pc = "init" /\ reg.region_wtime_init = stamp_init
  BY RegionInvInit DEF TaskInit, Init
<1>2. environ \in Environments
  BY DEF TaskInit
<1>. DEFINE got == ipm_get_env(environ)
<1>3. EnvironmentTyped(environ)
  BY <1>2, EnvironmentsTyped
<1>4. Sound(got)
  BY <1>3, EnvReads DEF EnvRead
<1>. HIDE DEF got
<1>5. PICK failing \in TestSteps \cup {"none"} :
        /\ hpm = IF "IPM_HPM_CANCELED" \in got.flags THEN NoCounters ELSE ipm_hpm_test(failing)
        /\ task = TracePrepared(HpmTested(got, failing = "none"))
  BY DEF TaskInit, got
<1>6. Sound(HpmTested(got, failing = "none"))
  BY <1>4 DEF Sound, HpmTested, TaskFields, Flags
<1>. DEFINE tested == HpmTested(got, failing = "none")
<1>7. Sound(task)
  <2>. HIDE DEF tested
  <2>1. Sound(tested)
    BY <1>6 DEF tested
  <2>2. Sound(TracePrepared(tested))
    BY <2>1, EnvAssumption DEF Sound, TracePrepared, TaskFields
  <2>. QED
    BY <1>5, <2>2 DEF tested
<1>8. hpm \in [state : {"null", "created", "running"}, since : {0, now}, region_init : {0},
               hpm_count : {[i \in Indices |-> 0]}]
  BY <1>5 DEF NoCounters, ipm_hpm_test, TestSteps
<1>9. Counters
  BY <1>1, <1>8 DEF Counters, NothingCounted
<1>. QED
  BY <1>1, <1>7, <1>9 DEF HpmInv

(* The buffer is empty when ipm_init has returned ...                      *)
LEMMA TraceTypesInit ==
  ASSUME TaskInit
  PROVE  TraceTypes
<1>1. Sound(task)
  BY HpmInit DEF HpmInv
<1>2. \A S : <<>> \in Seq(S) /\ Len(<<>>) = 0
  BY EmptySeq
<1>3. trc.buf = <<>> /\ trc.dump = <<>> /\ trc.allocated \in BOOLEAN
      /\ trc = [allocated |-> trc.allocated, buf |-> <<>>, dump |-> <<>>]
  BY DEF TaskInit, BufferMade
<1>4. now \in 1 .. MaxTime /\ call = "none" /\ pc = "init"
  BY RegionAssumption DEF TaskInit, Init, stamp_init
<1>5. trc \in [allocated : BOOLEAN, buf : Seq(TraceEntries), dump : Seq(DumpEntries)]
  BY <1>2, <1>3
<1>6. Len(trc.dump) = 0 /\ Len(trc.buf) = 0
  BY <1>2, <1>3
<1>7. task.trc_count_max \in Nat
  BY <1>1 DEF Sound
<1>. QED
  BY <1>4, <1>5, <1>6, <1>7 DEF TraceTypes

(* The first alarm is set for the beginning of the window ...              *)
LEMMA AlarmTypesInit ==
  ASSUME TaskInit
  PROVE  AlarmTypes
<1>1. Sound(task) /\ now = stamp_init
  BY HpmInit DEF HpmInv, TaskInit, Init
<1>2. PICK tested : /\ task = TracePrepared(tested)
                    /\ alarm = IF Windowed(tested) THEN Alarm("tron", tested.trc_time.init)
                                                   ELSE NoAlarm
  BY DEF TaskInit
<1>3. tested.trc_time = task.trc_time
  BY <1>1, <1>2 DEF TracePrepared, Sound, TaskFields
<1>4. task.trc_time.init \in Int
  BY <1>1 DEF Sound
<1>. QED
  BY <1>1, <1>2, <1>3, <1>4 DEF AlarmTypes, Alarm, NoAlarm, Windowed, stamp_init
-----------------------------------------------------------------------------
(***************************************************************************)
(* What is traced.                                                         *)
(***************************************************************************)

(* IPM_MPI_TRACE as an environment e has it.                               *)
SelectedBy(e, c) ==
  /\ Settings(e, Len(e)) # {}
  /\ All(e, Max(Settings(e, Len(e))), "call") # {} =>
       CallNamed(LastOf(e, Max(Settings(e, Len(e))), "call").args, c)

RegionsNamedBy(e) ==
  Settings(e, Len(e)) # {} /\ All(e, Max(Settings(e, Len(e))), "region") # {}

WindowOf(e) == LastOf(e, Max(Timed(e, Len(e))), "time").args[1]

WithinWindow(w, t) ==
  w.init >= 0 =>
    /\ w.init > 0
    /\ t >= stamp_init + w.init
    /\ w.final > 0 => t <= stamp_init + w.init + w.final

InWindow(e, t) == Timed(e, Len(e)) # {} => WithinWindow(WindowOf(e), t)

(* That is what the properties say of the environment of the program.      *)
LEMMA EnvironRead ==
  ASSUME environ \in Environments
  PROVE  /\ \A c : CallSelected(c) <=> SelectedBy(environ, c)
         /\ RegionsNamed <=> RegionsNamedBy(environ)
         /\ TimeSettings = Timed(environ, Len(environ))
         /\ \A t : TimeSelected(t) <=> InWindow(environ, t)
<1>. DEFINE S == Settings(environ, Len(environ))
<1>1. /\ DOMAIN environ = 1 .. Len(environ) /\ Len(environ) \in Nat
      /\ \A k \in DOMAIN environ : environ[k].key = "IPM_MPI_TRACE" =>
           DOMAIN environ[k].clauses = 1 .. Len(environ[k].clauses)
  BY EnvironmentsTyped DEF EnvironmentTyped, IsSequence
<1>2. TraceSettings = S /\ S \in SUBSET (1 .. Len(environ))
  BY <1>1 DEF TraceSettings, Settings
<1>3. \A k \in S : \A sel : Clauses(k, sel) = All(environ, k, sel)
  BY <1>1 DEF Settings, Clauses, All, Named
<1>4. S # {} => Max(S) \in S
  <2>. HIDE DEF S
  <2>. QED
    BY <1>1, <1>2, MaxOfSome DEF Part
<1>5. \A k \in S : \A sel : LastClause(k, sel) = LastOf(environ, k, sel)
  BY <1>3 DEF LastClause, LastOf
<1>6. TimeSettings = Timed(environ, Len(environ))
  BY <1>2, <1>3 DEF TimeSettings, Timed
<1>7. TimeSettings # {} => Max(TimeSettings) \in S
  <2>1. TimeSettings \in SUBSET S /\ TimeSettings \in SUBSET (1 .. Len(environ))
    BY <1>2 DEF TimeSettings
  <2>2. TimeSettings # {} => Max(TimeSettings) \in TimeSettings
    BY <1>1, <2>1, MaxOfSome DEF Part
  <2>. QED
    BY <2>1, <2>2
<1>. HIDE DEF S
<1>8. ASSUME NEW c
      PROVE  CallSelected(c) <=> SelectedBy(environ, c)
  <2>1. CASE S = {}
    BY <1>2, <2>1 DEF CallSelected, SelectedBy, S
  <2>2. CASE S # {}
    <3>1. /\ Clauses(Max(S), "call") = All(environ, Max(S), "call")
          /\ LastClause(Max(S), "call") = LastOf(environ, Max(S), "call")
      BY <1>3, <1>4, <1>5, <2>2
    <3>. QED
      BY <1>2, <2>2, <3>1 DEF CallSelected, SelectedBy, CallNamed, S
  <2>. QED
    BY <2>1, <2>2
<1>9. RegionsNamed <=> RegionsNamedBy(environ)
  <2>1. S # {} => Clauses(Max(S), "region") = All(environ, Max(S), "region")
    BY <1>3, <1>4
  <2>. QED
    BY <1>2, <2>1 DEF RegionsNamed, RegionsNamedBy, S
<1>10. ASSUME NEW t
       PROVE  TimeSelected(t) <=> InWindow(environ, t)
  <2>1. CASE TimeSettings = {}
    BY <1>6, <2>1 DEF TimeSelected, InWindow
  <2>2. CASE TimeSettings # {}
    <3>1. LastClause(Max(TimeSettings), "time") = LastOf(environ, Max(TimeSettings), "time")
      BY <1>5, <1>7, <2>2
    <3>. QED
      BY <1>6, <2>2, <3>1 DEF TimeSelected, InWindow, WindowOf, WithinWindow
  <2>. QED
    BY <2>1, <2>2
<1>. QED
  BY <1>6, <1>8, <1>9, <1>10

(* The options about tracing are those of the environment, for as long as  *)
(* the program runs.                                                       *)
TraceOptions ==
  /\ environ \in Environments
  /\ \A c \in Calls : "TRACE" \in task.call_mask[c] <=> SelectedBy(environ, c)
  /\ task.trc_region # <<>> => RegionsNamedBy(environ)
  /\ task.trc_time = IF Timed(environ, Len(environ)) = {} THEN [init |-> -1, final |-> -2]
                     ELSE WindowOf(environ)

(* The environment makes them so ...                                       *)
LEMMA TraceOptionsInit ==
  ASSUME TaskInit
  PROVE  TraceOptions
<1>. DEFINE got == ipm_get_env(environ)
<1>1. environ \in Environments
  BY DEF TaskInit
<1>2. EnvRead(environ, Len(environ), got)
  BY <1>1, EnvironmentsTyped, EnvReads
<1>. HIDE DEF got
<1>3. PICK ok \in BOOLEAN : task = TracePrepared(HpmTested(got, ok))
  BY DEF TaskInit, got
<1>4. /\ task.call_mask = got.call_mask
      /\ task.trc_region = got.trc_region
      /\ task.trc_time = got.trc_time
  BY <1>2, <1>3 DEF EnvRead, TracePrepared, HpmTested, Sound, TaskFields
<1>. QED
  BY <1>1, <1>2, <1>4 DEF EnvRead, CallsRead, RegionsRead, TimeRead, TraceOptions, SelectedBy,
                          RegionsNamedBy, WindowOf

(* ... and no step changes them.                                           *)
LEMMA TraceOptionsStep ==
  ASSUME HpmInv, TraceOptions, [TaskNext]_taskVars
  PROVE  TraceOptions'
<1>1. environ' = environ
  BY EnvironStays
<1>2. /\ task'.call_mask = task.call_mask
      /\ task'.trc_time = task.trc_time
      /\ task'.trc_region = task.trc_region
  <2>1. CASE TaskNext
    BY <2>1, EndedStays, OptionsKept DEF HpmInv
  <2>2. CASE UNCHANGED taskVars
    BY <2>2 DEF taskVars, own
  <2>. QED
    BY <2>1, <2>2
<1>. QED
  BY <1>1, <1>2 DEF TraceOptions

(* Without regions of IPM_MPI_TRACE nothing happens when one is entered.   *)
LEMMA NoRegionsTraced ==
  ASSUME NEW t, t.trc_region = <<>>
  PROVE  (\A r : TraceAtRegion(t, r) = t) /\ TraceAtLeave(t) = t
<1>1. \A r : TraceAtRegion(t, r) = t
  BY DEF TraceAtRegion, SwitchesOn
<1>. QED
  BY <1>1 DEF TraceAtLeave

(* What the end of a call does to the buffer and to the tracing.           *)
LEMMA EndCallTraces ==
  ASSUME Sound(task), TraceTypes, TaskEndCall
  PROVE  \E t :
    LET x == TraceCall(t, KeyRegion(reg'.region_current))
    IN /\ t.call_mask = task.call_mask /\ t.trc_count_max = task.trc_count_max
       /\ task.trc_region = <<>> => t.flags = task.flags
       /\ trc'.allocated = trc.allocated
       /\ \/ /\ Traced(t)
             /\ trc'.buf = x.buf
             /\ task'.flags = IF x.on THEN t.flags ELSE t.flags \ {"IPM_TRC_ACTIVE"}
          \/ /\ ~Traced(t)
             /\ trc'.buf = trc.buf
             /\ task'.flags = t.flags
<1>. DEFINE a == AfterCheckpoint
            t == IF SnapshotWanted THEN [a EXCEPT !.log_dir = LogDir] ELSE a
            x == TraceCall(t, KeyRegion(reg'.region_current))
            dumped == IF SnapshotDue THEN ipm_trc_dump ELSE trc
<1>1. Sound(a) /\ OthersKept(task, a)
  BY TraceAtLeaveKeeps DEF AfterCheckpoint, OthersKept, FlagsKept, Sound
<1>2. task.trc_region = <<>> => a = task
  BY NoRegionsTraced DEF AfterCheckpoint
<1>3. dumped \in [allocated : {trc.allocated}, buf : {trc.buf}, dump : Seq(DumpEntries)]
  <2>1. CASE SnapshotDue
    BY <2>1, DumpTypes DEF TraceTypes
  <2>2. CASE ~SnapshotDue
    BY <2>2 DEF TraceTypes
  <2>. QED
    BY <2>1, <2>2
<1>4. \/ /\ Traced(t)
         /\ trc' = [dumped EXCEPT !.buf = x.buf]
         /\ task' = IF x.on THEN t ELSE [t EXCEPT !.flags = @ \ {"IPM_TRC_ACTIVE"}]
      \/ /\ ~Traced(t)
         /\ task' = t
         /\ trc' = dumped
  BY Zenon DEF TaskEndCall
<1>. HIDE DEF a, x, dumped
<1>5. /\ t.call_mask = task.call_mask /\ t.trc_count_max = task.trc_count_max
      /\ task.trc_region = <<>> => t.flags = task.flags
      /\ DOMAIN t = TaskFields
  BY <1>1, <1>2 DEF Sound, TaskFields, OthersKept
<1>. HIDE DEF t
<1>6. trc'.allocated = trc.allocated
  BY <1>3, <1>4
<1>7. CASE /\ Traced(t)
           /\ trc' = [dumped EXCEPT !.buf = x.buf]
           /\ task' = IF x.on THEN t ELSE [t EXCEPT !.flags = @ \ {"IPM_TRC_ACTIVE"}]
  <2>1. trc'.buf = x.buf
    BY <1>3, <1>7
  <2>2. task'.flags = IF x.on THEN t.flags ELSE t.flags \ {"IPM_TRC_ACTIVE"}
    BY <1>5, <1>7 DEF TaskFields
  <2>. QED
    BY <1>5, <1>6, <1>7, <2>1, <2>2 DEF x
<1>8. CASE ~Traced(t) /\ task' = t /\ trc' = dumped
  BY <1>3, <1>5, <1>6, <1>8
<1>. QED
  BY <1>4, <1>7, <1>8

(* The two values of the flag, as constants the SMT solver leaves alone.   *)
TracesOn  == TRUE
TracesOff == FALSE

(* One entry, in a full buffer and in one that is not.                     *)
LEMMA TraceOne ==
  ASSUME NEW x, NEW e
  PROVE  /\ Len(x.buf) >= x.max => ipm_trace(x, e) = [x EXCEPT !.on = TracesOff]
         /\ ~(Len(x.buf) >= x.max) => ipm_trace(x, e) = [x EXCEPT !.buf = Append(x.buf, e)]
<1>1. ASSUME Len(x.buf) >= x.max
      PROVE  ipm_trace(x, e) = [x EXCEPT !.on = TracesOff]
  BY <1>1, Zenon DEF ipm_trace, TracesOff
<1>2. ASSUME ~(Len(x.buf) >= x.max)
      PROVE  ipm_trace(x, e) = [x EXCEPT !.buf = Append(x.buf, e)]
  BY <1>2, Zenon DEF ipm_trace
<1>. QED
  BY <1>1, <1>2, Zenon

(* Two entries fit the buffer both, the first only, or not.                *)
LEMMA TraceTwice ==
  ASSUME NEW b, NEW m, NEW e1, NEW e2, NEW x,
         x = ipm_trace(ipm_trace([buf |-> b, on |-> TracesOn, max |-> m], e1), e2)
  PROVE  /\ Len(b) >= m => x.buf = b /\ x.on = TracesOff
         /\ ~(Len(b) >= m) /\ Len(Append(b, e1)) >= m =>
              x.buf = Append(b, e1) /\ x.on = TracesOff
         /\ ~(Len(b) >= m) /\ ~(Len(Append(b, e1)) >= m) =>
              x.buf = Append(Append(b, e1), e2) /\ x.on = TracesOn
<1>. DEFINE x0 == [buf |-> b, on |-> TracesOn, max |-> m]
            x1 == ipm_trace(x0, e1)
<1>1. x0.buf = b /\ x0.max = m /\ x0.on = TracesOn /\ DOMAIN x0 = {"buf", "on", "max"}
  OBVIOUS
<1>2. x = ipm_trace(x1, e2)
  OBVIOUS
<1>. HIDE DEF x0
<1>3. /\ Len(x0.buf) >= x0.max => x1 = [x0 EXCEPT !.on = TracesOff]
      /\ ~(Len(x0.buf) >= x0.max) => x1 = [x0 EXCEPT !.buf = Append(x0.buf, e1)]
  BY TraceOne, Zenon
<1>. HIDE DEF x1
<1>4. /\ Len(x1.buf) >= x1.max => x = [x1 EXCEPT !.on = TracesOff]
      /\ ~(Len(x1.buf) >= x1.max) => x = [x1 EXCEPT !.buf = Append(x1.buf, e2)]
  BY <1>2, TraceOne, Zenon
<1>5. CASE Len(b) >= m
  <2>1. x1.buf = b /\ x1.on = TracesOff /\ x1.max = m /\ DOMAIN x1 = {"buf", "on", "max"}
    BY <1>1, <1>3, <1>5
  <2>. QED
    BY <1>4, <1>5, <2>1
<1>6. CASE ~(Len(b) >= m)
  <2>1. /\ x1.buf = Append(b, e1) /\ x1.on = TracesOn /\ x1.max = m
        /\ DOMAIN x1 = {"buf", "on", "max"}
    BY <1>1, <1>3, <1>6
  <2>. QED
    BY <1>4, <1>6, <2>1
<1>. QED
  BY <1>5, <1>6

(* The same of the entries of a call.                                      *)
LEMMA TraceCallIs ==
  ASSUME NEW t, NEW max \in Nat, t.trc_count_max = max, NEW region,
         NEW b \in Seq(TraceEntries), trc.buf = b, Len(b) <= max,
         NEW x, x = TraceCall(t, region),
         NEW e1 \in TraceEntries, e1 = [call |-> call, region |-> region, t |-> T1],
         NEW e2, e2 = [call |-> call, region |-> region, t |-> now]
  PROVE  \/ Len(b) = max /\ x.buf = b /\ ~x.on
         \/ Len(b) = max - 1 /\ x.buf = Append(b, e1) /\ ~x.on
         \/ Len(b) < max - 1 /\ x.buf = Append(Append(b, e1), e2) /\ x.on
<1>1. x = ipm_trace(ipm_trace([buf |-> b, on |-> TracesOn, max |-> max], e1), e2)
  BY Zenon DEF TraceCall, TracesOn
<1>2. /\ Len(b) >= max => x.buf = b /\ x.on = TracesOff
      /\ ~(Len(b) >= max) /\ Len(Append(b, e1)) >= max =>
           x.buf = Append(b, e1) /\ x.on = TracesOff
      /\ ~(Len(b) >= max) /\ ~(Len(Append(b, e1)) >= max) =>
           x.buf = Append(Append(b, e1), e2) /\ x.on = TracesOn
  BY <1>1, TraceTwice
<1>3. Len(b) \in Nat /\ Len(Append(b, e1)) = Len(b) + 1
  BY LenProperties, AppendProperties
<1>4. \/ Len(b) = max /\ x.buf = b /\ x.on = TracesOff
      \/ Len(b) = max - 1 /\ x.buf = Append(b, e1) /\ x.on = TracesOff
      \/ Len(b) < max - 1 /\ x.buf = Append(Append(b, e1), e2) /\ x.on = TracesOn
  BY <1>2, <1>3
<1>. QED
  BY <1>4, Zenon DEF TracesOn, TracesOff

(* Tracing is on only within the window of time, whose end the next alarm  *)
(* is; no alarm is late.                                                   *)
WindowInv ==
  LET w == task.trc_time
      opens  == stamp_init + w.init
      closes == stamp_init + w.init + w.final
  IN /\ alarm.handler # "none" => now <= alarm.due
     /\ alarm.handler = "tron" => w.init > 0 /\ alarm.due = opens
     /\ alarm.handler = "troff" => w.init > 0 /\ w.final > 0 /\ now >= opens /\ alarm.due = closes
     /\ task.trc_region = <<>> /\ w.init >= 0 /\ "IPM_TRC_ACTIVE" \in task.flags =>
          /\ w.init > 0
          /\ now >= opens
          /\ w.final > 0 => alarm.handler = "troff"

(* It is off when ipm_init has returned, if there is a window.             *)
LEMMA WindowInit ==
  ASSUME TaskInit
  PROVE  WindowInv
<1>1. Sound(task) /\ now = stamp_init
  BY HpmInit DEF HpmInv, TaskInit, Init
<1>2. PICK tested : /\ task = TracePrepared(tested)
                    /\ alarm = IF Windowed(tested) THEN Alarm("tron", tested.trc_time.init)
                                                   ELSE NoAlarm
  BY DEF TaskInit
<1>3. /\ tested.trc_time = task.trc_time
      /\ Windowed(tested) => "IPM_TRC_ACTIVE" \notin task.flags
  BY <1>1, <1>2 DEF TracePrepared, Sound, TaskFields
<1>4. task.trc_time.init \in Int /\ (Windowed(tested) <=> task.trc_time.init >= 0)
  BY <1>1, <1>3 DEF Sound, Windowed
<1>5. CASE ~Windowed(tested)
  BY <1>2, <1>4, <1>5 DEF WindowInv, NoAlarm
<1>6. CASE Windowed(tested)
  <2>1. alarm = Alarm("tron", task.trc_time.init)
    BY <1>2, <1>3, <1>6
  <2>. QED
    BY <1>1, <1>3, <1>4, <1>6, <2>1 DEF WindowInv, Alarm, NoAlarm, stamp_init
<1>. QED
  BY <1>5, <1>6

(* Without regions nothing but the alarm turns tracing on.                 *)
LEMMA OnlyAlarmsTurnOn ==
  ASSUME Sound(task), TraceTypes, TaskNext, ~AlarmRings, task.trc_region = <<>>,
         "IPM_TRC_ACTIVE" \in task'.flags
  PROVE  "IPM_TRC_ACTIVE" \in task.flags
<1>1. CASE task' = task
  BY <1>1
<1>2. CASE TaskMpiInit
  <2>1. PICK t : /\ t = task \/ t = [task EXCEPT !.flags = @ \ {"IPM_HPM_ACTIVE"}]
                 /\ task' = TraceAtRegion(t, reg')
    BY <1>2 DEF TaskMpiInit
  <2>2. t.trc_region = <<>> /\ t.flags \subseteq task.flags
    BY <2>1 DEF Sound, TaskFields
  <2>. QED
    BY <2>1, <2>2, NoRegionsTraced
<1>3. CASE TaskEndCall
  BY <1>3, EndCallTraces
<1>4. CASE \E l \in Labels : TaskEnter(l) \/ TaskExit(l)
  BY <1>4, NoRegionsTraced DEF TaskEnter, TaskExit, AtRegion
<1>5. CASE TaskFinalize
  <2>1. task' = [task EXCEPT !.flags = (@ \ {"IPM_APP_RUNNING"})
                                         \cup {"IPM_APP_COMPLETED", "IPM_MPI_FINALIZING"}]
    BY <1>5, NoRegionsTraced DEF TaskFinalize
  <2>. QED
    BY <2>1 DEF Sound, TaskFields
<1>6. \/ task' = task \/ TaskMpiInit \/ TaskEndCall \/ TaskFinalize
      \/ \E l \in Labels : TaskEnter(l) \/ TaskExit(l)
  BY DEF TaskNext, TaskTick, own, InitWithoutArguments, TraceMallocFails, TaskBeginCall,
         TraceWithoutBuffer, SnapshotNotOpened, KilledInSnapshot, TaskEnterTooMany
<1>. QED
  BY <1>1, <1>2, <1>3, <1>4, <1>5, <1>6

(* What an alarm does, if regions do not interfere.                        *)
LEMMA WindowAlarm ==
  ASSUME HpmInv, TraceTypes, AlarmTypes, WindowInv, AlarmRings, ~Ended
  PROVE  WindowInv'
<1>1. /\ Sound(task) /\ now \in Nat /\ now' = now
      /\ alarm.handler # "none" /\ alarm.due = now
  BY DEF HpmInv, TraceTypes, AlarmTypes, WindowInv, AlarmRings, AlarmDue, vars
<1>2. /\ task.trc_time \in [init : Int, final : Int]
      /\ task.trc_time.final >= 0
  BY <1>1 DEF AlarmTypes, Sound
<1>3. CASE alarm.handler = "tron"
  <2>1. task' = [task EXCEPT !.flags = @ \cup {"IPM_TRC_ACTIVE"}]
        /\ alarm' = Alarm("troff", task.trc_time.final)
    BY <1>3 DEF AlarmRings, HandleAlarm
  <2>2. task'.trc_time = task.trc_time /\ task'.trc_region = task.trc_region
    BY <1>1, <2>1 DEF Sound, TaskFields
  <2>3. task.trc_time.init > 0 /\ now = stamp_init + task.trc_time.init
    BY <1>1, <1>3 DEF WindowInv
  <2>. QED
    BY <1>1, <1>2, <2>1, <2>2, <2>3 DEF WindowInv, Alarm, NoAlarm, stamp_init
<1>4. CASE alarm.handler = "troff"
  <2>1. task' = [task EXCEPT !.flags = @ \ {"IPM_TRC_ACTIVE"}] /\ alarm' = NoAlarm
    BY <1>4 DEF AlarmRings, HandleAlarm
  <2>2. "IPM_TRC_ACTIVE" \notin task'.flags
    BY <1>1, <2>1 DEF Sound, TaskFields
  <2>. QED
    BY <2>1, <2>2 DEF WindowInv, NoAlarm
<1>. QED
  BY <1>3, <1>4 DEF AlarmRings, HandleAlarm

(* Time does not pass a due alarm.                                         *)
LEMMA WindowStep ==
  ASSUME HpmInv, TraceTypes, AlarmTypes, WindowInv, [TaskNext]_taskVars
  PROVE  WindowInv'
<1>1. CASE UNCHANGED taskVars
  BY <1>1 DEF taskVars, vars, own, WindowInv
<1>2. CASE TaskNext
  <2>1. ~Ended /\ Sound(task) /\ now \in Nat
    BY <1>2, EndedStays DEF HpmInv, TraceTypes
  <2>2. CASE AlarmRings
    BY <2>1, <2>2, WindowAlarm
  <2>3. CASE ~AlarmRings
    <3>1. /\ task'.trc_time = task.trc_time /\ task'.trc_region = task.trc_region
          /\ task.trc_time.init \in Int /\ task.trc_time.final \in Int
      BY <1>2, <2>1, OptionsKept DEF Sound
    <3>2. alarm' = alarm
      BY <1>2, <2>3 DEF TaskNext, TaskTick, own, TaskMpiInit, InitWithoutArguments,
         TraceMallocFails, TaskBeginCall, TaskEndCall, TraceWithoutBuffer, SnapshotNotOpened,
         KilledInSnapshot, TaskEnter, TaskEnterTooMany, TaskExit, AtRegion, TaskFinalize
    <3>3. now' = now \/ (now' = now + 1 /\ ~AlarmDue)
      BY <1>2, <2>3 DEF TaskNext, TaskTick, Tick, TaskMpiInit, MpiInit, InitWithoutArguments,
         TraceMallocFails, TaskBeginCall, BeginCall, TaskEndCall, EndCall, TraceWithoutBuffer,
         SnapshotNotOpened, KilledInSnapshot, TaskEnter, TaskEnterTooMany, TaskExit, Enter,
         EnterTooMany, Exit, AppSwitches, TaskFinalize, Finalize
    <3>4. now' \in Nat /\ now' >= now /\ (alarm.handler # "none" => now' <= alarm.due)
      BY <2>1, <3>3 DEF AlarmDue, AlarmTypes, WindowInv
    <3>5. task.trc_region = <<>> /\ "IPM_TRC_ACTIVE" \in task'.flags =>
            "IPM_TRC_ACTIVE" \in task.flags
      BY <1>2, <2>1, <2>3, OnlyAlarmsTurnOn
    <3>. QED
      BY <2>1, <3>1, <3>2, <3>4, <3>5 DEF WindowInv, stamp_init
  <2>. QED
    BY <2>2, <2>3
<1>. QED
  BY <1>1, <1>2

-----------------------------------------------------------------------------
(***************************************************************************)
(* What the trace buffer holds.                                            *)
(***************************************************************************)

(* One sequence more adds its elements to the concatenation.               *)
LEMMA FlattenMore ==
  ASSUME NEW T, NEW g \in Seq(Seq(T)), NEW x \in Seq(T)
  PROVE  FlattenSeq(g) \in Seq(T) /\ FlattenSeq(Append(g, x)) = FlattenSeq(g) \o x
<1>. DEFINE m  == Len(g)
            h  == Append(g, x)
            f  == Flatten(g, m)
            f1 == Flatten(h, m + 1)
<1>0. /\ m \in Nat /\ (m = 0 => g = <<>>)
      /\ \A i \in 1 .. m : g[i] \in Seq(T)
      /\ Len(h) = m + 1 /\ h[m + 1] = x
      /\ \A i \in 1 .. m : h[i] = g[i]
  BY LenProperties, ElementOfSeq, AppendProperties, EmptySeq
<1>. HIDE DEF h
<1>1. \A i \in 1 .. m : f[i] = IF i = 1 THEN g[i] ELSE f[i - 1] \o g[i]
  <2>1. IsFlatten(f, g, m)
    BY <1>0, FlattenExists
  <2>. HIDE DEF f
  <2>. QED
    BY <2>1 DEF IsFlatten
<1>2. \A i \in 1 .. m + 1 : f1[i] = IF i = 1 THEN h[i] ELSE f1[i - 1] \o h[i]
  <2>1. IsFlatten(f1, h, m + 1)
    BY <1>0, FlattenExists
  <2>. HIDE DEF f1
  <2>. QED
    BY <2>1 DEF IsFlatten
<1>3. FlattenSeq(h) = f1[m + 1]
  BY <1>0, FlattenIs
<1>4. m # 0 => FlattenSeq(g) = f[m]
  BY FlattenIs
<1>. HIDE DEF f, f1, m
<1>5. CASE m = 0
  <2>1. FlattenSeq(g) = <<>>
    BY <1>0, <1>5 DEF FlattenSeq, m
  <2>2. f1[1] = h[1] /\ m + 1 = 1 /\ h[1] \in Seq(T)
    BY <1>0, <1>2, <1>5
  <2>3. <<>> \o h[1] = h[1] /\ <<>> \in Seq(T)
    BY <2>2, ConcatEmptySeq, EmptySeq
  <2>. QED
    BY <1>0, <1>3, <1>5, <2>1, <2>2, <2>3 DEF h
<1>6. CASE m # 0
  <2>. DEFINE Same == {i \in 0 .. m : i = 0 \/ (f1[i] = f[i] /\ f[i] \in Seq(T))}
  <2>1. ASSUME NEW k \in 0 .. m - 1, k \in Same
        PROVE  k + 1 \in Same
    <3>1. k + 1 \in 1 .. m /\ k + 1 \in 1 .. m + 1 /\ (k + 1) - 1 = k /\ (k + 1 = 1 <=> k = 0)
      BY <1>0
    <3>2. h[k + 1] = g[k + 1] /\ g[k + 1] \in Seq(T)
      BY <1>0, <3>1
    <3>3. /\ f[k + 1] = IF k = 0 THEN g[k + 1] ELSE f[k] \o g[k + 1]
          /\ f1[k + 1] = IF k = 0 THEN h[k + 1] ELSE f1[k] \o h[k + 1]
      BY <1>1, <1>2, <3>1
    <3>4. k # 0 => f1[k] = f[k] /\ f[k] \in Seq(T)
      BY <2>1
    <3>5. k # 0 => f[k] \o g[k + 1] \in Seq(T)
      BY <3>2, <3>4, ConcatProperties
    <3>6. f1[k + 1] = f[k + 1] /\ f[k + 1] \in Seq(T)
      BY <3>2, <3>3, <3>4, <3>5
    <3>. QED
      BY <3>1, <3>6
  <2>2. m \in Same
    <3>1. Same \in SUBSET (0 .. m) /\ 0 \in Same /\ m \in 0 .. m
      BY <1>0
    <3>. HIDE DEF Same
    <3>. QED
      BY <1>0, <2>1, <3>1, UpTo
  <2>3. f1[m] = f[m] /\ f[m] \in Seq(T)
    BY <1>6, <2>2
  <2>4. m + 1 \in 1 .. m + 1 /\ m + 1 # 1 /\ (m + 1) - 1 = m
    BY <1>0, <1>6
  <2>. QED
    BY <1>0, <1>2, <1>3, <1>4, <1>6, <2>3, <2>4 DEF h
<1>. QED
  BY <1>0, <1>5, <1>6

(* The entries of the selected calls.                                      *)
TimedEntries == [call : Calls, region : KeyRegions, t : Nat]

Entries(e, ev) ==
  IF SelectedBy(e, ev.call)
  THEN <<[call |-> ev.call, region |-> ev.region, t |-> ev.t1],
         [call |-> ev.call, region |-> ev.region, t |-> ev.t2]>>
  ELSE <<>>

AllEntries(e, evs) == FlattenSeq([n \in DOMAIN evs |-> Entries(e, evs[n])])

(* They are entries with a time.                                           *)
LEMMA EntriesType ==
  ASSUME NEW e, NEW ev \in CountedCalls
  PROVE  Entries(e, ev) \in Seq(TimedEntries)
<1>1. /\ [call |-> ev.call, region |-> ev.region, t |-> ev.t1] \in TimedEntries
      /\ [call |-> ev.call, region |-> ev.region, t |-> ev.t2] \in TimedEntries
  BY DEF CountedCalls, TimedEntries
<1>. QED
  BY <1>1 DEF Entries

LEMMA AllEntriesType ==
  ASSUME NEW e, NEW evs \in Seq(CountedCalls)
  PROVE  AllEntries(e, evs) \in Seq(TimedEntries)
<1>. DEFINE m == Len(evs)
            g == [n \in DOMAIN evs |-> Entries(e, evs[n])]
<1>1. /\ m \in Nat /\ DOMAIN evs = 1 .. m
      /\ \A n \in 1 .. m : evs[n] \in CountedCalls
  BY LenProperties, ElementOfSeq
<1>2. \A c \in CountedCalls : Entries(e, c) \in Seq(TimedEntries)
  BY EntriesType
<1>. HIDE DEF m
<1>3. g \in [1 .. m -> Seq(TimedEntries)]
  BY <1>1, <1>2
<1>4. AllEntries(e, evs) = FlattenSeq(g)
  BY DEF AllEntries
<1>. HIDE DEF g
<1>5. g \in Seq(Seq(TimedEntries))
  BY <1>1, <1>3, SeqDef
<1>6. <<>> \in Seq(TimedEntries)
  BY EmptySeq
<1>7. FlattenSeq(g) \in Seq(TimedEntries)
  BY <1>5, <1>6, FlattenMore
<1>. QED
  BY <1>4, <1>7

(* So are those of the buffer.                                             *)
LEMMA BufferTimed ==
  ASSUME NEW b \in Seq(TraceEntries)
  PROVE  b \in Seq(TimedEntries)
<1>1. \A x \in TraceEntries : x \in TimedEntries
  BY RegionAssumption DEF TraceEntries, TimedEntries
<1>2. TraceEntries \subseteq TimedEntries
  BY <1>1, Zenon
<1>3. Len(b) \in Nat /\ b \in [1 .. Len(b) -> TraceEntries]
  BY LenProperties
<1>4. b \in [1 .. Len(b) -> TimedEntries]
  BY <1>2, <1>3
<1>. QED
  BY <1>3, <1>4, SeqDef

(* A call more adds its entries.                                           *)
LEMMA AllEntriesMore ==
  ASSUME NEW e, NEW evs \in Seq(CountedCalls), NEW ev \in CountedCalls
  PROVE  /\ AllEntries(e, evs) \in Seq(TimedEntries)
         /\ AllEntries(e, Append(evs, ev)) = AllEntries(e, evs) \o Entries(e, ev)
<1>. DEFINE m == Len(evs)
            more == Append(evs, ev)
            g == [n \in DOMAIN evs |-> Entries(e, evs[n])]
            h == [n \in DOMAIN more |-> Entries(e, more[n])]
<1>1. /\ m \in Nat /\ DOMAIN evs = 1 .. m
      /\ \A n \in 1 .. m : evs[n] \in CountedCalls
  BY LenProperties, ElementOfSeq
<1>2. /\ more \in Seq(CountedCalls) /\ Len(more) = m + 1 /\ DOMAIN more = 1 .. m + 1
      /\ \A n \in 1 .. m : more[n] = evs[n]
      /\ more[m + 1] = ev
  BY AppendProperties, LenProperties
<1>3. \A c \in CountedCalls : Entries(e, c) \in Seq(TimedEntries)
  BY EntriesType
<1>. HIDE DEF m, more
<1>4. /\ g \in [1 .. m -> Seq(TimedEntries)] /\ h \in [1 .. m + 1 -> Seq(TimedEntries)]
      /\ \A n \in 1 .. m : h[n] = g[n]
      /\ h[m + 1] = Entries(e, ev)
  <2>1. \A n \in 1 .. m + 1 : more[n] \in CountedCalls
    BY <1>2, ElementOfSeq
  <2>. QED
    BY <1>1, <1>2, <1>3, <2>1
<1>5. m + 1 \in Nat
  BY <1>1
<1>6. AllEntries(e, evs) = FlattenSeq(g) /\ AllEntries(e, more) = FlattenSeq(h)
  BY DEF AllEntries
<1>. HIDE DEF g, h
<1>7. /\ g \in Seq(Seq(TimedEntries)) /\ Len(g) = m
      /\ h \in Seq(Seq(TimedEntries)) /\ Len(h) = m + 1
  <2>1. g \in Seq(Seq(TimedEntries)) /\ h \in Seq(Seq(TimedEntries))
    BY <1>1, <1>4, <1>5, SeqDef
  <2>. QED
    BY <1>1, <1>4, <1>5, <2>1, LenProperties
<1>8. h = Append(g, Entries(e, ev))
  <2>. DEFINE a == Append(g, Entries(e, ev))
  <2>1. /\ a \in Seq(Seq(TimedEntries)) /\ Len(a) = m + 1 /\ a[m + 1] = Entries(e, ev)
        /\ \A n \in 1 .. m : a[n] = g[n]
    BY <1>3, <1>7, AppendProperties
  <2>. HIDE DEF a
  <2>2. \A n \in 1 .. m + 1 : h[n] = a[n]
    BY <1>1, <1>4, <2>1
  <2>3. h = a
    BY <1>7, <2>1, <2>2, SeqEqual
  <2>. QED
    BY <2>3 DEF a
<1>9. Entries(e, ev) \in Seq(TimedEntries)
  BY <1>3
<1>10. FlattenSeq(g) \in Seq(TimedEntries) /\ FlattenSeq(h) = FlattenSeq(g) \o Entries(e, ev)
  BY <1>7, <1>8, <1>9, FlattenMore
<1>. QED
  BY <1>6, <1>10 DEF more

(* The beginning of a sequence, as much as fits.                           *)
IsCut(b, all, max) ==
  /\ Len(b) = IF Len(all) < max THEN Len(all) ELSE max
  /\ \A i \in 1 .. Len(b) : b[i] = all[i]

(* Two more elements, of which as many are kept as fit.                    *)
LEMMA CutMore ==
  ASSUME NEW T, NEW b \in Seq(T), NEW all \in Seq(T), NEW max \in Nat, IsCut(b, all, max),
         NEW e1 \in T, NEW e2 \in T,
         NEW c, \/ Len(b) = max /\ c = b
                \/ Len(b) = max - 1 /\ c = Append(b, e1)
                \/ Len(b) < max - 1 /\ c = Append(Append(b, e1), e2)
  PROVE  IsCut(c, all \o <<e1, e2>>, max)
<1>. DEFINE m == Len(all)
            n == Len(b)
            b1 == Append(b, e1)
            b2 == Append(b1, e2)
            pair == <<e1, e2>>
            more == all \o pair
<1>1. m \in Nat /\ n \in Nat /\ n = (IF m < max THEN m ELSE max)
  BY LenProperties DEF IsCut
<1>2. \A i \in 1 .. n : b[i] = all[i]
  BY DEF IsCut
<1>3. /\ b1 \in Seq(T) /\ Len(b1) = n + 1 /\ b1[n + 1] = e1
      /\ \A i \in 1 .. n : b1[i] = b[i]
  BY AppendProperties
<1>4. Len(b2) = n + 2 /\ b2[n + 2] = e2 /\ \A i \in 1 .. n + 1 : b2[i] = b1[i]
  <2>. HIDE DEF b1
  <2>. QED
    BY <1>1, <1>3, AppendProperties
<1>5. /\ Len(more) = m + 2 /\ more[m + 1] = e1 /\ more[m + 2] = e2
      /\ \A i \in 1 .. m : more[i] = all[i]
  <2>1. pair \in Seq(T) /\ Len(pair) = 2 /\ pair[1] = e1 /\ pair[2] = e2
    OBVIOUS
  <2>. HIDE DEF pair
  <2>2. /\ Len(more) = m + 2
        /\ \A i \in 1 .. m + 2 : more[i] = IF i <= m THEN all[i] ELSE pair[i - m]
    <3>1. /\ Len(more) = m + Len(pair)
          /\ \A i \in 1 .. m + Len(pair) : more[i] = IF i <= m THEN all[i] ELSE pair[i - m]
      BY <2>1, ConcatProperties, Zenon
    <3>. QED
      BY <2>1, <3>1
  <2>3. m + 1 \in 1 .. m + 2 /\ m + 2 \in 1 .. m + 2 /\ (m + 1) - m = 1 /\ (m + 2) - m = 2
        /\ ~(m + 1 <= m) /\ ~(m + 2 <= m)
    BY <1>1
  <2>4. \A i \in 1 .. m : i \in 1 .. m + 2 /\ i <= m
    BY <1>1
  <2>. HIDE DEF more, m
  <2>. QED
    BY <2>1, <2>2, <2>3, <2>4
<1>6. CASE n = max
  BY <1>1, <1>2, <1>3, <1>5, <1>6 DEF IsCut
<1>7. CASE n = max - 1
  <2>1. n = m /\ c = b1
    BY <1>1, <1>7
  <2>. HIDE DEF b1, more
  <2>2. \A i \in 1 .. n + 1 : b1[i] = more[i]
    BY <1>1, <1>2, <1>3, <1>5, <2>1
  <2>. QED
    BY <1>1, <1>3, <1>5, <1>7, <2>1, <2>2 DEF IsCut, more
<1>8. CASE n < max - 1
  <2>1. n = m /\ c = b2
    BY <1>1, <1>8
  <2>. HIDE DEF b1, b2, more
  <2>2. \A i \in 1 .. n + 2 : b2[i] = more[i]
    BY <1>1, <1>2, <1>3, <1>4, <1>5, <2>1
  <2>3. Len(c) = n + 2 /\ Len(more) = n + 2 /\ n + 2 <= max
    BY <1>1, <1>4, <1>5, <1>8, <2>1
  <2>4. Len(c) = IF Len(more) < max THEN Len(more) ELSE max
    BY <1>1, <2>3
  <2>. QED
    BY <2>1, <2>2, <2>3, <2>4 DEF IsCut, more
<1>. QED
  BY <1>1, <1>6, <1>7, <1>8

(* Both entries of a call, or as many as the buffer b has room for.        *)
Taken(b, max, ev, c) ==
  LET e1 == [call |-> ev.call, region |-> ev.region, t |-> ev.t1]
      e2 == [call |-> ev.call, region |-> ev.region, t |-> ev.t2]
  IN \/ Len(b) = max /\ c = b
     \/ Len(b) = max - 1 /\ c = Append(b, e1)
     \/ Len(b) < max - 1 /\ c = Append(Append(b, e1), e2)

(* The call that ends is counted, and traced if it is selected and tracing *)
(* is on.                                                                  *)
CallTraced(b, max, ev) ==
  /\ SelectedBy(environ, ev.call)
  /\ Taken(b, max, ev, trc'.buf)
  /\ task.trc_region = <<>> =>
       /\ "IPM_TRC_ACTIVE" \in task.flags
       /\ Len(b) < max - 1 => task'.flags = task.flags

CallNotTraced(b, ev) ==
  /\ trc'.buf = b
  /\ task.trc_region = <<>> =>
       /\ task'.flags = task.flags
       /\ SelectedBy(environ, ev.call) => "IPM_TRC_ACTIVE" \notin task.flags

LEMMA EndCallBuffer ==
  ASSUME HpmInv, HpmInv', TraceTypes, TraceOptions, TaskEndCall
  PROVE  /\ trc'.allocated = trc.allocated
         /\ \E ev \in CountedCalls :
              /\ events' = Append(events, ev) /\ ev.t2 = now
              /\ ev.t1 \in 1 .. MaxTime /\ ev.t2 \in 1 .. MaxTime
              /\ CallTraced(trc.buf, task.trc_count_max, ev) \/ CallNotTraced(trc.buf, ev)
<1>. DEFINE r  == KeyRegion(reg'.region_current)
            ev == [call |-> call, region |-> r, t1 |-> T1, t2 |-> now]
            e1 == [call |-> call, region |-> r, t |-> T1]
            e2 == [call |-> call, region |-> r, t |-> now]
            b  == trc.buf
            max == task.trc_count_max
            active == "IPM_TRC_ACTIVE"
<1>1. /\ Sound(task) /\ RegionInv /\ call \in Calls /\ T1 \in 1 .. MaxTime /\ now \in 1 .. MaxTime
      /\ pc = "call" /\ pc' = "app"
  <2>1. pc = "call" /\ pc' = "app"
    BY DEF TaskEndCall, EndCall
  <2>2. Sound(task) /\ RegionInv /\ call \in Calls
    BY <2>1 DEF HpmInv, TraceTypes, Ended
  <2>. QED
    BY <2>1, <2>2, RegionAssumption DEF RegionInv, Stamps, TraceTypes, stamp_init
<1>2. r \in KeyRegions
  <2>1. reg'.region_current \in {-1} \cup Indices
    BY <1>1 DEF HpmInv, Ended, RegionInv, RegOK, RegType
  <2>. QED
    BY <2>1, KeyRegionType
<1>3. events' = Append(events, ev)
  BY Zenon DEF TaskEndCall, Event
<1>4. PICK t :
        LET x == TraceCall(t, r)
        IN /\ t.call_mask = task.call_mask /\ t.trc_count_max = task.trc_count_max
           /\ task.trc_region = <<>> => t.flags = task.flags
           /\ trc'.allocated = trc.allocated
           /\ \/ /\ Traced(t)
                 /\ trc'.buf = x.buf
                 /\ task'.flags = IF x.on THEN t.flags ELSE t.flags \ {active}
              \/ /\ ~Traced(t)
                 /\ trc'.buf = trc.buf
                 /\ task'.flags = t.flags
  BY <1>1, EndCallTraces, Zenon
<1>. HIDE DEF r
<1>5. /\ ev \in CountedCalls /\ ev.t1 = T1 /\ ev.t2 = now /\ ev.call = call /\ ev.region = r
      /\ e1 \in TraceEntries /\ e2 \in TraceEntries
  BY <1>1, <1>2 DEF CountedCalls, TraceEntries
<1>6. /\ b \in Seq(TraceEntries) /\ Len(b) <= max /\ max \in Nat
  BY <1>1 DEF TraceTypes, Sound
<1>7. SelectedBy(environ, call) <=> "TRACE" \in t.call_mask[call]
  BY <1>1, <1>4 DEF TraceOptions
<1>. DEFINE x == TraceCall(t, r)
<1>8. /\ t.trc_count_max = max
      /\ task.trc_region = <<>> => t.flags = task.flags
      /\ trc'.allocated = trc.allocated
      /\ \/ /\ Traced(t)
            /\ trc'.buf = x.buf
            /\ task'.flags = IF x.on THEN t.flags ELSE t.flags \ {active}
         \/ /\ ~Traced(t)
            /\ trc'.buf = trc.buf
            /\ task'.flags = t.flags
  BY <1>4
<1>9. CASE Traced(t) /\ trc'.buf = x.buf
           /\ task'.flags = IF x.on THEN t.flags ELSE t.flags \ {active}
  <2>1. active \in t.flags /\ SelectedBy(environ, call)
    BY <1>7, <1>9 DEF Traced
  <2>2. \/ Len(b) = max /\ x.buf = b /\ ~x.on
        \/ Len(b) = max - 1 /\ x.buf = Append(b, e1) /\ ~x.on
        \/ Len(b) < max - 1 /\ x.buf = Append(Append(b, e1), e2) /\ x.on
    <3>1. /\ b \in Seq(TraceEntries) /\ trc.buf = b /\ Len(b) <= max
          /\ max \in Nat /\ t.trc_count_max = max /\ x = TraceCall(t, r)
          /\ e1 \in TraceEntries /\ e1 = [call |-> call, region |-> r, t |-> T1]
          /\ e2 = [call |-> call, region |-> r, t |-> now]
      BY <1>5, <1>6, <1>8
    <3>. HIDE DEF x, b, max, e1, e2
    <3>. QED
      BY <3>1, TraceCallIs
  <2>. HIDE DEF x, b, max, e1, e2
  <2>3. Taken(b, max, ev, trc'.buf)
    BY <1>5, <1>9, <2>2, Zenon DEF Taken, e1, e2
  <2>4. task.trc_region = <<>> =>
          /\ active \in task.flags
          /\ Len(b) < max - 1 => task'.flags = task.flags
    <3>1. Len(b) < max - 1 => x.on
      <4>1. Len(b) < max - 1 => ~(Len(b) = max) /\ ~(Len(b) = max - 1)
        BY <1>6 DEF b, max
      <4>. QED
        BY <2>2, <4>1, Zenon
    <3>. QED
      BY <1>8, <1>9, <2>1, <3>1, Zenon
  <2>5. CallTraced(b, max, ev)
    BY <1>5, <2>1, <2>3, <2>4, Zenon DEF CallTraced
  <2>. QED
    BY <1>1, <1>3, <1>5, <1>8, <2>5, Zenon DEF b, max
<1>10. CASE ~Traced(t) /\ trc'.buf = trc.buf /\ task'.flags = t.flags
  <2>1. SelectedBy(environ, call) => active \notin t.flags
    BY <1>7, <1>10 DEF Traced
  <2>. HIDE DEF ev
  <2>2. CallNotTraced(b, ev)
    BY <1>5, <1>8, <1>10, <2>1 DEF CallNotTraced
  <2>. QED
    BY <1>1, <1>3, <1>5, <1>8, <2>2, Zenon
<1>. QED
  BY <1>8, <1>9, <1>10, Zenon

(* The k-th entry of the buffer b is one of the selected call ev.          *)
Records(e, b, k, ev) ==
  /\ b[k].call = ev.call /\ b[k].region = ev.region
  /\ k % 2 = 1 => b[k].t = ev.t1
  /\ k % 2 = 0 => b[k - 1].t = ev.t1 /\ b[k].t = ev.t2
  /\ SelectedBy(e, ev.call)
  /\ ~RegionsNamedBy(e) => InWindow(e, ev.t2)

RecordsAll(e, b, evs) == \A k \in 1 .. Len(b) : \E n \in 1 .. Len(evs) : Records(e, b, k, evs[n])

(* Half a call is at the end of a full buffer only.                        *)
HalfWhenFull(b, max) == Len(b) % 2 = 1 => Len(b) = max

BufferInv ==
  /\ RecordsAll(environ, trc.buf, events)
  /\ HalfWhenFull(trc.buf, task.trc_count_max)
  /\ pc = "done" => Len(trc.dump) = Len(trc.buf)

(* A call that is not traced leaves the entries what they are.             *)
LEMMA RecordsStay ==
  ASSUME NEW e, NEW b, NEW T, NEW evs \in Seq(T), NEW ev, RecordsAll(e, b, evs)
  PROVE  RecordsAll(e, b, Append(evs, ev))
<1>. DEFINE S == T \cup {ev}
<1>1. Len(evs) \in Nat /\ evs \in Seq(S) /\ ev \in S
  <2>1. Len(evs) \in Nat /\ evs \in [1 .. Len(evs) -> T]
    BY LenProperties
  <2>2. evs \in [1 .. Len(evs) -> S]
    BY <2>1
  <2>. QED
    BY <2>1, <2>2, SeqDef
<1>. HIDE DEF S
<1>2. /\ Len(Append(evs, ev)) = Len(evs) + 1
      /\ \A n \in 1 .. Len(evs) : Append(evs, ev)[n] = evs[n]
  BY <1>1, AppendProperties
<1>3. \A n \in 1 .. Len(evs) : n \in 1 .. Len(evs) + 1
  BY <1>1
<1>. QED
  BY <1>2, <1>3 DEF RecordsAll

(* Odd and even numbers.                                                   *)
LEMMA Parity ==
  ASSUME NEW n \in Nat
  PROVE  /\ n % 2 \in {0, 1}
         /\ n % 2 = 0 => (n + 1) % 2 = 1 /\ (n + 2) % 2 = 0
         /\ n % 2 = 0 /\ n # 0 => n - 1 \in Nat \ {0}
  OBVIOUS

(* One that is traced adds entries of its own.                             *)
LEMMA RecordsMore ==
  ASSUME NEW e, NEW b \in Seq(TraceEntries), NEW max \in Nat,
         HalfWhenFull(b, max),
         NEW evs \in Seq(CountedCalls), NEW ev \in CountedCalls, RecordsAll(e, b, evs),
         ev.t1 \in 1 .. MaxTime, ev.t2 \in 1 .. MaxTime,
         SelectedBy(e, ev.call), ~RegionsNamedBy(e) => InWindow(e, ev.t2),
         NEW c, Taken(b, max, ev, c)
  PROVE  /\ RecordsAll(e, c, Append(evs, ev))
         /\ HalfWhenFull(c, max)
<1>. DEFINE n == Len(b)
            m == Len(evs)
            e1 == [call |-> ev.call, region |-> ev.region, t |-> ev.t1]
            e2 == [call |-> ev.call, region |-> ev.region, t |-> ev.t2]
            b1 == Append(b, e1)
            b2 == Append(b1, e2)
            more == Append(evs, ev)
<1>1. n \in Nat /\ m \in Nat
  BY LenProperties
<1>2. e1 \in TraceEntries /\ e2 \in TraceEntries
  BY DEF TraceEntries, CountedCalls
<1>3. /\ b1 \in Seq(TraceEntries) /\ Len(b1) = n + 1 /\ b1[n + 1] = e1
      /\ \A i \in 1 .. n : b1[i] = b[i]
  BY <1>2, AppendProperties
<1>4. Len(b2) = n + 2 /\ b2[n + 2] = e2 /\ \A i \in 1 .. n + 1 : b2[i] = b1[i]
  <2>. HIDE DEF b1
  <2>. QED
    BY <1>1, <1>2, <1>3, AppendProperties
<1>5. Len(more) = m + 1 /\ more[m + 1] = ev /\ m + 1 \in 1 .. m + 1
  BY <1>1, AppendProperties
<1>6. RecordsAll(e, b, more)
  BY RecordsStay
<1>. HIDE DEF n, m, b1, b2, more
<1>7. CASE n = max /\ c = b
  BY <1>6, <1>7 DEF HalfWhenFull, n, more
<1>8. ASSUME n % 2 = 0
      PROVE  Records(e, b1, n + 1, ev)
  <2>1. (n + 1) % 2 = 1
    BY <1>1, <1>8, Parity
  <2>. QED
    BY <1>3, <2>1 DEF Records
<1>9. ASSUME NEW k \in 1 .. n
      PROVE  k \in 1 .. n + 1 /\ k \in 1 .. n + 2 /\ (k % 2 = 0 => k - 1 \in 1 .. n)
  <2>1. k \in Nat /\ k # 0 /\ k <= n
    BY <1>1
  <2>2. k % 2 = 0 => k - 1 \in Nat \ {0}
    BY <2>1, Parity
  <2>3. k \in 1 .. n + 1 /\ k \in 1 .. n + 2
    BY <1>1, <2>1
  <2>4. k - 1 \in Nat \ {0} => k - 1 \in 1 .. n
    BY <1>1, <2>1
  <2>. QED
    BY <2>2, <2>3, <2>4
<1>10. \A k \in 1 .. n : b1[k] = b[k] /\ b2[k] = b[k]
  BY <1>3, <1>4, <1>9
<1>11. ASSUME NEW k \in 1 .. n
       PROVE  \E j \in 1 .. m + 1 : Records(e, b1, k, more[j]) /\ Records(e, b2, k, more[j])
  <2>1. PICK j \in 1 .. m + 1 : Records(e, b, k, more[j])
    BY <1>5, <1>6 DEF RecordsAll, n
  <2>2. b1[k] = b[k] /\ b2[k] = b[k]
        /\ (k % 2 = 0 => b1[k - 1] = b[k - 1] /\ b2[k - 1] = b[k - 1])
    BY <1>9, <1>10
  <2>3. Records(e, b1, k, more[j]) /\ Records(e, b2, k, more[j])
    BY <2>1, <2>2 DEF Records
  <2>. QED
    BY <2>3
<1>12. CASE n = max - 1 /\ c = b1
  <2>1. n % 2 = 0 /\ n + 1 = max
    <3>1. n % 2 = 1 \/ n % 2 = 0
      BY <1>1
    <3>. QED
      BY <1>1, <1>12, <3>1 DEF HalfWhenFull, n
  <2>2. \A k \in 1 .. n + 1 : k \in 1 .. n \/ k = n + 1
    BY <1>1
  <2>3. \A k \in 1 .. n + 1 : \E j \in 1 .. m + 1 : Records(e, b1, k, more[j])
    BY <1>5, <1>8, <1>11, <2>1, <2>2
  <2>. QED
    BY <1>3, <1>5, <1>12, <2>1, <2>3 DEF RecordsAll, HalfWhenFull, more
<1>13. CASE n < max - 1 /\ c = b2
  <2>1. n % 2 = 0 /\ (n + 2) % 2 = 0
    <3>1. n % 2 = 1 \/ n % 2 = 0
      BY <1>1
    <3>2. n % 2 = 0
      BY <1>1, <1>13, <3>1 DEF HalfWhenFull, n
    <3>. QED
      BY <1>1, <3>2
  <2>2. \A k \in 1 .. n + 2 : k \in 1 .. n \/ k = n + 1 \/ k = n + 2
    BY <1>1
  <2>3. n + 1 \in 1 .. n + 1 /\ (n + 1) % 2 = 1 /\ (n + 2) - 1 = n + 1
    BY <1>1, <2>1, Parity
  <2>4. b2[n + 1] = e1
    BY <1>3, <1>4, <2>3
  <2>5. Records(e, b2, n + 1, ev)
    BY <2>3, <2>4 DEF Records
  <2>6. Records(e, b2, n + 2, ev)
    BY <1>4, <2>1, <2>3, <2>4 DEF Records
  <2>7. \A k \in 1 .. n + 2 : \E j \in 1 .. m + 1 : Records(e, b2, k, more[j])
    BY <1>5, <1>11, <2>2, <2>5, <2>6
  <2>8. ~(Len(c) % 2 = 1)
    BY <1>4, <1>13, <2>1
  <2>. QED
    BY <1>4, <1>5, <1>13, <2>7, <2>8 DEF RecordsAll, HalfWhenFull, more
<1>. QED
  BY <1>7, <1>12, <1>13 DEF Taken, n, b1, b2

(* A call that is traced ends within the window, unless regions turn       *)
(* tracing on.                                                             *)
LEMMA EndsInWindow ==
  ASSUME Sound(task), TraceTypes, TraceOptions, WindowInv, ~RegionsNamedBy(environ),
         task.trc_region = <<>> => "IPM_TRC_ACTIVE" \in task.flags
  PROVE  InWindow(environ, now)
<1>. DEFINE w == task.trc_time
<1>1. task.trc_region = <<>> /\ "IPM_TRC_ACTIVE" \in task.flags
  BY DEF TraceOptions
<1>2. SUFFICES ASSUME Timed(environ, Len(environ)) # {}
               PROVE  WithinWindow(WindowOf(environ), now)
  BY DEF InWindow
<1>3. w = WindowOf(environ)
  BY <1>2 DEF TraceOptions
<1>4. WithinWindow(w, now)
  BY <1>1 DEF WindowInv, WithinWindow
<1>. QED
  BY <1>3, <1>4

(* The buffer is empty at first ...                                        *)
LEMMA BufferInit ==
  ASSUME TaskInit
  PROVE  BufferInv
<1>1. trc.buf = <<>> /\ pc = "init" /\ Len(<<>>) = 0 /\ 1 .. 0 = {}
  BY DEF TaskInit, Init
<1>. QED
  BY <1>1 DEF BufferInv, RecordsAll, HalfWhenFull

(* ... and every entry is of a call that was selected.                     *)
LEMMA BufferStep ==
  ASSUME HpmInv, HpmInv', TraceTypes, SharedInv, TraceOptions, WindowInv, BufferInv,
         [TaskNext]_taskVars
  PROVE  BufferInv'
<1>1. environ' = environ
  BY EnvironStays
<1>2. CASE UNCHANGED taskVars
  BY <1>2 DEF taskVars, vars, own, BufferInv
<1>3. CASE TaskNext
  <2>1. Sound(task) /\ task'.trc_count_max = task.trc_count_max
        /\ task.trc_count_max \in Nat
    BY <1>3, OptionsKept DEF HpmInv, Sound
  <2>2. CASE TaskEndCall
    <3>1. PICK ev \in CountedCalls :
            /\ events' = Append(events, ev) /\ ev.t2 = now
            /\ ev.t1 \in 1 .. MaxTime /\ ev.t2 \in 1 .. MaxTime
            /\ CallTraced(trc.buf, task.trc_count_max, ev) \/ CallNotTraced(trc.buf, ev)
      BY <2>2, EndCallBuffer
    <3>2. pc' # "done"
      BY <2>2 DEF TaskEndCall, EndCall
    <3>3. CASE CallTraced(trc.buf, task.trc_count_max, ev)
      <4>. DEFINE b == trc.buf
                  c == trc'.buf
                  max == task.trc_count_max
      <4>1. SelectedBy(environ, ev.call) /\ Taken(b, max, ev, c)
        BY <3>3, Zenon DEF CallTraced
      <4>2. ~RegionsNamedBy(environ) => InWindow(environ, ev.t2)
        BY <2>1, <3>1, <3>3, EndsInWindow DEF CallTraced
      <4>3. /\ b \in Seq(TraceEntries) /\ events \in Seq(CountedCalls)
            /\ RecordsAll(environ, b, events) /\ max \in Nat /\ HalfWhenFull(b, max)
        BY <2>1 DEF TraceTypes, SharedInv, BufferInv
      <4>. HIDE DEF b, c, max
      <4>4. RecordsAll(environ, c, Append(events, ev)) /\ HalfWhenFull(c, max)
        BY <3>1, <4>1, <4>2, <4>3, RecordsMore
      <4>. QED
        BY <1>1, <2>1, <3>1, <3>2, <4>4 DEF BufferInv, c, max
    <3>4. CASE CallNotTraced(trc.buf, ev)
      <4>1. trc'.buf = trc.buf
        BY <3>4 DEF CallNotTraced
      <4>2. RecordsAll(environ, trc.buf, Append(events, ev))
        BY RecordsStay DEF SharedInv, BufferInv
      <4>. QED
        BY <1>1, <2>1, <3>1, <3>2, <4>1, <4>2 DEF BufferInv
    <3>. QED
      BY <3>1, <3>3, <3>4
  <2>3. CASE TaskFinalize
    <3>1. trc' = ipm_trc_dump /\ events' = events
      BY <2>3 DEF TaskFinalize
    <3>2. trc'.buf = trc.buf /\ Len(trc'.dump) = Len(trc.buf)
      BY <3>1, DumpTypes DEF TraceTypes
    <3>. QED
      BY <1>1, <2>1, <3>1, <3>2 DEF BufferInv
  <2>4. CASE TraceWithoutBuffer
    <3>1. /\ trc' = trc /\ events' = Append(events, Event(reg'.region_current)) /\ pc' = "crash"
      BY <2>4 DEF TraceWithoutBuffer
    <3>. DEFINE ev == Event(reg'.region_current)
    <3>. HIDE DEF ev
    <3>2. RecordsAll(environ, trc.buf, Append(events, ev))
      BY RecordsStay DEF SharedInv, BufferInv
    <3>. QED
      BY <1>1, <2>1, <3>1, <3>2 DEF BufferInv, ev
  <2>5. CASE trc'.buf = trc.buf /\ trc'.dump = trc.dump /\ events' = events
             /\ (pc' = "done" => pc = "done")
    BY <1>1, <2>1, <2>5 DEF BufferInv
  <2>6. \/ TaskEndCall \/ TaskFinalize \/ TraceWithoutBuffer
        \/ trc'.buf = trc.buf /\ trc'.dump = trc.dump /\ events' = events
             /\ (pc' = "done" => pc = "done")
    <3>1. CASE TraceMallocFails
      <4>1. trc' = [trc EXCEPT !.allocated = FALSE] /\ events' = events /\ pc' = "crash"
        BY <3>1 DEF TraceMallocFails
      <4>. QED
        BY <4>1 DEF TraceTypes
    <3>2. \/ TaskEndCall \/ TaskFinalize \/ TraceWithoutBuffer \/ TraceMallocFails
          \/ trc' = trc /\ events' = events /\ (pc' = "done" => pc = "done")
      BY <1>3 DEF TaskNext, TaskTick, Tick, AlarmRings, vars, own, TaskMpiInit, MpiInit,
         InitWithoutArguments, TaskBeginCall, BeginCall, SnapshotNotOpened, KilledInSnapshot,
         TaskEnter, TaskEnterTooMany, TaskExit, Enter, EnterTooMany, Exit, AppSwitches, AtRegion
    <3>. QED
      BY <3>1, <3>2
  <2>. QED
    BY <2>2, <2>3, <2>4, <2>5, <2>6
<1>. QED
  BY <1>2, <1>3

(* Without regions only the alarm, and a buffer that is full, turn tracing *)
(* off.                                                                    *)
LEMMA TracingStays ==
  ASSUME Sound(task), TraceTypes, TaskNext, ~AlarmRings, ~TaskEndCall, task.trc_region = <<>>,
         "IPM_TRC_ACTIVE" \in task.flags
  PROVE  "IPM_TRC_ACTIVE" \in task'.flags
<1>1. CASE task' = task
  BY <1>1
<1>2. CASE TaskMpiInit
  <2>1. PICK t : /\ t = task \/ t = [task EXCEPT !.flags = @ \ {"IPM_HPM_ACTIVE"}]
                 /\ task' = TraceAtRegion(t, reg')
    BY <1>2 DEF TaskMpiInit
  <2>2. t.trc_region = <<>> /\ "IPM_TRC_ACTIVE" \in t.flags
    BY <2>1 DEF Sound, TaskFields
  <2>. QED
    BY <2>1, <2>2, NoRegionsTraced
<1>3. CASE \E l \in Labels : TaskEnter(l) \/ TaskExit(l)
  BY <1>3, NoRegionsTraced DEF TaskEnter, TaskExit, AtRegion
<1>4. CASE TaskFinalize
  <2>1. task' = [task EXCEPT !.flags = (@ \ {"IPM_APP_RUNNING"})
                                         \cup {"IPM_APP_COMPLETED", "IPM_MPI_FINALIZING"}]
    BY <1>4, NoRegionsTraced DEF TaskFinalize
  <2>. QED
    BY <2>1 DEF Sound, TaskFields
<1>5. task' = task \/ TaskMpiInit \/ TaskFinalize \/ \E l \in Labels : TaskEnter(l) \/ TaskExit(l)
  BY DEF TaskNext, TaskTick, own, InitWithoutArguments, TraceMallocFails, TaskBeginCall,
         TraceWithoutBuffer, SnapshotNotOpened, KilledInSnapshot, TaskEnterTooMany
<1>. QED
  BY <1>1, <1>2, <1>3, <1>4, <1>5

(* Without windows and regions the buffer holds the selected calls from    *)
(* the first one on, and tracing is on until it is full.                   *)
PrefixInv ==
  trc.allocated /\ task.trc_region = <<>> /\ task.trc_time.init < 0 =>
    /\ Len(trc.buf) < task.trc_count_max => "IPM_TRC_ACTIVE" \in task.flags
    /\ IsCut(trc.buf, AllEntries(environ, events), task.trc_count_max)

(* It is on at first, as there would be no buffer otherwise ...            *)
LEMMA PrefixInit ==
  ASSUME TaskInit
  PROVE  PrefixInv
<1>1. Sound(task)
  BY HpmInit DEF HpmInv
<1>2. PICK tested : /\ task = TracePrepared(tested)
                    /\ trc = [allocated |-> BufferMade(tested), buf |-> <<>>, dump |-> <<>>]
  BY DEF TaskInit
<1>3. SUFFICES ASSUME trc.allocated, task.trc_time.init < 0
               PROVE  /\ "IPM_TRC_ACTIVE" \in task.flags
                      /\ IsCut(trc.buf, AllEntries(environ, events), task.trc_count_max)
  BY DEF PrefixInv
<1>4. "IPM_TRC_ACTIVE" \in task.flags
  <2>1. "IPM_TRC_ACTIVE" \in tested.flags
    BY <1>2, <1>3, Zenon DEF BufferMade
  <2>2. tested.trc_time = task.trc_time
    BY <1>1, <1>2 DEF TracePrepared, Sound, TaskFields
  <2>3. ~Windowed(tested)
    BY <1>1, <1>3, <2>2 DEF Windowed, Sound
  <2>. QED
    BY <1>1, <1>2, <2>1, <2>3 DEF TracePrepared, Sound, TaskFields
<1>5. events = <<>> /\ trc.buf = <<>> /\ task.trc_count_max \in Nat
  BY <1>1, <1>2 DEF TaskInit, Sound
<1>6. AllEntries(environ, <<>>) = <<>>
  <2>. DEFINE g == [n \in DOMAIN <<>> |-> Entries(environ, <<>>[n])]
  <2>1. g = <<>> /\ Len(<<>>) = 0
    OBVIOUS
  <2>2. AllEntries(environ, <<>>) = FlattenSeq(g)
    BY DEF AllEntries
  <2>. HIDE DEF g
  <2>. QED
    BY <2>1, <2>2 DEF FlattenSeq
<1>7. IsCut(<<>>, <<>>, task.trc_count_max)
  BY <1>5 DEF IsCut
<1>. QED
  BY <1>4, <1>5, <1>6, <1>7

(* The end of a call adds what there is room for, or nothing to add.       *)
LEMMA PrefixCall ==
  ASSUME HpmInv, HpmInv', TraceTypes, SharedInv, TraceOptions, PrefixInv, TaskEndCall,
         environ' = environ, task'.trc_count_max = task.trc_count_max,
         trc.allocated, task.trc_region = <<>>, task.trc_time.init < 0
  PROVE  /\ Len(trc'.buf) < task.trc_count_max => "IPM_TRC_ACTIVE" \in task'.flags
         /\ IsCut(trc'.buf, AllEntries(environ, events'), task.trc_count_max)
<1>. DEFINE b == trc.buf
            max == task.trc_count_max
            all == AllEntries(environ, events)
<1>1. PICK ev \in CountedCalls :
        /\ events' = Append(events, ev)
        /\ ev.t1 \in 1 .. MaxTime /\ ev.t2 \in 1 .. MaxTime
        /\ CallTraced(b, max, ev) \/ CallNotTraced(b, ev)
  BY EndCallBuffer
<1>. DEFINE e1 == [call |-> ev.call, region |-> ev.region, t |-> ev.t1]
            e2 == [call |-> ev.call, region |-> ev.region, t |-> ev.t2]
            more == AllEntries(environ, Append(events, ev))
<1>2. events \in Seq(CountedCalls) /\ ev \in CountedCalls
  BY DEF SharedInv
<1>3. all \in Seq(TimedEntries) /\ more = all \o Entries(environ, ev)
  BY <1>2, AllEntriesMore
<1>4. /\ b \in Seq(TimedEntries) /\ b \in Seq(TraceEntries) /\ Len(b) \in Nat /\ max \in Nat
      /\ Len(b) <= max
  <2>1. b \in Seq(TraceEntries) /\ Len(b) \in Nat /\ Len(b) <= max
    BY LenProperties DEF TraceTypes
  <2>2. b \in Seq(TimedEntries)
    BY <2>1, BufferTimed
  <2>3. max \in Nat
    <3>1. pc = "call"
      BY DEF TaskEndCall, EndCall
    <3>. QED
      BY <3>1 DEF HpmInv, Sound
  <2>. QED
    BY <2>1, <2>2, <2>3
<1>5. IsCut(b, all, max) /\ (Len(b) < max => "IPM_TRC_ACTIVE" \in task.flags)
  BY DEF PrefixInv
<1>6. /\ e1 \in TimedEntries /\ e2 \in TimedEntries
      /\ e1 \in TraceEntries /\ e2 \in TraceEntries
  BY <1>1 DEF CountedCalls, TimedEntries, TraceEntries
<1>7. SelectedBy(environ, ev.call) => Entries(environ, ev) = <<e1, e2>>
  BY DEF Entries
<1>8. ~SelectedBy(environ, ev.call) => Entries(environ, ev) = <<>>
  BY DEF Entries
<1>. HIDE DEF b, max, all, e1, e2, more
<1>9. CASE CallTraced(b, max, ev)
  <2>. DEFINE c == trc'.buf
  <2>1. /\ SelectedBy(environ, ev.call)
        /\ \/ Len(b) = max /\ c = b
           \/ Len(b) = max - 1 /\ c = Append(b, e1)
           \/ Len(b) < max - 1 /\ c = Append(Append(b, e1), e2)
    BY <1>9, Zenon DEF CallTraced, Taken, e1, e2
  <2>2. /\ "IPM_TRC_ACTIVE" \in task.flags
        /\ Len(b) < max - 1 => task'.flags = task.flags
    BY <1>9 DEF CallTraced
  <2>. HIDE DEF c
  <2>3. IsCut(c, all \o <<e1, e2>>, max)
    BY <1>3, <1>4, <1>5, <1>6, <2>1, CutMore
  <2>4. Len(c) < max => Len(b) < max - 1
    <3>1. Len(Append(b, e1)) = Len(b) + 1
      BY <1>4, <1>6, AppendProperties
    <3>. QED
      BY <1>4, <2>1, <3>1
  <2>5. IsCut(c, more, max)
    BY <1>3, <1>7, <2>1, <2>3
  <2>. QED
    BY <1>1, <2>2, <2>4, <2>5 DEF c, max, more
<1>10. CASE CallNotTraced(b, ev)
  <2>1. /\ trc'.buf = b /\ task'.flags = task.flags
        /\ SelectedBy(environ, ev.call) => "IPM_TRC_ACTIVE" \notin task.flags
    BY <1>10 DEF CallNotTraced
  <2>2. IsCut(b, more, max)
    <3>1. CASE SelectedBy(environ, ev.call)
      <4>1. Len(b) = max
        BY <1>4, <1>5, <2>1, <3>1
      <4>2. IsCut(b, all \o <<e1, e2>>, max)
        BY <1>3, <1>4, <1>5, <1>6, <4>1, CutMore
      <4>. QED
        BY <1>3, <1>7, <3>1, <4>2
    <3>2. CASE ~SelectedBy(environ, ev.call)
      <4>1. more = all
        BY <1>3, <1>8, <3>2, ConcatEmptySeq
      <4>. QED
        BY <1>5, <4>1
    <3>. QED
      BY <3>1, <3>2
  <2>. QED
    BY <1>1, <1>5, <2>1, <2>2 DEF max, more
<1>. QED
  BY <1>1, <1>9, <1>10 DEF b, max

(* ... and no call that is selected is left out while there is room.       *)
LEMMA PrefixStep ==
  ASSUME HpmInv, HpmInv', TraceTypes, AlarmTypes, SharedInv, TraceOptions, PrefixInv,
         [TaskNext]_taskVars
  PROVE  PrefixInv'
<1>1. environ' = environ
  BY EnvironStays
<1>2. CASE UNCHANGED taskVars
  BY <1>2 DEF taskVars, vars, own, PrefixInv
<1>3. CASE TaskNext
  <2>1. /\ Sound(task)
        /\ task'.trc_count_max = task.trc_count_max
        /\ task'.trc_time = task.trc_time /\ task'.trc_region = task.trc_region
    BY <1>3, OptionsKept DEF HpmInv
  <2>2. SUFFICES ASSUME trc'.allocated, task.trc_region = <<>>, task.trc_time.init < 0
                 PROVE  /\ Len(trc'.buf) < task.trc_count_max => "IPM_TRC_ACTIVE" \in task'.flags
                        /\ IsCut(trc'.buf, AllEntries(environ, events'), task.trc_count_max)
    BY <1>1, <2>1 DEF PrefixInv
  <2>3. CASE TaskEndCall
    <3>1. trc.allocated
      BY <2>2, <2>3, EndCallBuffer
    <3>. QED
      BY <1>1, <2>1, <2>2, <2>3, <3>1, PrefixCall
  <2>4. CASE ~TaskEndCall
    <3>1. trc'.buf = trc.buf /\ trc'.allocated = trc.allocated /\ events' = events
      <4>1. CASE TaskFinalize
        <5>1. trc' = ipm_trc_dump /\ events' = events
          BY <4>1 DEF TaskFinalize
        <5>. QED
          BY <5>1, DumpTypes DEF TraceTypes
      <4>2. CASE TraceMallocFails
        <5>1. trc' = [trc EXCEPT !.allocated = FALSE]
          BY <4>2 DEF TraceMallocFails
        <5>. QED
          BY <2>2, <5>1 DEF TraceTypes
      <4>3. CASE TraceWithoutBuffer
        BY <2>2, <4>3 DEF TraceWithoutBuffer
      <4>4. \/ TaskFinalize \/ TraceWithoutBuffer \/ TraceMallocFails
            \/ trc' = trc /\ events' = events
        BY <1>3, <2>4 DEF TaskNext, TaskTick, AlarmRings, own, TaskMpiInit,
           InitWithoutArguments, TaskBeginCall, SnapshotNotOpened, KilledInSnapshot,
           TaskEnter, TaskEnterTooMany, TaskExit, AtRegion
      <4>. QED
        BY <4>1, <4>2, <4>3, <4>4
    <3>2. /\ Len(trc.buf) < task.trc_count_max => "IPM_TRC_ACTIVE" \in task.flags
          /\ IsCut(trc.buf, AllEntries(environ, events), task.trc_count_max)
      BY <2>2, <3>1 DEF PrefixInv
    <3>3. ~AlarmRings
      BY <2>1, <2>2 DEF AlarmRings, AlarmDue, AlarmTypes, Sound
    <3>4. "IPM_TRC_ACTIVE" \in task.flags => "IPM_TRC_ACTIVE" \in task'.flags
      BY <1>3, <2>1, <2>2, <2>4, <3>3, TracingStays
    <3>. QED
      BY <3>1, <3>2, <3>4
  <2>. QED
    BY <2>3, <2>4
<1>. QED
  BY <1>2, <1>3

-----------------------------------------------------------------------------
(***************************************************************************)
(* What follows for every reachable state.                                 *)
(***************************************************************************)

(* The counters of a region count for as long as the region is charged,    *)
(* through every entry, exit and snapshot, whatever the environment asks   *)
(* for and whichever call of the library fails.                            *)
THEOREM HpmFollowsWallCorrect == TaskSpec => []HpmFollowsWall
<1>1. HpmInv => HpmFollowsWall
  <2>1. SUFFICES ASSUME HpmInv, pc \in {"app", "call", "done", "exit"}
                 PROVE  HpmFollowsWall
    BY DEF HpmFollowsWall
  <2>2. Sound(task) /\ Counters
    BY <2>1 DEF HpmInv, Ended
  <2>. QED
    BY <2>1, <2>2 DEF Counters, CountersFollow, NothingCounted, HpmFollowsWall, Sound
<1>. QED
  BY <1>1, HpmInit, HpmStep, PTL DEF TaskSpec

(* A whole snapshot is the last checkpoint's, and its times add up.        *)
THEOREM SnapshotExactCorrect ==
  ASSUME KnownExits
  PROVE  TaskSpec => []SnapshotExact
<1>1. TaskInit => SnapshotInv
  BY DEF TaskInit, NoSnapshot, SnapshotInv
<1>2. SnapshotInv => SnapshotExact
  BY DEF SnapshotInv, SnapshotExact
<1>. QED
  BY <1>1, <1>2, AccountedInit, AccountedStep, HpmInit, HpmStep, SnapshotStep,
     PTL DEF TaskSpec

(* The figures shared with PBS are never an interval old when a call ends, *)
(* and are the time of the calls counted by then.                          *)
THEOREM SharedInStepCorrect == TaskSpec => []SharedInStep
<1>1. SharedInv => SharedInStep
  <2>1. SUFFICES ASSUME SharedInv, SHARE_INTERVAL > 0, events # <<>>
                 PROVE  SharedInStep
    BY DEF SharedInStep
  <2>2. Last(events) = events[Len(events)]
    BY DEF Last
  <2>. QED
    BY <2>1, <2>2, Zenon DEF SharedInv, SharedInStep, TimeOf
<1>. QED
  BY <1>1, HpmInit, HpmStep, TraceTypesInit, TraceTypesStep, SharedInit, SharedStep,
     PTL DEF TaskSpec

(* The fields of the task are what their types say, in every state.        *)
THEOREM TaskTypeCorrect == TaskSpec => []TaskTypeOK
<1>1. TaskInit => SnapshotTypes /\ LinkTypes
  <2>1. NoTimes \in Times
    BY DEF NoTimes, Times
  <2>. QED
    BY <2>1 DEF TaskInit, SnapshotTypes, NoSnapshot, LinkTypes
<1>2. /\ HpmInv /\ TraceTypes /\ AlarmTypes /\ LinkTypes /\ CounterTypes /\ SnapshotTypes
      /\ SharedInv
      => TaskTypeOK
  BY DEF HpmInv, Sound, TraceTypes, AlarmTypes, LinkTypes, CounterTypes, SnapshotTypes, SharedInv,
         TaskTypeOK
<1>. QED
  BY <1>1, <1>2, HpmInit, HpmStep, TraceTypesInit, TraceTypesStep, AlarmTypesInit, AlarmTypesStep,
     LinkTypesStep, CounterTypesInit, CounterTypesStep, SnapshotTypesStep, SharedInit, SharedStep,
     PTL DEF TaskSpec

(* The log of two tasks like this one is a document, in every environment  *)
(* and whatever regions and calls they have.                               *)
THEOREM LogWellFormedCorrect == TaskSpec => []LogWellFormed
<1>1. LogGiven /\ HpmInv /\ SharedInv => LogWellFormed
  <2>1. SUFFICES ASSUME LogGiven, HpmInv, SharedInv, pc = "done"
                 PROVE  WellFormed(WholeLog(<<Profile, Profile>>))
    BY DEF LogWellFormed
  <2>2. ~Ended
    BY <2>1 DEF Ended
  <2>3. IsProfile(Profile)
    BY <2>1, <2>2, ProfileFinite
  <2>. DEFINE p == Profile
              profiles == <<p, p>>
  <2>. HIDE DEF p
  <2>4. Len(profiles) = 2 /\ DOMAIN profiles = 1 .. 2 /\ \A k \in 1 .. 2 : profiles[k] = p
    OBVIOUS
  <2>5. 2 \in Nat \ {0} /\ \A k \in 1 .. 2 : IsProfile(profiles[k])
    BY <2>3, <2>4 DEF p
  <2>. HIDE DEF profiles
  <2>6. WellFormed(WholeLog(profiles))
    BY <2>4, <2>5, LogIsElement
  <2>. QED
    BY <2>6 DEF profiles, p
<1>2. TaskInit => LogGiven
  BY DEF TaskInit, LogGiven
<1>. QED
  BY <1>1, <1>2, LogGivenStep, HpmInit, HpmStep, TraceTypesInit, TraceTypesStep, SharedInit,
     SharedStep, PTL DEF TaskSpec

(* Every entry of the trace buffer is of a call that IPM_MPI_TRACE selects *)
(* by its name and, unless it names regions, by its window of time; only a *)
(* full buffer ends with half a call, and all of it is printed at the end. *)
THEOREM TracedAsSelectedCorrect == TaskSpec => []TracedAsSelected
<1>1. TraceTypes /\ SharedInv /\ TraceOptions /\ BufferInv => TracedAsSelected
  <2>1. SUFFICES ASSUME TraceTypes, SharedInv, TraceOptions, BufferInv
                 PROVE  TracedAsSelected
    OBVIOUS
  <2>. DEFINE b == trc.buf
  <2>2. /\ DOMAIN b = 1 .. Len(b) /\ Len(b) \in Nat /\ DOMAIN events = 1 .. Len(events)
    BY <2>1, LenProperties DEF TraceTypes, SharedInv
  <2>3. /\ \A c : CallSelected(c) <=> SelectedBy(environ, c)
        /\ RegionsNamed <=> RegionsNamedBy(environ)
        /\ \A t : TimeSelected(t) <=> InWindow(environ, t)
    BY <2>1, EnvironRead DEF TraceOptions
  <2>4. RecordsAll(environ, b, events)
    BY <2>1 DEF BufferInv
  <2>5. ASSUME NEW k \in 1 .. Len(b)
        PROVE  LET first == IF k % 2 = 1 THEN k ELSE k - 1
               IN \E n \in DOMAIN events :
                    LET ev == events[n]
                    IN /\ b[k].call = ev.call /\ b[k].region = ev.region
                       /\ b[first].t = ev.t1
                       /\ k = first + 1 => b[k].t = ev.t2
                       /\ CallSelected(ev.call)
                       /\ ~RegionsNamed => TimeSelected(ev.t2)
    <3>1. PICK n \in DOMAIN events : Records(environ, b, k, events[n])
      BY <2>2, <2>4 DEF RecordsAll
    <3>2. k \in Nat /\ (k % 2 = 0 \/ k % 2 = 1)
      BY <2>2, Parity
    <3>. DEFINE ev == events[n]
    <3>3. /\ b[k].call = ev.call /\ b[k].region = ev.region
          /\ CallSelected(ev.call)
          /\ ~RegionsNamed => TimeSelected(ev.t2)
          /\ k % 2 = 1 => b[k].t = ev.t1
          /\ k % 2 = 0 => b[k - 1].t = ev.t1 /\ b[k].t = ev.t2
      BY <2>3, <3>1 DEF Records
    <3>4. CASE k % 2 = 1
      <4>1. k # k + 1
        BY <3>2
      <4>. QED
        BY <3>3, <3>4, <4>1
    <3>5. CASE k % 2 = 0
      BY <3>3, <3>5
    <3>. QED
      BY <3>2, <3>4, <3>5
  <2>6. pc = "done" => Len(trc.dump) = Len(trc.buf)
    BY <2>1 DEF BufferInv
  <2>. QED
    BY <2>2, <2>5, <2>6 DEF TracedAsSelected
<1>. QED
  BY <1>1, HpmInit, HpmStep, TraceTypesInit, TraceTypesStep, AlarmTypesInit, AlarmTypesStep,
     SharedInit, SharedStep, TraceOptionsInit, TraceOptionsStep, WindowInit, WindowStep,
     BufferInit, BufferStep, PTL DEF TaskSpec

(* Without windows and regions no selected call is left out of the buffer  *)
(* until it is full.                                                       *)
THEOREM TracePrefixCorrect == TaskSpec => []TracePrefix
<1>1. HpmInv /\ TraceTypes /\ SharedInv /\ TraceOptions /\ PrefixInv => TracePrefix
  <2>1. SUFFICES ASSUME HpmInv, TraceTypes, SharedInv, TraceOptions, PrefixInv,
                        TimeSettings = {}, ~RegionsNamed, trc.allocated
                 PROVE  LET all == FlattenSeq([n \in DOMAIN events |-> EntriesOf(events[n])])
                        IN trc.buf = SubSeq(all, 1, IF Len(all) < task.trc_count_max THEN Len(all)
                                                    ELSE task.trc_count_max)
    BY DEF TracePrefix
  <2>. DEFINE b == trc.buf
              all == AllEntries(environ, events)
              max == task.trc_count_max
              len == IF Len(all) < max THEN Len(all) ELSE max
  <2>2. environ \in Environments
    BY <2>1 DEF TraceOptions
  <2>3. task.trc_region = <<>> /\ task.trc_time.init < 0
    <3>1. ~RegionsNamedBy(environ) /\ Timed(environ, Len(environ)) = {}
      BY <2>1, <2>2, EnvironRead
    <3>. QED
      BY <2>1, <3>1 DEF TraceOptions
  <2>4. IsCut(b, all, max)
    BY <2>1, <2>3 DEF PrefixInv
  <2>5. FlattenSeq([n \in DOMAIN events |-> EntriesOf(events[n])]) = all
    <3>1. \A ev : EntriesOf(ev) = Entries(environ, ev)
      BY <2>2, EnvironRead DEF EntriesOf, Entries
    <3>2. [n \in DOMAIN events |-> EntriesOf(events[n])]
            = [n \in DOMAIN events |-> Entries(environ, events[n])]
      BY <3>1
    <3>. QED
      BY <3>2 DEF AllEntries
  <2>6. all \in Seq(TimedEntries) /\ Len(all) \in Nat
    <3>1. all \in Seq(TimedEntries)
      BY <2>1, AllEntriesType DEF SharedInv
    <3>. HIDE DEF all
    <3>. QED
      BY <3>1, LenProperties
  <2>7. b \in Seq(TimedEntries) /\ max \in Nat
    BY <2>1, BufferTimed DEF TraceTypes, HpmInv, Sound
  <2>. HIDE DEF b, all, max
  <2>8. len \in Nat /\ len <= Len(all) /\ Len(b) = len /\ \A i \in 1 .. len : b[i] = all[i]
    BY <2>4, <2>6, <2>7 DEF IsCut
  <2>. HIDE DEF len
  <2>9. /\ SubSeq(all, 1, len) \in Seq(TimedEntries)
        /\ Len(SubSeq(all, 1, len)) = len
        /\ \A i \in 1 .. len : SubSeq(all, 1, len)[i] = all[i]
    <3>1. \A i \in 1 .. len : all[i] \in TimedEntries
      BY <2>6, <2>8, ElementOfSeq
    <3>2. /\ SubSeq(all, 1, len) \in Seq(TimedEntries)
          /\ Len(SubSeq(all, 1, len)) = IF 1 <= len THEN len - 1 + 1 ELSE 0
          /\ \A i \in 1 .. len - 1 + 1 : SubSeq(all, 1, len)[i] = all[1 + i - 1]
      BY <2>8, <3>1, SubSeqProperties
    <3>. QED
      BY <2>8, <3>2
  <2>10. b = SubSeq(all, 1, len)
    BY <2>7, <2>8, <2>9, SeqEqual
  <2>. QED
    BY <2>5, <2>10 DEF b, len, max
<1>. QED
  BY <1>1, HpmInit, HpmStep, TraceTypesInit, TraceTypesStep, AlarmTypesInit, AlarmTypesStep,
     SharedInit, SharedStep, TraceOptionsInit, TraceOptionsStep, PrefixInit, PrefixStep,
     PTL DEF TaskSpec
=============================================================================
