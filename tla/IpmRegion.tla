------------------------------ MODULE IpmRegion ------------------------------
(***************************************************************************)
(* The time accounting of one MPI task: code regions (ipm_region), the MPI *)
(* events counted with them, the periodic snapshot an MPI wrapper may take *)
(* (ipm_mpi_checkpoint), and the totals made at MPI_Finalize (ipm_sync).   *)
(*                                                                         *)
(* A field of the global struct task has the name it has there.  Those     *)
(* that ipm_region works on are one record and ipm_region is an operator   *)
(* from record to record, so that a handler is the composition of the      *)
(* calls it makes.  The event hash table is represented by the time it     *)
(* holds for each region, summed over calls and ranks (IpmProfile, which   *)
(* IpmHash implements).  One reading of the clock stands for the two that  *)
(* ipm_region takes at its beginning and its end, and the CPU time of the  *)
(* task is at most its wall time, as it is for a task of one thread.  PBS  *)
(* suspension (duration_adjust, outside the repository) is taken to report *)
(* none.                                                                   *)
(***************************************************************************)
EXTENDS Integers, Sequences, FiniteSets, FiniteSetsExt

CONSTANTS
  Labels,            (* the labels of regions, cut to MAXSIZE_LABEL        *)
  NoRegion,          (* "ipm_noregion"                                     *)
  MAXSIZE_REGION,
  IPM_CHECKPOINT,    (* is IPM_CHECKPOINT set in the environment?          *)
  CHKPT_INTERVAL,
  KnownExits,        (* does the application exit only regions it entered? *)
  MaxTime,           (* bound on the clock                                 *)
  MaxSwitches        (* bound on the entries and exits of the application  *)

ASSUME RegionAssumption ==
  /\ NoRegion \in Labels
  /\ MAXSIZE_REGION \in Nat \ {0}
  /\ IPM_CHECKPOINT \in BOOLEAN
  /\ CHKPT_INTERVAL \in Int
  /\ KnownExits \in BOOLEAN
  /\ MaxTime \in Nat \ {0}
  /\ MaxSwitches \in Nat

VARIABLES
  reg,     (* the fields ipm_region works on: region_label (as long as     *)
           (* region_nregion), region_current, region_wtime, region_count, *)
           (* region_wtime_init and the flag IPM_REGIONALIZED              *)
  hash,    (* per region field of a key, the time of the events            *)
  totals,  (* the fields ipm_sync fills in: call_mtime (summed over the    *)
           (* calls), region_mtime, mtime and wtime                        *)
  stamp,   (* stamp_final and prev_cp_stamp                                *)
  now,     (* IPM_TIME_GET and IPM_TIME_GTOD                               *)
  T1,      (* when the MPI call being made began                           *)
  pc,      (* "init", "app", "call", "done" or "exit"                      *)
  app      (* history: the label the application is in, the number of its  *)
           (* entries and exits and, per label, the time of its MPI calls  *)

vars == <<reg, hash, totals, stamp, now, T1, pc, app>>

Indices == 0 .. MAXSIZE_REGION - 1

(* The region field of a key: region_current -1 becomes the greatest value *)
(* of the field (255), which is not an index of a region (MAXSIZE_REGION).  *)
KeyRegions == 0 .. MAXSIZE_REGION
KeyRegion(current) == IF current = -1 THEN MAXSIZE_REGION ELSE current

stamp_init == 1

Nregion(r) == Len(r.region_label)
Known(r) == 0 .. Nregion(r) - 1
LabelOf(r, i) == r.region_label[i + 1]

(* Faulty RegionTag: the loop stops before the last label.                 *)
RegionTagShort(r, tag) ==
  LET match == {i \in 0 .. Nregion(r) - 2 : LabelOf(r, i) = tag}
  IN IF match = {} THEN -1 ELSE Max(match)

(* The loop over the known labels: the last match counts. *)
RegionTag(r, tag) ==
  LET match == {i \in Known(r) : LabelOf(r, i) = tag}
  IN IF match = {} THEN -1 ELSE Max(match)

(* The label is entered for the first time. *)
IsNew(r, io, tag) == io = 1 /\ RegionTag(r, tag) = -1

(* Faulty TooManyRegions: one label more than the table holds.             *)
OneRegionTooMany(r, io, tag) == IsNew(r, io, tag) /\ Nregion(r) > MAXSIZE_REGION

TooManyRegions(r, io, tag) == IsNew(r, io, tag) /\ Nregion(r) >= MAXSIZE_REGION

(* Faulty NextRegion: the exit of a region does not lead back to region 0. *)
StayInRegion(r, io, tag) == IF IsNew(r, io, tag) THEN Nregion(r) ELSE RegionTag(r, tag)

(* The region that an entry or exit leads to. *)
NextRegion(r, io, tag) ==
  LET region_tag == IF IsNew(r, io, tag) THEN Nregion(r) ELSE RegionTag(r, tag)
  IN IF r.region_current >= 0 /\ region_tag > 0 /\ io = -1 THEN 0 ELSE region_tag

(* Faulty Charge: the time outside all regions is not counted.             *)
ChargeNamedOnly(f, current, d) ==
  [i \in Indices |-> IF i = current /\ i > 0 THEN f[i] + d ELSE f[i]]

(* Add d to the entry of the current region, if there is one. *)
Charge(f, current, d) ==
  [i \in Indices |-> IF i = current THEN f[i] + d ELSE f[i]]

(* Faulty ipm_region: region_current is set before the time is charged.    *)
ipm_region_charging_next(r, io, tag) ==
  LET next == NextRegion(r, io, tag)
  IN [region_label      |-> IF IsNew(r, io, tag) THEN Append(r.region_label, tag)
                                                ELSE r.region_label,
      region_current    |-> next,
      region_wtime      |-> Charge(r.region_wtime, next, now - r.region_wtime_init),
      region_count      |-> Charge(r.region_count, next, 1),
      region_wtime_init |-> now,
      regionalized      |-> next > 0]

(* Faulty ipm_region: the new period begins when the last one did.         *)
ipm_region_no_restamp(r, io, tag) ==
  [region_label      |-> IF IsNew(r, io, tag) THEN Append(r.region_label, tag)
                                              ELSE r.region_label,
   region_current    |-> NextRegion(r, io, tag),
   region_wtime      |-> Charge(r.region_wtime, r.region_current, now - r.region_wtime_init),
   region_count      |-> Charge(r.region_count, r.region_current, 1),
   region_wtime_init |-> r.region_wtime_init,
   regionalized      |-> NextRegion(r, io, tag) > 0]

(* ipm_region(io, tag), when it returns. *)
ipm_region(r, io, tag) ==
  [region_label      |-> IF IsNew(r, io, tag) THEN Append(r.region_label, tag)
                                              ELSE r.region_label,
   region_current    |-> NextRegion(r, io, tag),
   region_wtime      |-> Charge(r.region_wtime, r.region_current, now - r.region_wtime_init),
   region_count      |-> Charge(r.region_count, r.region_current, 1),
   region_wtime_init |-> now,
   regionalized      |-> NextRegion(r, io, tag) > 0]

(* Faulty LeaveRegions: the last period is not ended.                      *)
LeaveRegionsRunning(r) == [r EXCEPT !.region_current = 0]

(* The entry to "ipm_noregion", the exit that follows when it has left the *)
(* task in a region, and the reset of the current region.                  *)
LeaveRegions(r) ==
  LET r1 == ipm_region(r, 1, NoRegion)
      r2 == IF r1.regionalized THEN ipm_region(r1, -1, LabelOf(r1, r1.region_current))
                               ELSE r1
  IN [r2 EXCEPT !.region_current = 0]

(* ipm_sync at stamp_final = now: the call buckets are set, the MPI times  *)
(* added to, and MPI time cut to wall time.  The entries of region field   *)
(* 255 are added past the end of the arrays.                               *)
ipm_sync ==
  LET wall == now - stamp_init
      mpi  == totals.mtime + MapThenSumSet(LAMBDA r : hash[r], KeyRegions)
  IN totals' = [call_mtime   |-> [i \in Indices |-> hash[i]],
                region_mtime |-> [i \in Indices |-> totals.region_mtime[i] + hash[i]],
                mtime        |-> IF mpi > wall THEN wall ELSE mpi,
                wtime        |-> wall]

(* When the last snapshot was taken, or the program began. *)
LastSnapshot == IF stamp.prev_cp = 0 THEN stamp_init ELSE stamp.prev_cp

SnapshotDue ==
  IPM_CHECKPOINT /\ CHKPT_INTERVAL > 0 /\ now - LastSnapshot >= CHKPT_INTERVAL

(* ipm_mpi_checkpoint, from the wrapper of every MPI call. *)
ipm_mpi_checkpoint ==
  \/ /\ SnapshotDue
     /\ reg' = LeaveRegions(reg)
     /\ ipm_sync
     /\ stamp' = [final |-> now, prev_cp |-> now]
  \/ /\ ~SnapshotDue
     /\ stamp' = IF ~IPM_CHECKPOINT THEN stamp
                 ELSE [final   |-> now,
                       prev_cp |-> IF CHKPT_INTERVAL > 0 THEN LastSnapshot ELSE stamp.prev_cp]
     /\ UNCHANGED <<reg, totals>>
-----------------------------------------------------------------------------
NoTimes == [i \in Indices |-> 0]
NoEvents == [r \in KeyRegions |-> 0]

(* After ipm_init: the task is in region 0, which has no label yet. *)
Init ==
  /\ reg = [region_label |-> <<>>, region_current |-> 0, region_wtime |-> NoTimes,
            region_count |-> NoTimes, region_wtime_init |-> stamp_init,
            regionalized |-> FALSE]
  /\ hash = NoEvents
  /\ totals = [call_mtime |-> NoTimes, region_mtime |-> NoTimes, mtime |-> 0, wtime |-> 0]
  /\ stamp = [final |-> 0, prev_cp |-> 0]
  /\ now = stamp_init
  /\ T1 = stamp_init
  /\ pc = "init"
  /\ app = [label |-> NoRegion, switches |-> 0, inCalls |-> [l \in Labels |-> 0]]

Tick ==
  /\ pc \in {"init", "app", "call"}
  /\ now < MaxTime
  /\ now' = now + 1
  /\ UNCHANGED <<reg, hash, totals, stamp, T1, pc, app>>

(* The end of ipm_mpi_init: the hash table and the regions are cleared and *)
(* "ipm_noregion" is entered, as region 0.                                 *)
MpiInit ==
  /\ pc = "init"
  /\ hash' = NoEvents
  /\ reg' = ipm_region([reg EXCEPT !.region_wtime = NoTimes, !.region_count = NoTimes],
                       1, NoRegion)
  /\ pc' = "app"
  /\ UNCHANGED <<totals, stamp, now, T1, app>>

AppSwitches(l) ==
  /\ pc = "app"
  /\ app.switches < MaxSwitches
  /\ app' = [label |-> l, switches |-> app.switches + 1, inCalls |-> app.inCalls]
  /\ UNCHANGED <<hash, totals, stamp, now, T1>>

(* MPI_Pcontrol(1, l) and MPI_Pcontrol(0, "enter_region(l)"). *)
Enter(l) ==
  /\ AppSwitches(l)
  /\ ~TooManyRegions(reg, 1, l)
  /\ reg' = ipm_region(reg, 1, l)
  /\ UNCHANGED pc

(* The same when the table of labels is full: exit(1). *)
EnterTooMany(l) ==
  /\ AppSwitches(l)
  /\ TooManyRegions(reg, 1, l)
  /\ pc' = "exit"
  /\ UNCHANGED reg

(* MPI_Pcontrol(-1, l) and MPI_Pcontrol(0, "exit_region(l)"). *)
Exit(l) ==
  /\ AppSwitches(NoRegion)
  /\ KnownExits => RegionTag(reg, l) # -1
  /\ reg' = ipm_region(reg, -1, l)
  /\ UNCHANGED pc

(* The wrapper of an MPI call up to the call of the library's own. *)
BeginCall ==
  /\ pc = "app"
  /\ T1' = now
  /\ pc' = "call"
  /\ UNCHANGED <<reg, hash, totals, stamp, now, app>>

(* The rest of the wrapper: the snapshot if one is due, then the event,    *)
(* logged with the region that is current by now.                          *)
EndCall ==
  /\ pc = "call"
  /\ ipm_mpi_checkpoint
  /\ hash' = [hash EXCEPT ![KeyRegion(reg'.region_current)] = @ + (now - T1)]
  /\ app' = [label |-> app.label, switches |-> app.switches,
             inCalls |-> [app.inCalls EXCEPT ![app.label] = @ + (now - T1)]]
  /\ pc' = "app"
  /\ UNCHANGED <<now, T1>>

(* MPI_Finalize up to the report. *)
Finalize ==
  /\ pc = "app"
  /\ reg' = LeaveRegions(reg)
  /\ ipm_sync
  /\ stamp' = [stamp EXCEPT !.final = now]
  /\ pc' = "done"
  /\ UNCHANGED <<hash, now, T1, app>>

Next ==
  \/ Tick
  \/ MpiInit
  \/ \E l \in Labels : Enter(l) \/ EnterTooMany(l) \/ Exit(l)
  \/ BeginCall
  \/ EndCall
  \/ Finalize

Spec == Init /\ [][Next]_vars
-----------------------------------------------------------------------------
(***************************************************************************)
(* Correctness.                                                            *)
(***************************************************************************)

Times == [Indices -> Nat]

RegType ==
  [region_label : Seq(Labels), region_current : {-1} \cup Indices,
   region_wtime : Times, region_count : Times, region_wtime_init : Nat,
   regionalized : BOOLEAN]

TypeOK ==
  /\ reg \in RegType
  /\ Nregion(reg) <= MAXSIZE_REGION
  /\ hash \in [KeyRegions -> Nat]
  /\ totals \in [call_mtime : Times, region_mtime : Times, mtime : Nat, wtime : Nat]
  /\ stamp \in [final : Nat, prev_cp : Nat]
  /\ now \in 1 .. MaxTime
  /\ T1 \in 1 .. now
  /\ pc \in {"init", "app", "call", "done", "exit"}
  /\ app \in [label : Labels, switches : 0 .. MaxSwitches, inCalls : [Labels -> Nat]]

SumOf(f) == MapThenSumSet(LAMBDA i : f[i], Indices)

(* The sum of the times of all regions is the time from ipm_init to the    *)
(* last call of ipm_region: nothing is lost or counted twice, in whatever  *)
(* order regions are entered and left, snapshots included.                 *)
AllTimeCharged == SumOf(reg.region_wtime) = reg.region_wtime_init - stamp_init

(* The wall time of region i, with the period that has not ended. *)
WallTime(i) ==
  reg.region_wtime[i]
    + (IF reg.region_current = i THEN now - reg.region_wtime_init ELSE 0)

(* The MPI time of a region is part of its wall time (ipm_report divides   *)
(* the one by the other), the call being made included.                    *)
MpiWithinWall ==
  \A i \in Indices :
    hash[i] + (IF pc = "call" /\ reg.region_current = i THEN now - T1 ELSE 0)
      <= WallTime(i)

(* Events are counted with the region the application is in: the one it    *)
(* started with MPI_Pcontrol and has not exited.                           *)
EventsInAppRegion ==
  \A l \in Labels :
    LET i == RegionTag(reg, l)
    IN app.inCalls[l] = IF i = -1 THEN 0 ELSE hash[i]

(* What ipm_report is given: the regions' wall times add up to the task's, *)
(* their MPI times to its MPI time, which was not cut, and those to the    *)
(* call buckets, which ipm_sync clears while it adds to the regions'.      *)
FinalTotals ==
  pc = "done" =>
    /\ SumOf(reg.region_wtime) = totals.wtime
    /\ totals.region_mtime = totals.call_mtime
    /\ SumOf(totals.region_mtime) = totals.mtime
    /\ \A i \in Indices : totals.region_mtime[i] <= reg.region_wtime[i]

(* No label has two indices: the one ipm_region finds is the only one.     *)
LabelsDistinct ==
  \A i, j \in Known(reg) : LabelOf(reg, i) = LabelOf(reg, j) => i = j

(* The regions are stopwatches, one of them running at any time.           *)
PerLabel(f) ==
  [l \in Labels |-> LET i == RegionTag(reg, l) IN IF i = -1 THEN 0 ELSE f[i]]

Stopwatch == INSTANCE IpmStopwatch WITH
  Outside <- NoRegion,
  now     <- now - stamp_init,
  since   <- reg.region_wtime_init - stamp_init,
  active  <- IF pc = "init" THEN NoRegion ELSE LabelOf(reg, reg.region_current),
  spent   <- PerLabel(reg.region_wtime),
  visits  <- PerLabel(reg.region_count),
  inCalls <- PerLabel(hash)

ImplementsStopwatch == Stopwatch!Spec
=============================================================================
