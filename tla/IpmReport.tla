------------------------------ MODULE IpmReport ------------------------------
(***************************************************************************)
(* The tasks of a job in ipm_mpi_finalize, after ipm_sync: ipm_report      *)
(* reduces the totals and then, region by region in the order of task 0,   *)
(* the times of each region, which task 0 prints (IpmReportText); tasks    *)
(* that hold trace entries meet before they dump them; ipm_log (IpmLog)    *)
(* begins with a collective operation, of all tasks; PMPI_Finalize ends it. *)
(*                                                                         *)
(* The nine reductions of a report are one.  A task's contribution is      *)
(* represented by the region it is the data of.  A region has the same     *)
(* times in every task, and the tasks the same environment.                *)
(***************************************************************************)
EXTENDS MpiCollectives, FiniteSets, FiniteSetsExt, IpmReportText

CONSTANTS
  Labels,        (* the labels of regions the application uses             *)
  NoRegion,      (* "ipm_noregion", region 0 of every task                 *)
  SameRegions,   (* does every task enter the same regions?                *)
  SameTracing,   (* do all tasks hold trace entries, or none?              *)
  None,          (* no region: a contribution of zeros                     *)
  All,           (* the totals over all regions                            *)
  MAXSIZE_REGION,
  Profiles,      (* the times regions may have: records of their wall time *)
                 (* and, for each of the calls, of their MPI time          *)
  Settings       (* the flags of IPM_REPORT, IPM_LOG and IPM_HPM           *)

ASSUME ReportAssumption ==
  /\ NoRegion \in Labels /\ IsFiniteSet(Labels)
  /\ SameRegions \in BOOLEAN
  /\ SameTracing \in BOOLEAN
  /\ {None, All} \cap Labels = {}
  /\ MAXSIZE_REGION \in Nat /\ MAXSIZE_REGION >= Cardinality(Labels)
  /\ \A p \in Profiles, l \in Labels : p.wtime[l] \in Nat \ {0} /\ p.mtime[l] \in Seq(Nat)
  /\ \A p \in Profiles, k, l \in Labels : Len(p.mtime[k]) = Len(p.mtime[l])
  /\ Settings \subseteq
       SUBSET {"REPORT_NONE", "REPORT_TERSE", "REPORT_FULL", "IPM_HPM_CANCELED", "LOG_NONE"}
  /\ \A s \in Settings : "REPORT_FULL" \in s   (* ipm_init sets it, nothing clears it *)

VARIABLES
  region_label,   (* the labels a task has entered, in that order          *)
  flags,          (* the settings                                          *)
  profile,        (* the times                                             *)
  preg,           (* task 0's regions ordered by wall time                 *)
  traced,         (* is its ipm_trc_count positive?                        *)
  at,             (* the place a task has come to                          *)
  ireg,           (* the loop over regions                                 *)
  mpi_time,       (* the region whose MPI times are in its buffer          *)
  report          (* what task 0 has printed: the contributions to each    *)
                  (* region, after those to all                            *)

given == <<region_label, flags, profile, preg, traced>>
vars == <<ops, inside, region_label, flags, profile, preg, traced, at, ireg, mpi_time, report>>

region_nregion(r) == Len(region_label[r])

Entered(r, l) == \E i \in 1 .. region_nregion(r) : region_label[r][i] = l

Injective(s) == \A i, j \in DOMAIN s : s[i] = s[j] => i = j

(* The labels a task may have, region 0 first. *)
LabelLists ==
  {s \in UNION {[1 .. n -> Labels] : n \in 1 .. Cardinality(Labels)} :
     s[1] = NoRegion /\ Injective(s)}

(* The collective operation at a place. *)
Kind ==
  [totals |-> "reduce", label |-> "bcast", times |-> "reduce", trace |-> "barrier",
   log |-> "allreduce", finalize |-> "finalize"]

(* Faulty AfterReport: task 0 does not take part in the barrier.           *)
AfterReportZero(r) ==
  IF traced[r] /\ r # 0 THEN "trace" ELSE IF "LOG_NONE" \in flags THEN "finalize" ELSE "log"

AfterTrace == IF "LOG_NONE" \in flags THEN "finalize" ELSE "log"
AfterReport(r) == IF traced[r] THEN "trace" ELSE AfterTrace

(* The table of regions, ranked by wall time; what has no label has none.  *)
RankedRegions ==
  LET wtime == [i \in 0 .. MAXSIZE_REGION - 1 |->
                  IF i < region_nregion(0) THEN profile.wtime[region_label[0][i + 1]] ELSE 0]
      idx   == index_doubles(MAXSIZE_REGION, wtime)
  IN [k \in 1 .. region_nregion(0) |->
        IF idx[k - 1] < region_nregion(0) THEN region_label[0][idx[k - 1] + 1] ELSE None]
(* The sum of the MPI times of each call, of the contributions `from`.     *)
Calls == UNION {DOMAIN profile.mtime[l] : l \in Labels}
MpiTime(q, part, c) ==
  LET labels == CASE part = All -> {l \in Labels : Entered(q, l)}
                  [] part = None -> {}
                  [] OTHER -> {part}
  IN MapThenSumSet(LAMBDA l : profile.mtime[l][c], labels)
g_mpi_time(from) ==
  [c \in Calls |-> MapThenSumSet(LAMBDA q : MpiTime(q, from[q].mpi_time, c), Ranks)]

(* The lines of one entry of the report. *)
Printed(entry) ==
  ipm_report_internal(flags, region_nregion(0), entry.region = All, entry.region,
                      g_mpi_time(entry.from))

-----------------------------------------------------------------------------
Init ==
  /\ InitCollectives
  /\ region_label \in [Ranks -> LabelLists]
  /\ SameRegions => \A q, r \in Ranks, l \in Labels : Entered(q, l) <=> Entered(r, l)
  /\ flags \in Settings
  /\ profile \in Profiles
  /\ preg = RankedRegions
  /\ traced \in [Ranks -> BOOLEAN]
  /\ SameTracing => \A q, r \in Ranks : traced[q] = traced[r]
  /\ at = [r \in Ranks |-> IF "REPORT_NONE" \in flags THEN AfterReport(r) ELSE "totals"]
  /\ ireg = [r \in Ranks |-> 1]
  /\ mpi_time = [r \in Ranks |-> All]
  /\ report = <<>>

Goto(r, place) == at' = [at EXCEPT ![r] = place]

(* Task r calls the operation of its place. *)
Call(r, data) ==
  /\ CallOp(r, Kind[at[r]], data)
  /\ UNCHANGED <<given, at, ireg, mpi_time, report>>

(* Operations whose data are the totals, or do not matter. *)
CallPlain(r) ==
  at[r] \in {"totals", "trace", "log", "finalize"} /\ Call(r, [rbuf |-> All, mpi_time |-> All])

(* Faulty CallBcast: task 0, which has the label, does not call it.        *)
CallBcastOthers(r) == at[r] = "label" /\ r # 0 /\ Call(r, None)

(* Task 0 broadcasts the label of its next region. *)
CallBcast(r) == at[r] = "label" /\ Call(r, IF r = 0 THEN preg[ireg[r]] ELSE None)

(* Faulty egregious_mistake: the task's own region of that number.         *)
OwnRegion(r) == region_label[r][ireg[r]]

(* The label task r has just received. *)
egregious_mistake(r) == DataOf(0, r)

(* A task that has not entered the region clears rbuf, and no other buffer. *)
CallTimes(r) ==
  /\ at[r] = "times"
  /\ LET l == egregious_mistake(r)
         entered == Entered(r, l)
     IN /\ CallOp(r, "reduce", [rbuf     |-> IF entered THEN l ELSE None,
                                mpi_time |-> IF entered THEN l ELSE mpi_time[r]])
        /\ mpi_time' = [mpi_time EXCEPT ![r] = IF entered THEN l ELSE @]
  /\ UNCHANGED <<given, at, ireg, report>>

(* Task 0 reports a region, or all. *)
Print0(r, label) ==
  report' = IF r = 0
            THEN Append(report, [region |-> label, from |-> [q \in Ranks |-> DataOf(q, r)]])
            ELSE report

(* Faulty ReturnTotals: off by one in the test for regions.                *)
ReturnTotalsOff(r) ==
  /\ at[r] = "totals"
  /\ ReturnOp(r)
  /\ Goto(r, IF region_nregion(r) > 2 THEN "label" ELSE AfterReport(r))
  /\ Print0(r, All)
  /\ UNCHANGED <<given, ireg, mpi_time>>

(* With one region there is nothing more to report. *)
ReturnTotals(r) ==
  /\ at[r] = "totals"
  /\ ReturnOp(r)
  /\ Goto(r, IF region_nregion(r) > 1 THEN "label" ELSE AfterReport(r))
  /\ Print0(r, All)
  /\ UNCHANGED <<given, ireg, mpi_time>>

ReturnBcast(r) ==
  /\ at[r] = "label"
  /\ ReturnOp(r)
  /\ Goto(r, "times")
  /\ UNCHANGED <<given, ireg, mpi_time, report>>

ReturnTimes(r) ==
  /\ at[r] = "times"
  /\ ReturnOp(r)
  /\ Goto(r, IF ireg[r] < region_nregion(r) THEN "label" ELSE AfterReport(r))
  /\ ireg' = [ireg EXCEPT ![r] = @ + 1]
  /\ Print0(r, preg[ireg[0]])
  /\ UNCHANGED <<given, mpi_time>>

(* The barrier before the dump, ipm_log and PMPI_Finalize. *)
ReturnPlain(r) ==
  /\ at[r] \in {"trace", "log", "finalize"}
  /\ ReturnOp(r)
  /\ Goto(r, CASE at[r] = "trace" -> AfterTrace [] at[r] = "log" -> "finalize" [] OTHER -> "done")
  /\ UNCHANGED <<given, ireg, mpi_time, report>>

Step(r) ==
  \/ CallPlain(r) \/ CallBcast(r) \/ CallTimes(r)
  \/ ReturnTotals(r) \/ ReturnBcast(r) \/ ReturnTimes(r) \/ ReturnPlain(r)

Next == \E r \in Ranks : Step(r)

Spec == Init /\ [][Next]_vars

(* Nothing stops a task but an operation that MPI may keep it in. *)
FairSpec == Spec /\ \A r \in Ranks : WF_vars(Step(r) /\ MustReturn(r))
-----------------------------------------------------------------------------
(***************************************************************************)
(* Correctness.                                                            *)
(***************************************************************************)

AllDone == \A r \in Ranks : at[r] = "done"

(* Whatever order each task entered the regions in, the sum that task 0    *)
(* prints for a region has from every task that entered it the data of     *)
(* that region, and nothing from the others.                               *)
RegionReduction ==
  \A i \in DOMAIN report, q \in Ranks :
    LET l == report[i].region
        part == IF l = All \/ Entered(q, l) THEN l ELSE None
    IN report[i].from[q] = [rbuf |-> part, mpi_time |-> part]

(* The entries of single regions that have a line for it. *)
RegionEntries ==
  {i \in DOMAIN report :
     /\ report[i].region # All
     /\ \E k \in DOMAIN Printed(report[i]) : Printed(report[i])[k].kind = "region"}

(* Each region of task 0 is printed once, terse or full, the one with the  *)
(* most wall time first (none if there is only one).                       *)
EachRegionOnce ==
  AllDone /\ "REPORT_NONE" \notin flags =>
    IF region_nregion(0) = 1 THEN RegionEntries = {}
    ELSE /\ \A i \in RegionEntries : Entered(0, report[i].region)
         /\ \A l \in Labels : Entered(0, l) => \E i \in RegionEntries : report[i].region = l
         /\ \A i, j \in RegionEntries : i < j =>
              /\ report[i].region # report[j].region
              /\ profile.wtime[report[i].region] >= profile.wtime[report[j].region]

(* A full report has, for all regions and for each, a table of the calls   *)
(* that took time, each once, in the order of their times.                 *)
CallsRanked ==
  "REPORT_TERSE" \notin flags /\ report # <<>> =>
    LET last  == report[Len(report)]
        g     == <<>> \o g_mpi_time(last.from)
        lines == Printed(last)
        rows  == {k \in DOMAIN lines : lines[k].kind = "call"}
    IN /\ {lines[k].call : k \in rows} = {c - 1 : c \in {d \in Calls : g[d] > 0}}
       /\ \A j, k \in rows : j < k => /\ lines[j].call # lines[k].call
                                       /\ g[lines[j].call + 1] >= g[lines[k].call + 1]

(* ipm_log is "called by all tasks" (its comment).                         *)
AllReachLog == <>(\A r \in Ranks : at[r] \in {"log", "finalize", "done"})

(* MPI_Finalize returns in every task: no task waits in an operation that  *)
(* another never calls, or calls in another order.                         *)
Terminates == <>AllDone
=============================================================================
