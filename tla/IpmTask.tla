------------------------------ MODULE IpmTask ------------------------------
(***************************************************************************)
(* One MPI task with all that its wrappers do: the accounting of IpmRegion *)
(* composed with the options of the environment (IpmEnv), the hardware     *)
(* counters (IpmHpm), the links of the wrappers, the trace buffer with its *)
(* window of time and its regions, and the file of the periodic snapshot.  *)
(*                                                                         *)
(* The program may crash (pc = "crash") or be killed (pc = "killed"): the  *)
(* task stays as it is and so does the file of the snapshot.  A signal is  *)
(* delivered in the unit of time in which it is due, and the handlers'     *)
(* updates of task.flags are not interrupted (they are one instruction on  *)
(* the processors of the default build).                                   *)
(***************************************************************************)
EXTENDS IpmHpm, IpmEnv, IpmLogText, TLC

CONSTANTS
  Environments,    (* the environments a run may have: sequences of settings *)
  Garbage,         (* what a variable that is not initialized may hold       *)
  MaxCalls         (* bound on the calls that are counted                    *)

ASSUME TaskAssumption == MaxCalls \in Nat /\ Garbage \subseteq Nat

(* An environment is a sequence of settings as IpmEnv describes them.  A   *)
(* number of entries is converted to an unsigned integer, and alarm takes  *)
(* one.                                                                    *)
ASSUME EnvironmentsAssumption ==
  \A e \in Environments :
    /\ Len(e) \in Nat /\ DOMAIN e = 1 .. Len(e)
    /\ NumberOf(e, "IPM_SHARE_INTERVAL") \in Int
    /\ \A k \in DOMAIN e :
         LET value == IF e[k].key = "IPM_MPI_TRACE" THEN e[k].clauses ELSE e[k].words
         IN /\ Len(value) \in Nat /\ DOMAIN value = 1 .. Len(value)
            /\ e[k].key = "IPM_MPI_TRACE" =>
                 \A i \in DOMAIN value :
                   /\ value[i].sel = "mem" => value[i].args[1].n \in Nat
                   /\ value[i].sel = "time" => value[i].args[1] \in [init : Int, final : Nat]

VARIABLES
  environ,   (* the environment of the program                             *)
  task,      (* flags, masks and options                                   *)
  trc,       (* ipm_trc_buf (as long as ipm_trc_count), whether it is      *)
             (* allocated, and the lines that were printed of it           *)
  alarm,     (* the handler of SIGALRM and when it is due                  *)
  hpm,       (* the counters, region_init and hpm_count                    *)
  link,      (* per call, what ipm_mpi_link has linked its name to         *)
  call,      (* the call being made                                        *)
  snapshot,  (* the file of the snapshot                                   *)
  share,     (* the task's struct in the map shared with PBS and when it   *)
             (* was written; history: what its mtime began with, and how   *)
             (* many calls were counted by then                            *)
  events     (* history: the calls that were counted                       *)

own == <<environ, task, trc, alarm, hpm, link, call, snapshot, share, events>>
taskVars == <<vars, own>>

NoAlarm == [handler |-> "none", due |-> 0]
NoSnapshot == [state |-> "none", stamp |-> 0, region_wtime |-> NoTimes, wtime |-> 0]

NotShared ==
  [mapped |-> FALSE, prev_share_stamp |-> 0, mtime |-> 0, initial |-> 0, counted |-> 0]

(* alarm(0) never comes.                                                   *)
Alarm(handler, delay) ==
  IF delay = 0 THEN NoAlarm ELSE [handler |-> handler, due |-> now + delay]

AlarmDue == alarm.handler # "none" /\ now >= alarm.due

(* ipm_init: the environment, the test of the counters, the trace buffer.  *)
TaskInit ==
  /\ Init
  /\ environ \in {e \in Environments : /\ Early(e).IPM_CHECKPOINT = IPM_CHECKPOINT
                                       /\ Early(e).CHKPT_INTERVAL = CHKPT_INTERVAL}
  /\ \E failing \in MapSteps \cup {"none"} :
       share = [NotShared EXCEPT !.mapped = ShareMapped(Early(environ), failing)]
  /\ \E failing \in TestSteps \cup {"none"} :
       LET got    == ipm_get_env(environ)
           tested == HpmTested(got, failing = "none")
       IN /\ hpm = IF "IPM_HPM_CANCELED" \in got.flags THEN NoCounters
                   ELSE ipm_hpm_test(failing)
          /\ task = TracePrepared(tested)
          /\ trc = [allocated |-> BufferMade(tested), buf |-> <<>>, dump |-> <<>>]
          /\ alarm = IF Windowed(tested) THEN Alarm("tron", tested.trc_time.init) ELSE NoAlarm
  /\ link = [c \in Calls |-> "pass"]
  /\ call = "none"
  /\ snapshot = NoSnapshot
  /\ events = <<>>

(* The regions of IPM_MPI_TRACE: the entry of one of them turns tracing on *)
(* (for the passes named; the passes are counted when they end).           *)
SwitchesOn(t, r) ==
  \E k \in DOMAIN t.trc_region :
    LET mask  == t.trc_region[k]
        count == r.region_count[r.region_current]
    IN /\ r.region_current >= 0
       /\ mask.label = LabelOf(r, r.region_current)
       /\ mask.iti = -1 \/ count \in mask.iti .. mask.itf

TraceAtRegion(t, r) ==
  IF SwitchesOn(t, r) THEN [t EXCEPT !.flags = @ \cup {"IPM_TRC_ACTIVE"}] ELSE t

(* The calls of ipm_region that LeaveRegions makes; the second comes after *)
(* the first at the same time, with nothing left to charge.                *)
TraceAtLeave(t) == TraceAtRegion(TraceAtRegion(t, ipm_region(reg, 1, NoRegion)), LeaveRegions(reg))
-----------------------------------------------------------------------------
(* The window of time.                                                     *)

(* Faulty HandleAlarm: tracing is not turned off at the end.               *)
HandleAlarmOnce ==
  /\ task' = [task EXCEPT !.flags = @ \cup {"IPM_TRC_ACTIVE"}]
  /\ alarm' = IF alarm.handler = "tron" THEN Alarm("troff", task.trc_time.final) ELSE NoAlarm

HandleAlarm ==
  \/ /\ alarm.handler = "tron"
     /\ task' = [task EXCEPT !.flags = @ \cup {"IPM_TRC_ACTIVE"}]
     /\ alarm' = Alarm("troff", task.trc_time.final)
  \/ /\ alarm.handler = "troff"
     /\ task' = [task EXCEPT !.flags = @ \ {"IPM_TRC_ACTIVE"}]
     /\ alarm' = NoAlarm

AlarmRings ==
  /\ pc \in {"init", "app", "call"}
  /\ AlarmDue
  /\ HandleAlarm
  /\ UNCHANGED <<vars, environ, trc, hpm, link, call, snapshot, share, events>>

TaskTick == Tick /\ ~AlarmDue /\ UNCHANGED own
-----------------------------------------------------------------------------
(* MPI_Init.                                                               *)

(* The wrappers for C read *argc, which MPI allows to be no pointer; those  *)
(* for Fortran call them with arguments of their own.                      *)
InitWithoutArguments ==
  /\ pc = "init"
  /\ pc' = "crash"
  /\ UNCHANGED <<reg, hash, totals, stamp, now, T1, app, own>>

(* The buffer of ipm_init: malloc's answer is not used.                    *)
TraceMallocFails ==
  /\ pc = "init" /\ now = stamp_init
  /\ trc.allocated
  /\ pc' = "crash"
  /\ trc' = [trc EXCEPT !.allocated = FALSE]
  /\ UNCHANGED <<reg, hash, totals, stamp, now, T1, app,
                 environ, task, alarm, hpm, link, call, snapshot, share, events>>

Linked(mask) ==
  IF "PASS" \in mask THEN "pass" ELSE IF "NOOP" \in mask THEN "noop" ELSE "topo"

(* ipm_mpi_init after ipm_init. *)
TaskMpiInit ==
  /\ MpiInit
  /\ \E ok \in BOOLEAN :
       LET canceled == "IPM_HPM_CANCELED" \in task.flags
           started  == IF canceled \/ ok THEN task
                       ELSE [task EXCEPT !.flags = @ \ {"IPM_HPM_ACTIVE"}]
       IN /\ hpm' = CountersAtRegion(IF canceled THEN hpm ELSE ipm_hpm_start(ok),
                                     started.flags, reg.region_current)
          /\ task' = TraceAtRegion(started, reg')
  /\ link' = [c \in Calls |-> Linked(task.call_mask[c])]
  /\ UNCHANGED <<environ, trc, alarm, call, snapshot, share, events>>
-----------------------------------------------------------------------------
(* MPI calls.                                                              *)

(* A call that is not masked and not made within another one's wrapper     *)
(* (IPM_MPI_INSIDE); the others go to the library, or nowhere.             *)
TaskBeginCall(c) ==
  /\ link[c] = "topo"
  /\ Len(events) < MaxCalls
  /\ BeginCall
  /\ call' = c
  /\ UNCHANGED <<environ, task, trc, alarm, hpm, link, snapshot, share, events>>

(* Faulty ipm_trace: the buffer takes one entry more than it holds.        *)
ipm_trace_late_check(x, entry) ==
  IF Len(x.buf) > x.max THEN [x EXCEPT !.on = FALSE] ELSE [x EXCEPT !.buf = Append(@, entry)]

(* ipm_trace: a full buffer ends the tracing. *)
ipm_trace(x, entry) ==
  IF Len(x.buf) >= x.max THEN [x EXCEPT !.on = FALSE] ELSE [x EXCEPT !.buf = Append(@, entry)]

(* Is this call traced, with the flags as they are by then? *)
Traced(t) == "IPM_TRC_ACTIVE" \in t.flags /\ "TRACE" \in t.call_mask[call]

(* Two entries per call. *)
TraceCall(t, region) ==
  LET entry(time) == [call |-> call, region |-> region, t |-> time]
  IN ipm_trace(ipm_trace([buf |-> trc.buf, on |-> TRUE, max |-> t.trc_count_max],
                         entry(T1)), entry(now))

(* ipm_trc_dump, at a checkpoint and at the end, if there are entries:     *)
(* their times are printed from ipm_trc_time_init on.  Each dump begins    *)
(* with the first entry again.                                             *)
ipm_trc_dump ==
  LET Relative(entry) == [call |-> entry.call, region |-> entry.region, t |-> entry.t - stamp_init]
  IN [trc EXCEPT !.dump = [k \in DOMAIN trc.buf |-> Relative(trc.buf[k])]]

(* Where does the snapshot go?                                             *)
SnapshotWanted ==
  SnapshotDue /\ "LOG_NONE" \notin task.flags /\ task.log_dir # "/dev/null"

(* A directory that is not there becomes the current one. *)
LogDir == IF task.log_dir = "missing" THEN "./" ELSE task.log_dir
CanOpen == LogDir # "readonly"

(* Faulty WholeSnapshot: the file is written before the regions are left.  *)
WholeSnapshotEarly ==
  [state |-> "whole", stamp |-> now, region_wtime |-> reg.region_wtime, wtime |-> totals'.wtime]

WholeSnapshot ==
  [state |-> "whole", stamp |-> now, region_wtime |-> reg'.region_wtime, wtime |-> totals'.wtime]

SHARE_INTERVAL == Early(environ).SHARE_INTERVAL

(* The struct is written SHARE_INTERVAL after it was last, or after the    *)
(* end of the first call.                                                  *)
ShareStamp == IF share.prev_share_stamp = 0 THEN now ELSE share.prev_share_stamp
ShareDue == SHARE_INTERVAL > 0 /\ now - ShareStamp >= SHARE_INTERVAL

(* The time of all entries of the table, added to whatever mtime held.     *)
ipm_pbs_share_mmap(initial) ==
  [share EXCEPT !.mtime = initial + MapThenSumSet(LAMBDA r : hash[r], KeyRegions),
                !.initial = initial, !.counted = Len(events)]

(* Faulty ipm_external_entry: the next time is counted from the last due.  *)
ipm_external_entry_drifting ==
  \/ ~ShareDue /\ share' = IF SHARE_INTERVAL <= 0 THEN share
                           ELSE [share EXCEPT !.prev_share_stamp = ShareStamp]
  \/ /\ ShareDue
     /\ \E initial \in Garbage :
          LET written == IF share.mapped THEN ipm_pbs_share_mmap(initial) ELSE share
          IN share' = [written EXCEPT !.prev_share_stamp = ShareStamp + SHARE_INTERVAL]

(* ipm_external_entry, before the event is counted. *)
ipm_external_entry ==
  \/ ~ShareDue /\ share' = IF SHARE_INTERVAL <= 0 THEN share
                           ELSE [share EXCEPT !.prev_share_stamp = ShareStamp]
  \/ /\ ShareDue
     /\ \E initial \in Garbage :
          LET written == IF share.mapped THEN ipm_pbs_share_mmap(initial) ELSE share
          IN share' = [written EXCEPT !.prev_share_stamp = now]

(* The flags, counters and file when ipm_mpi_checkpoint returns. *)
AfterCheckpoint == IF SnapshotDue THEN TraceAtLeave(task) ELSE task

Event(current) == [call |-> call, region |-> KeyRegion(current), t1 |-> T1, t2 |-> now]

TaskEndCall ==
  /\ EndCall
  /\ SnapshotWanted => CanOpen
  /\ hpm' = IF SnapshotDue THEN CountersAtRegion(hpm, task.flags, reg.region_current) ELSE hpm
  /\ snapshot' = IF SnapshotWanted THEN WholeSnapshot ELSE snapshot
  /\ ipm_external_entry
  /\ LET t == IF SnapshotWanted THEN [AfterCheckpoint EXCEPT !.log_dir = LogDir]
              ELSE AfterCheckpoint
         x == TraceCall(t, KeyRegion(reg'.region_current))
         dumped == IF SnapshotDue THEN ipm_trc_dump ELSE trc
     IN \/ /\ Traced(t) /\ (trc.allocated \/ t.trc_count_max = 0)
           /\ trc' = [dumped EXCEPT !.buf = x.buf]
           /\ task' = IF x.on THEN t ELSE [t EXCEPT !.flags = @ \ {"IPM_TRC_ACTIVE"}]
        \/ /\ ~Traced(t)
           /\ task' = t
           /\ trc' = dumped
  /\ events' = Append(events, Event(reg'.region_current))
  /\ call' = "none"
  /\ UNCHANGED <<environ, alarm, link>>

(* The first entry is written to a buffer that was never allocated.        *)
TraceWithoutBuffer ==
  /\ pc = "call"
  /\ SnapshotWanted => CanOpen
  /\ Traced(AfterCheckpoint) /\ ~trc.allocated /\ task.trc_count_max > 0
  /\ ipm_mpi_checkpoint
  /\ snapshot' = IF SnapshotWanted THEN WholeSnapshot ELSE snapshot
  /\ ipm_external_entry
  /\ hash' = [hash EXCEPT ![KeyRegion(reg'.region_current)] = @ + (now - T1)]
  /\ events' = Append(events, Event(reg'.region_current))
  /\ pc' = "crash"
  /\ UNCHANGED <<now, T1, app, environ, task, trc, alarm, hpm, link, call>>

(* fprintf to the file that fopen did not open.                            *)
SnapshotNotOpened ==
  /\ pc = "call"
  /\ SnapshotWanted /\ ~CanOpen
  /\ pc' = "crash"
  /\ UNCHANGED <<reg, hash, totals, stamp, now, T1, app, own>>

(* The task is killed while it writes: fopen has truncated the file.       *)
KilledInSnapshot ==
  /\ pc = "call"
  /\ SnapshotWanted /\ CanOpen
  /\ pc' = "killed"
  /\ snapshot' = [NoSnapshot EXCEPT !.state = "partial"]
  /\ UNCHANGED <<reg, hash, totals, stamp, now, T1, app,
                 environ, task, trc, alarm, hpm, link, call, share, events>>
-----------------------------------------------------------------------------
(* Regions and the end.                                                    *)

AtRegion ==
  /\ hpm' = CountersAtRegion(hpm, task.flags, reg.region_current)
  /\ task' = TraceAtRegion(task, reg')
  /\ UNCHANGED <<environ, trc, alarm, link, call, snapshot, share, events>>

TaskEnter(l) == Enter(l) /\ AtRegion
TaskEnterTooMany(l) == EnterTooMany(l) /\ UNCHANGED own
TaskExit(l) == Exit(l) /\ AtRegion

TaskFinalize ==
  /\ Finalize
  /\ LET h == CountersAtRegion(hpm, task.flags, reg.region_current)
         t == TraceAtLeave(task)
     IN /\ hpm' = IF "IPM_HPM_ACTIVE" \in task.flags THEN ipm_hpm_stop(h) ELSE h
        /\ task' = [t EXCEPT !.flags = (@ \ {"IPM_APP_RUNNING"})
                                         \cup {"IPM_APP_COMPLETED", "IPM_MPI_FINALIZING"}]
  /\ trc' = ipm_trc_dump
  /\ UNCHANGED <<environ, alarm, link, call, snapshot, share, events>>

TaskNext ==
  \/ TaskTick
  \/ AlarmRings
  \/ TaskMpiInit
  \/ InitWithoutArguments
  \/ TraceMallocFails
  \/ \E c \in Calls : TaskBeginCall(c)
  \/ TaskEndCall
  \/ TraceWithoutBuffer
  \/ SnapshotNotOpened
  \/ KilledInSnapshot
  \/ \E l \in Labels : TaskEnter(l) \/ TaskEnterTooMany(l) \/ TaskExit(l)
  \/ TaskFinalize

TaskSpec == TaskInit /\ [][TaskNext]_taskVars
-----------------------------------------------------------------------------
(***************************************************************************)
(* Correctness.                                                            *)
(***************************************************************************)

(* The flags of a task that the default build sets.                        *)
Flags ==
  {"DEBUG", "REPORT_NONE", "REPORT_TERSE", "REPORT_FULL", "REPORT_LABELIO", "LOG_NONE",
   "LOG_TERSE", "LOG_FULL", "PARALLEL_IO_LOG", "IPM_MPI_BREAKWAIT", "IPM_MPI_PREBARFSYNC",
   "IPM_PRELOAD", "IPM_HPM_ACTIVE", "IPM_HPM_CANCELED", "IPM_TRC_ACTIVE",
   "IPM_TRC_CANCELED", "IPM_APP_RUNNING", "IPM_APP_COMPLETED", "IPM_MPI_FINALIZING"}

TraceEntries == [call : Calls, region : KeyRegions, t : 1 .. MaxTime]

TaskTypeOK ==
  /\ task.flags \subseteq Flags
  /\ task.call_mask \in [Calls -> SUBSET {"TRACE", "PASS", "NOOP"}]
  /\ trc.allocated \in BOOLEAN
  /\ trc.buf \in Seq(TraceEntries)
  /\ Len(trc.dump) <= Len(trc.buf)
  /\ Len(trc.buf) <= task.trc_count_max
  /\ alarm \in [handler : {"none", "tron", "troff"}, due : Nat]
  /\ hpm.state \in {"null", "created", "running", "stopped"}
  /\ hpm.hpm_count \in [Indices -> Nat]
  /\ link \in [Calls -> {"pass", "noop", "topo"}]
  /\ call \in Calls \cup {"none"}
  /\ snapshot \in [state : {"none", "partial", "whole"}, stamp : Nat, region_wtime : Times,
                   wtime : Nat]
  /\ share.mtime >= share.initial

(* IPM_MPI_TRACE, from the environment itself.  Each setting of it begins  *)
(* with all calls and no regions again, but keeps the window of time.      *)
TraceSettings == {k \in DOMAIN environ : environ[k].key = "IPM_MPI_TRACE"}
Clauses(k, sel) == {i \in DOMAIN environ[k].clauses : environ[k].clauses[i].sel = sel}
LastClause(k, sel) == environ[k].clauses[Max(Clauses(k, sel))]

(* Is the call one that the last call clause names, or is there none?      *)
CallSelected(c) ==
  LET k    == Max(TraceSettings)
      args == LastClause(k, "call").args
  IN /\ TraceSettings # {}
     /\ Clauses(k, "call") # {} =>
          \E i \in DOMAIN args : args[i].word \in {c, "MPI_P2P", "MPI_COL"}

RegionsNamed ==
  TraceSettings # {} /\ Clauses(Max(TraceSettings), "region") # {}

TimeSettings == {k \in TraceSettings : Clauses(k, "time") # {}}

(* The window from init on (a negative one is none), final long (0: to the *)
(* end of the run), that the event ended in.                               *)
TimeSelected(t) ==
  LET w == LastClause(Max(TimeSettings), "time").args[1]
  IN TimeSettings # {} /\ w.init >= 0 =>
       /\ w.init > 0
       /\ t >= stamp_init + w.init
       /\ w.final > 0 => t <= stamp_init + w.init + w.final

(* The buffer holds two entries per call, the times of its beginning and   *)
(* its end, of calls that were counted, in their order; the last may have  *)
(* found room for its beginning only.  Each was selected: its call by name *)
(* and, unless regions are named too, its end by the window of time.  At   *)
(* the end all of them have been printed.                                  *)
TracedAsSelected ==
  /\ \A k \in DOMAIN trc.buf :
       LET e     == trc.buf[k]
           first == IF k % 2 = 1 THEN k ELSE k - 1
       IN \E n \in DOMAIN events :
            LET ev == events[n]
            IN /\ e.call = ev.call /\ e.region = ev.region
               /\ trc.buf[first].t = ev.t1
               /\ k = first + 1 => e.t = ev.t2
               /\ CallSelected(ev.call)
               /\ ~RegionsNamed => TimeSelected(ev.t2)
  /\ pc = "done" => Len(trc.dump) = Len(trc.buf)

(* The entries of a call, none if it was not selected.                     *)
EntriesOf(ev) ==
  LET entry(time) == [call |-> ev.call, region |-> ev.region, t |-> time]
  IN IF CallSelected(ev.call) THEN <<entry(ev.t1), entry(ev.t2)>> ELSE <<>>

(* Without windows and regions the buffer holds the selected calls, none   *)
(* left out, from the first one until it is full.                          *)
TracePrefix ==
  (TimeSettings = {} /\ ~RegionsNamed /\ trc.allocated)
  => LET all == FlattenSeq([n \in DOMAIN events |-> EntriesOf(events[n])])
     IN trc.buf = SubSeq(all, 1, IF Len(all) < task.trc_count_max THEN Len(all)
                                 ELSE task.trc_count_max)

(* The counters charged to a region count the time the region is charged   *)
(* (region 0: from the start of the counters on), through every entry,     *)
(* exit and snapshot, if they are active; if not, they are all zero.  They *)
(* are not active when IPM_HPM=no, or when a test of the library failed.   *)
HpmFollowsWall ==
  pc \in {"app", "call", "done", "exit"} =>
    IF "IPM_HPM_ACTIVE" \in task.flags
    THEN /\ "IPM_HPM_CANCELED" \notin task.flags
         /\ hpm.state \in {"running", "stopped"}
         /\ \A i \in Indices \ {0} : hpm.hpm_count[i] = reg.region_wtime[i]
         /\ hpm.state = "running" =>
              hpm.hpm_count[0] = reg.region_wtime[0] - (hpm.since - stamp_init)
    ELSE \A i \in Indices : hpm.hpm_count[i] = 0

(* A snapshot that is whole is the one of the last checkpoint, and in it   *)
(* the times of the regions add up to the time of the task.                *)
SnapshotExact ==
  snapshot.state = "whole" =>
    /\ snapshot.stamp = stamp.prev_cp
    /\ SumOf(snapshot.region_wtime) = snapshot.wtime
    /\ snapshot.wtime = snapshot.stamp - stamp_init

(* With SHARE_INTERVAL set, no call ends with the shared figures as old as *)
(* that (the first call begins the first period), and what was added for   *)
(* them is the time of the calls counted by then, each once.  (The sum is  *)
(* added to a variable that is not initialized.)                           *)
SharedInStep ==
  SHARE_INTERVAL > 0 /\ events # <<>> =>
    /\ share.prev_share_stamp >= events[1].t2
    /\ Last(events).t2 - share.prev_share_stamp < SHARE_INTERVAL
    /\ share.mtime - share.initial =
         FoldLeft(LAMBDA sum, ev : sum + (ev.t2 - ev.t1), 0, SubSeq(events, 1, share.counted))
    /\ share.mapped => \A n \in share.counted + 2 .. Len(events) :
                         events[n].t2 - share.prev_share_stamp < SHARE_INTERVAL

(* What ipm_log_write sees of the task: the calls each region has counted  *)
(* and the keys of the table, which is of the events.                      *)
Profile ==
  [flags     |-> task.flags,
   variables |-> DOMAIN environ,
   reduced   |-> {},
   counters  |-> {1},
   called    |-> [i \in 1 .. Nregion(reg) |->
                    {c \in Calls : \E n \in DOMAIN events :
                                     events[n].call = c /\ events[n].region = i - 1}],
   keys      |-> {<<events[n].call, events[n].region>> : n \in DOMAIN events}]

(* The log of a job of two tasks like this one is an XML document,         *)
(* whatever regions and calls they have and whatever their settings leave  *)
(* out: every element is closed, in its parent, and the job's is the only  *)
(* one at the top.  (The snapshot of one task of them is none: it opens    *)
(* the job or closes it.)                                                  *)
LogWellFormed ==
  pc = "done" /\ "LOG_NONE" \notin task.flags => WellFormed(WholeLog(<<Profile, Profile>>))
=============================================================================
