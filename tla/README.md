# A TLA+ model of IPM

IPM (Integrated Performance Monitoring) is a C library that is linked to an MPI
program, wraps its MPI calls, counts and times them per code region in a fixed
hash table, and at MPI_Finalize reduces the numbers to a report and writes them
to a log.  This directory models its core logic in TLA+, checks the models with
TLC and proves theorems about them with TLAPS.  Paths below are relative to the
root of the repository; definitions have the names of the functions, macros and
fields they model where TLA+ allows it, and `PROJECT.json` maps each of them to
its lines.

## Inventory

| component | code | state | operations | what makes it correct |
|---|---|---|---|---|
| event hash table | `include/ipm.h` (macros), `src/ipm_util.c` | `task.hash`, `hash_nkey`, `hash_nlog`, the precision bits of `call_mask`, the static probe counter | log an event, probe, insert, cull and re-insert | no event lost or counted twice, an entry is found again, the probe ends, `hash_nkey` is exact |
| code regions, time accounting | `src/ipm_api.c`, `src/ipm_mpi_pcontrol.c` | labels, `region_current`, times and counts per region, `region_wtime_init` | `ipm_region`, `MPI_Pcontrol`, `ipm_sync` | all wall time is charged once, MPI time is within the wall time of its region, the totals add up |
| MPI call wrapper | `bin/make_wrappers` (generates `libipm.c`) | `T1`, `T2`, `IPM_MPI_INSIDE`, the links | the steps around each PMPI call | an event is counted with the region and the duration it had |
| initialisation | `bin/make_wrappers` (`ipm_mpi_init`), `src/ipm_init.c`, `src/ipm_mpi_init.c` | everything above | clear, read the environment, test the counters, make the trace buffer, enter region 0 | what was set before is not lost |
| environment | `src/ipm_env.c` | `task.flags`, `call_mask`, the trace options | parse the variables and the clauses of `IPM_MPI_TRACE` | the options are those the variables ask for, in their order |
| trace buffer | `src/ipm_trace.c` | `ipm_trc_buf`, the window of time, the regions | add an entry, SIGALRM on and off, on at a region, dump | what was selected, in order, until the buffer is full |
| hardware counters | `src/ipm_hpm_test.c`, `src/ipm_hpm.c` | the event set, `region_init`, `hpm_count` | test, start, read, stop | counts go to the region that was running |
| periodic checkpoint | `src/checkpoints/ipm_checkpoints.c`, `ipm_chkpt_log.c` | `prev_cp_stamp`, the snapshot file | `ipm_mpi_checkpoint` in every wrapper | accounting goes on as without it; a snapshot adds up |
| shared statistics for PBS | `src/checkpoints/ipm_external.c` | a shared map | update per interval | the figures are those of the calls so far, and not old |
| finalize and report | `src/ipm_mpi_finalize.c`, `src/ipm_mpi_report.c`, `src/ipm_report_internal.c` | reduction buffers, the order of regions and calls | broadcast of labels, reductions, printing, the trace barrier | every task calls the same collectives; each sum is of one region; each region is printed once |
| log | `src/ipm_mpi_log.c`, `src/ipm_log_write.c` | the file, offsets, messages | MPI-IO with passed offsets, or task 0 gathers; the text of a section | the sections of all tasks, whole and once; one document |
| machine topology | `src/ipm_mpi_machtopo.c` | roots, sizes, rings | gather of host names, two levels of rings | the rings visit every task of a host and every host |
| `ipm` launcher | `src/ipm.c` | a locked file | init, child, barrier through the file | a barrier separates what is before from what is after; all end |
| `files` program | `src/files.c` | a table of file types, totals, the order | options, walk, report | each file is counted once, in its type; the order and the totals are right |
| threads, I/O wrappers, call sites, interrupts, system information, Fortran, Perl tools | see `PROJECT.json` | | | not modelled, with the reason there |

How they interact: the wrapper of a call reads the clock, calls MPI, runs the
checkpoint and the update for PBS, makes a key from `region_current`, logs the
event in the table and, if tracing is on, in the buffer.  `MPI_Pcontrol`
changes `region_current`, which charges times and counters and may turn tracing
on; SIGALRM turns it on and off between any two steps.  `ipm_mpi_finalize` leaves the regions,
calls `ipm_sync` (which sums the table per region), `ipm_report` (collectives),
the trace dump (a barrier), `ipm_log` (collectives and messages) and
`PMPI_Finalize`.

What is hard: the table is rebuilt in the middle of the probe that found it
full, by the same macro with the same static counter, and recursively; regions
may be entered and left in any order, and a checkpoint leaves them from inside
an MPI call; whether a task takes part in a collective operation depends on its
own data; the log is written by tasks that depend on each other's messages and
whose memory allocation may fail; the launchers wait for each other through a
file that may be left from another job, with a lock and timeouts, and any of
them may be killed.

## Modules

| module | models | proved about in |
|---|---|---|
| `IpmHash` | the table; one step is one turn of the loop of `IPM_HASH_HKEY` | `IpmHashProofs` |
| `IpmProfile` | what the table promises: count, total, minimum and maximum per region, call and rank | `IpmHashProofs` |
| `IpmRegion` | one task's time accounting: regions, wrapper, checkpoint, `ipm_sync` | `IpmTaskProofs` |
| `IpmStopwatch` | what regions promise: one stopwatch per label, exactly one running | `IpmTaskProofs` |
| `MpiCollectives` | the collective operations of MPI_COMM_WORLD (external) | `IpmReportProofs`, `IpmLogProofs` |
| `IpmReport` | all tasks in `ipm_mpi_finalize` | `IpmReportProofs` |
| `IpmReportText` | what task 0 prints: `index_doubles`, `ipm_report_internal` (used by `IpmReport`) | `IpmReportProofs` |
| `IpmLog` | all tasks in `ipm_log`, the default build | `IpmLogProofs` |
| `IpmLogText` | the tags of a task's section (`ipm_log_write`) (used by `IpmTask`) | `IpmTaskProofs` |
| `IpmMachTopo` | all tasks in `ipm_get_machtopo` | `IpmRingsProofs` |
| `IpmTmpfsLog` | all tasks in `ipm_log` as built with `IPM_LOG_USETMPFS`, over the rings of `IpmMachTopo` | `IpmRingsProofs` |
| `IpmEnv` | `ipm_get_env`, `ipm_trc_select`, the defaults of `ipm_init` (used by `IpmTask`) | `IpmTaskProofs` |
| `IpmHpm` | the counters, on top of `IpmRegion` | `IpmTaskProofs` |
| `IpmTask` | one task with all its wrappers do: composes `IpmRegion`, `IpmHpm`, `IpmEnv`, `IpmLogText` with the trace buffer, SIGALRM, the snapshot file and the map for PBS | `IpmTaskProofs` |
| `IpmLaunch` | the launchers of a job, their children and the shared file | `IpmLaunchProofs` |
| `IpmFiles` | the program `files` | `IpmFilesProofs` |
| `FoldTheorems` | lemmas about sums over finite sets and folds over sequences, for the proofs | |
| `MCIpm*` | instances for TLC | |

**IpmHash.** `culls` is the stack of activations of `ipm_hash_cull`: each has
the table it saved, the slot its loop has come to and the key it is inserting.
`InsertKey`, `NextProbe` and `Cull` are the three branches of the loop,
`CountEvent` and `ReinsertEntry` what follows it in the two callers.  The mask
of a call is represented by its lowest bit (`grain`), and durations are natural
numbers.  `collisions` is kept modulo the size of the table.  A key's fields
are taken to be in their ranges.  `ipm_hash_cull` also overwrites `call_mtime`,
which `ipm_sync` computes again before anything reads it.

**IpmRegion.** `ipm_region` is an operator on a record of the fields it works
on, so that `LeaveRegions`, `EndCall` and `Finalize` are compositions of the
calls the code makes.  The table is represented by its sum per region, which is
what `IpmProfile` promises.  User and system time follow the wall time line by
line and are left out; counters and the trace switch are in `IpmTask`.  PBS
suspension is left out (`duration_adjust` is not in the repository).

**MpiCollectives, IpmReport, IpmLog.** Collective operations match by position.
An operation *may* return when MPI allows it and *must* when all tasks have
called it; a send may return at once and must when it is received.  So the
models have the behaviours of MPI libraries that buffer and of those that do
not.  The nine reductions of a report are one step, and so are the three
messages a task answers with.

**IpmMachTopo, IpmTmpfsLog.**  `net` has the messages from each task to each
other, in order; a send sets `sending` until it returns, which it may do at
once and must when nothing it sent is left in transit.  The receive of a root in
`Collect` takes a message of any task, as `MPI_ANY_SOURCE` does.  Messages that
always travel together are one.  `IpmTmpfsLog` adds the steps of `ipm_log` to a
task that has returned from `ipm_get_machtopo`.  What happens between the two
is represented by `Reduced`: the first thing all tasks do at the end is a
reduction, which task 0 does not leave before all have called it.  (It matters:
without it task 0 could send its token of the log to a root that still
collects.)  `AppNext` adds messages of the application after `MPI_Init`.

**IpmReportText, IpmLogText.**  A report is the sequence of the kinds of its
lines, a log the sequence of its tags; numbers, attributes and layout are left
out, but what decides whether a line is printed, how often and in which order
is there.  `index_doubles` is the code's sort: all pairs, in the order of its
two loops.  `WellFormed` computes what a stretch of tags closes and leaves open
from what its two halves do.

**IpmEnv.**  A setting is a variable with its value split where the code splits
it; the environment is a sequence, because the loop over `environ` and the loop
over the clauses of `IPM_MPI_TRACE` apply each to what those before left.  All
of it runs before the task knows its rank (`mpi_rank` is -1), as in the code.

**IpmHpm.**  One counter that counts the time it runs stands for the counters of
an event set, so that what is charged to a region can be compared with the
region's wall time.  Any call of PAPI may fail.

**IpmTask.**  Its steps are those of `IpmRegion` with what else the code does in
them: `TaskEndCall` is the rest of a wrapper after the MPI call (checkpoint,
snapshot, figures for PBS, table, trace), `AtRegion` what `ipm_region` does
beside the times.  A signal that is due is delivered before the clock goes on,
between any two steps.  Where the code would write through a null pointer the
program stops (`pc = "crash"`): the trace buffer that malloc did not give or
that was never allocated (`TraceMallocFails`, `TraceWithoutBuffer`), a snapshot
that cannot be opened (`SnapshotNotOpened`), `MPI_Init` without arguments.  A
task may be killed between the truncation of the snapshot and its end.
`Garbage` is what the sum for PBS starts with: the variable is not initialised.

**IpmLaunch.**  `at` is where a launcher is in `main`.  The file is abstracted
to what its readers tell apart: the records that follow each other from its
beginning, the blocks behind them, and a line written over its beginning by a
launcher that timed out and has the offset 0.  A timeout may end a wait at any
time.  A launcher that is killed lets go of the lock.  The file of an earlier
job may be there (`Leftovers`): nothing removes it.  The lock is modelled by
what `fcntl` does with the structure it is given, which is `F_UNLCK` from the
first unlock on, so the barrier's lock locks nothing.

**IpmFiles.**  The walk gives files in any order.  A type has what is summed and
compared; `TypeOf`, `KeyOf` and `Probe` are the lookup with the memory of the
last type.  `Totals`, `InUse` and `Sorted` are the three passes over the table,
each a fold over the slots as the loops of `main` go through them (`Settle` is
the loop over `i` for one place, `Exchange` its body for all five orders at
once).  The reports print what their conversions make of the numbers.
`human_byte` and `human_age` choose a unit and print tenths of it (`Tenths` is
`%.1f`); a text without a figure (`NoFigure`) tells nothing.  `human_byte` writes
none below 1024 (`%5d` of a double), depends on the build where its argument is
no `int` (`abs`: the choice of `wraps` in `Report`), and writes nothing at all
from 1024 TB on, so that a buffer keeps an earlier text (`Buffer` follows each of
the two buffers through the heading and the lines).  `%d` of the extremes in the
XML report prints the lower half of them (`AsInt`).  The units, 2^31 and the size
of a block are constants, so that the instance can come to all of these.

Each module also holds faulty variants of some of its definitions (their
comments begin with "Faulty"): what a definition would be with a plausible bug.
They are used nowhere in the specifications; `PROJECT.json` ("mutants") says
which property each of them violates when it takes the place of the definition.

## Runs

| run | shows |
|---|---|
| `hash_table` | `NkeyExact`; `FindableUntilResumed`; `EventsConserved`; `ProbeEnds`; `ImplementsProfile` |
| `region_totals` | `MpiWithinWall`; `EventsInAppRegion`; `FinalTotals`; `LabelsDistinct`; `ImplementsStopwatch`, all without checkpoints |
| `region_attribution` | violation: a checkpoint moves events out of the application's region |
| `report_regions` | `CollectivesMatch`; `RegionReduction`; `EachRegionOnce`; `CallsRanked`; `Terminates`, when tasks enter the same regions in any order each |
| `report_traced` | violation: when only some tasks hold trace entries the job hangs before the log |
| `log_file` | `CollectivesMatch`; `SectionsAdjoin`; `LogComplete`; `OneAnswerAtATime`; `Terminates` |
| `topo_rings` | `TopologyRight`; `Synchronizing`; `OneAppends`; `TmpfsComplete`; `Terminates`, on every placement of the tasks on hosts |
| `topo_app` | violation: a root takes a message of the application for the rank of a task of its host |
| `task` | type invariant; `AllTimeCharged`; `TracedAsSelected`; `TracePrefix`; `HpmFollowsWall`; `SnapshotExact`; `SharedInStep`; `LogWellFormed`, with checkpoints |
| `launch` | `RegistrationComplete`; `InitSeparates`; `BarrierSeparates`; `Terminates`, with files of earlier jobs, kills and timeouts |
| `launch_lost` | violation: the barrier's counter loses an arrival |
| `files` | `TableExact`; `OrderRight`; `TotalsRight` |

`PROJECT.json` has a sentence on each, and each property has its meaning above
its definition.

Bounds.  `hash_table` has five slots, a limit of two keys, two calls of three
sizes, two durations, four events and two bits of precision: all of a cull, a
cull nested in the re-insertion of another, a probe resumed after it, a full
table but one slot, and the exhaustion of the precision occur (each was
confirmed by asking TLC for a state that shows it).  `region_*` have three
labels beside region 0 (in `region_totals` one more than the table of labels
holds), four entries and exits and four or five clock ticks, of which two make
a checkpoint due.  The order of tasks in a collective does not depend on their
number beyond "root, neighbour, last"; `report_*` and `log_file` have three
tasks, three labels and two sizes of a section, and `report_regions` three
profiles of three regions and three calls, with ties and zeros.
`topo_rings` has four tasks on up to four hosts: rings of one to four tasks and
of one to four hosts, and two hosts with rings at the same time.  The hosts are
numbered in the order tasks meet them (`HostsInOrder`), which leaves out only
placements with the hosts renamed.  `task` has nine environments (`MCIpmTask`)
that between them use every variable, two calls of two names, two switches of
region, a table of two labels for three, and four units of time with a
checkpoint due in each; buffers of two, three, four and eight entries, so that
they fill at an even and at an odd number.  `launch` has two launchers: one is
first and one last, and the properties of one of them against "the others" are
proved for any number; files of earlier jobs are none, one that stopped in the
registration and one that came to its end.  `files` has six files of four
types, of which three hash to one slot and one to the next, in a table of four.
TLC's integers end at 2^31 - 1, so the units of the report are 1024 and then four
of the one before it each, and "no int" begins at two of the third (2 GB); the
bytes and blocks of the types are below the first unit, in each of the others,
beyond an int and beyond the last unit, and ages in seconds, minutes, hours and
to come.

Deadlock.  `CHECK_DEADLOCK FALSE` in all runs: the program ends (and the bounds
on events and clock stop the models of one task).  A job that hangs is a
behaviour that stutters for ever in `IpmReport`, `IpmLog`, `IpmTmpfsLog` and
`IpmLaunch`, where `Terminates` fails.

Fairness.  `IpmHash`: the macro is sequential code that waits for nothing, so
its steps go on.  `IpmReport`, `IpmLog`, `IpmTmpfsLog`: a task goes on unless
it is in an MPI operation; MPI promises that a collective operation returns when
all tasks have called it and that a send returns when the message is received,
and nothing else is assumed (an operation that may return early need not).
`IpmLaunch`: a launcher goes on, its child ends, the clock reaches every
timeout, and a lock that is asked for again and again when it is free is got
(`F_SETLKW` waits in the kernel); that a poll sees the others' writes is not
assumed.

## Findings

The violation runs are disagreements between the code and what its comments or
its documentation say; `PROJECT.json` quotes both.  In short: a checkpoint ends
the code region it happens in; a root may take a message of the application for
one of `ipm_get_machtopo`; the trace barrier is called by the tasks that have
traced, not by all; the launchers' barrier runs without the lock it takes.

Others, met while modelling and in the models as they are:

- After a cull the outer probe goes on from where the re-insertions left the
  static counter (`ipm.h:555`), so a key can get two entries, though nothing is
  lost (`FindableUntilResumed` says how long the table is exact).
- `ipm_sync` adds the table to `region_mtime` without clearing it
  (`ipm_api.c:251`): a checkpoint makes the regions' MPI times count twice.
- A task that did not enter a region sends stale MPI times and counts for it
  (`ipm_mpi_report.c:201`).  TODO (line 37) says that regions invoked on some
  tasks only make `ipm_report` hang; the model agrees (`SameRegions` is the
  assumption of `report_regions`).
- The exit of a region that was never entered sets `region_current` to -1, from
  which the next `ipm_region` charges no time (`ipm_api.c` lines 83-124); the
  runs take exits to match (`KnownExits`).
- `IPM_MPI_TRACE`: `rank:n` never matches and `rank:odd` always does, because
  the rank is not known yet; `MPI_P2P` and `MPI_COL` select every call; `time`
  from 0 never traces (alarm(0)); a region never turns tracing off, and one that
  turns it on after `rank:` cancelled it writes to a buffer that was never
  allocated.  A variable with a name longer than `MAXSIZE_ENVKEY` makes the loop
  of `ipm_get_env` endless.
- `ipm_pbs_share_mmap` sums into a variable that is not initialised, and leaves
  out the call that is being made.
- The second barrier of the launchers never completes: the counter goes on from
  the first.  All leave it by their timeout.
- The snapshot of one task is no document of its own: task 0 opens the job's
  element and the last task closes it.
- `files`: a name of a user that is not known selects user 0; the table gives up
  before it looks at the last slot; an unknown key of `-sort` leaves no order to
  print in; blocks and extremes of the first type are missing from the totals;
  creation and modification are swapped in the columns.
- `human_byte` of `files` passes a double to `%5d` (`files.c:813`): every number
  of bytes below 1024 in the text report is undefined, and so is "smallest",
  which is always 0.  `abs` (line 812) takes an int: from 2 GB on the branch
  depends on the build, and may be that one.  From 1024 TB on (line 820) nothing
  is written, and the buffer shows the number before, or what was on the stack.
  So `OrderRight` and `TotalsRight` ask of a text only what it can say
  (`SaysBytes`); the XML report has the sums themselves.

## Proofs

TLC checks the properties on small instances; the theorems below hold for every
value of the constants.  They rest on the named assumptions of the modules
(`TableAssumption`, `KeyAssumption`, `NoKeyAssumption`, `FieldAssumption`,
`RegionAssumption`, `EnvAssumption`, `EnvironmentsAssumption`, `TaskAssumption`,
`ReportAssumption`, `SizeAssumption`, `SizesAssumption`, `CommandAssumption`,
`LeftoverAssumption`, `FilesAssumption`, `TypesAssumption`), which the runs
evaluate, and on the
library's facts about finite sets and sequences.  Check them with `tlapm`.

| module | theorem | statement |
|---|---|---|
| `IpmHashProofs` | `TypeCorrect`, `NkeyCorrect` | `Spec => []TypeOK`, `Spec => []NkeyExact` |
| | `FindableCorrect`, `UniqueUntilResumed` | `Spec => []FindableUntilResumed`, and no key twice until then |
| | `EventsConservedCorrect` | `Spec => []EventsConserved` |
| | `TableIsProfile` | `Spec => ImplementsProfile`: the table implements `IpmProfile` |
| `IpmTaskProofs` | `LabelsCorrect` | `Spec => []LabelsDistinct`, in all builds |
| | `MpiWithinWallCorrect` | `Spec => []MpiWithinWall`, without checkpoints |
| | `AttributionCorrect` | `Spec => []EventsInAppRegion`, without checkpoints and unmatched exits |
| | `RegionsAreStopwatches` | `Spec => ImplementsStopwatch`, likewise |
| | `AllTimeChargedCorrect` | `Spec => []AllTimeCharged`, without unmatched exits |
| | `FinalTotalsCorrect` | `Spec => []FinalTotals`, without checkpoints and unmatched exits |
| | `TaskTypeCorrect` | `TaskSpec => []TaskTypeOK` |
| | `TaskTimeCharged` | `TaskSpec => []AllTimeCharged`, without unmatched exits |
| | `HpmFollowsWallCorrect` | `TaskSpec => []HpmFollowsWall` |
| | `SnapshotExactCorrect` | `TaskSpec => []SnapshotExact`, without unmatched exits |
| | `SharedInStepCorrect` | `TaskSpec => []SharedInStep` |
| | `TracedAsSelectedCorrect` | `TaskSpec => []TracedAsSelected` |
| | `TracePrefixCorrect` | `TaskSpec => []TracePrefix` |
| | `LogIsElement` | the log of any number of tasks is one element, all others properly nested |
| | `LogWellFormedCorrect` | `TaskSpec => []LogWellFormed` |
| `IpmReportProofs` | `IndexDoublesRanks` | `index_doubles` lists each index once, by value |
| | `RegionsRanked` | so does the list of regions of the report, and it leaves out the empty slots |
| | `CollectivesCorrect` | `Spec => []CollectivesMatch`, if `SameRegions` and `SameTracing` |
| | `RegionReductionCorrect` | `Spec => []RegionReduction`, likewise |
| | `EachRegionOnceCorrect`, `CallsRankedCorrect` | `Spec => []EachRegionOnce`, `Spec => []CallsRanked`, likewise |
| `IpmLogProofs` | `TypeCorrect`, `CollectivesCorrect` | `Spec => []TypeOK`, `Spec => []CollectivesMatch` |
| | `SectionsCorrect`, `CompleteCorrect` | `Spec => []SectionsAdjoin`, `Spec => []LogComplete` |
| | `AnswersCorrect` | `Spec => []OneAnswerAtATime` |
| `IpmRingsProofs` | `TopologyCorrect` | `TmpfsSpec => []TopologyRight` |
| | `SynchronizingCorrect` | `TmpfsSpec => []Synchronizing` |
| | `OneAppendsCorrect`, `TmpfsCompleteCorrect` | `TmpfsSpec => []OneAppends`, `TmpfsSpec => []TmpfsComplete` |
| `IpmLaunchProofs` | `TypeCorrect`, `LaunchInvariant` | `Spec => []TypeOK`, `Spec => []LaunchInv` |
| | `RegistrationCorrect` | `Spec => []RegistrationComplete` |
| | `InitCorrect`, `BarrierCorrect` | `Spec => []InitSeparates`, `Spec => []BarrierSeparates` |
| `IpmFilesProofs` | `FilesCorrect` | `Spec => []FilesInv` |
| | `TableCorrect`, `OrderCorrect` | `Spec => []TableExact`, `Spec => []OrderRight` |
| | `TotalsCorrect` | `Spec => []TotalsRight`; both, of bytes in the text report, where it writes a figure |

**The table.**  `NkeyExact` is inductive with `TypeOK`: an insertion takes a
free slot, and a cull saves a table that its re-insertions count anew.  For
`FindableUntilResumed`, `FindInv` adds what a probe under way knows: the slots
it has passed are in use, with other keys.  A probe that is resumed after a cull
does not know that, since the table was rebuilt under it; the theorem ends
there, as it must (see Findings).

`EventsConserved` compares the table with the sequence of all events, at the
masks of now.  It is not inductive for two reasons.  A cull in progress holds
entries that are not in the table: the rest of the table it saved and the entry
in hand, in every nested activation (`Held`).  And the next cull coarsens a mask,
after which entries with different keys count as one.  So `Conserved` says
for every set of masked keys, and not only for one, that the entries held with a
key in it have the number and the time of the events logged with a key in it
(with the one in hand); masking by a coarser grain takes such sets to such sets
(`MaskedTwice`).  What a re-insertion takes out of the saved table it puts in
hand (`HeldAfterReinsert`), and a merge adds to the slot.

`IpmProfile` is implemented through the same sums, of the keys of one site
(region, call and rank, which no mask touches: `SiteOfMasked`).  The minimum and
the maximum are the extremes of the bounds of all entries held for the site, in
the table or in a cull (`ProfileWritten`); a merge keeps the extremes of the two
entries it makes one of (`Extremes`).  Only `CountEvent` is a step of the profile
(`CountStep`); every turn of the loop and all of a cull stutters.

**Regions.**  `RegionInv` says that the table of labels has no label twice,
that indices stay below its length, and that the stamps are in order
(`stamp_init`, then the start of the running period, then the clock); it holds
in all builds.  `MpiWithinWall` is not inductive by itself: `WithinInv` adds that
a call being made began after the running period did, which a checkpoint
breaks, so the theorem assumes `~IPM_CHECKPOINT`.  `AppInv` relates the program
to the application: the label of `region_current` is the application's region,
and the table has for each label what the application spent there.  Under an
unmatched exit `region_current` is -1 and has no label, hence `KnownExits`.  The
refinement maps the time, count and MPI time of a label to those at its index
(0 if it has none yet); an entry or an exit is `Switch`, an event is `Call`, the
wrapper's other steps stutter or tick the clock.  That `Call` is allowed (calls
take no longer than their region lasts) is where `WithinInv` is needed.

`AllTimeCharged` and `FinalTotals` are about sums over the regions.  `ChargedInv`
says that the times charged and the running one add up to the time since
`MPI_Init`: a switch takes the running time to one region (`ChargedOnce`) and
starts anew, so the sum does not change, and it holds with checkpoints too.

**Sums and folds.**  The sums of the models are folds, which are defined by
recursion over finite sets.  `FoldTheorems` proves what is needed of them by
taking a smallest subset for which a statement fails (a finite set has one),
instead of an induction: that a sum exists, does not depend on the order
(`SumTakeOut`), and what a change of one summand, an injective renaming or an
added function do to it.  It does the same for folds over sequences, through
least counterexamples, for any step and any property that each step keeps
(`FoldGood`; the property may relate a value to the first one), and step by step
(`FoldNext`).  A module that needs these lemmas
instantiates `FoldTheorems` once per fold.

**One task.**  Each step of `IpmTask` is a step of `IpmRegion` or leaves its
variables alone (`TaskStepRegion`), so `RegionInv` and `ChargedInv` carry over.
`HpmInv` adds what the counters would show if they were read now: they were
started at some time after `MPI_Init` and read last when the region was entered,
and all but the initial region have counted just their time
(`CountersFollow`); a checkpoint, a failed test of the library and the end are
where that could break.  `SnapshotInv` adds that once a snapshot is whole
nothing turns the log off or away, so that no later checkpoint passes it by.
`SharedInv` says that the table has the time of all calls so far, that what is
in the map is the time of the calls up to the last write, and that every call
after it ended within an interval of it.
`EnvSound` shows that every sequence of settings leaves well-typed
flags and options, by the lemmas on folds.

**The trace.**  `TracedAsSelected` and `TracePrefix` read the environment
itself, as a user does: of `IPM_MPI_TRACE` the last setting counts (each begins
with all calls and no regions again), in it the last `call` clause, and the last
window of time of all settings, which none of them clears.  `EnvReads` says that
what `ipm_get_env` leaves in the task is that: it follows the clauses one by one
(`ClauseRead`), and then the settings (`OtherRead`, `TraceSettingRead`), each on
what those before left; and `TraceOptions` that no step changes it.  `WindowInv`
is about the signals: without regions tracing is on only after the alarm that
opens the window, with the alarm that closes it pending, and the clock does not
pass an alarm that is due.  So a call that is traced ends within the window
(`EndsInWindow`), which the clock at its beginning need not be.  `BufferInv`
says of every entry whose it is, and that half a call is at the end of a full
buffer only.  For `TracePrefix`, `PrefixInv` adds that without windows and
regions tracing is on until the buffer is full: nothing but the full buffer
turns it off, so a selected call that finds it off finds no room either.  The
concatenation of the entries of all calls grows by those of one (`FlattenMore`),
of which the buffer takes what fits (`CutMore`).

**The text of the log.**  `WellFormed` halves the tags of a log, wherever the
halves meet, and joins what each half closes and opens.  The proof says what any
stretch of tags does by the elements that are open where it begins and where it
ends, and by the least number of them that are open in between (`Effect`,
`Lowest`): two adjoining stretches have the effect of both (`EffectsJoin`), and
the table that `WellFormed` computes exists and has these effects, by least
counterexample (`EffectsExist`, `EffectsAreStackEffects`).  So a log is one
element if its tags lead from nothing open to nothing open with something open
all the way (`Path`, `PathIsElement`).  Each part of a section leads from an open
task back to it, whatever number of variables, regions, calls and entries it
has; the header and the footer depend on the task being the first or the last
(`SectionPath`), and sections follow on each other (`FlattenPath`).
`LogIsElement` is the result, for any number of tasks and any data in them, of
which `LogWellFormed` asks about two.

**The report.**  `index_doubles` compares each pair in both orders and never
looks at the order it has: `Sunk` is what the first rows have achieved in the
middle of a pass, and `IndexDoublesRanks` follows for every length by the least
counterexample over the rounds.  Task 0 prints the regions by this order of an
array that is longer than its regions; `PositiveFirst` counts that the entries
that took time fill the front of it.  The invariant of the collective
operations is `GivenInv` (what is fixed before `MPI_Finalize`), `PlaceInv` (the
operations a task has called are those of the place it has come to),
`KindsInv` (what the kinds of the operations are up to there, the same for
all tasks), `DataInv` (what a task contributed is its own figure for the region
under discussion) and `ReportInv` (what is printed so far is the prefix of
`Report` for the totals received).  `EachRegionOnce` and `CallsRanked` are then
about the operators of `IpmReportText`, line by line (`Joined`, `RankedBehind`).
These theorems assume `SameRegions` and `SameTracing`: without them the
operations do not match (see Findings), which is what the violation runs show.

**The log.**  `ModeInv` is the heart of it: either all tasks take the parallel
path or all take the serial one, because the sum of `malloc_flag` is the same
for all (`Agreement`); and the operations a task has called are determined by
the place it has come to.  So they match.  In parallel IO `ChainInv` says that
an offset in transit is the end of the sender's section, that the sender's
offset changes no more (`Settled`), and that a task past the receipt begins
where the task before it ends (`Chained`).  In serial IO `RequestInv` says that
the only request or answer in transit is that of the task task 0 is at, and
`SerialInv` that the file then has the sections of all tasks before it, with
the last of them at its end (`Written`), so that the next is appended in its
place.  `CompleteInv` adds that a task past `write_all` has its section in the
file, and that the earlier file is deleted before any task opens it.

**The rings.**  The messages in transit are the hard part: a root receives from
any task, and each task gets on with the next message while others are under
way.  But each message is sent once and received once, so whether it is in
transit follows from how far its sender and its receiver have come, and what it
holds follows from the placement of the tasks and the lists of the roots.  `NetIs`
says so of every pair of tasks: what is in transit between them is `First`,
`Second` and `Third` in this order (the name of a host or the answer to it; a
report, the ring or the size of a host; a token).  A step then changes one of
these, and the lemmas `NetSent`, `NetReceived` and `NetExchanged` say that the
messages remain what they should be.  `OrderInv` says that nobody is ahead of
what it waits for, `ListInv` and `RanksInv` what is in the lists of task 0 and of
the roots as they grow (`OneMore`), `TopoInv` what a task knows at each stage, and
`BcastInv` that nobody returns before task 0 has called the broadcast, by which
time it has gathered all.  That gives `Synchronizing`.  For `TopologyRight` the
neighbours are those in a list without repetition, and going to the right in
such a list comes through all of it and back (`RingOfSeq`).

For `ipm_log`, `RingInv` says that the token of a host comes to a task after all
those before it in the ring, and back to the root after all, so that the files
of all are there when the root appends them (`RootGot`, `CatStep`); `TurnInv`
that the turn comes to a root when all roots before it are through; `FilesInv`
what is in `/tmp` and in the log, by the place of each task and of its root.  A
token shares the queue of two tasks with the messages of the topology, and a
task that waits for the one must not be given the other: `LogInv` says that task
0 starts its log when all have returned (see `Reduced`), and `ReturnedQueue` that
nothing but a token is in transit to a task that has.  A job of one task sends
nothing and has an invariant of its own (`AloneInv`).

**The launchers.**  None of the three properties is inductive: what a launcher
knows when it has found the block, or has left the barrier, depends on what all
of them did to the file.  `LaunchInv` is `TypeOK`, and
`PlaceInv` (what each place in `main` implies: whose child has ended, who is in
the file, and that after the registration the structure of the lock says
`F_UNLCK`), `LockInv` (the holder is the one launcher that is about to append),
`RegisteredInv` (until the block is there, the records at the beginning are
exactly as many as the launchers registered, and the one that holds the lock has
counted them: so exactly one finds `N - 1`), and `ArrivedInv`: what is written in
a block, and what a launcher has read of it and may still write, is never more
than the number of those that have arrived.  The last is why the barrier
separates although arrivals get lost: a lost update makes the counter too small,
never too large, and a counter that is too small ends in a timeout.  `Fresh`
(no file of an earlier job) is needed throughout: with such a file its block is
found at once.

**The program files.**  That a lookup stops at the right slot depends on all
slots passed before, so `TableInv` says of each slot in use that the probing for
its type goes through slots of other types in use (`Reached`).  Slots are never
given up, so this stays true, and two slots of one type would have to be found
by the same probing (`OneSlot`): the sums of a type are in one place.  `Describes`
relates a slot to the files of its type, and one file more keeps it so
(`MoreDescribes`); the memory of the last type is right because its slot keeps
its type.  The totals are followed slot by slot: after the first k slots they are
those of the files whose type has one of them (`TotalsOfAll`).  For the order,
`Precedes` is a strict order of the slots in use by each field, for the averages
too (`AveragesOrdered`, which multiplies out what the code divides), and the body
of the loop keeps the places before i in order while place i gets what belongs
behind them (`Settling`, `OneExchange`); an exchange loses no slot (`SwapLists`).
A text is right to half a tenth of the largest unit that its number reaches
(`UnitReached`, `TenthsNear`), for ages before and after the start (`AgeSaid`) and
for bytes from 1024 up to what is no `int`, in some builds up to 1024 TB: for these
the number put in a buffer last is the one it shows (`BytesSaid`).  So each line
has the figures of its own slot (`TextSays`, `XmlSays`).
The theorems hold for every directory, size of the table, hash and command line,
and for every order of the walk.

Only model-checked: `Terminates` and `ProbeEnds`, which need fairness (ENABLED
is out of the provers' reach).  The type invariant of `IpmRegion` has bounds of
the instance in it; `RegionInv` is its counterpart for all values.

## Plan

Modelled, in this order: the table and its promise (`IpmHash`, `IpmProfile`),
regions (`IpmRegion`, `IpmStopwatch`), the end of a job (`MpiCollectives`,
`IpmReport`, `IpmLog`), the topology and the log over it (`IpmMachTopo`,
`IpmTmpfsLog`), the launcher (`IpmLaunch`), one task with the environment, the
counters, the trace, the snapshot and the map for PBS (`IpmTask` and its parts),
the texts (`IpmReportText`, `IpmLogText`) and `files` (`IpmFiles`).

Worth doing next: the bits of a key, with the rounding of `IPM_ROUNDED`; calls
within calls (`IPM_MPI_INSIDE`).

## Not modelled

- The other ways of writing the log (`IPM_LOG_USEMULTI`, `IPM_LOG_USELOCKS`) and
  the branches of `ipm_chkpt_log` that share a file: not in the default build,
  and those that share are those of `ipm_log`.
- PMAPI (AIX), the counters of threads and the tables of event names in
  `ipm_hpm.h` and `ipm_hpm.c`: names and numbers of processors.
- Threads, I/O wrappers, call sites (`IPM_ENABLE_PROFLOW`) and interrupts: off by
  default; no signal is connected to the handler of interrupts, and
  `pthread_create` is in `#if 0`.
- `ipm_log_write_ascii.c` and `ipm_mpi_trace.c`: nothing calls or includes them.
- System information (`/proc`, the batch system, `file`, `ldd`): read once and
  printed.
- Fortran entry points, the Perl tools, build, tests and examples: conversion of
  names and formatting.
- The extraction of size and rank from the arguments of each MPI call
  (`make_wrappers`): one line per call, without state.
