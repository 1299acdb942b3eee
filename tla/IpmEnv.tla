------------------------------- MODULE IpmEnv -------------------------------
(***************************************************************************)
(* What ipm_init makes of the environment: ipm_init_task, the defaults,    *)
(* ipm_get_env with its call of ipm_trc_select, and the preparation of the *)
(* trace buffer and of the time window.                                    *)
(*                                                                         *)
(* A setting is an IPM_ variable of the environment, its value split where *)
(* the code splits it: a record of the key and the words between commas or *)
(* plus signs, each with the number atoi sees in it, or for IPM_MPI_TRACE  *)
(* of the key and its clauses, each with its selector and its arguments.   *)
(* The environment is a sequence of settings, because the code handles     *)
(* them in the order of environ.  The whole of it runs before the rank of  *)
(* the task is known: mpi_rank is -1 (ipm_mpi_init asks for it after       *)
(* ipm_init).  The settings of the periodic snapshot and of the map that   *)
(* is shared with PBS are read by getenv before the loop.                  *)
(***************************************************************************)
EXTENDS Integers, Sequences, SequencesExt

CONSTANTS
  Calls,               (* the MPI calls that have a wrapper                *)
  MAXSIZE_NEVENTSETS,
  TRACE_DEFAULT        (* entries of a buffer of MAXSIZE_TRACEMEM MB       *)

ASSUME EnvAssumption ==
  /\ MAXSIZE_NEVENTSETS \in Nat \ {0}
  /\ TRACE_DEFAULT \in Nat \ {0}

mpi_rank == -1

(* ipm_init_task and the defaults that ipm_init sets before ipm_get_env.   *)
InitTask ==
  [flags         |-> {"IPM_APP_RUNNING", "REPORT_FULL", "LOG_FULL", "PARALLEL_IO_LOG",
                      "IPM_HPM_ACTIVE"},
   call_mask     |-> [c \in Calls |-> {}],
   hpm_eventset  |-> 0,
   log_dir       |-> "default",
   log_fname     |-> "unset",
   trc_region    |-> <<>>,
   trc_time      |-> [init |-> -1, final |-> -2],
   trc_count_max |-> 0]

(* The words that set and clear flags, per variable. *)
Switch(off, on) == [off |-> off, on |-> on]

ReportWords ==
  [none    |-> Switch({"REPORT_TERSE"}, {"REPORT_NONE"}),
   terse   |-> Switch({}, {"REPORT_TERSE"}),
   full    |-> Switch({"REPORT_TERSE"}, {"REPORT_FULL"}),
   labelio |-> Switch({}, {"REPORT_LABELIO"})]

LogWords ==
  [none    |-> Switch({"LOG_TERSE"}, {"LOG_NONE"}),
   terse   |-> Switch({}, {"LOG_TERSE"}),
   full    |-> Switch({"LOG_TERSE"}, {"LOG_FULL"})]

ModWords ==
  [bmw     |-> Switch({}, {"IPM_MPI_BREAKWAIT"}),
   bbs     |-> Switch({}, {"IPM_MPI_PREBARFSYNC"})]

ParallelWords ==
  [n       |-> Switch({"PARALLEL_IO_LOG"}, {}),
   y       |-> Switch({}, {"PARALLEL_IO_LOG"})]

Given(environ, key) == \E k \in DOMAIN environ : environ[k].key = key

(* The number of the first setting of a key, which getenv finds, else 0.   *)
NumberOf(environ, key) ==
  LET first == SelectInSeq(environ, LAMBDA s : s.key = key)
  IN IF first = 0 THEN 0 ELSE environ[first].words[1].n

(* What is read before the loop; MPI tells the task's place on its host.   *)
Early(environ) ==
  [IPM_ROUNDED    |-> Given(environ, "IPM_ROUNDED"),
   IPM_CHECKPOINT |-> Given(environ, "IPM_CHECKPOINT"),
   CHKPT_INTERVAL |-> NumberOf(environ, "IPM_CHKPT_INTERVAL"),
   MPI_LOCAL_RANK |-> NumberOf(environ, "OMPI_COMM_WORLD_LOCAL_RANK"),
   MPI_LOCAL_SIZE |-> NumberOf(environ, "OMPI_COMM_WORLD_LOCAL_SIZE"),
   SHARE_INTERVAL |-> NumberOf(environ, "IPM_SHARE_INTERVAL")]

(* The calls that make the map: after one that fails the descriptor is     *)
(* none or closed, so those that follow fail too, mmap the last of them;   *)
(* mmap also fails when MPI has not told how many tasks there are.         *)
MapSteps == {"open", "lseek", "write", "mmap"}
ShareMapped(early, failing) == failing \notin MapSteps /\ early.MPI_LOCAL_SIZE > 0

(* IPM_DEBUG: its presence is enough (ipm_get_env asks getenv first). *)
DebugFlags(environ) ==
  IF Given(environ, "IPM_DEBUG") THEN {"DEBUG"} ELSE {}

(* The loops over the words of a value; a word that is unknown is ignored. *)
SetFlags(t, table, words) ==
  FoldLeft(LAMBDA u, w :
             IF w.word \in DOMAIN table
             THEN [u EXCEPT !.flags = (@ \ table[w.word].off) \cup table[w.word].on]
             ELSE u,
           t, words)

Mark(t, option, words) ==
  FoldLeft(LAMBDA u, w :
             [u EXCEPT !.call_mask =
                [c \in Calls |-> IF w.word \in {"*", c} THEN @[c] \cup {option} ELSE @[c]]],
           t, words)

(* One word of IPM_HPM: a number, "no", "scan" (MAXSIZE_NEVENTSETS % -1),  *)
(* or the name of an event, which has an underscore.                       *)
HpmWord(t, w) ==
  CASE w.word = "no"    -> [t EXCEPT !.hpm_eventset = -1,
                                     !.flags = (@ \ {"IPM_HPM_ACTIVE"}) \cup {"IPM_HPM_CANCELED"}]
    [] w.word = "scan"  -> [t EXCEPT !.hpm_eventset = 0]
    [] w.word = "event" -> [t EXCEPT !.hpm_eventset = MAXSIZE_NEVENTSETS - 1]
    [] OTHER            -> [t EXCEPT !.hpm_eventset = w.n]

Hpm(t, words) ==
  LET u == FoldLeft(HpmWord, t, words)
  IN IF "IPM_HPM_CANCELED" \notin u.flags /\ u.hpm_eventset < 0
     THEN [u EXCEPT !.hpm_eventset = 0] ELSE u
-----------------------------------------------------------------------------
(* ipm_trc_select.  All is traced unless a clause says otherwise; regions  *)
(* that an earlier setting named are cleared, so that none matches them.   *)
TraceAll(t) ==
  [t EXCEPT !.flags = @ \cup {"IPM_TRC_ACTIVE"},
            !.call_mask = [c \in Calls |-> @[c] \cup {"TRACE"}],
            !.trc_region = <<>>]

(* region:label+label[i-j]: both numbers are -1 for a label alone. *)
TraceRegions(t, args) == [t EXCEPT !.trc_region = @ \o args]

(* rank:even+odd+n: the rank is -1 by now, whichever task this is. *)
Ranked(arg) ==
  \/ arg.word = "even" /\ mpi_rank % 2 = 0
  \/ arg.word = "odd" /\ mpi_rank % 2 # 0
  \/ arg.n = mpi_rank

TraceRanks(t, args) ==
  IF \E k \in DOMAIN args : Ranked(args[k])
  THEN [t EXCEPT !.flags = (@ \ {"IPM_TRC_CANCELED"}) \cup {"IPM_TRC_ACTIVE"}]
  ELSE [t EXCEPT !.flags = (@ \ {"IPM_TRC_ACTIVE"}) \cup {"IPM_TRC_CANCELED"}]

TraceTime(t, args) == [t EXCEPT !.trc_time = args[1]]

(* call:name+name: MPI_P2P and MPI_COL test bit 0 of the mask, the logical *)
(* "or" of the semantic bits, and that bit is set for every call.          *)
TraceCalls(t, args) ==
  [t EXCEPT !.call_mask =
     [c \in Calls |-> IF \E k \in DOMAIN args : args[k].word \in {c, "MPI_P2P", "MPI_COL"}
                      THEN @[c] \cup {"TRACE"} ELSE @[c] \ {"TRACE"}]]

TraceMem(t, args) == [t EXCEPT !.trc_count_max = args[1].n]

(* Faulty TraceClause: call: names calls to add to those traced.           *)
TraceClauseAdding(t, clause) ==
  IF clause.sel = "rank" THEN TraceRanks(t, clause.args)
  ELSE IF clause.sel = "time" THEN TraceTime(t, clause.args)
  ELSE IF clause.sel = "region" THEN TraceRegions(t, clause.args)
  ELSE IF clause.sel = "mem" THEN TraceMem(t, clause.args)
  ELSE t

TraceClause(t, clause) ==
  CASE clause.sel = "region" -> TraceRegions(t, clause.args)
    [] clause.sel = "rank"   -> TraceRanks(t, clause.args)
    [] clause.sel = "time"   -> TraceTime(t, clause.args)
    [] clause.sel = "call"   -> TraceCalls(t, clause.args)
    [] clause.sel = "mem"    -> TraceMem(t, clause.args)
    [] OTHER                 -> t

ipm_trc_select(t, clauses) == FoldLeft(TraceClause, TraceAll(t), clauses)
-----------------------------------------------------------------------------
(* One variable of the environment.  IPM_CODENAME sets a field that        *)
(* IPM_CLEAR_JOBDATA resets, IPM_PRELOAD a flag that nothing reads.        *)
Setting(t, s) ==
  CASE s.key = "IPM_REPORT"      -> SetFlags(t, ReportWords, s.words)
    [] s.key = "IPM_LOG"         -> SetFlags(t, LogWords, s.words)
    [] s.key = "IPM_MPI_MOD"     -> SetFlags(t, ModWords, s.words)
    [] s.key = "IPM_PARALLEL_IO" -> SetFlags(t, ParallelWords, s.words)
    [] s.key = "IPM_HPM"         -> Hpm(t, s.words)
    [] s.key = "IPM_MPI_NOOP"    -> Mark(t, "NOOP", s.words)
    [] s.key = "IPM_MPI_PASS"    -> Mark(t, "PASS", s.words)
    [] s.key = "IPM_MPI_TRACE"   -> ipm_trc_select(t, s.clauses)
    [] s.key = "IPM_PRELOAD"     -> [t EXCEPT !.flags = @ \cup {"IPM_PRELOAD"}]
    [] s.key = "IPM_LOGDIR"      -> [t EXCEPT !.log_dir = s.words[1].word]
    [] s.key = "IPM_LOGFILE"     -> [t EXCEPT !.log_fname = s.words[1].word]
    [] OTHER                     -> t

ipm_get_env(environ) ==
  FoldLeft(Setting, [InitTask EXCEPT !.flags = @ \cup DebugFlags(environ)], environ)

(* The test of the counters by ipm_init; ok: the library answered.         *)
HpmTested(t, ok) ==
  IF "IPM_HPM_CANCELED" \in t.flags \/ ok THEN t
  ELSE [t EXCEPT !.flags = (@ \ {"IPM_HPM_ACTIVE"}) \cup {"IPM_HPM_CANCELED"}]

(* The buffer is allocated when tracing is active at this time.            *)
BufferMade(t) == "IPM_TRC_ACTIVE" \in t.flags

(* Tracing is off until the alarm when there is a time window. *)
Windowed(t) == t.trc_time.init >= 0

TracePrepared(t) ==
  [t EXCEPT !.trc_count_max = IF BufferMade(t) /\ @ = 0 THEN TRACE_DEFAULT ELSE @,
            !.flags = IF Windowed(t) THEN @ \ {"IPM_TRC_ACTIVE"} ELSE @]
=============================================================================
