------------------------------ MODULE MCIpmTask ------------------------------
(* Instances of IpmTask for TLC: environments that use every variable.     *)
EXTENDS IpmTask

CONSTANTS noregion, solver, other

ThreeLabels == {noregion, solver, other}

W(word) == [word |-> word, n |-> 0]
Num(n) == [word |-> "", n |-> n]
Setenv(key, words) == [key |-> key, words |-> words]
Trace(clauses) == [key |-> "IPM_MPI_TRACE", clauses |-> clauses]
Clause(sel, args) == [sel |-> sel, args |-> args]
Region(label, iti, itf) == [label |-> label, iti |-> iti, itf |-> itf]
Window(init, final) == Clause("time", <<[init |-> init, final |-> final]>>)

NoHpm == Setenv("IPM_HPM", <<W("no")>>)

Verbose ==
  <<Setenv("IPM_DEBUG", <<W("*")>>), Setenv("IPM_REPORT", <<W("terse"), W("full"), W("labelio")>>),
    Setenv("IPM_LOG", <<W("terse"), W("other")>>), Setenv("IPM_MPI_MOD", <<W("bmw"), W("bbs")>>),
    Setenv("IPM_PARALLEL_IO", <<W("n")>>), Setenv("IPM_LOGDIR", <<W("missing")>>),
    Setenv("IPM_HPM", <<W("scan"), W("event"), Num(-1)>>), Setenv("IPM_OTHER", <<W("1")>>)>>
Masked ==
  <<NoHpm, Setenv("IPM_MPI_NOOP", <<W("MPI_Send")>>), Setenv("IPM_MPI_PASS", <<W("*")>>),
    Trace(<<Clause("mem", <<Num(2)>>)>>)>>
NoopSend ==
  <<NoHpm, Setenv("IPM_MPI_NOOP", <<W("MPI_Send")>>), Setenv("IPM_LOGDIR", <<W("/dev/null")>>),
    Setenv("IPM_PARALLEL_IO", <<W("y")>>),
    Trace(<<Clause("call", <<W("MPI_P2P")>>), Clause("rank", <<W("odd")>>)>>)>>
SendsTraced ==
  <<NoHpm, Trace(<<Clause("call", <<W("MPI_Send")>>), Clause("mem", <<Num(3)>>)>>)>>
WindowClosed == <<NoHpm, Trace(<<Window(1, 1)>>)>>
WindowOpen ==
  <<NoHpm, Setenv("IPM_REPORT", <<W("none")>>), Setenv("IPM_LOG", <<W("none")>>),
    Setenv("IPM_PRELOAD", <<W("1")>>), Trace(<<Window(2, 0)>>)>>
WindowNever ==
  <<NoHpm, Setenv("IPM_LOGDIR", <<W("readonly")>>), Setenv("IPM_LOGFILE", <<W("log")>>),
    Trace(<<Window(0, 2), Clause("other", <<>>)>>)>>
RegionTraced ==
  <<NoHpm, Trace(<<Clause("region", <<Region(solver, 1, 2)>>), Window(2, 1)>>)>>
RankElsewhere ==
  <<NoHpm, Trace(<<Clause("rank", <<Num(0), W("even")>>),
                   Clause("region", <<Region(solver, -1, -1)>>), Clause("mem", <<Num(8)>>)>>)>>

Snapshots ==
  <<Setenv("IPM_CHECKPOINT", <<W("1")>>), Setenv("IPM_CHKPT_INTERVAL", <<Num(1)>>)>>
Rounded == <<Setenv("IPM_ROUNDED", <<W("1")>>)>>
Shared ==
  <<Setenv("OMPI_COMM_WORLD_LOCAL_RANK", <<Num(1)>>),
    Setenv("OMPI_COMM_WORLD_LOCAL_SIZE", <<Num(2)>>),
    Setenv("IPM_SHARE_INTERVAL", <<Num(1)>>)>>

AllEnvironments ==
  {Snapshots \o e : e \in
     {Rounded \o Verbose, Masked, NoopSend, Shared \o SendsTraced, WindowClosed, WindowOpen,
      WindowNever, RegionTraced, Shared \o RankElsewhere}}

=============================================================================
