----------------------------- MODULE IpmLogText -----------------------------
(***************************************************************************)
(* The section of a task in the log (ipm_log_write), as the sequence of    *)
(* its tags, without attributes and text.  The default build:              *)
(* JIE_HACK_EXECINFO defined, and neither IPM_DISABLE_EXECINFO nor         *)
(* IPM_MONITOR_PTHREADS.                                                   *)
(*                                                                         *)
(* A log is the sections of the tasks in the order of their ranks          *)
(* (IpmLog); task 0 begins the document and the last task ends it.         *)
(***************************************************************************)
EXTENDS Integers, Sequences, SequencesExt, FiniteSets

Open(name) == [name |-> name, opens |-> TRUE]
Close(name) == [name |-> name, opens |-> FALSE]

(* What one call of ipmprintf opens and closes. *)
Whole(name) == <<Open(name), Close(name)>>
WholeForEach(name, S) ==
  [k \in 1 .. 2 * Cardinality(S) |-> IF k % 2 = 1 THEN Open(name) ELSE Close(name)]

(* Task 0 begins the document. *)
Header(rank) == IF rank = 0 THEN <<Open("ipm_job_profile")>> ELSE <<>>

TaskHead ==
  <<Open("task")>> \o Whole("job") \o Whole("host") \o Whole("perf") \o Whole("switch")
    \o Whole("cmdline")

(* The files left by the batch system, and the answers of file and ldd.    *)
ExecInfo ==
  <<Open("exec"), Open("pre"), Close("pre"), Close("exec"),
    Open("exec_bin"), Open("pre"), Close("pre"), Close("exec_bin")>>

(* The environment, by task 0 only, up to a variable with no "=".          *)
EnvInfo(rank, variables) == IF rank = 0 THEN WholeForEach("env", variables) ELSE <<>>

RusageInfo == Whole("ru_s_ti") \o Whole("ru_s_tf") \o Whole("ru_c_ti") \o Whole("ru_c_tf")

(* The calls whose precision a cull has reduced. *)
MaskInfo(reduced) == <<Open("call_mask")>> \o WholeForEach("call", reduced) \o <<Close("call_mask")>>

(* Counters, unless they are canceled, and the calls that were made.       *)
RegionInfo(flags, counters, called) ==
  <<Open("region"), Open("hpm")>>
    \o (IF "IPM_HPM_CANCELED" \in flags THEN <<>> ELSE WholeForEach("counter", counters))
    \o <<Close("hpm")>> \o WholeForEach("func", called) \o <<Close("region")>>

RegionsInfo(flags, counters, called) ==
  <<Open("regions")>>
    \o FlattenSeq([i \in DOMAIN called |-> RegionInfo(flags, counters, called[i])])
    \o <<Close("regions")>>

(* The table of events, for a full log only. *)
HashInfo(flags, keys) ==
  IF "LOG_FULL" \in flags THEN <<Open("hash")>> \o WholeForEach("hent", keys) \o <<Close("hash")>>
  ELSE <<>>

(* Faulty Footer: the rank after the last one is waited for.               *)
FooterAfterLast(rank, mpi_size) ==
  Whole("internal") \o <<Close("task")>>
    \o (IF rank = mpi_size THEN <<Close("ipm_job_profile")>> ELSE <<>>)

(* The last task ends the document. *)
Footer(rank, mpi_size) ==
  Whole("internal") \o <<Close("task")>>
    \o (IF rank = mpi_size - 1 THEN <<Close("ipm_job_profile")>> ELSE <<>>)

(* p: flags, variables (of the environment), reduced (calls), counters (of *)
(* the event set), called (per region, the calls) and keys (of the table). *)
ipm_log_write(p, rank, mpi_size) ==
  Header(rank) \o TaskHead \o ExecInfo \o ExecInfo \o EnvInfo(rank, p.variables) \o RusageInfo
    \o MaskInfo(p.reduced) \o RegionsInfo(p.flags, p.counters, p.called)
    \o HashInfo(p.flags, p.keys) \o Footer(rank, mpi_size)

(* The log of a job whose tasks have the profiles `profiles`.              *)
WholeLog(profiles) ==
  FlattenSeq([k \in DOMAIN profiles |-> ipm_log_write(profiles[k], k - 1, Len(profiles))])

(* What a stretch of tags closes that it did not open, and what it leaves   *)
(* open, of which the last is closed first; or a mismatch, for ever.       *)
Neutral == [closes |-> <<>>, opens |-> <<>>]
Mismatch == [closes |-> <<"mismatch">>, opens |-> <<"mismatch">>]

EffectOf(tag) ==
  IF tag.opens THEN [Neutral EXCEPT !.opens = <<tag.name>>]
  ELSE [Neutral EXCEPT !.closes = <<tag.name>>]

FollowedBy(x, y) ==
  LET open == Len(x.opens)
      n    == IF open <= Len(y.closes) THEN open ELSE Len(y.closes)
  IN IF \E i \in 1 .. n : x.opens[open + 1 - i] # y.closes[i] THEN Mismatch
     ELSE [closes |-> x.closes \o SubSeq(y.closes, n + 1, Len(y.closes)),
           opens  |-> SubSeq(x.opens, 1, open - n) \o y.opens]

(* One element, with all others properly nested in it.                     *)
WellFormed(tags) ==
  LET effect[s \in (1 .. Len(tags)) \X (1 .. Len(tags))] ==
        IF s[1] = s[2] THEN EffectOf(tags[s[1]])
        ELSE LET middle == (s[1] + s[2]) \div 2
             IN FollowedBy(effect[<<s[1], middle>>], effect[<<middle + 1, s[2]>>])
  IN /\ Len(tags) > 2
     /\ Head(tags).opens /\ ~Last(tags).opens /\ Head(tags).name = Last(tags).name
     /\ effect[<<2, Len(tags) - 1>>] = Neutral
=============================================================================
