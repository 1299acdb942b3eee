------------------------------ MODULE IpmLaunch ------------------------------
(***************************************************************************)
(* The launcher, ipm: one process per task of a parallel job that has no   *)
(* MPI of its own.  Each writes a record of itself to a file all share,    *)
(* the last of them adds a block with the counter of a barrier, each runs  *)
(* its program as a child and then waits twice at the barrier.  Waiting is *)
(* polling until a timeout; whatever the file says, each goes on then.     *)
(*                                                                         *)
(* The file is abstracted to what readers tell apart.  Records that follow *)
(* each other from its beginning are counted (lead).  A block is the line  *)
(* +++ with the two after it.  A task that timed out waiting for +++ has   *)
(* the offset 0 and takes the first line for the block (AtStart).  A poll  *)
(* the C library serves from its buffer sees what an earlier poll saw and  *)
(* changes nothing, so polls may go on without seeing what is in the file. *)
(***************************************************************************)
EXTENDS Integers, Sequences, FiniteSets

CONSTANTS
  N,          (* task.ipm_size, the number of tasks                        *)
  Commands,   (* what the command line asks for                            *)
  Leftovers   (* the files an earlier job may have left: nothing removes it*)

ASSUME SizeAssumption == N \in Nat \ {0}
ASSUME CommandAssumption == Commands \subseteq {"usage", "list", "parse", "run"}
(* A block is written after the record of the task that writes it. *)
ASSUME LeftoverAssumption ==
  /\ Leftovers \subseteq [old : Nat, closed : BOOLEAN]
  /\ \A left \in Leftovers : left.closed => left.old # 0

Tasks == 0 .. N - 1

VARIABLES
  parallel,   (* IPM_IS_PARALLEL: PMI_SIZE is set                          *)
  command,    (* of the command line, the same for all tasks               *)
  at,         (* the place of a task in main                               *)
  child,      (* the task's child process                                  *)
  file,       (* the shared file                                           *)
  holder,     (* the tasks that hold the lock of the file                  *)
  l_type,     (* ipm_fl.l_type, per task                                   *)
  n_before,   (* the records a task has read                               *)
  magic,      (* ipm_magic_offset: the number of a block, or 0             *)
  id,         (* ipm_barrier_id                                            *)
  line,       (* what a task has read at its offset                        *)
  round,      (* which of the two barriers of main a task has come to      *)
  result      (* how it left each of them                                  *)

init_vars == <<parallel, command>>
file_vars == <<file, holder, l_type, n_before, magic>>
barrier_vars == <<id, line, round, result>>
vars == <<init_vars, at, child, file_vars, barrier_vars>>

NoLine == [id |-> -1, count |-> -1]
NewBlock == [id |-> 0, count |-> 0]

Init ==
  /\ parallel \in BOOLEAN
  /\ command \in Commands
  /\ at = [t \in Tasks |-> "init"]
  /\ child = [t \in Tasks |-> "none"]
  /\ \E left \in Leftovers :
       file = [old |-> left.old, lead |-> left.old, first |-> NoLine, ranks |-> {},
               closed |-> left.closed,
               blocks |-> IF left.closed THEN <<[id |-> 1, count |-> 2 * N]>> ELSE <<>>]
  /\ holder = {}
  /\ l_type = [t \in Tasks |-> "F_WRLCK"]
  /\ n_before = [t \in Tasks |-> 0]
  /\ magic = [t \in Tasks |-> 0]
  /\ id = [t \in Tasks |-> 0]
  /\ line = [t \in Tasks |-> NoLine]
  /\ round = [t \in Tasks |-> 1]
  /\ result = [t \in Tasks |-> [r \in {1, 2} |-> "none"]]

GoTo(t, place) == at' = [at EXCEPT ![t] = place]

(* ipm_parallel_init_disk: the decision on PMI_SIZE.                       *)
ParallelInit(t) ==
  /\ at[t] = "init"
  /\ GoTo(t, IF parallel THEN "lock" ELSE "args")
  /\ UNCHANGED <<init_vars, child, file_vars, barrier_vars>>

(* Faulty CanLock: fcntl that locks nothing. *)
CanLockAlways(t) == t \in Tasks

(* fcntl with F_SETLKW waits for other holders, but a request of type      *)
(* F_UNLCK never waits.                                                    *)
CanLock(t) == l_type[t] = "F_WRLCK" => holder \subseteq {t}

(* What the request leaves held. *)
Held(t) == IF l_type[t] = "F_WRLCK" THEN holder \cup {t} ELSE holder \ {t}

(* ipm_parallel_lock_disk, and the records read until something else. *)
ReadRecords(t) ==
  /\ at[t] = "lock" /\ CanLock(t)
  /\ holder' = Held(t)
  /\ n_before' = [n_before EXCEPT ![t] = file.lead]
  /\ GoTo(t, "append")
  /\ UNCHANGED <<init_vars, child, file, l_type, magic, barrier_vars>>

(* Faulty IsLastToRegister: the task's own record is counted. *)
IsLastWithOwn(t) == n_before[t] = N - 2

IsLastToRegister(t) == n_before[t] = N - 1

(* The file with the record of a task and, if it is the last, the block. *)
Registered(t) ==
  [file EXCEPT !.lead = IF file.blocks = <<>> /\ file.first = NoLine THEN @ + 1 ELSE @,
               !.ranks = @ \cup {t},
               !.closed = IsLastToRegister(t),
               !.blocks = IF IsLastToRegister(t) THEN Append(@, NewBlock) ELSE @]

(* One fflush writes both; ipm_parallel_unlock_disk follows, and leaves    *)
(* F_UNLCK in the structure that ipm_parallel_lock_disk uses again.        *)
AppendRecord(t) ==
  /\ at[t] = "append"
  /\ file' = Registered(t)
  /\ holder' = holder \ {t}
  /\ l_type' = [l_type EXCEPT ![t] = "F_UNLCK"]
  /\ GoTo(t, "poll")
  /\ UNCHANGED <<init_vars, child, n_before, magic, barrier_vars>>

(* A poll finds +++ where it looks, 31 characters before the end. *)
FindBlock(t) ==
  /\ at[t] = "poll" /\ file.closed
  /\ magic' = [magic EXCEPT ![t] = Len(file.blocks)]
  /\ GoTo(t, "args")
  /\ UNCHANGED <<init_vars, child, file, holder, l_type, n_before, barrier_vars>>

(* TIMEOUT_init: the offset stays 0. *)
InitTimeout(t) ==
  /\ at[t] = "poll"
  /\ GoTo(t, "args")
  /\ UNCHANGED <<init_vars, child, file_vars, barrier_vars>>

(* A usage message, ipm_listevents and ipm_parse end in exit. *)
Exits(c) == c \in {"usage", "list", "parse"}

ParseArgs(t) ==
  /\ at[t] = "args"
  /\ GoTo(t, IF Exits(command) THEN "exit" ELSE "fork")
  /\ UNCHANGED <<init_vars, child, file_vars, barrier_vars>>

(* fork: the child waits for TOKEN, or there is none and ipm exits. *)
Fork(t) ==
  /\ at[t] = "fork"
  /\ \/ /\ child' = [child EXCEPT ![t] = "ready"]
        /\ GoTo(t, "token")
     \/ /\ UNCHANGED child
        /\ GoTo(t, "exit")
  /\ UNCHANGED <<init_vars, file_vars, barrier_vars>>

SendToken(t) ==
  /\ at[t] = "token"
  /\ child' = [child EXCEPT ![t] = "running"]
  /\ GoTo(t, "wait")
  /\ UNCHANGED <<init_vars, file_vars, barrier_vars>>

(* The program ends, or execvp fails and the child exits. *)
ChildEnds(t) ==
  /\ child[t] = "running"
  /\ child' = [child EXCEPT ![t] = "ended"]
  /\ UNCHANGED <<init_vars, at, file_vars, barrier_vars>>

(* waitpid, after which a parallel launcher comes to its first barrier. *)
WaitChild(t) ==
  /\ at[t] = "wait" /\ child[t] = "ended"
  /\ GoTo(t, IF parallel THEN "arrive" ELSE "exit")
  /\ UNCHANGED <<init_vars, child, file_vars, barrier_vars>>

-----------------------------------------------------------------------------
(* ipm_parallel_barrier_disk.                                              *)

(* At offset 0 a task reads the first record: its rank for the barrier's   *)
(* id and, since what follows is no number, a counter never assigned.      *)
AtStart ==
  IF file.first # NoLine THEN {file.first} ELSE [id : Tasks, count : 0 .. N + 1]

AtOffset(t) == IF magic[t] = 0 THEN AtStart ELSE {file.blocks[magic[t]]}

(* The lock, which after the first unlock is none, and the line. *)
ReadBarrier(t) ==
  /\ at[t] = "arrive" /\ CanLock(t)
  /\ holder' = Held(t)
  /\ \E l \in AtOffset(t) : line' = [line EXCEPT ![t] = l]
  /\ GoTo(t, "count")
  /\ UNCHANGED <<init_vars, child, file, l_type, n_before, magic, id, round, result>>

(* Faulty Counted: the counter starts at one. *)
CountedTwice(l) ==
  [id |-> IF l.count >= N - 2 THEN l.id + 1 ELSE l.id, count |-> l.count + 2]

(* The line with one arrival more. *)
Counted(l) == [id |-> IF l.count = N - 1 THEN l.id + 1 ELSE l.id, count |-> l.count + 1]

Written(t) ==
  IF magic[t] = 0 THEN [file EXCEPT !.first = Counted(line[t]), !.lead = 0]
                  ELSE [file EXCEPT !.blocks[magic[t]] = Counted(line[t])]

(* A task that finds its barrier counts itself and goes on to wait. *)
Arrive(t) ==
  /\ at[t] = "count" /\ line[t].id = id[t]
  /\ file' = Written(t)
  /\ id' = [id EXCEPT ![t] = @ + 1]
  /\ GoTo(t, "await")
  /\ UNCHANGED <<init_vars, child, holder, l_type, n_before, magic, line, round, result>>

(* One that does not releases the lock and tries again. *)
TryAgain(t) ==
  /\ at[t] = "count" /\ line[t].id # id[t]
  /\ holder' = holder \ {t}
  /\ l_type' = [l_type EXCEPT ![t] = "F_UNLCK"]
  /\ GoTo(t, "arrive")
  /\ UNCHANGED <<init_vars, child, file, n_before, magic, barrier_vars>>

(* Faulty ArriveTimeout: the second barrier has no timeout in this loop. *)
ArriveTimeoutOnce(t) ==
  /\ at[t] = "arrive" /\ round[t] = 1
  /\ GoTo(t, "await")
  /\ UNCHANGED <<init_vars, child, file_vars, barrier_vars>>

(* TIMEOUT_barrier before the task has counted itself. *)
ArriveTimeout(t) ==
  /\ at[t] = "arrive"
  /\ GoTo(t, "await")
  /\ UNCHANGED <<init_vars, child, file_vars, barrier_vars>>

(* The return from a barrier, and from main after the second; the file is  *)
(* closed, which releases the locks of the process.                        *)
Leave(t, how) ==
  /\ result' = [result EXCEPT ![t][round[t]] = how]
  /\ round' = [round EXCEPT ![t] = 2]
  /\ GoTo(t, IF round[t] = 1 THEN "arrive" ELSE "exit")
  /\ holder' = holder \ {t}
  /\ UNCHANGED <<init_vars, child, file, l_type, n_before, magic, id>>

SeeAll(t) ==
  /\ at[t] = "await"
  /\ \E l \in AtOffset(t) : l.count = N /\ line' = [line EXCEPT ![t] = l]
  /\ Leave(t, "all")

BarrierTimeout(t) ==
  /\ at[t] = "await"
  /\ Leave(t, "timeout")
  /\ UNCHANGED line

(* A launcher may be killed, by the user or by an MPI that kills all when  *)
(* one exits.  Its child, if it waits for the token, reads the end of the  *)
(* pipe and goes on.                                                       *)
Killed(t) ==
  /\ at[t] # "exit"
  /\ at' = [at EXCEPT ![t] = "exit"]
  /\ child' = [child EXCEPT ![t] = IF @ = "ready" THEN "running" ELSE @]
  /\ holder' = holder \ {t}
  /\ UNCHANGED <<init_vars, file, l_type, n_before, magic, barrier_vars>>

Step(t) ==
  \/ ParallelInit(t) \/ ReadRecords(t) \/ AppendRecord(t)
  \/ FindBlock(t) \/ InitTimeout(t)
  \/ ParseArgs(t) \/ Fork(t) \/ SendToken(t) \/ WaitChild(t)
  \/ ReadBarrier(t) \/ Arrive(t) \/ TryAgain(t) \/ ArriveTimeout(t)
  \/ SeeAll(t) \/ BarrierTimeout(t)

Next == \E t \in Tasks : Step(t) \/ ChildEnds(t) \/ Killed(t)

Spec == Init /\ [][Next]_vars

(* A launcher that can go on does: it polls, and the clock comes to the    *)
(* timeout.  Programs end.  Nothing promises that a poll sees the file.    *)
Fairness ==
  \A t \in Tasks :
    /\ WF_vars(ParallelInit(t)) /\ SF_vars(ReadRecords(t)) /\ WF_vars(AppendRecord(t))
    /\ WF_vars(InitTimeout(t))
    /\ WF_vars(ParseArgs(t)) /\ WF_vars(Fork(t)) /\ WF_vars(SendToken(t)) /\ WF_vars(WaitChild(t))
    /\ WF_vars(Arrive(t)) /\ WF_vars(TryAgain(t))
    /\ SF_vars(ArriveTimeout(t)) /\ WF_vars(BarrierTimeout(t))
    /\ WF_vars(ChildEnds(t))

FairSpec == Spec /\ Fairness

-----------------------------------------------------------------------------
Lines == [id : Nat, count : Nat]

Files ==
  [old : Nat, lead : Nat, first : Lines \cup {NoLine}, ranks : SUBSET Tasks,
   closed : BOOLEAN, blocks : Seq(Lines)]

(* Type invariant.                                                         *)
TypeOK ==
  /\ parallel \in BOOLEAN /\ command \in Commands
  /\ at \in [Tasks -> {"init", "lock", "append", "poll", "args", "fork", "token", "wait",
                       "arrive", "count", "await", "exit"}]
  /\ child \in [Tasks -> {"none", "ready", "running", "ended"}]
  /\ file \in Files
  /\ holder \subseteq Tasks
  /\ l_type \in [Tasks -> {"F_WRLCK", "F_UNLCK"}]
  /\ n_before \in [Tasks -> Nat] /\ magic \in [Tasks -> 0 .. Len(file.blocks)]
  /\ id \in [Tasks -> Nat] /\ line \in [Tasks -> Lines \cup {NoLine}]
  /\ round \in [Tasks -> {1, 2}]
  /\ result \in [Tasks -> [{1, 2} -> {"none", "all", "timeout"}]]

(* No file of an earlier job was there. *)
Fresh == file.old = 0

(* When all tasks are in the file, and none that timed out has written     *)
(* over its beginning, it has one block and ends with it: the lock makes   *)
(* one task, and only one, the last (ipm_parallel_init_disk).              *)
RegistrationComplete ==
  Fresh /\ file.ranks = Tasks /\ file.first = NoLine
    => file.lead = N /\ Len(file.blocks) = 1 /\ file.closed

(* A task that has found the block, and not timed out, knows that all are  *)
(* registered: the wait for +++ is a barrier.                              *)
InitSeparates == Fresh => \A t \in Tasks : magic[t] # 0 => file.ranks = Tasks

(* A task that found the block and left the first barrier before its       *)
(* timeout did so after the programs of all tasks had ended, though the    *)
(* counter is changed without a lock (ipm_parallel_barrier_disk).          *)
BarrierSeparates ==
  Fresh => \A t \in Tasks :
    magic[t] # 0 /\ result[t][1] = "all" => \A u \in Tasks : child[u] = "ended"

(* Whatever others do, fail to start, or have left in the file, every      *)
(* launcher ends.                                                          *)
Terminates == <>(\A t \in Tasks : at[t] = "exit")

(* "now lock or block" (ipm.c:615): when all tasks have counted themselves *)
(* and none has left, the counter is their number.                         *)
ArrivalsCounted ==
  Fresh /\ (\A t \in Tasks : at[t] = "await" /\ magic[t] = 1 /\ id[t] = 1)
    => file.blocks[1].count = N
=============================================================================
