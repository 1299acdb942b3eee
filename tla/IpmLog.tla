-------------------------------- MODULE IpmLog --------------------------------
(***************************************************************************)
(* ipm_log, as the default build has it (IPM_LOG_USEMPI): the tasks of a   *)
(* job write one log file.  With IPM_PARALLEL_IO each formats its section  *)
(* into a buffer, and if every task could allocate one they write them     *)
(* with MPI-IO, at offsets that are passed from task to task.  Otherwise   *)
(* task 0 writes the file: it asks one task after another for its structs  *)
(* and receives them into its own.                                         *)
(*                                                                         *)
(* The three messages by which a task answers (job, task and txt) are one. *)
(* A send returns at any time after the call (MPI may buffer the message), *)
(* but need not before the message is received.  What the environment sets *)
(* is the same in every task, and MPI_File_open fails in all tasks or in   *)
(* none.                                                                   *)
(***************************************************************************)
EXTENDS MpiCollectives, FiniteSets

CONSTANT Sizes    (* the sizes a task's section may have *)

ASSUME SizesAssumption == Sizes \subseteq Nat \ {0}

VARIABLES
  env,        (* is log_dir "/dev/null", PARALLEL_IO_LOG set, and can the  *)
              (* file be opened?                                           *)
  buff_size,  (* per task, the size of its section                         *)
  buffer,     (* did malloc give it a buffer?                              *)
  at,         (* the place a task has come to                              *)
  offset,     (* file_offset                                               *)
  msgs,       (* messages in transit; none are lost or overtaken           *)
  task,       (* whose data task 0 has in its struct task                  *)
  i,          (* the task that task 0 is at                                *)
  file,       (* the sections in the file                                  *)
  old         (* does it have the contents of an earlier job?              *)

given == <<env, buff_size, buffer>>
vars == <<ops, inside, env, buff_size, buffer, at, offset, msgs, task, i, file, old>>

Section(r, from) == [rank |-> r, from |-> from, to |-> from + buff_size[r]]

(* The end of the file, that task 0 appends at. *)
FileEnd == CHOOSE n \in {0} \cup {p.to : p \in file} : \A p \in file : p.to <= n

Token(r) == [type |-> "token", from |-> 0, to |-> r, data |-> 0]
OffsetMsg(r, sum) == [type |-> "offset", from |-> r, to |-> r + 1, data |-> sum]
Answer(r) == [type |-> "structs", from |-> r, to |-> 0, data |-> r]

Last == mpi_size - 1

(* The collective operation at a place. *)
Kind ==
  [alloc |-> "allreduce", deleted |-> "barrier", open |-> "open", write |-> "write_all",
   close |-> "close", closed |-> "barrier", gathered |-> "barrier"]

Goto(r, place) == at' = [at EXCEPT ![r] = place]
-----------------------------------------------------------------------------
Init ==
  /\ InitCollectives
  /\ env \in [devnull : BOOLEAN, parallel : BOOLEAN, opens : BOOLEAN]
  /\ buff_size \in [Ranks -> Sizes]
  /\ buffer \in [Ranks -> BOOLEAN]
  /\ at = [r \in Ranks |-> "enter"]
  /\ offset = [r \in Ranks |-> 0]
  /\ msgs = {}
  /\ task = 0
  /\ i = 0
  /\ file = {}
  /\ old = TRUE

Enter(r) ==
  /\ at[r] = "enter"
  /\ Goto(r, CASE env.devnull -> "done"
               [] env.parallel /\ ~env.devnull -> "alloc"
               [] OTHER -> "serial")
  /\ UNCHANGED <<ops, inside, given, offset, msgs, task, i, file, old>>

(* The sum over malloc_flag. *)
CallAlloc(r) ==
  /\ at[r] = "alloc"
  /\ CallOp(r, "allreduce", buffer[r])
  /\ UNCHANGED <<given, at, offset, msgs, task, i, file, old>>

(* Faulty AllocationSucceeded: the task's own flag decides.                *)
OwnAllocationSucceeded(r) == DataOf(r, r)

AllocationSucceeded(r) == \A q \in Ranks : DataOf(q, r)

(* Faulty ReturnAlloc: only task 0 calls the barrier after the deletion.   *)
ReturnAllocZero(r) ==
  /\ at[r] = "alloc"
  /\ ReturnOp(r)
  /\ Goto(r, CASE ~AllocationSucceeded(r) -> "serial"
               [] AllocationSucceeded(r) /\ r = 0 -> "deleted"
               [] OTHER -> "open")
  /\ UNCHANGED <<given, offset, msgs, task, i, file, old>>

ReturnAlloc(r) ==
  /\ at[r] = "alloc"
  /\ ReturnOp(r)
  /\ Goto(r, IF AllocationSucceeded(r) THEN "deleted" ELSE "serial")
  /\ UNCHANGED <<given, offset, msgs, task, i, file, old>>

(* Faulty CallDeleted: the file is not deleted, and MPI-IO cannot truncate. *)
CallDeletedNothing(r) ==
  /\ at[r] = "deleted"
  /\ CallOp(r, "barrier", TRUE)
  /\ UNCHANGED <<given, at, offset, msgs, task, i, file, old>>

(* Task 0 deletes the file before it calls the barrier. *)
CallDeleted(r) ==
  /\ at[r] = "deleted"
  /\ CallOp(r, "barrier", TRUE)
  /\ old' = IF r = 0 THEN FALSE ELSE old
  /\ UNCHANGED <<given, at, offset, msgs, task, i, file>>

CallPlain(r) ==
  /\ at[r] \in {"open", "close", "closed", "gathered"}
  /\ CallOp(r, Kind[at[r]], TRUE)
  /\ UNCHANGED <<given, at, offset, msgs, task, i, file, old>>

ReturnOpen(r) ==
  /\ at[r] = "open"
  /\ ReturnOp(r)
  /\ Goto(r, CASE ~env.opens -> "done"
               [] env.opens /\ mpi_size > 1 -> "offset"
               [] OTHER -> "write")
  /\ UNCHANGED <<given, offset, msgs, task, i, file, old>>

(* Faulty SendOffset: the task's own size is passed, and not the sum.      *)
SendOwnSize(r) ==
  /\ IF r = 0 THEN at[r] = "offset" ELSE at[r] = "received"
  /\ msgs' = msgs \cup {OffsetMsg(r, buff_size[r])}
  /\ Goto(r, "sent")
  /\ UNCHANGED <<ops, inside, given, offset, task, i, file, old>>

(* The sum of the sizes up to task r goes to task r + 1. *)
SendOffset(r) ==
  /\ IF r = 0 THEN at[r] = "offset" ELSE at[r] = "received"
  /\ msgs' = msgs \cup {OffsetMsg(r, offset[r] + buff_size[r])}
  /\ Goto(r, "sent")
  /\ UNCHANGED <<ops, inside, given, offset, task, i, file, old>>

AfterOffset(r) == IF r = Last THEN "write" ELSE "received"

RecvOffset(r) ==
  /\ at[r] = "offset"
  /\ r # 0
  /\ \E m \in msgs :
       /\ m.type = "offset" /\ m.to = r
       /\ offset' = [offset EXCEPT ![r] = m.data]
       /\ msgs' = msgs \ {m}
  /\ Goto(r, AfterOffset(r))
  /\ UNCHANGED <<ops, inside, given, task, i, file, old>>

(* The sender continues: with the write, or with the last barrier. *)
ReturnSend(r) ==
  /\ at[r] \in {"sent", "answered"}
  /\ Goto(r, IF at[r] = "sent" THEN "write" ELSE "gathered")
  /\ UNCHANGED <<ops, inside, given, offset, msgs, task, i, file, old>>

CallWrite(r) ==
  /\ at[r] = "write"
  /\ CallOp(r, "write_all", TRUE)
  /\ file' = file \cup {Section(r, offset[r])}
  /\ UNCHANGED <<given, at, offset, msgs, task, i, old>>

ReturnPlain(r) ==
  /\ at[r] \in {"deleted", "write", "close", "closed", "gathered"}
  /\ ReturnOp(r)
  /\ Goto(r, CASE at[r] = "deleted" -> "open"
               [] at[r] = "write" -> "close"
               [] at[r] = "close" -> "closed"
               [] OTHER -> "done")
  /\ UNCHANGED <<given, offset, msgs, task, i, file, old>>

(* Serial IO.  Task 0 truncates the file and writes its own section. *)
NextTask(n) == IF n < mpi_size THEN "ask" ELSE "gathered"

OpenSerial(r) ==
  /\ at[r] = "serial" /\ r = 0
  /\ env.opens
  /\ file' = {Section(task, 0)}
  /\ old' = FALSE
  /\ i' = 1
  /\ Goto(r, NextTask(1))
  /\ UNCHANGED <<ops, inside, given, offset, msgs, task>>

(* If it cannot open the file it writes to NULL, and the job crashes. *)
OpenSerialFails(r) ==
  /\ at[r] = "serial" /\ r = 0
  /\ ~env.opens
  /\ at' = [q \in Ranks |-> "crashed"]
  /\ inside' = [q \in Ranks |-> FALSE]
  /\ UNCHANGED <<ops, given, offset, msgs, task, i, file, old>>

AskTask(r) ==
  /\ at[r] = "ask"
  /\ msgs' = msgs \cup {Token(i)}
  /\ Goto(r, "gather")
  /\ UNCHANGED <<ops, inside, given, offset, task, i, file, old>>

(* Faulty AnswerTask: the task does not wait for the token.                *)
AnswerUnasked(r) ==
  /\ at[r] = "serial" /\ r # 0
  /\ msgs' = msgs \cup {Answer(r)}
  /\ Goto(r, "answered")
  /\ UNCHANGED <<ops, inside, given, offset, task, i, file, old>>

AnswerTask(r) ==
  /\ at[r] = "serial" /\ r # 0
  /\ Token(r) \in msgs
  /\ msgs' = (msgs \ {Token(r)}) \cup {Answer(r)}
  /\ Goto(r, "answered")
  /\ UNCHANGED <<ops, inside, given, offset, task, i, file, old>>

(* Task 0 receives into its own struct task and writes that. *)
GatherTask(r) ==
  /\ at[r] = "gather"
  /\ \E m \in msgs :
       /\ m.type = "structs" /\ m.from = i
       /\ msgs' = msgs \ {m}
       /\ task' = m.data
  /\ file' = file \cup {Section(task', FileEnd)}
  /\ i' = i + 1
  /\ Goto(r, NextTask(i + 1))
  /\ UNCHANGED <<ops, inside, given, offset, old>>

Step(r) ==
  \/ Enter(r) \/ CallAlloc(r) \/ ReturnAlloc(r) \/ CallDeleted(r) \/ CallPlain(r)
  \/ ReturnOpen(r) \/ SendOffset(r) \/ RecvOffset(r) \/ ReturnSend(r) \/ CallWrite(r)
  \/ ReturnPlain(r) \/ OpenSerial(r) \/ OpenSerialFails(r) \/ AskTask(r)
  \/ AnswerTask(r) \/ GatherTask(r)

Next == \E r \in Ranks : Step(r)

Spec == Init /\ [][Next]_vars

(* The message that task r sends has been received. *)
SendMustReturn(r) ==
  at[r] \in {"sent", "answered"} => \A m \in msgs : m.from # r

(* Nothing stops a task but an operation that MPI may keep it in. *)
FairSpec ==
  Spec /\ \A r \in Ranks : WF_vars(Step(r) /\ MustReturn(r) /\ SendMustReturn(r))
-----------------------------------------------------------------------------
(***************************************************************************)
(* Correctness.                                                            *)
(***************************************************************************)

Places ==
  {"enter", "offset", "sent", "received", "serial", "ask", "gather", "answered", "done",
   "crashed"} \cup DOMAIN Kind

TypeOK ==
  /\ env \in [devnull : BOOLEAN, parallel : BOOLEAN, opens : BOOLEAN]
  /\ buff_size \in [Ranks -> Sizes]
  /\ buffer \in [Ranks -> BOOLEAN]
  /\ at \in [Ranks -> Places]
  /\ offset \in [Ranks -> Nat]
  /\ msgs \subseteq [type : {"token", "offset", "structs"}, from : Ranks, to : Ranks,
                     data : Nat]
  /\ task \in Ranks
  /\ i \in 0 .. mpi_size
  /\ file \subseteq [rank : Ranks, from : Nat, to : Nat]
  /\ old \in BOOLEAN

AllDone == \A r \in Ranks : at[r] \in {"done", "crashed"}

(* The sections of consecutive tasks adjoin, task 0's at the beginning: no *)
(* task writes over another's section, whichever of the two ways the file  *)
(* is written in and in whatever order the writes are made.                *)
SectionsAdjoin ==
  \A p \in file :
    /\ p.rank = 0 => p.from = 0
    /\ p.to = p.from + buff_size[p.rank]
    /\ \A q \in file :
         /\ q.rank = p.rank => q = p
         /\ q.rank = p.rank + 1 => q.from = p.to

(* When ipm_log has returned in all tasks (and the file could be opened)   *)
(* the file has the section of each task, and nothing of an earlier file.  *)
LogComplete ==
  (\A r \in Ranks : at[r] = "done") /\ ~env.devnull /\ env.opens =>
    {p.rank : p \in file} = Ranks /\ ~old

(* "A memory footprint which is a constant independent of concurrency":    *)
(* no two tasks send their structs to task 0 at a time.                    *)
OneAnswerAtATime ==
  \A m, n \in msgs : m.type = "structs" /\ n.type = "structs" => m = n

(* ipm_log returns in every task (or the job has crashed), whichever of    *)
(* the tasks could allocate a buffer.                                      *)
Terminates == <>AllDone
=============================================================================
