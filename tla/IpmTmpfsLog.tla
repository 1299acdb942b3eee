----------------------------- MODULE IpmTmpfsLog -----------------------------
(***************************************************************************)
(* ipm_log as built with IPM_LOG_USETMPFS: each task writes its section to *)
(* a file in /tmp of its host.  A token that goes round the ring of a host *)
(* tells its root that all have; the roots, one after another along their  *)
(* own ring, append the files of their host to the log and remove them.    *)
(* The rings are those of ipm_get_machtopo (IpmMachTopo); ipm_trc_dump has *)
(* the same protocol.                                                      *)
(***************************************************************************)
EXTENDS IpmMachTopo

VARIABLES
  step,     (* the place of a task in ipm_log                              *)
  tmp,      (* the tasks whose files are in /tmp of their hosts            *)
  log       (* per task, how often its section is in the log               *)

log_vars == <<step, tmp, log>>
rest == <<ops, inside, host, at, n, root_vars, local_ranks, topo, nhosts>>
vars == <<topo_vars, log_vars>>

TmpfsInit ==
  /\ Init
  /\ step = [r \in Ranks |-> "before"]
  /\ tmp = {}
  /\ log = [r \in Ranks |-> 0]

GoOn(r, place) == step' = [step EXCEPT ![r] = place]

IsRoot(r) == topo[r].intra_root = r

(* Faulty FirstOf: all tasks wait for the token.                           *)
FirstOfWaits(r) == IF topo[r].intra_size > 1 THEN "wait" ELSE "chain"

(* What a task does once it has written its file: the root sends the token *)
(* and the others wait for it.                                             *)
FirstOf(r) ==
  IF topo[r].intra_size > 1 THEN (IF IsRoot(r) THEN "send" ELSE "wait") ELSE "chain"

(* The reductions of ipm_report come before ipm_log, and those end in task *)
(* 0 when all tasks have called them (elsewhere they may end earlier).     *)
Reduced(r) == r = 0 => \A q \in Ranks : at[q] = "done"

WriteTmp(r) ==
  /\ step[r] = "before" /\ at[r] = "done" /\ Reduced(r)
  /\ tmp' = tmp \cup {r}
  /\ GoOn(r, FirstOf(r))
  /\ UNCHANGED <<rest, net, sending, log>>

SendToken(r) ==
  /\ step[r] = "send"
  /\ Send(r, topo[r].intra_right, 0)
  /\ GoOn(r, IF IsRoot(r) THEN "wait" ELSE "end")
  /\ UNCHANGED <<rest, tmp, log>>

RecvToken(r) ==
  /\ step[r] = "wait"
  /\ Recv(r, topo[r].intra_left, 0)
  /\ GoOn(r, IF IsRoot(r) THEN "chain" ELSE "send")
  /\ UNCHANGED <<rest, tmp, log>>

(* Faulty Waits: no root waits for the others.                             *)
WaitsNever(r) == nhosts[r] > 1 /\ r < 0

(* The root of a host other than the first waits for the one before. *)
Waits(r) == nhosts[r] > 1 /\ r # 0

Chain(r) ==
  /\ step[r] = "chain"
  /\ IF Waits(r) THEN Recv(r, topo[r].inter_left, 0) ELSE UNCHANGED <<net, sending>>
  /\ GoOn(r, "cat")
  /\ UNCHANGED <<rest, tmp, log>>

(* cat /tmp/... >> log *)
Cat(r) ==
  /\ step[r] = "cat"
  /\ log' = [q \in Ranks |-> IF q \in tmp \cap OnHost(r) THEN log[q] + 1 ELSE log[q]]
  /\ GoOn(r, "rm")
  /\ UNCHANGED <<rest, net, sending, tmp>>

(* Faulty Remove: only the root's own file is removed.                     *)
RemoveOwn(r) ==
  /\ step[r] = "rm"
  /\ tmp' = tmp \ {r}
  /\ GoOn(r, IF nhosts[r] > 1 /\ topo[r].inter_right # 0 THEN "pass" ELSE "end")
  /\ UNCHANGED <<rest, net, sending, log>>

(* rm /tmp/... *)
Remove(r) ==
  /\ step[r] = "rm"
  /\ tmp' = tmp \ OnHost(r)
  /\ GoOn(r, IF nhosts[r] > 1 /\ topo[r].inter_right # 0 THEN "pass" ELSE "end")
  /\ UNCHANGED <<rest, net, sending, log>>

Pass(r) ==
  /\ step[r] = "pass"
  /\ Send(r, topo[r].inter_right, 0)
  /\ GoOn(r, "end")
  /\ UNCHANGED <<rest, tmp, log>>

LogStep(r) ==
  \/ WriteTmp(r) \/ SendToken(r) \/ RecvToken(r) \/ Chain(r) \/ Cat(r) \/ Remove(r)
  \/ Pass(r)

TmpfsNext ==
  \/ Next /\ UNCHANGED log_vars
  \/ \E r \in Ranks : Idle(r) /\ LogStep(r)

TmpfsSpec == TmpfsInit /\ [][TmpfsNext]_vars

(* A task goes on unless it is in an MPI operation that may keep it: a     *)
(* send returns when the message is received.                              *)
Fairness ==
  \A r \in Ranks :
    /\ WF_vars(Idle(r) /\ Step(r) /\ MustReturn(r) /\ UNCHANGED log_vars)
    /\ WF_vars(Idle(r) /\ LogStep(r))
    /\ WF_vars(ReturnSend(r) /\ net[<<r, sending[r]>>] = <<>> /\ UNCHANGED log_vars)

FairSpec == TmpfsSpec /\ Fairness
-----------------------------------------------------------------------------
(***************************************************************************)
(* Correctness.                                                            *)
(***************************************************************************)

(* No two roots append to the log at a time. *)
OneAppends ==
  \A p, q \in Ranks : step[p] \in {"cat", "rm"} /\ step[q] \in {"cat", "rm"} => p = q

(* When ipm_log has returned in all tasks, the log has the section of each *)
(* task once, and /tmp is as before.                                       *)
TmpfsComplete ==
  (\A r \in Ranks : step[r] = "end") => log = [r \in Ranks |-> 1] /\ tmp = {}

(* ipm_get_machtopo and ipm_log return in every task, however tasks are    *)
(* placed on hosts and whether or not MPI buffers messages.                *)
Terminates == <>(\A r \in Ranks : step[r] = "end")
=============================================================================
