----------------------------- MODULE IpmMachTopo -----------------------------
(***************************************************************************)
(* ipm_get_machtopo: the tasks of a job find out which of them share a     *)
(* host.  Task 0 gathers the names of the hosts and tells each task the    *)
(* root of its host (the first task there); the roots gather the tasks of  *)
(* their hosts, in the order these report, and make a ring of them; the    *)
(* roots are themselves a ring.                                            *)
(*                                                                         *)
(* The three messages to a root (size and neighbours) are one, and so are  *)
(* the five to a task of a host and the two broadcasts at the end.  The    *)
(* messages between two tasks are received in their order.  A send returns *)
(* at any time (MPI may buffer the message), but need not before the       *)
(* message is received.  malloc succeeds.                                  *)
(*                                                                         *)
(* A task that has returned goes on with the application, which may send   *)
(* messages of its own in MPI_COMM_WORLD (AppNext).                        *)
(***************************************************************************)
EXTENDS MpiCollectives, FiniteSets, FiniteSetsExt

CONSTANT Hosts

ASSUME TopoAssumption == Hosts # {}

VARIABLES
  host,         (* per task, the name of its host                          *)
  at,           (* the place a task has come to                            *)
  net,          (* per pair of tasks, the messages in transit              *)
  sending,      (* the receiver of a send that has not returned, or the    *)
                (* task itself                                             *)
  n,            (* the index of the loop a task is in                      *)
  local_roots,  (* of task 0: the first task of each host                  *)
  local_sizes,  (* and the number of tasks there                           *)
  local_ranks,  (* per root, the tasks of its host                         *)
  topo,         (* what a task keeps                                       *)
  nhosts        (* job.nhosts                                              *)

root_vars == <<local_roots, local_sizes>>
topo_vars ==
  <<ops, inside, host, at, net, sending, n, root_vars, local_ranks, topo, nhosts>>

Pairs == Ranks \X Ranks

Goto(r, place) == at' = [at EXCEPT ![r] = place]

(* The last send of task r has returned. *)
Idle(r) == sending[r] = r

Sent(channels, p, q, data) == [channels EXCEPT ![<<p, q>>] = Append(@, data)]
Received(p, q) == [net EXCEPT ![<<p, q>>] = Tail(@)]

Send(p, q, data) ==
  /\ net' = Sent(net, p, q, data)
  /\ sending' = [sending EXCEPT ![p] = q]

(* Task q receives data from task p. *)
Recv(q, p, data) ==
  /\ net[<<p, q>>] # <<>>
  /\ data = Head(net[<<p, q>>])
  /\ net' = Received(p, q)
  /\ UNCHANGED sending
-----------------------------------------------------------------------------
Init ==
  /\ InitCollectives
  /\ host \in [Ranks -> Hosts]
  /\ at = [r \in Ranks |-> "enter"]
  /\ net = [c \in Pairs |-> <<>>]
  /\ sending = [r \in Ranks |-> r]
  /\ n = [r \in Ranks |-> 1]
  /\ local_roots = <<0>>
  /\ local_sizes = <<1>>
  /\ local_ranks = [r \in Ranks |-> <<>>]
  /\ topo = [r \in Ranks |->
       [intra_root |-> 0, intra_size |-> 0, intra_left |-> 0, intra_right |-> 0,
        inter_left |-> 0, inter_right |-> 0]]
  /\ nhosts = [r \in Ranks |-> -1]

(* A single task is a ring by itself, and calls nothing. *)
Alone == mpi_size = 1

Enter(r) ==
  /\ at[r] = "enter"
  /\ Goto(r, IF Alone THEN "done" ELSE IF r = 0 THEN "gather" ELSE "root")
  /\ IF r = 0 THEN UNCHANGED <<net, sending>> ELSE Send(r, 0, host[r])
  /\ topo' = [topo EXCEPT ![r].intra_size = IF Alone THEN 1 ELSE 0]
  /\ nhosts' = [nhosts EXCEPT ![r] = IF Alone THEN 1 ELSE @]
  /\ UNCHANGED <<ops, inside, host, n, root_vars, local_ranks>>

(* The index of host h in task 0's list, or the next. *)
IndexOf(h) ==
  LET known == {j \in 1 .. Len(local_roots) : host[local_roots[j]] = h}
  IN IF known = {} THEN Len(local_roots) + 1 ELSE Min(known)

(* Task i is on host j. *)
Counted(j, i) ==
  IF j > Len(local_sizes) THEN Append(local_sizes, 1)
  ELSE [local_sizes EXCEPT ![j] = @ + 1]

(* Faulty LastGathered: one task too early.                                *)
LastGatheredEarly(i) == i >= mpi_size - 2

LastGathered(i) == i = mpi_size - 1

(* Task 0 receives the host of task n and answers with the host's root. *)
Gather(r) ==
  /\ at[r] = "gather"
  /\ LET i == n[r]
         j == IndexOf(Head(net[<<i, r>>]))
         roots == IF j > Len(local_roots) THEN Append(local_roots, i) ELSE local_roots
     IN /\ net[<<i, r>>] # <<>>
        /\ local_roots' = roots
        /\ local_sizes' = Counted(j, i)
        /\ net' = Sent(Received(i, r), r, i, roots[j])
        /\ sending' = [sending EXCEPT ![r] = i]
        /\ n' = [n EXCEPT ![r] = IF LastGathered(i) THEN 2 ELSE i + 1]
        /\ Goto(r, IF LastGathered(i) THEN "roots" ELSE "gather")
  /\ UNCHANGED <<ops, inside, host, local_ranks, topo, nhosts>>

RecvRoot(r) ==
  /\ at[r] = "root"
  /\ \E root \in Ranks :
       /\ Recv(r, 0, root)
       /\ topo' = [topo EXCEPT ![r].intra_root = root]
       /\ Goto(r, IF root = r THEN "size" ELSE "member")
  /\ UNCHANGED <<ops, inside, host, n, root_vars, local_ranks, nhosts>>

(* Faulty RightOf: the ring of roots is not closed.                        *)
RightOfOpen(seq, j) == IF j = Len(seq) THEN seq[j] ELSE seq[j + 1]

(* The right neighbour of the j-th task of a ring. *)
RightOf(seq, j) == IF j = Len(seq) THEN seq[1] ELSE seq[j + 1]

(* Task 0 tells the root of host n its size and its neighbours. *)
TellRoot(r) ==
  /\ at[r] = "roots"
  /\ n[r] <= Len(local_roots)
  /\ LET j == n[r]
     IN Send(r, local_roots[j],
             [intra_size |-> local_sizes[j], inter_left |-> local_roots[j - 1],
              inter_right |-> RightOf(local_roots, j)])
  /\ n' = [n EXCEPT ![r] = @ + 1]
  /\ UNCHANGED <<ops, inside, host, at, root_vars, local_ranks, topo, nhosts>>

(* Its own; in a job on one host its right neighbour is -1. *)
OwnRoot(r) ==
  /\ at[r] = "roots"
  /\ n[r] > Len(local_roots)
  /\ topo' = [topo EXCEPT
       ![r].intra_size = local_sizes[1],
       ![r].inter_left = local_roots[Len(local_roots)],
       ![r].inter_right = IF Len(local_roots) > 1 THEN local_roots[2] ELSE -1]
  /\ local_ranks' = [local_ranks EXCEPT ![r] = <<r>>]
  /\ Goto(r, "collect")
  /\ UNCHANGED <<ops, inside, host, net, sending, n, root_vars, nhosts>>

RecvSize(r) ==
  /\ at[r] = "size"
  /\ net[<<0, r>>] # <<>>
  /\ LET d == Head(net[<<0, r>>])
     IN topo' = [topo EXCEPT ![r].intra_size = d.intra_size,
                             ![r].inter_left = d.inter_left,
                             ![r].inter_right = d.inter_right]
  /\ net' = Received(0, r)
  /\ local_ranks' = [local_ranks EXCEPT ![r] = <<r>>]
  /\ Goto(r, "collect")
  /\ UNCHANGED <<ops, inside, host, sending, n, root_vars, nhosts>>

(* A root receives from any task. *)
Collect(r) ==
  /\ at[r] = "collect"
  /\ Len(local_ranks[r]) < topo[r].intra_size
  /\ \E p, q \in Ranks :
       /\ Recv(r, p, q)
       /\ local_ranks' = [local_ranks EXCEPT ![r] = Append(@, q)]
  /\ UNCHANGED <<ops, inside, host, at, n, root_vars, topo, nhosts>>

Collected(r) ==
  /\ at[r] = "collect"
  /\ Len(local_ranks[r]) >= topo[r].intra_size
  /\ n' = [n EXCEPT ![r] = 2]
  /\ Goto(r, "tell")
  /\ UNCHANGED <<ops, inside, host, net, sending, root_vars, local_ranks, topo, nhosts>>

Report(r) ==
  /\ at[r] = "member"
  /\ Send(r, topo[r].intra_root, r)
  /\ Goto(r, "told")
  /\ UNCHANGED <<ops, inside, host, n, root_vars, local_ranks, topo, nhosts>>

(* A root tells the n-th task of its host the size and all neighbours. *)
Tell(r) ==
  /\ at[r] = "tell"
  /\ n[r] <= topo[r].intra_size
  /\ LET j == n[r]
     IN Send(r, local_ranks[r][j],
             [topo[r] EXCEPT !.intra_root = r, !.intra_left = local_ranks[r][j - 1],
                             !.intra_right = RightOf(local_ranks[r], j)])
  /\ n' = [n EXCEPT ![r] = @ + 1]
  /\ UNCHANGED <<ops, inside, host, at, root_vars, local_ranks, topo, nhosts>>

(* Its own.  If it is alone on its host, local_ranks[1] is what is in the  *)
(* memory after the array.                                                 *)
OwnRing(r) ==
  /\ at[r] = "tell"
  /\ n[r] > topo[r].intra_size
  /\ \E right \in IF topo[r].intra_size > 1 THEN {local_ranks[r][2]} ELSE {-1, 0} :
       topo' = [topo EXCEPT
         ![r].intra_left = local_ranks[r][topo[r].intra_size],
         ![r].intra_right = right]
  /\ Goto(r, "bcast")
  /\ UNCHANGED <<ops, inside, host, net, sending, n, root_vars, local_ranks, nhosts>>

Told(r) ==
  /\ at[r] = "told"
  /\ net[<<topo[r].intra_root, r>>] # <<>>
  /\ topo' = [topo EXCEPT ![r] = Head(net[<<topo[r].intra_root, r>>])]
  /\ net' = Received(topo[r].intra_root, r)
  /\ Goto(r, "bcast")
  /\ UNCHANGED <<ops, inside, host, sending, n, root_vars, local_ranks, nhosts>>

CallBcast(r) ==
  /\ at[r] = "bcast"
  /\ CallOp(r, "bcast", IF r = 0 THEN Len(local_roots) ELSE -1)
  /\ UNCHANGED <<host, at, net, sending, n, root_vars, local_ranks, topo, nhosts>>

ReturnBcast(r) ==
  /\ at[r] = "bcast"
  /\ ReturnOp(r)
  /\ nhosts' = [nhosts EXCEPT ![r] = DataOf(0, r)]
  /\ Goto(r, "done")
  /\ UNCHANGED <<host, net, sending, n, root_vars, local_ranks, topo>>

ReturnSend(r) ==
  /\ ~Idle(r)
  /\ sending' = [sending EXCEPT ![r] = r]
  /\ UNCHANGED <<ops, inside, host, at, net, n, root_vars, local_ranks, topo, nhosts>>

Step(r) ==
  \/ Enter(r) \/ Gather(r) \/ RecvRoot(r) \/ TellRoot(r) \/ OwnRoot(r)
  \/ RecvSize(r) \/ Collect(r) \/ Collected(r) \/ Report(r) \/ Tell(r) \/ OwnRing(r)
  \/ Told(r) \/ CallBcast(r) \/ ReturnBcast(r)

Next == \E r \in Ranks : (Idle(r) /\ Step(r)) \/ ReturnSend(r)

Spec == Init /\ [][Next]_topo_vars

(* The application sends its own rank to another task. *)
AppSend(r) ==
  /\ at[r] = "done"
  /\ \E q \in Ranks \ {r} : net[<<r, q>>] = <<>> /\ net' = Sent(net, r, q, r)
  /\ UNCHANGED <<ops, inside, host, at, sending, n, root_vars, local_ranks, topo, nhosts>>

AppNext == Next \/ \E r \in Ranks : AppSend(r)

AppSpec == Init /\ [][AppNext]_topo_vars
-----------------------------------------------------------------------------
(***************************************************************************)
(* Correctness.                                                            *)
(***************************************************************************)

OnHost(r) == {q \in Ranks : host[q] = host[r]}

Roots == {Min(OnHost(r)) : r \in Ranks}

(* Going from r to the right one comes through each of S, and back to r. *)
Ring(right, left, r, S) ==
  LET steps[k \in 0 .. mpi_size] == IF k = 0 THEN r ELSE right[steps[k - 1]]
  IN /\ {steps[k] : k \in 0 .. Cardinality(S) - 1} = S
     /\ steps[Cardinality(S)] = r
     /\ \A q \in S : left[right[q]] = q

(* When every task has returned each knows the first task of its host, the *)
(* number of tasks there and the number of hosts; the neighbours close the *)
(* tasks of each host to one ring, and so do those of the roots, in        *)
(* whatever order the tasks have reported.                                 *)
TopologyRight ==
  (\A r \in Ranks : at[r] = "done") =>
    /\ \A r \in Ranks :
         /\ topo[r].intra_root = Min(OnHost(r))
         /\ topo[r].intra_size = Cardinality(OnHost(r))
         /\ nhosts[r] = Cardinality(Roots)
         /\ topo[r].inter_left = topo[Min(OnHost(r))].inter_left
         /\ topo[r].inter_right = topo[Min(OnHost(r))].inter_right
    /\ \A r \in Roots : Cardinality(OnHost(r)) > 1 =>
         Ring([q \in OnHost(r) |-> topo[q].intra_right],
              [q \in OnHost(r) |-> topo[q].intra_left], r, OnHost(r))
    /\ Cardinality(Roots) > 1 =>
         Ring([q \in Roots |-> topo[q].inter_right],
              [q \in Roots |-> topo[q].inter_left], 0, Roots)

(* "synchronizing collective": no task returns before all have called it.  *)
Synchronizing ==
  (\E r \in Ranks : at[r] = "done") => \A q \in Ranks : at[q] # "enter"

(* "now all local roots know all the local ranks": a root tells no other   *)
(* tasks than those of its host.                                           *)
LocalRanksKnown ==
  \A r \in Ranks : at[r] = "tell" =>
    {local_ranks[r][j] : j \in 1 .. Len(local_ranks[r])} = OnHost(r)
=============================================================================
