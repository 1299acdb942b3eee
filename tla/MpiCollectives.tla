--------------------------- MODULE MpiCollectives ---------------------------
(***************************************************************************)
(* The collective operations of MPI_COMM_WORLD as IPM uses them (the MPI   *)
(* library is outside the repository).  They match by position: the n-th   *)
(* that a task calls is the n-th of every task, and a task whose peers     *)
(* call another operation in that place is stuck with them.  An operation  *)
(* returns as soon as MPI may let it: a reduction at any time at a task    *)
(* other than its root 0, a broadcast once task 0 has called it, every     *)
(* other operation once all tasks have called it.                          *)
(***************************************************************************)
EXTENDS Integers, Sequences

CONSTANT mpi_size

ASSUME SizeAssumption == mpi_size \in Nat \ {0}

Ranks == 0 .. mpi_size - 1

VARIABLES
  ops,      (* per task, the operations it has called: their kind and the  *)
            (* data it contributed                                         *)
  inside    (* has the last of them not returned yet?                      *)

InitCollectives ==
  /\ ops = [r \in Ranks |-> <<>>]
  /\ inside = [r \in Ranks |-> FALSE]

Position(r) == Len(ops[r])

(* What task q contributed to the last operation task r called. *)
DataOf(q, r) == ops[q][Position(r)].data

Called(q, r) == Position(q) >= Position(r)
Same(q, r) == ops[q][Position(r)].kind = ops[r][Position(r)].kind

CallOp(r, kind, data) ==
  /\ ~inside[r]
  /\ ops' = [ops EXCEPT ![r] = Append(@, [kind |-> kind, data |-> data])]
  /\ inside' = [inside EXCEPT ![r] = TRUE]

AllCalled(r) == \A q \in Ranks : Called(q, r) /\ Same(q, r)

ReturnOp(r) ==
  /\ inside[r]
  /\ \A q \in Ranks : Called(q, r) => Same(q, r)
  /\ LET kind == ops[r][Position(r)].kind
     IN \/ kind = "reduce" /\ r # 0
        \/ kind = "bcast" /\ (r = 0 \/ Called(0, r))
        \/ AllCalled(r)
  /\ inside' = [inside EXCEPT ![r] = FALSE]
  /\ UNCHANGED ops

(* Only then does MPI guarantee that the operation returns. *)
MustReturn(r) == inside[r] => AllCalled(r)

(* At no position have two tasks called different operations. *)
CollectivesMatch ==
  \A q, r \in Ranks : \A n \in 1 .. Position(r) :
    n <= Position(q) => ops[q][n].kind = ops[r][n].kind
=============================================================================
