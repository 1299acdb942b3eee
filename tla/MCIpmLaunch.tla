----------------------------- MODULE MCIpmLaunch -----------------------------
EXTENDS IpmLaunch

(* No file, one of a job that stopped, one of a job that had come to its   *)
(* barrier.                                                                *)
OldFiles == {[old |-> 0, closed |-> FALSE], [old |-> 1, closed |-> FALSE], [old |-> 2, closed |-> TRUE]}

(* A new job in a clean directory. *)
NoFile == {[old |-> 0, closed |-> FALSE]}
=============================================================================
