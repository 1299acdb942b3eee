---------------------------- MODULE IpmStopwatch ----------------------------
(***************************************************************************)
(* What code regions promise the user of MPI_Pcontrol: one stopwatch per   *)
(* label and one that runs outside all of them.  At any time exactly one   *)
(* of them runs, so no time is lost and none counted twice; the time spent *)
(* in MPI calls is counted with the region the call was made in, so it is  *)
(* never more than the time that region lasted.                            *)
(***************************************************************************)
EXTENDS Naturals

CONSTANTS Labels, Outside

VARIABLES
  now,      (* the clock                                                   *)
  active,   (* the label whose stopwatch runs                              *)
  since,    (* when it was started                                         *)
  spent,    (* per label, the time of its finished periods                 *)
  visits,   (* per label, their number                                     *)
  inCalls   (* per label, the time of the MPI calls counted with it        *)

vars == <<now, active, since, spent, visits, inCalls>>

Init ==
  /\ now = 0
  /\ active = Outside
  /\ since = 0
  /\ spent = [l \in Labels |-> 0]
  /\ visits = [l \in Labels |-> 0]
  /\ inCalls = [l \in Labels |-> 0]

Tick ==
  /\ now' = now + 1
  /\ UNCHANGED <<active, since, spent, visits, inCalls>>

(* Stop the running stopwatch and start that of l, which may be the same.  *)
Switch(l) ==
  /\ spent' = [spent EXCEPT ![active] = @ + (now - since)]
  /\ visits' = [visits EXCEPT ![active] = @ + 1]
  /\ active' = l
  /\ since' = now
  /\ UNCHANGED <<now, inCalls>>

(* Count a call of d time units with the active label, which must have     *)
(* lasted that long.                                                       *)
Call(d) ==
  /\ inCalls[active] + d <= spent[active] + (now - since)
  /\ inCalls' = [inCalls EXCEPT ![active] = @ + d]
  /\ UNCHANGED <<now, active, since, spent, visits>>

Next ==
  \/ Tick
  \/ \E l \in Labels : Switch(l)
  \/ \E d \in 0 .. now : Call(d)

Spec == Init /\ [][Next]_vars
=============================================================================
