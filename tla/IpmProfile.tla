----------------------------- MODULE IpmProfile -----------------------------
(***************************************************************************)
(* What the event hash table promises the rest of IPM: for every site (a   *)
(* region, a call and a peer rank) the number of events, their total time  *)
(* and the shortest and longest of them.  The table may merge the sizes of *)
(* a site to save room, so sizes are not part of the promise; it may give  *)
(* up, which ends the program (exit(1)) and loses the profile.             *)
(***************************************************************************)
EXTENDS Naturals

CONSTANTS Sites, Walls, TMinInit

VARIABLES profile, alive

NoEvents == [count |-> 0, t_tot |-> 0, t_min |-> TMinInit, t_max |-> 0]

Init ==
  /\ profile = [s \in Sites |-> NoEvents]
  /\ alive = TRUE

(* One event of the given duration, counted at its own site and no other.  *)
Record(site, wall) ==
  /\ alive
  /\ profile' = [profile EXCEPT ![site] =
       [count |-> @.count + 1,
        t_tot |-> @.t_tot + wall,
        t_min |-> IF wall < @.t_min THEN wall ELSE @.t_min,
        t_max |-> IF wall > @.t_max THEN wall ELSE @.t_max]]
  /\ UNCHANGED alive

GiveUp ==
  /\ alive
  /\ alive' = FALSE
  /\ profile' = [s \in Sites |-> NoEvents]

Next ==
  \/ \E site \in Sites, wall \in Walls : Record(site, wall)
  \/ GiveUp

Spec == Init /\ [][Next]_<<profile, alive>>
=============================================================================
