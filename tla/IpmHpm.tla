------------------------------- MODULE IpmHpm -------------------------------
(***************************************************************************)
(* The hardware counters of a task, read through PAPI (HPM_PAPI): the test *)
(* that ipm_init makes, ipm_hpm_start, ipm_hpm_read, ipm_hpm_stop, and     *)
(* what ipm_region does with them.                                         *)
(*                                                                         *)
(* The counters of an event set grow together: one counter that counts     *)
(* the units of time it runs stands for all.  The PAPI library is outside  *)
(* the repository; any of its calls may fail.                              *)
(***************************************************************************)
EXTENDS IpmRegion

(* The calls of ipm_hpm_test, in the order they are made. *)
TestSteps ==
  {"library_init", "create_eventset", "add_event", "start", "read", "reset", "stop"}

(* No event set: none was created, or it was cleaned up. *)
NoCounters ==
  [state |-> "null", since |-> 0, region_init |-> 0, hpm_count |-> [i \in Indices |-> 0]]

(* ipm_hpm_test when the step that fails is `failing`, or when none does:  *)
(* a failure leaves the event set as it is by then, even running.          *)
ipm_hpm_test(failing) ==
  CASE failing \in {"library_init", "create_eventset"} -> NoCounters
    [] failing \in {"add_event", "start"} -> [NoCounters EXCEPT !.state = "created"]
    [] failing \in {"read", "reset", "stop"} ->
         [NoCounters EXCEPT !.state = "running", !.since = now]
    [] OTHER -> NoCounters

(* ipm_hpm_start: only PAPI_start decides whether the counters run; of the *)
(* other calls that fail it prints a message.                              *)
ipm_hpm_start(ok) ==
  [NoCounters EXCEPT !.state = IF ok THEN "running" ELSE "created", !.since = now]

(* ipm_hpm_read: it leaves what was read before when PAPI_read fails. *)
ipm_hpm_read(h) ==
  CASE h.state = "running" -> now - h.since
    [] h.state = "stopped" -> h.since
    [] OTHER               -> h.region_init

(* ipm_hpm_stop: the event set keeps what it counted. *)
ipm_hpm_stop(h) ==
  IF h.state = "running" THEN [h EXCEPT !.state = "stopped", !.since = now - @] ELSE h

(* Faulty CountersAtRegion: the new period begins where the last one did.  *)
CountersNotReread(h, flags, current) ==
  IF "IPM_HPM_ACTIVE" \in flags
  THEN [h EXCEPT !.hpm_count = Charge(@, current, ipm_hpm_read(h) - h.region_init)]
  ELSE h

(* ipm_region: the counters are read unless canceled, what they counted is *)
(* charged to the region that ends if they are active, and they are read   *)
(* again for the region that begins.                                       *)
CountersAtRegion(h, flags, current) ==
  IF "IPM_HPM_CANCELED" \in flags THEN h
  ELSE [h EXCEPT !.hpm_count = IF "IPM_HPM_ACTIVE" \in flags
                               THEN Charge(@, current, ipm_hpm_read(h) - h.region_init)
                               ELSE @,
                 !.region_init = ipm_hpm_read(h)]
=============================================================================
