----------------------------- MODULE MCIpmReport -----------------------------
(* Instances of IpmReport for TLC: three regions and three calls, with     *)
(* equal times, calls that were not made, and a region without any.        *)
EXTENDS IpmReport, TLC

CONSTANTS noregion, a, b

Times(x, y, z) == (noregion :> x) @@ (a :> y) @@ (b :> z)

SomeProfiles ==
  {[wtime |-> Times(1, 2, 3), mtime |-> Times(<<0, 1, 2>>, <<1, 1, 1>>, <<2, 0, 0>>)],
   [wtime |-> Times(2, 2, 1), mtime |-> Times(<<0, 0, 0>>, <<1, 2, 1>>, <<0, 3, 1>>)],
   [wtime |-> Times(3, 1, 2), mtime |-> Times(<<0, 0, 0>>, <<0, 0, 0>>, <<0, 0, 0>>)]}

OneProfile == {CHOOSE p \in SomeProfiles : p.wtime[noregion] = 1}

AllSettings ==
  {{"REPORT_FULL"}, {"REPORT_FULL", "REPORT_TERSE", "LOG_NONE"},
   {"REPORT_FULL", "IPM_HPM_CANCELED"}, {"REPORT_FULL", "REPORT_NONE"}}

Default == {{"REPORT_FULL"}}
=============================================================================
