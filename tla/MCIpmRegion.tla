----------------------------- MODULE MCIpmRegion -----------------------------
(* Instances of IpmRegion for TLC.                                         *)
EXTENDS IpmRegion

CONSTANTS ipm_noregion, a, b, c

ThreeRegions == {ipm_noregion, a, b, c}

=============================================================================
