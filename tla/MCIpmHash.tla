----------------------------- MODULE MCIpmHash ------------------------------
(* Instances of IpmHash for TLC.                                           *)
EXTENDS IpmHash
=============================================================================
