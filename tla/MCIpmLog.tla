------------------------------- MODULE MCIpmLog -------------------------------
(* Instances of IpmLog for TLC.                                            *)
EXTENDS IpmLog
=============================================================================
