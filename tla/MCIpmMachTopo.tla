---------------------------- MODULE MCIpmMachTopo ----------------------------
(* Instances of IpmMachTopo for TLC, without a log.                        *)
EXTENDS IpmMachTopo
=============================================================================
