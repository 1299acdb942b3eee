---------------------------- MODULE MCIpmTmpfsLog ----------------------------
(* Instances of IpmTmpfsLog (and with it of IpmMachTopo) for TLC.          *)
EXTENDS IpmTmpfsLog

(* The tasks meet the hosts in order: any other placement is one of these  *)
(* with the hosts renamed, and hosts are only compared.                    *)
HostsInOrder ==
  \A r \in Ranks : \A h \in Hosts :
    h < host[r] => \E q \in Ranks : q < r /\ host[q] = h

RingsInit == TmpfsInit /\ HostsInOrder

RingsSpec == RingsInit /\ [][TmpfsNext]_vars /\ Fairness
=============================================================================
