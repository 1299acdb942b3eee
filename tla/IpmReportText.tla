---------------------------- MODULE IpmReportText ----------------------------
(***************************************************************************)
(* What task 0 prints: index_doubles, which ranks regions by wall time and *)
(* calls by MPI time, and ipm_report_internal, as the sequence of the      *)
(* kinds of lines it prints.  Numbers stay out of the lines, but for the   *)
(* call that a line of the table of calls is about.                        *)
(***************************************************************************)
EXTENDS Integers, Sequences

(* The pairs of 0 .. n - 1 in the order of the two nested loops. *)
LoopPair(n, k) == <<(k - 1) \div n, (k - 1) % n>>

Swapped(idx, i, j) == [idx EXCEPT ![i] = idx[j], ![j] = idx[i]]

(* Faulty index_doubles: the inner loop begins behind the outer one's      *)
(* index, but the comparison is still that of the loop over all.           *)
index_doubles_half(n, val) ==
  LET after[k \in 0 .. n * n] ==
        IF k = 0 THEN [i \in 0 .. n - 1 |-> i]
        ELSE LET idx == after[k - 1]
                 p   == LoopPair(n, k)
             IN IF p[2] > p[1] /\ val[idx[p[1]]] > val[idx[p[2]]] THEN Swapped(idx, p[1], p[2])
                ELSE idx
  IN after[n * n]

(* Every pair is compared in both orders; the greater value goes to j. *)
index_doubles(n, val) ==
  LET after[k \in 0 .. n * n] ==
        IF k = 0 THEN [i \in 0 .. n - 1 |-> i]
        ELSE LET idx == after[k - 1]
                 p   == LoopPair(n, k)
             IN IF val[idx[p[1]]] > val[idx[p[2]]] THEN Swapped(idx, p[1], p[2]) ELSE idx
  IN after[n * n]

Line(kind, label) == [kind |-> kind, label |-> label, call |-> -1]

(* The table of calls, down to the first that took no time. *)
CallLines(g_mpi_time) ==
  LET n    == Len(g_mpi_time)
      val  == [i \in 0 .. n - 1 |-> g_mpi_time[i + 1]]
      idx  == index_doubles(n, val)
      stop == {i \in 0 .. n - 1 : val[idx[i]] = 0}
      rows == IF stop = {} THEN n ELSE CHOOSE i \in stop : \A j \in stop : i <= j
  IN [k \in 1 .. rows |-> [kind |-> "call", label |-> "", call |-> idx[k - 1]]]

(* The head of the report, before the totals. *)
Banner(total, label) == IF total THEN <<Line("banner", label)>> ELSE <<>>

(* One line per region, if there are regions besides "ipm_noregion". *)
TerseLines(nregion, total, label) ==
  IF nregion <= 1 THEN <<>>
  ELSE IF total THEN <<Line("heading", label)>> ELSE <<Line("region", label)>>

FullLines(flags, total, label, g_mpi_time) ==
  (IF "REPORT_FULL" \in flags THEN <<Line("region", label)>> ELSE <<>>)
    \o <<Line("times", label)>>
    \o (IF "IPM_HPM_CANCELED" \in flags THEN <<>> ELSE <<Line("flops", label)>>)
    \o (IF total THEN <<Line("memory", label)>> ELSE <<>>)
    \o (IF "IPM_HPM_CANCELED" \in flags THEN <<>> ELSE <<Line("counters", label)>>)
    \o (IF \A k \in DOMAIN g_mpi_time : g_mpi_time[k] = 0 THEN <<>> ELSE CallLines(g_mpi_time))

(* total: of all regions (jreg = -1).                                      *)
ipm_report_internal(flags, nregion, total, label, g_mpi_time) ==
  Banner(total, label)
    \o (IF "REPORT_TERSE" \in flags THEN TerseLines(nregion, total, label)
        ELSE FullLines(flags, total, label, g_mpi_time))
=============================================================================
