------------------------------ MODULE MCHokuyo ------------------------------
(* One scan thread, which may be given up, a scanner that fails once, and  *)
(* one reconfiguration, self test or shutdown.                             *)
EXTENDS Hokuyo

MCThreads == {"scan"}

(* Calibrated first; and with intensities and angles beyond the scanner. *)
MCConfigs ==
  {[intensity |-> FALSE, min_ang |-> 1, max_ang |-> 2, calibrate_time |-> TRUE],
   [intensity |-> TRUE, min_ang |-> 0, max_ang |-> 9, calibrate_time |-> FALSE]}

(* Readings of all kinds, cut by lines of four characters. *)
MCSampleData ==
  {[i \in 1..n |-> (i * k) % 4] : n \in {0, 3, 6, 12, 18}, k \in 0..3}

MCSampleSteps == UNION {[1..n -> 0..3] : n \in 1..5}
=============================================================================
