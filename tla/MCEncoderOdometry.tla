-------------------------- MODULE MCEncoderOdometry --------------------------
(* Small counts, and wheels that turn past the largest one.                *)
EXTENDS EncoderOdometry

MCPosition == 0 .. 3

(* What get_power_voltage() returned is never read again.                  *)
View == <<turned, line, rx, prev, pending, wide_abs, sampled, leapt, drained,
          late, lost, at, node_vars>>

(* Three turns of the loop bring a wheel past the largest count.  After a  *)
(* fault or a leap two of them, and three places of a wheel, are enough:   *)
(* the driver then makes any count of what it reads.                       *)
Bound ==
  late + lost > 0 \/ leapt =>
    loops <= 2 /\ \A w \in Wheel : turned[w] \in {0, 1, 3}
=============================================================================
