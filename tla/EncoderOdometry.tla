--------------------------- MODULE EncoderOdometry ---------------------------
(***************************************************************************)
(* The odometry of minilab_node.cpp on top of the RoboClaw driver: the     *)
(* calls main() makes, in its order, and what it does with the counts.     *)
(* Commands and the watchdog are in MinilabNode; they read nothing here.   *)
(*                                                                         *)
(* Positions are in ticks.  The scaling to metres and the projection on    *)
(* the heading (lines 157-168 and 188-194) are left out.                   *)
(***************************************************************************)
EXTENDS RoboClawParameters, Sequences

CONSTANT
  MaxLoops  \* bound on the turns of the main loop

ASSUME LoopAssumption == MaxLoops \in Nat

VARIABLES
  turned, line, rx, prev, pending, answer, wide_abs, sampled, leapt, drained,
  late, lost,
  at,        \* the call main() is about to make or is in
  raw,       \* raw_motor_encoder
  raw_prev,  \* raw_motor_encoder_prev
  raw_TEST,  \* raw_motor_encoder_TEST
  travel,    \* sum of raw_delta_x since the node started
  loops

driver_vars == <<turned, line, rx, prev, pending, answer, wide_abs, sampled,
                 leapt, drained, late, lost>>
node_vars == <<raw, raw_prev, raw_TEST, travel, loops>>
vars == <<driver_vars, at, node_vars>>

Driver == INSTANCE RoboClaw

Wheel == Driver!Wheel
RIGHT == Driver!RIGHT
LEFT == Driver!LEFT

(* The calls of lines 104-116 and 141-170.                                 *)
Call == [firmware |-> "firmware", volts |-> "power",
         test_left |-> "enc_left", test_right |-> "enc_right",
         left |-> "enc_left", right |-> "enc_right", battery |-> "power"]

Init ==
  /\ Driver!Init
  /\ at = "firmware"
  /\ raw = [w \in Wheel |-> 0]
  /\ raw_prev = [w \in Wheel |-> 0]
  /\ raw_TEST = [w \in Wheel |-> 0]
  /\ travel = 0
  /\ loops = 0

-----------------------------------------------------------------------------
Turn(w) == Driver!Turn(w) /\ UNCHANGED <<at, node_vars>>

(* The request of the call main() has come to.                             *)
Ask ==
  /\ at \in DOMAIN Call
  /\ Driver!Write(Call[at])
  /\ UNCHANGED <<at, node_vars>>

(* Lines 104-105; the results are printed.                                 *)
Greet ==
  /\ at \in {"firmware", "volts"}
  /\ Driver!Read
  /\ at' = IF at = "firmware" THEN "volts" ELSE "reset"
  /\ UNCHANGED node_vars

(* Line 106.  The PID parameters of lines 107-112 change nothing here.     *)
Reset ==
  /\ at = "reset"
  /\ Driver!reset_encoders
  /\ at' = "test_left"
  /\ UNCHANGED node_vars

(* Lines 113-116.                                                          *)
Test ==
  /\ at \in {"test_left", "test_right"}
  /\ Driver!Read
  /\ LET w == IF at = "test_left" THEN LEFT ELSE RIGHT IN
     raw_TEST' = [raw_TEST EXCEPT ![w] = prev'[w]]
  /\ at' = IF at = "test_left" THEN "test_right" ELSE "gate"
  /\ UNCHANGED <<raw, raw_prev, travel, loops>>

(* Lines 117-120: out of this loop only when both counts were 0.           *)
Gate ==
  /\ at = "gate"
  /\ IF \A w \in Wheel : raw_TEST[w] = 0
     THEN at' = "shift" /\ UNCHANGED driver_vars
     ELSE at' = "gate" /\ Driver!reset_encoders
  /\ UNCHANGED node_vars

(* Lines 139-140.                                                          *)
Shift ==
  /\ at = "shift"
  /\ loops < MaxLoops
  /\ loops' = loops + 1
  /\ raw_prev' = raw
  /\ at' = "left"
  /\ UNCHANGED <<driver_vars, raw, raw_TEST, travel>>

(* Lines 141-144.                                                          *)
ReadWheels ==
  /\ at \in {"left", "right"}
  /\ Driver!Read
  /\ LET w == IF at = "left" THEN LEFT ELSE RIGHT IN
     raw' = [raw EXCEPT ![w] = prev'[w]]
  /\ at' = IF at = "left" THEN "right" ELSE "integrate"
  /\ UNCHANGED <<raw_prev, raw_TEST, travel, loops>>

(* Division of long long rounds towards 0.                                 *)
Halved(n) == IF n >= 0 THEN n \div 2 ELSE -((-n) \div 2)

Delta(w) == raw[w] - raw_prev[w]

(* Mutant: each wheel is halved before the sum.                            *)
Integrate_halves ==
  /\ at = "integrate"
  /\ travel' = travel + Halved(Delta(RIGHT)) + Halved(Delta(LEFT))
  /\ at' = "battery"
  /\ UNCHANGED <<driver_vars, raw, raw_prev, raw_TEST, loops>>

(* Lines 147-156 and 187-188.                                              *)
Integrate ==
  /\ at = "integrate"
  /\ travel' = travel + Halved(Delta(RIGHT) + Delta(LEFT))
  /\ at' = "battery"
  /\ UNCHANGED <<driver_vars, raw, raw_prev, raw_TEST, loops>>

(* Line 170, and back to the head of the loop.                             *)
Battery ==
  /\ at = "battery"
  /\ Driver!Read
  /\ at' = "shift"
  /\ UNCHANGED node_vars

main ==
  \/ Ask \/ Greet \/ Reset \/ Test \/ Gate
  \/ Shift \/ ReadWheels \/ Integrate \/ Battery

Next == main \/ \E w \in Wheel : Turn(w)

Spec == Init /\ [][Next]_vars

-----------------------------------------------------------------------------
Size(n) == Driver!Magnitude(n)

TypeOK ==
  /\ Driver!TypeOK
  /\ at \in DOMAIN Call \cup {"reset", "gate", "shift", "integrate"}
  /\ raw \in [Wheel -> Driver!Count]
  /\ raw_prev \in [Wheel -> Driver!Count]
  /\ raw_TEST \in [Wheel -> Driver!Count]
  /\ travel \in Int
  /\ loops \in 0 .. MaxLoops

(* What the filter lets pass from one count to the next: with abs() of a   *)
(* long long a step of at most Jump; with abs() of an int one that is no   *)
(* longer than Jump in an int, or the most negative int.                   *)
Within(step) ==
  IF wide_abs THEN Size(step) <= Jump
  ELSE Size(Driver!Wrap(step)) <= Jump \/ Driver!Wrap(step) = -Half

(* Whatever the serial line does - short reads, lost requests, replies     *)
(* taken for those of the other wheel - no turn of the loop adds more to a *)
(* wheel than the filter lets pass.                                        *)
StepBounded == at = "integrate" => \A w \in Wheel : Within(Delta(w))

(* Without faults, and while no wheel leaps, the travel that is published  *)
(* is half the sum of the counts the board sent last: rounding loses at    *)
(* most one tick of that sum per turn of the loop, and nothing else is     *)
(* lost.                                                                   *)
TravelTrue ==
  late = 0 /\ lost = 0 /\ ~leapt /\ at = "shift" =>
    Size(Driver!Wrap(sampled[RIGHT]) + Driver!Wrap(sampled[LEFT])
           - 2 * travel) <= loops

(* A read that comes too early puts the node out of step for good: no      *)
(* later call but read_firmware() ever takes the bytes that stayed behind, *)
(* unless a request is lost.                                               *)
OutOfStepForever == Driver!OutOfStepForever
=============================================================================
