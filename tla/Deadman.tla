------------------------------- MODULE Deadman -------------------------------
(***************************************************************************)
(* What the watchdog of minilab_node.cpp promises, without the loop, the   *)
(* queue or the serial port: the wheels start only on a command, and they  *)
(* do not turn longer than Bound ticks without a new one.                  *)
(***************************************************************************)
EXTENDS Integers

CONSTANT Bound

VARIABLES
  moving,  \* whether a wheel has a set point other than 0
  quiet    \* ticks since the last command was handled

vars == <<moving, quiet>>

Init ==
  /\ moving = FALSE
  /\ quiet \in Nat

(* A command is handled: it may move the robot or stop it.                 *)
Obey ==
  /\ quiet' = 0
  /\ moving' \in BOOLEAN

(* The watchdog stops the robot.                                           *)
Halt ==
  /\ moving' = FALSE
  /\ quiet' = quiet

(* Time does not pass the bound while the robot moves.  While it stands    *)
(* still nobody needs the count, and it may stop growing.                  *)
Tick ==
  /\ \/ quiet < Bound /\ quiet' = quiet + 1
     \/ ~moving /\ quiet' \in {quiet, quiet + 1}
  /\ moving' = moving

Next == Obey \/ Halt \/ Tick

Spec == Init /\ [][Next]_vars

(* The promise as a state predicate.                                       *)
Kept == moving => quiet <= Bound
==============================================================================
