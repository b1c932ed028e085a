------------------------- MODULE LaserGateParameters -------------------------
(* What SafeTeleopLaser and TeleopChain share: the values that travel      *)
(* through safe_teleop/scripts/safe_node_laser.py.                         *)
EXTENDS Integers

CONSTANTS
  Ranges,  \* the ranges a scan may hold
  Cmds     \* the Twists the operator may send, as [x, z] records

ASSUME RangeAssumption == Ranges \subseteq Nat
ASSUME CmdAssumption == Cmds \subseteq [x : Int, z : Int]
==============================================================================
