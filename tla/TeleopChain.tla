----------------------------- MODULE TeleopChain -----------------------------
(***************************************************************************)
(* The chain that the names of the topics make: the operator publishes on  *)
(* /cmd_vel_in, safe_node_laser.py passes the command on to /cmd_vel_secu, *)
(* minilab_node.cpp drives the wheels.  The chain composes SafeTeleopLaser *)
(* and MinilabNode: what the gate publishes is what the node's             *)
(* subscription receives, and both follow one clock.  The message itself   *)
(* takes no time; how long it then waits for spinOnce() is the node's.     *)
(***************************************************************************)
EXTENDS LaserGateParameters, Sequences

CONSTANTS
  QueueSize, Timeout, MinLoop, MaxLoop,          \* see MinilabNode
  Scans,       \* the scans the scanner may send
  GatePeriod   \* ticks in which the gate, at 10 Hz, publishes at least once

ASSUME ScanAssumption == Scans \subseteq SUBSET Ranges
ASSUME PeriodAssumption == GatePeriod \in Nat \ {0}
ASSUME NodeAssumption ==
  /\ QueueSize \in Nat \ {0}
  /\ Timeout \in Nat /\ MinLoop \in Nat \ {0} /\ MaxLoop \in Nat /\ MinLoop <= MaxLoop

VARIABLES
  scans, cmd_in, cmd_out, alias, gate_pc, close, raced,  \* the gate
  pc, queue, msg, todo, speed,                                \* the node
  cmd_age, loop_age, pub_age, early, crashes, lost,
  gate_up,   \* whether the gate's process lives
  gate_age,  \* time since the gate last published
  near_age,  \* history: how long every scan has been close
  slipped    \* history: a command slipped through the race since then

gate_vars == <<scans, cmd_in, cmd_out, alias, gate_pc, close, raced>>
node_vars == <<pc, queue, msg, todo, speed, cmd_age, loop_age, pub_age, early,
               crashes, lost>>
chain_vars == <<gate_up, gate_age, near_age, slipped>>
vars == <<gate_vars, node_vars, chain_vars>>

(* cmd_vel_cb of the node reads two fields of the Twist.                   *)
AsNode(twist) == [vx |-> twist.x, wz |-> twist.z]

Gate == INSTANCE SafeTeleopLaser WITH pc <- gate_pc

Node == INSTANCE MinilabNode WITH
  Cmds <- {AsNode(twist) : twist \in Gate!Twists}, MaxCrash <- 0, Lossy <- FALSE

(* After an obstacle is seen a gate that lives ends its update(), which    *)
(* may have looked at an older scan, makes a new one, and the node handles *)
(* the stop within a loop; for a dead gate the watchdog does the work, if  *)
(* it is slower than the gate was.                                         *)
GateBound == 2 * GatePeriod + MaxLoop
NearBound ==
  IF GatePeriod <= Node!ActBound THEN GatePeriod + Node!StopBound ELSE GateBound

Init ==
  /\ Gate!Init
  /\ Node!Init
  /\ gate_up = TRUE
  /\ gate_age = 0
  /\ near_age = 0
  /\ slipped = FALSE

-----------------------------------------------------------------------------
(* The laser scanner and the operator.                                     *)

Scan(ranges) ==
  /\ gate_up
  /\ Gate!scan_cb(ranges)
  /\ IF Gate!Close(ranges)
     THEN UNCHANGED <<near_age, slipped>>
     ELSE near_age' = 0 /\ slipped' = FALSE
  /\ UNCHANGED <<node_vars, gate_up, gate_age>>

Order(cmd) ==
  /\ gate_up
  /\ Gate!cmd_vel_cb(cmd)
  /\ UNCHANGED <<node_vars, chain_vars>>

-----------------------------------------------------------------------------
(* The gate.                                                               *)

Decide ==
  /\ gate_up
  /\ Gate!Wake \/ Gate!Look \/ Gate!TestForward \/ Gate!StopForward \/ Gate!Pass
  /\ UNCHANGED <<node_vars, chain_vars>>

(* The publication reaches the node's queue while the node is up.          *)
Publish ==
  /\ gate_up
  /\ Gate!Publish
  /\ IF pc # "down" THEN Node!Receive(AsNode(cmd_out)) ELSE UNCHANGED node_vars
  /\ gate_age' = 0
  /\ slipped' = (slipped \/ (raced /\ cmd_out.x > 0))
  /\ UNCHANGED <<gate_up, near_age>>

(* The gate dies; its last publication was the last one.                   *)
GateDies ==
  /\ gate_up
  /\ gate_up' = FALSE
  /\ UNCHANGED <<gate_vars, node_vars, gate_age, near_age, slipped>>

-----------------------------------------------------------------------------
(* The node and the clock.                                                 *)

Drive ==
  /\ Node!node \/ Node!Restart
  /\ UNCHANGED <<gate_vars, chain_vars>>

Tick ==
  /\ Node!Tick
  /\ IF gate_up THEN gate_age < GatePeriod /\ gate_age' = gate_age + 1
                ELSE gate_age' = gate_age
  /\ near_age' = IF Gate!Close(scans)
                 THEN Node!Older(near_age, NearBound + 1)
                 ELSE 0
  /\ UNCHANGED <<gate_vars, gate_up, slipped>>

Next ==
  \/ \E ranges \in Scans : Scan(ranges)
  \/ \E cmd \in Cmds : Order(cmd)
  \/ Decide \/ Publish \/ GateDies
  \/ Drive \/ Tick

Spec == Init /\ [][Next]_vars

-----------------------------------------------------------------------------
Forward == speed[Node!RIGHT] + speed[Node!LEFT] > 0

(* From the scanner to the wheels: when the scans have shown an obstacle   *)
(* for long enough, the node does not sleep with wheels that drive         *)
(* forward, whatever the operator sent, unless a command slipped through   *)
(* the gate's race.  If the gate died, the watchdog does its work, but for *)
(* a command published while the node was starting up.                     *)
ObstacleStops ==
  pc = "odom" /\ near_age > (IF gate_up THEN GateBound ELSE NearBound) =>
    ~Forward \/ slipped \/ (early /\ ~gate_up)

(* The watchdog watches the gate, not the operator: a gate that lives      *)
(* repeats the last command for ever, and main() never finds it too old,   *)
(* however long its loops.                                                 *)
SilenceUnnoticed ==
  gate_up /\ GatePeriod <= Timeout => pc \notin {"zero_right", "zero_left"}
=============================================================================
