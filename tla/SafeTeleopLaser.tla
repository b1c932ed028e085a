--------------------------- MODULE SafeTeleopLaser ---------------------------
(***************************************************************************)
(* safe_teleop/scripts/safe_node_laser.py: the gate between /cmd_vel_in    *)
(* and /cmd_vel_secu, driven by the laser scanner.                         *)
(*                                                                         *)
(* As in SafeTeleop the callbacks run in threads of rospy, and alias says  *)
(* that cmd_in and cmd_out refer to one Twist.  The loop over the scan     *)
(* holds on to one LaserScan object, which nobody writes, so it is one     *)
(* step.  A scan is the set of its ranges, in centimetres: the loop only   *)
(* asks whether one of them is below 0.30 m.                               *)
(***************************************************************************)
EXTENDS LaserGateParameters

LIMIT == 30

Stop == [x |-> 0, z |-> 0]

Twists == Cmds \cup {Stop}

VARIABLES
  scans,            \* self.scans.ranges
  cmd_in, cmd_out,  \* the Twists these two names refer to
  alias,            \* whether they refer to the same one
  pc,               \* where update() is
  close,            \* history: every scan since the cycle began is close
  raced             \* history: a command came in after line 32

vars == <<scans, cmd_in, cmd_out, alias, pc, close, raced>>

Close(ranges) == \E d \in ranges : d < LIMIT

(* No scan has been received: LaserScan() has an empty list of ranges.     *)
Init ==
  /\ scans = {}
  /\ cmd_in = Stop
  /\ cmd_out = Stop
  /\ alias = FALSE
  /\ pc = "sleep"
  /\ close = FALSE
  /\ raced = FALSE

-----------------------------------------------------------------------------
(* The callbacks.                                                          *)

scan_cb(ranges) ==
  /\ scans' = ranges
  /\ close' = (close /\ Close(ranges))
  /\ UNCHANGED <<cmd_in, cmd_out, alias, pc, raced>>

cmd_vel_cb(cmd) ==
  /\ cmd_in' = cmd
  /\ alias' = FALSE
  /\ raced' = (raced \/ pc = "assign")
  /\ UNCHANGED <<scans, cmd_out, pc, close>>

-----------------------------------------------------------------------------
(* update(), in the main thread.                                           *)

Goto(from, to) == pc = from /\ pc' = to

Wake ==
  /\ Goto("sleep", "scan")
  /\ close' = Close(scans)
  /\ raced' = FALSE
  /\ UNCHANGED <<scans, cmd_in, cmd_out, alias>>

(* Mutant: without the break of line 27 the last range decides, that is    *)
(* any one of them.                                                        *)
Look_no_break ==
  /\ \E safe_drive \in {d >= LIMIT : d \in scans} \cup {scans = {}} :
       Goto("scan", IF safe_drive THEN "pass" ELSE "test")
  /\ UNCHANGED <<scans, cmd_in, cmd_out, alias, close, raced>>

(* Lines 23-29: safe_drive is a local of this step.                        *)
Look ==
  /\ Goto("scan", IF Close(scans) THEN "test" ELSE "pass")
  /\ UNCHANGED <<scans, cmd_in, cmd_out, alias, close, raced>>

(* Line 32.                                                                *)
TestForward ==
  /\ Goto("test", IF cmd_in.x > 0 THEN "stop" ELSE "assign")
  /\ UNCHANGED <<scans, cmd_in, cmd_out, alias, close, raced>>

(* Lines 33-34 write through cmd_out, whatever object that is.             *)
StopForward ==
  /\ Goto("stop", "publish")
  /\ cmd_out' = Stop
  /\ cmd_in' = IF alias THEN Stop ELSE cmd_in
  /\ UNCHANGED <<scans, alias, close, raced>>

(* Lines 36 and 38.                                                        *)
Pass ==
  /\ pc \in {"assign", "pass"}
  /\ pc' = "publish"
  /\ cmd_out' = cmd_in
  /\ alias' = TRUE
  /\ UNCHANGED <<scans, cmd_in, close, raced>>

(* Line 40.                                                                *)
Publish ==
  /\ Goto("publish", "sleep")
  /\ UNCHANGED <<scans, cmd_in, cmd_out, alias, close, raced>>

update == Wake \/ Look \/ TestForward \/ StopForward \/ Pass \/ Publish

Next ==
  \/ update
  \/ \E ranges \in SUBSET Ranges : scan_cb(ranges)
  \/ \E cmd \in Cmds : cmd_vel_cb(cmd)

Spec == Init /\ [][Next]_vars

-----------------------------------------------------------------------------
TypeOK ==
  /\ scans \subseteq Ranges
  /\ {cmd_in, cmd_out} \subseteq Twists
  /\ alias \in BOOLEAN
  /\ pc \in {"sleep", "scan", "test", "assign", "stop", "pass", "publish"}
  /\ close \in BOOLEAN
  /\ raced \in BOOLEAN
=============================================================================
