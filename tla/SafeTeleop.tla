----------------------------- MODULE SafeTeleop -----------------------------
(***************************************************************************)
(* safe_teleop/scripts/safe_node.py: the gate between the operator's       *)
(* /cmd_vel_in and the robot's /cmd_vel, driven by five ultrasound and     *)
(* five infrared range finders.                                            *)
(*                                                                         *)
(* The main thread runs update() at 10 Hz.  rospy calls each subscriber's  *)
(* callback in a thread of its own, so a callback may run between any two  *)
(* bytecodes of update(): every access of update() to data that a callback *)
(* writes is a step of its own here.  `self.cmd_out = self.cmd_in` copies  *)
(* a reference and the later `self.cmd_out.linear.x = 0.0` writes through  *)
(* it: alias says that both names refer to one Twist.                      *)
(***************************************************************************)
EXTENDS Integers

CONSTANTS
  N,         \* number of sensor slots (5 on the robot)
  Readings,  \* the ranges a sensor may report
  Cmds       \* the Twists the operator may send, as [x, z] records

ASSUME SlotAssumption == N \in Nat \ {0}
ASSUME ReadingAssumption == Readings \subseteq Nat /\ 0 \in Readings
ASSUME CmdAssumption == Cmds \subseteq [x : Int, z : Int]

TOP_LIMIT == 30
THRESHOLD == 20

Slot == 0 .. N - 1

Stop == [x |-> 0, z |-> 0]

Twists == Cmds \cup {Stop}

VARIABLES
  us_list, ir_list, combined_list,  \* the three module-level lists
  safe_drive,                       \* self.safe_drive
  cmd_in, cmd_out,                  \* the Twists these two names refer to
  alias,                            \* whether they refer to the same one
  pc, item,                         \* where update() is, and its loop index
  blocked,                          \* history: slots blocked since it woke up
  raced,                            \* history: a command came in after line 99
  fate,                             \* history: what became of the command
  seen,  \* history: some slot was obstructed since update() woke up
  torn   \* history: a reading crossed TOP_LIMIT between its two reads

causes == <<seen, torn>>

sensors == <<us_list, ir_list>>
gate_vars == <<us_list, ir_list, combined_list, safe_drive, cmd_in, cmd_out,
               alias, pc, item, blocked, raced, fate, causes>>

(* What the two raw readings of slot i say: line 77 trusts the infrared    *)
(* reading when the ultrasound one is below TOP_LIMIT.                     *)
Obstructs(us, ir) == us < TOP_LIMIT /\ ir < THRESHOLD

GateInit ==
  /\ us_list = [i \in Slot |-> 0]
  /\ ir_list = [i \in Slot |-> 0]
  /\ combined_list = [i \in Slot |-> 0]
  /\ safe_drive = TRUE
  /\ cmd_in = Stop
  /\ cmd_out = Stop
  /\ alias = FALSE
  /\ pc = "sleep"
  /\ item = 0
  /\ blocked = Slot
  /\ raced = FALSE
  /\ fate = "dead"
  /\ seen = FALSE
  /\ torn = FALSE

-----------------------------------------------------------------------------
(* The callbacks, each in a thread of rospy.                               *)

(* IR1 is wired to slot 4, IR5 to slot 0 (lines 60-73).                    *)
IrSlot(k) == N - 1 - k

(* Line 77 has read us_list[item], line 80 or 78 is yet to come.           *)
Tears(k, range) ==
  /\ pc \in {"use_ir", "use_us"} /\ item = k
  /\ (us_list[k] < TOP_LIMIT) # (range < TOP_LIMIT)

us_cb(k, range) ==
  /\ us_list' = [us_list EXCEPT ![k] = range]
  /\ blocked' = IF Obstructs(range, ir_list[k]) THEN blocked ELSE blocked \ {k}
  /\ seen' = (seen \/ Obstructs(range, ir_list[k]))
  /\ torn' = (torn \/ Tears(k, range))
  /\ UNCHANGED <<ir_list, combined_list, safe_drive, cmd_in, cmd_out, alias,
                 pc, item, raced, fate>>

ir_cb(k, range) ==
  LET i == IrSlot(k) IN
  /\ ir_list' = [ir_list EXCEPT ![i] = range]
  /\ blocked' = IF Obstructs(us_list[i], range) THEN blocked ELSE blocked \ {i}
  /\ seen' = (seen \/ Obstructs(us_list[i], range))
  /\ UNCHANGED <<us_list, combined_list, safe_drive, cmd_in, cmd_out, alias,
                 pc, item, raced, fate, torn>>

(* Mutant: the callback copies the fields into the object it already has.  *)
cmd_vel_cb_in_place(cmd) ==
  /\ cmd_in' = cmd
  /\ cmd_out' = IF alias THEN cmd ELSE cmd_out
  /\ raced' = (raced \/ pc = "reverse")
  /\ fate' = "new"
  /\ UNCHANGED <<sensors, combined_list, safe_drive, alias, pc, item, blocked,
                 causes>>

(* The message is a new object, of which cmd_out knows nothing.            *)
cmd_vel_cb(cmd) ==
  /\ cmd_in' = cmd
  /\ alias' = FALSE
  /\ raced' = (raced \/ pc = "reverse")
  /\ fate' = "new"
  /\ UNCHANGED <<sensors, combined_list, safe_drive, cmd_out, pc, item,
                 blocked, causes>>

-----------------------------------------------------------------------------
(* update(), in the main thread.                                           *)

Goto(from, to) == pc = from /\ pc' = to

Wake ==
  /\ Goto("sleep", "compare")
  /\ item' = 0
  /\ blocked' = {i \in Slot : Obstructs(us_list[i], ir_list[i])}
  /\ seen' = (blocked' # {})
  /\ torn' = FALSE
  /\ raced' = FALSE
  /\ UNCHANGED <<sensors, combined_list, safe_drive, cmd_in, cmd_out, alias,
                 fate>>

(* Line 77 reads us_list[item]; line 78 or 80 then reads a list again.     *)
Compare ==
  /\ Goto("compare", IF us_list[item] < TOP_LIMIT THEN "use_ir" ELSE "use_us")
  /\ UNCHANGED <<sensors, combined_list, safe_drive, cmd_in, cmd_out, alias,
                 item, blocked, raced, fate, causes>>

(* Mutant: line 78 copies the ultrasound reading as line 80 does.          *)
Combine_ultrasound ==
  /\ pc \in {"use_ir", "use_us"}
  /\ combined_list' = [combined_list EXCEPT ![item] = us_list[item]]
  /\ IF item + 1 \in Slot
     THEN item' = item + 1 /\ pc' = "compare"
     ELSE item' = 0 /\ pc' = "decide"
  /\ UNCHANGED <<sensors, safe_drive, cmd_in, cmd_out, alias, blocked, raced,
                 fate, causes>>

Combine ==
  /\ pc \in {"use_ir", "use_us"}
  /\ combined_list' = [combined_list EXCEPT
       ![item] = IF pc = "use_ir" THEN ir_list[item] ELSE us_list[item]]
  /\ IF item + 1 \in Slot
     THEN item' = item + 1 /\ pc' = "compare"
     ELSE item' = 0 /\ pc' = "decide"
  /\ UNCHANGED <<sensors, safe_drive, cmd_in, cmd_out, alias, blocked, raced,
                 fate, causes>>

(* Mutant: without the break of line 93 the last slot decides alone.       *)
Decide_no_break ==
  /\ pc = "decide"
  /\ safe_drive' = (combined_list[N - 1] >= THRESHOLD)
  /\ pc' = IF safe_drive' THEN "pass" ELSE "test"
  /\ UNCHANGED <<sensors, combined_list, cmd_in, cmd_out, alias, item,
                 blocked, raced, fate, causes>>

(* Mutant: without line 95 the flag never becomes True again.              *)
Decide_latched ==
  /\ pc = "decide"
  /\ safe_drive' = (safe_drive /\ \A i \in Slot : combined_list[i] >= THRESHOLD)
  /\ pc' = IF safe_drive' THEN "pass" ELSE "test"
  /\ UNCHANGED <<sensors, combined_list, cmd_in, cmd_out, alias, item,
                 blocked, raced, fate, causes>>

(* Lines 87-96 read only combined_list, which no callback writes.          *)
Decide ==
  /\ pc = "decide"
  /\ safe_drive' = (\A i \in Slot : combined_list[i] >= THRESHOLD)
  /\ pc' = IF safe_drive' THEN "pass" ELSE "test"
  /\ UNCHANGED <<sensors, combined_list, cmd_in, cmd_out, alias, item,
                 blocked, raced, fate, causes>>

(* Line 99, and the two branches it chooses between.                       *)
TestReverse ==
  /\ Goto("test", IF cmd_in.x < 0 THEN "reverse" ELSE "stop")
  /\ UNCHANGED <<sensors, combined_list, safe_drive, cmd_in, cmd_out, alias,
                 item, blocked, raced, fate, causes>>

(* Lines 100 and 105: cmd_out becomes another name of the command.         *)
Pass ==
  /\ pc \in {"reverse", "pass"}
  /\ pc' = "publish"
  /\ cmd_out' = cmd_in
  /\ alias' = TRUE
  /\ fate' = IF fate = "new" THEN "passed" ELSE fate
  /\ UNCHANGED <<sensors, combined_list, safe_drive, cmd_in, item, blocked,
                 raced, causes>>

(* Mutant: the stop is a new Twist instead of a write through cmd_out.     *)
StopForward_new_object ==
  /\ Goto("stop", "publish")
  /\ cmd_out' = Stop
  /\ alias' = FALSE
  /\ fate' = IF fate = "passed" THEN "dead" ELSE fate
  /\ UNCHANGED <<sensors, combined_list, safe_drive, cmd_in, item, blocked,
                 raced, causes>>

(* Lines 102-103 write through cmd_out, whatever object that is.           *)
StopForward ==
  /\ Goto("stop", "publish")
  /\ cmd_out' = Stop
  /\ cmd_in' = IF alias THEN Stop ELSE cmd_in
  /\ fate' = IF fate = "passed" THEN "dead" ELSE fate
  /\ UNCHANGED <<sensors, combined_list, safe_drive, alias, item, blocked,
                 raced, causes>>

(* Line 106; the /A1../A5 publications that follow carry no state.         *)
Publish ==
  /\ Goto("publish", "sleep")
  /\ UNCHANGED <<sensors, combined_list, safe_drive, cmd_in, cmd_out, alias,
                 item, blocked, raced, fate, causes>>

update ==
  \/ Wake \/ Compare \/ Combine \/ Decide
  \/ TestReverse \/ Pass \/ StopForward \/ Publish

GateNext ==
  \/ update
  \/ \E k \in Slot, range \in Readings : us_cb(k, range)
  \/ \E k \in Slot, range \in Readings : ir_cb(k, range)
  \/ \E cmd \in Cmds : cmd_vel_cb(cmd)

GateSpec == GateInit /\ [][GateNext]_gate_vars

FairSpec == GateSpec /\ WF_gate_vars(update)

-----------------------------------------------------------------------------
GateTypeOK ==
  /\ us_list \in [Slot -> Readings]
  /\ ir_list \in [Slot -> Readings]
  /\ combined_list \in [Slot -> Readings]
  /\ safe_drive \in BOOLEAN
  /\ {cmd_in, cmd_out} \subseteq Twists
  /\ alias \in BOOLEAN
  /\ pc \in {"sleep", "compare", "use_ir", "use_us", "decide", "test",
             "reverse", "pass", "stop", "publish"}
  /\ item \in Slot
  /\ blocked \subseteq Slot
  /\ raced \in BOOLEAN
  /\ fate \in {"new", "passed", "dead"}
  /\ seen \in BOOLEAN /\ torn \in BOOLEAN

(* An obstacle that some slot reported during the whole cycle keeps the    *)
(* published command from driving forward or turning on the spot, unless   *)
(* the operator's command was replaced between the test of line 99 and the *)
(* assignment of line 100.                                                 *)
GateHolds ==
  pc = "publish" /\ blocked # {} /\ ~raced => cmd_out = Stop \/ cmd_out.x < 0

(* The robot is stopped only for an obstacle that some slot reported at    *)
(* some moment of the cycle, with both its sensors at once, unless an      *)
(* ultrasound reading crossed TOP_LIMIT between line 77, which compares it, *)
(* and line 78 or 80, which trusts that comparison.                        *)
StopHasCause == pc = "publish" /\ ~safe_drive /\ ~torn => seen

(* A command the gate had passed and then stopped is dead: line 102 writes *)
(* through cmd_out into the operator's own message, so the robot stays put *)
(* when the obstacle goes away, until a new command arrives.               *)
StoppedCommandStaysDead ==
  fate = "dead" => cmd_in = Stop /\ (pc = "publish" => cmd_out = Stop)

(* A command that was stopped before it was ever passed is kept as sent:   *)
(* line 102 then writes into another object, so this command drives the    *)
(* robot, with no further order, as soon as the obstacle goes away.        *)
UnpassedCommandKept ==
  fate = "new" => cmd_in \in Cmds

(* Once every ultrasound reading stays at TOP_LIMIT or above, commands get *)
(* through: none waits for ever.  (A reading that keeps crossing TOP_LIMIT *)
(* may hold a command back for ever: line 80 then copies the short range   *)
(* that line 77 had not seen.)                                             *)
CommandGetsThrough ==
  <>[](\A i \in Slot : us_list[i] >= TOP_LIMIT) => []<>(fate # "new")
=============================================================================
