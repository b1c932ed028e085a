----------------------------- MODULE MinilabNode -----------------------------
(***************************************************************************)
(* drivers/roboclaw/src/minilab_node.cpp: the node that drives the two     *)
(* wheels through the RoboClaw board.  Its main loop handles the commands  *)
(* queued on /cmd_vel_secu, stops the wheels when none came for a second,  *)
(* and reads the encoders.  The board keeps turning the wheels at their    *)
(* last set points, whatever becomes of the node.                          *)
(*                                                                         *)
(* Time is counted in ticks of the loop's 100 ms.  It passes where the     *)
(* code sleeps or waits for the board: during start-up and between the     *)
(* encoder reads and the next spinOnce().  Ages saturate once no test can  *)
(* tell them apart.                                                        *)
(***************************************************************************)
EXTENDS Integers, Sequences

CONSTANTS
  Cmds,       \* Twists on /cmd_vel_secu, as [vx, wz] records
  QueueSize,  \* of the subscription (10)
  Timeout,    \* ticks in the watchdog's 1.0 s
  MinLoop,    \* shortest time between two spinOnce(): the two usleeps
  MaxLoop,    \* longest time between two spinOnce(): reads, sleeps, load
  MaxCrash,   \* bound on the crashes of the node
  Lossy       \* whether a write to the serial port may fail

ASSUME CmdAssumption == Cmds \subseteq [vx : Int, wz : Int]
ASSUME QueueAssumption == QueueSize \in Nat \ {0}
ASSUME TimeAssumption ==
  /\ Timeout \in Nat
  /\ MinLoop \in Nat
  /\ MaxLoop \in Nat
  /\ 1 <= MinLoop
  /\ MinLoop <= MaxLoop
ASSUME FaultAssumption == MaxCrash \in Nat /\ Lossy \in BOOLEAN

RIGHT == 0
LEFT == 1
Wheel == {RIGHT, LEFT}

(* cmd_vel_cb, lines 47-54.  The unit conversion and the half wheelbase    *)
(* scale these speeds; they change no sign and mix no wheel.               *)
Wheels(cmd) ==
  [w \in Wheel |-> IF w = RIGHT THEN cmd.vx + cmd.wz ELSE cmd.vx - cmd.wz]

Still == [w \in Wheel |-> 0]

(* Also what msg holds outside the callback.                               *)
Halt == [vx |-> 0, wz |-> 0]

(* The bounds the module shows.                                            *)
ActBound == Timeout + MaxLoop       \* since the command was handled
StopBound == Timeout + 2 * MaxLoop  \* since the command was published

VARIABLES
  pc,        \* where main() is
  queue,     \* messages waiting for spinOnce()
  msg,       \* the message cmd_vel_cb is handling
  todo,      \* how many of them this spinOnce() still has to handle
  speed,     \* set points of the board
  cmd_age,   \* now - last_cmd_vel_time
  loop_age,  \* time since the last spinOnce()
  pub_age,   \* history: time since the last publication on /cmd_vel_secu
  early,     \* history: that publication came before the first spinOnce()
  crashes,
  lost       \* history: a write to the port was lost

faults == <<crashes, lost>>
vars == <<pc, queue, msg, todo, speed, cmd_age, loop_age, pub_age, early,
          faults>>
ages == <<cmd_age, loop_age, pub_age, early>>

Loop == {"spin", "cb_right", "cb_left", "check", "zero_right", "zero_left",
         "odom"}
Start == {"boot", "test", "reset"}

Init ==
  /\ pc = "boot"
  /\ queue = <<>>
  /\ msg = Halt
  /\ todo = 0
  /\ speed = Still
  /\ cmd_age = 0
  /\ loop_age = 0
  /\ pub_age = StopBound + 1
  /\ early = TRUE
  /\ crashes = 0
  /\ lost = FALSE

-----------------------------------------------------------------------------
(* The other side of the topic, the clock, and the faults.                 *)

(* A message reaches the subscription; roscpp drops the oldest one when    *)
(* the queue is full.  The subscription exists while the node is up.       *)
Receive(cmd) ==
  /\ pc # "down"
  /\ queue' = Append(IF Len(queue) < QueueSize THEN queue ELSE Tail(queue), cmd)
  /\ pub_age' = 0
  /\ early' = (pc \in Start)
  /\ UNCHANGED <<pc, msg, todo, speed, cmd_age, loop_age, faults>>

Older(age, cap) == IF age < cap THEN age + 1 ELSE age

Tick ==
  /\ pc \in Start \cup {"down", "odom"}
  /\ pc = "odom" => loop_age < MaxLoop
  /\ cmd_age' = Older(cmd_age, ActBound + 1)
  /\ pub_age' = Older(pub_age, StopBound + 1)
  /\ loop_age' = Older(loop_age, MaxLoop)
  /\ UNCHANGED <<pc, queue, msg, todo, speed, early, faults>>

(* The process dies anywhere; the board does not notice.                   *)
Crash ==
  /\ pc # "down"
  /\ crashes < MaxCrash
  /\ pc' = "down"
  /\ queue' = <<>>
  /\ msg' = Halt
  /\ todo' = 0
  /\ crashes' = crashes + 1
  /\ UNCHANGED <<speed, ages, lost>>

(* Somebody starts it again: roboclaw.launch asks for no respawn.          *)
Restart ==
  /\ pc = "down"
  /\ pc' = "boot"
  /\ cmd_age' = 0
  /\ UNCHANGED <<queue, msg, todo, speed, loop_age, pub_age, early, faults>>

-----------------------------------------------------------------------------
(* main() before the loop.                                                 *)

Goto(from, to) == pc = from /\ pc' = to

(* Lines 101-112 open the port, read firmware and voltage, reset the       *)
(* encoders and set the PID parameters; none touches a set point.  When    *)
(* the port cannot be opened main() returns.                               *)
Boot ==
  /\ \/ Goto("boot", "test") /\ queue' = queue
     \/ Goto("boot", "down") /\ queue' = <<>>
  /\ UNCHANGED <<msg, todo, speed, ages, faults>>

(* Lines 113-116.  A wheel that turns has left the count of the reset by   *)
(* the time its encoder is read; but the jump filter of the driver answers *)
(* 0 when it has gone too far, so two fast wheels pass for two still ones. *)
(* On a lossy line either answer may come whatever the wheels do.          *)
ReadTest ==
  /\ pc = "test"
  /\ pc' \in IF speed = Still /\ ~Lossy THEN {"spin"} ELSE {"spin", "reset"}
  /\ UNCHANGED <<queue, msg, todo, speed, ages, faults>>

(* Lines 117-120: raw_motor_encoder_TEST is not read again in the loop.    *)
ResetEncoders ==
  /\ Goto("reset", "reset")
  /\ UNCHANGED <<queue, msg, todo, speed, ages, faults>>

-----------------------------------------------------------------------------
(* The main loop, lines 121-239.                                           *)

(* Mutant: one message per loop, as callOne() would do.                    *)
SpinOnce_one ==
  /\ Goto("spin", IF queue = <<>> THEN "check" ELSE "cb_right")
  /\ todo' = IF queue = <<>> THEN 0 ELSE 1
  /\ loop_age' = 0
  /\ UNCHANGED <<queue, msg, speed, cmd_age, pub_age, early, faults>>

(* ros::spinOnce() calls the callback for the messages that are waiting.   *)
SpinOnce ==
  /\ Goto("spin", IF queue = <<>> THEN "check" ELSE "cb_right")
  /\ todo' = Len(queue)
  /\ loop_age' = 0
  /\ UNCHANGED <<queue, msg, speed, cmd_age, pub_age, early, faults>>

(* drive_with_constant_speed: main() never looks at the result of the      *)
(* write.                                                                  *)
Drive(w, v) ==
  \/ speed' = [speed EXCEPT ![w] = v] /\ lost' = lost
  \/ Lossy /\ speed' = speed /\ lost' = TRUE

(* The call of cmd_vel_cb for the oldest message, and line 61.             *)
cmd_vel_right ==
  /\ Goto("cb_right", "cb_left")
  /\ msg' = Head(queue)
  /\ queue' = Tail(queue)
  /\ Drive(RIGHT, Wheels(msg')[RIGHT])
  /\ UNCHANGED <<todo, ages, crashes>>

(* Mutant: line 63 is missing, the stamp of start-up stays.                *)
cmd_vel_left_no_stamp ==
  /\ Goto("cb_left", IF todo > 1 THEN "cb_right" ELSE "check")
  /\ Drive(LEFT, Wheels(msg)[LEFT])
  /\ msg' = Halt
  /\ todo' = todo - 1
  /\ UNCHANGED <<queue, ages, crashes>>

(* cmd_vel_cb, lines 62-63, and the return to spinOnce().                  *)
cmd_vel_left ==
  /\ Goto("cb_left", IF todo > 1 THEN "cb_right" ELSE "check")
  /\ Drive(LEFT, Wheels(msg)[LEFT])
  /\ msg' = Halt
  /\ todo' = todo - 1
  /\ cmd_age' = 0
  /\ UNCHANGED <<queue, loop_age, pub_age, early, crashes>>

(* Mutant: the stop is sent once, when the timeout is crossed.             *)
Watchdog_once ==
  /\ Goto("check", IF cmd_age = Timeout + 1 THEN "zero_right" ELSE "odom")
  /\ UNCHANGED <<queue, msg, todo, speed, ages, faults>>

(* Lines 126-128.                                                          *)
Watchdog ==
  /\ Goto("check", IF cmd_age > Timeout THEN "zero_right" ELSE "odom")
  /\ UNCHANGED <<queue, msg, todo, speed, ages, faults>>

(* Lines 129 and 130.                                                      *)
ZeroRight ==
  /\ Goto("zero_right", "zero_left")
  /\ Drive(RIGHT, 0)
  /\ UNCHANGED <<queue, msg, todo, ages, crashes>>

(* Mutant: line 130 names the wheel of line 129.                           *)
ZeroLeft_right_again ==
  /\ Goto("zero_left", "odom")
  /\ Drive(RIGHT, 0)
  /\ UNCHANGED <<queue, msg, todo, ages, crashes>>

ZeroLeft ==
  /\ Goto("zero_left", "odom")
  /\ Drive(LEFT, 0)
  /\ UNCHANGED <<queue, msg, todo, ages, crashes>>

(* Lines 135-238: the encoder and voltage reads, the odometry and the      *)
(* sleeps change no set point; see RoboClaw and EncoderOdometry.           *)
NextLoop ==
  /\ Goto("odom", "spin")
  /\ loop_age >= MinLoop
  /\ UNCHANGED <<queue, msg, todo, speed, ages, faults>>

node ==
  \/ Boot \/ ReadTest \/ ResetEncoders
  \/ SpinOnce \/ cmd_vel_right \/ cmd_vel_left
  \/ Watchdog \/ ZeroRight \/ ZeroLeft \/ NextLoop

Next ==
  \/ node \/ Tick \/ Crash \/ Restart
  \/ \E cmd \in Cmds : Receive(cmd)

Spec == Init /\ [][Next]_vars

(* main() keeps running, time passes, and a write that is tried for ever   *)
(* is not refused for ever.                                                *)
FairSpec ==
  /\ Spec
  /\ WF_vars(node) /\ WF_vars(Tick)
  /\ SF_vars(ZeroRight /\ speed'[RIGHT] = 0)
  /\ SF_vars(ZeroLeft /\ speed'[LEFT] = 0)

-----------------------------------------------------------------------------
TypeOK ==
  /\ pc \in Start \cup Loop \cup {"down"}
  /\ queue \in Seq(Cmds) /\ Len(queue) <= QueueSize
  /\ msg \in Cmds \cup {Halt}
  /\ todo \in 0 .. QueueSize
  /\ speed \in [Wheel -> Int]
  /\ cmd_age \in 0 .. ActBound + 1
  /\ loop_age \in 0 .. MaxLoop
  /\ pub_age \in 0 .. StopBound + 1
  /\ early \in BOOLEAN
  /\ crashes \in 0 .. MaxCrash
  /\ lost \in BOOLEAN

(* The watchdog: past its test no wheel turns on a command handled longer  *)
(* ago than Timeout and one loop.  This holds after a restart too, when    *)
(* the board was still driving for the process that died.                  *)
WatchdogBound ==
  ~lost /\ pc = "odom" /\ speed # Still => cmd_age <= ActBound

(* The process has not died and every write has arrived.                   *)
whole == crashes = 0 /\ ~lost

(* The robot stops within Timeout and two loops of the last publication,   *)
(* however messages queue up: a command may wait one loop in the queue     *)
(* before the node starts to count its age.  A command published during    *)
(* start-up is the exception: it waits until start-up is over.             *)
StopsInTime ==
  whole /\ speed # Still => early \/ pub_age <= StopBound

(* A command is not waiting when the node goes to sleep in its loop unless *)
(* it came during this very loop.                                          *)
NothingLeftBehind ==
  pc = "odom" /\ queue # <<>> => early \/ pub_age <= loop_age

(* Over a line that loses writes, the robot stops at last when no command  *)
(* comes any more: the watchdog repeats both writes in every loop.         *)
SilenceStops ==
  <>[](pc \in Loop /\ pub_age > StopBound) => <>[](speed = Still)

(* The promise of Deadman, on the age the node measures, until the process *)
(* dies or a write is lost: nothing is promised of the wheels then.  A     *)
(* wheel may already turn while cmd_vel_cb has yet to write the other one  *)
(* and to stamp the command.                                               *)
Dead == INSTANCE Deadman WITH
  Bound <- ActBound,
  moving <- whole /\ speed # Still,
  quiet <- IF whole /\ pc # "cb_left" THEN cmd_age ELSE 0

(* main() keeps the promise.                                               *)
KeepsPromise == Dead!Spec

(* What the comment of line 127 says: a node that is up and has not heard  *)
(* a command for longer than the timeout drives with null velocity.        *)
NullVelocity ==
  (pc # "down" /\ cmd_age > Timeout)
    ~> (speed = Still \/ cmd_age <= Timeout \/ pc = "down")
=============================================================================
