-------------------------- MODULE MinilabNodeProofs --------------------------
(***************************************************************************)
(* Proofs about MinilabNode, for any commands, queue size, timeout, loop   *)
(* times and number of crashes.                                            *)
(***************************************************************************)
EXTENDS MinilabNode, TLAPS

LEMMA Bounds ==
  /\ Timeout \in Nat /\ MaxLoop \in Nat /\ MinLoop \in Nat
  /\ ActBound \in Nat /\ StopBound \in Nat
  /\ ActBound = Timeout + MaxLoop
  /\ StopBound = Timeout + 2 * MaxLoop
  /\ QueueSize \in Nat /\ QueueSize >= 1 /\ MaxCrash \in Nat
BY TimeAssumption, QueueAssumption, FaultAssumption DEF ActBound, StopBound

LEMMA WheelsType == \A cmd \in Cmds \cup {Halt} : Wheels(cmd) \in [Wheel -> Int]
BY CmdAssumption DEF Wheels, Halt

LEMMA WheelPair == RIGHT \in Wheel /\ LEFT \in Wheel /\ RIGHT # LEFT
BY DEF Wheel, RIGHT, LEFT

LEMMA OlderBound ==
  ASSUME NEW cap \in Nat, NEW age \in 0 .. cap
  PROVE  /\ Older(age, cap) \in 0 .. cap
         /\ Older(age, cap) <= age + 1
         /\ age < cap => Older(age, cap) = age + 1
BY DEF Older

LEMMA InitType == Init => TypeOK
<1> SUFFICES ASSUME Init PROVE TypeOK
  OBVIOUS
<1>1. <<>> \in Seq(Cmds) /\ Len(<<>>) = 0
  OBVIOUS
<1>2. Still \in [Wheel -> Int]
  BY DEF Still
<1>3. /\ cmd_age \in 0 .. ActBound + 1 /\ loop_age \in 0 .. MaxLoop
      /\ pub_age \in 0 .. StopBound + 1 /\ crashes \in 0 .. MaxCrash
      /\ todo \in 0 .. QueueSize /\ Len(queue) <= QueueSize
  BY <1>1, Bounds DEF Init
<1>4. lost \in BOOLEAN /\ early \in BOOLEAN
  BY DEF Init
<1> QED BY <1>1, <1>2, <1>3, <1>4 DEF Init, TypeOK, Start

(* Taking a message off a queue, and receiving one.                        *)
LEMMA QueuePop ==
  ASSUME NEW q \in Seq(Cmds), q # <<>>
  PROVE  Head(q) \in Cmds /\ Tail(q) \in Seq(Cmds) /\ Len(Tail(q)) = Len(q) - 1
OBVIOUS

LEMMA QueuePush ==
  ASSUME NEW q \in Seq(Cmds), Len(q) <= QueueSize, NEW cmd \in Cmds
  PROVE  LET r == Append(IF Len(q) < QueueSize THEN q ELSE Tail(q), cmd)
         IN  /\ r \in Seq(Cmds)
             /\ Len(r) <= QueueSize
             /\ Len(r) >= Len(q)
             /\ Len(r) >= 1
<1>1. CASE Len(q) < QueueSize
  BY <1>1, Bounds
<1>2. CASE ~ (Len(q) < QueueSize)
  <2>1. q # <<>> /\ Len(q) = QueueSize
    BY <1>2, Bounds
  <2>2. Tail(q) \in Seq(Cmds) /\ Len(Tail(q)) = QueueSize - 1
    BY <2>1, QueuePop
  <2> QED BY <1>2, <2>1, <2>2, Bounds
<1> QED BY <1>1, <1>2

LEMMA DriveType ==
  ASSUME TypeOK, NEW w \in Wheel, NEW v \in Int, Drive(w, v)
  PROVE  /\ speed' \in [Wheel -> Int]
         /\ \A u \in Wheel : u # w => speed'[u] = speed[u]
         /\ lost' \in BOOLEAN
         /\ ~lost' => ~lost /\ speed' = [speed EXCEPT ![w] = v]
         /\ ~lost' => speed'[w] = v
BY DEF Drive, TypeOK

(* spinOnce() never runs out of the messages it set out to handle: the     *)
(* queue may drop old messages meanwhile, but it does not get shorter.     *)
Pending ==
  /\ pc = "cb_right" => 1 <= todo /\ todo <= Len(queue)
  /\ pc = "cb_left" => 1 <= todo /\ todo <= Len(queue) + 1

TypeInv == TypeOK /\ Pending

LEMMA NextType == TypeInv /\ [Next]_vars => TypeInv'
<1> SUFFICES ASSUME TypeInv, [Next]_vars PROVE TypeInv'
  OBVIOUS
<1> USE DEF TypeInv, TypeOK, Pending, Goto, ages, faults, Start, Loop
<1>1. ASSUME NEW cmd \in Cmds, Receive(cmd)
      PROVE  TypeInv'
  <2>1. /\ queue' \in Seq(Cmds)
        /\ Len(queue') <= QueueSize
        /\ Len(queue') >= Len(queue)
    BY <1>1, QueuePush DEF Receive
  <2>2. Len(queue) \in Nat /\ Len(queue') \in Nat
    BY <2>1
  <2> QED BY <1>1, <2>1, <2>2, Bounds DEF Receive
<1>2. CASE Tick
  <2>1. /\ cmd_age' \in 0 .. ActBound + 1
        /\ loop_age' \in 0 .. MaxLoop
        /\ pub_age' \in 0 .. StopBound + 1
    BY <1>2, OlderBound, Bounds DEF Tick
  <2> QED BY <1>2, <2>1 DEF Tick
<1>3. CASE Crash
  BY <1>3, Bounds DEF Crash
<1>4. CASE Restart
  BY <1>4, Bounds DEF Restart
<1>5. CASE Boot
  <2>1. queue' = queue \/ queue' = <<>>
    BY <1>5 DEF Boot
  <2>2. <<>> \in Seq(Cmds) /\ Len(<<>>) = 0 /\ 0 <= QueueSize
    BY Bounds
  <2>3. queue' \in Seq(Cmds) /\ Len(queue') <= QueueSize
    BY <2>1, <2>2
  <2> QED BY <1>5, <2>3 DEF Boot
<1>6. CASE ReadTest
  <2>1. pc' \in {"spin", "reset"}
    BY <1>6 DEF ReadTest
  <2> QED BY <1>6, <2>1 DEF ReadTest
<1>7. CASE ResetEncoders
  BY <1>7 DEF ResetEncoders
<1>8. CASE SpinOnce
  <2>1. Len(queue) \in Nat /\ (queue # <<>> => Len(queue) >= 1)
    OBVIOUS
  <2> QED BY <1>8, <2>1, Bounds DEF SpinOnce
<1>9. CASE cmd_vel_right
  <2>1. queue # <<>>
    BY <1>9 DEF cmd_vel_right
  <2>2. /\ msg' \in Cmds
        /\ queue' \in Seq(Cmds)
        /\ Len(queue') = Len(queue) - 1
    BY <1>9, <2>1, QueuePop DEF cmd_vel_right
  <2>3. Wheels(msg')[RIGHT] \in Int
    BY <2>2, WheelsType, WheelPair
  <2>4. speed' \in [Wheel -> Int] /\ lost' \in BOOLEAN
    BY <1>9, <2>3, DriveType, WheelPair DEF cmd_vel_right
  <2>5. TypeOK'
    BY <1>9, <2>2, <2>4, Bounds DEF cmd_vel_right
  <2>6. Pending'
    BY <1>9, <2>2, <2>5, Bounds DEF cmd_vel_right
  <2> QED BY <2>5, <2>6
<1>10. CASE cmd_vel_left
  <2>1. Wheels(msg)[LEFT] \in Int
    BY WheelsType, WheelPair
  <2>2. speed' \in [Wheel -> Int] /\ lost' \in BOOLEAN
    BY <1>10, <2>1, DriveType, WheelPair DEF cmd_vel_left
  <2>3. todo' \in 0 .. QueueSize
    BY <1>10, Bounds DEF cmd_vel_left
  <2>4. Pending'
    BY <1>10, Bounds DEF cmd_vel_left
  <2> QED BY <1>10, <2>2, <2>3, <2>4, Bounds DEF cmd_vel_left
<1>11. CASE Watchdog
  BY <1>11 DEF Watchdog
<1>12. CASE ZeroRight
  BY <1>12, DriveType, WheelPair DEF ZeroRight
<1>13. CASE ZeroLeft
  BY <1>13, DriveType, WheelPair DEF ZeroLeft
<1>14. CASE NextLoop
  BY <1>14 DEF NextLoop
<1>15. CASE UNCHANGED vars
  BY <1>15 DEF vars
<1> QED
  BY <1>1, <1>2, <1>3, <1>4, <1>5, <1>6, <1>7, <1>8, <1>9, <1>10, <1>11, <1>12,
     <1>13, <1>14, <1>15 DEF Next, node

(* The queue keeps its bound, the ages stay below their caps, and the      *)
(* callback is never called without a message.                             *)
THEOREM TypeCorrect == Spec => []TypeOK
<1>1. Init => TypeInv
  BY InitType DEF Init, TypeInv, Pending
<1>2. TypeInv => TypeOK
  BY DEF TypeInv
<1> QED BY <1>1, <1>2, NextType, PTL DEF Spec

-----------------------------------------------------------------------------
(***************************************************************************)
(* The watchdog.  Between its test and the next one only the sleeps of     *)
(* "odom" let time pass, and loop_age counts exactly that time: a wheel    *)
(* that still turns then obeys a command that was not older than Timeout   *)
(* at the test.                                                            *)
(***************************************************************************)

Busy == {"cb_right", "cb_left", "check", "zero_right", "zero_left"}

TimeInv ==
  /\ pc \in Busy => loop_age = 0
  /\ ~lost /\ pc = "zero_left" => speed[RIGHT] = 0
  /\ ~lost /\ pc = "odom" /\ speed # Still => cmd_age <= Timeout + loop_age

WatchInv == TypeInv /\ TimeInv

LEMMA NextWatch == WatchInv /\ [Next]_vars => TimeInv'
<1> SUFFICES ASSUME WatchInv, [Next]_vars PROVE TimeInv'
  OBVIOUS
<1> USE DEF WatchInv, TimeInv, Busy, Goto, ages, faults
<1>0. TypeInv' /\ TypeInv /\ TypeOK
  BY NextType DEF TypeInv
<1>1. ASSUME NEW cmd \in Cmds, Receive(cmd)
      PROVE  TimeInv'
  BY <1>1 DEF Receive
<1>2. CASE Tick
  <2>1. CASE pc = "odom"
    <3>1. /\ loop_age' = loop_age + 1
          /\ cmd_age' <= cmd_age + 1
      BY <1>0, <1>2, <2>1, OlderBound, Bounds DEF Tick, TypeOK
    <3>2. cmd_age \in Nat /\ cmd_age' \in Nat /\ loop_age \in Nat
      BY <1>0, Bounds DEF TypeInv, TypeOK
    <3> QED BY <1>2, <2>1, <3>1, <3>2, Bounds DEF Tick
  <2>2. CASE pc # "odom"
    BY <1>2, <2>2 DEF Tick, Start
  <2> QED BY <2>1, <2>2
<1>3. CASE Crash
  BY <1>3 DEF Crash
<1>4. CASE Restart
  BY <1>4 DEF Restart
<1>5. CASE Boot
  BY <1>5 DEF Boot
<1>6. CASE ReadTest
  <2>1. pc' \in {"spin", "reset"}
    BY <1>6 DEF ReadTest
  <2> QED BY <1>6, <2>1 DEF ReadTest
<1>7. CASE ResetEncoders
  BY <1>7 DEF ResetEncoders
<1>8. CASE SpinOnce
  BY <1>8 DEF SpinOnce
<1>9. CASE cmd_vel_right
  BY <1>9 DEF cmd_vel_right
<1>10. CASE cmd_vel_left
  BY <1>10 DEF cmd_vel_left
<1>11. CASE Watchdog
  BY <1>0, <1>11, Bounds DEF Watchdog, TypeOK
<1>12. CASE ZeroRight
  BY <1>0, <1>12, DriveType, WheelPair DEF ZeroRight
<1>13. CASE ZeroLeft
  <2>1. ~lost' => speed' = Still
    <3>1. ASSUME ~lost'
          PROVE  speed' = [speed EXCEPT ![LEFT] = 0] /\ speed[RIGHT] = 0
      BY <1>0, <1>13, <3>1, DriveType, WheelPair DEF ZeroLeft
    <3> QED BY <1>0, <3>1 DEF TypeOK, Still, Wheel
  <2> QED BY <1>13, <2>1 DEF ZeroLeft
<1>14. CASE NextLoop
  BY <1>14 DEF NextLoop
<1>15. CASE UNCHANGED vars
  BY <1>15 DEF vars
<1> QED
  BY <1>1, <1>2, <1>3, <1>4, <1>5, <1>6, <1>7, <1>8, <1>9, <1>10, <1>11, <1>12,
     <1>13, <1>14, <1>15 DEF Next, node

LEMMA InitWatch == Init => WatchInv
BY InitType DEF Init, WatchInv, TypeInv, Pending, TimeInv, Busy

LEMMA WatchBound == WatchInv => WatchdogBound
BY Bounds DEF WatchInv, TypeInv, TypeOK, TimeInv, WatchdogBound

(* Past the watchdog's test no wheel turns on a command handled longer ago *)
(* than Timeout and one loop, whatever the queue and the crashes did.      *)
THEOREM WatchdogWorks == Spec => []WatchdogBound
<1>1. WatchInv /\ [Next]_vars => WatchInv'
  BY NextType, NextWatch DEF WatchInv
<1> QED BY <1>1, InitWatch, WatchBound, PTL DEF Spec

-----------------------------------------------------------------------------
(***************************************************************************)
(* The queue.  Outside the callbacks everything that waits came after the  *)
(* last spinOnce(); in the callbacks everything behind the messages that   *)
(* are being handled came since, while no time passed.  What came during   *)
(* start-up is told apart by early.                                        *)
(***************************************************************************)

QueueInv ==
  /\ pc \in Start \cup {"down"} => early \/ queue = <<>>
  /\ pc \in Loop \ {"cb_right", "cb_left"} /\ queue # <<>> =>
       early \/ pub_age <= loop_age
  /\ pc \in {"cb_right", "cb_left"} => early \/ pub_age <= MaxLoop
  /\ pc = "cb_right" /\ todo < Len(queue) => early \/ pub_age = 0
  /\ pc = "cb_left" /\ todo <= Len(queue) => early \/ pub_age = 0

LEMMA NextQueue == WatchInv /\ QueueInv /\ [Next]_vars => QueueInv'
<1> SUFFICES ASSUME WatchInv, QueueInv, [Next]_vars PROVE QueueInv'
  OBVIOUS
<1> USE DEF QueueInv, Goto, ages, faults, Start, Loop
<1>0. TypeOK /\ Pending /\ TimeInv /\ TypeOK'
  BY NextType DEF WatchInv, TypeInv
<1>t. /\ loop_age \in Nat /\ pub_age \in Nat /\ loop_age <= MaxLoop
      /\ loop_age' \in Nat /\ pub_age' \in Nat
      /\ Len(queue) \in Nat /\ todo \in Nat
      /\ queue \in Seq(Cmds)
  BY <1>0, Bounds DEF TypeOK
<1>1. ASSUME NEW cmd \in Cmds, Receive(cmd)
      PROVE  QueueInv'
  <2>1. pub_age' = 0 /\ pc' = pc /\ loop_age' = loop_age /\ pc # "down"
    BY <1>1 DEF Receive
  <2>2. pc \in Start => early'
    BY <1>1 DEF Receive
  <2>3. pub_age' <= loop_age' /\ pub_age' <= MaxLoop
    BY <1>t, <2>1, Bounds
  <2> QED BY <2>1, <2>2, <2>3
<1>2. CASE Tick
  <2>1. CASE pc = "odom"
    <3>1. /\ loop_age' = loop_age + 1
          /\ pub_age' <= pub_age + 1
      BY <1>0, <1>2, <2>1, OlderBound, Bounds DEF Tick, TypeOK
    <3> QED BY <1>2, <1>t, <2>1, <3>1 DEF Tick
  <2>2. CASE pc # "odom"
    BY <1>2, <2>2 DEF Tick
  <2> QED BY <2>1, <2>2
<1>3. CASE Crash
  BY <1>3 DEF Crash
<1>4. CASE Restart
  BY <1>4 DEF Restart
<1>5. CASE Boot
  BY <1>5 DEF Boot
<1>6. CASE ReadTest
  <2>1. pc' \in {"spin", "reset"}
    BY <1>6 DEF ReadTest
  <2> QED BY <1>6, <2>1 DEF ReadTest
<1>7. CASE ResetEncoders
  BY <1>7 DEF ResetEncoders
<1>8. CASE SpinOnce
  <2>1. CASE queue = <<>>
    BY <1>8, <2>1 DEF SpinOnce
  <2>2. CASE queue # <<>>
    <3>1. early \/ pub_age <= MaxLoop
      BY <1>8, <1>t, <2>2, Bounds DEF SpinOnce
    <3> QED BY <1>8, <1>t, <2>2, <3>1 DEF SpinOnce
  <2> QED BY <2>1, <2>2
<1>9. CASE cmd_vel_right
  <2>1. Len(queue') = Len(queue) - 1
    <3>1. queue # <<>>
      BY <1>0, <1>9, <1>t DEF cmd_vel_right, Pending
    <3> QED BY <1>9, <1>t, <3>1, QueuePop DEF cmd_vel_right
  <2> QED BY <1>9, <1>t, <2>1 DEF cmd_vel_right
<1>10. CASE cmd_vel_left
  <2>1. CASE todo > 1
    BY <1>10, <1>t, <2>1 DEF cmd_vel_left
  <2>2. CASE ~ (todo > 1)
    <3>1. todo = 1
      BY <1>0, <1>10, <1>t, <2>2 DEF Pending, cmd_vel_left
    <3>2. queue # <<>> => todo <= Len(queue)
      BY <1>t, <3>1
    <3> QED BY <1>10, <1>t, <2>2, <3>2 DEF cmd_vel_left
  <2> QED BY <2>1, <2>2
<1>11. CASE Watchdog
  BY <1>11 DEF Watchdog
<1>12. CASE ZeroRight
  BY <1>12 DEF ZeroRight
<1>13. CASE ZeroLeft
  BY <1>13 DEF ZeroLeft
<1>14. CASE NextLoop
  BY <1>14 DEF NextLoop
<1>15. CASE UNCHANGED vars
  BY <1>15 DEF vars
<1> QED
  BY <1>1, <1>2, <1>3, <1>4, <1>5, <1>6, <1>7, <1>8, <1>9, <1>10, <1>11, <1>12,
     <1>13, <1>14, <1>15 DEF Next, node

LEMMA InitQueue == Init => QueueInv
BY DEF Init, QueueInv, Loop, Start

(* When the node goes to sleep in its loop, whatever waits in the queue    *)
(* came during this loop or before the first one.                          *)
THEOREM QueueDrained == Spec => []NothingLeftBehind
<1>1. WatchInv /\ [Next]_vars => WatchInv'
  BY NextType, NextWatch DEF WatchInv
<1>2. QueueInv => NothingLeftBehind
  BY DEF QueueInv, NothingLeftBehind, Loop
<1> QED BY <1>1, <1>2, InitWatch, InitQueue, NextQueue, PTL DEF Spec

-----------------------------------------------------------------------------
(***************************************************************************)
(* Stopping in time.  The last command handled waited at most one loop, so *)
(* the last publication is at most MaxLoop older than cmd_age says; and    *)
(* cmd_age is bounded by the watchdog as long as the robot moves.          *)
(***************************************************************************)

StopInv ==
  whole =>
    /\ pc \in Start \cup {"down"} => early /\ speed = Still
    /\ speed # Still /\ pc # "cb_left" =>
         cmd_age <= ActBound /\ (early \/ pub_age <= cmd_age + MaxLoop)

FullInv == WatchInv /\ QueueInv /\ StopInv

(* A fault once made is never undone.                                      *)
LEMMA WholeBefore ==
  ASSUME WatchInv, [Next]_vars, whole'
  PROVE  whole
<1>1. crashes \in Nat /\ lost \in BOOLEAN
  BY Bounds DEF WatchInv, TypeInv, TypeOK
<1>2. crashes' = crashes \/ crashes' = crashes + 1
  BY DEF Next, node, vars, ages, faults, Receive, Tick, Crash, Restart, Boot,
         ReadTest, ResetEncoders, SpinOnce, cmd_vel_right, cmd_vel_left,
         Watchdog, ZeroRight, ZeroLeft, NextLoop
<1>3. lost' = lost \/ lost' = TRUE
  BY DEF Next, node, vars, ages, faults, Receive, Tick, Crash, Restart, Boot,
         ReadTest, ResetEncoders, SpinOnce, cmd_vel_right, cmd_vel_left,
         Watchdog, ZeroRight, ZeroLeft, NextLoop, Drive
<1> QED BY <1>1, <1>2, <1>3 DEF whole

LEMMA NextStop == FullInv /\ [Next]_vars => StopInv'
<1> SUFFICES ASSUME FullInv, [Next]_vars, whole, whole'
             PROVE  StopInv'
  <2>1. ASSUME FullInv, [Next]_vars, whole'
        PROVE  whole
    BY <2>1, WholeBefore DEF FullInv
  <2> QED BY <2>1 DEF StopInv
<1> USE DEF Goto, ages, faults, Start
<1>0. /\ TypeOK /\ TimeInv /\ QueueInv
      /\ pc \in Start \cup {"down"} => early /\ speed = Still
      /\ speed # Still /\ pc # "cb_left" =>
           cmd_age <= ActBound /\ (early \/ pub_age <= cmd_age + MaxLoop)
  BY DEF FullInv, WatchInv, TypeInv, StopInv
<1>w. crashes = 0 /\ crashes' = 0 /\ ~lost /\ ~lost'
  BY DEF whole
<1>t. /\ loop_age \in Nat /\ pub_age \in Nat /\ cmd_age \in Nat
      /\ loop_age <= MaxLoop
      /\ MaxLoop \in Nat /\ ActBound \in Nat
  BY <1>0, Bounds DEF TypeOK
<1>1. ASSUME NEW cmd \in Cmds, Receive(cmd)
      PROVE  StopInv'
  <2>1. /\ pub_age' = 0 /\ pc' = pc /\ speed' = speed /\ cmd_age' = cmd_age
        /\ pc # "down"
    BY <1>1 DEF Receive
  <2>2. pc \in Start => early'
    BY <1>1 DEF Receive
  <2>3. pub_age' <= cmd_age' + MaxLoop
    BY <1>t, <2>1
  <2> QED BY <1>0, <2>1, <2>2, <2>3 DEF StopInv
<1>2. CASE Tick
  <2>0. pc' = pc /\ speed' = speed /\ early' = early
    BY <1>2 DEF Tick
  <2>1. CASE speed = Still
    BY <1>0, <2>0, <2>1 DEF StopInv
  <2>2. CASE speed # Still
    <3>1. pc = "odom" /\ loop_age < MaxLoop
      BY <1>0, <1>2, <2>2 DEF Tick
    <3>2. cmd_age <= Timeout + loop_age
      BY <1>0, <1>w, <2>2, <3>1 DEF TimeInv
    <3>3. cmd_age < ActBound
      BY <1>t, <3>1, <3>2, Bounds
    <3>4. cmd_age' = cmd_age + 1 /\ pub_age' <= pub_age + 1
      BY <1>0, <1>2, <3>3, OlderBound, Bounds DEF Tick, TypeOK
    <3>5. pub_age' \in Nat
      BY <1>0, <1>2, OlderBound, Bounds DEF Tick, TypeOK
    <3>6. early \/ pub_age <= cmd_age + MaxLoop
      BY <1>0, <2>2, <3>1
    <3>7. cmd_age' <= ActBound /\ (early' \/ pub_age' <= cmd_age' + MaxLoop)
      BY <1>t, <2>0, <3>3, <3>4, <3>5, <3>6
    <3> QED BY <2>0, <3>1, <3>7 DEF StopInv
  <2> QED BY <2>1, <2>2
<1>3. CASE Crash
  BY <1>3, <1>0, <1>w, Bounds DEF Crash, TypeOK
<1>4. CASE Restart
  BY <1>0, <1>4 DEF Restart, StopInv
<1>5. CASE Boot
  BY <1>0, <1>5 DEF Boot, StopInv
<1>6. CASE ReadTest
  BY <1>0, <1>6 DEF ReadTest, StopInv
<1>7. CASE ResetEncoders
  BY <1>0, <1>7 DEF ResetEncoders, StopInv
<1>8. CASE SpinOnce
  BY <1>0, <1>8 DEF SpinOnce, StopInv
<1>9. CASE cmd_vel_right
  BY <1>9 DEF cmd_vel_right, StopInv
<1>10. CASE cmd_vel_left
  <2>1. early \/ pub_age <= MaxLoop
    BY <1>0, <1>10 DEF cmd_vel_left, QueueInv
  <2>2. pc' \in {"cb_right", "check"} /\ cmd_age' = 0 /\ pub_age' = pub_age
        /\ early' = early
    BY <1>10 DEF cmd_vel_left
  <2>3. cmd_age' <= ActBound /\ (early' \/ pub_age' <= cmd_age' + MaxLoop)
    BY <1>t, <2>1, <2>2
  <2> QED BY <2>2, <2>3 DEF StopInv
<1>11. CASE Watchdog
  BY <1>0, <1>11 DEF Watchdog, StopInv
<1>12. CASE ZeroRight
  <2>1. speed = Still => speed' = Still
    <3>1. speed' = [speed EXCEPT ![RIGHT] = 0]
      BY <1>0, <1>w, <1>12, DriveType, WheelPair DEF ZeroRight
    <3> QED BY <3>1, WheelPair DEF Still
  <2> QED BY <1>0, <1>12, <2>1 DEF ZeroRight, StopInv
<1>13. CASE ZeroLeft
  <2>1. speed' = [speed EXCEPT ![LEFT] = 0] /\ speed[RIGHT] = 0
    BY <1>0, <1>w, <1>13, DriveType, WheelPair DEF ZeroLeft, TimeInv
  <2>2. speed' = Still
    BY <1>0, <2>1 DEF TypeOK, Still, Wheel
  <2> QED BY <1>13, <2>2 DEF ZeroLeft, StopInv
<1>14. CASE NextLoop
  BY <1>0, <1>14 DEF NextLoop, StopInv
<1>15. CASE UNCHANGED vars
  <2>1. /\ pc' = pc /\ speed' = speed /\ cmd_age' = cmd_age
        /\ pub_age' = pub_age /\ early' = early
    BY <1>15 DEF vars
  <2> QED BY <1>0, <2>1 DEF StopInv
<1> QED
  BY <1>1, <1>2, <1>3, <1>4, <1>5, <1>6, <1>7, <1>8, <1>9, <1>10, <1>11, <1>12,
     <1>13, <1>14, <1>15 DEF Next, node

LEMMA FullInvariant == Spec => []FullInv
<1>1. Init => FullInv
  BY InitWatch, InitQueue DEF Init, FullInv, StopInv
<1>2. FullInv /\ [Next]_vars => FullInv'
  BY NextType, NextWatch, NextQueue, NextStop DEF FullInv, WatchInv
<1> QED BY <1>1, <1>2, PTL DEF Spec

(* While the process lives and its writes arrive, the robot stands still   *)
(* once nothing was published for Timeout and two loops.                   *)
THEOREM RobotStops == Spec => []StopsInTime
<1>1. FullInv => StopsInTime
  <2> SUFFICES ASSUME FullInv, whole, speed # Still
               PROVE  early \/ pub_age <= StopBound
    BY DEF StopsInTime
  <2>t. pub_age \in Nat /\ cmd_age \in Nat
    BY Bounds DEF FullInv, WatchInv, TypeInv, TypeOK
  <2>1. CASE pc = "cb_left"
    <3>1. early \/ pub_age <= MaxLoop
      BY <2>1 DEF FullInv, QueueInv
    <3> QED BY <2>t, <3>1, Bounds
  <2>2. CASE pc # "cb_left"
    <3>1. cmd_age <= ActBound /\ (early \/ pub_age <= cmd_age + MaxLoop)
      BY <2>2 DEF FullInv, StopInv
    <3> QED BY <2>t, <3>1, Bounds
  <2> QED BY <2>1, <2>2
<1> QED BY <1>1, FullInvariant, PTL

-----------------------------------------------------------------------------
(* The node implements the dead man's switch: until the process dies or a  *)
(* write is lost, every step is a step of Deadman or leaves it unchanged.  *)
(* From then on Deadman sees a robot that stands still.                    *)

LEMMA DeadStep ==
  ASSUME FullInv, [Next]_vars, whole, whole'
  PROVE  [Dead!Next]_(Dead!vars)
<1> USE DEF Goto, ages, faults, Start
<1>0. /\ TypeOK /\ TimeInv /\ crashes = 0 /\ crashes' = 0 /\ ~lost /\ ~lost'
      /\ pc \in Start \cup {"down"} => speed = Still
  BY DEF FullInv, WatchInv, TypeInv, StopInv, whole
<1> DEFINE quiet == IF pc = "cb_left" THEN 0 ELSE cmd_age
           moving == speed # Still
<1>m. /\ quiet = (IF whole /\ pc # "cb_left" THEN cmd_age ELSE 0)
      /\ quiet' = (IF whole' /\ pc' # "cb_left" THEN cmd_age' ELSE 0)
      /\ moving = (whole /\ speed # Still)
      /\ moving' = (whole' /\ speed' # Still)
  OBVIOUS
<1>s. quiet' = quiet /\ moving' = moving => [Dead!Next]_(Dead!vars)
  BY <1>m DEF Dead!vars
<1>o. quiet' = 0 => [Dead!Next]_(Dead!vars)
  BY <1>m DEF Dead!Next, Dead!Obey
<1>h. ~moving' /\ quiet' = quiet => [Dead!Next]_(Dead!vars)
  BY <1>m DEF Dead!Next, Dead!Halt
<1>k. /\ \/ quiet < ActBound /\ quiet' = quiet + 1
         \/ ~moving /\ quiet' \in {quiet, quiet + 1}
      /\ moving' = moving
      => [Dead!Next]_(Dead!vars)
  BY <1>m DEF Dead!Next, Dead!Tick
<1> HIDE DEF quiet, moving
<1>1. ASSUME NEW cmd \in Cmds, Receive(cmd)
      PROVE  [Dead!Next]_(Dead!vars)
  BY <1>1, <1>s DEF Receive, quiet, moving
<1>2. CASE Tick
  <2>0. pc # "cb_left" /\ pc' = pc /\ speed' = speed
    BY <1>2 DEF Tick
  <2>1. cmd_age \in Nat /\ cmd_age' \in {cmd_age, cmd_age + 1}
    BY <1>0, <1>2, Bounds DEF Tick, Older, TypeOK
  <2>2. CASE speed = Still
    BY <1>k, <2>0, <2>1, <2>2 DEF quiet, moving
  <2>3. CASE speed # Still
    <3>1. cmd_age <= Timeout + loop_age /\ loop_age < MaxLoop
      BY <1>0, <1>2, <2>3 DEF Tick, TimeInv
    <3>2. cmd_age < ActBound
      BY <1>0, <2>1, <3>1, Bounds DEF TypeOK
    <3>3. cmd_age' = cmd_age + 1
      BY <1>2, <2>1, <3>2, Bounds DEF Tick, Older
    <3> QED BY <1>k, <2>0, <3>2, <3>3 DEF quiet, moving
  <2> QED BY <2>2, <2>3
<1>3. CASE Crash
  BY <1>0, <1>3 DEF Crash
<1>4. CASE Restart
  BY <1>4, <1>o DEF Restart, quiet, moving
<1>5. CASE Boot
  BY <1>5, <1>s DEF Boot, quiet, moving
<1>6. CASE ReadTest
  BY <1>0, <1>6, <1>s DEF ReadTest, quiet, moving
<1>7. CASE ResetEncoders
  BY <1>7, <1>s DEF ResetEncoders, quiet, moving
<1>8. CASE SpinOnce
  BY <1>8, <1>s DEF SpinOnce, quiet, moving
<1>9. CASE cmd_vel_right
  BY <1>9, <1>o DEF cmd_vel_right, quiet, moving
<1>10. CASE cmd_vel_left
  BY <1>10, <1>o DEF cmd_vel_left, quiet, moving
<1>11. CASE Watchdog
  BY <1>11, <1>s DEF Watchdog, quiet, moving
<1>12. CASE ZeroRight
  <2>1. speed = Still => speed' = Still
    <3>1. speed' = [speed EXCEPT ![RIGHT] = 0]
      BY <1>0, <1>12, DriveType, WheelPair DEF ZeroRight
    <3> QED BY <3>1, WheelPair DEF Still
  <2> QED BY <1>12, <2>1, <1>s, <1>h DEF ZeroRight, quiet, moving
<1>13. CASE ZeroLeft
  <2>1. speed' = [speed EXCEPT ![LEFT] = 0] /\ speed[RIGHT] = 0
    BY <1>0, <1>13, DriveType, WheelPair DEF ZeroLeft, TimeInv
  <2>2. speed' = Still
    BY <1>0, <2>1 DEF TypeOK, Still, Wheel
  <2> QED BY <1>13, <2>2, <1>h DEF ZeroLeft, quiet, moving
<1>14. CASE NextLoop
  BY <1>14, <1>s DEF NextLoop, quiet, moving
<1>15. CASE UNCHANGED vars
  BY <1>15, <1>s DEF vars, quiet, moving
<1> QED
  BY <1>1, <1>2, <1>3, <1>4, <1>5, <1>6, <1>7, <1>8, <1>9, <1>10, <1>11, <1>12,
     <1>13, <1>14, <1>15 DEF Next, node

LEMMA FaultStep ==
  ASSUME ~whole'
  PROVE  [Dead!Next]_(Dead!vars)
BY DEF Dead!Next, Dead!Obey

(* main() implements Deadman, for any commands, queue, timing, number of   *)
(* crashes and lost writes.                                                *)
THEOREM ImplementsDeadman == Spec => KeepsPromise
<1>1. Init => Dead!Init
  BY DEF Init, Dead!Init, whole
<1>2. FullInv /\ [Next]_vars => [Dead!Next]_(Dead!vars)
  BY DeadStep, FaultStep, WholeBefore DEF FullInv
<1> QED BY <1>1, <1>2, FullInvariant, PTL DEF Spec, KeepsPromise, Dead!Spec
=============================================================================
