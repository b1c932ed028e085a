------------------------- MODULE TeleopChainProofs -------------------------
(***************************************************************************)
(* Proofs about TeleopChain: an obstacle stops the wheels, and silence of  *)
(* the operator does not, for any queue, timeout, loop times and period of *)
(* the gate.  The steps of the chain are steps of MinilabNode, whose       *)
(* invariants are taken over from MinilabNodeProofs.                       *)
(***************************************************************************)
EXTENDS TeleopChain, SequenceTheorems, TLAPS

Commands == {AsNode(twist) : twist \in Gate!Twists}

P == INSTANCE MinilabNodeProofs WITH Cmds <- Commands, MaxCrash <- 0, Lossy <- FALSE

LEMMA TwistType == \A twist \in Gate!Twists : twist \in [x : Int, z : Int]
BY CmdAssumption DEF Gate!Twists, Gate!Stop

LEMMA CommandType == Commands \subseteq [vx : Int, wz : Int]
BY TwistType DEF Commands, AsNode

(* What MinilabNode asks of its constants.                                 *)
LEMMA NodeConstants ==
  P!CmdAssumption /\ P!QueueAssumption /\ P!TimeAssumption /\ P!FaultAssumption
BY NodeAssumption, CommandType
   DEF P!CmdAssumption, P!QueueAssumption, P!TimeAssumption, P!FaultAssumption

LEMMA Numbers ==
  /\ GatePeriod \in Nat /\ GatePeriod >= 1 /\ Timeout \in Nat /\ MaxLoop \in Nat
  /\ Node!ActBound = Timeout + MaxLoop /\ Node!StopBound = Timeout + 2 * MaxLoop
  /\ GateBound \in Nat /\ NearBound \in Nat /\ GateBound <= NearBound
  /\ QueueSize \in Nat /\ QueueSize >= 1
BY PeriodAssumption, NodeAssumption DEF Node!ActBound, Node!StopBound, GateBound, NearBound

-----------------------------------------------------------------------------
(***************************************************************************)
(* The gate.  An update() that publishes began after the last publication: *)
(* when the obstacle has been there for longer than that, the update() has *)
(* seen it.                                                                *)
(***************************************************************************)
GateTypes ==
  /\ scans \subseteq Ranges
  /\ cmd_in \in Gate!Twists /\ cmd_out \in Gate!Twists
  /\ gate_pc \in {"sleep", "scan", "test", "assign", "stop", "pass", "publish"}
  /\ alias \in BOOLEAN /\ close \in BOOLEAN /\ raced \in BOOLEAN
  /\ gate_up \in BOOLEAN /\ slipped \in BOOLEAN
  /\ gate_age \in Nat /\ near_age \in Nat

GateInv ==
  /\ near_age > 0 => Gate!Close(scans)
  /\ gate_up => gate_age <= GatePeriod
  /\ gate_up /\ gate_pc # "sleep" /\ near_age > gate_age => close
  /\ gate_pc # "sleep" /\ close => Gate!Close(scans)
  /\ gate_pc = "pass" => ~close
  /\ gate_pc = "assign" => cmd_in.x <= 0 \/ raced
  /\ gate_pc = "publish" /\ close => cmd_out.x <= 0 \/ raced

LEMMA GateStarts == Init => GateTypes /\ GateInv
<1> SUFFICES ASSUME Init PROVE GateTypes /\ GateInv
  OBVIOUS
<1>1. /\ scans = {} /\ cmd_in = Gate!Stop /\ cmd_out = Gate!Stop /\ alias = FALSE
      /\ gate_pc = "sleep" /\ close = FALSE /\ raced = FALSE
      /\ gate_up = TRUE /\ gate_age = 0 /\ near_age = 0 /\ slipped = FALSE
  BY DEF Init, Gate!Init
<1>2. Gate!Stop \in Gate!Twists
  BY DEF Gate!Twists
<1>3. GateTypes
  BY <1>1, <1>2 DEF GateTypes
<1> QED
  BY <1>1, <1>3, Numbers DEF GateInv

LEMMA ScanKeeps ==
  ASSUME GateTypes, GateInv, NEW ranges \in Scans, Scan(ranges)
  PROVE  GateTypes' /\ GateInv'
<1>1. /\ gate_up /\ scans' = ranges /\ close' = (close /\ Gate!Close(ranges))
      /\ UNCHANGED <<cmd_in, cmd_out, alias, gate_pc, raced, gate_up, gate_age>>
      /\ IF Gate!Close(ranges) THEN UNCHANGED <<near_age, slipped>>
                               ELSE near_age' = 0 /\ slipped' = FALSE
  BY DEF Scan, Gate!scan_cb
<1>2. scans' \subseteq Ranges /\ (Gate!Close(scans)' <=> Gate!Close(ranges))
  BY <1>1, ScanAssumption DEF Gate!Close
<1>3. close' \in BOOLEAN
  BY <1>1 DEF Gate!Close, GateTypes
<1>4. slipped' \in BOOLEAN /\ near_age' \in Nat
  <2>1. CASE Gate!Close(ranges)
    <3>1. near_age' = near_age /\ slipped' = slipped
      BY <1>1, <2>1
    <3> QED
      BY <3>1 DEF GateTypes
  <2>2. CASE ~Gate!Close(ranges)
    <3>1. near_age' = 0 /\ slipped' = FALSE
      BY <1>1, <2>2
    <3> QED
      BY <3>1
  <2> QED
    BY <2>1, <2>2
<1>5. GateTypes'
  BY <1>1, <1>2, <1>3, <1>4 DEF GateTypes
<1> QED
  BY <1>1, <1>2, <1>5 DEF GateTypes, GateInv

LEMMA OrderKeeps ==
  ASSUME GateTypes, GateInv, NEW cmd \in Cmds, Order(cmd)
  PROVE  GateTypes' /\ GateInv'
<1>1. /\ cmd_in' = cmd /\ alias' = FALSE /\ raced' = (raced \/ gate_pc = "assign")
      /\ UNCHANGED <<scans, cmd_out, gate_pc, close, gate_up, gate_age, near_age, slipped>>
  BY DEF Order, Gate!cmd_vel_cb, chain_vars
<1>2. Gate!Close(scans)' <=> Gate!Close(scans)
  BY <1>1 DEF Gate!Close
<1> QED
  BY <1>1, <1>2 DEF GateTypes, GateInv, Gate!Twists

LEMMA DecideKeeps ==
  ASSUME GateTypes, GateInv, Decide
  PROVE  GateTypes' /\ GateInv'
<1>0. /\ gate_up /\ UNCHANGED <<gate_up, gate_age, near_age, slipped>>
      /\ scans' = scans /\ (Gate!Close(scans)' <=> Gate!Close(scans))
  BY DEF Decide, chain_vars, Gate!Wake, Gate!Look, Gate!TestForward, Gate!StopForward, Gate!Pass,
         Gate!Close
<1> USE DEF Gate!Goto
<1>1. CASE Gate!Wake
  <2>1. /\ gate_pc' = "scan" /\ close' = Gate!Close(scans) /\ raced' = FALSE
        /\ UNCHANGED <<cmd_in, cmd_out, alias>>
    BY <1>1 DEF Gate!Wake
  <2>2. close' \in BOOLEAN
    BY <2>1 DEF Gate!Close
  <2>3. GateTypes'
    BY <1>0, <2>1, <2>2 DEF GateTypes
  <2> QED
    BY <1>0, <2>1, <2>3 DEF GateTypes, GateInv
<1>2. CASE Gate!Look
  <2>1. /\ gate_pc = "scan" /\ gate_pc' = (IF Gate!Close(scans) THEN "test" ELSE "pass")
        /\ UNCHANGED <<cmd_in, cmd_out, alias, close, raced>>
    BY <1>2 DEF Gate!Look
  <2>2. GateTypes'
    BY <1>0, <2>1 DEF GateTypes
  <2> QED
    BY <1>0, <2>1, <2>2 DEF GateTypes, GateInv
<1>3. CASE Gate!TestForward
  <2>1. /\ gate_pc = "test" /\ gate_pc' = (IF cmd_in.x > 0 THEN "stop" ELSE "assign")
        /\ UNCHANGED <<cmd_in, cmd_out, alias, close, raced>>
    BY <1>3 DEF Gate!TestForward
  <2>2. cmd_in.x \in Int
    BY TwistType DEF GateTypes
  <2>3. GateTypes'
    BY <1>0, <2>1 DEF GateTypes
  <2> QED
    BY <1>0, <2>1, <2>2, <2>3 DEF GateTypes, GateInv
<1>4. CASE Gate!StopForward
  <2>1. /\ gate_pc = "stop" /\ gate_pc' = "publish" /\ cmd_out' = Gate!Stop
        /\ cmd_in' \in {Gate!Stop, cmd_in} /\ UNCHANGED <<alias, close, raced>>
    BY <1>4 DEF Gate!StopForward
  <2>2. Gate!Stop \in Gate!Twists /\ Gate!Stop.x = 0
    BY DEF Gate!Stop, Gate!Twists
  <2>3. GateTypes'
    BY <1>0, <2>1, <2>2 DEF GateTypes
  <2> QED
    BY <1>0, <2>1, <2>2, <2>3 DEF GateTypes, GateInv
<1>5. CASE Gate!Pass
  <2>1. /\ gate_pc \in {"assign", "pass"} /\ gate_pc' = "publish" /\ cmd_out' = cmd_in /\ alias' = TRUE
        /\ UNCHANGED <<cmd_in, close, raced>>
    BY <1>5 DEF Gate!Pass
  <2>2. GateTypes'
    BY <1>0, <2>1 DEF GateTypes
  <2> QED
    BY <1>0, <2>1, <2>2 DEF GateTypes, GateInv
<1> QED
  BY <1>1, <1>2, <1>3, <1>4, <1>5 DEF Decide

LEMMA PublishKeeps ==
  ASSUME GateTypes, GateInv, Publish
  PROVE  GateTypes' /\ GateInv'
<1>1. /\ gate_pc' = "sleep" /\ gate_age' = 0
      /\ slipped' = (slipped \/ (raced /\ cmd_out.x > 0))
      /\ UNCHANGED <<scans, cmd_in, cmd_out, alias, close, raced, gate_up, near_age>>
  BY DEF Publish, Gate!Publish, Gate!Goto
<1>2. slipped' \in BOOLEAN /\ (Gate!Close(scans)' <=> Gate!Close(scans))
  BY <1>1 DEF Gate!Close
<1> QED
  BY <1>1, <1>2, Numbers DEF GateTypes, GateInv

LEMMA TickKeeps ==
  ASSUME GateTypes, GateInv, Tick
  PROVE  GateTypes' /\ GateInv' /\ near_age' <= near_age + 1
<1>1. /\ IF gate_up THEN gate_age < GatePeriod /\ gate_age' = gate_age + 1
                    ELSE gate_age' = gate_age
      /\ near_age' = IF Gate!Close(scans) THEN Node!Older(near_age, NearBound + 1) ELSE 0
      /\ UNCHANGED <<scans, cmd_in, cmd_out, alias, gate_pc, close, raced, gate_up, slipped>>
  BY DEF Tick, gate_vars
<1>2. Gate!Close(scans)' <=> Gate!Close(scans)
  BY <1>1 DEF Gate!Close
<1>3. near_age' \in Nat /\ near_age' <= near_age + 1 /\ (near_age' > 0 => Gate!Close(scans))
  BY <1>1 DEF GateTypes, Node!Older
<1>4. gate_age' \in Nat
  BY <1>1 DEF GateTypes
<1>5. GateTypes'
  BY <1>1, <1>3, <1>4 DEF GateTypes
<1> QED
  BY <1>1, <1>2, <1>3, <1>4, <1>5, Numbers DEF GateTypes, GateInv

LEMMA GateSteps ==
  ASSUME GateTypes, GateInv, [Next]_vars
  PROVE  GateTypes' /\ GateInv'
<1>1. CASE Drive \/ UNCHANGED vars \/ GateDies
  <2>1. /\ UNCHANGED <<scans, cmd_in, cmd_out, alias, gate_pc, close, raced, gate_age, near_age, slipped>>
        /\ gate_up' \in {gate_up, FALSE}
    BY <1>1 DEF Drive, GateDies, vars, gate_vars, chain_vars
  <2>2. Gate!Close(scans)' <=> Gate!Close(scans)
    BY <2>1 DEF Gate!Close
  <2>3. GateTypes'
    BY <2>1 DEF GateTypes
  <2> QED
    BY <2>1, <2>2, <2>3 DEF GateTypes, GateInv
<1> QED
  BY <1>1, ScanKeeps, OrderKeeps, DecideKeeps, PublishKeeps, TickKeeps DEF Next

(* A command that would drive forward is not published once the obstacle   *)
(* has been there for longer than the last publication, or it slipped      *)
(* through.                                                                *)
LEMMA NotForward ==
  ASSUME GateTypes, GateInv, Publish, ~slipped', cmd_out.x > 0
  PROVE  near_age <= gate_age /\ gate_age <= GatePeriod
<1>1. gate_up /\ gate_pc = "publish" /\ ~raced
  BY DEF Publish, Gate!Publish, Gate!Goto, GateTypes
<1>2. cmd_out.x \in Int
  BY TwistType DEF GateTypes
<1> QED
  BY <1>1, <1>2 DEF GateTypes, GateInv
-----------------------------------------------------------------------------
(***************************************************************************)
(* The node. What the chain does is, to the node, a step of its own, one   *)
(* of the clock, a message or nothing.                                     *)
(***************************************************************************)
Whole == crashes = 0 /\ ~lost /\ (pc = "down" => queue = <<>>)

NodeInv == P!FullInv /\ Whole

LEMMA NodeStarts == Init => NodeInv
<1> SUFFICES ASSUME Init PROVE NodeInv
  OBVIOUS
<1>1. P!Init
  BY DEF Init, Node!Init, P!Init, Node!Halt, P!Halt, Node!Still, P!Still, Node!Wheel, P!Wheel,
         Node!RIGHT, P!RIGHT, Node!LEFT, P!LEFT, Node!StopBound, P!StopBound
<1>2. P!WatchInv /\ P!QueueInv
  BY <1>1, NodeConstants, P!InitWatch, P!InitQueue
<1>3. P!StopInv
  BY <1>1 DEF P!Init, P!StopInv
<1>4. Whole
  BY DEF Init, Node!Init, Whole
<1> QED
  BY <1>2, <1>3, <1>4 DEF NodeInv, P!FullInv

(* The two instances of MinilabNode say the same.                          *)
LEMMA SameNode ==
  /\ Node!node => P!node
  /\ Node!Restart => P!Restart
  /\ Node!Tick => P!Tick
  /\ \A cmd : Node!Receive(cmd) => P!Receive(cmd)
  /\ UNCHANGED node_vars => UNCHANGED P!vars
<1> USE DEF Node!RIGHT, P!RIGHT, Node!LEFT, P!LEFT, Node!Wheel, P!Wheel, Node!Still, P!Still,
  Node!Halt, P!Halt, Node!Start, P!Start, Node!ages, P!ages, Node!faults, P!faults,
  Node!Goto, P!Goto
<1>1. Node!Boot => P!Boot
  BY DEF Node!Boot, P!Boot
<1>2. Node!ReadTest => P!ReadTest
  BY DEF Node!ReadTest, P!ReadTest
<1>3. Node!ResetEncoders => P!ResetEncoders
  BY DEF Node!ResetEncoders, P!ResetEncoders
<1>4. Node!SpinOnce => P!SpinOnce
  BY DEF Node!SpinOnce, P!SpinOnce
<1>5. \A cmd : Node!Wheels(cmd) = P!Wheels(cmd)
  BY DEF Node!Wheels, P!Wheels
<1>6. \A w, v : Node!Drive(w, v) => P!Drive(w, v)
  BY DEF Node!Drive, P!Drive
<1>7. Node!cmd_vel_right => P!cmd_vel_right
  BY <1>5, <1>6 DEF Node!cmd_vel_right, P!cmd_vel_right
<1>8. Node!cmd_vel_left => P!cmd_vel_left
  BY <1>5, <1>6 DEF Node!cmd_vel_left, P!cmd_vel_left
<1>9. Node!Watchdog => P!Watchdog
  BY DEF Node!Watchdog, P!Watchdog
<1>10. Node!ZeroRight => P!ZeroRight
  BY <1>6 DEF Node!ZeroRight, P!ZeroRight
<1>11. Node!ZeroLeft => P!ZeroLeft
  BY <1>6 DEF Node!ZeroLeft, P!ZeroLeft
<1>12. Node!NextLoop => P!NextLoop
  BY DEF Node!NextLoop, P!NextLoop
<1>13. Node!node => P!node
  BY <1>1, <1>2, <1>3, <1>4, <1>7, <1>8, <1>9, <1>10, <1>11, <1>12 DEF Node!node, P!node
<1>14. Node!Restart => P!Restart
  BY DEF Node!Restart, P!Restart
<1>15. Node!Tick => P!Tick
  BY DEF Node!Tick, P!Tick, Node!Older, P!Older, Node!ActBound, P!ActBound, Node!StopBound, P!StopBound
<1>16. \A cmd : Node!Receive(cmd) => P!Receive(cmd)
  BY DEF Node!Receive, P!Receive
<1>17. UNCHANGED node_vars => UNCHANGED P!vars
  BY DEF node_vars, P!vars
<1> QED
  BY <1>13, <1>14, <1>15, <1>16, <1>17

LEMMA NodeSteps ==
  ASSUME GateTypes, NodeInv, [Next]_vars
  PROVE  NodeInv'
<1>1. [P!Next]_(P!vars)
  <2>1. CASE Publish /\ pc # "down"
    <3>1. AsNode(cmd_out) \in Commands /\ Node!Receive(AsNode(cmd_out))
      BY <2>1 DEF Publish, GateTypes, Commands
    <3> QED
      BY <3>1, SameNode DEF P!Next
  <2>2. CASE UNCHANGED node_vars
    BY <2>2, SameNode
  <2>3. CASE Drive \/ Tick
    BY <2>3, SameNode DEF Drive, Tick, P!Next
  <2> QED
    BY <2>1, <2>2, <2>3 DEF Next, vars, Scan, Order, Decide, Publish, GateDies
<1>2. P!FullInv'
  <2>1. P!TypeInv' /\ P!TimeInv' /\ P!QueueInv' /\ P!StopInv'
    BY <1>1, NodeConstants, P!NextType, P!NextWatch, P!NextQueue, P!NextStop
    DEF NodeInv, P!FullInv, P!WatchInv
  <2> QED
    BY <2>1 DEF P!FullInv, P!WatchInv
<1>3. Whole'
  <2>1. CASE Drive
    BY <2>1 DEF NodeInv, Whole, Drive, Node!node, Node!Restart, Node!Boot, Node!ReadTest,
      Node!ResetEncoders, Node!SpinOnce, Node!cmd_vel_right, Node!cmd_vel_left, Node!Watchdog,
      Node!ZeroRight, Node!ZeroLeft, Node!NextLoop, Node!Drive, Node!Goto, Node!faults
  <2>2. CASE Publish
    <3>1. CASE pc # "down"
      BY <2>2, <3>1 DEF NodeInv, Whole, Publish, Node!Receive, Node!faults
    <3>2. CASE pc = "down"
      BY <2>2, <3>2 DEF NodeInv, Whole, Publish, node_vars
    <3> QED
      BY <3>1, <3>2
  <2>3. CASE Tick
    BY <2>3 DEF NodeInv, Whole, Tick, Node!Tick, Node!faults
  <2>4. CASE UNCHANGED node_vars
    BY <2>4 DEF NodeInv, Whole, node_vars
  <2> QED
    BY <2>1, <2>2, <2>3, <2>4 DEF Next, vars, Scan, Order, Decide, GateDies
<1> QED
  BY <1>2, <1>3 DEF NodeInv

(* What the chain relies on.                                               *)
LEMMA NodeFacts ==
  ASSUME NodeInv
  PROVE  /\ pc \in {"boot", "test", "reset", "spin", "cb_right", "cb_left", "check",
                    "zero_right", "zero_left", "odom", "down"}
         /\ queue \in Seq(Commands) /\ Len(queue) <= QueueSize
         /\ todo \in Nat /\ cmd_age \in Nat /\ loop_age \in Nat /\ loop_age <= MaxLoop
         /\ early \in BOOLEAN /\ speed \in [{0, 1} -> Int]
         /\ pc = "cb_right" => 1 <= todo /\ todo <= Len(queue)
         /\ pc = "cb_left" => 1 <= todo /\ todo <= Len(queue) + 1
         /\ pc \in {"boot", "test", "reset", "down"} => early /\ speed = [w \in {0, 1} |-> 0]
         /\ pc = "down" => queue = <<>>
         /\ pc \in {"cb_right", "cb_left", "check"} => loop_age = 0
         /\ pc = "zero_left" => speed[0] = 0
         /\ pc = "odom" /\ speed # [w \in {0, 1} |-> 0] => cmd_age <= Timeout + loop_age
<1>1. P!TypeOK /\ P!Pending /\ P!TimeInv /\ P!StopInv /\ Whole
  BY DEF NodeInv, P!FullInv, P!WatchInv, P!TypeInv
<1>2. P!ActBound \in Nat /\ MaxLoop \in Nat /\ QueueSize \in Nat
  BY Numbers DEF P!ActBound
<1> USE DEF P!Start, P!Loop, P!Wheel, P!Still, P!RIGHT, P!LEFT
<1>3. /\ pc \in {"boot", "test", "reset", "spin", "cb_right", "cb_left", "check",
                    "zero_right", "zero_left", "odom", "down"}
      /\ queue \in Seq(Commands) /\ Len(queue) <= QueueSize
      /\ early \in BOOLEAN /\ speed \in [{0, 1} -> Int]
  BY <1>1 DEF P!TypeOK
<1>4. todo \in Nat /\ cmd_age \in Nat /\ loop_age \in Nat /\ loop_age <= MaxLoop
  BY <1>1, <1>2 DEF P!TypeOK
<1>5. /\ pc = "cb_right" => 1 <= todo /\ todo <= Len(queue)
      /\ pc = "cb_left" => 1 <= todo /\ todo <= Len(queue) + 1
  BY <1>1 DEF P!Pending
<1>6. pc \in {"boot", "test", "reset", "down"} => early /\ speed = [w \in {0, 1} |-> 0]
  BY <1>1 DEF P!StopInv, P!whole, Whole
<1>7. /\ pc \in {"cb_right", "cb_left", "check"} => loop_age = 0
      /\ pc = "zero_left" => speed[0] = 0
      /\ pc = "odom" /\ speed # [w \in {0, 1} |-> 0] => cmd_age <= Timeout + loop_age
  BY <1>1 DEF P!TimeInv, P!Busy, Whole
<1> QED
  BY <1>1, <1>3, <1>4, <1>5, <1>6, <1>7 DEF Whole
-----------------------------------------------------------------------------
(***************************************************************************)
(* The watchdog.  When nothing waits, the last command handled is not      *)
(* older than the last publication.                                        *)
(***************************************************************************)
HeardInv ==
  gate_up =>
    /\ pc \notin {"down", "cb_right", "cb_left"} /\ queue = <<>> => cmd_age <= gate_age
    /\ pc = "check" => cmd_age <= GatePeriod
    /\ GatePeriod <= Timeout => pc \notin {"zero_right", "zero_left"}

ChainInv == GateTypes /\ GateInv /\ NodeInv

LEMMA ChainStarts == Init => ChainInv
BY GateStarts, NodeStarts DEF ChainInv

LEMMA ChainSteps == ChainInv /\ [Next]_vars => ChainInv'
BY GateSteps, NodeSteps DEF ChainInv

(* A message joins the queue at its end, in place of the oldest if there   *)
(* is no room.                                                             *)
LEMMA Received ==
  ASSUME NodeInv, NEW cmd \in Commands, Node!Receive(cmd)
  PROVE  /\ queue' \in Seq(Commands) /\ Len(queue') >= 1 /\ queue' # <<>>
         /\ Len(queue') >= Len(queue) /\ queue'[Len(queue')] = cmd
         /\ \A i \in 1..Len(queue') - 1 :
              \E j \in 1..Len(queue) : j >= i /\ queue'[i] = queue[j]
         /\ pc # "down" /\ early' = (pc \in {"boot", "test", "reset"})
         /\ UNCHANGED <<pc, msg, todo, speed, cmd_age, loop_age>>
<1>1. /\ queue \in Seq(Commands) /\ Len(queue) <= QueueSize /\ Len(queue) \in Nat
      /\ QueueSize \in Nat /\ QueueSize >= 1
  BY NodeFacts, Numbers
<1>2. queue' = Append(IF Len(queue) < QueueSize THEN queue ELSE Tail(queue), cmd)
  BY DEF Node!Receive
<1>3. CASE Len(queue) < QueueSize
  <2>1. queue' = Append(queue, cmd)
    BY <1>2, <1>3
  <2>2. /\ queue' \in Seq(Commands) /\ Len(queue') = Len(queue) + 1 /\ queue'[Len(queue) + 1] = cmd
        /\ \A i \in 1..Len(queue) : queue'[i] = queue[i]
    BY <1>1, <2>1
  <2>3. queue' # <<>>
    BY <1>1, <2>2
  <2> QED
    BY <1>1, <2>2, <2>3 DEF Node!Receive, Node!Start
<1>4. CASE ~(Len(queue) < QueueSize)
  <2>1. queue # <<>> /\ Len(queue) >= 1
    BY <1>1, <1>4
  <2>2. Tail(queue) \in Seq(Commands) /\ Len(Tail(queue)) = Len(queue) - 1
        /\ \A i \in 1..Len(queue) - 1 : Tail(queue)[i] = queue[i + 1]
    BY <1>1, <2>1
  <2>3. queue' = Append(Tail(queue), cmd)
    BY <1>2, <1>4
  <2>4. /\ queue' \in Seq(Commands) /\ Len(queue') = Len(queue) /\ queue'[Len(queue)] = cmd
        /\ \A i \in 1..Len(queue) - 1 : queue'[i] = queue[i + 1]
    <3> DEFINE t == Tail(queue)
    <3>1. t \in Seq(Commands) /\ Len(t) = Len(queue) - 1 /\ queue' = Append(t, cmd)
      BY <2>2, <2>3
    <3> HIDE DEF t
    <3>2. /\ queue' \in Seq(Commands) /\ Len(queue') = Len(t) + 1 /\ queue'[Len(t) + 1] = cmd
          /\ \A i \in 1..Len(t) : queue'[i] = t[i]
      BY <3>1
    <3>3. \A i \in 1..Len(queue) - 1 : t[i] = queue[i + 1]
      BY <2>2 DEF t
    <3> QED
      BY <1>1, <3>1, <3>2, <3>3
  <2>5. queue' # <<>>
    BY <1>1, <2>1, <2>4
  <2>6. ASSUME NEW i \in 1..Len(queue') - 1
        PROVE  \E j \in 1..Len(queue) : j >= i /\ queue'[i] = queue[j]
    <3>1. i + 1 \in 1..Len(queue) /\ i + 1 >= i /\ queue'[i] = queue[i + 1]
      BY <1>1, <2>1, <2>4, <2>6
    <3> QED
      BY <3>1
  <2> QED
    BY <1>1, <2>1, <2>4, <2>5, <2>6 DEF Node!Receive, Node!Start
<1> QED
  BY <1>3, <1>4

LEMMA PublishedTo ==
  ASSUME ChainInv, Publish
  PROVE  /\ gate_up /\ gate_age' = 0 /\ near_age' = near_age /\ gate_up' = gate_up
         /\ (~slipped' => ~slipped)
         /\ AsNode(cmd_out) \in Commands /\ AsNode(cmd_out).vx = cmd_out.x
         /\ IF pc # "down" THEN Node!Receive(AsNode(cmd_out)) ELSE UNCHANGED node_vars
BY DEF Publish, ChainInv, GateTypes, Commands, AsNode

LEMMA HeardNode ==
  ASSUME ChainInv, HeardInv, Drive
  PROVE  HeardInv'
<1>1. UNCHANGED <<gate_up, gate_age>>
  BY DEF Drive, chain_vars
<1>2. gate_age \in Nat /\ cmd_age \in Nat /\ (gate_up => gate_age <= GatePeriod) /\ GatePeriod \in Nat
      /\ Timeout \in Nat
  BY NodeFacts, Numbers DEF ChainInv, GateTypes, GateInv
<1>3. pc = "down" => queue = <<>>
  BY NodeFacts DEF ChainInv
<1> USE DEF Node!Goto, Node!ages, Node!faults
<1>4. CASE Node!Restart
  BY <1>1, <1>2, <1>4 DEF HeardInv, Node!Restart
<1>5. CASE Node!Boot \/ Node!ReadTest \/ Node!ResetEncoders
  <2>1. /\ \/ pc' \in {"test", "reset", "spin"} /\ pc \in {"boot", "test", "reset"} /\ queue' = queue
           \/ pc' = "down"
        /\ cmd_age' = cmd_age
    BY <1>5 DEF Node!Boot, Node!ReadTest, Node!ResetEncoders
  <2> QED
    BY <1>1, <2>1 DEF HeardInv
<1>6. CASE Node!SpinOnce
  <2>1. /\ pc = "spin" /\ pc' = (IF queue = <<>> THEN "check" ELSE "cb_right")
        /\ queue' = queue /\ cmd_age' = cmd_age
    BY <1>6 DEF Node!SpinOnce
  <2> QED
    BY <1>1, <1>2, <2>1 DEF HeardInv
<1>7. CASE Node!cmd_vel_right
  BY <1>1, <1>7 DEF HeardInv, Node!cmd_vel_right
<1>8. CASE Node!cmd_vel_left
  <2>1. pc' \in {"cb_right", "check"} /\ cmd_age' = 0
    BY <1>8 DEF Node!cmd_vel_left
  <2> QED
    BY <1>1, <1>2, <2>1 DEF HeardInv
<1>9. CASE Node!Watchdog
  <2>1. /\ pc = "check" /\ pc' = (IF cmd_age > Timeout THEN "zero_right" ELSE "odom")
        /\ queue' = queue /\ cmd_age' = cmd_age
    BY <1>9 DEF Node!Watchdog
  <2> QED
    BY <1>1, <1>2, <2>1 DEF HeardInv
<1>10. CASE Node!ZeroRight \/ Node!ZeroLeft \/ Node!NextLoop
  <2>1. /\ \/ pc = "zero_right" /\ pc' = "zero_left"
           \/ pc = "zero_left" /\ pc' = "odom"
           \/ pc = "odom" /\ pc' = "spin"
        /\ queue' = queue /\ cmd_age' = cmd_age
    BY <1>10 DEF Node!ZeroRight, Node!ZeroLeft, Node!NextLoop
  <2> QED
    BY <1>1, <2>1 DEF HeardInv
<1> QED
  BY <1>4, <1>5, <1>6, <1>7, <1>8, <1>9, <1>10 DEF Drive, Node!node

LEMMA HeardSteps ==
  ASSUME ChainInv, HeardInv, [Next]_vars
  PROVE  HeardInv'
<1>1. gate_age \in Nat /\ cmd_age \in Nat /\ GatePeriod \in Nat
      /\ (pc = "down" => queue = <<>>)
  BY NodeFacts, Numbers DEF ChainInv, GateTypes
<1>2. CASE Publish
  <2>1. /\ gate_up' = gate_up
        /\ IF pc # "down" THEN Node!Receive(AsNode(cmd_out)) ELSE UNCHANGED node_vars
    BY <1>2, PublishedTo
  <2>2. CASE pc # "down"
    <3>1. queue' # <<>> /\ pc' = pc /\ cmd_age' = cmd_age
      BY <1>2, <2>2, PublishedTo, Received DEF ChainInv
    <3> QED
      BY <2>1, <3>1 DEF HeardInv
  <2>3. CASE pc = "down"
    BY <2>1, <2>3 DEF HeardInv, node_vars
  <2> QED
    BY <2>2, <2>3
<1>3. CASE Tick
  <2>1. /\ pc' = pc /\ queue' = queue /\ gate_up' = gate_up /\ pc # "check"
        /\ (gate_up => gate_age' = gate_age + 1) /\ cmd_age' \in {cmd_age, cmd_age + 1}
    BY <1>3 DEF Tick, Node!Tick, Node!Older, Node!Start
  <2> QED
    BY <1>1, <2>1 DEF HeardInv
<1>4. CASE UNCHANGED node_vars /\ gate_age' = gate_age /\ gate_up' \in {gate_up, FALSE}
  BY <1>4 DEF HeardInv, node_vars
<1> QED
  BY <1>2, <1>3, <1>4, HeardNode
  DEF Next, vars, Scan, Order, Decide, GateDies, chain_vars

(* While the gate lives and publishes within the timeout the watchdog      *)
(* never stops the wheels, however long ago the operator was heard last,   *)
(* and however long the loops of the node are.                             *)
THEOREM SilenceIsUnnoticed == Spec => []SilenceUnnoticed
<1>1. Init => HeardInv
  BY Numbers DEF Init, Node!Init, HeardInv
<1>2. Init => ChainInv /\ HeardInv
  BY <1>1, ChainStarts
<1>3. ChainInv /\ HeardInv /\ [Next]_vars => (ChainInv /\ HeardInv)'
  BY ChainSteps, HeardSteps
<1>4. HeardInv => SilenceUnnoticed
  BY DEF HeardInv, SilenceUnnoticed
<1> QED
  BY <1>2, <1>3, <1>4, PTL DEF Spec
-----------------------------------------------------------------------------
(***************************************************************************)
(* The road of a command that drives forward, from the queue through the   *)
(* callback to the wheels.  It was published when the obstacle had been    *)
(* there for a period of the gate at most.  While the gate lives another   *)
(* command follows within a period and takes its place; when the gate has  *)
(* died, the time it waited is known from the loop, and from then on its   *)
(* age is the one the watchdog watches.  A command that came while the     *)
(* node started up has waited for longer, but either it is the last one,   *)
(* which early tells, or another one waits behind it.                      *)
(***************************************************************************)
Ahead(cmd) == cmd.vx > 0

(* The place in the queue of the last one the callbacks will handle.       *)
Remaining == IF pc = "cb_right" THEN todo ELSE todo - 1

(* The youngest in the queue.                                              *)
LastInv ==
  queue # <<>> /\ Ahead(queue[Len(queue)]) /\ ~slipped =>
    /\ gate_up => near_age <= GatePeriod + gate_age
    /\ pc \in {"cb_right", "cb_left"} /\ Remaining < Len(queue) => near_age <= GatePeriod
    /\ ~early /\ pc \in {"spin", "check", "zero_right", "zero_left", "odom"} =>
         near_age <= GatePeriod + loop_age

(* While the callbacks run: the last one they will handle and those behind *)
(* it; waits says whether another one is behind.                           *)
Timely(waits) ==
  /\ gate_up => near_age <= 2 * GatePeriod
  /\ ~early => \/ near_age <= GatePeriod + MaxLoop
               \/ near_age <= 2 * GatePeriod /\ waits

QueueTimely ==
  pc \in {"cb_right", "cb_left"} /\ ~slipped =>
    \A i \in 1..Len(queue) : i >= Remaining /\ Ahead(queue[i]) => Timely(i < Len(queue))

MsgTimely ==
  pc = "cb_left" =>
    /\ speed[0] = msg.vx + msg.wz
    /\ msg \in Commands
    /\ todo = 1 /\ Ahead(msg) /\ ~slipped =>
         /\ Timely(queue # <<>>)
         /\ gate_up /\ queue = <<>> => near_age <= GatePeriod + gate_age

(* The wheels.                                                             *)
SpeedTimely ==
  pc \in {"check", "odom", "spin"} /\ speed[0] + speed[1] > 0 /\ ~slipped =>
    /\ gate_up => /\ queue = <<>> => near_age <= GatePeriod + gate_age
                  /\ near_age <= 2 * GatePeriod + loop_age
    /\ ~early => \/ near_age <= GatePeriod + MaxLoop + cmd_age
                 \/ near_age <= 2 * GatePeriod + loop_age /\ queue # <<>>

RoadInv == LastInv /\ QueueTimely /\ MsgTimely /\ SpeedTimely

LEMMA Facts ==
  ASSUME ChainInv
  PROVE  /\ near_age \in Nat /\ gate_age \in Nat /\ loop_age \in Nat /\ cmd_age \in Nat /\ todo \in Nat
         /\ GatePeriod \in Nat /\ MaxLoop \in Nat /\ Timeout \in Nat /\ loop_age <= MaxLoop
         /\ (gate_up => gate_age <= GatePeriod)
         /\ queue \in Seq(Commands) /\ Len(queue) \in Nat
         /\ speed[0] \in Int /\ speed[1] \in Int /\ speed \in [{0, 1} -> Int]
BY NodeFacts, Numbers DEF ChainInv, GateTypes, GateInv

LEMMA RoadStarts == Init => RoadInv
BY DEF Init, Node!Init, RoadInv, LastInv, QueueTimely, MsgTimely, SpeedTimely

(* What the scanner, the operator and the gate do between publications.    *)
LEMMA RoadQuiet ==
  ASSUME ChainInv, RoadInv, UNCHANGED node_vars, gate_age' = gate_age, gate_up' => gate_up,
         (near_age' = near_age /\ slipped' = slipped) \/ near_age' = 0
  PROVE  RoadInv'
<1>1. UNCHANGED <<pc, queue, msg, todo, speed, cmd_age, loop_age, early>> /\ Remaining' = Remaining
  BY DEF node_vars, Remaining
<1>2. CASE near_age' = 0
  <2>1. \A w : Timely(w)'
    BY <1>2, Facts DEF Timely
  <2> QED
    BY <1>1, <1>2, <2>1, Facts DEF RoadInv, LastInv, QueueTimely, MsgTimely, SpeedTimely
<1>3. CASE near_age' = near_age /\ slipped' = slipped
  <2>1. LastInv'
    BY <1>1, <1>3 DEF RoadInv, LastInv
  <2>4. SpeedTimely'
    BY <1>1, <1>3 DEF RoadInv, SpeedTimely
  <2>2. QueueTimely'
    <3> SUFFICES ASSUME pc \in {"cb_right", "cb_left"}, ~slipped,
                        NEW i \in 1..Len(queue), i >= Remaining, Ahead(queue[i])
                 PROVE  Timely(i < Len(queue))'
      BY <1>1, <1>3 DEF QueueTimely
    <3>1. Timely(i < Len(queue))
      BY DEF RoadInv, QueueTimely
    <3> QED
      BY <1>1, <1>3, <3>1 DEF Timely
  <2>3. MsgTimely'
    <3>1. Timely(queue # <<>>) => Timely(queue # <<>>)'
      BY <1>1, <1>3 DEF Timely
    <3> QED
      BY <1>1, <1>3, <3>1 DEF RoadInv, MsgTimely
  <2> QED
    BY <2>1, <2>2, <2>3, <2>4 DEF RoadInv
<1> QED
  BY <1>2, <1>3

(* A publication: what waited, and what turns the wheels, is followed now. *)
LEMMA RoadPublish ==
  ASSUME ChainInv, RoadInv, Publish
  PROVE  RoadInv'
<1>1. /\ gate_up /\ gate_age' = 0 /\ near_age' = near_age /\ gate_up' = gate_up
      /\ (~slipped' => ~slipped)
      /\ IF pc # "down" THEN Node!Receive(AsNode(cmd_out)) ELSE UNCHANGED node_vars
  BY PublishedTo
<1>2. CASE pc = "down"
  <2>1. pc' = "down" /\ queue' = <<>>
    BY <1>1, <1>2, NodeFacts DEF ChainInv, node_vars
  <2> QED
    BY <2>1 DEF RoadInv, LastInv, QueueTimely, MsgTimely, SpeedTimely
<1>3. CASE pc # "down"
  <2> DEFINE cmd == AsNode(cmd_out)
  <2>1. /\ queue' \in Seq(Commands) /\ Len(queue') >= 1 /\ queue' # <<>>
        /\ Len(queue') >= Len(queue) /\ queue'[Len(queue')] = cmd
        /\ \A i \in 1..Len(queue') - 1 :
             \E j \in 1..Len(queue) : j >= i /\ queue'[i] = queue[j]
        /\ UNCHANGED <<pc, msg, todo, speed, cmd_age, loop_age>>
    BY <1>1, <1>3, PublishedTo, Received DEF ChainInv
  <2>2. Remaining' = Remaining /\ Remaining \in Int /\ Len(queue') \in Nat
    BY <2>1, Facts DEF Remaining
  <2>3. ~slipped' /\ Ahead(cmd) => near_age' <= GatePeriod
    <3>1. SUFFICES ASSUME ~slipped', Ahead(cmd) PROVE near_age' <= GatePeriod
      OBVIOUS
    <3>2. cmd_out.x > 0
      BY <3>1, PublishedTo DEF Ahead
    <3>3. near_age <= gate_age /\ gate_age <= GatePeriod
      BY <3>1, <3>2, NotForward DEF ChainInv
    <3> QED
      BY <1>1, <3>3, Facts
  <2> HIDE DEF cmd
  <2>4. LastInv'
    BY <1>1, <2>1, <2>3, Facts DEF LastInv
  <2>5. \A w : near_age <= 2 * GatePeriod => Timely(TRUE)'
    BY <1>1 DEF Timely
  <2>6. QueueTimely'
    <3> SUFFICES ASSUME pc \in {"cb_right", "cb_left"}, ~slipped',
                        NEW i \in 1..Len(queue'), i >= Remaining, Ahead(queue'[i])
                 PROVE  Timely(i < Len(queue))'
      BY <2>1, <2>2 DEF QueueTimely
    <3>1. CASE i = Len(queue')
      <4>1. near_age' <= GatePeriod
        BY <2>1, <2>3, <3>1
      <4> QED
        BY <1>1, <4>1, Facts DEF Timely
    <3>2. CASE i # Len(queue')
      <4>1. i \in 1..Len(queue') - 1
        BY <2>2, <3>2
      <4>2. PICK j \in 1..Len(queue) : j >= i /\ queue'[i] = queue[j]
        BY <2>1, <4>1
      <4>3. j >= Remaining /\ Ahead(queue[j])
        BY <2>2, <4>2, Facts
      <4>4. near_age <= 2 * GatePeriod
        BY <1>1, <4>3 DEF RoadInv, QueueTimely, Timely
      <4> QED
        BY <1>1, <2>2, <4>1, <4>4 DEF Timely
    <3> QED
      BY <3>1, <3>2
  <2>7. MsgTimely'
    <3>1. ASSUME pc = "cb_left", todo = 1, Ahead(msg), ~slipped'
          PROVE  Timely(queue # <<>>)'
      <4>1. near_age <= 2 * GatePeriod
        BY <1>1, <3>1 DEF RoadInv, MsgTimely, Timely
      <4> QED
        BY <1>1, <2>1, <4>1 DEF Timely
    <3> QED
      BY <2>1, <3>1 DEF RoadInv, MsgTimely
  <2>8. SpeedTimely'
    <3> SUFFICES ASSUME pc \in {"check", "odom", "spin"}, speed[0] + speed[1] > 0, ~slipped'
                 PROVE  near_age' <= 2 * GatePeriod + loop_age'
      BY <2>1 DEF SpeedTimely
    <3> QED
      BY <1>1, <2>1 DEF RoadInv, SpeedTimely
  <2> QED
    BY <2>4, <2>6, <2>7, <2>8 DEF RoadInv
<1> QED
  BY <1>2, <1>3

(* Time passes only while the node sleeps or starts up.                    *)
LEMMA RoadTick ==
  ASSUME ChainInv, RoadInv, Tick
  PROVE  RoadInv'
<1>1. /\ near_age' \in Nat /\ near_age' <= near_age + 1
      /\ gate_up' = gate_up /\ slipped' = slipped /\ (gate_up => gate_age' = gate_age + 1)
  BY TickKeeps DEF ChainInv, GateTypes, Tick
<1>2. /\ pc \in {"boot", "test", "reset", "down", "odom"}
      /\ UNCHANGED <<pc, queue, msg, todo, speed, early>>
      /\ pc = "odom" => loop_age' = loop_age + 1
      /\ cmd_age' = Node!Older(cmd_age, Node!ActBound + 1)
  BY DEF Tick, Node!Tick, Node!Start, Node!Older
<1>n. /\ near_age \in Nat /\ loop_age \in Nat /\ cmd_age \in Nat /\ gate_age \in Nat
      /\ GatePeriod \in Nat /\ MaxLoop \in Nat
  BY Facts
<1>3. LastInv'
  BY <1>1, <1>2, Facts DEF RoadInv, LastInv
<1>4. pc = "odom" /\ speed[0] + speed[1] > 0 => cmd_age' = cmd_age + 1
  <2> SUFFICES ASSUME pc = "odom", speed[0] + speed[1] > 0 PROVE cmd_age < Node!ActBound + 1
    BY <1>2 DEF Node!Older
  <2>1. speed # [w \in {0, 1} |-> 0]
    OBVIOUS
  <2>2. cmd_age <= Timeout + loop_age
    BY <2>1, NodeFacts DEF ChainInv
  <2> QED
    BY <2>2, Facts, Numbers
<1>5. SpeedTimely'
  <2> SUFFICES ASSUME pc \in {"check", "odom", "spin"}, speed[0] + speed[1] > 0, ~slipped
               PROVE  /\ gate_up => /\ queue = <<>> => near_age' <= GatePeriod + gate_age'
                                    /\ near_age' <= 2 * GatePeriod + loop_age'
                      /\ ~early => \/ near_age' <= GatePeriod + MaxLoop + cmd_age'
                                   \/ near_age' <= 2 * GatePeriod + loop_age' /\ queue # <<>>
    BY <1>1, <1>2 DEF SpeedTimely
  <2>1. pc = "odom" /\ loop_age' = loop_age + 1 /\ cmd_age' = cmd_age + 1
    BY <1>2, <1>4
  <2>2. /\ gate_up => /\ queue = <<>> => near_age <= GatePeriod + gate_age
                      /\ near_age <= 2 * GatePeriod + loop_age
        /\ ~early => \/ near_age <= GatePeriod + MaxLoop + cmd_age
                     \/ near_age <= 2 * GatePeriod + loop_age /\ queue # <<>>
    BY DEF RoadInv, SpeedTimely
  <2>3. ASSUME gate_up
        PROVE  /\ queue = <<>> => near_age' <= GatePeriod + gate_age'
               /\ near_age' <= 2 * GatePeriod + loop_age'
    <3>1. gate_age' = gate_age + 1
      BY <1>1, <2>3
    <3>2. near_age' <= 2 * GatePeriod + loop_age'
      <4>1. near_age <= 2 * GatePeriod + loop_age
        BY <2>2, <2>3
      <4> QED
        BY <1>1, <1>n, <2>1, <4>1
    <3>3. ASSUME queue = <<>> PROVE near_age' <= GatePeriod + gate_age'
      <4>1. near_age <= GatePeriod + gate_age
        BY <2>2, <2>3, <3>3
      <4> QED
        BY <1>1, <1>n, <3>1, <4>1
    <3> QED
      BY <3>2, <3>3
  <2>4. ASSUME ~early
        PROVE  \/ near_age' <= GatePeriod + MaxLoop + cmd_age'
               \/ near_age' <= 2 * GatePeriod + loop_age' /\ queue # <<>>
    <3>1. CASE near_age <= GatePeriod + MaxLoop + cmd_age
      BY <1>1, <1>n, <2>1, <3>1
    <3>2. CASE near_age <= 2 * GatePeriod + loop_age /\ queue # <<>>
      BY <1>1, <1>n, <2>1, <3>2
    <3> QED
      BY <2>2, <2>4, <3>1, <3>2
  <2> QED
    BY <2>3, <2>4
<1>6. QueueTimely' /\ MsgTimely'
  BY <1>2 DEF QueueTimely, MsgTimely
<1> QED
  BY <1>3, <1>5, <1>6 DEF RoadInv
(* The program of the node starts, and stays, with wheels that stand.      *)
LEMMA RoadStart ==
  ASSUME ChainInv, RoadInv, UNCHANGED chain_vars,
         Node!Restart \/ Node!Boot \/ Node!ReadTest \/ Node!ResetEncoders
  PROVE  RoadInv'
<1>1. /\ pc \in {"boot", "test", "reset", "down"} /\ pc' \in {"boot", "test", "reset", "down", "spin"}
      /\ UNCHANGED <<speed, loop_age, early, gate_up, gate_age, near_age, slipped>>
      /\ queue' = queue \/ queue' = <<>>
  BY DEF Node!Restart, Node!Boot, Node!ReadTest, Node!ResetEncoders, Node!Goto, Node!ages, chain_vars
<1>2. early /\ speed[0] = 0 /\ speed[1] = 0
  BY <1>1, NodeFacts DEF ChainInv
<1>3. LastInv'
  BY <1>1, <1>2 DEF RoadInv, LastInv
<1>4. QueueTimely' /\ MsgTimely' /\ SpeedTimely'
  BY <1>1, <1>2 DEF QueueTimely, MsgTimely, SpeedTimely
<1> QED
  BY <1>3, <1>4 DEF RoadInv

(* spinOnce() sets out to handle all that waits.                           *)
LEMMA RoadSpin ==
  ASSUME ChainInv, RoadInv, UNCHANGED chain_vars, Node!SpinOnce
  PROVE  RoadInv'
<1>1. /\ pc = "spin" /\ pc' = (IF queue = <<>> THEN "check" ELSE "cb_right")
      /\ todo' = Len(queue) /\ loop_age' = 0
      /\ UNCHANGED <<queue, speed, cmd_age, early, gate_up, gate_age, near_age, slipped>>
  BY DEF Node!SpinOnce, Node!Goto, chain_vars
<1>2. /\ near_age \in Nat /\ loop_age \in Nat /\ loop_age <= MaxLoop /\ gate_age \in Nat
      /\ GatePeriod \in Nat /\ MaxLoop \in Nat /\ Len(queue) \in Nat
      /\ (gate_up => gate_age <= GatePeriod)
  BY Facts
<1>3. LastInv' /\ MsgTimely'
  BY <1>1, <1>2 DEF RoadInv, LastInv, MsgTimely, Remaining
<1>4. QueueTimely'
  <2> SUFFICES ASSUME pc' = "cb_right", ~slipped, NEW i \in 1..Len(queue), i >= Len(queue),
                      Ahead(queue[i])
               PROVE  Timely(i < Len(queue))'
    BY <1>1 DEF QueueTimely, Remaining
  <2>1. i = Len(queue) /\ queue # <<>>
    BY <1>2
  <2>2. /\ gate_up => near_age <= GatePeriod + gate_age
        /\ ~early => near_age <= GatePeriod + loop_age
    BY <1>1, <2>1 DEF RoadInv, LastInv
  <2>3. gate_up => near_age <= 2 * GatePeriod
    BY <1>2, <2>2
  <2>4. ~early => near_age <= GatePeriod + MaxLoop
    BY <1>2, <2>2
  <2> QED
    BY <1>1, <2>3, <2>4 DEF Timely
<1>5. SpeedTimely'
  <2> SUFFICES ASSUME queue = <<>>, speed[0] + speed[1] > 0, ~slipped
               PROVE  /\ gate_up => /\ near_age <= GatePeriod + gate_age
                                    /\ near_age <= 2 * GatePeriod + 0
                      /\ ~early => near_age <= GatePeriod + MaxLoop + cmd_age
    BY <1>1 DEF SpeedTimely
  <2>1. /\ gate_up => near_age <= GatePeriod + gate_age
        /\ ~early => near_age <= GatePeriod + MaxLoop + cmd_age
    BY <1>1 DEF RoadInv, SpeedTimely
  <2>2. gate_up => near_age <= 2 * GatePeriod + 0
    BY <1>2, <2>1
  <2> QED
    BY <2>1, <2>2
<1> QED
  BY <1>3, <1>4, <1>5 DEF RoadInv

(* The callback takes the oldest message and writes the right wheel, ...   *)
LEMMA RoadRight ==
  ASSUME ChainInv, RoadInv, UNCHANGED chain_vars, Node!cmd_vel_right
  PROVE  RoadInv'
<1>1. /\ pc = "cb_right" /\ pc' = "cb_left" /\ msg' = Head(queue) /\ queue' = Tail(queue)
      /\ speed' = [speed EXCEPT ![0] = Node!Wheels(msg')[0]]
      /\ UNCHANGED <<todo, cmd_age, loop_age, early, gate_up, gate_age, near_age, slipped>>
  BY DEF Node!cmd_vel_right, Node!Goto, Node!Drive, Node!RIGHT, Node!ages, chain_vars
<1>2. /\ queue \in Seq(Commands) /\ Len(queue) \in Nat /\ todo \in Nat /\ 1 <= todo /\ todo <= Len(queue)
      /\ speed \in [{0, 1} -> Int]
  BY <1>1, NodeFacts DEF ChainInv
<1>3. /\ queue # <<>> /\ Len(queue') = Len(queue) - 1 /\ msg' = queue[1]
      /\ \A i \in 1..Len(queue) - 1 : queue'[i] = queue[i + 1]
      /\ msg' \in Commands /\ queue' \in Seq(Commands)
      /\ queue' = <<>> <=> Len(queue) = 1
  <2>1. queue # <<>> /\ Head(queue) = queue[1]
    BY <1>2
  <2>2. /\ Head(queue) \in Commands /\ Tail(queue) \in Seq(Commands)
        /\ Len(Tail(queue)) = Len(queue) - 1
        /\ \A i \in 1..Len(Tail(queue)) : Tail(queue)[i] = queue[i + 1]
    BY <1>2, <2>1, HeadTailProperties
  <2>3. Tail(queue) = <<>> <=> Len(Tail(queue)) = 0
    BY <2>2, EmptySeq
  <2> QED BY <1>1, <1>2, <2>1, <2>2, <2>3
<1>4. LastInv'
  <2> SUFFICES ASSUME queue' # <<>>, Ahead(queue'[Len(queue')]), ~slipped
               PROVE  /\ gate_up => near_age <= GatePeriod + gate_age
                      /\ todo - 1 < Len(queue') => near_age <= GatePeriod
    BY <1>1 DEF LastInv, Remaining
  <2>1. Ahead(queue[Len(queue)]) /\ (todo - 1 < Len(queue') => todo < Len(queue))
    BY <1>2, <1>3
  <2> QED
    BY <1>1, <1>3, <2>1 DEF RoadInv, LastInv, Remaining
<1>5. \A i \in 1..Len(queue) : i >= todo /\ Ahead(queue[i]) /\ ~slipped => Timely(i < Len(queue))
  BY <1>1 DEF RoadInv, QueueTimely, Remaining
<1>6. \A v, w : Timely(v) /\ (v => w) => Timely(w)'
  BY <1>1 DEF Timely
<1>7. QueueTimely'
  <2> SUFFICES ASSUME ~slipped, NEW i \in 1..Len(queue'), i >= todo - 1, Ahead(queue'[i])
               PROVE  Timely(i < Len(queue))'
    BY <1>1 DEF QueueTimely, Remaining
  <2>1. i + 1 \in 1..Len(queue) /\ i + 1 >= todo /\ Ahead(queue[i + 1])
        /\ (i + 1 < Len(queue) => i < Len(queue'))
    BY <1>2, <1>3
  <2>2. Timely(i + 1 < Len(queue))
    BY <1>5, <2>1
  <2> QED
    BY <1>1, <2>1, <2>2 DEF Timely
<1>8. MsgTimely'
  <2>1. speed'[0] = msg'.vx + msg'.wz
    BY <1>1, <1>2 DEF Node!Wheels, Node!Wheel, Node!RIGHT, Node!LEFT
  <2>2. ASSUME todo = 1, Ahead(msg'), ~slipped
        PROVE  /\ Timely(queue # <<>>)'
               /\ gate_up /\ queue' = <<>> => near_age <= GatePeriod + gate_age
    <3>1. Timely(1 < Len(queue))
      BY <1>2, <1>3, <1>5, <2>2
    <3>2. 1 < Len(queue) => queue' # <<>>
      BY <1>3
    <3>3. gate_up /\ queue' = <<>> => near_age <= GatePeriod + gate_age
      BY <1>3, <2>2 DEF RoadInv, LastInv
    <3> QED
      BY <1>1, <3>1, <3>2, <3>3 DEF Timely
  <2> QED
    BY <1>1, <1>3, <2>1, <2>2 DEF MsgTimely
<1> QED
  BY <1>1, <1>4, <1>7, <1>8 DEF RoadInv, SpeedTimely

(* ... then the left one: the wheels turn as the message says.             *)
LEMMA RoadLeft ==
  ASSUME ChainInv, RoadInv, UNCHANGED chain_vars, Node!cmd_vel_left
  PROVE  RoadInv'
<1>1. /\ pc = "cb_left" /\ pc' = (IF todo > 1 THEN "cb_right" ELSE "check")
      /\ speed' = [speed EXCEPT ![1] = Node!Wheels(msg)[1]]
      /\ todo' = todo - 1 /\ cmd_age' = 0
      /\ UNCHANGED <<queue, loop_age, early, gate_up, gate_age, near_age, slipped>>
  BY DEF Node!cmd_vel_left, Node!Goto, Node!Drive, Node!LEFT, chain_vars
<1>2. /\ todo \in Nat /\ 1 <= todo /\ speed \in [{0, 1} -> Int] /\ loop_age = 0
      /\ msg \in Commands /\ speed[0] = msg.vx + msg.wz
  BY <1>1, NodeFacts DEF ChainInv, RoadInv, MsgTimely
<1>3. /\ near_age \in Nat /\ gate_age \in Nat /\ GatePeriod \in Nat /\ MaxLoop \in Nat
      /\ (gate_up => gate_age <= GatePeriod)
  BY Facts
<1>4. LastInv'
  <2> SUFFICES ASSUME queue # <<>>, Ahead(queue[Len(queue)]), ~slipped
               PROVE  /\ gate_up => near_age <= GatePeriod + gate_age
                      /\ pc' = "cb_right" /\ todo - 1 < Len(queue) => near_age <= GatePeriod
                      /\ pc' = "check" => near_age <= GatePeriod + 0
    BY <1>1, <1>2 DEF LastInv, Remaining
  <2>1. /\ gate_up => near_age <= GatePeriod + gate_age
        /\ todo - 1 < Len(queue) => near_age <= GatePeriod
    BY <1>1 DEF RoadInv, LastInv, Remaining
  <2>2. pc' = "check" => todo - 1 < Len(queue)
    BY <1>1, <1>2, Facts
  <2> QED
    BY <1>3, <2>1, <2>2
<1>5. MsgTimely'
  BY <1>1 DEF MsgTimely
<1>6. QueueTimely'
  <2> SUFFICES ASSUME todo > 1, ~slipped, NEW i \in 1..Len(queue), i >= todo - 1, Ahead(queue[i])
               PROVE  Timely(i < Len(queue))'
    BY <1>1, <1>2 DEF QueueTimely, Remaining
  <2>1. Timely(i < Len(queue))
    BY <1>1 DEF RoadInv, QueueTimely, Remaining
  <2> QED
    BY <1>1, <2>1 DEF Timely
<1>7. SpeedTimely'
  <2> SUFFICES ASSUME todo = 1, speed'[0] + speed'[1] > 0, ~slipped
               PROVE  /\ gate_up => /\ queue = <<>> => near_age <= GatePeriod + gate_age
                                    /\ near_age <= 2 * GatePeriod + 0
                      /\ ~early => \/ near_age <= GatePeriod + MaxLoop + 0
                                   \/ near_age <= 2 * GatePeriod + 0 /\ queue # <<>>
    BY <1>1, <1>2 DEF SpeedTimely
  <2>1. msg.vx \in Int /\ msg.wz \in Int
    BY <1>2, CommandType
  <2>2. speed'[0] = msg.vx + msg.wz /\ speed'[1] = msg.vx - msg.wz
    BY <1>1, <1>2 DEF Node!Wheels, Node!Wheel, Node!RIGHT, Node!LEFT
  <2>3. Ahead(msg)
    BY <2>1, <2>2 DEF Ahead
  <2>4. /\ Timely(queue # <<>>)
        /\ gate_up /\ queue = <<>> => near_age <= GatePeriod + gate_age
    BY <1>1, <2>3 DEF RoadInv, MsgTimely
  <2>5. 2 * GatePeriod + 0 = 2 * GatePeriod /\ GatePeriod + MaxLoop + 0 = GatePeriod + MaxLoop
    BY <1>3
  <2> QED
    BY <2>4, <2>5 DEF Timely
<1> QED
  BY <1>4, <1>5, <1>6, <1>7 DEF RoadInv

(* The watchdog's steps stop the wheels or leave them alone.               *)
LEMMA RoadCheck ==
  ASSUME ChainInv, RoadInv, UNCHANGED chain_vars,
         Node!Watchdog \/ Node!ZeroRight \/ Node!ZeroLeft \/ Node!NextLoop
  PROVE  RoadInv'
<1>1. /\ pc' \notin {"cb_right", "cb_left"} /\ pc \notin {"cb_right", "cb_left"}
      /\ UNCHANGED <<queue, loop_age, cmd_age, early, gate_up, gate_age, near_age, slipped>>
      /\ \/ pc \in {"check", "odom"} /\ speed' = speed
         \/ pc' = "zero_left"
         \/ pc = "zero_left" /\ speed' = [speed EXCEPT ![1] = 0]
      /\ pc' = "spin" => pc = "odom"
  BY DEF Node!Watchdog, Node!ZeroRight, Node!ZeroLeft, Node!NextLoop, Node!Goto, Node!Drive,
         Node!LEFT, Node!ages, chain_vars
<1>2. pc = "zero_left" => speed[0] = 0 /\ speed \in [{0, 1} -> Int]
  BY NodeFacts DEF ChainInv
<1>3. LastInv'
  <2>1. /\ pc \in {"spin", "check", "zero_right", "zero_left", "odom"}
        /\ pc' \in {"spin", "check", "zero_right", "zero_left", "odom"}
    BY DEF Node!Watchdog, Node!ZeroRight, Node!ZeroLeft, Node!NextLoop, Node!Goto
  <2> QED
    BY <1>1, <2>1 DEF RoadInv, LastInv
<1>4. QueueTimely' /\ MsgTimely'
  BY <1>1 DEF QueueTimely, MsgTimely
<1>5. SpeedTimely'
  <2>1. CASE pc \in {"check", "odom"} /\ speed' = speed
    BY <1>1, <2>1 DEF RoadInv, SpeedTimely
  <2>2. CASE pc' = "zero_left"
    BY <2>2 DEF SpeedTimely
  <2>3. CASE pc = "zero_left" /\ speed' = [speed EXCEPT ![1] = 0]
    <3>1. speed'[0] = 0 /\ speed'[1] = 0
      BY <1>2, <2>3
    <3> QED
      BY <3>1 DEF SpeedTimely
  <2> QED
    BY <1>1, <2>1, <2>2, <2>3
<1> QED
  BY <1>3, <1>4, <1>5 DEF RoadInv
LEMMA RoadSteps ==
  ASSUME ChainInv, RoadInv, [Next]_vars
  PROVE  RoadInv'
<1>1. CASE Drive
  <2>1. UNCHANGED chain_vars
    BY <1>1 DEF Drive
  <2> QED
    BY <1>1, <2>1, RoadStart, RoadSpin, RoadRight, RoadLeft, RoadCheck DEF Drive, Node!node
<1>2. CASE UNCHANGED vars \/ GateDies \/ Decide \/ \E cmd \in Cmds : Order(cmd)
  <2>1. /\ UNCHANGED node_vars /\ gate_age' = gate_age /\ (gate_up' => gate_up)
        /\ near_age' = near_age /\ slipped' = slipped
    BY <1>2 DEF vars, chain_vars, GateDies, Decide, Order
  <2> QED
    BY <2>1, RoadQuiet
<1>3. CASE \E ranges \in Scans : Scan(ranges)
  <2>1. /\ UNCHANGED node_vars /\ gate_age' = gate_age /\ (gate_up' => gate_up)
        /\ (near_age' = near_age /\ slipped' = slipped) \/ near_age' = 0
    BY <1>3 DEF Scan
  <2> QED
    BY <2>1, RoadQuiet
<1> QED
  BY <1>1, <1>2, <1>3, RoadPublish, RoadTick DEF Next

LEMMA RoadEnds ==
  ASSUME ChainInv, RoadInv
  PROVE  ObstacleStops
<1> SUFFICES ASSUME pc = "odom", near_age > (IF gate_up THEN GateBound ELSE NearBound),
                    Forward, ~slipped, ~early \/ gate_up
             PROVE  FALSE
  BY DEF ObstacleStops
<1>1. /\ near_age \in Nat /\ loop_age \in Nat /\ cmd_age \in Nat /\ loop_age <= MaxLoop
      /\ GatePeriod \in Nat /\ MaxLoop \in Nat /\ Timeout \in Nat
  BY Facts
<1>2. speed[0] + speed[1] > 0
  BY DEF Forward, Node!RIGHT, Node!LEFT
<1>3. CASE gate_up
  <2>1. near_age <= 2 * GatePeriod + loop_age
    BY <1>2, <1>3 DEF RoadInv, SpeedTimely
  <2> QED
    BY <1>1, <1>3, <2>1 DEF GateBound
<1>4. CASE ~gate_up
  <2>1. \/ near_age <= GatePeriod + MaxLoop + cmd_age
        \/ near_age <= 2 * GatePeriod + loop_age
    BY <1>2, <1>4 DEF RoadInv, SpeedTimely
  <2>2. speed # [w \in {0, 1} |-> 0]
    BY <1>2
  <2>3. cmd_age <= Timeout + loop_age
    BY <2>2, NodeFacts DEF ChainInv
  <2>4. /\ GatePeriod + MaxLoop + cmd_age <= GatePeriod + Timeout + 2 * MaxLoop
        /\ 2 * GatePeriod + loop_age <= 2 * GatePeriod + MaxLoop
    BY <1>1, <2>3
  <2>5. /\ NearBound \in Nat /\ GatePeriod + Timeout + 2 * MaxLoop <= NearBound
        /\ 2 * GatePeriod + MaxLoop <= NearBound
    BY <1>1, Numbers DEF NearBound, GateBound
  <2>6. near_age > NearBound
    BY <1>4
  <2> QED
    BY <1>1, <2>1, <2>4, <2>5, <2>6
<1> QED
  BY <1>3, <1>4

(* From the scanner to the wheels: an obstacle that has been seen for two  *)
(* periods of the gate and a loop of the node has stopped them, and when   *)
(* the gate has died the watchdog has, for any commands, scans, queue and  *)
(* times, unless a command slipped through the race or, published to a     *)
(* node that was starting up, was the gate's last.                         *)
THEOREM ObstacleIsHeeded == Spec => []ObstacleStops
<1>1. Init => ChainInv /\ RoadInv
  BY ChainStarts, RoadStarts
<1>2. ChainInv /\ RoadInv /\ [Next]_vars => (ChainInv /\ RoadInv)'
  BY ChainSteps, RoadSteps
<1>3. ChainInv /\ RoadInv => ObstacleStops
  BY RoadEnds
<1> QED
  BY <1>1, <1>2, <1>3, PTL DEF Spec

(* The chain is the gate and the node as they are specified alone: what    *)
(* holds of either, for any scans and commands, holds in the chain.        *)
THEOREM ComposesBoth == Spec => Gate!Spec /\ Node!Spec
<1>1. Init => Gate!Init /\ Node!Init
  BY DEF Init
<1>2. ASSUME GateTypes, [Next]_vars PROVE [Node!Next]_(Node!vars)
  <2>1. CASE Publish /\ pc # "down"
    <3>1. AsNode(cmd_out) \in Commands /\ Node!Receive(AsNode(cmd_out))
      BY <1>2, <2>1 DEF Publish, GateTypes, Commands
    <3> QED
      BY <3>1 DEF Node!Next, Commands
  <2>2. CASE UNCHANGED node_vars
    BY <2>2 DEF node_vars, Node!vars, Node!faults
  <2>3. CASE Drive \/ Tick
    BY <2>3 DEF Drive, Tick, Node!Next
  <2> QED
    BY <1>2, <2>1, <2>2, <2>3 DEF Next, vars, Scan, Order, Decide, Publish, GateDies
<1>3. ASSUME [Next]_vars PROVE [Gate!Next]_(Gate!vars)
  <2>1. ASSUME NEW ranges \in Scans, Scan(ranges) PROVE Gate!Next
    BY <2>1, ScanAssumption DEF Scan, Gate!Next
  <2>2. CASE UNCHANGED gate_vars
    BY <2>2 DEF gate_vars, Gate!vars
  <2>3. CASE Decide \/ Publish \/ \E cmd \in Cmds : Order(cmd)
    BY <2>3 DEF Decide, Publish, Order, Gate!Next, Gate!update
  <2> QED
    BY <1>3, <2>1, <2>2, <2>3 DEF Next, vars, Drive, Tick, GateDies
<1>4. Spec => []GateTypes
  <2>1. ChainInv => GateTypes
    BY DEF ChainInv
  <2> QED
    BY <2>1, ChainStarts, ChainSteps, PTL DEF Spec
<1> QED
  BY <1>1, <1>2, <1>3, <1>4, PTL DEF Spec, Gate!Spec, Node!Spec
=============================================================================
