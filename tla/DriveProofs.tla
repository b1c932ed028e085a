----------------------------- MODULE DriveProofs -----------------------------
(***************************************************************************)
(* Proofs about the two ends of the drive: SafeTeleop, the gate a command  *)
(* passes on its way to the wheels, for any number of slots, any readings  *)
(* and any set of commands (the type invariant, the safety of the gate,    *)
(* the cause of a stop and the fate of a command that was stopped), and    *)
(* EncoderOdometry, what is made of the counts that come back, for any     *)
(* width of the counts, filter step, reach of the wheels, version string   *)
(* and number of faults and turns.                                         *)
(***************************************************************************)
EXTENDS SafeTeleop, EncoderOdometry, TLAPS

-----------------------------------------------------------------------------
(* SafeTeleop.                                                             *)

LEMMA SlotZero == 0 \in Slot
BY SlotAssumption DEF Slot

LEMMA InitType == GateInit => GateTypeOK
BY SlotZero, ReadingAssumption DEF GateInit, GateTypeOK, Twists

LEMMA NextType == GateTypeOK /\ [GateNext]_gate_vars => GateTypeOK'
<1> SUFFICES ASSUME GateTypeOK, [GateNext]_gate_vars PROVE GateTypeOK'
  OBVIOUS
<1> USE DEF GateTypeOK, causes
<1>1. ASSUME NEW k \in Slot, NEW range \in Readings, us_cb(k, range)
      PROVE  GateTypeOK'
  BY <1>1 DEF us_cb
<1>2. ASSUME NEW k \in Slot, NEW range \in Readings, ir_cb(k, range)
      PROVE  GateTypeOK'
  <2>1. IrSlot(k) \in Slot
    BY SlotAssumption DEF IrSlot, Slot
  <2> QED BY <1>2, <2>1 DEF ir_cb
<1>3. ASSUME NEW cmd \in Cmds, cmd_vel_cb(cmd)
      PROVE  GateTypeOK'
  BY <1>3 DEF cmd_vel_cb, sensors, Twists
<1>4. CASE Wake
  BY <1>4, SlotZero DEF Wake, Goto, sensors
<1>5. CASE Compare
  BY <1>5 DEF Compare, Goto, sensors
<1>6. CASE Combine
  BY <1>6, SlotZero DEF Combine, sensors
<1>7. CASE Decide
  <2>1. safe_drive' \in BOOLEAN /\ pc' \in {"pass", "test"}
    BY <1>7 DEF Decide
  <2> QED BY <1>7, <2>1 DEF Decide, sensors
<1>8. CASE TestReverse
  BY <1>8 DEF TestReverse, Goto, sensors
<1>9. CASE Pass
  BY <1>9 DEF Pass, sensors
<1>10. CASE StopForward
  BY <1>10 DEF StopForward, Goto, sensors, Twists
<1>11. CASE Publish
  BY <1>11 DEF Publish, Goto, sensors
<1>12. CASE UNCHANGED gate_vars
  BY <1>12 DEF gate_vars
<1> QED
  BY <1>1, <1>2, <1>3, <1>4, <1>5, <1>6, <1>7, <1>8, <1>9, <1>10, <1>11, <1>12
     DEF GateNext, update

(* The lists, the flags and the commands always hold values of their types *)
(* and the loop index stays within the slots.                              *)
THEOREM TypeCorrect == GateSpec => []GateTypeOK
BY InitType, NextType, PTL DEF GateSpec

-----------------------------------------------------------------------------
(***************************************************************************)
(* The gate.  GateHolds speaks of the last step of a cycle only; the       *)
(* invariant below says what each earlier step has established about the   *)
(* slots that have been blocked since the cycle began.                     *)
(***************************************************************************)

(* A blocked slot is blocked by what its lists hold now.                   *)
BlockedNow ==
  pc # "sleep" => \A i \in blocked : Obstructs(us_list[i], ir_list[i])

(* The slots already combined show the obstruction, and a blocked slot     *)
(* never takes its ultrasound reading.                                     *)
Combining ==
  /\ pc \in {"compare", "use_ir", "use_us"} =>
       \A i \in blocked : i < item => combined_list[i] < THRESHOLD
  /\ pc = "use_us" => item \notin blocked
  /\ pc = "decide" => \A i \in blocked : combined_list[i] < THRESHOLD

(* The command is passed unseen only when no slot was blocked; after the   *)
(* test of line 99 it is known to reverse, unless it was replaced.         *)
Deciding ==
  /\ pc = "pass" => blocked = {}
  /\ pc = "reverse" /\ ~raced => cmd_in.x < 0

GateInv == GateTypeOK /\ BlockedNow /\ Combining /\ Deciding /\ GateHolds

LEMMA InitGate == GateInit => GateInv
BY InitType DEF GateInit, GateInv, BlockedNow, Combining, Deciding, GateHolds

LEMMA NextGate == GateInv /\ [GateNext]_gate_vars => GateInv'
<1> SUFFICES ASSUME GateInv, [GateNext]_gate_vars
             PROVE  (BlockedNow /\ Combining /\ Deciding /\ GateHolds)'
  BY NextType DEF GateInv
<1> USE DEF GateInv, BlockedNow, Combining, Deciding, GateHolds
<1>0. GateTypeOK'
  BY NextType
<1>1. ASSUME NEW k \in Slot, NEW range \in Readings, us_cb(k, range)
      PROVE  (BlockedNow /\ Combining /\ Deciding /\ GateHolds)'
  <2>1. blocked' \subseteq blocked
    BY <1>1 DEF us_cb
  <2>2. \A i \in blocked' : i # k \/ Obstructs(range, ir_list[k])
    BY <1>1 DEF us_cb
  <2>3. BlockedNow'
    BY <1>1, <2>1, <2>2 DEF us_cb, GateTypeOK
  <2> QED BY <1>1, <2>1, <2>3 DEF us_cb
<1>2. ASSUME NEW k \in Slot, NEW range \in Readings, ir_cb(k, range)
      PROVE  (BlockedNow /\ Combining /\ Deciding /\ GateHolds)'
  <2> DEFINE s == IrSlot(k)
  <2>0. s \in Slot
    BY SlotAssumption DEF IrSlot, Slot
  <2>1. blocked' \subseteq blocked
    BY <1>2 DEF ir_cb
  <2>2. \A i \in blocked' : i # s \/ Obstructs(us_list[s], range)
    BY <1>2 DEF ir_cb
  <2>3. BlockedNow'
    BY <1>2, <2>0, <2>1, <2>2 DEF ir_cb, GateTypeOK
  <2> QED BY <1>2, <2>1, <2>3 DEF ir_cb
<1>3. ASSUME NEW cmd \in Cmds, cmd_vel_cb(cmd)
      PROVE  (BlockedNow /\ Combining /\ Deciding /\ GateHolds)'
  BY <1>3 DEF cmd_vel_cb, sensors
<1>4. CASE Wake
  <2>1. \A i \in blocked' : Obstructs(us_list[i], ir_list[i])
    BY <1>4 DEF Wake
  <2>2. \A i \in blocked' : ~ (i < item')
    BY <1>4 DEF Wake, Slot
  <2> QED BY <1>4, <2>1, <2>2 DEF Wake, Goto, sensors
<1>5. CASE Compare
  BY <1>5 DEF Compare, Goto, sensors, Obstructs
<1>6. CASE Combine
  <2>1. item \in blocked => combined_list'[item] < THRESHOLD
    BY <1>6 DEF Combine, Obstructs, GateTypeOK
  <2>2. \A i \in blocked : i < item => combined_list'[i] < THRESHOLD
    BY <1>6, SlotAssumption DEF Combine, GateTypeOK, Slot
  <2>3. \A i \in blocked : i <= item => combined_list'[i] < THRESHOLD
    BY <2>1, <2>2 DEF GateTypeOK, Slot
  <2>4. CASE item + 1 \in Slot
    <3>1. \A i \in blocked : i < item' => i <= item
      BY <1>6, <2>4, SlotAssumption DEF Combine, GateTypeOK, Slot
    <3> QED BY <1>6, <2>3, <2>4, <3>1 DEF Combine, sensors
  <2>5. CASE item + 1 \notin Slot
    <3>1. \A i \in blocked : i <= item
      BY <2>5, SlotAssumption DEF GateTypeOK, Slot
    <3> QED BY <1>6, <2>3, <2>5, <3>1 DEF Combine, sensors
  <2> QED BY <2>4, <2>5
<1>7. CASE Decide
  <2>1. ASSUME NEW i \in blocked
        PROVE  i \in Slot /\ ~ (combined_list[i] >= THRESHOLD)
    <3>1. combined_list[i] \in Nat /\ combined_list[i] < THRESHOLD
      BY <1>7, ReadingAssumption DEF Decide, GateTypeOK
    <3> QED BY <3>1 DEF GateTypeOK, THRESHOLD
  <2>2. safe_drive' => blocked = {}
    BY <1>7, <2>1 DEF Decide
  <2> QED BY <1>7, <2>2 DEF Decide, sensors
<1>8. CASE TestReverse
  BY <1>8 DEF TestReverse, Goto, sensors
<1>9. CASE Pass
  BY <1>9 DEF Pass, sensors
<1>10. CASE StopForward
  BY <1>10 DEF StopForward, Goto, sensors
<1>11. CASE Publish
  BY <1>11 DEF Publish, Goto, sensors
<1>12. CASE UNCHANGED gate_vars
  BY <1>12 DEF gate_vars
<1> QED
  BY <1>1, <1>2, <1>3, <1>4, <1>5, <1>6, <1>7, <1>8, <1>9, <1>10, <1>11, <1>12
     DEF GateNext, update

(* The gate holds whatever the sensors report and the operator sends: an   *)
(* obstacle reported during a whole cycle keeps update() from publishing   *)
(* a forward command, but for the race between lines 99 and 100.           *)
THEOREM GateIsSafe == GateSpec => []GateHolds
<1>1. GateInv => GateHolds
  BY DEF GateInv
<1> QED BY InitGate, NextGate, <1>1, PTL DEF GateSpec

-----------------------------------------------------------------------------
(***************************************************************************)
(* The cause of a stop.  Until a reading is torn the branch that line 77   *)
(* chose agrees with the ultrasound reading, so that a slot is combined    *)
(* below THRESHOLD only while both its sensors report an obstacle.         *)
(***************************************************************************)

Cause ==
  /\ pc # "sleep" => \A i \in Slot : Obstructs(us_list[i], ir_list[i]) => seen
  /\ pc = "use_ir" /\ ~torn => us_list[item] < TOP_LIMIT
  /\ pc = "use_us" /\ ~torn => ~ (us_list[item] < TOP_LIMIT)
  /\ pc \in {"compare", "use_ir", "use_us"} /\ ~torn /\ ~seen =>
       \A i \in Slot : i < item => combined_list[i] >= THRESHOLD
  /\ pc = "decide" /\ ~torn /\ ~seen =>
       \A i \in Slot : combined_list[i] >= THRESHOLD
  /\ pc \notin {"sleep", "compare", "use_ir", "use_us", "decide"} /\ ~torn /\ ~seen =>
       safe_drive

LEMMA InitCause == GateInit => Cause
BY DEF GateInit, Cause

LEMMA NextCause == GateTypeOK /\ Cause /\ [GateNext]_gate_vars => Cause'
<1> SUFFICES ASSUME GateTypeOK, Cause, [GateNext]_gate_vars PROVE Cause'
  OBVIOUS
<1> USE DEF Cause, causes, sensors
<1>1. ASSUME NEW k \in Slot, NEW range \in Readings, us_cb(k, range)
      PROVE  Cause'
  <2>1. /\ us_list' = [us_list EXCEPT ![k] = range]
        /\ seen' <=> seen \/ Obstructs(range, ir_list[k])
        /\ torn' <=> torn \/ Tears(k, range)
        /\ UNCHANGED <<ir_list, combined_list, safe_drive, pc, item>>
    BY <1>1 DEF us_cb
  <2>2. ASSUME pc # "sleep", NEW i \in Slot, Obstructs(us_list'[i], ir_list[i])
        PROVE  seen'
    BY <2>1, <2>2 DEF GateTypeOK
  <2>3. ASSUME pc \in {"use_ir", "use_us"}, ~torn'
        PROVE  (us_list'[item] < TOP_LIMIT) <=> (us_list[item] < TOP_LIMIT)
    <3>1. CASE item = k
      BY <2>1, <2>3, <3>1 DEF Tears, GateTypeOK
    <3>2. CASE item # k
      BY <2>1, <3>2 DEF GateTypeOK
    <3> QED BY <3>1, <3>2
  <2> QED BY <2>1, <2>2, <2>3
<1>2. ASSUME NEW k \in Slot, NEW range \in Readings, ir_cb(k, range)
      PROVE  Cause'
  <2> DEFINE n == IrSlot(k)
  <2>1. /\ ir_list' = [ir_list EXCEPT ![n] = range]
        /\ seen' <=> seen \/ Obstructs(us_list[n], range)
        /\ UNCHANGED <<us_list, combined_list, safe_drive, pc, item, torn>>
    BY <1>2 DEF ir_cb
  <2> HIDE DEF n
  <2>2. ASSUME pc # "sleep", NEW i \in Slot, Obstructs(us_list[i], ir_list'[i])
        PROVE  seen'
    BY <2>1, <2>2 DEF GateTypeOK
  <2> QED BY <2>1, <2>2
<1>3. ASSUME NEW cmd \in Cmds, cmd_vel_cb(cmd)
      PROVE  Cause'
  BY <1>3 DEF cmd_vel_cb
<1>4. CASE Wake
  <2>1. \A i \in Slot : Obstructs(us_list[i], ir_list[i]) => seen'
    BY <1>4 DEF Wake
  <2>2. \A i \in Slot : ~ (i < 0)
    BY DEF Slot
  <2> QED BY <1>4, <2>1, <2>2 DEF Wake, Goto
<1>5. CASE Compare
  BY <1>5 DEF Compare, Goto
<1>6. CASE Combine
  <2>1. ASSUME ~torn, ~seen PROVE combined_list'[item] >= THRESHOLD
    <3>1. /\ item \in Slot /\ us_list[item] \in Nat /\ ir_list[item] \in Nat
          /\ combined_list \in [Slot -> Readings]
      BY ReadingAssumption DEF GateTypeOK
    <3>2. ~ Obstructs(us_list[item], ir_list[item])
      BY <1>6, <2>1, <3>1 DEF Combine
    <3>3. CASE pc = "use_ir"
      BY <1>6, <2>1, <3>1, <3>2, <3>3 DEF Combine, Obstructs, THRESHOLD
    <3>4. CASE pc = "use_us"
      BY <1>6, <2>1, <3>1, <3>4 DEF Combine, TOP_LIMIT, THRESHOLD
    <3> QED BY <1>6, <3>3, <3>4 DEF Combine
  <2>2. ASSUME ~torn, ~seen, NEW i \in Slot, i <= item
        PROVE  combined_list'[i] >= THRESHOLD
    <3>1. CASE i = item
      BY <2>1, <2>2, <3>1
    <3>2. CASE i # item
      <4>1. i < item
        BY <2>2, <3>2 DEF GateTypeOK, Slot
      <4> QED BY <1>6, <2>2, <3>2, <4>1 DEF Combine, GateTypeOK
    <3> QED BY <3>1, <3>2
  <2>3. CASE item + 1 \in Slot
    <3>1. \A i \in Slot : i < item' => i <= item
      BY <1>6, <2>3, SlotAssumption DEF Combine, GateTypeOK, Slot
    <3> QED BY <1>6, <2>2, <2>3, <3>1 DEF Combine
  <2>4. CASE item + 1 \notin Slot
    <3>1. \A i \in Slot : i <= item
      BY <2>4, SlotAssumption DEF GateTypeOK, Slot
    <3> QED BY <1>6, <2>2, <2>4, <3>1 DEF Combine
  <2> QED BY <2>3, <2>4
<1>7. CASE Decide
  <2>1. ~torn /\ ~seen => safe_drive'
    BY <1>7 DEF Decide
  <2> QED BY <1>7, <2>1 DEF Decide
<1>8. CASE TestReverse
  BY <1>8 DEF TestReverse, Goto
<1>9. CASE Pass
  BY <1>9 DEF Pass
<1>10. CASE StopForward
  BY <1>10 DEF StopForward, Goto
<1>11. CASE Publish
  BY <1>11 DEF Publish, Goto
<1>12. CASE UNCHANGED gate_vars
  BY <1>12 DEF gate_vars
<1> QED
  BY <1>1, <1>2, <1>3, <1>4, <1>5, <1>6, <1>7, <1>8, <1>9, <1>10, <1>11, <1>12
     DEF GateNext, update

(* update() stops the robot only when some slot was obstructed at some     *)
(* moment of the cycle, or an ultrasound reading crossed TOP_LIMIT between *)
(* its two reads (lines 77 and 80).                                        *)
THEOREM StopsHaveCause == GateSpec => []StopHasCause
<1>1. Cause => StopHasCause
  BY DEF Cause, StopHasCause
<1> QED BY InitType, NextType, InitCause, NextCause, <1>1, PTL DEF GateSpec

-----------------------------------------------------------------------------
(***************************************************************************)
(* The fate of a command.  What becomes of it when it is stopped depends   *)
(* on whether cmd_out is another name of it: it is once the command has    *)
(* been passed, and not before.                                            *)
(***************************************************************************)

FateInv ==
  /\ fate = "new" => ~alias /\ cmd_in \in Cmds
  /\ fate = "passed" => alias
  /\ fate = "dead" => cmd_in = Stop /\ (pc = "publish" => cmd_out = Stop)

LEMMA InitFate == GateInit => FateInv
BY DEF GateInit, FateInv

LEMMA NextFate == GateTypeOK /\ FateInv /\ [GateNext]_gate_vars => FateInv'
<1> SUFFICES ASSUME GateTypeOK, FateInv, [GateNext]_gate_vars PROVE FateInv'
  OBVIOUS
<1> USE DEF FateInv
<1>1. ASSUME NEW k \in Slot, NEW range \in Readings, us_cb(k, range)
      PROVE  FateInv'
  BY <1>1 DEF us_cb
<1>2. ASSUME NEW k \in Slot, NEW range \in Readings, ir_cb(k, range)
      PROVE  FateInv'
  BY <1>2 DEF ir_cb
<1>3. ASSUME NEW cmd \in Cmds, cmd_vel_cb(cmd)
      PROVE  FateInv'
  BY <1>3 DEF cmd_vel_cb
<1>4. CASE Wake
  BY <1>4 DEF Wake, Goto
<1>5. CASE Compare
  BY <1>5 DEF Compare, Goto
<1>6. CASE Combine
  BY <1>6 DEF Combine
<1>7. CASE Decide
  <2>1. pc' # "publish" /\ UNCHANGED <<cmd_in, cmd_out, alias, fate>>
    BY <1>7 DEF Decide
  <2> QED BY <2>1
<1>8. CASE TestReverse
  BY <1>8 DEF TestReverse, Goto
<1>9. CASE Pass
  <2>1. alias' /\ cmd_out' = cmd_in /\ cmd_in' = cmd_in
    BY <1>9 DEF Pass
  <2>2. fate' # "new" /\ (fate' = "dead" => fate = "dead")
    BY <1>9 DEF Pass, GateTypeOK
  <2> QED BY <2>1, <2>2
<1>10. CASE StopForward
  <2>1. CASE fate = "new"
    <3>1. fate' = "new" /\ cmd_in' = cmd_in /\ alias' = alias
      BY <1>10, <2>1 DEF StopForward
    <3> QED BY <2>1, <3>1
  <2>2. CASE fate = "passed"
    <3>1. fate' = "dead" /\ cmd_in' = Stop /\ cmd_out' = Stop
      BY <1>10, <2>2 DEF StopForward
    <3> QED BY <3>1
  <2>3. CASE fate = "dead"
    <3>1. fate' = "dead" /\ cmd_in' = Stop /\ cmd_out' = Stop
      BY <1>10, <2>3 DEF StopForward
    <3> QED BY <3>1
  <2> QED BY <2>1, <2>2, <2>3 DEF GateTypeOK
<1>11. CASE Publish
  BY <1>11 DEF Publish, Goto
<1>12. CASE UNCHANGED gate_vars
  BY <1>12 DEF gate_vars
<1> QED
  BY <1>1, <1>2, <1>3, <1>4, <1>5, <1>6, <1>7, <1>8, <1>9, <1>10, <1>11, <1>12
     DEF GateNext, update

LEMMA Fates == GateSpec => []FateInv
BY InitType, NextType, InitFate, NextFate, PTL DEF GateSpec

(* Once update() has passed a command and then stopped it, the operator's  *)
(* own message is null: the robot stays put until a new command arrives,   *)
(* whatever the sensors report meanwhile.                                  *)
THEOREM StoppedIsDead == GateSpec => []StoppedCommandStaysDead
<1>1. FateInv => StoppedCommandStaysDead
  BY DEF FateInv, StoppedCommandStaysDead
<1> QED BY Fates, <1>1, PTL

(* A command that update() stopped before passing it is never altered: it  *)
(* is still the operator's when the way is clear.                          *)
THEOREM UnpassedIsKept == GateSpec => []UnpassedCommandKept
<1>1. FateInv => UnpassedCommandKept
  BY DEF FateInv, UnpassedCommandKept
<1> QED BY Fates, <1>1, PTL

-----------------------------------------------------------------------------
(* EncoderOdometry.                                                        *)

Early == {"firmware", "volts", "reset", "test_left", "test_right", "gate"}

(* Between two calls nothing is pending; in a call, its own request.       *)
OneRequest ==
  pending = "none" \/ (at \in DOMAIN Call /\ pending = Call[at])

(* What main() holds of a wheel is what the driver last returned for it,   *)
(* from the first pass of the gate on: the gate lets main() through only   *)
(* when both counts were 0, which is what raw starts with.                 *)
RawFollows ==
  /\ at \in Early => \A w \in Wheel : raw[w] = 0
  /\ at \in Early \ {"test_right", "gate"} => \A w \in Wheel : prev[w] = 0
  /\ at = "test_right" => raw_TEST[LEFT] = prev[LEFT] /\ prev[RIGHT] = 0
  /\ at = "gate" => \A w \in Wheel : raw_TEST[w] = prev[w]
  /\ at \notin Early => \A w \in Wheel : raw[w] = prev[w]

(* What a turn of the loop has added to each wheel so far.                 *)
StepSoFar ==
  /\ at = "left" => \A w \in Wheel : raw[w] = raw_prev[w]
  /\ at = "right" => raw[RIGHT] = raw_prev[RIGHT]
  /\ at \in {"right", "integrate"} => \A w \in Wheel : Within(Delta(w))

(* The rounding lost so far: in a turn, before its own.                    *)
DriftSoFar ==
  /\ at \in Early => travel = 0 /\ loops = 0
  /\ at \in {"shift", "battery"} =>
       Size(raw[RIGHT] + raw[LEFT] - 2 * travel) <= loops
  /\ at \in {"left", "right", "integrate"} =>
       Size(raw_prev[RIGHT] + raw_prev[LEFT] - 2 * travel) <= loops - 1

Faultless == late = 0 /\ lost = 0

(* Without faults the line holds the reply to the pending request and      *)
(* nothing else.                                                           *)
InStep ==
  Faultless =>
    IF pending = "none" THEN line = <<>>
    ELSE /\ Len(line) = Driver!Sent(pending)
         /\ \A i \in 1 .. Len(line) :
              /\ line[i].of = pending /\ line[i].at = i
              /\ pending \in Driver!Encoder =>
                   line[i].val = Driver!Wrap(sampled[Driver!WheelOf(pending)])

(* Without faults or leaps the driver holds the last sample of a wheel, or *)
(* one from which the filter accepts it while the reply is on the line.    *)
PrevFollows ==
  Faultless /\ ~leapt =>
    \A w \in Wheel :
      IF pending \in Driver!Encoder /\ w = Driver!WheelOf(pending)
      THEN ~ (Driver!Distance(Driver!Wrap(sampled[w]), prev[w]) > Jump)
      ELSE prev[w] = Driver!Wrap(sampled[w])

(* Once a read has come too early there is always at least a byte more on  *)
(* the line than the pending request asks for.                             *)
Surplus ==
  late > 0 /\ lost = 0 /\ ~drained =>
    IF pending = "none" THEN Len(line) >= 1
    ELSE Len(line) >= 1 + Driver!Sent(pending)

IInv ==
  /\ TypeOK /\ OneRequest /\ RawFollows /\ StepSoFar /\ DriftSoFar
  /\ InStep /\ PrevFollows /\ Surplus

-----------------------------------------------------------------------------
(* Counts.  tlapm knows of n % m what the first lemma says.                *)

LEMMA ModBounds ==
  ASSUME NEW n \in Int, NEW m \in Int, m > 0
  PROVE  /\ n % m \in 0 .. m - 1
         /\ n \in 0 .. m - 1 => n % m = n
OBVIOUS

LEMMA WrapType == \A n \in Int : Driver!Wrap(n) \in Driver!Count
BY ModBounds, CountAssumption DEF Driver!Wrap, Driver!Count

(* A count that fits the width is kept.                                    *)
LEMMA WrapFits ==
  ASSUME NEW n \in Driver!Count
  PROVE  Driver!Wrap(n) = n
<1>1. n \in Int /\ n + Half \in 0 .. 2 * Half - 1 /\ 2 * Half > 0
  BY CountAssumption DEF Driver!Count
<1>2. (n + Half) % (2 * Half) = n + Half
  BY <1>1, ModBounds, CountAssumption
<1> QED BY <1>1, <1>2, CountAssumption DEF Driver!Wrap

LEMMA CountsAreInts == Driver!Count \subseteq Int /\ 0 \in Driver!Count
BY CountAssumption DEF Driver!Count

(* A step the filter accepts is within its bound, and so is none.          *)
LEMMA AcceptedWithin ==
  ASSUME NEW v \in Driver!Count, NEW last \in Driver!Count,
         ~ (Driver!Distance(v, last) > Jump)
  PROVE  Within(v - last)
<1>1. v - last \in Int /\ Jump \in Nat /\ Half \in Nat
  BY CountsAreInts, CountAssumption
<1>2. CASE wide_abs
  BY <1>1, <1>2 DEF Driver!Distance, Within, Size, Driver!Magnitude
<1>3. CASE ~wide_abs
  <2> DEFINE z == Driver!Wrap(v - last)
  <2>1. z \in Int
    BY <1>1, WrapType, CountsAreInts
  <2>2. Driver!Distance(v, last)
          = IF z = -Half THEN -Half ELSE Driver!Magnitude(z)
    BY <1>3 DEF Driver!Distance
  <2> HIDE DEF z
  <2>3. z = -Half \/ Driver!Magnitude(z) <= Jump
    BY <1>1, <2>1, <2>2 DEF Driver!Magnitude
  <2> QED BY <1>3, <2>3 DEF Within, Size, z
<1> QED BY <1>2, <1>3

LEMMA NoneWithin == Within(0)
<1>1. 0 \in Driver!Count /\ Jump \in Nat
  BY CountsAreInts, CountAssumption
<1>2. Driver!Wrap(0) = 0
  BY <1>1, WrapFits
<1> QED BY <1>1, <1>2 DEF Within, Size, Driver!Magnitude

LEMMA HalvedTwice ==
  ASSUME NEW n \in Int
  PROVE  Halved(n) \in Int /\ Size(n - 2 * Halved(n)) <= 1
BY DEF Halved, Size, Driver!Magnitude
-----------------------------------------------------------------------------
(* The driver's steps.  DriverInv is the part of the invariant that names  *)
(* only the driver.                                                        *)

DriverInv == Driver!TypeOK /\ InStep /\ PrevFollows /\ Surplus

LEMMA Lengths ==
  /\ "none" \notin Driver!Request /\ Driver!Encoder \subseteq Driver!Request
  /\ \A req \in Driver!Request :
       /\ Driver!Sent(req) \in 1 .. 31 /\ Driver!Asked(req) \in 1 .. 32
       /\ Driver!Sent(req) <= Driver!Asked(req)
       /\ req # "firmware" => Driver!Sent(req) = Driver!Asked(req)
       /\ req \in Driver!Encoder => Driver!Sent(req) = 6
BY ReplyAssumption
   DEF Driver!Request, Driver!Encoder, Driver!Sent, Driver!Asked

LEMMA Wheels ==
  /\ Wheel = Driver!Wheel /\ Wheel = {RIGHT, LEFT} /\ RIGHT # LEFT
  /\ \A req : Driver!WheelOf(req) \in Wheel
  /\ Driver!WheelOf("enc_left") = LEFT /\ Driver!WheelOf("enc_right") = RIGHT
BY DEF Wheel, RIGHT, LEFT, Driver!Wheel, Driver!RIGHT, Driver!LEFT,
       Driver!WheelOf

LEMMA ReplyFacts ==
  ASSUME Driver!TypeOK, NEW req \in Driver!Request
  PROVE  /\ Driver!Reply(req) \in Seq(Driver!Byte)
         /\ Len(Driver!Reply(req)) = Driver!Sent(req)
         /\ \A i \in 1 .. Driver!Sent(req) :
              /\ Driver!Reply(req)[i].of = req /\ Driver!Reply(req)[i].at = i
              /\ req \in Driver!Encoder =>
                   Driver!Reply(req)[i].val
                     = Driver!Wrap(turned[Driver!WheelOf(req)])
<1> DEFINE v == IF req \in Driver!Encoder
                THEN Driver!Wrap(turned[Driver!WheelOf(req)]) ELSE 0
           n == Driver!Sent(req)
           r == [i \in 1 .. n |-> [of |-> req, at |-> i, val |-> v]]
<1>1. turned[Driver!WheelOf(req)] \in Int
  BY Wheels, CountAssumption DEF Driver!TypeOK
<1>2. v \in Driver!Count
  BY <1>1, WrapType, CountsAreInts
<1>3. n \in 1 .. 31
  BY Lengths
<1>4. Driver!Reply(req) = r
  BY DEF Driver!Reply
<1> HIDE DEF v, n
<1>5. \A i \in 1 .. n : r[i] \in Driver!Byte
  BY <1>2, <1>3 DEF Driver!Byte
<1>6. r \in Seq(Driver!Byte) /\ Len(r) = n
  BY <1>3, <1>5
<1>7. \A i \in 1 .. n : r[i].of = req /\ r[i].at = i /\ r[i].val = v
  OBVIOUS
<1> QED BY <1>4, <1>6, <1>7 DEF v, n

LEMMA Joined ==
  ASSUME NEW S, NEW p \in Seq(S), NEW q \in Seq(S)
  PROVE  p \o q \in Seq(S) /\ Len(p \o q) = Len(p) + Len(q) /\ Len(p) \in Nat
OBVIOUS

(* The bytes left after the first n have been taken.                       *)
LEMMA Rest ==
  ASSUME NEW S, NEW p \in Seq(S), NEW n \in 0 .. Len(p)
  PROVE  /\ SubSeq(p, n + 1, Len(p)) \in Seq(S)
         /\ Len(SubSeq(p, n + 1, Len(p))) = Len(p) - n
         /\ Len(p) \in Nat
OBVIOUS

LEMMA WriteStep ==
  ASSUME DriverInv, NEW req \in Driver!Request, Driver!Write(req)
  PROVE  /\ DriverInv' /\ pending' = req
         /\ prev' = prev /\ wide_abs' = wide_abs
<1> DEFINE w == Driver!WheelOf(req)
<1>0. /\ pending = "none" /\ pending' = req
      /\ turned' = turned /\ rx' = rx /\ prev' = prev /\ answer' = answer
      /\ drained' = drained /\ wide_abs' = wide_abs
  BY DEF Driver!Write
<1>1. /\ line \in Seq(Driver!Byte) /\ w \in Wheel /\ w \in Driver!Wheel
      /\ turned \in [Driver!Wheel -> Position]
      /\ sampled \in [Driver!Wheel -> Position]
      /\ late \in Nat /\ lost \in Nat
  BY Wheels, CountAssumption, FaultAssumption DEF DriverInv, Driver!TypeOK
<1>2. CASE /\ line' = line \o Driver!Reply(req)
           /\ IF req \in Driver!Encoder
              THEN /\ sampled' = [sampled EXCEPT ![w] = turned[w]]
                   /\ leapt' = (\/ leapt
                                \/ Driver!Distance(Driver!Wrap(turned[w]),
                                                   Driver!Wrap(sampled[w]))
                                     > Jump)
              ELSE sampled' = sampled /\ leapt' = leapt
           /\ late' = late /\ lost' = lost
  <2> DEFINE r == Driver!Reply(req)
  <2>1. r \in Seq(Driver!Byte) /\ Len(r) = Driver!Sent(req)
    BY ReplyFacts DEF DriverInv
  <2>2. \A i \in 1 .. Driver!Sent(req) :
          /\ r[i].of = req /\ r[i].at = i
          /\ req \in Driver!Encoder => r[i].val = Driver!Wrap(turned[w])
    BY ReplyFacts DEF DriverInv
  <2> HIDE DEF r
  <2>3. line' \in Seq(Driver!Byte) /\ Len(line') = Len(line) + Driver!Sent(req)
    <3>1. line' = line \o r
      BY <1>2 DEF r
    <3>2. line \o r \in Seq(Driver!Byte) /\ Len(line \o r) = Len(line) + Len(r)
      BY <1>1, <2>1, Joined
    <3> QED BY <2>1, <3>1, <3>2
  <2>4. sampled' \in [Driver!Wheel -> Position] /\ leapt' \in BOOLEAN
    BY <1>1, <1>2 DEF DriverInv, Driver!TypeOK
  <2>5. Driver!TypeOK'
    BY <1>0, <1>2, <2>3, <2>4 DEF DriverInv, Driver!TypeOK
  <2>6. InStep'
    <3> SUFFICES ASSUME Faultless'
                 PROVE  /\ Len(line') = Driver!Sent(req)
                        /\ \A i \in 1 .. Len(line') :
                             /\ line'[i].of = req /\ line'[i].at = i
                             /\ req \in Driver!Encoder =>
                                  line'[i].val = Driver!Wrap(sampled'[w])
      BY <1>0, Lengths DEF InStep, Faultless
    <3>1. line = <<>>
      BY <1>0, <1>2 DEF DriverInv, InStep, Faultless
    <3>2. line' = r
      BY <1>2, <2>1, <3>1 DEF r
    <3>3. req \in Driver!Encoder => sampled'[w] = turned[w]
      BY <1>1, <1>2
    <3> QED BY <2>1, <2>2, <3>2, <3>3
  <2>7. PrevFollows'
    <3> SUFFICES ASSUME Faultless', ~leapt', NEW u \in Wheel
                 PROVE  IF req \in Driver!Encoder /\ u = w
                        THEN ~ (Driver!Distance(Driver!Wrap(sampled'[u]),
                                                prev[u]) > Jump)
                        ELSE prev[u] = Driver!Wrap(sampled'[u])
      BY <1>0 DEF PrevFollows, Driver!Distance
    <3>1. ~leapt /\ Faultless
      BY <1>2 DEF Faultless, DriverInv, Driver!TypeOK
    <3>2. prev[u] = Driver!Wrap(sampled[u])
      BY <1>0, <3>1, Lengths DEF DriverInv, PrevFollows
    <3>3. CASE req \in Driver!Encoder /\ u = w
      <4>1. sampled'[u] = turned[u]
        BY <1>1, <1>2, <3>3
      <4>2. ~ (Driver!Distance(Driver!Wrap(turned[u]),
                               Driver!Wrap(sampled[u])) > Jump)
        BY <1>2, <3>3
      <4> QED BY <3>2, <3>3, <4>1, <4>2
    <3>4. CASE ~ (req \in Driver!Encoder /\ u = w)
      <4>1. sampled'[u] = sampled[u]
        BY <1>1, <1>2, <3>4, Wheels
      <4> QED BY <3>2, <3>4, <4>1
    <3> QED BY <3>3, <3>4
  <2>8. Surplus'
    <3> SUFFICES ASSUME late > 0, lost = 0, ~drained
                 PROVE  Len(line') >= 1 + Driver!Sent(req)
      BY <1>0, <1>2, Lengths DEF Surplus
    <3>1. Len(line) >= 1
      BY <1>0 DEF DriverInv, Surplus
    <3>2. Driver!Sent(req) \in Nat
      BY Lengths
    <3>3. Len(line) \in Nat
      BY <1>1, Joined
    <3> QED BY <2>3, <3>1, <3>2, <3>3
  <2> QED BY <1>0, <2>5, <2>6, <2>7, <2>8 DEF DriverInv
<1>3. CASE /\ lost < MaxLost /\ lost' = lost + 1
           /\ line' = line /\ sampled' = sampled /\ leapt' = leapt
           /\ late' = late
  <2>1. lost' \in 0 .. MaxLost /\ lost' # 0
    BY <1>1, <1>3, FaultAssumption
  <2>2. Driver!TypeOK'
    BY <1>0, <1>3, <2>1 DEF DriverInv, Driver!TypeOK
  <2>3. InStep' /\ PrevFollows' /\ Surplus'
    BY <2>1 DEF InStep, PrevFollows, Surplus, Faultless
  <2> QED BY <1>0, <2>2, <2>3 DEF DriverInv
<1> QED BY <1>2, <1>3 DEF Driver!Write, Driver!faults

LEMMA TakeStep ==
  ASSUME DriverInv, pending \in Driver!Request,
         NEW n \in 0 .. Driver!Available(pending), Driver!Take(n)
  PROVE  /\ pending' = "none" /\ n <= Len(line)
         /\ line' \in Seq(Driver!Byte) /\ rx' \in [1 .. 4 -> Driver!Byte]
         /\ late' \in 0 .. MaxLate /\ drained' \in BOOLEAN
         /\ Faultless' => Faultless /\ n = Len(line)
         /\ InStep' /\ Surplus'
<1> DEFINE all == Driver!Available(pending)
<1>1. /\ line \in Seq(Driver!Byte) /\ rx \in [1 .. 4 -> Driver!Byte]
      /\ late \in 0 .. MaxLate /\ lost \in 0 .. MaxLost /\ MaxLate \in Nat
      /\ MaxLost \in Nat /\ drained \in BOOLEAN
  BY FaultAssumption DEF DriverInv, Driver!TypeOK
<1>2. /\ line' = SubSeq(line, n + 1, Len(line)) /\ rx' = Driver!Fill(n)
      /\ late' = (IF n < all THEN late + 1 ELSE late) /\ late' <= MaxLate
      /\ drained' = (n = all /\ (drained \/ pending = "firmware"))
      /\ pending' = "none" /\ lost' = lost
  BY DEF Driver!Take
<1>3. Len(line) \in Nat
  BY <1>1, Joined
<1>4. Driver!Asked(pending) \in Nat /\ Driver!Sent(pending) \in Nat
  BY Lengths
<1>5. /\ all \in Nat /\ all <= Len(line)
      /\ all = Len(line) \/ all = Driver!Asked(pending)
      /\ Len(line) > Driver!Asked(pending) => all = Driver!Asked(pending)
      /\ Len(line) <= Driver!Asked(pending) => all = Len(line)
  BY <1>3, <1>4 DEF Driver!Available
<1> HIDE DEF all
<1>6. n \in Nat /\ n <= all /\ n <= Len(line) /\ n \in 0 .. Len(line)
  BY <1>3, <1>5 DEF all
<1>7. line' \in Seq(Driver!Byte) /\ Len(line') = Len(line) - n
  BY <1>1, <1>2, <1>6, Rest
<1>8. rx' \in [1 .. 4 -> Driver!Byte]
  <2>1. \A i \in 1 .. 4 : i <= n => line[i] \in Driver!Byte
    BY <1>1, <1>3, <1>6
  <2> QED BY <1>1, <1>2, <2>1 DEF Driver!Fill
<1>9. late' \in 0 .. MaxLate /\ (late' = 0 => late = 0 /\ n = all)
  BY <1>1, <1>2, <1>5, <1>6
<1>10. Faultless' => Faultless /\ n = Len(line)
  <2> SUFFICES ASSUME Faultless' PROVE Faultless /\ n = Len(line)
    OBVIOUS
  <2>1. Faultless /\ n = all
    BY <1>2, <1>9 DEF Faultless
  <2>2. Len(line) = Driver!Sent(pending)
    BY <2>1, Lengths DEF DriverInv, InStep
  <2>3. Driver!Sent(pending) <= Driver!Asked(pending)
    BY Lengths
  <2> QED BY <1>5, <2>1, <2>2, <2>3
<1>11. InStep'
  <2> SUFFICES ASSUME Faultless' PROVE line' = <<>>
    BY <1>2 DEF InStep, Faultless
  <2>1. Len(line') = 0
    BY <1>3, <1>7, <1>10
  <2> QED BY <1>7, <2>1
<1>12. Surplus'
  <2> SUFFICES ASSUME late' > 0, lost = 0, ~drained'
               PROVE  Len(line') >= 1
    BY <1>2 DEF Surplus
  <2>1. CASE n < all
    BY <1>3, <1>5, <1>6, <1>7, <2>1
  <2>2. CASE n = all
    <3>1. ~drained /\ pending # "firmware" /\ late > 0
      <4>1. ~drained /\ pending # "firmware"
        BY <1>2, <2>2, Zenon
      <4>2. late' = late
        BY <1>2, <1>5, <2>2
      <4> QED BY <4>1, <4>2
    <3>2. Len(line) >= 1 + Driver!Sent(pending)
      BY <3>1, Lengths DEF DriverInv, Surplus
    <3>3. Driver!Sent(pending) = Driver!Asked(pending)
      BY <3>1, Lengths
    <3> QED BY <1>3, <1>4, <1>5, <1>7, <2>2, <3>2, <3>3
  <2> QED BY <1>5, <1>6, <2>1, <2>2
<1>13. drained' \in BOOLEAN
  BY <1>2
<1> QED BY <1>2, <1>6, <1>7, <1>8, <1>9, <1>10, <1>11, <1>12, <1>13

LEMMA DecodeType ==
  ASSUME NEW bytes \in [1 .. 4 -> Driver!Byte]
  PROVE  Driver!Decode(bytes) \in SUBSET Driver!Count
BY DEF Driver!Decode, Driver!Byte

(* A read returns for its wheel the old count or one the filter accepted,  *)
(* and leaves the other wheel's alone.                                     *)
LEMMA ReadStep ==
  ASSUME DriverInv, Driver!Read
  PROVE  /\ DriverInv' /\ pending \in Driver!Request /\ pending' = "none"
         /\ \A w \in Wheel :
              \/ pending \in Driver!Encoder /\ w = Driver!WheelOf(pending)
              \/ prev'[w] = prev[w]
         /\ \A w \in Wheel : Within(prev'[w] - prev[w])
         /\ wide_abs' = wide_abs
<1>1. PICK n \in 0 .. Driver!Available(pending) :
        \/ Driver!ReadEncoder(n) \/ Driver!ReadOther(n)
        \/ Driver!read_firmware(n)
  BY DEF Driver!Read
<1>2. pending \in Driver!Request /\ Driver!Take(n)
  BY <1>1 DEF Driver!ReadEncoder, Driver!ReadOther, Driver!read_firmware,
              Driver!Request, Driver!Encoder
<1>3. /\ pending' = "none" /\ n <= Len(line)
      /\ line' \in Seq(Driver!Byte) /\ rx' \in [1 .. 4 -> Driver!Byte]
      /\ late' \in 0 .. MaxLate /\ drained' \in BOOLEAN
      /\ Faultless' => Faultless /\ n = Len(line)
      /\ InStep' /\ Surplus'
  BY <1>2, TakeStep
<1>4. /\ turned' = turned /\ sampled' = sampled /\ leapt' = leapt
      /\ lost' = lost /\ rx' = Driver!Fill(n) /\ wide_abs' = wide_abs
  BY <1>2 DEF Driver!Take
<1>5. /\ prev \in [Driver!Wheel -> Driver!Count]
      /\ sampled \in [Driver!Wheel -> Position]
      /\ answer \in {"none", "true", "zero", "wrong"} /\ wide_abs \in BOOLEAN
  BY DEF DriverInv, Driver!TypeOK
<1>6. CASE Driver!ReadOther(n) \/ Driver!read_firmware(n)
  <2>1. prev' = prev /\ answer' \in {"none", "true", "zero", "wrong"}
        /\ pending \notin Driver!Encoder
    BY <1>5, <1>6
       DEF Driver!ReadOther, Driver!read_firmware, Driver!Encoder
  <2>2. Driver!TypeOK'
    BY <1>3, <1>4, <2>1 DEF DriverInv, Driver!TypeOK
  <2>3. PrevFollows'
    BY <1>3, <1>4, <2>1, Lengths DEF DriverInv, PrevFollows
  <2>4. \A w \in Wheel : Within(prev'[w] - prev[w])
    <3> SUFFICES ASSUME NEW w \in Wheel PROVE Within(prev'[w] - prev[w])
      OBVIOUS
    <3>1. prev[w] \in Int /\ prev'[w] = prev[w]
      BY <1>5, <2>1, Wheels, CountsAreInts
    <3>2. prev'[w] - prev[w] = 0
      BY <3>1
    <3> QED BY <3>2, NoneWithin
  <2> QED BY <1>2, <1>3, <1>4, <2>1, <2>2, <2>3, <2>4 DEF DriverInv
<1>7. CASE Driver!ReadEncoder(n)
  <2> DEFINE w == Driver!WheelOf(pending)
  <2>1. w \in Wheel /\ w \in Driver!Wheel /\ pending \in Driver!Encoder
        /\ answer' = answer
    BY <1>7, Wheels DEF Driver!ReadEncoder
  <2>2. PICK v \in Driver!Decode(rx') :
          prev' = IF Driver!Distance(v, prev[w]) > Jump THEN prev
                  ELSE [prev EXCEPT ![w] = v]
    BY <1>7 DEF Driver!ReadEncoder
  <2>3. v \in Driver!Count /\ v \in Int
    BY <1>3, <2>2, DecodeType, CountsAreInts
  <2> HIDE DEF w
  <2>4. prev' \in [Driver!Wheel -> Driver!Count]
    BY <1>5, <2>1, <2>2, <2>3
  <2>5. Driver!TypeOK'
    BY <1>3, <1>4, <2>1, <2>4 DEF DriverInv, Driver!TypeOK
  <2>6. \A u \in Wheel : u # w => prev'[u] = prev[u]
    BY <1>5, <2>1, <2>2, Wheels
  <2>7. ASSUME NEW u \in Wheel PROVE Within(prev'[u] - prev[u])
    <3>1. prev[u] \in Driver!Count /\ prev[u] \in Int /\ u \in Driver!Wheel
      BY <1>5, Wheels, CountsAreInts
    <3>2. CASE prev'[u] = prev[u]
      <4>1. prev'[u] - prev[u] = 0
        BY <3>1, <3>2
      <4> QED BY <4>1, NoneWithin
    <3>3. CASE prev'[u] # prev[u]
      <4>1. u = w /\ ~ (Driver!Distance(v, prev[u]) > Jump) /\ prev'[u] = v
        BY <1>5, <2>1, <2>2, <2>6, <3>1, <3>3
      <4> QED BY <2>3, <3>1, <4>1, AcceptedWithin
    <3> QED BY <3>2, <3>3
  <2>8. PrevFollows'
    <3> SUFFICES ASSUME Faultless', ~leapt, NEW u \in Wheel
                 PROVE  prev'[u] = Driver!Wrap(sampled[u])
      BY <1>3, <1>4, Lengths DEF PrevFollows
    <3>1. Faultless /\ n = Len(line)
      BY <1>3
    <3>2. CASE u # w
      BY <2>6, <3>1, <3>2 DEF DriverInv, PrevFollows, w
    <3>3. CASE u = w
      <4>1. ~ (Driver!Distance(Driver!Wrap(sampled[w]), prev[w]) > Jump)
        BY <2>1, <3>1 DEF DriverInv, PrevFollows, w
      <4>2. /\ Len(line) = 6
            /\ \A i \in 1 .. Len(line) :
                 /\ line[i].of = pending /\ line[i].at = i
                 /\ line[i].val = Driver!Wrap(sampled[w])
        BY <1>2, <2>1, <3>1, Lengths DEF DriverInv, InStep, w
      <4>3. \A i \in 1 .. 4 : rx'[i] = line[i] /\ i \in 1 .. Len(line)
        BY <1>4, <3>1, <4>2 DEF Driver!Fill
      <4>4. Driver!Decode(rx') = {Driver!Wrap(sampled[w])}
        BY <2>1, <4>2, <4>3 DEF Driver!Decode, Driver!HeadOfReply
      <4>5. v = Driver!Wrap(sampled[w])
        BY <2>2, <4>4
      <4>6. ~ (Driver!Distance(v, prev[w]) > Jump)
        BY <4>1, <4>5
      <4> QED BY <1>5, <2>1, <2>2, <3>3, <4>5, <4>6
    <3> QED BY <3>2, <3>3
  <2> QED BY <1>2, <1>3, <1>4, <2>1, <2>5, <2>6, <2>7, <2>8 DEF DriverInv, w
<1> QED BY <1>1, <1>6, <1>7

LEMMA TurnStep ==
  ASSUME DriverInv, NEW w \in Driver!Wheel, Driver!Turn(w)
  PROVE  /\ DriverInv' /\ pending' = pending
         /\ prev' = prev /\ wide_abs' = wide_abs
<1>1. /\ UNCHANGED <<line, rx, prev, pending, answer, wide_abs, sampled, leapt,
                     drained, late, lost>>
      /\ turned' \in [Driver!Wheel -> Int] /\ turned'[w] \in Position
      /\ \A u \in Driver!Wheel : u # w => turned'[u] = turned[u]
  BY CountAssumption
     DEF Driver!Turn, Driver!history, Driver!faults, DriverInv, Driver!TypeOK
<1>2. turned' \in [Driver!Wheel -> Position]
  BY <1>1 DEF DriverInv, Driver!TypeOK
<1>3. Driver!TypeOK'
  BY <1>1, <1>2 DEF DriverInv, Driver!TypeOK
<1> QED BY <1>1, <1>3
        DEF DriverInv, InStep, PrevFollows, Surplus, Faultless, Driver!Distance

LEMMA ResetStep ==
  ASSUME DriverInv, Driver!reset_encoders
  PROVE  /\ DriverInv' /\ pending = "none" /\ pending' = "none"
         /\ prev' = prev /\ wide_abs' = wide_abs
<1>1. /\ UNCHANGED <<line, rx, prev, pending, answer, wide_abs, sampled, leapt,
                     drained, late>>
      /\ pending = "none"
      /\ lost' = lost \/ (lost < MaxLost /\ lost' = lost + 1)
      /\ turned' = turned \/ turned' = [u \in Driver!Wheel |-> 0]
  BY DEF Driver!reset_encoders, Driver!history
<1>2. turned' \in [Driver!Wheel -> Position]
  BY <1>1, CountAssumption DEF DriverInv, Driver!TypeOK
<1>3. lost' \in 0 .. MaxLost /\ (lost' = 0 => lost = 0)
  BY <1>1, FaultAssumption DEF DriverInv, Driver!TypeOK
<1>4. Driver!TypeOK'
  BY <1>1, <1>2, <1>3 DEF DriverInv, Driver!TypeOK
<1> QED BY <1>1, <1>3, <1>4
        DEF DriverInv, InStep, PrevFollows, Surplus, Faultless, Driver!Distance
-----------------------------------------------------------------------------
(* The steps of main().                                                    *)

NodeType ==
  /\ at \in DOMAIN Call \cup {"reset", "gate", "shift", "integrate"}
  /\ raw \in [Wheel -> Driver!Count]
  /\ raw_prev \in [Wheel -> Driver!Count]
  /\ raw_TEST \in [Wheel -> Driver!Count]
  /\ travel \in Int
  /\ loops \in 0 .. MaxLoops

Progress == RawFollows /\ StepSoFar /\ DriftSoFar

LEMMA IInvParts == IInv <=> DriverInv /\ OneRequest /\ NodeType /\ Progress
BY DEF IInv, DriverInv, NodeType, Progress, TypeOK

LEMMA IInvNext == DriverInv' /\ OneRequest' /\ NodeType' /\ Progress' => IInv'
BY DEF IInv, DriverInv, NodeType, Progress, TypeOK

LEMMA Calls ==
  /\ DOMAIN Call = {"firmware", "volts", "test_left", "test_right", "left",
                    "right", "battery"}
  /\ \A c \in DOMAIN Call : Call[c] \in Driver!Request
  /\ Call["test_left"] = "enc_left" /\ Call["left"] = "enc_left"
  /\ Call["test_right"] = "enc_right" /\ Call["right"] = "enc_right"
  /\ Call["firmware"] \notin Driver!Encoder
  /\ Call["volts"] \notin Driver!Encoder
  /\ Call["battery"] \notin Driver!Encoder
BY DEF Call, Driver!Request, Driver!Encoder

LEMMA Initially == Init => IInv
<1> SUFFICES ASSUME Init PROVE IInv
  OBVIOUS
<1> USE DEF Init
<1>1. 0 \in Driver!Count /\ 0 \in Position /\ Driver!Junk \in Driver!Byte
  BY CountAssumption DEF Driver!Count, Driver!Junk, Driver!Byte
<1>2. /\ turned \in [Driver!Wheel -> Position] /\ line = <<>>
      /\ rx = [i \in 1 .. 4 |-> Driver!Junk]
      /\ prev = [w \in Driver!Wheel |-> 0]
      /\ pending = "none" /\ answer = "none"
      /\ sampled = [w \in Driver!Wheel |-> 0]
      /\ leapt = FALSE /\ drained = FALSE /\ late = 0 /\ lost = 0
      /\ wide_abs \in BOOLEAN
  BY DEF Driver!Init
<1>3. line \in Seq(Driver!Byte)
  BY <1>2
<1>4. Driver!TypeOK
  <2>1. "none" \in Driver!Request \cup {"none"}
    OBVIOUS
  <2>2. 0 \in 0 .. MaxLate /\ 0 \in 0 .. MaxLost
    BY FaultAssumption
  <2>3. prev \in [Driver!Wheel -> Driver!Count]
        /\ sampled \in [Driver!Wheel -> Position]
        /\ rx \in [1 .. 4 -> Driver!Byte]
    BY <1>1, <1>2
  <2> QED BY <1>2, <1>3, <2>1, <2>2, <2>3 DEF Driver!TypeOK
<1>5. Driver!Wrap(0) = 0
  BY <1>1, WrapFits
<1>6. InStep /\ Surplus
  BY <1>2 DEF InStep, Surplus
<1>7. PrevFollows
  BY <1>2, <1>5, Lengths, Wheels DEF PrevFollows
<1>8. NodeType
  BY <1>1, Calls, LoopAssumption DEF NodeType
<1>9. OneRequest
  BY <1>2 DEF OneRequest
<1>10. Progress
  BY <1>2, Wheels DEF Progress, RawFollows, StepSoFar, DriftSoFar, Early
<1> QED BY <1>4, <1>6, <1>7, <1>8, <1>9, <1>10, IInvParts DEF DriverInv

(* main()'s own part does not see the driver but through prev.             *)
LEMMA ProgressStays ==
  ASSUME Progress, at' = at, UNCHANGED node_vars, prev' = prev,
         wide_abs' = wide_abs
  PROVE  Progress'
BY DEF Progress, RawFollows, StepSoFar, DriftSoFar, node_vars, Delta, Within

LEMMA TurnKeeps ==
  ASSUME IInv, NEW w \in Wheel, Turn(w)
  PROVE  IInv'
<1>1. DriverInv' /\ pending' = pending /\ prev' = prev /\ wide_abs' = wide_abs
  BY TurnStep, IInvParts, Wheels DEF Turn
<1>2. at' = at /\ UNCHANGED node_vars
  BY DEF Turn
<1>3. Progress'
  BY <1>1, <1>2, ProgressStays, IInvParts
<1>4. NodeType' /\ OneRequest'
  BY <1>1, <1>2, IInvParts DEF NodeType, OneRequest, node_vars
<1> QED BY <1>1, <1>3, <1>4, IInvNext

LEMMA AskKeeps ==
  ASSUME IInv, Ask
  PROVE  IInv'
<1>1. at \in DOMAIN Call /\ Call[at] \in Driver!Request
  BY Calls DEF Ask
<1>2. DriverInv' /\ pending' = Call[at] /\ prev' = prev /\ wide_abs' = wide_abs
  BY <1>1, WriteStep, IInvParts DEF Ask
<1>3. at' = at /\ UNCHANGED node_vars
  BY DEF Ask
<1>4. Progress'
  BY <1>2, <1>3, ProgressStays, IInvParts
<1>5. NodeType' /\ OneRequest'
  BY <1>1, <1>2, <1>3, IInvParts DEF NodeType, OneRequest, node_vars
<1> QED BY <1>2, <1>4, <1>5, IInvNext

(* A read is that of the call main() is in, and changes no other wheel.    *)
LEMMA CallStep ==
  ASSUME IInv, Driver!Read
  PROVE  /\ DriverInv' /\ pending' = "none"
         /\ at \in DOMAIN Call
         /\ at \in {"firmware", "volts", "battery"} =>
              \A w \in Wheel : prev'[w] = prev[w]
         /\ at \in {"test_left", "left"} => prev'[RIGHT] = prev[RIGHT]
         /\ at \in {"test_right", "right"} => prev'[LEFT] = prev[LEFT]
         /\ \A w \in Wheel : prev'[w] \in Driver!Count
         /\ \A w \in Wheel : Within(prev'[w] - prev[w])
         /\ wide_abs' = wide_abs
<1>1. /\ DriverInv' /\ pending \in Driver!Request /\ pending' = "none"
      /\ \A w \in Wheel :
           \/ pending \in Driver!Encoder /\ w = Driver!WheelOf(pending)
           \/ prev'[w] = prev[w]
      /\ \A w \in Wheel : Within(prev'[w] - prev[w])
      /\ wide_abs' = wide_abs
  BY ReadStep, IInvParts
<1>2. at \in DOMAIN Call /\ pending = Call[at]
  BY <1>1, IInvParts, Lengths DEF OneRequest
<1>3. \A w \in Wheel : prev'[w] \in Driver!Count
  BY <1>1, Wheels DEF DriverInv, Driver!TypeOK
<1>4. at \in {"firmware", "volts", "battery"} =>
        \A w \in Wheel : prev'[w] = prev[w]
  BY <1>1, <1>2, Calls
<1>5. at \in {"test_left", "left"} => prev'[RIGHT] = prev[RIGHT]
  BY <1>1, <1>2, Calls, Wheels
<1>6. at \in {"test_right", "right"} => prev'[LEFT] = prev[LEFT]
  BY <1>1, <1>2, Calls, Wheels
<1> QED BY <1>1, <1>2, <1>3, <1>4, <1>5, <1>6

LEMMA GreetKeeps ==
  ASSUME IInv, Greet
  PROVE  IInv'
<1>1. /\ DriverInv' /\ pending' = "none"
      /\ \A w \in Wheel : prev'[w] = prev[w]
  BY CallStep DEF Greet
<1>2. /\ at \in {"firmware", "volts"} /\ at' \in {"volts", "reset"}
      /\ UNCHANGED <<raw, raw_prev, raw_TEST, travel, loops>>
  BY DEF Greet, node_vars
<1>3. NodeType' /\ OneRequest'
  BY <1>1, <1>2, IInvParts, Calls DEF NodeType, OneRequest
<1>4. Progress'
  BY <1>1, <1>2, IInvParts
     DEF Progress, RawFollows, StepSoFar, DriftSoFar, Early
<1> QED BY <1>1, <1>3, <1>4, IInvNext

LEMMA ResetKeeps ==
  ASSUME IInv, Reset
  PROVE  IInv'
<1>1. DriverInv' /\ pending' = "none" /\ prev' = prev /\ wide_abs' = wide_abs
  BY ResetStep, IInvParts DEF Reset
<1>2. /\ at = "reset" /\ at' = "test_left"
      /\ UNCHANGED <<raw, raw_prev, raw_TEST, travel, loops>>
  BY DEF Reset, node_vars
<1>3. NodeType' /\ OneRequest'
  BY <1>1, <1>2, IInvParts, Calls DEF NodeType, OneRequest
<1>4. Progress'
  BY <1>1, <1>2, IInvParts
     DEF Progress, RawFollows, StepSoFar, DriftSoFar, Early
<1> QED BY <1>1, <1>3, <1>4, IInvNext

LEMMA TestKeeps ==
  ASSUME IInv, Test
  PROVE  IInv'
<1> DEFINE w == IF at = "test_left" THEN LEFT ELSE RIGHT
<1>1. /\ at \in {"test_left", "test_right"} /\ Driver!Read
      /\ raw_TEST' = [raw_TEST EXCEPT ![w] = prev'[w]]
      /\ at' = IF at = "test_left" THEN "test_right" ELSE "gate"
      /\ UNCHANGED <<raw, raw_prev, travel, loops>>
  BY DEF Test
<1>2. /\ DriverInv' /\ pending' = "none"
      /\ at = "test_left" => prev'[RIGHT] = prev[RIGHT]
      /\ at = "test_right" => prev'[LEFT] = prev[LEFT]
      /\ \A u \in Wheel : prev'[u] \in Driver!Count
  BY <1>1, CallStep
<1>3. w \in Wheel /\ raw_TEST \in [Wheel -> Driver!Count]
  BY Wheels, IInvParts DEF NodeType
<1>4. raw_TEST' \in [Wheel -> Driver!Count]
  BY <1>1, <1>2, <1>3
<1>5. NodeType' /\ OneRequest'
  BY <1>1, <1>2, <1>4, IInvParts, Calls DEF NodeType, OneRequest
<1>6. RawFollows'
  <2>1. CASE at = "test_left"
    BY <1>1, <1>2, <1>3, <2>1, IInvParts, Wheels
       DEF Progress, RawFollows, Early
  <2>2. CASE at = "test_right"
    BY <1>1, <1>2, <1>3, <2>2, IInvParts, Wheels
       DEF Progress, RawFollows, Early
  <2> QED BY <1>1, <2>1, <2>2
<1>7. StepSoFar' /\ DriftSoFar'
  BY <1>1, IInvParts DEF Progress, StepSoFar, DriftSoFar, Early
<1> QED BY <1>2, <1>5, <1>6, <1>7, IInvNext DEF Progress

LEMMA GateKeeps ==
  ASSUME IInv, Gate
  PROVE  IInv'
<1>1. /\ at = "gate" /\ UNCHANGED <<raw, raw_prev, raw_TEST, travel, loops>>
  BY DEF Gate, node_vars
<1>2. CASE /\ \A w \in Wheel : raw_TEST[w] = 0
           /\ at' = "shift" /\ UNCHANGED driver_vars
  <2>1. DriverInv' /\ pending' = pending /\ prev' = prev /\ wide_abs' = wide_abs
    BY <1>2, IInvParts
       DEF driver_vars, DriverInv, Driver!TypeOK, InStep, PrevFollows,
           Surplus, Faultless, Driver!Distance
  <2>2. NodeType' /\ OneRequest'
    BY <1>1, <1>2, <2>1, IInvParts, Calls DEF NodeType, OneRequest
  <2>3. RawFollows'
    BY <1>1, <1>2, <2>1, IInvParts DEF Progress, RawFollows, Early
  <2>4. StepSoFar'
    BY <1>2 DEF StepSoFar
  <2>5. DriftSoFar'
    <3>1. raw[RIGHT] = 0 /\ raw[LEFT] = 0 /\ travel = 0 /\ loops = 0
      BY <1>1, IInvParts, Wheels DEF Progress, RawFollows, DriftSoFar, Early
    <3> QED BY <1>1, <1>2, <3>1
            DEF DriftSoFar, Size, Driver!Magnitude, Early
  <2> QED BY <2>1, <2>2, <2>3, <2>4, <2>5, IInvNext DEF Progress
<1>3. CASE at' = "gate" /\ Driver!reset_encoders
  <2>1. DriverInv' /\ pending' = "none" /\ prev' = prev /\ wide_abs' = wide_abs
    BY <1>3, ResetStep, IInvParts
  <2>2. NodeType' /\ OneRequest'
    BY <1>1, <1>3, <2>1, IInvParts, Calls DEF NodeType, OneRequest
  <2>3. Progress'
    BY <1>1, <1>3, <2>1, IInvParts, ProgressStays DEF node_vars
  <2> QED BY <2>1, <2>2, <2>3, IInvNext
<1> QED BY <1>2, <1>3 DEF Gate

LEMMA ShiftKeeps ==
  ASSUME IInv, Shift
  PROVE  IInv'
<1>1. /\ at = "shift" /\ at' = "left" /\ loops < MaxLoops
      /\ loops' = loops + 1 /\ raw_prev' = raw
      /\ UNCHANGED <<raw, raw_TEST, travel>> /\ UNCHANGED driver_vars
  BY DEF Shift
<1>2. DriverInv' /\ pending' = pending /\ prev' = prev /\ wide_abs' = wide_abs
  BY <1>1, IInvParts
     DEF driver_vars, DriverInv, Driver!TypeOK, InStep, PrevFollows,
         Surplus, Faultless, Driver!Distance
<1>3. NodeType' /\ OneRequest'
  BY <1>1, <1>2, IInvParts, Calls, LoopAssumption DEF NodeType, OneRequest
<1>4. RawFollows' /\ StepSoFar'
  BY <1>1, <1>2, IInvParts DEF Progress, RawFollows, StepSoFar, Early
<1>5. DriftSoFar'
  <2>1. loops \in Int /\ (loops + 1) - 1 = loops
    BY IInvParts DEF NodeType
  <2> QED BY <1>1, <2>1, IInvParts DEF Progress, DriftSoFar, Early
<1> QED BY <1>2, <1>3, <1>4, <1>5, IInvNext DEF Progress

LEMMA ReadWheelsKeeps ==
  ASSUME IInv, ReadWheels
  PROVE  IInv'
<1> DEFINE w == IF at = "left" THEN LEFT ELSE RIGHT
<1>1. /\ at \in {"left", "right"} /\ Driver!Read
      /\ raw' = [raw EXCEPT ![w] = prev'[w]]
      /\ at' = IF at = "left" THEN "right" ELSE "integrate"
      /\ UNCHANGED <<raw_prev, raw_TEST, travel, loops>>
  BY DEF ReadWheels
<1>2. /\ DriverInv' /\ pending' = "none"
      /\ at = "left" => prev'[RIGHT] = prev[RIGHT]
      /\ at = "right" => prev'[LEFT] = prev[LEFT]
      /\ \A u \in Wheel : prev'[u] \in Driver!Count
      /\ \A u \in Wheel : Within(prev'[u] - prev[u])
      /\ wide_abs' = wide_abs
  BY <1>1, CallStep
<1>3. /\ w \in Wheel /\ raw \in [Wheel -> Driver!Count]
      /\ raw_prev \in [Wheel -> Driver!Count]
      /\ \A u \in Wheel : raw[u] = prev[u]
  BY <1>1, Wheels, IInvParts DEF NodeType, Progress, RawFollows, Early
<1>4. raw' \in [Wheel -> Driver!Count]
  BY <1>1, <1>2, <1>3
<1>5. NodeType' /\ OneRequest'
  BY <1>1, <1>2, <1>4, IInvParts, Calls DEF NodeType, OneRequest
<1>6. \A u \in Wheel : raw'[u] = prev'[u]
  BY <1>1, <1>2, <1>3, Wheels
<1>7. RawFollows'
  BY <1>1, <1>6 DEF RawFollows, Early
<1>8. StepSoFar'
  <2>1. at' = "right" => raw'[RIGHT] = raw_prev'[RIGHT]
    BY <1>1, <1>3, IInvParts, Wheels DEF Progress, StepSoFar
  <2>2. ASSUME NEW u \in Wheel PROVE Within(raw'[u] - raw_prev[u])
    <3>1. raw'[u] \in Int /\ raw[u] \in Int /\ raw_prev[u] \in Int
      BY <1>3, <1>4, CountsAreInts
    <3>2. CASE u = w
      <4>1. raw[u] = raw_prev[u]
        BY <1>1, <3>2, IInvParts, Wheels DEF Progress, StepSoFar
      <4>2. Within(prev'[u] - prev[u]) /\ raw'[u] = prev'[u]
            /\ raw[u] = prev[u]
        BY <1>2, <1>3, <1>6
      <4> QED BY <4>1, <4>2
    <3>3. CASE u # w
      <4>1. raw'[u] = raw[u]
        BY <1>1, <1>3, <3>3
      <4>2. CASE at = "left"
        <5>1. raw[u] = raw_prev[u]
          BY <4>2, IInvParts DEF Progress, StepSoFar
        <5>2. raw'[u] - raw_prev[u] = 0
          BY <3>1, <4>1, <5>1
        <5> QED BY <5>2, NoneWithin
      <4>3. CASE at = "right"
        <5>1. Within(raw[u] - raw_prev[u])
          BY <4>3, IInvParts DEF Progress, StepSoFar, Delta
        <5> QED BY <4>1, <5>1
      <4> QED BY <1>1, <4>2, <4>3
    <3> QED BY <3>2, <3>3
  <2>3. at' # "left"
    BY <1>1
  <2>4. \A u \in Wheel : Within(Delta(u))'
    BY <1>1, <1>2, <2>2 DEF Delta, Within
  <2> QED BY <2>1, <2>3, <2>4 DEF StepSoFar
<1>9. DriftSoFar'
  BY <1>1, IInvParts DEF Progress, DriftSoFar, Early
<1> QED BY <1>2, <1>5, <1>7, <1>8, <1>9, IInvNext DEF Progress

LEMMA IntegrateKeeps ==
  ASSUME IInv, Integrate
  PROVE  IInv'
<1> DEFINE r == raw[RIGHT]
           l == raw[LEFT]
           rp == raw_prev[RIGHT]
           lp == raw_prev[LEFT]
           d == (r - rp) + (l - lp)
<1>1. /\ at = "integrate" /\ at' = "battery" /\ travel' = travel + Halved(d)
      /\ UNCHANGED <<raw, raw_prev, raw_TEST, loops>> /\ UNCHANGED driver_vars
  BY DEF Integrate, Delta
<1>2. DriverInv' /\ pending' = pending /\ prev' = prev /\ wide_abs' = wide_abs
  BY <1>1, IInvParts
     DEF driver_vars, DriverInv, Driver!TypeOK, InStep, PrevFollows,
         Surplus, Faultless, Driver!Distance
<1>3. /\ r \in Int /\ l \in Int /\ rp \in Int /\ lp \in Int /\ travel \in Int
      /\ loops \in Int
  <2>1. /\ raw[RIGHT] \in Driver!Count /\ raw[LEFT] \in Driver!Count
        /\ raw_prev[RIGHT] \in Driver!Count /\ raw_prev[LEFT] \in Driver!Count
        /\ travel \in Int /\ loops \in Int
    BY IInvParts, Wheels DEF NodeType
  <2> QED BY <2>1, CountsAreInts
<1>4. Size(rp + lp - 2 * travel) <= loops - 1
  BY <1>1, IInvParts DEF Progress, DriftSoFar
<1> HIDE DEF r, l, rp, lp
<1>5. d \in Int
  BY <1>3
<1>6. Halved(d) \in Int /\ Size(d - 2 * Halved(d)) <= 1
  BY <1>5, HalvedTwice
<1>7. travel' \in Int
  BY <1>1, <1>3, <1>6
<1>8. Size(r + l - 2 * travel') <= loops
  <2> DEFINE h == Halved(d)
  <2>1. h \in Int /\ Size(d - 2 * h) <= 1 /\ travel' = travel + h
    BY <1>1, <1>6
  <2> HIDE DEF h
  <2> QED BY <1>3, <1>4, <2>1 DEF Size, Driver!Magnitude
<1>9. NodeType' /\ OneRequest'
  BY <1>1, <1>2, <1>7, IInvParts, Calls DEF NodeType, OneRequest
<1>10. RawFollows' /\ StepSoFar'
  BY <1>1, <1>2, IInvParts DEF Progress, RawFollows, StepSoFar, Early
<1>11. DriftSoFar'
  BY <1>1, <1>8 DEF DriftSoFar, Early, r, l
<1> QED BY <1>2, <1>9, <1>10, <1>11, IInvNext DEF Progress

LEMMA BatteryKeeps ==
  ASSUME IInv, Battery
  PROVE  IInv'
<1>1. /\ at = "battery" /\ at' = "shift"
      /\ UNCHANGED <<raw, raw_prev, raw_TEST, travel, loops>>
  BY DEF Battery, node_vars
<1>2. /\ DriverInv' /\ pending' = "none"
      /\ \A w \in Wheel : prev'[w] = prev[w]
  BY <1>1, CallStep DEF Battery
<1>3. NodeType' /\ OneRequest'
  BY <1>1, <1>2, IInvParts, Calls DEF NodeType, OneRequest
<1>4. Progress'
  BY <1>1, <1>2, IInvParts
     DEF Progress, RawFollows, StepSoFar, DriftSoFar, Early
<1> QED BY <1>2, <1>3, <1>4, IInvNext
-----------------------------------------------------------------------------
LEMMA Inductive == IInv /\ [Next]_vars => IInv'
<1> SUFFICES ASSUME IInv, [Next]_vars PROVE IInv'
  OBVIOUS
<1>1. CASE Ask
  BY <1>1, AskKeeps
<1>2. CASE Greet
  BY <1>2, GreetKeeps
<1>3. CASE Reset
  BY <1>3, ResetKeeps
<1>4. CASE Test
  BY <1>4, TestKeeps
<1>5. CASE Gate
  BY <1>5, GateKeeps
<1>6. CASE Shift
  BY <1>6, ShiftKeeps
<1>7. CASE ReadWheels
  BY <1>7, ReadWheelsKeeps
<1>8. CASE Integrate
  BY <1>8, IntegrateKeeps
<1>9. CASE Battery
  BY <1>9, BatteryKeeps
<1>10. CASE \E w \in Wheel : Turn(w)
  BY <1>10, TurnKeeps
<1>11. CASE UNCHANGED vars
  <2>1. UNCHANGED driver_vars /\ at' = at /\ UNCHANGED node_vars
    BY <1>11 DEF vars
  <2>2. DriverInv' /\ pending' = pending /\ prev' = prev /\ wide_abs' = wide_abs
    BY <2>1, IInvParts
       DEF driver_vars, DriverInv, Driver!TypeOK, InStep, PrevFollows,
           Surplus, Faultless, Driver!Distance
  <2>3. Progress'
    BY <2>1, <2>2, ProgressStays, IInvParts
  <2>4. NodeType' /\ OneRequest'
    BY <2>1, <2>2, IInvParts DEF NodeType, OneRequest, node_vars
  <2> QED BY <2>2, <2>3, <2>4, IInvNext
<1> QED BY <1>1, <1>2, <1>3, <1>4, <1>5, <1>6, <1>7, <1>8, <1>9, <1>10, <1>11
        DEF Next, main

(* The invariant the three properties below follow from, with the types of *)
(* the node's and the driver's state.                                      *)
THEOREM OdometryInvariant == Spec => []IInv
BY Initially, Inductive, PTL DEF Spec

(* Whatever the serial line does - reads that come too early, lost         *)
(* requests, replies taken for those of the other wheel - a turn of the    *)
(* loop moves a wheel by no more than the filter of roboclaw.cpp:125 and   *)
(* 164 lets pass: Jump ticks with the abs() of a long long, and with that  *)
(* of an int Jump ticks in the width of an int or the most negative int.   *)
THEOREM StepsAreBounded == Spec => []StepBounded
<1>1. IInv => StepBounded
  BY DEF IInv, StepSoFar, StepBounded
<1> QED BY <1>1, OdometryInvariant, PTL

(* As long as no read came too early, no request was lost and the filter   *)
(* had no step to reject, the travel main() has integrated is half the sum *)
(* of the counts the board sent last, up to a tick per turn of the loop    *)
(* (minilab_node.cpp:139-188), with either abs(), for any width of the     *)
(* counts and any number of turns.                                         *)
THEOREM TravelIsTrue == Spec => []TravelTrue
<1>1. ASSUME IInv, late = 0, lost = 0, ~leapt, at = "shift", NEW w \in Wheel
      PROVE  raw[w] = Driver!Wrap(sampled[w])
  <2>1. raw[w] = prev[w]
    BY <1>1 DEF IInv, RawFollows, Early
  <2>2. pending = "none"
    BY <1>1, Calls DEF IInv, OneRequest
  <2>3. prev[w] = Driver!Wrap(sampled[w])
    BY <1>1, <2>2, Lengths DEF IInv, PrevFollows, Faultless
  <2> QED BY <2>1, <2>3
<1>2. IInv /\ at = "shift" => Size(raw[RIGHT] + raw[LEFT] - 2 * travel) <= loops
  BY DEF IInv, DriftSoFar
<1>3. ASSUME IInv, late = 0, lost = 0, ~leapt, at = "shift"
      PROVE  Size(Driver!Wrap(sampled[RIGHT]) + Driver!Wrap(sampled[LEFT])
                    - 2 * travel) <= loops
  <2>1. /\ raw[RIGHT] = Driver!Wrap(sampled[RIGHT])
        /\ raw[LEFT] = Driver!Wrap(sampled[LEFT])
    BY <1>1, <1>3, Wheels
  <2> QED BY <1>2, <1>3, <2>1
<1>4. IInv => TravelTrue
  BY <1>3 DEF TravelTrue
<1> QED BY <1>4, OdometryInvariant, PTL

(* One read that comes too early is never made up for: between two calls   *)
(* there are always bytes of an old reply on the line, until               *)
(* read_firmware(), which asks for more than it gets, takes them or a      *)
(* request is lost (serial.cpp:122-136, roboclaw.cpp:105).                 *)
THEOREM NeverInStepAgain == Spec => []OutOfStepForever
<1>1. IInv => OutOfStepForever
  <2> SUFFICES ASSUME IInv, late > 0, lost = 0, ~drained, pending = "none"
               PROVE  line # <<>>
    BY DEF OutOfStepForever, Driver!OutOfStepForever
  <2>1. Len(line) >= 1
    BY DEF IInv, Surplus
  <2>2. Len(<<>>) = 0
    OBVIOUS
  <2> QED BY <2>1, <2>2
<1> QED BY <1>1, OdometryInvariant, PTL

=============================================================================
