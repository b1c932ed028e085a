------------------------------ MODULE RoboClaw ------------------------------
(***************************************************************************)
(* drivers/roboclaw/src/roboclaw.cpp and serial.cpp: the driver of the     *)
(* motor board.  A request is written to the serial port, the driver       *)
(* sleeps, and then takes the bytes that have come so far into rx_buf.     *)
(*                                                                         *)
(* Nothing in a reply says which request it answers, and no checksum of a  *)
(* reply is verified.  A byte is therefore represented by the reply it     *)
(* belongs to and its place there; what the driver makes of four bytes     *)
(* that are not the head of one encoder reply may be any count.            *)
(***************************************************************************)
EXTENDS RoboClawParameters, Sequences

RIGHT == 0
LEFT == 1
Wheel == {RIGHT, LEFT}

Count == -Half .. Half - 1

Wrap(n) == ((n + Half) % (2 * Half)) - Half

(* The requests with a reply, the bytes they ask for, and those they get.  *)
Request == {"enc_right", "enc_left", "velocity", "power", "logic", "firmware"}

Encoder == {"enc_right", "enc_left"}

WheelOf(req) == IF req = "enc_right" THEN RIGHT ELSE LEFT

Asked(req) ==
  CASE req \in {"power", "logic"} -> 3
    [] req = "firmware" -> 32
    [] OTHER -> 6

Sent(req) ==
  CASE req \in {"power", "logic"} -> 3
    [] req = "firmware" -> Firmware
    [] OTHER -> 6

VARIABLES
  turned,   \* true position of each wheel, in ticks since the last reset
  line,     \* bytes the board has sent and nobody has read
  rx,       \* rx_buf[0 .. 3]
  prev,     \* prev_value_right, prev_value_left
  pending,  \* the request whose reply the driver is about to read
  answer,   \* what the last get_velocity or get_..._voltage returned
  wide_abs, \* the abs() of lines 125 and 164 is the one for long long
  sampled,  \* history: turned when the board last answered for the wheel
  leapt,    \* history: two samples of a wheel were further apart than the
            \* filter lets pass
  drained,  \* history: read_firmware() emptied the port after the last
            \* read that came too early
  late, lost

faults == <<late, lost>>
history == <<sampled, leapt, drained>>
vars == <<turned, line, rx, prev, pending, answer, wide_abs, history, faults>>

(* abs(value - prev): with int the difference is cut to 32 bits, and the   *)
(* most negative one is its own absolute value.  Which abs() the compiler  *)
(* finds depends on the headers of the build.                              *)
Magnitude(d) == IF d >= 0 THEN d ELSE -d

Distance(v, last) ==
  IF wide_abs THEN Magnitude(v - last)
  ELSE IF Wrap(v - last) = -Half THEN -Half
  ELSE Magnitude(Wrap(v - last))

Byte == [of : Request \cup {"none"}, at : 1 .. 31, val : Count]

Junk == [of |-> "none", at |-> 1, val |-> 0]

(* new RoboClaw(128) leaves rx_buf uninitialised; the counts are globals.  *)
Init ==
  /\ turned \in [Wheel -> Position]
  /\ line = <<>>
  /\ rx = [i \in 1 .. 4 |-> Junk]
  /\ prev = [w \in Wheel |-> 0]
  /\ pending = "none"
  /\ answer = "none"
  /\ wide_abs \in BOOLEAN
  /\ sampled = [w \in Wheel |-> 0]
  /\ leapt = FALSE
  /\ drained = FALSE
  /\ late = 0
  /\ lost = 0

-----------------------------------------------------------------------------
(* The wheels and the board.                                               *)

Turn(w) ==
  /\ turned' \in {[turned EXCEPT ![w] = @ + d] : d \in {-1, 1}}
  /\ turned'[w] \in Position
  /\ UNCHANGED <<line, rx, prev, pending, answer, wide_abs, history, faults>>

Reply(req) ==
  [i \in 1 .. Sent(req) |->
     [of |-> req, at |-> i,
      val |-> IF req \in Encoder THEN Wrap(turned[WheelOf(req)]) ELSE 0]]

-----------------------------------------------------------------------------
(* The driver.                                                             *)

(* The first half of every get_... and of read_firmware: three bytes go    *)
(* out, and the board answers unless one of them is lost.                  *)
Write(req) ==
  /\ pending = "none"
  /\ pending' = req
  /\ \/ /\ line' = line \o Reply(req)
        /\ IF req \in Encoder
           THEN LET w == WheelOf(req) IN
                /\ sampled' = [sampled EXCEPT ![w] = turned[w]]
                /\ leapt' = (\/ leapt
                             \/ Distance(Wrap(turned[w]), Wrap(sampled[w]))
                                  > Jump)
           ELSE UNCHANGED <<sampled, leapt>>
        /\ UNCHANGED faults
     \/ /\ lost < MaxLost
        /\ lost' = lost + 1
        /\ UNCHANGED <<line, sampled, leapt, late>>
  /\ UNCHANGED <<turned, rx, prev, answer, wide_abs, drained>>

(* Mutant: read_buffer takes everything that has come.                     *)
Available_all(req) == Len(line)

(* read_buffer: what has come, at most what was asked for.  select() looks *)
(* at a set that was never cleared, and read() takes what is there.        *)
Available(req) == IF Len(line) < Asked(req) THEN Len(line) ELSE Asked(req)

Fill(n) == [i \in 1 .. 4 |-> IF i <= n THEN line[i] ELSE rx[i]]

(* Four bytes taken for a count, lines 121-124 and 160-163.                *)
HeadOfReply(bytes) ==
  \A i \in 1 .. 4 : bytes[i].at = i /\ bytes[i].of = bytes[1].of
                     /\ bytes[i].val = bytes[1].val

Decode(bytes) ==
  IF HeadOfReply(bytes) /\ bytes[1].of \in Encoder
  THEN {bytes[1].val}
  ELSE Count

Take(n) ==
  /\ rx' = Fill(n)
  /\ line' = SubSeq(line, n + 1, Len(line))
  /\ late' = IF n < Available(pending) THEN late + 1 ELSE late
  /\ late' <= MaxLate
  /\ pending' = "none"
  /\ drained' = (n = Available(pending) /\ (drained \/ pending = "firmware"))
  /\ UNCHANGED <<turned, wide_abs, sampled, leapt, lost>>

(* Mutant: the previous value follows every value that was read.           *)
ReadEncoder_no_filter(n) ==
  LET w == WheelOf(pending) IN
  /\ pending \in Encoder
  /\ Take(n)
  /\ \E v \in Decode(rx') : prev' = [prev EXCEPT ![w] = v]
  /\ UNCHANGED answer

(* Mutant: the two wheels share one previous value.                        *)
ReadEncoder_shared_prev(n) ==
  /\ pending \in Encoder
  /\ Take(n)
  /\ \E v \in Decode(rx') :
       prev' = [w \in Wheel |->
                  IF Distance(v, prev[w]) > Jump THEN prev[w] ELSE v]
  /\ UNCHANGED answer

(* get_encoder_left and get_encoder_right: both return prev_value, in the  *)
(* first case without changing it.  The length is not looked at.           *)
ReadEncoder(n) ==
  LET w == WheelOf(pending) IN
  /\ pending \in Encoder
  /\ Take(n)
  /\ \E v \in Decode(rx') :
       prev' = IF Distance(v, prev[w]) > Jump THEN prev
               ELSE [prev EXCEPT ![w] = v]
  /\ UNCHANGED answer

(* get_velocity and the two voltages return 0 for a short reply.           *)
ReadOther(n) ==
  /\ pending \in {"velocity", "power", "logic"}
  /\ Take(n)
  /\ answer' = IF n # Asked(pending) THEN "zero"
               ELSE IF \A i \in 1 .. 2 : rx'[i].of = pending /\ rx'[i].at = i
               THEN "true" ELSE "wrong"
  /\ UNCHANGED prev

(* The version is printed from rx_buf, whatever has come.                  *)
read_firmware(n) ==
  /\ pending = "firmware"
  /\ Take(n)
  /\ UNCHANGED <<prev, answer>>

Read == \E n \in 0 .. Available(pending) :
          ReadEncoder(n) \/ ReadOther(n) \/ read_firmware(n)

(* The board counts from 0 again; prev_value keeps the old count.          *)
reset_encoders ==
  /\ pending = "none"
  /\ \/ turned' = [w \in Wheel |-> 0] /\ lost' = lost
     \/ turned' = turned /\ lost < MaxLost /\ lost' = lost + 1
  /\ UNCHANGED <<line, rx, prev, pending, answer, wide_abs, history, late>>

Next ==
  \/ \E w \in Wheel : Turn(w)
  \/ \E req \in Request : Write(req)
  \/ Read
  \/ reset_encoders

Spec == Init /\ [][Next]_vars

-----------------------------------------------------------------------------
TypeOK ==
  /\ turned \in [Wheel -> Position]
  /\ line \in Seq(Byte)
  /\ rx \in [1 .. 4 -> Byte]
  /\ prev \in [Wheel -> Count]
  /\ pending \in Request \cup {"none"}
  /\ answer \in {"none", "true", "zero", "wrong"}
  /\ wide_abs \in BOOLEAN
  /\ sampled \in [Wheel -> Position]
  /\ leapt \in BOOLEAN /\ drained \in BOOLEAN
  /\ late \in 0 .. MaxLate /\ lost \in 0 .. MaxLost

(* One read that comes too early puts the driver out of step for good: no  *)
(* later call but read_firmware() ever takes the bytes that stayed behind, *)
(* unless a request is lost.                                               *)
OutOfStepForever ==
  late > 0 /\ lost = 0 /\ ~drained /\ pending = "none" => line # <<>>
=============================================================================
