--------------------------- MODULE RosserialParser ---------------------------
(***************************************************************************)
(* rosserial: how a frame crosses the serial line, from send() of          *)
(* rosserial_python/SerialClient.py to the reading loop of spinOnce() in   *)
(* rosserial_client's node_handle.h, on the microcontroller.               *)
(*                                                                         *)
(* The line may lose and garble bytes, and carries one frame after the     *)
(* other: send is the moment when the first byte of a frame goes out, not  *)
(* when it enters the port's queue.  The microcontroller calls             *)
(* spinOnce() from its loop() now and then; spinOnce() looks at the clock  *)
(* when it is called and no more, gives up a frame whose first byte was    *)
(* read in a call of more than MSG_TIMEOUT ago, and reads what has come.   *)
(* What the handlers of a frame do is not the subject here: got records    *)
(* the frames they are called with.                                        *)
(*                                                                         *)
(* spinOnce() writes the bytes of a message into message_in without        *)
(* looking at the size of that buffer.  What lies behind it (message_out,  *)
(* the tables of publishers and subscribers, the parser's own mode_) may   *)
(* then be written over: from there on the device may do anything, which   *)
(* is pc = "astray", a state in which the model follows it no further.     *)
(***************************************************************************)
EXTENDS Integers, SequencesExt

CONSTANTS
  Base,        \* bytes are 0 .. Base - 1 (256)
  IntMax,      \* of the device's int: 32767 where it has 16 bits
  InputSize,   \* bytes of message_in, the buffer_size of a subscriber
  Topics,      \* topic ids the host may send on: subscribers, answers
  Payloads,    \* messages the host may send
  MSG_TIMEOUT, \* ticks (20 ms)
  SpinGap,     \* longest time from one call of spinOnce() to the next
  FrameTime,   \* longest time the bytes of a frame take to arrive
  MaxSent,     \* bound on the frames
  MaxFaults    \* bound on the bytes lost or garbled

ASSUME BaseAssumption == Base \in Nat /\ Base > 1
ASSUME IntAssumption ==
  /\ IntMax \in Nat /\ IntMax >= 2 * Base - 1
  /\ 2 * (IntMax + 1) >= Base * Base
  /\ (IntMax + 1) % Base = 0
ASSUME TimeAssumption ==
  /\ {MSG_TIMEOUT, FrameTime} \subseteq Nat
  /\ SpinGap \in Nat \ {0}
ASSUME SizeAssumption ==
  /\ {MaxSent, MaxFaults} \subseteq Nat
  /\ InputSize \in Nat \ {0}

Byte == 0 .. Base - 1
FF == Base - 1
PROTOCOL_VER == Base - 2

(* The ids are ints of the device, sent in two bytes.                      *)
ASSUME TopicAssumption ==
  Topics \subseteq {id \in 0 .. IntMax : id < Base * Base}
ASSUME PayloadAssumption ==
  Payloads \subseteq {p \in Seq(Byte) : Len(p) < Base * Base}

ID_PUBLISHER == 0

Lo(n) == n % Base
Hi(n) == n \div Base

(* An int that overflows wraps, as it does on the device.                  *)
AsInt(n) ==
  LET m == n % (2 * (IntMax + 1))
  IN  IF m > IntMax THEN m - 2 * (IntMax + 1) ELSE m

VARIABLES
  buffer_in,   \* the host's idea of InputSize: -1 until a subscriber is known
  wire,        \* bytes sent and not yet arrived
  wire_age,    \* time since they were sent
  line,        \* bytes arrived and not yet read
  pc,          \* inside or outside spinOnce(), or astray
  spin_age,    \* time since spinOnce() was last called, when c_time was read
  mode_, bytes_, topic_, checksum_,
  message_in,  \* its first index_ bytes
  msg_age,     \* time since the c_time of the call that read the first byte
  sent, got,   \* history: frames sent, frames handled
  quiet,       \* history: time since the line fell silent
  fresh,       \* history: the last frame was sent after a silence, whole
  unchecked,   \* history: a message larger than message_in was sent while
               \* buffer_in was not known
  faults

device == <<mode_, bytes_, topic_, checksum_, message_in>>
host == <<buffer_in, unchecked>>
vars == <<host, wire, wire_age, line, pc, spin_age, device, msg_age, sent, got,
          quiet, fresh, faults>>

(* Silence after which whatever a fault has left behind is given up.       *)
Silence == MSG_TIMEOUT + SpinGap

Init ==
  /\ buffer_in = -1 /\ unchecked = FALSE
  /\ wire = <<>> /\ wire_age = 0
  /\ line = <<>>
  /\ pc = "loop" /\ spin_age = 0
  /\ mode_ = "first_ff" /\ bytes_ = 0 /\ topic_ = 0 /\ checksum_ = 0
  /\ message_in = <<>>
  /\ msg_age = 0
  /\ sent = <<>> /\ got = <<>>
  /\ quiet = 0 /\ fresh = TRUE
  /\ faults = 0

-----------------------------------------------------------------------------
(* The host and the line.                                                  *)

Total(bytes) ==
  LET sum[i \in 0 .. Len(bytes)] == IF i = 0 THEN 0 ELSE sum[i - 1] + bytes[i]
  IN  sum[Len(bytes)]

Checksum(bytes) == FF - (Total(bytes) % Base)

Frame(topic, msg) ==
  LET size == <<Lo(Len(msg)), Hi(Len(msg))>>
      body == <<Lo(topic), Hi(topic)>> \o msg
  IN  <<FF, PROTOCOL_VER>> \o size \o <<Checksum(size)>>
        \o body \o <<Checksum(body)>>

Transmit(topic, msg) ==
  /\ Len(sent) < MaxSent
  /\ wire = <<>>
  /\ wire' = Frame(topic, msg)
  /\ wire_age' = 0
  /\ sent' = Append(sent, [topic |-> topic, msg |-> msg])
  /\ fresh' = (quiet > Silence)
  /\ quiet' = 0
  /\ unchecked' = (unchecked \/ (buffer_in < 0 /\ Len(msg) > InputSize))
  /\ UNCHANGED <<buffer_in, line, pc, spin_age, device, msg_age, got, faults>>

(* The info of a subscriber has come: it tells the size of message_in.     *)
setSubscribeSize ==
  /\ buffer_in < 0 /\ buffer_in' = InputSize
  /\ UNCHANGED <<unchecked, wire, wire_age, line, pc, spin_age, device,
                 msg_age, sent, got, quiet, fresh, faults>>

(* Mutant: nothing is dropped.                                             *)
send_unlimited(topic, msg) == Transmit(topic, msg)

(* send() drops a message larger than the buffer of the device, when it    *)
(* knows that buffer's size: answers wait for no subscriber, and the       *)
(* callback of a subscriber is there just before its info sets buffer_in.  *)
send(topic, msg) ==
  /\ ~(buffer_in > 0 /\ Len(msg) > buffer_in)
  /\ Transmit(topic, msg)

(* The bytes that requestTopics() writes.                                  *)
requestTopics == Transmit(ID_PUBLISHER, <<>>)

Arrive ==
  /\ wire # <<>>
  /\ wire' = Tail(wire)
  /\ line' = Append(line, Head(wire))
  /\ UNCHANGED <<host, wire_age, pc, spin_age, device, msg_age, sent, got, quiet,
                 fresh, faults>>

Fault ==
  /\ wire # <<>> /\ faults < MaxFaults
  /\ wire' = Tail(wire)
  /\ line' \in {line} \cup {Append(line, data) : data \in Byte \ {Head(wire)}}
  /\ faults' = faults + 1
  /\ fresh' = FALSE
  /\ UNCHANGED <<host, wire_age, pc, spin_age, device, msg_age, sent, got, quiet>>

Older(age, cap) == IF age < cap THEN age + 1 ELSE age

Tick ==
  /\ spin_age < SpinGap
  /\ wire # <<>> => wire_age < FrameTime
  /\ spin_age' = spin_age + 1
  /\ wire_age' = IF wire = <<>> THEN wire_age ELSE wire_age + 1
  /\ msg_age' = Older(msg_age, MSG_TIMEOUT + 1)
  /\ quiet' = IF wire = <<>> /\ line = <<>>
              THEN Older(quiet, Silence + 1)
              ELSE quiet
  /\ UNCHANGED <<host, wire, line, pc, device, sent, got, fresh, faults>>

-----------------------------------------------------------------------------
(* spinOnce().                                                             *)

(* Mutant: a frame broken off is never given up.                           *)
spinOnce_no_timeout ==
  /\ pc = "loop" /\ pc' = "spin"
  /\ spin_age' = 0
  /\ UNCHANGED <<host, wire, wire_age, line, device, msg_age, sent, got, quiet,
                 fresh, faults>>

(* Lines 186-197.                                                          *)
spinOnce ==
  /\ pc = "loop" /\ pc' = "spin"
  /\ spin_age' = 0
  /\ IF mode_ # "first_ff" /\ msg_age > MSG_TIMEOUT
     THEN mode_' = "first_ff" ELSE UNCHANGED mode_
  /\ UNCHANGED <<host, wire, wire_age, line, bytes_, topic_, checksum_, message_in,
                 msg_age, sent, got, quiet, fresh, faults>>

(* Lines 202-204: read() answers -1, and the loop ends.                    *)
NoMoreData ==
  /\ pc = "spin" /\ line = <<>>
  /\ pc' = "loop"
  /\ UNCHANGED <<host, wire, wire_age, line, spin_age, device, msg_age, sent, got,
                 quiet, fresh, faults>>

Sum(data) == AsInt(checksum_ + data)

(* C's remainder of a negative number is not positive.                     *)
Matches(sum) == sum >= 0 /\ sum % Base = FF

(* The loop reads a byte in this mode, and goes on in that one.            *)
Reads(mode, data, next) ==
  /\ pc = "spin" /\ line # <<>>
  /\ mode_ = mode /\ mode_' = next
  /\ data = Head(line) /\ line' = Tail(line)
  /\ UNCHANGED <<host, wire, wire_age, spin_age, sent, quiet, fresh, faults>>

(* Lines 211-215.                                                          *)
FirstFF == \E data \in Byte :
  /\ Reads("first_ff", data, IF data = FF THEN "protocol_ver" ELSE "first_ff")
  /\ msg_age' = IF data = FF THEN spin_age ELSE msg_age
  /\ checksum_' = Sum(data)
  /\ UNCHANGED <<pc, bytes_, topic_, message_in, got>>

(* Lines 216-223.                                                          *)
ProtocolVer == \E data \in Byte :
  /\ Reads("protocol_ver", data,
           IF data = PROTOCOL_VER THEN "size_l" ELSE "first_ff")
  /\ checksum_' = Sum(data)
  /\ UNCHANGED <<pc, bytes_, topic_, message_in, msg_age, got>>

(* Mutant: index_ is not reset.                                            *)
SizeL_no_index == \E data \in Byte :
  /\ Reads("size_l", data, "size_h")
  /\ bytes_' = data
  /\ checksum_' = data
  /\ UNCHANGED <<pc, topic_, message_in, msg_age, got>>

(* Lines 224-228.                                                          *)
SizeL == \E data \in Byte :
  /\ Reads("size_l", data, "size_h")
  /\ bytes_' = data
  /\ message_in' = <<>>
  /\ checksum_' = data
  /\ UNCHANGED <<pc, topic_, msg_age, got>>

(* Lines 229-231.                                                          *)
SizeH == \E data \in Byte :
  /\ Reads("size_h", data, "size_checksum")
  /\ bytes_' = AsInt(bytes_ + Base * data)
  /\ checksum_' = Sum(data)
  /\ UNCHANGED <<pc, topic_, message_in, msg_age, got>>

(* Lines 232-236.                                                          *)
SizeChecksum == \E data \in Byte :
  /\ Reads("size_checksum", data,
           IF Matches(Sum(data)) THEN "topic_l" ELSE "first_ff")
  /\ checksum_' = Sum(data)
  /\ UNCHANGED <<pc, bytes_, topic_, message_in, msg_age, got>>

(* Lines 237-240.                                                          *)
TopicL == \E data \in Byte :
  /\ Reads("topic_l", data, "topic_h")
  /\ topic_' = data
  /\ checksum_' = data
  /\ UNCHANGED <<pc, bytes_, message_in, msg_age, got>>

(* Lines 241-245.                                                          *)
TopicH == \E data \in Byte :
  /\ Reads("topic_h", data, IF bytes_ = 0 THEN "msg_checksum" ELSE "message")
  /\ topic_' = AsInt(topic_ + Base * data)
  /\ checksum_' = Sum(data)
  /\ UNCHANGED <<pc, bytes_, message_in, msg_age, got>>

(* Lines 206-210: nothing asks whether the byte falls outside message_in. *)
(* Where it does the device goes astray, or what is written over there     *)
(* (message_out) does no harm to the parser.                               *)
Message == \E data \in Byte :
  /\ Reads("message", data, IF bytes_ = 1 THEN "msg_checksum" ELSE "message")
  /\ message_in' = Append(message_in, data)
  /\ bytes_' = AsInt(bytes_ - 1)
  /\ checksum_' = Sum(data)
  /\ pc' \in IF Len(message_in) < InputSize THEN {pc} ELSE {pc, "astray"}
  /\ UNCHANGED <<topic_, msg_age, got>>

(* The ids whose frames something on the device handles.                   *)
Known == {ID_PUBLISHER} \cup Topics

(* Lines 246-266.  A request for the topics ends spinOnce() at once.  Any  *)
(* other id is taken for an index into the table of subscribers: there is  *)
(* no subscriber there, or the index is outside the table.                 *)
MsgChecksum == \E data \in Byte :
  /\ Reads("msg_checksum", data, "first_ff")
  /\ checksum_' = Sum(data)
  /\ \/ /\ ~Matches(Sum(data))
        /\ UNCHANGED <<got, pc>>
     \/ /\ Matches(Sum(data)) /\ topic_ \in Known
        /\ got' = Append(got, [topic |-> topic_, msg |-> message_in])
        /\ pc' = IF topic_ = ID_PUBLISHER THEN "loop" ELSE pc
     \/ /\ Matches(Sum(data)) /\ topic_ \notin Known
        /\ pc' \in {pc, "astray"} /\ UNCHANGED got
  /\ UNCHANGED <<bytes_, topic_, message_in, msg_age>>

Read == FirstFF \/ ProtocolVer \/ SizeL \/ SizeH \/ SizeChecksum
        \/ TopicL \/ TopicH \/ Message \/ MsgChecksum

Next ==
  \/ \E topic \in Topics, msg \in Payloads : send(topic, msg)
  \/ requestTopics \/ setSubscribeSize
  \/ Arrive \/ Fault \/ Tick
  \/ spinOnce \/ Read \/ NoMoreData

Spec == Init /\ [][Next]_vars

-----------------------------------------------------------------------------
Modes == {"first_ff", "protocol_ver", "size_l", "size_h", "size_checksum",
          "topic_l", "topic_h", "message", "msg_checksum"}

IntRange == -(IntMax + 1) .. IntMax

TypeOK ==
  /\ buffer_in \in {-1, InputSize} /\ unchecked \in BOOLEAN
  /\ wire \in Seq(Byte) /\ line \in Seq(Byte)
  /\ wire_age \in 0 .. FrameTime
  /\ pc \in {"loop", "spin", "astray"} /\ spin_age \in 0 .. SpinGap
  /\ mode_ \in Modes
  /\ {bytes_, topic_, checksum_} \subseteq IntRange
  /\ message_in \in Seq(Byte)
  /\ msg_age \in 0 .. MSG_TIMEOUT + 1 + SpinGap
  /\ quiet \in 0 .. Silence + 1
  /\ fresh \in BOOLEAN
  /\ faults \in 0 .. MaxFaults

(* The device keeps up with the timeout.                                   *)
Fast == FrameTime + 2 * SpinGap <= MSG_TIMEOUT

(* The device's sum of the bytes of a message and its checksum.            *)
MessageSum(f) ==
  LET body == <<Lo(f.topic), Hi(f.topic)>> \o f.msg
  IN  AsInt(Total(body) + Checksum(body))

Summable(f) == MessageSum(f) >= 0

(* The frames among these that can be handled, in their order.             *)
Due(frames) ==
  LET due[i \in 0 .. Len(frames)] ==
        IF i = 0 THEN <<>>
        ELSE IF Summable(frames[i]) THEN Append(due[i - 1], frames[i]) ELSE due[i - 1]
  IN  due[Len(frames)]

(* As long as no byte is damaged, loop() keeps up with MSG_TIMEOUT and the *)
(* host has sent no message too large before it knew what is too large,    *)
(* the frames handled are those sent, in order and whole, whatever bytes   *)
(* they contain and however calls of spinOnce() cut them, but for those    *)
(* whose sum overflows into the negative; none is missing when nothing is  *)
(* on its way, and nothing has been written outside message_in.            *)
InOrder ==
  Fast /\ faults = 0 /\ ~unchecked =>
    /\ IsPrefix(got, Due(sent))
    /\ wire = <<>> /\ line = <<>> => got = Due(sent)
    /\ pc # "astray"

(* Whatever a fault has left behind in the parser, a frame that fits and   *)
(* is sent after a silence is handled, unless its sum overflows, or the    *)
(* device has gone astray before: a damaged size that passes its checksum  *)
(* (a lost byte of the header is enough) lets the bytes that follow run    *)
(* over the end of message_in.                                             *)
FreshFrameHandled ==
  /\ Fast /\ fresh
  /\ wire = <<>> /\ line = <<>>
  /\ sent # <<>> /\ Summable(Last(sent)) /\ Len(Last(sent).msg) <= InputSize
  /\ pc # "astray"
  => got # <<>> /\ Last(got) = Last(sent)
=============================================================================
