------------------------------- MODULE UsbCam -------------------------------
(***************************************************************************)
(* The camera node usb_cam (usb_cam.cpp, usb_cam_node.cpp): a ring of      *)
(* buffers shared with the kernel's driver (V4L2), one thread that grabs   *)
(* an image in each turn of its loop and serves start_capture and          *)
(* stop_capture in between.                                                *)
(*                                                                         *)
(* The kernel fills queued buffers in order whenever the stream is on, so  *)
(* of two filled buffers the older one comes first.                        *)
(***************************************************************************)
EXTENDS UsbCamPixels, FiniteSets

CONSTANTS
  Buffer,         \* the buffers there may be
  NoBuffer,       \* none of them
  Formats,        \* `pixel_format`, the parameter
  Methods,        \* `io_method`, the parameter
  Devices,        \* what camera_dev_ may be: a character device or not, what it
                  \* is capable of, and how many buffers it grants
  Period,         \* ticks of a turn of the loop, 1/framerate
  Timeout,        \* ticks of select()'s five seconds
  MaxInterrupts,  \* bound: signals, or buffers that were not ready after all
  MaxFailures,    \* bound: calls that fail, pictures that cannot be decoded
  MaxAge,         \* ages are counted up to this
  SampleColours, SampleLevels  \* colours in RGB, and grey levels in ten bits

ASSUME BufferAssumption == NoBuffer \notin Buffer /\ IsFiniteSet(Buffer)
ASSUME BoundsAreNat ==
  Period \in Nat \ {0} /\ Timeout \in Nat /\ MaxAge \in Nat /\ MaxInterrupts \in Nat /\ MaxFailures \in Nat

ASSUME ColourAssumption ==
  SampleColours \subseteq Byte \X Byte \X Byte /\ SampleLevels \subseteq 0..1023

VARIABLES
  at,             \* where the node's one thread is
  device,         \* camera_dev_
  buffers_,       \* buffers_[0 .. n_buffers_ - 1]
  io, format,     \* io_ and pixelformat_, once started
  is_capturing_,
  stream,         \* the kernel's stream is on (STREAMON)
  where,          \* of each buffer: with the program, queued, filled, gone
  hand,           \* the buffer between DQBUF and QBUF, or NoBuffer
  age,            \* of each buffer: ticks since it was filled
  image,          \* image_: what it shows, its age, and whether from before the last start
  spent,          \* ticks of this turn, or of the wait in select()
  interrupts, failures

vars == <<at, device, buffers_, io, format, is_capturing_, stream, where, hand, age, image, spent, interrupts, failures>>

given == <<device, buffers_, io, format>>

Blank == [shows |-> "blank", age |-> 0, before |-> FALSE]
Reads == io = "read"

Init ==
  /\ at = "ctor" /\ io \in Methods /\ format \in Formats
  /\ device \in Devices /\ buffers_ = {}
  /\ is_capturing_ = FALSE /\ stream = FALSE
  /\ where = [b \in Buffer |-> "gone"] /\ hand = NoBuffer
  /\ age = [b \in Buffer |-> 0]
  /\ image = Blank
  /\ spent = 0 /\ interrupts = 0 /\ failures = 0

Goto(from, to) == at = from /\ at' = to
Failure == failures < MaxFailures /\ failures' = failures + 1

(* errno_exit(), exit(EXIT_FAILURE): the kernel takes everything back.     *)
Exit ==
  /\ at' = "exited" /\ stream' = FALSE
  /\ where' = [b \in Buffer |-> "gone"] /\ hand' = NoBuffer
  /\ UNCHANGED <<given, is_capturing_, age, image, spent, interrupts>>

errno_exit == Failure /\ Exit

-----------------------------------------------------------------------------
(* start_capturing(): every buffer is queued, then the stream turned on;   *)
(* a buffer the kernel has already is refused.                             *)
Queueable == \A b \in buffers_ : where[b] = "program"

start_capturing(bufs) ==
  IF is_capturing_ THEN UNCHANGED <<is_capturing_, stream, where, image>>
  ELSE /\ is_capturing_' = TRUE /\ stream' = ~Reads
       /\ where' = [b \in Buffer |-> IF b \notin bufs THEN "gone"
                                     ELSE IF Reads THEN "program" ELSE "queued"]
       /\ image' = [image EXCEPT !.before = TRUE]

(* Mutant: the test of is_capturing_ is missing.                           *)
StartsAgain == ~Reads /\ ~Queueable

StartRefused == ~is_capturing_ /\ ~Reads /\ ~Queueable

(* stop_capturing(): STREAMOFF gives all buffers back, and what they hold. *)
stop_capturing ==
  IF ~is_capturing_ THEN UNCHANGED <<is_capturing_, stream, where>>
  ELSE /\ is_capturing_' = FALSE /\ stream' = FALSE
       /\ where' = [b \in Buffer |-> IF b \in buffers_ THEN "program" ELSE "gone"]

(* Anything else is unknown, and the node ends in the destructors of a     *)
(* camera that was never opened.                                           *)
io_method_from_string == {"mmap", "read", "userptr"}
pixel_format_from_string == {"yuyv", "uyvy", "mjpeg", "yuvmono10", "rgb24", "grey"}
Known == io \in io_method_from_string /\ format \in pixel_format_from_string

(* open_device() and init_device(): a device that can do what io_method    *)
(* needs. The V4L2 controls that are set later cannot end the node.        *)
open_device == device.char

init_device == {"capture", IF Reads THEN "readwrite" ELSE "streaming"} \subseteq device.caps

(* One buffer for read(); as many as granted of the four asked for, but no *)
(* fewer than two; always four of the program's own, whose queueing fails  *)
(* if fewer were granted.                                                  *)
init_read(bufs) == Cardinality(bufs) = 1
init_mmap(bufs) == Cardinality(bufs) = device.granted /\ device.granted >= 2
init_userp(bufs) == Cardinality(bufs) = 4 /\ device.granted >= 4

InitBuffers(bufs) ==
  CASE io = "read" -> init_read(bufs)
    [] io = "mmap" -> init_mmap(bufs)
    [] OTHER -> init_userp(bufs)

(* start() in the constructor, with a blank image_ at its end.             *)
start ==
  /\ Goto("ctor", "spin")
  /\ Known /\ open_device /\ init_device
  /\ \E bufs \in SUBSET Buffer :
       InitBuffers(bufs) /\ buffers_' = bufs /\ start_capturing(bufs)
  /\ UNCHANGED <<device, io, format, hand, age, spent, interrupts, failures>>

(* No such device, not good for it, or asked for an unknown method or      *)
(* format: exit(EXIT_FAILURE), ...                                         *)
Unsuitable ==
  /\ at = "ctor" /\ failures' = failures + 1
  /\ ~(Known /\ open_device /\ init_device /\ \E bufs \in SUBSET Buffer : InitBuffers(bufs))
  /\ Exit

(* ... or one of the calls fails.                                          *)
StartFails == at = "ctor" /\ errno_exit

-----------------------------------------------------------------------------
(* spin(): an image in each turn while capturing, ...                      *)
spin ==
  /\ at = "spin"
  /\ at' = IF is_capturing_ THEN "select" ELSE "serve"
  /\ spent' = 0
  /\ UNCHANGED <<given, is_capturing_, stream, where, hand, age, image, interrupts, failures>>

(* ... its services served, ...                                            *)
service_start_cap ==
  /\ at = "serve" /\ UNCHANGED failures
  /\ IF StartRefused THEN Exit
     ELSE start_capturing(buffers_) /\ UNCHANGED <<at, given, hand, age, spent, interrupts>>

service_stop_cap ==
  /\ at = "serve"
  /\ stop_capturing
  /\ UNCHANGED <<at, given, hand, age, image, spent, interrupts, failures>>

(* A call of these two or of STREAMON or STREAMOFF fails.                  *)
CaptureFails == at = "serve" /\ ~Reads /\ errno_exit

(* ... and the rest of the period slept.                                   *)
Served ==
  /\ Goto("serve", "sleep")
  /\ UNCHANGED <<given, is_capturing_, stream, where, hand, age, image, spent, interrupts, failures>>

(* Mutant: the loop sleeps three periods.                                  *)
SleepsTooLong == 3 * Period

LoopPeriod == Period

Wake ==
  /\ Goto("sleep", "spin") /\ spent >= LoopPeriod
  /\ UNCHANGED <<given, is_capturing_, stream, where, hand, age, image, spent, interrupts, failures>>

-----------------------------------------------------------------------------
Filled == {b \in buffers_ : where[b] = "filled"}

(* A filled buffer ends the wait.  A frame for read() may come at any time *)
(* or not at all; the kernel's own buffers are left out.                   *)
Ready == ~Reads /\ Filled # {}
MayBeReady == Reads \/ Ready

(* grab_image(): select() waits for a frame, at most five seconds.         *)
grab_image ==
  /\ Goto("select", "dequeue") /\ MayBeReady
  /\ UNCHANGED <<given, is_capturing_, stream, where, hand, age, image, spent, interrupts, failures>>

SelectTimeout == at = "select" /\ ~Ready /\ spent >= Timeout /\ errno_exit

(* EINTR in select() and EAGAIN in read_frame(): the old image is          *)
(* published once more, with a new stamp; nobody looks at is_new.          *)
Interrupted ==
  /\ at \in {"select", "dequeue"} /\ at' = "publish"
  /\ interrupts < MaxInterrupts /\ interrupts' = interrupts + 1
  /\ UNCHANGED <<given, is_capturing_, stream, where, hand, age, image, spent, failures>>

(* read_frame(): DQBUF takes the oldest filled buffer, ...                 *)
Dequeue ==
  /\ Goto("dequeue", "process")
  /\ IF Reads THEN UNCHANGED <<where, hand>>
     ELSE \E b \in Filled :
       /\ \A c \in Filled : age[b] >= age[c]
       /\ where' = [where EXCEPT ![b] = "program"]
       /\ hand' = b
  /\ UNCHANGED <<given, is_capturing_, stream, age, image, spent, interrupts, failures>>

ReadFails == at = "dequeue" /\ errno_exit

Picture == [shows |-> "picture", age |-> IF Reads THEN 0 ELSE age[hand], before |-> FALSE]

(* ... its picture is converted into image_, or blacked out if it cannot   *)
(* be decoded, ...                                                         *)
Convert ==
  /\ Goto("process", "requeue")
  /\ \/ image' = Picture /\ UNCHANGED failures
     \/ format = "mjpeg" /\ image' = Blank /\ Failure
  /\ UNCHANGED <<given, is_capturing_, stream, where, hand, age, spent, interrupts>>

(* Mutant: a picture that could not be decoded is left before QBUF.        *)
GiveBackDecoded(b) == where' = [where EXCEPT ![b] = IF image = Blank THEN @ ELSE "queued"]

GiveBack(b) == where' = [where EXCEPT ![b] = "queued"]

(* ... and QBUF gives the buffer back.                                     *)
read_frame ==
  /\ Goto("requeue", "publish")
  /\ IF hand = NoBuffer THEN UNCHANGED where ELSE GiveBack(hand)
  /\ hand' = NoBuffer
  /\ UNCHANGED <<given, is_capturing_, stream, age, image, spent, interrupts, failures>>

RequeueFails == at = "requeue" /\ ~Reads /\ errno_exit

(* take_and_send_image(): stamped with the time of now and published.      *)
take_and_send_image ==
  /\ Goto("publish", "serve")
  /\ UNCHANGED <<given, is_capturing_, stream, where, hand, age, image, spent, interrupts, failures>>

-----------------------------------------------------------------------------
(* The node ends: the destructor of UsbCamNode shuts the camera down, ...  *)
shutdown ==
  /\ at \in {"spin", "sleep"} /\ at' = "closed"
  /\ is_capturing_' = FALSE /\ stream' = FALSE
  /\ where' = [b \in Buffer |-> "gone"]
  /\ UNCHANGED <<given, hand, age, image, spent, interrupts, failures>>

(* ... then that of UsbCam does it again, with freed buffers_ and a closed *)
(* descriptor: close() fails, if the program came so far, and it exits     *)
(* with EXIT_FAILURE.                                                      *)
ShutdownAgain == at = "closed" /\ Exit /\ failures' = MaxFailures + 1

(* The kernel fills a queued buffer.                                       *)
Fill(b) ==
  /\ stream /\ where[b] = "queued"
  /\ where' = [where EXCEPT ![b] = "filled"]
  /\ age' = [age EXCEPT ![b] = 0]
  /\ UNCHANGED <<at, given, is_capturing_, stream, hand, image, spent, interrupts, failures>>

Older(a) == IF a < MaxAge THEN a + 1 ELSE a

(* Time passes while the thread sleeps or waits; all else takes no time.   *)
Tick ==
  /\ \/ at = "sleep" /\ spent < LoopPeriod
     \/ at = "select" /\ ~Ready /\ spent < Timeout
  /\ spent' = spent + 1
  /\ age' = [b \in Buffer |-> IF where[b] = "filled" THEN Older(age[b]) ELSE 0]
  /\ image' = IF image.shows = "blank" THEN image ELSE [image EXCEPT !.age = Older(@)]
  /\ UNCHANGED <<at, given, is_capturing_, stream, where, hand, interrupts, failures>>

Next ==
  \/ start \/ Unsuitable \/ StartFails \/ spin
  \/ service_start_cap \/ service_stop_cap \/ CaptureFails \/ Served \/ Wake
  \/ grab_image \/ SelectTimeout \/ Interrupted
  \/ Dequeue \/ ReadFails \/ Convert \/ read_frame \/ RequeueFails
  \/ take_and_send_image
  \/ shutdown \/ ShutdownAgain
  \/ (\E b \in buffers_ : Fill(b)) \/ Tick

Spec == Init /\ [][Next]_vars

-----------------------------------------------------------------------------
TypeOK ==
  /\ at \in {"ctor", "spin", "select", "dequeue", "process", "requeue", "publish",
             "serve", "sleep", "closed", "exited"}
  /\ io \in Methods /\ format \in Formats /\ device \in Devices /\ buffers_ \subseteq Buffer
  /\ is_capturing_ \in BOOLEAN /\ stream \in BOOLEAN
  /\ where \in [Buffer -> {"program", "queued", "filled", "gone"}]
  /\ hand \in Buffer \cup {NoBuffer}
  /\ age \in [Buffer -> 0..MaxAge]

(* While the node runs, the flag, the stream and the ring agree at every   *)
(* step: capturing, the stream is on and every buffer with the kernel but  *)
(* the one being read, so that none is ever lost to the ring; not          *)
(* capturing, the stream is off and all buffers are the program's.         *)
(* Nothing but a failing call or the end of the node ends it, whatever     *)
(* start_capture and stop_capture are asked, and in which order.           *)
RingKept ==
  /\ at \notin {"closed", "exited"} /\ ~Reads =>
       /\ stream = is_capturing_
       /\ \A b \in buffers_ :
            IF is_capturing_ /\ b # hand THEN where[b] \in {"queued", "filled"}
            ELSE where[b] = "program"
  /\ at = "exited" => failures > 0

(* An image published is no older than the ring is long, in periods of the *)
(* loop, and a turn and a wait more for each interruption, although its    *)
(* stamp says it is new. The exception is an interruption right after a    *)
(* start, which publishes an image from before the stop, of any age.       *)
FreshEnough ==
  at = "publish" /\ ~image.before =>
    image.age <= Cardinality(buffers_) * Period + interrupts * (Period + Timeout)

(* The formats whose pictures are true to the camera's colours.            *)
TrueFormats == {f \in Formats : ShownTrue(f, SampleColours, SampleLevels)}

(* Every picture shown has the colours of the camera's, two neighbouring   *)
(* pixels sharing their chroma: nothing is read outside the clipping table *)
(* unless the two are far apart in brightness, greys are as they were, and *)
(* components of a colour that differ by 48 or more keep their order.      *)
ColoursTrue == at = "publish" /\ image.shows = "picture" => format \in TrueFormats
=============================================================================
