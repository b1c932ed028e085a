# Mini-Lab in TLA+

Specifications, model checks and proofs for the software of the Enova Mini-Lab robot. Paths below are relative to
`src/minilab_hardware/src/`; the files of `src/minilab_workstation` with the same names are identical to them.

1. [The system](#the-system)
2. [Inventory](#inventory): components, state, operations, what is hard, what makes them correct
3. [Modules](#modules): how their state and actions correspond to the code
4. [Runs](#runs): what each checks, its bounds and why they are enough
5. [Fairness](#fairness)
6. [Proofs](#proofs)
7. [What the checks found](#what-the-checks-found)
8. [What is not modelled](#what-is-not-modelled)
9. [Plan](#plan)

## The system

The robot is a set of ROS programs that talk over topics. The programs that matter most are those between the
operator and the wheels:

    operator ── /cmd_vel_in ──> safe_node.py ─────── /cmd_vel ─────> roboteq_driver ──serial──> controller + MicroBasic
    (joystick, keyboard,   │    5 us + 5 ir ranges      (test_cmd_vel.py: two speeds)              script
     GUI, navigation)      │
                           └──> safe_node_laser.py ─ /cmd_vel_secu ─> minilab_node ───serial──> RoboClaw board
                                /scan                                 (the Mini-Lab's base)
                                  ▲
                                hokuyo_node

    microcontroller <── serial frames ──> rosserial_python | rosserial_server      (range finders and other devices)
    ros_astra_camera, usb_cam ──> images            minilab_navigation ──> goals

No launch file starts the whole chain; who talks to whom follows from the names of the topics.
`minilab_driver/launch` has one file for each of the two bases, RoboClaw and Roboteq. The interactions are

- *messages* on topics, with bounded queues that drop the oldest message;
- *callbacks*: `rospy` calls them in threads of their own, between any two bytecodes of the main thread; `roscpp` calls
  them in `spinOnce()` (minilab_node), or in the thread of an `AsyncSpinner` (roboteq_driver);
- *serial lines*, on which requests and replies carry no identification (RoboClaw), one kind of acknowledgement serves
  two threads (Roboteq), and bytes get lost (rosserial);
- *hardware that outlives the program*: the RoboClaw board turns the wheels at the last set points it got, the motor
  controller keeps its script.

## Inventory

| component | state | operations | hard | what makes it correct |
|---|---|---|---|---|
| gate on range finders, `safe_teleop/scripts/safe_node.py` | three lists of five readings, `safe_drive`, two names for Twists | ten sensor callbacks, `cmd_vel_cb`, `update()` at 10 Hz | callbacks between any two steps of `update()`; two names for one object | an obstacle stops the robot, and nothing else does; a command has one clear fate; none waits for ever |
| gate on the laser, `safe_node_laser.py` | last scan, two names for Twists | scan and command callbacks, `update()` | the same | the same, up to the wheels |
| node, `drivers/roboclaw/src/minilab_node.cpp` | command queue, time of the last command, encoder counts, odometry | start-up, `cmd_vel_cb`, main loop with a watchdog | a queue that delays, two writes per command, a crash while the board drives, lost writes | the watchdog's bound, both wheels obey one command, no old command drives |
| RoboClaw driver, `roboclaw.cpp`, `serial.cpp` | receive buffer, last count of each wheel | requests with replies, drive, reset | short reads, lost requests, stale buffers, wrapping counts | replies match requests, answers are true or 0, the filter bounds a step |
| odometry, in `minilab_node.cpp` | counts, differences, pose | the read sequence of a loop | wrong counts of the driver, integer rounding | the node knows its wheels; the error is bounded |
| `roboteq_driver` | counters, flags and timers of `Controller`, streams of `MessageSender`, `tx_buffer_` | `read()`, `downloadScript()`, commands and timer of `Channel` | two threads on one line and in one stringstream; acknowledgements without a name; silence as a signal | a download that succeeds is true; the script runs; feedback flows; a message alone on the line is whole |
| rosserial device, `node_handle.h` | parser, buffer, `configured_`, sync times | `spinOnce()`, `publish()`, `negotiateTopics()`, `getParam()` | bytes lost or split between calls, a timeout looked at now and then, narrow ints | frames are handled whole and in order; the parser recovers; negotiation recovers |
| rosserial host, `SerialClient.py` | callbacks, publishers, services, sync times | `run()`, `send()`, `requestTopics()`, `setup…()` | services that busy-wait in one thread or another, unguarded writes | a call gets its own answer; nobody waits for ever; resynchronisation |
| rosserial server, `Session.h`, `AsyncReadBuffer.h` | session, timers, topic maps | asynchronous reads, writes, timers | cancelled timers, handlers of a deleted session | no handler of a dead session; the sync timeout |
| `hokuyo_node` | state of the driver, scan thread, clock of the device | open, start, stop, close, reconfigure, scan thread | a thread that is given up while it runs; a 24-bit clock | states of driver and thread agree; time stamps in order |
| `ros_astra_camera` | streams, subscriptions, configuration | connect callbacks, reconfigure, frame callbacks | subscribers that come and go during a reconfiguration | a stream runs when somebody listens |
| `usb_cam` | ring of V4L2 buffers, capture flag | start, stop, grab | services against the grab loop | every buffer is queued or held once |
| `minilab_navigation`, `patrol.py` | goals, counters | goal loop, timeout, shutdown | late results, shutdown in the middle of a goal | each goal ends once |
| joystick, keyboard, GUI, `odometry_listener`, diagnostics, launch files, URDF | none or one value | one message in, one out | – | – |

`PROJECT.json` lists them with their sources and status, and under `hazards` each place where one of the hard
behaviours bites.

## Modules

| module | models | composed of |
|---|---|---|
| `SafeTeleop` | `safe_node.py` | |
| `SafeTeleopLaser` (with `LaserGateParameters`) | `safe_node_laser.py` | |
| `MinilabNode` | `minilab_node.cpp`: commands, watchdog, restart | implements `Deadman` |
| `Deadman` | abstract: what a watchdog promises | |
| `TeleopChain` | scanner to wheels | `SafeTeleopLaser` + `MinilabNode` |
| `RoboClaw` (with `RoboClawParameters`) | `roboclaw.cpp`, `serial.cpp` | |
| `EncoderOdometry` | the reads and the odometry of `minilab_node.cpp` | calls `RoboClaw` |
| `Roboteq` | `controller.cpp`, `channel.cpp`, `script.mbs` as far as relied on | |
| `RoboteqLink` | `controller.h`: two threads, one stream, one buffer | |
| `RosserialParser` | `SerialClient.send()`, the line, `spinOnce()`'s parser: bytes | |
| `RosserialDevice` | `node_handle.h`, `service_client.h`, `service_server.h`: frames | |
| `RosserialClient` | `SerialClient.py` | extends `RosserialDevice` |
| `RosserialServer` | `Session.h` in `serial_node.cpp` | extends `RosserialClient` |
| `RosserialSession` | a device, one of the two hosts, the line and its faults | all three |
| `Hokuyo` | `hokuyo.cpp`, `hokuyo_node.cpp` | extends `HokuyoData` |
| `HokuyoData` | checksums, the encoding of ranges, the scanner's clock: functions | |
| `AstraBoot` | `astra_driver.cpp` up to the camera, `astra_device_manager.cpp` | |
| `AstraDriver` | the rest of `astra_driver.cpp`, `astra_device.cpp`, `astra_frame_listener.cpp` | |
| `Astra` | both lives of the camera drivers | `AstraBoot`, `AstraDriver` |
| `UsbCam` | `usb_cam.cpp`, `usb_cam_node.cpp` | extends `UsbCamPixels` |
| `UsbCamPixels` | pixel conversions: functions | |
| `DriveProofs`, `MinilabNodeProofs`, `TeleopChainProofs`, `RoboteqProofs`, `HokuyoProofs`, `CameraProofs`, `RosserialSessionProofs`, `RosserialParserProofs` | theorems | `DriveProofs` is about `SafeTeleop` and `EncoderOdometry`; `TeleopChainProofs` takes over those of `MinilabNodeProofs`; `RoboteqProofs` is about `Roboteq` and `RoboteqLink` |
| `MC…` | values for TLC | |

A `TypeOK` documents the state of a module; where there are proofs it is part of them.

**SafeTeleop.** The lists, `safe_drive` and `item` are the program's. `cmd_in` and `cmd_out` are the values these two
names refer to and `alias` says whether they are names of one object: `self.cmd_out = self.cmd_in` sets it, a new
message (which is a new object) clears it, and the stop of lines 102-103 writes through `cmd_out`, hence into `cmd_in`
when they are aliases. Steps of `update()` follow its accesses to shared data: `Compare` is the test of line 77,
`Combine` the second read of lines 78 and 80, `Decide` the loop over a list nobody else writes, `TestReverse` line 99,
`Pass` and `StopForward` the branches, `Publish` line 106. A sensor's callback is one action with the slot as
parameter; `IrSlot` is the order in which the infrared sensors are wired. `blocked`, `raced`, `fate`, `seen` and `torn`
are history: the slots that have reported an obstruction since the cycle began, whether a command came in between lines
99 and 100, whether the command in `cmd_in` has been passed or has been stopped after that, whether any slot was
obstructed at any moment of the cycle, and whether an ultrasound reading crossed the limit between its two reads in
lines 77 and 78 or 80. (`GateInit`, `GateNext` and
`GateSpec`, so that `DriveProofs` can be about this module and about `EncoderOdometry`.)

**SafeTeleopLaser.** The same shape. A scan is the set of its ranges; the loop of lines 23-29 works on one object that
nobody writes, so it is one step.

**MinilabNode.** `pc` is where `main()` is. Time is in ticks of 100 ms and passes where the code sleeps or waits for the
board (`"odom"`, the long part of a loop, and start-up); `MinLoop` and `MaxLoop` bound a turn of the loop, so the sleeps
and the load are any values between. `cmd_vel_cb` is two actions, one per write, because a crash or a lost write may
come between them; the time stamp belongs to the second. `queue` is the subscription's, from which `SpinOnce` takes
what is there when it is called. `speed` belongs to the board: `Crash` leaves it alone. `ReadTest` and `ResetEncoders`
are the start-up test of lines 113-120.

**Deadman** has a flag, a count and three actions. `MinilabNode!Dead` maps `moving` to "a wheel has a set point" and
`quiet` to the age of the last command, both as long as the process lives and no write was lost.

**TeleopChain** has one `Tick` for both components. `Publish` of the gate *is* `Receive` of the node. `near_age` is how
long every scan has been close; `GateDies` ends the gate at any point.

**RoboClaw.** A byte on the line is represented by the reply it belongs to, its place there and the count it carries.
`Write` is the first half of a request (with or without an answer), `Read…` takes any number of the bytes that have
come, up to those asked for: `read_buffer()`'s `select()` looks at a set that was never cleared. Four bytes that are
not the head of one encoder reply decode to any count. `wide_abs` says which `abs()` the build has, that of `long long`
or that of `int`, as headers decide; a behaviour has one of them, and `Distance` is what it returns. `leapt` is history: a
count was sent that this filter does not accept after the one sent before it.

**EncoderOdometry** drives `RoboClaw` with the calls of `main()` in their order. A wheel may be at any place of
`Position`, more places than there are counts, so counts wrap. Travel is in ticks of the encoders;
scaling and heading are floating point and left out.

**Roboteq.** Variables are `Controller`'s members; `cmds` and `rx` are the two directions of the line, `script`,
`running`, `mode`, `got` and `bool1` belong to the motor controller, of which only what the driver relies on is
modelled (it is external; so is its script, read from `script.mbs`). One channel stands for both. A line of text is
its kind. `downloadScript()` is its loop, one action per line written and per line read, because channels send and the
controller answers in between. What two threads do to one text is not here but in

**RoboteqLink**, where `operator<<` of the sender is its three accesses to the stream: `Test` is the test of `tellp()`,
which decides between `init_` and a blank, `Separate` inserts that and `Insert` the value. `Copy`, `Write`, `WriteEol`,
`ClearSender`, `Flush` and `ClearTxBuffer` are the other accesses to the shared `MessageSender` and `tx_buffer_`. `alone` records whether a thread had
the line for itself during its message.

**RosserialParser.** The host's frames, byte by byte, on a line that loses and garbles bytes; the modes of `spinOnce()`,
one action each. `msg_age` is the clock against `last_msg_timeout_time`, which counts from the *call* that read the
first byte, and is looked at in calls only. `checksum_`, `bytes_` and the ids are `int`s that wrap, of 16 bits or more.
`message_in` has `InputSize` places and nothing tests that: a message that goes on past them may overwrite what lies
behind (`message_out`, the tables, `mode_`), and from there the device is `astray`, a state in which the model claims
nothing; or it overwrites only what does no harm to the parser, and is then as long as its size said. A handler is looked
up without a test too (`MsgChecksum`). `buffer_in` is the host's idea of that size, -1 until it has heard of a subscriber:
until then `send()` drops nothing, and `unchecked` records that it had to. What the handlers do with a message is
not the subject; `got` records the calls. Reading the request for topics ends `spinOnce()` at once, as in the code.

**RosserialDevice, RosserialClient, RosserialServer, RosserialSession.** Here a frame is one value in `up` or `down`,
because `RosserialParser` shows that frames are handled whole and in order or not at all; a damaged frame is a lost one
(`LoseUp`, `LoseDown`). The device's program is in `loop()`, in `call()` or in `requestParam()`, and all three call
`spinOnce()`. Calls, answers and parameters are numbered in the *model*; on the line they are not, so who takes an
answer is decided by the code's `waiting` and `param_recieved` alone, and the histories `answers`, `values` and
`results` say whether it was right. `RosserialClient` has `run()` as a state (`read`, or inside a service client) beside
one thread per caller of the device's service; `response` is the field they share. `send()` waits for the mutex,
`WriteAnyway` is the `port.write()` of `requestTopics()` that does not. `RosserialServer` has the two timers as counters
(`sync_left`, `check_left`); a timer that is armed again adds the cancelled handler to `handlers`, which runs and does
what the handler of an expired timer does. The session that replaces a deleted one starts with empty maps. Both hosts
share `known`, what they have set up, and `missed`, the history of endpoints that a fault kept from them since they last asked;
a behaviour has one of them (`host`).

**Hokuyo.** Each call of the driver is the sequence of the things it does with the port, the state or the thread:
`doOpen`, `doStart`, `doStop`, `close`, `config_update` and the scan thread's loop are lists, and a thread takes the first
thing of its `todo` at each step. A `try` puts its body before a `catch`, an exception goes on at the first `catch`
and, if there is none, ends the node. So every exchange with the scanner may fail at each of its lines, with the other
thread anywhere. `fd` is closed, open or dead (unplugged); `wire` holds the lines under way; the scanner (external)
answers the commands that the driver sends and streams scans after `MD` and `ME`; `unanswered` records that a line was
lost or that it stopped by itself. `HokuyoData` has the checksum, the
three-character ranges and `readTime()`'s unwrapping of the 24-bit clock as functions on a small radix, against what the
scanner encoded.

**AstraBoot.** One process per camera. `start` to `done` are the steps of the constructor: waiting for the turn in `*shm`,
listing the connected cameras, `getSerial()` on each (it opens the camera, which another process then cannot),
`resolveDeviceURI()` with `alreadyOpen`, opening, passing the turn on. A device id is a number, a place on a bus, a
serial number or empty, as in the code. A driver may be killed and started again; the byte stays.

**AstraDriver.** A mode is a resolution, a rate and a pixel format, all three compared; the camera comes up with one of
`PowerOn` and takes those in `Supported`. `registers` is its answer to `isImageRegistrationModeSupported()`. Three threads:
the constructor, that of the ROS callbacks, and those of OpenNI's frames. `pending` are
connect callbacks that wait for the ROS thread, `seen` is what the last one found, `assigned` the publishers that
exist; `connect_mutex_` is held by the constructor until it has advertised all topics. `configCb()` is one step for each
call into the camera, so that frames pass in between and an exception leaves it in the middle. A frame is taken in
`newDepthFrameCallback()` in steps, because the registration it asks for may change meanwhile.

**UsbCam.** `pc` is where the node's one thread is; services are served in its `spinOnce()` only. The kernel (external)
fills queued buffers in order. `where` says who has each buffer, `hand` is the one between `DQBUF` and `QBUF`, and `age`
counts from its filling. The three I/O methods share their actions where the code's branches do the same; with `read()`
the kernel's frames are its own, and one may or may not be there when `select()` is called, so that its timeout ends the
node there as well. `UsbCamPixels` has the conversions one pixel or pair at a time, with the clipping table as a function of
512 places: a read outside it is `Outside`, no byte at all.

## Runs

Every property of a passing run has a mutant: a plausible bug in a definition that models code, with which TLC finds
the property violated under the same configuration. Mutants stand before the definition they change, marked
`Mutant: …`.

| run | shows | bounds, and why they are enough |
|---|---|---|
| `gate` | `GateHolds`: an obstacle reported during a whole cycle stops the robot, but for the race of lines 99-100. `StopHasCause`: nothing else does, but for a reading that changes between its two reads. `StoppedCommandStaysDead`, `UnpassedCommandKept`: whether a stopped command comes back depends on the alias. `CommandGetsThrough`: none waits for ever when the ultrasound readings stay high | Two slots: one more than the loop index needs, and `IrSlot` swaps them; the proof is for any number. Readings on both sides of both limits; commands forward, reverse, turn. State is finite: no counter |
| `node` | `WatchdogBound`, `StopsInTime`, `KeepsPromise` (refinement of `Deadman`), `SilenceStops` | A queue of two overflows; a timeout of three ticks is longer than a loop of two, as 1 s is to the loop's 0.2-0.3 s; one crash and any number of lost writes. Ages saturate one above the largest bound that a property or guard compares them with |
| `node_restart` | violation, see below | a queue of one, one crash |
| `odometry` | `StepBounded`: what a turn of the loop can add to a wheel, with either `abs()` and all faults. `TravelTrue`: without faults the travel that is published is that of the wheels, up to the rounding of line 156, wraps included. Of the driver, `OutOfStepForever` | Counts of -3 .. 2 and places 0 .. 3: a wheel passes the largest count, and the differences of two counts are as large as they can be. One read that is too early and one lost request, in any order. Three turns of the loop bring a wheel, a tick per turn, past the largest count; after a fault or a leap two turns and three places (`Bound`): the second turn sees what the first left in the port, and the driver makes any count of it. `View` leaves out `answer`, which nothing reads |
| `chain` | `ObstacleStops`: the delay from the scanner to the wheels, also when the gate dies. `SilenceUnnoticed`: while the gate lives the watchdog never notices that the operator is gone | a queue of one, a timeout of three ticks; `GatePeriod` of one |
| `script` | `DownloadTrue`, `LoadedForGood`, `FeedbackFlows` | Controllers that hold no, an old or the present script; limits of three for five, four lines read for an acknowledgement for seven, three lines of script; three channel commands that meet a download |
| `link` | `NoDebris`, `AloneIntact`: the two threads garble each other's messages, separators included, and no later one | one argument value: no step looks at it |
| `frames` | `InOrder`, `FreshFrameHandled` | Bytes to base four and an `int` of two of them, as bytes and a 16-bit `int` are to 256: `0xff` is 3, `PROTOCOL_VER` is 2. The topic uses its high byte, and so does a size whose first byte is lost; messages are empty, full, too large, hold the bytes that start a frame, and have a sum that just fits an `int` or does not. A buffer of two bytes is overrun by the damaged sizes. Two frames, one damaged byte: the second frame meets what the fault left. `MSG_TIMEOUT` is the smallest value at which `Fast` holds, and `Silence` the shortest one (one less and `FreshFrameHandled` fails) |
| `session` | `CallTrue`, `ParamTrue`, `CallersTrue`: an answer reaches the call it is for, but for the named losses. `OnlyFaultsHide`: no endpoint is lost but by a fault. `Recovers`: device and host find each other again, with either host, and all endpoints but those | All six kinds of endpoint. The times 1, 2.5, 5, 11 and 15 s are 1, 1, 3, 3 and 4 ticks: a request before each timeout, the device's before the host's. Three uses (calls of either side, parameters): a second one meets the late answer of the first, and a third what the second left; two faults, so that one meets the recovery from another; three of both together (`MaxEvents`). Eight frames on the line hold a negotiation of six endpoints |
| `hokuyo` | `OneTalker`, `Released`, `AnglesChecked`, `DataTrue`, `Survives`, `Recovers` | One failure at any line of any exchange and one reconfiguration, self test or shutdown at any rest. One retry of `laserOn()` for ten and one sample of a calibration for ten: both loops only repeat. One scan thread: a second one needs a thread that was given up, which the properties except (`lost`). Two configurations differ in intensity, angles and calibration. Strings of `DataTrue` cross the lines of 4 (for 64) characters, and the clock of 4 wraps within five stamps |
| `astra` | boot: `OneAtATime`, `OwnDevice`, `EveryDriverBoots`. One driver: `Settled`, `FrameMatches` | Three drivers as in `multi_astra.launch`: one before and one after each; launch files with serial numbers only and with all three kinds of names; two buses; one kill, one failure. Two configurations that differ in the modes of all streams and in registration, an infrared mode that is not supported, a camera that comes up with another pixel format, with and without colour and registration, one refusal of the camera |
| `usb_cam` | `RingKept` (which includes that no request ends the node), `FreshEnough`, `ColoursTrue` | The four buffers the code asks for, and cameras that grant one, two or all; each format and method, and an unknown one; one interruption and one failing call; ages up to `MaxAge`, one more than `FreshEnough` allows. Buffers are symmetric: the code treats none differently. Colours are the 125 of five levels, blue and white among them, each beside each, with the chroma of the first or the mean of both; greys ten bits at both ends of each byte |

Named bounds: `MaxCrash` (MinilabNode), `MaxLate`, `MaxLost`, `MaxLoops`, `Position` (RoboClaw and odometry), `MaxRx`,
`MaxCmds`, `MaxStray` (Roboteq), `MaxSent`, `MaxFaults` (RosserialParser), `MaxUses`, `MaxEvents`, `MaxFaults`, `MaxQueue`
(rosserial session), `MaxFaults`, `MaxRequests` (Hokuyo), `MaxCrashes`, `MaxFaults`, `MaxDriverFaults`
(Astra), `MaxInterrupts`, `MaxFailures`, `MaxAge` (UsbCam).

Four runs turn the check for deadlocks off because the system may really stop: a host that is silent after `MaxSent`
frames with time standing still (`frames`); a node that has ended, or that waits without a limit for a line that was
lost (`hokuyo`); drivers that wait for a turn that does not come (`astra`); a node that has ended (`usb_cam`). `session`
does so because a program that called `call()` under rosserial_server, which serves none, and a host that ended leave
nothing to do.

## Fairness

- `gate` (`FairSpec` of SafeTeleop): weak fairness of `update()`, a loop on `rospy.Rate` in a thread that nothing
  blocks. No callback is fair: sensors may fall silent, the operator may never speak. `CommandGetsThrough` therefore
  speaks of the last command and of readings that stay high.
- `node`, `node_restart` (`FairSpec` of MinilabNode): weak fairness of `main()`'s steps and of time; strong fairness of
  the two *successful* zero writes, because `SilenceStops` is about a line that loses writes: one that is tried in every
  loop is not refused for ever. `Restart` is not fair.
- `script` (`QuietSpec` of Roboteq): both threads run, the timer fires (strongly fair: its test `~recent` goes up and
  down), the controller answers and its script prints whatever is due. `QuietSpec` adds that there is silence on the
  line again and again, which commands at less than one per 500 ms give. Without it the driver may never start the
  script: see below.
- `session`: weak fairness of `spinOnce()`, of the steps of `run()` and of each caller's thread, of the handlers of the
  io_service, of the retry with which rosserial_server opens its port again, of what comes to nobody, and of time. The
  program and the faults are not fair, and nobody has to start rosserial_python again: the launch files do not respawn
  it.
- `hokuyo`: weak fairness of both threads and of the scanner's scans; not of `Plug`, failures or requests. Two things
  are strongly fair. `RequestInAGap`: a request for scans is written again and again while no scan is under way,
  because attempts are a second apart and the rest of a scan takes milliseconds. `TooMuchSkipped`: a reader that passes
  over line after line does end, since `MAX_SKIPPED` counts the bytes and the model does not.
- `astra`: weak fairness of each driver's boot, its waiting loop included. Cameras need not come back, drivers need not
  be restarted, and nothing is assumed of the driver's second life, of which only safety is claimed.
- The other specifications state none; their properties are safety.

## Proofs

The proofs hold for all values of the constants that satisfy the named assumptions.

**DriveProofs** about `SafeTeleop`, from `SlotAssumption` and `ReadingAssumption`.
- `TypeCorrect`: `GateSpec => []GateTypeOK`.
- `GateIsSafe`: `GateSpec => []GateHolds`. `GateHolds` speaks of the end of a cycle only, so it is not inductive.
  `GateInv` adds what the earlier steps establish: a slot in `blocked` is blocked by what its lists hold now
  (`BlockedNow`); the slots combined so far show it, and line 80 is not reached for one (`Combining`); hence the branch
  of line 105 is only taken with nothing blocked, and after line 99 the command reverses unless it was replaced
  (`Deciding`). The argument is about any number of slots, which TLC cannot vary.
- `StopsHaveCause` (`StopHasCause`), from `Cause`: the list that `Decide` sees says no more than `seen`, slot by slot, and
  a reading that line 77 found low is still low in line 80 unless it is `torn`.
- `StoppedIsDead`, `UnpassedIsKept`: from `FateInv`, which ties `fate` to `alias`: a passed command is aliased, a new
  one is not, a dead one is null.

**MinilabNodeProofs**, from `CmdAssumption`, `QueueAssumption`, `TimeAssumption`, `FaultAssumption`.
- `TypeCorrect`; the queue's bound is a fact of its own about `Append` and `Tail`.
- `WatchdogWorks` (`WatchdogBound`), from `TimeInv`: no time passes between `spinOnce()` and the end of the watchdog, so
  a wheel that still turns in the long part of the loop obeys a command that was not older than `Timeout` at the test,
  and has aged by no more than the loop since.
- `QueueDrained` (`NothingLeftBehind`: no loop leaves a command in the queue that was there when it began), from
  `QueueInv`: outside the callbacks all that waits came after the last `spinOnce()`, within them what is behind the
  `todo` messages did.
- `RobotStops` (`StopsInTime`), from `StopInv`, which joins the two: the last publication is at most `MaxLoop`, the time
  a command waits, older than the command.
- `ImplementsDeadman` (`KeepsPromise`): initial states map to initial states, and each step to a step of `Deadman` or
  to a stutter; the bound on `Tick` comes from the invariant of `WatchdogWorks`.

**TeleopChainProofs**, from `ScanAssumption`, `PeriodAssumption`, `NodeAssumption` and `CmdAssumption`, for
any scans, commands, queue, timeout, times of a loop and period of the gate.
- The steps of the chain are steps of `MinilabNode` or leave it alone. The invariants of `MinilabNodeProofs` are
  therefore not proved again: that module is instantiated, its assumptions are shown to hold (`NodeConstants`), and its
  lemmas cited through the instance.
- `ObstacleIsHeeded` (`ObstacleStops`). `GateInv`: an `update()` that is to publish began after the last publication, so
  an obstacle older than that has been seen by it, and what it publishes does not drive forward, or was `raced`. `RoadInv`
  then follows the last forward command that was published, which is no older than the obstacle by more than
  `GatePeriod`: at the end of the queue (`LastInv`), in the callbacks (`QueueTimely`, `MsgTimely`), on the wheels
  (`SpeedTimely`). Each place bounds `near_age` by the clocks that run there; with a gate that lives the next
  publication ends the wait, with a dead one the age of the command does, through the watchdog.
- `SilenceIsUnnoticed` (`SilenceUnnoticed`), from `HeardInv`: whenever the node has emptied its queue the last command is
  no older than the last publication of the gate.
- `ComposesBoth`: every behaviour of the chain is one of `SafeTeleopLaser` and one of `MinilabNode`, so whatever holds of
  either alone holds in the chain.

**DriveProofs** about `EncoderOdometry`, from `CountAssumption`, `ReplyAssumption`, `FaultAssumption` and `LoopAssumption`, for any width
of the counts, filter step, version string and number of faults. One invariant, `IInv` (`OdometryInvariant`), has a part
for each property and what they share: what `main()` holds of a wheel is what the driver last returned for it
(`RawFollows`), and a call has one request under way (`OneRequest`).
- `StepsAreBounded` (`StepBounded`): `StepSoFar` says it of the reads that the turn has done already (`AcceptedWithin`,
  `NoneWithin`). It does not need to know what is on the line, and holds with all faults and either `abs()`.
- `TravelIsTrue` (`TravelTrue`): the count the node has of a wheel is the one the board sent last, by `InStep` (without
  faults the line holds the reply to the pending request and nothing else) and `PrevFollows`; what the travel loses by
  rounding is at most a tick a turn. Counts may wrap as often as they like: nothing is assumed of `Position` but
  that it is a set of integers with 0 in it. The arithmetic of the wrap is `DivMod` and the lemmas after it.
- `NeverInStepAgain` (`OutOfStepForever`), from `Surplus`: there is at least a byte more on the line than the pending
  request asks for.

**RoboteqProofs**, from `CountAssumption`, `PromptAssumption` and `LoadedAssumption`, for any limits, length of the script
and number of commands, and of `RoboteqLink` from `ValueAssumption`.
- `TypeCorrect`: types, and each counter below its limit, whether or not the controller is prompt.
- `DownloadIsTrue` (`DownloadTrue`) has the hypothesis `Prompt`, without which it is false (see below). The driver takes
  any `HLD` for the one it asked for and any `+` for the acknowledgement of its line; `DownloadInv` says why neither
  misleads it. An `HLD` that an earlier download left on its way is followed by the `-` with which the controller
  refused the "halt" of the present one (`Marked`), so after it the first line is found refused and the download fails
  (`Refused`). After the genuine one the driver and the controller count the lines together: a line is on its way, or its
  acknowledgement is, or it was the last one and the script is complete (`Loading`); commands of channels are refused
  in that mode and add no `+`. From then to the next download nothing is on its way that could change the script
  (`Succeeded`). The script is started only when nothing else is on its way (`Starting`), so it prints nothing into a
  download.
- `NothingLeft` (`NoDebris`), from `SenderHeld` and `BufferHeld`: if there are words in the sender or the buffer, some
  thread is still before the step in which it clears it.
- `UndisturbedIsIntact` (`AloneIntact`), from `AllIntact`: for a thread that has been alone, sender, buffer and wire hold
  exactly the part of its message that it has put there, place by place; so `tellp()` tells what it should, and each
  separator is the one of the message (`TestWord`).

**CameraProofs** about `Astra`, from `TurnsFitChar`, for any number of drivers, and of one driver about any configurations and any
number of failures.
- `OneAtATimeHolds` (`OneAtATime`), from `TurnInv` (`TurnInvariance`): the byte is the number of the one driver that may
  be booting, those before it have passed, those behind it wait; only the restart of a driver that has passed, which
  `again` records, breaks this. Two drivers that boot would both be the one the byte names.
- `OwnDeviceHolds` (`OwnDevice`), from `OwnInv` (`OwnInvariance`) together with `TurnInv`: while a driver with a serial
  number walks the list, its own camera is still on the list, or excused, or chosen; no other driver is just reading a
  number, since that one would be booting too; so what is opened in the end is its own camera, or there was a reason.
- `SettledHolds` (`Settled`), from `SubsInv` (`SubsInvariance`): a topic whose callback does not wait was seen with the
  subscribers it has now, and no callback runs before every topic has been advertised, so that the publishers that the
  callbacks ask are there.
- `FrameMatchesHolds` (`FrameMatches`), from `RegInv` (`RegInvariance`): the driver's copy of the configuration, that of the
  camera and the registration in the frame under way agree but in the steps of a reconfiguration, which mark that frame
  as `disturbed`, or after a refusal.

**CameraProofs** about `UsbCam`, from `BufferAssumption`, `BoundsAreNat` and `ColourAssumption`, for any finite number of
buffers and all devices.
- `RingIsKept` (`RingKept`), from one invariant (`Invariance`) that says where
  each buffer is at each step of the loop, and that the node has not ended without a failure: the calls that would make
  it end, a buffer queued twice or a stream started twice, are not reachable (`NeverRefused`).
- `FreshEnoughHolds` (`FreshEnough`), from `AgeInv` (`AgesInvariance`). A filled buffer waits for the older ones. `Passed`
  are those that it does not wait for; each turn of the loop moves one buffer there or is interrupted, so their number
  bounds its age (`Waited`), and the ring's size bounds their number. From there the age goes into the one that is in
  hand, and into the image.
- `ColoursAreTrue` (`ColoursTrue`), for any two colours of three bytes side by side, with either chroma, and all levels of
  ten bits: the clipping table is not read outside unless the two differ in luma by more than 90. The divisions are named by
  their remainders (`Quotients`); luma and chroma are then linear bounds (`LumaIs`), `ColourIs` follows them through the
  matrix and the clipping table, and what is left of the order of two components is linear arithmetic (`ShownIs`).

**HokuyoProofs**, from `HokuyoAssumption`, `DataAssumption` and `SampleAssumption`, for any number of scan threads, settings,
tries after plugging in, failures and requests.
- `TakeTurns` (`OneTalker`), from `TurnInv`. What a thread will do is data here, its `todo` list, so the invariant is about
  lists. `Around`, `Deep` and `Nested` say what the calls are made of: plain steps, with tries and tests of the port around
  lists of them, so that what a `try`, a handler or a test puts on the list is of the same kind again (`Tries` to
  `Goes`). `ScanList`: after the scan thread has set the state, it returns. `MainList`: when the scan thread is started or
  joined, nothing is left of the call but handlers and other calls of `driver_base`, which look at the state first.
  `Turn` joins the two lists and the state: while a scan thread is busy it is the one that `doStop()` would join, the
  driver is `RUNNING` or about to join, and the main thread's list is `Calm`, that is, it asks the port for nothing before
  the join. An exception goes on at the first `catch` of a list (`CatchesAt`, from the well-foundedness of `Nat`).
- `FailuresAreCaught` (`Survives`), also after a thread was given up, from `CaughtInv`, which adds `Covered` to `TurnInv`:
  every item of a list that may throw has a `catch` after it, but the second probe for intensities. It is kept because
  whatever is put before such a list either has its own (`CallsBare`) or is put there by an item that had one after it
  (`CoveredCat`); a handler that a bare `try` leaves behind does nothing that throws (`Plain`).
- `ClosesCleanly` (`Released`), from `ReleasedInv`: `TurnInv`, the types of the port (`PortInv`) and `WorkRight`, that what
  each thread still has to do is right. A list is `Right` under conditions (of the port, the scanner, the state, and
  whether a scan thread is busy) when what must be true at its end is true wherever it leads: the pair is in a set of
  lists and conditions that nothing leads out of, neither the thread's steps and exceptions (`Reaches`) nor what failures
  and the other thread do meanwhile (`Meddles`). Such a set need not be written down: `Call(k, l, P, Q, E)` says that l
  leads from the conditions P to Q or throws in E, whatever follows, and the rules for it (`CallCat`, `CallItem`,
  `CallTry`, `CallIf`, `CallWeaker`) follow the code: `CallReset`, `CallClose`, `CallOpen`, `CallDoOpen`, `CallDoStart` and
  so on to `RequestsRight`, one lemma per call. The loop of the scan thread is cut at its test, where its invariant must
  hold (`WhileRight`, `ScanRight`, `EndsRight`), and so is the start of the thread. `Stepping` relates what is said of lists to the actions. It proves more than `Released` asks: the scanner
  is silent at every rest in `CLOSED` before a failure, not only at the node's end. TLC cannot evaluate `Right`, so
  `ReleasedInv` itself has no run; what the lemmas say of each call is what `Released` checks at its end.
- `DataIsTrue` (`DataTrue`), for any radix, length of a line, span of the clock and length of a scan: it depends on none of
  the numbers of SCIP 2. `Got` says what `readData()` holds after p characters of a scan: the whole readings among them,
  and the rest left over; `GotOn` that another line leads from one such state to another, wherever it ends; `LinesAre`
  where the scanner cuts. A changed character changes the sum by less than the radix (`SumShows`), and a spoilt scan stays
  spoilt (`Noticed`). `Told` says what the clock knows after each read, `ToldOn` that the next read keeps it, whether the
  clock goes on, stands still or wraps. The three recursions are functions over places, so `Upwards`, from the
  well-foundedness of `Nat`, does for induction.

**RosserialSessionProofs**, from `EndpointsAreNames`, `TicksAreNat` and `UsesAreNat`, for any number of uses and of
faults, with either host.
- `ParametersTrue` (`ParamTrue`), `AnswersTrue` (`CallTrue`), `ResponsesTrue` (`CallersTrue`). None of the three is
  inductive, since they speak of answers that have arrived. `ParamInv`, `CallInv` and `CallersInv` follow a request
  there and back: it has one frame, or is in the hands of `run()`; only the request under way has one, unless an earlier
  one was given up, broken off or overlapped. `CallersInv` adds that two calls that are open are both in `overlapped`, and
  that a response not yet taken is the one of the only call that is open, or of one that may be confused.
- The first half of the module has what the three share: `StepLines` says that the steps only take frames from the line
  or send frames without a number, except the five that send one of the kind in question (`Kept`); `OnceKept`, `OnceSent` and
  `OnceRead` say what this does to the numbers on the line (`Once`).
- `HiddenByFaults` (`OnlyFaultsHide`), from `HideInv`: a frame that tells an endpoint leaves the line when the host reads it
  (`HideSetUp`), when it is lost (`HideFault`), or when it is flushed, and who flushes asks again (`HideRequested`); the first
  request of a session is always of the second version, the one a device answers. Of all other steps it is enough to
  say that they leave such frames where they are (`HideQuiet`).

**RosserialParserProofs**, from `BaseAssumption`, `IntAssumption`, `TimeAssumption`, `SizeAssumption`, `TopicAssumption` and
`PayloadAssumption`, for any base of a byte, any `int` of two bytes or more (the 16 bits of an AVR board among them), any input
buffer, payloads, timings, and number of frames and of faults.
- `TypeCorrect`, with what the parser relies on: in each mode `bytes_` is what that mode counts down, the sum stays
  within an int, and, of a frame that fits the buffer, the message has as many bytes as its mode says.
- `InOrderCorrect` (`InOrder`). `Parsed(f, p)` is what the parser holds after p bytes of the frame f, and `ReadNext` says that
  the next byte of f leads from `Parsed(f, p)` to `Parsed(f, p + 1)`, or handles f if its sum is still positive: the sum
  grows by the same remainders that `send()` takes, and wraps once or several times (`WrapsOnce`, `WrapsWhole`,
  `Complement`). `Core` then says where the frames are: `Laid`, the bytes not yet read are the rest of the frame being read
  and the whole frames after it; `Reached`, the parser holds what was read of it; `InTime`, that frame is younger than
  the timeout at every test of it, since it has at most been `FrameTime` on the line and waited for two calls of
  `spinOnce()`. What is handled is thereby the frames before it, and `got` one step of `Due` longer with each.
- `FreshFrameCorrect` (`FreshFrameHandled`), from `QuietInv` and `FreshInv`: a silence is longer than the timeout and the
  gap between two calls, so a call of `spinOnce()` in it finds the broken frame too old and returns to `first_ff`
  (`SilenceResets`), if no overrun has led the device `astray` before. From there the same `Core` is about the frames since the silence only, and needs no more to be known
  of the others.
- The sum of the bytes and the list of the frames due are recursive functions. What is needed of them is their equation
  at each place, which follows from the least place where two candidates differ (`Smallest`, `Alike`, `Builds`); no
  induction principle with an operator parameter is used.

**Model-checked only.** All liveness (`CommandGetsThrough`, `SilenceStops`, `LoadedForGood`, `FeedbackFlows`,
`EveryDriverBoots`, and `Recovers` of both modules): liveness under fairness and `ENABLED` are beyond the prover.
`AnglesChecked` of `Hokuyo` has not been proved: it needs to know which settings a call leaves behind, and also that no
exchange of an opening fails by itself, that is, which lines are on the way at each of them. `DownloadTrue` and the
proof of it are about the controller as far as the driver relies on it.

## What the checks found

One run is meant to end in a violation of something the repository says.

- `node_restart`: lines 117-120 of `minilab_node.cpp` loop until `raw_motor_encoder_TEST` is 0 and never read it again.
  A node that is started while the wheels turn (its predecessor died) hangs there, before its watchdog, and the wheels
  turn on; the comment of line 127 says that it "drives with null velocity".

The other observations are conditions of properties, or follow from the code that the modules translate.

Gates, node, motors:

- `update()` of `safe_node.py` tests `self.cmd_in` at line 99 and assigns it at line 100. A forward command that arrives
  in between is published towards an obstacle (for one period of 100 ms); the laser gate has the same window between
  lines 32 and 36. `GateHolds` and `ObstacleStops` except it by name. `ObstacleStops` has one exception more: a gate that
  dies after it has published to a node that is starting up; start-up may take any time, and the command then counts as
  new (`early`).
- The watchdog watches the gate, not the operator: both gates repeat the last command for ever (`SilenceUnnoticed`).
- A gate slower than the watchdog would need more time for a stop while it lives than the watchdog does when it is
  dead: `NearBound` has a case for it. (The gate of the code has 10 Hz, the watchdog 1 s.)
- `Roboteq`'s `Prompt`: the controller answers within 500 ms and before it prints again. With `Prompt = FALSE`
  `DownloadTrue` fails, and `DownloadIsTrue` has it as its hypothesis: a late `+` passes for the acknowledgement of a later line (`controller.cpp:236`).
- The script is started only in silence (`controller.cpp:117`); channels that are sent commands all the time keep it
  from being started. `QuietSpec` says so.
- After a download because of a wrong version nobody starts the script: the status that named the version had set
  `receiving_script_messages`. A download that fails then is not tried again. Hence the premise `script # "old"` of
  `LoadedForGood` and `FeedbackFlows`.
- `controller.cpp:213-214` means to clear the buffer and takes one byte.
- One read of the RoboClaw that comes too early puts requests and replies out of step for good (`OutOfStepForever`);
  only `read_firmware()` or a lost request heal it. The length check of the encoders is commented out
  (`roboclaw.cpp:107`).
- What happens when a count wraps depends on which `abs()` lines 125 and 164 of `roboclaw.cpp` are compiled with
  (`Within`, `leapt`). With that of `long long` the first count after the wrap is a leap that the filter rejects, and so is
  every later one: the odometry stands still. With that of `int` the wrap goes unnoticed, but a step whose difference is
  the most negative `int` passes the filter, since `abs()` of it is negative.
- Line 77 of `safe_node.py` compares an ultrasound reading with the limit and lines 78 and 80 trust the comparison: a
  reading that comes in between is combined as if it were on the other side, and may stop the robot for one period
  without an obstacle (`torn` in `StopHasCause`).

rosserial:

- The sum of a message's bytes is an `int`; where that has 16 bits (AVR boards) a message of some 130 large bytes makes
  it negative and is dropped although it is sound (`node_handle.h:205`). `InOrder` says which frames are handled
  exactly: those that are `Summable`.
- The time requests alone keep both sides "in sync". A request for the topics, or the answer that names an endpoint,
  that is lost while the device is configured is not repeated; only `~require` of rosserial_server makes up for it.
  `missed` has these endpoints, and `requestTopics()` writing past the mutex (`SerialClient.py:371`) is a way into it.
  `OnlyFaultsHide` and `Recovers` bound the damage: nothing else hides an endpoint, and all others are found again.
- `message_in[index_++]` is written without a look at `INPUT_SIZE` (`node_handle.h:207`). A size that is too large comes in
  two ways. Frames have a sum over the size, but a lost byte shifts them: when the first size byte of a request for the topics is lost, the
  rest reads as a size of `0xff00` with a sum that fits, and what follows runs through the buffer. And `send()` of
  rosserial_python drops what is too large only once it knows of a subscriber (`SerialClient.py:658`): a long parameter
  or the answer of a service comes through before. `astray` and `unchecked` are these cases in `FreshFrameHandled` and
  `InOrder`.
- Answers to `call()` carry no number: the late answer of a call that was broken off is taken by the next one
  (`interrupted` in `CallTrue`). `requestParam()` is safe until it gives a parameter up: the late answer then passes for
  the next one, whose own is late in turn, and so on (`expired` in `ParamTrue`).
- All callers of the device's service share `ServiceServer.response` and busy-wait for it: two calls at a time may swap
  their answers or wait for ever, and an answer that none of them took is the next call's (`overlapped` in `CallersTrue`).
- `ServiceClient.handlePacket` blocks `run()` until the service returns, and its exception ends the node (`ended`).
- A session that took noise for the first version of the protocol stays with it (`version = 1`). With `~require` every
  cancelled `required_topics_check()` asks for the topics again, which arms and cancels it again, until the device has
  answered.
- A deleted session leaves handlers behind, and a failing read with a write under way deletes it twice
  (`Session.h:209`): undefined, and not taken further in the model.

Hokuyo:

- The lines of `PP`, `VV` and `II` and the first answer to a request for scans are awaited without a limit, under the
  driver's mutex (`WaitsForever`). `Recovers` excepts such a wait only after a line was lost or the scanner stopped by
  itself (`unanswered`): no call waits for a line that its command does not bring.
- `checkIntensitySupport() || checkAngleRange()` leaves the angles unchecked when the intensity was turned off; the
  scanner then refuses every start (`AnglesChecked`). One lost answer to the probe has the same effect on a scanner that
  does have intensities, since any failure counts as a no. With `calibrate_time` a calibration comes before any check.
- An exception of `isIntensitySupported()` is not caught: unplugging at that moment ends the node (`Survives`).
- A thread that `doStop()` gives up after two seconds leaves two threads on one port; `OneTalker`, `Released`,
  `AnglesChecked` and `Recovers` except it.

Cameras:

- `alreadyOpen` is filled before the camera is opened: after a failure the second attempt skips the driver's own camera
  and opens any other (`excused`). A driver restarted after its turn takes the turn back, or waits for a value that has
  gone by (`again`). `while (*shm != bootOrder);` reads a `char` that is not volatile.
- An exception in the first `configCb()` leaves `config_init_` false and the constructor waits for ever. A refused
  registration is not retried, and a camera that does not support it never registers although its depth images are
  labelled with the colour frame (`refused` in `FrameMatches`). Infrared camera info carries the depth frame
  (`astra_driver.cpp:637`).
- An interrupted `select()` publishes the old image with a new stamp; right after a start it is one from before the stop
  (`FreshEnough`). A picture that cannot be decoded is published black.
- The clipping table of `usb_cam.cpp:246` has 512 places for values of -128 to 383, and nothing tests them. Two
  neighbours share their chroma: beside blue, white is looked up at 513 or more, outside the table. `PairTrue` excepts
  neighbours that differ in luma by more than 90 (`Apart`).
- `YUV2RGB` is not the inverse of BT.601's conversion: a component may come out off by 36, so that two that differ by 47
  may be shown alike. Two that differ by 48 keep their order, for every colour (`PairTrue`).

## What is not modelled

- The range-finder gate's debug topics, battery and tf publications: no state.
- Floating point: odometry in metres, heading, joystick scaling, `odometry_listener`, the numbers of a scan.
- `test_cmd_vel.py`, which turns `/cmd_vel` into the speeds of the two Roboteq channels: one message in, two out, no
  state. There is no watchdog on this path in the code: what the motor controller does in silence is its own setting.
- `RoboClaw`: baud rate and the encoding of commands; the writes without reply are in `MinilabNode`.
- `Roboteq`: `connect()` with its attempts, and the parsing of feedback fields.
- rosserial: the TCP variants (`socket_node.py`, `socket_node.cpp`: one client per socket), the forwarding of published
  messages, mismatches of message types at set-up, logging, diagnostics, the clock that `syncTime()` sets. In `frames`
  one frame is on the line at a time, since frames queue in the host's port.
- Hokuyo: the report of the self test, diagnostics, the calibration's statistics.
- `ros_astra_camera`: data skipping, pixel offsets, the time-stamp filter, synchronisation, exposure and white balance;
  OpenNI is external.
- `usb_cam`: V4L2 controls (brightness, focus), camera info; the kernel is external. `S_FMT` may change what was asked
  for; that `image_` keeps the requested size is the code's assumption, and the model's.
- `minilab_navigation`: `patrol.py` is in the plan; the others send one goal.
- Older copies (`safe_copy.py` raises a NameError at line 88), test scripts, code generators, launch files, URDF, maps,
  the Matlab GUI.

The code outside `src/` – the boards, the motor controller, the scanner, the serial line, ROS – is modelled from how the
code uses it and marked external in the map.

## Plan

Done, in this order: `SafeTeleop`, `MinilabNode` with `Deadman`, `SafeTeleopLaser` and `TeleopChain`, `RoboClaw` and
`EncoderOdometry`, `Roboteq` and `RoboteqLink`, `RosserialParser`, `Hokuyo`, `AstraBoot` and `AstraDriver`, `UsbCam`, and
the rosserial session with both hosts.

Next, most important first:

1. Proofs: `AnglesChecked` of `Hokuyo`, by the rules that `ClosesCleanly` uses, with the settings and the lines on the way
   among the conditions.
2. `Patrol`: goals, the timeout of 300 s, cancellation and shutdown.
3. `xbee_network.py` and the TCP variants, as further hosts of `RosserialSession`.
4. `Roboteq`'s `connect()` and reconnection.

Modules to prove about take their parameters as constants with named assumptions, have one action per operation and
invariants in named parts, and use no `RECURSIVE` operator.
