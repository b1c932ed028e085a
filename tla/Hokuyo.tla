------------------------------- MODULE Hokuyo -------------------------------
(***************************************************************************)
(* hokuyo_node: the driver of the laser scanner.  The main thread opens    *)
(* the port, starts the scan and tries again each second; a scan thread    *)
(* reads the scans; both use the one port and the one state_.              *)
(*                                                                         *)
(* Each call of the driver is the sequence of the things it does, and a    *)
(* thread takes the first of its todo list at a step.  A `try` puts the    *)
(* body before a `catch`; an exception goes on at the first `catch`.       *)
(* Sequences, because what the code does with the port is sequential and   *)
(* every line of it may fail.                                              *)
(*                                                                         *)
(* The scanner (SCIP 2) and driver_base are external.  HokuyoData has what *)
(* is computed from the lines.                                             *)
(***************************************************************************)
EXTENDS HokuyoData

CONSTANTS
  Threads,       \* the scan threads there can be at a time
  Configs,       \* the settings: [intensity, min_ang, max_ang, calibrate_time]
  MinAngle, MaxAngle,  \* what the scanner can do
  SafeSpan,      \* the widest scan with intensities
  IsUTM,         \* the scanner is a UTM-30LX
  HasIntensity,  \* the scanner knows the ME command
  Retries,       \* how often laserOn() is tried again after plugging in (10)
  MaxFaults,     \* bound: how often the scanner or its cable fails
  MaxRequests    \* bound: reconfigurations and self tests

main == "main"
None == "none"

ASSUME HokuyoAssumption ==
  /\ main \notin Threads /\ None \notin Threads
  /\ Configs \subseteq [intensity : BOOLEAN, min_ang : Int, max_ang : Int,
                        calibrate_time : BOOLEAN]
  /\ Retries \in Nat
  /\ {MinAngle, MaxAngle, SafeSpan} \subseteq Int /\ MinAngle <= MaxAngle

VARIABLES
  state_,        \* CLOSED, OPENED, RUNNING
  scan_thread_,  \* the thread that doStop() would join
  lost,          \* lost_scan_thread_count_
  config_,
  calibrated_,
  device_id_,    \* whether the scanner's id is known
  node,          \* up; ended; dead: an exception left its callbacks
  fd,            \* laser_fd_: closed, open, or dead (the device was unplugged)
  todo, ret,     \* of each thread: what is left to do, the last status
  scanner,       \* [plugged, streaming: the command whose scans it sends]
  wire,          \* the lines on the way to the driver
  unanswered,    \* history: a line was lost, or the scanner stopped by itself
  faults, requests

vars == <<state_, scan_thread_, lost, config_, calibrated_, device_id_, node,
          fd, todo, ret, scanner, wire, unanswered, faults, requests>>

driverVars == <<state_, scan_thread_, lost, config_, calibrated_, device_id_>>

Thread == {main} \cup Threads

----------------------------------------------------------------------------
(* The things a thread does. *)
Do(name) == [do |-> name]
Send(cmd) == [do |-> "send", cmd |-> cmd]
Read(cmd) == [do |-> "read", cmd |-> cmd, limited |-> TRUE]
Wait(cmd) == [do |-> "read", cmd |-> cmd, limited |-> FALSE]  \* timeout -1
Set(state) == [do |-> "set", state |-> state]
If(state, then) == [do |-> "if", state |-> state, then |-> then]
Try(body, handler) ==
  [do |-> "try", body |-> body, other |-> handler, corrupted |-> handler]
Catch(try) == [do |-> "catch", other |-> try.other, corrupted |-> try.corrupted]

(* The commands that ask for scans: with the angles of the configuration,  *)
(* for ever (MD, ME) or one (MDc); one at angle 0 or in range (MDp, MEp).  *)
ScanCommands == {"MD", "ME", "MDc", "MDp", "MEp"}

sendCmd(cmd) == <<Send(cmd), Read(cmd)>>
sendCmdUnlimited(cmd) == <<Send(cmd), Wait(cmd)>>

(* The first RS may meet a scan and fail, the second must not. *)
reset ==
  <<Do("flush"), Try(sendCmd("TM2"), <<>>), Try(sendCmd("RS"), <<>>),
    Do("flush")>> \o sendCmd("RS")

IfPort(then) == [do |-> "ifPort", then |-> then]

(* Mutant: the port is not closed when the reset before it fails. *)
CloseHalf == <<IfPort(reset \o <<Do("closePort")>>)>>

close == <<IfPort(<<Try(reset, <<>>), Do("closePort")>>)>>

(* Any line counts as the answer. *)
setToSCIP2 == <<Send("SCIP2.0"), Read("any")>>

(* After the status the lines of the answer are awaited without a limit.   *)

(* Mutant: a line more is awaited than PP brings.                          *)
OneTooMany == sendCmd("PP") \o <<Do("require"), Wait("PP:"), Wait("PP:")>>

querySensorConfig == sendCmd("PP") \o <<Do("require"), Wait("PP:")>>
queryVersionInformation == sendCmd("VV") \o <<Do("require"), Wait("VV:")>>
getStatus == sendCmd("II") \o <<Do("require"), Wait("II:")>>

open ==
  close \o
  <<Do("openPort"),
    Try(<<Do("flush"), Try(reset, setToSCIP2 \o reset)>>
          \o querySensorConfig \o queryVersionInformation,
        <<Do("dropPort"), Do("throw")>>)>>

laserOn == sendCmd("BM") \o <<Do("require")>>
laserOff == sendCmd("QT")

(* The answer to the first QT may be part of a scan. *)
stopScanning == <<Try(laserOff, <<Do("flush")>> \o laserOff)>>

requestScans(cmd) == sendCmdUnlimited(cmd)

(* A scan, of whatever request: a line that begins with M. *)
serviceScan == Wait("M")
serviceScanLimited == Read("M")

pollScan == sendCmd("GD")

(* The status of a request is not looked at, only whether a scan comes. *)
isIntensitySupported(yes, no) ==
  <<Try(requestScans("MEp") \o <<serviceScanLimited>> \o yes,
        requestScans("MDp") \o <<serviceScanLimited>> \o no)>>

getHokuyoClockOffset ==
  sendCmdUnlimited("TM0") \o sendCmdUnlimited("TM1") \o <<Wait("any")>>
    \o sendCmdUnlimited("TM2")

getHokuyoScanStampToSystemStampOffset ==
  requestScans("MDc") \o <<Do("require"), serviceScan>>

(* One of the code's ten samples. *)
calcLatency ==
  getHokuyoClockOffset \o getHokuyoScanStampToSystemStampOffset
    \o getHokuyoClockOffset

----------------------------------------------------------------------------
(* The driver's operations. *)
doClose == <<Try(close, <<>>), Set("CLOSED")>>

(* laserOn(), and again after a second as long as tries are left. *)
Again(retries) == [do |-> "again", retries |-> retries]
PluggedIn(retries) ==
  IF retries = 0 THEN laserOn ELSE <<Try(laserOn, <<Again(retries - 1)>>)>>

doOpen(known) ==
  <<Try(open \o <<Do("getID")>> \o getStatus \o <<Do("status")>>
          \o (IF known THEN laserOn ELSE PluggedIn(Retries))
          \o <<Do("calibrate"), Set("OPENED")>>,
        doClose)>>

(* Mutant: a failed start leaves the driver open. *)
StartTried(config) ==
  <<Try(laserOn \o requestScans(IF config.intensity THEN "ME" ELSE "MD")
          \o <<Do("started")>>, <<>>)>>

(* Mutant: a failed start is not caught. *)
StartUncaught(config) ==
  laserOn \o requestScans(IF config.intensity THEN "ME" ELSE "MD") \o <<Do("started")>>

doStart(config) ==
  <<Try(laserOn \o requestScans(IF config.intensity THEN "ME" ELSE "MD")
          \o <<Do("started")>>,
        doClose)>>

doStop == <<Do("doStop")>>

(* serviceScan until state_ changes; garbled data are skipped, any other   *)
(* exception closes the port and ends the thread.                          *)
scanThread ==
  <<[do |-> "try", body |-> <<serviceScan, Do("useScan")>>,
     other |-> doClose \o <<Do("return")>>, corrupted |-> <<>>],
    Do("while")>>

(* Mutant: the state is given back before the scan is stopped. *)
StateFirst == <<Set("OPENED"), Try(stopScanning, <<>>)>>

scanThreadEnds == <<Try(stopScanning, <<>>), Set("OPENED")>>

(* checkAngleRange(), its four adjustments in their order. *)
CheckAngleRange(conf) ==
  LET min == IF conf.min_ang < MinAngle THEN MinAngle ELSE conf.min_ang
      safe == IF conf.intensity /\ IsUTM /\ conf.max_ang - min > SafeSpan
              THEN min + SafeSpan ELSE conf.max_ang
      max == IF safe > MaxAngle THEN MaxAngle ELSE safe
      top == IF min > max /\ max < MinAngle THEN MinAngle ELSE max
  IN [conf EXCEPT !.min_ang = IF min > top THEN top ELSE min, !.max_ang = top]

NoIntensity(conf) == [conf EXCEPT !.intensity = FALSE]

SetConfig(conf) == [do |-> "config", config |-> conf]

(* config_update(): only an open scanner is asked. *)
config_update(new) ==
  IF state_ # "OPENED" THEN <<SetConfig(new)>>
  ELSE IF new.intensity
  THEN isIntensitySupported(<<SetConfig(CheckAngleRange(new))>>,
                            <<SetConfig(CheckAngleRange(NoIntensity(new)))>>)
  ELSE <<SetConfig(CheckAngleRange(new))>>

(* Mutant: the angles are not checked when the scanner was opened. *)
NothingChecked(conf) == <<SetConfig(conf)>>

(* postOpenHook(): checkIntensitySupport() || checkAngleRange(), so the    *)
(* angles are not looked at when the intensity had to be turned off.       *)
postOpenHook(conf) ==
  IF conf.intensity
  THEN isIntensitySupported(<<SetConfig(CheckAngleRange(conf))>>,
                            <<SetConfig(NoIntensity(conf))>>)
  ELSE <<SetConfig(CheckAngleRange(conf))>>

(* driver_base: from the present state to another.  (External.) *)
goOpened == <<If("CLOSED", <<Do("doOpen"), If("OPENED", <<Do("opened")>>)>>)>>
goRunning == goOpened \o <<If("OPENED", <<Do("doStart")>>)>>
goClosed == <<If("RUNNING", doStop), If("OPENED", doClose)>>
goTo(state) ==
  CASE state = "CLOSED"  -> goClosed
    [] state = "OPENED"  -> goOpened \o <<If("RUNNING", doStop)>>
    [] state = "RUNNING" -> goRunning

(* The tests of the node, each within a try of the self test library.      *)
OpenedTests ==
  <<Try(getStatus, <<>>), Try(laserOn, <<>>), Try(pollScan, <<>>),
    Try(requestScans("MDp") \o <<serviceScanLimited>>, <<>>),
    Try(laserOff, <<>>)>>

----------------------------------------------------------------------------
Init ==
  /\ state_ = "CLOSED" /\ scan_thread_ = None /\ lost = 0
  /\ config_ \in Configs
  /\ calibrated_ = FALSE /\ device_id_ = FALSE
  /\ node = "up"
  /\ fd = "closed"
  /\ todo = [t \in Thread |-> IF t = main THEN goRunning ELSE <<>>]
  /\ ret = [t \in Thread |-> "00"]
  /\ \E s \in {None, "MD"} : scanner = [plugged |-> TRUE, streaming |-> s]
  /\ wire = <<>>
  /\ unanswered = FALSE /\ faults = 0 /\ requests = 0

Idle(t) == todo[t] = <<>>
At(t, name) == node = "up" /\ todo[t] # <<>> /\ Head(todo[t]).do = name
Goto(t, list) == todo' = [todo EXCEPT ![t] = list]
Rest(t) == Tail(todo[t])
Continue(t) == Goto(t, Rest(t)) /\ UNCHANGED node


(* An exception goes on at the first catch; with none it leaves the thread *)
(* and ends the node.                                                      *)
CatchAt(list) == SelectInSeq(list, LAMBDA i : i.do = "catch")
Beyond(list) == SubSeq(list, CatchAt(list) + 1, Len(list))

Throw(t, kind) ==
  IF CatchAt(todo[t]) = 0 THEN Goto(t, <<>>) /\ node' = "dead"
  ELSE /\ Goto(t, todo[t][CatchAt(todo[t])][kind] \o Beyond(todo[t]))
       /\ UNCHANGED node

Except(t) == Throw(t, "other")

----------------------------------------------------------------------------
(* The port.  Every call of it fails once the scanner was unplugged.       *)
ports == <<fd, scanner, wire>>

laserFlush(t) ==
  /\ At(t, "flush")
  /\ IF fd = "open" THEN Continue(t) /\ wire' = <<>>
     ELSE Except(t) /\ UNCHANGED wire
  /\ UNCHANGED <<fd, scanner, driverVars, ret, unanswered, faults, requests>>

Answer(cmd, status) == [echo |-> cmd, status |-> status]

AnglesInRange(conf) ==
  MinAngle <= conf.min_ang /\ conf.min_ang <= conf.max_ang /\ conf.max_ang <= MaxAngle

(* What an SCIP 2 scanner answers at once, and what it streams then.       *)
(* (External.)  0E: the command is not known.                              *)
Answers(cmd) ==
  CASE cmd \in {"PP", "VV", "II"} ->
         <<Answer(cmd, "00"), Answer(CASE cmd = "PP" -> "PP:" [] cmd = "VV" -> "VV:"
                                       [] cmd = "II" -> "II:", "00")>>
    [] cmd = "TM1" -> <<Answer(cmd, "00"), Answer("time", "00")>>
    [] cmd \in {"ME", "MEp"} /\ ~HasIntensity -> <<Answer(cmd, "0E")>>
    [] cmd \in {"MD", "ME", "MDc"} /\ ~AnglesInRange(config_) -> <<Answer(cmd, "05")>>
    [] cmd \in {"MDc", "MDp", "MEp"} -> <<Answer(cmd, "00"), Answer(cmd, "99")>>
    [] OTHER -> <<Answer(cmd, "00")>>

Streams(cmd) ==
  CASE cmd \in {"RS", "QT"} -> None
    [] cmd \in {"MD", "ME"} /\ Head(Answers(cmd)).status = "00" -> cmd
    [] OTHER -> scanner.streaming

laserWrite(t) ==
  /\ At(t, "send")
  /\ IF fd = "open"
     THEN /\ Continue(t)
          /\ wire' = wire \o Answers(Head(todo[t]).cmd)
          /\ scanner' = [scanner EXCEPT !.streaming = Streams(Head(todo[t]).cmd)]
     ELSE Except(t) /\ UNCHANGED <<wire, scanner>>
  /\ UNCHANGED <<fd, driverVars, ret, unanswered, faults, requests>>

IsAnswer(line, cmd) ==
  \/ cmd = "any" \/ line.echo = cmd
  \/ cmd = "M" /\ line.echo \in ScanCommands

(* laserReadlineAfter() passes over the lines that do not begin with cmd;  *)
(* then the status is checked.  For serviceScan() a 99 is its success.     *)
laserReadline(t) ==
  /\ At(t, "read") /\ fd = "open" /\ wire # <<>>
  /\ wire' = Tail(wire)
  /\ LET line == Head(wire)
         cmd == Head(todo[t]).cmd
     IN CASE ~IsAnswer(line, cmd) ->
               UNCHANGED <<todo, node, ret>>
          [] IsAnswer(line, cmd) /\ line.status = "bad" ->
               Throw(t, "corrupted") /\ UNCHANGED ret
          [] IsAnswer(line, cmd) /\ line.status = "0E" ->
               Except(t) /\ UNCHANGED ret
          [] OTHER ->
               /\ Continue(t)
               /\ ret' = [ret EXCEPT ![t] =
                            IF cmd = "M" /\ line.status = "99" THEN "00" ELSE line.status]
  /\ UNCHANGED <<fd, scanner, driverVars, unanswered, faults, requests>>

(* MAX_SKIPPED bytes passed over. *)
TooMuchSkipped(t) ==
  /\ At(t, "read") /\ fd = "open" /\ wire # <<>>
  /\ ~IsAnswer(Head(wire), Head(todo[t]).cmd)
  /\ wire' = Tail(wire)
  /\ Except(t)
  /\ UNCHANGED <<fd, scanner, driverVars, ret, unanswered, faults, requests>>

(* The time is up, or the port reports an error.  A closed port reports    *)
(* nothing: poll() passes over a descriptor of -1.                         *)
ReadFails(t) ==
  /\ At(t, "read")
  /\ fd = "dead" \/ (Head(todo[t]).limited /\ (wire = <<>> \/ fd = "closed"))
  /\ Except(t)
  /\ UNCHANGED <<ports, driverVars, ret, unanswered, faults, requests>>

openPort(t) ==
  /\ At(t, "openPort")
  /\ IF scanner.plugged THEN fd' = "open" /\ Continue(t)
     ELSE Except(t) /\ UNCHANGED fd
  /\ UNCHANGED <<scanner, wire, driverVars, ret, unanswered, faults, requests>>

closePort(t) ==
  /\ At(t, "closePort") \/ At(t, "dropPort")
  /\ fd' = "closed"
  /\ wire' = <<>>
  /\ Continue(t)
  /\ UNCHANGED <<scanner, driverVars, ret, unanswered, faults, requests>>

(* close() does nothing to a port that is not open. *)
ifPort(t) ==
  /\ At(t, "ifPort")
  /\ Goto(t, (IF fd = "closed" THEN <<>> ELSE Head(todo[t]).then) \o Rest(t))
  /\ UNCHANGED <<node, ports, driverVars, ret, unanswered, faults, requests>>

----------------------------------------------------------------------------
(* What is decided between the calls of the port. *)
Control(t) ==
  \/ At(t, "try") /\ UNCHANGED node /\
     Goto(t, Head(todo[t]).body \o <<Catch(Head(todo[t]))>> \o Rest(t))
  \/ At(t, "catch") /\ Continue(t)
  \/ At(t, "throw") /\ Except(t)
  \/ At(t, "return") /\ Goto(t, <<>>) /\ UNCHANGED node
  \/ /\ At(t, "if") /\ UNCHANGED node
     /\ Goto(t, (IF state_ = Head(todo[t]).state THEN Head(todo[t]).then ELSE <<>>)
                  \o Rest(t))
  \/ /\ At(t, "while") /\ UNCHANGED node
     /\ Goto(t, IF state_ = "RUNNING" THEN scanThread ELSE scanThreadEnds)
  \/ /\ At(t, "opened") /\ UNCHANGED node
     /\ Goto(t, postOpenHook(config_) \o Rest(t))
  \/ /\ At(t, "update") /\ UNCHANGED node
     /\ Goto(t, config_update(Head(todo[t]).config) \o Rest(t))
  \/ /\ At(t, "again") /\ UNCHANGED node
     /\ Goto(t, PluggedIn(Head(todo[t]).retries) \o Rest(t))
  \/ /\ At(t, "doStart") /\ UNCHANGED node
     /\ Goto(t, doStart(config_) \o Rest(t))

ControlStep(t) ==
  Control(t) /\ UNCHANGED <<ports, driverVars, ret, unanswered, faults, requests>>

(* A status that is not 0 becomes an exception, ends doOpen(), or is left. *)
Checked(t) ==
  /\ \/ /\ At(t, "require")
        /\ IF ret[t] = "00" THEN Continue(t) ELSE Except(t)
     \/ /\ At(t, "status")
        /\ IF ret[t] = "00" THEN Continue(t)
           ELSE Goto(t, doClose \o Beyond(todo[t])) /\ UNCHANGED node
  /\ ret' = [ret EXCEPT ![t] = "00"]
  /\ UNCHANGED <<ports, driverVars, unanswered, faults, requests>>

BeginOpen(t) ==
  /\ At(t, "doOpen")
  /\ Goto(t, doOpen(device_id_) \o Rest(t))
  /\ device_id_' = FALSE
  /\ UNCHANGED <<node, ports, state_, scan_thread_, lost, config_, calibrated_,
                 ret, unanswered, faults, requests>>

getID(t) ==
  /\ At(t, "getID")
  /\ device_id_' = TRUE
  /\ Continue(t)
  /\ UNCHANGED <<ports, state_, scan_thread_, lost, config_, calibrated_,
                 ret, unanswered, faults, requests>>

(* An opening that does not calibrate also forgets that it once did. *)
Calibrate(t) ==
  /\ \/ /\ At(t, "calibrate") /\ UNCHANGED node
        /\ IF config_.calibrate_time /\ ~calibrated_
           THEN Goto(t, calcLatency \o <<Do("calibrated")>> \o Rest(t)) /\ UNCHANGED calibrated_
           ELSE Goto(t, Rest(t)) /\ calibrated_' = FALSE
     \/ At(t, "calibrated") /\ Continue(t) /\ calibrated_' = TRUE
  /\ UNCHANGED <<ports, state_, scan_thread_, lost, config_, device_id_,
                 ret, unanswered, faults, requests>>

SetState(t) ==
  /\ At(t, "set")
  /\ state_' = Head(todo[t]).state
  /\ Continue(t)
  /\ UNCHANGED <<ports, scan_thread_, lost, config_, calibrated_, device_id_,
                 ret, unanswered, faults, requests>>

SetTheConfig(t) ==
  /\ At(t, "config")
  /\ config_' = Head(todo[t]).config
  /\ Continue(t)
  /\ UNCHANGED <<ports, state_, scan_thread_, lost, calibrated_, device_id_,
                 ret, unanswered, faults, requests>>

(* The scans were granted, or the driver stays OPENED. *)
Started ==
  /\ At(main, "started")
  /\ ret' = [ret EXCEPT ![main] = "00"]
  /\ IF ret[main] # "00"
     THEN Continue(main) /\ UNCHANGED <<state_, scan_thread_>>
     ELSE \E s \in Threads :
            /\ Idle(s)
            /\ state_' = "RUNNING"
            /\ scan_thread_' = s
            /\ todo' = [todo EXCEPT ![main] = Rest(main), ![s] = <<Do("while")>>]
            /\ UNCHANGED node
  /\ UNCHANGED <<ports, lost, config_, calibrated_, device_id_, unanswered, faults, requests>>

(* doStop(): the test of state_, then its assignment and the wait. *)
Stopping ==
  /\ At(main, "doStop")
  /\ Goto(main, (IF state_ = "RUNNING" THEN <<Set("OPENED"), Do("join")>> ELSE <<>>)
                  \o Rest(main))
  /\ UNCHANGED <<node, ports, driverVars, ret, unanswered, faults, requests>>

(* timed_join: the thread ended, or two seconds have passed. *)
Join ==
  /\ At(main, "join")
  /\ scan_thread_' = None
  /\ \/ /\ scan_thread_ = None \/ Idle(scan_thread_)
        /\ UNCHANGED lost
     \/ /\ scan_thread_ # None /\ ~Idle(scan_thread_)
        /\ lost' = lost + 1
  /\ Continue(main)
  /\ UNCHANGED <<ports, state_, config_, calibrated_, device_id_, ret, unanswered, faults, requests>>

(* A scan is published, or its status ends the loop. *)
useScan(t) ==
  /\ At(t, "useScan") /\ UNCHANGED node
  /\ ret' = [ret EXCEPT ![t] = "00"]
  /\ Goto(t, IF ret[t] = "00" THEN Rest(t) ELSE scanThreadEnds)
  /\ UNCHANGED <<ports, driverVars, unanswered, faults, requests>>

----------------------------------------------------------------------------
(* driver_base: spin() tries to run each second; a reconfiguration and a   *)
(* self test leave the state they found; at its end the node closes.       *)
MainIdle == node = "up" /\ Idle(main)

Give(list) == todo' = [todo EXCEPT ![main] = list]

Spin ==
  /\ MainIdle /\ state_ # "RUNNING"
  /\ Give(goRunning)
  /\ UNCHANGED <<node, ports, driverVars, ret, unanswered, faults, requests>>

Request(list) ==
  /\ MainIdle /\ requests < MaxRequests
  /\ requests' = requests + 1
  /\ Give(list)
  /\ UNCHANGED <<node, ports, driverVars, ret, unanswered, faults>>

Level(new) == IF new.calibrate_time # config_.calibrate_time THEN "CLOSED" ELSE "OPENED"

Reconfigure(new) ==
  Request((IF state_ = "CLOSED" THEN <<>> ELSE goTo(Level(new)))
            \o <<[do |-> "update", config |-> new]>> \o goTo(state_))

SelfTest ==
  Request(goTo("OPENED") \o <<If("OPENED", OpenedTests)>> \o goTo(state_))

Shutdown == Request(goClosed \o <<Do("exit")>>)

Exit ==
  /\ At(main, "exit")
  /\ node' = "ended"
  /\ Goto(main, <<>>)
  /\ UNCHANGED <<ports, driverVars, ret, unanswered, faults, requests>>

----------------------------------------------------------------------------
(* The scanner and its cable. *)
Scan ==
  /\ scanner.plugged /\ scanner.streaming # None /\ fd = "open" /\ wire = <<>>
  /\ wire' = <<Answer(scanner.streaming, "99")>>
  /\ UNCHANGED <<fd, scanner, driverVars, node, todo, ret, unanswered, faults, requests>>

Unplug ==
  /\ scanner.plugged
  /\ scanner' = [plugged |-> FALSE, streaming |-> None]
  /\ fd' = IF fd = "open" THEN "dead" ELSE fd
  /\ wire' = <<>>

Garble ==
  /\ wire # <<>>
  /\ wire' = [wire EXCEPT ![1].status = "bad"]
  /\ UNCHANGED <<fd, scanner>>

Lose == wire # <<>> /\ wire' = Tail(wire) /\ UNCHANGED <<fd, scanner>>

Refuse ==
  /\ wire # <<>>
  /\ wire' = [wire EXCEPT ![1].status = "01"]
  /\ UNCHANGED <<fd, scanner>>

FallSilent ==
  /\ scanner.streaming # None
  /\ scanner' = [scanner EXCEPT !.streaming = None]
  /\ UNCHANGED <<fd, wire>>

Fault ==
  /\ faults < MaxFaults
  /\ faults' = faults + 1
  /\ \/ (Unplug \/ Garble \/ Refuse) /\ UNCHANGED unanswered
     \/ (Lose \/ FallSilent) /\ unanswered' = TRUE
  /\ UNCHANGED <<driverVars, node, todo, ret, requests>>

Plug ==
  /\ ~scanner.plugged
  /\ scanner' = [plugged |-> TRUE, streaming |-> None]
  /\ UNCHANGED <<fd, wire, driverVars, node, todo, ret, unanswered, faults, requests>>

----------------------------------------------------------------------------
Step(t) ==
  \/ laserFlush(t) \/ laserWrite(t) \/ laserReadline(t) \/ TooMuchSkipped(t)
  \/ ReadFails(t) \/ openPort(t) \/ closePort(t) \/ ifPort(t)
  \/ ControlStep(t) \/ Checked(t) \/ BeginOpen(t) \/ getID(t) \/ Calibrate(t)
  \/ SetState(t) \/ SetTheConfig(t) \/ useScan(t)

MainStep == Step(main) \/ Started \/ Stopping \/ Join \/ Spin \/ Exit

Next ==
  \/ MainStep
  \/ \E s \in Threads : Step(s)
  \/ \E new \in Configs : Reconfigure(new)
  \/ SelfTest \/ Shutdown
  \/ Scan \/ Fault \/ Plug

(* Each thread goes on.  What the code's counters and delays decide is     *)
(* strong: bytes passed over without end exceed MAX_SKIPPED, and with a    *)
(* second between the attempts to start one meets no scan in its midst.    *)
RequestInAGap ==
  At(main, "send") /\ Head(todo[main]).cmd \in ScanCommands /\ wire = <<>> /\ laserWrite(main)

Fairness ==
  /\ WF_vars(MainStep) /\ SF_vars(RequestInAGap)
  /\ SF_vars(TooMuchSkipped(main))
  /\ \A s \in Threads : WF_vars(Step(s)) /\ SF_vars(TooMuchSkipped(s))
  /\ WF_vars(Scan)

Spec == Init /\ [][Next]_vars /\ Fairness

----------------------------------------------------------------------------
OnThePort(t) ==
  \E name \in {"send", "read", "flush", "openPort", "closePort", "dropPort"} : At(t, name)

(* Two threads never use the port at once, as long as doStop() has given   *)
(* up on none (the two seconds of timed_join).                             *)
OneTalker ==
  lost = 0 => \A s, t \in Thread : OnThePort(s) /\ OnThePort(t) => s = t

(* A driver at rest in CLOSED holds no port, whichever thread closed it    *)
(* and at whichever failure; and unless something failed a node that has   *)
(* ended leaves a scanner that does not scan (close, doClose, goClosed).   *)
Released ==
  state_ = "CLOSED" /\ lost = 0 /\ (\A t \in Thread : Idle(t)) =>
    /\ fd = "closed"
    /\ node = "ended" /\ faults = 0 => scanner.streaming = None

(* An open scanner is asked for angles that it has, except those of a      *)
(* configuration whose intensity was just turned off (postOpenHook's ||).  *)
(* One failure of the probe is enough to take a scanner for one without.   *)
AnglesChecked ==
  MainIdle /\ state_ # "CLOSED" /\ lost = 0 /\ ~AnglesInRange(config_) =>
    ~config_.intensity /\ (faults = 0 => ~HasIntensity)

(* Unplugging, garbled and lost lines do not end the node, save while it   *)
(* asks whether the scanner has intensities (isIntensitySupported): there  *)
(* the exception leaves the callback.                                      *)
Survives ==
  [][node = "up" /\ node' = "dead" =>
       /\ Head(todo[main]).do \in {"send", "read"}
       /\ Head(todo[main]).cmd \in {"MDp", "M"}]_vars

(* What a running driver publishes is what the scanner measured, and its   *)
(* stamps go on with the scanner's wrapping clock (readData, readTime).    *)
DataTrue == state_ = "RUNNING" => ScanArrives /\ ClockUnwraps

(* A thread that waits without a limit for what nobody will send.  Only    *)
(* what was sent and lost, or a scanner that stopped, may leave it there.  *)
WaitsForever(t) ==
  At(t, "read") /\ ~Head(todo[t]).limited /\ wire = <<>> /\ scanner.streaming = None

(* Once the scanner stays plugged in, scans are published again and again, *)
(* whatever has happened before, unless the line of a wait without limit   *)
(* was lost on the way or the scanner stopped by itself, a thread was      *)
(* given up, the angles are impossible, or the node has ended: no call     *)
(* waits for more lines than its command brings, and any other failure     *)
(* ends in a new attempt (doOpen, scanThread, driver_base's spin).         *)
CanWork ==
  /\ scanner.plugged /\ node = "up" /\ lost = 0
  /\ AnglesInRange(config_)
  /\ \A t \in Thread : WaitsForever(t) => ~unanswered

Recovers ==
  <>[]CanWork => []<><<\E t \in Threads : useScan(t) /\ ret[t] = "00">>_vars
=============================================================================
