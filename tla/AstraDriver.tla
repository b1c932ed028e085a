---------------------------- MODULE AstraDriver ----------------------------
(***************************************************************************)
(* A camera driver that has its camera (astra_driver.cpp, astra_device.cpp, *)
(* astra_frame_listener.cpp): subscribers that come and go start and stop  *)
(* the streams, dynamic_reconfigure changes the camera while OpenNI's own  *)
(* threads deliver frames.                                                 *)
(*                                                                         *)
(* Three threads: the constructor (onInit of the nodelet), the one ROS     *)
(* thread of the nodelet's callbacks, and the frame threads. Only the      *)
(* constructor and the connect callbacks take connect_mutex_.              *)
(***************************************************************************)
EXTENDS Naturals, Sequences, FiniteSets

CONSTANTS
  Configs,      \* the configurations sent: mode numbers and depth_registration
  HasColor,     \* hasColorSensor() of the cameras there are
  PowerOn,      \* the modes a camera may come up with: of each stream
  Supported,    \* the modes a camera supports
  Calibrated,   \* the widths of the saved calibrations, of "rgb" and of "ir"
  MaxDriverFaults \* bound: modes, registrations and starts OpenNI refuses

Stream == {"color", "ir", "depth"}
Topic == {"color", "ir", "raw", "depth"}

(* pub_depth_raw_ and pub_depth_ are fed by one stream.                    *)
StreamOf(t) == IF t = "raw" THEN "depth" ELSE t

VARIABLES
  color,        \* device_->hasColorSensor()
  registers,    \* device_->isImageRegistrationModeSupported()
  ctor,         \* where the constructor is
  config,       \* the fields that configCb() sets
  old_config_, config_init_,
  applying,     \* configCb in progress: its thread and next step, or Nobody
  hw,           \* the camera's modes and registration
  refused,      \* history: the registration was refused, or unsupported
  aborted,      \* history: configCb() was left by an exception
  subs,         \* the topics that have subscribers
  announced,    \* the topics a subscriber can find
  assigned,     \* the topics whose publisher pub_..._ has been assigned
  pending,      \* connect callbacks that wait for the ROS thread
  seen,         \* ..._subscribers_: the topics last found to have subscribers
  started,      \* ..._video_started_
  running,      \* streams that OpenNI did start
  frame,        \* the depth frame in newDepthFrameCallback(), or NoFrame
  sent,         \* the last image published with its camera info, or NoFrame
  driverFaults

configVars == <<config, old_config_, config_init_, applying, hw, refused, aborted>>
topicVars == <<subs, announced, assigned, pending>>
streamVars == <<seen, started, running>>
frameVars == <<frame, sent>>
driverVars == <<color, registers, ctor, configVars, topicVars, streamVars, frameVars, driverFaults>>

Nobody == [thread |-> "nobody", step |-> "none"]
NoFrame == [stream |-> "none"]

(* genVideoModeTableMap(): resolution and rate of each mode.               *)
VideoModes == <<
  [x |-> 1280, y |-> 1024, hz |-> 30], [x |-> 1280, y |-> 1024, hz |-> 15],
  [x |-> 1280, y |-> 720, hz |-> 30], [x |-> 1280, y |-> 720, hz |-> 15],
  [x |-> 640, y |-> 480, hz |-> 30], [x |-> 640, y |-> 480, hz |-> 25],
  [x |-> 320, y |-> 240, hz |-> 25], [x |-> 320, y |-> 240, hz |-> 30],
  [x |-> 320, y |-> 240, hz |-> 60], [x |-> 160, y |-> 120, hz |-> 25],
  [x |-> 160, y |-> 120, hz |-> 30], [x |-> 160, y |-> 120, hz |-> 60]>>

(* A video mode has a pixel format as well: configCb() assigns the one of  *)
(* each stream.                                                            *)
PixelFormat == [ir |-> "GRAY16", color |-> "RGB888", depth |-> "DEPTH_1_MM"]
VideoMode(s, n) == [mode |-> VideoModes[n], pixel_format |-> PixelFormat[s]]

Topics == <<"color", "ir", "raw", "depth">>     \* as they are advertised
Present(t) == t # "color" \/ color

DriverInit ==
  /\ color \in HasColor /\ registers \in BOOLEAN
  /\ ctor = "configure" /\ applying = Nobody
  /\ config \in Configs /\ old_config_ = config /\ config_init_ = FALSE
  /\ \E m \in PowerOn :
       hw = [color |-> m.color, ir |-> m.ir, depth |-> m.depth, reg |-> FALSE]
  /\ refused = FALSE /\ aborted = FALSE
  /\ subs = {} /\ announced = {} /\ assigned = {} /\ pending = {}
  /\ seen = {} /\ started = {} /\ running = {}
  /\ frame = NoFrame /\ sent = NoFrame
  /\ driverFaults = 0

Fault == driverFaults < MaxDriverFaults /\ driverFaults' = driverFaults + 1

-----------------------------------------------------------------------------
(* configCb(), in the constructor (setCallback, line 131) or in the ROS    *)
(* thread. First its fields are set; a frame under way sees them change.   *)
Disturb == frame' = IF frame = NoFrame THEN NoFrame ELSE [frame EXCEPT !.disturbed = TRUE]

configCb(thread, c) ==
  /\ applying = Nobody
  /\ config' = c
  /\ applying' = [thread |-> thread, step |-> "modes"]
  /\ Disturb
  /\ UNCHANGED <<color, registers, ctor, old_config_, config_init_, hw, refused, aborted,
                 topicVars, streamVars, sent, driverFaults>>

Step(s) == applying # Nobody /\ applying.step = s

(* setIRVideoMode(), setColorVideoMode(), setDepthVideoMode(): a mode that *)
(* is supported and differs from the camera's, in resolution, rate or      *)
(* pixel format, is set.                                                   *)
isVideoModeSupported(mode) == mode \in Supported
getVideoMode(s) == hw[s]

Wanted == {s \in Stream :
  /\ s = "color" => color
  /\ isVideoModeSupported(VideoMode(s, config[s]))
  /\ VideoMode(s, config[s]) # getVideoMode(s)}

setVideoModes(done) ==
  [s \in DOMAIN hw |-> IF s \in done THEN VideoMode(s, config[s]) ELSE hw[s]]

SetModes ==
  /\ Step("modes")
  /\ hw' = setVideoModes(Wanted)
  /\ applying' = [applying EXCEPT !.step = "registration"]
  /\ Disturb
  /\ UNCHANGED <<color, registers, ctor, config, old_config_, config_init_, refused, aborted,
                 topicVars, streamVars, sent, driverFaults>>

(* The camera refuses one of them, and the exception leaves configCb();    *)
(* dynamic_reconfigure catches and logs it.                                *)
Order(s) == CASE s = "ir" -> 1 [] s = "color" -> 2 [] s = "depth" -> 3

ModeRefused ==
  /\ Step("modes") /\ Fault
  /\ \E s \in Wanted : hw' = setVideoModes({r \in Wanted : Order(r) < Order(s)})
  /\ applying' = Nobody
  /\ aborted' = TRUE
  /\ Disturb
  /\ UNCHANGED <<color, registers, ctor, config, old_config_, config_init_, refused,
                 topicVars, streamVars, sent>>

(* Lines 329-372 and 264-268. A refused registration is caught and logged; *)
(* synchronization, exposure and white balance follow in the same way and  *)
(* leave nothing that is modelled.                                         *)
Done ==
  /\ applying' = Nobody
  /\ old_config_' = config /\ config_init_' = TRUE /\ aborted' = FALSE
  /\ Disturb
  /\ UNCHANGED <<color, registers, ctor, config, topicVars, streamVars, sent>>

(* Mutant: the new configuration is stored before it is applied.           *)
StoredFirst == ~config_init_

RegistrationDiffers == ~config_init_ \/ old_config_.reg # config.reg

setImageRegistrationMode(enabled) == hw' = [hw EXCEPT !.reg = enabled]

(* A camera that cannot register depth to colour is not asked to.          *)
applyConfigToOpenNIDevice ==
  /\ Step("registration")
  /\ IF registers /\ RegistrationDiffers
     THEN setImageRegistrationMode(config.reg) /\ refused' = FALSE
     ELSE refused' = (refused \/ ~registers) /\ UNCHANGED hw
  /\ Done
  /\ UNCHANGED driverFaults

RegistrationRefused ==
  /\ Step("registration") /\ registers /\ RegistrationDiffers /\ Fault
  /\ refused' = TRUE
  /\ Done
  /\ UNCHANGED hw

-----------------------------------------------------------------------------
(* The constructor: configCb(), the wait of lines 133-137 (for ever, if    *)
(* configCb() was left by an exception and no one reconfigures), then the  *)
(* topics, each announced by advertiseCamera() before its publisher is     *)
(* assigned.                                                               *)
Configure ==
  /\ ctor = "configure" /\ ctor' = "wait"
  /\ applying = Nobody /\ applying' = [thread |-> "ctor", step |-> "modes"]
  /\ UNCHANGED <<color, registers, config, old_config_, config_init_, hw, refused, aborted,
                 topicVars, streamVars, frameVars, driverFaults>>

Configured ==
  /\ ctor = "wait" /\ config_init_ /\ ctor' = "advertise"
  /\ applying = Nobody \/ applying.thread # "ctor"
  /\ UNCHANGED <<color, registers, configVars, topicVars, streamVars, frameVars, driverFaults>>

(* Mutant: the mutex is not taken (the comment of lines 158-161).          *)
NeverLocked == FALSE

(* connect_mutex_ is held by advertiseROSTopics().                         *)
Locked == ctor = "advertise"

Missing == {i \in 1..4 : Present(Topics[i]) /\ Topics[i] \notin assigned}
Now == Topics[CHOOSE i \in Missing : \A j \in Missing : i <= j]

Announce ==
  /\ ctor = "advertise" /\ Missing # {} /\ Now \notin announced
  /\ announced' = announced \cup {Now}
  /\ UNCHANGED <<color, registers, ctor, configVars, subs, assigned, pending, streamVars, frameVars, driverFaults>>

Assign ==
  /\ ctor = "advertise" /\ Missing # {} /\ Now \in announced
  /\ assigned' = assigned \cup {Now}
  /\ UNCHANGED <<color, registers, ctor, configVars, subs, announced, pending, streamVars, frameVars, driverFaults>>

Advertised ==
  /\ ctor = "advertise" /\ Missing = {} /\ ctor' = "up"
  /\ UNCHANGED <<color, registers, configVars, topicVars, streamVars, frameVars, driverFaults>>

-----------------------------------------------------------------------------
(* A topic gets its first subscriber or loses its last, and the publisher  *)
(* queues the connect callback.                                            *)
Subscribe(t) ==
  /\ t \in announced
  /\ subs' = IF t \in subs THEN subs \ {t} ELSE subs \cup {t}
  /\ pending' = pending \cup {StreamOf(t)}
  /\ UNCHANGED <<color, registers, ctor, configVars, announced, assigned, streamVars, frameVars, driverFaults>>

(* getNumSubscribers() > 0; a publisher not yet assigned has none.         *)
Subscribed(t) == t \in assigned /\ t \in subs

(* start..Stream(): whatever OpenNI answers, the stream counts as started. *)
Streams(on) ==
  /\ started' = on
  /\ LET on_now == (running \cap on) \cup (on \ started) IN
     \/ running' = on_now /\ UNCHANGED driverFaults
     \/ \E s \in on \ started : running' = on_now \ {s} /\ Fault

RosIdle == applying = Nobody \/ applying.thread # "ros"

ConnectCb(s, topics, on) ==
  /\ s \in pending /\ RosIdle /\ ~Locked
  /\ pending' = pending \ {s}
  /\ seen' = (seen \ topics) \cup {t \in topics : Subscribed(t)}
  /\ Streams(on)
  /\ UNCHANGED <<color, registers, ctor, configVars, subs, announced, assigned, frameVars>>

(* Colour takes the place of infrared, and gives it back.                  *)
colorConnectCb ==
  ConnectCb("color", {"color"},
    IF Subscribed("color") THEN
      IF "color" \in started THEN started ELSE (started \ {"ir"}) \cup {"color"}
    ELSE IF "color" \in started
      THEN (started \ {"color"}) \cup (IF Subscribed("ir") THEN {"ir"} ELSE {})
      ELSE started)

depthConnectCb ==
  ConnectCb("depth", {"depth", "raw"},
    IF Subscribed("depth") \/ Subscribed("raw") THEN started \cup {"depth"}
    ELSE started \ {"depth"})

irConnectCb ==
  ConnectCb("ir", {"ir"},
    IF ~Subscribed("ir") THEN started \ {"ir"}
    ELSE IF "color" \in started THEN started
    ELSE started \cup {"ir"})

(* A client reconfigures the driver; its server exists since line 130.     *)
Reconfigure ==
  /\ ctor # "configure" /\ RosIdle
  /\ \E c \in Configs \ {config} : configCb("ros", c)

-----------------------------------------------------------------------------
(* Camera infos: the calibration, if it has the image's width, or a        *)
(* default with the focal length of a stream.                              *)
getDefaultCameraInfo(focal_length) == focal_length

getColorCameraInfo(width) ==
  [frame |-> "rgb",
   from |-> IF Calibrated.rgb = width THEN "calibration" ELSE getDefaultCameraInfo("color")]

(* Without a calibration the focal length is that of depth (line 632), and *)
(* so is the frame (line 637), for infrared images too.                    *)
getIRCameraInfo(width) ==
  [frame |-> "depth",
   from |-> CASE Calibrated.ir = width -> "calibration"
              [] Calibrated.ir = 0 -> getDefaultCameraInfo("depth")
              [] OTHER -> getDefaultCameraInfo("ir")]

(* Frames of the colour or the infrared stream: published if wanted, or    *)
(* left out by data_skip_.                                                 *)
newFrame(s, info) ==
  /\ s \in running
  /\ sent' = IF s \in seen
             THEN [stream |-> s, frame |-> IF s = "color" THEN "rgb" ELSE "ir", info |-> info]
             ELSE sent
  /\ UNCHANGED <<color, registers, ctor, configVars, topicVars, streamVars, frame, driverFaults>>

newColorFrameCallback ==
  newFrame("color", getColorCameraInfo(hw.color.mode.x))
newIRFrameCallback ==
  newFrame("ir", getIRCameraInfo(hw.ir.mode.x))

(* onNewFrame() reads a depth frame, stamps it and copies it, ...          *)
onNewFrame ==
  /\ "depth" \in running /\ frame = NoFrame
  /\ frame' = [registered |-> hw.reg, width |-> hw.depth.mode.x,
               disturbed |-> applying # Nobody \/ refused \/ aborted]
  /\ sent' = NoFrame
  /\ UNCHANGED <<color, registers, ctor, configVars, topicVars, streamVars, driverFaults>>

(* ... and the callback names its frame after depth_registration_. The     *)
(* offsets of a depth image's principal point are left out.                *)
newDepthFrameCallback ==
  /\ frame # NoFrame
  /\ frame' = NoFrame
  /\ sent' = IF {"raw", "depth"} \cap seen = {} THEN sent
             ELSE [stream |-> "depth",
                   frame |-> IF config.reg THEN "rgb" ELSE "depth",
                   info |-> IF config.reg THEN getColorCameraInfo(frame.width)
                            ELSE getIRCameraInfo(frame.width),
                   of |-> frame]
  /\ UNCHANGED <<color, registers, ctor, configVars, topicVars, streamVars, driverFaults>>

DriverNext ==
  \/ Configure \/ Configured \/ Announce \/ Assign \/ Advertised
  \/ SetModes \/ ModeRefused \/ applyConfigToOpenNIDevice \/ RegistrationRefused
  \/ \E t \in Topic : Subscribe(t)
  \/ colorConnectCb \/ depthConnectCb \/ irConnectCb \/ Reconfigure
  \/ newColorFrameCallback \/ newIRFrameCallback \/ onNewFrame \/ newDepthFrameCallback

-----------------------------------------------------------------------------
(* When no connect callback waits, exactly the streams with subscribers    *)
(* are on, infrared only while colour is off, and the frame callbacks know *)
(* of the same subscribers, whenever these came and went, also while the   *)
(* topics were being advertised.                                           *)
Settled ==
  ctor = "up" /\ pending = {} =>
    /\ seen = subs
    /\ "depth" \in started <=> {"depth", "raw"} \cap subs # {}
    /\ "color" \in started <=> "color" \in subs
    /\ "ir" \in started <=> "ir" \in subs /\ "color" \notin subs

(* A depth image published in the frame of the colour camera was           *)
(* registered to it and one in the depth frame was not, although the       *)
(* thread of the frames and that of the configuration share nothing but    *)
(* the flag: unless a configuration changed meanwhile, or the camera       *)
(* refused the last one, or can register nothing.                          *)
FrameMatches ==
  sent # NoFrame /\ sent.stream = "depth" /\ ~sent.of.disturbed =>
    (sent.frame = "rgb" <=> sent.of.registered)
=============================================================================
