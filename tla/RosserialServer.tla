--------------------------- MODULE RosserialServer ---------------------------
(***************************************************************************)
(* rosserial_server/Session.h in serial_node.cpp, the other host: handlers *)
(* of reads and of two timers on one io_service. It knows publishers and   *)
(* subscribers, and no services.                                           *)
(***************************************************************************)
EXTENDS RosserialClient

CONSTANTS
  AttemptInterval,   \* ticks of attempt_interval_ and require_check_interval_
  TimeoutInterval,   \* ticks of timeout_interval_
  MaxQueue           \* bound: frames on the line in one direction

VARIABLES
  version,       \* client_version: 0 unknown, 1, 2
  version_try,   \* client_version_try
  sync_left,     \* of sync_timer_
  check_left,    \* of require_check_timer_
  handlers,      \* required_topics_check()s called with operation_aborted
  require        \* ~require names every publisher and subscriber

session == <<version, version_try, sync_left, check_left, handlers>>
serverVars == <<session, require>>

Off == -1
Served == {"pub", "sub"} \cap All

ServerInit ==
  /\ version = 0 /\ version_try = 2
  /\ sync_left = Off /\ check_left = Off /\ handlers = 0
  /\ require \in BOOLEAN

deviceRest == <<sync, pc, service, parameter>>

(* The two versions in turn until one is known. The timer it arms again    *)
(* calls the handler that was waiting, or had expired and not run yet.     *)
request_topics(queued, armed) ==
  LET v == IF version' = 0 THEN version_try ELSE version' IN
  /\ Len(down) < MaxQueue
  /\ down' = Append(down, IF v = 2 THEN Topics ELSE TopicsVer1)
  /\ version_try' = 3 - v
  /\ check_left' = AttemptInterval
  /\ handlers' = IF require /\ armed THEN queued + 1 ELSE queued
  /\ missed' = IF v = 2 THEN {} ELSE missed

(* A new SerialSession, once the port can be opened.                       *)
start ==
  /\ ~alive /\ ~ended /\ alive' = TRUE
  /\ version' = 0
  /\ request_topics(0, FALSE)
  /\ sync_left' = AttemptInterval
  /\ UNCHANGED <<up, deviceRest, known, ended, clientVars, require>>

sync_timeout ==
  /\ alive /\ sync_left = 0
  /\ UNCHANGED version
  /\ request_topics(handlers, check_left # Off)
  /\ sync_left' = AttemptInterval
  /\ UNCHANGED <<up, deviceRest, alive, known, ended, clientVars, require>>

(* Mutant: a check that fails is left at that.                             *)
required_topics_check_once ==
  /\ alive /\ (check_left = 0 \/ handlers > 0)
  /\ handlers' = IF handlers > 0 THEN handlers - 1 ELSE 0
  /\ check_left' = IF handlers > 0 THEN check_left ELSE Off
  /\ UNCHANGED <<deviceVars, hostVars, clientVars, version, version_try, sync_left, require>>

(* It does not look at its error code.                                     *)
required_topics_check ==
  /\ alive /\ (check_left = 0 \/ handlers > 0)
  /\ UNCHANGED <<up, deviceRest, version, sync_left, alive, known, ended, clientVars, require>>
  /\ LET left == IF handlers > 0 THEN handlers - 1 ELSE 0 IN
     IF ~require \/ Served \subseteq known
     THEN /\ handlers' = left
          /\ check_left' = IF handlers > 0 THEN check_left ELSE Off
          /\ UNCHANGED <<down, version_try, missed>>
     ELSE request_topics(left, handlers > 0 /\ check_left # Off)

(* The first frame tells the version of the client for good.               *)
ServerReceived ==
  /\ alive /\ up # <<>> /\ up' = Tail(up)
  /\ version' = IF version = 0 THEN 2 ELSE version
  /\ UNCHANGED <<deviceRest, alive, ended, clientVars, version_try, check_left, handlers,
                 require>>

setup_endpoint ==
  /\ ServerReceived
  /\ version' = 2 /\ Head(up).k = "info" /\ Head(up).e \in Served
  /\ known' = known \cup {Head(up).e} /\ missed' = missed \ {Head(up).e}
  /\ sync_left' = TimeoutInterval
  /\ UNCHANGED down

handle_time ==
  /\ ServerReceived
  /\ version' = 2 /\ Head(up).k = "time"
  /\ down' = Append(down, Time)
  /\ sync_left' = TimeoutInterval
  /\ UNCHANGED <<known, missed>>

Unrecognized ==
  /\ ServerReceived
  /\ version' = 1 \/ (Head(up).k = "info" /\ Head(up).e \notin Served)
     \/ Head(up).k \in {"call", "reply", "param"}
  /\ UNCHANGED <<down, known, missed, sync_left>>

-----------------------------------------------------------------------------
(* A read error: the session deletes itself, and its destructor makes the  *)
(* next one. A write that was pending is cancelled, whose handler deletes  *)
(* it a second time; and so may the handler of the check, which reads it.  *)
read_failed ==
  /\ alive
  /\ \/ alive' = FALSE /\ ended' = FALSE
     \/ alive' = FALSE /\ ended' = TRUE
  /\ known' = {} /\ missed' = {} /\ up' = <<>> /\ down' = <<>>
  /\ version' = 0 /\ version_try' = 2 /\ sync_left' = Off /\ check_left' = Off /\ handlers' = 0
  /\ UNCHANGED <<deviceRest, clientVars, require>>

(* The bytes ff ff on the line before the first frame of the device.       *)
Misjudged ==
  /\ alive /\ version = 0 /\ version' = 1
  /\ UNCHANGED <<deviceVars, hostVars, clientVars, version_try, sync_left, check_left, handlers,
                 require>>

Server ==
  \/ sync_timeout \/ required_topics_check \/ setup_endpoint \/ handle_time \/ Unrecognized

Sooner(left) == IF left > 0 THEN left - 1 ELSE left

ServerTick == sync_left' = Sooner(sync_left) /\ check_left' = Sooner(check_left)

ServerIdle == up = <<>> /\ (alive => sync_left # 0 /\ check_left # 0 /\ handlers = 0)
=============================================================================
