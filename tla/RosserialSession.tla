--------------------------- MODULE RosserialSession --------------------------
(***************************************************************************)
(* A microcontroller and its host on a serial line that loses frames: the  *)
(* robot's launch files take rosserial_python, rosserial_server may stand  *)
(* in for it. Does either find the topics of the device again, and does an *)
(* answer reach the call it is for?                                        *)
(***************************************************************************)
EXTENDS RosserialServer, FiniteSets

CONSTANTS
  MaxFaults,   \* bound: frames lost, restarts and errors
  MaxEvents    \* bound: these and the uses together

VARIABLES host, faults

lineVars == <<host, faults>>
vars == <<deviceVars, hostVars, clientVars, serverVars, lineVars>>

Init ==
  /\ DeviceInit /\ ClientInit /\ ServerInit
  /\ host \in {"python", "server"}
  /\ host = "python" => ~require
  /\ faults = 0
  /\ alive = FALSE /\ known = {} /\ missed = {}
  /\ ended = (host = "python")   \* someone starts it

(* A write to a full line waits while there is somebody to read it.        *)
Device ==
  /\ Len(up) < MaxQueue \/ ~alive
  /\ spinOnce
  /\ UNCHANGED <<hostVars, clientVars, serverVars, lineVars>>

Uses == calls + params + Cardinality({n \in Requests : caller[n] # "new"})

More == Uses + faults < MaxEvents

Program ==
  /\ Uses < MaxUses /\ More
  /\ Len(up) < MaxQueue \/ ~alive
  /\ call \/ requestParam
  /\ UNCHANGED <<hostVars, clientVars, serverVars, lineVars>>

Unheard ==
  /\ ~alive /\ up # <<>> /\ up' = <<>>
  /\ UNCHANGED <<down, deviceRest, hostVars, clientVars, serverVars, lineVars>>

Python(step) == host = "python" /\ step /\ UNCHANGED <<serverVars, lineVars>>
Session(step) == host = "server" /\ step /\ UNCHANGED lineVars

-----------------------------------------------------------------------------
Drop(s, i) == SubSeq(s, 1, i - 1) \o SubSeq(s, i + 1, Len(s))

Wanted == IF host = "python" THEN All ELSE Served

(* A frame whose checksum is wrong. An endpoint is told only once, unless  *)
(* somebody asks again, and a host asks only if it hears nothing: ~require *)
(* of rosserial_server alone has it ask for what is missing.               *)
LoseUp ==
  \E i \in 1..Len(up) :
    /\ up' = Drop(up, i)
    /\ missed' = IF up[i].k = "info" /\ alive /\ ~require
                  THEN missed \cup ({up[i].e} \ known) ELSE missed
    /\ UNCHANGED <<down, deviceRest, alive, known, ended, clientVars, serverVars>>

LoseDown ==
  \E i \in 1..Len(down) :
    /\ down' = Drop(down, i)
    /\ missed' = IF down[i].k = "topics" /\ alive /\ configured_ /\ ~require
                  THEN Wanted \ known ELSE missed
    /\ UNCHANGED <<up, deviceRest, alive, known, ended, clientVars, serverVars>>

Fault ==
  /\ faults < MaxFaults /\ More /\ faults' = faults + 1 /\ UNCHANGED host
  /\ \/ LoseUp \/ LoseDown
     \/ Reset /\ UNCHANGED <<hostVars, clientVars, serverVars>>
     \/ host = "python" /\ (ReadFails \/ txStopRequest \/ Killed) /\ UNCHANGED serverVars
     \/ host = "server" /\ (read_failed \/ Misjudged)

(* A handler takes far less than a tick; what run() waits for need not.    *)
Tick ==
  /\ DeviceIdle
  /\ IF host = "python" THEN ClientIdle /\ ClientTick /\ UNCHANGED serverVars
     ELSE ServerIdle /\ ServerTick
          /\ UNCHANGED <<lastsync_age, version, version_try, handlers, require>>
  /\ DeviceTick
  /\ UNCHANGED <<hostVars, run, serving, response, caller, spoilt, results, overlapped, lineVars>>

Next ==
  \/ Device \/ Program \/ Unheard \/ Fault \/ Tick
  \/ Python(Start) \/ Python(Client)
  \/ \E n \in Requests : Python(Uses < MaxUses /\ More /\ callback(n)) \/ Python(Caller(n))
  \/ Session(start) \/ Session(Server)

(* The program calls spinOnce() for ever, run() and the io_service go      *)
(* round, and the services that are called return. Nobody has to start the *)
(* node of rosserial_python again: its launch file does not.               *)
Fairness ==
  /\ WF_vars(Device) /\ WF_vars(Unheard) /\ WF_vars(Tick)
  /\ WF_vars(Python(Client)) /\ \A n \in Requests : WF_vars(Python(Caller(n)))
  /\ WF_vars(Session(start)) /\ WF_vars(Session(Server))

Spec == Init /\ [][Next]_vars /\ Fairness

-----------------------------------------------------------------------------
(* While a device believes it is configured, each of its endpoints is      *)
(* known to the host, on the way to it, or lost by a fault after the       *)
(* device was last asked, or a request for all of them is on its way; so   *)
(* no flush, restart, retry or change of the protocol's version costs an   *)
(* endpoint by itself: requestTopics(), request_topics() and               *)
(* negotiateTopics(). A session with ~require asks by itself, one that     *)
(* took the device for one of the first version listens to nothing.        *)
OnlyFaultsHide ==
  alive /\ configured_ /\ ~require /\ version # 1 =>
    \/ \E i \in 1..Len(down) : down[i] = Topics
    \/ \A e \in Wanted : e \in known \cup missed \/ \E i \in 1..Len(up) : up[i] = Info(e)

(* In sync, but for endpoints whose frame, or the request for it, was lost *)
(* while the device thought itself configured: these nobody repeats.       *)
Synced == alive /\ configured_ /\ Wanted \subseteq known \cup missed

(* Whatever was lost or restarted, the host is again and again in sync     *)
(* with the device and knows all its other topics (all with ~require of    *)
(* rosserial_server), unless the process ended or the session took the     *)
(* first bytes for the old protocol: run() and spinOnce(), the sync        *)
(* watchdog and the check of ~require.                                     *)
Recovers == []<>(ended \/ version = 1 \/ Synced)

(* The answer that call() of the device returns is the one to this call,   *)
(* and none comes outside its call, unless that call or one before it had  *)
(* ended without: service_client.h, which does not number its calls, with  *)
(* ServiceClient of rosserial_python.                                      *)
CallTrue == \A a \in answers : a.to = a.n \/ \E n \in interrupted : n <= a.n

(* requestParam() returns the parameter it asked for, unless it or an      *)
(* earlier one had been given up: the late answer passes for the next one, *)
(* whose own is then late in turn (node_handle.h, with                     *)
(* handleParameterRequest() of rosserial_python).                          *)
ParamTrue == \A v \in values : v.asked = v.got \/ \E n \in expired : n <= v.got

(* A call of the device's service returns the answer to this call, unless  *)
(* this answer's call or an earlier one ran beside another: all callers    *)
(* look at the only response of ServiceServer.callback() of                *)
(* rosserial_python, and the answer none of them took is the next one's.   *)
CallersTrue == \A r \in results : r.call = r.got \/ \E n \in overlapped : n <= r.got
=============================================================================
