--------------------------- MODULE RosserialClient ---------------------------
(***************************************************************************)
(* rosserial_python/SerialClient.py, the host: the loop of run() and the   *)
(* threads in which nodes of ROS call the device's service.                *)
(***************************************************************************)
EXTENDS RosserialDevice

CONSTANTS
  HostLost,    \* ticks of timeout * 3
  MaxUses      \* bound: calls of services, of either side, and parameters

ASSUME UsesAreNat == MaxUses \in Nat

VARIABLES
  alive,         \* the host's process runs
  known,         \* the endpoints it has set up (of either host)
  run,           \* where run() is: reading, or in a service client
  serving,       \* the call it has passed on
  lastsync_age,  \* since lastsync
  response,      \* ServiceServer.response, 0 for None
  caller,        \* of each call of the device's service, its thread
  spoilt,        \* bytes were written into the middle of its frame
  results,       \* history: what each call returned
  overlapped,    \* history: calls that ran beside another
  missed,        \* history: the endpoints it does not know because a frame was
                 \* lost after the device was last asked (of either host)
  ended          \* history: the process has ended (either host)

clientVars == <<run, serving, lastsync_age, response, caller, spoilt, results, overlapped>>
hostVars == <<alive, known, missed, ended>>

Requests == 1..MaxUses

All == {Endpoints[i] : i \in 1..Len(Endpoints)}

ClientInit ==
  /\ run = "read" /\ serving = 0 /\ lastsync_age = 0
  /\ response = 0 /\ caller = [n \in Requests |-> "new"] /\ spoilt = FALSE
  /\ results = {} /\ overlapped = {}

Writing == \E n \in Requests : caller[n] = "write"

(* send() on the thread of run(): it waits for the mutex.                  *)
send(frame) == ~Writing /\ down' = Append(down, frame)

(* port.write() without the mutex: in the middle of another write it       *)
(* spoils both.                                                            *)
WriteAnyway(frame) ==
  IF Writing THEN spoilt' = TRUE /\ UNCHANGED down
  ELSE down' = Append(down, frame) /\ UNCHANGED spoilt

(* flushInput() drops what has arrived.                                    *)
flushInput == \E n \in 0..Len(up) : up' = SubSeq(up, n + 1, Len(up))

(* Mutant: it does not write in the middle of another write.               *)
requestTopics_skipped ==
  /\ flushInput
  /\ IF Writing THEN UNCHANGED <<down, missed>>
     ELSE down' = Append(down, Topics) /\ missed' = {}
  /\ UNCHANGED spoilt

requestTopics ==
  /\ flushInput
  /\ WriteAnyway(Topics)
  /\ missed' = IF Writing /\ configured_ THEN All \ known ELSE {}

-----------------------------------------------------------------------------
(* run(): first the timeout, ...                                           *)
LostSync ==
  /\ alive /\ run = "read" /\ lastsync_age > HostLost
  /\ requestTopics
  /\ lastsync_age' = 0
  /\ UNCHANGED <<sync, pc, service, parameter, alive, known, ended, run, serving, response,
                 caller, results, overlapped>>

(* ... then a frame, if there is one.                                      *)
Received(kind) ==
  /\ alive /\ run = "read" /\ lastsync_age <= HostLost
  /\ up # <<>> /\ Head(up).k = kind /\ up' = Tail(up)
  /\ UNCHANGED <<sync, pc, service, parameter>>

handleTimeRequest ==
  /\ Received("time")
  /\ send(Time)
  /\ lastsync_age' = 0
  /\ UNCHANGED <<hostVars, run, serving, response, caller, spoilt, results, overlapped>>

(* A new ServiceClient waits for its service.                              *)
Setup ==
  /\ Received("info")
  /\ known' = known \cup {Head(up).e} /\ missed' = missed \ {Head(up).e}
  /\ run' = IF Head(up).e \in {"cpub", "csub"} /\ known \cap {"cpub", "csub"} = {}
            THEN "wait" ELSE "read"
  /\ UNCHANGED <<down, alive, ended, serving, lastsync_age, response, caller, spoilt, results,
                 overlapped>>

wait_for_service ==
  /\ alive /\ run = "wait" /\ run' = "read"
  /\ UNCHANGED <<deviceVars, hostVars, serving, lastsync_age, response, caller, spoilt,
                 results, overlapped>>

(* There is no answer for a parameter that is missing or of a mixed type.  *)
handleParameterRequest ==
  /\ Received("param")
  /\ \/ send(Param(Head(up).n))
     \/ UNCHANGED down
  /\ UNCHANGED <<hostVars, clientVars>>

(* ServiceServer.handlePacket(); a KeyError is only logged.                *)
handleReply ==
  /\ Received("reply")
  /\ response' = IF "vpub" \in known THEN Head(up).n ELSE response
  /\ UNCHANGED <<down, hostVars, run, serving, lastsync_age, caller, spoilt, results, overlapped>>

(* ServiceClient.handlePacket() calls the service within run().            *)
handleCall ==
  /\ Received("call")
  /\ IF "cpub" \in known THEN run' = "proxy" /\ serving' = Head(up).n
     ELSE UNCHANGED <<run, serving>>
  /\ UNCHANGED <<down, hostVars, lastsync_age, response, caller, spoilt, results, overlapped>>

(* The process is gone, and with it the calls it was serving.              *)
Gone ==
  /\ alive' = FALSE /\ known' = {} /\ missed' = {} /\ run' = "read" /\ serving' = 0
  /\ response' = 0 /\ spoilt' = FALSE
  /\ caller' = [n \in Requests |-> IF caller[n] = "new" THEN "new" ELSE "done"]
  /\ UNCHANGED <<sync, pc, service, parameter, lastsync_age, results, overlapped>>

(* The service returns; if the other half of the client was never set up,  *)
(* there is no id to send the answer to, and the AttributeError ends run(). *)
ProxyReturns ==
  /\ alive /\ run = "proxy"
  /\ IF "csub" \in known
     THEN /\ send(Answer(serving))
          /\ run' = "read"
          /\ UNCHANGED <<up, sync, pc, service, parameter, hostVars, serving, lastsync_age,
                         response, caller, spoilt, results, overlapped>>
     ELSE Gone /\ ended' = TRUE /\ UNCHANGED <<up, down>>

-----------------------------------------------------------------------------
Open == {n \in Requests : caller[n] \in {"send", "write", "wait"}}

(* Mutant: `self.response = None` is missing.                              *)
callback_not_reset(n) ==
  /\ alive /\ caller[n] = "new" /\ (n > 1 => caller[n - 1] # "new")
  /\ known \cap {"vpub", "vsub"} # {}
  /\ caller' = [caller EXCEPT ![n] = IF "vsub" \in known THEN "send" ELSE "done"]
  /\ overlapped' = IF Open = {} THEN overlapped ELSE overlapped \cup Open \cup {n}
  /\ UNCHANGED <<deviceVars, hostVars, run, serving, lastsync_age, response, spoilt, results>>

(* ServiceServer.callback(): response is reset, ...                        *)
callback(n) ==
  /\ alive /\ caller[n] = "new" /\ (n > 1 => caller[n - 1] # "new")
  /\ known \cap {"vpub", "vsub"} # {}
  /\ response' = 0
  /\ caller' = [caller EXCEPT ![n] = IF "vsub" \in known THEN "send" ELSE "done"]
  /\ overlapped' = IF Open = {} THEN overlapped ELSE overlapped \cup Open \cup {n}
  /\ UNCHANGED <<deviceVars, hostVars, run, serving, lastsync_age, spoilt, results>>

(* ... the request sent under the mutex, ...                               *)
BeginSend(n) ==
  /\ alive /\ caller[n] = "send" /\ ~Writing
  /\ caller' = [caller EXCEPT ![n] = "write"]
  /\ UNCHANGED <<deviceVars, hostVars, run, serving, lastsync_age, response, spoilt, results,
                 overlapped>>

EndSend(n) ==
  /\ alive /\ caller[n] = "write"
  /\ caller' = [caller EXCEPT ![n] = "wait"]
  /\ down' = IF spoilt THEN down ELSE Append(down, Request(n))
  /\ spoilt' = FALSE
  /\ UNCHANGED <<up, sync, pc, service, parameter, hostVars, run, serving, lastsync_age, response,
                 results, overlapped>>

(* ... and response looked at until it is there.                           *)
Return(n) ==
  /\ alive /\ caller[n] = "wait" /\ response # 0
  /\ caller' = [caller EXCEPT ![n] = "done"]
  /\ results' = results \cup {[call |-> n, got |-> response]}
  /\ UNCHANGED <<deviceVars, hostVars, run, serving, lastsync_age, response, spoilt, overlapped>>

-----------------------------------------------------------------------------
(* Mutant: it does not ask, and waits for the device.                      *)
StartSilent ==
  /\ ~alive /\ alive' = TRUE /\ ended' = FALSE
  /\ down = <<>> /\ UNCHANGED down /\ up' = <<>>
  /\ lastsync_age' = 0
  /\ UNCHANGED <<sync, pc, service, parameter, known, missed, run, serving, response, caller,
                 spoilt, results, overlapped>>

(* __init__() waits more than two seconds before it asks for the topics.   *)
Start ==
  /\ ~alive /\ alive' = TRUE /\ ended' = FALSE
  /\ down = <<>> /\ down' = <<Topics>> /\ up' = <<>>
  /\ lastsync_age' = 0
  /\ UNCHANGED <<sync, pc, service, parameter, known, missed, run, serving, response, caller,
                 spoilt, results, overlapped>>

(* SIGINT, which tells the device, or an end without it.                   *)
txStopRequest ==
  /\ alive /\ ended' = TRUE
  /\ flushInput
  /\ down' = IF Writing THEN down ELSE Append(down, Stop)
  /\ Gone

(* Or an exception that run() does not catch: a ServiceException, or the    *)
(* msg of line 456 when the very first frame comes up short.               *)
Killed == alive /\ ended' = TRUE /\ Gone /\ UNCHANGED <<up, down>>

(* A read comes up short: IOError.                                         *)
ReadFails ==
  /\ alive /\ run = "read" /\ up # <<>>
  /\ requestTopics
  /\ UNCHANGED <<sync, pc, service, parameter, alive, known, ended, run, serving, lastsync_age,
                 response, caller, results, overlapped>>

(* The steps of the host itself.                                           *)
Client ==
  \/ LostSync \/ handleTimeRequest \/ Setup \/ wait_for_service
  \/ handleParameterRequest \/ handleReply \/ handleCall \/ ProxyReturns

Caller(n) == BeginSend(n) \/ EndSend(n) \/ Return(n)

ClientTick == lastsync_age' = Older(lastsync_age, HostLost)

ClientIdle ==
  alive =>
    /\ run = "read" => up = <<>> /\ lastsync_age <= HostLost
    /\ \A n \in Requests : caller[n] \in {"new", "done"} \/ (caller[n] = "wait" /\ response = 0)
=============================================================================
