--------------------------- MODULE RosserialDevice ---------------------------
(***************************************************************************)
(* rosserial_client: the NodeHandle of a microcontroller, frame by frame   *)
(* (RosserialParser has the bytes of a frame). What the program of the     *)
(* device does is up to it: it calls spinOnce() all the time, and now and  *)
(* then a service or for a parameter, which call spinOnce() in a loop of   *)
(* their own.                                                              *)
(***************************************************************************)
EXTENDS Integers, Sequences

CONSTANTS
  Endpoints,     \* publishers[], then subscribers[]: a service has one of each
  SyncPeriod,    \* ticks of SYNC_SECONDS*500 ms
  SyncLost,      \* ticks of SYNC_SECONDS*2200 ms
  ParamTimeout   \* ticks of requestParam()'s time_out

ASSUME EndpointsAreNames == Endpoints \in Seq(STRING)
ASSUME TicksAreNat == {SyncPeriod, SyncLost, ParamTimeout} \subseteq Nat

VARIABLES
  up, down,        \* the frames on the line, from and to the device
  configured_,
  receive_age,     \* since last_sync_receive_time
  sync_age,        \* since last_sync_time
  pc,              \* in the program's loop(), in call() or in requestParam()
  waiting, calls,  \* of the service client; the number of its last call
  param_recieved, req_param_resp, params, param_age,
  answers,         \* history: which answer came in which call, 0 for none
  interrupted,     \* history: calls that ended without an answer
  values,          \* history: which value was returned for which parameter
  expired          \* history: parameters given up

sync == <<configured_, receive_age, sync_age>>
service == <<waiting, calls, answers, interrupted>>
parameter == <<param_recieved, req_param_resp, params, param_age, values, expired>>
deviceVars == <<up, down, sync, pc, service, parameter>>

DeviceInit ==
  /\ up = <<>> /\ down = <<>>
  /\ configured_ = FALSE /\ receive_age = 0 /\ sync_age = 0
  /\ pc = "loop"
  /\ waiting = TRUE /\ calls = 0 /\ answers = {} /\ interrupted = {}
  /\ param_recieved = FALSE /\ req_param_resp = 0 /\ params = 0 /\ param_age = 0
  /\ values = {} /\ expired = {}

Time == [k |-> "time"]
Topics == [k |-> "topics"]         \* ID_PUBLISHER, the request for the topics
TopicsVer1 == [k |-> "topics1"]    \* the same in the first version of the protocol
Stop == [k |-> "stop"]             \* ID_TX_STOP
Info(e) == [k |-> "info", e |-> e]
Call(n) == [k |-> "call", n |-> n]       \* the device calls a service of ROS
Answer(n) == [k |-> "answer", n |-> n]
Request(n) == [k |-> "request", n |-> n]  \* a node of ROS calls the device's
Reply(n) == [k |-> "reply", n |-> n]
Param(n) == [k |-> "param", n |-> n]

-----------------------------------------------------------------------------
(* Lines 186-190: no answer to requestSyncTime() for too long.             *)
Connected == configured_ /\ receive_age <= SyncLost

Frame(kind) == down # <<>> /\ Head(down).k = kind /\ down' = Tail(down)

(* Lines 270-274, after the handler of a frame has sent what it sends.     *)
SendAndSync(frames) ==
  LET due == configured_' /\ sync_age > SyncPeriod IN
  /\ up' = up \o frames \o (IF due THEN <<Time>> ELSE <<>>)
  /\ sync_age' = IF due THEN 0 ELSE sync_age

(* The loop that called spinOnce(), which has returned: call() waits while *)
(* connected, but not past a request for the topics (-1); requestParam()   *)
(* looks at the clock, then at param_recieved.                             *)
Around(returned) ==
  LET leaves == pc = "call" /\ (returned = -1 \/ ~waiting' \/ ~configured_')
      late == pc = "param" /\ param_age > ParamTimeout
      has == pc = "param" /\ ~late /\ param_recieved'
  IN
  /\ pc' = IF leaves \/ late \/ has THEN "loop" ELSE pc
  /\ interrupted' = IF leaves /\ waiting' THEN interrupted \cup {calls} ELSE interrupted
  /\ expired' = IF late THEN expired \cup {params} ELSE expired
  /\ values' = IF has THEN values \cup {[asked |-> params, got |-> req_param_resp']} ELSE values
  /\ UNCHANGED <<calls, params, param_age>>

(* Mutant: a device that is configured already does not tell its topics.    *)
negotiateTopics_once ==
  /\ Frame("topics")
  /\ up' = up \o <<Time>> \o
            (IF configured_ THEN <<>> ELSE [i \in 1..Len(Endpoints) |-> Info(Endpoints[i])])
  /\ configured_' = TRUE /\ receive_age' = 0 /\ sync_age' = 0
  /\ UNCHANGED <<waiting, answers, param_recieved, req_param_resp>>
  /\ Around(-1)

(* Lines 249-254, requestSyncTime() and negotiateTopics().                 *)
negotiateTopics ==
  /\ Frame("topics")
  /\ up' = up \o <<Time>> \o [i \in 1..Len(Endpoints) |-> Info(Endpoints[i])]
  /\ configured_' = TRUE /\ receive_age' = 0 /\ sync_age' = 0
  /\ UNCHANGED <<waiting, answers, param_recieved, req_param_resp>>
  /\ Around(-1)

(* Lines 219-223: another version of the protocol, to which a device that  *)
(* is not configured shows its own.                                        *)
OtherVersion ==
  /\ Frame("topics1")
  /\ configured_' = Connected
  /\ SendAndSync(IF Connected THEN <<>> ELSE <<Time>>)
  /\ UNCHANGED <<receive_age, waiting, answers, param_recieved, req_param_resp>>
  /\ Around(0)

syncTime ==
  /\ Frame("time")
  /\ configured_' = Connected /\ receive_age' = 0
  /\ SendAndSync(<<>>)
  /\ UNCHANGED <<waiting, answers, param_recieved, req_param_resp>>
  /\ Around(0)

(* Lines 257-259: whichever parameter it is.                               *)
ParamReceived ==
  /\ Frame("param")
  /\ configured_' = Connected
  /\ param_recieved' = TRUE /\ req_param_resp' = Head(down).n
  /\ SendAndSync(<<>>)
  /\ UNCHANGED <<receive_age, waiting, answers>>
  /\ Around(0)

TxStop ==
  /\ Frame("stop")
  /\ configured_' = FALSE
  /\ SendAndSync(<<>>)
  /\ UNCHANGED <<receive_age, waiting, answers, param_recieved, req_param_resp>>
  /\ Around(0)

(* ServiceServer::callback(); publish() drops its answer if not configured. *)
ServiceCallback ==
  /\ Frame("request")
  /\ configured_' = Connected
  /\ SendAndSync(IF Connected THEN <<Reply(Head(down).n)>> ELSE <<>>)
  /\ UNCHANGED <<receive_age, waiting, answers, param_recieved, req_param_resp>>
  /\ Around(0)

(* ServiceClient::callback() writes the answer to *ret.                    *)
ClientCallback ==
  /\ Frame("answer")
  /\ configured_' = Connected
  /\ waiting' = FALSE
  /\ answers' = answers \cup {[to |-> IF pc = "call" THEN calls ELSE 0, n |-> Head(down).n]}
  /\ SendAndSync(<<>>)
  /\ UNCHANGED <<receive_age, param_recieved, req_param_resp>>
  /\ Around(0)

NoFrame ==
  /\ down = <<>> /\ UNCHANGED down
  /\ configured_' = Connected
  /\ SendAndSync(<<>>)
  /\ UNCHANGED <<receive_age, waiting, answers, param_recieved, req_param_resp>>
  /\ Around(0)

(* A call of spinOnce(), one frame or none at a time.                      *)
spinOnce ==
  \/ negotiateTopics \/ OtherVersion \/ syncTime \/ ParamReceived \/ TxStop
  \/ ServiceCallback \/ ClientCallback \/ NoFrame

-----------------------------------------------------------------------------
(* Mutant: `waiting = true` is missing.                                    *)
call_not_waiting ==
  /\ pc = "loop" /\ configured_
  /\ pc' = "call"
  /\ calls' = calls + 1 /\ up' = Append(up, Call(calls + 1))
  /\ UNCHANGED <<down, sync, waiting, answers, interrupted, parameter>>

(* ServiceClient::call().                                                  *)
call ==
  /\ pc = "loop" /\ configured_
  /\ pc' = "call"
  /\ waiting' = TRUE
  /\ calls' = calls + 1 /\ up' = Append(up, Call(calls + 1))
  /\ UNCHANGED <<down, sync, answers, interrupted, parameter>>

(* Mutant: `param_recieved = false` is missing.                            *)
requestParam_not_reset ==
  /\ pc = "loop"
  /\ pc' = "param"
  /\ param_age' = 0
  /\ params' = params + 1 /\ up' = Append(up, Param(params + 1))
  /\ UNCHANGED <<down, sync, service, param_recieved, req_param_resp, values, expired>>

(* getParam(), of another parameter each time.                             *)
requestParam ==
  /\ pc = "loop"
  /\ pc' = "param"
  /\ param_recieved' = FALSE /\ param_age' = 0
  /\ params' = params + 1 /\ up' = Append(up, Param(params + 1))
  /\ UNCHANGED <<down, sync, service, req_param_resp, values, expired>>

(* The device is reset, and what it has not read is gone.                  *)
Reset ==
  /\ down' = <<>>
  /\ configured_' = FALSE /\ receive_age' = 0 /\ sync_age' = 0
  /\ pc' = "loop" /\ waiting' = TRUE /\ param_recieved' = FALSE
  /\ interrupted' = IF pc = "call" THEN interrupted \cup {calls} ELSE interrupted
  /\ expired' = IF pc = "param" THEN expired \cup {params} ELSE expired
  /\ UNCHANGED <<up, calls, answers, req_param_resp, params, param_age, values>>

Older(age, limit) == IF age <= limit THEN age + 1 ELSE age

DeviceTick ==
  /\ receive_age' = Older(receive_age, SyncLost)
  /\ sync_age' = Older(sync_age, SyncPeriod)
  /\ param_age' = Older(param_age, ParamTimeout)
  /\ UNCHANGED <<up, down, configured_, pc, service, param_recieved, req_param_resp,
                 params, values, expired>>

(* Nothing for spinOnce() to do: it is called far more often than once a   *)
(* tick.                                                                   *)
DeviceIdle ==
  /\ down = <<>>
  /\ configured_ => receive_age <= SyncLost /\ sync_age <= SyncPeriod
  /\ pc = "param" => param_age <= ParamTimeout /\ ~param_recieved
  /\ pc = "call" => configured_ /\ waiting
=============================================================================
