----------------------------- MODULE AstraBoot -----------------------------
(***************************************************************************)
(* The boot of N camera drivers, one process per camera (multi_astra.launch *)
(* starts three): astra_driver.cpp passes a turn from one to the next in a *)
(* byte of shared memory, because a driver looks for its camera by opening *)
(* every camera in turn to read its serial number, and OpenNI opens a      *)
(* camera for one process at a time.                                       *)
(***************************************************************************)
EXTENDS Naturals, FiniteSets

CONSTANTS
  N,            \* `devnums`: the drivers, and the cameras of the launch file
  DeviceIds,    \* the `device_id`s a launch file may give to the drivers
  BusOf,        \* the USB bus of each camera
  MaxCrashes,   \* bound: a driver is killed and started again
  MaxFaults     \* bound: failures of a camera, here and in AstraDriver

Proc == 1..N       \* `bootorder`
Camera == 1..N     \* in the order of their URIs; p's own camera is p
Free == 0          \* no camera
AnyCamera == N + 1       \* the empty URI: openni::ANY_DEVICE

(* `*shm` is a char, and 0 in a fresh segment.                             *)
ASSUME TurnsFitChar == N \in 2..126

VARIABLES
  pc,           \* where each driver is in its constructor
  shm,          \* `*shm`
  device_id,    \* the parameter of each driver
  plugged,      \* the cameras OpenNI reports as connected
  available,    \* available_device_URIs, of which the tail is left to look at
  querying,     \* the camera getSerial() has open
  alreadyOpen,  \* `alreadyOpen`: URIs chosen before by their serial number
  chosen,       \* device_URI
  opened,       \* the camera of device_
  excused,      \* history: why a driver may have missed its own camera
  again,        \* history: a driver was restarted that had passed its turn
  crashes, faults

places == <<available, querying, alreadyOpen, chosen, opened>>
history == <<excused, again, crashes, faults>>
bootVars == <<pc, shm, device_id, plugged, places, history>>

Booting == {"list", "query", "open", "pass"}   \* inside initDevice(), or just after
HasPassed == {"last", "done"}

BootInit ==
  /\ pc = [p \in Proc |-> "start"] /\ shm = 0
  /\ device_id \in DeviceIds
  /\ plugged \in SUBSET Camera
  /\ available = [p \in Proc |-> {}]
  /\ querying = [p \in Proc |-> Free]
  /\ alreadyOpen = [p \in Proc |-> {}]
  /\ chosen = [p \in Proc |-> Free]
  /\ opened = [p \in Proc |-> Free]
  /\ excused = [p \in Proc |-> FALSE] /\ again = FALSE
  /\ crashes = 0 /\ faults = 0

At(p, from, to) == pc[p] = from /\ pc' = [pc EXCEPT ![p] = to]

IsFree(c) == \A q \in Proc : opened[q] # c /\ querying[q] # c

(* Not to be had, and not just because a driver reads its number.          *)
Kept(c) == c \notin plugged \/ \E q \in Proc : opened[q] = c

-----------------------------------------------------------------------------
(* Lines 76-99: the first driver takes the turn, the others wait for it.   *)
Start(p) ==
  /\ At(p, "start", IF p = 1 THEN "list" ELSE "wait")
  /\ shm' = IF p = 1 THEN 1 ELSE shm
  /\ UNCHANGED <<device_id, plugged, places, history>>

(* Mutant: nobody waits.                                                   *)
TurnAtOnce(p) ==
  /\ At(p, "wait", "list")
  /\ UNCHANGED <<shm, device_id, plugged, places, history>>

(* Mutant: it is enough that the first driver has begun.                   *)
TurnOnceBegun(p) ==
  /\ At(p, "wait", "list")
  /\ shm # 0
  /\ UNCHANGED <<shm, device_id, plugged, places, history>>

(* Lines 97, 124: while( *shm!=bootOrder);                                 *)
Turn(p) ==
  /\ At(p, "wait", "list")
  /\ shm = p
  /\ UNCHANGED <<shm, device_id, plugged, places, history>>

(* The cameras come in the order of their URIs (DeviceSet).                *)
First(uris) == CHOOSE c \in uris : \A d \in uris : c <= d

(* Lines 699-715: '#<number>' is the n-th of the connected cameras.        *)
Numbered(n, uris) ==
  IF n \in 1..Cardinality(uris)
  THEN CHOOSE c \in uris : Cardinality({d \in uris : d <= c}) = n
  ELSE Free

(* Lines 720-759: '<bus>@<number>', the n-th on its bus, 0 as 1.           *)
OnBus(bus, n, uris) ==
  Numbered(IF n = 0 THEN 1 ELSE n, {c \in uris : BusOf[c] = bus})

IsSerial(p) == device_id[p].kind = "serial"

getConnectedDeviceURIs == plugged

(* resolveDeviceURI() up to its choice by serial number: the list of the   *)
(* device manager, and an exception and a pause when there is no such      *)
(* camera.                                                                 *)
resolveDeviceURI(p) ==
  LET id == device_id[p]
      uris == getConnectedDeviceURIs
      found == IF id.kind = "#" THEN Numbered(id.n, uris) ELSE OnBus(id.bus, id.n, uris)
  IN
  /\ pc[p] = "list"
  /\ excused' = [excused EXCEPT ![p] = @ \/ p \notin uris]
  /\ IF IsSerial(p)
     THEN /\ pc' = [pc EXCEPT ![p] = "query"]
          /\ available' = [available EXCEPT ![p] = uris]
          /\ UNCHANGED chosen
     ELSE /\ pc' = [pc EXCEPT ![p] = IF found = Free THEN "list" ELSE "open"]
          /\ chosen' = [chosen EXCEPT ![p] = found]
          /\ UNCHANGED available
  /\ UNCHANGED <<shm, device_id, plugged, querying, alreadyOpen, opened, again, crashes, faults>>

NextCamera(p) == available' = [available EXCEPT ![p] = @ \ {First(@)}]

(* Lines 776-779 and getSerial(): a camera chosen before, unplugged or     *)
(* open in another process has no serial number for us. A camera another   *)
(* driver keeps is an excuse, one it is only looking at is not.            *)
SkipCamera(p) ==
  /\ pc[p] = "query" /\ querying[p] = Free /\ available[p] # {}
  /\ LET c == First(available[p]) IN
     /\ c \in alreadyOpen[p] \/ c \notin plugged \/ ~IsFree(c)
     /\ excused' = [excused EXCEPT ![p] = @ \/ (c = p /\ Kept(c))]
  /\ NextCamera(p)
  /\ UNCHANGED <<pc, shm, device_id, plugged, querying, alreadyOpen, chosen, opened, again, crashes, faults>>

OpenForSerial(p) ==
  /\ pc[p] = "query" /\ querying[p] = Free /\ available[p] # {}
  /\ LET c == First(available[p]) IN
     /\ c \notin alreadyOpen[p] /\ c \in plugged /\ IsFree(c)
     /\ querying' = [querying EXCEPT ![p] = c]
  /\ UNCHANGED <<pc, shm, device_id, plugged, available, alreadyOpen, chosen, opened, history>>

(* The serial number is read and compared, or its query fails (line 789).  *)
getSerial(p) ==
  /\ pc[p] = "query" /\ querying[p] # Free
  /\ querying' = [querying EXCEPT ![p] = Free]
  /\ LET c == querying[p] IN
     \/ /\ c = p
        /\ alreadyOpen' = [alreadyOpen EXCEPT ![p] = @ \cup {c}]
        /\ chosen' = [chosen EXCEPT ![p] = c]
        /\ pc' = [pc EXCEPT ![p] = "open"]
        /\ UNCHANGED <<available, excused, faults>>
     \/ /\ c # p
        /\ NextCamera(p)
        /\ UNCHANGED <<pc, alreadyOpen, chosen, excused, faults>>
     \/ /\ c = p /\ faults < MaxFaults
        /\ faults' = faults + 1
        /\ excused' = [excused EXCEPT ![p] = TRUE]
        /\ NextCamera(p)
        /\ UNCHANGED <<pc, alreadyOpen, chosen>>
  /\ UNCHANGED <<shm, device_id, plugged, opened, again, crashes>>

(* Lines 795-815: no URI contains a serial number, and the empty URI that  *)
(* is returned then opens any camera.                                      *)
NoSuchSerial(p) ==
  /\ At(p, "query", "open")
  /\ querying[p] = Free /\ available[p] = {}
  /\ chosen' = [chosen EXCEPT ![p] = AnyCamera]
  /\ UNCHANGED <<shm, device_id, plugged, available, querying, alreadyOpen, opened, history>>

(* initDevice() opens the camera (AstraDevice's constructor), ...          *)
Candidates(p) == {c \in plugged : IsFree(c) /\ chosen[p] \in {c, AnyCamera}}

initDevice(p) ==
  /\ At(p, "open", "pass")
  /\ \E c \in Candidates(p) : opened' = [opened EXCEPT ![p] = c]
  /\ UNCHANGED <<shm, device_id, plugged, available, querying, alreadyOpen, chosen, history>>

(* ... or fails and tries again after three seconds.                       *)
OpenFails(p) ==
  /\ At(p, "open", "list")
  /\ \/ Candidates(p) = {} /\ UNCHANGED faults
     \/ /\ Candidates(p) # {} /\ faults < MaxFaults
        /\ faults' = faults + 1
  /\ chosen' = [chosen EXCEPT ![p] = Free]
  /\ excused' = [excused EXCEPT ![p] = @ \/ faults' # faults \/ Kept(p)]
  /\ UNCHANGED <<shm, device_id, plugged, available, querying, alreadyOpen, opened, again, crashes>>

(* Mutant: the second driver's constant is used by all.                    *)
PassSecond(p) ==
  /\ At(p, "pass", IF p = 1 THEN "last" ELSE "done")
  /\ shm' = 2
  /\ UNCHANGED <<device_id, plugged, places, history>>

(* Lines 86, 101: *shm = 2, *shm = (bootOrder+1).                          *)
Pass(p) ==
  /\ At(p, "pass", IF p = 1 THEN "last" ELSE "done")
  /\ shm' = p + 1
  /\ UNCHANGED <<device_id, plugged, places, history>>

(* Lines 103-113: the first driver removes the segment after the last.     *)
Remove(p) ==
  /\ At(p, "last", "done")
  /\ shm = N + 1 /\ shm' = 0
  /\ UNCHANGED <<device_id, plugged, places, history>>

(* A killed driver is started again; its camera is closed with it.         *)
Crash(p) ==
  /\ pc[p] # "start" /\ crashes < MaxCrashes /\ crashes' = crashes + 1
  /\ pc' = [pc EXCEPT ![p] = "start"]
  /\ again' = (again \/ pc[p] \in HasPassed)
  /\ available' = [available EXCEPT ![p] = {}]
  /\ querying' = [querying EXCEPT ![p] = Free]
  /\ alreadyOpen' = [alreadyOpen EXCEPT ![p] = {}]
  /\ chosen' = [chosen EXCEPT ![p] = Free]
  /\ opened' = [opened EXCEPT ![p] = Free]
  /\ excused' = [excused EXCEPT ![p] = FALSE]
  /\ UNCHANGED <<shm, device_id, plugged, faults>>

(* onDeviceConnected(): a camera is plugged in, or ready at last.          *)
onDeviceConnected(c) ==
  /\ c \notin plugged /\ plugged' = plugged \cup {c}
  /\ UNCHANGED <<pc, shm, device_id, places, history>>

(* onDeviceDisconnected(): a camera nobody has open is taken away.         *)
onDeviceDisconnected(c) ==
  /\ c \in plugged /\ IsFree(c) /\ faults < MaxFaults /\ faults' = faults + 1
  /\ plugged' = plugged \ {c}
  /\ UNCHANGED <<pc, shm, device_id, places, excused, again, crashes>>

(* One step of a driver's constructor up to its camera.                    *)
Boot(p) ==
  \/ Start(p) \/ Turn(p) \/ resolveDeviceURI(p) \/ SkipCamera(p)
  \/ OpenForSerial(p) \/ getSerial(p) \/ NoSuchSerial(p)
  \/ initDevice(p) \/ OpenFails(p) \/ Pass(p) \/ Remove(p)

BootNext ==
  \/ \E p \in Proc : Boot(p) \/ Crash(p)
  \/ \E c \in Camera : onDeviceConnected(c) \/ onDeviceDisconnected(c)

-----------------------------------------------------------------------------
(* One driver at a time opens cameras, unless one that had passed its turn *)
(* was restarted: it takes the turn back, or finds that of the last boot.  *)
OneAtATime ==
  ~again => \A p, q \in Proc : pc[p] \in Booting /\ pc[q] \in Booting => p = q

(* A driver given a serial number has that camera, or at the time it       *)
(* looked the camera was away or kept by another, or failed: one failure   *)
(* is enough, since alreadyOpen hides the camera from the second attempt,  *)
(* which then takes any. It never misses it because another driver was     *)
(* just reading its number.                                                *)
OwnDevice ==
  \A p \in Proc :
    ~again /\ IsSerial(p) /\ opened[p] \notin {Free, p} => excused[p]

(* With all cameras plugged in, every driver gets one, unless one was      *)
(* restarted late, or its launch file named a camera by its place and      *)
(* another driver missed its own.                                          *)
AllUp == \A p \in Proc : pc[p] = "done"
BootsAll ==
  <>[](plugged = Camera) =>
    <>(again \/ AllUp
       \/ (~(\A p \in Proc : IsSerial(p)) /\ \E p \in Proc : excused[p]))
=============================================================================
