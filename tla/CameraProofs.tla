---------------------------- MODULE CameraProofs ----------------------------
(***************************************************************************)
(* Proofs about the drivers of the two kinds of camera.                    *)
(*                                                                         *)
(* Astra, the boot, for any number of drivers, cameras, failures and       *)
(* restarts: one at a time opens cameras, and each that misses its own has *)
(* a reason.  A driver with its camera, for any configurations and         *)
(* failures: the streams that are on are those subscribed to, and depth    *)
(* images are named after their registration.                              *)
(*                                                                         *)
(* UsbCam: no buffer is lost to the ring, for any number of buffers, the   *)
(* services cannot end the node, and an image is published no later than   *)
(* the ring and the program's delay allow.  What it shows is true to the   *)
(* colours, for all colours and ten-bit greys.                             *)
(***************************************************************************)
EXTENDS Astra, UsbCam, FiniteSetTheorems, TLAPS

Places == {"start", "wait", "list", "query", "open", "pass", "last", "done"}

Types ==
  /\ pc \in [Proc -> Places]
  /\ shm \in Nat
  /\ again \in BOOLEAN

(* Whose turn it is, and what that says of the drivers before and after.   *)
TurnHeld ==
  /\ \A p \in Proc : pc[p] \in Booting => shm = p
  /\ \A p \in Proc : pc[p] \in HasPassed <=> (shm > p \/ (shm = 0 /\ pc[p] = "done"))
  /\ shm = 0 => \/ \A p \in Proc : pc[p] = "done"
                \/ \A p \in Proc : pc[p] \in {"start", "wait"}
  /\ \A p \in Proc : pc[p] = "last" => p = 1

TurnInv == Types /\ (~again => TurnHeld)

LEMMA NPositive == N \in Nat /\ N >= 2 /\ 1 \in Proc /\ Proc \subseteq Nat \ {0}
  BY TurnsFitChar DEF Proc

LEMMA TurnInit == BootInit => TurnInv
<1> SUFFICES ASSUME BootInit PROVE TurnInv
  OBVIOUS
<1>1. /\ pc = [p \in Proc |-> "start"] /\ shm = 0 /\ again = FALSE
      /\ \A p \in Proc : pc[p] = "start"
  BY DEF BootInit
<1>2. Types
  BY <1>1 DEF Types, Places
<1>3. TurnHeld
  BY <1>1, NPositive DEF TurnHeld, Booting, HasPassed
<1> QED
  BY <1>2, <1>3 DEF TurnInv

(* A driver begins: the byte is still that of the first one, or new.       *)
LEMMA StartKeeps ==
  ASSUME TurnInv, NEW p \in Proc, Start(p)
  PROVE  TurnInv'
<1>1. /\ pc[p] = "start" /\ pc' = [pc EXCEPT ![p] = IF p = 1 THEN "list" ELSE "wait"]
      /\ shm' = (IF p = 1 THEN 1 ELSE shm) /\ again' = again
  BY DEF Start, At, history
<1>2. Types'
  BY <1>1 DEF TurnInv, Types, Places
<1>3. ASSUME ~again PROVE TurnHeld'
  <2>1. TurnHeld
    BY <1>3 DEF TurnInv
  <2>2. shm \in Nat /\ pc \in [Proc -> Places]
    BY DEF TurnInv, Types
  <2>3. CASE p = 1
    <3>1. shm \in {0, 1}
      BY <1>1, <2>1, <2>2, <2>3, NPositive DEF TurnHeld, HasPassed
    <3>2. \A q \in Proc : q # p => pc[q] \in {"start", "wait"}
      BY <1>1, <2>1, <2>2, <2>3, <3>1, NPositive DEF TurnHeld, HasPassed, Booting, Places
    <3>3. shm' = 1 /\ pc'[p] = "list" /\ \A q \in Proc : q # p => pc'[q] \in {"start", "wait"}
      BY <1>1, <2>2, <2>3, <3>2
    <3>4. \A q \in Proc : pc'[q] \notin HasPassed /\ ~(shm' > q) /\ (pc'[q] \in Booting => q = 1)
      BY <2>3, <3>3, NPositive DEF HasPassed, Booting
    <3>5. \A q \in Proc : pc'[q] # "last" /\ pc'[q] # "done"
      BY <3>4 DEF HasPassed
    <3> QED
      BY <3>3, <3>4, <3>5 DEF TurnHeld
  <2>4. CASE p # 1
    BY <1>1, <2>1, <2>2, <2>4, NPositive DEF TurnHeld, HasPassed, Booting
  <2> QED
    BY <2>3, <2>4
<1> QED
  BY <1>1, <1>2, <1>3 DEF TurnInv

LEMMA TurnKeeps ==
  ASSUME TurnInv, NEW p \in Proc, Turn(p)
  PROVE  TurnInv'
<1>1. /\ pc[p] = "wait" /\ pc' = [pc EXCEPT ![p] = "list"]
      /\ shm = p /\ shm' = shm /\ again' = again
  BY DEF Turn, At, history
<1> QED
  BY <1>1, NPositive DEF TurnInv, Types, TurnHeld, Booting, HasPassed, Places

(* The steps of a driver that has its turn and keeps it.                   *)
LEMMA BootingKeeps ==
  ASSUME TurnInv, NEW p \in Proc, NEW to \in Booting,
         pc[p] \in Booting, pc' = [pc EXCEPT ![p] = to], UNCHANGED <<shm, again>>
  PROVE  TurnInv'
  BY NPositive DEF TurnInv, Types, TurnHeld, Booting, HasPassed, Places

LEMMA PassKeeps ==
  ASSUME TurnInv, NEW p \in Proc, Pass(p)
  PROVE  TurnInv'
<1>1. /\ pc[p] = "pass" /\ pc' = [pc EXCEPT ![p] = IF p = 1 THEN "last" ELSE "done"]
      /\ shm' = p + 1 /\ again' = again
  BY DEF Pass, At, history
<1>2. Types'
  BY <1>1, NPositive DEF TurnInv, Types, Places
<1>3. ASSUME ~again PROVE TurnHeld'
  <2>1. TurnHeld /\ shm = p /\ pc \in [Proc -> Places]
    BY <1>1, <1>3 DEF TurnInv, TurnHeld, Booting, Types
  <2>2. \A q \in Proc : q # p => pc'[q] = pc[q] /\ pc[q] \notin Booting
    BY <1>1, <2>1, NPositive DEF TurnHeld
  <2>3. pc'[p] \in HasPassed /\ (pc'[p] = "last" => p = 1)
    BY <1>1, <2>1 DEF HasPassed
  <2>4. shm' = p + 1 /\ p \in Nat /\ p # 0
    BY <1>1, NPositive
  <2>5. \A q \in Proc : pc'[q] \notin Booting
    BY <2>2, <2>3 DEF Booting, HasPassed
  <2>6. \A q \in Proc : pc'[q] \in HasPassed <=> shm' > q
    <3> TAKE q \in Proc
    <3>1. q \in Nat /\ p \in Nat /\ shm' = p + 1
      BY <2>4, NPositive
    <3>2. CASE q = p
      BY <2>3, <3>1, <3>2
    <3>3. CASE q # p
      <4>1. pc'[q] \in HasPassed <=> (shm > q \/ (shm = 0 /\ pc[q] = "done"))
        BY <2>1, <2>2, <3>3 DEF TurnHeld
      <4>2. shm = p /\ shm # 0
        BY <2>1, <2>4
      <4> QED
        BY <3>1, <3>3, <4>1, <4>2
    <3> QED
      BY <3>2, <3>3
  <2>7. \A q \in Proc : pc'[q] = "last" => q = 1
    BY <2>1, <2>2, <2>3 DEF TurnHeld
  <2>8. shm' # 0
    BY <2>4
  <2> QED
    BY <2>5, <2>6, <2>7, <2>8 DEF TurnHeld
<1> QED
  BY <1>1, <1>2, <1>3 DEF TurnInv

(* After the last one has passed, all have.                                *)
LEMMA RemoveKeeps ==
  ASSUME TurnInv, NEW p \in Proc, Remove(p)
  PROVE  TurnInv'
<1>1. /\ pc[p] = "last" /\ pc' = [pc EXCEPT ![p] = "done"]
      /\ shm = N + 1 /\ shm' = 0 /\ again' = again
  BY DEF Remove, At, history
<1>2. ASSUME ~again PROVE \A q \in Proc : pc'[q] = "done"
  <2>1. TurnHeld /\ pc \in [Proc -> Places]
    BY <1>2 DEF TurnInv, Types
  <2>2. \A q \in Proc : pc[q] \in HasPassed
    BY <1>1, <2>1, NPositive DEF TurnHeld, Proc
  <2>3. \A q \in Proc : q # p => q # 1 /\ pc'[q] = pc[q]
    BY <1>1, <2>1 DEF TurnHeld
  <2>4. \A q \in Proc : q # p => pc[q] # "last" /\ pc[q] \in HasPassed
    BY <2>1, <2>2, <2>3 DEF TurnHeld
  <2>5. pc'[p] = "done"
    BY <1>1, <2>1
  <2> QED
    BY <2>3, <2>4, <2>5 DEF HasPassed
<1>3. Types'
  BY <1>1 DEF TurnInv, Types, Places
<1> QED
  BY <1>1, <1>2, <1>3, NPositive DEF TurnInv, TurnHeld, Booting, HasPassed

LEMMA CrashKeeps ==
  ASSUME TurnInv, NEW p \in Proc, Crash(p)
  PROVE  TurnInv'
<1>1. /\ pc' = [pc EXCEPT ![p] = "start"] /\ shm' = shm
      /\ again' = (again \/ pc[p] \in HasPassed)
  BY DEF Crash
<1>2. Types'
  BY <1>1 DEF TurnInv, Types, Places
<1>3. ASSUME ~again' PROVE TurnHeld'
  <2>1. TurnHeld /\ pc \in [Proc -> Places] /\ shm \in Nat /\ pc[p] \notin HasPassed
    BY <1>1, <1>3 DEF TurnInv, Types
  <2> QED
    BY <1>1, <2>1, NPositive DEF TurnHeld, Booting, HasPassed
<1> QED
  BY <1>2, <1>3 DEF TurnInv

LEMMA BootKeeps ==
  ASSUME TurnInv, NEW p \in Proc, Boot(p)
  PROVE  TurnInv'
<1>1. CASE Start(p)
  BY <1>1, StartKeeps
<1>2. CASE Turn(p)
  BY <1>2, TurnKeeps
<1>3. CASE Pass(p)
  BY <1>3, PassKeeps
<1>4. CASE Remove(p)
  BY <1>4, RemoveKeeps
<1>5. CASE resolveDeviceURI(p)
  <2>1. /\ pc[p] \in Booting /\ UNCHANGED <<shm, again>>
        /\ \E to \in Booting : pc' = [pc EXCEPT ![p] = to]
    BY <1>5 DEF resolveDeviceURI, Booting
  <2> QED
    BY <2>1, BootingKeeps
<1>6. CASE SkipCamera(p) \/ OpenForSerial(p)
  <2>1. UNCHANGED <<pc, shm, again>>
    BY <1>6 DEF SkipCamera, OpenForSerial, history
  <2> QED
    BY <2>1 DEF TurnInv, Types, TurnHeld
<1>7. CASE getSerial(p)
  <2>1. /\ pc[p] \in Booting /\ UNCHANGED <<shm, again>>
        /\ pc' = pc \/ pc' = [pc EXCEPT ![p] = "open"]
    BY <1>7 DEF getSerial, Booting
  <2>2. CASE pc' = pc
    BY <2>1, <2>2 DEF TurnInv, Types, TurnHeld
  <2>3. CASE pc' = [pc EXCEPT ![p] = "open"]
    BY <2>1, <2>3, BootingKeeps DEF Booting
  <2> QED
    BY <2>1, <2>2, <2>3
<1>8. CASE NoSuchSerial(p) \/ initDevice(p) \/ OpenFails(p)
  <2>1. /\ pc[p] \in Booting /\ UNCHANGED <<shm, again>>
        /\ \E to \in Booting : pc' = [pc EXCEPT ![p] = to]
    BY <1>8 DEF NoSuchSerial, initDevice, OpenFails, At, Booting, history
  <2> QED
    BY <2>1, BootingKeeps
<1> QED
  BY <1>1, <1>2, <1>3, <1>4, <1>5, <1>6, <1>7, <1>8 DEF Boot

LEMMA TurnStep ==
  ASSUME TurnInv, [LifeNext]_life_vars
  PROVE  TurnInv'
<1>1. ASSUME NEW p \in Proc, Boot(p) PROVE TurnInv'
  BY <1>1, BootKeeps
<1>2. ASSUME NEW p \in Proc, Crash(p) PROVE TurnInv'
  BY <1>2, CrashKeeps
<1>3. ASSUME UNCHANGED <<pc, shm, again>> PROVE TurnInv'
  BY <1>3 DEF TurnInv, Types, TurnHeld
<1>4. ASSUME NEW c \in Camera, onDeviceConnected(c) \/ onDeviceDisconnected(c)
      PROVE  UNCHANGED <<pc, shm, again>>
  BY <1>4 DEF onDeviceConnected, onDeviceDisconnected, history
<1>5. ASSUME UNCHANGED bootVars \/ UNCHANGED life_vars PROVE UNCHANGED <<pc, shm, again>>
  BY <1>5 DEF life_vars, bootVars, history
<1> QED
  BY <1>1, <1>2, <1>3, <1>4, <1>5 DEF LifeNext, BootNext

(* The byte in shared memory names the one driver that may be booting.     *)
THEOREM TurnInvariance == LifeSpec => []TurnInv
<1>1. LifeInit => TurnInv
  BY TurnInit DEF LifeInit
<1> QED
  BY <1>1, TurnStep, PTL DEF LifeSpec

LEMMA TurnsExclude == TurnInv => OneAtATime
  BY DEF TurnInv, TurnHeld, OneAtATime

(* Two drivers never look for cameras at the same time, unless one is      *)
(* restarted that had passed its turn.                                     *)
THEOREM OneAtATimeHolds == LifeSpec => []OneAtATime
  BY TurnInvariance, TurnsExclude, PTL

-----------------------------------------------------------------------------
(* Why a driver that was given a serial number and has another camera has  *)
(* an excuse.                                                              *)
PlaceTypes ==
  /\ DOMAIN available = Proc /\ DOMAIN querying = Proc /\ DOMAIN alreadyOpen = Proc
  /\ DOMAIN chosen = Proc /\ DOMAIN opened = Proc /\ DOMAIN excused = Proc
  /\ \A p \in Proc : excused[p] \in BOOLEAN
  /\ faults \in Nat

(* While it looks, its own camera is still before it, or excused; once it  *)
(* has looked, it has chosen that camera, or any with an excuse.           *)
Own(p) ==
  /\ querying[p] # Free => pc[p] = "query" /\ querying[p] = First(available[p])
  /\ IsSerial(p) =>
       /\ opened[p] \notin {Free, p} => excused[p]
       /\ pc[p] = "open" => \/ chosen[p] = p
                            \/ chosen[p] = AnyCamera /\ excused[p]
       /\ pc[p] = "query" /\ p \notin available[p] => excused[p]
       /\ p \in alreadyOpen[p] /\ pc[p] \in {"start", "wait", "list", "query"} => excused[p]

OwnInv == PlaceTypes /\ (~again => \A p \in Proc : Own(p))

LEMMA OwnInit == BootInit => OwnInv
<1> SUFFICES ASSUME BootInit PROVE OwnInv
  OBVIOUS
<1>1. PlaceTypes
  BY DEF BootInit, PlaceTypes
<1>2. ASSUME NEW p \in Proc PROVE Own(p)
  <2>1. /\ pc[p] = "start" /\ querying[p] = Free /\ opened[p] = Free
        /\ alreadyOpen[p] = {}
    BY <1>2 DEF BootInit
  <2> QED
    BY <2>1 DEF Own
<1> QED
  BY <1>1, <1>2 DEF OwnInv

(* A camera that is not free while its driver has the turn is kept.        *)
LEMMA NotJustRead ==
  ASSUME TurnInv, ~again, \A q \in Proc : Own(q), NEW p \in Proc,
         pc[p] \in Booting, querying[p] = Free, p \notin plugged \/ ~IsFree(p)
  PROVE  Kept(p)
<1>1. ASSUME NEW q \in Proc, querying[q] = p PROVE FALSE
  <2>1. querying[q] # Free
    BY <1>1, NPositive DEF Free
  <2>2. pc[q] \in Booting
    BY <2>1 DEF Own, Booting
  <2>3. q = p
    BY <2>2, TurnsExclude DEF OneAtATime
  <2> QED
    BY <1>1, <2>1, <2>3
<1> QED
  BY <1>1 DEF IsFree, Kept

(* A step that only moves a driver on, not into its search.                *)
LEMMA WalkOwn ==
  ASSUME OwnInv, NEW p \in Proc, pc \in [Proc -> Places],
         Start(p) \/ Turn(p) \/ Pass(p) \/ Remove(p)
  PROVE  OwnInv'
<1>1. UNCHANGED <<device_id, available, querying, alreadyOpen, chosen, opened, excused, again, faults>>
  BY DEF Start, Turn, Pass, Remove, places, history
<1>2. \A q \in Proc : q # p => pc'[q] = pc[q]
  BY DEF Start, Turn, Pass, Remove, At
<1>3. /\ pc[p] \in {"start", "wait", "pass", "last"} /\ pc'[p] \notin {"open", "query"}
      /\ pc'[p] \in {"start", "wait", "list"} => pc[p] \in {"start", "wait"}
  BY DEF Start, Turn, Pass, Remove, At
<1>4. ASSUME NEW q \in Proc, Own(q) PROVE Own(q)'
  <2>1. CASE q = p
    BY <1>1, <1>3, <1>4, <2>1 DEF Own, IsSerial
  <2>2. CASE q # p
    BY <1>1, <1>2, <1>4, <2>2 DEF Own, IsSerial
  <2> QED
    BY <2>1, <2>2
<1> QED
  BY <1>1, <1>4 DEF OwnInv, PlaceTypes

(* What a driver does in its search is its own affair.                     *)
LEMMA OthersOwn ==
  ASSUME PlaceTypes, pc \in [Proc -> Places], NEW p \in Proc, NEW q \in Proc, q # p, Own(q),
         \/ resolveDeviceURI(p) \/ SkipCamera(p) \/ OpenForSerial(p) \/ getSerial(p)
         \/ NoSuchSerial(p) \/ initDevice(p) \/ OpenFails(p) \/ Crash(p)
  PROVE  Own(q)'
<1>1. device_id' = device_id
  BY DEF resolveDeviceURI, SkipCamera, OpenForSerial, getSerial, NoSuchSerial, initDevice,
         OpenFails, Crash
<1>2. pc'[q] = pc[q]
  BY DEF resolveDeviceURI, SkipCamera, OpenForSerial, getSerial, NoSuchSerial, initDevice,
         OpenFails, Crash, At
<1>3. available'[q] = available[q] /\ querying'[q] = querying[q]
  BY DEF resolveDeviceURI, SkipCamera, OpenForSerial, getSerial, NoSuchSerial, initDevice,
         OpenFails, Crash, NextCamera, PlaceTypes
<1>4. alreadyOpen'[q] = alreadyOpen[q] /\ chosen'[q] = chosen[q]
  BY DEF resolveDeviceURI, SkipCamera, OpenForSerial, getSerial, NoSuchSerial, initDevice,
         OpenFails, Crash, PlaceTypes
<1>5. opened'[q] = opened[q]
  BY DEF resolveDeviceURI, SkipCamera, OpenForSerial, getSerial, NoSuchSerial, initDevice,
         OpenFails, Crash, PlaceTypes
<1>6. excused'[q] = excused[q]
  BY DEF resolveDeviceURI, SkipCamera, OpenForSerial, getSerial, NoSuchSerial, initDevice,
         OpenFails, Crash, PlaceTypes, history
<1> QED
  BY <1>1, <1>2, <1>3, <1>4, <1>5, <1>6 DEF Own, IsSerial

LEMMA PlacesTyped ==
  ASSUME PlaceTypes, pc \in [Proc -> Places], NEW p \in Proc,
         \/ resolveDeviceURI(p) \/ SkipCamera(p) \/ OpenForSerial(p) \/ getSerial(p)
         \/ NoSuchSerial(p) \/ initDevice(p) \/ OpenFails(p) \/ Crash(p)
  PROVE  PlaceTypes'
<1>1. DOMAIN available' = Proc /\ DOMAIN querying' = Proc
  BY DEF resolveDeviceURI, SkipCamera, OpenForSerial, getSerial, NoSuchSerial, initDevice,
         OpenFails, Crash, NextCamera, PlaceTypes
<1>2. DOMAIN alreadyOpen' = Proc /\ DOMAIN chosen' = Proc
  BY DEF resolveDeviceURI, SkipCamera, OpenForSerial, getSerial, NoSuchSerial, initDevice,
         OpenFails, Crash, PlaceTypes
<1>3. DOMAIN opened' = Proc /\ DOMAIN excused' = Proc
  BY DEF resolveDeviceURI, SkipCamera, OpenForSerial, getSerial, NoSuchSerial, initDevice,
         OpenFails, Crash, PlaceTypes, history
<1>4. \A q \in Proc : excused'[q] \in BOOLEAN
  BY DEF resolveDeviceURI, SkipCamera, OpenForSerial, getSerial, NoSuchSerial, initDevice,
         OpenFails, Crash, PlaceTypes, history, Kept
<1>5. faults' \in Nat
  BY DEF resolveDeviceURI, SkipCamera, OpenForSerial, getSerial, NoSuchSerial, initDevice,
         OpenFails, Crash, PlaceTypes, history
<1> QED
  BY <1>1, <1>2, <1>3, <1>4, <1>5 DEF PlaceTypes

LEMMA ResolveOwn ==
  ASSUME PlaceTypes, pc \in [Proc -> Places], NEW p \in Proc, Own(p), resolveDeviceURI(p)
  PROVE  Own(p)'
<1>1. pc[p] = "list" /\ querying[p] = Free /\ device_id' = device_id
  BY DEF resolveDeviceURI, Own
<1>2. UNCHANGED <<querying, alreadyOpen, opened>>
  BY DEF resolveDeviceURI
<1>3. (excused[p] => excused'[p]) /\ (p \notin plugged => excused'[p])
  BY DEF resolveDeviceURI, PlaceTypes, getConnectedDeviceURIs
<1>4. CASE IsSerial(p)
  <2>1. pc'[p] = "query" /\ available'[p] = plugged
    BY <1>4 DEF resolveDeviceURI, PlaceTypes, getConnectedDeviceURIs
  <2> QED
    BY <1>1, <1>2, <1>3, <2>1 DEF Own, IsSerial
<1>5. CASE ~IsSerial(p)
  BY <1>1, <1>2, <1>5 DEF Own, IsSerial
<1> QED
  BY <1>4, <1>5

LEMMA SkipOwn ==
  ASSUME TurnInv, PlaceTypes, ~again, \A q \in Proc : Own(q), NEW p \in Proc, SkipCamera(p)
  PROVE  Own(p)'
<1>1. /\ pc[p] = "query" /\ querying[p] = Free
      /\ UNCHANGED <<pc, device_id, querying, alreadyOpen, chosen, opened>>
  BY DEF SkipCamera
<1>2. available'[p] = available[p] \ {First(available[p])}
  BY DEF SkipCamera, NextCamera, PlaceTypes
<1>3. excused[p] => excused'[p]
  BY DEF SkipCamera, PlaceTypes
<1>4. ASSUME IsSerial(p), p \notin available'[p] PROVE excused'[p]
  <2>1. CASE p \notin available[p]
    BY <1>1, <1>3, <1>4, <2>1 DEF Own
  <2>2. CASE p \in available[p]
    <3>1. p = First(available[p])
      BY <1>2, <1>4, <2>2
    <3>2. CASE p \in alreadyOpen[p]
      BY <1>1, <1>3, <1>4, <3>2 DEF Own
    <3>3. CASE p \notin plugged \/ ~IsFree(p)
      <4>1. Kept(p)
        BY <1>1, <3>3, NotJustRead DEF Booting
      <4> QED
        BY <3>1, <4>1 DEF SkipCamera, PlaceTypes
    <3> QED
      BY <3>1, <3>2, <3>3 DEF SkipCamera
  <2> QED
    BY <2>1, <2>2
<1> QED
  BY <1>1, <1>3, <1>4 DEF Own, IsSerial

LEMMA OpenForSerialOwn ==
  ASSUME PlaceTypes, NEW p \in Proc, Own(p), OpenForSerial(p)
  PROVE  Own(p)'
<1>1. /\ pc[p] = "query" /\ querying'[p] = First(available[p])
      /\ UNCHANGED <<pc, device_id, available, alreadyOpen, chosen, opened, excused>>
  BY DEF OpenForSerial, PlaceTypes, history
<1> QED
  BY <1>1 DEF Own, IsSerial

LEMMA GetSerialOwn ==
  ASSUME PlaceTypes, pc \in [Proc -> Places], NEW p \in Proc, Own(p), getSerial(p)
  PROVE  Own(p)'
<1>1. /\ pc[p] = "query" /\ querying[p] = First(available[p]) /\ querying'[p] = Free
      /\ UNCHANGED <<device_id, opened>>
  BY DEF getSerial, PlaceTypes, Own
<1>2. CASE querying[p] = p /\ chosen' = [chosen EXCEPT ![p] = querying[p]] /\ pc' = [pc EXCEPT ![p] = "open"]
           /\ UNCHANGED excused
  <2>1. chosen'[p] = p /\ pc'[p] = "open"
    BY <1>2 DEF PlaceTypes
  <2> QED
    BY <1>1, <1>2, <2>1 DEF Own, IsSerial
<1>3. CASE querying[p] # p /\ NextCamera(p) /\ UNCHANGED <<pc, alreadyOpen, chosen, excused>>
  <2>1. available'[p] = available[p] \ {querying[p]}
    BY <1>1, <1>3 DEF NextCamera, PlaceTypes
  <2> QED
    BY <1>1, <1>3, <2>1 DEF Own, IsSerial
<1>4. CASE excused' = [excused EXCEPT ![p] = TRUE] /\ UNCHANGED <<pc, alreadyOpen, chosen>>
  <2>1. excused'[p]
    BY <1>4 DEF PlaceTypes
  <2> QED
    BY <1>1, <1>4, <2>1 DEF Own, IsSerial
<1> QED
  BY <1>2, <1>3, <1>4 DEF getSerial

LEMMA NoSuchSerialOwn ==
  ASSUME PlaceTypes, pc \in [Proc -> Places], NEW p \in Proc, Own(p), NoSuchSerial(p)
  PROVE  Own(p)'
<1>1. /\ pc[p] = "query" /\ pc'[p] = "open" /\ querying[p] = Free /\ available[p] = {}
      /\ chosen'[p] = AnyCamera
      /\ UNCHANGED <<device_id, available, querying, alreadyOpen, opened, excused>>
  BY DEF NoSuchSerial, At, PlaceTypes, history
<1> QED
  BY <1>1 DEF Own, IsSerial

LEMMA InitDeviceOwn ==
  ASSUME PlaceTypes, pc \in [Proc -> Places], NEW p \in Proc, Own(p), initDevice(p)
  PROVE  Own(p)'
<1>1. /\ pc[p] = "open" /\ pc'[p] = "pass" /\ querying[p] = Free
      /\ UNCHANGED <<device_id, available, querying, alreadyOpen, chosen, excused>>
  BY DEF initDevice, At, Own, history
<1>2. PICK c \in Candidates(p) : opened' = [opened EXCEPT ![p] = c]
  BY DEF initDevice
<1>3. opened'[p] = c /\ chosen[p] \in {c, AnyCamera}
  BY <1>2 DEF PlaceTypes, Candidates
<1>4. p # AnyCamera
  BY NPositive DEF Proc, AnyCamera
<1> QED
  BY <1>1, <1>3, <1>4 DEF Own, IsSerial

LEMMA OpenFailsOwn ==
  ASSUME TurnInv, PlaceTypes, ~again, \A q \in Proc : Own(q), NEW p \in Proc, OpenFails(p)
  PROVE  Own(p)'
<1>1. /\ pc[p] = "open" /\ pc'[p] = "list" /\ querying[p] = Free
      /\ UNCHANGED <<device_id, available, querying, alreadyOpen, opened>>
  BY DEF OpenFails, At, Own, TurnInv, Types
<1>2. excused'[p] = (excused[p] \/ faults' # faults \/ Kept(p))
  BY DEF OpenFails, PlaceTypes
<1>3. ASSUME IsSerial(p) PROVE excused'[p]
  <2>1. CASE Candidates(p) = {}
    <3>1. CASE chosen[p] = p
      <4>1. p \notin plugged \/ ~IsFree(p)
        BY <2>1, <3>1 DEF Candidates
      <4> QED
        BY <1>1, <1>2, <4>1, NotJustRead DEF Booting
    <3>2. CASE chosen[p] # p
      BY <1>1, <1>2, <1>3, <3>2 DEF Own
    <3> QED
      BY <3>1, <3>2
  <2>2. CASE faults' = faults + 1
    <3>1. faults' # faults
      BY <2>2 DEF PlaceTypes
    <3> QED
      BY <1>2, <3>1
  <2>3. Candidates(p) = {} \/ faults' = faults + 1
    BY DEF OpenFails
  <2> QED
    BY <2>1, <2>2, <2>3
<1> QED
  BY <1>1, <1>3 DEF Own, IsSerial

LEMMA CrashOwn ==
  ASSUME PlaceTypes, pc \in [Proc -> Places], NEW p \in Proc, Crash(p)
  PROVE  Own(p)'
<1>1. /\ pc'[p] = "start" /\ querying'[p] = Free /\ opened'[p] = Free
      /\ alreadyOpen'[p] = {}
  BY DEF Crash, PlaceTypes
<1> QED
  BY <1>1 DEF Own, IsSerial

LEMMA BootOwn ==
  ASSUME TurnInv, OwnInv, NEW p \in Proc, Boot(p) \/ Crash(p)
  PROVE  OwnInv'
<1>1. pc \in [Proc -> Places] /\ PlaceTypes
  BY DEF TurnInv, Types, OwnInv
<1>2. CASE Start(p) \/ Turn(p) \/ Pass(p) \/ Remove(p)
  BY <1>1, <1>2, WalkOwn
<1>3. CASE \/ resolveDeviceURI(p) \/ SkipCamera(p) \/ OpenForSerial(p) \/ getSerial(p)
           \/ NoSuchSerial(p) \/ initDevice(p) \/ OpenFails(p) \/ Crash(p)
  <2>1. PlaceTypes'
    BY <1>1, <1>3, PlacesTyped
  <2>2. ASSUME ~again' PROVE ~again
    BY <1>3, <2>2 DEF resolveDeviceURI, SkipCamera, OpenForSerial, getSerial, NoSuchSerial,
                      initDevice, OpenFails, Crash, history
  <2>3. ASSUME ~again', NEW q \in Proc, q # p PROVE Own(q)'
    BY <1>1, <1>3, <2>2, <2>3, OthersOwn DEF OwnInv
  <2>4. ASSUME ~again' PROVE Own(p)'
    <3>1. \A q \in Proc : Own(q)
      BY <2>2, <2>4 DEF OwnInv
    <3>2. Own(p) /\ ~again
      BY <2>2, <2>4, <3>1
    <3>3. CASE resolveDeviceURI(p)
      BY <1>1, <3>2, <3>3, ResolveOwn
    <3>4. CASE SkipCamera(p)
      BY <1>1, <3>1, <3>2, <3>4, SkipOwn
    <3>5. CASE OpenForSerial(p)
      BY <1>1, <3>2, <3>5, OpenForSerialOwn
    <3>6. CASE getSerial(p)
      BY <1>1, <3>2, <3>6, GetSerialOwn
    <3>7. CASE NoSuchSerial(p)
      BY <1>1, <3>2, <3>7, NoSuchSerialOwn
    <3>8. CASE initDevice(p)
      BY <1>1, <3>2, <3>8, InitDeviceOwn
    <3>9. CASE OpenFails(p)
      BY <1>1, <3>1, <3>2, <3>9, OpenFailsOwn
    <3>10. CASE Crash(p)
      BY <1>1, <3>10, CrashOwn
    <3> QED
      BY <1>3, <3>3, <3>4, <3>5, <3>6, <3>7, <3>8, <3>9, <3>10
  <2> QED
    BY <2>1, <2>3, <2>4 DEF OwnInv
<1> QED
  BY <1>2, <1>3 DEF Boot

LEMMA OwnStep ==
  ASSUME TurnInv, OwnInv, [LifeNext]_life_vars
  PROVE  OwnInv'
<1>1. ASSUME NEW p \in Proc, Boot(p) \/ Crash(p) PROVE OwnInv'
  BY <1>1, BootOwn
<1>2. ASSUME UNCHANGED <<pc, device_id, places, excused, again>>, faults' \in Nat PROVE OwnInv'
  BY <1>2 DEF OwnInv, PlaceTypes, Own, IsSerial, places
<1>3. ASSUME NEW c \in Camera, onDeviceConnected(c) \/ onDeviceDisconnected(c)
      PROVE  UNCHANGED <<pc, device_id, places, excused, again>> /\ faults' \in Nat
  BY <1>3 DEF onDeviceConnected, onDeviceDisconnected, history, OwnInv, PlaceTypes
<1>4. ASSUME UNCHANGED bootVars \/ UNCHANGED life_vars
      PROVE  UNCHANGED <<pc, device_id, places, excused, again>> /\ faults' \in Nat
  BY <1>4 DEF life_vars, bootVars, history, OwnInv, PlaceTypes
<1> QED
  BY <1>1, <1>2, <1>3, <1>4 DEF LifeNext, BootNext

(* A driver with a serial number finds its own camera, or has a reason not *)
(* to.                                                                     *)
THEOREM OwnInvariance == LifeSpec => []OwnInv
<1>1. LifeInit => OwnInv
  BY OwnInit DEF LifeInit
<1> QED
  BY <1>1, TurnInvariance, OwnStep, PTL DEF LifeSpec

(* A driver given a serial number never misses its camera because another  *)
(* one is just looking at it: it has a reason of its own, for any number   *)
(* of drivers, cameras and failures.                                       *)
THEOREM OwnDeviceHolds == LifeSpec => []OwnDevice
<1>1. OwnInv => OwnDevice
  BY DEF OwnInv, Own, OwnDevice
<1> QED
  BY OwnInvariance, <1>1, PTL
-----------------------------------------------------------------------------
(* The subscribers of one driver. While the topics are advertised the      *)
(* connect callbacks wait, so that when one runs every publisher that has  *)
(* been announced has been assigned too.                                   *)
Advertising ==
  /\ ctor \in {"configure", "wait", "advertise", "up"}
  /\ ctor \in {"configure", "wait"} => announced = {} /\ started = {}
  /\ subs \subseteq announced /\ announced \subseteq Topic
  /\ pending # {} => announced # {}
  /\ ctor = "up" => announced \subseteq assigned

(* A stream without a waiting callback is as its subscribers want it.      *)
Followed ==
  /\ seen \subseteq Topic
  /\ ~("color" \in started /\ "ir" \in started)
  /\ "color" \notin pending =>
       /\ "color" \in seen <=> "color" \in subs
       /\ "color" \in started <=> "color" \in subs
  /\ "depth" \notin pending =>
       /\ "depth" \in seen <=> "depth" \in subs
       /\ "raw" \in seen <=> "raw" \in subs
       /\ "depth" \in started <=> ("depth" \in subs \/ "raw" \in subs)
  /\ "ir" \notin pending =>
       /\ "ir" \in seen <=> "ir" \in subs
       /\ "ir" \in started <=> ("ir" \in subs /\ "color" \notin started)

SubsInv == Advertising /\ Followed

LEMMA SubsInit == DriverInit => SubsInv
  BY DEF DriverInit, SubsInv, Advertising, Followed

LEMMA LeastOfFour ==
  ASSUME NEW S \in SUBSET (1 .. 4), S # {}
  PROVE  \E i \in S : \A j \in S : i <= j
<1>1. CASE 1 \in S
  BY <1>1
<1>2. CASE 1 \notin S /\ 2 \in S
  BY <1>2
<1>3. CASE 1 \notin S /\ 2 \notin S /\ 3 \in S
  BY <1>3
<1>4. CASE 1 \notin S /\ 2 \notin S /\ 3 \notin S
  <2>1. \A j \in S : j = 4
    BY <1>4
  <2>2. PICK i \in S : TRUE
    OBVIOUS
  <2> QED
    BY <2>1, <2>2
<1> QED
  BY <1>1, <1>2, <1>3, <1>4

LEMMA MissingTopic == Missing # {} => Now \in Topic /\ Present(Now)
<1> SUFFICES ASSUME Missing # {} PROVE Now \in Topic /\ Present(Now)
  OBVIOUS
<1>1. Missing \in SUBSET (1 .. 4) /\ \A i \in Missing : Present(Topics[i])
  BY DEF Missing
<1>2. (CHOOSE k \in Missing : \A j \in Missing : k <= j) \in Missing
  BY <1>1, LeastOfFour
<1>3. \A k \in 1 .. 4 : Topics[k] \in Topic
  BY DEF Topics, Topic
<1> QED
  BY <1>1, <1>2, <1>3 DEF Now

(* The steps of the constructor and of the clients.                        *)
LEMMA AnnounceKeeps ==
  ASSUME SubsInv, Announce
  PROVE  SubsInv'
<1>1. /\ ctor = "advertise" /\ announced' = announced \cup {Now} /\ Now \in Topic
      /\ UNCHANGED <<ctor, subs, assigned, pending, seen, started>>
  BY MissingTopic DEF Announce, streamVars
<1> QED
  BY <1>1 DEF SubsInv, Advertising, Followed

(* Only topics that the camera can have are announced.                     *)
Announceable == announced \subseteq {t \in Topic : Present(t)}

LEMMA AnnounceableKeeps ==
  ASSUME Announceable, DriverNext
  PROVE  Announceable'
<1>1. CASE Announce
  <2>1. announced' = announced \cup {Now} /\ color' = color /\ Now \in Topic /\ Present(Now)
    BY <1>1, MissingTopic DEF Announce
  <2> QED
    BY <2>1 DEF Announceable, Present
<1>2. CASE announced' = announced /\ color' = color
  BY <1>2 DEF Announceable, Present
<1>3. Announce \/ (announced' = announced /\ color' = color)
  BY DEF DriverNext, Configure, Configured, Assign, Advertised, SetModes, ModeRefused,
         applyConfigToOpenNIDevice, RegistrationRefused, Done, Subscribe, colorConnectCb,
         depthConnectCb, irConnectCb, ConnectCb, Reconfigure, configCb, newColorFrameCallback,
         newIRFrameCallback, newFrame, onNewFrame, newDepthFrameCallback, topicVars
<1> QED
  BY <1>1, <1>2, <1>3

LEMMA AssignKeeps ==
  ASSUME SubsInv, Assign
  PROVE  SubsInv'
<1>1. /\ ctor = "advertise" /\ assigned' = assigned \cup {Now}
      /\ UNCHANGED <<ctor, subs, announced, pending, seen, started>>
  BY DEF Assign, streamVars
<1> QED
  BY <1>1 DEF SubsInv, Advertising, Followed

LEMMA AdvertisedKeeps ==
  ASSUME SubsInv, Announceable, Advertised
  PROVE  SubsInv'
<1>1. /\ ctor' = "up" /\ Missing = {}
      /\ UNCHANGED <<subs, announced, assigned, pending, seen, started>>
  BY DEF Advertised, streamVars, topicVars
<1>2. \A i \in 1 .. 4 : Present(Topics[i]) => Topics[i] \in assigned
  BY <1>1 DEF Missing
<1>3. \A t \in Topic : \E i \in 1 .. 4 : Topics[i] = t
  BY DEF Topic, Topics
<1>4. announced \subseteq assigned
  BY <1>2, <1>3 DEF Announceable
<1> QED
  BY <1>1, <1>4 DEF SubsInv, Advertising, Followed

LEMMA SubscribeKeeps ==
  ASSUME SubsInv, NEW t \in Topic, Subscribe(t)
  PROVE  SubsInv'
<1>1. /\ t \in announced
      /\ subs' = (IF t \in subs THEN subs \ {t} ELSE subs \cup {t})
      /\ pending' = pending \cup {StreamOf(t)}
      /\ UNCHANGED <<ctor, announced, assigned, seen, started>>
  BY DEF Subscribe, streamVars
<1>2. Advertising'
  BY <1>1 DEF SubsInv, Advertising
<1>3. \A u \in Topic : u # t => (u \in subs' <=> u \in subs)
  BY <1>1
<1>4. t \in {"color", "ir", "raw", "depth"}
  BY DEF Topic
<1>5. Followed'
  <2>1. CASE t = "color"
    BY <1>1, <1>3, <2>1 DEF SubsInv, Followed, Topic, StreamOf
  <2>2. CASE t = "ir"
    BY <1>1, <1>3, <2>2 DEF SubsInv, Followed, Topic, StreamOf
  <2>3. CASE t = "raw" \/ t = "depth"
    BY <1>1, <1>3, <2>3 DEF SubsInv, Followed, Topic, StreamOf
  <2> QED
    BY <1>4, <2>1, <2>2, <2>3
<1> QED
  BY <1>2, <1>5 DEF SubsInv

(* When a connect callback runs the publishers are all assigned.           *)
LEMMA ConnectStep ==
  ASSUME SubsInv, NEW s \in Stream, NEW topics \in SUBSET Topic, NEW on,
         ConnectCb(s, topics, on)
  PROVE  /\ ctor = "up" /\ s \in pending /\ pending' = pending \ {s}
         /\ \A t \in Topic : Subscribed(t) <=> t \in subs
         /\ \A t \in topics : t \in seen' <=> t \in subs
         /\ \A t \in Topic \ topics : t \in seen' <=> t \in seen
         /\ seen' \subseteq Topic /\ started' = on
         /\ UNCHANGED <<ctor, subs, announced, assigned>>
<1>1. /\ s \in pending /\ ctor # "advertise" /\ pending' = pending \ {s}
      /\ seen' = (seen \ topics) \cup {t \in topics : Subscribed(t)}
      /\ started' = on /\ UNCHANGED <<ctor, subs, announced, assigned>>
  BY DEF ConnectCb, Locked, Streams
<1>2. ctor = "up"
  BY <1>1 DEF SubsInv, Advertising
<1>3. \A t \in Topic : Subscribed(t) <=> t \in subs
  BY <1>2 DEF Subscribed, SubsInv, Advertising
<1>4. seen' \subseteq Topic
  BY <1>1 DEF SubsInv, Followed
<1> QED
  BY <1>1, <1>2, <1>3, <1>4

LEMMA ConnectedKeeps ==
  ASSUME SubsInv, ctor = "up", pending' \subseteq pending,
         UNCHANGED <<ctor, subs, announced, assigned>>
  PROVE  Advertising'
  BY DEF SubsInv, Advertising

LEMMA ColorKeeps ==
  ASSUME SubsInv, colorConnectCb
  PROVE  SubsInv'
<1> DEFINE on == IF Subscribed("color") THEN
                   IF "color" \in started THEN started ELSE (started \ {"ir"}) \cup {"color"}
                 ELSE IF "color" \in started
                   THEN (started \ {"color"}) \cup (IF Subscribed("ir") THEN {"ir"} ELSE {})
                   ELSE started
<1>1. ConnectCb("color", {"color"}, on) /\ "color" \in Stream /\ {"color"} \in SUBSET Topic
  BY DEF colorConnectCb, Stream, Topic
<1>2. /\ ctor = "up" /\ pending' = pending \ {"color"}
      /\ \A t \in Topic : Subscribed(t) <=> t \in subs
      /\ \A t \in {"color"} : t \in seen' <=> t \in subs
      /\ \A t \in Topic \ {"color"} : t \in seen' <=> t \in seen
      /\ seen' \subseteq Topic /\ started' = on
      /\ UNCHANGED <<ctor, subs, announced, assigned>>
  BY <1>1, ConnectStep
<1>3. /\ "color" \in started' <=> "color" \in subs
      /\ "depth" \in started' <=> "depth" \in started
      /\ ~("color" \in started' /\ "ir" \in started')
      /\ "ir" \notin pending =>
           ("ir" \in started' <=> ("ir" \in subs /\ "color" \notin started'))
  <2>1. /\ Subscribed("color") <=> "color" \in subs
        /\ Subscribed("ir") <=> "ir" \in subs
    BY <1>2 DEF Topic
  <2> QED
    BY <1>2, <2>1 DEF SubsInv, Followed
<1>4. Followed'
  BY <1>2, <1>3 DEF SubsInv, Followed, Topic
<1> QED
  BY <1>2, <1>4, ConnectedKeeps DEF SubsInv

LEMMA DepthKeeps ==
  ASSUME SubsInv, depthConnectCb
  PROVE  SubsInv'
<1> DEFINE on == IF Subscribed("depth") \/ Subscribed("raw") THEN started \cup {"depth"}
                 ELSE started \ {"depth"}
<1>1. /\ ConnectCb("depth", {"depth", "raw"}, on) /\ "depth" \in Stream
      /\ {"depth", "raw"} \in SUBSET Topic
  BY DEF depthConnectCb, Stream, Topic
<1>2. /\ ctor = "up" /\ pending' = pending \ {"depth"}
      /\ \A t \in Topic : Subscribed(t) <=> t \in subs
      /\ \A t \in {"depth", "raw"} : t \in seen' <=> t \in subs
      /\ \A t \in Topic \ {"depth", "raw"} : t \in seen' <=> t \in seen
      /\ seen' \subseteq Topic /\ started' = on
      /\ UNCHANGED <<ctor, subs, announced, assigned>>
  BY <1>1, ConnectStep
<1>3. /\ "depth" \in started' <=> ("depth" \in subs \/ "raw" \in subs)
      /\ "color" \in started' <=> "color" \in started
      /\ "ir" \in started' <=> "ir" \in started
  <2>1. (Subscribed("depth") \/ Subscribed("raw")) <=> ("depth" \in subs \/ "raw" \in subs)
    BY <1>2 DEF Topic
  <2> QED
    BY <1>2, <2>1
<1>4. Followed'
  BY <1>2, <1>3 DEF SubsInv, Followed, Topic
<1> QED
  BY <1>2, <1>4, ConnectedKeeps DEF SubsInv

LEMMA IrKeeps ==
  ASSUME SubsInv, irConnectCb
  PROVE  SubsInv'
<1> DEFINE on == IF ~Subscribed("ir") THEN started \ {"ir"}
                 ELSE IF "color" \in started THEN started
                 ELSE started \cup {"ir"}
<1>1. ConnectCb("ir", {"ir"}, on) /\ "ir" \in Stream /\ {"ir"} \in SUBSET Topic
  BY DEF irConnectCb, Stream, Topic
<1>2. /\ ctor = "up" /\ pending' = pending \ {"ir"}
      /\ \A t \in Topic : Subscribed(t) <=> t \in subs
      /\ \A t \in {"ir"} : t \in seen' <=> t \in subs
      /\ \A t \in Topic \ {"ir"} : t \in seen' <=> t \in seen
      /\ seen' \subseteq Topic /\ started' = on
      /\ UNCHANGED <<ctor, subs, announced, assigned>>
  BY <1>1, ConnectStep
<1>3. /\ "ir" \in started' <=> ("ir" \in subs /\ "color" \notin started')
      /\ "color" \in started' <=> "color" \in started
      /\ "depth" \in started' <=> "depth" \in started
  <2>1. Subscribed("ir") <=> "ir" \in subs
    BY <1>2 DEF Topic
  <2> QED
    BY <1>2, <2>1 DEF SubsInv, Followed
<1>4. Followed'
  BY <1>2, <1>3 DEF SubsInv, Followed, Topic
<1> QED
  BY <1>2, <1>4, ConnectedKeeps DEF SubsInv
LEMMA SubsStep ==
  ASSUME SubsInv, Announceable, DriverNext
  PROVE  SubsInv'
<1>1. ASSUME UNCHANGED <<ctor, subs, announced, assigned, pending, seen, started>>
      PROVE  SubsInv'
  BY <1>1 DEF SubsInv, Advertising, Followed
<1>2. CASE Configure \/ Configured
  <2>1. /\ ctor \in {"configure", "wait"} /\ ctor' \in {"wait", "advertise"}
        /\ UNCHANGED <<subs, announced, assigned, pending, seen, started>>
    BY <1>2 DEF Configure, Configured, topicVars, streamVars
  <2> QED
    BY <2>1 DEF SubsInv, Advertising, Followed
<1>3. CASE \/ SetModes \/ ModeRefused \/ applyConfigToOpenNIDevice \/ RegistrationRefused
           \/ Reconfigure \/ newColorFrameCallback \/ newIRFrameCallback \/ onNewFrame
           \/ newDepthFrameCallback
  BY <1>1, <1>3 DEF SetModes, ModeRefused, applyConfigToOpenNIDevice, RegistrationRefused, Done,
                    Reconfigure, configCb, newColorFrameCallback, newIRFrameCallback, newFrame,
                    onNewFrame, newDepthFrameCallback, topicVars, streamVars
<1> QED
  BY <1>2, <1>3, AnnounceKeeps, AssignKeeps, AdvertisedKeeps, SubscribeKeeps, ColorKeeps,
     DepthKeeps, IrKeeps DEF DriverNext

(* Streams follow subscribers, but for those of a callback that waits; no  *)
(* stream is on before the camera has been configured.                     *)
THEOREM SubsInvariance == LifeSpec => [](SubsInv /\ Announceable)
<1>1. LifeInit => SubsInv /\ Announceable
  BY SubsInit DEF LifeInit, DriverInit, Announceable
<1>2. ASSUME SubsInv, Announceable, UNCHANGED driverVars PROVE SubsInv' /\ Announceable'
  BY <1>2 DEF driverVars, topicVars, streamVars, SubsInv, Advertising, Followed, Announceable,
              Present
<1>3. ASSUME SubsInv, Announceable, [LifeNext]_life_vars PROVE SubsInv' /\ Announceable'
  BY <1>2, <1>3, SubsStep, AnnounceableKeeps DEF LifeNext, life_vars
<1> QED
  BY <1>1, <1>3, PTL DEF LifeSpec

(* Whenever subscribers come and go, and whatever OpenNI refuses, once no  *)
(* connect callback waits exactly the streams with subscribers are on,     *)
(* infrared only while colour is off: because the callbacks wait for       *)
(* connect_mutex_ until every publisher has been assigned.                 *)
THEOREM SettledHolds == LifeSpec => []Settled
<1>1. SubsInv => Settled
  <2> SUFFICES ASSUME SubsInv, ctor = "up", pending = {}
               PROVE  /\ seen = subs
                      /\ "depth" \in started <=> {"depth", "raw"} \cap subs # {}
                      /\ "color" \in started <=> "color" \in subs
                      /\ "ir" \in started <=> "ir" \in subs /\ "color" \notin subs
    BY DEF Settled
  <2>1. seen \subseteq Topic /\ subs \subseteq Topic
    BY DEF SubsInv, Advertising, Followed
  <2>2. \A t \in Topic : t \in seen <=> t \in subs
    BY DEF SubsInv, Followed, Topic
  <2>3. seen = subs
    BY <2>1, <2>2
  <2> QED
    BY <2>3 DEF SubsInv, Followed
<1> QED
  BY <1>1, SubsInvariance, PTL

-----------------------------------------------------------------------------
(* The registration that depth images are named after.                     *)
Threads == {"nobody", "ctor", "ros"}
Steps == {"none", "modes", "registration"}

ConfigTypes ==
  /\ applying \in [thread : Threads, step : Steps]
  /\ applying # Nobody => applying.step # "none"
  /\ "reg" \in DOMAIN hw
  /\ frame # NoFrame => "disturbed" \in DOMAIN frame
  /\ ctor = "configure" => frame = NoFrame /\ running = {}

(* Frames come once the driver has been configured; the camera then has    *)
(* the registration of the configuration last applied to the end, unless   *)
(* it refused it, and that is the one stored, unless another is under way  *)
(* or was broken off.                                                      *)
Registered ==
  /\ ctor \in {"configure", "wait", "advertise", "up"}
  /\ ctor \in {"advertise", "up"} => config_init_
  /\ ctor \in {"configure", "wait"} => running = {} /\ pending = {} /\ announced = {}
  /\ config_init_ /\ ~refused => hw.reg = old_config_.reg
  /\ config_init_ /\ ~aborted /\ applying = Nobody => old_config_ = config

FrameNamed ==
  /\ frame # NoFrame /\ ~frame.disturbed => frame.registered = config.reg
  /\ FrameMatches

RegInv == ConfigTypes /\ Registered /\ FrameNamed
LEMMA RegInit == DriverInit => RegInv
<1> SUFFICES ASSUME DriverInit PROVE RegInv
  OBVIOUS
<1>1. ConfigTypes
  BY DEF DriverInit, ConfigTypes, Nobody, Threads, Steps
<1>2. Registered
  BY DEF DriverInit, Registered
<1>3. FrameNamed
  BY DEF DriverInit, FrameNamed, FrameMatches
<1> QED
  BY <1>1, <1>2, <1>3 DEF RegInv

LEMMA NobodyStep == Nobody.step = "none"
  BY DEF Nobody

(* A frame under way when the configuration changes is marked.             *)
LEMMA Disturbed ==
  ASSUME ConfigTypes, Disturb
  PROVE  /\ frame' # NoFrame => frame'.disturbed = TRUE
         /\ frame' # NoFrame => "disturbed" \in DOMAIN frame'
         /\ frame = NoFrame => frame' = NoFrame
  BY DEF ConfigTypes, Disturb

LEMMA DisturbNames ==
  ASSUME RegInv, Disturb, sent' = sent
  PROVE  FrameNamed'
  BY Disturbed DEF RegInv, FrameNamed, FrameMatches

LEMMA ConfigKeeps ==
  ASSUME RegInv, Reconfigure
  PROVE  RegInv'
<1>1. /\ ctor # "configure" /\ Disturb /\ sent' = sent
      /\ applying = Nobody /\ applying' = [thread |-> "ros", step |-> "modes"]
      /\ UNCHANGED <<ctor, old_config_, config_init_, hw, refused, aborted, running, pending,
                     announced>>
  BY DEF Reconfigure, configCb, topicVars, streamVars
<1>2. applying' # Nobody /\ applying'.step = "modes"
  BY <1>1, NobodyStep
<1>3. ConfigTypes'
  BY <1>1, <1>2, Disturbed DEF RegInv, ConfigTypes, Threads, Steps
<1>4. Registered'
  BY <1>1, <1>2 DEF RegInv, Registered
<1> QED
  BY <1>1, <1>3, <1>4, DisturbNames DEF RegInv

LEMMA ConfigureKeeps ==
  ASSUME RegInv, Configure
  PROVE  RegInv'
<1>1. /\ ctor = "configure" /\ ctor' = "wait"
      /\ applying' = [thread |-> "ctor", step |-> "modes"]
      /\ UNCHANGED <<config, old_config_, config_init_, hw, refused, aborted, running, pending,
                     announced, frame, sent>>
  BY DEF Configure, topicVars, streamVars, frameVars
<1>2. applying' # Nobody /\ applying'.step = "modes"
  BY <1>1, NobodyStep
<1>3. ConfigTypes'
  BY <1>1, <1>2 DEF RegInv, ConfigTypes, Threads, Steps
<1>4. Registered'
  BY <1>1, <1>2 DEF RegInv, Registered
<1>5. FrameNamed'
  BY <1>1 DEF RegInv, FrameNamed, FrameMatches
<1> QED
  BY <1>3, <1>4, <1>5 DEF RegInv

(* Setting modes leaves the registration alone.                            *)
LEMMA ModesKeepRegistration ==
  ASSUME "reg" \in DOMAIN hw, NEW done \in SUBSET Stream
  PROVE  setVideoModes(done).reg = hw.reg /\ "reg" \in DOMAIN setVideoModes(done)
<1>1. "reg" \notin done
  BY DEF Stream
<1> QED
  BY <1>1 DEF setVideoModes

LEMMA SetModesKeeps ==
  ASSUME RegInv, SetModes
  PROVE  RegInv'
<1>1. /\ applying # Nobody /\ applying' = [applying EXCEPT !.step = "registration"]
      /\ hw' = setVideoModes(Wanted) /\ Disturb /\ sent' = sent
      /\ UNCHANGED <<ctor, config, old_config_, config_init_, refused, aborted, running, pending,
                     announced>>
  BY DEF SetModes, Step, topicVars, streamVars
<1>2. hw'.reg = hw.reg /\ "reg" \in DOMAIN hw'
  <2>1. Wanted \in SUBSET Stream
    BY DEF Wanted
  <2> QED
    BY <1>1, <2>1, ModesKeepRegistration DEF RegInv, ConfigTypes
<1>3. applying' \in [thread : Threads, step : Steps] /\ applying'.step = "registration"
  BY <1>1 DEF RegInv, ConfigTypes, Steps
<1>4. applying' # Nobody
  BY <1>3, NobodyStep
<1>5. ConfigTypes'
  BY <1>1, <1>2, <1>3, Disturbed DEF RegInv, ConfigTypes
<1>6. Registered'
  BY <1>1, <1>2, <1>4 DEF RegInv, Registered
<1> QED
  BY <1>1, <1>5, <1>6, DisturbNames DEF RegInv

LEMMA NobodyTyped == Nobody \in [thread : Threads, step : Steps]
  BY DEF Nobody, Threads, Steps

LEMMA ModeRefusedKeeps ==
  ASSUME RegInv, ModeRefused
  PROVE  RegInv'
<1>1. /\ applying' = Nobody /\ aborted' = TRUE /\ Disturb /\ sent' = sent
      /\ UNCHANGED <<ctor, config, old_config_, config_init_, refused, running, pending,
                     announced>>
  BY DEF ModeRefused, topicVars, streamVars
<1>2. hw'.reg = hw.reg /\ "reg" \in DOMAIN hw'
  <2>1. PICK s \in Wanted : hw' = setVideoModes({r \in Wanted : Order(r) < Order(s)})
    BY DEF ModeRefused
  <2>2. {r \in Wanted : Order(r) < Order(s)} \in SUBSET Stream
    BY DEF Wanted
  <2> QED
    BY <2>1, <2>2, ModesKeepRegistration DEF RegInv, ConfigTypes
<1>3. ConfigTypes'
  BY <1>1, <1>2, Disturbed, NobodyTyped DEF RegInv, ConfigTypes
<1>4. Registered'
  BY <1>1, <1>2 DEF RegInv, Registered
<1> QED
  BY <1>1, <1>3, <1>4, DisturbNames DEF RegInv

LEMMA AppliedKeeps ==
  ASSUME RegInv, applyConfigToOpenNIDevice \/ RegistrationRefused
  PROVE  RegInv'
<1>1. /\ applying' = Nobody /\ old_config_' = config /\ config_init_' = TRUE
      /\ Disturb /\ sent' = sent
      /\ UNCHANGED <<ctor, config, running, pending, announced>>
  BY DEF applyConfigToOpenNIDevice, RegistrationRefused, Done, topicVars, streamVars
<1>2. "reg" \in DOMAIN hw' /\ (~refused' => hw'.reg = config.reg)
  <2>1. CASE refused' = TRUE /\ hw' = hw
    BY <2>1 DEF RegInv, ConfigTypes
  <2>2. CASE setImageRegistrationMode(config.reg)
    BY <2>2 DEF RegInv, ConfigTypes, setImageRegistrationMode
  <2>3. CASE registers /\ ~RegistrationDiffers /\ refused' = (refused \/ ~registers) /\ hw' = hw
    <3>1. config_init_ /\ old_config_.reg = config.reg
      BY <2>3 DEF RegistrationDiffers
    <3>2. ~refused' => ~refused
      BY <2>3
    <3> QED
      BY <2>3, <3>1, <3>2 DEF RegInv, ConfigTypes, Registered
  <2>4. CASE ~registers /\ refused' = (refused \/ ~registers) /\ hw' = hw
    BY <2>4 DEF RegInv, ConfigTypes
  <2> QED
    BY <2>1, <2>2, <2>3, <2>4 DEF applyConfigToOpenNIDevice, RegistrationRefused
<1>3. ConfigTypes'
  BY <1>1, <1>2, Disturbed, NobodyTyped DEF RegInv, ConfigTypes
<1>4. Registered'
  BY <1>1, <1>2 DEF RegInv, Registered
<1> QED
  BY <1>1, <1>3, <1>4, DisturbNames DEF RegInv

(* The steps that leave the configuration alone.                           *)
configured == <<config, old_config_, config_init_, applying, hw, refused, aborted>>

LEMMA TopicsKeepReg ==
  ASSUME RegInv, UNCHANGED configured, UNCHANGED <<running, frame, sent>>,
         \/ Configured \/ Announce \/ Assign \/ Advertised
         \/ \E t \in Topic : Subscribe(t)
  PROVE  RegInv'
<1>1. FrameNamed'
  BY DEF RegInv, FrameNamed, FrameMatches, configured
<1>2. /\ ctor' \in {"advertise", "up"} \/ ctor' = ctor
      /\ ctor' \in {"advertise", "up"} => config_init_
      /\ ctor' # "configure" \/ ctor = "configure"
      /\ ctor' \in {"configure", "wait"} => pending' = pending /\ announced' = announced
  BY DEF Configured, Announce, Assign, Advertised, Subscribe, RegInv, Registered, topicVars
<1>3. ConfigTypes'
  BY <1>2 DEF RegInv, ConfigTypes, configured
<1>4. Registered'
  BY <1>2 DEF RegInv, Registered, configured
<1> QED
  BY <1>1, <1>3, <1>4 DEF RegInv

LEMMA ConnectKeepsReg ==
  ASSUME RegInv, colorConnectCb \/ depthConnectCb \/ irConnectCb
  PROVE  RegInv'
<1>1. /\ pending # {} /\ ctor' = ctor /\ UNCHANGED configured /\ UNCHANGED <<frame, sent, announced>>
  BY DEF colorConnectCb, depthConnectCb, irConnectCb, ConnectCb, configured, configVars, frameVars
<1>2. ctor \in {"advertise", "up"}
  BY <1>1 DEF RegInv, Registered
<1>3. FrameNamed'
  BY <1>1 DEF RegInv, FrameNamed, FrameMatches, configured
<1>4. ConfigTypes' /\ Registered'
  BY <1>1, <1>2 DEF RegInv, ConfigTypes, Registered, configured
<1> QED
  BY <1>3, <1>4 DEF RegInv

LEMMA ImageKeepsReg ==
  ASSUME RegInv, newColorFrameCallback \/ newIRFrameCallback
  PROVE  RegInv'
<1>1. /\ ctor' = ctor /\ UNCHANGED configured /\ UNCHANGED <<frame, running, pending, announced>>
      /\ \/ sent' = sent
         \/ sent' # NoFrame => sent'.stream \in {"color", "ir"}
  BY DEF newColorFrameCallback, newIRFrameCallback, newFrame, configured, configVars, topicVars,
         streamVars
<1>2. FrameNamed'
  BY <1>1 DEF RegInv, FrameNamed, FrameMatches, configured
<1>3. ConfigTypes' /\ Registered'
  BY <1>1 DEF RegInv, ConfigTypes, Registered, configured
<1> QED
  BY <1>2, <1>3 DEF RegInv

LEMMA NewFrameKeeps ==
  ASSUME RegInv, onNewFrame
  PROVE  RegInv'
<1>1. /\ "depth" \in running /\ sent' = NoFrame
      /\ frame' = [registered |-> hw.reg, width |-> hw.depth.mode.x,
                   disturbed |-> applying # Nobody \/ refused \/ aborted]
      /\ ctor' = ctor /\ UNCHANGED configured /\ UNCHANGED <<running, pending, announced>>
  BY DEF onNewFrame, configured, configVars, topicVars, streamVars
<1>2. ctor \in {"advertise", "up"} /\ config_init_
  BY <1>1 DEF RegInv, Registered
<1>3. "disturbed" \in DOMAIN frame'
  BY <1>1
<1>4. ~frame'.disturbed => frame'.registered = config.reg
  <2>1. frame'.disturbed = (applying # Nobody \/ refused \/ aborted) /\ frame'.registered = hw.reg
    BY <1>1
  <2>2. applying = Nobody /\ ~refused /\ ~aborted => hw.reg = config.reg
    BY <1>2 DEF RegInv, Registered
  <2> QED
    BY <2>1, <2>2
<1>5. FrameNamed'
  BY <1>1, <1>4 DEF FrameNamed, FrameMatches, configured
<1>6. ConfigTypes' /\ Registered'
  BY <1>1, <1>2, <1>3 DEF RegInv, ConfigTypes, Registered, configured
<1> QED
  BY <1>5, <1>6 DEF RegInv

LEMMA DepthKeepsReg ==
  ASSUME RegInv, newDepthFrameCallback
  PROVE  RegInv'
<1>1. /\ frame # NoFrame /\ frame' = NoFrame
      /\ ctor' = ctor /\ UNCHANGED configured /\ UNCHANGED <<running, pending, announced>>
      /\ \/ sent' = sent
         \/ /\ sent'.frame = (IF config.reg THEN "rgb" ELSE "depth")
            /\ sent'.of = frame
  BY DEF newDepthFrameCallback, configured, configVars, topicVars, streamVars
<1>2. FrameMatches'
  BY <1>1 DEF RegInv, FrameNamed, FrameMatches
<1>3. FrameNamed'
  BY <1>1, <1>2 DEF FrameNamed
<1>4. ConfigTypes' /\ Registered'
  BY <1>1 DEF RegInv, ConfigTypes, Registered, configured
<1> QED
  BY <1>3, <1>4 DEF RegInv

LEMMA RegStep ==
  ASSUME RegInv, DriverNext
  PROVE  RegInv'
<1>1. CASE \/ Configured \/ Announce \/ Assign \/ Advertised
           \/ \E t \in Topic : Subscribe(t)
  <2>1. UNCHANGED configured /\ UNCHANGED <<running, frame, sent>>
    BY <1>1 DEF Configured, Announce, Assign, Advertised, Subscribe, configured, configVars,
                streamVars, frameVars
  <2> QED
    BY <1>1, <2>1, TopicsKeepReg
<1> QED
  BY <1>1, ConfigKeeps, ConfigureKeeps, SetModesKeeps, ModeRefusedKeeps, AppliedKeeps,
     ConnectKeepsReg, ImageKeepsReg, NewFrameKeeps, DepthKeepsReg DEF DriverNext

(* The driver's configuration, the camera's registration and the name of a *)
(* frame under way agree but in the steps of a reconfiguration.            *)
THEOREM RegInvariance == LifeSpec => []RegInv
<1>1. LifeInit => RegInv
  BY RegInit DEF LifeInit
<1>2. ASSUME RegInv, UNCHANGED driverVars PROVE RegInv'
  BY <1>2 DEF driverVars, configVars, topicVars, streamVars, frameVars, RegInv, ConfigTypes,
              Registered, FrameNamed, FrameMatches
<1>3. ASSUME RegInv, [LifeNext]_life_vars PROVE RegInv'
  BY <1>2, <1>3, RegStep DEF LifeNext, life_vars
<1> QED
  BY <1>1, <1>3, PTL DEF LifeSpec

(* A depth image published in the frame of the colour camera was           *)
(* registered to it, and one in the depth frame was not, for any           *)
(* configurations sent at any time: unless one was being applied, or the   *)
(* camera had refused the last, while that very frame was under way.       *)
THEOREM FrameMatchesHolds == LifeSpec => []FrameMatches
<1>1. RegInv => FrameMatches
  BY DEF RegInv, FrameNamed
<1> QED
  BY <1>1, RegInvariance, PTL

-----------------------------------------------------------------------------
(* The USB camera.                                                         *)

CamTypes ==
  /\ is_capturing_ \in BOOLEAN /\ stream \in BOOLEAN
  /\ where \in [Buffer -> {"program", "queued", "filled", "gone"}]
  /\ hand \in Buffer \cup {NoBuffer}
  /\ buffers_ \subseteq Buffer
  /\ failures \in Nat /\ format \in Formats

(* A buffer is only held between DQBUF and QBUF, images are only grabbed   *)
(* while capturing, and read() needs neither a stream nor a ring.          *)
HandHeld ==
  /\ hand # NoBuffer => at \in {"process", "requeue"} /\ ~Reads
  /\ at \in {"select", "dequeue", "process", "requeue", "publish"} => is_capturing_
  /\ at = "ctor" => ~is_capturing_
  /\ Reads => ~stream /\ \A b \in Buffer : where[b] # "filled"

Inv == CamTypes /\ HandHeld /\ RingKept

LEMMA InitInv == Init => Inv
<1> SUFFICES ASSUME Init PROVE Inv
  OBVIOUS
<1>1. where \in [Buffer -> {"program", "queued", "filled", "gone"}]
  BY DEF Init
<1>2. CamTypes
  BY <1>1 DEF Init, CamTypes
<1>3. HandHeld
  BY DEF Init, HandHeld
<1>4. RingKept
  BY DEF Init, RingKept
<1> QED
  BY <1>2, <1>3, <1>4 DEF Inv

(* Where all buffers are to be queued, they are the program's.             *)
LEMMA NeverRefused ==
  ASSUME Inv, at \in {"ctor", "serve"}
  PROVE  hand = NoBuffer /\ ~StartRefused
  BY DEF Inv, HandHeld, RingKept, StartRefused, Queueable

(* Whichever buffers it starts with, those in use or, in the constructor,  *)
(* new ones.                                                               *)
LEMMA CamStartKeeps ==
  ASSUME Inv, at \in {"ctor", "serve"}, NEW bufs \in SUBSET Buffer, start_capturing(bufs),
         buffers_' = bufs, is_capturing_ => bufs = buffers_,
         UNCHANGED <<io, format, hand, failures>>, at' \in {"spin", "serve"}
  PROVE  Inv'
<1>1. hand = NoBuffer
  BY NeverRefused
<1>2. CASE is_capturing_
  <2>1. UNCHANGED <<is_capturing_, stream, where, buffers_, io, format, hand, failures>>
    BY <1>2 DEF start_capturing
  <2> QED
    BY <1>1, <2>1 DEF Inv, CamTypes, HandHeld, RingKept, Reads
<1>3. CASE ~is_capturing_
  <2>1. /\ is_capturing_' = TRUE /\ stream' = ~Reads
        /\ where' = [b \in Buffer |-> IF b \notin bufs THEN "gone"
                                      ELSE IF Reads THEN "program" ELSE "queued"]
    BY <1>3 DEF start_capturing
  <2>2. CamTypes'
    BY <1>1, <2>1 DEF Inv, CamTypes, Reads
  <2>3. RingKept'
    <3>1. ASSUME ~Reads, NEW b \in buffers_' PROVE where'[b] = "queued" /\ b # hand'
      BY <1>1, <2>1, <3>1, BufferAssumption
    <3> QED
      BY <2>1, <3>1 DEF Inv, RingKept, Reads
  <2>4. HandHeld'
    BY <1>1, <2>1, BufferAssumption DEF Inv, HandHeld, Reads
  <2> QED
    BY <2>2, <2>3, <2>4 DEF Inv
<1> QED
  BY <1>2, <1>3

LEMMA StopKeeps ==
  ASSUME Inv, at = "serve", service_stop_cap
  PROVE  Inv'
<1>1. hand = NoBuffer /\ UNCHANGED <<at, buffers_, io, format, hand, failures>>
  BY NeverRefused DEF service_stop_cap, given
<1>2. CASE ~is_capturing_
  <2>1. UNCHANGED <<is_capturing_, stream, where>>
    BY <1>2 DEF service_stop_cap, stop_capturing
  <2> QED
    BY <1>1, <2>1 DEF Inv, CamTypes, HandHeld, RingKept, Reads
<1>3. CASE is_capturing_
  <2>1. /\ is_capturing_' = FALSE /\ stream' = FALSE
        /\ where' = [b \in Buffer |-> IF b \in buffers_ THEN "program" ELSE "gone"]
    BY <1>3 DEF service_stop_cap, stop_capturing
  <2>2. CamTypes'
    BY <1>1, <2>1 DEF Inv, CamTypes
  <2>3. RingKept'
    <3>1. \A b \in buffers_' : where'[b] = "program"
      BY <1>1, <2>1 DEF Inv, CamTypes
    <3> QED
      BY <1>1, <2>1, <3>1 DEF Inv, RingKept, Reads
  <2>4. HandHeld'
    BY <1>1, <1>3, <2>1 DEF Inv, HandHeld, Reads
  <2> QED
    BY <2>2, <2>3, <2>4 DEF Inv
<1> QED
  BY <1>2, <1>3

(* The node only ends in a failing call.                                   *)
LEMMA ExitKeeps ==
  ASSUME Inv, Exit, failures' \in Nat, failures' > 0
  PROVE  Inv'
  BY BufferAssumption DEF Inv, CamTypes, HandHeld, RingKept, Exit, given

LEMMA FailureKeeps ==
  ASSUME Inv, errno_exit
  PROVE  Inv'
  BY ExitKeeps DEF errno_exit, Failure, Inv, CamTypes

LEMMA DequeueKeeps ==
  ASSUME Inv, Dequeue
  PROVE  Inv'
<1>1. /\ at = "dequeue" /\ at' = "process" /\ hand = NoBuffer /\ is_capturing_
      /\ UNCHANGED <<buffers_, io, format, is_capturing_, stream, failures>>
  BY DEF Dequeue, Goto, Inv, HandHeld, given
<1>2. CASE Reads
  BY <1>1, <1>2 DEF Dequeue, Inv, CamTypes, HandHeld, RingKept, Reads
<1>3. CASE ~Reads
  <2>1. PICK b \in Filled : where' = [where EXCEPT ![b] = "program"] /\ hand' = b
    BY <1>3 DEF Dequeue
  <2>2. b \in buffers_ /\ b \in Buffer
    BY <2>1 DEF Filled, Inv, CamTypes
  <2> QED
    BY <1>1, <1>3, <2>1, <2>2, BufferAssumption DEF Inv, CamTypes, HandHeld, RingKept, Reads
<1> QED
  BY <1>2, <1>3

LEMMA RequeueKeeps ==
  ASSUME Inv, read_frame
  PROVE  Inv'
<1>1. /\ at = "requeue" /\ at' = "publish" /\ hand' = NoBuffer /\ is_capturing_
      /\ UNCHANGED <<buffers_, io, format, is_capturing_, stream, failures>>
  BY DEF read_frame, Goto, Inv, HandHeld, given
<1>2. CASE hand = NoBuffer
  <2>1. UNCHANGED <<where, hand>>
    BY <1>1, <1>2 DEF read_frame
  <2> QED
    BY <1>1, <2>1 DEF Inv, CamTypes, HandHeld, RingKept, Reads
<1>3. CASE hand # NoBuffer
  <2>1. where' = [where EXCEPT ![hand] = "queued"] /\ hand \in Buffer
    BY <1>3 DEF read_frame, GiveBack, Inv, CamTypes
  <2> QED
    BY <1>1, <1>3, <2>1, BufferAssumption DEF Inv, CamTypes, HandHeld, RingKept, Reads
<1> QED
  BY <1>2, <1>3

LEMMA FillKeeps ==
  ASSUME Inv, NEW b \in buffers_, Fill(b)
  PROVE  Inv'
<1>1. stream /\ where[b] = "queued" /\ where' = [where EXCEPT ![b] = "filled"]
  BY DEF Fill
<1>2. UNCHANGED <<at, buffers_, io, format, is_capturing_, stream, hand, failures>>
  BY DEF Fill, given
<1> QED
  BY <1>1, <1>2 DEF Inv, CamTypes, HandHeld, RingKept, Reads

(* The steps that only move the program on.                                *)
LEMMA WalkKeeps ==
  ASSUME Inv, spin \/ Served \/ Wake \/ grab_image \/ Interrupted \/ take_and_send_image \/ Tick
  PROVE  Inv'
<1>1. UNCHANGED <<buffers_, io, format, is_capturing_, stream, where, hand>>
  BY DEF spin, Served, Wake, grab_image, Interrupted, take_and_send_image, Tick, given
<1>2. failures' = failures
  BY DEF spin, Served, Wake, grab_image, Interrupted, take_and_send_image, Tick
<1>3. /\ at \notin {"ctor", "process", "requeue", "closed", "exited"}
      /\ at' \notin {"ctor", "process", "requeue", "closed", "exited"}
      /\ at' \in {"select", "dequeue", "publish"} => is_capturing_
  BY DEF spin, Served, Wake, grab_image, Interrupted, take_and_send_image, Tick, Goto, Inv, HandHeld
<1> QED
  BY <1>1, <1>2, <1>3 DEF Inv, CamTypes, HandHeld, RingKept, Reads

LEMMA StepInv ==
  ASSUME Inv, [Next]_vars
  PROVE  Inv'
<1>1. CASE start
  <2>1. at = "ctor" /\ at' = "spin" /\ ~is_capturing_ /\ UNCHANGED <<io, format, hand, failures>>
    BY <1>1 DEF start, Goto, Inv, HandHeld
  <2>2. PICK bufs \in SUBSET Buffer : buffers_' = bufs /\ start_capturing(bufs)
    BY <1>1 DEF start
  <2> QED
    BY <2>1, <2>2, CamStartKeeps
<1>2. CASE service_start_cap
  <2>1. /\ at = "serve" /\ at' = at /\ start_capturing(buffers_)
        /\ UNCHANGED <<buffers_, io, format, hand, failures>>
    BY <1>2, NeverRefused DEF service_start_cap, given
  <2>2. buffers_ \in SUBSET Buffer
    BY DEF Inv, CamTypes
  <2> QED
    BY <2>1, <2>2, CamStartKeeps
<1>3. CASE service_stop_cap
  BY <1>3, StopKeeps DEF service_stop_cap
<1>4. CASE StartFails \/ CaptureFails \/ SelectTimeout \/ ReadFails \/ RequeueFails
  BY <1>4, FailureKeeps DEF StartFails, CaptureFails, SelectTimeout, ReadFails, RequeueFails
<1>5. CASE spin \/ Served \/ Wake \/ grab_image \/ Interrupted \/ take_and_send_image \/ Tick
  BY <1>5, WalkKeeps
<1>6. CASE Dequeue
  BY <1>6, DequeueKeeps
<1>7. CASE Convert
  <2>1. /\ at = "process" /\ at' = "requeue"
        /\ UNCHANGED <<buffers_, io, format, is_capturing_, stream, where, hand>>
    BY <1>7 DEF Convert, Goto, given
  <2>2. failures' \in Nat
    BY <1>7 DEF Convert, Failure, Inv, CamTypes
  <2> QED
    BY <2>1, <2>2 DEF Inv, CamTypes, HandHeld, RingKept, Reads
<1>8. CASE read_frame
  BY <1>8, RequeueKeeps
<1>9. CASE shutdown
  <2>1. /\ at \in {"spin", "sleep"} /\ at' = "closed" /\ is_capturing_' = FALSE /\ stream' = FALSE
        /\ where' = [b \in Buffer |-> "gone"] /\ UNCHANGED <<buffers_, io, format, hand, failures>>
    BY <1>9 DEF shutdown, given
  <2> QED
    BY <2>1 DEF Inv, CamTypes, HandHeld, RingKept, Reads
<1>10. CASE ShutdownAgain
  BY <1>10, ExitKeeps, BoundsAreNat DEF ShutdownAgain
<1>11. CASE \E b \in buffers_ : Fill(b)
  BY <1>11, FillKeeps
<1>12. CASE UNCHANGED vars
  BY <1>12 DEF vars, given, Inv, CamTypes, HandHeld, RingKept, Reads
<1>13. CASE Unsuitable
  <2>1. failures' \in Nat /\ failures' > 0
    BY <1>13 DEF Unsuitable, Inv, CamTypes
  <2> QED
    BY <1>13, <2>1, ExitKeeps DEF Unsuitable
<1> QED
  BY <1>1, <1>2, <1>3, <1>4, <1>5, <1>6, <1>7, <1>8, <1>9, <1>10, <1>11, <1>12, <1>13 DEF Next

(* Where the buffers and the node's one thread are, at every step.         *)
THEOREM Invariance == Spec => []Inv
  BY InitInv, StepInv, PTL DEF Spec

(* While the node captures every buffer is with the kernel but the one     *)
(* being read, and else with the program, and no order of start_capture    *)
(* and stop_capture ends the node, for any number of buffers.              *)
THEOREM RingIsKept == Spec => []RingKept
<1>1. Inv => RingKept
  BY DEF Inv
<1> QED
  BY Invariance, <1>1, PTL

-----------------------------------------------------------------------------
(* How old an image can be. A filled buffer waits for the older ones: in   *)
(* each turn of the loop one of them is dequeued, or the turn is           *)
(* interrupted. The buffers that are not before it in this sense bound its *)
(* age.                                                                    *)
Passed(b) == {c \in buffers_ \ {b} : ~ (where[c] = "filled" /\ age[c] >= age[b])}

Bound == Cardinality(buffers_) * Period + interrupts * (Period + Timeout)

(* The ticks of this turn that were slept, at most.                        *)
InTurn == IF spent < Period THEN spent ELSE Period

AgeTypes ==
  /\ at \in {"ctor", "spin", "select", "dequeue", "process", "requeue", "publish",
             "serve", "sleep", "closed", "exited"}
  /\ age \in [Buffer -> 0..MaxAge]
  /\ interrupts \in Nat /\ spent \in Nat
  /\ image \in [shows : {"blank", "picture"}, age : Nat, before : BOOLEAN]
  /\ at = "select" => spent <= Timeout
  /\ Reads \/ at \in {"ctor", "closed", "exited"} => ~stream
  /\ ~stream => Filled = {}
  /\ at = "process" /\ ~Reads => hand \in Buffer

(* Before the buffer of this turn has been taken, and after.               *)
Waited(b) ==
  IF at \in {"spin", "select", "dequeue"}
  THEN age[b] <= (Cardinality(Passed(b)) + interrupts + 1) * Period
  ELSE age[b] <= (Cardinality(Passed(b)) + interrupts) * Period + InTurn

(* Ages that are cut off say nothing of the order, but then the bound does *)
(* not either.                                                             *)
QueueMoves == MaxAge > Bound => \A b \in Filled : Waited(b)

HandFresh == at = "process" /\ ~Reads => age[hand] <= Bound

(* The image ages in the sleep and in the wait of a turn that brings no    *)
(* new one.                                                                *)
ImageFresh ==
  is_capturing_ /\ ~image.before =>
    /\ at \in {"requeue", "publish", "serve"} => image.age <= Bound
    /\ at = "sleep" => image.age <= Bound + InTurn
    /\ at = "spin" => image.age <= Bound + Period
    /\ at = "select" => image.age <= Bound + Period + spent
    /\ at = "dequeue" => image.age <= Bound + Period + Timeout

AgeInv == AgeTypes /\ QueueMoves /\ HandFresh /\ ImageFresh

LEMMA Times ==
  ASSUME NEW x \in Nat, NEW y \in Nat, x <= y
  PROVE  /\ x * Period \in Nat /\ y * Period \in Nat /\ x * Period <= y * Period
         /\ (x + 1) * Period = x * Period + Period
<1>1. Period \in Nat
  BY BoundsAreNat
<1>2. PICK d \in Nat : y = x + d
  <2>1. y - x \in Nat /\ y = x + (y - x)
    OBVIOUS
  <2> QED
    BY <2>1
<1>3. x * Period \in Nat /\ d * Period \in Nat
  BY <1>1
<1>4. (x + d) * Period = x * Period + d * Period /\ (x + 1) * Period = x * Period + Period
  BY <1>1
<1> QED
  BY <1>2, <1>3, <1>4

LEMMA RingSize ==
  ASSUME buffers_ \subseteq Buffer
  PROVE  /\ IsFiniteSet(buffers_) /\ Cardinality(buffers_) \in Nat
         /\ \A b \in buffers_ : /\ IsFiniteSet(Passed(b)) /\ Cardinality(Passed(b)) \in Nat
                                /\ Cardinality(Passed(b)) + 1 <= Cardinality(buffers_)
<1>1. IsFiniteSet(buffers_) /\ Cardinality(buffers_) \in Nat
  BY BufferAssumption, FS_Subset, FS_CardinalityType
<1>2. ASSUME NEW b \in buffers_
      PROVE  /\ IsFiniteSet(Passed(b)) /\ Cardinality(Passed(b)) \in Nat
             /\ Cardinality(Passed(b)) + 1 <= Cardinality(buffers_)
  <2>1. Passed(b) \subseteq buffers_ \ {b}
    BY DEF Passed
  <2>2. IsFiniteSet(buffers_ \ {b}) /\ Cardinality(buffers_ \ {b}) = Cardinality(buffers_) - 1
    BY <1>1, FS_RemoveElement
  <2>3. IsFiniteSet(Passed(b)) /\ Cardinality(Passed(b)) <= Cardinality(buffers_ \ {b})
    BY <2>1, <2>2, FS_Subset
  <2>4. Cardinality(Passed(b)) \in Nat
    BY <2>3, FS_CardinalityType
  <2> QED
    BY <1>1, <2>2, <2>3, <2>4
<1> QED
  BY <1>1, <1>2

LEMMA BoundType ==
  ASSUME buffers_ \subseteq Buffer, interrupts \in Nat
  PROVE  /\ Bound \in Nat
         /\ (Cardinality(buffers_) + interrupts) * Period <= Bound
         /\ Period \in Nat /\ Timeout \in Nat /\ MaxAge \in Nat
<1> DEFINE n == Cardinality(buffers_)
<1>1. n \in Nat /\ Period \in Nat /\ Timeout \in Nat /\ MaxAge \in Nat
  BY RingSize, BoundsAreNat
<1>2. n * Period \in Nat /\ interrupts * Period \in Nat /\ interrupts * Timeout \in Nat
  BY <1>1
<1>3. /\ (n + interrupts) * Period = n * Period + interrupts * Period
      /\ interrupts * (Period + Timeout) = interrupts * Period + interrupts * Timeout
  BY <1>1
<1> QED
  BY <1>1, <1>2, <1>3 DEF Bound

(* Once a filled buffer is reached nothing is before it, and its age is    *)
(* within the bound.                                                       *)
LEMMA ReachedFresh ==
  ASSUME Inv, AgeTypes, QueueMoves, NEW b \in Filled, at = "dequeue"
  PROVE  age[b] <= Bound
<1>1. b \in buffers_ /\ b \in Buffer /\ buffers_ \subseteq Buffer
  BY DEF Filled, Inv, CamTypes
<1>2. age[b] \in 0..MaxAge /\ interrupts \in Nat
  BY <1>1 DEF AgeTypes
<1>3. Bound \in Nat /\ MaxAge \in Nat
      /\ (Cardinality(buffers_) + interrupts) * Period <= Bound
  BY <1>1, <1>2, BoundType
<1>4. CASE MaxAge <= Bound
  BY <1>2, <1>3, <1>4
<1>5. CASE MaxAge > Bound
  <2> DEFINE x == Cardinality(Passed(b)) + interrupts + 1
             y == Cardinality(buffers_) + interrupts
  <2>1. age[b] <= x * Period
    BY <1>5 DEF QueueMoves, Waited
  <2>2. x \in Nat /\ y \in Nat /\ x <= y
    BY <1>1, <1>2, RingSize
  <2> HIDE DEF x, y
  <2>3. x * Period <= y * Period /\ x * Period \in Nat /\ y * Period \in Nat
    BY <2>2, Times
  <2>4. y * Period <= Bound
    BY <1>3 DEF y
  <2> QED
    BY <1>2, <1>3, <2>1, <2>3, <2>4
<1> QED
  BY <1>3, <1>4, <1>5

LEMMA AgesStart == Init => AgeInv
<1> SUFFICES ASSUME Init PROVE AgeInv
  OBVIOUS
<1>1. MaxAge \in Nat
  BY BoundsAreNat
<1>2. Filled = {}
  BY DEF Init, Filled
<1>3. AgeTypes
  BY <1>1, <1>2 DEF Init, AgeTypes, Blank
<1> QED
  BY <1>2, <1>3 DEF AgeInv, Init, QueueMoves, HandFresh, ImageFresh

(* With no filled buffer only the image can grow old.                      *)
LEMMA EmptyQueue == Filled = {} => QueueMoves
  BY DEF QueueMoves

(* A step that neither fills, empties nor ages a buffer.                   *)
LEMMA SameQueue ==
  ASSUME UNCHANGED <<buffers_, where, age>>
  PROVE  /\ Filled' = Filled
         /\ \A b : Passed(b)' = Passed(b)
         /\ interrupts' = interrupts => Bound' = Bound
  BY DEF Filled, Passed, Bound

LEMMA SameAges ==
  ASSUME AgeInv, UNCHANGED <<at, is_capturing_, stream, where, image, buffers_, io, hand, age,
                             spent, interrupts>>
  PROVE  AgeInv'
<1>1. /\ Filled' = Filled /\ \A b : Passed(b)' = Passed(b) /\ Bound' = Bound /\ InTurn' = InTurn
  BY SameQueue DEF InTurn
<1>2. AgeTypes'
  BY <1>1 DEF AgeInv, AgeTypes, Reads
<1>3. QueueMoves'
  BY <1>1 DEF AgeInv, QueueMoves, Waited
<1>4. HandFresh' /\ ImageFresh'
  BY <1>1 DEF AgeInv, HandFresh, ImageFresh, Reads
<1> QED
  BY <1>2, <1>3, <1>4 DEF AgeInv

LEMMA SpinAges ==
  ASSUME Inv, AgeInv, spin
  PROVE  AgeInv'
<1>1. /\ at = "spin" /\ at' = (IF is_capturing_ THEN "select" ELSE "serve") /\ spent' = 0
      /\ UNCHANGED <<buffers_, io, is_capturing_, stream, where, hand, age, image, interrupts>>
  BY DEF spin, given
<1>2. /\ Filled' = Filled /\ \A b : Passed(b)' = Passed(b) /\ Bound' = Bound
  BY <1>1, SameQueue
<1>3. Bound \in Nat /\ Period \in Nat /\ Timeout \in Nat
  BY BoundType DEF Inv, CamTypes, AgeInv, AgeTypes
<1>4. AgeTypes'
  BY <1>1, <1>2, <1>3 DEF AgeInv, AgeTypes, Reads
<1>5. QueueMoves'
  <2>1. CASE is_capturing_
    <3>1. \A b \in Filled : Waited(b) => Waited(b)'
      BY <1>1, <1>2, <2>1 DEF Waited
    <3> QED
      BY <1>2, <3>1 DEF AgeInv, QueueMoves
  <2>2. CASE ~is_capturing_
    <3>1. ~stream
      BY <1>1, <2>2 DEF Inv, RingKept, AgeInv, AgeTypes
    <3> QED
      BY <1>2, <3>1 DEF AgeInv, AgeTypes, QueueMoves
  <2> QED
    BY <2>1, <2>2
<1>6. HandFresh' /\ ImageFresh'
  BY <1>1, <1>2, <1>3 DEF AgeInv, AgeTypes, HandFresh, ImageFresh
<1> QED
  BY <1>4, <1>5, <1>6 DEF AgeInv

LEMMA WalkAges ==
  ASSUME Inv, AgeInv, Served \/ grab_image \/ take_and_send_image
  PROVE  AgeInv'
<1>1. /\ \/ at = "serve" /\ at' = "sleep"
         \/ at = "select" /\ at' = "dequeue"
         \/ at = "publish" /\ at' = "serve"
      /\ UNCHANGED <<buffers_, io, is_capturing_, stream, where, hand, age, image, interrupts,
                     spent>>
  BY DEF Served, grab_image, take_and_send_image, Goto, given
<1>2. /\ Filled' = Filled /\ \A b : Passed(b)' = Passed(b) /\ Bound' = Bound /\ InTurn' = InTurn
  BY <1>1, SameQueue DEF InTurn
<1>3. Bound \in Nat /\ Period \in Nat /\ Timeout \in Nat
  BY BoundType DEF Inv, CamTypes, AgeInv, AgeTypes
<1>4. AgeTypes'
  BY <1>1, <1>2 DEF AgeInv, AgeTypes, Reads
<1>5. QueueMoves'
  <2>1. \A b \in Filled : Waited(b) => Waited(b)'
    BY <1>1, <1>2 DEF Waited
  <2> QED
    BY <1>1, <1>2, <2>1 DEF AgeInv, QueueMoves
<1>6. HandFresh' /\ ImageFresh'
  <2>1. InTurn \in Nat
    BY <1>3 DEF InTurn, AgeInv, AgeTypes
  <2> QED
    BY <1>1, <1>2, <1>3, <2>1 DEF AgeInv, AgeTypes, HandFresh, ImageFresh
<1> QED
  BY <1>4, <1>5, <1>6 DEF AgeInv

LEMMA WakeAges ==
  ASSUME Inv, AgeInv, Wake
  PROVE  AgeInv'
<1>1. /\ at = "sleep" /\ at' = "spin" /\ spent >= Period
      /\ UNCHANGED <<buffers_, io, is_capturing_, stream, where, hand, age, image, interrupts,
                     spent>>
  BY DEF Wake, Goto, given, LoopPeriod
<1>2. /\ Filled' = Filled /\ \A b : Passed(b)' = Passed(b) /\ Bound' = Bound
  BY <1>1, SameQueue
<1>3. /\ Bound \in Nat /\ Period \in Nat /\ Timeout \in Nat /\ buffers_ \subseteq Buffer
      /\ interrupts \in Nat
  BY BoundType DEF Inv, CamTypes, AgeInv, AgeTypes
<1>4. InTurn = Period
  BY <1>1, <1>3 DEF InTurn, AgeInv, AgeTypes
<1>5. AgeTypes'
  BY <1>1, <1>2 DEF AgeInv, AgeTypes, Reads
<1>6. QueueMoves'
  <2>1. ASSUME NEW b \in Filled, Waited(b) PROVE Waited(b)'
    <3> DEFINE x == Cardinality(Passed(b)) + interrupts
    <3>1. x \in Nat
      BY <1>3, RingSize DEF Filled
    <3>2. age[b] <= x * Period + Period
      BY <1>1, <1>4, <2>1 DEF Waited
    <3>3. age'[b] = age[b] /\ Cardinality(Passed(b)') = Cardinality(Passed(b))
      BY <1>1, <1>2
    <3> HIDE DEF x
    <3>4. (x + 1) * Period = x * Period + Period
      BY <3>1, Times
    <3> QED
      BY <1>1, <3>2, <3>3, <3>4 DEF Waited, x
  <2> QED
    BY <1>2, <2>1 DEF AgeInv, QueueMoves
<1>7. HandFresh' /\ ImageFresh'
  BY <1>1, <1>2, <1>3, <1>4 DEF AgeInv, AgeTypes, HandFresh, ImageFresh
<1> QED
  BY <1>5, <1>6, <1>7 DEF AgeInv

(* An interruption costs the queue a turn and the image a turn and a wait. *)
LEMMA InterruptedAges ==
  ASSUME Inv, AgeInv, Interrupted
  PROVE  AgeInv'
<1>1. /\ at \in {"select", "dequeue"} /\ at' = "publish" /\ interrupts' = interrupts + 1
      /\ UNCHANGED <<buffers_, io, is_capturing_, stream, where, hand, age, image, spent>>
  BY DEF Interrupted, given
<1>2. /\ Filled' = Filled /\ \A b : Passed(b)' = Passed(b)
  BY <1>1, SameQueue
<1>3. /\ Bound \in Nat /\ Period \in Nat /\ Timeout \in Nat /\ buffers_ \subseteq Buffer
      /\ interrupts \in Nat /\ spent \in Nat /\ MaxAge \in Nat
  BY BoundType DEF Inv, CamTypes, AgeInv, AgeTypes
<1>4. Bound' = Bound + Period + Timeout
  <2> DEFINE n == Cardinality(buffers_)
  <2>1. n * Period \in Nat
    BY <1>3, RingSize
  <2>2. (interrupts + 1) * (Period + Timeout) = interrupts * (Period + Timeout) + Period + Timeout
        /\ interrupts * (Period + Timeout) \in Nat
    BY <1>3
  <2>3. Bound' = n * Period + (interrupts + 1) * (Period + Timeout)
    BY <1>1 DEF Bound
  <2>4. Bound = n * Period + interrupts * (Period + Timeout)
    BY DEF Bound
  <2> QED
    BY <1>3, <2>1, <2>2, <2>3, <2>4
<1>5. AgeTypes'
  BY <1>1, <1>2, <1>3 DEF AgeInv, AgeTypes, Reads
<1>6. QueueMoves'
  <2>1. MaxAge > Bound' => MaxAge > Bound
    BY <1>3, <1>4
  <2>2. ASSUME NEW b \in Filled, Waited(b) PROVE Waited(b)'
    <3> DEFINE x == Cardinality(Passed(b))
    <3>1. x \in Nat
      BY <1>3, RingSize DEF Filled
    <3>2. age[b] <= (x + interrupts + 1) * Period /\ age[b] \in Int
      BY <1>1, <2>2, <1>3 DEF Waited, Filled, AgeInv, AgeTypes
    <3>3. age'[b] = age[b] /\ Cardinality(Passed(b)') = x
      BY <1>1, <1>2
    <3>4. (x + interrupts + 1) = x + interrupts'
      BY <1>1, <1>3, <3>1
    <3>5. InTurn' \in Nat
      BY <1>1, <1>3 DEF InTurn
    <3>6. (x + interrupts') * Period \in Nat
      BY <1>1, <1>3, <3>1
    <3> HIDE DEF x
    <3>7. age[b] <= (x + interrupts') * Period + InTurn'
      BY <3>2, <3>4, <3>5, <3>6
    <3> QED
      BY <1>1, <3>3, <3>7 DEF Waited, x
  <2> QED
    BY <1>2, <2>1, <2>2 DEF AgeInv, QueueMoves
<1>7. HandFresh' /\ ImageFresh'
  BY <1>1, <1>3, <1>4 DEF AgeInv, AgeTypes, HandFresh, ImageFresh
<1> QED
  BY <1>5, <1>6, <1>7 DEF AgeInv
(* A buffer dequeued has been the oldest: those that stay have one more    *)
(* behind them, for the turn that has passed.                              *)
LEMMA DequeueAges ==
  ASSUME Inv, AgeInv, Dequeue
  PROVE  AgeInv'
<1>1. /\ at = "dequeue" /\ at' = "process"
      /\ UNCHANGED <<buffers_, io, is_capturing_, stream, age, image, interrupts, spent>>
  BY DEF Dequeue, Goto, given
<1>2. /\ Bound \in Nat /\ Period \in Nat /\ Timeout \in Nat /\ buffers_ \subseteq Buffer
      /\ interrupts \in Nat /\ spent \in Nat /\ MaxAge \in Nat
  BY BoundType DEF Inv, CamTypes, AgeInv, AgeTypes
<1>3. Bound' = Bound
  BY <1>1 DEF Bound
<1>4. ImageFresh'
  BY <1>1 DEF ImageFresh
<1>5. CASE Reads
  <2>1. where' = where
    BY <1>5 DEF Dequeue
  <2>2. Filled' = {}
    BY <1>1, <1>5, <2>1, SameQueue DEF AgeInv, AgeTypes
  <2>3. AgeTypes'
    BY <1>1, <1>5, <2>2 DEF AgeInv, AgeTypes, Reads
  <2>4. HandFresh'
    BY <1>1, <1>5 DEF HandFresh, Reads
  <2> QED
    BY <1>4, <2>2, <2>3, <2>4 DEF AgeInv, QueueMoves
<1>6. CASE ~Reads
  <2>1. PICK c \in Filled : /\ \A b \in Filled : age[c] >= age[b]
                            /\ where' = [where EXCEPT ![c] = "program"] /\ hand' = c
    BY <1>6 DEF Dequeue
  <2>2. c \in buffers_ /\ c \in Buffer /\ where[c] = "filled"
    BY <1>2, <2>1 DEF Filled
  <2>3. where \in [Buffer -> {"program", "queued", "filled", "gone"}]
    BY DEF Inv, CamTypes
  <2>4. Filled' = Filled \ {c}
    BY <1>1, <1>2, <2>1, <2>2, <2>3 DEF Filled
  <2>5. AgeTypes'
    <3>1. stream' = stream /\ (~stream => Filled' = {})
      BY <1>1, <2>4 DEF AgeInv, AgeTypes
    <3> QED
      BY <1>1, <2>1, <2>2, <3>1 DEF AgeInv, AgeTypes, Reads
  <2>6. HandFresh'
    BY <1>1, <1>3, <2>1, ReachedFresh DEF AgeInv, HandFresh
  <2>7. ASSUME NEW b \in Filled', Waited(b) PROVE Waited(b)'
    <3>1. b \in Filled /\ b # c /\ b \in buffers_ /\ b \in Buffer
      BY <1>2, <2>4 DEF Filled
    <3>2. age[c] >= age[b]
      BY <2>1, <3>1
    <3>3. Passed(b)' = Passed(b) \cup {c} /\ c \notin Passed(b)
      BY <1>1, <1>2, <2>1, <2>2, <2>3, <3>1, <3>2 DEF Passed
    <3> DEFINE x == Cardinality(Passed(b))
    <3>4. IsFiniteSet(Passed(b)) /\ x \in Nat
      BY <1>2, <3>1, RingSize
    <3>5. Cardinality(Passed(b)') = x + 1
      BY <3>3, <3>4, FS_AddElement
    <3>6. age[b] <= (x + interrupts + 1) * Period /\ age[b] \in Int /\ age'[b] = age[b]
      BY <1>1, <2>7, <3>1 DEF Waited, AgeInv, AgeTypes
    <3>7. x + interrupts + 1 = (x + 1) + interrupts' /\ InTurn' \in Nat
      BY <1>1, <1>2, <3>4 DEF InTurn
    <3>8. ((x + 1) + interrupts') * Period \in Nat
      BY <1>1, <1>2, <3>4
    <3> HIDE DEF x
    <3>9. age'[b] <= ((x + 1) + interrupts') * Period + InTurn'
      BY <3>6, <3>7, <3>8
    <3> QED
      BY <1>1, <3>5, <3>9 DEF Waited
  <2>8. QueueMoves'
    BY <1>3, <2>4, <2>7 DEF AgeInv, QueueMoves
  <2> QED
    BY <1>4, <2>5, <2>6, <2>8 DEF AgeInv
<1> QED
  BY <1>5, <1>6

LEMMA ConvertAges ==
  ASSUME Inv, AgeInv, Convert
  PROVE  AgeInv'
<1>1. /\ at = "process" /\ at' = "requeue" /\ image' \in {Picture, Blank}
      /\ UNCHANGED <<buffers_, io, is_capturing_, stream, where, hand, age, interrupts, spent>>
  BY DEF Convert, Goto, given
<1>2. /\ Filled' = Filled /\ \A b : Passed(b)' = Passed(b) /\ Bound' = Bound /\ InTurn' = InTurn
  BY <1>1, SameQueue DEF InTurn
<1>3. Bound \in Nat /\ MaxAge \in Nat
  BY BoundType DEF Inv, CamTypes, AgeInv, AgeTypes
<1>4. image' \in [shows : {"blank", "picture"}, age : Nat, before : BOOLEAN] /\ image'.age <= Bound
  <2>1. CASE image' = Blank
    BY <1>3, <2>1 DEF Blank
  <2>2. CASE image' = Picture /\ Reads
    BY <1>3, <2>2 DEF Picture
  <2>3. CASE image' = Picture /\ ~Reads
    <3>1. age[hand] \in Nat /\ age[hand] <= Bound
      BY <1>1, <1>3, <2>3 DEF AgeInv, AgeTypes, HandFresh
    <3> QED
      BY <2>3, <3>1 DEF Picture
  <2> QED
    BY <1>1, <2>1, <2>2, <2>3
<1>5. AgeTypes'
  BY <1>1, <1>2, <1>4 DEF AgeInv, AgeTypes, Reads
<1>6. QueueMoves'
  <2>1. \A b \in Filled : Waited(b) => Waited(b)'
    BY <1>1, <1>2 DEF Waited
  <2> QED
    BY <1>2, <2>1 DEF AgeInv, QueueMoves
<1>7. HandFresh' /\ ImageFresh'
  BY <1>1, <1>2, <1>4 DEF HandFresh, ImageFresh
<1> QED
  BY <1>5, <1>6, <1>7 DEF AgeInv

LEMMA RequeueAges ==
  ASSUME Inv, AgeInv, read_frame
  PROVE  AgeInv'
<1>1. /\ at = "requeue" /\ at' = "publish"
      /\ UNCHANGED <<buffers_, io, is_capturing_, stream, age, image, interrupts, spent>>
      /\ where' = where \/ (hand # NoBuffer /\ where' = [where EXCEPT ![hand] = "queued"])
  BY DEF read_frame, Goto, given, GiveBack
<1>2. \A b \in buffers_ : (where'[b] = "filled") <=> (where[b] = "filled")
  <2>1. CASE where' = where
    BY <2>1
  <2>2. CASE hand # NoBuffer /\ where' = [where EXCEPT ![hand] = "queued"]
    <3>1. is_capturing_ /\ ~Reads /\ buffers_ \subseteq Buffer
          /\ where \in [Buffer -> {"program", "queued", "filled", "gone"}]
      BY <1>1, <2>2 DEF Inv, HandHeld, CamTypes
    <3>2. hand \in buffers_ => where[hand] = "program"
      BY <1>1, <3>1 DEF Inv, RingKept
    <3> QED
      BY <2>2, <3>1, <3>2
  <2> QED
    BY <1>1, <2>1, <2>2
<1>3. Filled' = Filled /\ Bound' = Bound /\ InTurn' = InTurn
  BY <1>1, <1>2 DEF Filled, Bound, InTurn
<1>4. \A b : Passed(b)' = Passed(b)
  BY <1>1, <1>2 DEF Passed
<1>5. AgeTypes'
  BY <1>1, <1>3 DEF AgeInv, AgeTypes, Reads
<1>6. QueueMoves'
  <2>1. \A b \in Filled : Waited(b) => Waited(b)'
    BY <1>1, <1>3, <1>4 DEF Waited
  <2> QED
    BY <1>3, <2>1 DEF AgeInv, QueueMoves
<1>7. HandFresh' /\ ImageFresh'
  BY <1>1, <1>3 DEF AgeInv, HandFresh, ImageFresh
<1> QED
  BY <1>5, <1>6, <1>7 DEF AgeInv

(* A buffer just filled is before none that has an age.                    *)
LEMMA FillAges ==
  ASSUME Inv, AgeInv, NEW c \in buffers_, Fill(c)
  PROVE  AgeInv'
<1>1. /\ stream /\ where[c] = "queued" /\ where' = [where EXCEPT ![c] = "filled"]
      /\ age' = [age EXCEPT ![c] = 0]
      /\ UNCHANGED <<at, buffers_, io, is_capturing_, stream, hand, image, interrupts, spent>>
  BY DEF Fill, given
<1>2. /\ Bound \in Nat /\ Period \in Nat /\ buffers_ \subseteq Buffer /\ c \in Buffer
      /\ interrupts \in Nat /\ spent \in Nat /\ MaxAge \in Nat
      /\ where \in [Buffer -> {"program", "queued", "filled", "gone"}]
      /\ age \in [Buffer -> 0..MaxAge]
  BY BoundType DEF Inv, CamTypes, AgeInv, AgeTypes
<1>3. Bound' = Bound /\ InTurn' = InTurn /\ InTurn \in Nat
  BY <1>1, <1>2 DEF Bound, InTurn
<1>4. age' \in [Buffer -> 0..MaxAge]
  BY <1>1, <1>2
<1>5. AgeTypes'
  BY <1>1, <1>4 DEF AgeInv, AgeTypes, Reads
<1>6. QueueMoves'
  <2> SUFFICES ASSUME MaxAge > Bound, NEW b \in Filled' PROVE Waited(b)'
    BY <1>3 DEF QueueMoves
  <2>1. b \in buffers_ /\ b \in Buffer
    BY <1>1, <1>2 DEF Filled
  <2>2. CASE age'[b] = 0
    <3> DEFINE k == Cardinality(Passed(b)')
    <3>1. k \in Nat
      <4>1. Passed(b)' \subseteq buffers_
        BY <1>1 DEF Passed
      <4>2. IsFiniteSet(buffers_)
        BY <1>2, RingSize
      <4> QED
        BY <4>1, <4>2, FS_Subset, FS_CardinalityType
    <3> HIDE DEF k
    <3>2. (k + interrupts + 1) * Period \in Nat /\ (k + interrupts) * Period \in Nat
      BY <1>2, <3>1
    <3>3. 0 <= (k + interrupts + 1) * Period /\ 0 <= (k + interrupts) * Period + InTurn
      BY <1>3, <3>2
    <3> QED
      BY <1>1, <1>3, <2>2, <3>3 DEF Waited, k
  <2>3. CASE age'[b] # 0
    <3>1. b # c /\ age'[b] = age[b] /\ where[b] = "filled" /\ age[b] > 0
      BY <1>1, <1>2, <1>4, <2>1, <2>3 DEF Filled
    <3>2. \A d \in buffers_ : (where'[d] = "filled" /\ age'[d] >= age'[b])
                                <=> (where[d] = "filled" /\ age[d] >= age[b])
      <4> TAKE d \in buffers_
      <4>1. CASE d = c
        <5>1. where[c] = "queued" /\ age'[c] = 0 /\ age[b] \in 0..MaxAge /\ age'[b] > 0
          BY <1>1, <1>2, <2>1, <3>1
        <5>2. ~(age'[c] >= age'[b])
          BY <1>2, <3>1, <5>1
        <5> QED
          BY <4>1, <5>1, <5>2
      <4>2. CASE d # c
        <5>1. where'[d] = where[d] /\ age'[d] = age[d]
          BY <1>1, <1>2, <4>2
        <5> QED
          BY <3>1, <5>1
      <4> QED
        BY <4>1, <4>2
    <3>3. Passed(b)' = Passed(b)
      BY <1>1, <3>2 DEF Passed
    <3>4. Waited(b)
      BY <2>1, <3>1 DEF AgeInv, QueueMoves, Filled
    <3> QED
      BY <1>1, <1>3, <3>1, <3>3, <3>4 DEF Waited
  <2> QED
    BY <2>2, <2>3
<1>7. HandFresh'
  <2>1. at = "process" /\ ~Reads => age'[hand] <= age[hand] \/ age'[hand] = 0
    BY <1>1, <1>2 DEF AgeInv, AgeTypes
  <2>2. at = "process" /\ ~Reads => age'[hand] \in Nat /\ age[hand] \in Nat
    BY <1>2, <1>4 DEF AgeInv, AgeTypes
  <2> QED
    BY <1>1, <1>2, <1>3, <2>1, <2>2 DEF AgeInv, HandFresh, Reads
<1>8. ImageFresh'
  BY <1>1, <1>3 DEF AgeInv, ImageFresh
<1> QED
  BY <1>5, <1>6, <1>7, <1>8 DEF AgeInv

(* Time passes in the sleep, for buffers and image, and in the wait, where *)
(* no buffer is filled.                                                    *)
LEMMA TickAges ==
  ASSUME Inv, AgeInv, Tick
  PROVE  AgeInv'
<1>1. /\ \/ at = "sleep" /\ spent < Period
         \/ at = "select" /\ Filled = {} /\ spent < Timeout
      /\ spent' = spent + 1
      /\ age' = [b \in Buffer |-> IF where[b] = "filled" THEN Older(age[b]) ELSE 0]
      /\ image' = IF image.shows = "blank" THEN image ELSE [image EXCEPT !.age = Older(@)]
      /\ UNCHANGED <<at, buffers_, io, is_capturing_, stream, where, hand, interrupts>>
  BY DEF Tick, Ready, LoopPeriod, given, Inv, CamTypes, HandHeld, Filled
<1>2. /\ Bound \in Nat /\ Period \in Nat /\ Timeout \in Nat /\ buffers_ \subseteq Buffer
      /\ interrupts \in Nat /\ spent \in Nat /\ MaxAge \in Nat
      /\ age \in [Buffer -> 0..MaxAge]
      /\ image \in [shows : {"blank", "picture"}, age : Nat, before : BOOLEAN]
  BY BoundType DEF Inv, CamTypes, AgeInv, AgeTypes
<1>3. Bound' = Bound /\ Filled' = Filled
  BY <1>1 DEF Bound, Filled
<1>4. age' \in [Buffer -> 0..MaxAge]
  BY <1>1, <1>2 DEF Older
<1>5. /\ image' \in [shows : {"blank", "picture"}, age : Nat, before : BOOLEAN]
      /\ image'.age <= image.age + 1 /\ image'.before = image.before
  <2>1. Older(image.age) \in Nat /\ Older(image.age) <= image.age + 1
    BY <1>2 DEF Older
  <2> QED
    BY <1>1, <1>2, <2>1
<1>6. AgeTypes'
  BY <1>1, <1>2, <1>3, <1>4, <1>5 DEF AgeInv, AgeTypes, Reads
<1>7. QueueMoves'
  <2> SUFFICES ASSUME MaxAge > Bound, NEW b \in Filled PROVE Waited(b)'
    BY <1>3 DEF QueueMoves
  <2>1. at = "sleep" /\ at' = "sleep" /\ spent < Period
    BY <1>1
  <2>2. InTurn = spent /\ InTurn' = spent + 1
    BY <1>1, <1>2, <2>1 DEF InTurn
  <2>3. \A d \in Filled : d \in Buffer /\ where[d] = "filled"
    BY <1>2 DEF Filled
  <2>4. ASSUME NEW d \in Filled PROVE age'[d] = age[d] + 1
    <3> DEFINE x == Cardinality(Passed(d)) + interrupts
               y == Cardinality(buffers_) + interrupts
    <3>1. x \in Nat /\ y \in Nat /\ x + 1 <= y
      BY <1>2, RingSize DEF Filled
    <3>2. y * Period <= Bound
      BY <1>2, BoundType
    <3>3. age[d] <= x * Period + spent /\ age[d] \in 0..MaxAge
      BY <1>2, <2>1, <2>2, <2>3, <2>4 DEF Waited, AgeInv, QueueMoves
    <3> HIDE DEF x, y
    <3>4. (x + 1) * Period = x * Period + Period /\ x * Period \in Nat
      BY <3>1, Times
    <3>5. (x + 1) * Period <= y * Period /\ (x + 1) * Period \in Nat /\ y * Period \in Nat
      BY <3>1, Times
    <3>6. age[d] < MaxAge
      BY <1>2, <2>1, <3>2, <3>3, <3>4, <3>5
    <3> QED
      BY <1>1, <2>3, <3>6 DEF Older
  <2>5. \A d \in buffers_ : (where'[d] = "filled" /\ age'[d] >= age'[b])
                              <=> (where[d] = "filled" /\ age[d] >= age[b])
    <3> TAKE d \in buffers_
    <3>1. CASE d \in Filled
      <4>1. age'[d] = age[d] + 1 /\ age'[b] = age[b] + 1
        BY <2>4, <3>1
      <4>2. age[d] \in Int /\ age[b] \in Int
        BY <1>2, <2>3, <3>1
      <4> QED
        BY <1>1, <4>1, <4>2
    <3>2. CASE d \notin Filled
      BY <1>1, <3>2 DEF Filled
    <3> QED
      BY <3>1, <3>2
  <2>6. Passed(b)' = Passed(b)
    BY <1>1, <2>5 DEF Passed
  <2>7. age'[b] = age[b] + 1 /\ age[b] \in Int
    BY <1>2, <2>3, <2>4
  <2>8. age[b] <= (Cardinality(Passed(b)) + interrupts) * Period + spent
    BY <2>1, <2>2 DEF Waited, AgeInv, QueueMoves
  <2> DEFINE z == (Cardinality(Passed(b)) + interrupts) * Period
  <2>9. z \in Nat
    BY <1>2, RingSize DEF Filled
  <2> HIDE DEF z
  <2>10. age'[b] <= z + InTurn'
    BY <1>2, <2>2, <2>7, <2>8, <2>9 DEF z
  <2> QED
    BY <1>1, <2>1, <2>6, <2>10 DEF Waited, z
<1>8. HandFresh'
  BY <1>1 DEF HandFresh
<1>9. ImageFresh'
  <2>1. CASE at = "sleep"
    <3>1. InTurn = spent /\ InTurn' = spent + 1
      BY <1>1, <1>2, <2>1 DEF InTurn
    <3> QED
      BY <1>1, <1>2, <1>3, <1>5, <2>1, <3>1 DEF AgeInv, ImageFresh
  <2>2. CASE at = "select"
    BY <1>1, <1>2, <1>3, <1>5, <2>2 DEF AgeInv, ImageFresh
  <2> QED
    BY <1>1, <2>1, <2>2
<1> QED
  BY <1>6, <1>7, <1>8, <1>9 DEF AgeInv

(* What takes all buffers back, or queues them all, leaves none filled,    *)
(* and an image from before.                                               *)
LEMMA NoneFilled ==
  ASSUME AgeTypes', Filled' = {}, at' # "process",
         ~is_capturing_' \/ image'.before \/ at' \in {"closed", "exited"}
  PROVE  AgeInv'
  BY DEF AgeInv, QueueMoves, HandFresh, ImageFresh

LEMMA ExitAges ==
  ASSUME Inv, AgeInv, Exit
  PROVE  AgeInv'
<1>1. /\ at' = "exited" /\ stream' = FALSE /\ where' = [b \in Buffer |-> "gone"]
      /\ UNCHANGED <<buffers_, io, is_capturing_, age, image, spent, interrupts>>
  BY DEF Exit, given
<1>2. Filled' = {}
  BY <1>1 DEF Filled, Inv, CamTypes
<1>3. AgeTypes'
  BY <1>1, <1>2 DEF AgeInv, AgeTypes
<1> QED
  BY <1>1, <1>2, <1>3, NoneFilled

(* A start leaves the queue empty and the image one from before.           *)
LEMMA StartAges ==
  ASSUME Inv, AgeInv, at \in {"ctor", "serve"}, NEW bufs \in SUBSET Buffer, start_capturing(bufs),
         buffers_' = bufs, is_capturing_ => bufs = buffers_ /\ at' = at,
         UNCHANGED <<io, hand, age, spent, interrupts>>, at' \in {"spin", "serve"}
  PROVE  AgeInv'
<1>1. CASE is_capturing_
  <2>1. UNCHANGED <<at, is_capturing_, stream, where, image, buffers_, io, hand, age, spent, interrupts>>
    BY <1>1 DEF start_capturing
  <2> QED
    BY <2>1, SameAges
<1>2. CASE ~is_capturing_
  <2>1. /\ is_capturing_' = TRUE /\ stream' = ~Reads
        /\ where' = [b \in Buffer |-> IF b \notin bufs THEN "gone"
                                      ELSE IF Reads THEN "program" ELSE "queued"]
        /\ image' = [image EXCEPT !.before = TRUE]
    BY <1>2 DEF start_capturing
  <2>2. Filled' = {}
    BY <2>1 DEF Filled
  <2>3. /\ image' \in [shows : {"blank", "picture"}, age : Nat, before : BOOLEAN]
        /\ image'.before
    BY <2>1 DEF AgeInv, AgeTypes
  <2>4. AgeTypes'
    BY <2>1, <2>2, <2>3 DEF AgeInv, AgeTypes, Reads
  <2> QED
    BY <2>2, <2>3, <2>4, NoneFilled
<1> QED
  BY <1>1, <1>2

LEMMA StopAges ==
  ASSUME Inv, AgeInv, service_stop_cap
  PROVE  AgeInv'
<1>1. at = "serve" /\ UNCHANGED <<at, buffers_, io, hand, age, image, spent, interrupts>>
  BY DEF service_stop_cap, given
<1>2. CASE ~is_capturing_
  <2>1. UNCHANGED <<at, is_capturing_, stream, where, image, buffers_, io, hand, age, spent, interrupts>>
    BY <1>1, <1>2 DEF service_stop_cap, stop_capturing
  <2> QED
    BY <2>1, SameAges
<1>3. CASE is_capturing_
  <2>1. /\ is_capturing_' = FALSE /\ stream' = FALSE
        /\ where' = [b \in Buffer |-> IF b \in buffers_ THEN "program" ELSE "gone"]
    BY <1>3 DEF service_stop_cap, stop_capturing
  <2>2. Filled' = {}
    BY <1>1, <2>1 DEF Filled, Inv, CamTypes
  <2>3. AgeTypes'
    BY <1>1, <2>1, <2>2 DEF AgeInv, AgeTypes
  <2> QED
    BY <1>1, <2>1, <2>2, <2>3, NoneFilled
<1> QED
  BY <1>2, <1>3

LEMMA ShutdownAges ==
  ASSUME Inv, AgeInv, shutdown
  PROVE  AgeInv'
<1>1. /\ at' = "closed" /\ is_capturing_' = FALSE /\ stream' = FALSE
      /\ where' = [b \in Buffer |-> "gone"]
      /\ UNCHANGED <<buffers_, io, hand, age, image, spent, interrupts>>
  BY DEF shutdown, given
<1>2. Filled' = {}
  BY <1>1 DEF Filled, Inv, CamTypes
<1>3. AgeTypes'
  BY <1>1, <1>2 DEF AgeInv, AgeTypes
<1> QED
  BY <1>1, <1>2, <1>3, NoneFilled

LEMMA AgesStep ==
  ASSUME Inv, AgeInv, [Next]_vars
  PROVE  AgeInv'
<1>1. CASE start
  <2>1. at = "ctor" /\ at' = "spin" /\ ~is_capturing_ /\ UNCHANGED <<io, hand, age, spent, interrupts>>
    BY <1>1 DEF start, Goto, Inv, HandHeld
  <2>2. PICK bufs \in SUBSET Buffer : buffers_' = bufs /\ start_capturing(bufs)
    BY <1>1 DEF start
  <2> QED
    BY <2>1, <2>2, StartAges
<1>2. CASE service_start_cap
  <2>1. /\ at = "serve" /\ at' = at /\ start_capturing(buffers_)
        /\ UNCHANGED <<buffers_, io, hand, age, spent, interrupts>>
    BY <1>2, NeverRefused DEF service_start_cap, given
  <2>2. buffers_ \in SUBSET Buffer
    BY DEF Inv, CamTypes
  <2> QED
    BY <2>1, <2>2, StartAges
<1>3. CASE service_stop_cap
  BY <1>3, StopAges
<1>4. CASE \/ Unsuitable \/ StartFails \/ CaptureFails \/ SelectTimeout
           \/ ReadFails \/ RequeueFails \/ ShutdownAgain
  BY <1>4, ExitAges DEF Unsuitable, StartFails, CaptureFails, SelectTimeout, ReadFails,
     RequeueFails, ShutdownAgain, errno_exit
<1>5. CASE spin
  BY <1>5, SpinAges
<1>6. CASE Served \/ grab_image \/ take_and_send_image
  BY <1>6, WalkAges
<1>7. CASE Wake
  BY <1>7, WakeAges
<1>8. CASE Interrupted
  BY <1>8, InterruptedAges
<1>9. CASE Dequeue
  BY <1>9, DequeueAges
<1>10. CASE Convert
  BY <1>10, ConvertAges
<1>11. CASE read_frame
  BY <1>11, RequeueAges
<1>12. CASE shutdown
  BY <1>12, ShutdownAges
<1>13. CASE \E b \in buffers_ : Fill(b)
  BY <1>13, FillAges
<1>14. CASE Tick
  BY <1>14, TickAges
<1>15. CASE UNCHANGED vars
  BY <1>15, SameAges DEF vars, given
<1> QED
  BY <1>1, <1>2, <1>3, <1>4, <1>5, <1>6, <1>7, <1>8, <1>9, <1>10, <1>11, <1>12, <1>13, <1>14, <1>15
  DEF Next

(* How old the buffers and the image can be, at every step.                *)
THEOREM AgesInvariance == Spec => [](Inv /\ AgeInv)
<1>1. Init => Inv /\ AgeInv
  BY InitInv, AgesStart
<1>2. Inv /\ AgeInv /\ [Next]_vars => (Inv /\ AgeInv)'
  BY StepInv, AgesStep
<1> QED
  BY <1>1, <1>2, PTL DEF Spec

(* An image published is no older than the ring is long and a turn and a   *)
(* wait for each interruption, for any number of buffers, any period and   *)
(* any timeout, unless it is one from before the last start.               *)
THEOREM FreshEnoughHolds == Spec => []FreshEnough
<1>1. Inv /\ AgeInv => FreshEnough
  BY DEF Inv, HandHeld, AgeInv, ImageFresh, FreshEnough, Bound
<1> QED
  BY AgesInvariance, <1>1, PTL

-----------------------------------------------------------------------------
(* UsbCam: the colours, for every camera's colour and grey level.  What a  *)
(* camera sends of a colour and what the program makes of it are quotients *)
(* rounded down; each lies between two multiples of its divisor, and what  *)
(* follows is linear.                                                      *)

LEMMA Quotients ==
  ASSUME NEW a \in Int
  PROVE  /\ a \div 1000 \in Int /\ 1000 * (a \div 1000) <= a /\ a <= 1000 * (a \div 1000) + 999
         /\ a \div 32768 \in Int /\ 32768 * (a \div 32768) <= a /\ a <= 32768 * (a \div 32768) + 32767
BY Z3

LEMMA Clipped ==
  ASSUME NEW x \in -128 .. 383
  PROVE  CLIPVALUE(x) = IF x < 0 THEN 0 ELSE IF x > 255 THEN 255 ELSE x
BY DEF CLIPVALUE, uchar_clipping_table, clipping_table_offset

(* The luma of a colour.                                                   *)
LEMMA LumaIs ==
  ASSUME NEW R \in Byte, NEW G \in Byte, NEW B \in Byte
  PROVE  /\ Luma(<<R, G, B>>) \in Int
         /\ 1000 * Luma(<<R, G, B>>) <= 299 * R + 587 * G + 114 * B
         /\ 299 * R + 587 * G + 114 * B <= 1000 * Luma(<<R, G, B>>) + 999
<1>1. 299 * R + 587 * G + 114 * B \in Int
  BY DEF Byte
<1>2. Luma(<<R, G, B>>) = (299 * R + 587 * G + 114 * B) \div 1000
  BY DEF Luma
<1> QED
  BY <1>1, <1>2, Quotients

LEMMA ColourIs ==
  ASSUME NEW c \in Byte \X Byte \X Byte
  PROVE  /\ c[1] \in Byte /\ c[2] \in Byte /\ c[3] \in Byte /\ c = <<c[1], c[2], c[3]>>
         /\ c[1] = c[2] /\ c[2] = c[3] => Luma(c) = c[1]
<1>1. c[1] \in Byte /\ c[2] \in Byte /\ c[3] \in Byte /\ c = <<c[1], c[2], c[3]>>
  OBVIOUS
<1>2. \A R \in Byte, G \in Byte, B \in Byte : R = G /\ G = B => Luma(<<R, G, B>>) = R
  <2> SUFFICES ASSUME NEW R \in Byte, NEW G \in Byte, NEW B \in Byte, R = G, G = B
      PROVE  Luma(<<R, G, B>>) = R
    OBVIOUS
  <2>1. PICK y \in Int : y = Luma(<<R, G, B>>)
    BY LumaIs
  <2>2. 1000 * y <= 299 * R + 587 * G + 114 * B /\ 299 * R + 587 * G + 114 * B <= 1000 * y + 999
    BY <2>1, LumaIs
  <2>3. y = R
    BY <2>1, <2>2 DEF Byte
  <2> QED
    BY <2>1, <2>3
<1>3. c[1] = c[2] /\ c[2] = c[3] => Luma(<<c[1], c[2], c[3]>>) = c[1]
  BY <1>1, <1>2
<1> QED
  BY <1>1, <1>3, Zenon

(* A colour sent and shown.                                                *)
Shown(c) == YUV2RGB(Luma(c), ChromaU(c), ChromaV(c))

(* What the luma and the chroma of red R, green G and blue B are, ...      *)
Sent(R, G, B, y, u, v) ==
  /\ R \in 0 .. 255 /\ G \in 0 .. 255 /\ B \in 0 .. 255
  /\ y \in Int /\ u \in Int /\ v \in Int
  /\ 1000 * y <= 299 * R + 587 * G + 114 * B /\ 299 * R + 587 * G + 114 * B <= 1000 * y + 999
  /\ 1000 * u <= 564 * (B - y) /\ 564 * (B - y) <= 1000 * u + 999
  /\ 1000 * v <= 713 * (R - y) /\ 713 * (R - y) <= 1000 * v + 999

(* ... and the range of the three values shown, before they are rounded.   *)
Range3(y, u, v, low, high) ==
  /\ y \in Int /\ u \in Int /\ v \in Int
  /\ low * 32768 <= 32768 * y + 37221 * v /\ 32768 * y + 37221 * v <= high * 32768
  /\ low * 32768 <= 32768 * y - (12975 * u + 18949 * v)
  /\ 32768 * y - (12975 * u + 18949 * v) <= high * 32768
  /\ low * 32768 <= 32768 * y + 66883 * u /\ 32768 * y + 66883 * u <= high * 32768

(* A colour's own values are at most 38 beyond those of a byte.            *)
LEMMA ShadeBounds ==
  ASSUME NEW R, NEW G, NEW B, NEW y, NEW u, NEW v, Sent(R, G, B, y, u, v)
  PROVE  Range3(y, u, v, -38, 293)
<1>1. /\ R \in 0 .. 255 /\ G \in 0 .. 255 /\ B \in 0 .. 255
      /\ y \in Int /\ u \in Int /\ v \in Int
      /\ 1000 * y <= 299 * R + 587 * G + 114 * B /\ 299 * R + 587 * G + 114 * B <= 1000 * y + 999
      /\ 1000 * u <= 564 * (B - y) /\ 564 * (B - y) <= 1000 * u + 999
      /\ 1000 * v <= 713 * (R - y) /\ 713 * (R - y) <= 1000 * v + 999
  BY DEF Sent
<1>2. /\ 66883 * (1000 * u) <= 66883 * (564 * (B - y)) /\ 66883 * (564 * (B - y)) <= 66883 * (1000 * u + 999)
      /\ 12975 * (1000 * u) <= 12975 * (564 * (B - y)) /\ 12975 * (564 * (B - y)) <= 12975 * (1000 * u + 999)
      /\ 37221 * (1000 * v) <= 37221 * (713 * (R - y)) /\ 37221 * (713 * (R - y)) <= 37221 * (1000 * v + 999)
      /\ 18949 * (1000 * v) <= 18949 * (713 * (R - y)) /\ 18949 * (713 * (R - y)) <= 18949 * (1000 * v + 999)
  BY <1>1
<1>3. -38 * 32768 <= 32768 * y + 37221 * v
  BY <1>1, <1>2
<1>4. 32768 * y + 37221 * v <= 293 * 32768
  BY <1>1, <1>2
<1>5. -38 * 32768 <= 32768 * y + 66883 * u
  BY <1>1, <1>2
<1>6. 32768 * y + 66883 * u <= 293 * 32768
  BY <1>1, <1>2
<1>7. -38 * 32768 <= 32768 * y - (12975 * u + 18949 * v)
  BY <1>1, <1>2
<1>8. 32768 * y - (12975 * u + 18949 * v) <= 293 * 32768
  BY <1>1, <1>2
<1> QED
  BY <1>1, <1>3, <1>4, <1>5, <1>6, <1>7, <1>8 DEF Range3

LEMMA ShadesIn ==
  ASSUME NEW c \in Byte \X Byte \X Byte
  PROVE  /\ Luma(c) \in 0 .. 255 /\ ChromaU(c) \in Int /\ ChromaV(c) \in Int
         /\ Range3(Luma(c), ChromaU(c) - 128, ChromaV(c) - 128, -38, 293)
<1>1. PICK R \in Byte, G \in Byte, B \in Byte : c = <<R, G, B>>
  OBVIOUS
<1> DEFINE y == Luma(<<R, G, B>>)
<1>2. /\ R \in 0 .. 255 /\ G \in 0 .. 255 /\ B \in 0 .. 255 /\ y \in Int
      /\ 1000 * y <= 299 * R + 587 * G + 114 * B
      /\ 299 * R + 587 * G + 114 * B <= 1000 * y + 999
  <2>1. R \in 0 .. 255 /\ G \in 0 .. 255 /\ B \in 0 .. 255
    BY DEF Byte
  <2> QED
    BY <2>1, LumaIs
<1>3. ChromaU(<<R, G, B>>) = 128 + ((564 * (B - y)) \div 1000)
      /\ ChromaV(<<R, G, B>>) = 128 + ((713 * (R - y)) \div 1000)
  BY DEF ChromaU, ChromaV
<1> HIDE DEF y
<1>4. /\ 564 * (B - y) \in Int /\ 713 * (R - y) \in Int
  BY <1>2
<1>5. /\ (564 * (B - y)) \div 1000 \in Int /\ (713 * (R - y)) \div 1000 \in Int
      /\ 1000 * ((564 * (B - y)) \div 1000) <= 564 * (B - y)
      /\ 564 * (B - y) <= 1000 * ((564 * (B - y)) \div 1000) + 999
      /\ 1000 * ((713 * (R - y)) \div 1000) <= 713 * (R - y)
      /\ 713 * (R - y) <= 1000 * ((713 * (R - y)) \div 1000) + 999
  BY <1>4, Quotients
<1>6. PICK u \in Int, v \in Int :
        /\ u = (564 * (B - y)) \div 1000 /\ v = (713 * (R - y)) \div 1000
        /\ 1000 * u <= 564 * (B - y) /\ 564 * (B - y) <= 1000 * u + 999
        /\ 1000 * v <= 713 * (R - y) /\ 713 * (R - y) <= 1000 * v + 999
  BY <1>5
<1>7. Sent(R, G, B, y, u, v)
  BY <1>2, <1>6 DEF Sent
<1>8. Range3(y, u, v, -38, 293)
  BY <1>7, ShadeBounds
<1>9. y \in 0 .. 255
  BY <1>2
<1>10. /\ ChromaU(<<R, G, B>>) = 128 + u /\ ChromaV(<<R, G, B>>) = 128 + v
       /\ 128 + u \in Int /\ 128 + v \in Int /\ 128 + u - 128 = u /\ 128 + v - 128 = v
  BY <1>3, <1>6
<1> QED
  BY <1>1, <1>8, <1>9, <1>10 DEF y

(* A look-up for three values in the table's range yields three bytes.     *)
LEMMA InTable ==
  ASSUME NEW y, NEW u, NEW v, Range3(y, u, v, -128, 383)
  PROVE  \A k \in 1 .. 3 : YUV2RGB(y, 128 + u, 128 + v)[k] \in Byte
<1> DEFINE r == (v * 37221) \div 32768
           g == (u * 12975 + v * 18949) \div 32768
           b == (u * 66883) \div 32768
<1>0. y \in Int /\ u \in Int /\ v \in Int
  BY DEF Range3
<1>1. /\ r \in Int /\ 32768 * r <= v * 37221 /\ v * 37221 <= 32768 * r + 32767
      /\ g \in Int /\ 32768 * g <= u * 12975 + v * 18949
      /\ u * 12975 + v * 18949 <= 32768 * g + 32767
      /\ b \in Int /\ 32768 * b <= u * 66883 /\ u * 66883 <= 32768 * b + 32767
  <2>1. v * 37221 \in Int /\ u * 12975 + v * 18949 \in Int /\ u * 66883 \in Int
    BY <1>0
  <2> QED
    BY <2>1, Quotients
<1>2. YUV2RGB(y, 128 + u, 128 + v) = <<CLIPVALUE(y + r), CLIPVALUE(y - g), CLIPVALUE(y + b)>>
  <2>1. PICK p \in Int, q \in Int : p = 128 + u /\ q = 128 + v
    BY <1>0
  <2>2. p - 128 = u /\ q - 128 = v
    BY <1>0, <2>1
  <2>3. YUV2RGB(y, p, q) = <<CLIPVALUE(y + r), CLIPVALUE(y - g), CLIPVALUE(y + b)>>
    BY <2>2 DEF YUV2RGB
  <2> QED
    BY <2>1, <2>3
<1> HIDE DEF r, g, b
<1>3. y + r \in -128 .. 383 /\ y - g \in -128 .. 383 /\ y + b \in -128 .. 383
  BY <1>0, <1>1 DEF Range3
<1>4. CLIPVALUE(y + r) \in Byte /\ CLIPVALUE(y - g) \in Byte /\ CLIPVALUE(y + b) \in Byte
  <2>1. ASSUME NEW x \in -128 .. 383 PROVE CLIPVALUE(x) \in Byte
    BY Clipped DEF Byte
  <2> QED
    BY <1>3, <2>1
<1> QED
  BY <1>2, <1>4

(* A neighbour's luma, not too different, with a colour's chroma or with   *)
(* the mean of both.                                                       *)
LEMMA NeighboursIn ==
  ASSUME NEW y, NEW u, NEW v, Range3(y, u, v, -38, 293),
         NEW yd, NEW ud, NEW vd, Range3(yd, ud, vd, -38, 293), y <= yd + 90, yd <= y + 90
  PROVE  /\ Range3(y, u, v, -128, 383) /\ Range3(yd, u, v, -128, 383)
         /\ \A mu, mv \in Int :
              2 * mu <= u + ud /\ u + ud <= 2 * mu + 1 /\ 2 * mv <= v + vd /\ v + vd <= 2 * mv + 1
                => Range3(y, mu, mv, -128, 383) /\ Range3(yd, mu, mv, -128, 383)
<1>1. Range3(y, u, v, -128, 383) /\ Range3(yd, u, v, -128, 383)
  BY DEF Range3
<1>2. ASSUME NEW mu \in Int, NEW mv \in Int,
             2 * mu <= u + ud, u + ud <= 2 * mu + 1, 2 * mv <= v + vd, v + vd <= 2 * mv + 1
      PROVE  Range3(y, mu, mv, -128, 383) /\ Range3(yd, mu, mv, -128, 383)
  BY <1>2 DEF Range3
<1> QED
  BY <1>1, <1>2

(* In the clipping table, and in the order of its components: the matrix   *)
(* errs by less than two components 48 apart need to be confused.          *)
LEMMA ShownIs ==
  ASSUME NEW c \in Byte \X Byte \X Byte
  PROVE  /\ \A k \in 1 .. 3 : Shown(c)[k] \in Byte
         /\ \A k, l \in 1 .. 3 : c[k] >= c[l] + 48 => Shown(c)[k] > Shown(c)[l]
<1>0. PICK R \in Byte, G \in Byte, B \in Byte : c = <<R, G, B>>
  OBVIOUS
<1> DEFINE y == Luma(c)
           u == (564 * (B - y)) \div 1000
           v == (713 * (R - y)) \div 1000
           r == (v * 37221) \div 32768
           g == (u * 12975 + v * 18949) \div 32768
           b == (u * 66883) \div 32768
<1>1. /\ R \in Byte /\ G \in Byte /\ B \in Byte /\ y \in Int
      /\ 1000 * y <= 299 * R + 587 * G + 114 * B
      /\ 299 * R + 587 * G + 114 * B <= 1000 * y + 999
  BY <1>0, LumaIs
<1> HIDE DEF y
<1>2. /\ u \in Int /\ 1000 * u <= 564 * (B - y) /\ 564 * (B - y) <= 1000 * u + 999
      /\ v \in Int /\ 1000 * v <= 713 * (R - y) /\ 713 * (R - y) <= 1000 * v + 999
  <2>1. 564 * (B - y) \in Int /\ 713 * (R - y) \in Int
    BY <1>1 DEF Byte
  <2> QED
    BY <2>1, Quotients
<1>3. ChromaU(c) = 128 + u /\ ChromaV(c) = 128 + v
  BY <1>0 DEF ChromaU, ChromaV, y, u, v
<1> HIDE DEF u, v
<1>4. /\ r \in Int /\ 32768 * r <= v * 37221 /\ v * 37221 <= 32768 * r + 32767
      /\ g \in Int /\ 32768 * g <= u * 12975 + v * 18949
      /\ u * 12975 + v * 18949 <= 32768 * g + 32767
      /\ b \in Int /\ 32768 * b <= u * 66883 /\ u * 66883 <= 32768 * b + 32767
  <2>1. v * 37221 \in Int /\ u * 12975 + v * 18949 \in Int /\ u * 66883 \in Int
    BY <1>2
  <2> QED
    BY <2>1, Quotients
<1>5. ChromaU(c) - 128 = u /\ ChromaV(c) - 128 = v
  BY <1>2, <1>3
<1>6. Shown(c) = <<CLIPVALUE(y + r), CLIPVALUE(y - g), CLIPVALUE(y + b)>>
  BY <1>5 DEF Shown, YUV2RGB, y
<1> HIDE DEF r, g, b
<1>7. /\ y + r \in -128 .. 383 /\ y - g \in -128 .. 383 /\ y + b \in -128 .. 383
      /\ R >= G + 48 => y + r > y - g /\ y + r > 0 /\ y - g < 255
      /\ R >= B + 48 => y + r > y + b /\ y + r > 0 /\ y + b < 255
      /\ G >= R + 48 => y - g > y + r /\ y - g > 0 /\ y + r < 255
      /\ G >= B + 48 => y - g > y + b /\ y - g > 0 /\ y + b < 255
      /\ B >= R + 48 => y + b > y + r /\ y + b > 0 /\ y + r < 255
      /\ B >= G + 48 => y + b > y - g /\ y + b > 0 /\ y - g < 255
  <2>1. /\ R \in 0 .. 255 /\ G \in 0 .. 255 /\ B \in 0 .. 255
    BY <1>1 DEF Byte
  <2>2. y + r \in -128 .. 383 /\ y - g \in -128 .. 383 /\ y + b \in -128 .. 383
    BY <1>1, <1>2, <1>4, <2>1, SMTT(60)
  <2>3. ASSUME R >= G + 48 PROVE y + r > y - g /\ y + r > 0 /\ y - g < 255
    BY <1>1, <1>2, <1>4, <2>1, <2>3, SMTT(60)
  <2>4. ASSUME R >= B + 48 PROVE y + r > y + b /\ y + r > 0 /\ y + b < 255
    BY <1>1, <1>2, <1>4, <2>1, <2>4, SMTT(60)
  <2>5. ASSUME G >= R + 48 PROVE y - g > y + r /\ y - g > 0 /\ y + r < 255
    BY <1>1, <1>2, <1>4, <2>1, <2>5, SMTT(60)
  <2>6. ASSUME G >= B + 48 PROVE y - g > y + b /\ y - g > 0 /\ y + b < 255
    BY <1>1, <1>2, <1>4, <2>1, <2>6, SMTT(60)
  <2>7. ASSUME B >= R + 48 PROVE y + b > y + r /\ y + b > 0 /\ y + r < 255
    BY <1>1, <1>2, <1>4, <2>1, <2>7, SMTT(60)
  <2>8. ASSUME B >= G + 48 PROVE y + b > y - g /\ y + b > 0 /\ y - g < 255
    BY <1>1, <1>2, <1>4, <2>1, <2>8, SMTT(60)
  <2> QED
    BY <2>2, <2>3, <2>4, <2>5, <2>6, <2>7, <2>8
<1>8. PICK p, q, s : p = y + r /\ q = y - g /\ s = y + b
  OBVIOUS
<1>9. /\ Shown(c)[1] = IF p < 0 THEN 0 ELSE IF p > 255 THEN 255 ELSE p
      /\ Shown(c)[2] = IF q < 0 THEN 0 ELSE IF q > 255 THEN 255 ELSE q
      /\ Shown(c)[3] = IF s < 0 THEN 0 ELSE IF s > 255 THEN 255 ELSE s
  <2>1. p \in -128 .. 383 /\ q \in -128 .. 383 /\ s \in -128 .. 383
    BY <1>7, <1>8
  <2>2. Shown(c) = <<CLIPVALUE(p), CLIPVALUE(q), CLIPVALUE(s)>>
    BY <1>6, <1>8
  <2> QED
    BY <2>1, <2>2, Clipped
<1>10. p \in Int /\ q \in Int /\ s \in Int
  BY <1>1, <1>2, <1>4, <1>7, <1>8
<1>11. ASSUME NEW k \in 1 .. 3 PROVE Shown(c)[k] \in Byte
  BY <1>9, <1>10 DEF Byte
<1>12. c[1] = R /\ c[2] = G /\ c[3] = B /\ R \in Int /\ G \in Int /\ B \in Int
  BY <1>0 DEF Byte
<1>13. ASSUME NEW k \in 1 .. 3, NEW l \in 1 .. 3, c[k] >= c[l] + 48
       PROVE  Shown(c)[k] > Shown(c)[l]
  <2>1. k # l
    BY <1>13, <1>12
  <2>2. CASE k = 1 /\ l = 2
    BY <1>7, <1>8, <1>9, <1>10, <1>13, <1>12, <2>2
  <2>3. CASE k = 1 /\ l = 3
    BY <1>7, <1>8, <1>9, <1>10, <1>13, <1>12, <2>3
  <2>4. CASE k = 2 /\ l = 1
    BY <1>7, <1>8, <1>9, <1>10, <1>13, <1>12, <2>4
  <2>5. CASE k = 2 /\ l = 3
    BY <1>7, <1>8, <1>9, <1>10, <1>13, <1>12, <2>5
  <2>6. CASE k = 3 /\ l = 1
    BY <1>7, <1>8, <1>9, <1>10, <1>13, <1>12, <2>6
  <2>7. CASE k = 3 /\ l = 2
    BY <1>7, <1>8, <1>9, <1>10, <1>13, <1>12, <2>7
  <2> QED
    BY <2>1, <2>2, <2>3, <2>4, <2>5, <2>6, <2>7
<1> QED
  BY <1>11, <1>13

(* Grey has no chroma, and comes back as it was.                           *)
LEMMA GreyShown ==
  ASSUME NEW c \in Byte \X Byte \X Byte, IsGrey(c), NEW d \in Byte \X Byte \X Byte, IsGrey(d)
  PROVE  /\ ChromaU(c) = 128 /\ ChromaV(c) = 128
         /\ YUV2RGB(Luma(d), 128, 128) = d
<1>1. Luma(c) = c[1] /\ c[1] = c[3] /\ c[1] \in Byte
  BY ColourIs DEF IsGrey
<1>2. (564 * (c[3] - Luma(c))) \div 1000 = 0 /\ (713 * (c[1] - Luma(c))) \div 1000 = 0
  BY <1>1 DEF Byte
<1>3. Luma(d) = d[1] /\ d = <<d[1], d[1], d[1]>> /\ d[1] \in Byte
  BY ColourIs DEF IsGrey
<1>4. YUV2RGB(Luma(d), 128, 128) = <<CLIPVALUE(d[1]), CLIPVALUE(d[1]), CLIPVALUE(d[1])>>
  <2>1. /\ ((128 - 128) * 37221) \div 32768 = 0 /\ ((128 - 128) * 66883) \div 32768 = 0
        /\ ((128 - 128) * 12975 + (128 - 128) * 18949) \div 32768 = 0
    OBVIOUS
  <2>2. Luma(d) + 0 = d[1] /\ Luma(d) - 0 = d[1]
    BY <1>3 DEF Byte
  <2> QED
    BY <2>1, <2>2 DEF YUV2RGB
<1>5. CLIPVALUE(d[1]) = d[1]
  BY <1>3, Clipped DEF Byte
<1> QED
  BY <1>2, <1>3, <1>4, <1>5 DEF ChromaU, ChromaV

(* The low two of ten bits are dropped.                                    *)
LEMMA TenBits ==
  ASSUME NEW x \in 0 .. 1023
  PROVE  mono102mono8(<<x % 256, x \div 256>>) = x \div 4
BY DEF mono102mono8

(* Two pixels of any colours, not too far apart in brightness: no look-up  *)
(* is outside the table.                                                   *)
LEMMA PairInTable ==
  ASSUME NEW c \in Byte \X Byte \X Byte, NEW d \in Byte \X Byte \X Byte, ~Apart(c, d),
         NEW chroma \in Chromas(c, d)
  PROVE  /\ \A k \in 1 .. 3 : YUV2RGB(Luma(c), chroma[1], chroma[2])[k] \in Byte
         /\ \A k \in 1 .. 3 : YUV2RGB(Luma(d), chroma[1], chroma[2])[k] \in Byte
<1>1. PICK y \in Int, yd \in Int : y = Luma(c) /\ yd = Luma(d)
  <2>1. Luma(c) \in 0 .. 255
    BY ShadesIn
  <2>2. Luma(d) \in 0 .. 255
    BY ShadesIn
  <2>3. 0 .. 255 \subseteq Int
    OBVIOUS
  <2> QED
    BY <2>1, <2>2, <2>3, Zenon
<1>2. y <= yd + 90 /\ yd <= y + 90
  BY <1>1 DEF Apart, Contrast
<1>3. PICK u \in Int, v \in Int, ud \in Int, vd \in Int :
        /\ ChromaU(c) = 128 + u /\ ChromaV(c) = 128 + v
        /\ ChromaU(d) = 128 + ud /\ ChromaV(d) = 128 + vd
        /\ ChromaU(c) - 128 = u /\ ChromaV(c) - 128 = v
        /\ ChromaU(d) - 128 = ud /\ ChromaV(d) - 128 = vd
  <2>1. /\ ChromaU(c) \in Int /\ ChromaV(c) \in Int /\ ChromaU(d) \in Int /\ ChromaV(d) \in Int
    BY ShadesIn
  <2>2. \A a \in Int : \E b \in Int : a = 128 + b /\ a - 128 = b
    <3> TAKE a \in Int
    <3> WITNESS a - 128 \in Int
    <3> QED
      OBVIOUS
  <2> QED
    BY <2>1, <2>2
<1>4. Range3(y, u, v, -38, 293) /\ Range3(yd, ud, vd, -38, 293)
  BY <1>1, <1>3, ShadesIn
<1>5. ASSUME NEW m \in Int, NEW n \in Int, chroma = <<128 + m, 128 + n>>,
             Range3(y, m, n, -128, 383), Range3(yd, m, n, -128, 383)
      PROVE  /\ \A k \in 1 .. 3 : YUV2RGB(y, chroma[1], chroma[2])[k] \in Byte
             /\ \A k \in 1 .. 3 : YUV2RGB(yd, chroma[1], chroma[2])[k] \in Byte
  <2>1. chroma[1] = 128 + m /\ chroma[2] = 128 + n
    BY <1>5
  <2> QED
    BY <1>5, <2>1, InTable
<1>6. CASE chroma = <<ChromaU(c), ChromaV(c)>>
  BY <1>1, <1>2, <1>3, <1>4, <1>5, <1>6, NeighboursIn
<1>7. CASE chroma = <<(ChromaU(c) + ChromaU(d)) \div 2, (ChromaV(c) + ChromaV(d)) \div 2>>
  <2>1. ASSUME NEW a \in Int, NEW b \in Int
        PROVE  \E m \in Int : (128 + a + (128 + b)) \div 2 = 128 + m
                               /\ 2 * m <= a + b /\ a + b <= 2 * m + 1
    <3>1. PICK m \in Int : m = (a + b) \div 2
      OBVIOUS
    <3>2. 2 * m <= a + b /\ a + b <= 2 * m + 1
      BY <3>1
    <3>3. (128 + a + (128 + b)) \div 2 = 128 + m
      BY <3>2
    <3> QED
      BY <3>2, <3>3
  <2>2. PICK mu \in Int : (128 + u + (128 + ud)) \div 2 = 128 + mu
                          /\ 2 * mu <= u + ud /\ u + ud <= 2 * mu + 1
    BY <2>1
  <2>3. PICK mv \in Int : (128 + v + (128 + vd)) \div 2 = 128 + mv
                          /\ 2 * mv <= v + vd /\ v + vd <= 2 * mv + 1
    BY <2>1
  <2>4. chroma = <<128 + mu, 128 + mv>>
    BY <1>3, <1>7, <2>2, <2>3
  <2>5. Range3(y, mu, mv, -128, 383) /\ Range3(yd, mu, mv, -128, 383)
    BY <1>2, <1>4, <2>2, <2>3, NeighboursIn
  <2> QED
    BY <1>1, <1>5, <2>4, <2>5
<1> QED
  BY <1>6, <1>7 DEF Chromas

(* Two pixels of one colour share its chroma, two greys have none.         *)
LEMMA PairShown ==
  ASSUME NEW c \in Byte \X Byte \X Byte, NEW d \in Byte \X Byte \X Byte,
         c = d \/ (IsGrey(c) /\ IsGrey(d)), NEW chroma \in Chromas(c, d)
  PROVE  /\ YUV2RGB(Luma(c), chroma[1], chroma[2]) = Shown(c)
         /\ YUV2RGB(Luma(d), chroma[1], chroma[2]) = Shown(d)
         /\ IsGrey(c) => Shown(c) = c /\ Shown(d) = d
<1>1. chroma = <<ChromaU(c), ChromaV(c)>>
  <2>1. ChromaU(c) = ChromaU(d) /\ ChromaV(c) = ChromaV(d)
    BY GreyShown
  <2>2. ChromaU(c) \in Int /\ ChromaV(c) \in Int
    BY ShadesIn
  <2>3. ASSUME NEW a \in Int PROVE (a + a) \div 2 = a
    OBVIOUS
  <2>4. (ChromaU(c) + ChromaU(d)) \div 2 = ChromaU(c) /\ (ChromaV(c) + ChromaV(d)) \div 2 = ChromaV(c)
    BY <2>1, <2>2, <2>3
  <2> QED
    BY <2>4 DEF Chromas
<1>2. YUV2RGB(Luma(c), chroma[1], chroma[2]) = Shown(c)
  BY <1>1 DEF Shown
<1>3. ASSUME IsGrey(c), IsGrey(d)
      PROVE  /\ YUV2RGB(Luma(d), ChromaU(c), ChromaV(c)) = Shown(d)
             /\ Shown(c) = c /\ Shown(d) = d
  BY <1>3, GreyShown DEF Shown
<1> QED
  BY <1>1, <1>2, <1>3 DEF Shown

(* Whatever is sent is shown as the property says.                         *)
LEMMA AllShown ==
  ASSUME NEW colours, colours \subseteq Byte \X Byte \X Byte, NEW levels, levels \subseteq 0 .. 1023,
         NEW kind
  PROVE  ShownTrue(kind, colours, levels)
<1>1. ASSUME NEW c \in colours, NEW d \in colours, NEW chroma \in Chromas(c, d),
             kind \in {"yuyv", "uyvy"}
      PROVE  PairTrue(c, d, process_image(kind, SentAs(kind, c, d, chroma)))
  <2>1. c \in Byte \X Byte \X Byte /\ d \in Byte \X Byte \X Byte
    OBVIOUS
  <2> DEFINE first == YUV2RGB(Luma(c), chroma[1], chroma[2])
             second == YUV2RGB(Luma(d), chroma[1], chroma[2])
  <2>2. process_image(kind, SentAs(kind, c, d, chroma)) = <<first, second>>
    BY <1>1 DEF process_image, SentAs, yuyv2rgb, uyvy2rgb
  <2> HIDE DEF first, second
  <2>3. <<first, second>>[1] = first /\ <<first, second>>[2] = second
    OBVIOUS
  <2>4. Apart(c, d) \/ \A i \in 1..2, k \in 1..3 : <<first, second>>[i][k] \in Byte
    <3> SUFFICES ASSUME ~Apart(c, d), NEW i \in 1..2, NEW k \in 1..3
        PROVE  <<first, second>>[i][k] \in Byte
      OBVIOUS
    <3>1. first[k] \in Byte /\ second[k] \in Byte
      BY <2>1, PairInTable DEF first, second
    <3> QED
      BY <2>3, <3>1
  <2>5. IsGrey(c) /\ IsGrey(d) => <<first, second>> = <<c, d>>
    <3>1. IsGrey(c) /\ IsGrey(d) => first = c /\ second = d
      BY <2>1, PairShown DEF first, second
    <3> QED
      BY <3>1
  <2>6. ASSUME c = d, NEW i \in 1..2, NEW k \in 1..3, NEW l \in 1..3, c[k] >= c[l] + 48
        PROVE  <<first, second>>[i][k] > <<first, second>>[i][l]
    <3>1. first = Shown(c) /\ second = Shown(c)
      BY <2>1, <2>6, PairShown DEF first, second
    <3>2. Shown(c)[k] > Shown(c)[l]
      BY <2>1, <2>6, ShownIs
    <3> QED
      BY <2>3, <3>1, <3>2
  <2>7. PairTrue(c, d, <<first, second>>)
    BY <2>4, <2>5, <2>6 DEF PairTrue
  <2> QED
    BY <2>2, <2>7
<1>2. CASE kind \in {"yuyv", "uyvy"}
  BY <1>1, <1>2 DEF ShownTrue
<1>3. CASE kind = "yuvmono10"
  <2>1. ASSUME NEW x \in levels
        PROVE  process_image(kind, <<x % 256, x \div 256>>) = x \div 4
    <3>1. process_image(kind, <<x % 256, x \div 256>>) = mono102mono8(<<x % 256, x \div 256>>)
      BY <1>3, Zenon DEF process_image
    <3>2. x \in 0 .. 1023
      OBVIOUS
    <3> QED
      BY <3>1, <3>2, TenBits, Zenon
  <2> QED
    BY <1>3, <2>1 DEF ShownTrue
<1>4. CASE kind \notin {"yuyv", "uyvy", "yuvmono10"}
  BY <1>4 DEF ShownTrue, process_image, rgb242rgb
<1> QED
  BY <1>2, <1>3, <1>4

(* Every picture shown is true to the camera's colours, for all pairs of   *)
(* the 2^24 that there are: unless two neighbours are far apart in         *)
(* brightness, no conversion reads outside the clipping table; greys are   *)
(* as they were, and components that differ by 48 or more keep their order.*)
THEOREM ColoursAreTrue == Spec => []ColoursTrue
<1>1. Inv => ColoursTrue
  BY ColourAssumption, AllShown DEF Inv, CamTypes, ColoursTrue, TrueFormats
<1> QED
  BY Invariance, <1>1, PTL

=============================================================================
