------------------------------- MODULE Astra -------------------------------
(***************************************************************************)
(* The two lives of the camera drivers: their common boot, up to the       *)
(* camera, and what one of them does with its camera. Nothing of the first *)
(* is used in the second but which camera it is, so a behaviour is one of  *)
(* the two.                                                                *)
(***************************************************************************)
EXTENDS AstraBoot, AstraDriver

VARIABLE life

life_vars == <<life, bootVars, driverVars>>

LifeInit ==
  /\ BootInit /\ DriverInit
  /\ \/ life = "boot" /\ color /\ registers /\ config = CHOOSE c \in Configs : TRUE
     \/ life = "driver" /\ plugged = Camera /\ device_id = CHOOSE d \in DeviceIds : TRUE

LifeNext ==
  \/ life = "boot" /\ BootNext /\ UNCHANGED <<life, driverVars>>
  \/ life = "driver" /\ DriverNext /\ UNCHANGED <<life, bootVars>>

(* A driver runs, its loops included, as long as its process does; cameras *)
(* and clients do as they like.                                            *)
Fairness == \A p \in Proc : WF_life_vars(life = "boot" /\ Boot(p) /\ UNCHANGED <<life, driverVars>>)

LifeSpec == LifeInit /\ [][LifeNext]_life_vars /\ Fairness

-----------------------------------------------------------------------------
(* With all cameras plugged in, every driver of the boot gets one, unless  *)
(* one was restarted after its turn, which leaves it waiting for a byte    *)
(* that has moved on; or the launch file named a camera by its place and   *)
(* another driver, having missed its own, took it.                         *)
EveryDriverBoots == life = "boot" => BootsAll
=============================================================================
