---------------------------- MODULE MCMinilabNode ----------------------------
(* A forward command, a turn on the spot and the stop an operator sends.   *)
EXTENDS MinilabNode

MCCmds == {[vx |-> 1, wz |-> 0], [vx |-> 0, wz |-> 1], [vx |-> 0, wz |-> 0]}
MCCmdsFew == {[vx |-> 1, wz |-> 0], [vx |-> 0, wz |-> 1]}
=============================================================================
