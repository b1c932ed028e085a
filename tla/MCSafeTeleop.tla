---------------------------- MODULE MCSafeTeleop ----------------------------
(* One reading on each side of the two limits, three commands: forward,    *)
(* reverse and a turn on the spot.                                         *)
EXTENDS SafeTeleop

MCReadings == {0, 20, 30}
MCCmds == {[x |-> 1, z |-> 0], [x |-> -1, z |-> 1], [x |-> 0, z |-> 1]}
MCCmdsFew == {[x |-> 1, z |-> 0], [x |-> -1, z |-> 1]}
=============================================================================
