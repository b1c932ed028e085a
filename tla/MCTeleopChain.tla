---------------------------- MODULE MCTeleopChain ----------------------------
(* One range on each side of the limit; a forward and a backward command.  *)
EXTENDS TeleopChain

MCScans == {{29, 30}, {30}}
MCRanges == {29, 30}
MCCmds == {[x |-> 1, z |-> 0], [x |-> -1, z |-> 0]}
=============================================================================
