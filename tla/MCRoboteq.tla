------------------------------ MODULE MCRoboteq ------------------------------
(* Small instances of Roboteq for TLC. *)
EXTENDS Roboteq

Holdings == {"none", "old", "new"}
Outdated == {"old"}
=============================================================================
