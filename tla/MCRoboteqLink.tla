---------------------------- MODULE MCRoboteqLink ----------------------------
(* One speed is enough: no step looks at it.                               *)
EXTENDS RoboteqLink

MCValues == {"500"}
=============================================================================
