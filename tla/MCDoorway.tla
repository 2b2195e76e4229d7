------------------------------ MODULE MCDoorway ------------------------------
(* Doorway on small instances. *)
EXTENDS DoorwayProps

CONSTANTS r1, r2, b1

MCRouters == {r1, r2}
MCBrowsers == {b1}
MCPorts == 1..3
MCWellKnown == {1, 2}
=============================================================================
