------------------------- MODULE MCLaneSupervisor -------------------------
(* Instances of the lane supervisor for TLC.                               *)
EXTENDS LaneSupervisor

CONSTANTS c1, c2
==========================================================================
