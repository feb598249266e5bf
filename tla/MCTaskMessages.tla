-------------------------- MODULE MCTaskMessages --------------------------
(* Instances of the steering messages for TLC.                             *)
EXTENDS TaskMessages

CONSTANTS m1, m2, m3
==========================================================================
