--------------------------- MODULE MCIntakeLane ---------------------------
(* Instances of the intake lane for TLC.                                   *)
EXTENDS IntakeLane

CONSTANTS t1, t2, t3

\* t1 is the oldest.
MCAge == [t \in Tasks |-> IF t = t1 THEN 1 ELSE IF t = t2 THEN 2 ELSE 3]
==========================================================================
