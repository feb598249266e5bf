------------------------- MODULE MCContextUpdates -------------------------
(* Instances of the context updates for TLC.                               *)
EXTENDS ContextUpdates, TLC

CONSTANTS i1, i2, t1, t2, b1

Alike == Permutations(Items) \cup Permutations(Threads)
==========================================================================
