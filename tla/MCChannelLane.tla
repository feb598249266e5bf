-------------------------- MODULE MCChannelLane --------------------------
(* Instances of the channel lane for TLC: messages of one chat, of which   *)
(* the third is in another when the instance has two.                      *)
EXTENDS ChannelLane, TLC

CONSTANTS m1, m2, m3, c1, c2

MCChatOf == [m \in Messages |-> IF m = m3 /\ c2 \in Chats THEN c2 ELSE c1]
==========================================================================
