----------------------------- MODULE MCChannels -----------------------------
(***************************************************************************)
(* Instances of Channels: two messages of one sender, which may race for   *)
(* the conversation and queue behind each other, and one of another.       *)
(***************************************************************************)
EXTENDS Channels

CONSTANTS i1, i2, i3, s1, s2

MCSender == [i \in {i1, i2, i3} |-> IF i = i3 THEN s2 ELSE s1]
=============================================================================
