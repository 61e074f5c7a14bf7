--------------------------- MODULE PacketChannel ---------------------------
(***************************************************************************)
(* What a codec at both ends of a TCP connection promises: a channel that  *)
(* delivers packets whole, once and in the order in which they were sent.  *)
(***************************************************************************)
EXTENDS Integers, Sequences

CONSTANTS Packets,    \* the packets that may be sent
          MaxPackets  \* bound: packets sent

VARIABLES inTransit, received

channel == <<inTransit, received>>

Init == inTransit = <<>> /\ received = <<>>

Send ==
  /\ Len(received) + Len(inTransit) < MaxPackets
  /\ \E p \in Packets : inTransit' = Append(inTransit, p)
  /\ UNCHANGED received

Deliver ==
  /\ inTransit # <<>>
  /\ received' = Append(received, Head(inTransit))
  /\ inTransit' = Tail(inTransit)

Next == Send \/ Deliver

Spec == Init /\ [][Next]_channel
=============================================================================
