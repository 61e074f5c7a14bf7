---------------------------- MODULE PacketStream ----------------------------
(***************************************************************************)
(* The packets from the server to one client as bytes: the server writes   *)
(* what MessageEncoderDecoderImpl.encode makes of a packet, the socket     *)
(* thread of the client gets the bytes one at a time and gives them to     *)
(* EncoderDecoder.decodeNextByte.  Nothing marks where a packet begins or  *)
(* ends.  The keyboard thread sends nothing here: see ClientThreads.       *)
(***************************************************************************)
EXTENDS Codec

CONSTANTS Packets,    \* the packets the server may write
          MaxPackets  \* bound: packets written

ASSUME PacketsAssumption ==
  /\ Packets \subseteq ServerPackets
  /\ \A p \in Packets : WellFormed(p)
  /\ MaxPackets \in Nat

VARIABLES
  wire,     \* packets written that have not been read to their last byte
  pos,      \* bytes of the first of them that have been read
  ed,       \* the EncoderDecoder of the ConnectionHandler
  received  \* history: what decodeNextByte has returned

vars == <<wire, pos, ed, received>>

TypeOK ==
  /\ wire \in Seq(Packets)
  /\ pos \in Nat
  /\ ed \in Fields
  /\ received \in Seq(ServerPackets)

Init ==
  /\ wire = <<>>
  /\ pos = 0
  /\ ed = NewEncoderDecoder
  /\ received = <<>>

\* BlockingConnectionHandler.send.
Write ==
  /\ Len(received) + Len(wire) < MaxPackets
  /\ \E p \in Packets : wire' = Append(wire, p)
  /\ UNCHANGED <<pos, ed, received>>

bytes == Server!encode(Head(wire))

\* A turn of communicateWithServerTask's loop: getBytes and decodeNextByte.
Read ==
  /\ wire # <<>>
  /\ LET result == decodeNextByte(ed, bytes[pos + 1])
     IN /\ ed' = result.ed
        /\ received' = IF result.packet = nullptr THEN received
                       ELSE Append(received, result.packet)
  /\ IF pos + 1 = Len(bytes)
     THEN /\ wire' = Tail(wire)
          /\ pos' = 0
     ELSE /\ pos' = pos + 1
          /\ UNCHANGED wire

Next == Write \/ Read

Spec == Init /\ [][Next]_vars

\* The socket thread goes on reading; the server need not write.
FairSpec == Spec /\ WF_vars(Read)

-----------------------------------------------------------------------------
\* The decoder never loses its place in the stream: its flags, its vectors and
\* its counters are always those of the part of the current packet that has
\* been read, whatever packets came before.
Framing ==
  IF wire = <<>> THEN pos = 0 /\ Decoding(ed, DiscPacket, <<>>, 0)
  ELSE pos < Len(bytes) /\ Decoding(ed, Head(wire), bytes, pos)

\* at() and erase() stay inside their vectors, which no method checks.
InRange == ~OutOfRange(ed)

Channel == INSTANCE PacketChannel WITH inTransit <- wire

\* Each packet comes out once, with the value it had, with the last of its
\* bytes and not before, in the order in which the server wrote them.
ImplementsChannel == Channel!Spec

\* Every packet written is delivered: no bytes leave the decoder waiting for
\* more.
EveryPacketArrives ==
  \A n \in 1 .. MaxPackets :
    Len(received) + Len(wire) = n ~> Len(received) >= n
=============================================================================
