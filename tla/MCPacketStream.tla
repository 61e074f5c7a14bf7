--------------------------- MODULE MCPacketStream ---------------------------
(* An instance of PacketStream for TLC.                                     *)
EXTENDS PacketStream

Names == {<<>>, <<3>>, <<1, 255>>}

\* Numbers whose bytes are 0, look like an opcode, or are signed.
Numbers == {0, 5, -1, 512}

\* Blocks that hold a '\0' or the bytes of an opcode.
DataBlocks == {<<>>, <<0>>, <<4>>, <<0, 10>>, <<0, 0, 9>>}

\* encode and decodeNextByte handle every kind of packet, also those the server
\* does not send.
MCPackets ==
  {DIRQPacket, DiscPacket}
    \cup {RRQPacket(s) : s \in Names} \cup {WRQPacket(s) : s \in Names}
    \cup {LOGRQPacket(s) : s \in Names} \cup {DELRQPacket(s) : s \in Names}
    \cup {AckPacket(n) : n \in Numbers}
    \cup {ErrorPacket(n, s) : n \in Numbers, s \in Names}
    \cup {BCastPacket(b, s) : b \in {0, 1}, s \in Names \ {<<>>}}
    \cup {DataPacket(Len(s), n, s) : n \in Numbers, s \in DataBlocks}
=============================================================================
