------------------------------- MODULE Codec -------------------------------
(***************************************************************************)
(* The two codecs side by side: the EncoderDecoder of the client and the   *)
(* MessageEncoderDecoderImpl of the server, which have no code in common.  *)
(***************************************************************************)
EXTENDS EncoderDecoder

Server == INSTANCE MessageEncoderDecoderImpl

\* Packets that can be told from their bytes: a DATA packet holds as many bytes
\* as it says, the name in a BCAST is not empty, as no file has an empty name.
WellFormed(p) ==
  /\ p.opcode = 3 => p.packetSize = Len(p.data)
  /\ p.opcode = 9 => p.fileName # <<>>
=============================================================================
