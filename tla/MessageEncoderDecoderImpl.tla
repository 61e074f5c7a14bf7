--------------------- MODULE MessageEncoderDecoderImpl ---------------------
(***************************************************************************)
(* The MessageEncoderDecoderImpl of the server.  Its decoder is a record   *)
(* of the arrays of the object, each with the bytes stored in it since     *)
(* cleanFields: the flags of the code tell how many those are.             *)
(***************************************************************************)
EXTENDS ServerPacket

Fields ==
  [opcodeBytes : Seq(Byte), dataToDecode : Seq(Byte), blockNumBytes : Seq(Byte),
   packetSizeByte : Seq(Byte), blockNumDataBytes : Seq(Byte), data : Seq(Byte)]

\* The object as it is constructed and as cleanFields leaves it.
cleanFields ==
  [opcodeBytes |-> <<>>, dataToDecode |-> <<>>, blockNumBytes |-> <<>>,
   packetSizeByte |-> <<>>, blockNumDataBytes |-> <<>>, data |-> <<>>]

-----------------------------------------------------------------------------
(* encode.                                                                 *)

\* encodeRRQ, encodeWRQ, encodeLogRQ, encodeDelRQ, encodeError and encodeBCast
\* end what they encode with a '\0'.
encode(message) ==
  LET opcode == getOpcode(message)
      opcodeBytes == shortToBytes(opcode)
  IN CASE opcode \in {1, 2, 8} -> opcodeBytes \o message.fileName \o <<0>>
       [] opcode = 3 -> opcodeBytes \o shortToBytes(message.packetSize)
                          \o shortToBytes(message.blockNum) \o message.data
       [] opcode = 4 -> opcodeBytes \o shortToBytes(message.blockNum)
       [] opcode = 5 -> opcodeBytes \o shortToBytes(message.ErrCode)
                          \o message.ErrMsg \o <<0>>
       [] opcode = 7 -> opcodeBytes \o message.userName \o <<0>>
       [] opcode = 9 -> opcodeBytes \o <<message.delOrAdd>>
                          \o message.fileName \o <<0>>
       [] opcode \in {6, 10} -> opcodeBytes

-----------------------------------------------------------------------------
(* decodeNextByte.                                                         *)

Returns(d, packet) == [d |-> d, packet |-> packet]

initializeOpCode(d, nextByte) ==
  LET bytes == Append(d.opcodeBytes, nextByte)
      k == [d EXCEPT !.opcodeBytes = bytes]
  IN CASE Len(bytes) = 1 -> Returns(k, nullptr)
       [] Len(bytes) = 2 /\ bytesToShort(bytes) = 6 -> Returns(cleanFields, DIRQPacket)
       [] Len(bytes) = 2 /\ bytesToShort(bytes) = 10 -> Returns(cleanFields, DiscPacket)
       [] OTHER -> Returns(k, nullptr)

\* bytes in an array of 0s that is longer; the first n of them are taken.
Padded(bytes, n) == [i \in 1 .. n |-> IF i <= Len(bytes) THEN bytes[i] ELSE 0]

\* The string new String(bytes, UTF_8) makes of bytes: their chars, if they are
\* all ASCII.  Of others nothing is said but that it is a string: those that
\* form no character are replaced.
decoded == CHOOSE string : string \in [Seq(Byte) -> Seq(Byte)]
popString(bytes) ==
  IF \A i \in 1 .. Len(bytes) : bytes[i] < 128 THEN bytes ELSE decoded[bytes]

\* The packet the first '\0' completes.  The name of a BCAST and the message of
\* an ERROR are cut at the number of bytes pushed, the bytes popped before them
\* included.
handleCasesWithZeroAtTheEnd(opcode, bytes) ==
  LET n == Len(bytes)
      all == Padded(bytes, n + 2)
  IN CASE opcode = 9 -> BCastPacket(all[1], popString(SubSeq(all, 2, n + 1)))
       [] opcode = 8 -> DELRQPacket(popString(bytes))
       [] opcode = 7 -> LOGRQPacket(popString(bytes))
       [] opcode = 5 -> ErrorPacket(bytesToShort(all),
                                    popString(SubSeq(all, 3, n + 2)))
       [] opcode = 2 -> WRQPacket(popString(bytes))
       [] opcode = 1 -> RRQPacket(popString(bytes))

readAckPacket(d, nextByte) ==
  LET bytes == Append(d.blockNumBytes, nextByte)
  IN IF Len(bytes) = 1 THEN Returns([d EXCEPT !.blockNumBytes = bytes], nullptr)
     ELSE Returns(cleanFields, AckPacket(bytesToShort(bytes)))

\* A size of 0 leaves nothing to read and never completes.
readDataPacket(d, nextByte) ==
  CASE Len(d.packetSizeByte) < 2 ->
         Returns([d EXCEPT !.packetSizeByte = Append(@, nextByte)], nullptr)
    [] Len(d.packetSizeByte) = 2 /\ Len(d.blockNumDataBytes) < 2 ->
         Returns([d EXCEPT !.blockNumDataBytes = Append(@, nextByte)], nullptr)
    [] OTHER ->
         LET packetSize == bytesToShort(d.packetSizeByte)
             data == Append(d.data, nextByte)
         IN CASE Len(data) < packetSize -> Returns([d EXCEPT !.data = data], nullptr)
              [] Len(data) = packetSize ->
                   Returns(cleanFields,
                           DataPacket(packetSize, bytesToShort(d.blockNumDataBytes), data))
              [] OTHER -> Returns(d, nullptr)

decodeNextByte(d, nextByte) ==
  LET opcode == bytesToShort(d.opcodeBytes)
  IN IF Len(d.opcodeBytes) < 2 THEN initializeOpCode(d, nextByte)
     ELSE IF nextByte = 0 /\ opcode \in {1, 2, 5, 7, 8, 9}
     THEN Returns(cleanFields, handleCasesWithZeroAtTheEnd(opcode, d.dataToDecode))
     ELSE IF opcode = 3 THEN readDataPacket(d, nextByte)
     ELSE IF opcode = 4 THEN readAckPacket(d, nextByte)
     ELSE Returns([d EXCEPT !.dataToDecode = Append(@, nextByte)], nullptr)

\* What the call on the last of bytes returns to BlockingConnectionHandler.run,
\* after one call on each byte before: a set that holds the one result.
decodeAll(bytes) ==
  LET results[i \in 0 .. Len(bytes)] ==
        IF i = 0 THEN {Returns(cleanFields, nullptr)}
        ELSE {decodeNextByte(r.d, bytes[i]) : r \in results[i - 1]}
  IN results[Len(bytes)]
=============================================================================
