--------------------------- MODULE EncoderDecoder ---------------------------
(***************************************************************************)
(* The EncoderDecoder of the client: encode gives the bytes of a packet,   *)
(* decodeNextByte takes the bytes that arrive one by one and returns a     *)
(* packet with the byte that completes it.  The object is a record with    *)
(* the names of its fields; the fields no method reads (len, lenDana,      *)
(* doneDecoding, currPos) are left out.  A method that changes the object  *)
(* is an operator from the object before to the object after.              *)
(***************************************************************************)
EXTENDS ServerPacket

Fields ==
  [opcode : Short,
   startedInitializingOpCode : BOOLEAN, isOpCodeInitialized : BOOLEAN,
   startedACKBlockNum : BOOLEAN, startedPacketSize : BOOLEAN,
   finishedPacketSize : BOOLEAN, startedDataBlockNum : BOOLEAN,
   finishedDataBlockNum : BOOLEAN, removedOpcode : BOOLEAN, readSecond : BOOLEAN,
   dataToDecode : Seq(Byte), opcodeBytes : Seq(Byte), data : Seq(Byte),
   blockNumDataBytes : Seq(Byte), packetSizeByte : Seq(Byte),
   blockNumBytes : Seq(Byte),
   packetSize : Short, blockNum : Short, leftToRead : Int]

\* The constructor; leftToRead is set before it is read.
NewEncoderDecoder ==
  [opcode |-> 0,
   startedInitializingOpCode |-> FALSE, isOpCodeInitialized |-> FALSE,
   startedACKBlockNum |-> FALSE, startedPacketSize |-> FALSE,
   finishedPacketSize |-> FALSE, startedDataBlockNum |-> FALSE,
   finishedDataBlockNum |-> FALSE, removedOpcode |-> FALSE, readSecond |-> FALSE,
   dataToDecode |-> <<>>, opcodeBytes |-> <<>>, data |-> <<>>,
   blockNumDataBytes |-> <<>>, packetSizeByte |-> <<>>, blockNumBytes |-> <<>>,
   packetSize |-> 0, blockNum |-> 0, leftToRead |-> 0]

\* Mutant: the flag of readAckPacket is not reset.
cleanAllButStarted(ed) ==
  [ed EXCEPT !.dataToDecode = <<>>, !.opcodeBytes = <<>>,
             !.blockNumBytes = <<>>, !.packetSizeByte = <<>>,
             !.blockNumDataBytes = <<>>,
             !.startedInitializingOpCode = FALSE, !.isOpCodeInitialized = FALSE,
             !.startedPacketSize = FALSE, !.finishedPacketSize = FALSE,
             !.startedDataBlockNum = FALSE, !.finishedDataBlockNum = FALSE,
             !.removedOpcode = FALSE, !.readSecond = FALSE]

cleanSpecificFields(ed) ==
  [ed EXCEPT !.dataToDecode = <<>>, !.opcodeBytes = <<>>,
             !.blockNumBytes = <<>>, !.packetSizeByte = <<>>,
             !.blockNumDataBytes = <<>>,
             !.startedInitializingOpCode = FALSE, !.isOpCodeInitialized = FALSE,
             !.startedACKBlockNum = FALSE, !.startedPacketSize = FALSE,
             !.finishedPacketSize = FALSE, !.startedDataBlockNum = FALSE,
             !.finishedDataBlockNum = FALSE, !.removedOpcode = FALSE,
             !.readSecond = FALSE]

\* Mutant: a packet's data is kept for the next one.
cleanAllButData(ed) == [cleanSpecificFields(ed) EXCEPT !.opcode = 0]

cleanFields(ed) == [cleanSpecificFields(ed) EXCEPT !.opcode = 0, !.data = <<>>]

\* New vectors in place of the old ones; the flags stay as they are.
CheapManualInitialization(ed) ==
  [ed EXCEPT !.dataToDecode = <<>>, !.opcodeBytes = <<>>,
             !.blockNumDataBytes = <<>>, !.packetSizeByte = <<>>,
             !.blockNumBytes = <<>>]

-----------------------------------------------------------------------------
(* encode.                                                                 *)

encodeRRQ(message, opcodeBytes) == opcodeBytes \o message.fileName \o <<0>>
encodeWRQ(message, opcodeBytes) == opcodeBytes \o message.fileName \o <<0>>
encodeData(message, opcodeBytes) ==
  opcodeBytes \o shortToBytes(message.packetSize) \o shortToBytes(message.blockNum)
    \o message.data
encodeAck(message, opcodeBytes) == opcodeBytes \o shortToBytes(message.blockNum)
encodeLogRQ(message, opcodeBytes) == opcodeBytes \o message.userName \o <<0>>
\* Mutant: the name is not ended.
encodeUnterminated(message, opcodeBytes) == opcodeBytes \o message.fileName

encodeDelRQ(message, opcodeBytes) == opcodeBytes \o message.fileName \o <<0>>
encodeBCast(message, opcodeBytes) ==
  opcodeBytes \o <<message.delOrAdd>> \o message.fileName \o <<0>>

\* encodeError stores through a pointer it never sets: it is called for no
\* packet of this module (see README).
encode(message) ==
  LET opcode == getOpcode(message)
      opcodeBytes == shortToBytes(opcode)
  IN CASE opcode = 1 -> encodeRRQ(message, opcodeBytes)
       [] opcode = 2 -> encodeWRQ(message, opcodeBytes)
       [] opcode = 3 -> encodeData(message, opcodeBytes)
       [] opcode = 4 -> encodeAck(message, opcodeBytes)
       [] opcode = 7 -> encodeLogRQ(message, opcodeBytes)
       [] opcode = 8 -> encodeDelRQ(message, opcodeBytes)
       [] opcode = 9 -> encodeBCast(message, opcodeBytes)
       [] opcode \in {6, 10} -> opcodeBytes

\* What encode does to the object it is called on.
encoding(ed, message) ==
  [CheapManualInitialization(ed) EXCEPT
     !.opcodeBytes = shortToBytes(getOpcode(message))]

-----------------------------------------------------------------------------
(* decodeNextByte.  A call gives the object after it and what it returns.  *)

Returns(ed, packet) == [ed |-> ed, packet |-> packet]

\* popTwoFirstBytes and returnTwoFirstBytes read two bytes of a vector.
\* Mutant: one byte is popped.
popFirstByte(bytes) == SubSeq(bytes, 2, Len(bytes))

popTwoFirstBytes(bytes) == SubSeq(bytes, 3, Len(bytes))

initializeOpCode(ed, nextByte) ==
  LET bytes == Append(ed.opcodeBytes, nextByte)
  IN IF ed.startedInitializingOpCode
     THEN [ed EXCEPT !.opcodeBytes = bytes, !.opcode = bytesToShort(bytes),
                     !.isOpCodeInitialized = TRUE]
     ELSE [ed EXCEPT !.opcodeBytes = bytes, !.startedInitializingOpCode = TRUE]

\* The packet a '\0' completes: the first field of an ERROR and of a BCAST may
\* hold one, which is told by the bytes before it.
handleCasesWithZeroAtTheEnd(ed, nextByte) ==
  LET bytes == ed.dataToDecode
  IN CASE nextByte = 0 /\ ed.opcode = 9 /\ Len(bytes) > 1 ->
            BCastPacket(Head(bytes), Tail(bytes))
       [] nextByte = 0 /\ ed.opcode = 8 -> DELRQPacket(bytes)
       [] nextByte = 0 /\ ed.opcode = 7 -> LOGRQPacket(bytes)
       [] nextByte = 0 /\ ed.opcode = 5 /\ Len(bytes) > 1 ->
            ErrorPacket(bytesToShort(bytes), popTwoFirstBytes(bytes))
       [] nextByte = 0 /\ ed.opcode = 2 -> WRQPacket(bytes)
       [] nextByte = 0 /\ ed.opcode = 1 -> RRQPacket(bytes)
       [] OTHER -> nullptr

\* Mutant: the first byte is taken for the block number.
readAckByte(ed, nextByte) == Returns(cleanSpecificFields(ed), AckPacket(nextByte))

readAckPacket(ed, nextByte) ==
  LET bytes == Append(ed.blockNumBytes, nextByte)
  IN IF ~ed.startedACKBlockNum
     THEN Returns([ed EXCEPT !.blockNumBytes = bytes, !.startedACKBlockNum = TRUE],
                  nullptr)
     ELSE Returns(cleanSpecificFields(ed), AckPacket(bytesToShort(bytes)))

\* The branch for 512 bytes does what the one for the other sizes does; a
\* negative size never completes.
readDataPacket(ed, nextByte) ==
  IF ~ed.startedPacketSize
  THEN Returns([ed EXCEPT !.packetSizeByte = Append(@, nextByte),
                          !.startedPacketSize = TRUE], nullptr)
  ELSE IF ~ed.finishedPacketSize
  THEN LET bytes == Append(ed.packetSizeByte, nextByte)
       IN Returns([ed EXCEPT !.packetSizeByte = bytes, !.finishedPacketSize = TRUE,
                             !.packetSize = bytesToShort(bytes)], nullptr)
  ELSE IF ~ed.startedDataBlockNum
  THEN Returns([ed EXCEPT !.blockNumDataBytes = Append(@, nextByte),
                          !.startedDataBlockNum = TRUE], nullptr)
  ELSE IF ~ed.finishedDataBlockNum
  THEN LET bytes == Append(ed.blockNumDataBytes, nextByte)
           k == [ed EXCEPT !.blockNumDataBytes = bytes, !.finishedDataBlockNum = TRUE,
                           !.blockNum = bytesToShort(bytes), !.leftToRead = ed.packetSize]
       IN IF ed.packetSize = 0
          THEN Returns(cleanFields(k), DataPacket(0, k.blockNum, ed.data))
          ELSE Returns(k, nullptr)
  ELSE IF ed.leftToRead = 1
  THEN Returns(cleanFields(ed),
               DataPacket(ed.packetSize, ed.blockNum, Append(ed.data, nextByte)))
  ELSE IF ed.leftToRead > 1
  THEN Returns([ed EXCEPT !.data = Append(@, nextByte), !.leftToRead = @ - 1], nullptr)
  ELSE Returns(ed, nullptr)

\* Mutant: the opcode is never seen to be complete.
pushByteOnly(ed, nextByte) == [ed EXCEPT !.dataToDecode = Append(@, nextByte)]

pushByte(ed, nextByte) ==
  [ed EXCEPT !.dataToDecode = Append(@, nextByte), !.readSecond = Len(ed.opcodeBytes) = 2]

ZeroTerminated == {1, 2, 5, 7, 8, 9}

\* ed with its opcode, ready for nextByte.
opened(ed, nextByte) ==
  LET k == IF ed.isOpCodeInitialized THEN ed ELSE initializeOpCode(ed, nextByte)
  IN IF ~k.removedOpcode /\ k.isOpCodeInitialized /\ k.readSecond
     THEN [k EXCEPT !.removedOpcode = TRUE, !.dataToDecode = popTwoFirstBytes(@)]
     ELSE k

decodeNextByte(ed, nextByte) ==
  LET k == opened(ed, nextByte)
  IN IF ~ed.isOpCodeInitialized /\ k.isOpCodeInitialized /\ k.opcode \in {6, 10}
     THEN Returns(cleanFields(k), IF k.opcode = 6 THEN DIRQPacket ELSE DiscPacket)
     ELSE IF k.readSecond /\ k.opcode = 3 THEN readDataPacket(k, nextByte)
     ELSE IF k.readSecond /\ k.opcode = 4 THEN readAckPacket(k, nextByte)
     ELSE IF k.readSecond /\ k.opcode \in ZeroTerminated
             /\ handleCasesWithZeroAtTheEnd(k, nextByte) # nullptr
     THEN Returns(cleanFields(k), handleCasesWithZeroAtTheEnd(k, nextByte))
     ELSE Returns(pushByte(k, nextByte), nullptr)

\* The next call reads past the end of a vector: at() throws, erase is undefined.
OutOfRange(ed) ==
  IF ~ed.isOpCodeInitialized
  THEN ed.startedInitializingOpCode /\ ed.opcodeBytes = <<>>
  ELSE ed.readSecond
       /\ \/ ~ed.removedOpcode /\ Len(ed.dataToDecode) < 2
          \/ ed.opcode = 3 /\ \/ /\ ed.startedPacketSize
                                 /\ ~ed.finishedPacketSize
                                 /\ ed.packetSizeByte = <<>>
                              \/ /\ ed.startedDataBlockNum
                                 /\ ~ed.finishedDataBlockNum
                                 /\ ed.blockNumDataBytes = <<>>
          \/ ed.opcode = 4 /\ ed.startedACKBlockNum /\ ed.blockNumBytes = <<>>

-----------------------------------------------------------------------------
(* Where the object stands after the first k bytes of a packet, one group  *)
(* of fields after the other; bytes are all the bytes of the packet.       *)

Part(bytes, m, n) == SubSeq(bytes, m, n)

OpcodeRead(ed, packet, bytes, k) ==
  /\ ed.startedInitializingOpCode = (k > 0)
  /\ ed.isOpCodeInitialized = (k > 1)
  /\ ed.readSecond = (k > 1)
  /\ ed.removedOpcode = (k > 2)
  /\ ed.opcodeBytes = Part(bytes, 1, IF k > 2 THEN 2 ELSE k)
  /\ k > 1 => ed.opcode = packet.opcode

FieldsRead(ed, packet, bytes, k) ==
  ed.dataToDecode = IF k <= 2 THEN Part(bytes, 1, k)
                    ELSE IF packet.opcode \in ZeroTerminated THEN Part(bytes, 3, k)
                    ELSE <<>>

AckRead(ed, packet, bytes, k) ==
  LET reading == packet.opcode = 4 /\ k > 2
  IN /\ ed.startedACKBlockNum = reading
     /\ ed.blockNumBytes = IF reading THEN Part(bytes, 3, k) ELSE <<>>

DataRead(ed, packet, bytes, k) ==
  LET reading(n) == packet.opcode = 3 /\ k > n
  IN /\ ed.startedPacketSize = reading(2)
     /\ ed.finishedPacketSize = reading(3)
     /\ ed.startedDataBlockNum = reading(4)
     /\ ed.finishedDataBlockNum = reading(5)
     /\ ed.packetSizeByte = IF reading(2) THEN Part(bytes, 3, IF k > 4 THEN 4 ELSE k)
                            ELSE <<>>
     /\ ed.blockNumDataBytes = IF reading(4) THEN Part(bytes, 5, IF k > 6 THEN 6 ELSE k)
                               ELSE <<>>
     /\ reading(3) => ed.packetSize = packet.packetSize
     /\ reading(5) => /\ ed.blockNum = packet.blockNum
                      /\ ed.leftToRead = packet.packetSize - (k - 6)
     /\ ed.data = IF reading(5) THEN Part(packet.data, 1, k - 6) ELSE <<>>

Decoding(ed, packet, bytes, k) ==
  /\ OpcodeRead(ed, packet, bytes, k)
  /\ FieldsRead(ed, packet, bytes, k)
  /\ AckRead(ed, packet, bytes, k)
  /\ DataRead(ed, packet, bytes, k)
=============================================================================
