---------------------------- MODULE ServerPacket ----------------------------
(***************************************************************************)
(* The packets of the client: one class for each opcode, all derived from  *)
(* ServerPacket.  A class is a set of records, its constructor an operator *)
(* and a getter the access to a field.  A char is a number of Byte, a      *)
(* string a sequence of chars without the '\0' that ends it on the wire.   *)
(***************************************************************************)
EXTENDS Integers, Sequences

Byte == 0 .. 255
Text == Seq(1 .. 255)
Short == {n \in Int : -32768 <= n /\ n <= 32767}

\* nullptr: no packet has the opcode 0.
nullptr == [opcode |-> 0]

getOpcode(packet) == packet.opcode

RRQPacket(fileName) == [opcode |-> 1, fileName |-> fileName]
WRQPacket(fileName) == [opcode |-> 2, fileName |-> fileName]
DataPacket(packetSize, blockNum, data) ==
  [opcode |-> 3, packetSize |-> packetSize, blockNum |-> blockNum, data |-> data]
AckPacket(blockNum) == [opcode |-> 4, blockNum |-> blockNum]
ErrorPacket(ErrCode, ErrMsg) == [opcode |-> 5, ErrCode |-> ErrCode, ErrMsg |-> ErrMsg]
DIRQPacket == [opcode |-> 6]
LOGRQPacket(userName) == [opcode |-> 7, userName |-> userName]
DELRQPacket(fileName) == [opcode |-> 8, fileName |-> fileName]
BCastPacket(delOrAdd, fileName) ==
  [opcode |-> 9, delOrAdd |-> delOrAdd, fileName |-> fileName]
DiscPacket == [opcode |-> 10]

RRQPackets == [opcode : {1}, fileName : Text]
WRQPackets == [opcode : {2}, fileName : Text]
DataPackets == [opcode : {3}, packetSize : Short, blockNum : Short, data : Seq(Byte)]
AckPackets == [opcode : {4}, blockNum : Short]
ErrorPackets == [opcode : {5}, ErrCode : Short, ErrMsg : Text]
DIRQPackets == [opcode : {6}]
LOGRQPackets == [opcode : {7}, userName : Text]
DELRQPackets == [opcode : {8}, fileName : Text]
BCastPackets == [opcode : {9}, delOrAdd : Byte, fileName : Text]
DiscPackets == [opcode : {10}]

ServerPackets ==
  RRQPackets \cup WRQPackets \cup DataPackets \cup AckPackets \cup ErrorPackets
    \cup DIRQPackets \cup LOGRQPackets \cup DELRQPackets \cup BCastPackets
    \cup DiscPackets

-----------------------------------------------------------------------------
(* A short is sent with its high byte first.                               *)

shortToBytes(num) == <<(num \div 256) % 256, num % 256>>

\* Mutant: the sign is lost.
bytesToUnsigned(bytes) == 256 * bytes[1] + bytes[2]

bytesToShort(bytes) ==
  LET n == 256 * bytes[1] + bytes[2] IN IF n > 32767 THEN n - 65536 ELSE n
=============================================================================
