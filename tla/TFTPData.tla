------------------------------ MODULE TFTPData ------------------------------
(***************************************************************************)
(* The parts of the TFTP packets and of the block arithmetic that the      *)
(* server and the client share.  A packet is a record whose op names its   *)
(* class; ServerPacket has its fields, and EncoderDecoder its bytes.       *)
(***************************************************************************)
EXTENDS Integers, Sequences, FiniteSets

CONSTANTS Users,      \* nicknames a LOGRQ may carry
          FileNames,  \* file names, none of them empty
          EmptyName,  \* the file name "" of an RRQ, WRQ or DELRQ
          Bytes,      \* values a byte of a file is told apart by
          Zero,       \* the byte a Java array is filled with
          BlockSize,  \* 512 in the code
          ShortMod,   \* number of values of a block number: 2^16 in the code
          NONE        \* Java's null

ASSUME BlockAssumption == /\ BlockSize \in Nat \ {0}
                          /\ ShortMod \in Nat \ {0, 1}
ASSUME NameAssumption == /\ EmptyName \notin FileNames
                         /\ Zero \in Bytes
                         /\ NONE \notin FileNames \cup {EmptyName}
                         /\ NONE \notin Seq(Bytes)

Names == FileNames \cup {EmptyName}
BlockNum == 0 .. ShortMod - 1
MaybeData == Seq(Bytes) \cup {NONE}

-----------------------------------------------------------------------------
(* Packets.  A DATA packet that answers a DIRQ carries names, not bytes of *)
(* a file: it is the class LIST here.                                      *)

AckPacket(n) == [op |-> "ACK", block |-> n]
ErrorPacket(code) == [op |-> "ERROR", code |-> code]
DataPacket(n, bytes) == [op |-> "DATA", block |-> n, data |-> bytes]
ListPacket(names) == [op |-> "LIST", names |-> names]
BCastPacket(added, f) == [op |-> "BCAST", added |-> added, file |-> f]

Packet == [op : {"ACK"}, block : BlockNum]
     \cup [op : {"ERROR"}, code : 0 .. 7]
     \cup [op : {"DATA"}, block : BlockNum, data : Seq(Bytes)]
     \cup [op : {"LIST"}, names : SUBSET FileNames]
     \cup [op : {"BCAST"}, added : BOOLEAN, file : FileNames]

Request == [op : {"LOGRQ"}, user : Users]
      \cup [op : {"RRQ", "WRQ", "DELRQ"}, file : Names]
      \cup [op : {"DATA"}, block : BlockNum, data : Seq(Bytes)]
      \cup [op : {"ACK"}, block : BlockNum]
      \cup [op : {"ERROR", "DIRQ", "BCAST", "DISC"}]

-----------------------------------------------------------------------------
(* Sending a buffer block by block.  A call sends the first full block of  *)
(* what is left and, when less than a block remains after it, the closing  *)
(* short block too, without waiting for another ACK.                       *)

Prefix(buf) == SubSeq(buf, 1, BlockSize)
Suffix(buf) == SubSeq(buf, BlockSize + 1, Len(buf))
\* Mutant: a block number that does not wrap.
NextInt(n) == n + 1

NextBlock(n) == (n + 1) % ShortMod

\* Mutant: the remainder is sent at once even when it is a full block.
BlocksOfEager(buf, n) ==
  IF Len(buf) < BlockSize THEN <<DataPacket(n, buf)>>
  ELSE IF Len(buf) <= 2 * BlockSize
       THEN <<DataPacket(n, Prefix(buf)), DataPacket(NextBlock(n), Suffix(buf))>>
       ELSE <<DataPacket(n, Prefix(buf))>>

\* Data packets one call of handleReadingACK sends for buffer buf.
BlocksOf(buf, n) ==
  IF Len(buf) < BlockSize THEN <<DataPacket(n, buf)>>
  ELSE IF Len(buf) < 2 * BlockSize
       THEN <<DataPacket(n, Prefix(buf)), DataPacket(NextBlock(n), Suffix(buf))>>
       ELSE <<DataPacket(n, Prefix(buf))>>

\* The buffer and the block number it leaves for the next ACK.
BufferAfter(buf) == IF Len(buf) < 2 * BlockSize THEN NONE ELSE Suffix(buf)
BlockAfter(buf, n) == IF Len(buf) < 2 * BlockSize THEN 1 ELSE NextBlock(n)

\* new byte[n] filled with the bytes of s.
Pad(s, n) == [i \in 1 .. n |-> IF i <= Len(s) THEN s[i] ELSE Zero]

\* write(s) at offset 0 of a file that holds old: what is longer stays.
Overlay(s, old) == s \o SubSeq(old, Len(s) + 1, Len(old))
=============================================================================
