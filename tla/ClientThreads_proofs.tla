------------------------ MODULE ClientThreads_proofs ------------------------
(***************************************************************************)
(* The threads of the clients and their bytes implement TFTPSystem, for    *)
(* any number of clients, any commands and any contents of the             *)
(* directories: requests arrive as they were typed, and whatever the       *)
(* keyboard thread does to the decoder, process acts on the answers the    *)
(* server has sent, in their order, or no longer acts.                     *)
(***************************************************************************)
EXTENDS ClientThreads, FileCopy_proofs

K == INSTANCE Codec_proofs

-----------------------------------------------------------------------------
(* The codecs of ClientThreads are the ones Codec_proofs is about.         *)

LEMMA SameTypes ==
  /\ E!Byte = K!Byte /\ E!Text = K!Text /\ E!Short = K!Short
  /\ E!Fields = K!Fields /\ E!nullptr = K!nullptr
  /\ E!NewEncoderDecoder = K!NewEncoderDecoder
BY DEF E!Byte, K!Byte, E!Text, K!Text, E!Short, K!Short, E!Fields, K!Fields,
       E!nullptr, K!nullptr, E!NewEncoderDecoder, K!NewEncoderDecoder

LEMMA SameClasses ==
  /\ \A n : E!AckPacket(n) = K!AckPacket(n)
  /\ \A n, s : E!ErrorPacket(n, s) = K!ErrorPacket(n, s)
  /\ \A n, m, s : E!DataPacket(n, m, s) = K!DataPacket(n, m, s)
  /\ \A n, s : E!BCastPacket(n, s) = K!BCastPacket(n, s)
  /\ \A s : E!LOGRQPacket(s) = K!LOGRQPacket(s) /\ E!DELRQPacket(s) = K!DELRQPacket(s)
  /\ \A s : E!RRQPacket(s) = K!RRQPacket(s) /\ E!WRQPacket(s) = K!WRQPacket(s)
  /\ E!DIRQPacket = K!DIRQPacket /\ E!DiscPacket = K!DiscPacket
BY DEF E!AckPacket, K!AckPacket, E!ErrorPacket, K!ErrorPacket,
       E!DataPacket, K!DataPacket, E!BCastPacket, K!BCastPacket,
       E!LOGRQPacket, K!LOGRQPacket, E!DELRQPacket, K!DELRQPacket,
       E!RRQPacket, K!RRQPacket, E!WRQPacket, K!WRQPacket,
       E!DIRQPacket, K!DIRQPacket, E!DiscPacket, K!DiscPacket

LEMMA SameHelpers ==
  /\ \A b : E!bytesToShort(b) = K!bytesToShort(b)
  /\ \A n : E!shortToBytes(n) = K!shortToBytes(n)
  /\ \A n : E!shortToBytes(n) = K!Server!shortToBytes(n)
  /\ \A p : E!getOpcode(p) = K!getOpcode(p)
  /\ \A b : E!popTwoFirstBytes(b) = K!popTwoFirstBytes(b)
  /\ \A e : E!cleanSpecificFields(e) = K!cleanSpecificFields(e)
  /\ \A e, x : E!pushByte(e, x) = K!pushByte(e, x)
  /\ \A e, p : E!Returns(e, p) = K!Returns(e, p)
BY DEF E!bytesToShort, K!bytesToShort, E!shortToBytes, K!shortToBytes,
       K!Server!shortToBytes, E!getOpcode, K!getOpcode,
       E!popTwoFirstBytes, K!popTwoFirstBytes,
       E!cleanSpecificFields, K!cleanSpecificFields, E!pushByte, K!pushByte,
       E!Returns, K!Returns

LEMMA SameClean == \A e : E!cleanFields(e) = K!cleanFields(e)
BY SameHelpers DEF E!cleanFields, K!cleanFields

LEMMA SameDecoding ==
  \A e, p, b, k : E!Decoding(e, p, b, k) <=> K!Decoding(e, p, b, k)
BY DEF E!Decoding, K!Decoding, E!OpcodeRead, K!OpcodeRead, E!FieldsRead, K!FieldsRead,
       E!AckRead, K!AckRead, E!DataRead, K!DataRead, E!Part, K!Part,
       E!ZeroTerminated, K!ZeroTerminated

LEMMA SameRange == \A e : E!OutOfRange(e) <=> K!OutOfRange(e)
BY DEF E!OutOfRange, K!OutOfRange

LEMMA SameOpened == \A e, x : E!opened(e, x) = K!opened(e, x)
BY DEF E!opened, K!opened, E!initializeOpCode, K!initializeOpCode,
       E!bytesToShort, K!bytesToShort, E!popTwoFirstBytes, K!popTwoFirstBytes

LEMMA SameZero ==
  \A e, x : E!handleCasesWithZeroAtTheEnd(e, x) = K!handleCasesWithZeroAtTheEnd(e, x)
BY DEF E!handleCasesWithZeroAtTheEnd, K!handleCasesWithZeroAtTheEnd,
       E!BCastPacket, K!BCastPacket, E!DELRQPacket, K!DELRQPacket,
       E!LOGRQPacket, K!LOGRQPacket, E!ErrorPacket, K!ErrorPacket,
       E!WRQPacket, K!WRQPacket, E!RRQPacket, K!RRQPacket, E!nullptr, K!nullptr,
       E!bytesToShort, K!bytesToShort, E!popTwoFirstBytes, K!popTwoFirstBytes

LEMMA SameAck == \A e, x : E!readAckPacket(e, x) = K!readAckPacket(e, x)
BY SameHelpers, SameClasses, SameTypes DEF E!readAckPacket, K!readAckPacket

LEMMA SameData == \A e, x : E!readDataPacket(e, x) = K!readDataPacket(e, x)
BY DEF E!readDataPacket, K!readDataPacket, E!Returns, K!Returns,
       E!bytesToShort, K!bytesToShort, E!cleanFields, K!cleanFields,
       E!cleanSpecificFields, K!cleanSpecificFields, E!DataPacket, K!DataPacket,
       E!nullptr, K!nullptr

LEMMA SameNext == \A e, x : E!decodeNextByte(e, x) = K!decodeNextByte(e, x)
BY SameOpened, SameZero, SameAck, SameData, SameHelpers, SameClasses, SameTypes,
   SameClean
   DEF E!decodeNextByte, K!decodeNextByte, E!ZeroTerminated, K!ZeroTerminated

LEMMA SameEncoding == \A e, p : E!encoding(e, p) = K!encoding(e, p)
BY DEF E!encoding, K!encoding, E!CheapManualInitialization, K!CheapManualInitialization,
       E!shortToBytes, K!shortToBytes, E!getOpcode, K!getOpcode

LEMMA SameEncode == \A p : E!encode(p) = K!encode(p)
BY DEF E!encode, K!encode, E!encodeRRQ, K!encodeRRQ, E!encodeWRQ, K!encodeWRQ,
       E!encodeData, K!encodeData, E!encodeAck, K!encodeAck, E!encodeLogRQ, K!encodeLogRQ,
       E!encodeDelRQ, K!encodeDelRQ, E!encodeBCast, K!encodeBCast,
       E!shortToBytes, K!shortToBytes, E!getOpcode, K!getOpcode

LEMMA ServerEncodes == \A p : S!encode(p) = K!Enc(p)
BY DEF S!encode, K!Enc, K!Server!encode, S!getOpcode, K!Server!getOpcode,
       S!shortToBytes, K!Server!shortToBytes

LEMMA SameDecodeAll == \A b : S!decodeAll(b) = K!Server!decodeAll(b)
BY DEF S!decodeAll, K!Server!decodeAll, S!decodeNextByte, K!Server!decodeNextByte,
       S!Returns, K!Server!Returns, S!cleanFields, K!Server!cleanFields,
       S!nullptr, K!Server!nullptr, S!initializeOpCode, K!Server!initializeOpCode,
       S!bytesToShort, K!Server!bytesToShort,
       S!DIRQPacket, K!Server!DIRQPacket, S!DiscPacket, K!Server!DiscPacket,
       S!handleCasesWithZeroAtTheEnd, K!Server!handleCasesWithZeroAtTheEnd,
       S!popString, K!Server!popString, S!decoded, K!Server!decoded,
       S!Byte, K!Server!Byte, S!Padded, K!Server!Padded, S!readDataPacket, K!Server!readDataPacket,
       S!readAckPacket, K!Server!readAckPacket, S!AckPacket, K!Server!AckPacket,
       S!DataPacket, K!Server!DataPacket, S!BCastPacket, K!Server!BCastPacket,
       S!DELRQPacket, K!Server!DELRQPacket, S!LOGRQPacket, K!Server!LOGRQPacket,
       S!ErrorPacket, K!Server!ErrorPacket, S!WRQPacket, K!Server!WRQPacket,
       S!RRQPacket, K!Server!RRQPacket

-----------------------------------------------------------------------------
(* The packets on the wire.                                                *)

\* A block number is read back from the short it is sent as.
LEMMA SignedBlock ==
  ASSUME NEW n \in BlockNum
  PROVE  Signed(n) \in E!Short /\ Signed(n) % 65536 = n
<1>1. n \in Int /\ 0 <= n /\ n <= 65535
  BY BlockAssumption, ThreadsAssumption DEF BlockNum
<1> DEFINE q == n \div 256
           hi == q % 256
           lo == n % 256
<1>2. lo \in 0 .. 255
  BY <1>1
<1>3. q \in Int /\ n = 256 * q + lo
  BY <1>1
<1>4. 0 <= q /\ q <= 255
  BY <1>1, <1>2, <1>3
<1>5. hi = q
  <2> HIDE DEF q
  <2>1. hi \in 0 .. 255 /\ \E r \in Int : q = 256 * r + hi
    BY <1>3
  <2> QED BY <2>1, <1>3, <1>4
<1> HIDE DEF q, hi, lo
<1>6. 256 * hi + lo = n
  BY <1>1, <1>2, <1>3, <1>4, <1>5
<1>7. E!shortToBytes(n) = <<hi, lo>>
  BY DEF E!shortToBytes, hi, lo, q
<1>8. Signed(n) = IF n > 32767 THEN n - 65536 ELSE n
  BY <1>6, <1>7 DEF Signed, E!bytesToShort
<1>9. Signed(n) \in E!Short
  BY <1>1, <1>8 DEF E!Short
<1>10. Signed(n) % 65536 = n
  <2>1. CASE n > 32767
    <3> DEFINE m == n - 65536
    <3>1. m \in Int /\ m < 0 /\ m >= -32768
      BY <1>1, <2>1
    <3>2. Signed(n) = m /\ n = m + 65536
      BY <1>1, <1>8, <2>1
    <3> HIDE DEF m
    <3> DEFINE d == m \div 65536
               r == m % 65536
    <3>3. r \in Int /\ 0 <= r /\ r < 65536
      BY <3>1
    <3>4. d \in Int /\ m = 65536 * d + r
      BY <3>1
    <3>5. Signed(n) % 65536 = r
      BY <3>2
    <3> HIDE DEF d, r
    <3>6. d = -1
      BY <3>1, <3>3, <3>4
    <3>7. r = m + 65536
      BY <3>1, <3>3, <3>4, <3>6
    <3> QED BY <3>2, <3>5, <3>7
  <2>2. CASE ~(n > 32767)
    BY <1>1, <1>8, <2>2
  <2> QED BY <2>1, <2>2
<1> QED BY <1>9, <1>10

\* The classes of packets from the server.
LEMMA WireCases ==
  ASSUME NEW h \in Packet
  PROVE  /\ h.op \in {"ACK", "ERROR", "DATA", "LIST", "BCAST"}
         /\ h.op = "ACK" => /\ h.block \in BlockNum /\ h = AckPacket(h.block)
                            /\ Wire(h) = K!AckPacket(Signed(h.block))
         /\ h.op = "ERROR" => /\ h.code \in 0 .. 7 /\ h = ErrorPacket(h.code)
                              /\ Wire(h) = K!ErrorPacket(h.code, ErrMsg)
         /\ h.op = "DATA" => /\ h.block \in BlockNum /\ h.data \in Seq(Bytes)
                             /\ h = DataPacket(h.block, h.data)
                             /\ Wire(h) = K!DataPacket(Len(h.data), Signed(h.block), h.data)
         /\ h.op = "LIST" => /\ h.names \in SUBSET FileNames
                             /\ Wire(h) = K!DataPacket(Len(NamesAsBytes[h.names]), 1,
                                                       NamesAsBytes[h.names])
         /\ h.op = "BCAST" => /\ h.added \in BOOLEAN /\ h.file \in FileNames
                              /\ h = BCastPacket(h.added, h.file)
                              /\ Wire(h) = K!BCastPacket(IF h.added THEN 1 ELSE 0, h.file)
<1>1. h.op \in {"ACK", "ERROR", "DATA", "LIST", "BCAST"}
  BY DEF Packet
<1>2. ASSUME h.op = "ACK"
      PROVE  /\ h.block \in BlockNum /\ h = AckPacket(h.block)
             /\ Wire(h) = K!AckPacket(Signed(h.block))
  BY <1>2, SameClasses DEF Packet, AckPacket, Wire
<1>3. ASSUME h.op = "ERROR"
      PROVE  /\ h.code \in 0 .. 7 /\ h = ErrorPacket(h.code)
             /\ Wire(h) = K!ErrorPacket(h.code, ErrMsg)
  BY <1>3, SameClasses DEF Packet, ErrorPacket, Wire
<1>4. ASSUME h.op = "DATA"
      PROVE  /\ h.block \in BlockNum /\ h.data \in Seq(Bytes)
             /\ h = DataPacket(h.block, h.data)
             /\ Wire(h) = K!DataPacket(Len(h.data), Signed(h.block), h.data)
  BY <1>4, SameClasses DEF Packet, DataPacket, Wire
<1>5. ASSUME h.op = "LIST"
      PROVE  /\ h.names \in SUBSET FileNames
             /\ Wire(h) = K!DataPacket(Len(NamesAsBytes[h.names]), 1, NamesAsBytes[h.names])
  BY <1>5, SameClasses DEF Packet, Wire
<1>6. ASSUME h.op = "BCAST"
      PROVE  /\ h.added \in BOOLEAN /\ h.file \in FileNames
             /\ h = BCastPacket(h.added, h.file)
             /\ Wire(h) = K!BCastPacket(IF h.added THEN 1 ELSE 0, h.file)
  BY <1>6, SameClasses DEF Packet, BCastPacket, Wire
<1> QED
  BY <1>1, <1>2, <1>3, <1>4, <1>5, <1>6

\* process acts on every packet but a broadcast.
LEMMA WireOpcode ==
  ASSUME NEW h \in Packet
  PROVE  /\ Wire(h).opcode \in {3, 4, 5, 9}
         /\ Wire(h).opcode = 9 <=> IsBroadcast(h)
         /\ IsAnswer(Wire(h)) <=> ~IsBroadcast(h)
         /\ Familiar(Wire(h))
         /\ Wire(h) # E!nullptr
<1>1. \/ h.op = "BCAST" /\ Wire(h).opcode = 9
      \/ h.op # "BCAST" /\ Wire(h).opcode \in {3, 4, 5}
  BY WireCases DEF K!AckPacket, K!ErrorPacket, K!DataPacket, K!BCastPacket
<1>2. E!nullptr.opcode = 0
  BY DEF E!nullptr
<1> QED
  BY <1>1, <1>2 DEF IsBroadcast, IsAnswer, Familiar, E!getOpcode

\* What the server sends to a client that reads it: a block is not longer than
\* BlockSize and a listing not as long as ListingSize.
Fits(h) ==
  /\ h \in Packet
  /\ h.op = "DATA" => Len(h.data) <= BlockSize
  /\ h.op = "LIST" => ListingBytes(h.names) < ListingSize

LEMMA NamesAreText ==
  ASSUME NEW s \in Users \cup FileNames
  PROVE  /\ s \in Seq(32 .. 255) \ {<<>>} /\ s \in E!Text
         /\ \A i \in 1 .. Len(s) : s[i] < 128
<1>1. s \in Seq(32 .. 127) \ {<<>>}
  BY ThreadsAssumption
<1>2. 32 .. 255 \subseteq 1 .. 255 /\ 32 .. 127 \subseteq 32 .. 255
  OBVIOUS
<1>3. Seq(32 .. 255) \subseteq Seq(1 .. 255) /\ Seq(32 .. 127) \subseteq Seq(32 .. 255)
  BY <1>2, SeqMonotonic
<1>4. \A i \in 1 .. Len(s) : s[i] \in 32 .. 127
  BY <1>1, ElementOfSeq
<1>5. \A x \in 32 .. 127 : x < 128
  OBVIOUS
<1>6. s \in Seq(32 .. 255) \ {<<>>} /\ s \in Seq(1 .. 255)
  <2> DEFINE P == Seq(32 .. 127)
             Q == Seq(32 .. 255)
             R == Seq(1 .. 255)
  <2>1. s \in P \ {<<>>} /\ P \subseteq Q /\ Q \subseteq R
    BY <1>1, <1>3
  <2> HIDE DEF P, Q, R
  <2>2. s \in Q \ {<<>>} /\ s \in R
    BY <2>1
  <2> QED BY <2>2 DEF Q, R
<1>7. \A i \in 1 .. Len(s) : s[i] < 128
  BY <1>4, <1>5, Zenon
<1> QED BY <1>6, <1>7, Zenon DEF E!Text

LEMMA ListingIs ==
  ASSUME NEW names \in SUBSET FileNames
  PROVE  /\ NamesAsBytes[names] \in Seq(E!Byte)
         /\ Len(NamesAsBytes[names]) \in Nat
         /\ Len(NamesAsBytes[names]) = ListingBytes(names)
BY ThreadsAssumption, LenProperties

LEMMA FileBytes == Seq(Bytes) \subseteq Seq(E!Byte)
BY ThreadsAssumption, SeqMonotonic

\* Such a packet is told from its bytes.
LEMMA WireFits ==
  ASSUME NEW h, Fits(h)
  PROVE  Wire(h) \in K!ServerPackets /\ K!WellFormed(Wire(h))
<1>0. h \in Packet
  BY DEF Fits
<1>1. CASE h.op = "ACK"
  <2>1. Wire(h) = K!AckPacket(Signed(h.block)) /\ Signed(h.block) \in K!Short
    BY <1>0, <1>1, WireCases, SignedBlock, SameTypes
  <2> QED BY <2>1 DEF K!AckPacket, K!ServerPackets, K!AckPackets, K!WellFormed
<1>2. CASE h.op = "ERROR"
  <2>1. Wire(h) = K!ErrorPacket(h.code, ErrMsg) /\ h.code \in 0 .. 7
    BY <1>0, <1>2, WireCases
  <2>2. h.code \in K!Short /\ ErrMsg \in K!Text
    BY <2>1, ThreadsAssumption, SameTypes DEF K!Short
  <2> QED BY <2>1, <2>2 DEF K!ErrorPacket, K!ServerPackets, K!ErrorPackets, K!WellFormed
<1>3. CASE h.op = "DATA"
  <2>1. /\ Wire(h) = K!DataPacket(Len(h.data), Signed(h.block), h.data)
        /\ Signed(h.block) \in K!Short /\ h.data \in Seq(Bytes)
    BY <1>0, <1>3, WireCases, SignedBlock, SameTypes
  <2>2. h.data \in Seq(K!Byte)
    BY <2>1, FileBytes, SameTypes
  <2>3. Len(h.data) \in Nat /\ Len(h.data) <= 512
    BY <1>3, <2>1, LenProperties, BlockAssumption, ThreadsAssumption DEF Fits
  <2>4. Len(h.data) \in K!Short
    BY <2>3 DEF K!Short
  <2> QED BY <2>1, <2>2, <2>4 DEF K!DataPacket, K!ServerPackets, K!DataPackets, K!WellFormed
<1>4. CASE h.op = "LIST"
  <2> DEFINE s == NamesAsBytes[h.names]
  <2>1. Wire(h) = K!DataPacket(Len(s), 1, s) /\ h.names \in SUBSET FileNames
    BY <1>0, <1>4, WireCases
  <2>2. s \in Seq(K!Byte) /\ Len(s) \in Nat /\ Len(s) = ListingBytes(h.names)
    BY <2>1, ListingIs, SameTypes
  <2>3. Len(s) < ListingSize
    BY <1>4, <2>2 DEF Fits
  <2> HIDE DEF s
  <2>4. Len(s) <= 512
    BY <2>2, <2>3, ServerAssumption, ThreadsAssumption
  <2>5. Len(s) \in K!Short /\ 1 \in K!Short
    BY <2>2, <2>4 DEF K!Short
  <2> QED BY <2>1, <2>2, <2>5 DEF K!DataPacket, K!ServerPackets, K!DataPackets, K!WellFormed
<1>5. CASE h.op = "BCAST"
  <2> DEFINE x == IF h.added THEN 1 ELSE 0
  <2>1. Wire(h) = K!BCastPacket(x, h.file) /\ h.file \in FileNames
    BY <1>0, <1>5, WireCases
  <2>2. h.file \in K!Text /\ h.file # <<>> /\ x \in K!Byte
    BY <2>1, NamesAreText, SameTypes DEF K!Byte
  <2> HIDE DEF x
  <2> QED BY <2>1, <2>2 DEF K!BCastPacket, K!ServerPackets, K!BCastPackets, K!WellFormed
<1> QED
  BY <1>0, <1>1, <1>2, <1>3, <1>4, <1>5, WireCases

\* A broadcast is one whose bytes are not an opcode where they should not be.
LEMMA WireAnnounces ==
  ASSUME NEW h \in Packet, IsBroadcast(h)
  PROVE  K!Announces(Wire(h))
<1>1. /\ Wire(h) = K!BCastPacket(IF h.added THEN 1 ELSE 0, h.file)
      /\ h.file \in FileNames
  BY WireCases DEF IsBroadcast
<1>2. Fits(h)
  BY DEF Fits, IsBroadcast
<1>3. h.file \in Seq(32 .. 255) \ {<<>>}
  BY <1>1, NamesAreText
<1>4. Wire(h) \in K!ServerPackets
  BY <1>2, WireFits
<1> QED BY <1>1, <1>3, <1>4 DEF K!Announces, K!BCastPacket

\* The bytes of any packet, also of one too long to be decoded.
LEMMA WireBytes ==
  ASSUME NEW h \in Packet
  PROVE  LET b == S!encode(Wire(h))
         IN b \in Seq(K!Byte) /\ Len(b) \in Nat /\ Len(b) >= 2 /\ b[1] = 0
<1>0. S!encode(Wire(h)) = K!Enc(Wire(h))
  BY ServerEncodes
<1>1. CASE h.op \in {"ACK", "ERROR", "BCAST"}
  <2>1. Wire(h) \in K!ServerPackets
    BY <1>1, WireFits DEF Fits
  <2>2. K!Enc(Wire(h)) \in Seq(K!Byte) /\ K!Enc(Wire(h))[1] = 0
    BY <2>1, K!EncIsBody
  <2>3. Wire(h).opcode \in 1 .. 10
    BY <2>1, K!PacketKinds
  <2>4. Len(K!Enc(Wire(h))) \in Nat /\ Len(K!Enc(Wire(h))) >= 2
    BY <2>1, <2>3, K!LongEnough
  <2> QED BY <1>0, <2>2, <2>4
<1>2. CASE h.op = "DATA"
  <2>1. /\ Wire(h) = K!DataPacket(Len(h.data), Signed(h.block), h.data)
        /\ Signed(h.block) \in K!Short /\ h.data \in Seq(Bytes)
    BY <1>2, WireCases, SignedBlock, SameTypes
  <2>2. h.data \in Seq(K!Byte) /\ Len(h.data) \in Nat
    BY <2>1, FileBytes, SameTypes, LenProperties
  <2> QED BY <1>0, <2>1, <2>2, K!AnyData
<1>3. CASE h.op = "LIST"
  <2> DEFINE s == NamesAsBytes[h.names]
  <2>1. Wire(h) = K!DataPacket(Len(s), 1, s) /\ h.names \in SUBSET FileNames
    BY <1>3, WireCases
  <2>2. s \in Seq(K!Byte) /\ Len(s) \in Nat
    BY <2>1, ListingIs, SameTypes
  <2>3. 1 \in K!Short
    BY DEF K!Short
  <2> HIDE DEF s
  <2> QED BY <1>0, <2>1, <2>2, <2>3, K!AnyData
<1> QED
  BY <1>1, <1>2, <1>3, WireCases

-----------------------------------------------------------------------------
(* Requests.                                                               *)

\* Whatever the user types, the server's decoder has it with the last byte.
LEMMA RequestArrives ==
  ASSUME NEW c \in Conns, NEW cmd \in Commands[c]
  PROVE  /\ K!Typeable(Typed(cmd))
         /\ Arriving(cmd) = <<cmd>>
         /\ cmd.op \notin {"ACK", "DATA"}
<1>1. cmd \in Request /\ cmd.op \in C!Ops
  BY CommandFields
<1>2. cmd.op \in {"LOGRQ", "RRQ", "WRQ", "DELRQ", "DIRQ", "DISC"}
  BY <1>1 DEF C!Ops
<1>3. cmd.op = "LOGRQ" => cmd.user \in K!Text
  <2>1. cmd.op = "LOGRQ" => cmd.user \in Users
    BY <1>1 DEF Request
  <2> QED BY <2>1, NamesAreText, SameTypes
<1>4. cmd.op \in {"RRQ", "WRQ", "DELRQ"} => cmd.file \in K!Text
  <2>1. cmd.op \in {"RRQ", "WRQ", "DELRQ"} => cmd.file \in Names
    BY <1>1 DEF Request
  <2>2. <<>> \in K!Text
    BY DEF K!Text
  <2> QED BY <2>1, <2>2, NamesAreText, SameTypes, ThreadsAssumption DEF Names
<1>5. K!Typeable(Typed(cmd))
  <2>1. CASE cmd.op = "LOGRQ"
    <3>1. Typed(cmd) = K!LOGRQPacket(cmd.user)
      BY <2>1, SameClasses DEF Typed
    <3> QED BY <2>1, <3>1, <1>3
            DEF K!Typeable, K!ServerPackets, K!LOGRQPackets, K!LOGRQPacket
  <2>2. CASE cmd.op = "RRQ"
    <3>1. Typed(cmd) = K!RRQPacket(cmd.file)
      BY <2>2, SameClasses DEF Typed
    <3> QED BY <2>2, <3>1, <1>4
            DEF K!Typeable, K!ServerPackets, K!RRQPackets, K!RRQPacket
  <2>3. CASE cmd.op = "WRQ"
    <3>1. Typed(cmd) = K!WRQPacket(cmd.file)
      BY <2>3, SameClasses DEF Typed
    <3> QED BY <2>3, <3>1, <1>4
            DEF K!Typeable, K!ServerPackets, K!WRQPackets, K!WRQPacket
  <2>4. CASE cmd.op = "DELRQ"
    <3>1. Typed(cmd) = K!DELRQPacket(cmd.file)
      BY <2>4, SameClasses DEF Typed
    <3> QED BY <2>4, <3>1, <1>4
            DEF K!Typeable, K!ServerPackets, K!DELRQPackets, K!DELRQPacket
  <2>5. CASE cmd.op = "DIRQ"
    <3>1. Typed(cmd) = K!DIRQPacket
      BY <2>5, SameClasses DEF Typed
    <3> QED BY <3>1 DEF K!Typeable, K!ServerPackets, K!DIRQPackets, K!DIRQPacket
  <2>6. CASE cmd.op = "DISC"
    <3>1. Typed(cmd) = K!DiscPacket
      BY <2>6, SameClasses DEF Typed
    <3> QED BY <3>1 DEF K!Typeable, K!ServerPackets, K!DiscPackets, K!DiscPacket
  <2> QED BY <1>2, <2>1, <2>2, <2>3, <2>4, <2>5, <2>6
<1>6. K!Ascii(Typed(cmd))
  <2>1. cmd.op = "LOGRQ" => \A i \in 1 .. Len(cmd.user) : cmd.user[i] < 128
    <3>1. cmd.op = "LOGRQ" => cmd.user \in Users
      BY <1>1 DEF Request
    <3> QED BY <3>1, NamesAreText
  <2>2. cmd.op \in {"RRQ", "WRQ", "DELRQ"} =>
          \A i \in 1 .. Len(cmd.file) : cmd.file[i] < 128
    <3>1. cmd.op \in {"RRQ", "WRQ", "DELRQ"} => cmd.file \in FileNames \/ cmd.file = <<>>
      BY <1>1, ThreadsAssumption DEF Request, Names
    <3>2. \A i \in 1 .. Len(<<>>) : FALSE
      OBVIOUS
    <3> QED BY <3>1, <3>2, NamesAreText
  <2>3. CASE cmd.op = "LOGRQ"
    BY <2>1, <2>3, SameClasses DEF Typed, K!LOGRQPacket, K!Ascii
  <2>4. CASE cmd.op = "RRQ"
    BY <2>2, <2>4, SameClasses DEF Typed, K!RRQPacket, K!Ascii
  <2>5. CASE cmd.op = "WRQ"
    BY <2>2, <2>5, SameClasses DEF Typed, K!WRQPacket, K!Ascii
  <2>6. CASE cmd.op = "DELRQ"
    BY <2>2, <2>6, SameClasses DEF Typed, K!DELRQPacket, K!Ascii
  <2>7. CASE cmd.op = "DIRQ"
    BY <2>7, SameClasses DEF Typed, K!DIRQPacket, K!Ascii
  <2>8. CASE cmd.op = "DISC"
    BY <2>8, SameClasses DEF Typed, K!DiscPacket, K!Ascii
  <2> QED BY <1>2, <2>3, <2>4, <2>5, <2>6, <2>7, <2>8
<1>7. S!decodeAll(E!encode(Typed(cmd)))
        = {K!Server!Returns(K!Server!cleanFields, Typed(cmd))}
  <2>1. K!Server!decodeAll(K!encode(Typed(cmd)))
          = {K!Server!Returns(K!Server!cleanFields, Typed(cmd))}
    BY <1>5, <1>6, K!AsciiArrives
  <2> QED BY <2>1, SameEncode, SameDecodeAll
<1>8. \E r \in S!decodeAll(E!encode(Typed(cmd))) : r.packet = Typed(cmd)
  <2>1. K!Server!Returns(K!Server!cleanFields, Typed(cmd)).packet = Typed(cmd)
    BY DEF K!Server!Returns
  <2> QED BY <1>7, <2>1
<1>9. Arriving(cmd) = <<cmd>>
  BY <1>8, Zenon DEF Arriving
<1> QED BY <1>2, <1>5, <1>9

\* While the keyboard thread is in sendPacket the server has not got the
\* command, and nothing but broadcasts can be on the way to the client.
LEMMA QuietWhenTyping ==
  ASSUME C!TypeOK, Conversation, NEW c \in Conns, outgoing[c] \in Seq(Request),
         toServer[c] = AllSent[c], Typing(c), kpc[c] # "getline"
  PROVE  Requested(c) /\ Quiet(toClient[c]) /\ C!Waiting(c)
<1>1. PICK cmd \in Commands[c] : buffer[c] = <<cmd>>
  BY DEF Typing
<1>2. cmd \in Request /\ cmd.op \notin {"ACK", "DATA"}
  BY CommandFields, RequestArrives
<1>3. toServer[c] = Append(outgoing[c], cmd)
  <2>1. toServer[c] = outgoing[c] \o <<cmd>>
    BY <1>1 DEF AllSent
  <2> QED BY <2>1, <1>2, AppendIsConcat
<1>4. /\ toServer[c] \in Seq(Request) /\ toServer[c] # <<>>
      /\ Len(toServer[c]) \in Nat /\ Len(toServer[c]) > 0
      /\ toServer[c][Len(toServer[c])] = cmd
  BY <1>2, <1>3, AppendProperties, LenProperties
<1>5. ~Acks(toServer[c])
  BY <1>2, <1>4 DEF Acks
<1>6. Agree(c)
  BY DEF Conversation
<1>7. ~Free(c) /\ ~Replied(c)
  BY <1>4, <1>5 DEF Free, Replied
<1>8. ~Downloading(c)
  BY <1>4, <1>5 DEF Downloading, LastBlocks, MoreBlocks
<1>9. ~Uploading(c)
  <2>1. ~Sending(c)
    <3>1. ASSUME Sending(c) PROVE FALSE
      <4>1. toServer[c][1] = cmd
        BY <1>4, <3>1 DEF Sending
      <4> QED BY <4>1, <3>1, <1>2 DEF Sending, Sent, FullBlock, ShortBlock
    <3> QED BY <3>1
  <2> QED BY <2>1, <1>4 DEF Uploading, Saved, Awaiting, NothingSent, Arrived, Writing
<1>10. Requested(c)
  BY <1>6, <1>7, <1>8, <1>9 DEF Agree
<1>11. C!Waiting(c)
  BY <1>10, Asked DEF Requested, C!Waiting
<1> QED
  BY <1>10, <1>11 DEF Requested

-----------------------------------------------------------------------------
(* Answers.                                                                *)

\* The first packet on its way can be decoded, and the client waits for it.
LEMMA HeadFits ==
  ASSUME C!TypeOK, Conversation, NEW c \in Conns, toClient[c] # <<>>
  PROVE  LET h == Head(toClient[c])
         IN /\ Fits(h)
            /\ h.op = "DATA" => cl[c].lastOperation = "RRQ"
            /\ h.op = "LIST" => cl[c].lastOperation = "DIRQ"
<1> DEFINE s == toClient[c]
           h == Head(s)
           Good(p) == /\ Fits(p)
                      /\ p.op = "DATA" => cl[c].lastOperation = "RRQ"
                      /\ p.op = "LIST" => cl[c].lastOperation = "DIRQ"
<1>1. s \in Seq(Packet) /\ s # <<>> /\ h \in Packet
  BY ClientTypes, ReadOne
<1>2. IsBroadcast(h) => Good(h)
  BY <1>1 DEF Fits, IsBroadcast
<1>3. Quiet(s) => IsBroadcast(h)
  BY <1>1, ReadOne
<1>4. /\ \A p : Only(s, p) => h = p \/ IsBroadcast(h)
      /\ \A p, q : Both(s, p, q) => h = p \/ IsBroadcast(h)
  BY <1>1, ReadOne
<1>5. \A p \in Packets(s) : p \in Packet
  BY <1>1, ElementOfSeq DEF Packets
<1>6. Agree(c)
  BY DEF Conversation
<1>7. CASE Free(c) \/ Requested(c)
  BY <1>7, <1>2, <1>3 DEF Free, Requested
<1>8. CASE Replied(c)
  <2>1. PICK cmd \in Commands[c] :
          /\ Asks(c, cmd)
          /\ \E p \in Packets(s) : Reports(c, cmd, p)
    BY <1>8 DEF Replied
  <2>2. PICK p \in Packets(s) : Reports(c, cmd, p)
    BY <2>1
  <2>3. Only(s, p) /\ p \in Packet
    BY <2>2, <1>5 DEF Reports
  <2>4. cl[c].lastOperation = cmd.op
    BY <2>1 DEF Asks
  <2>5. Good(p)
    BY <2>2, <2>3, <2>4 DEF Reports, Fits
  <2> QED BY <1>2, <1>4, <2>3, <2>5
<1>9. CASE Downloading(c)
  <2>1. cl[c].lastOperation = "RRQ"
    BY <1>9 DEF Downloading, Asks
  <2>2. \A p \in Packet : FullBlock(p) \/ ShortBlock(p) => Good(p)
    <3>1. \A p \in Packet : p.op = "DATA" => Len(p.data) \in Nat
      BY PacketFields, LenProperties
    <3> QED BY <3>1, <2>1, BlockAssumption DEF FullBlock, ShortBlock, Fits
  <2>3. \/ Quiet(s)
        \/ \E p, q \in Packets(s) : FullBlock(p) /\ Both(s, p, q)
        \/ \E p \in Packets(s) : (FullBlock(p) \/ ShortBlock(p)) /\ Only(s, p)
    BY <1>9 DEF Downloading, LastBlocks, MoreBlocks
  <2> HIDE DEF Good, s, h
  <2>4. ASSUME Quiet(s) PROVE Good(h)
    BY <2>4, <1>2, <1>3
  <2>5. ASSUME NEW p \in Packets(s), FullBlock(p) \/ ShortBlock(p),
               Only(s, p) \/ \E q : Both(s, p, q)
        PROVE  Good(h)
    <3>1. h = p \/ IsBroadcast(h)
      BY <2>5, <1>4, Zenon
    <3>2. Good(p)
      BY <2>2, <2>5, <1>5
    <3> QED BY <3>1, <3>2, <1>2
  <2>6. Good(h)
    BY <2>3, <2>4, <2>5
  <2> QED BY <2>6 DEF Good, h, s
<1>10. CASE Uploading(c)
  <2>1. \/ Quiet(s)
        \/ \E p \in Packets(s) : p.op = "ACK" /\ Only(s, p)
    BY <1>10 DEF Uploading, Saved, Awaiting, NothingSent, Sending, Arrived, Writing
  <2>2. \A p \in Packet : p.op = "ACK" => Good(p)
    BY DEF Fits
  <2> HIDE DEF Good, s, h
  <2>3. ASSUME NEW p \in Packets(s), p.op = "ACK", Only(s, p) PROVE Good(h)
    <3>1. h = p \/ IsBroadcast(h)
      BY <2>3, <1>4, Zenon
    <3>2. Good(p)
      BY <2>2, <2>3, <1>5
    <3> QED BY <3>1, <3>2, <1>2
  <2>4. Good(h)
    BY <2>1, <2>3, <1>2, <1>3
  <2> QED BY <2>4 DEF Good, h, s
<1> QED
  BY <1>6, <1>7, <1>8, <1>9, <1>10 DEF Agree

-----------------------------------------------------------------------------
(* The invariant.                                                          *)

\* Where the threads of one client are.
InPlace(c) ==
  \/ InStep(c) /\ kpc[c] # "clean" /\ Intact(c)
  \/ InStep(c) /\ kpc[c] = "clean" /\ Overwritten(c)
  \/ Lost(c)

Placed(c) == Typing(c) /\ InStream(c) /\ InPlace(c)

\* ThreadsTypeOK without what TFTPSystem says of the clients.
ObjectsTypeOK ==
  /\ outgoing \in [Conns -> Seq(Request)]
  /\ incoming \in [Conns -> Seq(Packet)]
  /\ kpc \in [Conns -> {"getline", "encode", "clean", "send"}]
  /\ buffer \in [Conns -> Seq(Request)]
  /\ ed \in [Conns -> E!Fields]
  /\ pos \in [Conns -> Nat]
  /\ DOMAIN packet = Conns
  /\ \A c \in Conns : E!getOpcode(packet[c]) \in 0 .. 10
  /\ crashed \in [Conns -> BOOLEAN]

ThreadsInv ==
  /\ SystemInv
  /\ ObjectsTypeOK
  /\ toServer = AllSent
  /\ \A c \in Conns : Placed(c)

LEMMA ThreadsInvIs == ThreadsInv <=> SystemInv /\ ThreadsTypeOK /\ InStepOrLost
BY DEF ThreadsInv, SystemInv, ObjectsTypeOK, ThreadsTypeOK, InStepOrLost, Placed, InPlace

LEMMA ObjectTypes ==
  ASSUME ThreadsInv, NEW c \in Conns
  PROVE  /\ outgoing[c] \in Seq(Request) /\ incoming[c] \in Seq(Packet)
         /\ kpc[c] \in {"getline", "encode", "clean", "send"}
         /\ buffer[c] \in Seq(Request)
         /\ ed[c] \in E!Fields /\ pos[c] \in Nat
         /\ toClient[c] \in Seq(Packet) /\ toServer[c] \in Seq(Request)
         /\ toServer[c] = outgoing[c] \o buffer[c]
         /\ toServer = AllSent
         /\ TypeOK /\ C!TypeOK /\ Conversation
         /\ Typing(c) /\ InStream(c) /\ InPlace(c)
<1>1. ObjectsTypeOK /\ toServer = AllSent /\ C!TypeOK /\ Conversation /\ Placed(c)
  BY DEF ThreadsInv, SystemInv, ClientTypeOK
<1>2. TypeOK
  BY DEF ThreadsInv, SystemInv, Safety
<1>3. toServer[c] = outgoing[c] \o buffer[c]
  BY <1>1 DEF AllSent
<1> QED
  BY <1>1, <1>2, <1>3, ClientTypes DEF ObjectsTypeOK, Placed

\* In sendPacket.
LEMMA WhileTyping ==
  ASSUME ThreadsInv, NEW c \in Conns, kpc[c] # "getline"
  PROVE  /\ Requested(c) /\ Quiet(toClient[c]) /\ C!Waiting(c)
         /\ \E cmd \in Commands[c] : buffer[c] = <<cmd>>
<1>1. toServer[c] = AllSent[c] /\ Typing(c)
  BY ObjectTypes
<1> QED
  BY <1>1, ObjectTypes, QuietWhenTyping DEF Typing

\* The same of the state after a step.
SendersWait ==
  C!TypeOK /\ Conversation => \A c \in Conns :
    outgoing[c] \in Seq(Request) /\ toServer[c] = AllSent[c] /\ Typing(c)
      /\ kpc[c] # "getline" => Quiet(toClient[c])

LEMMA SendersWaitNow == SendersWait
BY QuietWhenTyping DEF SendersWait

LEMMA SendersWaitNext == SendersWait'
BY SendersWaitNow, PTL

\* Nothing of a client changes.
SameThreads(c) ==
  /\ kpc'[c] = kpc[c] /\ buffer'[c] = buffer[c] /\ ed'[c] = ed[c] /\ pos'[c] = pos[c]
  /\ packet'[c] = packet[c] /\ incoming'[c] = incoming[c]
  /\ toClient'[c] = toClient[c] /\ cl'[c] = cl[c]

LEMMA SameBytesLeft ==
  ASSUME NEW c \in Conns, incoming'[c] = incoming[c]
  PROVE  bytes(c)' = bytes(c)
BY DEF bytes

LEMMA SameOverwritten ==
  ASSUME NEW c \in Conns, incoming'[c] = incoming[c], ed'[c] = ed[c], pos'[c] = pos[c]
  PROVE  /\ Overwritten(c)' <=> Overwritten(c)
         /\ Astray(c)' <=> Astray(c)
         /\ InStream(c)' <=> InStream(c)
<1>1. bytes(c)' = bytes(c)
  BY SameBytesLeft
<1>2. \A s : LastRead(c, s)' <=> LastRead(c, s)
  BY <1>1 DEF LastRead
<1> QED
  BY <1>1, <1>2 DEF Overwritten, Astray, InStream

LEMMA SameIntact ==
  ASSUME NEW c \in Conns, incoming'[c] = incoming[c], ed'[c] = ed[c], pos'[c] = pos[c],
         (kpc'[c] = "clean") = (kpc[c] = "clean")
  PROVE  Intact(c)' <=> Intact(c)
BY SameBytesLeft DEF Intact

LEMMA SamePlaced ==
  ASSUME NEW c \in Conns, SameThreads(c), Placed(c)
  PROVE  Placed(c)'
<1>1. Typing(c)' <=> Typing(c)
  BY DEF SameThreads, Typing
<1>2. InStep(c)' <=> InStep(c)
  BY DEF SameThreads, InStep
<1>3. Lost(c)' <=> Lost(c)
  BY SameOverwritten DEF SameThreads, Lost, C!Waiting
<1> QED
  BY <1>1, <1>2, <1>3, SameOverwritten, SameIntact DEF SameThreads, Placed, InPlace

-----------------------------------------------------------------------------
(* The keyboard thread.                                                    *)

\* The history of a step of c.
LEMMA SentBy ==
  ASSUME ThreadsInv, NEW c \in Conns, toServer' = AllSent',
         \A d \in Conns : d # c => outgoing'[d] = outgoing[d] /\ buffer'[d] = buffer[d]
  PROVE  toServer' = [toServer EXCEPT ![c] = outgoing'[c] \o buffer'[c]]
<1>1. \A d \in Conns : toServer[d] = outgoing[d] \o buffer[d]
  BY ObjectTypes
<1>2. toServer' = [d \in Conns |-> outgoing'[d] \o buffer'[d]]
  BY DEF AllSent
<1>3. DOMAIN toServer = Conns
  BY ObjectTypes DEF AllSent
<1>4. toServer = [d \in Conns |-> toServer[d]]
  BY <1>3, ObjectTypes DEF AllSent
<1> QED
  BY <1>1, <1>2, <1>4

\* A history that stays as it is.
LEMMA SentSame ==
  ASSUME ThreadsInv, NEW c \in Conns, toServer' = AllSent',
         \A d \in Conns : d # c => outgoing'[d] = outgoing[d] /\ buffer'[d] = buffer[d],
         outgoing'[c] \o buffer'[c] = outgoing[c] \o buffer[c]
  PROVE  toServer' = toServer
<1>1. toServer' = [toServer EXCEPT ![c] = toServer[c]]
  BY SentBy, ObjectTypes
<1>2. toServer = [d \in Conns |-> toServer[d]]
  BY ObjectTypes DEF AllSent
<1> QED
  BY <1>1, <1>2

\* Between commands nothing is left to send.
LEMMA NothingTyped ==
  ASSUME ThreadsInv, NEW c \in Conns, kpc[c] = "getline"
  PROVE  buffer[c] = <<>> /\ toServer[c] = outgoing[c]
<1>1. buffer[c] = <<>>
  BY ObjectTypes DEF Typing
<1> QED
  BY <1>1, ObjectTypes, ConcatEmptySeq

LEMMA GetLineStep ==
  ASSUME ThreadsInv, NEW c \in Conns, GetLine(c)
  PROVE  Type(c) /\ ObjectsTypeOK' /\ \A d \in Conns : Placed(d)'
<1>1. /\ kpc[c] = "getline" /\ kpc' = [kpc EXCEPT ![c] = "encode"]
      /\ Keyboard!Command(c) /\ UNCHANGED vars /\ toServer' = AllSent'
      /\ UNCHANGED <<outgoing, incoming, ed, pos, packet, crashed>>
  BY DEF GetLine, At, Then
<1>2. /\ cl[c].connected /\ cl[c].typing /\ ~C!Waiting(c) /\ ncmd[c] < MaxCmd[c]
      /\ ncmd' = [ncmd EXCEPT ![c] = @ + 1] /\ UNCHANGED <<local, toClient>>
  BY <1>1 DEF Keyboard!Command, Keyboard!Waiting, C!Waiting, Keyboard!Ops, C!Ops
<1>3. PICK cmd \in Commands[c] :
        /\ cl' = [cl EXCEPT ![c] =
             [@ EXCEPT !.req[cmd.op] = C!Argument(cmd),
                       !.lastOperation = cmd.op,
                       !.wholeFile = IF cmd.op = "RRQ" THEN <<>> ELSE cl[c].wholeFile,
                       !.typing = cmd.op # "DISC"]]
        /\ buffer' = [buffer EXCEPT ![c] = Append(@, cmd)]
  BY <1>1 DEF Keyboard!Command, Keyboard!Argument, C!Argument
<1>4. buffer[c] = <<>> /\ toServer[c] = outgoing[c] /\ outgoing[c] \in Seq(Request)
  BY <1>1, NothingTyped, ObjectTypes
<1>5. cmd \in Request
  BY CommandFields
<1>6. buffer \in [Conns -> Seq(Request)] /\ kpc \in [Conns -> {"getline", "encode", "clean", "send"}]
  BY DEF ThreadsInv, ObjectsTypeOK
<1>7. buffer'[c] = <<cmd>> /\ \A d \in Conns : d # c => buffer'[d] = buffer[d]
  BY <1>3, <1>4, <1>6
<1>8. outgoing'[c] \o buffer'[c] = Append(toServer[c], cmd)
  BY <1>1, <1>4, <1>5, <1>7, AppendIsConcat
<1>9. toServer' = [toServer EXCEPT ![c] = Append(@, cmd)]
  BY <1>1, <1>7, <1>8, SentBy
<1>10. Type(c)
  BY <1>1, <1>2, <1>3, <1>9 DEF Type, C!Command
<1>11. ObjectsTypeOK'
  <2>1. buffer' \in [Conns -> Seq(Request)]
    BY <1>3, <1>5, <1>6, <1>4, AppendProperties
  <2>2. kpc' \in [Conns -> {"getline", "encode", "clean", "send"}]
    BY <1>1, <1>6
  <2> QED BY <1>1, <2>1, <2>2 DEF ThreadsInv, ObjectsTypeOK
<1>12. Placed(c)'
  <2>1. kpc'[c] = "encode"
    BY <1>1, <1>6
  <2>2. Typing(c)'
    BY <2>1, <1>7 DEF Typing
  <2>3. InStep(c) /\ Intact(c) /\ InStream(c)
    BY <1>1, <1>2, ObjectTypes DEF InPlace, Lost
  <2>4. InStep(c)'
    BY <2>3, <1>1, <1>2 DEF InStep
  <2>5. Intact(c)' /\ InStream(c)'
    BY <2>1, <2>3, <1>1, SameIntact, SameOverwritten
  <2> QED BY <2>1, <2>2, <2>4, <2>5 DEF Placed, InPlace
<1>13. \A d \in Conns : d # c => Placed(d)'
  <2> SUFFICES ASSUME NEW d \in Conns, d # c PROVE Placed(d)'
    OBVIOUS
  <2>1. cl'[d] = cl[d]
    <3>1. cl \in [Conns -> C!ClientProtocol]
      BY ObjectTypes DEF C!TypeOK
    <3> QED BY <3>1, <1>3
  <2>2. kpc'[d] = kpc[d] /\ buffer'[d] = buffer[d]
    BY <1>1, <1>6, <1>7
  <2>3. SameThreads(d)
    BY <2>1, <2>2, <1>1, <1>2 DEF SameThreads
  <2> QED BY <2>3, SamePlaced DEF ThreadsInv
<1> QED
  BY <1>10, <1>11, <1>12, <1>13

\* encode, cleanFields and sendBytes change nothing that TFTPSystem knows of.
LEMMA KeyboardRests ==
  ASSUME ThreadsInv, NEW c \in Conns, KeyboardThread(c)
  PROVE  UNCHANGED systemVars /\ toServer' = AllSent'
<1>1. CASE Encode(c) \/ Clean(c)
  <2>1. UNCHANGED systemVars /\ AllSent' = AllSent
    BY <1>1 DEF Encode, Clean, AllSent
  <2> QED BY <2>1, ObjectTypes DEF systemVars, clients
<1>2. CASE SendBytes(c)
  <2>1. /\ kpc[c] = "send" /\ toServer' = AllSent'
        /\ outgoing' = [outgoing EXCEPT ![c] = @ \o Arriving(buffer[c][1])]
        /\ buffer' = [buffer EXCEPT ![c] = <<>>]
        /\ UNCHANGED <<vars, cl, ncmd, local, toClient>>
    BY <1>2 DEF SendBytes, At
  <2>2. PICK cmd \in Commands[c] : buffer[c] = <<cmd>>
    BY <2>1, WhileTyping
  <2>3. Arriving(buffer[c][1]) = <<cmd>> /\ cmd \in Request
    BY <2>2, RequestArrives, CommandFields
  <2>4. /\ outgoing \in [Conns -> Seq(Request)] /\ buffer \in [Conns -> Seq(Request)]
        /\ outgoing[c] \o <<cmd>> \in Seq(Request)
    BY <2>3, ConcatProperties DEF ThreadsInv, ObjectsTypeOK
  <2>5. /\ outgoing'[c] = outgoing[c] \o <<cmd>> /\ buffer'[c] = <<>>
        /\ \A d \in Conns : d # c => outgoing'[d] = outgoing[d] /\ buffer'[d] = buffer[d]
    BY <2>1, <2>3, <2>4
  <2>6. outgoing'[c] \o buffer'[c] = outgoing[c] \o buffer[c]
    BY <2>2, <2>4, <2>5, ConcatEmptySeq
  <2>7. toServer' = toServer
    BY <2>1, <2>5, <2>6, SentSame
  <2> QED BY <2>1, <2>7 DEF systemVars, clients
<1> QED
  BY <1>1, <1>2 DEF KeyboardThread

\* A decoder that is where the stream is knows how far the opcode has come.
LEMMA IntactOpcode ==
  ASSUME NEW c \in Conns, kpc[c] # "clean", Intact(c), InStream(c), pos[c] \in Nat
  PROVE  /\ ed[c].isOpCodeInitialized = (pos[c] > 1)
         /\ ed[c].readSecond = (pos[c] > 1)
         /\ ed[c].startedInitializingOpCode = (pos[c] > 0)
         /\ pos[c] > 1 => /\ incoming[c] # <<>>
                          /\ ed[c].opcode = Wire(Head(incoming[c])).opcode
<1>1. CASE incoming[c] = <<>>
  <2>1. pos[c] = 0
    BY <1>1 DEF InStream
  <2>2. E!Decoding(ed[c], E!DiscPacket, <<>>, 0)
    BY <1>1 DEF Intact
  <2> QED BY <2>1, <2>2 DEF E!Decoding, E!OpcodeRead
<1>2. CASE incoming[c] # <<>>
  <2>1. E!Decoding(ed[c], Wire(Head(incoming[c])), bytes(c), pos[c])
    BY <1>2 DEF Intact
  <2> QED BY <1>2, <2>1 DEF E!Decoding, E!OpcodeRead
<1> QED
  BY <1>1, <1>2

\* Before the first byte of whatever comes.
LEMMA IntactClean ==
  ASSUME NEW c \in Conns, kpc[c] # "clean", ed[c] \in E!Fields, pos[c] = 0
  PROVE  Intact(c) <=> K!Clean(ed[c])
<1>1. ed[c] \in K!Fields
  BY SameTypes
<1>2. \A p, b : E!Decoding(ed[c], p, b, 0) <=> K!Clean(ed[c])
  BY <1>1, K!CleanIsStart, SameDecoding
<1> QED
  BY <1>2 DEF Intact

\* While the keyboard thread is in sendPacket the client is in step: what it
\* reads is a broadcast.
LEMMA BusyKeyboard ==
  ASSUME ThreadsInv, NEW c \in Conns, kpc[c] # "getline", ~Lost(c)
  PROVE  /\ InStep(c) /\ ~IsAnswer(packet[c])
         /\ toClient[c] = incoming[c] /\ Quiet(incoming[c])
         /\ incoming[c] # <<>> => /\ IsBroadcast(Head(incoming[c]))
                                  /\ Head(incoming[c]) \in Packet
<1>1. Quiet(toClient[c]) /\ InStep(c)
  BY WhileTyping, ObjectTypes DEF InPlace
<1>2. toClient[c] \in Seq(Packet)
  BY ObjectTypes
<1>3. toClient[c] # <<>> => /\ IsBroadcast(Head(toClient[c]))
                            /\ Head(toClient[c]) \in Packet
  BY <1>1, <1>2, ReadOne
<1>4. ~IsAnswer(packet[c]) /\ toClient[c] = incoming[c]
  BY <1>1, <1>3, WireOpcode DEF InStep
<1> QED
  BY <1>1, <1>3, <1>4

LEMMA EncodePlaced ==
  ASSUME ThreadsInv, NEW c \in Conns, Encode(c)
  PROVE  ObjectsTypeOK' /\ Placed(c)'
<1>1. /\ kpc[c] = "encode" /\ kpc' = [kpc EXCEPT ![c] = "clean"]
      /\ ed' = [ed EXCEPT ![c] = E!encoding(@, Typed(buffer[c][1]))]
      /\ UNCHANGED <<cl, toClient, outgoing, incoming, buffer, pos, packet, crashed>>
  BY DEF Encode, At, Then, systemVars, clients
<1>2. PICK cmd \in Commands[c] : buffer[c] = <<cmd>>
  BY <1>1, WhileTyping
<1> DEFINE p == Typed(cmd)
           r == K!encoding(ed[c], p)
<1>3. K!Typeable(p) /\ ed[c] \in K!Fields
  BY RequestArrives, ObjectTypes, SameTypes
<1>4. /\ r \in K!Fields
      /\ r.opcodeBytes = <<0, p.opcode>>
      /\ r.startedInitializingOpCode = ed[c].startedInitializingOpCode
      /\ r.isOpCodeInitialized = ed[c].isOpCodeInitialized
      /\ r.readSecond = ed[c].readSecond
      /\ r.opcode = ed[c].opcode
  BY <1>3, K!EncodeKeeps
<1>5. ed \in [Conns -> E!Fields] /\ kpc \in [Conns -> {"getline", "encode", "clean", "send"}]
  BY DEF ThreadsInv, ObjectsTypeOK
<1>6. ed'[c] = r /\ kpc'[c] = "clean" /\ r \in E!Fields
  <2>1. buffer[c][1] = cmd
    BY <1>2
  <2>2. ed'[c] = E!encoding(ed[c], p)
    BY <1>1, <1>5, <2>1
  <2> QED BY <2>2, <1>1, <1>4, <1>5, SameEncoding, SameTypes
<1> HIDE DEF r, p
<1>7. ObjectsTypeOK'
  <2>1. ed' \in [Conns -> E!Fields]
    BY <1>1, <1>5, <1>6
  <2>2. kpc' \in [Conns -> {"getline", "encode", "clean", "send"}]
    BY <1>1, <1>5
  <2> QED BY <1>1, <2>1, <2>2 DEF ThreadsInv, ObjectsTypeOK
<1>8. ~Lost(c)
  BY <1>1 DEF Lost
<1>9. InStep(c) /\ Intact(c) /\ InStream(c) /\ pos[c] \in Nat
  BY <1>1, <1>8, ObjectTypes DEF InPlace
<1>10. InStep(c)'
  BY <1>1, <1>9 DEF InStep
<1>11. InStream(c)'
  <2>1. bytes(c)' = bytes(c)
    BY <1>1, SameBytesLeft
  <2> QED BY <1>1, <1>9, <2>1 DEF InStream
<1>12. Overwritten(c)'
  <2>1. /\ ed[c].isOpCodeInitialized = (pos[c] > 1)
        /\ ed[c].readSecond = (pos[c] > 1)
        /\ pos[c] > 1 => /\ incoming[c] # <<>>
                         /\ ed[c].opcode = Wire(Head(incoming[c])).opcode
    BY <1>1, <1>9, IntactOpcode
  <2>2. /\ Quiet(incoming[c])
        /\ incoming[c] # <<>> => /\ IsBroadcast(Head(incoming[c]))
                                 /\ Head(incoming[c]) \in Packet
    BY <1>1, <1>8, BusyKeyboard
  <2>3. pos[c] > 1 => ed[c].opcode = 9
    BY <2>1, <2>2, WireOpcode
  <2>4. p.opcode \in {1, 2, 6, 7, 8, 10}
    BY <1>3 DEF K!Typeable
  <2>5. OfRequest(r.opcodeBytes)
    BY <1>4, <2>4 DEF OfRequest
  <2>6. /\ r.readSecond => r.isOpCodeInitialized
        /\ r.isOpCodeInitialized => r.opcode \notin {3, 4, 5}
    <3>1. ed[c].readSecond => ed[c].isOpCodeInitialized
      BY <2>1, Zenon
    <3>2. ed[c].isOpCodeInitialized => ed[c].opcode = 9
      BY <2>1, <2>3, Zenon
    <3>3. 9 \notin {3, 4, 5}
      OBVIOUS
    <3> QED BY <1>4, <3>1, <3>2, <3>3, Zenon
  <2>7. incoming'[c] = incoming[c]
    BY <1>1
  <2> QED BY <1>6, <2>2, <2>5, <2>6, <2>7 DEF Overwritten
<1>13. Typing(c)'
  BY <1>1, <1>2, <1>6 DEF Typing
<1> QED
  BY <1>6, <1>7, <1>10, <1>11, <1>12, <1>13 DEF Placed, InPlace

LEMMA CleanPlaced ==
  ASSUME ThreadsInv, NEW c \in Conns, Clean(c)
  PROVE  ObjectsTypeOK' /\ Placed(c)'
<1>1. /\ kpc[c] = "clean" /\ kpc' = [kpc EXCEPT ![c] = "send"]
      /\ ed' = [ed EXCEPT ![c] = E!cleanFields(@)]
      /\ UNCHANGED <<cl, toClient, outgoing, incoming, buffer, pos, packet, crashed>>
  BY DEF Clean, At, Then, systemVars, clients
<1> DEFINE r == K!cleanFields(ed[c])
<1>2. r \in K!Fields /\ K!Clean(r)
  BY ObjectTypes, SameTypes, K!CleanFields
<1>3. ed \in [Conns -> E!Fields] /\ kpc \in [Conns -> {"getline", "encode", "clean", "send"}]
  BY DEF ThreadsInv, ObjectsTypeOK
<1>4. ed'[c] = r /\ kpc'[c] = "send" /\ r \in E!Fields
  BY <1>1, <1>2, <1>3, SameClean, SameTypes
<1> HIDE DEF r
<1>5. ObjectsTypeOK'
  <2>1. ed' \in [Conns -> E!Fields]
    BY <1>1, <1>3, <1>4
  <2>2. kpc' \in [Conns -> {"getline", "encode", "clean", "send"}]
    BY <1>1, <1>3
  <2> QED BY <1>1, <2>1, <2>2 DEF ThreadsInv, ObjectsTypeOK
<1>6. ~Lost(c)
  BY <1>1 DEF Lost
<1>7. /\ InStep(c) /\ ~IsAnswer(packet[c]) /\ Quiet(incoming[c])
      /\ incoming[c] # <<>> => IsBroadcast(Head(incoming[c]))
  BY <1>1, <1>6, BusyKeyboard
<1>8. InStream(c) /\ pos[c] \in Nat /\ C!Waiting(c)
  BY <1>1, ObjectTypes, WhileTyping
<1>9. InStep(c)'
  BY <1>1, <1>7 DEF InStep
<1>10. InStream(c)'
  <2>1. bytes(c)' = bytes(c)
    BY <1>1, SameBytesLeft
  <2> QED BY <1>1, <1>8, <2>1 DEF InStream
<1>11. Typing(c)'
  <2>1. \E cmd \in Commands[c] : buffer[c] = <<cmd>>
    BY <1>1, WhileTyping
  <2> QED BY <1>1, <1>4, <2>1 DEF Typing
<1>12. CASE pos[c] = 0
  <2>1. pos'[c] = 0 /\ K!Clean(ed'[c]) /\ ed'[c] \in E!Fields /\ kpc'[c] # "clean"
    BY <1>1, <1>2, <1>4, <1>12
  <2>2. ed'[c] \in K!Fields
    BY <2>1, SameTypes
  <2>3. \A p, b : E!Decoding(ed'[c], p, b, 0)
    BY <2>1, <2>2, K!CleanIsStart, SameDecoding
  <2>4. Intact(c)'
    BY <2>1, <2>3 DEF Intact
  <2> QED BY <2>1, <2>4, <1>5, <1>9, <1>10, <1>11 DEF Placed, InPlace
<1>13. CASE pos[c] > 0
  <2>1. incoming[c] # <<>>
    BY <1>8, <1>13 DEF InStream
  <2>2. /\ ~ed'[c].isOpCodeInitialized /\ ~ed'[c].readSecond
        /\ ~ed'[c].startedInitializingOpCode /\ ed'[c].opcodeBytes = <<>>
    BY <1>2, <1>4 DEF K!Clean
  <2>3. Astray(c)'
    BY <2>1, <2>2, <1>1, <1>7, <1>13 DEF Astray
  <2>4. Lost(c)'
    BY <2>3, <1>1, <1>4, <1>7, <1>8 DEF Lost, C!Waiting
  <2> QED BY <2>4, <1>5, <1>10, <1>11 DEF Placed, InPlace
<1> QED
  BY <1>8, <1>12, <1>13

LEMMA SendPlaced ==
  ASSUME ThreadsInv, NEW c \in Conns, SendBytes(c)
  PROVE  ObjectsTypeOK' /\ Placed(c)'
<1>1. /\ kpc[c] = "send" /\ kpc' = [kpc EXCEPT ![c] = "getline"]
      /\ outgoing' = [outgoing EXCEPT ![c] = @ \o Arriving(buffer[c][1])]
      /\ buffer' = [buffer EXCEPT ![c] = <<>>]
      /\ UNCHANGED <<cl, toClient, incoming, ed, pos, packet, crashed>>
  BY DEF SendBytes, At, Then
<1>2. PICK cmd \in Commands[c] : buffer[c] = <<cmd>>
  BY <1>1, WhileTyping
<1>3. Arriving(buffer[c][1]) = <<cmd>> /\ cmd \in Request
  BY <1>2, RequestArrives, CommandFields
<1>4. /\ outgoing \in [Conns -> Seq(Request)] /\ buffer \in [Conns -> Seq(Request)]
      /\ kpc \in [Conns -> {"getline", "encode", "clean", "send"}]
      /\ outgoing[c] \o <<cmd>> \in Seq(Request) /\ <<>> \in Seq(Request)
  BY <1>3, ConcatProperties DEF ThreadsInv, ObjectsTypeOK
<1>5. ObjectsTypeOK'
  <2>1. outgoing' \in [Conns -> Seq(Request)]
    BY <1>1, <1>3, <1>4
  <2>2. buffer' \in [Conns -> Seq(Request)]
    BY <1>1, <1>4
  <2>3. kpc' \in [Conns -> {"getline", "encode", "clean", "send"}]
    BY <1>1, <1>4
  <2> QED BY <1>1, <2>1, <2>2, <2>3 DEF ThreadsInv, ObjectsTypeOK
<1>6. kpc'[c] = "getline" /\ buffer'[c] = <<>>
  BY <1>1, <1>4
<1>7. Typing(c)'
  BY <1>6 DEF Typing
<1>8. InStream(c)' /\ (Intact(c) => Intact(c)')
  BY <1>1, <1>6, ObjectTypes, SameIntact, SameOverwritten
<1>9. InStep(c) => InStep(c)'
  BY <1>1 DEF InStep
<1>10. Lost(c) => Lost(c)'
  BY <1>1, <1>6, SameOverwritten DEF Lost, C!Waiting
<1>11. InPlace(c)
  BY ObjectTypes
<1> QED
  BY <1>1, <1>5, <1>6, <1>7, <1>8, <1>9, <1>10, <1>11 DEF Placed, InPlace

\* A step of the keyboard thread.
LEMMA KeyboardStep ==
  ASSUME ThreadsInv, NEW c \in Conns, KeyboardThread(c)
  PROVE  ObjectsTypeOK' /\ \A d \in Conns : Placed(d)'
<1>1. ObjectsTypeOK' /\ Placed(c)'
  BY EncodePlaced, CleanPlaced, SendPlaced DEF KeyboardThread
<1>2. ASSUME NEW d \in Conns, d # c PROVE Placed(d)'
  <2>1. /\ kpc \in [Conns -> {"getline", "encode", "clean", "send"}]
        /\ ed \in [Conns -> E!Fields] /\ buffer \in [Conns -> Seq(Request)]
    BY DEF ThreadsInv, ObjectsTypeOK
  <2>2. /\ kpc'[d] = kpc[d] /\ ed'[d] = ed[d] /\ buffer'[d] = buffer[d]
        /\ UNCHANGED <<cl, toClient, incoming, pos, packet>>
    BY <1>2, <2>1 DEF KeyboardThread, Encode, Clean, SendBytes, Then, systemVars, clients
  <2>3. SameThreads(d)
    BY <2>2 DEF SameThreads
  <2> QED BY <2>3, SamePlaced DEF ThreadsInv
<1> QED
  BY <1>1, <1>2

LEMMA CrashStep ==
  ASSUME ThreadsInv, NEW c \in Conns, Crash(c)
  PROVE  UNCHANGED systemVars /\ toServer' = AllSent' /\ ObjectsTypeOK'
         /\ \A d \in Conns : Placed(d)'
<1>1. /\ crashed' = [crashed EXCEPT ![c] = TRUE]
      /\ UNCHANGED <<systemVars, outgoing, incoming, kpc, buffer, ed, pos, packet>>
  BY DEF Crash
<1>2. AllSent' = AllSent /\ toServer' = toServer
  BY <1>1 DEF AllSent, systemVars, clients
<1>3. ObjectsTypeOK'
  BY <1>1 DEF ThreadsInv, ObjectsTypeOK
<1>4. \A d \in Conns : Placed(d)'
  <2>1. \A d \in Conns : SameThreads(d)
    BY <1>1 DEF SameThreads, systemVars, clients
  <2> QED BY <2>1, SamePlaced DEF ThreadsInv
<1> QED
  BY <1>1, <1>2, <1>3, <1>4, ObjectTypes

-----------------------------------------------------------------------------
(* The server.                                                             *)

\* What stands first in a channel stays first when more is appended.
LEMMA ConcatHead ==
  ASSUME NEW T, NEW w \in Seq(T), NEW s \in Seq(T), s # <<>>
  PROVE  s \o w # <<>> /\ Head(s \o w) = Head(s) /\ Tail(s \o w) = Tail(s) \o w
<1>1. /\ Len(s) \in Nat /\ Len(s) > 0 /\ Len(w) \in Nat
      /\ s \o w \in Seq(T) /\ Len(s \o w) = Len(s) + Len(w)
      /\ \A i \in 1 .. Len(s) + Len(w) :
           (s \o w)[i] = IF i <= Len(s) THEN s[i] ELSE w[i - Len(s)]
  BY ConcatProperties, LenProperties, EmptySeq
<1>2. s \o w # <<>> /\ Head(s \o w) = (s \o w)[1] /\ Head(s) = s[1]
  BY <1>1, HeadTailProperties
<1>3. /\ Tail(s) \in Seq(T) /\ Len(Tail(s)) = Len(s) - 1
      /\ \A i \in 1 .. Len(Tail(s)) : Tail(s)[i] = s[i + 1]
  BY <1>1, HeadTailProperties
<1>4. /\ Tail(s \o w) \in Seq(T) /\ Len(Tail(s \o w)) = Len(s) + Len(w) - 1
      /\ \A i \in 1 .. Len(s) + Len(w) - 1 : Tail(s \o w)[i] = (s \o w)[i + 1]
  BY <1>1, <1>2, HeadTailProperties
<1>5. /\ Tail(s) \o w \in Seq(T) /\ Len(Tail(s) \o w) = Len(s) + Len(w) - 1
      /\ \A i \in 1 .. Len(s) + Len(w) - 1 :
           (Tail(s) \o w)[i] = IF i <= Len(s) - 1 THEN Tail(s)[i] ELSE w[i - (Len(s) - 1)]
  BY <1>1, <1>3, ConcatProperties
<1>6. ASSUME NEW i \in 1 .. Len(s) + Len(w) - 1
      PROVE  Tail(s \o w)[i] = (Tail(s) \o w)[i]
  <2>1. Tail(s \o w)[i] = (s \o w)[i + 1] /\ i + 1 \in 1 .. Len(s) + Len(w)
    BY <1>1, <1>4
  <2>2. CASE i <= Len(s) - 1
    <3>1. (s \o w)[i + 1] = s[i + 1]
      BY <1>1, <2>1, <2>2
    <3>2. (Tail(s) \o w)[i] = Tail(s)[i] /\ i \in 1 .. Len(Tail(s))
      BY <1>1, <1>3, <1>5, <2>2
    <3> QED BY <2>1, <3>1, <3>2, <1>3
  <2>3. CASE ~(i <= Len(s) - 1)
    <3>1. (s \o w)[i + 1] = w[(i + 1) - Len(s)]
      BY <1>1, <2>1, <2>3
    <3>2. (Tail(s) \o w)[i] = w[i - (Len(s) - 1)]
      BY <1>5, <2>3
    <3>3. (i + 1) - Len(s) = i - (Len(s) - 1)
      BY <1>1
    <3> QED BY <2>1, <3>1, <3>2, <3>3
  <2> QED BY <2>2, <2>3
<1> QED BY <1>1, <1>2, <1>4, <1>5, <1>6, SeqEqual

\* What arrives behind what has not been read changes nothing.
LEMMA MoreArrives ==
  ASSUME ThreadsInv, NEW c \in Conns, NEW w \in Seq(Packet),
         incoming'[c] = incoming[c] \o w, toClient'[c] = toClient[c] \o w,
         kpc[c] = "clean" => Quiet(toClient'[c]),
         kpc'[c] = kpc[c], buffer'[c] = buffer[c], ed'[c] = ed[c], pos'[c] = pos[c],
         packet'[c] = packet[c], cl'[c] = cl[c]
  PROVE  Placed(c)' /\ (Intact(c) => Intact(c)')
<1>1. /\ incoming[c] \in Seq(Packet) /\ toClient[c] \in Seq(Packet)
      /\ Typing(c) /\ InStream(c) /\ InPlace(c) /\ ed[c] \in E!Fields
  BY ObjectTypes
<1>2. \A s \in Seq(Packet) : s # <<>> => /\ s \o w # <<>>
                                         /\ Head(s \o w) = Head(s)
                                         /\ Tail(s \o w) = Tail(s) \o w
  BY ConcatHead
<1>3. incoming[c] # <<>> => /\ incoming'[c] # <<>>
                            /\ Head(incoming'[c]) = Head(incoming[c])
                            /\ bytes(c)' = bytes(c)
  BY <1>1, <1>2 DEF bytes
<1>4. incoming[c] = <<>> => pos[c] = 0
  BY <1>1 DEF InStream
<1>5. Typing(c)'
  BY <1>1 DEF Typing
<1>6. InStream(c)'
  <2>1. CASE incoming[c] = <<>>
    <3>1. incoming'[c] \in Seq(Packet)
      BY <1>1, ConcatProperties
    <3>2. ASSUME incoming'[c] # <<>> PROVE 0 < Len(bytes(c)')
      <4> DEFINE h == Head(incoming'[c])
      <4>1. h \in Packet
        BY <3>1, <3>2, HeadTailProperties
      <4>2. bytes(c)' = S!encode(Wire(h))
        BY DEF bytes
      <4> HIDE DEF h
      <4>3. Len(S!encode(Wire(h))) \in Nat /\ Len(S!encode(Wire(h))) >= 2
        BY <4>1, WireBytes
      <4> QED BY <4>2, <4>3
    <3> QED BY <2>1, <1>4, <3>2 DEF InStream
  <2>2. CASE incoming[c] # <<>>
    BY <2>2, <1>1, <1>3 DEF InStream
  <2> QED BY <2>1, <2>2
<1>7. ASSUME InStep(c) PROVE InStep(c)'
  <2>1. CASE ~IsAnswer(packet[c]) /\ toClient[c] = incoming[c]
    BY <2>1 DEF InStep
  <2>2. CASE /\ IsAnswer(packet[c]) /\ toClient[c] # <<>>
             /\ packet[c] = Wire(Head(toClient[c])) /\ incoming[c] = Tail(toClient[c])
    <3>1. /\ toClient'[c] # <<>> /\ Head(toClient'[c]) = Head(toClient[c])
          /\ Tail(toClient'[c]) = incoming'[c]
      BY <2>2, <1>1, <1>2
    <3> QED BY <2>2, <3>1 DEF InStep
  <2> QED BY <1>7, <2>1, <2>2 DEF InStep
<1>8. ASSUME kpc[c] # "clean", Intact(c) PROVE Intact(c)'
  <2>1. CASE incoming[c] = <<>>
    <3>1. pos[c] = 0 /\ K!Clean(ed[c])
      BY <1>1, <1>4, <1>8, <2>1, IntactClean
    <3>2. \A p, b : E!Decoding(ed[c], p, b, 0)
      BY <1>1, <3>1, SameTypes, K!CleanIsStart, SameDecoding
    <3> QED BY <1>8, <3>1, <3>2 DEF Intact
  <2>2. CASE incoming[c] # <<>>
    BY <1>3, <1>8, <2>2 DEF Intact
  <2> QED BY <2>1, <2>2
<1>9. \A s : LastRead(c, s) => LastRead(c, s)'
  BY <1>3, <1>4 DEF LastRead
<1>10. ASSUME kpc[c] = "clean", InStep(c), Overwritten(c) PROVE Overwritten(c)'
  <2>1. ~IsAnswer(packet[c]) /\ toClient[c] = incoming[c]
    BY <1>10, BusyKeyboard DEF Lost
  <2>2. Quiet(incoming'[c])
    BY <1>10, <2>1
  <2> QED BY <1>9, <1>10, <2>2 DEF Overwritten
<1>11. ASSUME Lost(c) PROVE Lost(c)'
  <2>1. pos[c] > 0 /\ IsBroadcast(Head(incoming[c])) => IsBroadcast(Head(incoming'[c]))
    BY <1>3, <1>4
  <2>2. Astray(c)'
    BY <1>9, <1>11, <2>1 DEF Lost, Astray
  <2> QED BY <1>11, <2>2 DEF Lost, C!Waiting
<1>12. ASSUME kpc[c] = "clean", Intact(c) PROVE Intact(c)'
  BY <1>12 DEF Intact
<1> QED
  BY <1>1, <1>5, <1>6, <1>7, <1>8, <1>10, <1>11, <1>12 DEF Placed, InPlace

LEMMA ServerThreadStep ==
  ASSUME ThreadsInv, SystemInv', NEW c \in Conns, ServerThread(c)
  PROVE  /\ toServer' = AllSent' /\ ObjectsTypeOK'
         /\ \A d \in Conns : Placed(d)' /\ (Intact(d) => Intact(d)')
<1>1. /\ toClient' = [d \in Conns |-> toClient[d] \o Written(d)]
      /\ incoming' = [d \in Conns |-> incoming[d] \o Written(d)]
      /\ UNCHANGED <<cl, toServer, outgoing, kpc, buffer, ed, pos, packet, crashed>>
  BY DEF ServerThread, SystemThread, threads
<1>2. \A d \in Conns : Written(d) \in Seq(Packet)
  <2>1. TypeOK /\ TypeOK'
    BY DEF ThreadsInv, SystemInv, Safety
  <2>2. \A d \in Conns : /\ out[d] \in Seq([from : Conns, pkt : Packet])
                         /\ out'[d] \in Seq([from : Conns, pkt : Packet])
    BY <2>1 DEF TypeOK
  <2> QED BY <2>2, NewPackets DEF Written
<1>3. ObjectsTypeOK'
  <2>1. incoming' \in [Conns -> Seq(Packet)]
    BY <1>1, <1>2, ObjectTypes, ConcatProperties
  <2> QED BY <1>1, <2>1 DEF ThreadsInv, ObjectsTypeOK
<1>4. toServer' = AllSent'
  <2>1. AllSent' = AllSent
    BY <1>1 DEF AllSent
  <2> QED BY <1>1, <2>1, ObjectTypes
<1>5. ASSUME NEW d \in Conns PROVE Placed(d)' /\ (Intact(d) => Intact(d)')
  <2>1. ASSUME kpc[d] = "clean" PROVE Quiet(toClient'[d])
    <3>1. C!TypeOK' /\ Conversation'
      BY DEF SystemInv, ClientTypeOK
    <3>2. outgoing'[d] \in Seq(Request) /\ toServer'[d] = AllSent'[d] /\ kpc'[d] # "getline"
      BY <1>1, <1>4, <2>1, ObjectTypes
    <3>3. Typing(d)'
      BY <1>1, ObjectTypes DEF Typing
    <3> QED BY <3>1, <3>2, <3>3, SendersWaitNext DEF SendersWait
  <2>2. incoming'[d] = incoming[d] \o Written(d) /\ toClient'[d] = toClient[d] \o Written(d)
    BY <1>1
  <2> QED BY <1>1, <1>2, <2>1, <2>2, MoreArrives
<1> QED
  BY <1>3, <1>4, <1>5

LEMMA ServerSideSteps ==
  ASSUME ThreadsInv, NEW c \in Conns, ServerSide(c)
  PROVE  ServerStep(c)
<1>1. CASE ServerThread(c)
  BY <1>1 DEF ServerThread, ServerStep
<1>2. CASE ServerAccept(c)
  BY <1>2 DEF ServerAccept, ServerStep
<1>3. CASE ServerReceive(c)
  <2>1. /\ outgoing[c] # <<>> /\ Receive(c) /\ message'[c] = Head(outgoing[c])
        /\ outgoing' = [outgoing EXCEPT ![c] = Tail(@)]
        /\ UNCHANGED <<cl, ncmd, local, toClient, buffer>> /\ toServer' = AllSent'
    BY <1>3 DEF ServerReceive, threads
  <2>2. /\ outgoing \in [Conns -> Seq(Request)]
        /\ outgoing[c] \in Seq(Request) /\ buffer[c] \in Seq(Request)
        /\ toServer[c] = outgoing[c] \o buffer[c]
    BY ObjectTypes DEF ThreadsInv, ObjectsTypeOK
  <2>3. /\ toServer[c] # <<>> /\ Head(toServer[c]) = Head(outgoing[c])
        /\ Tail(toServer[c]) = Tail(outgoing[c]) \o buffer[c]
    BY <2>1, <2>2, ConcatHead
  <2>4. /\ outgoing'[c] = Tail(outgoing[c]) /\ buffer'[c] = buffer[c]
        /\ \A d \in Conns : d # c => outgoing'[d] = outgoing[d] /\ buffer'[d] = buffer[d]
    BY <2>1, <2>2
  <2>5. toServer' = [toServer EXCEPT ![c] = Tail(toServer[c])]
    <3>1. toServer' = [toServer EXCEPT ![c] = outgoing'[c] \o buffer'[c]]
      BY <2>1, <2>4, SentBy
    <3>2. outgoing'[c] \o buffer'[c] = Tail(toServer[c])
      BY <2>3, <2>4
    <3> QED BY <3>1, <3>2
  <2> QED BY <2>1, <2>3, <2>5 DEF SystemReceive, ServerStep
<1> QED
  BY <1>1, <1>2, <1>3 DEF ServerSide

LEMMA ServerSideStep ==
  ASSUME ThreadsInv, SystemInv', NEW c \in Conns, ServerSide(c)
  PROVE  toServer' = AllSent' /\ ObjectsTypeOK' /\ \A d \in Conns : Placed(d)'
<1>1. CASE ServerThread(c)
  BY <1>1, ServerThreadStep
<1>2. CASE ServerReceive(c) \/ ServerAccept(c)
  <2>1. /\ UNCHANGED <<cl, toClient, incoming, kpc, buffer, ed, pos, packet, crashed>>
        /\ \/ outgoing' = outgoing /\ toServer' = toServer
           \/ /\ outgoing' = [outgoing EXCEPT ![c] = Tail(@)] /\ outgoing[c] # <<>>
              /\ toServer' = AllSent'
    BY <1>2 DEF ServerReceive, ServerAccept, SystemAccept, clients, threads
  <2>2. toServer' = AllSent'
    BY <2>1, ObjectTypes DEF AllSent
  <2>3. outgoing' \in [Conns -> Seq(Request)]
    <3>1. outgoing \in [Conns -> Seq(Request)]
      BY DEF ThreadsInv, ObjectsTypeOK
    <3>2. outgoing[c] # <<>> => Tail(outgoing[c]) \in Seq(Request)
      BY <3>1, HeadTailProperties
    <3>3. CASE outgoing' = outgoing
      BY <3>1, <3>3
    <3>4. CASE /\ outgoing' = [outgoing EXCEPT ![c] = Tail(@)]
               /\ outgoing[c] # <<>>
      BY <3>1, <3>2, <3>4
    <3> QED BY <2>1, <3>3, <3>4
  <2>4. ObjectsTypeOK'
    BY <2>1, <2>3 DEF ThreadsInv, ObjectsTypeOK
  <2>5. \A d \in Conns : SameThreads(d)
    BY <2>1 DEF SameThreads
  <2> QED BY <2>2, <2>4, <2>5, SamePlaced DEF ThreadsInv
<1> QED
  BY <1>1, <1>2 DEF ServerSide

-----------------------------------------------------------------------------
(* decodeNextByte.                                                         *)

\* The byte to read, whether it is the last one of its packet, and what the
\* call leaves and returns.
NextByte(c) == bytes(c)[pos[c] + 1]
AtLast(c) == pos[c] + 1 = Len(bytes(c))
Result(c) == K!decodeNextByte(ed[c], NextByte(c))

\* What a step of decodeNextByte knows and does.
LEMMA ReadFacts ==
  ASSUME ThreadsInv, NEW c \in Conns, DecodeNextByte(c)
  PROVE  /\ packet[c] = E!nullptr /\ ~IsAnswer(packet[c])
         /\ incoming[c] # <<>> /\ Head(incoming[c]) \in Packet
         /\ bytes(c) = K!Enc(Wire(Head(incoming[c])))
         /\ bytes(c) \in Seq(K!Byte) /\ Len(bytes(c)) \in Nat /\ Len(bytes(c)) >= 2
         /\ bytes(c)[1] = 0
         /\ pos[c] \in Nat /\ pos[c] < Len(bytes(c))
         /\ NextByte(c) \in K!Byte
         /\ ed[c] \in K!Fields /\ ~K!OutOfRange(ed[c])
         /\ ed'[c] = Result(c).ed /\ packet'[c] = Result(c).packet
         /\ AtLast(c) => pos'[c] = 0 /\ incoming'[c] = Tail(incoming[c])
         /\ ~AtLast(c) => /\ pos'[c] = pos[c] + 1 /\ pos'[c] < Len(bytes(c))
                          /\ incoming'[c] = incoming[c] /\ bytes(c)' = bytes(c)
         /\ incoming'[c] # incoming[c] <=> AtLast(c)
         /\ incoming'[c] \in Seq(Packet)
         /\ cl[c].connected
         /\ toClient' = IF Heard(c) THEN [toClient EXCEPT ![c] = Tail(@)] ELSE toClient
         /\ UNCHANGED <<vars, cl, ncmd, local, toServer, outgoing, kpc, buffer, crashed>>
<1> DEFINE h == Head(incoming[c])
           b == bytes(c)
           r == E!decodeNextByte(ed[c], b[pos[c] + 1])
<1>1. /\ cl[c].connected /\ packet[c] = E!nullptr /\ incoming[c] # <<>>
      /\ ~E!OutOfRange(ed[c])
      /\ ed' = [ed EXCEPT ![c] = r.ed]
      /\ packet' = [packet EXCEPT ![c] = r.packet]
      /\ IF pos[c] + 1 = Len(b)
         THEN /\ pos' = [pos EXCEPT ![c] = 0]
              /\ incoming' = [incoming EXCEPT ![c] = Tail(@)]
         ELSE /\ pos' = [pos EXCEPT ![c] = @ + 1]
              /\ UNCHANGED incoming
      /\ toClient' = IF Heard(c) THEN [toClient EXCEPT ![c] = Tail(@)] ELSE toClient
      /\ UNCHANGED <<vars, cl, ncmd, local, toServer, outgoing, kpc, buffer, crashed>>
  BY DEF DecodeNextByte, Reading
<1>2. /\ incoming \in [Conns -> Seq(Packet)] /\ pos \in [Conns -> Nat]
      /\ ed \in [Conns -> E!Fields] /\ incoming[c] \in Seq(Packet)
      /\ pos[c] \in Nat /\ ed[c] \in E!Fields /\ InStream(c)
  BY ObjectTypes DEF ThreadsInv, ObjectsTypeOK
<1>3. h \in Packet /\ Tail(incoming[c]) \in Seq(Packet)
      /\ Tail(incoming[c]) # incoming[c]
  BY <1>1, <1>2
<1>4. b = S!encode(Wire(h)) /\ b = K!Enc(Wire(h))
  BY ServerEncodes DEF bytes
<1>5. b \in Seq(K!Byte) /\ Len(b) \in Nat /\ Len(b) >= 2 /\ b[1] = 0
  BY <1>3, <1>4, WireBytes
<1>6. pos[c] < Len(b)
  BY <1>1, <1>2 DEF InStream
<1> HIDE DEF b, h
<1>7. b[pos[c] + 1] \in K!Byte
  BY <1>2, <1>5, <1>6, ElementOfSeq
<1>8. ed[c] \in K!Fields /\ ~K!OutOfRange(ed[c])
  BY <1>1, <1>2, SameTypes, SameRange
<1>9. r = Result(c)
  BY SameNext DEF Result, NextByte, b
<1> HIDE DEF r
<1>10. ed'[c] = Result(c).ed
  BY <1>1, <1>2, <1>9
<1>11. packet'[c] = Result(c).packet
  <2>1. DOMAIN packet = Conns
    BY DEF ThreadsInv, ObjectsTypeOK
  <2> QED BY <1>1, <1>9, <2>1
<1>12. pos[c] + 1 = Len(b) => pos'[c] = 0 /\ incoming'[c] = Tail(incoming[c])
  BY <1>1, <1>2
<1>13. pos[c] + 1 # Len(b) => /\ pos'[c] = pos[c] + 1 /\ pos'[c] < Len(b)
                              /\ incoming'[c] = incoming[c] /\ bytes(c)' = bytes(c)
  BY <1>1, <1>2, <1>5, <1>6, SameBytesLeft
<1>14. AtLast(c) <=> pos[c] + 1 = Len(b)
  BY DEF AtLast, b
<1>15. incoming'[c] # incoming[c] <=> AtLast(c)
  BY <1>3, <1>12, <1>13, <1>14
<1>16. incoming'[c] \in Seq(Packet)
  BY <1>2, <1>3, <1>12, <1>13
<1>17. ~IsAnswer(packet[c])
  BY <1>1 DEF IsAnswer, E!getOpcode, E!nullptr
<1> QED
  BY <1>1, <1>2, <1>3, <1>4, <1>5, <1>6, <1>7, <1>8, <1>10, <1>11, <1>12, <1>13,
     <1>14, <1>15, <1>16, <1>17
     DEF b, h, NextByte

\* A broadcast is dropped with its last byte; to TFTPSystem nothing else happens.
LEMMA ReadIsStep ==
  ASSUME ThreadsInv, NEW c \in Conns, DecodeNextByte(c)
  PROVE  /\ Process(c) \/ UNCHANGED systemVars
         /\ toServer' = AllSent'
<1>1. /\ incoming[c] # <<>> /\ cl[c].connected
      /\ toClient' = IF Heard(c) THEN [toClient EXCEPT ![c] = Tail(@)] ELSE toClient
      /\ UNCHANGED <<vars, cl, ncmd, local, toServer, outgoing, kpc, buffer, crashed>>
  BY ReadFacts
<1>2. toServer' = AllSent'
  <2>1. AllSent' = AllSent
    BY <1>1 DEF AllSent
  <2> QED BY <1>1, <2>1, ObjectTypes
<1>3. CASE ~Heard(c)
  BY <1>1, <1>2, <1>3 DEF systemVars, clients
<1>4. CASE Heard(c)
  <2>1. /\ toClient[c] # <<>> /\ Head(toClient[c]).op = "BCAST"
        /\ toClient' = [toClient EXCEPT ![c] = Tail(@)]
    BY <1>1, <1>4 DEF Heard
  <2>2. cl' = [cl EXCEPT ![c] = cl[c]]
    <3>1. cl \in [Conns -> C!ClientProtocol]
      BY ObjectTypes DEF C!TypeOK
    <3> QED BY <1>1, <3>1
  <2>3. toServer' = [toServer EXCEPT ![c] = @ \o <<>>]
    <3>1. toServer = [d \in Conns |-> toServer[d]]
      BY ObjectTypes DEF AllSent
    <3>2. toServer[c] \o <<>> = toServer[c]
      BY ObjectTypes, ConcatEmptySeq
    <3> QED BY <1>1, <3>1, <3>2
  <2>4. C!Processed(c, cl[c], <<>>)
    BY <1>1, <2>1, <2>2, <2>3 DEF C!Processed
  <2>5. C!Dropped(c)
    BY <1>1, <2>1, <2>4 DEF C!Dropped, C!Gets
  <2> QED BY <1>1, <1>2, <2>5 DEF Process, C!SocketThread
<1> QED
  BY <1>3, <1>4

\* The place in the stream moves on.
LEMMA ReadInStream ==
  ASSUME ThreadsInv, NEW c \in Conns, DecodeNextByte(c)
  PROVE  Typing(c)' /\ InStream(c)'
<1>1. Typing(c)'
  <2>1. Typing(c) /\ UNCHANGED <<kpc, buffer>>
    BY ReadFacts, ObjectTypes
  <2> QED BY <2>1 DEF Typing
<1>2. ASSUME ~AtLast(c) PROVE InStream(c)'
  <2>1. /\ incoming'[c] = incoming[c] /\ bytes(c)' = bytes(c) /\ incoming[c] # <<>>
        /\ pos'[c] < Len(bytes(c))
    BY <1>2, ReadFacts
  <2> QED BY <2>1 DEF InStream
<1>3. ASSUME AtLast(c) PROVE InStream(c)'
  <2>1. pos'[c] = 0 /\ incoming'[c] \in Seq(Packet)
    BY <1>3, ReadFacts
  <2>2. ASSUME incoming'[c] # <<>> PROVE 0 < Len(bytes(c)')
    <3> DEFINE h == Head(incoming'[c])
    <3>1. h \in Packet
      BY <2>1, <2>2, HeadTailProperties
    <3>2. bytes(c)' = S!encode(Wire(h))
      BY DEF bytes
    <3> HIDE DEF h
    <3>3. Len(S!encode(Wire(h))) \in Nat /\ Len(S!encode(Wire(h))) >= 2
      BY <3>1, WireBytes
    <3> QED BY <3>2, <3>3
  <2> QED BY <2>1, <2>2 DEF InStream
<1> QED
  BY <1>1, <1>2, <1>3

\* A client whose decoder is where the stream is decodes what was sent.
LEMMA ReadIntact ==
  ASSUME ThreadsInv, NEW c \in Conns, DecodeNextByte(c),
         InStep(c), kpc[c] # "clean", Intact(c)
  PROVE  /\ ed'[c] \in E!Fields /\ E!getOpcode(packet'[c]) \in 0 .. 10
         /\ InStep(c)' /\ Intact(c)'
         /\ IsAnswer(packet'[c]) => /\ packet'[c] = Wire(Head(incoming[c]))
                                    /\ incoming'[c] = Tail(incoming[c])
<1> DEFINE h == Head(incoming[c])
           p == Wire(h)
           b == K!Enc(p)
<1>1. /\ ~IsAnswer(packet[c]) /\ incoming[c] # <<>> /\ h \in Packet /\ bytes(c) = b
      /\ Len(b) \in Nat /\ pos[c] \in Nat /\ pos[c] < Len(b)
      /\ ed[c] \in K!Fields
      /\ ed'[c] = Result(c).ed /\ packet'[c] = Result(c).packet
      /\ AtLast(c) => pos'[c] = 0 /\ incoming'[c] = Tail(incoming[c])
      /\ ~AtLast(c) => /\ pos'[c] = pos[c] + 1
                       /\ incoming'[c] = incoming[c] /\ bytes(c)' = bytes(c)
      /\ incoming'[c] # incoming[c] <=> AtLast(c)
      /\ toClient' = IF Heard(c) THEN [toClient EXCEPT ![c] = Tail(@)] ELSE toClient
      /\ kpc'[c] = kpc[c]
  BY ReadFacts
<1>2. toClient[c] = incoming[c] /\ c \in DOMAIN toClient
  <2>1. C!TypeOK
    BY ObjectTypes
  <2> QED BY <1>1, <2>1 DEF InStep, C!TypeOK
<1>3. Fits(h)
  BY <1>1, <1>2, ObjectTypes, HeadFits
<1>4. p \in K!ServerPackets /\ K!WellFormed(p)
  BY <1>3, WireFits
<1>5. K!Decoding(ed[c], p, b, pos[c])
  <2>1. E!Decoding(ed[c], p, b, pos[c])
    BY <1>1 DEF Intact
  <2> QED BY <2>1, SameDecoding
<1>6. Result(c) = K!Result(p, ed[c], pos[c]) /\ (AtLast(c) <=> pos[c] + 1 = Len(b))
  BY <1>1 DEF Result, NextByte, AtLast, K!Result
<1> HIDE DEF b, p
<1>7. K!StepOK(p, pos[c], Result(c))
  BY <1>1, <1>4, <1>5, <1>6, K!Step DEF b
<1>8. ed'[c] \in E!Fields /\ ed'[c] \in K!Fields
  BY <1>1, <1>7, SameTypes DEF K!StepOK
<1>9. p.opcode \in {3, 4, 5, 9} /\ (p.opcode = 9 <=> IsBroadcast(h))
      /\ (IsAnswer(p) <=> ~IsBroadcast(h))
  BY <1>1, WireOpcode DEF p
<1>10. Heard(c) <=> IsBroadcast(h) /\ AtLast(c)
  BY <1>1, <1>2 DEF Heard, IsBroadcast
<1>11. CASE ~AtLast(c)
  <2>1. packet'[c] = E!nullptr /\ K!Decoding(ed'[c], p, b, pos[c] + 1)
    <3>1. pos[c] + 1 < Len(b)
      BY <1>1, <1>6, <1>11
    <3> QED BY <1>1, <1>7, <3>1, SameTypes DEF K!StepOK, b
  <2>2. ~IsAnswer(packet'[c]) /\ E!getOpcode(packet'[c]) = 0
    BY <2>1 DEF IsAnswer, E!getOpcode, E!nullptr
  <2>3. InStep(c)'
    BY <1>1, <1>2, <1>10, <1>11, <2>2 DEF InStep
  <2>4. E!Decoding(ed'[c], p, b, pos'[c])
    BY <1>1, <1>11, <2>1, SameDecoding
  <2>5. incoming'[c] = incoming[c] /\ bytes(c)' = b
    BY <1>1, <1>11
  <2>6. Intact(c)'
    BY <1>1, <2>4, <2>5 DEF Intact, p, h
  <2> QED BY <1>8, <2>2, <2>3, <2>6
<1>12. CASE AtLast(c)
  <2>1. packet'[c] = p /\ K!Clean(ed'[c])
    BY <1>1, <1>6, <1>7, <1>12 DEF K!StepOK, b
  <2>2. E!getOpcode(packet'[c]) \in 0 .. 10
    BY <1>9, <2>1 DEF E!getOpcode
  <2>3. InStep(c)'
    <3>1. CASE IsBroadcast(h)
      <4>1. toClient'[c] = incoming'[c]
        BY <1>1, <1>2, <1>10, <1>12, <3>1
      <4>2. ~IsAnswer(packet'[c])
        BY <1>9, <2>1, <3>1
      <4> QED BY <4>1, <4>2 DEF InStep
    <3>2. CASE ~IsBroadcast(h)
      <4>1. toClient'[c] = incoming[c] /\ incoming'[c] = Tail(incoming[c])
        BY <1>1, <1>2, <1>10, <1>12, <3>2
      <4>2. IsAnswer(packet'[c]) /\ packet'[c] = Wire(Head(incoming[c]))
        BY <1>9, <2>1, <3>2 DEF p
      <4> QED BY <1>1, <4>1, <4>2 DEF InStep
    <3> QED BY <3>1, <3>2
  <2>4. \A q, s : E!Decoding(ed'[c], q, s, 0)
    BY <1>8, <2>1, K!CleanIsStart, SameDecoding
  <2>5. Intact(c)'
    BY <1>1, <1>12, <2>4 DEF Intact
  <2> QED BY <1>1, <1>8, <1>12, <2>1, <2>2, <2>3, <2>5 DEF p
<1> QED
  BY <1>11, <1>12

\* What a call knows of the opcode before it looks at its byte.
LEMMA OpenedAs ==
  ASSUME NEW e, K!Callable(e), NEW x \in K!Byte
  PROVE  LET k == K!opened(e, x)
         IN /\ k.readSecond = e.readSecond
            /\ e.isOpCodeInitialized => k.isOpCodeInitialized /\ k.opcode = e.opcode
            /\ ~e.isOpCodeInitialized =>
                 /\ k.startedInitializingOpCode
                 /\ k.isOpCodeInitialized = e.startedInitializingOpCode
                 /\ k.opcodeBytes = Append(e.opcodeBytes, x)
                 /\ e.startedInitializingOpCode => k.opcode = K!bytesToShort(k.opcodeBytes)
BY K!OpensIt

\* The opcode a decoder finds after encode has been in it is no answer's.
LEMMA OverwrittenOpens ==
  ASSUME ThreadsInv, NEW c \in Conns, DecodeNextByte(c), kpc[c] = "clean",
         Overwritten(c)
  PROVE  LET k == K!opened(ed[c], NextByte(c))
         IN /\ K!Callable(ed[c])
            /\ IsBroadcast(Head(incoming[c])) /\ InStep(c) /\ toClient[c] = incoming[c]
            /\ k.isOpCodeInitialized => k.opcode \notin {3, 4, 5}
            /\ k.readSecond => k.isOpCodeInitialized
            /\ Len(k.opcodeBytes) = 2 => k.isOpCodeInitialized
            /\ ~k.isOpCodeInitialized =>
                 /\ k.startedInitializingOpCode
                 /\ OfRequest(k.opcodeBytes) \/ k.opcodeBytes = <<NextByte(c)>>
<1> DEFINE x == NextByte(c)
           s == ed[c].opcodeBytes
           k == K!opened(ed[c], x)
           h == Head(incoming[c])
           b == bytes(c)
<1>1. /\ x \in K!Byte /\ ed[c] \in K!Fields /\ ~K!OutOfRange(ed[c])
      /\ h \in Packet /\ b = K!Enc(Wire(h)) /\ b[1] = 0 /\ Len(b) \in Nat
      /\ pos[c] \in Nat /\ pos[c] < Len(b) /\ incoming[c] # <<>> /\ x = b[pos[c] + 1]
  BY ReadFacts DEF NextByte
<1>2. InStep(c) /\ toClient[c] = incoming[c] /\ IsBroadcast(h)
  <2>1. ~Lost(c)
    BY DEF Lost
  <2> QED BY <1>1, <2>1, BusyKeyboard
<1>3. /\ ed[c].readSecond => ed[c].isOpCodeInitialized
      /\ ed[c].isOpCodeInitialized => ed[c].opcode \notin {3, 4, 5}
      /\ ~ed[c].isOpCodeInitialized =>
           IF ed[c].startedInitializingOpCode THEN OfRequest(s) \/ LastRead(c, s)
           ELSE s = <<>> \/ OfRequest(s)
  BY DEF Overwritten
<1>4. K!Callable(ed[c])
  BY <1>1, <1>3 DEF K!Callable
<1> HIDE DEF x
<1>5. /\ k.readSecond = ed[c].readSecond
      /\ ed[c].isOpCodeInitialized => k.isOpCodeInitialized /\ k.opcode = ed[c].opcode
      /\ ~ed[c].isOpCodeInitialized =>
           /\ k.startedInitializingOpCode
           /\ k.isOpCodeInitialized = ed[c].startedInitializingOpCode
           /\ k.opcodeBytes = Append(s, x)
           /\ ed[c].startedInitializingOpCode => k.opcode = K!bytesToShort(k.opcodeBytes)
  <2>1. x \in K!Byte
    BY <1>1
  <2> QED BY <1>4, <2>1, OpenedAs
<1>6. s \in Seq(K!Byte)
  BY <1>1 DEF K!Fields
<1> HIDE DEF s, k, b, h
<1>7. ASSUME OfRequest(s)
      PROVE  /\ OfRequest(Append(s, x)) /\ Len(Append(s, x)) # 2
             /\ K!bytesToShort(Append(s, x)) \notin {3, 4, 5}
  <2> DEFINE t == Append(s, x)
  <2>1. Len(s) \in Nat /\ Len(s) > 1 /\ s[1] = 0 /\ s[2] \in {1, 2, 6, 7, 8, 10}
    BY <1>6, <1>7, LenProperties DEF OfRequest
  <2>2. Len(t) = Len(s) + 1 /\ t[1] = s[1] /\ t[2] = s[2]
    BY <1>1, <1>6, <2>1, AppendProperties
  <2> HIDE DEF t
  <2>3. OfRequest(t) /\ Len(t) # 2
    BY <2>1, <2>2 DEF OfRequest
  <2>4. K!bytesToShort(t) = t[2]
    BY <2>1, <2>2 DEF K!bytesToShort
  <2> QED BY <2>1, <2>2, <2>3, <2>4 DEF t
<1>8. ASSUME LastRead(c, s)
      PROVE  K!bytesToShort(Append(s, x)) \notin {3, 4, 5}
  <2> DEFINE t == Append(s, x)
  <2>1. PICK y \in K!Byte : s = <<y>> /\ y = IF pos[c] = 0 THEN 0 ELSE b[pos[c]]
    <3>1. CASE pos[c] = 0
      <4>1. 0 \in K!Byte
        BY DEF K!Byte
      <4> QED BY <1>8, <3>1, <4>1 DEF LastRead
    <3>2. CASE pos[c] # 0
      <4>1. b \in Seq(K!Byte) /\ pos[c] \in 1 .. Len(b)
        BY <1>1, <3>2, ReadFacts DEF b
      <4>2. b[pos[c]] \in K!Byte
        BY <4>1, ElementOfSeq
      <4>3. s = <<b[pos[c]]>>
        BY <1>8, <3>2 DEF LastRead, b
      <4> QED BY <3>2, <4>2, <4>3
    <3> QED BY <3>1, <3>2
  <2>2. t[1] = y /\ t[2] = x
    BY <2>1
  <2> HIDE DEF t
  <2>3. CASE pos[c] = 0
    <3>1. t[1] = 0 /\ t[2] = 0
      BY <1>1, <2>1, <2>2, <2>3
    <3>2. K!bytesToShort(t) = 0
      BY <3>1 DEF K!bytesToShort
    <3> QED BY <3>2 DEF t
  <2>4. CASE pos[c] # 0
    <3>1. K!Announces(Wire(h))
      BY <1>1, <1>2, WireAnnounces
    <3>2. pos[c] \in 1 .. Len(K!Enc(Wire(h))) - 1
      BY <1>1, <2>4
    <3>3. t[1] = K!Enc(Wire(h))[pos[c]] /\ t[2] = K!Enc(Wire(h))[pos[c] + 1]
      BY <1>1, <2>1, <2>2, <2>4
    <3>4. K!bytesToShort(t) \notin {1, 2, 3, 4, 5, 6, 7, 8, 10}
      BY <3>1, <3>2, <3>3, K!AnnouncePairs
    <3> QED BY <3>4 DEF t
  <2> QED BY <2>3, <2>4
<1>9. k.isOpCodeInitialized => k.opcode \notin {3, 4, 5}
  BY <1>3, <1>5, <1>7, <1>8
<1>10. k.readSecond => k.isOpCodeInitialized
  BY <1>3, <1>5, Zenon
<1>11. Len(k.opcodeBytes) = 2 => k.isOpCodeInitialized
  <2>1. s = <<>> => Len(Append(s, x)) # 2
    OBVIOUS
  <2>2. ASSUME ~k.isOpCodeInitialized PROVE Len(k.opcodeBytes) # 2
    <3>1. ~ed[c].isOpCodeInitialized /\ ~ed[c].startedInitializingOpCode
      BY <1>5, <2>2, Zenon
    <3>2. k.opcodeBytes = Append(s, x) /\ (s = <<>> \/ OfRequest(s))
      BY <1>3, <1>5, <3>1, Zenon
    <3> QED BY <1>7, <2>1, <3>2
  <2> QED BY <2>2
<1>12. ASSUME ~k.isOpCodeInitialized
       PROVE  /\ k.startedInitializingOpCode
              /\ OfRequest(k.opcodeBytes) \/ k.opcodeBytes = <<x>>
  <2>1. ~ed[c].isOpCodeInitialized /\ ~ed[c].startedInitializingOpCode
    BY <1>5, <1>12, Zenon
  <2>2. k.startedInitializingOpCode /\ k.opcodeBytes = Append(s, x)
    BY <1>5, <2>1, Zenon
  <2>3. s = <<>> \/ OfRequest(s)
    BY <1>3, <2>1, Zenon
  <2>4. s = <<>> => Append(s, x) = <<x>>
    OBVIOUS
  <2> QED BY <1>7, <2>2, <2>3, <2>4
<1> QED
  BY <1>2, <1>4, <1>9, <1>10, <1>11, <1>12 DEF k, h, x

\* The byte a step has read is the last one read after it, the last of a
\* broadcast a '\0'.
LEMMA ReadByte ==
  ASSUME ThreadsInv, NEW c \in Conns, DecodeNextByte(c),
         IsBroadcast(Head(incoming[c]))
  PROVE  NextByte(c) = IF pos'[c] = 0 THEN 0 ELSE bytes(c)'[pos'[c]]
<1> DEFINE h == Head(incoming[c])
           b == bytes(c)
<1>1. /\ h \in Packet /\ b = K!Enc(Wire(h)) /\ pos[c] \in Nat
      /\ AtLast(c) => pos'[c] = 0
      /\ ~AtLast(c) => pos'[c] = pos[c] + 1 /\ bytes(c)' = b
  BY ReadFacts
<1>2. AtLast(c) => NextByte(c) = b[Len(b)]
  BY DEF AtLast, NextByte
<1>3. b[Len(b)] = 0
  <2>1. K!Announces(Wire(h))
    BY <1>1, WireAnnounces
  <2> QED BY <1>1, <2>1, K!AnnounceBytes
<1>4. NextByte(c) = b[pos[c] + 1]
  BY DEF NextByte
<1> HIDE DEF b, h
<1> QED
  BY <1>1, <1>2, <1>3, <1>4

LEMMA ReadOverwritten ==
  ASSUME ThreadsInv, NEW c \in Conns, DecodeNextByte(c), kpc[c] = "clean",
         Overwritten(c)
  PROVE  /\ ed'[c] \in E!Fields /\ E!getOpcode(packet'[c]) \in 0 .. 10
         /\ InStep(c)' /\ Overwritten(c)' /\ ~IsAnswer(packet'[c])
<1> DEFINE x == NextByte(c)
           k == K!opened(ed[c], x)
           r == Result(c)
<1>1. /\ x \in K!Byte /\ ed'[c] = r.ed /\ packet'[c] = r.packet
      /\ r = K!decodeNextByte(ed[c], x)
      /\ incoming[c] # <<>> /\ incoming[c] \in Seq(Packet)
      /\ AtLast(c) => incoming'[c] = Tail(incoming[c])
      /\ ~AtLast(c) => incoming'[c] = incoming[c]
      /\ incoming'[c] # incoming[c] <=> AtLast(c)
      /\ toClient' = IF Heard(c) THEN [toClient EXCEPT ![c] = Tail(@)] ELSE toClient
      /\ c \in DOMAIN toClient
  <2>1. C!TypeOK /\ incoming[c] \in Seq(Packet)
    BY ObjectTypes
  <2> QED BY <2>1, ReadFacts DEF Result, C!TypeOK
<1>2. /\ K!Callable(ed[c])
      /\ IsBroadcast(Head(incoming[c])) /\ toClient[c] = incoming[c]
      /\ k.isOpCodeInitialized => k.opcode \notin {3, 4, 5}
      /\ k.readSecond => k.isOpCodeInitialized
      /\ Len(k.opcodeBytes) = 2 => k.isOpCodeInitialized
      /\ ~k.isOpCodeInitialized => /\ k.startedInitializingOpCode
                                   /\ OfRequest(k.opcodeBytes) \/ k.opcodeBytes = <<x>>
  BY OverwrittenOpens
<1> HIDE DEF k, r, x
<1>3. r.ed \in K!Fields /\ K!After(k, r) /\ K!getOpcode(r.packet) \in 0 .. 10
  BY <1>1, <1>2, K!Called DEF k
<1>4. ed'[c] \in E!Fields /\ E!getOpcode(packet'[c]) \in 0 .. 10
  BY <1>1, <1>3, SameTypes, SameHelpers
<1>5. ~IsAnswer(packet'[c])
  <2>1. K!nullptr.opcode \notin {3, 4, 5}
    BY DEF K!nullptr
  <2>2. r.packet.opcode \notin {3, 4, 5}
    BY <1>2, <1>3, <2>1 DEF K!After
  <2> QED BY <1>1, <2>2 DEF IsAnswer, E!getOpcode
<1>6. InStep(c)'
  <2>1. Heard(c) <=> AtLast(c)
    BY <1>1, <1>2 DEF Heard, IsBroadcast
  <2>2. toClient'[c] = incoming'[c]
    BY <1>1, <1>2, <2>1
  <2> QED BY <1>5, <2>2 DEF InStep
<1>7. Quiet(incoming'[c])
  <2>1. Quiet(incoming[c])
    BY DEF Overwritten
  <2> QED BY <1>1, <2>1, ReadOne
<1>8. /\ r.ed.readSecond => r.ed.isOpCodeInitialized
      /\ r.ed.isOpCodeInitialized => r.ed.opcode \notin {3, 4, 5}
  <2>1. CASE /\ r.ed.isOpCodeInitialized = k.isOpCodeInitialized
             /\ r.ed.opcode = k.opcode
             /\ r.ed.readSecond \in {k.readSecond, Len(k.opcodeBytes) = 2}
    <3>1. r.ed.readSecond = k.readSecond \/ r.ed.readSecond = (Len(k.opcodeBytes) = 2)
      BY <2>1
    <3>2. r.ed.readSecond => k.isOpCodeInitialized
      BY <1>2, <3>1, Zenon
    <3> QED BY <1>2, <2>1, <3>2, Zenon
  <2>2. CASE r.ed.isOpCodeInitialized = FALSE /\ r.ed.readSecond = FALSE
    BY <2>2
  <2> QED BY <1>3, <2>1, <2>2, Zenon DEF K!After
<1>9. ASSUME ~r.ed.isOpCodeInitialized
      PROVE  IF r.ed.startedInitializingOpCode
             THEN OfRequest(r.ed.opcodeBytes) \/ r.ed.opcodeBytes = <<x>>
             ELSE r.ed.opcodeBytes = <<>>
  <2>1. CASE /\ r.ed.startedInitializingOpCode = k.startedInitializingOpCode
             /\ r.ed.isOpCodeInitialized = k.isOpCodeInitialized
             /\ r.ed.opcodeBytes = k.opcodeBytes
    BY <1>2, <1>9, <2>1, Zenon
  <2>2. CASE r.ed.startedInitializingOpCode = FALSE /\ r.ed.opcodeBytes = <<>>
    BY <2>2, Zenon
  <2> QED BY <1>3, <2>1, <2>2, Zenon DEF K!After
<1>10. \A s : s = <<x>> => LastRead(c, s)'
  <2>1. x = IF pos'[c] = 0 THEN 0 ELSE bytes(c)'[pos'[c]]
    BY <1>2, ReadByte DEF x
  <2> QED BY <2>1 DEF LastRead
<1>11. Overwritten(c)'
  <2>1. /\ ed'[c].readSecond => ed'[c].isOpCodeInitialized
        /\ ed'[c].isOpCodeInitialized => ed'[c].opcode \notin {3, 4, 5}
    BY <1>1, <1>8
  <2>2. ASSUME ~ed'[c].isOpCodeInitialized
        PROVE  IF ed'[c].startedInitializingOpCode
               THEN OfRequest(ed'[c].opcodeBytes) \/ LastRead(c, ed[c].opcodeBytes)'
               ELSE ed'[c].opcodeBytes = <<>> \/ OfRequest(ed'[c].opcodeBytes)
    <3> DEFINE e == ed'[c]
    <3>1. e = r.ed
      BY <1>1
    <3>2. ~r.ed.isOpCodeInitialized
      BY <2>2, <1>1
    <3>3. IF e.startedInitializingOpCode
          THEN OfRequest(e.opcodeBytes) \/ e.opcodeBytes = <<x>>
          ELSE e.opcodeBytes = <<>>
      BY <1>9, <3>1, <3>2
    <3>4. e.opcodeBytes = <<x>> => LastRead(c, ed[c].opcodeBytes)'
      BY <1>10 DEF LastRead
    <3> HIDE DEF e
    <3>5. IF e.startedInitializingOpCode
          THEN OfRequest(e.opcodeBytes) \/ LastRead(c, ed[c].opcodeBytes)'
          ELSE e.opcodeBytes = <<>> \/ OfRequest(e.opcodeBytes)
      BY <3>3, <3>4
    <3> QED BY <3>5 DEF e
  <2> QED BY <1>7, <2>1, <2>2 DEF Overwritten
<1> QED
  BY <1>4, <1>5, <1>6, <1>11

\* A client that has lost its place stays lost, and decodes nothing.
LEMMA ReadLost ==
  ASSUME ThreadsInv, NEW c \in Conns, DecodeNextByte(c), Lost(c)
  PROVE  /\ ed'[c] \in E!Fields /\ E!getOpcode(packet'[c]) \in 0 .. 10
         /\ Lost(c)' /\ ~IsAnswer(packet'[c])
<1> DEFINE x == NextByte(c)
           s == ed[c].opcodeBytes
           k == K!opened(ed[c], x)
           r == Result(c)
           h == Head(incoming[c])
           b == bytes(c)
<1>1. /\ x \in K!Byte /\ ed[c] \in K!Fields /\ ~K!OutOfRange(ed[c])
      /\ h \in Packet /\ b = K!Enc(Wire(h)) /\ b[1] = 0 /\ Len(b) \in Nat
      /\ pos[c] \in Nat /\ pos[c] < Len(b) /\ incoming[c] # <<>> /\ x = b[pos[c] + 1]
      /\ ed'[c] = r.ed /\ packet'[c] = r.packet /\ r = K!decodeNextByte(ed[c], x)
      /\ AtLast(c) => pos'[c] = 0
      /\ ~AtLast(c) => pos'[c] = pos[c] + 1 /\ incoming'[c] = incoming[c]
      /\ UNCHANGED <<kpc, cl>>
  BY ReadFacts DEF NextByte, Result
<1>2. \/ /\ ed[c].isOpCodeInitialized
         /\ ed[c].opcode \notin 1 .. 10
      \/ /\ ~ed[c].isOpCodeInitialized
         /\ ~ed[c].readSecond
         /\ pos[c] > 0 => IsBroadcast(h)
         /\ IF ed[c].startedInitializingOpCode
            THEN pos[c] # 1 /\ LastRead(c, s)
            ELSE pos[c] > 0 /\ s = <<>>
  BY DEF Lost, Astray
<1>3. K!Callable(ed[c])
  <2>1. ed[c].readSecond => ed[c].isOpCodeInitialized
    BY <1>2, Zenon
  <2> QED BY <1>1, <2>1 DEF K!Callable
<1> HIDE DEF x, r
<1>4. /\ k.readSecond = ed[c].readSecond
      /\ ed[c].isOpCodeInitialized => k.isOpCodeInitialized /\ k.opcode = ed[c].opcode
      /\ ~ed[c].isOpCodeInitialized =>
           /\ k.startedInitializingOpCode
           /\ k.isOpCodeInitialized = ed[c].startedInitializingOpCode
           /\ k.opcodeBytes = Append(s, x)
           /\ ed[c].startedInitializingOpCode => k.opcode = K!bytesToShort(k.opcodeBytes)
  <2>1. x \in K!Byte
    BY <1>1
  <2> QED BY <1>3, <2>1, OpenedAs
<1>5. r.ed \in K!Fields /\ K!After(k, r) /\ K!getOpcode(r.packet) \in 0 .. 10
  BY <1>1, <1>3, K!Called
<1> HIDE DEF s, k, b, h
<1>6. \/ k.isOpCodeInitialized /\ k.opcode \notin 1 .. 10
      \/ /\ ~k.isOpCodeInitialized /\ k.startedInitializingOpCode /\ ~k.readSecond
         /\ k.opcodeBytes = <<x>> /\ pos[c] > 0 /\ IsBroadcast(h)
  <2>1. CASE ed[c].isOpCodeInitialized
    BY <1>2, <1>4, <2>1
  <2>2. CASE ~ed[c].isOpCodeInitialized /\ ed[c].startedInitializingOpCode
    <3>1. /\ pos[c] # 1 /\ LastRead(c, s) /\ (pos[c] > 0 => IsBroadcast(h))
          /\ k.isOpCodeInitialized /\ k.opcode = K!bytesToShort(Append(s, x))
      BY <1>2, <1>4, <2>2
    <3> DEFINE t == Append(s, x)
    <3>2. CASE pos[c] = 0
      <4>1. s = <<0>> /\ x = 0
        BY <1>1, <3>1, <3>2 DEF LastRead
      <4>2. t[1] = 0 /\ t[2] = 0
        BY <4>1
      <4> HIDE DEF t
      <4>3. K!bytesToShort(t) = 0
        BY <4>2 DEF K!bytesToShort
      <4> QED BY <3>1, <4>3 DEF t
    <3>3. CASE pos[c] > 1
      <4>1. s = <<b[pos[c]]>>
        BY <1>1, <3>1, <3>3 DEF LastRead, b
      <4>2. t[1] = b[pos[c]] /\ t[2] = b[pos[c] + 1]
        BY <1>1, <4>1
      <4> HIDE DEF t
      <4>3. K!Announces(Wire(h)) /\ pos[c] \in 1 .. Len(K!Enc(Wire(h))) - 1
        BY <1>1, <3>1, <3>3, WireAnnounces
      <4>4. K!bytesToShort(t) \notin 1 .. 10
        BY <1>1, <3>3, <4>2, <4>3, K!AnnouncePairs
      <4> QED BY <3>1, <4>4 DEF t
    <3> QED BY <1>1, <3>1, <3>2, <3>3
  <2>3. CASE ~ed[c].isOpCodeInitialized /\ ~ed[c].startedInitializingOpCode
    <3>1. /\ ~ed[c].readSecond /\ pos[c] > 0 /\ IsBroadcast(h) /\ s = <<>>
      BY <1>2, <2>3
    <3>2. /\ k.startedInitializingOpCode /\ k.opcodeBytes = Append(s, x)
          /\ ~k.isOpCodeInitialized /\ ~k.readSecond
      BY <1>4, <2>3, <3>1, Zenon
    <3>3. Append(s, x) = <<x>>
      BY <3>1
    <3> QED BY <3>1, <3>2, <3>3
  <2> QED BY <2>1, <2>2, <2>3
<1>7. /\ r.packet = K!nullptr
      /\ r.ed.startedInitializingOpCode = k.startedInitializingOpCode
      /\ r.ed.isOpCodeInitialized = k.isOpCodeInitialized
      /\ r.ed.opcode = k.opcode /\ r.ed.opcodeBytes = k.opcodeBytes
      /\ r.ed.readSecond \in {k.readSecond, Len(k.opcodeBytes) = 2}
  BY <1>5, <1>6 DEF K!After
<1>8. ed'[c] \in E!Fields /\ E!getOpcode(packet'[c]) \in 0 .. 10
  BY <1>1, <1>5, SameTypes, SameHelpers
<1>9. ~IsAnswer(packet'[c])
  BY <1>1, <1>7 DEF K!nullptr, IsAnswer, E!getOpcode
<1>10. Astray(c)'
  <2>1. CASE k.isOpCodeInitialized /\ k.opcode \notin 1 .. 10
    <3>1. ed'[c].isOpCodeInitialized /\ ed'[c].opcode \notin 1 .. 10
      BY <1>1, <1>7, <2>1
    <3> QED BY <3>1 DEF Astray
  <2>2. CASE /\ ~k.isOpCodeInitialized /\ k.startedInitializingOpCode /\ ~k.readSecond
             /\ k.opcodeBytes = <<x>> /\ pos[c] > 0 /\ IsBroadcast(h)
    <3>1. Len(k.opcodeBytes) # 2
      BY <2>2
    <3>2. r.ed.readSecond = k.readSecond \/ r.ed.readSecond = (Len(k.opcodeBytes) = 2)
      BY <1>7
    <3>3. ~r.ed.readSecond
      BY <2>2, <3>1, <3>2, Zenon
    <3>4. /\ ~ed'[c].isOpCodeInitialized /\ ed'[c].startedInitializingOpCode
          /\ ~ed'[c].readSecond /\ ed'[c].opcodeBytes = <<x>>
      BY <1>1, <1>7, <2>2, <3>3
    <3>5. pos'[c] # 1
      BY <1>1, <2>2
    <3>6. pos'[c] > 0 => IsBroadcast(Head(incoming'[c]))
      BY <1>1, <2>2 DEF h
    <3>7. x = IF pos'[c] = 0 THEN 0 ELSE bytes(c)'[pos'[c]]
      BY <2>2, ReadByte DEF x, h
    <3>8. LastRead(c, ed[c].opcodeBytes)'
      BY <3>4, <3>7 DEF LastRead
    <3> QED BY <3>4, <3>5, <3>6, <3>8 DEF Astray
  <2> QED BY <1>6, <2>1, <2>2
<1>11. Lost(c)'
  <2>1. /\ kpc[c] \in {"send", "getline"} /\ C!Waiting(c)
    BY DEF Lost
  <2> QED BY <1>1, <1>9, <1>10, <2>1 DEF Lost, C!Waiting
<1> QED
  BY <1>8, <1>9, <1>11

\* Who has lost its place is not where the stream is.
LEMMA LostIsTorn ==
  ASSUME ThreadsInv, NEW c \in Conns, Lost(c)
  PROVE  ~Intact(c)
<1> SUFFICES ASSUME Intact(c) PROVE FALSE
  OBVIOUS
<1>1. kpc[c] # "clean" /\ Astray(c) /\ pos[c] \in Nat /\ InStream(c)
      /\ incoming[c] \in Seq(Packet)
  BY ObjectTypes DEF Lost
<1>2. /\ ed[c].isOpCodeInitialized = (pos[c] > 1)
      /\ ed[c].startedInitializingOpCode = (pos[c] > 0)
      /\ pos[c] > 1 => /\ incoming[c] # <<>>
                       /\ ed[c].opcode = Wire(Head(incoming[c])).opcode
  BY <1>1, IntactOpcode
<1>3. CASE ed[c].isOpCodeInitialized /\ ed[c].opcode \notin 1 .. 10
  <2>1. pos[c] > 1
    BY <1>2, <1>3, Zenon
  <2>2. Head(incoming[c]) \in Packet
    BY <1>1, <1>2, <2>1, HeadTailProperties
  <2>3. Wire(Head(incoming[c])).opcode \in {3, 4, 5, 9}
    BY <2>2, WireOpcode
  <2> QED BY <1>2, <1>3, <2>1, <2>3
<1>4. CASE /\ ~ed[c].isOpCodeInitialized
           /\ IF ed[c].startedInitializingOpCode THEN pos[c] # 1 ELSE pos[c] > 0
  <2>1. ~(pos[c] > 1)
    BY <1>2, <1>4, Zenon
  <2>2. ed[c].startedInitializingOpCode => pos[c] > 0 /\ pos[c] # 1
    BY <1>2, <1>4, Zenon
  <2>3. ~ed[c].startedInitializingOpCode => pos[c] > 0 /\ ~(pos[c] > 0)
    BY <1>2, <1>4, Zenon
  <2> QED BY <1>1, <2>1, <2>2, <2>3
<1> QED
  BY <1>1, <1>3, <1>4 DEF Astray

\* A step of decodeNextByte: the decoder's place, the broadcasts that can cost
\* it and the answers it gives.
LEMMA ByteStep ==
  ASSUME ThreadsInv, NEW c \in Conns, DecodeNextByte(c)
  PROVE  /\ ObjectsTypeOK' /\ \A d \in Conns : Placed(d)'
         /\ IsAnswer(packet'[c]) => /\ packet'[c] = Wire(Head(incoming[c]))
                                    /\ incoming'[c] = Tail(incoming[c])
         /\ Intact(c) => Intact(c)' \/ IsBroadcast(Head(incoming[c]))
<1>1. /\ Typing(c)' /\ InStream(c)' /\ InPlace(c)
      /\ UNCHANGED <<cl, kpc, buffer, outgoing, crashed>>
      /\ incoming'[c] \in Seq(Packet) /\ pos[c] \in Nat
      /\ AtLast(c) => pos'[c] = 0
      /\ ~AtLast(c) => pos'[c] = pos[c] + 1
  BY ObjectTypes, ReadFacts, ReadInStream
<1>2. /\ ed'[c] \in E!Fields /\ E!getOpcode(packet'[c]) \in 0 .. 10 /\ InPlace(c)'
      /\ IsAnswer(packet'[c]) => /\ packet'[c] = Wire(Head(incoming[c]))
                                 /\ incoming'[c] = Tail(incoming[c])
      /\ Intact(c) => Intact(c)' \/ IsBroadcast(Head(incoming[c]))
  <2>1. CASE InStep(c) /\ kpc[c] # "clean" /\ Intact(c)
    BY <1>1, <2>1, ReadIntact DEF InPlace
  <2>2. CASE InStep(c) /\ kpc[c] = "clean" /\ Overwritten(c)
    BY <1>1, <2>2, ReadOverwritten, OverwrittenOpens DEF InPlace
  <2>3. CASE Lost(c)
    <3>1. ~Intact(c)
      BY <2>3, LostIsTorn
    <3> QED BY <2>3, <3>1, ReadLost DEF InPlace
  <2> QED BY <1>1, <2>1, <2>2, <2>3 DEF InPlace
<1>3. /\ incoming \in [Conns -> Seq(Packet)] /\ pos \in [Conns -> Nat]
      /\ ed \in [Conns -> E!Fields] /\ DOMAIN packet = Conns
      /\ toClient \in [Conns -> Seq(Packet)]
      /\ \A d \in Conns : E!getOpcode(packet[d]) \in 0 .. 10
  <2>1. C!TypeOK
    BY ObjectTypes
  <2> QED BY <2>1, SamePackets DEF ThreadsInv, ObjectsTypeOK, C!TypeOK
<1>4. /\ \E v : ed' = [ed EXCEPT ![c] = v]
      /\ \E v : packet' = [packet EXCEPT ![c] = v]
      /\ \E v : pos' = [pos EXCEPT ![c] = v]
      /\ \E v : incoming' = [incoming EXCEPT ![c] = v]
      /\ \E v : toClient' = [toClient EXCEPT ![c] = v]
  <2>1. /\ \E v : ed' = [ed EXCEPT ![c] = v]
        /\ \E v : packet' = [packet EXCEPT ![c] = v]
    BY Zenon DEF DecodeNextByte
  <2>2. \/ pos' = [pos EXCEPT ![c] = 0] /\ incoming' = [incoming EXCEPT ![c] = Tail(@)]
        \/ pos' = [pos EXCEPT ![c] = @ + 1] /\ incoming' = incoming
    BY DEF DecodeNextByte
  <2>3. \/ toClient' = [toClient EXCEPT ![c] = Tail(@)]
        \/ toClient' = toClient
    BY DEF DecodeNextByte
  <2>4. incoming = [incoming EXCEPT ![c] = incoming[c]]
        /\ toClient = [toClient EXCEPT ![c] = toClient[c]]
    BY <1>3
  <2>5. \E v : pos' = [pos EXCEPT ![c] = v]
    BY <2>2, Zenon
  <2>6. \E v : incoming' = [incoming EXCEPT ![c] = v]
    BY <2>2, <2>4, Zenon
  <2>7. \E v : toClient' = [toClient EXCEPT ![c] = v]
    BY <2>3, <2>4, Zenon
  <2> QED BY <2>1, <2>5, <2>6, <2>7
<1>5. /\ incoming' = [incoming EXCEPT ![c] = incoming'[c]]
      /\ pos' = [pos EXCEPT ![c] = pos'[c]] /\ ed' = [ed EXCEPT ![c] = ed'[c]]
      /\ packet' = [packet EXCEPT ![c] = packet'[c]]
      /\ toClient' = [toClient EXCEPT ![c] = toClient'[c]]
  BY <1>3, <1>4
<1>6. ObjectsTypeOK'
  <2>1. pos'[c] \in Nat
    BY <1>1
  <2>2. incoming' \in [Conns -> Seq(Packet)] /\ pos' \in [Conns -> Nat]
        /\ ed' \in [Conns -> E!Fields]
    BY <1>1, <1>2, <1>3, <1>5, <2>1
  <2>3. DOMAIN packet' = Conns /\ \A d \in Conns : E!getOpcode(packet'[d]) \in 0 .. 10
    BY <1>2, <1>3, <1>5
  <2> QED BY <1>1, <2>2, <2>3 DEF ThreadsInv, ObjectsTypeOK
<1>7. ASSUME NEW d \in Conns, d # c PROVE Placed(d)'
  <2>1. /\ incoming'[d] = incoming[d] /\ pos'[d] = pos[d] /\ ed'[d] = ed[d]
        /\ packet'[d] = packet[d] /\ toClient'[d] = toClient[d]
    BY <1>3, <1>5, <1>7
  <2>2. SameThreads(d)
    BY <1>1, <2>1 DEF SameThreads
  <2> QED BY <2>2, SamePlaced DEF ThreadsInv
<1>8. Placed(c)'
  BY <1>1, <1>2 DEF Placed
<1> QED
  BY <1>2, <1>6, <1>7, <1>8

-----------------------------------------------------------------------------
(* process.                                                                *)

\* What process is given stands for what the server has sent; of a listing only
\* that it is one.
LEMMA MeaningOfWire ==
  ASSUME NEW c \in Conns, NEW h, Fits(h),
         h.op = "DATA" => cl[c].lastOperation = "RRQ",
         h.op = "LIST" => cl[c].lastOperation = "DIRQ",
         ~IsBroadcast(h)
  PROVE  LET m == Meaning(c, Wire(h))
         IN /\ m.op = h.op
            /\ h.op \in {"ACK", "DATA"} => m.block = h.block
            /\ h.op = "DATA" => m.data = h.data
<1>1. h \in Packet /\ h.op \in {"ACK", "ERROR", "DATA", "LIST"}
  <2>1. h \in Packet
    BY DEF Fits
  <2> QED BY <2>1, WireCases DEF IsBroadcast
<1>2. CASE h.op = "ACK"
  <2>1. Wire(h) = [opcode |-> 4, blockNum |-> Signed(h.block)] /\ h.block \in BlockNum
    BY <1>1, <1>2, WireCases DEF K!AckPacket
  <2>2. Meaning(c, Wire(h)) = AckPacket(Signed(h.block) % 65536)
    BY <2>1 DEF Meaning
  <2>3. Signed(h.block) % 65536 = h.block
    BY <2>1, SignedBlock
  <2> QED BY <1>2, <2>2, <2>3 DEF AckPacket
<1>3. CASE h.op = "ERROR"
  <2>1. Wire(h) = [opcode |-> 5, ErrCode |-> h.code, ErrMsg |-> ErrMsg]
    BY <1>1, <1>3, WireCases DEF K!ErrorPacket
  <2>2. Meaning(c, Wire(h)) = ErrorPacket(h.code)
    BY <2>1 DEF Meaning
  <2> QED BY <1>3, <2>2 DEF ErrorPacket
<1>4. CASE h.op = "DATA"
  <2>1. /\ h.block \in BlockNum
        /\ Wire(h) = K!DataPacket(Len(h.data), Signed(h.block), h.data)
    BY <1>1, <1>4, WireCases
  <2>2. /\ Wire(h).opcode = 3 /\ Wire(h).blockNum = Signed(h.block)
        /\ Wire(h).data = h.data
    BY <2>1 DEF K!DataPacket
  <2>3. Meaning(c, Wire(h)) = DataPacket(Signed(h.block) % 65536, h.data)
    BY <1>4, <2>2 DEF Meaning
  <2>4. Signed(h.block) % 65536 = h.block
    BY <2>1, SignedBlock
  <2> QED BY <1>4, <2>3, <2>4 DEF DataPacket
<1>5. CASE h.op = "LIST"
  <2>1. Wire(h).opcode = 3
    BY <1>1, <1>5, WireCases DEF K!DataPacket
  <2>2. Meaning(c, Wire(h)) = ListPacket({})
    BY <1>5, <2>1 DEF Meaning
  <2> QED BY <1>5, <2>2 DEF ListPacket
<1> QED
  BY <1>1, <1>2, <1>3, <1>4, <1>5

\* The client that processes an answer has sent all it has to send.
LEMMA AnswerComes ==
  ASSUME ThreadsInv, NEW c \in Conns, IsAnswer(packet[c])
  PROVE  /\ kpc[c] = "getline" /\ buffer[c] = <<>> /\ toServer[c] = outgoing[c]
         /\ toClient[c] # <<>> /\ Head(toClient[c]) \in Packet
         /\ incoming[c] = Tail(toClient[c])
         /\ Familiar(packet[c])
         /\ LET h == Head(toClient[c])
                m == Meaning(c, packet[c])
            IN /\ m.op = h.op
               /\ h.op \in {"ACK", "DATA"} => m.block = h.block
               /\ h.op = "DATA" => m.data = h.data
         /\ InStep(c) /\ Intact(c)
<1> DEFINE h == Head(toClient[c])
<1>1. ~Lost(c)
  BY DEF Lost
<1>2. InStep(c)
  BY <1>1, ObjectTypes DEF InPlace
<1>3. /\ toClient[c] # <<>> /\ packet[c] = Wire(h) /\ incoming[c] = Tail(toClient[c])
  BY <1>2 DEF InStep
<1>4. h \in Packet
  BY <1>3, ObjectTypes, ReadOne
<1>5. ~IsBroadcast(h)
  BY <1>3, <1>4, WireOpcode
<1>6. kpc[c] = "getline"
  <2>1. Quiet(toClient[c]) => IsBroadcast(h)
    BY <1>3, ObjectTypes, ReadOne
  <2> QED BY <1>5, <2>1, WhileTyping
<1>7. buffer[c] = <<>> /\ toServer[c] = outgoing[c]
  BY <1>6, NothingTyped
<1>8. /\ Fits(h)
      /\ h.op = "DATA" => cl[c].lastOperation = "RRQ"
      /\ h.op = "LIST" => cl[c].lastOperation = "DIRQ"
  BY <1>3, ObjectTypes, HeadFits
<1>9. Familiar(packet[c])
  BY <1>3, <1>4, WireOpcode
<1>10. Intact(c)
  BY <1>1, <1>6, ObjectTypes DEF InPlace
<1> HIDE DEF h
<1>11. LET m == Meaning(c, packet[c])
       IN /\ m.op = h.op
          /\ h.op \in {"ACK", "DATA"} => m.block = h.block
          /\ h.op = "DATA" => m.data = h.data
  BY <1>3, <1>5, <1>8, MeaningOfWire
<1> QED
  BY <1>2, <1>3, <1>4, <1>6, <1>7, <1>9, <1>10, <1>11 DEF h

\* What process sends of an answer follows what the client has sent before.
LEMMA SocketSends ==
  ASSUME ThreadsInv, NEW c \in Conns, IsAnswer(packet[c]), ProcessPacket(c),
         NEW k, NEW T, NEW pkts \in Seq(T), Socket!Processed(c, k, pkts)
  PROVE  /\ C!Processed(c, k, pkts)
         /\ outgoing' = [outgoing EXCEPT ![c] = toServer'[c]]
<1>1. /\ toServer' = AllSent' /\ UNCHANGED buffer
      /\ toClient' = [toClient EXCEPT ![c] = Tail(@)]
  BY DEF ProcessPacket
<1>2. /\ cl' = [cl EXCEPT ![c] = k] /\ UNCHANGED ncmd
      /\ outgoing' = [outgoing EXCEPT ![c] = @ \o pkts]
  BY DEF Socket!Processed
<1>3. outgoing \in [Conns -> Seq(Request)] /\ outgoing[c] \in Seq(Request)
  BY ObjectTypes DEF ThreadsInv, ObjectsTypeOK
<1>4. buffer'[c] = <<>> /\ toServer[c] = outgoing[c]
  BY <1>1, AnswerComes
<1>5. /\ outgoing'[c] = outgoing[c] \o pkts
      /\ \A d \in Conns : d # c => outgoing'[d] = outgoing[d]
  BY <1>2, <1>3
<1>6. outgoing'[c] \o <<>> = outgoing'[c]
  <2>1. Request \subseteq Request \cup T /\ T \subseteq Request \cup T
    OBVIOUS
  <2>2. outgoing[c] \in Seq(Request \cup T) /\ pkts \in Seq(Request \cup T)
    BY <1>3, <2>1, SeqMonotonic
  <2>3. outgoing'[c] \in Seq(Request \cup T)
    BY <1>5, <2>2, ConcatProperties
  <2> QED BY <2>3, ConcatEmptySeq
<1>7. toServer' = [toServer EXCEPT ![c] = outgoing'[c] \o buffer'[c]]
  BY <1>1, <1>5, SentBy
<1>8. toServer' = [toServer EXCEPT ![c] = @ \o pkts]
  BY <1>4, <1>5, <1>6, <1>7
<1>9. outgoing'[c] = toServer'[c]
  BY <1>1, <1>4, <1>6 DEF AllSent
<1>10. outgoing' = [outgoing EXCEPT ![c] = toServer'[c]]
  BY <1>2, <1>5, <1>9
<1> QED
  BY <1>1, <1>2, <1>8, <1>10 DEF C!Processed

\* The channel to the server is the history again.
Flushes(c) == /\ outgoing' = [outgoing EXCEPT ![c] = toServer'[c]]
              /\ \A d \in Conns : d # c => cl'[d] = cl[d]

\* process does with the answer it is given what it does with the packet.
LEMMA AnswerProcessed ==
  ASSUME ThreadsInv, NEW c \in Conns, IsAnswer(packet[c]), ProcessPacket(c)
  PROVE  Process(c) /\ Flushes(c)
<1> DEFINE h == Head(toClient[c])
           m == Meaning(c, packet[c])
<1>1. /\ Socket!SocketThread(c) /\ UNCHANGED vars
  BY AnswerComes DEF ProcessPacket
<1>2. /\ toClient[c] # <<>> /\ m.op = h.op
      /\ h.op \in {"ACK", "DATA"} => m.block = h.block
      /\ h.op = "DATA" => m.data = h.data
      /\ Delivered[c] = <<m>>
  BY AnswerComes DEF Delivered
<1>3. Head(Delivered[c]) = m
  BY <1>2
<1>4. \A op : Socket!Gets(c, op) => C!Gets(c, op) /\ h.op = op
  BY <1>2, <1>3 DEF Socket!Gets, C!Gets
<1>5. h.op = "ACK" \/ h.op = "DATA" => Socket!Block(c) = C!Block(c)
  BY <1>2, <1>3 DEF Socket!Block, C!Block
<1>6. h.op = "DATA" => /\ Head(Delivered[c]).data = h.data
                       /\ Socket!DataIn(c) = C!DataIn(c)
  BY <1>2, <1>3 DEF Socket!DataIn, C!DataIn
<1>7. \A op : Socket!Acknowledges(c, op) => C!Acknowledges(c, op) /\ h.op = "ACK"
  BY <1>4 DEF Socket!Acknowledges, C!Acknowledges, Socket!Before, C!Before
<1>8. Socket!Downloads(c) => C!Downloads(c) /\ h.op = "DATA"
  BY <1>4 DEF Socket!Downloads, C!Downloads
<1>9. Socket!Uploaded(c) <=> C!Uploaded(c)
  BY DEF Socket!Uploaded, C!Uploaded
<1>10. ASSUME NEW k, NEW T, NEW pkts \in Seq(T), Socket!Processed(c, k, pkts)
       PROVE  C!Processed(c, k, pkts) /\ Flushes(c)
  <2>1. cl' = [cl EXCEPT ![c] = k] /\ cl \in [Conns -> C!ClientProtocol]
    BY <1>10, ObjectTypes DEF Socket!Processed, C!TypeOK
  <2> QED BY <1>10, <2>1, SocketSends DEF Flushes
<1> HIDE DEF h, m
<1>11. ASSUME NEW k, Socket!Processed(c, k, <<>>)
       PROVE  C!Processed(c, k, <<>>) /\ Flushes(c)
  BY <1>10, <1>11, EmptySeq
<1>12. ASSUME NEW k, NEW x, Socket!Processed(c, k, <<x>>)
       PROVE  C!Processed(c, k, <<x>>) /\ Flushes(c)
  <2>1. <<x>> \in Seq({x})
    OBVIOUS
  <2> QED BY <1>10, <1>12, <2>1
<1>13. \A buf : Socket!SendNextPacket(c, buf) => C!SendNextPacket(c, buf) /\ Flushes(c)
  BY <1>12 DEF Socket!SendNextPacket, C!SendNextPacket, Socket!NextBlock, C!NextBlock,
               Socket!DataPacket, C!DataPacket, Socket!Prefix, C!Prefix,
               Socket!Suffix, C!Suffix
<1>14. CASE Socket!AckPlain(c)
  BY <1>14, <1>1, <1>7, <1>11
     DEF Socket!AckPlain, C!AckPlain, C!SocketThread, Process
<1>15. CASE Socket!AckDisc(c)
  BY <1>15, <1>1, <1>7, <1>11
     DEF Socket!AckDisc, C!AckDisc, C!SocketThread, Process
<1>16. CASE Socket!UploadStart(c)
  BY <1>16, <1>1, <1>5, <1>7, <1>9, <1>11, <1>13
     DEF Socket!UploadStart, C!UploadStart, C!SocketThread, Process
<1>17. CASE Socket!UploadNext(c)
  BY <1>17, <1>1, <1>5, <1>7, <1>9, <1>13
     DEF Socket!UploadNext, C!UploadNext, C!SocketThread, Process
<1>18. CASE Socket!UploadComplete(c)
  BY <1>18, <1>1, <1>7, <1>9, <1>11
     DEF Socket!UploadComplete, C!UploadComplete, C!SocketThread, Process
<1>19. CASE Socket!DownloadNext(c)
  <2>1. C!Downloads(c) /\ h.op = "DATA"
    BY <1>8, <1>19 DEF Socket!DownloadNext
  <2>2. /\ Len(h.data) = BlockSize /\ UNCHANGED local
        /\ Socket!Processed(c, [cl[c] EXCEPT !.wholeFile = C!DataIn(c)],
                            <<C!AckPacket(C!Block(c))>>)
    BY <1>5, <1>6, <1>19, <2>1
       DEF Socket!DownloadNext, Socket!AckPacket, C!AckPacket
  <2>3. /\ C!Processed(c, [cl[c] EXCEPT !.wholeFile = C!DataIn(c)],
                       <<C!AckPacket(C!Block(c))>>)
        /\ Flushes(c)
    BY <1>12, <2>2
  <2>4. C!DownloadNext(c)
    BY <2>1, <2>2, <2>3 DEF C!DownloadNext, h
  <2> QED BY <1>1, <2>3, <2>4 DEF C!SocketThread, Process
<1>20. CASE Socket!DownloadComplete(c)
  <2> DEFINE k == [cl[c] EXCEPT !.req["RRQ"] = NONE, !.wholeFile = <<>>]
  <2>1. C!Downloads(c) /\ h.op = "DATA"
    BY <1>8, <1>20 DEF Socket!DownloadComplete
  <2>2. /\ Len(h.data) < BlockSize
        /\ local' = [local EXCEPT ![c][cl[c].req["RRQ"]] = C!DataIn(c)]
        /\ Socket!Processed(c, k, <<C!AckPacket(C!Block(c))>>)
    BY <1>5, <1>6, <1>20, <2>1
       DEF Socket!DownloadComplete, Socket!AckPacket, C!AckPacket
  <2>3. C!Processed(c, k, <<C!AckPacket(C!Block(c))>>) /\ Flushes(c)
    BY <1>12, <2>2
  <2>4. C!DownloadComplete(c)
    BY <2>1, <2>2, <2>3 DEF C!DownloadComplete, h
  <2> QED BY <1>1, <2>3, <2>4 DEF C!SocketThread, Process
<1>21. CASE Socket!Listing(c)
  BY <1>21, <1>1, <1>4, <1>12
     DEF Socket!Listing, C!Listing, C!SocketThread, Process, Socket!AckPacket, C!AckPacket
<1>22. CASE Socket!Dropped(c)
  BY <1>22, <1>1, <1>4, <1>11
     DEF Socket!Dropped, C!Dropped, C!SocketThread, Process
<1>23. CASE Socket!ErrorPrinted(c)
  BY <1>23, <1>1, <1>4, <1>11, <1>12
     DEF Socket!ErrorPrinted, C!ErrorPrinted, C!SocketThread, Process
<1> QED
  BY <1>1, <1>14, <1>15, <1>16, <1>17, <1>18, <1>19, <1>20, <1>21, <1>22, <1>23 DEF Socket!SocketThread

\* A broadcast, or what is no packet from the server, is printed at most.
LEMMA NoAnswer ==
  ASSUME ThreadsInv, NEW c \in Conns, ~IsAnswer(packet[c]), ProcessPacket(c)
  PROVE  UNCHANGED <<systemVars, outgoing>>
<1>1. /\ UNCHANGED <<vars, buffer, toClient>> /\ toServer' = AllSent'
      /\ \/ Familiar(packet[c]) /\ Socket!SocketThread(c)
         \/ UNCHANGED <<cl, ncmd, local, outgoing>>
  BY DEF ProcessPacket
<1>2. UNCHANGED <<cl, ncmd, local, outgoing>>
  <2>1. CASE Familiar(packet[c]) /\ Socket!SocketThread(c)
    <3> DEFINE m == Meaning(c, packet[c])
    <3>1. packet[c].opcode = 9
      BY <2>1 DEF IsAnswer, Familiar, E!getOpcode
    <3>2. m.op = "BCAST"
      BY <3>1 DEF Meaning, BCastPacket
    <3>3. Delivered[c] = <<m>>
      BY <2>1 DEF Delivered
    <3> HIDE DEF m
    <3>4. Head(Delivered[c]).op = "BCAST"
      BY <3>2, <3>3
    <3>5. \A op : Socket!Gets(c, op) => op = "BCAST"
      BY <3>4 DEF Socket!Gets
    <3>6. Socket!Dropped(c)
      BY <2>1, <3>5
         DEF Socket!SocketThread, Socket!AckPlain, Socket!AckDisc, Socket!UploadStart,
             Socket!UploadNext, Socket!UploadComplete, Socket!Acknowledges,
             Socket!DownloadNext, Socket!DownloadComplete, Socket!Downloads,
             Socket!Listing, Socket!ErrorPrinted
    <3>7. /\ cl' = [cl EXCEPT ![c] = cl[c]] /\ UNCHANGED <<ncmd, local>>
          /\ outgoing' = [outgoing EXCEPT ![c] = @ \o <<>>]
      BY <3>6 DEF Socket!Dropped, Socket!Processed
    <3>8. /\ cl \in [Conns -> C!ClientProtocol]
          /\ outgoing \in [Conns -> Seq(Request)] /\ outgoing[c] \in Seq(Request)
      BY ObjectTypes DEF ThreadsInv, ObjectsTypeOK, C!TypeOK
    <3>9. outgoing[c] \o <<>> = outgoing[c]
      BY <3>8, ConcatEmptySeq
    <3> QED BY <3>7, <3>8, <3>9
  <2> QED BY <1>1, <2>1
<1>3. toServer' = toServer
  BY <1>1, <1>2, ObjectTypes DEF AllSent
<1> QED
  BY <1>1, <1>2, <1>3 DEF systemVars, clients

\* A step of process is one of TFTPSystem, or nothing to it.
LEMMA ProcessIsStep ==
  ASSUME ThreadsInv, NEW c \in Conns, ProcessPacket(c)
  PROVE  Process(c) \/ UNCHANGED systemVars
BY AnswerProcessed, NoAnswer

LEMMA ProcessPacketStep ==
  ASSUME ThreadsInv, SystemInv', NEW c \in Conns, ProcessPacket(c)
  PROVE  toServer' = AllSent' /\ ObjectsTypeOK' /\ \A d \in Conns : Placed(d)'
<1>1. /\ packet' = [packet EXCEPT ![c] = E!nullptr]
      /\ UNCHANGED <<incoming, kpc, buffer, ed, pos, crashed>>
      /\ toServer' = AllSent'
      /\ toClient' = IF IsAnswer(packet[c]) THEN [toClient EXCEPT ![c] = Tail(@)]
                     ELSE toClient
  BY DEF ProcessPacket
<1>2. /\ outgoing \in [Conns -> Seq(Request)] /\ DOMAIN packet = Conns
      /\ \A d \in Conns : E!getOpcode(packet[d]) \in 0 .. 10
      /\ toClient \in [Conns -> Seq(Packet)] /\ C!TypeOK
  BY ObjectTypes, SamePackets DEF ThreadsInv, ObjectsTypeOK, C!TypeOK
<1>3. /\ packet'[c] = E!nullptr /\ ~IsAnswer(packet'[c])
      /\ \A d \in Conns : d # c => packet'[d] = packet[d] /\ toClient'[d] = toClient[d]
  BY <1>1, <1>2 DEF IsAnswer, E!getOpcode, E!nullptr
<1>4. /\ \A d \in Conns : d # c => cl'[d] = cl[d]
      /\ outgoing' \in [Conns -> Seq(Request)]
  <2>1. CASE IsAnswer(packet[c])
    <3>1. Flushes(c)
      BY <2>1, AnswerProcessed
    <3>2. C!TypeOK'
      BY DEF SystemInv, ClientTypeOK
    <3>3. toServer'[c] \in Seq(Request)
      BY <3>2, SamePackets DEF C!TypeOK
    <3> QED BY <1>2, <3>1, <3>3 DEF Flushes
  <2>2. CASE ~IsAnswer(packet[c])
    BY <1>2, <2>2, NoAnswer DEF systemVars, clients
  <2> QED BY <2>1, <2>2
<1>5. ObjectsTypeOK'
  <2>1. DOMAIN packet' = Conns
    BY <1>1, <1>2
  <2>2. E!getOpcode(packet'[c]) \in 0 .. 10
    BY <1>3 DEF E!getOpcode, E!nullptr
  <2>3. \A d \in Conns : E!getOpcode(packet'[d]) \in 0 .. 10
    BY <1>2, <1>3, <2>2
  <2> QED BY <1>1, <1>4, <2>1, <2>3 DEF ThreadsInv, ObjectsTypeOK
<1>6. ASSUME NEW d \in Conns, d # c PROVE Placed(d)'
  <2>1. SameThreads(d)
    BY <1>1, <1>3, <1>4, <1>6 DEF SameThreads
  <2> QED BY <2>1, SamePlaced DEF ThreadsInv
<1>7. Typing(c)' /\ InStream(c)'
  <2>1. Typing(c) /\ InStream(c)
    BY ObjectTypes
  <2>2. Typing(c)'
    BY <1>1, <2>1 DEF Typing
  <2> QED BY <1>1, <2>1, <2>2, SameOverwritten
<1>8. InPlace(c)'
  <2>1. CASE IsAnswer(packet[c])
    <3>1. /\ kpc[c] = "getline" /\ Intact(c) /\ incoming[c] = Tail(toClient[c])
      BY <2>1, AnswerComes
    <3>2. toClient'[c] = incoming'[c]
      BY <1>1, <1>2, <2>1, <3>1
    <3>3. InStep(c)'
      BY <1>3, <3>2 DEF InStep
    <3>4. Intact(c)'
      BY <1>1, <3>1, SameIntact
    <3> QED BY <1>1, <3>1, <3>3, <3>4 DEF InPlace
  <2>2. CASE ~IsAnswer(packet[c])
    <3>1. UNCHANGED <<cl, toClient>>
      BY <2>2, NoAnswer DEF systemVars, clients
    <3>2. InStep(c) => InStep(c)'
      BY <1>1, <1>3, <2>2, <3>1 DEF InStep
    <3>3. Lost(c) => Lost(c)'
      BY <1>1, <1>3, <3>1, SameOverwritten DEF Lost, C!Waiting
    <3>4. InPlace(c)
      BY ObjectTypes
    <3> QED BY <1>1, <3>2, <3>3, <3>4, SameIntact, SameOverwritten DEF InPlace
  <2> QED BY <2>1, <2>2
<1>9. Placed(c)'
  BY <1>7, <1>8 DEF Placed
<1> QED
  BY <1>1, <1>5, <1>6, <1>9

-----------------------------------------------------------------------------
(* The theorems.                                                           *)

LEMMA ThreadsBegin == ThreadsInit => ThreadsInv
<1> SUFFICES ASSUME ThreadsInit PROVE ThreadsInv
  OBVIOUS
<1> USE DEF ThreadsInit
<1>1. SystemInv
  BY SystemStarts, InitSafe DEF SystemInit, SystemInv
<1>2. /\ <<>> \in Seq(Request) /\ <<>> \in Seq(Packet)
      /\ E!getOpcode(E!nullptr) = 0 /\ ~IsAnswer(E!nullptr)
  BY EmptySeq DEF E!getOpcode, E!nullptr, IsAnswer
<1>3. E!NewEncoderDecoder \in E!Fields /\ E!NewEncoderDecoder \in K!Fields
      /\ K!Clean(E!NewEncoderDecoder)
  BY SameTypes, K!NewIsClean
<1>4. ObjectsTypeOK
  BY <1>2, <1>3 DEF ObjectsTypeOK
<1>5. toServer = AllSent /\ toClient = incoming
  <2>1. <<>> \o <<>> = <<>>
    BY <1>2, ConcatEmptySeq
  <2>2. AllSent = [c \in Conns |-> <<>>]
    BY <2>1 DEF AllSent
  <2> QED BY <2>2 DEF SystemInit, C!Init
<1>6. ASSUME NEW c \in Conns PROVE Placed(c)
  <2>1. /\ kpc[c] = "getline" /\ buffer[c] = <<>> /\ incoming[c] = <<>> /\ pos[c] = 0
        /\ ed[c] = E!NewEncoderDecoder /\ packet[c] = E!nullptr
        /\ toClient[c] = incoming[c]
    BY <1>5
  <2>2. Intact(c)
    BY <1>3, <2>1, IntactClean
  <2> QED BY <1>2, <2>1, <2>2 DEF Placed, InPlace, Typing, InStream, InStep
<1> QED
  BY <1>1, <1>4, <1>5, <1>6 DEF ThreadsInv

\* Every step of the threads is a step of TFTPSystem or no step to it.
LEMMA ThreadsMoves ==
  ThreadsInv /\ [ThreadsNext]_threadsVars => [SystemNext]_systemVars
<1> SUFFICES ASSUME ThreadsInv, [ThreadsNext]_threadsVars
             PROVE  [SystemNext]_systemVars
  OBVIOUS
<1>1. CASE UNCHANGED threadsVars
  BY <1>1 DEF threadsVars
<1>2. CASE ThreadsNext
  <2>1. PICK c \in Conns : \/ ServerSide(c) \/ GetLine(c) \/ KeyboardThread(c)
                           \/ SocketThread(c) \/ Crash(c)
    BY <1>2 DEF ThreadsNext
  <2>2. CASE ServerSide(c)
    BY <2>2, ServerSideSteps, SystemNextIs
  <2>3. CASE GetLine(c)
    BY <2>3, GetLineStep, SystemNextIs
  <2>4. CASE KeyboardThread(c)
    BY <2>4, KeyboardRests
  <2>5. CASE SocketThread(c)
    BY <2>5, ReadIsStep, ProcessIsStep, SystemNextIs DEF SocketThread
  <2>6. CASE Crash(c)
    BY <2>6, CrashStep
  <2> QED BY <2>1, <2>2, <2>3, <2>4, <2>5, <2>6
<1> QED BY <1>1, <1>2

LEMMA ThreadsSafe == ThreadsInv /\ [ThreadsNext]_threadsVars => ThreadsInv'
<1> SUFFICES ASSUME ThreadsInv, [ThreadsNext]_threadsVars PROVE ThreadsInv'
  OBVIOUS
<1>1. SystemInv'
  BY ThreadsMoves, SystemSafe DEF ThreadsInv
<1>2. CASE UNCHANGED threadsVars
  <2>1. /\ UNCHANGED <<cl, toServer, toClient, outgoing, incoming>>
        /\ UNCHANGED <<kpc, buffer, ed, pos, packet, crashed>>
    BY <1>2 DEF threadsVars, systemVars, clients, threads
  <2>2. toServer' = AllSent'
    <3>1. AllSent' = AllSent
      BY <2>1 DEF AllSent
    <3> QED BY <2>1, <3>1 DEF ThreadsInv
  <2>3. ObjectsTypeOK'
    BY <2>1 DEF ThreadsInv, ObjectsTypeOK
  <2>4. \A c \in Conns : Placed(c)'
    <3>1. \A c \in Conns : SameThreads(c)
      BY <2>1 DEF SameThreads
    <3> QED BY <3>1, SamePlaced DEF ThreadsInv
  <2> QED BY <1>1, <2>2, <2>3, <2>4 DEF ThreadsInv
<1>3. CASE ThreadsNext
  <2>1. PICK c \in Conns : \/ ServerSide(c) \/ GetLine(c) \/ KeyboardThread(c)
                           \/ SocketThread(c) \/ Crash(c)
    BY <1>3 DEF ThreadsNext
  <2>2. toServer' = AllSent' /\ ObjectsTypeOK' /\ \A d \in Conns : Placed(d)'
    <3>1. CASE ServerSide(c)
      BY <1>1, <3>1, ServerSideStep
    <3>2. CASE GetLine(c)
      BY <3>2, GetLineStep DEF GetLine
    <3>3. CASE KeyboardThread(c)
      BY <3>3, KeyboardRests, KeyboardStep
    <3>4. CASE SocketThread(c)
      BY <1>1, <3>4, ReadIsStep, ByteStep, ProcessPacketStep DEF SocketThread
    <3>5. CASE Crash(c)
      BY <3>5, CrashStep
    <3> QED BY <2>1, <3>1, <3>2, <3>3, <3>4, <3>5
  <2> QED BY <1>1, <2>2 DEF ThreadsInv
<1> QED BY <1>2, <1>3

\* The inductive invariant of the threads: that of TFTPSystem, with the place of
\* every decoder in its stream, of which either the client is certain, or it is
\* to be reset, or nothing is decoded any more.
THEOREM ThreadsInvariance == ThreadsSpec => []ThreadsInv
BY ThreadsBegin, ThreadsSafe, PTL DEF ThreadsSpec

\* The fields of the decoder, the vectors and the channels keep their types,
\* whatever the keyboard thread has written over them.
THEOREM ThreadsTypes == ThreadsSpec => []ThreadsTypeOK
<1>1. ThreadsInv => ThreadsTypeOK
  BY ThreadsInvIs
<1> QED BY <1>1, ThreadsInvariance, PTL

\* A client is in step with its stream, between encode and cleanFields, or lost.
THEOREM StaysInStep == ThreadsSpec => []InStepOrLost
<1>1. ThreadsInv => InStepOrLost
  BY ThreadsInvIs
<1> QED BY <1>1, ThreadsInvariance, PTL

\* Two threads on one decoder, with packets cut into bytes, do what TFTPSystem
\* does with whole packets: a client can stop, it cannot do anything else.
THEOREM ThreadsRefine == ThreadsSpec => ImplementsSystem
<1>1. ThreadsInit => SystemInit
  BY DEF ThreadsInit
<1> QED
  BY <1>1, ThreadsMoves, ThreadsInvariance, PTL
     DEF ThreadsSpec, ImplementsSystem, SystemSpec

-----------------------------------------------------------------------------
(* Action properties.                                                      *)

\* What a step of decodeNextByte leaves of the other clients.
LEMMA ReadAlone ==
  ASSUME ThreadsInv, NEW c \in Conns, DecodeNextByte(c), NEW d \in Conns, d # c
  PROVE  /\ packet'[d] = packet[d] /\ ed'[d] = ed[d]
         /\ pos'[d] = pos[d] /\ incoming'[d] = incoming[d]
         /\ UNCHANGED <<kpc, crashed>>
<1>1. /\ incoming \in [Conns -> Seq(Packet)] /\ pos \in [Conns -> Nat]
      /\ ed \in [Conns -> E!Fields] /\ DOMAIN packet = Conns
  BY DEF ThreadsInv, ObjectsTypeOK
<1>2. /\ \E v : ed' = [ed EXCEPT ![c] = v]
      /\ \E v : packet' = [packet EXCEPT ![c] = v]
      /\ UNCHANGED <<kpc, crashed>>
  BY Zenon DEF DecodeNextByte
<1>3. \/ pos' = [pos EXCEPT ![c] = 0] /\ incoming' = [incoming EXCEPT ![c] = Tail(@)]
      \/ pos' = [pos EXCEPT ![c] = @ + 1] /\ incoming' = incoming
  BY DEF DecodeNextByte
<1>4. /\ packet'[d] = packet[d] /\ ed'[d] = ed[d] /\ UNCHANGED <<kpc, crashed>>
  BY <1>1, <1>2
<1>5. pos'[d] = pos[d] /\ incoming'[d] = incoming[d]
  BY <1>1, <1>3
<1> QED
  BY <1>4, <1>5

\* A decoder that is where the stream is reads within its vectors.
LEMMA IntactInRange ==
  ASSUME ThreadsInv, NEW c \in Conns, Intact(c), kpc[c] # "clean",
         packet[c] = E!nullptr, incoming[c] # <<>>
  PROVE  ~E!OutOfRange(ed[c])
<1> DEFINE h == Head(incoming[c])
           p == Wire(h)
<1>1. ~Lost(c)
  BY LostIsTorn
<1>2. InStep(c)
  BY <1>1, ObjectTypes DEF InPlace
<1>3. toClient[c] = incoming[c]
  BY <1>2 DEF InStep, IsAnswer, E!getOpcode, E!nullptr
<1>4. Fits(h) /\ h \in Packet
  BY <1>3, ObjectTypes, HeadFits DEF Fits
<1>5. p \in K!ServerPackets
  BY <1>4, WireFits
<1>6. /\ bytes(c) = K!Enc(p) /\ pos[c] \in Nat /\ pos[c] < Len(bytes(c))
      /\ ed[c] \in K!Fields
  BY ObjectTypes, ServerEncodes, SameTypes DEF bytes, InStream
<1>7. K!Decoding(ed[c], p, K!Enc(p), pos[c])
  BY <1>6, SameDecoding DEF Intact
<1> HIDE DEF p
<1>8. ~K!OutOfRange(ed[c])
  BY <1>5, <1>6, <1>7, K!StaysInRange
<1> QED
  BY <1>8, SameRange

\* What a step can do to a decoder that is where the stream is.
Tears(c) == /\ Intact(c)
            /\ ~Intact(c)' \/ crashed'[c] # crashed[c]

LEMMA KeyboardTears ==
  ASSUME ThreadsInv, NEW c \in Conns, Encode(c) \/ Clean(c), Intact(c), ~Intact(c)'
  PROVE  incoming[c] # <<>> /\ Head(incoming[c]).op = "BCAST"
<1>1. /\ kpc[c] # "getline" /\ InStream(c) /\ pos[c] \in Nat
      /\ ed \in [Conns -> E!Fields]
      /\ kpc \in [Conns -> {"getline", "encode", "clean", "send"}]
  BY ObjectTypes DEF ThreadsInv, ObjectsTypeOK, Encode, Clean, At
<1>2. pos[c] # 0
  <2>1. CASE Encode(c)
    <3>1. kpc'[c] = "clean" /\ pos' = pos
      BY <1>1, <2>1 DEF Encode, Then
    <3> QED BY <3>1 DEF Intact
  <2>2. CASE Clean(c)
    <3>1. kpc[c] = "clean"
      BY <2>2 DEF Clean, At
    <3>2. /\ kpc'[c] # "clean" /\ pos' = pos /\ ed'[c] = K!cleanFields(ed[c])
      BY <1>1, <2>2, SameClean DEF Clean, Then
    <3>3. ed[c] \in K!Fields
      BY <1>1, SameTypes
    <3>4. ed'[c] \in K!Fields /\ K!Clean(ed'[c])
      BY <3>2, <3>3, K!CleanFields
    <3>5. \A q, s : E!Decoding(ed'[c], q, s, 0)
      BY <3>4, K!CleanIsStart, SameDecoding
    <3>6. pos[c] = 0 => Intact(c)'
      BY <3>2, <3>5 DEF Intact
    <3> QED BY <3>6
  <2> QED BY <2>1, <2>2
<1>3. incoming[c] # <<>>
  BY <1>1, <1>2 DEF InStream
<1>4. ~Lost(c)
  BY LostIsTorn
<1> QED
  BY <1>1, <1>3, <1>4, BusyKeyboard DEF IsBroadcast

LEMMA CrashTears ==
  ASSUME ThreadsInv, NEW c \in Conns, Crash(c), Intact(c)
  PROVE  incoming[c] # <<>> /\ Head(incoming[c]).op = "BCAST"
<1>1. /\ packet[c] = E!nullptr /\ incoming[c] # <<>>
      /\ kpc[c] = "encode" \/ kpc[c] = "clean" \/ E!OutOfRange(ed[c])
  BY DEF Crash, Reading, At
<1>2. kpc[c] = "encode" \/ kpc[c] = "clean"
  BY <1>1, IntactInRange
<1>3. ~Lost(c)
  BY LostIsTorn
<1> QED
  BY <1>1, <1>2, <1>3, BusyKeyboard DEF IsBroadcast

\* Only the broadcast that is being read can be torn.
LEMMA TornByBroadcast ==
  ASSUME ThreadsInv, [ThreadsNext]_threadsVars, NEW d \in Conns, Tears(d)
  PROVE  incoming[d] # <<>> /\ Head(incoming[d]).op = "BCAST"
<1>0. /\ kpc \in [Conns -> {"getline", "encode", "clean", "send"}]
      /\ ed \in [Conns -> E!Fields] /\ crashed \in [Conns -> BOOLEAN]
  BY DEF ThreadsInv, ObjectsTypeOK
<1>1. ~(/\ incoming'[d] = incoming[d] /\ ed'[d] = ed[d] /\ pos'[d] = pos[d]
        /\ (kpc'[d] = "clean") = (kpc[d] = "clean") /\ crashed'[d] = crashed[d])
  BY SameIntact DEF Tears
<1>2. CASE UNCHANGED threadsVars
  BY <1>1, <1>2 DEF threadsVars, threads
<1>3. CASE ThreadsNext
  <2>1. PICK c \in Conns : \/ ServerSide(c) \/ GetLine(c) \/ KeyboardThread(c)
                           \/ SocketThread(c) \/ Crash(c)
    BY <1>3 DEF ThreadsNext
  <2>2. CASE ServerThread(c)
    <3>1. SystemInv'
      BY <1>3, ThreadsMoves, SystemSafe DEF ThreadsInv
    <3>2. Intact(d) => Intact(d)'
      BY <2>2, <3>1, ServerThreadStep
    <3>3. crashed' = crashed
      BY <2>2 DEF ServerThread, threads
    <3> QED BY <3>2, <3>3 DEF Tears
  <2>3. CASE ServerReceive(c) \/ ServerAccept(c)
    BY <1>1, <2>3 DEF ServerReceive, ServerAccept, threads
  <2>4. CASE GetLine(c) \/ SendBytes(c)
    <3>1. /\ UNCHANGED <<incoming, ed, pos, crashed>>
          /\ kpc[c] # "clean"
          /\ \/ kpc' = [kpc EXCEPT ![c] = "encode"]
             \/ kpc' = [kpc EXCEPT ![c] = "getline"]
      BY <2>4 DEF GetLine, SendBytes, At, Then
    <3>2. kpc'[d] = "clean" <=> kpc[d] = "clean"
      BY <1>0, <3>1
    <3> QED BY <1>1, <3>1, <3>2
  <2>5. CASE Encode(c) \/ Clean(c)
    <3>1. /\ UNCHANGED <<incoming, pos, crashed>>
          /\ \A b \in Conns : b # c => kpc'[b] = kpc[b] /\ ed'[b] = ed[b]
      BY <1>0, <2>5 DEF Encode, Clean, Then
    <3>2. d = c
      BY <1>1, <3>1
    <3> QED BY <2>5, <3>1, <3>2, KeyboardTears DEF Tears
  <2>6. CASE DecodeNextByte(c)
    <3>1. d = c
      BY <1>1, <2>6, ReadAlone
    <3>2. incoming[c] # <<>> /\ crashed' = crashed
      BY <2>6, ReadFacts
    <3>3. Intact(c)' \/ IsBroadcast(Head(incoming[c]))
      BY <2>6, <3>1, ByteStep DEF Tears
    <3> QED BY <3>1, <3>2, <3>3 DEF Tears, IsBroadcast
  <2>7. CASE ProcessPacket(c)
    BY <1>1, <2>7 DEF ProcessPacket
  <2>8. CASE Crash(c)
    <3>1. /\ UNCHANGED <<incoming, ed, pos, kpc>>
          /\ crashed' = [crashed EXCEPT ![c] = TRUE]
      BY <2>8 DEF Crash
    <3>2. d = c
      BY <1>0, <1>1, <3>1
    <3> QED BY <2>8, <3>2, CrashTears DEF Tears
  <2> QED
    BY <2>1, <2>2, <2>3, <2>4, <2>5, <2>6, <2>7, <2>8
       DEF ServerSide, KeyboardThread, SocketThread
<1> QED
  BY <1>2, <1>3

\* The keyboard thread resets the decoder under the socket thread, and that
\* never costs a client an answer that has begun to arrive.
THEOREM OnlyBroadcastsTorn == ThreadsSpec => TornOnlyByBroadcast
<1>1. ThreadsInv /\ [ThreadsNext]_threadsVars =>
        \A c \in Conns :
          Intact(c) /\ (~Intact(c)' \/ crashed'[c] # crashed[c])
            => incoming[c] # <<>> /\ Head(incoming[c]).op = "BCAST"
  BY TornByBroadcast DEF Tears
<1> QED
  BY <1>1, ThreadsInvariance, PTL DEF ThreadsSpec, TornOnlyByBroadcast

\* What process acts on is what the server has sent, and at its last byte.
LEMMA AnswersAreSent ==
  ASSUME ThreadsInv, [ThreadsNext]_threadsVars, NEW d \in Conns,
         packet'[d] # packet[d], IsAnswer(packet'[d])
  PROVE  packet'[d] = Wire(Head(incoming[d])) /\ incoming'[d] = Tail(incoming[d])
<1>1. DOMAIN packet = Conns
  BY DEF ThreadsInv, ObjectsTypeOK
<1>2. ThreadsNext
  BY DEF threadsVars, threads
<1>3. PICK c \in Conns : \/ ServerSide(c) \/ GetLine(c) \/ KeyboardThread(c)
                         \/ SocketThread(c) \/ Crash(c)
  BY <1>2 DEF ThreadsNext
<1>4. CASE ServerSide(c) \/ GetLine(c) \/ KeyboardThread(c) \/ Crash(c)
  BY <1>4 DEF ServerSide, ServerThread, ServerReceive, ServerAccept, GetLine,
              KeyboardThread, Encode, Clean, SendBytes, Crash, threads
<1>5. CASE ProcessPacket(c)
  <2>1. packet' = [packet EXCEPT ![c] = E!nullptr]
    BY <1>5 DEF ProcessPacket
  <2>2. ~IsAnswer(E!nullptr)
    BY DEF IsAnswer, E!getOpcode, E!nullptr
  <2> QED BY <1>1, <2>1, <2>2
<1>6. CASE DecodeNextByte(c)
  <2>1. d = c
    BY <1>6, ReadAlone
  <2> QED BY <1>6, <2>1, ByteStep
<1> QED
  BY <1>3, <1>4, <1>5, <1>6 DEF SocketThread

\* No order of the two threads, and no byte left over in a vector, makes the
\* client act on an answer the server has not sent, or on one it has not read.
THEOREM NoAnswerInvented == ThreadsSpec => NothingInvented
<1>1. ThreadsInv /\ [ThreadsNext]_threadsVars =>
        \A c \in Conns :
          packet'[c] # packet[c] /\ IsAnswer(packet'[c])
            => /\ packet'[c] = Wire(Head(incoming[c]))
               /\ incoming'[c] = Tail(incoming[c])
  BY AnswersAreSent
<1> QED
  BY <1>1, ThreadsInvariance, PTL DEF ThreadsSpec, NothingInvented

-----------------------------------------------------------------------------
(* What the threads inherit from TFTPSystem.                               *)

\* The agreement of a client and its server thread survives that the client has
\* two threads: what one sends waits in buffer, what the other reads in packet.
THEOREM ThreadsConverse == ThreadsSpec => []Conversation
BY ThreadsRefine, ConversationHolds, PTL DEF ImplementsSystem

\* Byte by byte, on two threads: the three steps in which the server opens, measures
\* and reads a file are all that can come between what it holds and what the client
\* stores.  If nobody removes the file in that time the client's is a copy of what it
\* held at one moment; if it is gone when it is measured, an empty file is stored.
THEOREM ThreadsDownload == NoUploads /\ ThreadsSpec => ImplementsFileCopy
BY ThreadsRefine, DownloadsRefine, PTL DEF ImplementsSystem

\* The same with uploads, which arrive whole, as long as no block number comes round
\* to 0.  A removed file may then be followed by another of its name, to the size of
\* which the download is cut or filled up.
THEOREM ThreadsCopy == OwnUploads /\ ThreadsSpec /\ []NoWrap => ImplementsFileCopy
BY ThreadsRefine, Refinement, PTL DEF ImplementsSystem
=============================================================================
