--------------------------- MODULE Codec_proofs ---------------------------
(***************************************************************************)
(* Byte after byte of a packet that the server encodes, the decoder of the *)
(* client stays where the packet is, and it returns that packet with the   *)
(* last one.                                                               *)
(***************************************************************************)
EXTENDS Codec, SequenceTheorems, WellFoundedInduction, TLAPS

Enc(p) == Server!encode(p)

-----------------------------------------------------------------------------
(* Sequences and shorts.                                                   *)

LEMMA SubSeqNext ==
  ASSUME NEW S, NEW b \in Seq(S), NEW m \in Nat \ {0}, NEW k \in Nat,
         m <= k + 1, k < Len(b)
  PROVE  /\ Append(SubSeq(b, m, k), b[k + 1]) = SubSeq(b, m, k + 1)
         /\ SubSeq(b, m, k) \in Seq(S)
         /\ Len(SubSeq(b, m, k)) = k - m + 1
         /\ \A i \in 1 .. k - m + 1 : SubSeq(b, m, k)[i] = b[m + i - 1]
<1>1. \A i \in m .. k + 1 : b[i] \in S
  BY ElementOfSeq
<1>2. /\ SubSeq(b, m, k) \in Seq(S)
      /\ Len(SubSeq(b, m, k)) = k - m + 1
      /\ \A i \in 1 .. k - m + 1 : SubSeq(b, m, k)[i] = b[m + i - 1]
  BY <1>1, SubSeqProperties
<1>3. /\ SubSeq(b, m, k + 1) \in Seq(S)
      /\ Len(SubSeq(b, m, k + 1)) = k - m + 2
      /\ \A i \in 1 .. k - m + 2 : SubSeq(b, m, k + 1)[i] = b[m + i - 1]
  BY <1>1, SubSeqProperties
<1>4. /\ Append(SubSeq(b, m, k), b[k + 1]) \in Seq(S)
      /\ Len(Append(SubSeq(b, m, k), b[k + 1])) = k - m + 2
      /\ \A i \in 1 .. k - m + 1 :
           Append(SubSeq(b, m, k), b[k + 1])[i] = b[m + i - 1]
      /\ Append(SubSeq(b, m, k), b[k + 1])[k - m + 2] = b[k + 1]
  BY <1>1, <1>2, AppendProperties
<1>5. \A i \in 1 .. k - m + 2 :
        Append(SubSeq(b, m, k), b[k + 1])[i] = SubSeq(b, m, k + 1)[i]
  BY <1>3, <1>4
<1> QED
  BY <1>2, <1>3, <1>4, <1>5, SeqEqual

LEMMA PartNext ==
  ASSUME NEW b \in Seq(Byte), NEW m \in Nat \ {0}, NEW k \in Nat, m <= k + 1, k < Len(b)
  PROVE  /\ Append(Part(b, m, k), b[k + 1]) = Part(b, m, k + 1)
         /\ Part(b, m, k) \in Seq(Byte)
         /\ Len(Part(b, m, k)) = k - m + 1
         /\ \A i \in 1 .. k - m + 1 : Part(b, m, k)[i] = b[m + i - 1]
BY SubSeqNext DEF Part

LEMMA PartEmpty == ASSUME NEW b, NEW m \in Int, NEW n \in Int, n < m PROVE Part(b, m, n) = <<>>
BY SubSeqEmpty DEF Part

\* A short is read back from its two bytes.
LEMMA ShortRoundTrip ==
  ASSUME NEW n \in Short
  PROVE  /\ Server!shortToBytes(n) \in Seq(Byte)
         /\ Len(Server!shortToBytes(n)) = 2
         /\ \A s : /\ s[1] = Server!shortToBytes(n)[1]
                   /\ s[2] = Server!shortToBytes(n)[2]
                   => bytesToShort(s) = n
<1>a. n \in Int /\ -32768 <= n /\ n <= 32767
  <2>1. n \in Int
    BY DEF Short
  <2>2. -32768 <= n
    BY DEF Short
  <2>3. n <= 32767
    BY DEF Short
  <2> QED BY <2>1, <2>2, <2>3
<1> DEFINE q == n \div 256
           hi == q % 256
           lo == n % 256
<1>b. lo \in 0 .. 255
  BY <1>a
<1>c. q \in Int /\ n = 256 * q + lo
  BY <1>a
<1>d. -128 <= q /\ q <= 127
  BY <1>a, <1>b, <1>c
<1>e. hi = IF q < 0 THEN q + 256 ELSE q
  <2> HIDE DEF q
  <2>1. CASE q < 0
    <3>1. hi \in 0 .. 255 /\ \E r \in Int : q = 256 * r + hi
      BY <1>c
    <3> QED BY <2>1, <3>1, <1>c, <1>d
  <2>2. CASE q >= 0
    <3>1. hi \in 0 .. 255 /\ \E r \in Int : q = 256 * r + hi
      BY <1>c
    <3> QED BY <2>2, <3>1, <1>c, <1>d
  <2> QED BY <2>1, <2>2, <1>c
<1> HIDE DEF q, hi, lo
<1>1. hi \in Byte /\ lo \in Byte
  BY <1>b, <1>c, <1>d, <1>e DEF Byte
<1>2. 256 * hi + lo = IF n < 0 THEN n + 65536 ELSE n
  BY <1>a, <1>b, <1>c, <1>d, <1>e
<1>3. Server!shortToBytes(n) = <<hi, lo>>
  BY DEF Server!shortToBytes, hi, lo, q
<1>4. <<hi, lo>> \in Seq(Byte) /\ Len(<<hi, lo>>) = 2
      /\ <<hi, lo>>[1] = hi /\ <<hi, lo>>[2] = lo
  BY <1>1
<1>5. ASSUME NEW s, s[1] = hi, s[2] = lo PROVE bytesToShort(s) = n
  BY <1>1, <1>2, <1>5, <1>a DEF bytesToShort, Byte
<1> QED
  BY <1>3, <1>4, <1>5

LEMMA Assoc == \A a, b, c \in Seq(Byte) : a \o b \o c = a \o (b \o c)
BY ConcatAssociative

LEMMA Concat == \A a, b \in Seq(Byte) :
                  /\ a \o b \in Seq(Byte)
                  /\ Len(a \o b) = Len(a) + Len(b)
                  /\ \A i \in 1 .. Len(a) + Len(b) :
                       (a \o b)[i] = IF i <= Len(a) THEN a[i] ELSE b[i - Len(a)]
BY ConcatProperties

LEMMA OpcodeBytes ==
  ASSUME NEW n \in 1 .. 10
  PROVE  Server!shortToBytes(n) = <<0, n>>
BY DEF Server!shortToBytes

LEMMA TextIsBytes == ASSUME NEW s \in Text
                     PROVE  s \in Seq(Byte) /\ \A i \in 1 .. Len(s) : s[i] # 0
<1>1. 1 .. 255 \subseteq Byte
  BY DEF Byte
<1>2. s \in Seq(Byte)
  BY <1>1, SeqMonotonic DEF Text
<1>3. \A i \in 1 .. Len(s) : s[i] \in 1 .. 255
  BY ElementOfSeq DEF Text
<1>4. 0 \notin 1 .. 255
  OBVIOUS
<1> QED
  BY <1>2, <1>3, <1>4, Zenon

-----------------------------------------------------------------------------
(* The bytes of a packet.                                                  *)

\* What follows the opcode.
Body(p) ==
  CASE p.opcode \in {1, 2, 8} -> p.fileName \o <<0>>
    [] p.opcode = 3 -> Server!shortToBytes(p.packetSize)
                         \o Server!shortToBytes(p.blockNum) \o p.data
    [] p.opcode = 4 -> Server!shortToBytes(p.blockNum)
    [] p.opcode = 5 -> Server!shortToBytes(p.ErrCode) \o p.ErrMsg \o <<0>>
    [] p.opcode = 7 -> p.userName \o <<0>>
    [] p.opcode = 9 -> <<p.delOrAdd>> \o p.fileName \o <<0>>
    [] p.opcode \in {6, 10} -> <<>>

LEMMA PacketKinds ==
  ASSUME NEW p \in ServerPackets
  PROVE  /\ p.opcode \in 1 .. 10
         /\ p.opcode = 1 => p.fileName \in Text /\ p = RRQPacket(p.fileName)
         /\ p.opcode = 2 => p.fileName \in Text /\ p = WRQPacket(p.fileName)
         /\ p.opcode = 3 => /\ p.packetSize \in Short /\ p.blockNum \in Short
                            /\ p.data \in Seq(Byte)
                            /\ p = DataPacket(p.packetSize, p.blockNum, p.data)
         /\ p.opcode = 4 => p.blockNum \in Short /\ p = AckPacket(p.blockNum)
         /\ p.opcode = 5 => /\ p.ErrCode \in Short /\ p.ErrMsg \in Text
                            /\ p = ErrorPacket(p.ErrCode, p.ErrMsg)
         /\ p.opcode = 6 => p = DIRQPacket
         /\ p.opcode = 7 => p.userName \in Text /\ p = LOGRQPacket(p.userName)
         /\ p.opcode = 8 => p.fileName \in Text /\ p = DELRQPacket(p.fileName)
         /\ p.opcode = 9 => /\ p.delOrAdd \in Byte /\ p.fileName \in Text
                            /\ p = BCastPacket(p.delOrAdd, p.fileName)
         /\ p.opcode = 10 => p = DiscPacket
<1>1. CASE p \in RRQPackets
  BY <1>1 DEF RRQPackets, RRQPacket
<1>2. CASE p \in WRQPackets
  BY <1>2 DEF WRQPackets, WRQPacket
<1>3. CASE p \in DataPackets
  BY <1>3 DEF DataPackets, DataPacket
<1>4. CASE p \in AckPackets
  BY <1>4 DEF AckPackets, AckPacket
<1>5. CASE p \in ErrorPackets
  BY <1>5 DEF ErrorPackets, ErrorPacket
<1>6. CASE p \in DIRQPackets
  BY <1>6 DEF DIRQPackets, DIRQPacket
<1>7. CASE p \in LOGRQPackets
  BY <1>7 DEF LOGRQPackets, LOGRQPacket
<1>8. CASE p \in DELRQPackets
  BY <1>8 DEF DELRQPackets, DELRQPacket
<1>9. CASE p \in BCastPackets
  BY <1>9 DEF BCastPackets, BCastPacket
<1>10. CASE p \in DiscPackets
  BY <1>10 DEF DiscPackets, DiscPacket
<1> QED
  BY <1>1, <1>2, <1>3, <1>4, <1>5, <1>6, <1>7, <1>8, <1>9, <1>10 DEF ServerPackets

LEMMA BodyBytes ==
  ASSUME NEW p \in ServerPackets
  PROVE  Body(p) \in Seq(Byte)
<1>0. \A b \in Byte : <<b>> \in Seq(Byte)
  OBVIOUS
<1>1. <<0>> \in Seq(Byte)
  BY <1>0 DEF Byte
<1> USE <1>0, <1>1, PacketKinds, TextIsBytes, ShortRoundTrip, ConcatProperties
<1>2. CASE p.opcode \in {1, 2, 8}
  BY <1>2 DEF Body
<1>3. CASE p.opcode = 3
  <2>1. Server!shortToBytes(p.packetSize) \o Server!shortToBytes(p.blockNum) \in Seq(Byte)
    BY <1>3
  <2> QED BY <1>3, <2>1 DEF Body
<1>4. CASE p.opcode = 4
  BY <1>4 DEF Body
<1>5. CASE p.opcode = 5
  <2>1. Server!shortToBytes(p.ErrCode) \o p.ErrMsg \in Seq(Byte)
    BY <1>5
  <2> QED BY <1>5, <2>1 DEF Body
<1>6. CASE p.opcode = 7
  BY <1>6 DEF Body
<1>7. CASE p.opcode = 9
  <2>1. <<p.delOrAdd>> \o p.fileName \in Seq(Byte)
    BY <1>7
  <2> QED BY <1>7, <2>1 DEF Body
<1>8. CASE p.opcode \in {6, 10}
  BY <1>8 DEF Body
<1> QED
  BY <1>2, <1>3, <1>4, <1>5, <1>6, <1>7, <1>8

LEMMA EncIsBody ==
  ASSUME NEW p \in ServerPackets
  PROVE  /\ Enc(p) \in Seq(Byte)
         /\ Len(Enc(p)) = 2 + Len(Body(p))
         /\ Enc(p)[1] = 0
         /\ Enc(p)[2] = p.opcode
         /\ \A i \in 1 .. Len(Body(p)) : Enc(p)[i + 2] = Body(p)[i]
<1> DEFINE ob == Server!shortToBytes(p.opcode)
<1>1. ob = <<0, p.opcode>> /\ p.opcode \in 1 .. 10
  BY OpcodeBytes, PacketKinds
<1>2. ob \in Seq(Byte) /\ Len(ob) = 2 /\ ob[1] = 0 /\ ob[2] = p.opcode
  <2>1. p.opcode \in Byte /\ 0 \in Byte
    BY <1>1 DEF Byte
  <2> QED BY <1>1, <2>1
<1>3. Enc(p) = ob \o Body(p)
  <2> HIDE DEF ob
  <2>0. <<0>> \in Seq(Byte) /\ \A b \in Byte : <<b>> \in Seq(Byte)
    BY DEF Byte
  <2>1. CASE p.opcode \in {1, 2, 8}
    <3>0. /\ p.opcode \notin {6, 10}
          /\ p.opcode # 3 /\ p.opcode # 4 /\ p.opcode # 5 /\ p.opcode # 7 /\ p.opcode # 9
      BY <2>1
    <3>1. Enc(p) = ob \o p.fileName \o <<0>>
      BY <2>1, <3>0, Zenon DEF Enc, Server!encode, Server!getOpcode, ob
    <3>2. Body(p) = p.fileName \o <<0>>
      BY <2>1, <3>0, Zenon DEF Body
    <3>3. p.fileName \in Seq(Byte)
      BY <2>1, PacketKinds, TextIsBytes
    <3>4. ob \o p.fileName \o <<0>> = ob \o (p.fileName \o <<0>>)
      BY <2>0, <3>3, <1>2, Assoc, Zenon
    <3> QED BY <3>1, <3>2, <3>4
  <2>2. CASE p.opcode = 3
    <3>0. /\ p.opcode \notin {1, 2, 8} /\ p.opcode \notin {6, 10}
          /\ p.opcode # 4 /\ p.opcode # 5 /\ p.opcode # 7 /\ p.opcode # 9
      BY <2>2
    <3> DEFINE sz == Server!shortToBytes(p.packetSize)
               bn == Server!shortToBytes(p.blockNum)
    <3>1. Enc(p) = ob \o sz \o bn \o p.data
      BY <2>2, <3>0, Zenon DEF Enc, Server!encode, Server!getOpcode, ob
    <3>2. sz \in Seq(Byte) /\ bn \in Seq(Byte) /\ p.data \in Seq(Byte)
      BY <2>2, PacketKinds, ShortRoundTrip
    <3>3. Body(p) = sz \o bn \o p.data
      BY <2>2, <3>0, Zenon DEF Body
    <3> HIDE DEF sz, bn
    <3>4. sz \o bn \in Seq(Byte)
      BY <3>2, ConcatProperties
    <3>5. ob \o sz \o bn = ob \o (sz \o bn)
      BY <1>2, <3>2, Assoc, Zenon
    <3>6. ob \o (sz \o bn) \o p.data = ob \o (sz \o bn \o p.data)
      BY <1>2, <3>2, <3>4, Assoc, Zenon
    <3> QED BY <3>1, <3>3, <3>5, <3>6
  <2>3. CASE p.opcode = 4
    BY <2>3 DEF Enc, Server!encode, Server!getOpcode, ob, Body
  <2>4. CASE p.opcode = 5
    <3>0. /\ p.opcode \notin {1, 2, 8} /\ p.opcode \notin {6, 10}
          /\ p.opcode # 3 /\ p.opcode # 4 /\ p.opcode # 7 /\ p.opcode # 9
      BY <2>4
    <3> DEFINE ec == Server!shortToBytes(p.ErrCode)
    <3>1. Enc(p) = ob \o ec \o p.ErrMsg \o <<0>>
      BY <2>4, <3>0, Zenon DEF Enc, Server!encode, Server!getOpcode, ob
    <3>2. ec \in Seq(Byte) /\ p.ErrMsg \in Seq(Byte)
      BY <2>4, PacketKinds, ShortRoundTrip, TextIsBytes
    <3>3. Body(p) = ec \o p.ErrMsg \o <<0>>
      BY <2>4, <3>0, Zenon DEF Body
    <3> HIDE DEF ec
    <3>4. ec \o p.ErrMsg \in Seq(Byte)
      BY <3>2, ConcatProperties
    <3>5. ob \o ec \o p.ErrMsg = ob \o (ec \o p.ErrMsg)
      BY <1>2, <3>2, Assoc, Zenon
    <3>6. ob \o (ec \o p.ErrMsg) \o <<0>> = ob \o (ec \o p.ErrMsg \o <<0>>)
      BY <1>2, <2>0, <3>4, Assoc, Zenon
    <3> QED BY <3>1, <3>3, <3>5, <3>6
  <2>5. CASE p.opcode = 7
    <3>0. /\ p.opcode \notin {1, 2, 8} /\ p.opcode \notin {6, 10}
          /\ p.opcode # 3 /\ p.opcode # 4 /\ p.opcode # 5 /\ p.opcode # 9
      BY <2>5
    <3>1. Enc(p) = ob \o p.userName \o <<0>>
      BY <2>5, <3>0, Zenon DEF Enc, Server!encode, Server!getOpcode, ob
    <3>2. Body(p) = p.userName \o <<0>>
      BY <2>5, <3>0, Zenon DEF Body
    <3>3. p.userName \in Seq(Byte)
      BY <2>5, PacketKinds, TextIsBytes
    <3>4. ob \o p.userName \o <<0>> = ob \o (p.userName \o <<0>>)
      BY <2>0, <3>3, <1>2, Assoc, Zenon
    <3> QED BY <3>1, <3>2, <3>4
  <2>6. CASE p.opcode = 9
    <3>0. /\ p.opcode \notin {1, 2, 8} /\ p.opcode \notin {6, 10}
          /\ p.opcode # 3 /\ p.opcode # 4 /\ p.opcode # 5 /\ p.opcode # 7
      BY <2>6
    <3> DEFINE da == <<p.delOrAdd>>
    <3>1. Enc(p) = ob \o da \o p.fileName \o <<0>>
      BY <2>6, <3>0, Zenon DEF Enc, Server!encode, Server!getOpcode, ob
    <3>2. da \in Seq(Byte) /\ p.fileName \in Seq(Byte)
      BY <2>0, <2>6, PacketKinds, TextIsBytes
    <3>3. Body(p) = da \o p.fileName \o <<0>>
      BY <2>6, <3>0, Zenon DEF Body
    <3> HIDE DEF da
    <3>4. da \o p.fileName \in Seq(Byte)
      BY <3>2, ConcatProperties
    <3>5. ob \o da \o p.fileName = ob \o (da \o p.fileName)
      BY <1>2, <3>2, Assoc, Zenon
    <3>6. ob \o (da \o p.fileName) \o <<0>> = ob \o (da \o p.fileName \o <<0>>)
      BY <1>2, <2>0, <3>4, Assoc, Zenon
    <3> QED BY <3>1, <3>3, <3>5, <3>6
  <2>7. CASE p.opcode \in {6, 10}
    <3>1. Enc(p) = ob /\ Body(p) = <<>>
      BY <2>7 DEF Enc, Server!encode, Server!getOpcode, ob, Body
    <3> QED BY <1>2, <3>1, ConcatEmptySeq
  <2> QED BY <1>1, <2>1, <2>2, <2>3, <2>4, <2>5, <2>6, <2>7
<1>4. Body(p) \in Seq(Byte)
  BY BodyBytes
<1> HIDE DEF ob
<1> DEFINE e == ob \o Body(p)
<1>5. /\ e \in Seq(Byte)
      /\ Len(e) = Len(ob) + Len(Body(p))
      /\ \A i \in 1 .. Len(ob) + Len(Body(p)) :
           e[i] = IF i <= Len(ob) THEN ob[i] ELSE Body(p)[i - Len(ob)]
  BY <1>2, <1>4, Concat, Zenon
<1>6. Len(Body(p)) \in Nat
  BY <1>4, LenProperties
<1>7. Enc(p) = e
  BY <1>3
<1> HIDE DEF e
<1>8. ASSUME NEW i \in 1 .. Len(Body(p)) PROVE e[i + 2] = Body(p)[i]
  <2>1. i + 2 \in 1 .. Len(ob) + Len(Body(p)) /\ ~(i + 2 <= Len(ob)) /\ (i + 2) - Len(ob) = i
    BY <1>2, <1>6
  <2> QED BY <1>5, <2>1
<1>9. e[1] = 0 /\ e[2] = p.opcode
  BY <1>2, <1>5, <1>6
<1> QED
  BY <1>2, <1>5, <1>7, <1>8, <1>9

\* What is collected of a packet that ends with a '\0'.
Rest(p) ==
  CASE p.opcode \in {1, 2, 8} -> p.fileName
    [] p.opcode = 5 -> Server!shortToBytes(p.ErrCode) \o p.ErrMsg
    [] p.opcode = 7 -> p.userName
    [] p.opcode = 9 -> <<p.delOrAdd>> \o p.fileName

LEMMA RestBytes ==
  ASSUME NEW p \in ServerPackets, p.opcode \in ZeroTerminated
  PROVE  /\ Rest(p) \in Seq(Byte)
         /\ Body(p) = Rest(p) \o <<0>>
<1>0. /\ <<0>> \in Seq(Byte)
      /\ \A b \in Byte : <<b>> \in Seq(Byte)
  BY DEF Byte
<1>1. p.opcode \notin {6, 10} /\ p.opcode # 3 /\ p.opcode # 4
  BY DEF ZeroTerminated
<1>2. CASE p.opcode \in {1, 2, 8}
  <2>0. p.opcode # 5 /\ p.opcode # 7 /\ p.opcode # 9
    BY <1>2
  <2>1. Rest(p) = p.fileName /\ Body(p) = p.fileName \o <<0>>
    BY <1>1, <1>2, <2>0, Zenon DEF Rest, Body
  <2> QED BY <1>2, <2>1, PacketKinds, TextIsBytes
<1>3. CASE p.opcode = 5
  <2>0. p.opcode \notin {1, 2, 8} /\ p.opcode # 7 /\ p.opcode # 9
    BY <1>3
  <2> DEFINE ec == Server!shortToBytes(p.ErrCode)
  <2>1. Rest(p) = ec \o p.ErrMsg /\ Body(p) = ec \o p.ErrMsg \o <<0>>
    BY <1>1, <1>3, <2>0, Zenon DEF Rest, Body
  <2>2. ec \in Seq(Byte) /\ p.ErrMsg \in Seq(Byte)
    BY <1>3, PacketKinds, TextIsBytes, ShortRoundTrip
  <2> HIDE DEF ec
  <2>3. ec \o p.ErrMsg \in Seq(Byte)
    BY <2>2, Concat, Zenon
  <2> QED BY <2>1, <2>3, Zenon
<1>4. CASE p.opcode = 7
  <2>0. p.opcode \notin {1, 2, 8} /\ p.opcode # 5 /\ p.opcode # 9
    BY <1>4
  <2>1. Rest(p) = p.userName /\ Body(p) = p.userName \o <<0>>
    BY <1>1, <1>4, <2>0, Zenon DEF Rest, Body
  <2> QED BY <1>4, <2>1, PacketKinds, TextIsBytes
<1>5. CASE p.opcode = 9
  <2>0. p.opcode \notin {1, 2, 8} /\ p.opcode # 5 /\ p.opcode # 7
    BY <1>5
  <2> DEFINE da == <<p.delOrAdd>>
  <2>1. Rest(p) = da \o p.fileName /\ Body(p) = da \o p.fileName \o <<0>>
    BY <1>1, <1>5, <2>0, Zenon DEF Rest, Body
  <2>2. da \in Seq(Byte) /\ p.fileName \in Seq(Byte)
    BY <1>0, <1>5, PacketKinds, TextIsBytes
  <2> HIDE DEF da
  <2>3. da \o p.fileName \in Seq(Byte)
    BY <2>2, Concat, Zenon
  <2> QED BY <2>1, <2>3, Zenon
<1> QED
  BY <1>2, <1>3, <1>4, <1>5 DEF ZeroTerminated

LEMMA RestInEnc ==
  ASSUME NEW p \in ServerPackets, p.opcode \in ZeroTerminated
  PROVE  /\ Len(Rest(p)) \in Nat
         /\ Len(Enc(p)) = Len(Rest(p)) + 3
         /\ Enc(p)[Len(Rest(p)) + 3] = 0
         /\ \A i \in 1 .. Len(Rest(p)) : Enc(p)[i + 2] = Rest(p)[i]
         /\ Part(Enc(p), 3, Len(Rest(p)) + 2) = Rest(p)
<1> DEFINE r == Rest(p)
           z == <<0>>
           t == r \o z
           e == Enc(p)
<1>1. r \in Seq(Byte) /\ Body(p) = t
  BY RestBytes
<1>2. z \in Seq(Byte) /\ Len(z) = 1 /\ z[1] = 0
  BY DEF Byte
<1>3. /\ e \in Seq(Byte)
      /\ Len(e) = 2 + Len(t)
      /\ \A i \in 1 .. Len(t) : e[i + 2] = t[i]
  BY <1>1, EncIsBody
<1> HIDE DEF r, z, e
<1>4. /\ Len(t) = Len(r) + Len(z)
      /\ \A i \in 1 .. Len(r) + Len(z) :
           t[i] = IF i <= Len(r) THEN r[i] ELSE z[i - Len(r)]
  BY <1>1, <1>2, Concat, Zenon
<1>5. Len(r) \in Nat
  BY <1>1, LenProperties
<1> HIDE DEF t
<1>6. Len(e) = Len(r) + 3
  BY <1>2, <1>3, <1>4, <1>5
<1>7. e[Len(r) + 3] = 0
  <2>1. t[Len(r) + 1] = 0
    BY <1>2, <1>4, <1>5
  <2>2. Len(r) + 1 \in 1 .. Len(t) /\ (Len(r) + 1) + 2 = Len(r) + 3
    BY <1>2, <1>4, <1>5
  <2> QED BY <1>3, <2>1, <2>2
<1>8. \A i \in 1 .. Len(r) : e[i + 2] = r[i]
  BY <1>2, <1>3, <1>4, <1>5
<1>9. SubSeq(e, 3, Len(r) + 2) = r
  <2>1. \A i \in 3 .. Len(r) + 2 : e[i] \in Byte
    BY <1>3, <1>5, <1>6, ElementOfSeq
  <2>2. /\ SubSeq(e, 3, Len(r) + 2) \in Seq(Byte)
        /\ Len(SubSeq(e, 3, Len(r) + 2)) =
             IF 3 <= Len(r) + 2 THEN Len(r) + 2 - 3 + 1 ELSE 0
        /\ \A i \in 1 .. Len(r) + 2 - 3 + 1 : SubSeq(e, 3, Len(r) + 2)[i] = e[3 + i - 1]
    BY <1>5, <2>1, SubSeqProperties
  <2> DEFINE u == SubSeq(e, 3, Len(r) + 2)
  <2>3. u \in Seq(Byte) /\ Len(u) = Len(r) /\ \A i \in 1 .. Len(r) : u[i] = e[i + 2]
    BY <1>5, <2>2
  <2> HIDE DEF u
  <2>4. u = r
    BY <1>1, <1>8, <2>3, SeqEqual
  <2> QED BY <2>4 DEF u
<1> QED
  BY <1>5, <1>6, <1>7, <1>8, <1>9 DEF e, r, Part

\* The fields of an ERROR and of a BCAST are told from the bytes collected.
LEMMA ErrorRest ==
  ASSUME NEW p \in ServerPackets, p.opcode = 5
  PROVE  /\ Len(Rest(p)) = Len(p.ErrMsg) + 2
         /\ bytesToShort(Rest(p)) = p.ErrCode
         /\ popTwoFirstBytes(Rest(p)) = p.ErrMsg
         /\ \A i \in 1 .. Len(p.ErrMsg) : Rest(p)[i + 2] = p.ErrMsg[i]
<1> DEFINE ec == Server!shortToBytes(p.ErrCode)
           m == p.ErrMsg
           r == ec \o m
<1>0. p.opcode \notin {1, 2, 8} /\ p.opcode # 7 /\ p.opcode # 9
  OBVIOUS
<1>1. Rest(p) = r
  BY <1>0, Zenon DEF Rest
<1>2. /\ ec \in Seq(Byte) /\ Len(ec) = 2
      /\ m \in Seq(Byte)
      /\ \A s : s[1] = ec[1] /\ s[2] = ec[2] => bytesToShort(s) = p.ErrCode
  BY PacketKinds, TextIsBytes, ShortRoundTrip
<1> HIDE DEF ec, m
<1>3. /\ r \in Seq(Byte)
      /\ Len(r) = Len(ec) + Len(m)
      /\ \A i \in 1 .. Len(ec) + Len(m) :
           r[i] = IF i <= Len(ec) THEN ec[i] ELSE m[i - Len(ec)]
  BY <1>2, Concat, Zenon
<1> HIDE DEF r
<1>4. Len(m) \in Nat
  BY <1>2, LenProperties
<1>5. r[1] = ec[1] /\ r[2] = ec[2]
  BY <1>2, <1>3, <1>4
<1>6. \A i \in 1 .. Len(m) : r[i + 2] = m[i]
  BY <1>2, <1>3, <1>4
<1>7. SubSeq(r, 3, Len(r)) = m
  <2>1. \A i \in 3 .. Len(r) : r[i] \in Byte
    BY <1>3, ElementOfSeq
  <2> DEFINE u == SubSeq(r, 3, Len(r))
  <2>2. /\ u \in Seq(Byte)
        /\ Len(u) = IF 3 <= Len(r) THEN Len(r) - 3 + 1 ELSE 0
        /\ \A i \in 1 .. Len(r) - 3 + 1 : u[i] = r[3 + i - 1]
    BY <1>2, <1>3, <1>4, <2>1, SubSeqProperties
  <2> HIDE DEF u
  <2>3. Len(u) = Len(m) /\ \A i \in 1 .. Len(m) : u[i] = r[i + 2]
    BY <1>2, <1>3, <1>4, <2>2
  <2>4. u = m
    BY <1>2, <1>6, <2>2, <2>3, SeqEqual
  <2> QED BY <2>4 DEF u
<1> QED
  BY <1>1, <1>2, <1>3, <1>5, <1>6, <1>7 DEF popTwoFirstBytes, m

LEMMA BCastRest ==
  ASSUME NEW p \in ServerPackets, p.opcode = 9
  PROVE  /\ Rest(p) # <<>>
         /\ Len(Rest(p)) = Len(p.fileName) + 1
         /\ Head(Rest(p)) = p.delOrAdd
         /\ Tail(Rest(p)) = p.fileName
         /\ \A i \in 1 .. Len(p.fileName) : Rest(p)[i + 1] = p.fileName[i]
<1> DEFINE da == <<p.delOrAdd>>
           m == p.fileName
           r == da \o m
<1>0. p.opcode \notin {1, 2, 8} /\ p.opcode # 7 /\ p.opcode # 5
  OBVIOUS
<1>1. Rest(p) = r
  BY <1>0, Zenon DEF Rest
<1>2. /\ da \in Seq(Byte) /\ Len(da) = 1 /\ da[1] = p.delOrAdd
      /\ m \in Seq(Byte)
  BY PacketKinds, TextIsBytes
<1> HIDE DEF da, m
<1>3. /\ r \in Seq(Byte)
      /\ Len(r) = Len(da) + Len(m)
      /\ \A i \in 1 .. Len(da) + Len(m) :
           r[i] = IF i <= Len(da) THEN da[i] ELSE m[i - Len(da)]
  BY <1>2, Concat, Zenon
<1> HIDE DEF r
<1>4. Len(m) \in Nat
  BY <1>2, LenProperties
<1>5. r # <<>> /\ r[1] = p.delOrAdd
  <2>1. r[1] = p.delOrAdd /\ Len(r) > 0
    BY <1>2, <1>3, <1>4
  <2> QED BY <2>1
<1>6. \A i \in 1 .. Len(m) : r[i + 1] = m[i]
  BY <1>2, <1>3, <1>4
<1>7. Tail(r) = m
  <2>1. /\ Tail(r) \in Seq(Byte)
        /\ Len(Tail(r)) = Len(r) - 1
        /\ \A i \in 1 .. Len(Tail(r)) : Tail(r)[i] = r[i + 1]
    BY <1>3, <1>5, HeadTailProperties
  <2> QED BY <1>2, <1>3, <1>4, <1>6, <2>1, SeqEqual
<1>8. Head(r) = r[1]
  BY <1>3, <1>5
<1> QED
  BY <1>1, <1>2, <1>3, <1>4, <1>5, <1>6, <1>7, <1>8 DEF m

\* The '\0' at its end completes a packet.
LEMMA ZeroCompletes ==
  ASSUME NEW p \in ServerPackets, WellFormed(p), p.opcode \in ZeroTerminated,
         NEW e, e.opcode = p.opcode, e.dataToDecode = Rest(p)
  PROVE  handleCasesWithZeroAtTheEnd(e, 0) = p
<1> DEFINE b == e.dataToDecode
<1>0. p.opcode \in 1 .. 10 /\ b = Rest(p)
  BY PacketKinds
<1>1. CASE p.opcode \in {1, 2, 7, 8}
  <2>1. Rest(p) = IF p.opcode = 7 THEN p.userName ELSE p.fileName
    BY <1>1 DEF Rest
  <2>2. handleCasesWithZeroAtTheEnd(e, 0) =
          CASE p.opcode = 8 -> DELRQPacket(b) [] p.opcode = 7 -> LOGRQPacket(b)
            [] p.opcode = 2 -> WRQPacket(b) [] p.opcode = 1 -> RRQPacket(b)
    BY <1>1 DEF handleCasesWithZeroAtTheEnd
  <2> QED BY <1>0, <1>1, <2>1, <2>2, PacketKinds
<1>2. CASE p.opcode = 5
  <2>1. Len(b) > 1
    <3>1. Len(p.ErrMsg) \in Nat
      BY <1>2, PacketKinds, TextIsBytes, LenProperties
    <3> QED BY <1>0, <1>2, <3>1, ErrorRest
  <2>2. handleCasesWithZeroAtTheEnd(e, 0)
          = ErrorPacket(bytesToShort(b), popTwoFirstBytes(b))
    BY <1>2, <2>1 DEF handleCasesWithZeroAtTheEnd
  <2> QED BY <1>0, <1>2, <2>2, ErrorRest, PacketKinds
<1>3. CASE p.opcode = 9
  <2>1. Len(b) > 1
    <3>1. p.fileName \in Seq(Byte) /\ p.fileName # <<>>
      BY <1>3, PacketKinds, TextIsBytes DEF WellFormed
    <3>2. Len(p.fileName) > 0
      BY <3>1, EmptySeq, LenProperties
    <3> QED BY <1>0, <1>3, <3>2, BCastRest
  <2>2. handleCasesWithZeroAtTheEnd(e, 0) = BCastPacket(Head(b), Tail(b))
    BY <1>3, <2>1 DEF handleCasesWithZeroAtTheEnd
  <2> QED BY <1>0, <1>3, <2>2, BCastRest, PacketKinds
<1> QED
  BY <1>1, <1>2, <1>3 DEF ZeroTerminated

\* Nothing before it does.
LEMMA ZeroPending ==
  ASSUME NEW p \in ServerPackets, WellFormed(p), p.opcode \in ZeroTerminated,
         NEW e, e.opcode = p.opcode,
         Len(e.dataToDecode) \in 0 .. Len(Rest(p)) - 1
  PROVE  handleCasesWithZeroAtTheEnd(e, Rest(p)[Len(e.dataToDecode) + 1]) = nullptr
<1> DEFINE n == Len(e.dataToDecode)
           b == Rest(p)[n + 1]
<1>0. n \in 0 .. Len(Rest(p)) - 1 /\ Len(Rest(p)) \in Nat
  BY RestInEnc
<1>1. CASE p.opcode \in {1, 2, 7, 8}
  <2>1. Rest(p) = IF p.opcode = 7 THEN p.userName ELSE p.fileName
    BY <1>1 DEF Rest
  <2>2. \A i \in 1 .. Len(Rest(p)) : Rest(p)[i] # 0
    BY <1>1, <2>1, PacketKinds, TextIsBytes
  <2>3. n + 1 \in 1 .. Len(Rest(p))
    BY <1>0
  <2> HIDE DEF n
  <2>4. b # 0
    BY <2>2, <2>3
  <2> QED BY <2>4 DEF handleCasesWithZeroAtTheEnd, n
<1>2. CASE p.opcode = 5
  <2>1. CASE n > 1
    <3>1. /\ n - 1 \in 1 .. Len(p.ErrMsg) /\ (n - 1) + 2 = n + 1
      BY <1>0, <1>2, <2>1, ErrorRest, PacketKinds, TextIsBytes, LenProperties
    <3> HIDE DEF n
    <3>2. b = p.ErrMsg[n - 1]
      BY <1>2, <3>1, ErrorRest
    <3>3. b # 0
      BY <1>2, <3>1, <3>2, PacketKinds, TextIsBytes
    <3> QED BY <3>3 DEF handleCasesWithZeroAtTheEnd, n
  <2>2. CASE ~(n > 1)
    BY <1>2, <2>2 DEF handleCasesWithZeroAtTheEnd
  <2> QED BY <2>1, <2>2
<1>3. CASE p.opcode = 9
  <2>1. CASE n > 1
    <3>1. /\ n \in 1 .. Len(p.fileName)
      BY <1>0, <1>3, <2>1, BCastRest, PacketKinds, TextIsBytes, LenProperties
    <3> HIDE DEF n
    <3>2. b = p.fileName[n]
      BY <1>3, <3>1, BCastRest
    <3>3. b # 0
      BY <1>3, <3>1, <3>2, PacketKinds, TextIsBytes
    <3> QED BY <3>3 DEF handleCasesWithZeroAtTheEnd, n
  <2>2. CASE ~(n > 1)
    BY <1>3, <2>2 DEF handleCasesWithZeroAtTheEnd
  <2> QED BY <2>1, <2>2
<1> QED
  BY <1>1, <1>2, <1>3 DEF ZeroTerminated

LEMMA AckLayout ==
  ASSUME NEW p \in ServerPackets, p.opcode = 4
  PROVE  /\ Len(Enc(p)) = 4
         /\ \A s : s[1] = Enc(p)[3] /\ s[2] = Enc(p)[4] => bytesToShort(s) = p.blockNum
<1> DEFINE bn == Server!shortToBytes(p.blockNum)
<1>1. Body(p) = bn
  BY DEF Body
<1>2. /\ bn \in Seq(Byte) /\ Len(bn) = 2
      /\ \A s : s[1] = bn[1] /\ s[2] = bn[2] => bytesToShort(s) = p.blockNum
  BY PacketKinds, ShortRoundTrip
<1> HIDE DEF bn
<1>3. Len(Enc(p)) = 2 + Len(bn) /\ \A i \in 1 .. Len(bn) : Enc(p)[i + 2] = bn[i]
  BY <1>1, EncIsBody
<1>4. Enc(p)[3] = bn[1] /\ Enc(p)[4] = bn[2]
  <2>1. Enc(p)[1 + 2] = bn[1] /\ Enc(p)[2 + 2] = bn[2]
    BY <1>2, <1>3
  <2> QED BY <2>1
<1> QED
  BY <1>2, <1>3, <1>4

LEMMA DataLayout ==
  ASSUME NEW p \in ServerPackets, p.opcode = 3
  PROVE  /\ Len(Enc(p)) = 6 + Len(p.data)
         /\ \A s : s[1] = Enc(p)[3] /\ s[2] = Enc(p)[4] => bytesToShort(s) = p.packetSize
         /\ \A s : s[1] = Enc(p)[5] /\ s[2] = Enc(p)[6] => bytesToShort(s) = p.blockNum
         /\ \A i \in 1 .. Len(p.data) : Enc(p)[i + 6] = p.data[i]
<1> DEFINE sz == Server!shortToBytes(p.packetSize)
           bn == Server!shortToBytes(p.blockNum)
           d == p.data
           h == sz \o bn
           w == h \o d
<1>0. p.opcode \notin {1, 2, 8} /\ p.opcode \notin {6, 10}
      /\ p.opcode # 4 /\ p.opcode # 5 /\ p.opcode # 7 /\ p.opcode # 9
  OBVIOUS
<1>1. Body(p) = w
  BY <1>0, Zenon DEF Body
<1>2. /\ sz \in Seq(Byte) /\ Len(sz) = 2
      /\ bn \in Seq(Byte) /\ Len(bn) = 2
      /\ d \in Seq(Byte)
      /\ \A s : s[1] = sz[1] /\ s[2] = sz[2] => bytesToShort(s) = p.packetSize
      /\ \A s : s[1] = bn[1] /\ s[2] = bn[2] => bytesToShort(s) = p.blockNum
  BY PacketKinds, ShortRoundTrip
<1> HIDE DEF sz, bn, d
<1>3. /\ h \in Seq(Byte)
      /\ Len(h) = Len(sz) + Len(bn)
      /\ \A i \in 1 .. Len(sz) + Len(bn) :
           h[i] = IF i <= Len(sz) THEN sz[i] ELSE bn[i - Len(sz)]
  BY <1>2, Concat, Zenon
<1> HIDE DEF h
<1>4. /\ w \in Seq(Byte)
      /\ Len(w) = Len(h) + Len(d)
      /\ \A i \in 1 .. Len(h) + Len(d) :
           w[i] = IF i <= Len(h) THEN h[i] ELSE d[i - Len(h)]
  BY <1>2, <1>3, Concat, Zenon
<1>5. Len(d) \in Nat
  BY <1>2, LenProperties
<1>6. Len(Enc(p)) = 2 + Len(w) /\ \A i \in 1 .. Len(w) : Enc(p)[i + 2] = w[i]
  BY <1>1, EncIsBody
<1> HIDE DEF w
<1>7. h[1] = sz[1] /\ h[2] = sz[2] /\ h[3] = bn[1] /\ h[4] = bn[2] /\ Len(h) = 4
  BY <1>2, <1>3
<1>8. w[1] = h[1] /\ w[2] = h[2] /\ w[3] = h[3] /\ w[4] = h[4]
  BY <1>4, <1>5, <1>7
<1>9. /\ Enc(p)[3] = w[1] /\ Enc(p)[4] = w[2] /\ Enc(p)[5] = w[3] /\ Enc(p)[6] = w[4]
  <2>1. /\ Enc(p)[1 + 2] = w[1] /\ Enc(p)[2 + 2] = w[2]
        /\ Enc(p)[3 + 2] = w[3] /\ Enc(p)[4 + 2] = w[4]
    BY <1>4, <1>5, <1>6, <1>7
  <2> QED BY <2>1
<1>10. ASSUME NEW i \in 1 .. Len(d) PROVE Enc(p)[i + 6] = d[i]
  <2>1. i + 4 \in 1 .. Len(w) /\ (i + 4) + 2 = i + 6 /\ ~(i + 4 <= Len(h))
        /\ (i + 4) - Len(h) = i /\ i + 4 \in 1 .. Len(h) + Len(d)
    BY <1>4, <1>5, <1>7
  <2>2. Enc(p)[i + 6] = w[i + 4]
    BY <1>6, <2>1
  <2> QED BY <1>4, <2>1, <2>2
<1> QED
  BY <1>2, <1>4, <1>5, <1>6, <1>7, <1>8, <1>9, <1>10 DEF d

-----------------------------------------------------------------------------
(* A clean decoder.                                                        *)

Clean(e) ==
  /\ e.startedInitializingOpCode = FALSE /\ e.isOpCodeInitialized = FALSE
  /\ e.readSecond = FALSE /\ e.removedOpcode = FALSE
  /\ e.startedACKBlockNum = FALSE
  /\ e.startedPacketSize = FALSE /\ e.finishedPacketSize = FALSE
  /\ e.startedDataBlockNum = FALSE /\ e.finishedDataBlockNum = FALSE
  /\ e.opcodeBytes = <<>> /\ e.dataToDecode = <<>> /\ e.blockNumBytes = <<>>
  /\ e.packetSizeByte = <<>> /\ e.blockNumDataBytes = <<>> /\ e.data = <<>>

LEMMA CleanIsStart ==
  ASSUME NEW e \in Fields, NEW p, NEW b
  PROVE  Decoding(e, p, b, 0) <=> Clean(e)
<1>1. Part(b, 1, 0) = <<>>
  BY PartEmpty
<1>2. OpcodeRead(e, p, b, 0) <=>
        /\ e.startedInitializingOpCode = FALSE /\ e.isOpCodeInitialized = FALSE
        /\ e.readSecond = FALSE /\ e.removedOpcode = FALSE /\ e.opcodeBytes = <<>>
  BY <1>1 DEF OpcodeRead, Fields
<1>3. FieldsRead(e, p, b, 0) <=> e.dataToDecode = <<>>
  BY <1>1 DEF FieldsRead
<1>4. AckRead(e, p, b, 0) <=> e.startedACKBlockNum = FALSE /\ e.blockNumBytes = <<>>
  BY DEF AckRead, Fields
<1>5. DataRead(e, p, b, 0) <=>
        /\ e.startedPacketSize = FALSE /\ e.finishedPacketSize = FALSE
        /\ e.startedDataBlockNum = FALSE /\ e.finishedDataBlockNum = FALSE
        /\ e.packetSizeByte = <<>> /\ e.blockNumDataBytes = <<>> /\ e.data = <<>>
  BY DEF DataRead, Fields
<1> QED
  BY <1>2, <1>3, <1>4, <1>5 DEF Decoding, Clean

LEMMA EmptyBytes == <<>> \in Seq(Byte) /\ 0 \in Short
BY DEF Short

LEMMA CleanFields ==
  ASSUME NEW e \in Fields
  PROVE  /\ cleanFields(e) \in Fields /\ Clean(cleanFields(e))
         /\ cleanSpecificFields(e) \in Fields
         /\ e.data = <<>> => Clean(cleanSpecificFields(e))
<1> DEFINE k == cleanSpecificFields(e)
<1>1. k \in Fields
  <2> DEFINE k1 == [e EXCEPT !.dataToDecode = <<>>, !.opcodeBytes = <<>>,
                             !.blockNumBytes = <<>>, !.packetSizeByte = <<>>,
                             !.blockNumDataBytes = <<>>]
             k2 == [k1 EXCEPT !.startedInitializingOpCode = FALSE,
                              !.isOpCodeInitialized = FALSE,
                              !.startedACKBlockNum = FALSE, !.startedPacketSize = FALSE]
             k3 == [k2 EXCEPT !.finishedPacketSize = FALSE,
                              !.startedDataBlockNum = FALSE,
                              !.finishedDataBlockNum = FALSE, !.removedOpcode = FALSE,
                              !.readSecond = FALSE]
  <2>1. k1 \in Fields
    BY EmptyBytes DEF Fields
  <2>2. k = k3
    BY DEF cleanSpecificFields
  <2> HIDE DEF k1
  <2>3. k2 \in Fields
    BY <2>1 DEF Fields
  <2> HIDE DEF k2
  <2>4. k3 \in Fields
    BY <2>3 DEF Fields
  <2> QED BY <2>2, <2>4 DEF k2, k1
<1>2. /\ k.data = e.data
      /\ Clean([k EXCEPT !.data = <<>>])
  BY DEF Fields, cleanSpecificFields, Clean
<1> HIDE DEF k
<1>3. cleanFields(e) = [k EXCEPT !.opcode = 0, !.data = <<>>]
  BY DEF cleanFields, k
<1>4. [k EXCEPT !.opcode = 0, !.data = <<>>] \in Fields
  BY <1>1, EmptyBytes DEF Fields
<1>5. Clean([k EXCEPT !.opcode = 0, !.data = <<>>])
  BY <1>1, <1>2 DEF Fields, Clean
<1>6. e.data = <<>> => Clean(k)
  BY <1>1, <1>2 DEF Fields, Clean
<1> QED
  BY <1>1, <1>3, <1>4, <1>5, <1>6 DEF k

LEMMA NewIsClean == NewEncoderDecoder \in Fields /\ Clean(NewEncoderDecoder)
BY EmptyBytes DEF Fields, NewEncoderDecoder, Clean

-----------------------------------------------------------------------------
(* A call of decodeNextByte with byte k + 1 of a packet.                   *)

Result(p, e, k) == decodeNextByte(e, Enc(p)[k + 1])

StepOK(p, k, r) ==
  /\ r.ed \in Fields
  /\ IF k + 1 < Len(Enc(p)) THEN r.packet = nullptr /\ Decoding(r.ed, p, Enc(p), k + 1)
     ELSE r.packet = p /\ Clean(r.ed)

LEMMA FirstByte ==
  ASSUME NEW p \in ServerPackets, NEW e \in Fields, Decoding(e, p, Enc(p), 0)
  PROVE  StepOK(p, 0, Result(p, e, 0))
<1> DEFINE b == Enc(p)
<1>1. Clean(e)
  BY CleanIsStart
<1>2. b[1] = 0 /\ b \in Seq(Byte) /\ Len(b) >= 2
  <2>1. Len(Body(p)) \in Nat
    BY BodyBytes, LenProperties
  <2> QED BY <2>1, EncIsBody
<1>a. <<0>> \in Seq(Byte)
  BY DEF Byte
<1> DEFINE k == [e EXCEPT !.opcodeBytes = <<0>>, !.startedInitializingOpCode = TRUE]
           r == pushByte(k, 0)
<1>3. initializeOpCode(e, 0) = k
  BY <1>1 DEF Clean, initializeOpCode
<1>4. opened(e, 0) = k
  BY <1>1, <1>3 DEF Clean, opened, Fields
<1>5. k \in Fields
  BY <1>a DEF Fields
<1>6. /\ k.dataToDecode = <<>> /\ k.opcodeBytes = <<0>>
      /\ k.startedInitializingOpCode = TRUE /\ k.isOpCodeInitialized = FALSE
      /\ k.readSecond = FALSE /\ k.removedOpcode = FALSE
      /\ AckRead(k, p, b, 1) /\ DataRead(k, p, b, 1)
  BY <1>1 DEF Clean, Fields, AckRead, DataRead
<1> HIDE DEF k
<1>7. decodeNextByte(e, 0) = Returns(r, nullptr)
  <2> HIDE DEF r
  <2> QED BY <1>4, <1>6 DEF decodeNextByte, r
<1>8. r = [k EXCEPT !.dataToDecode = <<0>>, !.readSecond = FALSE]
  <2>1. Append(<<>>, 0) = <<0>> /\ (Len(<<0>>) = 2) = FALSE
    OBVIOUS
  <2> QED BY <1>6, <2>1, Zenon DEF pushByte
<1>9. Part(b, 1, 1) = <<0>>
  <2>1. Append(Part(b, 1, 0), b[0 + 1]) = Part(b, 1, 0 + 1)
    BY <1>2, PartNext
  <2>2. Part(b, 1, 0) = <<>>
    BY PartEmpty
  <2>3. Append(<<>>, 0) = <<0>> /\ 0 + 1 = 1
    OBVIOUS
  <2> QED BY <1>2, <2>1, <2>2, <2>3, Zenon
<1>10. r \in Fields
  BY <1>5, <1>8, <1>a DEF Fields
<1>11. Decoding(r, p, b, 1)
  <2>1. /\ r.startedInitializingOpCode = TRUE /\ r.isOpCodeInitialized = FALSE
        /\ r.readSecond = FALSE /\ r.removedOpcode = FALSE
        /\ r.opcodeBytes = <<0>> /\ r.dataToDecode = <<0>>
    BY <1>5, <1>6, <1>8 DEF Fields
  <2>2. /\ r.startedACKBlockNum = k.startedACKBlockNum
        /\ r.blockNumBytes = k.blockNumBytes
        /\ r.startedPacketSize = k.startedPacketSize
        /\ r.finishedPacketSize = k.finishedPacketSize
        /\ r.startedDataBlockNum = k.startedDataBlockNum
        /\ r.finishedDataBlockNum = k.finishedDataBlockNum
        /\ r.packetSizeByte = k.packetSizeByte
        /\ r.blockNumDataBytes = k.blockNumDataBytes
        /\ r.packetSize = k.packetSize /\ r.blockNum = k.blockNum
        /\ r.leftToRead = k.leftToRead /\ r.data = k.data
    BY <1>5, <1>8 DEF Fields
  <2> HIDE DEF r
  <2>3. (1 > 0) = TRUE /\ (1 > 1) = FALSE /\ (1 > 2) = FALSE /\ 1 <= 2
    OBVIOUS
  <2>4. OpcodeRead(r, p, b, 1)
    BY <1>9, <2>1, <2>3, Zenon DEF OpcodeRead
  <2>5. FieldsRead(r, p, b, 1)
    BY <1>9, <2>1, <2>3, Zenon DEF FieldsRead
  <2>6. AckRead(r, p, b, 1) /\ DataRead(r, p, b, 1)
    BY <1>6, <2>2 DEF AckRead, DataRead
  <2> QED BY <2>4, <2>5, <2>6 DEF Decoding
<1> HIDE DEF r
<1> QED
  BY <1>2, <1>7, <1>10, <1>11 DEF Result, StepOK, Returns

NothingOfAck(e) == e.startedACKBlockNum = FALSE /\ e.blockNumBytes = <<>>

NothingOfData(e) ==
  /\ e.startedPacketSize = FALSE /\ e.finishedPacketSize = FALSE
  /\ e.startedDataBlockNum = FALSE /\ e.finishedDataBlockNum = FALSE
  /\ e.packetSizeByte = <<>> /\ e.blockNumDataBytes = <<>> /\ e.data = <<>>

LEMMA NothingRead ==
  ASSUME NEW e \in Fields, NEW p \in ServerPackets, NEW b, NEW k \in Nat
  PROVE  /\ p.opcode # 4 \/ k <= 2 => (AckRead(e, p, b, k) <=> NothingOfAck(e))
         /\ p.opcode # 3 \/ k <= 2 => (DataRead(e, p, b, k) <=> NothingOfData(e))
<1>1. ASSUME p.opcode # 4 \/ k <= 2 PROVE AckRead(e, p, b, k) <=> NothingOfAck(e)
  <2>1. (p.opcode = 4 /\ k > 2) = FALSE
    BY <1>1
  <2> QED BY <2>1, Zenon DEF AckRead, NothingOfAck
<1>2. ASSUME p.opcode # 3 \/ k <= 2 PROVE DataRead(e, p, b, k) <=> NothingOfData(e)
  <2>1. /\ (p.opcode = 3 /\ k > 2) = FALSE /\ (p.opcode = 3 /\ k > 3) = FALSE
        /\ (p.opcode = 3 /\ k > 4) = FALSE /\ (p.opcode = 3 /\ k > 5) = FALSE
    BY <1>2
  <2> QED BY <2>1, Zenon DEF DataRead, NothingOfData
<1> QED BY <1>1, <1>2

\* No packet but a DIRQ and a DISC ends with its opcode.
LEMMA LongEnough ==
  ASSUME NEW p \in ServerPackets
  PROVE  /\ Len(Enc(p)) \in Nat
         /\ p.opcode \in {6, 10} => Len(Enc(p)) = 2
         /\ p.opcode \notin {6, 10} => Len(Enc(p)) > 2
<1>1. Len(Enc(p)) \in Nat
  BY EncIsBody, LenProperties
<1>2. CASE p.opcode \in {6, 10}
  <2>1. Body(p) = <<>>
    BY <1>2 DEF Body
  <2>2. Len(Body(p)) = 0
    BY <2>1
  <2>3. Len(Enc(p)) = 2 + Len(Body(p))
    BY EncIsBody
  <2> QED BY <1>1, <1>2, <2>2, <2>3
<1>3. CASE p.opcode = 3
  BY <1>1, <1>3, DataLayout, PacketKinds, LenProperties
<1>4. CASE p.opcode = 4
  BY <1>1, <1>4, AckLayout
<1>5. CASE p.opcode \in ZeroTerminated
  BY <1>1, <1>5, RestInEnc DEF ZeroTerminated
<1>6. \/ p.opcode \in {6, 10} \/ p.opcode = 3 \/ p.opcode = 4 \/ p.opcode \in ZeroTerminated
  BY PacketKinds DEF ZeroTerminated
<1>7. p.opcode \in {3, 4} \cup ZeroTerminated => p.opcode \notin {6, 10}
  BY DEF ZeroTerminated
<1> QED
  BY <1>1, <1>2, <1>3, <1>4, <1>5, <1>6, <1>7

LEMMA SecondByte ==
  ASSUME NEW p \in ServerPackets, NEW e \in Fields, Decoding(e, p, Enc(p), 1)
  PROVE  StepOK(p, 1, Result(p, e, 1))
<1> DEFINE b == Enc(p)
           op == p.opcode
           ob == Part(b, 1, 2)
<1>0. op \in 1 .. 10 /\ b \in Seq(Byte) /\ Len(b) >= 2 /\ b[1] = 0 /\ b[2] = op
  BY EncIsBody, LongEnough, PacketKinds
<1>a. /\ Append(Part(b, 1, 1), op) = ob /\ ob \in Seq(Byte) /\ Len(ob) = 2
      /\ Len(Part(b, 1, 1)) = 1
  <2>0. 1 \in Nat \ {0} /\ 1 \in Nat /\ 1 <= 1 + 1 /\ 1 < Len(b)
    BY <1>0, LongEnough
  <2>1. /\ Append(Part(b, 1, 1), b[1 + 1]) = Part(b, 1, 1 + 1)
        /\ Len(Part(b, 1, 1)) = 1 - 1 + 1
    BY <1>0, <2>0, PartNext, Zenon
  <2>2. Append(Part(b, 1, 1), b[2]) = ob /\ Len(Part(b, 1, 1)) = 1
    BY <2>1
  <2>3. Part(b, 1, 1) \in Seq(Byte) /\ op \in Byte
    BY <1>0, PartNext DEF Byte
  <2>4. Append(Part(b, 1, 1), op) \in Seq(Byte) /\ Len(Append(Part(b, 1, 1), op)) = 2
    BY <2>1, <2>3
  <2>5. ob \in Seq(Byte) /\ Len(ob) = 2
    BY <1>0, <2>2, <2>4, Zenon
  <2> QED BY <1>0, <2>2, <2>5, Zenon
<1>b. bytesToShort(ob) = op
  <2>1. Part(b, 1, 1)[1] = b[1]
    <3>1. \A i \in 1 .. 1 - 1 + 1 : Part(b, 1, 1)[i] = b[1 + i - 1]
      BY <1>0, PartNext
    <3> QED BY <3>1
  <2>2. Part(b, 1, 1) \in Seq(Byte) /\ op \in Byte
    BY <1>0, PartNext DEF Byte
  <2>3. /\ Append(Part(b, 1, 1), op)[1] = 0
        /\ Append(Part(b, 1, 1), op)[2] = op
    BY <1>0, <1>a, <2>1, <2>2, AppendProperties
  <2>4. ob[1] = 0 /\ ob[2] = op
    BY <1>a, <2>3, Zenon
  <2> HIDE DEF ob
  <2> QED BY <1>0, <2>4 DEF bytesToShort
<1>1. /\ e.startedInitializingOpCode = TRUE /\ e.isOpCodeInitialized = FALSE
      /\ e.readSecond = FALSE /\ e.removedOpcode = FALSE
      /\ e.opcodeBytes = Part(b, 1, 1) /\ e.dataToDecode = Part(b, 1, 1)
  <2>1. (1 > 0) = TRUE /\ (1 > 1) = FALSE /\ (1 > 2) = FALSE /\ 1 <= 2
    OBVIOUS
  <2> QED BY <2>1, Zenon DEF Decoding, OpcodeRead, FieldsRead
<1>2. NothingOfAck(e) /\ NothingOfData(e)
  BY NothingRead DEF Decoding
<1> DEFINE k == [e EXCEPT !.opcodeBytes = ob, !.opcode = op, !.isOpCodeInitialized = TRUE]
           r == pushByte(k, op)
<1> HIDE DEF ob
<1>3. initializeOpCode(e, op) = k
  <2>1. Append(e.opcodeBytes, op) = ob
    BY <1>1, <1>a, Zenon
  <2> QED BY <1>1, <1>b, <2>1, Zenon DEF initializeOpCode
<1>4. k \in Fields
  <2>1. op \in Short
    BY <1>0 DEF Short
  <2> QED BY <1>a, <2>1 DEF Fields
<1>5. /\ k.dataToDecode = Part(b, 1, 1) /\ k.opcodeBytes = ob /\ k.opcode = op
      /\ k.startedInitializingOpCode = TRUE /\ k.isOpCodeInitialized = TRUE
      /\ k.readSecond = FALSE /\ k.removedOpcode = FALSE
      /\ NothingOfAck(k) /\ NothingOfData(k)
  BY <1>1, <1>2 DEF Fields, NothingOfAck, NothingOfData
<1>6. opened(e, op) = k
  <2> HIDE DEF k
  <2> QED BY <1>1, <1>3, <1>5, Zenon DEF opened
<1> HIDE DEF k
<1>7. CASE op \in {6, 10}
  <2>1. decodeNextByte(e, op)
          = Returns(cleanFields(k), IF op = 6 THEN DIRQPacket ELSE DiscPacket)
    BY <1>1, <1>5, <1>6, <1>7, Zenon DEF decodeNextByte
  <2>2. p = IF op = 6 THEN DIRQPacket ELSE DiscPacket
    BY <1>7, PacketKinds
  <2>3. ~(1 + 1 < Len(b))
    <3>1. Len(b) = 2
      BY <1>7, LongEnough
    <3> QED BY <3>1
  <2> QED BY <1>0, <1>4, <2>1, <2>2, <2>3, CleanFields DEF Result, StepOK, Returns
<1>8. CASE op \notin {6, 10}
  <2>1. decodeNextByte(e, op) = Returns(r, nullptr)
    BY <1>1, <1>5, <1>6, <1>8, Zenon DEF decodeNextByte, r
  <2>2. r = [k EXCEPT !.dataToDecode = ob, !.readSecond = TRUE]
    <3>1. (Len(ob) = 2) = TRUE
      BY <1>a
    <3>2. Append(k.dataToDecode, op) = ob
      BY <1>5, <1>a, Zenon DEF ob
    <3>3. r = [k EXCEPT !.dataToDecode = Append(k.dataToDecode, op),
                        !.readSecond = (Len(k.opcodeBytes) = 2)]
      BY DEF pushByte
    <3> QED BY <1>5, <3>1, <3>2, <3>3, Zenon
  <2>3. r \in Fields
    BY <1>4, <1>a, <2>2 DEF Fields
  <2>4. /\ r.startedInitializingOpCode = TRUE /\ r.isOpCodeInitialized = TRUE
        /\ r.readSecond = TRUE /\ r.removedOpcode = FALSE
        /\ r.opcodeBytes = ob /\ r.dataToDecode = ob /\ r.opcode = op
        /\ NothingOfAck(r) /\ NothingOfData(r)
    BY <1>4, <1>5, <2>2 DEF Fields, NothingOfAck, NothingOfData
  <2> HIDE DEF r
  <2>5. (2 > 0) = TRUE /\ (2 > 1) = TRUE /\ (2 > 2) = FALSE /\ 2 <= 2
    OBVIOUS
  <2>6. OpcodeRead(r, p, b, 2) /\ FieldsRead(r, p, b, 2)
    BY <2>4, <2>5, Zenon DEF OpcodeRead, FieldsRead, ob
  <2>7. AckRead(r, p, b, 2) /\ DataRead(r, p, b, 2)
    BY <2>3, <2>4, NothingRead
  <2>8. 1 + 1 < Len(b) /\ 1 + 1 = 2
    BY <1>8, LongEnough
  <2>9. Decoding(r, p, b, 2)
    BY <2>6, <2>7 DEF Decoding
  <2> QED BY <1>0, <2>1, <2>3, <2>8, <2>9 DEF Result, StepOK, Returns
<1> QED
  BY <1>7, <1>8

-----------------------------------------------------------------------------
(* The bytes that follow the opcode.                                       *)

\* o holds the opcode of p and the first k bytes of b, the opcode removed.
Opened(o, p, b, k) ==
  /\ o \in Fields
  /\ o.startedInitializingOpCode = TRUE /\ o.isOpCodeInitialized = TRUE
  /\ o.readSecond = TRUE /\ o.removedOpcode = TRUE
  /\ o.opcode = p.opcode /\ o.opcodeBytes = Part(b, 1, 2)
  /\ o.dataToDecode = IF p.opcode \in ZeroTerminated THEN Part(b, 3, k) ELSE <<>>
  /\ AckRead(o, p, b, k)
  /\ DataRead(o, p, b, k)

LEMMA Opening ==
  ASSUME NEW p \in ServerPackets, NEW e \in Fields, NEW k \in Nat, k >= 2, NEW x,
         Decoding(e, p, Enc(p), k)
  PROVE  /\ Opened(opened(e, x), p, Enc(p), k)
         /\ e.isOpCodeInitialized = TRUE
<1> DEFINE b == Enc(p)
           o == opened(e, x)
<1>1. /\ e.startedInitializingOpCode = TRUE /\ e.isOpCodeInitialized = TRUE
      /\ e.readSecond = TRUE /\ e.opcode = p.opcode
      /\ AckRead(e, p, b, k) /\ DataRead(e, p, b, k)
  <2>1. (k > 0) = TRUE /\ (k > 1) = TRUE
    OBVIOUS
  <2> QED BY <2>1, Zenon DEF Decoding, OpcodeRead
<1>2. CASE k = 2
  <2>1. (k > 2) = FALSE /\ k <= 2
    BY <1>2
  <2>2. /\ e.removedOpcode = FALSE /\ e.opcodeBytes = Part(b, 1, 2)
        /\ e.dataToDecode = Part(b, 1, 2)
    BY <1>2, <2>1, Zenon DEF Decoding, OpcodeRead, FieldsRead
  <2>3. popTwoFirstBytes(e.dataToDecode) = <<>>
    <3>1. Len(e.opcodeBytes) = 2
      <4>1. Len(b) >= 2 /\ b \in Seq(Byte)
        BY EncIsBody, LongEnough
      <4>2. Append(Part(b, 1, 1), b[1 + 1]) = Part(b, 1, 1 + 1)
            /\ Part(b, 1, 1) \in Seq(Byte) /\ Len(Part(b, 1, 1)) = 1
        <5>1. 1 \in Nat \ {0} /\ 1 \in Nat /\ 1 <= 1 + 1 /\ 1 < Len(b) /\ 1 - 1 + 1 = 1
          BY <4>1, LongEnough
        <5> QED BY <4>1, <5>1, PartNext, Zenon
      <4>3. b[1 + 1] \in Byte
        BY <4>1, ElementOfSeq, LongEnough
      <4>4. Len(Append(Part(b, 1, 1), b[1 + 1])) = 2
        BY <4>2, <4>3, AppendProperties
      <4>5. 1 + 1 = 2
        OBVIOUS
      <4> QED BY <2>2, <4>2, <4>4, <4>5, Zenon
    <3>2. Len(e.dataToDecode) = 2
      BY <2>2, <3>1, Zenon
    <3> QED BY <3>2, SubSeqEmpty DEF popTwoFirstBytes
  <2>4. o = [e EXCEPT !.removedOpcode = TRUE, !.dataToDecode = <<>>]
    BY <1>1, <2>2, <2>3, Zenon DEF opened
  <2>5. o \in Fields
    BY <2>4, EmptyBytes DEF Fields
  <2>6. /\ o.startedInitializingOpCode = TRUE /\ o.isOpCodeInitialized = TRUE
        /\ o.readSecond = TRUE /\ o.removedOpcode = TRUE
        /\ o.opcode = p.opcode /\ o.opcodeBytes = e.opcodeBytes
        /\ o.dataToDecode = <<>>
    BY <1>1, <2>4 DEF Fields
  <2>7. NothingOfAck(e) /\ NothingOfData(e)
    BY <1>1, <2>1, NothingRead
  <2>8. NothingOfAck(o) /\ NothingOfData(o)
    BY <2>4, <2>7 DEF Fields, NothingOfAck, NothingOfData
  <2>9. AckRead(o, p, b, k) /\ DataRead(o, p, b, k)
    BY <2>1, <2>5, <2>8, NothingRead
  <2>10. Part(b, 3, k) = <<>>
    BY <1>2, PartEmpty
  <2> QED BY <1>1, <2>2, <2>5, <2>6, <2>9, <2>10, Zenon DEF Opened
<1>3. CASE k > 2
  <2>1. (k > 2) = TRUE /\ (k <= 2) = FALSE
    BY <1>3
  <2>2. /\ e.removedOpcode = TRUE /\ e.opcodeBytes = Part(b, 1, 2)
        /\ e.dataToDecode = IF p.opcode \in ZeroTerminated THEN Part(b, 3, k) ELSE <<>>
    BY <2>1, Zenon DEF Decoding, OpcodeRead, FieldsRead
  <2>3. o = e
    BY <1>1, <2>2, Zenon DEF opened
  <2> HIDE DEF o
  <2>4. Opened(o, p, b, k)
    BY <1>1, <2>2, <2>3, Zenon DEF Opened
  <2> QED BY <1>1, <2>4 DEF o
<1>4. k = 2 \/ k > 2
  OBVIOUS
<1> QED
  BY <1>2, <1>3, <1>4, Zenon

LEMMA OpcodeStays ==
  ASSUME NEW p, NEW b, NEW k \in Nat, k >= 2, NEW r,
         r.startedInitializingOpCode = TRUE, r.isOpCodeInitialized = TRUE,
         r.readSecond = TRUE, r.removedOpcode = TRUE,
         r.opcode = p.opcode, r.opcodeBytes = Part(b, 1, 2)
  PROVE  OpcodeRead(r, p, b, k + 1)
<1>1. (k + 1 > 0) = TRUE /\ (k + 1 > 1) = TRUE /\ (k + 1 > 2) = TRUE
  OBVIOUS
<1> QED BY <1>1, Zenon DEF OpcodeRead

LEMMA FieldsStay ==
  ASSUME NEW p, NEW b, NEW k \in Nat, k >= 2, NEW r
  PROVE  FieldsRead(r, p, b, k + 1) <=>
           r.dataToDecode = IF p.opcode \in ZeroTerminated THEN Part(b, 3, k + 1) ELSE <<>>
<1>1. (k + 1 <= 2) = FALSE
  OBVIOUS
<1> QED BY <1>1, Zenon DEF FieldsRead

LEMMA ZeroByte ==
  ASSUME NEW p \in ServerPackets, WellFormed(p), p.opcode \in ZeroTerminated,
         NEW e \in Fields, NEW k \in Nat, k >= 2, k < Len(Enc(p)),
         Decoding(e, p, Enc(p), k)
  PROVE  StepOK(p, k, Result(p, e, k))
<1> DEFINE b == Enc(p)
           x == b[k + 1]
           o == opened(e, x)
           n == Len(Rest(p))
<1>0. /\ b \in Seq(Byte) /\ n \in Nat /\ Len(b) = n + 3
      /\ p.opcode # 3 /\ p.opcode # 4 /\ p.opcode # 0
  BY EncIsBody, RestInEnc DEF ZeroTerminated
<1>1. Opened(o, p, b, k) /\ e.isOpCodeInitialized = TRUE
  BY Opening
<1> HIDE DEF o
<1>2. o.dataToDecode = Part(b, 3, k)
  BY <1>1, Zenon DEF Opened
<1>a. /\ Append(Part(b, 3, k), x) = Part(b, 3, k + 1)
      /\ Part(b, 3, k) \in Seq(Byte) /\ Len(Part(b, 3, k)) = k - 2 /\ x \in Byte
  <2>1. 3 \in Nat \ {0} /\ 3 <= k + 1 /\ k - 3 + 1 = k - 2
    OBVIOUS
  <2>2. x \in Byte
    BY <1>0, ElementOfSeq
  <2> QED BY <1>0, <2>1, <2>2, PartNext, Zenon
<1>b. o \in Fields
  BY <1>1 DEF Opened
<1>3. CASE k + 1 = Len(b)
  <2>1. x = 0
    BY <1>0, <1>3, RestInEnc
  <2>2. o.dataToDecode = Rest(p)
    <3>1. k = n + 2
      BY <1>0, <1>3
    <3>2. Part(b, 3, k) = Rest(p)
      BY <3>1, RestInEnc, Zenon
    <3> QED BY <1>2, <3>2, Zenon
  <2>3. handleCasesWithZeroAtTheEnd(o, x) = p
    BY <1>1, <2>1, <2>2, ZeroCompletes DEF Opened
  <2>4. p # nullptr
    BY <1>0 DEF nullptr
  <2>5. decodeNextByte(e, x) = Returns(cleanFields(o), p)
    BY <1>0, <1>1, <2>3, <2>4, Zenon DEF decodeNextByte, Opened, o
  <2>6. ~(k + 1 < Len(b))
    BY <1>0, <1>3
  <2> QED BY <1>b, <2>5, <2>6, CleanFields DEF Result, StepOK, Returns
<1>4. CASE k + 1 < Len(b)
  <2>1. x = Rest(p)[Len(o.dataToDecode) + 1]
    <3>1. k - 1 \in 1 .. n /\ (k - 1) + 2 = k + 1
      BY <1>0, <1>4
    <3>2. x = Rest(p)[k - 1]
      BY <3>1, RestInEnc
    <3>3. Len(o.dataToDecode) = k - 2
      BY <1>2, <1>a, Zenon
    <3>4. k - 1 = (k - 2) + 1
      OBVIOUS
    <3> QED BY <3>2, <3>3, <3>4, Zenon
  <2>2. Len(o.dataToDecode) \in 0 .. n - 1
    <3>1. k - 2 \in 0 .. n - 1
      BY <1>0, <1>4
    <3> QED BY <1>2, <1>a, <3>1, Zenon
  <2>3. handleCasesWithZeroAtTheEnd(o, x) = nullptr
    BY <1>1, <2>1, <2>2, ZeroPending, Zenon DEF Opened
  <2> DEFINE r == pushByte(o, x)
  <2>4. decodeNextByte(e, x) = Returns(r, nullptr)
    BY <1>0, <1>1, <2>3, Zenon DEF decodeNextByte, Opened, o
  <2>5. r = [o EXCEPT !.dataToDecode = Part(b, 3, k + 1), !.readSecond = TRUE]
    <3>1. (Len(o.opcodeBytes) = 2) = TRUE
      <4>1. Len(Part(b, 1, 2)) = 2
        <5>1. 1 \in Nat \ {0} /\ 2 \in Nat /\ 1 <= 2 + 1 /\ 2 < Len(b) /\ 2 - 1 + 1 = 2
          BY <1>0, <1>4
        <5> QED BY <1>0, <5>1, PartNext, Zenon
      <4>2. o.opcodeBytes = Part(b, 1, 2)
        BY <1>1 DEF Opened
      <4> QED BY <4>1, <4>2, Zenon
    <3>2. Append(o.dataToDecode, x) = Part(b, 3, k + 1)
      BY <1>2, <1>a, Zenon
    <3>3. r = [o EXCEPT !.dataToDecode = Append(o.dataToDecode, x),
                        !.readSecond = (Len(o.opcodeBytes) = 2)]
      BY DEF pushByte
    <3> QED BY <3>1, <3>2, <3>3, Zenon
  <2>6. Part(b, 3, k + 1) \in Seq(Byte)
    BY <1>a, AppendProperties
  <2>7. r \in Fields
    BY <1>b, <2>5, <2>6 DEF Fields
  <2>8. NothingOfAck(o) /\ NothingOfData(o)
    BY <1>0, <1>1, NothingRead DEF Opened
  <2>9. /\ r.startedInitializingOpCode = TRUE /\ r.isOpCodeInitialized = TRUE
        /\ r.readSecond = TRUE /\ r.removedOpcode = TRUE
        /\ r.opcode = p.opcode /\ r.opcodeBytes = Part(b, 1, 2)
        /\ r.dataToDecode = Part(b, 3, k + 1)
    BY <1>1, <1>b, <2>5 DEF Fields, Opened
  <2>10. NothingOfAck(r) /\ NothingOfData(r)
    BY <1>b, <2>5, <2>8 DEF Fields, NothingOfAck, NothingOfData
  <2> HIDE DEF r
  <2>11. OpcodeRead(r, p, b, k + 1)
    BY <2>9, OpcodeStays
  <2>12. FieldsRead(r, p, b, k + 1)
    BY <2>9, FieldsStay
  <2>13. AckRead(r, p, b, k + 1) /\ DataRead(r, p, b, k + 1)
    BY <1>0, <2>7, <2>10, NothingRead
  <2>14. Decoding(r, p, b, k + 1)
    BY <2>11, <2>12, <2>13 DEF Decoding
  <2> QED BY <1>4, <2>4, <2>7, <2>14 DEF Result, StepOK, Returns
<1> QED
  BY <1>0, <1>3, <1>4

\* What the step of an ACK or of a DATA packet leaves of the other fields.
LEMMA Decoded ==
  ASSUME NEW p \in ServerPackets, p.opcode \notin ZeroTerminated,
         NEW k \in Nat, k >= 2, k + 1 < Len(Enc(p)), NEW b, b = Enc(p),
         NEW o, Opened(o, p, b, k),
         NEW r, r.ed \in Fields, r.packet = nullptr,
         r.ed.startedInitializingOpCode = o.startedInitializingOpCode,
         r.ed.isOpCodeInitialized = o.isOpCodeInitialized,
         r.ed.readSecond = o.readSecond, r.ed.removedOpcode = o.removedOpcode,
         r.ed.opcode = o.opcode, r.ed.opcodeBytes = o.opcodeBytes,
         r.ed.dataToDecode = o.dataToDecode,
         AckRead(r.ed, p, b, k + 1), DataRead(r.ed, p, b, k + 1)
  PROVE  StepOK(p, k, r)
<1> DEFINE s == r.ed
<1>1. OpcodeRead(s, p, b, k + 1)
  <2>1. /\ s.startedInitializingOpCode = TRUE /\ s.isOpCodeInitialized = TRUE
        /\ s.readSecond = TRUE /\ s.removedOpcode = TRUE
        /\ s.opcode = p.opcode /\ s.opcodeBytes = Part(b, 1, 2)
    BY Zenon DEF Opened
  <2> QED BY <2>1, OpcodeStays
<1>2. FieldsRead(s, p, b, k + 1)
  <2>1. s.dataToDecode = <<>>
    BY Zenon DEF Opened
  <2> QED BY <2>1, FieldsStay
<1>3. Decoding(s, p, b, k + 1)
  BY <1>1, <1>2 DEF Decoding
<1> QED
  BY <1>3, Zenon DEF StepOK

LEMMA AckByte ==
  ASSUME NEW p \in ServerPackets, p.opcode = 4,
         NEW e \in Fields, NEW k \in Nat, k >= 2, k < Len(Enc(p)),
         Decoding(e, p, Enc(p), k)
  PROVE  StepOK(p, k, Result(p, e, k))
<1> DEFINE b == Enc(p)
           x == b[k + 1]
           o == opened(e, x)
           q == readAckPacket(o, x)
<1>0. b \in Seq(Byte) /\ Len(b) = 4 /\ k \in 2 .. 3 /\ x \in Byte
  <2>1. b \in Seq(Byte) /\ Len(b) = 4
    BY EncIsBody, AckLayout
  <2>2. k + 1 \in 1 .. Len(b) /\ k \in 2 .. 3
    BY <2>1
  <2>3. x \in Byte
    BY <2>1, <2>2, ElementOfSeq, Zenon
  <2> QED BY <2>1, <2>2, <2>3
<1>1. Opened(o, p, b, k) /\ e.isOpCodeInitialized = TRUE
  BY Opening
<1> HIDE DEF o
<1>2. o \in Fields /\ NothingOfData(o) /\ AckRead(o, p, b, k)
  BY <1>1, NothingRead DEF Opened
<1>3. Result(p, e, k) = q
  <2>1. o.opcode = 4 /\ o.readSecond = TRUE /\ (4 = 3) = FALSE
    BY <1>1 DEF Opened
  <2> HIDE DEF q
  <2> QED BY <1>1, <2>1, Zenon DEF Result, decodeNextByte, o, q
<1>4. CASE k = 2
  <2>1. o.startedACKBlockNum = FALSE /\ o.blockNumBytes = <<>>
    BY <1>2, <1>4, NothingRead DEF NothingOfAck
  <2>2. Append(<<>>, x) = Part(b, 3, 3) /\ Part(b, 3, 3) \in Seq(Byte)
    <3>1. 3 \in Nat \ {0} /\ 2 \in Nat /\ 3 <= 2 + 1 /\ 2 < Len(b) /\ 2 + 1 = 3
      BY <1>0
    <3>2. Append(Part(b, 3, 2), x) = Part(b, 3, 3)
      <4>1. Append(Part(b, 3, 2), b[2 + 1]) = Part(b, 3, 2 + 1)
        BY <1>0, <3>1, PartNext, Zenon
      <4> QED BY <1>4, <3>1, <4>1, Zenon
    <3>3. Part(b, 3, 2) = <<>>
      BY PartEmpty
    <3>4. Append(<<>>, x) \in Seq(Byte)
      BY <1>0
    <3> QED BY <3>2, <3>3, <3>4, Zenon
  <2> DEFINE s == [o EXCEPT !.blockNumBytes = Part(b, 3, 3), !.startedACKBlockNum = TRUE]
  <2>3. q = Returns(s, nullptr)
    BY <2>1, <2>2, Zenon DEF readAckPacket
  <2>4. s \in Fields
    BY <1>2, <2>2 DEF Fields
  <2>5. NothingOfData(s) /\ s.startedACKBlockNum = TRUE /\ s.blockNumBytes = Part(b, 3, 3)
        /\ s.startedInitializingOpCode = o.startedInitializingOpCode
        /\ s.isOpCodeInitialized = o.isOpCodeInitialized
        /\ s.readSecond = o.readSecond /\ s.removedOpcode = o.removedOpcode
        /\ s.opcode = o.opcode /\ s.opcodeBytes = o.opcodeBytes
        /\ s.dataToDecode = o.dataToDecode
    BY <1>2 DEF Fields, NothingOfData
  <2> HIDE DEF s
  <2>6. AckRead(s, p, b, 3)
    <3>1. (p.opcode = 4 /\ 3 > 2) = TRUE
      OBVIOUS
    <3> QED BY <2>5, <3>1, Zenon DEF AckRead
  <2>7. DataRead(s, p, b, 3)
    BY <2>4, <2>5, NothingRead
  <2>8. /\ k + 1 = 3 /\ k + 1 < Len(b) /\ p.opcode \notin ZeroTerminated
    BY <1>0, <1>4 DEF ZeroTerminated
  <2>9. q.ed = s /\ q.packet = nullptr
    BY <2>3 DEF Returns
  <2> HIDE DEF q
  <2> QED BY <1>1, <1>3, <2>4, <2>5, <2>6, <2>7, <2>8, <2>9, Decoded
<1>5. CASE k = 3
  <2>1. o.startedACKBlockNum = TRUE /\ o.blockNumBytes = Part(b, 3, 3)
    <3>1. (p.opcode = 4 /\ k > 2) = TRUE
      BY <1>5
    <3> QED BY <1>2, <1>5, <3>1, Zenon DEF AckRead
  <2> DEFINE bs == Append(Part(b, 3, 3), x)
  <2>2. bytesToShort(bs) = p.blockNum
    <3>1. 3 \in Nat \ {0} /\ 3 \in Nat /\ 3 <= 3 + 1 /\ 3 < Len(b)
      BY <1>0
    <3>2. /\ Part(b, 3, 3) \in Seq(Byte) /\ Len(Part(b, 3, 3)) = 3 - 3 + 1
          /\ \A i \in 1 .. 3 - 3 + 1 : Part(b, 3, 3)[i] = b[3 + i - 1]
      BY <1>0, <3>1, PartNext, Zenon
    <3>3. Part(b, 3, 3)[1] = b[3] /\ Len(Part(b, 3, 3)) = 1
      BY <3>2
    <3>4. bs[1] = b[3] /\ bs[2] = b[4]
      BY <1>0, <1>5, <3>2, <3>3, AppendProperties
    <3> HIDE DEF bs
    <3> QED BY <3>4, AckLayout
  <2>3. q = Returns(cleanSpecificFields(o), AckPacket(bytesToShort(bs)))
    BY <2>1, Zenon DEF readAckPacket
  <2>4. AckPacket(bytesToShort(bs)) = p
    BY <2>2, PacketKinds
  <2>5. cleanSpecificFields(o) \in Fields /\ Clean(cleanSpecificFields(o))
    BY <1>2, CleanFields DEF NothingOfData
  <2>6. ~(k + 1 < Len(b))
    BY <1>0, <1>5
  <2> QED BY <1>3, <2>3, <2>4, <2>5, <2>6 DEF StepOK, Returns
<1> QED
  BY <1>0, <1>4, <1>5

\* A DATA packet after 3, 4, 5 and at least 6 bytes.
SizeByte(e, p, b) ==
  /\ e.startedPacketSize = TRUE /\ e.finishedPacketSize = FALSE
  /\ e.startedDataBlockNum = FALSE /\ e.finishedDataBlockNum = FALSE
  /\ e.packetSizeByte = Part(b, 3, 3) /\ e.blockNumDataBytes = <<>> /\ e.data = <<>>

SizeRead(e, p, b) ==
  /\ e.startedPacketSize = TRUE /\ e.finishedPacketSize = TRUE
  /\ e.startedDataBlockNum = FALSE /\ e.finishedDataBlockNum = FALSE
  /\ e.packetSizeByte = Part(b, 3, 4) /\ e.blockNumDataBytes = <<>> /\ e.data = <<>>
  /\ e.packetSize = p.packetSize

NumberByte(e, p, b) ==
  /\ e.startedPacketSize = TRUE /\ e.finishedPacketSize = TRUE
  /\ e.startedDataBlockNum = TRUE /\ e.finishedDataBlockNum = FALSE
  /\ e.packetSizeByte = Part(b, 3, 4) /\ e.blockNumDataBytes = Part(b, 5, 5)
  /\ e.data = <<>> /\ e.packetSize = p.packetSize

NumberRead(e, p, b, k) ==
  /\ e.startedPacketSize = TRUE /\ e.finishedPacketSize = TRUE
  /\ e.startedDataBlockNum = TRUE /\ e.finishedDataBlockNum = TRUE
  /\ e.packetSizeByte = Part(b, 3, 4) /\ e.blockNumDataBytes = Part(b, 5, 6)
  /\ e.data = Part(p.data, 1, k - 6) /\ e.packetSize = p.packetSize
  /\ e.blockNum = p.blockNum /\ e.leftToRead = p.packetSize - (k - 6)

LEMMA DataStates ==
  ASSUME NEW e, NEW p, p.opcode = 3, NEW b, NEW k \in Nat
  PROVE  /\ k = 3 => (DataRead(e, p, b, k) <=> SizeByte(e, p, b))
         /\ k = 4 => (DataRead(e, p, b, k) <=> SizeRead(e, p, b))
         /\ k = 5 => (DataRead(e, p, b, k) <=> NumberByte(e, p, b))
         /\ k >= 6 => (DataRead(e, p, b, k) <=> NumberRead(e, p, b, k))
<1>1. ASSUME k = 3 PROVE DataRead(e, p, b, k) <=> SizeByte(e, p, b)
  <2>1. /\ (p.opcode = 3 /\ k > 2) = TRUE /\ (p.opcode = 3 /\ k > 3) = FALSE
        /\ (p.opcode = 3 /\ k > 4) = FALSE /\ (p.opcode = 3 /\ k > 5) = FALSE
        /\ (k > 4) = FALSE
    BY <1>1
  <2> QED BY <1>1, <2>1, Zenon DEF DataRead, SizeByte
<1>2. ASSUME k = 4 PROVE DataRead(e, p, b, k) <=> SizeRead(e, p, b)
  <2>1. /\ (p.opcode = 3 /\ k > 2) = TRUE /\ (p.opcode = 3 /\ k > 3) = TRUE
        /\ (p.opcode = 3 /\ k > 4) = FALSE /\ (p.opcode = 3 /\ k > 5) = FALSE
        /\ (k > 4) = FALSE
    BY <1>2
  <2> QED BY <1>2, <2>1, Zenon DEF DataRead, SizeRead
<1>3. ASSUME k = 5 PROVE DataRead(e, p, b, k) <=> NumberByte(e, p, b)
  <2>1. /\ (p.opcode = 3 /\ k > 2) = TRUE /\ (p.opcode = 3 /\ k > 3) = TRUE
        /\ (p.opcode = 3 /\ k > 4) = TRUE /\ (p.opcode = 3 /\ k > 5) = FALSE
        /\ (k > 4) = TRUE /\ (k > 6) = FALSE
    BY <1>3
  <2> QED BY <1>3, <2>1, Zenon DEF DataRead, NumberByte
<1>4. ASSUME k >= 6 PROVE DataRead(e, p, b, k) <=> NumberRead(e, p, b, k)
  <2>1. /\ (p.opcode = 3 /\ k > 2) = TRUE /\ (p.opcode = 3 /\ k > 3) = TRUE
        /\ (p.opcode = 3 /\ k > 4) = TRUE /\ (p.opcode = 3 /\ k > 5) = TRUE
        /\ (k > 4) = TRUE /\ (IF k > 6 THEN 6 ELSE k) = 6
    BY <1>4
  <2> QED BY <1>4, <2>1, Zenon DEF DataRead, NumberRead
<1> QED
  BY <1>1, <1>2, <1>3, <1>4

LEMMA PartOne ==
  ASSUME NEW b \in Seq(Byte), NEW m \in 1 .. Len(b)
  PROVE  /\ Append(<<>>, b[m]) = Part(b, m, m)
         /\ Part(b, m, m) \in Seq(Byte) /\ Part(b, m, m) # <<>>
<1>1. /\ m \in Nat \ {0} /\ m - 1 \in Nat /\ m <= (m - 1) + 1 /\ m - 1 < Len(b)
      /\ (m - 1) + 1 = m /\ m - 1 < m /\ m - 1 \in Int /\ m \in Int
  BY LenProperties
<1>2. Append(Part(b, m, m - 1), b[(m - 1) + 1]) = Part(b, m, (m - 1) + 1)
  BY <1>1, PartNext, Zenon
<1>3. Part(b, m, m - 1) = <<>>
  BY <1>1, PartEmpty, Zenon
<1>4. b[m] \in Byte
  BY ElementOfSeq
<1>5. Append(<<>>, b[m]) \in Seq(Byte) /\ Append(<<>>, b[m]) # <<>>
  BY <1>4
<1> QED BY <1>1, <1>2, <1>3, <1>5, Zenon

LEMMA AppendToOne ==
  \A h \in Seq(Byte), y \in Byte :
    Len(h) = 1 => /\ Append(h, y) \in Seq(Byte)
                  /\ Append(h, y)[1] = h[1] /\ Append(h, y)[2] = y
<1>1. ASSUME NEW S, NEW h \in Seq(S), NEW y \in S, Len(h) = 1
      PROVE  /\ Append(h, y) \in Seq(S)
             /\ Append(h, y)[1] = h[1] /\ Append(h, y)[2] = y
  <2>1. Append(h, y) \in Seq(S)
    BY AppendProperties
  <2>2. \A i \in 1 .. Len(h) : Append(h, y)[i] = h[i]
    BY AppendProperties
  <2>3. Append(h, y)[Len(h) + 1] = y
    BY AppendProperties
  <2>4. 1 \in 1 .. Len(h) /\ Len(h) + 1 = 2
    BY <1>1
  <2> QED BY <2>1, <2>2, <2>3, <2>4, Zenon
<1> QED BY <1>1

LEMMA PartTwo ==
  ASSUME NEW b \in Seq(Byte), NEW m \in 1 .. Len(b) - 1
  PROVE  /\ Append(Part(b, m, m), b[m + 1]) = Part(b, m, m + 1)
         /\ Part(b, m, m + 1) \in Seq(Byte)
         /\ Part(b, m, m + 1)[1] = b[m] /\ Part(b, m, m + 1)[2] = b[m + 1]
<1>1. /\ m \in Nat \ {0} /\ m \in Nat /\ m <= m + 1 /\ m < Len(b) /\ m - m + 1 = 1
      /\ 1 \in 1 .. 1 /\ m + 1 - 1 = m /\ m + 1 \in 1 .. Len(b)
  BY LenProperties
<1>2. /\ Append(Part(b, m, m), b[m + 1]) = Part(b, m, m + 1)
      /\ Part(b, m, m) \in Seq(Byte) /\ Len(Part(b, m, m)) = 1
      /\ \A i \in 1 .. 1 : Part(b, m, m)[i] = b[m + i - 1]
  BY <1>1, PartNext, Zenon
<1>3. b[m + 1] \in Byte
  BY <1>1, ElementOfSeq
<1>4. Part(b, m, m)[1] = b[m]
  BY <1>1, <1>2, Zenon
<1> DEFINE h == Part(b, m, m)
           y == b[m + 1]
           s == Append(h, y)
<1>5. s \in Seq(Byte) /\ s[1] = h[1] /\ s[2] = y
  <2>1. h \in Seq(Byte) /\ Len(h) = 1 /\ y \in Byte
    BY <1>2, <1>3
  <2> HIDE DEF h, y
  <2> QED BY <2>1, AppendToOne, Zenon
<1> QED BY <1>2, <1>4, <1>5, Zenon

LEMMA DataByte ==
  ASSUME NEW p \in ServerPackets, WellFormed(p), p.opcode = 3,
         NEW e \in Fields, NEW k \in Nat, k >= 2, k < Len(Enc(p)),
         Decoding(e, p, Enc(p), k)
  PROVE  StepOK(p, k, Result(p, e, k))
<1> DEFINE b == Enc(p)
           x == b[k + 1]
           o == opened(e, x)
           q == readDataPacket(o, x)
           size == p.packetSize
<1>0. /\ b \in Seq(Byte) /\ Len(b) = 6 + size /\ size \in Nat /\ size = Len(p.data)
      /\ p.data \in Seq(Byte) /\ p.opcode \notin ZeroTerminated
  <2>1. b \in Seq(Byte) /\ Len(b) = 6 + Len(p.data)
    BY EncIsBody, DataLayout
  <2>2. p.data \in Seq(Byte) /\ Len(p.data) \in Nat
    BY PacketKinds, LenProperties
  <2>3. size = Len(p.data)
    BY DEF WellFormed
  <2> QED BY <2>1, <2>2, <2>3 DEF ZeroTerminated
<1>x. x \in Byte
  <2>1. k + 1 \in 1 .. Len(b)
    BY <1>0
  <2> QED BY <1>0, <2>1, ElementOfSeq, Zenon
<1>1. Opened(o, p, b, k) /\ e.isOpCodeInitialized = TRUE
  BY Opening
<1> HIDE DEF o
<1>2. o \in Fields /\ NothingOfAck(o) /\ DataRead(o, p, b, k)
  BY <1>1, NothingRead DEF Opened
<1>3. Result(p, e, k) = q
  <2>1. o.opcode = 3 /\ o.readSecond = TRUE
    BY <1>1 DEF Opened
  <2> HIDE DEF q
  <2> QED BY <1>1, <2>1, Zenon DEF Result, decodeNextByte, o, q
\* A step that ends no packet: it is enough to look at the fields of a DATA packet.
<1>4. ASSUME NEW s \in Fields, q = Returns(s, nullptr), k + 1 < Len(b),
             s.startedInitializingOpCode = o.startedInitializingOpCode,
             s.isOpCodeInitialized = o.isOpCodeInitialized,
             s.readSecond = o.readSecond, s.removedOpcode = o.removedOpcode,
             s.opcode = o.opcode, s.opcodeBytes = o.opcodeBytes,
             s.dataToDecode = o.dataToDecode,
             s.startedACKBlockNum = o.startedACKBlockNum,
             s.blockNumBytes = o.blockNumBytes,
             DataRead(s, p, b, k + 1)
      PROVE  StepOK(p, k, Result(p, e, k))
  <2>1. AckRead(s, p, b, k + 1)
    <3>1. NothingOfAck(s)
      BY <1>2, <1>4, Zenon DEF NothingOfAck
    <3>2. p.opcode # 4
      OBVIOUS
    <3> QED BY <1>4, <3>1, <3>2, NothingRead
  <2>2. q.ed = s /\ q.packet = nullptr
    BY <1>4 DEF Returns
  <2> HIDE DEF q
  <2> QED BY <1>0, <1>1, <1>3, <1>4, <2>1, <2>2, Decoded
<1>5. CASE k = 2
  <2>1. /\ o.startedPacketSize = FALSE /\ o.finishedPacketSize = FALSE
        /\ o.startedDataBlockNum = FALSE /\ o.finishedDataBlockNum = FALSE
        /\ o.packetSizeByte = <<>> /\ o.blockNumDataBytes = <<>> /\ o.data = <<>>
    BY <1>2, <1>5, NothingRead DEF NothingOfData
  <2>2. Append(<<>>, x) = Part(b, 3, 3) /\ Part(b, 3, 3) \in Seq(Byte)
    <3>1. 3 \in 1 .. Len(b) /\ x = b[3]
      BY <1>0, <1>5
    <3> QED BY <1>0, <3>1, PartOne, Zenon
  <2> DEFINE s == [o EXCEPT !.packetSizeByte = Part(b, 3, 3), !.startedPacketSize = TRUE]
  <2>3. q = Returns(s, nullptr)
    <3>1. Append(o.packetSizeByte, x) = Part(b, 3, 3)
      BY <2>1, <2>2, Zenon
    <3>2. q = Returns([o EXCEPT !.packetSizeByte = Append(o.packetSizeByte, x),
                                !.startedPacketSize = TRUE], nullptr)
      BY <2>1 DEF readDataPacket
    <3> QED BY <3>1, <3>2, Zenon
  <2>4. s \in Fields
    BY <1>2, <2>2 DEF Fields
  <2>5. SizeByte(s, p, b)
    BY <1>2, <2>1 DEF Fields, SizeByte
  <2>6. DataRead(s, p, b, k + 1)
    <3> HIDE DEF s
    <3>1. k + 1 = 3 /\ k + 1 \in Nat
      BY <1>5
    <3> QED BY <2>5, <3>1, DataStates
  <2>7. k + 1 < Len(b)
    BY <1>0, <1>5
  <2>8. /\ s.startedInitializingOpCode = o.startedInitializingOpCode
        /\ s.isOpCodeInitialized = o.isOpCodeInitialized
        /\ s.readSecond = o.readSecond /\ s.removedOpcode = o.removedOpcode
        /\ s.opcode = o.opcode /\ s.opcodeBytes = o.opcodeBytes
        /\ s.dataToDecode = o.dataToDecode
        /\ s.startedACKBlockNum = o.startedACKBlockNum
        /\ s.blockNumBytes = o.blockNumBytes
    BY <1>2 DEF Fields
  <2> HIDE DEF q, s
  <2> QED BY <1>4, <2>3, <2>4, <2>6, <2>7, <2>8
<1>6. CASE k = 3
  <2>1. SizeByte(o, p, b)
    BY <1>2, <1>6, DataStates
  <2>2. /\ Append(Part(b, 3, 3), x) = Part(b, 3, 4) /\ Part(b, 3, 4) \in Seq(Byte)
        /\ bytesToShort(Part(b, 3, 4)) = size
    <3>1. 3 \in 1 .. Len(b) - 1 /\ x = b[3 + 1] /\ 3 + 1 = 4
      BY <1>0, <1>6
    <3>2. /\ Append(Part(b, 3, 3), b[3 + 1]) = Part(b, 3, 3 + 1)
          /\ Part(b, 3, 3 + 1) \in Seq(Byte)
          /\ Part(b, 3, 3 + 1)[1] = b[3] /\ Part(b, 3, 3 + 1)[2] = b[3 + 1]
      BY <1>0, <3>1, PartTwo, Zenon
    <3>3. \A s : s[1] = b[3] /\ s[2] = b[4] => bytesToShort(s) = size
      BY DataLayout
    <3> QED BY <3>1, <3>2, <3>3, Zenon
  <2> DEFINE s == [o EXCEPT !.packetSizeByte = Part(b, 3, 4), !.finishedPacketSize = TRUE,
                            !.packetSize = size]
  <2>3. q = Returns(s, nullptr)
    <3>1. Append(o.packetSizeByte, x) = Part(b, 3, 4)
      BY <2>1, <2>2, Zenon DEF SizeByte
    <3>2. q = Returns([o EXCEPT !.packetSizeByte = Append(o.packetSizeByte, x),
                                !.finishedPacketSize = TRUE,
                                !.packetSize = bytesToShort(Append(o.packetSizeByte, x))],
                      nullptr)
      BY <2>1, Zenon DEF readDataPacket, SizeByte
    <3> QED BY <2>2, <3>1, <3>2, Zenon
  <2>4. s \in Fields
    <3>1. size \in Short
      BY PacketKinds
    <3> QED BY <1>2, <2>2, <3>1 DEF Fields
  <2>5. SizeRead(s, p, b)
    BY <1>2, <2>1 DEF Fields, SizeByte, SizeRead
  <2>6. DataRead(s, p, b, k + 1)
    <3> HIDE DEF s
    <3>1. k + 1 = 4 /\ k + 1 \in Nat
      BY <1>6
    <3> QED BY <2>5, <3>1, DataStates
  <2>7. k + 1 < Len(b)
    BY <1>0, <1>6
  <2>8. /\ s.startedInitializingOpCode = o.startedInitializingOpCode
        /\ s.isOpCodeInitialized = o.isOpCodeInitialized
        /\ s.readSecond = o.readSecond /\ s.removedOpcode = o.removedOpcode
        /\ s.opcode = o.opcode /\ s.opcodeBytes = o.opcodeBytes
        /\ s.dataToDecode = o.dataToDecode
        /\ s.startedACKBlockNum = o.startedACKBlockNum
        /\ s.blockNumBytes = o.blockNumBytes
    BY <1>2 DEF Fields
  <2> HIDE DEF q, s
  <2> QED BY <1>4, <2>3, <2>4, <2>6, <2>7, <2>8
<1>7. CASE k = 4
  <2>1. SizeRead(o, p, b)
    BY <1>2, <1>7, DataStates
  <2>2. Append(<<>>, x) = Part(b, 5, 5) /\ Part(b, 5, 5) \in Seq(Byte)
    <3>1. 5 \in 1 .. Len(b) /\ x = b[5]
      BY <1>0, <1>7
    <3> QED BY <1>0, <3>1, PartOne, Zenon
  <2> DEFINE s == [o EXCEPT !.blockNumDataBytes = Part(b, 5, 5),
                            !.startedDataBlockNum = TRUE]
  <2>3. q = Returns(s, nullptr)
    <3>1. Append(o.blockNumDataBytes, x) = Part(b, 5, 5)
      BY <2>1, <2>2, Zenon DEF SizeRead
    <3>2. q = Returns([o EXCEPT !.blockNumDataBytes = Append(o.blockNumDataBytes, x),
                                !.startedDataBlockNum = TRUE], nullptr)
      BY <2>1 DEF readDataPacket, SizeRead
    <3> QED BY <3>1, <3>2, Zenon
  <2>4. s \in Fields
    BY <1>2, <2>2 DEF Fields
  <2>5. NumberByte(s, p, b)
    BY <1>2, <2>1 DEF Fields, SizeRead, NumberByte
  <2>6. DataRead(s, p, b, k + 1)
    <3> HIDE DEF s
    <3>1. k + 1 = 5 /\ k + 1 \in Nat
      BY <1>7
    <3> QED BY <2>5, <3>1, DataStates
  <2>7. k + 1 < Len(b)
    BY <1>0, <1>7
  <2>8. /\ s.startedInitializingOpCode = o.startedInitializingOpCode
        /\ s.isOpCodeInitialized = o.isOpCodeInitialized
        /\ s.readSecond = o.readSecond /\ s.removedOpcode = o.removedOpcode
        /\ s.opcode = o.opcode /\ s.opcodeBytes = o.opcodeBytes
        /\ s.dataToDecode = o.dataToDecode
        /\ s.startedACKBlockNum = o.startedACKBlockNum
        /\ s.blockNumBytes = o.blockNumBytes
    BY <1>2 DEF Fields
  <2> HIDE DEF q, s
  <2> QED BY <1>4, <2>3, <2>4, <2>6, <2>7, <2>8
<1>8. CASE k = 5
  <2>1. NumberByte(o, p, b)
    BY <1>2, <1>8, DataStates
  <2>2. /\ Append(Part(b, 5, 5), x) = Part(b, 5, 6) /\ Part(b, 5, 6) \in Seq(Byte)
        /\ bytesToShort(Part(b, 5, 6)) = p.blockNum
    <3>1. 5 \in 1 .. Len(b) - 1 /\ x = b[5 + 1] /\ 5 + 1 = 6
      BY <1>0, <1>8
    <3>2. /\ Append(Part(b, 5, 5), b[5 + 1]) = Part(b, 5, 5 + 1)
          /\ Part(b, 5, 5 + 1) \in Seq(Byte)
          /\ Part(b, 5, 5 + 1)[1] = b[5] /\ Part(b, 5, 5 + 1)[2] = b[5 + 1]
      BY <1>0, <3>1, PartTwo, Zenon
    <3>3. \A s : s[1] = b[5] /\ s[2] = b[6] => bytesToShort(s) = p.blockNum
      BY DataLayout
    <3> QED BY <3>1, <3>2, <3>3, Zenon
  <2> DEFINE s == [o EXCEPT !.blockNumDataBytes = Part(b, 5, 6),
                            !.finishedDataBlockNum = TRUE,
                            !.blockNum = p.blockNum, !.leftToRead = size]
  <2>3. q = IF size = 0 THEN Returns(cleanFields(s), DataPacket(0, s.blockNum, o.data))
            ELSE Returns(s, nullptr)
    <3>1. Append(o.blockNumDataBytes, x) = Part(b, 5, 6) /\ o.packetSize = size
      BY <2>1, <2>2, Zenon DEF NumberByte
    <3> DEFINE u == [o EXCEPT !.blockNumDataBytes = Append(o.blockNumDataBytes, x),
                              !.finishedDataBlockNum = TRUE,
                              !.blockNum = bytesToShort(Append(o.blockNumDataBytes, x)),
                              !.leftToRead = o.packetSize]
    <3>2. q = IF o.packetSize = 0 THEN Returns(cleanFields(u), DataPacket(0, u.blockNum, o.data))
              ELSE Returns(u, nullptr)
      BY <2>1, Zenon DEF readDataPacket, NumberByte
    <3>3. u = s
      BY <2>2, <3>1, Zenon
    <3> QED BY <3>1, <3>2, <3>3, Zenon
  <2>4. s \in Fields
    <3>1. p.blockNum \in Short /\ size \in Int
      BY <1>0, PacketKinds
    <3> QED BY <1>2, <2>2, <3>1 DEF Fields
  <2>5. CASE size = 0
    <3>1. q = Returns(cleanFields(s), DataPacket(0, s.blockNum, o.data))
      BY <2>3, <2>5
    <3>2. p = DataPacket(0, s.blockNum, o.data)
      <4>1. p.data = <<>>
        BY <1>0, <2>5, EmptySeq
      <4>2. s.blockNum = p.blockNum /\ o.data = <<>>
        BY <1>2, <2>1 DEF Fields, NumberByte
      <4> HIDE DEF s
      <4>3. p = DataPacket(p.packetSize, p.blockNum, p.data)
        BY PacketKinds
      <4> QED BY <2>5, <4>1, <4>2, <4>3, Zenon
    <3>3. ~(k + 1 < Len(b))
      BY <1>0, <1>8, <2>5
    <3> HIDE DEF q, s
    <3> QED BY <1>3, <2>4, <3>1, <3>2, <3>3, CleanFields DEF StepOK, Returns
  <2>6. CASE size # 0
    <3>1. q = Returns(s, nullptr)
      BY <2>3, <2>6
    <3>2. Part(p.data, 1, 0) = <<>>
      BY PartEmpty
    <3>3. NumberRead(s, p, b, 6)
      <4>1. 6 - 6 = 0 /\ size - 0 = size
        BY <1>0
      <4>2. /\ s.startedPacketSize = TRUE /\ s.finishedPacketSize = TRUE
            /\ s.startedDataBlockNum = TRUE /\ s.finishedDataBlockNum = TRUE
            /\ s.packetSizeByte = Part(b, 3, 4) /\ s.blockNumDataBytes = Part(b, 5, 6)
            /\ s.data = <<>> /\ s.packetSize = size
            /\ s.blockNum = p.blockNum /\ s.leftToRead = size
        BY <1>2, <2>1 DEF Fields, NumberByte
      <4> HIDE DEF s
      <4> QED BY <3>2, <4>1, <4>2, Zenon DEF NumberRead
    <3>4. DataRead(s, p, b, k + 1)
      <4> HIDE DEF s
      <4>1. k + 1 = 6 /\ k + 1 \in Nat
        BY <1>8
      <4> QED BY <3>3, <4>1, DataStates
    <3>5. k + 1 < Len(b)
      BY <1>0, <1>8, <2>6
    <3>6. /\ s.startedInitializingOpCode = o.startedInitializingOpCode
          /\ s.isOpCodeInitialized = o.isOpCodeInitialized
          /\ s.readSecond = o.readSecond /\ s.removedOpcode = o.removedOpcode
          /\ s.opcode = o.opcode /\ s.opcodeBytes = o.opcodeBytes
          /\ s.dataToDecode = o.dataToDecode
          /\ s.startedACKBlockNum = o.startedACKBlockNum
          /\ s.blockNumBytes = o.blockNumBytes
      BY <1>2 DEF Fields
    <3> HIDE DEF q, s
    <3> QED BY <1>4, <2>4, <3>1, <3>4, <3>5, <3>6
  <2> QED BY <2>5, <2>6
<1>9. CASE k >= 6
  <2>1. NumberRead(o, p, b, k)
    BY <1>2, <1>9, DataStates
  <2> DEFINE n == k - 6
  <2>0. n \in Nat /\ n < size /\ k = n + 6
    BY <1>0, <1>9
  <2>2. /\ Append(Part(p.data, 1, n), x) = Part(p.data, 1, n + 1)
        /\ Part(p.data, 1, n + 1) \in Seq(Byte)
    <3>1. x = p.data[n + 1]
      <4>1. n + 1 \in 1 .. Len(p.data) /\ (n + 1) + 6 = k + 1
        BY <1>0, <2>0
      <4> QED BY <4>1, DataLayout
    <3>2. 1 \in Nat \ {0} /\ 1 <= n + 1 /\ n < Len(p.data)
      BY <1>0, <2>0
    <3> HIDE DEF n
    <3>3. /\ Append(Part(p.data, 1, n), p.data[n + 1]) = Part(p.data, 1, n + 1)
          /\ Part(p.data, 1, n) \in Seq(Byte)
      BY <1>0, <2>0, <3>2, PartNext, Zenon
    <3>4. Append(Part(p.data, 1, n), x) \in Seq(Byte)
      BY <1>x, <3>3, AppendProperties
    <3> QED BY <3>1, <3>3, <3>4, Zenon
  <2>3. o.leftToRead = size - n
    BY <2>1 DEF NumberRead
  <2>a. /\ o.startedPacketSize = TRUE /\ o.finishedPacketSize = TRUE
        /\ o.startedDataBlockNum = TRUE /\ o.finishedDataBlockNum = TRUE
    BY <2>1 DEF NumberRead
  <2>b. Append(o.data, x) = Part(p.data, 1, n + 1)
    BY <2>1, <2>2, Zenon DEF NumberRead
  <2>4. CASE n + 1 = size
    <3>1. o.leftToRead = 1
      BY <1>0, <2>0, <2>3, <2>4
    <3>2. q = Returns(cleanFields(o),
                      DataPacket(o.packetSize, o.blockNum, Append(o.data, x)))
      BY <2>a, <3>1, Zenon DEF readDataPacket
    <3>3. Part(p.data, 1, n + 1) = p.data
      <4>1. n + 1 = Len(p.data)
        BY <1>0, <2>4
      <4>2. SubSeq(p.data, 1, Len(p.data)) = p.data
        BY <1>0, SubSeqFull
      <4> QED BY <4>1, <4>2, Zenon DEF Part
    <3>4. p = DataPacket(o.packetSize, o.blockNum, Append(o.data, x))
      BY <2>1, <2>b, <3>3, PacketKinds, Zenon DEF NumberRead
    <3>5. ~(k + 1 < Len(b))
      BY <1>0, <2>0, <2>4
    <3> HIDE DEF q
    <3> QED BY <1>2, <1>3, <3>2, <3>4, <3>5, CleanFields DEF StepOK, Returns
  <2>5. CASE n + 1 < size
    <3>1. o.leftToRead > 1 /\ (o.leftToRead = 1) = FALSE
      BY <1>0, <2>0, <2>3, <2>5
    <3> DEFINE s == [o EXCEPT !.data = Part(p.data, 1, n + 1),
                              !.leftToRead = o.leftToRead - 1]
    <3>2. q = Returns(s, nullptr)
      BY <2>a, <2>b, <3>1, Zenon DEF readDataPacket
    <3>3. s \in Fields
      <4>1. o.leftToRead - 1 \in Int
        BY <1>2 DEF Fields
      <4> HIDE DEF n
      <4> QED BY <1>2, <2>2, <4>1 DEF Fields
    <3>4. NumberRead(s, p, b, k + 1)
      <4>1. (k + 1) - 6 = n + 1 /\ (size - n) - 1 = size - (n + 1)
        BY <1>0, <2>0
      <4>2. /\ s.startedPacketSize = TRUE /\ s.finishedPacketSize = TRUE
            /\ s.startedDataBlockNum = TRUE /\ s.finishedDataBlockNum = TRUE
            /\ s.packetSizeByte = o.packetSizeByte
            /\ s.blockNumDataBytes = o.blockNumDataBytes
            /\ s.data = Part(p.data, 1, n + 1) /\ s.packetSize = o.packetSize
            /\ s.blockNum = o.blockNum /\ s.leftToRead = o.leftToRead - 1
        BY <1>2, <2>a DEF Fields
      <4> HIDE DEF s, n
      <4> QED BY <2>1, <2>3, <4>1, <4>2, Zenon DEF NumberRead
    <3>5. DataRead(s, p, b, k + 1)
      <4> HIDE DEF s
      <4>1. k + 1 >= 6 /\ k + 1 \in Nat
        BY <1>9
      <4> QED BY <3>4, <4>1, DataStates
    <3>6. k + 1 < Len(b)
      BY <1>0, <2>0, <2>5
    <3>7. /\ s.startedInitializingOpCode = o.startedInitializingOpCode
          /\ s.isOpCodeInitialized = o.isOpCodeInitialized
          /\ s.readSecond = o.readSecond /\ s.removedOpcode = o.removedOpcode
          /\ s.opcode = o.opcode /\ s.opcodeBytes = o.opcodeBytes
          /\ s.dataToDecode = o.dataToDecode
          /\ s.startedACKBlockNum = o.startedACKBlockNum
          /\ s.blockNumBytes = o.blockNumBytes
      BY <1>2 DEF Fields
    <3> HIDE DEF q, s
    <3> QED BY <1>4, <3>2, <3>3, <3>5, <3>6, <3>7
  <2> QED BY <1>0, <2>0, <2>4, <2>5
<1> QED
  BY <1>5, <1>6, <1>7, <1>8, <1>9

\* Any byte of any packet.
LEMMA Step ==
  ASSUME NEW p \in ServerPackets, WellFormed(p),
         NEW e \in Fields, NEW k \in Nat, k < Len(Enc(p)),
         Decoding(e, p, Enc(p), k)
  PROVE  StepOK(p, k, Result(p, e, k))
<1>1. CASE k = 0
  BY <1>1, FirstByte
<1>2. CASE k = 1
  BY <1>2, SecondByte
<1>3. CASE k >= 2
  <2>1. p.opcode \notin {6, 10}
    <3>1. Len(Enc(p)) # 2
      <4> DEFINE n == Len(Enc(p))
      <4>1. n \in Nat /\ k < n
        BY LongEnough
      <4> HIDE DEF n
      <4>2. n # 2
        BY <1>3, <4>1
      <4> QED BY <4>2 DEF n
    <3>2. p.opcode \in {6, 10} => Len(Enc(p)) = 2
      BY LongEnough
    <3> QED BY <3>1, <3>2, Zenon
  <2>2. p.opcode = 3 \/ p.opcode = 4 \/ p.opcode \in ZeroTerminated
    BY <2>1, PacketKinds DEF ZeroTerminated
  <2> QED BY <1>3, <2>2, ZeroByte, AckByte, DataByte
<1> QED
  BY <1>1, <1>2, <1>3

-----------------------------------------------------------------------------
(* The stream.                                                             *)

LEMMA Start ==
  ASSUME NEW e \in Fields, Clean(e), NEW p, NEW b
  PROVE  Decoding(e, p, b, 0)
BY CleanIsStart

\* at() and erase() stay inside their vectors wherever the decoder is.
LEMMA StaysInRange ==
  ASSUME NEW p \in ServerPackets, NEW e \in Fields, NEW k \in Nat,
         k < Len(Enc(p)), Decoding(e, p, Enc(p), k)
  PROVE  ~OutOfRange(e)
<1> DEFINE b == Enc(p)
<1>0. Len(b) \in Nat /\ Len(b) >= 2 /\ b \in Seq(Byte)
  BY LongEnough, EncIsBody
<1>1. k < Len(b) /\ Decoding(e, p, b, k)
  OBVIOUS
<1> HIDE DEF b
<1>2. 1 \in 1 .. Len(b) /\ 1 \in 1 .. Len(b) - 1
  BY <1>0
<1>3. Part(b, 1, 1) # <<>>
  BY <1>0, <1>2, PartOne, Zenon
<1>4. CASE k = 0
  <2>1. e.isOpCodeInitialized = FALSE /\ e.startedInitializingOpCode = FALSE
    <3>1. (0 > 0) = FALSE /\ (0 > 1) = FALSE
      OBVIOUS
    <3> QED BY <1>1, <1>4, <3>1, Zenon DEF Decoding, OpcodeRead
  <2> QED BY <2>1, Zenon DEF OutOfRange
<1>5. CASE k = 1
  <2>1. e.isOpCodeInitialized = FALSE /\ e.opcodeBytes = Part(b, 1, 1)
    <3>1. (1 > 1) = FALSE /\ (1 > 2) = FALSE
      OBVIOUS
    <3> QED BY <1>1, <1>5, <3>1, Zenon DEF Decoding, OpcodeRead
  <2> QED BY <1>3, <2>1, Zenon DEF OutOfRange
<1>6. CASE k >= 2
  <2>1. /\ e.isOpCodeInitialized = TRUE /\ e.opcode = p.opcode
        /\ e.removedOpcode = (k > 2)
    <3>1. (k > 1) = TRUE
      BY <1>0, <1>6
    <3> QED BY <1>1, <3>1, Zenon DEF Decoding, OpcodeRead
  <2>2. ~(e.removedOpcode = FALSE /\ Len(e.dataToDecode) < 2)
    <3>1. CASE k = 2
      <4>1. e.dataToDecode = Part(b, 1, 2)
        <5>1. 2 <= 2
          OBVIOUS
        <5> QED BY <1>1, <3>1, <5>1, Zenon DEF Decoding, FieldsRead
      <4>2. Len(Part(b, 1, 2)) = 2
        <5>1. 1 \in Nat \ {0} /\ 2 \in Nat /\ 1 <= 2 + 1 /\ 2 < Len(b) /\ 2 - 1 + 1 = 2
          BY <1>0, <1>1, <3>1
        <5> QED BY <1>0, <5>1, PartNext, Zenon
      <4>3. Len(e.dataToDecode) = 2
        BY <4>1, <4>2, Zenon
      <4> QED BY <4>3
    <3>2. CASE k > 2
      BY <2>1, <3>2
    <3>3. k = 2 \/ k > 2
      BY <1>0, <1>6
    <3> QED BY <3>1, <3>2, <3>3, Zenon
  <2>3. CASE p.opcode = 3
    <3>1. ~(/\ e.startedPacketSize /\ ~e.finishedPacketSize
            /\ e.packetSizeByte = <<>>)
          /\ ~(/\ e.startedDataBlockNum /\ ~e.finishedDataBlockNum
               /\ e.blockNumDataBytes = <<>>)
      <4>1. /\ DataRead(e, p, b, k) /\ Len(b) = 6 + Len(p.data)
            /\ Len(p.data) \in Nat
        BY <1>0, <1>1, <2>3, DataLayout, PacketKinds, LenProperties DEF Decoding, b
      <4>2. CASE k = 2
        <5>1. NothingOfData(e)
          BY <1>0, <4>1, <4>2, NothingRead
        <5> QED BY <5>1, Zenon DEF NothingOfData
      <4>3. CASE k = 3
        <5>1. SizeByte(e, p, b)
          BY <2>3, <4>1, <4>3, DataStates
        <5>2. 3 \in 1 .. Len(b)
          BY <4>1
        <5>4. Part(b, 3, 3) # <<>>
          BY <1>0, <5>2, PartOne, Zenon
        <5> QED BY <5>1, <5>4, Zenon DEF SizeByte
      <4>4. CASE k = 4
        <5>1. SizeRead(e, p, b)
          BY <2>3, <4>1, <4>4, DataStates
        <5> QED BY <5>1, Zenon DEF SizeRead
      <4>5. CASE k = 5
        <5>1. NumberByte(e, p, b)
          BY <2>3, <4>1, <4>5, DataStates
        <5>2. 5 \in 1 .. Len(b)
          BY <4>1
        <5>4. Part(b, 5, 5) # <<>>
          BY <1>0, <5>2, PartOne, Zenon
        <5> QED BY <5>1, <5>4, Zenon DEF NumberByte
      <4>6. CASE k >= 6
        <5>1. NumberRead(e, p, b, k)
          BY <1>0, <2>3, <4>1, <4>6, DataStates
        <5> QED BY <5>1, Zenon DEF NumberRead
      <4> QED BY <1>0, <1>6, <4>2, <4>3, <4>4, <4>5, <4>6
    <3> QED BY <1>0, <2>1, <2>2, <2>3, <3>1 DEF OutOfRange, Fields
  <2>4. CASE p.opcode = 4
    <3>1. ~(e.startedACKBlockNum /\ e.blockNumBytes = <<>>)
      <4>1. AckRead(e, p, b, k) /\ Len(b) = 4
        BY <1>0, <1>1, <2>4, AckLayout DEF Decoding, b
      <4>2. CASE k = 2
        <5>1. NothingOfAck(e)
          BY <1>0, <4>1, <4>2, NothingRead
        <5> QED BY <5>1, Zenon DEF NothingOfAck
      <4>3. CASE k = 3
        <5>1. (p.opcode = 4 /\ k > 2) = TRUE
          BY <2>4, <4>3
        <5>2. e.blockNumBytes = Part(b, 3, 3)
          BY <4>1, <4>3, <5>1, Zenon DEF AckRead
        <5>3. 3 \in 1 .. Len(b)
          BY <4>1
        <5>5. Part(b, 3, 3) # <<>>
          BY <1>0, <5>3, PartOne, Zenon
        <5> QED BY <5>2, <5>5, Zenon
      <4> QED BY <1>0, <1>1, <1>6, <4>1, <4>2, <4>3
    <3> QED BY <1>0, <2>1, <2>2, <2>4, <3>1 DEF OutOfRange, Fields
  <2>5. CASE p.opcode # 3 /\ p.opcode # 4
    BY <1>0, <2>1, <2>2, <2>5 DEF OutOfRange, Fields
  <2> QED BY <2>3, <2>4, <2>5
<1> QED BY <1>4, <1>5, <1>6

LEMMA CleanInRange == ASSUME NEW e, Clean(e) PROVE ~OutOfRange(e)
BY Zenon DEF Clean, OutOfRange

-----------------------------------------------------------------------------
(* The server's decoder on the bytes of a command.                         *)

Less == {p \in Nat \X Nat : p[1] < p[2]}

\* A set of numbers that is not empty has a least one.
LEMMA MinOfNats ==
  ASSUME NEW T \in SUBSET Nat, T # {}
  PROVE  \E m \in T : \A k \in T : m <= k
<1>1. OpToRel(<, Nat) = Less
  BY DEF OpToRel, Less
<1>2. IsWellFoundedOn(Less, Nat)
  BY NatLessThanWellFounded, <1>1
<1>3. \E x \in T : \A y \in T : ~ (<<y, x>> \in Less)
  BY <1>2, WFMin
<1>4. PICK m \in T : \A y \in T : ~ (<<y, m>> \in Less)
  BY <1>3
<1>5. ASSUME NEW k \in T PROVE m <= k
  <2>1. ~ (<<k, m>> \in Less)
    BY <1>4
  <2>2. k \in Nat /\ m \in Nat
    OBVIOUS
  <2>3. <<k, m>> \in Nat \X Nat /\ <<k, m>>[1] = k /\ <<k, m>>[2] = m
    BY <2>2
  <2> QED BY <2>1, <2>2, <2>3 DEF Less
<1> QED BY <1>5

\* decodeAll is the function that begins with a new decoder and goes from byte
\* to byte: there is no other.
LEMMA DecodeAllIs ==
  ASSUME NEW b \in Seq(Byte), NEW g, g = [i \in 0 .. Len(b) |-> g[i]],
         g[0] = {Server!Returns(Server!cleanFields, Server!nullptr)},
         \A i \in 1 .. Len(b) : g[i] = {Server!decodeNextByte(r.d, b[i]) : r \in g[i - 1]}
  PROVE  Server!decodeAll(b) = g[Len(b)]
<1> DEFINE n == Len(b)
           first == {Server!Returns(Server!cleanFields, Server!nullptr)}
           next(s, i) == {Server!decodeNextByte(r.d, b[i]) : r \in s}
           Is(f) == f = [i \in 0 .. n |-> IF i = 0 THEN first ELSE next(f[i - 1], i)]
           f == CHOOSE h : Is(h)
<1>0. n \in Nat
  OBVIOUS
<1>1. Server!decodeAll(b) = f[n]
  BY DEF Server!decodeAll
<1>2. /\ g[0] = first
      /\ \A i \in 1 .. n : g[i] = next(g[i - 1], i)
      /\ g = [i \in 0 .. n |-> g[i]]
  OBVIOUS
<1> HIDE DEF n, first, next
<1>3. Is(g)
  <2>1. \A i \in 0 .. n : g[i] = IF i = 0 THEN first ELSE next(g[i - 1], i)
    <3> SUFFICES ASSUME NEW i \in 0 .. n
                 PROVE  g[i] = IF i = 0 THEN first ELSE next(g[i - 1], i)
      OBVIOUS
    <3>1. i = 0 \/ i \in 1 .. n
      BY <1>0
    <3>2. i \in 1 .. n => i # 0
      BY <1>0
    <3> QED BY <1>2, <3>1, <3>2
  <2>2. [i \in 0 .. n |-> g[i]]
          = [i \in 0 .. n |-> IF i = 0 THEN first ELSE next(g[i - 1], i)]
    BY <2>1
  <2> QED BY <1>2, <2>2
<1>4. Is(f)
  BY <1>3
<1> HIDE DEF f
<1>5. /\ f[0] = first
      /\ \A i \in 1 .. n : f[i] = next(f[i - 1], i)
  <2>1. 0 \in 0 .. n /\ \A i \in 1 .. n : i \in 0 .. n /\ i # 0
    BY <1>0
  <2> QED BY <1>4, <2>1
<1> HIDE DEF Is
<1> DEFINE T == {i \in 0 .. n : f[i] # g[i]}
<1>6. T = {}
  <2> SUFFICES ASSUME T # {} PROVE FALSE
    OBVIOUS
  <2>1. T \in SUBSET Nat
    BY <1>0
  <2> HIDE DEF T
  <2>2. PICK m \in T : \A k \in T : m <= k
    BY <2>1, MinOfNats
  <2>3. m \in 0 .. n /\ f[m] # g[m]
    BY DEF T
  <2>4. m # 0
    BY <1>2, <1>5, <2>3
  <2>5. m \in 1 .. n /\ m - 1 \in 0 .. n /\ ~(m <= m - 1)
    BY <1>0, <2>3, <2>4
  <2>6. m - 1 \notin T
    BY <2>2, <2>5
  <2>7. f[m - 1] = g[m - 1]
    BY <2>5, <2>6 DEF T
  <2>8. f[m] = next(f[m - 1], m) /\ g[m] = next(g[m - 1], m)
    BY <1>2, <1>5, <2>5
  <2> QED BY <2>3, <2>7, <2>8
<1>7. n \in 0 .. n
  BY <1>0
<1>8. f[n] = g[n]
  BY <1>6, <1>7
<1> QED BY <1>1, <1>8 DEF n

-----------------------------------------------------------------------------
(* A call of decodeNextByte on a decoder that may have lost its place.     *)

LEMMA ShortOfBytes ==
  ASSUME NEW s \in Seq(Byte), Len(s) >= 2
  PROVE  bytesToShort(s) \in Short
<1> DEFINE h == s[1]
           l == s[2]
           n == 256 * h + l
<1>1. h \in 0 .. 255 /\ l \in 0 .. 255
  <2>1. h \in Byte /\ l \in Byte
    BY ElementOfSeq
  <2> QED BY <2>1 DEF Byte
<1>2. bytesToShort(s) = IF n > 32767 THEN n - 65536 ELSE n
  BY DEF bytesToShort
<1> HIDE DEF h, l
<1>3. n \in Int /\ n >= 0 /\ n <= 65535
  BY <1>1
<1> HIDE DEF n
<1> QED
  BY <1>2, <1>3 DEF Short

\* A byte added to what is there.
LEMMA OneMore ==
  ASSUME NEW s \in Seq(Byte), NEW x \in Byte
  PROVE  /\ Append(s, x) \in Seq(Byte)
         /\ Len(Append(s, x)) = Len(s) + 1 /\ Len(s) \in Nat
         /\ s # <<>> => Len(Append(s, x)) >= 2 /\ bytesToShort(Append(s, x)) \in Short
<1>1. /\ Append(s, x) \in Seq(Byte) /\ Len(Append(s, x)) = Len(s) + 1 /\ Len(s) \in Nat
  BY AppendProperties
<1>2. s # <<>> => Len(Append(s, x)) >= 2
  BY <1>1
<1> QED
  BY <1>1, <1>2, ShortOfBytes, Zenon

\* What OutOfRange leaves out, and the two bits of the opcode that go together.
Callable(e) ==
  /\ e \in Fields
  /\ ~OutOfRange(e)
  /\ e.readSecond => e.isOpCodeInitialized

LEMMA OpensIt ==
  ASSUME NEW e, Callable(e), NEW x \in Byte
  PROVE  LET k == opened(e, x)
         IN /\ k \in Fields
            /\ k.readSecond = e.readSecond
            /\ e.isOpCodeInitialized =>
                 /\ k.startedInitializingOpCode = e.startedInitializingOpCode
                 /\ k.isOpCodeInitialized
                 /\ k.opcode = e.opcode /\ k.opcodeBytes = e.opcodeBytes
                 /\ k.startedACKBlockNum = e.startedACKBlockNum
                 /\ k.blockNumBytes = e.blockNumBytes
                 /\ k.startedPacketSize = e.startedPacketSize
                 /\ k.finishedPacketSize = e.finishedPacketSize
                 /\ k.packetSizeByte = e.packetSizeByte
                 /\ k.startedDataBlockNum = e.startedDataBlockNum
                 /\ k.finishedDataBlockNum = e.finishedDataBlockNum
                 /\ k.blockNumDataBytes = e.blockNumDataBytes
            /\ ~e.isOpCodeInitialized =>
                 /\ k.startedInitializingOpCode
                 /\ k.isOpCodeInitialized = e.startedInitializingOpCode
                 /\ k.opcodeBytes = Append(e.opcodeBytes, x)
                 /\ e.startedInitializingOpCode => k.opcode = bytesToShort(k.opcodeBytes)
<1> DEFINE k == opened(e, x)
<1>0. /\ e \in Fields /\ e.opcodeBytes \in Seq(Byte) /\ e.dataToDecode \in Seq(Byte)
      /\ e.isOpCodeInitialized \in BOOLEAN /\ e.startedInitializingOpCode \in BOOLEAN
      /\ e.readSecond \in BOOLEAN /\ e.removedOpcode \in BOOLEAN
  BY DEF Callable, Fields
<1>1. CASE e.isOpCodeInitialized
  <2> DEFINE d == popTwoFirstBytes(e.dataToDecode)
  <2>1. d \in Seq(Byte)
    <3>1. Len(e.dataToDecode) \in Nat
      BY <1>0, LenProperties
    <3>2. \A i \in 3 .. Len(e.dataToDecode) : e.dataToDecode[i] \in Byte
      BY <1>0, <3>1, ElementOfSeq
    <3> QED BY <3>1, <3>2, SubSeqProperties DEF popTwoFirstBytes
  <2>2. \/ k = e
        \/ k = [e EXCEPT !.removedOpcode = TRUE, !.dataToDecode = d]
    BY <1>1 DEF opened
  <2> HIDE DEF k, d
  <2>3. CASE k = e
    BY <1>0, <1>1, <2>3 DEF k
  <2>4. CASE k = [e EXCEPT !.removedOpcode = TRUE, !.dataToDecode = d]
    <3>1. k \in Fields
      BY <1>0, <2>1, <2>4 DEF Fields
    <3>2. /\ k.readSecond = e.readSecond
          /\ k.startedInitializingOpCode = e.startedInitializingOpCode
          /\ k.isOpCodeInitialized = e.isOpCodeInitialized
          /\ k.opcode = e.opcode /\ k.opcodeBytes = e.opcodeBytes
          /\ k.startedACKBlockNum = e.startedACKBlockNum
          /\ k.blockNumBytes = e.blockNumBytes
          /\ k.startedPacketSize = e.startedPacketSize
          /\ k.finishedPacketSize = e.finishedPacketSize
          /\ k.packetSizeByte = e.packetSizeByte
          /\ k.startedDataBlockNum = e.startedDataBlockNum
          /\ k.finishedDataBlockNum = e.finishedDataBlockNum
          /\ k.blockNumDataBytes = e.blockNumDataBytes
      BY <1>0, <2>4 DEF Fields
    <3> QED BY <1>1, <3>1, <3>2 DEF k
  <2> QED BY <2>2, <2>3, <2>4
<1>2. CASE ~e.isOpCodeInitialized
  <2> DEFINE b == Append(e.opcodeBytes, x)
             i == initializeOpCode(e, x)
  <2>1. /\ b \in Seq(Byte)
        /\ e.startedInitializingOpCode => bytesToShort(b) \in Short
    BY <1>0, <1>2, OneMore DEF Callable, OutOfRange
  <2> HIDE DEF b
  <2>2. /\ i \in Fields /\ i.readSecond = e.readSecond
        /\ i.startedInitializingOpCode
        /\ i.isOpCodeInitialized = e.startedInitializingOpCode
        /\ i.opcodeBytes = b
        /\ e.startedInitializingOpCode => i.opcode = bytesToShort(b)
    <3>1. CASE e.startedInitializingOpCode
      <4>1. i = [e EXCEPT !.opcodeBytes = b, !.opcode = bytesToShort(b),
                          !.isOpCodeInitialized = TRUE]
        BY <3>1 DEF initializeOpCode, b
      <4> QED BY <1>0, <2>1, <3>1, <4>1 DEF Fields
    <3>2. CASE ~e.startedInitializingOpCode
      <4>1. i = [e EXCEPT !.opcodeBytes = b, !.startedInitializingOpCode = TRUE]
        BY <3>2 DEF initializeOpCode, b
      <4> QED BY <1>0, <1>2, <2>1, <3>2, <4>1 DEF Fields
    <3> QED BY <3>1, <3>2
  <2>3. k = i
    <3>1. e.readSecond = FALSE
      BY <1>0, <1>2 DEF Callable
    <3> HIDE DEF i
    <3>2. ~i.readSecond
      BY <2>2, <3>1
    <3> QED BY <1>2, <3>2 DEF opened, i
  <2> HIDE DEF k, i
  <2> QED BY <1>2, <2>2, <2>3 DEF k, b
<1> QED
  BY <1>1, <1>2

\* A call that returns nothing keeps the opcode; one that returns a packet of
\* that opcode begins anew.
After(k, r) ==
  \/ /\ r.packet = nullptr
     /\ r.ed.startedInitializingOpCode = k.startedInitializingOpCode
     /\ r.ed.isOpCodeInitialized = k.isOpCodeInitialized
     /\ r.ed.opcode = k.opcode /\ r.ed.opcodeBytes = k.opcodeBytes
     /\ r.ed.readSecond \in {k.readSecond, Len(k.opcodeBytes) = 2}
  \/ /\ r.packet.opcode = k.opcode /\ k.opcode \in 1 .. 10
     /\ k.isOpCodeInitialized
     /\ r.ed.startedInitializingOpCode = FALSE
     /\ r.ed.isOpCodeInitialized = FALSE
     /\ r.ed.readSecond = FALSE
     /\ r.ed.opcodeBytes = <<>>

LEMMA CleanedAfter ==
  ASSUME NEW k, k.isOpCodeInitialized, k.opcode \in 1 .. 10,
         NEW e \in Fields, NEW r,
         r.ed = cleanFields(e) \/ r.ed = cleanSpecificFields(e),
         r.packet.opcode = k.opcode
  PROVE  r.ed \in Fields /\ After(k, r)
<1>1. CASE r.ed = cleanFields(e)
  <2>1. r.ed \in Fields /\ Clean(r.ed)
    BY <1>1, CleanFields
  <2> QED BY <2>1 DEF After, Clean
<1>2. CASE r.ed = cleanSpecificFields(e)
  <2>1. r.ed \in Fields
    BY <1>2, CleanFields
  <2>2. /\ r.ed.startedInitializingOpCode = FALSE /\ r.ed.isOpCodeInitialized = FALSE
        /\ r.ed.readSecond = FALSE /\ r.ed.opcodeBytes = <<>>
    BY <1>2 DEF cleanSpecificFields, Fields
  <2> QED BY <2>1, <2>2 DEF After
<1> QED
  BY <1>1, <1>2

LEMMA Pushed ==
  ASSUME NEW k \in Fields, NEW x \in Byte
  PROVE  pushByte(k, x) \in Fields /\ After(k, Returns(pushByte(k, x), nullptr))
<1> DEFINE d == Append(k.dataToDecode, x)
           t == Len(k.opcodeBytes) = 2
           p == pushByte(k, x)
<1>1. d \in Seq(Byte) /\ t \in BOOLEAN
  BY OneMore DEF Fields
<1>2. p = [k EXCEPT !.dataToDecode = d, !.readSecond = t]
  BY DEF pushByte
<1>3. t = (Len(k.opcodeBytes) = 2)
  OBVIOUS
<1> HIDE DEF d, t, p
<1>4. p \in Fields
  BY <1>1, <1>2 DEF Fields
<1>5. /\ p.startedInitializingOpCode = k.startedInitializingOpCode
      /\ p.isOpCodeInitialized = k.isOpCodeInitialized
      /\ p.opcode = k.opcode /\ p.opcodeBytes = k.opcodeBytes
      /\ p.readSecond = t
  BY <1>2 DEF Fields
<1>6. After(k, Returns(p, nullptr))
  BY <1>3, <1>5 DEF After, Returns
<1> QED
  BY <1>4, <1>6 DEF p

\* The fields of the opcode are not those of the reader of a class.
LEMMA KeptAfter ==
  ASSUME NEW k, NEW r, r.packet = nullptr,
         r.ed.startedInitializingOpCode = k.startedInitializingOpCode,
         r.ed.isOpCodeInitialized = k.isOpCodeInitialized,
         r.ed.opcode = k.opcode, r.ed.opcodeBytes = k.opcodeBytes,
         r.ed.readSecond = k.readSecond
  PROVE  After(k, r)
BY DEF After

\* What EXCEPT leaves alone and what it keeps of the type, field by field.
LEMMA OpcodeFields ==
  ASSUME NEW k \in Fields
  PROVE  /\ k = [f \in DOMAIN k |-> k[f]]
         /\ {"startedInitializingOpCode", "isOpCodeInitialized", "opcode", "opcodeBytes",
             "readSecond"} \subseteq DOMAIN k
BY DEF Fields

LEMMA FieldSet ==
  ASSUME NEW k \in Fields
  PROVE  /\ \A v \in Seq(Byte) : /\ [k EXCEPT !.data = v] \in Fields
                                /\ [k EXCEPT !.blockNumBytes = v] \in Fields
                                /\ [k EXCEPT !.packetSizeByte = v] \in Fields
                                /\ [k EXCEPT !.blockNumDataBytes = v] \in Fields
         /\ [k EXCEPT !.startedACKBlockNum = TRUE] \in Fields
         /\ [k EXCEPT !.startedPacketSize = TRUE] \in Fields
         /\ [k EXCEPT !.finishedPacketSize = TRUE] \in Fields
         /\ [k EXCEPT !.startedDataBlockNum = TRUE] \in Fields
         /\ [k EXCEPT !.finishedDataBlockNum = TRUE] \in Fields
         /\ \A n \in Short : /\ [k EXCEPT !.packetSize = n] \in Fields
                           /\ [k EXCEPT !.blockNum = n] \in Fields
         /\ \A n \in Int : [k EXCEPT !.leftToRead = n] \in Fields
<1>1. \A v \in Seq(Byte) : [k EXCEPT !.data = v] \in Fields
  BY DEF Fields
<1>2. \A v \in Seq(Byte) : [k EXCEPT !.blockNumBytes = v] \in Fields
  BY DEF Fields
<1>3. \A v \in Seq(Byte) : [k EXCEPT !.packetSizeByte = v] \in Fields
  BY DEF Fields
<1>4. \A v \in Seq(Byte) : [k EXCEPT !.blockNumDataBytes = v] \in Fields
  BY DEF Fields
<1>5. [k EXCEPT !.startedACKBlockNum = TRUE] \in Fields
  BY DEF Fields
<1>6. [k EXCEPT !.startedPacketSize = TRUE] \in Fields
  BY DEF Fields
<1>7. [k EXCEPT !.finishedPacketSize = TRUE] \in Fields
  BY DEF Fields
<1>8. [k EXCEPT !.startedDataBlockNum = TRUE] \in Fields
  BY DEF Fields
<1>9. [k EXCEPT !.finishedDataBlockNum = TRUE] \in Fields
  BY DEF Fields
<1>10. \A n \in Short : [k EXCEPT !.packetSize = n] \in Fields
  BY DEF Fields
<1>11. \A n \in Short : [k EXCEPT !.blockNum = n] \in Fields
  BY DEF Fields
<1>12. \A n \in Int : [k EXCEPT !.leftToRead = n] \in Fields
  BY DEF Fields
<1> QED
  BY <1>1, <1>2, <1>3, <1>4, <1>5, <1>6, <1>7, <1>8, <1>9, <1>10, <1>11, <1>12

LEMMA AckCalled ==
  ASSUME NEW k \in Fields, NEW x \in Byte, k.isOpCodeInitialized, k.opcode = 4,
         k.startedACKBlockNum => k.blockNumBytes # <<>>
  PROVE  LET r == readAckPacket(k, x) IN r.ed \in Fields /\ After(k, r)
<1> DEFINE r == readAckPacket(k, x)
           s == Append(k.blockNumBytes, x)
           Same(j) == /\ j.startedInitializingOpCode = k.startedInitializingOpCode
                      /\ j.isOpCodeInitialized = k.isOpCodeInitialized
                      /\ j.opcode = k.opcode /\ j.opcodeBytes = k.opcodeBytes
                      /\ j.readSecond = k.readSecond
<1>1. CASE k.startedACKBlockNum
  <2>1. r = Returns(cleanSpecificFields(k), AckPacket(bytesToShort(s)))
    BY <1>1 DEF readAckPacket
  <2>2. r.ed = cleanSpecificFields(k) /\ r.packet.opcode = k.opcode
    BY <2>1 DEF Returns, AckPacket
  <2> HIDE DEF r
  <2> QED BY <2>2, CleanedAfter DEF r
<1>2. CASE ~k.startedACKBlockNum
  <2>1. s \in Seq(Byte)
    BY OneMore DEF Fields
  <2> HIDE DEF s
  <2>2. r = Returns([k EXCEPT !.blockNumBytes = s, !.startedACKBlockNum = TRUE], nullptr)
    BY <1>2 DEF readAckPacket, s
  <2> HIDE DEF r
  <2>3. r.ed = [k EXCEPT !.blockNumBytes = s, !.startedACKBlockNum = TRUE]
        /\ r.packet = nullptr
    BY <2>2 DEF Returns
  <2>4. r.ed \in Fields
    BY <2>1, <2>3, FieldSet, Zenon
  <2>5. Same([k EXCEPT !.blockNumBytes = s, !.startedACKBlockNum = TRUE])
    BY OpcodeFields
  <2>6. Same(r.ed)
    BY <2>3, <2>5, Zenon
  <2> QED BY <2>3, <2>4, <2>6, KeptAfter DEF r
<1> QED
  BY <1>1, <1>2

LEMMA DataCalled ==
  ASSUME NEW k \in Fields, NEW x \in Byte, k.isOpCodeInitialized, k.opcode = 3,
         k.startedPacketSize /\ ~k.finishedPacketSize => k.packetSizeByte # <<>>,
         k.startedDataBlockNum /\ ~k.finishedDataBlockNum => k.blockNumDataBytes # <<>>
  PROVE  LET r == readDataPacket(k, x) IN r.ed \in Fields /\ After(k, r)
<1> DEFINE r == readDataPacket(k, x)
           s == Append(k.packetSizeByte, x)
           n == Append(k.blockNumDataBytes, x)
           d == Append(k.data, x)
           Same(j) == /\ j.startedInitializingOpCode = k.startedInitializingOpCode
                      /\ j.isOpCodeInitialized = k.isOpCodeInitialized
                      /\ j.opcode = k.opcode /\ j.opcodeBytes = k.opcodeBytes
                      /\ j.readSecond = k.readSecond
<1>0. /\ s \in Seq(Byte) /\ n \in Seq(Byte) /\ d \in Seq(Byte)
      /\ k.packetSizeByte # <<>> => bytesToShort(s) \in Short
      /\ k.blockNumDataBytes # <<>> => bytesToShort(n) \in Short
  BY OneMore DEF Fields
<1>a. k.packetSize \in Int /\ k.leftToRead \in Int
  BY DEF Fields, Short
<1>1. CASE ~k.startedPacketSize
  <2>1. r = Returns([k EXCEPT !.packetSizeByte = s, !.startedPacketSize = TRUE], nullptr)
    BY <1>1 DEF readDataPacket
  <2> HIDE DEF r, s, n, d
  <2>2. /\ r.ed = [k EXCEPT !.packetSizeByte = s, !.startedPacketSize = TRUE]
        /\ r.packet = nullptr
    BY <2>1 DEF Returns
  <2>3. r.ed \in Fields
    BY <1>0, <2>2, FieldSet, Zenon
  <2>4. Same([k EXCEPT !.packetSizeByte = s, !.startedPacketSize = TRUE])
    BY OpcodeFields
  <2>5. Same(r.ed)
    BY <2>2, <2>4, Zenon
  <2> QED BY <2>2, <2>3, <2>5, KeptAfter DEF r
<1>2. CASE k.startedPacketSize /\ ~k.finishedPacketSize
  <2>1. r = Returns([k EXCEPT !.packetSizeByte = s, !.finishedPacketSize = TRUE,
                              !.packetSize = bytesToShort(s)], nullptr)
    BY <1>2 DEF readDataPacket
  <2>2. bytesToShort(s) \in Short
    BY <1>0, <1>2
  <2> HIDE DEF r, s, n, d
  <2>3. /\ r.ed = [k EXCEPT !.packetSizeByte = s, !.finishedPacketSize = TRUE,
                            !.packetSize = bytesToShort(s)]
        /\ r.packet = nullptr
    BY <2>1 DEF Returns
  <2>4. r.ed \in Fields
    <3>1. [k EXCEPT !.packetSizeByte = s, !.finishedPacketSize = TRUE] \in Fields
      BY <1>0, FieldSet, Zenon
    <3>2. [k EXCEPT !.packetSizeByte = s, !.finishedPacketSize = TRUE,
                    !.packetSize = bytesToShort(s)] \in Fields
      BY <2>2, <3>1, FieldSet, Zenon
    <3> QED BY <2>3, <3>2, Zenon
  <2>5. Same([k EXCEPT !.packetSizeByte = s, !.finishedPacketSize = TRUE,
                     !.packetSize = bytesToShort(s)])
    BY OpcodeFields
  <2>6. Same(r.ed)
    BY <2>3, <2>5, Zenon
  <2> QED BY <2>3, <2>4, <2>6, KeptAfter DEF r
<1>3. CASE /\ k.startedPacketSize /\ k.finishedPacketSize
           /\ ~k.startedDataBlockNum
  <2>1. r = Returns([k EXCEPT !.blockNumDataBytes = n, !.startedDataBlockNum = TRUE],
                    nullptr)
    BY <1>3 DEF readDataPacket
  <2> HIDE DEF r, s, n, d
  <2>2. /\ r.ed = [k EXCEPT !.blockNumDataBytes = n, !.startedDataBlockNum = TRUE]
        /\ r.packet = nullptr
    BY <2>1 DEF Returns
  <2>3. r.ed \in Fields
    BY <1>0, <2>2, FieldSet, Zenon
  <2>4. Same([k EXCEPT !.blockNumDataBytes = n, !.startedDataBlockNum = TRUE])
    BY OpcodeFields
  <2>5. Same(r.ed)
    BY <2>2, <2>4, Zenon
  <2> QED BY <2>2, <2>3, <2>5, KeptAfter DEF r
<1>4. CASE /\ k.startedPacketSize /\ k.finishedPacketSize
           /\ k.startedDataBlockNum /\ ~k.finishedDataBlockNum
  <2> DEFINE m == bytesToShort(n)
             j == [k EXCEPT !.blockNumDataBytes = n, !.finishedDataBlockNum = TRUE,
                            !.blockNum = m, !.leftToRead = k.packetSize]
  <2>1. m \in Short
    BY <1>0, <1>4
  <2>2. /\ k.packetSize = 0 =>
             r = Returns(cleanFields(j), DataPacket(0, j.blockNum, k.data))
        /\ k.packetSize # 0 => r = Returns(j, nullptr)
    BY <1>4 DEF readDataPacket
  <2> HIDE DEF r, s, n, d, m
  <2>3. j \in Fields
    BY <1>0, <1>a, <2>1, FieldSet, Zenon
  <2>4. /\ j.startedInitializingOpCode = k.startedInitializingOpCode
        /\ j.isOpCodeInitialized = k.isOpCodeInitialized
        /\ j.opcode = k.opcode /\ j.opcodeBytes = k.opcodeBytes
        /\ j.readSecond = k.readSecond
    BY OpcodeFields
  <2> HIDE DEF j
  <2>5. CASE k.packetSize = 0
    <3>1. r.ed = cleanFields(j) /\ r.packet.opcode = k.opcode
      BY <2>2, <2>5 DEF Returns, DataPacket
    <3> QED BY <2>3, <3>1, CleanedAfter DEF r
  <2>6. CASE k.packetSize # 0
    <3>1. r.ed = j /\ r.packet = nullptr
      BY <2>2, <2>6 DEF Returns
    <3> QED BY <2>3, <2>4, <3>1, KeptAfter DEF r
  <2> QED BY <2>5, <2>6
<1>5. CASE /\ k.startedPacketSize /\ k.finishedPacketSize
           /\ k.startedDataBlockNum /\ k.finishedDataBlockNum
  <2>1. CASE k.leftToRead = 1
    <3>1. r = Returns(cleanFields(k), DataPacket(k.packetSize, k.blockNum, d))
      BY <1>5, <2>1 DEF readDataPacket
    <3> HIDE DEF r
    <3>2. r.ed = cleanFields(k) /\ r.packet.opcode = k.opcode
      BY <3>1 DEF Returns, DataPacket
    <3> QED BY <3>2, CleanedAfter DEF r
  <2>2. CASE k.leftToRead > 1
    <3> DEFINE l == k.leftToRead - 1
    <3>1. r = Returns([k EXCEPT !.data = d, !.leftToRead = l], nullptr)
      BY <1>5, <1>a, <2>2 DEF readDataPacket
    <3>2. l \in Int
      BY <1>a
    <3> HIDE DEF r, s, n, d, l
    <3>3. r.ed = [k EXCEPT !.data = d, !.leftToRead = l] /\ r.packet = nullptr
      BY <3>1 DEF Returns
    <3>4. r.ed \in Fields
      <4>1. [k EXCEPT !.data = d] \in Fields
        BY <1>0, FieldSet, Zenon
      <4>2. [k EXCEPT !.data = d, !.leftToRead = l] \in Fields
        BY <3>2, <4>1, FieldSet, Zenon
      <4> QED BY <3>3, <4>2, Zenon
    <3>5. Same([k EXCEPT !.data = d, !.leftToRead = l])
      BY OpcodeFields
    <3>6. Same(r.ed)
      BY <3>3, <3>5, Zenon
    <3> QED BY <3>3, <3>4, <3>6, KeptAfter DEF r
  <2>3. CASE k.leftToRead < 1
    <3>1. r = Returns(k, nullptr)
      BY <1>5, <1>a, <2>3 DEF readDataPacket
    <3> HIDE DEF r
    <3>2. r.ed = k /\ r.packet = nullptr
      BY <3>1 DEF Returns
    <3> QED BY <3>2, KeptAfter DEF r
  <2> QED BY <1>a, <2>1, <2>2, <2>3
<1> QED
  BY <1>1, <1>2, <1>3, <1>4, <1>5

\* One call on any decoder that does not run past the end of a vector.
LEMMA Called ==
  ASSUME NEW e, Callable(e), NEW x \in Byte
  PROVE  LET r == decodeNextByte(e, x)
         IN r.ed \in Fields /\ After(opened(e, x), r) /\ getOpcode(r.packet) \in 0 .. 10
<1> DEFINE k == opened(e, x)
           r == decodeNextByte(e, x)
           z == handleCasesWithZeroAtTheEnd(k, x)
<1>1. /\ k \in Fields /\ k.readSecond = e.readSecond
      /\ e.isOpCodeInitialized =>
           /\ k.isOpCodeInitialized /\ k.opcode = e.opcode
           /\ k.startedACKBlockNum = e.startedACKBlockNum
           /\ k.blockNumBytes = e.blockNumBytes
           /\ k.startedPacketSize = e.startedPacketSize
           /\ k.finishedPacketSize = e.finishedPacketSize
           /\ k.packetSizeByte = e.packetSizeByte
           /\ k.startedDataBlockNum = e.startedDataBlockNum
           /\ k.finishedDataBlockNum = e.finishedDataBlockNum
           /\ k.blockNumDataBytes = e.blockNumDataBytes
  BY OpensIt
<1>2. e.readSecond => e.isOpCodeInitialized
  BY DEF Callable
<1>d. r = IF ~e.isOpCodeInitialized /\ k.isOpCodeInitialized /\ k.opcode \in {6, 10}
          THEN Returns(cleanFields(k), IF k.opcode = 6 THEN DIRQPacket ELSE DiscPacket)
          ELSE IF k.readSecond /\ k.opcode = 3 THEN readDataPacket(k, x)
          ELSE IF k.readSecond /\ k.opcode = 4 THEN readAckPacket(k, x)
          ELSE IF k.readSecond /\ k.opcode \in ZeroTerminated /\ z # nullptr
          THEN Returns(cleanFields(k), z)
          ELSE Returns(pushByte(k, x), nullptr)
  BY DEF decodeNextByte
<1>h. z # nullptr => z.opcode = k.opcode
  BY DEF handleCasesWithZeroAtTheEnd, BCastPacket, DELRQPacket, LOGRQPacket,
         ErrorPacket, WRQPacket, RRQPacket, nullptr
<1> HIDE DEF k, r, z
<1>3. r.ed \in Fields /\ After(k, r)
  <2>1. CASE ~e.isOpCodeInitialized /\ k.isOpCodeInitialized /\ k.opcode \in {6, 10}
    <3>1. r.ed = cleanFields(k) /\ r.packet.opcode = k.opcode
      BY <1>d, <2>1 DEF Returns, DIRQPacket, DiscPacket
    <3> QED BY <1>1, <2>1, <3>1, CleanedAfter
  <2>2. CASE ~(~e.isOpCodeInitialized /\ k.isOpCodeInitialized /\ k.opcode \in {6, 10})
    <3>1. CASE k.readSecond /\ k.opcode = 3
      <4>1. r = readDataPacket(k, x)
        BY <1>d, <2>2, <3>1
      <4>2. /\ k.startedPacketSize /\ ~k.finishedPacketSize => k.packetSizeByte # <<>>
            /\ k.startedDataBlockNum /\ ~k.finishedDataBlockNum =>
                 k.blockNumDataBytes # <<>>
        BY <1>1, <1>2, <3>1 DEF Callable, OutOfRange
      <4> QED BY <1>1, <1>2, <3>1, <4>1, <4>2, DataCalled
    <3>2. CASE k.readSecond /\ k.opcode = 4
      <4>1. r = readAckPacket(k, x)
        BY <1>d, <2>2, <3>2
      <4>2. k.startedACKBlockNum => k.blockNumBytes # <<>>
        BY <1>1, <1>2, <3>2 DEF Callable, OutOfRange
      <4> QED BY <1>1, <1>2, <3>2, <4>1, <4>2, AckCalled
    <3>3. CASE k.readSecond /\ k.opcode \in ZeroTerminated /\ z # nullptr
      <4>1. r = Returns(cleanFields(k), z)
        BY <1>d, <2>2, <3>3 DEF ZeroTerminated
      <4>2. r.ed = cleanFields(k) /\ r.packet.opcode = k.opcode
        BY <1>h, <3>3, <4>1 DEF Returns
      <4>3. k.opcode \in 1 .. 10
        BY <3>3 DEF ZeroTerminated
      <4> QED BY <1>1, <1>2, <3>3, <4>2, <4>3, CleanedAfter
    <3>4. CASE ~(k.readSecond /\ k.opcode \in {3, 4})
               /\ ~(k.readSecond /\ k.opcode \in ZeroTerminated /\ z # nullptr)
      <4>1. r = Returns(pushByte(k, x), nullptr)
        BY <1>d, <2>2, <3>4
      <4> QED BY <1>1, <4>1, Pushed DEF Returns
    <3> QED BY <3>1, <3>2, <3>3, <3>4
  <2> QED BY <2>1, <2>2
<1>4. getOpcode(r.packet) \in 0 .. 10
  BY <1>3 DEF After, getOpcode, nullptr
<1> QED
  BY <1>3, <1>4 DEF k, r

-----------------------------------------------------------------------------
(* The requests a user types, from the encoder of the client through the   *)
(* decoder of the server.                                                  *)

Typeable(p) == p \in ServerPackets /\ p.opcode \in {1, 2, 6, 7, 8, 10}

\* Both encoders make the same bytes of a request.
LEMMA SameBytes ==
  ASSUME NEW p, Typeable(p)
  PROVE  encode(p) = Enc(p)
<1>1. shortToBytes(p.opcode) = Server!shortToBytes(p.opcode)
  BY DEF shortToBytes, Server!shortToBytes
<1>2. /\ p.opcode = 1 => encode(p) = Enc(p)
      /\ p.opcode = 2 => encode(p) = Enc(p)
      /\ p.opcode = 8 => encode(p) = Enc(p)
  BY <1>1 DEF encode, Enc, Server!encode, getOpcode, Server!getOpcode,
         encodeRRQ, encodeWRQ, encodeDelRQ
<1>3. p.opcode = 7 => encode(p) = Enc(p)
  BY <1>1 DEF encode, Enc, Server!encode, getOpcode, Server!getOpcode, encodeLogRQ
<1>4. p.opcode \in {6, 10} => encode(p) = Enc(p)
  BY <1>1 DEF encode, Enc, Server!encode, getOpcode, Server!getOpcode
<1> QED
  BY <1>2, <1>3, <1>4 DEF Typeable

\* The decoder of the server after i bytes of b.
Held(b, i) ==
  [Server!cleanFields EXCEPT !.opcodeBytes = Part(b, 1, IF i > 2 THEN 2 ELSE i),
                             !.dataToDecode = Part(b, 3, i)]

\* The request the server makes of it: its name is a string of their chars.
Received(p) ==
  CASE p.opcode = 1 -> Server!RRQPacket(Server!popString(p.fileName))
    [] p.opcode = 2 -> Server!WRQPacket(Server!popString(p.fileName))
    [] p.opcode = 7 -> Server!LOGRQPacket(Server!popString(p.userName))
    [] p.opcode = 8 -> Server!DELRQPacket(Server!popString(p.fileName))
    [] OTHER -> p

\* What its call with the last of i bytes of p returns.
Call(p, i) ==
  IF i = Len(Enc(p)) THEN Server!Returns(Server!cleanFields, Received(p))
  ELSE Server!Returns(Held(Enc(p), i), Server!nullptr)

LEMMA TypeableBytes ==
  ASSUME NEW p, Typeable(p)
  PROVE  LET b == Enc(p)
         IN /\ p \in ServerPackets /\ b \in Seq(Byte) /\ Len(b) \in Nat
            /\ b[1] = 0 /\ b[2] = p.opcode
            /\ p.opcode \in {6, 10} => Len(b) = 2
            /\ p.opcode \notin {6, 10} =>
                 /\ p.opcode \in ZeroTerminated
                 /\ Rest(p) \in Text
                 /\ Len(b) = Len(Rest(p)) + 3
                 /\ b[Len(b)] = 0
                 /\ \A i \in 3 .. Len(b) - 1 : b[i] # 0
                 /\ Part(b, 3, Len(b) - 1) = Rest(p)
<1> DEFINE b == Enc(p)
           n == Len(Rest(p))
<1>1. /\ p \in ServerPackets /\ b \in Seq(Byte) /\ Len(b) \in Nat
      /\ b[1] = 0 /\ b[2] = p.opcode
      /\ p.opcode \in {6, 10} => Len(b) = 2
  BY EncIsBody, LongEnough DEF Typeable
<1>2. ASSUME p.opcode \notin {6, 10}
      PROVE  /\ p.opcode \in ZeroTerminated
             /\ Rest(p) \in Text
             /\ Len(b) = Len(Rest(p)) + 3
             /\ b[Len(b)] = 0
             /\ \A i \in 3 .. Len(b) - 1 : b[i] # 0
             /\ Part(b, 3, Len(b) - 1) = Rest(p)
  <2>1. p.opcode \in {1, 2, 7, 8} /\ p.opcode \in ZeroTerminated
    BY <1>2 DEF Typeable, ZeroTerminated
  <2>2. Rest(p) \in Text
    BY <1>1, <2>1, PacketKinds DEF Rest
  <2>3. /\ n \in Nat /\ Len(b) = n + 3 /\ b[n + 3] = 0
        /\ \A i \in 1 .. n : b[i + 2] = Rest(p)[i]
        /\ Part(b, 3, n + 2) = Rest(p)
    BY <1>1, <2>1, RestInEnc
  <2>4. \A i \in 1 .. n : Rest(p)[i] # 0
    BY <2>2, TextIsBytes
  <2> HIDE DEF b, n
  <2>5. \A i \in 3 .. n + 2 : b[i] # 0
    <3> SUFFICES ASSUME NEW i \in 3 .. n + 2 PROVE b[i] # 0
      OBVIOUS
    <3>1. i - 2 \in 1 .. n /\ (i - 2) + 2 = i
      BY <2>3
    <3> QED BY <2>3, <2>4, <3>1
  <2>6. Len(b) - 1 = n + 2
    BY <2>3
  <2> QED BY <2>1, <2>2, <2>3, <2>5, <2>6 DEF n
<1> QED
  BY <1>1, <1>2

LEMMA HeldFields ==
  ASSUME NEW b, NEW i
  PROVE  /\ Held(b, i).opcodeBytes = Part(b, 1, IF i > 2 THEN 2 ELSE i)
         /\ Held(b, i).dataToDecode = Part(b, 3, i)
         /\ \A s, t : [Held(b, i) EXCEPT !.opcodeBytes = s, !.dataToDecode = t]
                        = [Server!cleanFields EXCEPT !.opcodeBytes = s, !.dataToDecode = t]
BY DEF Held, Server!cleanFields

\* The two bytes of the opcode.
LEMMA ServerOpens ==
  ASSUME NEW p, Typeable(p), NEW i \in 1 .. 2
  PROVE  Server!decodeNextByte(Held(Enc(p), i - 1), Enc(p)[i]) = Call(p, i)
<1> DEFINE b == Enc(p)
           d == Held(b, i - 1)
           x == b[i]
           s == Append(d.opcodeBytes, x)
<1>0. /\ b \in Seq(Byte) /\ Len(b) \in Nat /\ Len(b) >= 2 /\ x \in Byte
      /\ b[1] = 0 /\ b[2] = p.opcode /\ p.opcode \in {1, 2, 6, 7, 8, 10}
      /\ p.opcode \in {6, 10} <=> Len(b) = 2
      /\ p \in ServerPackets
  <2>1. /\ b \in Seq(Byte) /\ Len(b) \in Nat /\ p \in ServerPackets
        /\ b[1] = 0 /\ b[2] = p.opcode /\ p.opcode \in {1, 2, 6, 7, 8, 10}
    BY TypeableBytes DEF Typeable
  <2>2. /\ p.opcode \in {6, 10} => Len(b) = 2
        /\ p.opcode \notin {6, 10} => Len(b) > 2
    BY <2>1, LongEnough
  <2>3. i \in 1 .. Len(b)
    BY <2>1, <2>2
  <2>4. x \in Byte
    BY <2>1, <2>3, ElementOfSeq, Zenon
  <2>5. Len(b) >= 2 /\ (p.opcode \in {6, 10} <=> Len(b) = 2)
    <3> DEFINE n == Len(b)
               o == p.opcode
    <3>1. /\ n \in Nat /\ (o \in {6, 10} => n = 2) /\ (o \notin {6, 10} => n > 2)
      BY <2>1, <2>2
    <3> HIDE DEF n, o
    <3>2. n >= 2 /\ (o \in {6, 10} <=> n = 2)
      BY <3>1
    <3> QED BY <3>2 DEF n, o
  <2> QED BY <2>1, <2>4, <2>5, Zenon
<1>1. /\ d.opcodeBytes = Part(b, 1, i - 1) /\ d.dataToDecode = <<>>
      /\ Part(b, 3, i) = <<>>
  <2>1. (IF i - 1 > 2 THEN 2 ELSE i - 1) = i - 1
    OBVIOUS
  <2>2. Part(b, 3, i - 1) = <<>> /\ Part(b, 3, i) = <<>>
    BY PartEmpty
  <2> QED BY <2>1, <2>2, HeldFields
<1>2. s = Part(b, 1, i) /\ Len(d.opcodeBytes) = i - 1 /\ Len(s) = i
  <2> DEFINE h == Part(b, 1, i - 1)
  <2>1. /\ 1 \in Nat \ {0} /\ i - 1 \in Nat /\ 1 <= (i - 1) + 1 /\ i - 1 < Len(b)
        /\ (i - 1) + 1 = i /\ (i - 1) - 1 + 1 = i - 1
    BY <1>0
  <2>2. /\ Append(h, b[(i - 1) + 1]) = Part(b, 1, (i - 1) + 1)
        /\ h \in Seq(Byte) /\ Len(h) = (i - 1) - 1 + 1
    BY <1>0, <2>1, PartNext
  <2>3. Len(Append(h, x)) = Len(h) + 1
    BY <1>0, <2>2, OneMore
  <2> QED BY <1>1, <2>1, <2>2, <2>3
<1>3. i = 2 => Server!bytesToShort(s) = p.opcode
  <2> SUFFICES ASSUME i = 2 PROVE Server!bytesToShort(s) = p.opcode
    OBVIOUS
  <2>1. 1 \in 1 .. Len(b) - 1
    BY <1>0
  <2>2. Part(b, 1, 1 + 1)[1] = b[1] /\ Part(b, 1, 1 + 1)[2] = b[1 + 1]
    BY <1>0, <2>1, PartTwo
  <2>3. s[1] = 0 /\ s[2] = p.opcode
    BY <1>0, <1>2, <2>2
  <2> QED BY <1>0, <2>3 DEF Server!bytesToShort
<1>4. [d EXCEPT !.opcodeBytes = s] = Held(b, i)
  <2>1. [d EXCEPT !.opcodeBytes = s]
          = [Server!cleanFields EXCEPT !.opcodeBytes = s, !.dataToDecode = <<>>]
    <3>1. d = [Server!cleanFields EXCEPT !.opcodeBytes = d.opcodeBytes,
                                         !.dataToDecode = <<>>]
      BY <1>1, HeldFields DEF Held
    <3> HIDE DEF s
    <3> QED BY <3>1 DEF Server!cleanFields
  <2>2. (IF i > 2 THEN 2 ELSE i) = i
    OBVIOUS
  <2> QED BY <1>1, <1>2, <2>1, <2>2 DEF Held
<1>5. Server!decodeNextByte(d, x) = Server!initializeOpCode(d, x)
  BY <1>2 DEF Server!decodeNextByte
<1>6. Server!initializeOpCode(d, x) = Call(p, i)
  <2> HIDE DEF d, x, b
  <2>1. CASE i = 1
    <3>1. Server!initializeOpCode(d, x)
            = Server!Returns([d EXCEPT !.opcodeBytes = s], Server!nullptr)
      BY <1>2, <2>1 DEF Server!initializeOpCode
    <3>2. i # Len(b)
      BY <1>0, <2>1
    <3> QED BY <1>4, <3>1, <3>2 DEF Call, b
  <2>2. CASE i = 2 /\ p.opcode \notin {6, 10}
    <3>1. Server!initializeOpCode(d, x)
            = Server!Returns([d EXCEPT !.opcodeBytes = s], Server!nullptr)
      BY <1>2, <1>3, <2>2 DEF Server!initializeOpCode
    <3>2. i # Len(b)
      BY <1>0, <2>2
    <3> QED BY <1>4, <3>1, <3>2 DEF Call, b
  <2>3. CASE i = 2 /\ p.opcode \in {6, 10}
    <3>1. Server!initializeOpCode(d, x) = Server!Returns(Server!cleanFields, Received(p))
      <4>1. /\ p.opcode = 6 => p = Server!DIRQPacket
            /\ p.opcode = 10 => p = Server!DiscPacket
        BY <1>0, PacketKinds DEF DIRQPacket, DiscPacket, Server!DIRQPacket, Server!DiscPacket
      <4>2. Received(p) = p
        BY <2>3 DEF Received
      <4> QED BY <1>2, <1>3, <2>3, <4>1, <4>2 DEF Server!initializeOpCode
    <3>2. i = Len(b)
      BY <1>0, <2>3
    <3> QED BY <3>1, <3>2 DEF Call, b
  <2> QED BY <2>1, <2>2, <2>3
<1> QED
  BY <1>5, <1>6

\* A byte of the name, or the '\0' that ends it.
LEMMA ServerReads ==
  ASSUME NEW p, Typeable(p), NEW i \in 3 .. Len(Enc(p))
  PROVE  Server!decodeNextByte(Held(Enc(p), i - 1), Enc(p)[i]) = Call(p, i)
<1> DEFINE b == Enc(p)
           d == Held(b, i - 1)
           x == b[i]
<1>0. /\ b \in Seq(Byte) /\ Len(b) \in Nat /\ i \in Nat /\ i >= 3 /\ i <= Len(b)
      /\ b[1] = 0 /\ b[2] = p.opcode /\ p.opcode \in {1, 2, 7, 8}
      /\ p.opcode \in ZeroTerminated
      /\ b[Len(b)] = 0
      /\ \A j \in 3 .. Len(b) - 1 : b[j] # 0
      /\ Part(b, 3, Len(b) - 1) = Rest(p)
      /\ p \in ServerPackets
  <2>1. Len(b) \in Nat /\ (p.opcode \in {6, 10} => Len(b) = 2)
    BY TypeableBytes
  <2>2. i \in Nat /\ i >= 3 /\ i <= Len(b)
    BY <2>1
  <2>3. p.opcode \notin {6, 10}
    <3> DEFINE n == Len(b)
    <3> HIDE DEF n
    <3>1. n \in Nat /\ i \in Nat /\ i >= 3 /\ i <= n => n # 2
      OBVIOUS
    <3>2. Len(b) # 2
      BY <2>1, <2>2, <3>1 DEF n
    <3> QED BY <2>1, <3>2, Zenon
  <2>4. p.opcode \in {1, 2, 7, 8}
    BY <2>3 DEF Typeable
  <2> QED BY <2>2, <2>3, <2>4, TypeableBytes
<1>1. d.opcodeBytes = Part(b, 1, 2) /\ d.dataToDecode = Part(b, 3, i - 1)
  <2>1. (IF i - 1 > 2 THEN 2 ELSE i - 1) = 2
    BY <1>0
  <2>2. /\ d.opcodeBytes = Part(b, 1, IF i - 1 > 2 THEN 2 ELSE i - 1)
        /\ d.dataToDecode = Part(b, 3, i - 1)
    BY HeldFields
  <2> QED BY <2>1, <2>2, Zenon
<1>2. Len(d.opcodeBytes) = 2 /\ Server!bytesToShort(d.opcodeBytes) = p.opcode
  <2>1. 1 \in 1 .. Len(b) - 1 /\ 2 \in Nat /\ 1 \in Nat \ {0} /\ 1 <= 2 + 1 /\ 2 < Len(b)
    BY <1>0
  <2>2. Part(b, 1, 1 + 1)[1] = b[1] /\ Part(b, 1, 1 + 1)[2] = b[1 + 1]
    BY <1>0, <2>1, PartTwo
  <2>3. Len(Part(b, 1, 2)) = 2
    <3>1. 1 \in Nat \ {0} /\ 2 \in Nat /\ 1 <= 2 + 1 /\ 2 < Len(b) /\ 2 - 1 + 1 = 2
      BY <1>0
    <3>2. b \in Seq(Byte)
      BY <1>0
    <3> HIDE DEF b
    <3> QED BY <3>1, <3>2, PartNext, Zenon
  <2>4. Part(b, 1, 2)[1] = 0 /\ Part(b, 1, 2)[2] = p.opcode
    BY <1>0, <2>2
  <2>5. Server!bytesToShort(Part(b, 1, 2)) = p.opcode
    BY <1>0, <2>4 DEF Server!bytesToShort
  <2> QED BY <1>1, <2>3, <2>5
<1>3. CASE i = Len(b)
  <2>1. x = 0 /\ d.dataToDecode = Rest(p)
    BY <1>0, <1>1, <1>3
  <2>2. Server!handleCasesWithZeroAtTheEnd(p.opcode, Rest(p)) = Received(p)
    <3>1. /\ p.opcode = 1 => Rest(p) = p.fileName
          /\ p.opcode = 2 => Rest(p) = p.fileName
          /\ p.opcode = 8 => Rest(p) = p.fileName
          /\ p.opcode = 7 => Rest(p) = p.userName
      BY <1>0 DEF Rest
    <3>2. p.opcode = 1 \/ p.opcode = 2 \/ p.opcode = 7 \/ p.opcode = 8
      BY <1>0
    <3> QED BY <3>1, <3>2 DEF Server!handleCasesWithZeroAtTheEnd, Received
  <2> HIDE DEF d, x
  <2>3. Server!decodeNextByte(d, x) = Server!Returns(Server!cleanFields, Received(p))
    BY <1>0, <1>2, <2>1, <2>2 DEF Server!decodeNextByte
  <2> QED BY <1>3, <2>3 DEF Call, d, x
<1>4. CASE i < Len(b)
  <2>1. x # 0
    BY <1>0, <1>4
  <2>2. Append(Part(b, 3, i - 1), x) = Part(b, 3, i)
    <3>1. /\ 3 \in Nat \ {0} /\ i - 1 \in Nat /\ 3 <= (i - 1) + 1 /\ i - 1 < Len(b)
          /\ (i - 1) + 1 = i
      BY <1>0
    <3>2. Append(Part(b, 3, i - 1), b[(i - 1) + 1]) = Part(b, 3, (i - 1) + 1)
      BY <1>0, <3>1, PartNext, SMTT(30)
    <3> QED BY <3>1, <3>2
  <2>3. [d EXCEPT !.dataToDecode = Append(@, x)] = Held(b, i)
    <3>1. [d EXCEPT !.dataToDecode = Append(@, x)]
            = [d EXCEPT !.dataToDecode = Part(b, 3, i)]
      BY <1>1, <2>2
    <3>2. d = [Server!cleanFields EXCEPT !.opcodeBytes = Part(b, 1, 2),
                                         !.dataToDecode = d.dataToDecode]
      <4>1. (IF i - 1 > 2 THEN 2 ELSE i - 1) = 2
        BY <1>0
      <4> QED BY <1>1, <4>1 DEF Held
    <3>3. (IF i > 2 THEN 2 ELSE i) = 2
      BY <1>0
    <3>4. Held(b, i) = [Server!cleanFields EXCEPT !.opcodeBytes = Part(b, 1, 2),
                                                  !.dataToDecode = Part(b, 3, i)]
      BY <3>3 DEF Held
    <3> HIDE DEF d
    <3> QED BY <3>1, <3>2, <3>4 DEF Server!cleanFields
  <2> HIDE DEF d, x
  <2>4. Server!decodeNextByte(d, x)
          = Server!Returns([d EXCEPT !.dataToDecode = Append(@, x)], Server!nullptr)
    BY <1>0, <1>2, <2>1 DEF Server!decodeNextByte
  <2>5. i # Len(b)
    BY <1>0, <1>4
  <2>6. Call(p, i) = Server!Returns(Held(b, i), Server!nullptr)
    BY <2>5 DEF Call
  <2> QED BY <2>3, <2>4, <2>6 DEF d, x
<1> QED
  BY <1>0, <1>3, <1>4

\* A request that a user types arrives at the server under its opcode, with
\* the string new String makes of the bytes of its name, and leaves nothing in
\* the server's decoder.
THEOREM RequestsArrive ==
  ASSUME NEW p, Typeable(p)
  PROVE  Server!decodeAll(encode(p)) = {Server!Returns(Server!cleanFields, Received(p))}
<1> DEFINE b == Enc(p)
           g == [i \in 0 .. Len(b) |-> {Call(p, i)}]
<1>0. b \in Seq(Byte) /\ Len(b) \in Nat /\ Len(b) >= 2
  <2>1. p.opcode \in {6, 10} \/ p.opcode \notin {6, 10}
    OBVIOUS
  <2> QED BY <2>1, TypeableBytes, LongEnough
<1>1. /\ \A i \in 0 .. Len(b) : g[i] = {Call(p, i)}
      /\ g = [i \in 0 .. Len(b) |-> g[i]]
  OBVIOUS
<1>2. Call(p, 0) = Server!Returns(Server!cleanFields, Server!nullptr)
  <2>1. Part(b, 1, 0) = <<>> /\ Part(b, 3, 0) = <<>>
    BY PartEmpty
  <2>2. Held(b, 0) = Server!cleanFields
    <3>1. (IF 0 > 2 THEN 2 ELSE 0) = 0
      OBVIOUS
    <3>2. Held(b, 0) = [Server!cleanFields EXCEPT !.opcodeBytes = <<>>,
                                                  !.dataToDecode = <<>>]
      BY <2>1, <3>1 DEF Held
    <3> QED BY <3>2 DEF Server!cleanFields
  <2>3. 0 # Len(b)
    BY <1>0
  <2> QED BY <2>2, <2>3 DEF Call
<1>3. \A i \in 1 .. Len(b) :
        Server!decodeNextByte(Held(b, i - 1), b[i]) = Call(p, i)
  <2> SUFFICES ASSUME NEW i \in 1 .. Len(b)
               PROVE  Server!decodeNextByte(Held(b, i - 1), b[i]) = Call(p, i)
    OBVIOUS
  <2>1. i \in 1 .. 2 \/ i \in 3 .. Len(b)
    BY <1>0
  <2> QED BY <2>1, ServerOpens, ServerReads
<1> HIDE DEF b, g
<1>4. \A i \in 1 .. Len(b) : g[i] = {Server!decodeNextByte(r.d, b[i]) : r \in g[i - 1]}
  <2> SUFFICES ASSUME NEW i \in 1 .. Len(b)
               PROVE  g[i] = {Server!decodeNextByte(r.d, b[i]) : r \in g[i - 1]}
    OBVIOUS
  <2>1. i \in 0 .. Len(b) /\ i - 1 \in 0 .. Len(b) /\ i - 1 # Len(b)
    BY <1>0
  <2>2. g[i] = {Call(p, i)} /\ g[i - 1] = {Call(p, i - 1)}
    BY <1>1, <2>1
  <2>3. Call(p, i - 1).d = Held(b, i - 1)
    BY <2>1 DEF Call, b, Server!Returns
  <2>4. Server!decodeNextByte(Call(p, i - 1).d, b[i]) = Call(p, i)
    BY <1>3, <2>3
  <2> QED BY <2>2, <2>4
<1>5. g[0] = {Server!Returns(Server!cleanFields, Server!nullptr)}
  BY <1>0, <1>1, <1>2
<1>6. Server!decodeAll(b) = g[Len(b)]
  BY <1>0, <1>1, <1>4, <1>5, DecodeAllIs, Zenon
<1>7. g[Len(b)] = {Call(p, Len(b))}
  BY <1>0, <1>1
<1>8. Call(p, Len(b)) = Server!Returns(Server!cleanFields, Received(p))
  BY DEF Call, b
<1> QED
  BY <1>6, <1>7, <1>8, SameBytes DEF b

\* The chars of the name are ASCII.
Ascii(p) ==
  CASE p.opcode = 7 -> \A i \in 1 .. Len(p.userName) : p.userName[i] < 128
    [] p.opcode \in {1, 2, 8} -> \A i \in 1 .. Len(p.fileName) : p.fileName[i] < 128
    [] OTHER -> TRUE

\* A request whose name is ASCII arrives at the server as the user typed it.
\* popString promises nothing of other names: bytes that are no UTF-8 are
\* replaced.
THEOREM AsciiArrives ==
  ASSUME NEW p, Typeable(p), Ascii(p)
  PROVE  Server!decodeAll(encode(p)) = {Server!Returns(Server!cleanFields, p)}
<1>1. p \in ServerPackets /\ p.opcode \in {1, 2, 6, 7, 8, 10}
  BY DEF Typeable
<1>2. /\ p.opcode = 1 => p = Server!RRQPacket(p.fileName)
      /\ p.opcode = 2 => p = Server!WRQPacket(p.fileName)
      /\ p.opcode = 8 => p = Server!DELRQPacket(p.fileName)
      /\ p.opcode = 7 => p = Server!LOGRQPacket(p.userName)
  BY <1>1, PacketKinds
     DEF RRQPacket, WRQPacket, DELRQPacket, LOGRQPacket, Server!RRQPacket,
         Server!WRQPacket, Server!DELRQPacket, Server!LOGRQPacket
<1>3. /\ p.opcode \in {1, 2, 8} => Server!popString(p.fileName) = p.fileName
      /\ p.opcode = 7 => Server!popString(p.userName) = p.userName
  BY DEF Ascii, Server!popString
<1>4. Received(p) = p
  <2>1. CASE p.opcode = 1
    BY <1>2, <1>3, <2>1 DEF Received
  <2>2. CASE p.opcode = 2
    BY <1>2, <1>3, <2>2 DEF Received
  <2>3. CASE p.opcode = 7
    BY <1>2, <1>3, <2>3 DEF Received
  <2>4. CASE p.opcode = 8
    BY <1>2, <1>3, <2>4 DEF Received
  <2>5. CASE p.opcode \in {6, 10}
    BY <2>5 DEF Received
  <2> QED BY <1>1, <2>1, <2>2, <2>3, <2>4, <2>5
<1> QED
  BY <1>4, RequestsArrive

-----------------------------------------------------------------------------
(* Bytes that are read from the wrong place.                               *)

\* Of a DATA packet of any size: it begins with a 0.
LEMMA AnyData ==
  ASSUME NEW n \in Nat, NEW m \in Short, NEW s \in Seq(Byte)
  PROVE  LET b == Enc(DataPacket(n, m, s))
         IN b \in Seq(Byte) /\ Len(b) \in Nat /\ Len(b) >= 2 /\ b[1] = 0
<1> DEFINE p == DataPacket(n, m, s)
           sz == Server!shortToBytes(n)
           bn == Server!shortToBytes(m)
<1>1. p.opcode = 3 /\ p.packetSize = n /\ p.blockNum = m /\ p.data = s
  BY DEF DataPacket
<1>2. Server!shortToBytes(3) = <<0, 3>>
  BY OpcodeBytes
<1>3. sz \in Seq(Byte)
  BY DEF Server!shortToBytes, Byte
<1>4. bn \in Seq(Byte)
  BY DEF Server!shortToBytes, Byte, Short
<1>5. <<0, 3>> \in Seq(Byte) /\ Len(<<0, 3>>) = 2 /\ <<0, 3>>[1] = 0
  BY DEF Byte
<1>6. Enc(p) = <<0, 3>> \o sz \o bn \o s
  <2> HIDE DEF p, sz, bn
  <2>1. Enc(p) = <<0, 3>> \o Server!shortToBytes(p.packetSize)
                   \o Server!shortToBytes(p.blockNum) \o p.data
    <3>1. p.opcode \notin {1, 2, 8} /\ p.opcode \notin {6, 10}
      BY <1>1
    <3>2. p.opcode # 4 /\ p.opcode # 5 /\ p.opcode # 7 /\ p.opcode # 9
      BY <1>1
    <3> QED BY <3>1, <3>2, <1>1, <1>2, Zenon DEF Enc, Server!encode, Server!getOpcode
  <2> QED BY <2>1, <1>1 DEF sz, bn
<1> HIDE DEF p, sz, bn
<1> DEFINE a == <<0, 3>> \o sz
           d == a \o bn
<1>7. a \in Seq(Byte) /\ Len(a) \in Nat /\ Len(a) >= 2 /\ a[1] = 0
  BY <1>3, <1>5, Concat
<1> HIDE DEF a
<1>8. d \in Seq(Byte) /\ Len(d) \in Nat /\ Len(d) >= 2 /\ d[1] = 0
  BY <1>4, <1>7, Concat
<1> HIDE DEF d
<1>9. d \o s \in Seq(Byte) /\ Len(d \o s) \in Nat /\ Len(d \o s) >= 2 /\ (d \o s)[1] = 0
  BY <1>8, Concat
<1> QED
  BY <1>6, <1>9 DEF a, d, p

\* A broadcast about a file whose name has no control characters.
Announces(p) ==
  /\ p \in ServerPackets /\ p.opcode = 9
  /\ p.delOrAdd \in {0, 1} /\ p.fileName \in Seq(32 .. 255) \ {<<>>}

LEMMA AnnounceBytes ==
  ASSUME NEW p, Announces(p)
  PROVE  LET b == Enc(p)
         IN /\ b \in Seq(Byte) /\ Len(b) \in Nat /\ Len(b) > 4
            /\ b[1] = 0 /\ b[2] = 9 /\ b[3] \in {0, 1} /\ b[Len(b)] = 0
            /\ \A i \in 4 .. Len(b) - 1 : b[i] \in 32 .. 255
<1> DEFINE b == Enc(p)
           f == p.fileName
           n == Len(f)
<1>1. p \in ServerPackets /\ p.opcode = 9 /\ p.opcode \in ZeroTerminated
  BY DEF Announces, ZeroTerminated
<1>2. b \in Seq(Byte) /\ b[1] = 0 /\ b[2] = 9
  BY <1>1, EncIsBody
<1>3. n \in Nat /\ n > 0 /\ \A i \in 1 .. n : f[i] \in 32 .. 255
  <2>1. f \in Seq(32 .. 255) /\ f # <<>>
    BY DEF Announces
  <2> QED BY <2>1, ElementOfSeq, EmptySeq
<1>4. /\ Len(Rest(p)) = n + 1 /\ Rest(p) # <<>> /\ Head(Rest(p)) = p.delOrAdd
      /\ \A i \in 1 .. n : Rest(p)[i + 1] = f[i]
  BY <1>1, BCastRest
<1>5. /\ Len(b) = n + 4 /\ b[n + 4] = 0
      /\ \A i \in 1 .. n + 1 : b[i + 2] = Rest(p)[i]
  BY <1>1, <1>3, <1>4, RestInEnc
<1>6. Head(Rest(p)) = Rest(p)[1]
  BY <1>1, RestBytes
<1>7. p.delOrAdd \in {0, 1}
  BY DEF Announces
<1> HIDE DEF b, f, n
<1>8. b[3] \in {0, 1}
  <2>1. 1 \in 1 .. n + 1 /\ 1 + 2 = 3
    BY <1>3
  <2> QED BY <2>1, <1>4, <1>5, <1>6, <1>7
<1>9. \A i \in 4 .. n + 3 : b[i] \in 32 .. 255
  <2> SUFFICES ASSUME NEW i \in 4 .. n + 3 PROVE b[i] \in 32 .. 255
    OBVIOUS
  <2>1. i - 2 \in 1 .. n + 1 /\ (i - 2) + 2 = i
    BY <1>3
  <2>2. b[i] = Rest(p)[i - 2]
    BY <2>1, <1>5
  <2>3. i - 3 \in 1 .. n /\ (i - 3) + 1 = i - 2
    BY <1>3
  <2>4. Rest(p)[i - 2] = f[i - 3]
    BY <2>3, <1>4
  <2> QED BY <2>2, <2>3, <2>4, <1>3
<1>10. Len(b) \in Nat /\ Len(b) > 4 /\ Len(b) - 1 = n + 3
  BY <1>3, <1>5
<1> QED
  BY <1>2, <1>5, <1>8, <1>9, <1>10 DEF b

\* Two bytes of it that are read as an opcode are 9 at its beginning, and none
\* anywhere else.
LEMMA AnnouncePairs ==
  ASSUME NEW p, Announces(p), NEW k \in 1 .. Len(Enc(p)) - 1,
         NEW s, s[1] = Enc(p)[k], s[2] = Enc(p)[k + 1]
  PROVE  /\ bytesToShort(s) \notin {1, 2, 3, 4, 5, 6, 7, 8, 10}
         /\ k > 1 => bytesToShort(s) \notin 1 .. 10
<1> DEFINE b == Enc(p)
           last == Len(b)
           h == s[1]
           l == s[2]
           n == 256 * h + l
<1>1. /\ b \in Seq(Byte) /\ last \in Nat /\ last > 4
      /\ b[1] = 0 /\ b[2] = 9 /\ b[3] \in {0, 1} /\ b[last] = 0
      /\ \A i \in 4 .. last - 1 : b[i] \in 32 .. 255
  BY AnnounceBytes
<1>2. k \in 1 .. last - 1 /\ h = b[k] /\ l = b[k + 1]
  OBVIOUS
<1>3. \A i \in 1 .. last : b[i] \in 0 .. 255
  BY <1>1, ElementOfSeq DEF Byte
<1>4. bytesToShort(s) = IF n > 32767 THEN n - 65536 ELSE n
  BY DEF bytesToShort
<1> HIDE DEF b, last, h, l
<1>5. \/ k = 1 /\ h = 0 /\ l = 9
      \/ h = 9 /\ l \in 0 .. 255
      \/ h \in {0, 1} /\ l \in 32 .. 255
      \/ h \in 32 .. 255 /\ l \in 0 .. 255
  <2>1. CASE k = 1
    BY <1>1, <1>2, <2>1
  <2>2. CASE k = 2
    BY <1>1, <1>2, <1>3, <2>2
  <2>3. CASE k = 3
    BY <1>1, <1>2, <2>3
  <2>4. CASE k > 3
    BY <1>1, <1>2, <1>3, <2>4
  <2> QED BY <1>1, <1>2, <2>1, <2>2, <2>3, <2>4
<1>6. n \in Int /\ n < 65536 /\ ((n = 9 /\ k = 1) \/ n > 10)
  <2>1. CASE k = 1 /\ h = 0 /\ l = 9
    BY <2>1
  <2>2. CASE h = 9 /\ l \in 0 .. 255
    BY <2>2
  <2>3. CASE h = 0 /\ l \in 32 .. 255
    BY <2>3
  <2>4. CASE h = 1 /\ l \in 32 .. 255
    BY <2>4
  <2>5. CASE h \in 32 .. 255 /\ l \in 0 .. 255
    BY <2>5
  <2> QED BY <1>5, <2>1, <2>2, <2>3, <2>4, <2>5
<1> HIDE DEF n
<1> DEFINE m == bytesToShort(s)
<1>7. m \in Int /\ ((m = 9 /\ k = 1) \/ m > 10 \/ m < 0)
  BY <1>4, <1>6
<1> HIDE DEF m
<1>8. /\ m \notin {1, 2, 3, 4, 5, 6, 7, 8, 10}
      /\ k > 1 => m \notin 1 .. 10
  BY <1>7
<1> QED
  BY <1>8 DEF m

\* What encode does to the object that is decoding something else.
LEMMA EncodeKeeps ==
  ASSUME NEW e \in Fields, NEW p, Typeable(p)
  PROVE  LET r == encoding(e, p)
         IN /\ r \in Fields
            /\ r.opcodeBytes = <<0, p.opcode>>
            /\ r.startedInitializingOpCode = e.startedInitializingOpCode
            /\ r.isOpCodeInitialized = e.isOpCodeInitialized
            /\ r.readSecond = e.readSecond
            /\ r.opcode = e.opcode
<1>1. p.opcode \in 1 .. 10
  BY DEF Typeable
<1>2. shortToBytes(getOpcode(p)) = <<0, p.opcode>>
  BY <1>1 DEF shortToBytes, getOpcode
<1>3. <<0, p.opcode>> \in Seq(Byte) /\ <<>> \in Seq(Byte)
  BY <1>1 DEF Byte
<1> QED
  BY <1>2, <1>3 DEF encoding, CheapManualInitialization, Fields
=============================================================================
