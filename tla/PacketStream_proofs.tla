------------------------ MODULE PacketStream_proofs ------------------------
(***************************************************************************)
(* The decoder of the client keeps its place in any stream of packets the  *)
(* server encodes, and returns exactly those packets.                      *)
(***************************************************************************)
EXTENDS PacketStream, Codec_proofs

LEMMA HeadInPackets ==
  ASSUME NEW w \in Seq(Packets), w # <<>>
  PROVE  /\ Head(w) \in ServerPackets /\ WellFormed(Head(w))
         /\ Tail(w) \in Seq(Packets)
         /\ Len(Enc(Head(w))) \in Nat /\ Len(Enc(Head(w))) >= 2
<1>1. Head(w) \in Packets /\ Tail(w) \in Seq(Packets)
  BY HeadTailProperties
<1>2. Head(w) \in ServerPackets /\ WellFormed(Head(w))
  BY <1>1, PacketsAssumption
<1>3. Len(Enc(Head(w))) \in Nat /\ Len(Enc(Head(w))) >= 2
  <2> DEFINE p == Head(w)
  <2> HIDE DEF p
  <2>1. p \in ServerPackets
    BY <1>2 DEF p
  <2>2. /\ Len(Enc(p)) \in Nat
        /\ p.opcode \in {6, 10} => Len(Enc(p)) = 2
        /\ p.opcode \notin {6, 10} => Len(Enc(p)) > 2
    BY <2>1, LongEnough, Zenon
  <2>3. Len(Enc(p)) >= 2
    BY <2>2
  <2> QED BY <2>2, <2>3 DEF p
<1> QED
  BY <1>1, <1>2, <1>3

\* What a step of the socket thread does, told by the packet it is reading.
LEMMA ReadStep ==
  ASSUME TypeOK, Framing, Read
  PROVE  LET p == Head(wire)
         IN /\ ed' \in Fields
            /\ \/ /\ pos + 1 < Len(Enc(p))
                  /\ pos' = pos + 1
                  /\ Decoding(ed', p, Enc(p), pos + 1)
                  /\ UNCHANGED <<wire, received>>
               \/ /\ Clean(ed')
                  /\ pos' = 0
                  /\ wire' = Tail(wire)
                  /\ received' = Append(received, p)
<1> DEFINE p == Head(wire)
           r == Result(p, ed, pos)
<1>0. wire # <<>> /\ wire \in Seq(Packets) /\ pos \in Nat /\ ed \in Fields
  BY DEF Read, TypeOK
<1>1. p \in ServerPackets /\ WellFormed(p) /\ Len(Enc(p)) \in Nat
  BY <1>0, HeadInPackets
<1>2. bytes = Enc(p)
  BY DEF bytes, Enc
<1>3. pos < Len(Enc(p)) /\ Decoding(ed, p, Enc(p), pos)
  BY <1>0, <1>2 DEF Framing
<1>4. StepOK(p, pos, r)
  BY <1>0, <1>1, <1>3, Step
<1>5. /\ ed' = r.ed
      /\ received' = IF r.packet = nullptr THEN received ELSE Append(received, r.packet)
      /\ IF pos + 1 = Len(Enc(p)) THEN wire' = Tail(wire) /\ pos' = 0
         ELSE pos' = pos + 1 /\ UNCHANGED wire
  BY <1>2, Zenon DEF Read, Result
<1> HIDE DEF r
<1>6. CASE pos + 1 < Len(Enc(p))
  <2>1. r.ed \in Fields /\ r.packet = nullptr /\ Decoding(r.ed, p, Enc(p), pos + 1)
    BY <1>4, <1>6, Zenon DEF StepOK
  <2>2. pos + 1 # Len(Enc(p))
    BY <1>0, <1>1, <1>6
  <2> QED BY <1>5, <1>6, <2>1, <2>2, Zenon
<1>7. CASE ~(pos + 1 < Len(Enc(p)))
  <2>1. r.ed \in Fields /\ r.packet = p /\ Clean(r.ed)
    BY <1>4, <1>7, Zenon DEF StepOK
  <2>2. pos + 1 = Len(Enc(p))
    BY <1>0, <1>1, <1>3, <1>7
  <2>3. p # nullptr
    BY <1>1, PacketKinds DEF nullptr
  <2> QED BY <1>5, <2>1, <2>2, <2>3, Zenon
<1> QED
  BY <1>6, <1>7, Zenon

LEMMA InitOK == Init => TypeOK /\ Framing
<1> SUFFICES ASSUME Init PROVE TypeOK /\ Framing
  OBVIOUS
<1>1. ed \in Fields /\ Clean(ed) /\ wire = <<>> /\ pos = 0 /\ received = <<>>
  BY NewIsClean DEF Init
<1>2. TypeOK
  BY <1>1 DEF TypeOK
<1>3. Decoding(ed, DiscPacket, <<>>, 0)
  BY <1>1, Start
<1> QED
  BY <1>1, <1>2, <1>3 DEF Framing

LEMMA WriteOK == TypeOK /\ Framing /\ Write => TypeOK' /\ Framing'
<1> SUFFICES ASSUME TypeOK, Framing, Write PROVE TypeOK' /\ Framing'
  OBVIOUS
<1>1. PICK p \in Packets : wire' = Append(wire, p) /\ UNCHANGED <<pos, ed, received>>
  BY DEF Write
<1>2. wire \in Seq(Packets) /\ wire' \in Seq(Packets) /\ wire' # <<>>
  BY <1>1, AppendProperties DEF TypeOK
<1>3. TypeOK'
  BY <1>1, <1>2 DEF TypeOK
<1>4. CASE wire = <<>>
  <2>1. pos = 0 /\ Clean(ed) /\ ed \in Fields
    BY <1>4, CleanIsStart DEF Framing, TypeOK
  <2>2. Decoding(ed, Head(wire'), bytes', 0)
    BY <2>1, Start
  <2>3. 0 < Len(bytes')
    <3>1. bytes' = Enc(Head(wire'))
      BY DEF bytes, Enc
    <3> QED BY <1>2, <3>1, HeadInPackets
  <2> QED BY <1>1, <1>2, <1>3, <2>1, <2>2, <2>3, Zenon DEF Framing
<1>5. CASE wire # <<>>
  <2>1. Head(wire') = Head(wire)
    BY <1>1, <1>2, <1>5
  <2>2. bytes' = bytes
    BY <2>1, Zenon DEF bytes
  <2>3. pos < Len(bytes) /\ Decoding(ed, Head(wire), bytes, pos)
    BY <1>5 DEF Framing
  <2> QED BY <1>1, <1>2, <1>3, <2>1, <2>2, <2>3, Zenon DEF Framing
<1> QED
  BY <1>4, <1>5

LEMMA ReadOK == TypeOK /\ Framing /\ Read => TypeOK' /\ Framing'
<1> SUFFICES ASSUME TypeOK, Framing, Read PROVE TypeOK' /\ Framing'
  OBVIOUS
<1> DEFINE p == Head(wire)
<1>0. /\ wire # <<>> /\ wire \in Seq(Packets) /\ pos \in Nat
      /\ received \in Seq(ServerPackets)
  BY DEF Read, TypeOK
<1>1. p \in ServerPackets /\ Tail(wire) \in Seq(Packets)
  BY <1>0, HeadInPackets
<1>2. ed' \in Fields
  BY ReadStep
<1>3. CASE /\ pos + 1 < Len(Enc(p))
           /\ pos' = pos + 1
           /\ Decoding(ed', p, Enc(p), pos + 1)
           /\ UNCHANGED <<wire, received>>
  <2>1. TypeOK'
    BY <1>0, <1>2, <1>3 DEF TypeOK
  <2>2. bytes' = Enc(p)
    BY <1>3 DEF bytes, Enc
  <2>3. Head(wire') = p /\ wire' # <<>>
    BY <1>0, <1>3
  <2> QED BY <1>3, <2>1, <2>2, <2>3, Zenon DEF Framing
<1>4. CASE /\ Clean(ed')
           /\ pos' = 0
           /\ wire' = Tail(wire)
           /\ received' = Append(received, p)
  <2>1. TypeOK'
    BY <1>0, <1>1, <1>2, <1>4, AppendProperties DEF TypeOK
  <2>2. \A q, b : Decoding(ed', q, b, 0)
    BY <1>2, <1>4, Start
  <2>3. wire' # <<>> => 0 < Len(bytes')
    <3>1. bytes' = Enc(Head(wire'))
      BY DEF bytes, Enc
    <3>2. ASSUME wire' # <<>>
          PROVE  Len(Enc(Head(wire'))) \in Nat /\ Len(Enc(Head(wire'))) >= 2
      BY <1>1, <1>4, <3>2, HeadInPackets
    <3>3. ASSUME wire' # <<>> PROVE 0 < Len(Enc(Head(wire')))
      BY <3>2, <3>3
    <3> QED BY <3>1, <3>3, Zenon
  <2> QED BY <1>4, <2>1, <2>2, <2>3, Zenon DEF Framing
<1> QED
  BY <1>3, <1>4, ReadStep

LEMMA Inductive == Spec => [](TypeOK /\ Framing)
<1>1. TypeOK /\ Framing /\ [Next]_vars => TypeOK' /\ Framing'
  <2>1. TypeOK /\ Framing /\ UNCHANGED vars => TypeOK' /\ Framing'
    BY DEF vars, TypeOK, Framing, bytes
  <2> QED BY <2>1, WriteOK, ReadOK DEF Next
<1> QED
  BY <1>1, InitOK, PTL DEF Spec

\* The fields of the decoder and the packets it returns are of their types,
\* whichever packets the server writes.
THEOREM TypeCorrect == Spec => []TypeOK
BY Inductive, PTL

\* decodeNextByte never loses its place: after each byte the object is in the
\* one state for the packet being read and the number of its bytes read.
THEOREM FramingHolds == Spec => []Framing
BY Inductive, PTL

LEMMA FramedInRange == TypeOK /\ Framing => InRange
<1> SUFFICES ASSUME TypeOK, Framing PROVE ~OutOfRange(ed)
  BY DEF InRange
<1>0. ed \in Fields /\ wire \in Seq(Packets) /\ pos \in Nat
  BY DEF TypeOK
<1>1. CASE wire = <<>>
  <2>1. Clean(ed)
    BY <1>0, <1>1, CleanIsStart DEF Framing
  <2> QED BY <2>1, CleanInRange
<1>2. CASE wire # <<>>
  <2>1. Head(wire) \in ServerPackets
    BY <1>0, <1>2, HeadInPackets
  <2>2. pos < Len(Enc(Head(wire))) /\ Decoding(ed, Head(wire), Enc(Head(wire)), pos)
    BY <1>2 DEF Framing, bytes, Enc
  <2> QED BY <1>0, <2>1, <2>2, StaysInRange
<1> QED
  BY <1>1, <1>2

\* No at() and no erase() of the decoder reaches past the end of its vector.
THEOREM InRangeHolds == Spec => []InRange
BY Inductive, FramedInRange, PTL

\* The bytes are a channel of packets: what the client returns is what the
\* server wrote, whole, once and in order.
THEOREM ChannelImplemented == Spec => ImplementsChannel
<1>1. Init => Channel!Init
  BY DEF Init, Channel!Init
<1>2. TypeOK /\ Framing /\ [Next]_vars => [Channel!Next]_(Channel!channel)
  <2> SUFFICES ASSUME TypeOK, Framing, [Next]_vars
               PROVE  [Channel!Next]_(Channel!channel)
    OBVIOUS
  <2>1. CASE Write
    BY <2>1 DEF Write, Channel!Next, Channel!Send
  <2>2. CASE Read
    <3>1. wire # <<>>
      BY <2>2 DEF Read
    <3>2. \/ UNCHANGED <<wire, received>>
          \/ wire' = Tail(wire) /\ received' = Append(received, Head(wire))
      BY <2>2, ReadStep
    <3> QED BY <3>1, <3>2 DEF Channel!Next, Channel!Deliver, Channel!channel
  <2>3. CASE UNCHANGED vars
    BY <2>3 DEF vars, Channel!channel
  <2> QED BY <2>1, <2>2, <2>3 DEF Next
<1> QED
  BY <1>1, <1>2, Inductive, PTL DEF Spec, ImplementsChannel, Channel!Spec
=============================================================================
