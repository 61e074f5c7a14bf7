------------------------- MODULE TFTPServer_proofs -------------------------
(***************************************************************************)
(* Safety of the server for any number of connections, any requests and    *)
(* any contents of the directory.                                          *)
(***************************************************************************)
EXTENDS TFTPServer, SequenceTheorems, TLAPS

-----------------------------------------------------------------------------
(* Packets and buffers.                                                    *)

\* Every packet the handlers build is a packet.
LEMMA PacketTypes ==
  /\ \A n \in BlockNum : AckPacket(n) \in Packet
  /\ \A code \in 0 .. 7 : ErrorPacket(code) \in Packet
  /\ \A n \in BlockNum, s \in Seq(Bytes) : DataPacket(n, s) \in Packet
  /\ \A S \in SUBSET FileNames : ListPacket(S) \in Packet
  /\ \A b \in BOOLEAN, f \in FileNames : BCastPacket(b, f) \in Packet
BY DEF AckPacket, ErrorPacket, DataPacket, ListPacket, BCastPacket, Packet

\* The fields of a request of each class.
LEMMA RequestFields ==
  ASSUME NEW r \in Request
  PROVE  /\ r.op = "LOGRQ" => r.user \in Users
         /\ r.op \in {"RRQ", "WRQ", "DELRQ"} => r.file \in Names
         /\ r.op = "DATA" => r.block \in BlockNum /\ r.data \in Seq(Bytes)
BY DEF Request

\* Block numbers stay within their width.
LEMMA BlockNumbers ==
  /\ 0 \in BlockNum /\ 1 \in BlockNum
  /\ \A n \in BlockNum : NextBlock(n) \in BlockNum
BY BlockAssumption DEF BlockNum, NextBlock

\* Cutting a buffer yields sequences of bytes.
LEMMA Cuts ==
  ASSUME NEW buf \in Seq(Bytes), Len(buf) >= BlockSize
  PROVE  /\ Prefix(buf) \in Seq(Bytes) /\ Len(Prefix(buf)) = BlockSize
         /\ Suffix(buf) \in Seq(Bytes) /\ Len(Suffix(buf)) = Len(buf) - BlockSize
BY BlockAssumption, SubSeqProperties DEF Prefix, Suffix

\* What one call of handleReadingACK sends and leaves behind is well typed.
LEMMA BlocksType ==
  ASSUME NEW buf \in Seq(Bytes), NEW n \in BlockNum
  PROVE  /\ BlocksOf(buf, n) \in Seq(Packet)
         /\ BufferAfter(buf) \in MaybeData
         /\ BlockAfter(buf, n) \in BlockNum
BY BlockAssumption, PacketTypes, BlockNumbers, Cuts
   DEF BlocksOf, BufferAfter, BlockAfter, MaybeData

\* An array filled with bytes is as long as it was made.
LEMMA PadType ==
  ASSUME NEW s \in Seq(Bytes), NEW n \in Nat
  PROVE  /\ Pad(s, n) \in Seq(Bytes) /\ Pad(s, n) # NONE
         /\ Pad(s, n) \in MaybeData
<1>1. Pad(s, n) \in Seq(Bytes)
  BY NameAssumption DEF Pad
<1> QED BY <1>1, NameAssumption DEF MaybeData

\* The bytes written to a file are bytes.
LEMMA WriteType ==
  ASSUME NEW s \in Seq(Bytes), NEW n \in Nat, NEW old \in Seq(Bytes)
  PROVE  Overlay(Pad(s, n), old) \in Seq(Bytes)
<1>1. Pad(s, n) \in Seq(Bytes)
  BY PadType
<1>2. ASSUME NEW t \in Seq(Bytes) PROVE Overlay(t, old) \in Seq(Bytes)
  BY SubSeqProperties DEF Overlay
<1> QED BY <1>1, <1>2

-----------------------------------------------------------------------------
(* Type correctness.                                                       *)

\* ConnectionsImpl.send appends to the output of at most one connection.
LEMMA SendType ==
  ASSUME TypeOK, NEW c \in Conns, NEW id, NEW pkts \in Seq(Packet),
         Send(c, id, pkts)
  PROVE  out' \in [Conns -> Seq([from : Conns, pkt : Packet])]
<1> DEFINE E == [from : Conns, pkt : Packet]
           e == [i \in 1 .. Len(pkts) |-> [from |-> c, pkt |-> pkts[i]]]
<1>1. e \in Seq(E)
  OBVIOUS
<1>2. \A d \in Conns : out[d] \in Seq(E)
  BY DEF TypeOK
<1>3. \A d \in Conns : out[d] \o e \in Seq(E)
  <2> HIDE DEF e, E
  <2> QED BY <1>1, <1>2
<1> HIDE DEF e
<1>4. CASE id \in DOMAIN connectionsQueue /\ IsOpen(connectionsQueue[id])
  <2>1. out' = [out EXCEPT ![connectionsQueue[id]] = @ \o e]
    BY <1>4 DEF Send, e
  <2>2. connectionsQueue[id] \in Conns
    BY <1>4 DEF TypeOK
  <2> QED BY <1>3, <2>1, <2>2 DEF TypeOK
<1>5. CASE ~(id \in DOMAIN connectionsQueue /\ IsOpen(connectionsQueue[id]))
  BY <1>5 DEF Send, TypeOK
<1> QED BY <1>4, <1>5

\* An answer is a packet: the output stays well typed.
LEMMA ReplyType ==
  ASSUME TypeOK, NEW c \in Conns, NEW pkt \in Packet, Reply(c, pkt)
  PROVE  out' \in [Conns -> Seq([from : Conns, pkt : Packet])]
<1>1. <<pkt>> \in Seq(Packet)
  OBVIOUS
<1> QED BY <1>1, SendType DEF Reply

\* A put adds its key or loses keys, and changes no other entry.
LEMMA PutEntries ==
  ASSUME NEW m, NEW before, NEW k, NEW v,
         NEW r \in PutOutcomes(m, before, k, v)
  PROVE  /\ DOMAIN r \subseteq DOMAIN m \cup {k}
         /\ r = [x \in DOMAIN r |-> r[x]]
         /\ \A x \in DOMAIN r : r[x] = IF x = k THEN v ELSE m[x]
<1> DEFINE put == [x \in DOMAIN m \cup {k} |-> IF x = k THEN v ELSE m[x]]
<1>1. PICK lost : r = [x \in DOMAIN put \ lost |-> put[x]]
  BY DEF PutOutcomes
<1>2. DOMAIN r = (DOMAIN m \cup {k}) \ lost
  BY <1>1
<1> QED BY <1>1, <1>2

\* So it keeps the types of keys and values.
LEMMA PutType ==
  ASSUME NEW K, NEW V, NEW m, DOMAIN m \subseteq K, m \in [DOMAIN m -> V],
         NEW before, NEW k \in K, NEW v \in V, NEW r \in PutOutcomes(m, before, k, v)
  PROVE  DOMAIN r \subseteq K /\ r \in [DOMAIN r -> V]
<1>1. /\ DOMAIN r \subseteq DOMAIN m \cup {k}
      /\ r = [x \in DOMAIN r |-> r[x]]
      /\ \A x \in DOMAIN r : r[x] = IF x = k THEN v ELSE m[x]
  BY PutEntries
<1>2. \A x \in DOMAIN r : r[x] \in V
  BY <1>1
<1> QED BY <1>1, <1>2

\* A handler that only answers keeps every variable well typed.
LEMMA AnswerType ==
  ASSUME TypeOK, NEW c \in Conns, NEW pkt \in Packet, Answer(c, pkt),
         UNCHANGED <<upload, download>>
  PROVE  TypeOK'
<1>1. out' \in [Conns -> Seq([from : Conns, pkt : Packet])]
  BY ReplyType DEF Answer
<1> QED BY <1>1 DEF Answer, Goto, TypeOK, server, session, upload, download,
                    loop, input, disk

\* So does handleReadingACK on any buffer.
LEMMA ReadingType ==
  ASSUME TypeOK, NEW c \in Conns, NEW buf \in Seq(Bytes),
         HandleReadingACK(c, buf), UNCHANGED <<files, linked>>,
         orphan' \in [Conns -> MaybeData], writers' \in [Conns -> SUBSET Conns]
  PROVE  TypeOK'
<1>1. blockNum[c] \in BlockNum
  BY DEF TypeOK
<1>2. /\ BufferAfter(buf) \in MaybeData
      /\ BlockAfter(buf, blockNum[c]) \in BlockNum
  BY <1>1, BlocksType
<1>3. out' \in [Conns -> Seq([from : Conns, pkt : Packet])]
  BY <1>1, BlocksType, SendType DEF HandleReadingACK
<1> QED BY <1>2, <1>3 DEF HandleReadingACK, Goto, TypeOK, server, session,
                          upload, download, loop, input

\* Every step of a thread and of its environment keeps the types.
LEMMA TypeStep ==
  ASSUME TypeOK, PcOK, RouteOK, NEW c \in Conns, Thread(c) \/ Environment(c)
  PROVE  TypeOK'
<1> USE DEF Goto, Processing, Receiving, server, session, upload, download,
            loop, input, disk
<1> DEFINE OutType == out \in [Conns -> Seq([from : Conns, pkt : Packet])]
<1>1. CASE Accept(c)
  <2>1. connectionsCounter' \in Nat
    BY <1>1 DEF Accept, TypeOK
  <2> QED BY <1>1, <2>1 DEF Accept, TypeOK
<1>2. CASE RunAdd(c)
  BY <1>2 DEF RunAdd, TypeOK
<1>3. CASE RunPut(c)
  <2>1. myId[c] \in Ids
    BY <1>3 DEF RunPut, TypeOK, RouteOK, Ids
  <2> DEFINE q == connectionsQueue'
  <2>2. q \in PutOutcomes(connectionsQueue, seen[c], myId[c], c)
    BY <1>3 DEF RunPut
  <2>3. DOMAIN q \subseteq Ids /\ q \in [DOMAIN q -> Conns]
    <3>1. /\ DOMAIN connectionsQueue \subseteq Ids
          /\ connectionsQueue \in [DOMAIN connectionsQueue -> Conns]
      BY DEF TypeOK
    <3> HIDE DEF q
    <3> QED BY <2>1, <2>2, <3>1, PutType
  <2> QED BY <1>3, <2>3 DEF RunPut, TypeOK
<1>4. CASE Receive(c)
  <2>1. PICK r \in Requests[c] :
          /\ message' = [message EXCEPT ![c] = r]
          /\ pc' = [pc EXCEPT ![c] =
                      IF r.op = "DATA" /\ r.data = <<>> THEN "deaf" ELSE "decode"]
    BY <1>4 DEF Receive
  <2>2. OutType'
    <3>1. <<>> \in Seq([from : Conns, pkt : Packet])
      OBVIOUS
    <3> QED BY <1>4, <3>1 DEF Receive, TypeOK
  <2>3. nreq' \in [Conns -> 0 .. MaxReq]
    <3>1. nreq[c] + 1 \in 0 .. MaxReq
      BY <1>4, ServerAssumption DEF Receive, TypeOK
    <3> QED BY <1>4, <3>1 DEF Receive, TypeOK
  <2>4. message' \in [Conns -> Request \cup {NONE}]
    <3>1. r \in Request
      BY ServerAssumption
    <3> QED BY <2>1, <3>1 DEF TypeOK
  <2>5. due' \in [Conns -> SUBSET {"DATA", "ACK"}]
    BY <1>4 DEF Receive, TypeOK, Due
  <2> QED BY <1>4, <2>1, <2>2, <2>3, <2>4, <2>5 DEF Receive, TypeOK
<1>5. CASE Eof(c)
  BY <1>5 DEF Eof, TypeOK
<1>6. CASE Close(c)
  BY <1>6 DEF Close, TypeOK
<1>7. CASE NotLoggedIn(c)
  <2>1. ErrorPacket(6) \in Packet
    BY PacketTypes
  <2>2. OutType'
    BY <1>7, <2>1, ReplyType DEF NotLoggedIn
  <2> QED BY <1>7, <2>2 DEF NotLoggedIn, TypeOK
<1>8. CASE LogrqAgain(c)
  BY <1>8, AnswerType, PacketTypes DEF LogrqAgain
<1>9. CASE LogrqBegin(c)
  BY <1>9 DEF LogrqBegin, TypeOK, StartLoop
<1>10. CASE LogrqNext(c)
  <2>1. ErrorPacket(7) \in Packet
    BY PacketTypes
  <2>2. OutType'
    BY <1>10, <2>1, ReplyType DEF LogrqNext, TypeOK
  <2>3. PICK u \in iter[c] :
          /\ iter' = [iter EXCEPT ![c] = @ \ {u}]
          /\ found' = found \/ found' = [found EXCEPT ![c] = {u}]
    BY <1>10 DEF LogrqNext
  <2>4. u \in Users
    BY DEF TypeOK
  <2>5. iter' \in [Conns -> SUBSET Users]
    BY <2>3 DEF TypeOK
  <2>6. found' \in [Conns -> SUBSET Users]
    <3>1. {u} \in SUBSET Users
      BY <2>4
    <3> QED BY <2>3, <3>1 DEF TypeOK
  <2> QED BY <1>10, <2>2, <2>5, <2>6 DEF LogrqNext, TypeOK
<1>11. CASE LogrqEnd(c)
  <2>1. seen' \in [Conns -> SUBSET (Ids \cup Users)]
    <3>1. DOMAIN loggedInUsers \in SUBSET (Ids \cup Users)
      BY DEF TypeOK
    <3>2. seen' = seen \/ seen' = [seen EXCEPT ![c] = DOMAIN loggedInUsers]
      BY <1>11 DEF LogrqEnd
    <3> QED BY <3>1, <3>2 DEF TypeOK
  <2>2. pc' = [pc EXCEPT ![c] = "put"] \/ pc' = [pc EXCEPT ![c] = "listen"]
    BY <1>11 DEF LogrqEnd
  <2>3. found' \in [Conns -> SUBSET Users]
    BY <1>11 DEF LogrqEnd, TypeOK
  <2>4. UNCHANGED <<server, loggedInUsers, disk, input, out, session, upload,
                    download, iter, stale, dest>>
    BY <1>11 DEF LogrqEnd
  <2> QED BY <2>1, <2>2, <2>3, <2>4 DEF TypeOK
<1>12. CASE LogrqPut(c)
  <2>1. myId[c] \in Ids /\ message[c].user \in Users
    BY <1>12, RequestFields DEF LogrqPut, TypeOK, PcOK, PcAt, RouteOK, Ids
  <2> DEFINE l == loggedInUsers'
  <2>2. l \in PutOutcomes(loggedInUsers, seen[c], message[c].user, myId[c])
    BY <1>12 DEF LogrqPut
  <2>3. DOMAIN l \subseteq Users /\ l \in [DOMAIN l -> Ids]
    <3>1. /\ DOMAIN loggedInUsers \subseteq Users
          /\ loggedInUsers \in [DOMAIN loggedInUsers -> Ids]
      BY DEF TypeOK
    <3> DEFINE u == message[c].user
    <3>2. u \in Users
      BY <2>1
    <3>3. l \in PutOutcomes(loggedInUsers, seen[c], u, myId[c])
      BY <2>2
    <3> HIDE DEF l, u
    <3> QED BY <2>1, <3>1, <3>2, <3>3, PutType
  <2>4. stale' \in [Conns -> BOOLEAN]
    BY <1>12 DEF LogrqPut, Modified, TypeOK
  <2> QED BY <1>12, <2>1, <2>3, <2>4 DEF LogrqPut, TypeOK
<1>13. CASE LogrqAck(c)
  <2>1. OutType'
    BY <1>13, ReplyType, PacketTypes, BlockNumbers DEF LogrqAck
  <2> QED BY <1>13, <2>1 DEF LogrqAck, TypeOK
<1>14. CASE RrqRefused(c)
  BY <1>14, AnswerType, PacketTypes DEF RrqRefused
<1>15. CASE RrqFound(c)
  BY <1>15 DEF RrqFound, TypeOK
<1>16. CASE RrqRead(c)
  <2> DEFINE opened == IF orphan[c] = NONE THEN files[message[c].file] ELSE orphan[c]
  <2>1. pc[c] = "read" /\ HandleReadingACK(c, Pad(opened, Len(toDownload[c])))
    BY <1>16 DEF RrqRead
  <2>2. message[c].file \in FileNames /\ ReadAt(c)
    BY <2>1 DEF PcOK, PcAt
  <2>3. opened \in Seq(Bytes) /\ toDownload[c] \in Seq(Bytes)
    BY <2>1, <2>2 DEF ReadAt, TypeOK, MaybeData
  <2>4. Len(toDownload[c]) \in Nat
    BY <2>3
  <2>5. Pad(opened, Len(toDownload[c])) \in Seq(Bytes)
    BY <2>3, <2>4, PadType
  <2>6. /\ orphan' \in [Conns -> MaybeData] /\ writers' \in [Conns -> SUBSET Conns]
        /\ UNCHANGED <<files, linked>>
    BY <1>16 DEF RrqRead, TypeOK, MaybeData
  <2> HIDE DEF opened
  <2> QED BY <2>1, <2>5, <2>6, ReadingType
<1>17. CASE RrqGone(c)
  BY <1>17 DEF RrqGone, TypeOK, Die
<1>18. CASE AckMore(c)
  <2>1. toDownload[c] \in Seq(Bytes) /\ HandleReadingACK(c, toDownload[c])
    BY <1>18 DEF AckMore, TypeOK, MaybeData
  <2>2. /\ orphan' \in [Conns -> MaybeData] /\ writers' \in [Conns -> SUBSET Conns]
        /\ UNCHANGED <<files, linked>>
    BY <1>18 DEF AckMore, TypeOK
  <2> QED BY <2>1, <2>2, ReadingType
<1>19. CASE AckIgnored(c)
  BY <1>19 DEF AckIgnored, TypeOK
<1>20. CASE Dirq(c)
  BY <1>20, AnswerType, PacketTypes DEF Dirq, OnDisk
<1>21. CASE DirqTooLong(c)
  BY <1>21 DEF DirqTooLong, TypeOK, Die
<1>22. CASE WrqRefused(c)
  BY <1>22, AnswerType, PacketTypes DEF WrqRefused
<1>23. CASE WrqAccepted(c)
  <2>1. OutType'
    BY <1>23, ReplyType, PacketTypes, BlockNumbers DEF WrqAccepted, Answer
  <2>2. message[c].file \in FileNames
    BY <1>23, RequestFields DEF WrqAccepted, PcOK, PcAt, Names
  <2>3. /\ goingToBeReceived' \in [Conns -> FileNames \cup {NONE}]
        /\ accSize' \in [Conns -> Nat]
        /\ wholeFile' \in [Conns -> Seq(Bytes)]
    BY <1>23, <2>2 DEF WrqAccepted, TypeOK
  <2> QED BY <1>23, <2>1, <2>3 DEF WrqAccepted, Answer, TypeOK
<1>24. CASE DataIgnored(c)
  BY <1>24 DEF DataIgnored, TypeOK
<1>25. CASE DataOversize(c)
  <2>1. ErrorPacket(0) \in Packet
    BY PacketTypes
  <2>2. OutType'
    BY <1>25, <2>1, ReplyType DEF DataOversize, Answer
  <2>3. wholeFile' \in [Conns -> Seq(Bytes)]
    BY <1>25 DEF DataOversize, TypeOK
  <2> QED BY <1>25, <2>2, <2>3 DEF DataOversize, Answer, TypeOK
<1>26. CASE DataFull(c)
  <2>1. OutType'
    BY <1>26, ReplyType, PacketTypes, RequestFields DEF DataFull, Answer, PcOK, PcAt
  <2>2. /\ wholeFile' \in [Conns -> Seq(Bytes)]
        /\ accSize' \in [Conns -> Nat]
    BY <1>26, RequestFields DEF DataFull, PcOK, PcAt, TypeOK
  <2> QED BY <1>26, <2>1, <2>2 DEF DataFull, Answer, TypeOK
<1>27. CASE DataLast(c)
  <2>1. /\ wholeFile' \in [Conns -> Seq(Bytes)]
        /\ accSize' \in [Conns -> Nat]
    <3>1. message[c] \in Request /\ message[c].op = "DATA"
      BY <1>27 DEF DataLast, PcOK, PcAt
    <3>2. message[c].data \in Seq(Bytes)
      BY <3>1, RequestFields
    <3>3. /\ wholeFile' = [wholeFile EXCEPT ![c] = @ \o message[c].data]
          /\ accSize' = [accSize EXCEPT ![c] = @ + Len(message[c].data)]
      BY <1>27 DEF DataLast
    <3>4. wholeFile[c] \in Seq(Bytes) /\ accSize[c] \in Nat
      BY DEF TypeOK
    <3>5. wholeFile[c] \o message[c].data \in Seq(Bytes)
      BY <3>2, <3>4
    <3>6. accSize[c] + Len(message[c].data) \in Nat
      BY <3>2, <3>4
    <3>7. wholeFile \in [Conns -> Seq(Bytes)] /\ accSize \in [Conns -> Nat]
      BY DEF TypeOK
    <3> QED BY <3>3, <3>5, <3>6, <3>7
  <2>2. files' \in [FileNames -> MaybeData]
    BY <1>27 DEF DataLast, TypeOK, MaybeData
  <2> QED BY <1>27, <2>1, <2>2 DEF DataLast, TypeOK
<1>28. CASE DataWrite(c)
  <2>1. OutType'
    BY <1>28, ReplyType, PacketTypes, RequestFields DEF DataWrite, PcOK, PcAt
  <2>2. files' \in [FileNames -> MaybeData]
    <3>1. CASE linked[c]
      <4>1. files[goingToBeReceived[c]] \in Seq(Bytes)
        BY <3>1 DEF PcOK, PcAt, TypeOK, MaybeData
      <4>2. Overlay(Pad(wholeFile[c], accSize[c]), files[goingToBeReceived[c]])
              \in MaybeData
        BY <4>1, WriteType DEF TypeOK, MaybeData
      <4> QED BY <1>28, <3>1, <4>2 DEF DataWrite, TypeOK
    <3>2. CASE ~linked[c]
      BY <1>28, <3>2 DEF DataWrite, TypeOK
    <3> QED BY <3>1, <3>2
  <2>3. /\ iter' \in [Conns -> SUBSET Users]
        /\ wholeFile' \in [Conns -> Seq(Bytes)]
        /\ linked' \in [Conns -> BOOLEAN]
        /\ writers' \in [Conns -> SUBSET Conns]
    BY <1>28 DEF DataWrite, StartLoop, StreamClosed, TypeOK
  <2>4. orphan' \in [Conns -> MaybeData]
    <3>1. \A d \in Conns : c \in writers[d] =>
            Overlay(Pad(wholeFile[c], accSize[c]), orphan[d]) \in MaybeData
      <4> SUFFICES ASSUME NEW d \in Conns, c \in writers[d]
                   PROVE  Overlay(Pad(wholeFile[c], accSize[c]), orphan[d]) \in MaybeData
        OBVIOUS
      <4>0. ReadAt(d)
        BY DEF PcOK
      <4>1. orphan[d] \in Seq(Bytes)
        BY <4>0 DEF ReadAt, TypeOK, MaybeData
      <4> QED BY <4>1, WriteType DEF TypeOK, MaybeData
    <3> QED BY <1>28, <3>1 DEF DataWrite, TypeOK
  <2> QED BY <1>28, <2>1, <2>2, <2>3, <2>4 DEF DataWrite, StartLoop, TypeOK
<1>29. CASE WriteFails(c)
  BY <1>29 DEF WriteFails, StreamClosed, TypeOK, Die
<1>30. CASE DelrqRefused(c)
  BY <1>30, AnswerType, PacketTypes DEF DelrqRefused
<1>31. CASE DelrqFound(c)
  BY <1>31 DEF DelrqFound, TypeOK
<1>32. CASE DelrqDelete(c)
  <2>1. OutType'
    BY <1>32, ReplyType, PacketTypes, BlockNumbers DEF DelrqDelete
  <2>2. files' \in [FileNames -> MaybeData]
    BY <1>32 DEF DelrqDelete, TypeOK, MaybeData
  <2>3. /\ linked' \in [Conns -> BOOLEAN] /\ writers' \in [Conns -> SUBSET Conns]
    BY <1>32 DEF DelrqDelete, TypeOK
  <2>4. orphan' \in [Conns -> MaybeData]
    <3>1. message[c].file \in FileNames
      BY <1>32 DEF DelrqDelete, PcOK, PcAt
    <3> QED BY <1>32, <3>1 DEF DelrqDelete, TypeOK
  <2> QED BY <1>32, <2>1, <2>2, <2>3, <2>4 DEF DelrqDelete, StartLoop, TypeOK
<1>33. CASE BcastNext(c)
  <2>1. dest' \in [Conns -> Nat]
    BY <1>33 DEF BcastNext, PcOK, PcAt, TypeOK, Ids
  <2>2. iter' \in [Conns -> SUBSET Users]
    BY <1>33 DEF BcastNext, TypeOK
  <2> QED BY <1>33, <2>1, <2>2 DEF BcastNext, TypeOK
<1>34. CASE BcastDeliver(c)
  <2>1. BcastSent(c) \in Packet
    BY <1>34, PacketTypes, RequestFields
       DEF BcastDeliver, BcastSent, PcOK, PcAt, TypeOK, Names
  <2>2. <<BcastSent(c)>> \in Seq(Packet)
    BY <2>1
  <2>3. OutType'
    BY <1>34, <2>2, SendType DEF BcastDeliver
  <2> QED BY <1>34, <2>3 DEF BcastDeliver, TypeOK
<1>35. CASE BcastLost(c)
  BY <1>35 DEF BcastLost, TypeOK
<1>36. CASE BcastEnd(c)
  BY <1>36 DEF BcastEnd, TypeOK
<1>37. CASE IteratorFails(c)
  BY <1>37 DEF IteratorFails, TypeOK, Die
<1>38. CASE Error(c)
  <2>1. /\ toDownload' \in [Conns -> MaybeData]
        /\ blockNum' \in [Conns -> BlockNum]
    BY <1>38, BlockNumbers DEF Error, TypeOK, MaybeData
  <2>2. /\ goingToBeReceived' \in [Conns -> FileNames \cup {NONE}]
        /\ accSize' \in [Conns -> Nat]
        /\ wholeFile' \in [Conns -> Seq(Bytes)]
    BY <1>38 DEF Error, TypeOK
  <2> QED BY <1>38, <2>1, <2>2 DEF Error, TypeOK
<1>39. CASE BcastIn(c)
  BY <1>39, AnswerType, PacketTypes DEF BcastIn
<1>40. CASE DiscBegin(c)
  BY <1>40 DEF DiscBegin, TypeOK, StartLoop
<1>41. CASE DiscNext(c)
  <2>1. PICK u \in iter[c] :
          /\ iter' = [iter EXCEPT ![c] = @ \ {u}]
          /\ found' = found \/ found' = [found EXCEPT ![c] = {u}]
    <3>1. \A v : [found EXCEPT ![c] =
                   IF loggedInUsers[v] = myId[c] THEN {v} ELSE @]
                \in {found, [found EXCEPT ![c] = {v}]}
      BY DEF TypeOK
    <3> QED BY <1>41, <3>1 DEF DiscNext
  <2>2. u \in Users
    BY DEF TypeOK
  <2>3. iter' \in [Conns -> SUBSET Users]
    BY <2>1 DEF TypeOK
  <2>4. found' \in [Conns -> SUBSET Users]
    <3>1. {u} \in SUBSET Users
      BY <2>2
    <3> QED BY <2>1, <3>1 DEF TypeOK
  <2> QED BY <1>41, <2>3, <2>4 DEF DiscNext, TypeOK
<1>42. CASE DiscEnd(c)
  <2>1. OutType'
    BY <1>42, ReplyType, PacketTypes, BlockNumbers DEF DiscEnd
  <2>2. /\ DOMAIN loggedInUsers' \subseteq Users
        /\ loggedInUsers' \in [DOMAIN loggedInUsers' -> Ids]
    BY <1>42 DEF DiscEnd, TypeOK
  <2>3. stale' \in [Conns -> BOOLEAN]
    <3>1. stale' = stale \/ Modified(iter)
      BY <1>42 DEF DiscEnd
    <3>2. stale \in [Conns -> BOOLEAN]
      BY DEF TypeOK
    <3> QED BY <3>1, <3>2, Zenon DEF Modified
  <2>4. found' = [found EXCEPT ![c] = {}] /\ pc' = [pc EXCEPT ![c] = "exit"]
    BY <1>42 DEF DiscEnd
  <2>5. UNCHANGED <<server, disk, input, session, upload, download, iter, dest,
                    seen>>
    BY <1>42 DEF DiscEnd
  <2>6. found' \in [Conns -> SUBSET Users]
    BY <2>4 DEF TypeOK
  <2> QED BY <2>1, <2>2, <2>3, <2>4, <2>5, <2>6 DEF TypeOK
<1>43. CASE RrqOpen(c)
  BY <1>43 DEF RrqOpen, TypeOK
<1>44. CASE RrqLength(c)
  <2>1. toDownload' \in [Conns -> MaybeData]
    <3> DEFINE f == message[c].file
               length == IF f \in OnDisk THEN Len(files[f]) ELSE 0
    <3>1. length \in Nat
      BY DEF OnDisk, TypeOK, MaybeData
    <3>2. <<>> \in Seq(Bytes)
      OBVIOUS
    <3>3. toDownload' = [toDownload EXCEPT ![c] = Pad(<<>>, length)]
      BY <1>44 DEF RrqLength
    <3> HIDE DEF length
    <3>4. Pad(<<>>, length) \in MaybeData
      BY <3>1, <3>2, PadType
    <3> QED BY <3>3, <3>4 DEF TypeOK
  <2> QED BY <1>44, <2>1 DEF RrqLength, TypeOK
<1>45. CASE OpenFails(c)
  BY <1>45 DEF OpenFails, TypeOK, Die
<1> QED
  BY <1>1, <1>2, <1>3, <1>4, <1>5, <1>6, <1>7, <1>8, <1>9, <1>10, <1>11,
     <1>12, <1>13, <1>14, <1>15, <1>16, <1>17, <1>18, <1>19, <1>20, <1>21,
     <1>22, <1>23, <1>24, <1>25, <1>26, <1>27, <1>28, <1>29, <1>30, <1>31,
     <1>32, <1>33, <1>34, <1>35, <1>36, <1>37, <1>38, <1>39, <1>40, <1>41,
     <1>42, <1>43, <1>44, <1>45
  DEF Thread, Environment, Login, Download, Upload, Delete, Broadcast, Other

\* A step of thread c leaves what belongs to another thread alone.
LEMMA OthersKept ==
  ASSUME TypeOK, NEW c \in Conns, Thread(c) \/ Environment(c),
         NEW d \in Conns, d # c
  PROVE  /\ pc'[d] = pc[d] /\ myId'[d] = myId[d]
         /\ myConnectionState'[d] = myConnectionState[d]
         /\ shouldTerminate'[d] = shouldTerminate[d] /\ nick'[d] = nick[d]
         /\ iter'[d] = iter[d] /\ found'[d] = found[d] /\ dest'[d] = dest[d]
         /\ message'[d] = message[d] /\ due'[d] = due[d]
         /\ toDownload'[d] = toDownload[d]
         /\ goingToBeReceived'[d] = goingToBeReceived[d]
<1> USE DEF Goto, server, session, loop, input, upload, download, TypeOK
<1>1. CASE Login(c)
  BY <1>1 DEF Login, LogrqAgain, LogrqBegin, LogrqNext, LogrqEnd, LogrqPut,
             LogrqAck, Answer, StartLoop
<1>2. CASE Download(c)
  BY <1>2 DEF Download, RrqRefused, RrqFound, RrqOpen, RrqLength, RrqRead, RrqGone,
             AckMore, AckIgnored, Dirq, DirqTooLong, Answer, HandleReadingACK, Die
<1>3. CASE Upload(c)
  BY <1>3 DEF Upload, WrqRefused, WrqAccepted, DataIgnored, DataOversize,
             DataFull, DataLast, DataWrite, Answer, StartLoop
<1>4. CASE Delete(c)
  BY <1>4 DEF Delete, DelrqRefused, DelrqFound, DelrqDelete, Answer, StartLoop
<1>5. CASE Broadcast(c)
  BY <1>5 DEF Broadcast, BcastNext, BcastDeliver, BcastLost, BcastEnd
<1>6. CASE Other(c)
  BY <1>6 DEF Other, NotLoggedIn, IteratorFails, Error, BcastIn, DiscBegin,
             DiscNext, DiscEnd, Answer, StartLoop, Die
<1>7. CASE \/ Accept(c) \/ RunAdd(c) \/ RunPut(c) \/ Close(c) \/ Receive(c)
           \/ Eof(c) \/ OpenFails(c) \/ WriteFails(c)
  BY <1>7 DEF Accept, RunAdd, RunPut, Close, Receive, Eof, OpenFails, WriteFails, Die
<1> QED BY <1>1, <1>2, <1>3, <1>4, <1>5, <1>6, <1>7 DEF Thread, Environment

-----------------------------------------------------------------------------
(* Routing: ids are unique, and connectionsQueue leads to their owners.    *)

\* Every step keeps the ids and the routes to them.
LEMMA RouteStep ==
  ASSUME TypeOK, RouteOK, NEW c \in Conns, Thread(c) \/ Environment(c)
  PROVE  RouteOK'
<1> USE DEF Goto, Processing, Receiving, server, session, upload, download,
            loop, input, disk
<1> DEFINE Same == UNCHANGED server /\ (pc[c] = "idle" <=> pc'[c] = "idle")
<1>0. \A d \in Conns \ {c} : pc'[d] = pc[d]
  BY OthersKept
<1>a. Same => RouteOK'
  BY <1>0 DEF RouteOK
<1>1. CASE Accept(c)
  <2>1. /\ connectionsCounter' = connectionsCounter + 1
        /\ myId' = [myId EXCEPT ![c] = connectionsCounter + 1]
        /\ pc' = [pc EXCEPT ![c] = "start"]
        /\ connectionsQueue' = connectionsQueue
        /\ myId[c] = 0
    BY <1>1 DEF Accept, RouteOK
  <2>2. \A d \in Conns : myId[d] \in Nat /\ myId[d] <= connectionsCounter
    BY DEF TypeOK, RouteOK
  <2>3. \A i \in DOMAIN connectionsQueue :
          connectionsQueue[i] \in Conns \ {c} /\ myId[connectionsQueue[i]] = i
    BY <2>1 DEF TypeOK, RouteOK, Ids
  <2>4. connectionsCounter \in Nat /\ pc \in [Conns -> {pc[d] : d \in Conns}]
        /\ myId \in [Conns -> Nat]
    BY DEF TypeOK
  <2> QED BY <2>1, <2>2, <2>3, <2>4 DEF RouteOK
<1>2. CASE RunPut(c)
  <2> DEFINE q == connectionsQueue'
  <2>1. /\ DOMAIN q \subseteq DOMAIN connectionsQueue \cup {myId[c]}
        /\ \A i \in DOMAIN q : q[i] = IF i = myId[c] THEN c ELSE connectionsQueue[i]
    BY <1>2, PutEntries DEF RunPut
  <2>2. myId' = myId /\ connectionsCounter' = connectionsCounter
    BY <1>2 DEF RunPut
  <2>3. \A d \in Conns : pc[d] = "idle" <=> pc'[d] = "idle"
    BY <1>2 DEF RunPut, TypeOK
  <2> QED BY <2>1, <2>2, <2>3 DEF RouteOK
<1>3. CASE Login(c)
  <2>1. Same
    BY <1>3 DEF TypeOK, Login, LogrqAgain, LogrqBegin, LogrqNext, LogrqEnd,
               LogrqPut, LogrqAck, Answer
  <2> QED BY <1>a, <2>1
<1>4. CASE Download(c)
  <2>1. Same
    BY <1>4 DEF TypeOK, Download, RrqRefused, RrqFound, RrqOpen, RrqLength, RrqRead,
               RrqGone, AckMore, AckIgnored, Dirq, DirqTooLong, Answer,
               HandleReadingACK, Die
  <2> QED BY <1>a, <2>1
<1>5. CASE Upload(c)
  <2>1. Same
    BY <1>5 DEF TypeOK, Upload, WrqRefused, WrqAccepted, DataIgnored, DataOversize,
               DataFull, DataLast, DataWrite, Answer
  <2> QED BY <1>a, <2>1
<1>6. CASE Delete(c)
  <2>1. Same
    BY <1>6 DEF TypeOK, Delete, DelrqRefused, DelrqFound, DelrqDelete, Answer
  <2> QED BY <1>a, <2>1
<1>7. CASE Broadcast(c)
  <2>1. Same
    BY <1>7 DEF TypeOK, Broadcast, BcastNext, BcastDeliver, BcastLost, BcastEnd
  <2> QED BY <1>a, <2>1
<1>8. CASE Other(c)
  <2>1. Same
    BY <1>8 DEF TypeOK, Other, NotLoggedIn, IteratorFails, Error, BcastIn,
               DiscBegin, DiscNext, DiscEnd, Answer, Die
  <2> QED BY <1>a, <2>1
<1>9. CASE \/ RunAdd(c) \/ Close(c) \/ Receive(c) \/ Eof(c) \/ OpenFails(c)
           \/ WriteFails(c)
  <2>1. Same
    BY <1>9 DEF TypeOK, RunAdd, Close, Receive, Eof, OpenFails, WriteFails, Die
  <2> QED BY <1>a, <2>1
<1> QED
  BY <1>1, <1>2, <1>3, <1>4, <1>5, <1>6, <1>7, <1>8, <1>9 DEF Thread, Environment

-----------------------------------------------------------------------------
(* What a thread is working on.                                            *)

\* A thread that does not move keeps PcAt, as long as the file it has open and
\* the map it walks are still what they were.
LEMMA PcFrame ==
  ASSUME NEW d \in Conns, PcAt(d), pc'[d] = pc[d], message'[d] = message[d],
         goingToBeReceived'[d] = goingToBeReceived[d],
         linked'[d] => linked[d] /\ files'[goingToBeReceived[d]] # NONE,
         ~stale'[d] => iter'[d] \subseteq DOMAIN loggedInUsers'
  PROVE  PcAt(d)'
BY DEF PcAt

PcsOK == \A d \in Conns : PcAt(d)

\* Nor does a step to a place where a thread works on nothing.
LEMMA PcMoves ==
  ASSUME TypeOK, PcsOK, NEW c \in Conns, pc[c] # "write",
         NEW l \in {"start", "adding", "listen", "exit", "deaf", "closed", "dead"},
         pc' = [pc EXCEPT ![c] = l],
         UNCHANGED <<files, linked, message, loggedInUsers>>,
         \A d \in Conns \ {c} : /\ goingToBeReceived'[d] = goingToBeReceived[d]
                                /\ iter'[d] = iter[d] /\ stale'[d] = stale[d],
         ~stale'[c] => iter'[c] \subseteq DOMAIN loggedInUsers'
  PROVE  PcsOK'
<1> SUFFICES ASSUME NEW d \in Conns PROVE PcAt(d)'
  BY DEF PcsOK
<1>0. PcAt(d) /\ PcAt(c)
  BY DEF PcsOK
<1>1. CASE d = c
  <2>1. pc'[c] = l /\ ~linked'[c]
    BY <1>0 DEF PcAt, TypeOK
  <2> QED BY <1>1, <2>1 DEF PcAt
<1>2. CASE d # c
  <2>1. pc'[d] = pc[d]
    BY <1>2 DEF TypeOK
  <2> QED BY <1>0, <1>2, <2>1, PcFrame DEF PcAt
<1> QED BY <1>1, <1>2

\* An exception, or a step that leaves the loop alone, is of that kind.
LEMMA PcSettles ==
  ASSUME TypeOK, PcsOK, NEW c \in Conns, pc[c] # "write",
         UNCHANGED <<files, linked, message, loggedInUsers, iter, stale>>,
         \E l \in {"start", "adding", "listen", "exit", "deaf", "closed", "dead"} :
           pc' = [pc EXCEPT ![c] = l],
         \A d \in Conns \ {c} : goingToBeReceived'[d] = goingToBeReceived[d]
  PROVE  PcsOK'
<1>1. ~stale'[c] => iter'[c] \subseteq DOMAIN loggedInUsers'
  BY DEF PcsOK, PcAt
<1> QED BY <1>1, PcMoves

LEMMA PcDies ==
  ASSUME TypeOK, PcsOK, NEW c \in Conns, pc[c] # "write", Die(c),
         UNCHANGED <<files, linked>>
  PROVE  PcsOK'
<1>1. /\ UNCHANGED <<message, loggedInUsers, goingToBeReceived>>
      /\ pc' = [pc EXCEPT ![c] = "dead"]
      /\ iter' = [iter EXCEPT ![c] = {}]
      /\ stale' = [stale EXCEPT ![c] = FALSE]
  BY DEF Die, Goto, input, upload
<1>2. iter'[c] = {} /\ \A d \in Conns \ {c} : iter'[d] = iter[d] /\ stale'[d] = stale[d]
  BY <1>1 DEF TypeOK
<1> QED BY <1>1, <1>2, PcMoves

\* Every step leaves each thread with what it needs to go on.
LEMMA PcStep ==
  ASSUME TypeOK, TypeOK', PcsOK, NEW c \in Conns, Thread(c) \/ Environment(c)
  PROVE  PcsOK'
<1> USE DEF Goto, Processing, Receiving, server, session, upload, download,
            loop, input, disk
<1>1. CASE Accept(c)
  BY <1>1, PcSettles DEF Accept
<1>2. CASE RunAdd(c)
  BY <1>2, PcSettles DEF RunAdd
<1>3. CASE RunPut(c)
  BY <1>3, PcSettles DEF RunPut
<1>4. CASE Receive(c)
  <2> SUFFICES ASSUME NEW d \in Conns PROVE PcAt(d)'
    BY DEF PcsOK
  <2>0. PcAt(d) /\ PcAt(c)
    BY DEF PcsOK
  <2>1. CASE d = c
    <3>1. PICK r \in Requests[c] :
            /\ message' = [message EXCEPT ![c] = r]
            /\ pc' = [pc EXCEPT ![c] =
                        IF r.op = "DATA" /\ r.data = <<>> THEN "deaf" ELSE "decode"]
      BY <1>4 DEF Receive
    <3>2. r \in Request
      BY ServerAssumption
    <3>3. message'[c] \in Request /\ pc'[c] \in {"decode", "deaf"}
      BY <3>1, <3>2 DEF TypeOK
    <3> QED BY <1>4, <2>0, <2>1, <3>3 DEF PcAt, Receive
  <2>2. CASE d # c
    <3>1. pc'[d] = pc[d] /\ message'[d] = message[d]
      BY <1>4, <2>2 DEF Receive, TypeOK
    <3> QED BY <1>4, <2>0, <3>1, PcFrame DEF PcAt, Receive
  <2> QED BY <2>1, <2>2
<1>5. CASE Eof(c)
  BY <1>5, PcSettles DEF Eof
<1>6. CASE Close(c)
  BY <1>6, PcSettles DEF Close
<1>7. CASE NotLoggedIn(c)
  BY <1>7, PcSettles DEF NotLoggedIn
<1>8. CASE LogrqAgain(c)
  BY <1>8, PcSettles DEF LogrqAgain, Answer
<1>9. CASE LogrqBegin(c)
  BY <1>9 DEF PcsOK, PcAt, LogrqBegin, TypeOK, StartLoop
<1>10. CASE LogrqNext(c)
  BY <1>10 DEF PcsOK, PcAt, LogrqNext, TypeOK
<1>11. CASE LogrqEnd(c)
  <2> SUFFICES ASSUME NEW d \in Conns PROVE PcAt(d)'
    BY DEF PcsOK
  <2>0. PcAt(d) /\ PcAt(c)
    BY DEF PcsOK
  <2>1. CASE d = c
    BY <1>11, <2>0, <2>1 DEF PcAt, LogrqEnd, TypeOK
  <2>2. CASE d # c
    <3>1. pc' = [pc EXCEPT ![c] = "put"] \/ pc' = [pc EXCEPT ![c] = "listen"]
      BY <1>11 DEF LogrqEnd
    <3>2. pc'[d] = pc[d]
      BY <2>2, <3>1 DEF TypeOK
    <3> QED BY <1>11, <2>0, <3>2, PcFrame DEF PcAt, LogrqEnd
  <2> QED BY <2>1, <2>2
<1>12. CASE LogrqPut(c)
  <2> SUFFICES ASSUME NEW d \in Conns PROVE PcAt(d)'
    BY DEF PcsOK
  <2>0. PcAt(d) /\ PcAt(c)
    BY DEF PcsOK
  <2>1. ~stale'[d] => iter'[d] \subseteq DOMAIN loggedInUsers'
    <3>1. iter' = iter
      BY <1>12 DEF LogrqPut
    <3>2. CASE stale' = stale /\ DOMAIN loggedInUsers' = DOMAIN loggedInUsers
      BY <2>0, <3>1, <3>2 DEF PcAt
    <3>3. CASE Modified(iter)
      BY <3>1, <3>3 DEF Modified
    <3> QED BY <1>12, <3>2, <3>3 DEF LogrqPut
  <2>2. CASE d = c
    BY <1>12, <2>0, <2>1, <2>2 DEF PcAt, LogrqPut, TypeOK
  <2>3. CASE d # c
    <3>1. pc'[d] = pc[d]
      BY <1>12, <2>3 DEF LogrqPut, TypeOK
    <3> QED BY <1>12, <2>0, <2>1, <3>1, PcFrame DEF PcAt, LogrqPut
  <2> QED BY <2>2, <2>3
<1>13. CASE LogrqAck(c)
  BY <1>13, PcSettles DEF LogrqAck
<1>14. CASE RrqRefused(c)
  BY <1>14, PcSettles DEF RrqRefused, Answer
<1>15. CASE RrqFound(c)
  BY <1>15 DEF PcsOK, PcAt, RrqFound, OnDisk, TypeOK
<1>16. CASE RrqRead(c)
  BY <1>16, PcSettles DEF RrqRead, HandleReadingACK, TypeOK
<1>17. CASE RrqGone(c)
  BY <1>17, PcDies DEF RrqGone
<1>18. CASE AckMore(c)
  BY <1>18, PcSettles DEF AckMore, HandleReadingACK, TypeOK
<1>19. CASE AckIgnored(c)
  BY <1>19, PcSettles DEF AckIgnored
<1>20. CASE Dirq(c)
  BY <1>20, PcSettles DEF Dirq, Answer
<1>21. CASE DirqTooLong(c)
  BY <1>21, PcDies DEF DirqTooLong
<1>22. CASE WrqRefused(c)
  BY <1>22, PcSettles DEF WrqRefused, Answer
<1>23. CASE WrqAccepted(c)
  BY <1>23, PcSettles DEF WrqAccepted, Answer, TypeOK
<1>24. CASE DataIgnored(c)
  BY <1>24, PcSettles DEF DataIgnored
<1>25. CASE DataOversize(c)
  <2> SUFFICES ASSUME NEW d \in Conns PROVE PcAt(d)'
    BY DEF PcsOK
  <2>0. PcAt(d) /\ PcAt(c)
    BY DEF PcsOK
  <2>1. CASE d = c
    BY <1>25, <2>0, <2>1, RequestFields DEF PcAt, DataOversize, TypeOK, Answer
  <2>2. CASE d # c
    BY <1>25, <2>0, <2>2 DEF PcAt, DataOversize, TypeOK, Answer
  <2> QED BY <2>1, <2>2
<1>26. CASE DataFull(c)
  <2> SUFFICES ASSUME NEW d \in Conns PROVE PcAt(d)'
    BY DEF PcsOK
  <2>0. PcAt(d) /\ PcAt(c)
    BY DEF PcsOK
  <2>1. CASE d = c
    BY <1>26, <2>0, <2>1, RequestFields DEF PcAt, DataFull, TypeOK, Answer
  <2>2. CASE d # c
    BY <1>26, <2>0, <2>2 DEF PcAt, DataFull, TypeOK, Answer
  <2> QED BY <2>1, <2>2
<1>27. CASE DataLast(c)
  <2> SUFFICES ASSUME NEW d \in Conns PROVE PcAt(d)'
    BY DEF PcsOK
  <2>0. PcAt(d) /\ PcAt(c)
    BY DEF PcsOK
  <2>1. /\ goingToBeReceived[c] \in FileNames
        /\ files' = [files EXCEPT ![goingToBeReceived[c]] = <<>>]
    BY <1>27 DEF DataLast, TypeOK
  <2>2. \A f \in FileNames : files[f] # NONE => files'[f] # NONE
    <3>1. <<>> \in Seq(Bytes)
      OBVIOUS
    <3>2. <<>> # NONE
      BY <3>1, NameAssumption
    <3> QED BY <2>1, <3>2 DEF TypeOK
  <2>3. CASE d = c
    <3>1. files'[goingToBeReceived[c]] = <<>> /\ <<>> \in Seq(Bytes)
      BY <2>1 DEF TypeOK
    <3>2. files'[goingToBeReceived[c]] # NONE
      BY <3>1, NameAssumption
    <3> QED BY <1>27, <2>0, <2>3, <3>2 DEF PcAt, DataLast, TypeOK
  <2>4. CASE d # c
    <3>1. pc'[d] = pc[d] /\ linked'[d] = linked[d]
      BY <1>27, <2>4 DEF DataLast, TypeOK
    <3>2. linked[d] => goingToBeReceived[d] \in FileNames
      BY <2>0 DEF PcAt, TypeOK
    <3> QED BY <1>27, <2>0, <2>2, <3>1, <3>2, PcFrame DEF PcAt, DataLast
  <2> QED BY <2>3, <2>4
<1>28. CASE DataWrite(c)
  <2> SUFFICES ASSUME NEW d \in Conns PROVE PcAt(d)'
    BY DEF PcsOK
  <2>0. PcAt(d) /\ PcAt(c)
    BY DEF PcsOK
  <2>1. CASE d = c
    BY <1>28, <2>0, <2>1 DEF PcAt, DataWrite, StreamClosed, StartLoop, TypeOK
  <2>2. CASE d # c
    <3>1. \A f \in FileNames : files[f] # NONE => files'[f] # NONE
      <4>1. CASE linked[c]
        <5>1. /\ goingToBeReceived[c] \in FileNames
              /\ files[goingToBeReceived[c]] \in Seq(Bytes)
          BY <2>0, <4>1 DEF PcAt, TypeOK, MaybeData
        <5>2. Overlay(Pad(wholeFile[c], accSize[c]), files[goingToBeReceived[c]])
                \in Seq(Bytes)
          BY <5>1, WriteType DEF TypeOK
        <5> QED BY <1>28, <4>1, <5>1, <5>2, NameAssumption DEF DataWrite, TypeOK
      <4>2. CASE ~linked[c]
        BY <1>28, <4>2 DEF DataWrite
      <4> QED BY <4>1, <4>2
    <3>2. /\ pc'[d] = pc[d] /\ linked'[d] = linked[d]
          /\ iter'[d] = iter[d] /\ stale'[d] = stale[d]
      BY <1>28, <2>2 DEF DataWrite, StreamClosed, StartLoop, TypeOK
    <3>3. linked[d] => goingToBeReceived[d] \in FileNames
      BY <2>0 DEF PcAt, TypeOK
    <3> QED BY <1>28, <2>0, <3>1, <3>2, <3>3, PcFrame DEF PcAt, DataWrite
  <2> QED BY <2>1, <2>2
<1>29. CASE WriteFails(c)
  BY <1>29 DEF PcsOK, PcAt, WriteFails, StreamClosed, TypeOK, Die
<1>30. CASE DelrqRefused(c)
  BY <1>30, PcSettles DEF DelrqRefused, Answer
<1>31. CASE DelrqFound(c)
  BY <1>31 DEF PcsOK, PcAt, DelrqFound, OnDisk, TypeOK
<1>32. CASE DelrqDelete(c)
  <2> SUFFICES ASSUME NEW d \in Conns PROVE PcAt(d)'
    BY DEF PcsOK
  <2>0. PcAt(d) /\ PcAt(c)
    BY DEF PcsOK
  <2>1. CASE d = c
    BY <1>32, <2>0, <2>1, RequestFields DEF PcAt, DelrqDelete, TypeOK, StartLoop
  <2>2. CASE d # c
    <3>1. /\ files' = [files EXCEPT ![message[c].file] = NONE]
          /\ linked'[d] => linked[d] /\ goingToBeReceived[d] # message[c].file
          /\ loggedInUsers' = loggedInUsers
          /\ stale' = [stale EXCEPT ![c] = FALSE]
      BY <1>32 DEF DelrqDelete, StartLoop
    <3>2. linked[d] => goingToBeReceived[d] \in FileNames /\ files[goingToBeReceived[d]] # NONE
      BY <2>0 DEF PcAt, TypeOK
    <3>3. linked'[d] => linked[d] /\ files'[goingToBeReceived[d]] # NONE
      BY <3>1, <3>2 DEF TypeOK
    <3>4. stale'[d] = stale[d]
      BY <2>2, <3>1 DEF TypeOK
    <3>5. ~stale[d] => iter[d] \subseteq DOMAIN loggedInUsers
      BY <2>0 DEF PcAt
    <3> QED BY <2>0, <2>2, <3>1, <3>3, <3>4, <3>5, OthersKept, PcFrame
  <2> QED BY <2>1, <2>2
<1>33. CASE BcastNext(c)
  <2> SUFFICES ASSUME NEW d \in Conns PROVE PcAt(d)'
    BY DEF PcsOK
  <2>0. PcAt(d) /\ PcAt(c)
    BY DEF PcsOK
  <2>1. CASE d = c
    <3>1. /\ pc[c] = "bcast" /\ pc'[c] = "deliver" /\ iter'[c] \subseteq iter[c]
      BY <1>33 DEF BcastNext, TypeOK
    <3> QED BY <1>33, <2>0, <2>1, <3>1 DEF PcAt, BcastNext
  <2>2. CASE d # c
    BY <1>33, <2>0, <2>2, OthersKept, PcFrame DEF PcAt, BcastNext
  <2> QED BY <2>1, <2>2
<1>34. CASE BcastDeliver(c)
  <2> SUFFICES ASSUME NEW d \in Conns PROVE PcAt(d)'
    BY DEF PcsOK
  <2>0. PcAt(d) /\ PcAt(c)
    BY DEF PcsOK
  <2>1. CASE d = c
    <3>1. pc[c] = "deliver" /\ pc'[c] = "bcast"
      BY <1>34 DEF BcastDeliver, TypeOK
    <3> QED BY <1>34, <2>0, <2>1, <3>1 DEF PcAt, BcastDeliver
  <2>2. CASE d # c
    BY <1>34, <2>0, <2>2, OthersKept, PcFrame DEF PcAt, BcastDeliver
  <2> QED BY <2>1, <2>2
<1>35. CASE BcastLost(c)
  <2> SUFFICES ASSUME NEW d \in Conns PROVE PcAt(d)'
    BY DEF PcsOK
  <2>0. PcAt(d) /\ PcAt(c)
    BY DEF PcsOK
  <2>1. CASE d = c
    BY <1>35, <2>0, <2>1, RequestFields DEF PcAt, BcastLost, TypeOK
  <2>2. CASE d # c
    BY <1>35, <2>0, <2>2 DEF PcAt, BcastLost, TypeOK
  <2> QED BY <2>1, <2>2
<1>36. CASE BcastEnd(c)
  <2>1. \A d \in Conns \ {c} : goingToBeReceived'[d] = goingToBeReceived[d]
    BY OthersKept
  <2> QED BY <1>36, <2>1, PcSettles DEF BcastEnd
<1>37. CASE IteratorFails(c)
  BY <1>37, PcDies DEF IteratorFails
<1>38. CASE Error(c)
  BY <1>38, PcSettles DEF Error, TypeOK
<1>39. CASE BcastIn(c)
  BY <1>39, PcSettles DEF BcastIn, Answer
<1>40. CASE DiscBegin(c)
  BY <1>40 DEF PcsOK, PcAt, DiscBegin, TypeOK, StartLoop
<1>41. CASE DiscNext(c)
  BY <1>41 DEF PcsOK, PcAt, DiscNext, TypeOK
<1>42. CASE DiscEnd(c)
  <2> SUFFICES ASSUME NEW d \in Conns PROVE PcAt(d)'
    BY DEF PcsOK
  <2>0. PcAt(d) /\ PcAt(c)
    BY DEF PcsOK
  <2>1. ~stale'[d] => iter'[d] \subseteq DOMAIN loggedInUsers'
    <3>1. iter' = iter
      BY <1>42 DEF DiscEnd
    <3>2. CASE stale' = stale /\ DOMAIN loggedInUsers' = DOMAIN loggedInUsers
      BY <2>0, <3>1, <3>2 DEF PcAt
    <3>3. CASE Modified(iter)
      BY <3>1, <3>3 DEF Modified
    <3> QED BY <1>42, <3>2, <3>3 DEF DiscEnd
  <2>2. CASE d = c
    BY <1>42, <2>0, <2>1, <2>2 DEF PcAt, DiscEnd, TypeOK
  <2>3. CASE d # c
    <3>1. pc'[d] = pc[d]
      BY <1>42, <2>3 DEF DiscEnd, TypeOK
    <3> QED BY <1>42, <2>0, <2>1, <3>1, PcFrame DEF PcAt, DiscEnd
  <2> QED BY <2>2, <2>3
<1>43. CASE RrqOpen(c)
  BY <1>43 DEF PcsOK, PcAt, RrqOpen, TypeOK
<1>44. CASE RrqLength(c)
  BY <1>44 DEF PcsOK, PcAt, RrqLength, TypeOK
<1>45. CASE OpenFails(c)
  BY <1>45, PcDies DEF OpenFails
<1> QED
  BY <1>1, <1>2, <1>3, <1>4, <1>5, <1>6, <1>7, <1>8, <1>9, <1>10, <1>11,
     <1>12, <1>13, <1>14, <1>15, <1>16, <1>17, <1>18, <1>19, <1>20, <1>21,
     <1>22, <1>23, <1>24, <1>25, <1>26, <1>27, <1>28, <1>29, <1>30, <1>31,
     <1>32, <1>33, <1>34, <1>35, <1>36, <1>37, <1>38, <1>39, <1>40, <1>41,
     <1>42, <1>43, <1>44, <1>45
  DEF Thread, Environment, Login, Download, Upload, Delete, Broadcast, Other

-----------------------------------------------------------------------------
(* What is written to the sockets.                                         *)

\* The ways a step changes what has been written: not at all, by the client
\* reading it, by answers to the thread's own client, or by a broadcast.
Answering(c, pkts) == /\ pc[c] # "idle"
                      /\ \A i \in 1 .. Len(pkts) : pkts[i].op # "BCAST"
                      /\ Send(c, myId[c], pkts)

Output(c) == \/ out' = out
             \/ out' = [out EXCEPT ![c] = <<>>]
             \/ \E pkts \in Seq(Packet) : Answering(c, pkts)
             \/ /\ pc[c] = "deliver"
                /\ Send(c, dest[c], <<BcastSent(c)>>)

\* ERROR, ACK and LIST packets that are sent with Reply are answers.
LEMMA ReplyAnswers ==
  ASSUME NEW c \in Conns, pc[c] # "idle"
  PROVE  /\ \A code \in 0 .. 7 : Reply(c, ErrorPacket(code)) => Output(c)
         /\ \A n \in BlockNum : Reply(c, AckPacket(n)) => Output(c)
         /\ \A S \in SUBSET FileNames : Reply(c, ListPacket(S)) => Output(c)
<1>1. ASSUME NEW pkt \in Packet, pkt.op # "BCAST", Reply(c, pkt)
      PROVE  Output(c)
  <2>1. Answering(c, <<pkt>>) /\ <<pkt>> \in Seq(Packet)
    BY <1>1 DEF Answering, Reply
  <2> QED BY <2>1 DEF Output
<1>2. /\ \A code : ErrorPacket(code).op # "BCAST"
      /\ \A n : AckPacket(n).op # "BCAST"
      /\ \A S : ListPacket(S).op # "BCAST"
  BY DEF ErrorPacket, AckPacket, ListPacket
<1> QED BY <1>1, <1>2, PacketTypes

\* The packets of handleReadingACK are answers.
LEMMA ReadingAnswers ==
  ASSUME TypeOK, NEW c \in Conns, NEW buf \in Seq(Bytes), pc[c] # "idle",
         HandleReadingACK(c, buf)
  PROVE  Output(c)
<1>1. blockNum[c] \in BlockNum
  BY DEF TypeOK
<1>2. \A i \in 1 .. Len(BlocksOf(buf, blockNum[c])) :
        BlocksOf(buf, blockNum[c])[i].op # "BCAST"
  BY DEF BlocksOf, DataPacket
<1>3. Answering(c, BlocksOf(buf, blockNum[c]))
  BY <1>2 DEF Answering, HandleReadingACK
<1> QED BY <1>1, <1>3, BlocksType DEF Output

\* What handleReadingACK is called with.
LEMMA ReadingBuffer ==
  ASSUME TypeOK, PcOK, NEW c \in Conns, RrqRead(c) \/ AckMore(c)
  PROVE  /\ pc[c] \in {"decode", "read"}
         /\ \E buf \in Seq(Bytes) : HandleReadingACK(c, buf)
<1>1. CASE RrqRead(c)
  <2> DEFINE opened == IF orphan[c] = NONE THEN files[message[c].file] ELSE orphan[c]
  <2>1. pc[c] = "read" /\ HandleReadingACK(c, Pad(opened, Len(toDownload[c])))
    BY <1>1 DEF RrqRead
  <2>2. message[c].file \in FileNames /\ ReadAt(c)
    BY <2>1 DEF PcOK, PcAt
  <2>3. opened \in Seq(Bytes) /\ toDownload[c] \in Seq(Bytes)
    BY <2>1, <2>2 DEF ReadAt, TypeOK, MaybeData
  <2> HIDE DEF opened
  <2>4. Pad(opened, Len(toDownload[c])) \in Seq(Bytes)
    <3>1. Len(toDownload[c]) \in Nat
      BY <2>3
    <3> QED BY <2>3, <3>1, PadType
  <2> QED BY <2>1, <2>4
<1>2. CASE AckMore(c)
  BY <1>2 DEF AckMore, Processing, TypeOK, MaybeData
<1> QED BY <1>1, <1>2

\* Every step is of one of the four kinds.
LEMMA Outputs ==
  ASSUME TypeOK, PcOK, NEW c \in Conns, Thread(c) \/ Environment(c)
  PROVE  Output(c)
<1> USE DEF Goto, Processing, Receiving, server, session, upload, download,
            loop, input, disk
<1>1. CASE \/ Accept(c) \/ RunAdd(c) \/ RunPut(c) \/ Eof(c) \/ Close(c) \/ LogrqBegin(c)
        \/ LogrqEnd(c) \/ LogrqPut(c) \/ RrqFound(c) \/ RrqOpen(c) \/ RrqLength(c)
        \/ RrqGone(c) \/ AckIgnored(c) \/ OpenFails(c)
        \/ DirqTooLong(c) \/ DataIgnored(c) \/ DataLast(c) \/ WriteFails(c)
        \/ DelrqFound(c) \/ BcastNext(c) \/ BcastLost(c) \/ BcastEnd(c)
        \/ IteratorFails(c) \/ Error(c) \/ DiscBegin(c) \/ DiscNext(c)
  BY <1>1 DEF Output, Die, Accept, RunAdd, RunPut, Eof, Close, LogrqBegin, LogrqEnd,
            LogrqPut, RrqFound, RrqOpen, RrqLength, RrqGone, AckIgnored,
            OpenFails, DirqTooLong,
            DataIgnored, DataLast, WriteFails, DelrqFound, BcastNext,
            BcastLost, BcastEnd, IteratorFails, Error, DiscBegin, DiscNext
<1>2. CASE Receive(c)
  BY <1>2 DEF Output, Receive
<1>3. CASE RrqRead(c) \/ AckMore(c)
  <2>1. pc[c] # "idle" /\ \E buf \in Seq(Bytes) : HandleReadingACK(c, buf)
    BY <1>3, ReadingBuffer
  <2> QED BY <2>1, ReadingAnswers
<1>4. CASE BcastDeliver(c)
  BY <1>4 DEF Output, BcastDeliver
<1>5. CASE NotLoggedIn(c)
  <2>1. pc[c] # "idle" /\ Reply(c, ErrorPacket(6))
    BY <1>5 DEF NotLoggedIn
  <2> QED BY <2>1, ReplyAnswers
<1>6. CASE LogrqAgain(c)
  <2>1. pc[c] # "idle" /\ Reply(c, ErrorPacket(7))
    BY <1>6 DEF LogrqAgain, Answer
  <2> QED BY <2>1, ReplyAnswers
<1>7. CASE LogrqNext(c)
  <2>1. pc[c] # "idle" /\ (out' = out \/ Reply(c, ErrorPacket(7)))
    BY <1>7 DEF LogrqNext
  <2> QED BY <2>1, ReplyAnswers DEF Output
<1>8. CASE LogrqAck(c)
  <2>1. pc[c] # "idle" /\ Reply(c, AckPacket(0))
    BY <1>8 DEF LogrqAck
  <2> QED BY <2>1, ReplyAnswers, BlockNumbers
<1>9. CASE RrqRefused(c)
  <2>1. pc[c] # "idle" /\ (Reply(c, ErrorPacket(0)) \/ Reply(c, ErrorPacket(1)))
    BY <1>9 DEF RrqRefused, Answer
  <2> QED BY <2>1, ReplyAnswers
<1>10. CASE Dirq(c)
  <2>1. pc[c] # "idle" /\ Reply(c, ListPacket(OnDisk)) /\ OnDisk \in SUBSET FileNames
    BY <1>10 DEF Dirq, OnDisk, Answer
  <2> QED BY <2>1, ReplyAnswers
<1>11. CASE WrqRefused(c)
  <2>1. pc[c] # "idle" /\ (Reply(c, ErrorPacket(0)) \/ Reply(c, ErrorPacket(5)))
    BY <1>11 DEF WrqRefused, Answer
  <2> QED BY <2>1, ReplyAnswers
<1>12. CASE WrqAccepted(c)
  <2>1. pc[c] # "idle" /\ Reply(c, AckPacket(0))
    BY <1>12 DEF WrqAccepted, Answer
  <2> QED BY <2>1, ReplyAnswers, BlockNumbers
<1>13. CASE DataOversize(c)
  <2>1. pc[c] # "idle" /\ Reply(c, ErrorPacket(0))
    BY <1>13 DEF DataOversize, Answer
  <2> QED BY <2>1, ReplyAnswers
<1>14. CASE DataFull(c)
  <2>1. pc[c] # "idle" /\ Reply(c, AckPacket(message[c].block))
    BY <1>14 DEF DataFull, Answer
  <2>2. message[c].block \in BlockNum
    BY <1>14, RequestFields DEF DataFull, PcOK, PcAt
  <2> QED BY <2>1, <2>2, ReplyAnswers
<1>15. CASE DataWrite(c)
  <2>1. pc[c] # "idle" /\ Reply(c, AckPacket(message[c].block))
    BY <1>15 DEF DataWrite
  <2>2. message[c].block \in BlockNum
    BY <1>15, RequestFields DEF DataWrite, PcOK, PcAt
  <2> QED BY <2>1, <2>2, ReplyAnswers
<1>16. CASE DelrqRefused(c)
  <2>1. pc[c] # "idle" /\ (Reply(c, ErrorPacket(0)) \/ Reply(c, ErrorPacket(1)))
    BY <1>16 DEF DelrqRefused, Answer
  <2> QED BY <2>1, ReplyAnswers
<1>17. CASE DelrqDelete(c)
  <2>1. pc[c] # "idle" /\ Reply(c, AckPacket(0))
    BY <1>17 DEF DelrqDelete
  <2> QED BY <2>1, ReplyAnswers, BlockNumbers
<1>18. CASE BcastIn(c)
  <2>1. pc[c] # "idle" /\ Reply(c, ErrorPacket(0))
    BY <1>18 DEF BcastIn, Answer
  <2> QED BY <2>1, ReplyAnswers
<1>19. CASE DiscEnd(c)
  <2>1. pc[c] # "idle" /\ Reply(c, AckPacket(0))
    BY <1>19 DEF DiscEnd
  <2> QED BY <2>1, ReplyAnswers, BlockNumbers
<1> QED
  BY <1>1, <1>2, <1>3, <1>4, <1>5, <1>6, <1>7, <1>8, <1>9, <1>10, <1>11,
     <1>12, <1>13, <1>14, <1>15, <1>16, <1>17, <1>18, <1>19
  DEF Thread, Environment, Login, Download, Upload, Delete, Broadcast, Other

\* What a send appends, and to whom.
LEMMA SendEntries ==
  ASSUME TypeOK, NEW c \in Conns, NEW id, NEW pkts \in Seq(Packet),
         Send(c, id, pkts), NEW d \in Conns, NEW i \in 1 .. Len(out'[d])
  PROVE  \/ i \in 1 .. Len(out[d]) /\ out'[d][i] = out[d][i]
         \/ /\ id \in DOMAIN connectionsQueue
            /\ d = connectionsQueue[id]
            /\ \E k \in 1 .. Len(pkts) : out'[d][i] = [from |-> c, pkt |-> pkts[k]]
<1> DEFINE E == [from : Conns, pkt : Packet]
           e == [k \in 1 .. Len(pkts) |-> [from |-> c, pkt |-> pkts[k]]]
<1>1. CASE id \in DOMAIN connectionsQueue /\ IsOpen(connectionsQueue[id])
           /\ d = connectionsQueue[id]
  <2>1. out[d] \in Seq(E)
    BY DEF TypeOK
  <2>2. e \in Seq(E) /\ Len(e) = Len(pkts)
    OBVIOUS
  <2>3. out'[d] = out[d] \o e
    BY <1>1 DEF Send, TypeOK
  <2>4. \A k \in 1 .. Len(pkts) : e[k] = [from |-> c, pkt |-> pkts[k]]
    OBVIOUS
  <2> HIDE DEF e, E
  <2>5. /\ Len(out'[d]) = Len(out[d]) + Len(e)
        /\ \A k \in 1 .. Len(out[d]) + Len(e) :
             out'[d][k] = IF k <= Len(out[d]) THEN out[d][k] ELSE e[k - Len(out[d])]
    <3>1. /\ Len(out[d] \o e) = Len(out[d]) + Len(e)
          /\ \A k \in 1 .. Len(out[d]) + Len(e) :
               (out[d] \o e)[k] = IF k <= Len(out[d]) THEN out[d][k]
                                                    ELSE e[k - Len(out[d])]
      BY <2>1, <2>2, ConcatProperties, Zenon
    <3> QED BY <2>3, <3>1
  <2>6. Len(out[d]) \in Nat /\ Len(e) \in Nat
    BY <2>1, <2>2
  <2>7. CASE i <= Len(out[d])
    BY <2>5, <2>6, <2>7
  <2>8. CASE i > Len(out[d])
    <3>1. i - Len(out[d]) \in 1 .. Len(pkts)
      BY <2>2, <2>5, <2>6, <2>8
    <3>2. out'[d][i] = e[i - Len(out[d])]
      BY <2>5, <2>6, <2>8
    <3> QED BY <1>1, <2>4, <3>1, <3>2
  <2> QED BY <2>5, <2>6, <2>7, <2>8
<1>2. CASE ~(id \in DOMAIN connectionsQueue /\ IsOpen(connectionsQueue[id])
             /\ d = connectionsQueue[id])
  <2>1. out'[d] = out[d]
    BY <1>2 DEF Send, TypeOK
  <2> QED BY <2>1
<1> QED BY <1>1, <1>2

\* What is broadcast is a packet.
LEMMA BcastType ==
  ASSUME TypeOK, PcOK, NEW c \in Conns, pc[c] = "deliver"
  PROVE  <<BcastSent(c)>> \in Seq(Packet)
<1>1. BcastSent(c) \in Packet
  BY PacketTypes, RequestFields DEF BcastSent, PcOK, PcAt, TypeOK, Names
<1> QED BY <1>1

\* No step hands an answer to another client.
LEMMA CrossTalkStep ==
  ASSUME TypeOK, PcOK, RouteOK, NoCrossTalk, NEW c \in Conns, Output(c)
  PROVE  NoCrossTalk'
<1> SUFFICES ASSUME NEW d \in Conns, NEW i \in 1 .. Len(out'[d]),
                    ~IsBcast(out'[d][i])
             PROVE  out'[d][i].from = d
  BY DEF NoCrossTalk, IsBcast
<1>1. CASE out' = out
  BY <1>1 DEF NoCrossTalk, IsBcast
<1>2. CASE out' = [out EXCEPT ![c] = <<>>]
  <2>1. d # c /\ out'[d] = out[d]
    BY <1>2 DEF TypeOK
  <2> QED BY <2>1 DEF NoCrossTalk, IsBcast
<1>3. ASSUME NEW pkts \in Seq(Packet), Answering(c, pkts)
      PROVE  out'[d][i].from = d
  <2>1. CASE i \in 1 .. Len(out[d]) /\ out'[d][i] = out[d][i]
    BY <2>1 DEF NoCrossTalk, IsBcast
  <2>2. CASE /\ myId[c] \in DOMAIN connectionsQueue
             /\ d = connectionsQueue[myId[c]]
             /\ \E k \in 1 .. Len(pkts) : out'[d][i] = [from |-> c, pkt |-> pkts[k]]
    <3>1. myId[d] = myId[c] /\ myId[c] # 0
      BY <1>3, <2>2 DEF Answering, RouteOK
    <3> QED BY <2>2, <3>1 DEF RouteOK
  <2>3. Send(c, myId[c], pkts)
    BY <1>3 DEF Answering
  <2>4. \/ i \in 1 .. Len(out[d]) /\ out'[d][i] = out[d][i]
        \/ /\ myId[c] \in DOMAIN connectionsQueue
           /\ d = connectionsQueue[myId[c]]
           /\ \E k \in 1 .. Len(pkts) : out'[d][i] = [from |-> c, pkt |-> pkts[k]]
    BY <2>3, SendEntries
  <2> QED BY <2>1, <2>2, <2>4
<1>4. CASE pc[c] = "deliver" /\ Send(c, dest[c], <<BcastSent(c)>>)
  <2> DEFINE b == <<BcastSent(c)>>
  <2>1. b \in Seq(Packet) /\ Send(c, dest[c], b)
    BY <1>4, BcastType
  <2>2. \A k \in 1 .. Len(b) : IsBcast([from |-> c, pkt |-> b[k]])
    BY DEF IsBcast, BcastSent, BCastPacket
  <2> HIDE DEF b
  <2>3. \/ i \in 1 .. Len(out[d]) /\ out'[d][i] = out[d][i]
        \/ /\ dest[c] \in DOMAIN connectionsQueue
           /\ d = connectionsQueue[dest[c]]
           /\ \E k \in 1 .. Len(b) : out'[d][i] = [from |-> c, pkt |-> b[k]]
    BY <2>1, SendEntries
  <2> QED BY <2>2, <2>3 DEF NoCrossTalk, IsBcast
<1> QED BY <1>1, <1>2, <1>3, <1>4 DEF Output

-----------------------------------------------------------------------------
(* What a thread reads.                                                    *)

ReadsOK == \A d \in Conns : ReadAt(d)

\* The actions that open, measure, read, write and delete files.
DiskStepOf(c) ==
  \/ RrqOpen(c) \/ RrqLength(c) \/ RrqRead(c) \/ DataLast(c) \/ DataWrite(c)
  \/ WriteFails(c) \/ DelrqDelete(c)

\* Every other action leaves the files, and the threads that use them, alone.
Diskless(c) == /\ disk' = disk
               /\ pc[c] \notin {"length", "read", "write"}
               /\ pc'[c] \notin {"length", "read"}

LEMMA DiskSteps ==
  ASSUME TypeOK, NEW c \in Conns, Thread(c) \/ Environment(c)
  PROVE  DiskStepOf(c) \/ Diskless(c)
<1> SUFFICES ASSUME ~DiskStepOf(c) PROVE Diskless(c)
  OBVIOUS
<1> USE DEF Goto, TypeOK, Diskless, Processing, Receiving
<1>1. CASE LogrqAgain(c) \/ LogrqBegin(c) \/ LogrqPut(c) \/ LogrqAck(c)
  BY <1>1 DEF LogrqAgain, LogrqBegin, LogrqPut, LogrqAck, Answer
<1>2. CASE LogrqNext(c) \/ DiscNext(c)
  BY <1>2 DEF LogrqNext, DiscNext
<1>3. CASE LogrqEnd(c)
  <2>1. pc' = [pc EXCEPT ![c] = "put"] \/ pc' = [pc EXCEPT ![c] = "listen"]
    BY <1>3 DEF LogrqEnd
  <2> QED BY <1>3, <2>1 DEF LogrqEnd
<1>4. CASE Download(c)
  BY <1>4 DEF DiskStepOf, Download, RrqRefused, RrqFound, RrqGone, AckMore, AckIgnored,
              Dirq, DirqTooLong, Answer, HandleReadingACK, Die
<1>5. CASE Upload(c) \/ Delete(c)
  BY <1>5 DEF DiskStepOf, Upload, WrqRefused, WrqAccepted, DataIgnored, DataOversize,
              DataFull, Delete, DelrqRefused, DelrqFound, Answer
<1>6. CASE Broadcast(c)
  BY <1>6 DEF Broadcast, BcastNext, BcastDeliver, BcastLost, BcastEnd
<1>7. CASE \/ NotLoggedIn(c) \/ IteratorFails(c) \/ Error(c) \/ BcastIn(c)
           \/ DiscBegin(c) \/ DiscEnd(c)
  BY <1>7 DEF NotLoggedIn, IteratorFails, Error, BcastIn, DiscBegin, DiscEnd, Answer, Die
<1>8. CASE \/ Accept(c) \/ RunAdd(c) \/ RunPut(c) \/ Close(c) \/ Eof(c) \/ OpenFails(c)
  BY <1>8 DEF Accept, RunAdd, RunPut, Close, Eof, OpenFails, Die
<1>9. CASE Receive(c)
  <2>1. pc'[c] \in {"decode", "deaf"}
    BY <1>9 DEF Receive
  <2> QED BY <1>9, <2>1 DEF Receive
<1> QED
  BY <1>1, <1>2, <1>3, <1>4, <1>5, <1>6, <1>7, <1>8, <1>9
  DEF DiskStepOf, Thread, Environment, Login, Other

\* What a thread that does not move reads, as long as nobody removes it.
LEMMA ReadFrame ==
  ASSUME NEW d \in Conns, ReadAt(d), pc'[d] = pc[d], message'[d] = message[d],
         toDownload'[d] = toDownload[d], orphan'[d] = orphan[d],
         pc[d] \in {"length", "read"} /\ files[message[d].file] # NONE =>
           files'[message[d].file] # NONE,
         writers'[d] \subseteq writers[d],
         \A e \in writers'[d] :
           pc'[e] = pc[e] /\ goingToBeReceived'[e] = goingToBeReceived[e]
           /\ linked'[e] = linked[e]
  PROVE  ReadAt(d)'
BY DEF ReadAt

\* Every step leaves each reader the file it has open, removed or not.
LEMMA ReadStep ==
  ASSUME TypeOK, PcOK, NEW c \in Conns, Thread(c) \/ Environment(c)
  PROVE  ReadsOK'
<1> SUFFICES ASSUME NEW d \in Conns PROVE ReadAt(d)'
  BY DEF ReadsOK
<1>a. /\ ReadAt(d) /\ ReadAt(c) /\ PcAt(c) /\ PcAt(d)
      /\ writers[d] \subseteq Conns
  BY DEF PcOK, TypeOK
<1>b. \A e \in Conns \ {c} :
        /\ pc'[e] = pc[e] /\ message'[e] = message[e] /\ toDownload'[e] = toDownload[e]
        /\ goingToBeReceived'[e] = goingToBeReceived[e]
  BY OthersKept
<1>c. pc[d] \in {"length", "read"} => message[d].file \in FileNames
  BY <1>a DEF PcAt
<1> USE DEF Goto
<1>1. CASE Diskless(c)
  <2>1. /\ orphan' = orphan /\ writers' = writers /\ files' = files /\ linked' = linked
        /\ pc[c] \notin {"length", "read", "write"} /\ pc'[c] \notin {"length", "read"}
    BY <1>1 DEF Diskless, disk
  <2>2. CASE d = c
    BY <1>a, <2>1, <2>2 DEF ReadAt
  <2>3. CASE d # c
    <3>1. c \notin writers[d]
      BY <1>a, <2>1 DEF ReadAt
    <3> QED BY <1>a, <1>b, <2>1, <2>3, <3>1, ReadFrame
  <2> QED BY <2>2, <2>3
<1>2. CASE RrqOpen(c) \/ RrqLength(c)
  <2>1. /\ orphan' = orphan /\ writers' = writers /\ files' = files /\ linked' = linked
        /\ pc[c] \in {"rrq", "length"} /\ message' = message
    BY <1>2 DEF RrqOpen, RrqLength, disk, input
  <2>2. CASE d = c /\ RrqOpen(c)
    BY <1>a, <2>1, <2>2 DEF ReadAt, RrqOpen, OnDisk, TypeOK
  <2>3. CASE d = c /\ RrqLength(c)
    <3>1. pc'[c] = "read" /\ toDownload'[c] # NONE
      <4> DEFINE f == message[c].file
                 length == IF f \in OnDisk THEN Len(files[f]) ELSE 0
      <4>1. length \in Nat /\ <<>> \in Seq(Bytes)
        BY DEF OnDisk, TypeOK, MaybeData
      <4>2. /\ toDownload' = [toDownload EXCEPT ![c] = Pad(<<>>, length)]
            /\ pc' = [pc EXCEPT ![c] = "read"]
        BY <2>3 DEF RrqLength
      <4> HIDE DEF length
      <4>3. Pad(<<>>, length) # NONE
        BY <4>1, PadType
      <4> QED BY <4>2, <4>3 DEF TypeOK
    <3>2. c \notin writers[c] /\ pc[c] = "length"
      BY <1>a, <2>3 DEF ReadAt, RrqLength
    <3> QED BY <1>a, <1>b, <2>1, <2>3, <3>1, <3>2 DEF ReadAt, RrqLength, upload
  <2>4. CASE d # c
    <3>1. c \notin writers[d]
      BY <1>a, <2>1 DEF ReadAt
    <3> QED BY <1>a, <1>b, <2>1, <2>4, <3>1, ReadFrame
  <2> QED BY <1>2, <2>2, <2>3, <2>4
<1>3. CASE RrqRead(c)
  <2>1. /\ orphan' = [orphan EXCEPT ![c] = NONE] /\ writers' = [writers EXCEPT ![c] = {}]
        /\ files' = files /\ linked' = linked /\ pc[c] = "read" /\ pc'[c] = "listen"
    BY <1>3 DEF RrqRead, HandleReadingACK, TypeOK
  <2>2. CASE d = c
    BY <2>1, <2>2 DEF ReadAt, TypeOK
  <2>3. CASE d # c
    <3>1. c \notin writers[d] /\ orphan'[d] = orphan[d] /\ writers'[d] = writers[d]
      BY <1>a, <2>1, <2>3 DEF ReadAt
    <3> QED BY <1>a, <1>b, <2>1, <2>3, <3>1, ReadFrame
  <2> QED BY <2>2, <2>3
<1>4. CASE DataLast(c)
  <2>1. /\ orphan' = orphan /\ writers' = writers
        /\ pc[c] = "decode" /\ pc'[c] = "write"
        /\ files' = [files EXCEPT ![goingToBeReceived[c]] = <<>>]
        /\ linked' = [linked EXCEPT ![c] = TRUE]
    BY <1>4 DEF DataLast, Receiving, Processing, TypeOK
  <2>2. CASE d = c
    BY <1>a, <2>1, <2>2 DEF ReadAt
  <2>3. CASE d # c
    <3>1. c \notin writers[d]
      BY <1>a, <2>1 DEF ReadAt
    <3>2. \A f \in FileNames : files[f] # NONE => files'[f] # NONE
      <4>1. <<>> \in Seq(Bytes)
        OBVIOUS
      <4>2. <<>> # NONE
        BY <4>1, NameAssumption
      <4> QED BY <2>1, <4>2 DEF TypeOK
    <3>3. \A e \in writers[d] : linked'[e] = linked[e]
      BY <1>a, <2>1, <3>1 DEF TypeOK
    <3> QED BY <1>a, <1>b, <1>c, <2>1, <2>3, <3>1, <3>2, <3>3, ReadFrame
  <2> QED BY <2>2, <2>3
<1>5. CASE DataWrite(c) \/ WriteFails(c)
  <2>1. /\ pc[c] = "write" /\ pc'[c] \notin {"length", "read"}
        /\ linked' = [linked EXCEPT ![c] = FALSE]
        /\ writers'[d] = writers[d] \ {c}
    <3>1. /\ pc[c] = "write" /\ StreamClosed(c)
          /\ pc' = [pc EXCEPT ![c] = "bcast"] \/ pc' = [pc EXCEPT ![c] = "dead"]
      BY <1>5 DEF DataWrite, WriteFails, Die
    <3> QED BY <3>1 DEF StreamClosed, TypeOK
  <2>2. \A f \in FileNames : files[f] # NONE => files'[f] # NONE
    <3>1. CASE files' # files
      <4>1. /\ linked[c] /\ goingToBeReceived[c] \in FileNames
            /\ files' = [files EXCEPT ![goingToBeReceived[c]] =
                            Overlay(Pad(wholeFile[c], accSize[c]), @)]
        BY <1>a, <1>5, <3>1 DEF DataWrite, WriteFails, PcAt, TypeOK
      <4>2. files[goingToBeReceived[c]] \in Seq(Bytes)
        BY <1>a, <4>1 DEF PcAt, TypeOK, MaybeData
      <4>3. Overlay(Pad(wholeFile[c], accSize[c]), files[goingToBeReceived[c]]) \in Seq(Bytes)
        BY <4>2, WriteType DEF TypeOK
      <4> QED BY <4>1, <4>3, NameAssumption DEF TypeOK
    <3> QED BY <3>1
  <2>3. c \notin writers[d] => orphan'[d] = orphan[d]
    BY <1>5 DEF DataWrite, WriteFails, TypeOK
  <2>4. c \in writers[d] => orphan[d] # NONE /\ orphan'[d] # NONE
    <3> SUFFICES ASSUME c \in writers[d] PROVE orphan[d] # NONE /\ orphan'[d] # NONE
      OBVIOUS
    <3>1. orphan[d] \in Seq(Bytes) /\ orphan[d] # NONE
      BY <1>a DEF ReadAt, TypeOK, MaybeData
    <3>2. Overlay(Pad(wholeFile[c], accSize[c]), orphan[d]) \in Seq(Bytes)
      BY <3>1, WriteType DEF TypeOK
    <3> QED BY <1>5, <3>1, <3>2, NameAssumption DEF DataWrite, WriteFails
  <2>5. CASE d = c
    <3>1. c \notin writers[c]
      BY <1>a, <2>1 DEF ReadAt
    <3> QED BY <1>a, <2>1, <2>3, <2>5, <3>1 DEF ReadAt
  <2>6. CASE d # c
    <3>1. \A e \in writers'[d] :
            /\ e \in writers[d] /\ pc'[e] = pc[e] /\ linked'[e] = linked[e]
            /\ goingToBeReceived'[e] = goingToBeReceived[e]
      BY <1>a, <1>b, <2>1
    <3>2. pc'[d] = pc[d] /\ message'[d] = message[d] /\ toDownload'[d] = toDownload[d]
      BY <1>b, <2>6
    <3> QED BY <1>a, <1>c, <2>1, <2>2, <2>3, <2>4, <3>1, <3>2 DEF ReadAt
  <2> QED BY <2>5, <2>6
<1>6. CASE DelrqDelete(c)
  <2> DEFINE f == message[c].file
             open == {e \in Conns : linked[e] /\ goingToBeReceived[e] = f}
  <2>1. /\ pc[c] = "del" /\ pc'[c] = "bcast" /\ f \in FileNames
        /\ files' = [files EXCEPT ![f] = NONE]
        /\ linked' = [e \in Conns |-> linked[e] /\ e \notin open]
        /\ orphan'[d] = IF Reads(d, f) THEN files[f] ELSE orphan[d]
        /\ writers'[d] = IF Reads(d, f) THEN open ELSE writers[d]
    BY <1>a, <1>6 DEF DelrqDelete, PcAt, TypeOK
  <2>2. \A e \in open : /\ e \in Conns /\ e # c /\ pc[e] = "write"
                        /\ goingToBeReceived[e] = f
    BY <2>1 DEF PcOK, PcAt
  <2>3. CASE d = c
    BY <1>a, <2>1, <2>3 DEF ReadAt, Reads
  <2>4. CASE d # c /\ Reads(d, f)
    <3>1. /\ pc[d] \in {"length", "read"} /\ message[d].file = f /\ files[f] # NONE
      BY <1>a, <2>4 DEF Reads, ReadAt
    <3>2. pc'[d] = pc[d] /\ message'[d] = message[d] /\ toDownload'[d] = toDownload[d]
      BY <1>b, <2>4
    <3>3. \A e \in open : /\ pc'[e] = "write" /\ ~linked'[e]
                          /\ goingToBeReceived'[e] = f
      BY <1>b, <2>1, <2>2
    <3> HIDE DEF open
    <3> QED BY <1>a, <2>1, <2>4, <3>1, <3>2, <3>3 DEF ReadAt
  <2>5. CASE d # c /\ ~Reads(d, f)
    <3>1. orphan'[d] = orphan[d] /\ writers'[d] = writers[d]
      BY <2>1, <2>5
    <3>2. pc'[d] = pc[d] /\ message'[d] = message[d] /\ toDownload'[d] = toDownload[d]
      BY <1>b, <2>5
    <3>3. \A e \in writers[d] : /\ pc'[e] = "write" /\ ~linked'[e]
                                /\ goingToBeReceived'[e] = message[d].file
      <4>1. \A e \in writers[d] : /\ e \in Conns /\ e # c /\ pc[e] = "write" /\ ~linked[e]
                                  /\ goingToBeReceived[e] = message[d].file
        BY <1>a, <2>1 DEF ReadAt
      <4> QED BY <1>b, <2>1, <4>1
    <3>4. pc[d] \in {"length", "read"} /\ orphan[d] = NONE =>
            files'[message[d].file] # NONE /\ writers[d] = {}
      <4> SUFFICES ASSUME pc[d] \in {"length", "read"}, orphan[d] = NONE
                   PROVE  files'[message[d].file] # NONE /\ writers[d] = {}
        OBVIOUS
      <4>1. message[d].file # f /\ files[message[d].file] # NONE /\ writers[d] = {}
        BY <1>a, <2>5 DEF Reads, ReadAt
      <4> QED BY <1>c, <2>1, <4>1 DEF TypeOK
    <3> QED BY <1>a, <3>1, <3>2, <3>3, <3>4 DEF ReadAt
  <2> QED BY <2>3, <2>4, <2>5
<1> QED BY <1>1, <1>2, <1>3, <1>4, <1>5, <1>6, DiskSteps DEF DiskStepOf

-----------------------------------------------------------------------------
(* Who is logged in.                                                       *)

\* The actions that change who is logged in, or what a walk over the map finds.
LoginStepOf(c) ==
  \/ LogrqBegin(c) \/ LogrqNext(c) \/ LogrqEnd(c) \/ LogrqPut(c) \/ LogrqAck(c)
  \/ BcastNext(c) \/ IteratorFails(c) \/ DiscBegin(c) \/ DiscNext(c) \/ DiscEnd(c)
  \/ Close(c)

\* Every other action leaves the session and the map of names alone.
Plain(c) ==
  /\ pc[c] \notin {"ack", "disc", "exit", "closed", "dead"}
  /\ pc'[c] \notin {"logrq", "put", "ack", "disc", "deliver", "exit"}
  /\ pc'[c] = "closed" => Eof(c)
  /\ session' = session
  /\ loggedInUsers' = loggedInUsers

\* A step either is one of the actions above or changes nothing of the kind.
LEMMA PlainSteps ==
  ASSUME TypeOK, NEW c \in Conns, Thread(c) \/ Environment(c)
  PROVE  LoginStepOf(c) \/ Plain(c)
<1> SUFFICES ASSUME ~LoginStepOf(c) PROVE Plain(c)
  OBVIOUS
<1> USE DEF Goto, session, TypeOK, Plain, Processing, Receiving
<1>1. CASE LogrqAgain(c) \/ NotLoggedIn(c) \/ Error(c) \/ BcastIn(c)
  BY <1>1 DEF LogrqAgain, NotLoggedIn, Error, BcastIn, Answer
<1>2. CASE Download(c)
  BY <1>2 DEF Download, RrqRefused, RrqFound, RrqOpen, RrqLength, RrqRead, RrqGone,
             AckMore, AckIgnored, Dirq, DirqTooLong, Answer, HandleReadingACK, Die
<1>3. CASE Upload(c)
  BY <1>3 DEF Upload, WrqRefused, WrqAccepted, DataIgnored, DataOversize,
             DataFull, DataLast, DataWrite, Answer
<1>4. CASE Delete(c)
  BY <1>4 DEF Delete, DelrqRefused, DelrqFound, DelrqDelete, Answer
<1>5. CASE BcastDeliver(c) \/ BcastLost(c) \/ BcastEnd(c)
  BY <1>5 DEF BcastDeliver, BcastLost, BcastEnd
<1>6. CASE Accept(c) \/ RunAdd(c) \/ RunPut(c)
  <2>1. /\ pc[c] \in {"idle", "start", "adding"}
        /\ \E l \in {"start", "adding", "listen"} : pc' = [pc EXCEPT ![c] = l]
        /\ UNCHANGED <<session, loggedInUsers>>
    BY <1>6 DEF Accept, RunAdd, RunPut
  <2> QED BY <2>1
<1>7. CASE Eof(c) \/ OpenFails(c) \/ WriteFails(c)
  <2>1. CASE Eof(c)
    BY <2>1 DEF Eof
  <2>2. CASE Die(c) /\ (OpenFails(c) \/ WriteFails(c))
    BY <2>2 DEF OpenFails, WriteFails, Die
  <2> QED BY <1>7, <2>1, <2>2 DEF OpenFails, WriteFails
<1>8. CASE Receive(c)
  <2>1. pc'[c] \in {"decode", "deaf"}
    BY <1>8 DEF Receive
  <2> QED BY <1>8, <2>1 DEF Receive
<1> QED
  BY <1>1, <1>2, <1>3, <1>4, <1>5, <1>6, <1>7, <1>8
  DEF LoginStepOf, Thread, Environment, Login, Broadcast, Other

\* A login that was accepted stays accepted.
LEMMA AcceptedStays ==
  ASSUME TypeOK, NEW c \in Conns, Thread(c) \/ Environment(c),
         NEW d \in Conns, Accepted(d)
  PROVE  Accepted(d)'
<1>1. CASE d # c
  BY <1>1, OthersKept DEF Accepted
<1>2. CASE d = c /\ Plain(c)
  BY <1>2 DEF Accepted, Plain, session
<1>3. CASE d = c /\ LoginStepOf(c)
  BY <1>3 DEF Accepted, LoginStepOf, LogrqBegin, LogrqNext, LogrqEnd, LogrqPut,
             LogrqAck, BcastNext, IteratorFails, DiscBegin, DiscNext, DiscEnd,
             Close, Die, Goto, session, Processing, TypeOK
<1> QED BY <1>1, <1>2, <1>3, PlainSteps

\* A name enters the map by LogrqPut only.
LEMMA EntriesKept ==
  ASSUME TypeOK, NEW c \in Conns, Thread(c) \/ Environment(c),
         NEW u \in DOMAIN loggedInUsers'
  PROVE  \/ u \in DOMAIN loggedInUsers /\ loggedInUsers'[u] = loggedInUsers[u]
         \/ LogrqPut(c) /\ u = message[c].user /\ loggedInUsers'[u] = myId[c]
<1>1. CASE Plain(c)
  BY <1>1 DEF Plain
<1>2. CASE LogrqPut(c)
  <2>1. /\ DOMAIN loggedInUsers' \subseteq DOMAIN loggedInUsers \cup {message[c].user}
        /\ \A v \in DOMAIN loggedInUsers' :
             loggedInUsers'[v] = IF v = message[c].user THEN myId[c] ELSE loggedInUsers[v]
    BY <1>2, PutEntries DEF LogrqPut
  <2> QED BY <1>2, <2>1
<1>3. CASE DiscEnd(c)
  BY <1>3 DEF DiscEnd
<1>4. CASE \/ LogrqBegin(c) \/ LogrqNext(c) \/ LogrqEnd(c) \/ LogrqAck(c)
           \/ BcastNext(c) \/ IteratorFails(c) \/ DiscBegin(c) \/ DiscNext(c)
           \/ Close(c)
  BY <1>4 DEF LogrqBegin, LogrqNext, LogrqEnd, LogrqAck, BcastNext,
             IteratorFails, DiscBegin, DiscNext, Close, Die
<1> QED BY <1>1, <1>2, <1>3, <1>4, PlainSteps DEF LoginStepOf

\* An id that has been given out is never changed.
LEMMA IdKept ==
  ASSUME TypeOK, RouteOK, NEW c \in Conns, Thread(c) \/ Environment(c),
         NEW d \in Conns, myId[d] # 0
  PROVE  myId'[d] = myId[d]
<1>1. CASE d # c
  BY <1>1, OthersKept
<1>2. CASE d = c /\ Accept(c)
  BY <1>2 DEF Accept, RouteOK
<1>3. CASE d = c /\ ~Accept(c)
  <2> USE DEF server
  <2>1. CASE \/ Login(c) \/ Other(c)
    BY <2>1 DEF Login, LogrqAgain, LogrqBegin, LogrqNext, LogrqEnd, LogrqPut,
               LogrqAck, Answer, Other, NotLoggedIn, IteratorFails, Error,
               BcastIn, DiscBegin, DiscNext, DiscEnd, Die
  <2>2. CASE Download(c) \/ Upload(c)
    BY <2>2 DEF Download, RrqRefused, RrqFound, RrqOpen, RrqLength, RrqRead, RrqGone,
               AckMore, AckIgnored, Dirq, DirqTooLong, Answer, HandleReadingACK, Die,
               Upload, WrqRefused, WrqAccepted, DataIgnored, DataOversize,
               DataFull, DataLast, DataWrite
  <2>3. CASE Delete(c) \/ Broadcast(c)
    BY <2>3 DEF Delete, DelrqRefused, DelrqFound, DelrqDelete, Answer,
               Broadcast, BcastNext, BcastDeliver, BcastLost, BcastEnd
  <2>4. CASE \/ RunAdd(c) \/ RunPut(c) \/ Close(c) \/ Receive(c) \/ Eof(c)
             \/ OpenFails(c) \/ WriteFails(c)
    BY <2>4 DEF RunAdd, RunPut, Close, Receive, Eof, OpenFails, WriteFails, Die
  <2> QED BY <1>3, <2>1, <2>2, <2>3, <2>4 DEF Thread, Environment
<1> QED BY <1>1, <1>2, <1>3

\* The login of a thread that does not move.
LEMMA LoginOthers ==
  ASSUME TypeOK, RouteOK, LoginOK, NEW c \in Conns, Thread(c) \/ Environment(c),
         NEW d \in Conns, d # c
  PROVE  LoginAt(d)'
<1>0. LoginAt(d)
  BY DEF LoginOK
<1>1. /\ pc'[d] = pc[d] /\ myId'[d] = myId[d]
      /\ myConnectionState'[d] = myConnectionState[d]
      /\ shouldTerminate'[d] = shouldTerminate[d] /\ nick'[d] = nick[d]
      /\ iter'[d] = iter[d] /\ found'[d] = found[d] /\ dest'[d] = dest[d]
  BY OthersKept
<1>2. Accepted(d)' = Accepted(d)
  BY <1>1 DEF Accepted
<1>3. pc[d] = "disc" =>
        \A u \in DOMAIN loggedInUsers' :
          loggedInUsers'[u] = myId[d] => u \in iter[d] \cup found[d]
  <2> SUFFICES ASSUME pc[d] = "disc", NEW u \in DOMAIN loggedInUsers',
                      loggedInUsers'[u] = myId[d]
               PROVE  u \in iter[d] \cup found[d]
    OBVIOUS
  <2>1. myId[c] # myId[d]
    BY DEF RouteOK
  <2> QED BY <1>0, <2>1, EntriesKept DEF LoginAt
<1>4. pc[d] = "deliver" =>
        \E e \in Conns : myId'[e] = dest[d] /\ dest[d] # 0 /\ Accepted(e)'
  <2> SUFFICES ASSUME pc[d] = "deliver"
               PROVE  \E e \in Conns : myId'[e] = dest[d] /\ dest[d] # 0 /\ Accepted(e)'
    OBVIOUS
  <2>1. PICK e \in Conns : myId[e] = dest[d] /\ dest[d] # 0 /\ Accepted(e)
    BY <1>0 DEF LoginAt
  <2>2. myId'[e] = myId[e]
    BY <2>1, IdKept
  <2> QED BY <2>1, <2>2, AcceptedStays
<1> QED BY <1>0, <1>1, <1>2, <1>3, <1>4 DEF LoginAt

\* A connection's id is in the map under the name it logged in with only.
LEMMA OwnEntry ==
  ASSUME TypeOK, RouteOK, EntryHasOwner, NEW c \in Conns,
         NEW u \in DOMAIN loggedInUsers, loggedInUsers[u] = myId[c]
  PROVE  u = nick[c] /\ myId[c] # 0
<1>1. PICK d \in Conns : loggedInUsers[u] = myId[d] /\ nick[d] = u
  BY DEF EntryHasOwner
<1>2. myId[d] # 0
  BY <1>1 DEF TypeOK, Ids
<1> QED BY <1>1, <1>2 DEF RouteOK

\* LoginAt of the thread that takes the step.
LEMMA LoginOwn ==
  ASSUME TypeOK, PcOK, RouteOK, LoginOK, EntryHasOwner, NEW c \in Conns,
         Thread(c) \/ Environment(c)
  PROVE  LoginAt(c)'
<1>own. \A u \in DOMAIN loggedInUsers : loggedInUsers[u] = myId[c] => u = nick[c]
  BY OwnEntry
<1> USE DEF Goto, session, TypeOK
<1>0. LoginAt(c) /\ PcAt(c)
  BY DEF LoginOK, PcOK
<1>1. CASE Plain(c)
  BY <1>0, <1>1 DEF Plain, LoginAt, Accepted
<1>2. CASE LogrqBegin(c)
  BY <1>0, <1>2 DEF LogrqBegin, LoginAt, Accepted
<1>3. CASE LogrqNext(c)
  <2>1. pc'[c] \in {"logrq", "listen"} /\ pc[c] = "logrq" /\ session' = session
    BY <1>3 DEF LogrqNext
  <2> QED BY <1>0, <2>1 DEF LoginAt, Accepted
<1>4. CASE LogrqEnd(c)
  <2>1. pc'[c] \in {"put", "listen"} /\ pc[c] = "logrq" /\ session' = session
    BY <1>4 DEF LogrqEnd
  <2> QED BY <1>0, <2>1 DEF LoginAt, Accepted
<1>5. CASE LogrqPut(c)
  BY <1>0, <1>5 DEF LogrqPut, LoginAt, Accepted
<1>6. CASE LogrqAck(c)
  BY <1>0, <1>6 DEF LogrqAck, LoginAt, Accepted
<1>7. CASE BcastNext(c)
  <2>1. PICK u \in iter[c] : dest' = [dest EXCEPT ![c] = loggedInUsers[u]]
    BY <1>7 DEF BcastNext
  <2>2. u \in DOMAIN loggedInUsers
    BY <1>0, <1>7 DEF BcastNext, PcAt
  <2>3. PICK d \in Conns : loggedInUsers[u] = myId[d] /\ nick[d] = u
    BY <2>2 DEF EntryHasOwner
  <2>4. Accepted(d) /\ myId[d] # 0
    <3>1. nick[d] # NONE
      BY <2>3, ServerAssumption
    <3> QED BY <2>2, <2>3, <3>1 DEF LoginOK, LoginAt, Ids
  <2>5. Accepted(d)' /\ myId' = myId /\ dest'[c] = myId[d]
    BY <1>7, <2>1, <2>3, <2>4, AcceptedStays DEF BcastNext, server
  <2> QED BY <1>0, <1>7, <2>4, <2>5 DEF BcastNext, LoginAt, Accepted
<1>8. CASE IteratorFails(c)
  BY <1>0, <1>8 DEF IteratorFails, Die, LoginAt, Accepted
<1>9. CASE DiscBegin(c)
  BY <1>0, <1>9 DEF DiscBegin, StartLoop, Processing, LoginAt, Accepted
<1>10. CASE DiscNext(c)
  <2>1. PICK u \in iter[c] :
          /\ iter' = [iter EXCEPT ![c] = @ \ {u}]
          /\ found' = [found EXCEPT ![c] = IF loggedInUsers[u] = myId[c] THEN {u} ELSE @]
    BY <1>10 DEF DiscNext
  <2>2. u \in DOMAIN loggedInUsers
    BY <1>0, <1>10 DEF DiscNext, PcAt
  <2>3. /\ pc' = pc /\ pc[c] = "disc" /\ session' = session
        /\ loggedInUsers' = loggedInUsers /\ myId' = myId
    BY <1>10 DEF DiscNext, server
  <2>4. /\ iter'[c] = iter[c] \ {u}
        /\ found'[c] = IF loggedInUsers[u] = myId[c] THEN {u} ELSE found[c]
    BY <2>1
  <2>5. ASSUME NEW v \in DOMAIN loggedInUsers, loggedInUsers[v] = myId[c]
        PROVE  v \in iter'[c] \cup found'[c]
    <3>1. v \in iter[c] \cup found[c]
      BY <1>0, <2>3, <2>5 DEF LoginAt
    <3>2. CASE loggedInUsers[u] = myId[c]
      <4>1. u = v
        BY <2>2, <2>5, <3>2, <1>own
      <4> QED BY <2>4, <3>2, <4>1
    <3>3. CASE loggedInUsers[u] # myId[c]
      BY <2>4, <2>5, <3>1, <3>3
    <3> QED BY <3>2, <3>3
  <2> QED BY <1>0, <2>3, <2>5 DEF LoginAt, Accepted
<1>11. CASE DiscEnd(c)
  BY <1>0, <1>11 DEF DiscEnd, LoginAt, Accepted
<1>12. CASE Close(c)
  BY <1>0, <1>12 DEF Close, LoginAt, Accepted
<1> QED BY <1>1, <1>2, <1>3, <1>4, <1>5, <1>6, <1>7, <1>8, <1>9, <1>10, <1>11,
           <1>12, PlainSteps DEF LoginStepOf

\* An entry keeps its owner until the owner's DISC has removed it.
LEMMA OwnerStep ==
  ASSUME TypeOK, TypeOK', RouteOK, LoginOK, EntryHasOwner, NEW c \in Conns,
         Thread(c) \/ Environment(c)
  PROVE  EntryHasOwner'
<1> SUFFICES ASSUME NEW u \in DOMAIN loggedInUsers'
             PROVE  \E d \in Conns :
                      /\ loggedInUsers'[u] = myId'[d]
                      /\ nick'[d] = u
                      /\ shouldTerminate'[d] => pc'[d] \notin {"exit", "closed"}
  BY DEF EntryHasOwner
<1> USE DEF Goto, session, server
<1>1. CASE LogrqPut(c) /\ u = message[c].user /\ loggedInUsers'[u] = myId[c]
  BY <1>1 DEF LogrqPut, TypeOK
<1>2. CASE u \in DOMAIN loggedInUsers /\ loggedInUsers'[u] = loggedInUsers[u]
  <2>1. PICK d \in Conns : /\ loggedInUsers[u] = myId[d]
                           /\ nick[d] = u
                           /\ shouldTerminate[d] => pc[d] \notin {"exit", "closed"}
    BY <1>2 DEF EntryHasOwner
  <2>2. myId[d] # 0 /\ nick[d] # NONE
    BY <1>2, <2>1, ServerAssumption DEF TypeOK, Ids
  <2>3. myId'[d] = myId[d]
    BY <2>2, IdKept
  <2>4. CASE d # c
    BY <1>2, <2>1, <2>3, <2>4, OthersKept
  <2>5. CASE d = c
    <3>1. LoginAt(c)
      BY DEF LoginOK
    <3>2. CASE Plain(c)
      BY <1>2, <2>1, <2>3, <2>5, <3>1, <3>2 DEF Plain, Eof, LoginAt
    <3>3. CASE LogrqPut(c)
      BY <2>1, <2>2, <2>5, <3>1, <3>3 DEF LogrqPut, LoginAt, Accepted
    <3>4. CASE DiscEnd(c)
      BY <1>2, <2>1, <2>5, <3>1, <3>4 DEF DiscEnd, LoginAt
    <3>5. CASE Close(c)
      BY <1>2, <2>1, <2>3, <2>5, <3>5 DEF Close, TypeOK
    <3>6. CASE LogrqBegin(c) \/ LogrqNext(c) \/ LogrqEnd(c) \/ LogrqAck(c)
      <4>1. /\ pc'[c] \in {"logrq", "put", "listen"} /\ nick' = nick
        <5>1. CASE LogrqBegin(c)
          BY <5>1 DEF LogrqBegin, TypeOK
        <5>2. CASE LogrqNext(c)
          BY <5>2 DEF LogrqNext, TypeOK
        <5>3. CASE LogrqEnd(c)
          BY <5>3 DEF LogrqEnd, TypeOK
        <5>4. CASE LogrqAck(c)
          BY <5>4 DEF LogrqAck, TypeOK
        <5> QED BY <3>6, <5>1, <5>2, <5>3, <5>4
      <4> QED BY <1>2, <2>1, <2>3, <2>5, <4>1
    <3>7. CASE BcastNext(c) \/ IteratorFails(c) \/ DiscBegin(c) \/ DiscNext(c)
      <4>1. /\ pc'[c] \in {"deliver", "dead", "disc"} /\ nick' = nick
        <5>1. CASE BcastNext(c)
          BY <5>1 DEF BcastNext, TypeOK
        <5>2. CASE IteratorFails(c)
          BY <5>2 DEF IteratorFails, Die, TypeOK
        <5>3. CASE DiscBegin(c)
          BY <5>3 DEF DiscBegin, TypeOK
        <5>4. CASE DiscNext(c)
          BY <5>4 DEF DiscNext, TypeOK
        <5> QED BY <3>7, <5>1, <5>2, <5>3, <5>4
      <4> QED BY <1>2, <2>1, <2>3, <2>5, <4>1
    <3> QED BY <3>2, <3>3, <3>4, <3>5, <3>6, <3>7, PlainSteps DEF LoginStepOf
  <2> QED BY <2>4, <2>5
<1> QED BY <1>1, <1>2, EntriesKept

\* No step sends a BCAST to a client that is not logged in.
LEMMA BcastStep ==
  ASSUME TypeOK, PcOK, RouteOK, LoginOK, BcastNeedsLogin, NEW c \in Conns,
         Thread(c) \/ Environment(c)
  PROVE  BcastNeedsLogin'
<1> SUFFICES ASSUME NEW d \in Conns, NEW i \in 1 .. Len(out'[d]),
                    IsBcast(out'[d][i])
             PROVE  Accepted(d)'
  BY DEF BcastNeedsLogin, IsBcast
<1>0. CASE i \in 1 .. Len(out[d]) /\ out'[d][i] = out[d][i]
  <2>1. Accepted(d)
    BY <1>0 DEF BcastNeedsLogin, IsBcast
  <2> QED BY <2>1, AcceptedStays
<1>1. CASE out' = out
  BY <1>0, <1>1
<1>2. CASE out' = [out EXCEPT ![c] = <<>>]
  <2>1. d # c /\ out'[d] = out[d]
    BY <1>2 DEF TypeOK
  <2> QED BY <1>0, <2>1
<1>3. ASSUME NEW pkts \in Seq(Packet), Answering(c, pkts)
      PROVE  Accepted(d)'
  <2>1. CASE \E k \in 1 .. Len(pkts) : out'[d][i] = [from |-> c, pkt |-> pkts[k]]
    BY <1>3, <2>1 DEF Answering, IsBcast
  <2>2. Send(c, myId[c], pkts)
    BY <1>3 DEF Answering
  <2>3. \/ i \in 1 .. Len(out[d]) /\ out'[d][i] = out[d][i]
        \/ \E k \in 1 .. Len(pkts) : out'[d][i] = [from |-> c, pkt |-> pkts[k]]
    BY <2>2, SendEntries
  <2> QED BY <1>0, <2>1, <2>3
<1>4. CASE pc[c] = "deliver" /\ Send(c, dest[c], <<BcastSent(c)>>)
  <2>1. \/ i \in 1 .. Len(out[d]) /\ out'[d][i] = out[d][i]
        \/ dest[c] \in DOMAIN connectionsQueue /\ d = connectionsQueue[dest[c]]
    <3> DEFINE b == <<BcastSent(c)>>
    <3>1. b \in Seq(Packet) /\ Send(c, dest[c], b)
      BY <1>4, BcastType
    <3> HIDE DEF b
    <3> QED BY <3>1, SendEntries
  <2>2. CASE dest[c] \in DOMAIN connectionsQueue /\ d = connectionsQueue[dest[c]]
    <3>1. PICK e \in Conns : myId[e] = dest[c] /\ dest[c] # 0 /\ Accepted(e)
      BY <1>4 DEF LoginOK, LoginAt
    <3>2. d = e
      BY <2>2, <3>1 DEF RouteOK
    <3> QED BY <3>1, <3>2, AcceptedStays
  <2> QED BY <1>0, <2>1, <2>2
<1> QED BY <1>1, <1>2, <1>3, <1>4, Outputs DEF Output

-----------------------------------------------------------------------------
(* Uploads.                                                                *)

\* accSize counts at least the bytes that have been collected.
LEMMA AssembleStep ==
  ASSUME TypeOK, PcOK, AssembleFits, NEW c \in Conns, Thread(c) \/ Environment(c)
  PROVE  AssembleFits'
<1> USE DEF upload, TypeOK, AssembleFits
<1>1. CASE DataFull(c) \/ DataLast(c)
  <2>1. /\ wholeFile' = [wholeFile EXCEPT ![c] = @ \o message[c].data]
        /\ accSize' = [accSize EXCEPT ![c] = @ + Len(message[c].data)]
    BY <1>1 DEF DataFull, DataLast
  <2>2. message[c].data \in Seq(Bytes)
    BY <1>1, RequestFields DEF DataFull, DataLast, Receiving, Processing, PcOK, PcAt
  <2> QED BY <2>1, <2>2
<1>2. CASE WrqAccepted(c) \/ Error(c) \/ DataOversize(c) \/ DataWrite(c)
  <2> SUFFICES ASSUME NEW d \in Conns PROVE Len(wholeFile'[d]) <= accSize'[d]
    OBVIOUS
  <2>1. /\ accSize'[d] \in {0, accSize[d]}
        /\ \/ wholeFile'[d] = <<>>
           \/ wholeFile'[d] = wholeFile[d] /\ accSize'[d] = accSize[d]
    BY <1>2 DEF WrqAccepted, Error, DataOversize, DataWrite
  <2>2. Len(<<>>) = 0 /\ accSize[d] \in Nat /\ Len(wholeFile[d]) <= accSize[d]
    OBVIOUS
  <2>3. CASE wholeFile'[d] = <<>>
    BY <2>1, <2>2, <2>3
  <2> QED BY <2>1, <2>2, <2>3
<1>3. CASE UNCHANGED <<wholeFile, accSize>>
  BY <1>3
<1>4. \/ DataFull(c) \/ DataLast(c) \/ WrqAccepted(c) \/ Error(c)
      \/ DataOversize(c) \/ DataWrite(c) \/ UNCHANGED <<wholeFile, accSize>>
  <2>1. CASE Login(c) \/ Download(c)
    BY <2>1 DEF Login, LogrqAgain, LogrqBegin, LogrqNext, LogrqEnd, LogrqPut,
               LogrqAck, Answer, Download, RrqRefused, RrqFound, RrqOpen, RrqLength, RrqRead,
               RrqGone, AckMore, AckIgnored, Dirq, DirqTooLong, HandleReadingACK, Die
  <2>2. CASE Upload(c) \/ Delete(c)
    BY <2>2 DEF Upload, WrqRefused, DataIgnored, Delete, DelrqRefused, DelrqFound,
               DelrqDelete, Answer
  <2>3. CASE Broadcast(c) \/ Other(c)
    BY <2>3 DEF Broadcast, BcastNext, BcastDeliver, BcastLost, BcastEnd, Other,
               NotLoggedIn, IteratorFails, BcastIn, DiscBegin, DiscNext, DiscEnd,
               Answer, Die
  <2>4. CASE RunAdd(c) \/ RunPut(c) \/ Close(c) \/ Environment(c)
    BY <2>4 DEF RunAdd, RunPut, Close, Environment, Accept, Receive, Eof,
               OpenFails, WriteFails, Die
  <2> QED BY <2>1, <2>2, <2>3, <2>4 DEF Thread
<1> QED BY <1>1, <1>2, <1>3, <1>4

-----------------------------------------------------------------------------
(* Answers.                                                                *)

\* A step changes the registry, and the request at hand, where it should.
LEMMA ServerKept ==
  ASSUME NEW c \in Conns, Thread(c) \/ Environment(c)
  PROVE  /\ Accept(c) \/ RunPut(c) \/ server' = server
         /\ Receive(c) \/ (message' = message /\ due' = due)
<1> USE DEF server, input
<1>1. CASE Login(c) \/ Other(c)
  BY <1>1 DEF Login, LogrqAgain, LogrqBegin, LogrqNext, LogrqEnd, LogrqPut,
             LogrqAck, Answer, Other, NotLoggedIn, IteratorFails, Error,
             BcastIn, DiscBegin, DiscNext, DiscEnd, Die
<1>2. CASE Download(c) \/ Upload(c)
  BY <1>2 DEF Download, RrqRefused, RrqFound, RrqOpen, RrqLength, RrqRead, RrqGone,
             AckMore, AckIgnored, Dirq, DirqTooLong, Answer, HandleReadingACK, Die,
             Upload, WrqRefused, WrqAccepted, DataIgnored, DataOversize,
             DataFull, DataLast, DataWrite
<1>3. CASE Delete(c) \/ Broadcast(c)
  BY <1>3 DEF Delete, DelrqRefused, DelrqFound, DelrqDelete, Answer,
             Broadcast, BcastNext, BcastDeliver, BcastLost, BcastEnd
<1>4. CASE \/ Accept(c) \/ RunAdd(c) \/ RunPut(c) \/ Close(c) \/ Receive(c) \/ Eof(c)
           \/ OpenFails(c) \/ WriteFails(c)
  BY <1>4 DEF Accept, RunAdd, RunPut, Close, Receive, Eof, OpenFails, WriteFails, Die
<1> QED BY <1>1, <1>2, <1>3, <1>4 DEF Thread, Environment

\* A connection does not come back to the registry.
LEMMA RegisteredBefore ==
  ASSUME TypeOK, RouteOK, NEW c \in Conns, Thread(c) \/ Environment(c),
         NEW d \in Conns, d # c, Registered(d)'
  PROVE  Registered(d)
<1>1. myId'[d] = myId[d]
  BY OthersKept
<1>2. CASE Accept(c)
  BY <1>1, <1>2 DEF Accept, Registered
<1>3. CASE RunPut(c)
  <2>1. DOMAIN connectionsQueue' \subseteq DOMAIN connectionsQueue \cup {myId[c]}
    BY <1>3, PutEntries DEF RunPut
  <2>2. myId[c] # 0
    BY <1>3 DEF RunPut, RouteOK
  <2> QED BY <1>1, <2>1, <2>2 DEF Registered, RouteOK
<1>4. CASE server' = server
  BY <1>1, <1>4 DEF Registered, server
<1> QED BY <1>2, <1>3, <1>4, ServerKept

\* A broadcast adds no answer to any output.
LEMMA BcastAnswers ==
  ASSUME TypeOK, PcOK, NEW c \in Conns, pc[c] = "deliver",
         Send(c, dest[c], <<BcastSent(c)>>), NEW d \in Conns
  PROVE  /\ Answers(d)' = Answers(d)
         /\ \A i \in Answers(d) : out'[d][i] = out[d][i]
<1> DEFINE E == [from : Conns, pkt : Packet]
           b == [from |-> c, pkt |-> BcastSent(c)]
<1>1. <<BcastSent(c)>> \in Seq(Packet) /\ BcastSent(c) \in Packet
  BY BcastType
<1>2. b \in E /\ IsBcast(b)
  BY <1>1 DEF IsBcast, BcastSent, BCastPacket
<1>3. out'[d] = out[d] \/ out'[d] = Append(out[d], b)
  <2>1. CASE out' = out
    BY <2>1
  <2>2. CASE out' # out
    <3>1. /\ connectionsQueue[dest[c]] \in Conns
          /\ out' = [out EXCEPT ![connectionsQueue[dest[c]]] =
               @ \o [i \in 1 .. 1 |-> [from |-> c, pkt |-> <<BcastSent(c)>>[i]]]]
      BY <2>2 DEF Send, TypeOK
    <3>2. [i \in 1 .. 1 |-> [from |-> c, pkt |-> <<BcastSent(c)>>[i]]] = <<b>>
      OBVIOUS
    <3>3. CASE connectionsQueue[dest[c]] = d
      <4>1. out[d] \in Seq(E)
        BY DEF TypeOK
      <4>2. out'[d] = out[d] \o <<b>>
        BY <3>1, <3>2, <3>3 DEF TypeOK
      <4> QED BY <1>2, <4>1, <4>2
    <3> QED BY <3>1, <3>3 DEF TypeOK
  <2> QED BY <2>1, <2>2
<1>4. CASE out'[d] = Append(out[d], b)
  <2>1. out[d] \in Seq(E)
    BY DEF TypeOK
  <2> HIDE DEF b, E
  <2>2. /\ Len(out'[d]) = Len(out[d]) + 1
        /\ \A i \in 1 .. Len(out[d]) : out'[d][i] = out[d][i]
        /\ out'[d][Len(out[d]) + 1] = b
        /\ Len(out[d]) \in Nat
    BY <1>2, <1>4, <2>1, AppendProperties
  <2> QED BY <1>2, <2>2 DEF Answers, IsBcast
<1>5. CASE out'[d] = out[d]
  BY <1>5 DEF Answers, IsBcast
<1> QED BY <1>3, <1>4, <1>5

\* A step of thread c adds no answer to the output of another connection, and
\* changes nothing of what its request has come to.
LEMMA OthersAnswers ==
  ASSUME TypeOK, PcOK, RouteOK, NEW c \in Conns, Thread(c) \/ Environment(c),
         NEW d \in Conns, d # c
  PROVE  /\ Answers(d)' = Answers(d)
         /\ \A i \in Answers(d) : out'[d][i] = out[d][i]
<1>1. CASE out'[d] = out[d]
  BY <1>1 DEF Answers, IsBcast
<1>2. CASE \E pkts \in Seq(Packet) : Answering(c, pkts)
  <2>1. PICK pkts \in Seq(Packet) : Answering(c, pkts)
    BY <1>2
  <2>2. myId[c] \in DOMAIN connectionsQueue => connectionsQueue[myId[c]] = c
    BY <2>1 DEF Answering, RouteOK, TypeOK
  <2>3. out'[d] = out[d]
    BY <2>1, <2>2 DEF Answering, Send, TypeOK
  <2> QED BY <1>1, <2>3
<1>3. CASE pc[c] = "deliver" /\ Send(c, dest[c], <<BcastSent(c)>>)
  BY <1>3, BcastAnswers
<1>4. CASE out' = [out EXCEPT ![c] = <<>>]
  BY <1>1, <1>4 DEF TypeOK
<1> QED BY <1>1, <1>2, <1>3, <1>4, Outputs DEF Output

\* What thread c does, ReplyAt of another connection does not see.
LEMMA ReplyOthers ==
  ASSUME TypeOK, PcOK, RouteOK, ReplyOK, NEW c \in Conns,
         Thread(c) \/ Environment(c), NEW d \in Conns, d # c
  PROVE  ReplyAt(d)'
<1>0. ReplyAt(d)
  BY DEF ReplyOK
<1>1. /\ pc'[d] = pc[d] /\ myId'[d] = myId[d] /\ iter'[d] = iter[d]
      /\ found'[d] = found[d] /\ myConnectionState'[d] = myConnectionState[d]
  BY OthersKept
<1>2. /\ message'[d] = message[d] /\ due'[d] = due[d] /\ Due(d)' = Due(d)
  BY OthersKept DEF Due
<1>3. /\ Answers(d)' = Answers(d)
      /\ \A i \in Answers(d) : out'[d][i] = out[d][i]
  BY OthersAnswers
<1>4. OneAnswer(d)' = OneAnswer(d) /\ TwoBlocks(d)' = TwoBlocks(d)
  BY <1>3 DEF OneAnswer, TwoBlocks
<1>5. Acknowledged(d)' = Acknowledged(d) /\ Answered(d)' = Answered(d)
  <2>1. Acknowledged(d)' = Acknowledged(d)
    BY <1>2, <1>3 DEF Acknowledged
  <2>2. Silent(d)' = Silent(d)
    BY <1>1, <1>2 DEF Silent
  <2> QED BY <1>1, <1>2, <1>3, <1>4, <2>1, <2>2 DEF Answered
<1>6. Registered(d)' => Registered(d)
  BY RegisteredBefore
<1> QED BY <1>0, <1>1, <1>2, <1>3, <1>4, <1>5, <1>6 DEF ReplyAt

\* What a thread sends itself is all it has answered with.
LEMMA OwnAnswers ==
  ASSUME TypeOK, RouteOK, NEW c \in Conns, NEW pkts \in Seq(Packet),
         \A k \in 1 .. Len(pkts) : pkts[k].op # "BCAST",
         Send(c, myId[c], pkts), IsOpen(c), Registered(c), Answers(c) = {}
  PROVE  /\ Len(out[c]) \in Nat
         /\ Answers(c)' = Len(out[c]) + 1 .. Len(out[c]) + Len(pkts)
         /\ \A k \in 1 .. Len(pkts) : out'[c][Len(out[c]) + k].pkt = pkts[k]
<1> DEFINE E == [from : Conns, pkt : Packet]
           e == [k \in 1 .. Len(pkts) |-> [from |-> c, pkt |-> pkts[k]]]
<1>1. connectionsQueue[myId[c]] = c
  <2>1. connectionsQueue[myId[c]] \in Conns /\ myId[connectionsQueue[myId[c]]] = myId[c]
    BY DEF TypeOK, RouteOK, Registered
  <2>2. myId[c] # 0
    BY DEF RouteOK, IsOpen
  <2> QED BY <2>1, <2>2 DEF RouteOK
<1>2. out'[c] = out[c] \o e
  <2>1. out' = [out EXCEPT ![c] = @ \o e]
    BY <1>1 DEF Send, Registered
  <2>2. c \in DOMAIN out
    BY DEF TypeOK
  <2> HIDE DEF e
  <2> QED BY <2>1, <2>2
<1>3. e \in Seq(E)
  OBVIOUS
<1>a. Len(e) = Len(pkts) /\ Len(pkts) \in Nat
      /\ \A k \in 1 .. Len(pkts) : e[k].pkt = pkts[k]
  OBVIOUS
<1>4. out[c] \in Seq(E)
  BY DEF TypeOK
<1> HIDE DEF e, E
<1>b. Len(out[c]) \in Nat
  BY <1>4
<1>5. /\ Len(out[c] \o e) = Len(out[c]) + Len(e)
      /\ \A k \in 1 .. Len(out[c]) + Len(e) :
           (out[c] \o e)[k] = IF k <= Len(out[c]) THEN out[c][k]
                                                  ELSE e[k - Len(out[c])]
  BY <1>3, <1>4, ConcatProperties, Zenon
<1>6. /\ Len(out'[c]) = Len(out[c]) + Len(pkts)
      /\ \A k \in 1 .. Len(out[c]) : out'[c][k] = out[c][k]
      /\ \A k \in 1 .. Len(pkts) : out'[c][Len(out[c]) + k] = e[k]
  BY <1>2, <1>a, <1>b, <1>5
<1>7. \A k \in 1 .. Len(pkts) : out'[c][Len(out[c]) + k].pkt = pkts[k]
  BY <1>a, <1>6
<1>8. \A k \in Len(out[c]) + 1 .. Len(out[c]) + Len(pkts) : ~IsBcast(out'[c][k])
  <2> TAKE k \in Len(out[c]) + 1 .. Len(out[c]) + Len(pkts)
  <2>1. k - Len(out[c]) \in 1 .. Len(pkts) /\ k = Len(out[c]) + (k - Len(out[c]))
    BY <1>a, <1>b
  <2> QED BY <1>7, <2>1 DEF IsBcast
<1>9. \A k \in 1 .. Len(out[c]) : IsBcast(out[c][k])
  BY DEF Answers
<1>10. Answers(c)' = Len(out[c]) + 1 .. Len(out[c]) + Len(pkts)
  <2> DEFINE n == Len(out[c])
             m == Len(pkts)
  <2>1. Answers(c)' = {k \in 1 .. n + m : ~IsBcast(out'[c][k])}
    BY <1>6 DEF Answers, IsBcast
  <2>2. \A k \in 1 .. n : IsBcast(out'[c][k])
    BY <1>6, <1>9
  <2> HIDE DEF n, m
  <2>3. n \in Nat /\ m \in Nat
    BY <1>a, <1>b DEF n, m
  <2>4. \A k \in n + 1 .. n + m : ~IsBcast(out'[c][k])
    BY <1>8 DEF n, m
  <2>5. \A k : k \in Answers(c)' <=> k \in n + 1 .. n + m
    <3> TAKE k
    <3> HIDE DEF IsBcast
    <3>1. k \in 1 .. n + m <=> k \in 1 .. n \/ k \in n + 1 .. n + m
      BY <2>3
    <3>2. ~(k \in 1 .. n /\ k \in n + 1 .. n + m)
      BY <2>3
    <3> QED BY <2>1, <2>2, <2>4, <3>1, <3>2
  <2> QED BY <2>5 DEF n, m
<1> QED BY <1>b, <1>7, <1>10

\* One packet sent is one answer.
LEMMA ReplyOnce ==
  ASSUME TypeOK, RouteOK, NEW c \in Conns, NEW pkt \in Packet, pkt.op # "BCAST",
         Reply(c, pkt), IsOpen(c), Registered(c), Answers(c) = {}
  PROVE  /\ OneAnswer(c)'
         /\ message' = message /\ pkt = AckPacket(message[c].block) => Acknowledged(c)'
<1> DEFINE pkts == <<pkt>>
<1>1. /\ pkts \in Seq(Packet) /\ Len(pkts) = 1 /\ Send(c, myId[c], pkts)
      /\ \A k \in 1 .. Len(pkts) : pkts[k].op # "BCAST"
      /\ pkts[1] = pkt
  BY DEF Reply
<1> HIDE DEF pkts
<1>2. /\ Len(out[c]) \in Nat
      /\ Answers(c)' = Len(out[c]) + 1 .. Len(out[c]) + 1
      /\ out'[c][Len(out[c]) + 1].pkt = pkt
  <2>1. 1 \in 1 .. Len(pkts)
    BY <1>1
  <2> QED BY <1>1, <2>1, OwnAnswers
<1>3. Answers(c)' = {Len(out[c]) + 1}
  BY <1>2
<1> QED BY <1>2, <1>3 DEF OneAnswer, Acknowledged

\* A call of handleReadingACK sends one block, or a full one and the last.
LEMMA ReadingOnce ==
  ASSUME TypeOK, RouteOK, NEW c \in Conns, NEW buf \in Seq(Bytes),
         HandleReadingACK(c, buf), IsOpen(c), Registered(c), Answers(c) = {}
  PROVE  OneAnswer(c)' \/ TwoBlocks(c)'
<1> DEFINE pkts == BlocksOf(buf, blockNum[c])
<1>1. blockNum[c] \in BlockNum
  BY DEF TypeOK
<1>2. pkts \in Seq(Packet) /\ Send(c, myId[c], pkts)
  BY <1>1, BlocksType DEF HandleReadingACK
<1>3. \A k \in 1 .. Len(pkts) : pkts[k].op # "BCAST"
  BY DEF BlocksOf, DataPacket
<1>4. \/ Len(pkts) = 1
      \/ /\ Len(pkts) = 2
         /\ pkts[1].op = "DATA" /\ Len(pkts[1].data) = BlockSize
         /\ pkts[2].op = "DATA" /\ Len(pkts[2].data) < BlockSize
  BY BlockAssumption, Cuts DEF BlocksOf, DataPacket
<1> HIDE DEF pkts
<1>5. /\ Len(out[c]) \in Nat
      /\ Answers(c)' = Len(out[c]) + 1 .. Len(out[c]) + Len(pkts)
      /\ \A k \in 1 .. Len(pkts) : out'[c][Len(out[c]) + k].pkt = pkts[k]
  BY <1>2, <1>3, OwnAnswers
<1>6. CASE Len(pkts) = 1
  <2>1. Answers(c)' = {Len(out[c]) + 1}
    BY <1>5, <1>6
  <2> QED BY <2>1 DEF OneAnswer
<1>7. CASE Len(pkts) # 1
  <2> DEFINE i == Len(out[c]) + 1
             j == Len(out[c]) + 2
  <2>1. Answers(c)' = {i, j} /\ i < j
    <3>1. Len(pkts) = 2
      BY <1>4, <1>7
    <3>2. Len(out[c]) + 1 .. Len(out[c]) + 2 = {i, j} /\ i < j
      BY <1>5
    <3> QED BY <1>5, <3>1, <3>2
  <2>2. out'[c][i].pkt = pkts[1] /\ out'[c][j].pkt = pkts[2]
    BY <1>4, <1>5, <1>7
  <2> HIDE DEF i, j
  <2> QED BY <1>4, <1>7, <2>1, <2>2 DEF TwoBlocks
<1> QED BY <1>6, <1>7

\* The answer pkt settles the request of thread c.
Settles(c, pkt) ==
  /\ pkt \in Packet /\ pkt.op # "BCAST" /\ Reply(c, pkt)
  /\ ~Silent(c)'
  /\ message[c].op = "DATA" /\ myConnectionState'[c] /\ Len(message[c].data) <= BlockSize
     => pkt = AckPacket(message[c].block)

\* A command that is answered with a packet when it is done.
LEMMA AnswerReply ==
  ASSUME TypeOK, RouteOK, ReplyOK, NEW c \in Conns, NEW pkt, Settles(c, pkt),
         message' = message, pc[c] = "decode", pc'[c] = "listen",
         Registered(c)' => Registered(c)
  PROVE  ReplyAt(c)'
<1>1. Answers(c) = {} /\ IsOpen(c)
  BY DEF ReplyOK, ReplyAt, IsOpen
<1>2. ASSUME Registered(c)'
      PROVE  /\ OneAnswer(c)'
             /\ pkt = AckPacket(message[c].block) => Acknowledged(c)'
  BY <1>1, <1>2, ReplyOnce DEF Settles
<1>3. Registered(c)' => Answered(c)'
  BY <1>2 DEF Settles, Answered
<1> QED BY <1>3 DEF ReplyAt

\* ReplyAt of the thread that takes the step.
LEMMA ReplyOwn ==
  ASSUME TypeOK, PcOK, RouteOK, ReplyOK, NEW c \in Conns,
         Thread(c) \/ Environment(c)
  PROVE  ReplyAt(c)'
<1> USE DEF Goto, TypeOK
<1>0. ReplyAt(c) /\ PcAt(c)
  BY DEF ReplyOK, PcOK
<1>1. message[c] \in Request => message[c] # NONE
  BY ServerAssumption
<1>2. ASSUME out'[c] = out[c]
      PROVE  /\ Answers(c)' = Answers(c)
             /\ OneAnswer(c)' = OneAnswer(c) /\ TwoBlocks(c)' = TwoBlocks(c)
  BY <1>2 DEF Answers, OneAnswer, TwoBlocks, IsBcast
<1>a. ASSUME out'[c] = out[c], message'[c] = message[c]
      PROVE  Acknowledged(c)' = Acknowledged(c)
  BY <1>a, <1>2 DEF Acknowledged
<1>b. pc[c] = "decode" => due[c] = Due(c)
  BY <1>0 DEF ReplyAt
<1>3. CASE Accept(c) \/ RunAdd(c)
  <2>1. pc[c] \in {"idle", "start"} /\ pc'[c] \in {"start", "adding"}
    BY <1>3 DEF Accept, RunAdd
  <2>2. message'[c] = NONE
    BY <1>0, <1>3, <2>1 DEF Accept, RunAdd, ReplyAt, input
  <2> QED BY <2>1, <2>2 DEF ReplyAt
<1>4. CASE RunPut(c)
  BY <1>0, <1>4 DEF RunPut, ReplyAt, input
<1>5. CASE Receive(c)
  <2>1. out'[c] = <<>> /\ pc'[c] \in {"decode", "deaf"}
    BY <1>5 DEF Receive
  <2>2. Answers(c)' = {}
    BY <2>1 DEF Answers
  <2>3. due'[c] = Due(c) /\ Due(c)' = Due(c)
    BY <1>5 DEF Receive, Due, upload, download
  <2> QED BY <2>1, <2>2, <2>3 DEF ReplyAt
<1>6. CASE \/ Eof(c) \/ Close(c) \/ RrqGone(c) \/ DirqTooLong(c) \/ OpenFails(c)
           \/ WriteFails(c) \/ IteratorFails(c)
  <2>1. pc'[c] \in {"closed", "dead"}
    BY <1>6 DEF Eof, Close, RrqGone, DirqTooLong, OpenFails, WriteFails,
                IteratorFails, Die
  <2> QED BY <2>1 DEF ReplyAt
<1> SUFFICES ASSUME ~Accept(c), ~RunPut(c), ~Receive(c) PROVE ReplyAt(c)'
  BY <1>3, <1>4, <1>5
<1>7. server' = server /\ message' = message /\ due' = due
  BY ServerKept
<1>8. Registered(c)' = Registered(c)
  BY <1>7 DEF Registered, server
<1>9. CASE \/ LogrqBegin(c) \/ RrqFound(c) \/ RrqOpen(c) \/ RrqLength(c) \/ DataLast(c)
           \/ DelrqFound(c) \/ DiscBegin(c) \/ LogrqPut(c)
  <2>1. /\ out' = out /\ pc[c] \in {"decode", "put", "rrq", "length"}
        /\ \/ pc'[c] \in {"rrq", "length", "read", "del", "ack"}
           \/ pc'[c] = "write" /\ "DATA" \in due[c]
           \/ pc'[c] = "logrq" /\ found'[c] = {}
           \/ pc'[c] = "disc" /\ message[c].op = "DISC"
    BY <1>9, <1>b DEF LogrqBegin, RrqFound, RrqOpen, RrqLength, DataLast, DelrqFound,
               DiscBegin, LogrqPut, StartLoop, Processing, Receiving, Due
  <2> QED BY <1>0, <1>2, <1>7, <2>1 DEF ReplyAt
<1>10. CASE DataIgnored(c) \/ AckIgnored(c) \/ Error(c)
  <2>1. /\ out' = out /\ pc[c] = "decode" /\ pc'[c] = "listen"
        /\ message[c].op \in {"ERROR"} \cup ({"DATA", "ACK"} \ due[c])
        /\ myConnectionState'[c]
    <3>1. CASE DataIgnored(c)
      BY <1>b, <3>1 DEF DataIgnored, Processing, Due, session
    <3>2. CASE AckIgnored(c)
      BY <1>b, <3>2 DEF AckIgnored, Processing, Due, session
    <3>3. CASE Error(c)
      BY <3>3 DEF Error, Processing, session
    <3> QED BY <1>10, <3>1, <3>2, <3>3
  <2>2. Silent(c)' /\ Answers(c)' = {}
    BY <1>0, <1>2, <1>7, <2>1 DEF ReplyAt, Silent
  <2> QED BY <2>1, <2>2 DEF ReplyAt, Answered
<1>11. CASE \/ NotLoggedIn(c) \/ LogrqAgain(c) \/ RrqRefused(c) \/ Dirq(c)
            \/ WrqRefused(c) \/ WrqAccepted(c) \/ DataOversize(c) \/ DataFull(c)
            \/ DelrqRefused(c) \/ BcastIn(c)
  <2>1. pc[c] = "decode" /\ pc'[c] = "listen"
    BY <1>11 DEF NotLoggedIn, LogrqAgain, RrqRefused, Dirq, WrqRefused, WrqAccepted,
                DataOversize, DataFull, DelrqRefused, BcastIn, Answer, Processing,
                Receiving
  <2>2. \E pkt : Settles(c, pkt)
    <3>1. /\ \A code : ErrorPacket(code).op # "BCAST"
          /\ \A n : AckPacket(n).op # "BCAST"
          /\ \A S : ListPacket(S).op # "BCAST"
      BY DEF ErrorPacket, AckPacket, ListPacket
    <3>2. message[c] \in Request
      BY <1>0, <2>1 DEF PcAt
    <3>3. ASSUME NEW pkt \in Packet, pkt.op # "BCAST", Reply(c, pkt),
                 message[c].op \notin {"DATA", "ACK", "ERROR"}
          PROVE  Settles(c, pkt)
      BY <1>7, <3>3 DEF Settles, Silent
    <3>4. CASE NotLoggedIn(c)
      <4>1. Reply(c, ErrorPacket(6)) /\ ~myConnectionState'[c]
        BY <3>4 DEF NotLoggedIn, session
      <4>2. ErrorPacket(6) \in Packet
        BY PacketTypes
      <4> QED BY <3>1, <4>1, <4>2 DEF Settles, Silent
    <3>5. CASE DataFull(c)
      <4>1. /\ Reply(c, AckPacket(message[c].block)) /\ message[c].op = "DATA"
            /\ "DATA" \in due[c]
        BY <1>b, <3>5 DEF DataFull, Answer, Receiving, Processing, Due
      <4>2. AckPacket(message[c].block) \in Packet
        BY <3>2, <4>1, RequestFields, PacketTypes
      <4> QED BY <1>7, <3>1, <4>1, <4>2 DEF Settles, Silent
    <3>6. CASE DataOversize(c)
      <4>1. /\ Reply(c, ErrorPacket(0)) /\ message[c].op = "DATA"
            /\ "DATA" \in due[c] /\ Len(message[c].data) > BlockSize
        BY <1>b, <3>6 DEF DataOversize, Answer, Receiving, Processing, Due
      <4>2. ErrorPacket(0) \in Packet
        BY PacketTypes
      <4>3. ~(Len(message[c].data) <= BlockSize)
        <5>1. message[c].data \in Seq(Bytes)
          BY <3>2, <4>1, RequestFields
        <5>2. Len(message[c].data) \in Nat
          BY <5>1
        <5> QED BY <4>1, <5>2, BlockAssumption
      <4> QED BY <1>7, <3>1, <4>1, <4>2, <4>3 DEF Settles, Silent
    <3>7. CASE WrqAccepted(c)
      BY <3>1, <3>3, <3>7, BlockNumbers, PacketTypes DEF WrqAccepted, Answer, Processing
    <3>8. CASE Dirq(c)
      <4>1. ListPacket(OnDisk) \in Packet
        BY PacketTypes DEF OnDisk
      <4> QED BY <3>1, <3>3, <3>8, <4>1 DEF Dirq, Answer, Processing
    <3>9. CASE RrqRefused(c) \/ WrqRefused(c) \/ DelrqRefused(c)
      <4>1. /\ message[c].op \in {"RRQ", "WRQ", "DELRQ"}
            /\ \E code \in {0, 1, 5} : Reply(c, ErrorPacket(code))
        BY <3>9 DEF RrqRefused, WrqRefused, DelrqRefused, Answer, Processing
      <4>2. \A code \in {0, 1, 5} : ErrorPacket(code) \in Packet
        BY PacketTypes
      <4> QED BY <3>1, <3>3, <4>1, <4>2
    <3>10. CASE LogrqAgain(c) \/ BcastIn(c)
      <4>1. /\ message[c].op \in {"LOGRQ", "BCAST"}
            /\ \E code \in {0, 7} : Reply(c, ErrorPacket(code))
        BY <3>10 DEF LogrqAgain, BcastIn, Answer, Processing
      <4>2. \A code \in {0, 7} : ErrorPacket(code) \in Packet
        BY PacketTypes
      <4> QED BY <3>1, <3>3, <4>1, <4>2
    <3> QED BY <1>11, <3>4, <3>5, <3>6, <3>7, <3>8, <3>9, <3>10
  <2> QED BY <1>7, <1>8, <2>1, <2>2, AnswerReply
<1>12. CASE LogrqAck(c) \/ DataWrite(c) \/ DelrqDelete(c) \/ DiscEnd(c)
  <2>1. /\ pc[c] \in {"ack", "write", "del", "disc"}
        /\ \/ pc'[c] = "bcast" /\ message[c].op = "DATA" /\ "DATA" \in due[c]
           \/ pc'[c] = "bcast" /\ message[c].op = "DELRQ"
           \/ pc'[c] = "listen" /\ message[c].op = "LOGRQ"
           \/ pc'[c] = "exit" /\ message[c].op = "DISC"
    BY <1>0, <1>12 DEF LogrqAck, DataWrite, DelrqDelete, DiscEnd, PcAt, ReplyAt
  <2>2. /\ \E n \in BlockNum : Reply(c, AckPacket(n))
        /\ message[c].op = "DATA" => /\ message[c].block \in BlockNum
                                    /\ Reply(c, AckPacket(message[c].block))
    <3>1. CASE DataWrite(c)
      BY <1>0, <3>1, RequestFields DEF DataWrite, PcAt
    <3>2. CASE LogrqAck(c) \/ DelrqDelete(c) \/ DiscEnd(c)
      BY <1>0, <3>2, BlockNumbers DEF LogrqAck, DelrqDelete, DiscEnd, PcAt, ReplyAt
    <3> QED BY <1>12, <3>1, <3>2
  <2>3. Answers(c) = {} /\ IsOpen(c)
    BY <1>0, <2>1 DEF ReplyAt, IsOpen
  <2>4. ASSUME Registered(c)
        PROVE  OneAnswer(c)' /\ (message[c].op = "DATA" => Acknowledged(c)')
    <3>1. \A n \in BlockNum : AckPacket(n) \in Packet /\ AckPacket(n).op # "BCAST"
      BY PacketTypes DEF AckPacket
    <3> QED BY <1>7, <2>2, <2>3, <2>4, <3>1, ReplyOnce
  <2>5. message[c].op \in {"LOGRQ", "DISC"} => ~Silent(c)'
    BY <1>7 DEF Silent
  <2> QED BY <1>7, <1>8, <2>1, <2>4, <2>5 DEF ReplyAt, Answered
<1>13. CASE RrqRead(c) \/ AckMore(c)
  <2>1. /\ pc[c] \in {"decode", "read"} /\ pc'[c] = "listen"
        /\ \/ message[c].op = "RRQ"
           \/ message[c].op = "ACK" /\ "ACK" \in due[c]
        /\ \E buf \in Seq(Bytes) : HandleReadingACK(c, buf)
    <3>1. pc'[c] = "listen"
      BY <1>13 DEF RrqRead, AckMore, HandleReadingACK
    <3>2. \/ message[c].op = "RRQ"
          \/ message[c].op = "ACK" /\ "ACK" \in due[c]
      BY <1>0, <1>13, <1>b DEF RrqRead, AckMore, Processing, PcAt, Due
    <3> QED BY <1>13, <3>1, <3>2, ReadingBuffer
  <2>2. Answers(c) = {} /\ IsOpen(c)
    BY <1>0, <2>1 DEF ReplyAt, IsOpen
  <2>3. ASSUME Registered(c) PROVE OneAnswer(c)' \/ TwoBlocks(c)'
    BY <2>1, <2>2, <2>3, ReadingOnce
  <2>4. ~Silent(c)'
    BY <1>7, <2>1 DEF Silent
  <2> QED BY <1>7, <1>8, <2>1, <2>3, <2>4 DEF ReplyAt, Answered
<1>14. CASE LogrqNext(c)
  <2>1. PICK u \in iter[c] :
          /\ iter' = [iter EXCEPT ![c] = @ \ {u}]
          /\ IF u = message[c].user
             THEN /\ Reply(c, ErrorPacket(7))
                  /\ found' = [found EXCEPT ![c] = {u}]
             ELSE UNCHANGED <<out, found>>
    BY <1>14 DEF LogrqNext
  <2>2. pc[c] = "logrq" /\ pc' = pc /\ iter'[c] = iter[c] \ {u}
    BY <1>14, <2>1 DEF LogrqNext
  <2>3. CASE u = message[c].user
    <3>1. found'[c] = {u} /\ Reply(c, ErrorPacket(7))
      BY <2>1, <2>3
    <3>2. Answers(c) = {} /\ IsOpen(c)
      BY <1>0, <2>2, <2>3 DEF ReplyAt, IsOpen
    <3>3. ASSUME Registered(c) PROVE OneAnswer(c)'
      <4>1. ErrorPacket(7) \in Packet /\ ErrorPacket(7).op # "BCAST"
        BY PacketTypes DEF ErrorPacket
      <4> QED BY <3>1, <3>2, <3>3, <4>1, ReplyOnce
    <3> QED BY <1>7, <1>8, <2>2, <2>3, <3>1, <3>3 DEF ReplyAt
  <2>4. CASE u # message[c].user
    <3>1. out' = out /\ found' = found
      BY <2>1, <2>4
    <3> QED BY <1>0, <1>2, <1>7, <1>8, <2>2, <3>1 DEF ReplyAt
  <2> QED BY <2>3, <2>4
<1>15. CASE LogrqEnd(c)
  <2>1. /\ out' = out /\ pc[c] = "logrq"
        /\ IF found[c] = {} THEN pc'[c] = "put" ELSE pc'[c] = "listen"
    BY <1>15 DEF LogrqEnd
  <2>2. message[c].op = "LOGRQ" /\ ~Silent(c)'
    BY <1>0, <1>7, <2>1 DEF PcAt, Silent
  <2> QED BY <1>0, <1>2, <1>7, <1>8, <2>1, <2>2 DEF ReplyAt, Answered
<1>16. CASE BcastNext(c) \/ BcastLost(c) \/ BcastEnd(c)
  <2>1. /\ out' = out /\ pc[c] \in {"bcast", "deliver"}
        /\ pc'[c] \in {"bcast", "deliver", "listen"}
    BY <1>16 DEF BcastNext, BcastLost, BcastEnd
  <2>2. /\ message[c].op \in {"DELRQ", "DATA"}
        /\ message[c].op = "DATA" => "DATA" \in due[c]
    BY <1>0, <2>1 DEF PcAt, ReplyAt
  <2>3. ~Silent(c)'
    BY <1>7, <2>2 DEF Silent
  <2>4. Acknowledged(c)' = Acknowledged(c)
    BY <1>7, <1>a, <2>1
  <2> QED BY <1>0, <1>2, <1>7, <1>8, <2>1, <2>2, <2>3, <2>4 DEF ReplyAt, Answered
<1>17. CASE BcastDeliver(c)
  <2>1. pc[c] = "deliver" /\ pc'[c] = "bcast" /\ Send(c, dest[c], <<BcastSent(c)>>)
    BY <1>17 DEF BcastDeliver
  <2>2. /\ Answers(c)' = Answers(c)
        /\ \A i \in Answers(c) : out'[c][i] = out[c][i]
    BY <2>1, BcastAnswers
  <2>3. OneAnswer(c)' = OneAnswer(c) /\ Acknowledged(c)' = Acknowledged(c)
    BY <1>7, <2>2 DEF OneAnswer, Acknowledged
  <2> QED BY <1>0, <1>7, <1>8, <2>1, <2>3 DEF ReplyAt
<1>18. CASE DiscNext(c)
  <2>1. out' = out /\ pc' = pc /\ pc[c] = "disc"
    BY <1>18 DEF DiscNext
  <2> QED BY <1>0, <1>2, <1>7, <2>1 DEF ReplyAt
<1> QED
  BY <1>3, <1>6, <1>9, <1>10, <1>11, <1>12, <1>13, <1>14, <1>15, <1>16, <1>17, <1>18
  DEF Thread, Environment, Login, Download, Upload, Delete, Broadcast, Other

-----------------------------------------------------------------------------
(* The theorems.                                                           *)

Safety == TypeOK /\ IndInv /\ EntryHasOwner /\ NoCrossTalk /\ BcastNeedsLogin
          /\ AssembleFits

\* The server starts in a state that satisfies all of it.
LEMMA InitSafe == Init => Safety
<1> SUFFICES ASSUME Init PROVE Safety
  OBVIOUS
<1>1. TypeOK
  <2>1. <<>> \in Seq([from : Conns, pkt : Packet]) /\ <<>> \in Seq(Bytes)
    OBVIOUS
  <2> QED BY <2>1, ServerAssumption, BlockNumbers DEF Init, TypeOK, MaybeData
<1>2. IndInv
  <2>1. PcOK /\ RouteOK /\ LoginOK
    BY DEF Init, PcOK, PcAt, ReadAt, RouteOK, LoginOK, LoginAt, Accepted
  <2>2. ReplyOK
    BY DEF Init, ReplyOK, ReplyAt
  <2> QED BY <2>1, <2>2 DEF IndInv
<1>3. EntryHasOwner /\ NoCrossTalk /\ BcastNeedsLogin
  BY DEF Init, EntryHasOwner, NoCrossTalk, BcastNeedsLogin
<1>4. AssembleFits
  BY DEF Init, AssembleFits
<1> QED BY <1>1, <1>2, <1>3, <1>4 DEF Safety

\* And no step leaves it.
LEMMA NextSafe == Safety /\ [Next]_vars => Safety'
<1> SUFFICES ASSUME Safety, [Next]_vars PROVE Safety'
  OBVIOUS
<1> USE DEF Safety
<1>1. ASSUME NEW c \in Conns, Thread(c) \/ Environment(c)
      PROVE  Safety'
  <2>0. PcOK /\ RouteOK /\ LoginOK /\ ReplyOK
    BY DEF IndInv
  <2>1. TypeOK'
    BY <1>1, <2>0, TypeStep
  <2>2. PcOK' /\ RouteOK'
    <3>1. PcsOK'
      BY <1>1, <2>0, <2>1, PcStep DEF PcOK, PcsOK
    <3>2. ReadsOK'
      BY <1>1, <2>0, ReadStep
    <3>3. PcOK'
      BY <3>1, <3>2 DEF PcOK, PcsOK, ReadsOK
    <3> QED BY <1>1, <2>0, <3>3, RouteStep
  <2>3. LoginOK'
    <3> SUFFICES ASSUME NEW d \in Conns PROVE LoginAt(d)'
      BY DEF LoginOK
    <3>1. CASE d = c
      BY <1>1, <2>0, <3>1, LoginOwn
    <3>2. CASE d # c
      BY <1>1, <2>0, <3>2, LoginOthers
    <3> QED BY <3>1, <3>2
  <2>4. EntryHasOwner'
    BY <1>1, <2>0, <2>1, OwnerStep
  <2>5. NoCrossTalk'
    BY <1>1, <2>0, Outputs, CrossTalkStep
  <2>6. BcastNeedsLogin'
    BY <1>1, <2>0, BcastStep
  <2>7. AssembleFits'
    BY <1>1, <2>0, AssembleStep
  <2>8. ReplyOK'
    <3> SUFFICES ASSUME NEW d \in Conns PROVE ReplyAt(d)'
      BY DEF ReplyOK
    <3>1. CASE d = c
      BY <1>1, <2>0, <3>1, ReplyOwn
    <3>2. CASE d # c
      BY <1>1, <2>0, <3>2, ReplyOthers
    <3> QED BY <3>1, <3>2
  <2> QED BY <2>1, <2>2, <2>3, <2>4, <2>5, <2>6, <2>7, <2>8 DEF IndInv
<1>2. CASE UNCHANGED vars
  <2> USE <1>2 DEF vars, server, session, upload, download, loop, input, disk
  <2>1. TypeOK'
    BY DEF TypeOK
  <2>2. IndInv'
    <3>1. PcOK'
      BY DEF IndInv, PcOK, PcAt, ReadAt
    <3>2. RouteOK'
      BY DEF IndInv, RouteOK
    <3>3. LoginOK'
      BY DEF IndInv, LoginOK, LoginAt, Accepted
    <3>4. ReplyOK'
      <4> SUFFICES ASSUME NEW d \in Conns PROVE ReplyAt(d)'
        BY DEF ReplyOK
      <4>1. Answers(d)' = Answers(d) /\ Registered(d)' = Registered(d)
        BY DEF Answers, Registered, IsBcast
      <4>2. /\ OneAnswer(d)' = OneAnswer(d) /\ TwoBlocks(d)' = TwoBlocks(d)
            /\ Acknowledged(d)' = Acknowledged(d)
        BY <4>1 DEF OneAnswer, TwoBlocks, Acknowledged
      <4>3. ReplyAt(d)
        BY DEF IndInv, ReplyOK
      <4>4. Due(d)' = Due(d) /\ Silent(d)' = Silent(d)
        BY DEF Due, Silent
      <4> QED BY <4>1, <4>2, <4>3, <4>4 DEF ReplyAt, Answered
    <3> QED BY <3>1, <3>2, <3>3, <3>4 DEF IndInv
  <2>3. EntryHasOwner'
    BY DEF EntryHasOwner
  <2>4. NoCrossTalk' /\ BcastNeedsLogin'
    BY DEF NoCrossTalk, BcastNeedsLogin, IsBcast, Accepted
  <2>5. AssembleFits'
    BY DEF AssembleFits
  <2> QED BY <2>1, <2>2, <2>3, <2>4, <2>5
<1> QED BY <1>1, <1>2 DEF Next

\* The conjunction is an inductive invariant of the server.
THEOREM Invariance == Spec => []Safety
BY InitSafe, NextSafe, PTL DEF Spec

\* Every variable keeps its type, whatever the clients send.
THEOREM TypeCorrect == Spec => []TypeOK
<1>1. Safety => TypeOK
  BY DEF Safety
<1> QED BY <1>1, Invariance, PTL

\* No client is ever handed the answer to another client's request, although
\* answers are routed through a HashMap that threads change without a lock.
THEOREM NoCrossTalkHolds == Spec => []NoCrossTalk
<1>1. Safety => NoCrossTalk
  BY DEF Safety
<1> QED BY <1>1, Invariance, PTL

\* BCASTs reach only clients whose login was accepted, although the map of
\* names changes while a broadcast walks it.
THEOREM BcastNeedsLoginHolds == Spec => []BcastNeedsLogin
<1>1. Safety => BcastNeedsLogin
  BY DEF Safety
<1> QED BY <1>1, Invariance, PTL

\* Every name in the map belongs to the connection that logged in with it, and
\* is gone when that connection's DISC has been processed.
THEOREM EntryHasOwnerHolds == Spec => []EntryHasOwner
<1>1. Safety => EntryHasOwner
  BY DEF Safety
<1> QED BY <1>1, Invariance, PTL

\* Assembling an uploaded file never runs over the array made for it.
THEOREM AssembleFitsHolds == Spec => []AssembleFits
<1>1. Safety => AssembleFits
  BY DEF Safety
<1> QED BY <1>1, Invariance, PTL

\* How far the request at hand has been handled, which answers are on their way
\* and who is logged in agree on every thread.
THEOREM IndInvHolds == Spec => []IndInv
<1>1. Safety => IndInv
  BY DEF Safety
<1> QED BY <1>1, Invariance, PTL

\* A command, a block of an upload and an ACK of a download under way are
\* answered exactly once, a block that is not too long by its number; ERROR
\* packets and what belongs to no transfer are never answered.  Broadcasts that
\* other threads put among the answers meanwhile do not change that.
THEOREM OneReplyHolds == Spec => []OneReply
<1>1. Safety => OneReply
  BY DEF Safety, IndInv, ReplyOK, ReplyAt, OneReply
<1> QED BY <1>1, Invariance, PTL
=============================================================================
