------------------------- MODULE TFTPSystem_proofs -------------------------
(***************************************************************************)
(* The server and its clients together, for any number of clients, any     *)
(* commands and any contents of the directories.                           *)
(***************************************************************************)
EXTENDS TFTPSystem, TFTPServer_proofs

-----------------------------------------------------------------------------
(* What is among the broadcasts of a channel.                              *)

\* A broadcast behind them changes nothing.
LEMMA HearBroadcast ==
  ASSUME NEW s \in Seq(Packet), NEW b \in Packet, IsBroadcast(b)
  PROVE  /\ Append(s, b) \in Seq(Packet)
         /\ Quiet(s) => Quiet(Append(s, b))
         /\ \A p : Only(s, p) => Only(Append(s, b), p)
         /\ \A p, q : Both(s, p, q) => Both(Append(s, b), p, q)
         /\ Packets(s) \subseteq Packets(Append(s, b))
<1> DEFINE t == Append(s, b)
<1>1. /\ t \in Seq(Packet) /\ Len(t) = Len(s) + 1
      /\ \A i \in 1 .. Len(s) : t[i] = s[i]
      /\ t[Len(s) + 1] = b
  OBVIOUS
<1>2. Len(s) \in Nat
  OBVIOUS
<1> HIDE DEF t
<1>3. Quiet(s) => Quiet(t)
  BY <1>1, <1>2 DEF Quiet
<1>4. ASSUME NEW p, Only(s, p) PROVE Only(t, p)
  <2>1. PICK i \in 1 .. Len(s) :
          s[i] = p /\ \A k \in 1 .. Len(s) : k # i => IsBroadcast(s[k])
    BY <1>4 DEF Only
  <2>2. i \in 1 .. Len(t) /\ t[i] = p
    BY <1>1, <1>2, <2>1
  <2>3. \A k \in 1 .. Len(t) : k # i => IsBroadcast(t[k])
    BY <1>1, <1>2, <2>1
  <2> QED BY <2>2, <2>3 DEF Only
<1>5. ASSUME NEW p, NEW q, Both(s, p, q) PROVE Both(t, p, q)
  <2>1. PICK i, j \in 1 .. Len(s) :
          /\ i < j /\ s[i] = p /\ s[j] = q
          /\ \A k \in 1 .. Len(s) : k # i /\ k # j => IsBroadcast(s[k])
    BY <1>5 DEF Both
  <2>2. i \in 1 .. Len(t) /\ j \in 1 .. Len(t) /\ t[i] = p /\ t[j] = q
    BY <1>1, <1>2, <2>1
  <2>3. \A k \in 1 .. Len(t) : k # i /\ k # j => IsBroadcast(t[k])
    BY <1>1, <1>2, <2>1
  <2> QED BY <2>1, <2>2, <2>3 DEF Both
<1>6. Packets(s) \subseteq Packets(t)
  BY <1>1, <1>2 DEF Packets
<1> QED BY <1>1, <1>3, <1>4, <1>5, <1>6 DEF t

\* Answers behind broadcasts.
LEMMA HearAnswer ==
  ASSUME NEW s \in Seq(Packet), Quiet(s), NEW p \in Packet, NEW q \in Packet
  PROVE  /\ Only(Append(s, p), p) /\ p \in Packets(Append(s, p))
         /\ Both(s \o <<p, q>>, p, q) /\ {p, q} \subseteq Packets(s \o <<p, q>>)
<1>0. Len(s) \in Nat
  OBVIOUS
<1>1. Only(Append(s, p), p) /\ p \in Packets(Append(s, p))
  <2> DEFINE t == Append(s, p)
  <2>1. /\ Len(t) = Len(s) + 1
        /\ \A i \in 1 .. Len(s) : t[i] = s[i]
        /\ t[Len(s) + 1] = p
    OBVIOUS
  <2> HIDE DEF t
  <2>2. Len(s) + 1 \in 1 .. Len(t)
    BY <1>0, <2>1
  <2>3. \A k \in 1 .. Len(t) : k # Len(s) + 1 => IsBroadcast(t[k])
    BY <1>0, <2>1 DEF Quiet
  <2> QED BY <2>1, <2>2, <2>3 DEF Only, Packets, t
<1>2. Both(s \o <<p, q>>, p, q) /\ {p, q} \subseteq Packets(s \o <<p, q>>)
  <2> DEFINE t == s \o <<p, q>>
  <2>1. /\ Len(t) = Len(s) + 2
        /\ \A i \in 1 .. Len(s) : t[i] = s[i]
        /\ t[Len(s) + 1] = p /\ t[Len(s) + 2] = q
    OBVIOUS
  <2> HIDE DEF t
  <2>2. Len(s) + 1 \in 1 .. Len(t) /\ Len(s) + 2 \in 1 .. Len(t)
    BY <1>0, <2>1
  <2>3. \A k \in 1 .. Len(t) :
          k # Len(s) + 1 /\ k # Len(s) + 2 => IsBroadcast(t[k])
    BY <1>0, <2>1 DEF Quiet
  <2>4. Both(t, p, q)
    BY <1>0, <2>1, <2>2, <2>3 DEF Both
  <2> QED BY <2>1, <2>2, <2>4 DEF Packets, t
<1> QED BY <1>1, <1>2

\* What is left when the first packet has been read.
LEMMA ReadOne ==
  ASSUME NEW s \in Seq(Packet), s # <<>>
  PROVE  /\ Tail(s) \in Seq(Packet) /\ Head(s) \in Packet
         /\ Quiet(s) => IsBroadcast(Head(s)) /\ Quiet(Tail(s))
         /\ \A p : Only(s, p) =>
              \/ Head(s) = p /\ Quiet(Tail(s))
              \/ IsBroadcast(Head(s)) /\ Only(Tail(s), p)
         /\ \A p, q : Both(s, p, q) =>
              \/ Head(s) = p /\ Only(Tail(s), q)
              \/ IsBroadcast(Head(s)) /\ Both(Tail(s), p, q)
<1> DEFINE t == Tail(s)
<1>1. /\ t \in Seq(Packet) /\ Head(s) \in Packet
      /\ Len(s) \in Nat /\ Len(s) > 0 /\ Len(t) = Len(s) - 1
      /\ Head(s) = s[1]
      /\ \A i \in 1 .. Len(t) : t[i] = s[i + 1]
  OBVIOUS
<1> HIDE DEF t
<1>2. \A k \in 1 .. Len(s) : k # 1 => k - 1 \in 1 .. Len(t) /\ t[k - 1] = s[k]
  BY <1>1
<1>3. Quiet(s) => IsBroadcast(Head(s)) /\ Quiet(t)
  BY <1>1 DEF Quiet
<1>4. ASSUME NEW p, Only(s, p)
      PROVE  \/ Head(s) = p /\ Quiet(t)
             \/ IsBroadcast(Head(s)) /\ Only(t, p)
  <2>1. PICK i \in 1 .. Len(s) :
          s[i] = p /\ \A k \in 1 .. Len(s) : k # i => IsBroadcast(s[k])
    BY <1>4 DEF Only
  <2>2. CASE i = 1
    BY <1>1, <2>1, <2>2 DEF Quiet
  <2>3. CASE i # 1
    <3>1. i - 1 \in 1 .. Len(t) /\ t[i - 1] = p
      BY <1>2, <2>1, <2>3
    <3>2. \A k \in 1 .. Len(t) : k # i - 1 => IsBroadcast(t[k])
      BY <1>1, <2>1
    <3> QED BY <1>1, <2>1, <2>3, <3>1, <3>2 DEF Only
  <2> QED BY <2>2, <2>3
<1>5. ASSUME NEW p, NEW q, Both(s, p, q)
      PROVE  \/ Head(s) = p /\ Only(t, q)
             \/ IsBroadcast(Head(s)) /\ Both(t, p, q)
  <2>1. PICK i, j \in 1 .. Len(s) :
          /\ i < j /\ s[i] = p /\ s[j] = q
          /\ \A k \in 1 .. Len(s) : k # i /\ k # j => IsBroadcast(s[k])
    BY <1>5 DEF Both
  <2>2. j - 1 \in 1 .. Len(t) /\ t[j - 1] = q
    BY <1>1, <1>2, <2>1
  <2>3. CASE i = 1
    <3>1. \A k \in 1 .. Len(t) : k # j - 1 => IsBroadcast(t[k])
      BY <1>1, <2>1, <2>3
    <3> QED BY <1>1, <2>1, <2>2, <2>3, <3>1 DEF Only
  <2>4. CASE i # 1
    <3>1. i - 1 \in 1 .. Len(t) /\ t[i - 1] = p
      BY <1>2, <2>1, <2>4
    <3>2. \A k \in 1 .. Len(t) : k # i - 1 /\ k # j - 1 => IsBroadcast(t[k])
      BY <1>1, <2>1
    <3>3. Both(t, p, q)
      BY <2>1, <2>2, <3>1, <3>2 DEF Both
    <3> QED BY <1>1, <2>1, <2>4, <3>3
  <2> QED BY <2>3, <2>4
<1> QED BY <1>1, <1>3, <1>4, <1>5 DEF t

-----------------------------------------------------------------------------
(* The client and the server read the same TFTPData.                       *)

LEMMA SamePackets ==
  /\ C!BlockNum = BlockNum /\ C!Names = Names /\ C!MaybeData = MaybeData
  /\ C!Packet = Packet /\ C!Request = Request
  /\ \A n : C!NextBlock(n) = NextBlock(n) /\ C!AckPacket(n) = AckPacket(n)
  /\ \A buf : C!Prefix(buf) = Prefix(buf) /\ C!Suffix(buf) = Suffix(buf)
  /\ \A n, buf : C!DataPacket(n, buf) = DataPacket(n, buf)
BY DEF C!BlockNum, BlockNum, C!Names, Names, C!MaybeData, MaybeData,
       C!Packet, Packet, C!Request, Request, C!NextBlock, NextBlock, C!AckPacket,
       AckPacket, C!Prefix, Prefix, C!Suffix, Suffix, C!DataPacket, DataPacket

\* The types of the objects of one client and of its channels.
LEMMA ClientTypes ==
  ASSUME C!TypeOK, NEW c \in Conns
  PROVE  /\ cl[c] \in C!ClientProtocol
         /\ local[c] \in [FileNames -> MaybeData]
         /\ toServer[c] \in Seq(Request)
         /\ toClient[c] \in Seq(Packet)
BY SamePackets DEF C!TypeOK

-----------------------------------------------------------------------------
(* What a step of the server puts into the channels.                       *)

\* What has been written is what Send was given.
LEMMA WrittenSend ==
  ASSUME TypeOK, NEW c \in Conns, NEW id, NEW pkts \in Seq(Packet),
         Send(c, id, pkts), NEW d \in Conns
  PROVE  Written(d) = IF id \in DOMAIN connectionsQueue
                         /\ IsOpen(connectionsQueue[id])
                         /\ d = connectionsQueue[id]
                      THEN pkts ELSE <<>>
<1> DEFINE E == [from : Conns, pkt : Packet]
           e == [k \in 1 .. Len(pkts) |-> [from |-> c, pkt |-> pkts[k]]]
<1>1. /\ out[d] \in Seq(E)
      /\ e \in Seq(E) /\ Len(e) = Len(pkts)
  <2>1. out[d] \in Seq(E)
    BY DEF TypeOK
  <2>2. e \in Seq(E) /\ Len(e) = Len(pkts)
    OBVIOUS
  <2> QED BY <2>1, <2>2
<1>2. \A k \in 1 .. Len(pkts) : e[k].pkt = pkts[k]
  OBVIOUS
<1>3. CASE /\ id \in DOMAIN connectionsQueue /\ IsOpen(connectionsQueue[id])
           /\ d = connectionsQueue[id]
  <2>1. out'[d] = out[d] \o e
    BY <1>3 DEF Send, TypeOK
  <2> HIDE DEF e, E
  <2>2. SubSeq(out[d] \o e, Len(out[d]) + 1, Len(out[d] \o e)) = e
    <3> DEFINE s == out[d]
    <3>1. s \in Seq(E)
      BY <1>1
    <3> HIDE DEF s
    <3>2. SubSeq(s \o e, Len(s) + 1, Len(s \o e)) = e
      BY <1>1, <3>1
    <3> QED BY <3>2 DEF s
  <2>3. Written(d) = [k \in 1 .. Len(e) |-> e[k].pkt]
    BY <2>1, <2>2 DEF Written
  <2>4. Written(d) = [k \in 1 .. Len(pkts) |-> pkts[k]]
    BY <1>1, <1>2, <2>3
  <2> QED BY <1>3, <2>4
<1>4. CASE ~(/\ id \in DOMAIN connectionsQueue /\ IsOpen(connectionsQueue[id])
             /\ d = connectionsQueue[id])
  <2>1. out'[d] = out[d]
    BY <1>4 DEF Send, TypeOK
  <2>2. SubSeq(out[d], Len(out[d]) + 1, Len(out[d])) = <<>>
    BY <1>1
  <2> QED BY <1>4, <2>1, <2>2 DEF Written
<1> QED BY <1>3, <1>4

\* A step that writes nothing leaves the channels to the clients.
LEMMA WrittenNothing ==
  ASSUME TypeOK, out' = out, NEW d \in Conns
  PROVE  Written(d) = <<>>
<1>1. out[d] \in Seq([from : Conns, pkt : Packet])
  BY DEF TypeOK
<1>2. SubSeq(out[d], Len(out[d]) + 1, Len(out[d])) = <<>>
  BY <1>1
<1> QED BY <1>2 DEF Written

\* The thread of a client that has been started finds it in connectionsQueue.
LEMMA Reaches ==
  ASSUME TypeOK, RouteOK, Serial, NEW c \in Conns,
         pc[c] \notin {"idle", "start", "adding", "closed", "dead"}
  PROVE  /\ myId[c] \in DOMAIN connectionsQueue
         /\ connectionsQueue[myId[c]] = c
         /\ IsOpen(c)
BY DEF TypeOK, RouteOK, Serial, Registered, IsOpen

\* So what it answers is appended to the channel of that client only.
LEMMA SendReaches ==
  ASSUME TypeOK, RouteOK, Serial, C!TypeOK, NEW c \in Conns, SystemThread(c),
         pc[c] \notin {"idle", "start", "adding", "closed", "dead"},
         NEW pkts \in Seq(Packet), Send(c, myId[c], pkts)
  PROVE  /\ toClient'[c] = toClient[c] \o pkts
         /\ \A d \in Conns : d # c => toClient'[d] = toClient[d]
<1>1. \A d \in Conns : Written(d) = IF d = c THEN pkts ELSE <<>>
  BY WrittenSend, Reaches
<1>2. \A d \in Conns : toClient[d] \in Seq(Packet)
  BY ClientTypes
<1>3. \A d \in Conns : toClient[d] \o <<>> = toClient[d]
  BY <1>2
<1>4. \A d \in Conns : toClient'[d] = toClient[d] \o Written(d)
  BY DEF SystemThread
<1> QED BY <1>1, <1>3, <1>4

LEMMA ReplyReaches ==
  ASSUME TypeOK, RouteOK, Serial, C!TypeOK, NEW c \in Conns, SystemThread(c),
         pc[c] \notin {"idle", "start", "adding", "closed", "dead"},
         NEW pkt \in Packet, Reply(c, pkt)
  PROVE  toClient'[c] = Append(toClient[c], pkt)
<1>1. <<pkt>> \in Seq(Packet)
  OBVIOUS
<1>2. toClient'[c] = toClient[c] \o <<pkt>>
  BY <1>1, SendReaches DEF Reply
<1>3. toClient[c] \in Seq(Packet)
  BY ClientTypes
<1> QED BY <1>2, <1>3

LEMMA SilentReaches ==
  ASSUME TypeOK, C!TypeOK, NEW c \in Conns, SystemThread(c), out' = out
  PROVE  toClient' = toClient
<1>1. \A d \in Conns : Written(d) = <<>>
  BY WrittenNothing
<1>2. \A d \in Conns : toClient[d] \in Seq(Packet)
  BY ClientTypes
<1>3. \A d \in Conns : toClient[d] \o Written(d) = toClient[d]
  BY <1>1, <1>2
<1> QED BY <1>3 DEF SystemThread, C!TypeOK

\* The channel to a client stays, gets a broadcast, or a broadcast is read.
Hears(c) ==
  \/ toClient'[c] = toClient[c]
  \/ \E b \in Packet : IsBroadcast(b) /\ toClient'[c] = Append(toClient[c], b)
  \/ /\ toClient[c] # <<>> /\ IsBroadcast(Head(toClient[c]))
     /\ toClient'[c] = Tail(toClient[c])

LEMMA BroadcastReaches ==
  ASSUME TypeOK, PcOK, C!TypeOK, NEW c \in Conns, SystemThread(c),
         pc[c] = "deliver", Send(c, dest[c], <<BcastSent(c)>>), NEW d \in Conns
  PROVE  Hears(d)
<1>1. BcastSent(c) \in Packet /\ <<BcastSent(c)>> \in Seq(Packet)
  BY BcastType
<1>2. IsBroadcast(BcastSent(c))
  BY DEF IsBroadcast, BcastSent, BCastPacket
<1>3. Written(d) \in {<<>>, <<BcastSent(c)>>}
  <2> DEFINE pkts == <<BcastSent(c)>>
  <2>1. pkts \in Seq(Packet) /\ Send(c, dest[c], pkts)
    BY <1>1
  <2> HIDE DEF pkts
  <2>2. Written(d) = pkts \/ Written(d) = <<>>
    BY <2>1, WrittenSend
  <2> QED BY <2>2 DEF pkts
<1>4. toClient[d] \in Seq(Packet) /\ toClient'[d] = toClient[d] \o Written(d)
  BY ClientTypes DEF SystemThread
<1>5. toClient[d] \o <<>> = toClient[d]
  BY <1>4
<1>6. toClient[d] \o <<BcastSent(c)>> = Append(toClient[d], BcastSent(c))
  BY <1>1, <1>4
<1> HIDE DEF Written
<1> QED BY <1>1, <1>2, <1>3, <1>4, <1>5, <1>6 DEF Hears

-----------------------------------------------------------------------------
(* What a step of a thread of the server leaves alone.                     *)

\* The upload, the download and the request of another thread.
LEMMA TransfersKept ==
  ASSUME TypeOK, NEW c \in Conns, Thread(c) \/ Environment(c),
         NEW d \in Conns, d # c
  PROVE  /\ message'[d] = message[d] /\ toDownload'[d] = toDownload[d]
         /\ goingToBeReceived'[d] = goingToBeReceived[d]
         /\ wholeFile'[d] = wholeFile[d] /\ accSize'[d] = accSize[d]
         /\ seen'[d] = seen[d]
<1> USE DEF input, upload, download, loop, TypeOK
<1>1. CASE Login(c)
  BY <1>1 DEF Login, LogrqAgain, LogrqBegin, LogrqNext, LogrqEnd, LogrqPut,
             LogrqAck, Answer
<1>2. CASE Download(c)
  BY <1>2 DEF Download, RrqRefused, RrqFound, RrqOpen, RrqLength, RrqRead,
             RrqGone, AckMore, AckIgnored, Dirq, DirqTooLong, Answer, HandleReadingACK, Die
<1>3. CASE Upload(c)
  BY <1>3 DEF Upload, WrqRefused, WrqAccepted, DataIgnored, DataOversize,
             DataFull, DataLast, DataWrite, Answer
<1>4. CASE Delete(c)
  BY <1>4 DEF Delete, DelrqRefused, DelrqFound, DelrqDelete, Answer
<1>5. CASE Broadcast(c)
  BY <1>5 DEF Broadcast, BcastNext, BcastDeliver, BcastLost, BcastEnd
<1>6. CASE Other(c)
  BY <1>6 DEF Other, NotLoggedIn, IteratorFails, Error, BcastIn, DiscBegin,
             DiscNext, DiscEnd, Answer, Die
<1>7. CASE \/ Accept(c) \/ RunAdd(c) \/ RunPut(c) \/ Close(c) \/ Receive(c)
           \/ Eof(c) \/ OpenFails(c) \/ WriteFails(c)
  BY <1>7 DEF Accept, RunAdd, RunPut, Close, Receive, Eof, OpenFails, WriteFails, Die
<1> QED BY <1>1, <1>2, <1>3, <1>4, <1>5, <1>6, <1>7 DEF Thread, Environment

\* A thread decodes nothing by itself, forgets no login, and once it is in its
\* loop the registry stays as it is.
Starting(c) == pc[c] \in {"idle", "start", "adding"}

LEMMA ThreadFrame ==
  ASSUME TypeOK, NEW c \in Conns, Thread(c)
  PROVE  /\ pc'[c] # "decode"
         /\ myConnectionState[c] => myConnectionState'[c]
         /\ message' = message
         /\ \/ RunAdd(c) \/ RunPut(c)
            \/ server' = server /\ ~Starting(c) /\ ~Starting(c)'
<1> USE DEF Starting, Goto, server, session, input, TypeOK
<1>1. CASE Login(c)
  <2>1. CASE LogrqAgain(c) \/ LogrqBegin(c) \/ LogrqNext(c) \/ LogrqEnd(c)
    BY <2>1 DEF LogrqAgain, LogrqBegin, LogrqNext, LogrqEnd, Answer, Processing
  <2>2. CASE LogrqPut(c)
    BY <2>2 DEF LogrqPut
  <2>3. CASE LogrqAck(c)
    BY <2>3 DEF LogrqAck
  <2> QED BY <1>1, <2>1, <2>2, <2>3 DEF Login
<1>2. CASE Download(c)
  BY <1>2 DEF Download, RrqRefused, RrqFound, RrqOpen, RrqLength, RrqRead,
             RrqGone, AckMore, AckIgnored, Dirq, DirqTooLong, Answer, HandleReadingACK, Die, Processing
<1>3. CASE Upload(c)
  BY <1>3 DEF Upload, WrqRefused, WrqAccepted, DataIgnored, DataOversize,
             DataFull, DataLast, DataWrite, Answer, Processing, Receiving
<1>4. CASE Delete(c)
  BY <1>4 DEF Delete, DelrqRefused, DelrqFound, DelrqDelete, Answer, Processing
<1>5. CASE Broadcast(c)
  BY <1>5 DEF Broadcast, BcastNext, BcastDeliver, BcastLost, BcastEnd
<1>6. CASE Other(c)
  BY <1>6 DEF Other, NotLoggedIn, IteratorFails, Error, BcastIn, DiscBegin,
             DiscNext, DiscEnd, Answer, Die, Processing
<1>7. CASE RunAdd(c) \/ RunPut(c) \/ Close(c)
  BY <1>7 DEF RunAdd, RunPut, Close
<1> QED BY <1>1, <1>2, <1>3, <1>4, <1>5, <1>6, <1>7 DEF Thread

ServerStep(c) == SystemThread(c) \/ SystemReceive(c) \/ SystemAccept(c)

\* A step of the system is one of the server, or leaves the server alone.
LEMMA ServerSteps ==
  ASSUME NEW c \in Conns, ServerStep(c)
  PROVE  Thread(c) \/ Environment(c)
BY DEF ServerStep, SystemThread, SystemReceive, SystemAccept, Environment

\* Clients that are started one after the other lose no registration.
LEMMA SerialStep ==
  ASSUME TypeOK, RouteOK, Serial, NEW c \in Conns, ServerStep(c)
  PROVE  Serial'
<1>0. Thread(c) \/ Environment(c)
  BY ServerSteps
<1>1. \A d \in Conns : d # c => /\ pc'[d] = pc[d] /\ seen'[d] = seen[d]
                                /\ myId'[d] = myId[d]
  BY <1>0, OthersKept, TransfersKept
<1> USE DEF Serial, Registered, Starting, server
<1>2. CASE RunAdd(c)
  <2>1. /\ pc[c] = "start" /\ pc'[c] = "adding" /\ connectionsQueue' = connectionsQueue
        /\ seen'[c] = DOMAIN connectionsQueue
    BY <1>2 DEF RunAdd, Goto, TypeOK
  <2> QED BY <1>1, <2>1
<1>3. CASE RunPut(c)
  <2>1. /\ pc[c] = "adding" /\ pc'[c] = "listen" /\ myId' = myId
        /\ seen[c] = DOMAIN connectionsQueue
        /\ connectionsQueue' \in PutOutcomes(connectionsQueue, seen[c], myId[c], c)
    BY <1>3 DEF RunPut, Goto, TypeOK
  <2>2. DOMAIN connectionsQueue' = DOMAIN connectionsQueue \cup {myId[c]}
    <3>1. (DOMAIN connectionsQueue \ seen[c]) \ {myId[c]} = {}
      BY <2>1
    <3>2. connectionsQueue' =
            [x \in (DOMAIN connectionsQueue \cup {myId[c]}) \ {} |->
               IF x = myId[c] THEN c ELSE connectionsQueue[x]]
      BY <2>1, <3>1 DEF PutOutcomes
    <3> QED BY <3>2
  <2> QED BY <1>1, <2>1, <2>2
<1>4. CASE server' = server /\ ~Starting(c) /\ ~Starting(c)'
  BY <1>1, <1>4
<1>5. CASE SystemReceive(c)
  <2>1. /\ pc[c] = "listen" /\ pc'[c] \in {"deaf", "decode"}
        /\ connectionsQueue' = connectionsQueue /\ myId' = myId
    BY <1>5 DEF SystemReceive, Receive, Goto, TypeOK
  <2> QED BY <1>1, <2>1
<1>6. CASE SystemAccept(c)
  <2>1. /\ \A d \in Conns : pc[d] \notin {"start", "adding"}
        /\ pc[c] = "idle" /\ pc'[c] = "start" /\ connectionsQueue' = connectionsQueue
    BY <1>6 DEF SystemAccept, Accept, Goto, TypeOK
  <2> QED BY <1>1, <2>1
<1> QED BY <1>2, <1>3, <1>4, <1>5, <1>6, ThreadFrame DEF ServerStep, SystemThread

\* The client of another thread hears no more than a broadcast of it.
LEMMA OthersHear ==
  ASSUME TypeOK, PcOK, RouteOK, C!TypeOK, NEW c \in Conns, ServerStep(c),
         NEW d \in Conns, d # c
  PROVE  /\ Hears(d) /\ toServer'[d] = toServer[d]
         /\ cl' = cl /\ local' = local
<1>1. cl' = cl /\ local' = local
  BY DEF ServerStep, SystemThread, SystemReceive, SystemAccept, clients
<1>2. toServer'[d] = toServer[d]
  <2>1. CASE SystemReceive(c)
    <3>1. toServer' = [toServer EXCEPT ![c] = Tail(@)]
      BY <2>1 DEF SystemReceive
    <3> QED BY <3>1 DEF C!TypeOK
  <2> QED BY <2>1 DEF ServerStep, SystemThread, SystemAccept, clients
<1>3. CASE SystemReceive(c) \/ SystemAccept(c)
  BY <1>1, <1>2, <1>3 DEF SystemReceive, SystemAccept, Hears, clients
<1>4. CASE SystemThread(c)
  <2>1. toClient'[d] = toClient[d] \o Written(d) /\ toClient[d] \in Seq(Packet)
    BY <1>4, ClientTypes DEF SystemThread
  <2>2. CASE Written(d) = <<>>
    BY <1>1, <1>2, <2>1, <2>2 DEF Hears
  <2>3. CASE out'[d] = out[d]
    <3>1. out[d] \in Seq([from : Conns, pkt : Packet])
      BY DEF TypeOK
    <3>2. SubSeq(out[d], Len(out[d]) + 1, Len(out[d])) = <<>>
      BY <3>1
    <3>3. Written(d) = <<>>
      BY <2>3, <3>2 DEF Written
    <3> QED BY <2>2, <3>3
  <2>4. ASSUME NEW pkts \in Seq(Packet), Answering(c, pkts)
        PROVE  Written(d) = <<>>
    <3>1. myId[c] \in DOMAIN connectionsQueue => connectionsQueue[myId[c]] = c
      BY <2>4 DEF Answering, RouteOK, TypeOK
    <3>2. Send(c, myId[c], pkts)
      BY <2>4 DEF Answering
    <3> QED BY <3>1, <3>2, WrittenSend
  <2>5. CASE pc[c] = "deliver" /\ Send(c, dest[c], <<BcastSent(c)>>)
    BY <1>1, <1>2, <1>4, <2>5, BroadcastReaches
  <2>6. Output(c)
    BY <1>4, Outputs DEF SystemThread
  <2>7. CASE out' = [out EXCEPT ![c] = <<>>]
    <3>1. out'[d] = out[d]
      BY <2>7 DEF TypeOK
    <3> QED BY <2>3, <3>1
  <2> QED BY <2>2, <2>3, <2>4, <2>5, <2>6, <2>7 DEF Output
<1> QED BY <1>1, <1>2, <1>3, <1>4 DEF ServerStep

-----------------------------------------------------------------------------
(* A conversation goes on through the steps of other clients and threads.  *)

\* What stays among the broadcasts.
LEMMA HearsKeeps ==
  ASSUME C!TypeOK, NEW c \in Conns, Hears(c)
  PROVE  /\ toClient'[c] \in Seq(Packet)
         /\ Quiet(toClient[c]) => Quiet(toClient'[c])
         /\ \A p : ~IsBroadcast(p) /\ Only(toClient[c], p) =>
              Only(toClient'[c], p) /\ p \in Packets(toClient'[c])
         /\ \A p, q : ~IsBroadcast(p) /\ Both(toClient[c], p, q) =>
              Both(toClient'[c], p, q) /\ {p, q} \subseteq Packets(toClient'[c])
<1>1. toClient[c] \in Seq(Packet)
  BY ClientTypes
<1>5. \A p : Only(toClient'[c], p) => p \in Packets(toClient'[c])
  BY DEF Only, Packets
<1>6. \A p, q : Both(toClient'[c], p, q) => {p, q} \subseteq Packets(toClient'[c])
  BY DEF Both, Packets
<1>2. CASE toClient'[c] = toClient[c]
  BY <1>1, <1>2, <1>5, <1>6
<1>3. ASSUME NEW b \in Packet, IsBroadcast(b), toClient'[c] = Append(toClient[c], b)
      PROVE  /\ toClient'[c] \in Seq(Packet)
             /\ Quiet(toClient[c]) => Quiet(toClient'[c])
             /\ \A p : Only(toClient[c], p) => Only(toClient'[c], p)
             /\ \A p, q : Both(toClient[c], p, q) => Both(toClient'[c], p, q)
  BY <1>1, <1>3, HearBroadcast
<1>4. CASE /\ toClient[c] # <<>> /\ IsBroadcast(Head(toClient[c]))
           /\ toClient'[c] = Tail(toClient[c])
  BY <1>1, <1>4, <1>5, <1>6, ReadOne
<1> QED BY <1>2, <1>3, <1>4, <1>5, <1>6 DEF Hears

\* The phases that ask of the thread no more than to be settled.
Listening(c) ==
  /\ Settled(c)
  /\ \/ Free(c)
     \/ \E cmd \in Commands[c] :
          /\ Asks(c, cmd)
          /\ cmd.op = "RRQ" => cl[c].wholeFile = <<>>
          /\ ~cl[c].goingToFinish
          /\ Quiet(toClient[c])
          /\ EndsIn(toServer[c], cmd)
     \/ Replied(c)
     \/ \E cmd \in Commands[c] :
          /\ cmd.op = "RRQ" /\ cmd.file \in FileNames
          /\ Asks(c, cmd)
          /\ ~cl[c].goingToFinish
          /\ myConnectionState[c]
          /\ LastBlocks(c)

LEMMA ListeningKept ==
  ASSUME C!TypeOK, NEW c \in Conns, Hears(c), Listening(c), Settled(c)',
         cl'[c] = cl[c], toServer'[c] = toServer[c],
         myConnectionState[c] => myConnectionState'[c]
  PROVE  Agree(c)' /\ Listening(c)'
<1>0. /\ Quiet(toClient[c]) => Quiet(toClient'[c])
      /\ \A p : ~IsBroadcast(p) /\ Only(toClient[c], p) =>
           Only(toClient'[c], p) /\ p \in Packets(toClient'[c])
      /\ \A p, q : ~IsBroadcast(p) /\ Both(toClient[c], p, q) =>
           Both(toClient'[c], p, q) /\ {p, q} \subseteq Packets(toClient'[c])
  BY HearsKeeps
<1>1. CASE Free(c)
  <2>1. Free(c)'
    BY <1>0, <1>1 DEF Free
  <2> QED BY <2>1 DEF Agree, Listening
<1>2. CASE \E cmd \in Commands[c] :
             /\ Asks(c, cmd)
             /\ cmd.op = "RRQ" => cl[c].wholeFile = <<>>
             /\ ~cl[c].goingToFinish
             /\ Quiet(toClient[c])
             /\ EndsIn(toServer[c], cmd)
  <2>1. PICK cmd \in Commands[c] :
             /\ Asks(c, cmd)
             /\ cmd.op = "RRQ" => cl[c].wholeFile = <<>>
             /\ ~cl[c].goingToFinish
             /\ Quiet(toClient[c])
             /\ EndsIn(toServer[c], cmd)
    BY <1>2
  <2>2. Asks(c, cmd)' /\ EndsIn(toServer'[c], cmd) /\ Quiet(toClient'[c])
    BY <1>0, <2>1 DEF Asks
  <2> QED BY <2>1, <2>2 DEF Agree, Requested, Listening
<1>3. CASE Replied(c)
  <2>1. PICK cmd \in Commands[c] :
          /\ Asks(c, cmd)
          /\ cmd.op = "RRQ" => cl[c].wholeFile = <<>>
          /\ ~cl[c].goingToFinish
          /\ toServer[c] = <<>> /\ Settled(c)
          /\ \E p \in Packets(toClient[c]) : Reports(c, cmd, p)
    BY <1>3 DEF Replied
  <2>2. PICK p \in Packets(toClient[c]) : Reports(c, cmd, p)
    BY <2>1
  <2>3. p \in Packets(toClient'[c]) /\ Reports(c, cmd, p)'
    BY <1>0, <2>2 DEF Reports, IsBroadcast
  <2>4. Asks(c, cmd)'
    BY <2>1 DEF Asks
  <2>5. Replied(c)'
    BY <2>1, <2>3, <2>4 DEF Replied
  <2> QED BY <2>5 DEF Agree, Listening
<1>4. CASE \E cmd \in Commands[c] :
             /\ cmd.op = "RRQ" /\ cmd.file \in FileNames
             /\ Asks(c, cmd)
             /\ ~cl[c].goingToFinish
             /\ myConnectionState[c]
             /\ LastBlocks(c)
  <2>1. PICK cmd \in Commands[c] :
             /\ cmd.op = "RRQ" /\ cmd.file \in FileNames
             /\ Asks(c, cmd)
             /\ ~cl[c].goingToFinish
             /\ myConnectionState[c]
             /\ LastBlocks(c)
    BY <1>4
  <2>2. Asks(c, cmd)'
    BY <2>1 DEF Asks
  <2>3. LastBlocks(c)'
    BY <1>0, <2>1 DEF LastBlocks, FullBlock, ShortBlock, IsBroadcast
  <2> QED BY <2>1, <2>2, <2>3 DEF Agree, Downloading, Listening
<1> QED BY <1>1, <1>2, <1>3, <1>4 DEF Listening

\* The phases in which the thread works for the client, or waits for a block.
AtWork(c, cmd) ==
  /\ cmd \in Commands[c]
  /\ Asks(c, cmd)
  /\ cmd.op = "RRQ" => cl[c].wholeFile = <<>>
  /\ ~cl[c].goingToFinish
  /\ Quiet(toClient[c])
  /\ Working(c, cmd)

Sends(c, cmd) ==
  /\ cmd \in Commands[c]
  /\ cmd.op = "RRQ" /\ cmd.file \in FileNames
  /\ Asks(c, cmd)
  /\ ~cl[c].goingToFinish
  /\ myConnectionState[c]
  /\ MoreBlocks(c)

LEMMA Phases ==
  ASSUME NEW c \in Conns
  PROVE  Agree(c) <=> \/ Listening(c)
                      \/ \E cmd \in Commands[c] : AtWork(c, cmd) \/ Sends(c, cmd)
                      \/ Uploading(c)
<1>1. Requested(c) <=>
        \/ /\ Settled(c)
           /\ \E cmd \in Commands[c] :
                /\ Asks(c, cmd)
                /\ cmd.op = "RRQ" => cl[c].wholeFile = <<>>
                /\ ~cl[c].goingToFinish
                /\ Quiet(toClient[c])
                /\ EndsIn(toServer[c], cmd)
        \/ \E cmd \in Commands[c] : AtWork(c, cmd)
  BY Zenon DEF Requested, AtWork
<1>2. Downloading(c) <=>
        \/ /\ Settled(c)
           /\ \E cmd \in Commands[c] :
                /\ cmd.op = "RRQ" /\ cmd.file \in FileNames
                /\ Asks(c, cmd)
                /\ ~cl[c].goingToFinish
                /\ myConnectionState[c]
                /\ LastBlocks(c)
        \/ \E cmd \in Commands[c] : Sends(c, cmd)
  BY Zenon DEF Downloading, Sends, LastBlocks
<1>3. /\ Free(c) => Settled(c)
      /\ Replied(c) => Settled(c)
  BY DEF Free, Replied
<1> QED BY <1>1, <1>2, <1>3, Zenon DEF Agree, Listening

LEMMA WorkAgrees ==
  ASSUME NEW c \in Conns, NEW cmd
  PROVE  /\ AtWork(c, cmd)' => Agree(c)'
         /\ Sends(c, cmd)' => Agree(c)'
<1>1. AtWork(c, cmd)' => Requested(c)'
  BY DEF AtWork, Requested
<1>2. Sends(c, cmd)' => Downloading(c)'
  BY DEF Sends, Downloading
<1> QED BY <1>1, <1>2 DEF Agree

\* Nothing of the thread or of the client has moved.
Unmoved(c) ==
  /\ pc'[c] = pc[c] /\ message'[c] = message[c] /\ found'[c] = found[c]
  /\ toDownload'[c] = toDownload[c]
  /\ goingToBeReceived'[c] = goingToBeReceived[c]
  /\ myConnectionState'[c] = myConnectionState[c]
  /\ cl'[c] = cl[c] /\ toServer'[c] = toServer[c]
  /\ Hears(c)

LEMMA AgreeKept ==
  ASSUME C!TypeOK, NEW c \in Conns, Agree(c), Admitted(c), Unmoved(c)
  PROVE  Agree(c)' /\ Admitted(c)'
<1>0. /\ Quiet(toClient[c]) => Quiet(toClient'[c])
      /\ \A p : ~IsBroadcast(p) /\ Only(toClient[c], p) =>
           Only(toClient'[c], p) /\ p \in Packets(toClient'[c])
  BY HearsKeeps DEF Unmoved
<1>1. Admitted(c)'
  BY DEF Admitted, Unmoved
<1>2. CASE Listening(c)
  <2>1. Settled(c)'
    BY <1>2 DEF Listening, Settled, Unmoved
  <2> QED BY <1>1, <1>2, <2>1, ListeningKept DEF Unmoved
<1>3. ASSUME NEW cmd \in Commands[c], AtWork(c, cmd)
      PROVE  Agree(c)'
  <2>1. AtWork(c, cmd)'
    BY <1>0, <1>3 DEF AtWork, Working, Asks, Unmoved
  <2> QED BY <2>1, WorkAgrees
<1>4. ASSUME NEW cmd \in Commands[c], Sends(c, cmd)
      PROVE  Agree(c)'
  <2>1. MoreBlocks(c)'
    BY <1>0, <1>4 DEF Sends, MoreBlocks, FullBlock, IsBroadcast, Unmoved
  <2>2. Asks(c, cmd)'
    BY <1>4 DEF Sends, Asks, Unmoved
  <2>3. Sends(c, cmd)'
    BY <1>4, <2>1, <2>2 DEF Sends, Unmoved
  <2> QED BY <2>3, WorkAgrees
<1>5. CASE Uploading(c)
  <2>1. Awaiting(c) => Awaiting(c)'
    BY <1>0 DEF Awaiting, IsBroadcast, Unmoved
  <2>2. NothingSent(c) => NothingSent(c)'
    BY <1>0 DEF NothingSent, Unmoved
  <2>3. /\ Sending(c) => Sending(c)'
        /\ Arrived(c) => Arrived(c)'
        /\ Writing(c) => Writing(c)'
    BY <1>0 DEF Sending, Arrived, Writing, Sent, C!Uploaded, Unmoved
  <2>4. Saved(c) => Saved(c)'
    BY <1>0 DEF Saved, C!Uploaded, IsBroadcast, Unmoved
  <2>5. \A cmd : Asks(c, cmd) => Asks(c, cmd)'
    BY DEF Asks, Unmoved
  <2>6. myConnectionState[c] => myConnectionState'[c]
    BY DEF Unmoved
  <2>7. /\ toDownload'[c] = toDownload[c]
        /\ goingToBeReceived'[c] = goingToBeReceived[c]
    BY DEF Unmoved
  <2>8. Uploading(c)'
    <3> HIDE DEF Put, Saved, Awaiting, NothingSent, Sending, Arrived, Writing, Asks
    <3> QED BY <1>5, <2>1, <2>2, <2>3, <2>4, <2>5, <2>6, <2>7 DEF Uploading
  <2> QED BY <1>1, <2>8 DEF Agree
<1> QED BY <1>1, <1>2, <1>3, <1>4, <1>5, Phases

-----------------------------------------------------------------------------
(* The steps of the thread itself, phase by phase.                         *)

Resting(c) == pc[c] \in {"bcast", "deliver", "listen", "dead"}

\* The actions of a settled thread.
SettledSteps(c) ==
  \/ RunAdd(c) \/ RunPut(c) \/ Close(c) \/ LogrqNext(c) \/ LogrqEnd(c)
  \/ AckIgnored(c) \/ BcastNext(c) \/ BcastDeliver(c) \/ BcastLost(c)
  \/ BcastEnd(c) \/ IteratorFails(c)

LEMMA SettledActs ==
  ASSUME NEW c \in Conns, Thread(c), Settled(c), Admitted(c)
  PROVE  SettledSteps(c)
<1>1. /\ pc[c] \notin {"put", "ack", "rrq", "length", "read", "write", "del", "disc"}
      /\ pc[c] = "decode" => /\ message[c].op = "ACK" /\ myConnectionState[c]
                             /\ toDownload[c] = NONE
  BY DEF Settled, Admitted
<1> USE <1>1 DEF SettledSteps, Processing, Receiving
<1>2. CASE Login(c)
  BY <1>2 DEF Login, LogrqAgain, LogrqBegin, LogrqPut, LogrqAck
<1>3. CASE Download(c)
  BY <1>3 DEF Download, RrqRefused, RrqFound, RrqOpen, RrqLength, RrqRead, RrqGone,
              AckMore, Dirq, DirqTooLong
<1>4. CASE Upload(c)
  BY <1>4 DEF Upload, WrqRefused, WrqAccepted, DataIgnored, DataOversize,
              DataFull, DataLast, DataWrite
<1>5. CASE Delete(c)
  BY <1>5 DEF Delete, DelrqRefused, DelrqFound, DelrqDelete
<1>6. CASE Broadcast(c)
  BY <1>6 DEF Broadcast
<1>7. CASE Other(c)
  BY <1>7 DEF Other, NotLoggedIn, Error, BcastIn, DiscBegin, DiscNext, DiscEnd
<1>8. CASE RunAdd(c) \/ RunPut(c) \/ Close(c)
  BY <1>8
<1> QED BY <1>2, <1>3, <1>4, <1>5, <1>6, <1>7, <1>8 DEF Thread

\* A settled thread stays settled, and its client hears broadcasts only.
LEMMA SettledStep ==
  ASSUME TypeOK, PcOK, C!TypeOK, NEW c \in Conns, SystemThread(c),
         ReplyAt(c), Settled(c), Admitted(c)
  PROVE  /\ Settled(c)' /\ Hears(c) /\ disk' = disk
         /\ Resting(c) => Resting(c)'
<1>0. SettledSteps(c)
  BY SettledActs DEF SystemThread
<1>1. toDownload[c] = NONE
  BY DEF Settled
<1> USE DEF Goto, Resting, download, disk
<1>2. CASE RunAdd(c) \/ RunPut(c) \/ Close(c)
  <2>1. pc'[c] \in {"adding", "listen", "closed"} /\ toDownload' = toDownload
    BY <1>2 DEF RunAdd, RunPut, Close, TypeOK
  <2>2. out' = out /\ disk' = disk /\ ~Resting(c)
    BY <1>2 DEF RunAdd, RunPut, Close
  <2> QED BY <1>1, <2>1, <2>2, SilentReaches DEF Settled, Hears
<1>3. CASE LogrqNext(c)
  <2>1. pc[c] = "logrq" /\ found[c] # {}
    BY <1>3 DEF LogrqNext, Settled
  <2>2. message[c].user \notin iter[c]
    BY <2>1 DEF ReplyAt
  <2>3. out' = out /\ found' = found /\ pc' = pc /\ toDownload' = toDownload
        /\ disk' = disk
    BY <1>3, <2>2 DEF LogrqNext
  <2> QED BY <1>1, <2>1, <2>3, SilentReaches DEF Settled, Hears
<1>4. CASE LogrqEnd(c)
  <2>1. pc[c] = "logrq" /\ found[c] # {}
    BY <1>4 DEF LogrqEnd, Settled
  <2>2. pc'[c] = "listen" /\ toDownload' = toDownload /\ out' = out /\ disk' = disk
    BY <1>4, <2>1 DEF LogrqEnd, TypeOK
  <2> QED BY <1>1, <2>2, SilentReaches DEF Settled, Hears
<1>5. CASE AckIgnored(c) \/ BcastNext(c) \/ BcastLost(c) \/ BcastEnd(c) \/ IteratorFails(c)
  <2>1. /\ pc'[c] \in {"listen", "deliver", "bcast", "dead"}
        /\ toDownload' = toDownload /\ out' = out /\ disk' = disk
    BY <1>5 DEF AckIgnored, BcastNext, BcastLost, BcastEnd, IteratorFails, Die, TypeOK
  <2> QED BY <1>1, <2>1, SilentReaches DEF Settled, Hears
<1>6. CASE BcastDeliver(c)
  <2>1. pc'[c] = "bcast" /\ toDownload' = toDownload /\ disk' = disk
    BY <1>6 DEF BcastDeliver, TypeOK
  <2>2. Hears(c)
    BY <1>6, BroadcastReaches DEF BcastDeliver
  <2> QED BY <1>1, <2>1, <2>2 DEF Settled
<1> QED BY <1>0, <1>2, <1>3, <1>4, <1>5, <1>6 DEF SettledSteps

\* What a thread does for a command: go on, refuse, acknowledge, list, begin
\* an upload or a download.
Continues(c) ==
  \/ LogrqBegin(c) \/ LogrqEnd(c) \/ LogrqPut(c) \/ RrqFound(c) \/ RrqOpen(c)
  \/ RrqGone(c) \/ DirqTooLong(c) \/ DelrqFound(c) \/ DiscBegin(c) \/ DiscNext(c)
  \/ IteratorFails(c)
Refuses(c) ==
  NotLoggedIn(c) \/ LogrqAgain(c) \/ RrqRefused(c) \/ WrqRefused(c) \/ DelrqRefused(c)
Acknowledging(c) == LogrqAck(c) \/ DelrqDelete(c) \/ DiscEnd(c)
WorkSteps(c) ==
  \/ Continues(c) \/ LogrqNext(c) \/ Refuses(c) \/ Acknowledging(c) \/ Dirq(c)
  \/ WrqAccepted(c) \/ RrqLength(c) \/ RrqRead(c)

\* A command is a request of the user.
LEMMA CommandFields ==
  ASSUME NEW c \in Conns, NEW cmd \in Commands[c]
  PROVE  /\ cmd \in Request
         /\ cmd.op \in C!Ops
         /\ C!Argument(cmd) # NONE
         /\ cmd.op \in {"RRQ", "WRQ", "DELRQ"} =>
              C!Argument(cmd) = cmd.file /\ cmd.file \in Names
<1>1. cmd \in Request /\ cmd.op \in C!Ops
  BY CommandsAssumption, ServerAssumption
<1> QED BY <1>1, RequestFields, NameAssumption, ServerAssumption
        DEF C!Ops, C!Argument, Names

LEMMA WorkActs ==
  ASSUME NEW c \in Conns, NEW cmd \in Commands[c], Thread(c), Working(c, cmd)
  PROVE  WorkSteps(c)
<1>1. /\ pc[c] \in {"decode", "logrq", "put", "ack", "rrq", "length", "read", "del",
                    "disc", "dead"}
      /\ message[c].op \in {"LOGRQ", "RRQ", "WRQ", "DELRQ", "DIRQ", "DISC"}
  BY CommandFields DEF Working, C!Ops
<1> USE <1>1 DEF WorkSteps, Continues, Refuses, Acknowledging, Processing, Receiving
<1>2. CASE Login(c)
  BY <1>2 DEF Login
<1>3. CASE Download(c)
  BY <1>3 DEF Download, AckMore, AckIgnored
<1>4. CASE Upload(c)
  BY <1>4 DEF Upload, DataIgnored, DataOversize, DataFull, DataLast, DataWrite
<1>5. CASE Delete(c)
  BY <1>5 DEF Delete
<1>6. CASE Broadcast(c)
  BY <1>6 DEF Broadcast, BcastNext, BcastDeliver, BcastLost, BcastEnd
<1>7. CASE Other(c)
  BY <1>7 DEF Other, Error, BcastIn
<1>8. CASE RunAdd(c) \/ RunPut(c) \/ Close(c)
  BY <1>8 DEF RunAdd, RunPut, Close
<1> QED BY <1>2, <1>3, <1>4, <1>5, <1>6, <1>7, <1>8 DEF Thread

\* The command is answered by one packet.
LEMMA OnePacket ==
  ASSUME C!TypeOK, NEW c \in Conns, NEW cmd, AtWork(c, cmd),
         cl'[c] = cl[c], toServer'[c] = toServer[c], Settled(c)',
         NEW p \in Packet, toClient'[c] = Append(toClient[c], p),
         \/ p.op = "ERROR"
         \/ p.op = "ACK" /\ cmd.op \in {"LOGRQ", "DISC", "DELRQ"}
         \/ /\ p.op = "LIST" /\ cmd.op = "DIRQ" /\ myConnectionState'[c]
            /\ ListingBytes(p.names) < ListingSize
  PROVE  Replied(c)'
<1>1. Quiet(toClient[c]) /\ toClient[c] \in Seq(Packet)
  BY ClientTypes DEF AtWork
<1>2. Only(toClient'[c], p) /\ p \in Packets(toClient'[c])
  BY <1>1, HearAnswer
<1>3. Reports(c, cmd, p)'
  BY <1>2 DEF Reports
<1>4. Asks(c, cmd)' /\ cmd \in Commands[c]
  BY DEF AtWork, Asks
<1> QED BY <1>2, <1>3, <1>4 DEF Replied, AtWork, Working

\* A buffer that is cut is put together again.
LEMMA CutJoins ==
  ASSUME NEW buf \in Seq(Bytes), Len(buf) >= BlockSize
  PROVE  Prefix(buf) \o Suffix(buf) = buf
<1> DEFINE s == Prefix(buf)
           t == Suffix(buf)
<1>1. /\ BlockSize \in Nat /\ Len(buf) \in Nat
      /\ s \in Seq(Bytes) /\ Len(s) = BlockSize
      /\ t \in Seq(Bytes) /\ Len(t) = Len(buf) - BlockSize
  BY BlockAssumption, Cuts
<1>2. /\ \A i \in 1 .. Len(s) : s[i] = buf[i]
      /\ \A i \in 1 .. Len(t) : t[i] = buf[BlockSize + i]
  BY BlockAssumption DEF Prefix, Suffix
<1> HIDE DEF s, t
<1>3. /\ s \o t \in Seq(Bytes) /\ Len(s \o t) = Len(buf)
      /\ \A i \in 1 .. Len(s) + Len(t) :
           (s \o t)[i] = IF i <= Len(s) THEN s[i] ELSE t[i - Len(s)]
  BY <1>1
<1>4. ASSUME NEW i \in 1 .. Len(s \o t) PROVE (s \o t)[i] = buf[i]
  <2>1. CASE i <= Len(s)
    BY <1>1, <1>2, <1>3, <2>1
  <2>2. CASE i > Len(s)
    <3>1. i - Len(s) \in 1 .. Len(t) /\ BlockSize + (i - Len(s)) = i
      BY <1>1, <1>3, <2>2
    <3>2. (s \o t)[i] = t[i - Len(s)]
      BY <1>1, <1>3, <2>2
    <3> QED BY <1>2, <3>1, <3>2
  <2> QED BY <1>1, <1>3, <2>1, <2>2
<1>5. s \o t = buf
  BY <1>3, <1>4, SeqEqual
<1> QED BY <1>5 DEF s, t

\* The blocks one call of handleReadingACK sends.
LEMMA BlocksSent ==
  ASSUME NEW buf \in Seq(Bytes), NEW n \in BlockNum
  PROVE  /\ Len(buf) < BlockSize =>
              \E q \in Packet :
                /\ BlocksOf(buf, n) = <<q>> /\ ShortBlock(q) /\ q.data = buf
                /\ BufferAfter(buf) = NONE
         /\ Len(buf) >= BlockSize /\ Len(buf) < 2 * BlockSize =>
              \E p, q \in Packet :
                /\ BlocksOf(buf, n) = <<p, q>> /\ FullBlock(p) /\ ShortBlock(q)
                /\ p.data \o q.data = buf
                /\ BufferAfter(buf) = NONE
         /\ Len(buf) >= 2 * BlockSize =>
              \E p \in Packet :
                /\ BlocksOf(buf, n) = <<p>> /\ FullBlock(p)
                /\ p.data \o BufferAfter(buf) = buf
                /\ BufferAfter(buf) \in Seq(Bytes)
                /\ Len(BufferAfter(buf)) >= BlockSize
<1> DEFINE p == DataPacket(n, Prefix(buf))
           q == DataPacket(NextBlock(n), Suffix(buf))
           r == DataPacket(n, buf)
<1>1. BlockSize \in Nat /\ BlockSize > 0 /\ Len(buf) \in Nat
  BY BlockAssumption
<1>2. /\ p.op = "DATA" /\ p.data = Prefix(buf)
      /\ q.op = "DATA" /\ q.data = Suffix(buf)
      /\ r.op = "DATA" /\ r.data = buf
  BY DEF DataPacket
<1>3. Len(buf) >= BlockSize =>
        /\ Prefix(buf) \in Seq(Bytes) /\ Len(Prefix(buf)) = BlockSize
        /\ Suffix(buf) \in Seq(Bytes) /\ Len(Suffix(buf)) = Len(buf) - BlockSize
        /\ Prefix(buf) \o Suffix(buf) = buf
  BY Cuts, CutJoins
<1>4. /\ r \in Packet
      /\ Len(buf) >= BlockSize => p \in Packet /\ q \in Packet
  BY <1>3, PacketTypes, BlockNumbers
<1>5. /\ Len(buf) < BlockSize => BlocksOf(buf, n) = <<r>> /\ BufferAfter(buf) = NONE
      /\ Len(buf) >= BlockSize /\ Len(buf) < 2 * BlockSize =>
           BlocksOf(buf, n) = <<p, q>> /\ BufferAfter(buf) = NONE
      /\ Len(buf) >= 2 * BlockSize =>
           BlocksOf(buf, n) = <<p>> /\ BufferAfter(buf) = Suffix(buf)
  BY <1>1 DEF BlocksOf, BufferAfter
<1> HIDE DEF p, q, r
<1>6. /\ Len(buf) < BlockSize => ShortBlock(r)
      /\ Len(buf) >= BlockSize => FullBlock(p)
      /\ Len(buf) >= BlockSize /\ Len(buf) < 2 * BlockSize => ShortBlock(q)
  BY <1>1, <1>2, <1>3 DEF FullBlock, ShortBlock
<1>7. ASSUME Len(buf) < BlockSize
      PROVE  \E w \in Packet :
               /\ BlocksOf(buf, n) = <<w>> /\ ShortBlock(w) /\ w.data = buf
               /\ BufferAfter(buf) = NONE
  BY <1>2, <1>4, <1>5, <1>6, <1>7
<1>8. ASSUME Len(buf) >= BlockSize, Len(buf) < 2 * BlockSize
      PROVE  \E v, w \in Packet :
               /\ BlocksOf(buf, n) = <<v, w>> /\ FullBlock(v) /\ ShortBlock(w)
               /\ v.data \o w.data = buf
               /\ BufferAfter(buf) = NONE
  <2>1. p.data \o q.data = buf
    BY <1>2, <1>3, <1>8
  <2> QED BY <1>4, <1>5, <1>6, <1>8, <2>1
<1>9. ASSUME Len(buf) >= 2 * BlockSize
      PROVE  \E v \in Packet :
               /\ BlocksOf(buf, n) = <<v>> /\ FullBlock(v)
               /\ v.data \o BufferAfter(buf) = buf
               /\ BufferAfter(buf) \in Seq(Bytes)
               /\ Len(BufferAfter(buf)) >= BlockSize
  <2>1. Len(buf) >= BlockSize /\ Len(buf) - BlockSize >= BlockSize
    BY <1>1, <1>9
  <2>2. p.data \o BufferAfter(buf) = buf
    BY <1>2, <1>3, <1>5, <1>9, <2>1
  <2>3. BufferAfter(buf) \in Seq(Bytes) /\ Len(BufferAfter(buf)) >= BlockSize
    BY <1>3, <1>5, <1>9, <2>1
  <2> QED BY <1>4, <1>5, <1>6, <1>9, <2>1, <2>2, <2>3
<1> QED BY <1>7, <1>8, <1>9

\* One call of handleReadingACK puts the last blocks into the channel, or a
\* full one with more to come.
LEMMA ReadingSends ==
  ASSUME TypeOK, RouteOK, Serial, C!TypeOK, NEW c \in Conns, SystemThread(c),
         pc[c] \in {"read", "decode"}, NEW buf \in Seq(Bytes),
         HandleReadingACK(c, buf), Quiet(toClient[c]), toServer[c] = <<>>
  PROVE  LastBlocks(c)' \/ MoreBlocks(c)'
<1>1. blockNum[c] \in BlockNum /\ toClient[c] \in Seq(Packet)
  BY ClientTypes DEF TypeOK
<1>2. toClient'[c] = toClient[c] \o BlocksOf(buf, blockNum[c])
  BY <1>1, BlocksType, SendReaches DEF HandleReadingACK
<1>3. /\ toDownload'[c] = BufferAfter(buf) /\ pc'[c] = "listen"
      /\ toServer'[c] = <<>>
  BY DEF HandleReadingACK, Goto, TypeOK, SystemThread
<1>4. CASE Len(buf) < BlockSize
  <2>1. PICK q \in Packet : /\ BlocksOf(buf, blockNum[c]) = <<q>> /\ ShortBlock(q)
                            /\ BufferAfter(buf) = NONE
    BY <1>1, <1>4, BlocksSent
  <2>2. toClient'[c] = Append(toClient[c], q)
    BY <1>1, <1>2, <2>1
  <2>3. Only(toClient'[c], q) /\ q \in Packets(toClient'[c])
    BY <1>1, <2>2, HearAnswer
  <2>4. Settled(c)' /\ Acks(toServer'[c])
    BY <1>3, <2>1 DEF Settled, Acks
  <2> QED BY <2>1, <2>3, <2>4 DEF LastBlocks
<1>5. CASE Len(buf) >= BlockSize /\ Len(buf) < 2 * BlockSize
  <2>1. PICK p, q \in Packet : /\ BlocksOf(buf, blockNum[c]) = <<p, q>>
                               /\ FullBlock(p) /\ ShortBlock(q)
                               /\ BufferAfter(buf) = NONE
    BY <1>1, <1>5, BlocksSent
  <2>2. toClient'[c] = toClient[c] \o <<p, q>>
    BY <1>2, <2>1
  <2>3. Both(toClient'[c], p, q) /\ p \in Packets(toClient'[c]) /\ q \in Packets(toClient'[c])
    BY <1>1, <2>2, HearAnswer
  <2>4. Settled(c)'
    BY <1>3, <2>1 DEF Settled
  <2> QED BY <1>3, <2>1, <2>3, <2>4 DEF LastBlocks
<1>6. CASE Len(buf) >= 2 * BlockSize
  <2>1. PICK p \in Packet : /\ BlocksOf(buf, blockNum[c]) = <<p>> /\ FullBlock(p)
                            /\ BufferAfter(buf) \in Seq(Bytes)
                            /\ Len(BufferAfter(buf)) >= BlockSize
    BY <1>1, <1>6, BlocksSent
  <2>2. toClient'[c] = Append(toClient[c], p)
    BY <1>1, <1>2, <2>1
  <2>3. Only(toClient'[c], p) /\ p \in Packets(toClient'[c])
    BY <1>1, <2>2, HearAnswer
  <2>4. toDownload'[c] # NONE
    BY <1>3, <2>1, NameAssumption
  <2> QED BY <1>3, <2>1, <2>3, <2>4 DEF MoreBlocks
<1>7. BlockSize \in Nat /\ Len(buf) \in Nat
  BY BlockAssumption
<1> QED BY <1>4, <1>5, <1>6, <1>7

\* A thread with a command at hand goes on, or has answered it.
LEMMA WorkStep ==
  ASSUME TypeOK, PcOK, RouteOK, Serial, C!TypeOK, NEW c \in Conns,
         SystemThread(c), ReplyAt(c), Admitted(c), NEW cmd, AtWork(c, cmd)
  PROVE  Agree(c)'
<1>0. /\ cmd \in Commands[c] /\ Working(c, cmd) /\ Thread(c)
      /\ message[c] = cmd /\ toServer[c] = <<>>
      /\ toDownload[c] = NONE \/ pc[c] = "read"
      /\ Quiet(toClient[c]) /\ PcAt(c)
  BY DEF AtWork, Working, SystemThread, PcOK
<1>1. cmd \in Request /\ WorkSteps(c)
  BY <1>0, CommandFields, WorkActs
<1>2. cl' = cl /\ toServer' = toServer
  BY DEF SystemThread
<1>3. message' = message /\ (myConnectionState[c] => myConnectionState'[c])
  BY <1>0, ThreadFrame
<1>4. \A op : Asks(c, op) => Asks(c, op)'
  BY <1>2 DEF Asks
<1> USE DEF Goto, download
<1>5. ASSUME out' = out, Working(c, cmd)' PROVE Agree(c)'
  <2>1. toClient' = toClient
    BY <1>5, SilentReaches
  <2>2. AtWork(c, cmd)'
    BY <1>2, <1>4, <1>5, <2>1 DEF AtWork
  <2> QED BY <2>2, WorkAgrees
<1>6. ASSUME NEW p \in Packet, Reply(c, p), Settled(c)',
             pc[c] \notin {"idle", "start", "adding", "closed", "dead"},
             \/ p.op = "ERROR"
             \/ p.op = "ACK" /\ cmd.op \in {"LOGRQ", "DISC", "DELRQ"}
             \/ /\ p.op = "LIST" /\ cmd.op = "DIRQ" /\ myConnectionState'[c]
                /\ ListingBytes(p.names) < ListingSize
      PROVE  Agree(c)'
  <2>1. toClient'[c] = Append(toClient[c], p)
    BY <1>6, ReplyReaches
  <2>2. Replied(c)'
    BY <1>2, <1>6, <2>1, OnePacket
  <2> QED BY <2>2 DEF Agree
<1>7. CASE Continues(c)
  <2>1. out' = out /\ toDownload' = toDownload /\ pc[c] # "read"
    BY <1>7 DEF Continues, LogrqBegin, LogrqEnd, LogrqPut, RrqFound, RrqOpen, RrqGone,
                DirqTooLong, DelrqFound, DiscBegin, DiscNext, IteratorFails, Die,
                Processing
  <2>2. \/ pc'[c] \in {"put", "ack", "rrq", "length", "del", "disc", "dead"}
        \/ pc'[c] = "logrq" /\ found'[c] = {}
    <3>1. CASE LogrqEnd(c)
      <4>1. found[c] = {}
        BY <1>0, <3>1 DEF Working, LogrqEnd
      <4> QED BY <3>1, <4>1 DEF LogrqEnd, TypeOK
    <3>2. CASE DiscNext(c)
      BY <3>2 DEF DiscNext
    <3>3. CASE LogrqBegin(c)
      BY <3>3 DEF LogrqBegin, StartLoop, TypeOK
    <3> QED BY <1>7, <3>1, <3>2, <3>3 DEF Continues, LogrqPut, RrqFound, RrqOpen,
                  RrqGone, DirqTooLong, DelrqFound, DiscBegin, IteratorFails, Die, TypeOK
  <2>3. Working(c, cmd)'
    BY <1>0, <1>2, <1>3, <2>1, <2>2 DEF Working
  <2> QED BY <1>5, <2>1, <2>3
<1>8. CASE LogrqNext(c)
  <2>1. PICK u \in iter[c] :
          IF u = message[c].user
          THEN Reply(c, ErrorPacket(7)) /\ found' = [found EXCEPT ![c] = {u}]
          ELSE UNCHANGED <<out, found>>
    BY <1>8 DEF LogrqNext
  <2>2. pc[c] = "logrq" /\ pc' = pc /\ toDownload' = toDownload /\ found[c] = {}
    BY <1>0, <1>8 DEF LogrqNext, Working
  <2>3. CASE u = message[c].user
    <3>1. Settled(c)'
      <4>1. found'[c] = {u}
        BY <2>1, <2>3 DEF TypeOK
      <4> QED BY <1>0, <2>2, <4>1 DEF Settled
    <3>2. ErrorPacket(7) \in Packet /\ ErrorPacket(7).op = "ERROR"
      BY PacketTypes DEF ErrorPacket
    <3> QED BY <1>6, <2>1, <2>2, <2>3, <3>1, <3>2
  <2>4. CASE u # message[c].user
    <3>1. Working(c, cmd)'
      BY <1>0, <1>2, <1>3, <2>1, <2>2, <2>4 DEF Working
    <3> QED BY <1>5, <2>1, <2>4, <3>1
  <2> QED BY <2>3, <2>4
<1>9. CASE Refuses(c)
  <2>1. PICK code \in 0 .. 7 : Reply(c, ErrorPacket(code))
    BY <1>9 DEF Refuses, NotLoggedIn, LogrqAgain, RrqRefused, WrqRefused,
                DelrqRefused, Answer
  <2>2. pc[c] = "decode" /\ pc'[c] = "listen" /\ toDownload' = toDownload
    BY <1>9 DEF Refuses, NotLoggedIn, LogrqAgain, RrqRefused, WrqRefused,
                DelrqRefused, Answer, Processing, TypeOK
  <2>3. Settled(c)'
    BY <1>0, <2>2 DEF Settled
  <2>4. ErrorPacket(code) \in Packet /\ ErrorPacket(code).op = "ERROR"
    BY PacketTypes DEF ErrorPacket
  <2> QED BY <1>6, <2>1, <2>2, <2>3, <2>4
<1>10. CASE Acknowledging(c)
  <2>1. /\ Reply(c, AckPacket(0))
        /\ pc[c] \in {"ack", "del", "disc"}
        /\ pc'[c] \in {"listen", "bcast", "exit"} /\ toDownload' = toDownload
    BY <1>10 DEF Acknowledging, LogrqAck, DelrqDelete, DiscEnd, TypeOK
  <2>2. cmd.op \in {"LOGRQ", "DISC", "DELRQ"}
    <3>1. CASE pc[c] \in {"ack", "del"}
      BY <1>0, <3>1 DEF PcAt
    <3>2. CASE pc[c] = "disc"
      BY <1>0, <3>2 DEF ReplyAt
    <3> QED BY <2>1, <3>1, <3>2
  <2>3. Settled(c)'
    BY <1>0, <2>1 DEF Settled
  <2>4. AckPacket(0) \in Packet /\ AckPacket(0).op = "ACK"
    BY PacketTypes, BlockNumbers DEF AckPacket
  <2> QED BY <1>6, <2>1, <2>2, <2>3, <2>4
<1>11. CASE Dirq(c)
  <2>1. /\ Reply(c, ListPacket(OnDisk)) /\ pc[c] = "decode" /\ cmd.op = "DIRQ"
        /\ myConnectionState[c] /\ pc'[c] = "listen" /\ toDownload' = toDownload
    BY <1>0, <1>11 DEF Dirq, Answer, Processing, TypeOK
  <2>2. OnDisk \in SUBSET FileNames
    BY DEF OnDisk
  <2>3. /\ ListPacket(OnDisk) \in Packet /\ ListPacket(OnDisk).op = "LIST"
        /\ ListPacket(OnDisk).names = OnDisk
    BY <2>2, PacketTypes DEF ListPacket
  <2>5. ListingBytes(ListPacket(OnDisk).names) < ListingSize
    BY <1>11, <2>3 DEF Dirq
  <2>4. Settled(c)'
    BY <1>0, <2>1 DEF Settled
  <2> QED BY <1>3, <1>6, <2>1, <2>3, <2>4, <2>5
<1>12. CASE WrqAccepted(c)
  <2> DEFINE f == cmd.file
  <2>1. /\ pc[c] = "decode" /\ cmd.op = "WRQ" /\ f \notin OnDisk \cup {EmptyName}
        /\ myConnectionState[c] /\ pc'[c] = "listen" /\ toDownload' = toDownload
        /\ goingToBeReceived'[c] = f /\ Reply(c, AckPacket(0))
    BY <1>0, <1>12 DEF WrqAccepted, Answer, Processing, TypeOK
  <2>2. f \in FileNames /\ cmd = Put(f)
    BY <1>1, <2>1 DEF Request, Names, Put
  <2>3. AckPacket(0) \in Packet /\ AckPacket(0).op = "ACK" /\ AckPacket(0).block = 0
    BY PacketTypes, BlockNumbers DEF AckPacket
  <2>4. toClient'[c] = Append(toClient[c], AckPacket(0))
    BY <2>1, <2>3, ReplyReaches
  <2>5. toClient[c] \in Seq(Packet)
    BY ClientTypes
  <2>6. /\ Only(toClient'[c], AckPacket(0))
        /\ AckPacket(0) \in Packets(toClient'[c])
    BY <1>0, <2>3, <2>4, <2>5, HearAnswer
  <2>7. ~cl'[c].goingToFinish /\ Asks(c, Put(f))'
    BY <1>2, <1>4, <2>2 DEF AtWork
  <2>8. Awaiting(c)'
    BY <1>0, <1>2, <2>1, <2>3, <2>6, <2>7 DEF Awaiting
  <2>9. myConnectionState'[c]
    BY <1>3, <2>1
  <2>10. Put(f) \in Commands[c]
    BY <1>0, <2>2
  <2>11. toDownload'[c] = NONE
    BY <1>0, <2>1
  <2>12. Uploading(c)'
    <3> HIDE DEF f, Put, Asks, Awaiting
    <3> QED BY <2>1, <2>2, <2>7, <2>8, <2>9, <2>10, <2>11 DEF Uploading
  <2> QED BY <2>12 DEF Agree
<1>13. CASE RrqRead(c)
  <2>1. pc[c] = "read"
    BY <1>13 DEF RrqRead
  <2>2. cmd.op = "RRQ" /\ cmd.file \in FileNames
    BY <1>0, <2>1 DEF PcAt
  <2>3. PICK buf \in Seq(Bytes) : HandleReadingACK(c, buf)
    BY <1>13, ReadingBuffer
  <2>4. LastBlocks(c)' \/ MoreBlocks(c)'
    BY <1>0, <2>1, <2>3, ReadingSends
  <2>5. Asks(c, cmd)' /\ ~cl'[c].goingToFinish
    BY <1>2, <1>4 DEF AtWork
  <2>6. myConnectionState'[c]
    BY <1>3, <2>1 DEF Admitted
  <2>7. Downloading(c)'
    <3> HIDE DEF Asks, LastBlocks, MoreBlocks
    <3> QED BY <1>0, <2>2, <2>4, <2>5, <2>6 DEF Downloading
  <2> QED BY <2>7 DEF Agree
<1>14. CASE RrqLength(c)
  <2>1. out' = out /\ pc'[c] = "read"
    BY <1>14 DEF RrqLength, TypeOK
  <2>2. Working(c, cmd)'
    BY <1>0, <1>2, <1>3, <2>1 DEF Working
  <2> QED BY <1>5, <2>1, <2>2
<1> QED BY <1>1, <1>7, <1>8, <1>9, <1>10, <1>11, <1>12, <1>13, <1>14 DEF WorkSteps

-----------------------------------------------------------------------------
(* Downloads and uploads that go on.                                       *)

\* A thread that waits for its socket, or has ended, does nothing by itself.
LEMMA ThreadRuns ==
  ASSUME NEW c \in Conns, Thread(c)
  PROVE  pc[c] \notin {"idle", "listen", "deaf", "closed", "dead"}
<1> USE DEF Processing, Receiving
<1>1. CASE Login(c)
  BY <1>1 DEF Login, LogrqAgain, LogrqBegin, LogrqNext, LogrqEnd, LogrqPut, LogrqAck
<1>2. CASE Download(c)
  BY <1>2 DEF Download, RrqRefused, RrqFound, RrqOpen, RrqLength, RrqRead, RrqGone,
              AckMore, AckIgnored, Dirq, DirqTooLong
<1>3. CASE Upload(c)
  BY <1>3 DEF Upload, WrqRefused, WrqAccepted, DataIgnored, DataOversize,
              DataFull, DataLast, DataWrite
<1>4. CASE Delete(c)
  BY <1>4 DEF Delete, DelrqRefused, DelrqFound, DelrqDelete
<1>5. CASE Broadcast(c)
  BY <1>5 DEF Broadcast, BcastNext, BcastDeliver, BcastLost, BcastEnd
<1>6. CASE Other(c)
  BY <1>6 DEF Other, NotLoggedIn, IteratorFails, Error, BcastIn, DiscBegin,
              DiscNext, DiscEnd
<1>7. CASE RunAdd(c) \/ RunPut(c) \/ Close(c)
  BY <1>7 DEF RunAdd, RunPut, Close
<1> QED BY <1>1, <1>2, <1>3, <1>4, <1>5, <1>6, <1>7 DEF Thread

\* A thread that has decoded a packet of a transfer goes on with it.
LEMMA TransferActs ==
  ASSUME NEW c \in Conns, Thread(c), myConnectionState[c]
  PROVE  /\ pc[c] = "decode" /\ message[c].op = "ACK"
            /\ toDownload[c] \notin {NONE, <<>>} => AckMore(c)
         /\ pc[c] = "decode" /\ message[c].op = "DATA"
            /\ goingToBeReceived[c] # NONE =>
              DataOversize(c) \/ DataFull(c) \/ DataLast(c)
         /\ pc[c] = "write" => DataWrite(c)
<1>1. CASE pc[c] = "write"
  BY <1>1 DEF Thread, Processing, Receiving, Login, LogrqAgain, LogrqBegin, LogrqNext,
              LogrqEnd, LogrqPut, LogrqAck, Download, RrqRefused, RrqFound, RrqOpen,
              RrqLength, RrqRead, RrqGone, AckMore, AckIgnored, Dirq, DirqTooLong,
              Upload, WrqRefused,
              WrqAccepted, DataIgnored, DataOversize, DataFull, DataLast, Delete,
              DelrqRefused, DelrqFound, DelrqDelete, Broadcast, BcastNext,
              BcastDeliver, BcastLost, BcastEnd, Other, NotLoggedIn, IteratorFails,
              Error, BcastIn, DiscBegin, DiscNext, DiscEnd, RunAdd, RunPut, Close
<1>2. CASE pc[c] = "decode" /\ message[c].op \in {"ACK", "DATA"}
  <2> USE DEF Processing, Receiving
  <2>1. ~Login(c)
    BY <1>2 DEF Login, LogrqAgain, LogrqBegin, LogrqNext, LogrqEnd, LogrqPut, LogrqAck
  <2>2. Download(c) => AckMore(c) \/ AckIgnored(c)
    BY <1>2 DEF Download, RrqRefused, RrqFound, RrqOpen, RrqLength, RrqRead, RrqGone,
                Dirq, DirqTooLong
  <2>3. Upload(c) => \/ DataIgnored(c) \/ DataOversize(c) \/ DataFull(c) \/ DataLast(c)
    BY <1>2 DEF Upload, WrqRefused, WrqAccepted, DataWrite
  <2>4. ~Delete(c) /\ ~Broadcast(c)
    BY <1>2 DEF Delete, DelrqRefused, DelrqFound, DelrqDelete, Broadcast, BcastNext,
                BcastDeliver, BcastLost, BcastEnd
  <2>5. ~Other(c)
    BY <1>2 DEF Other, NotLoggedIn, IteratorFails, Error, BcastIn, DiscBegin,
                DiscNext, DiscEnd
  <2>6. ~RunAdd(c) /\ ~RunPut(c) /\ ~Close(c)
    BY <1>2 DEF RunAdd, RunPut, Close
  <2> QED BY <1>2, <2>1, <2>2, <2>3, <2>4, <2>5, <2>6
          DEF Thread, AckMore, AckIgnored, DataIgnored, DataOversize, DataFull, DataLast
<1> QED BY <1>1, <1>2

\* An ACK of a block makes the thread send the next ones.
LEMMA SendsStep ==
  ASSUME TypeOK, RouteOK, Serial, C!TypeOK, NEW c \in Conns, SystemThread(c),
         NEW cmd, Sends(c, cmd)
  PROVE  /\ Agree(c)'
         /\ pc[c] = "decode" /\ AckMore(c)
<1>0. Thread(c) /\ MoreBlocks(c) /\ myConnectionState[c]
  BY DEF SystemThread, Sends
<1>1. /\ pc[c] = "decode" /\ Quiet(toClient[c])
      /\ message[c].op = "ACK" /\ toServer[c] = <<>>
  BY <1>0, ThreadRuns DEF MoreBlocks
<1>2. toDownload[c] \in Seq(Bytes) /\ toDownload[c] # <<>>
  BY <1>0, BlockAssumption DEF MoreBlocks, TypeOK, MaybeData
<1>3. AckMore(c)
  BY <1>0, <1>1, <1>2, NameAssumption, TransferActs
<1>4. LastBlocks(c)' \/ MoreBlocks(c)'
  BY <1>1, <1>2, <1>3, ReadingSends DEF AckMore
<1>5. Asks(c, cmd)' /\ ~cl'[c].goingToFinish
  BY DEF Sends, Asks, SystemThread
<1>6. myConnectionState'[c]
  BY <1>0, ThreadFrame
<1>7. Downloading(c)'
  <2> HIDE DEF Asks, LastBlocks, MoreBlocks
  <2> QED BY <1>4, <1>5, <1>6 DEF Downloading, Sends
<1> QED BY <1>1, <1>3, <1>7 DEF Agree

\* A block of an upload is acknowledged, or stored when it is the last one.
LEMMA UploadStep ==
  ASSUME TypeOK, PcOK, RouteOK, Serial, C!TypeOK, NEW c \in Conns,
         SystemThread(c), ReplyAt(c), Admitted(c), Uploading(c)
  PROVE  Agree(c)'
<1>0. PICK f \in FileNames :
        /\ Put(f) \in Commands[c]
        /\ Asks(c, Put(f))
        /\ myConnectionState[c]
        /\ toDownload[c] = NONE
        /\ \/ Saved(c)
           \/ /\ goingToBeReceived[c] = f
              /\ Awaiting(c) \/ NothingSent(c) \/ Sending(c) \/ Arrived(c) \/ Writing(c)
  <2> HIDE DEF Put, Saved, Awaiting, NothingSent, Sending, Arrived, Writing, Asks
  <2> QED BY DEF Uploading
<1>1. Thread(c) /\ cl' = cl /\ toServer' = toServer
  BY DEF SystemThread
<1>2. message' = message /\ myConnectionState'[c]
  BY <1>0, <1>1, ThreadFrame
<1>3. Asks(c, Put(f))'
  BY <1>0, <1>1 DEF Asks
<1>4. ASSUME toDownload'[c] = NONE,
             \/ Saved(c)'
             \/ /\ goingToBeReceived'[c] = f
                /\ Awaiting(c)' \/ Writing(c)'
      PROVE  Agree(c)'
  <2>1. Uploading(c)'
    <3> HIDE DEF Put, Saved, Awaiting, Writing, Asks
    <3> QED BY <1>0, <1>2, <1>3, <1>4 DEF Uploading
  <2> QED BY <2>1 DEF Agree
<1> USE DEF Goto, download
<1>5. CASE Saved(c)
  <2>1. Settled(c) /\ Resting(c)
    BY <1>0, <1>5 DEF Saved, Settled, Resting
  <2>2. Settled(c)' /\ Hears(c) /\ Resting(c)'
    BY <2>1, SettledStep
  <2>3. PICK p \in Packets(toClient[c]) : p.op = "ACK" /\ Only(toClient[c], p)
    BY <1>5 DEF Saved
  <2>4. p \in Packets(toClient'[c]) /\ Only(toClient'[c], p)
    BY <2>2, <2>3, HearsKeeps DEF IsBroadcast
  <2>5. Saved(c)'
    BY <1>1, <1>5, <2>2, <2>3, <2>4 DEF Saved, Resting, C!Uploaded
  <2> QED BY <1>4, <2>2, <2>5 DEF Settled
<1>6. CASE Awaiting(c) \/ NothingSent(c) \/ Sending(c)
  BY <1>1, <1>6, ThreadRuns DEF Awaiting, NothingSent, Sending
<1>7. CASE Arrived(c) /\ goingToBeReceived[c] = f
  <2>1. /\ pc[c] = "decode" /\ Quiet(toClient[c]) /\ toServer[c] = <<>>
        /\ message[c].op = "DATA" /\ Sent(c, message[c])
    BY <1>1, <1>7, ThreadRuns DEF Arrived, Sent, FullBlock, ShortBlock
  <2>2. message[c] \in Request /\ message[c].data \in Seq(Bytes)
        /\ message[c].block \in BlockNum
    BY <2>1, RequestFields DEF PcOK, PcAt
  <2>3. f # NONE
    BY NameAssumption
  <2>4. Len(message[c].data) <= BlockSize
    BY <2>1, <2>2, BlockAssumption DEF Sent, FullBlock, ShortBlock
  <2>5. DataFull(c) \/ DataLast(c)
    <3>1. ~DataOversize(c)
      BY <2>2, <2>4, BlockAssumption DEF DataOversize
    <3> QED BY <1>0, <1>1, <1>7, <2>1, <2>3, <3>1, TransferActs
  <2>6. CASE DataFull(c)
    <3>1. /\ Reply(c, AckPacket(message[c].block)) /\ pc'[c] = "listen"
          /\ toDownload' = toDownload /\ goingToBeReceived' = goingToBeReceived
          /\ Len(message[c].data) = BlockSize
      BY <2>6 DEF DataFull, Answer, TypeOK
    <3>2. /\ AckPacket(message[c].block) \in Packet
          /\ AckPacket(message[c].block).op = "ACK"
      BY <2>2, PacketTypes DEF AckPacket
    <3>3. toClient'[c] = Append(toClient[c], AckPacket(message[c].block))
      BY <2>1, <3>1, <3>2, ReplyReaches
    <3>4. toClient[c] \in Seq(Packet)
      BY ClientTypes
    <3>5. /\ Only(toClient'[c], AckPacket(message[c].block))
          /\ AckPacket(message[c].block) \in Packets(toClient'[c])
      BY <2>1, <3>2, <3>3, <3>4, HearAnswer
    <3>6. cl[c].toSendVec # NONE /\ ~cl[c].goingToFinish
      BY <2>1, <3>1, BlockAssumption DEF Sent, FullBlock, ShortBlock
    <3>7. Awaiting(c)'
      BY <1>1, <2>1, <3>1, <3>2, <3>5, <3>6 DEF Awaiting
    <3> QED BY <1>0, <1>4, <1>7, <3>1, <3>7
  <2>7. CASE DataLast(c)
    <3>1. /\ out' = out /\ pc'[c] = "write"
          /\ toDownload' = toDownload /\ goingToBeReceived' = goingToBeReceived
          /\ Len(message[c].data) < BlockSize
      BY <2>7 DEF DataLast, TypeOK
    <3>2. toClient' = toClient
      BY <3>1, SilentReaches
    <3>3. C!Uploaded(c)
      BY <2>1, <3>1, BlockAssumption DEF Sent, FullBlock, ShortBlock
    <3>4. Writing(c)'
      BY <1>1, <2>1, <3>1, <3>2, <3>3 DEF Writing, C!Uploaded
    <3> QED BY <1>0, <1>4, <1>7, <3>1, <3>4
  <2> QED BY <2>5, <2>6, <2>7
<1>8. CASE Writing(c)
  <2>1. /\ pc[c] = "write" /\ Quiet(toClient[c]) /\ toServer[c] = <<>> /\ C!Uploaded(c)
    BY <1>8 DEF Writing
  <2>2. DataWrite(c)
    BY <1>0, <1>1, <2>1, TransferActs
  <2>3. message[c].block \in BlockNum
    BY <2>1, RequestFields DEF PcOK, PcAt
  <2>4. /\ Reply(c, AckPacket(message[c].block)) /\ pc'[c] = "bcast"
        /\ toDownload' = toDownload
    BY <2>2 DEF DataWrite, TypeOK
  <2>5. /\ AckPacket(message[c].block) \in Packet
        /\ AckPacket(message[c].block).op = "ACK"
    BY <2>3, PacketTypes DEF AckPacket
  <2>6. toClient'[c] = Append(toClient[c], AckPacket(message[c].block))
    BY <2>1, <2>4, <2>5, ReplyReaches
  <2>7. toClient[c] \in Seq(Packet)
    BY ClientTypes
  <2>8. /\ Only(toClient'[c], AckPacket(message[c].block))
        /\ AckPacket(message[c].block) \in Packets(toClient'[c])
    BY <2>1, <2>5, <2>6, <2>7, HearAnswer
  <2>9. Saved(c)'
    BY <1>1, <2>1, <2>4, <2>5, <2>8 DEF Saved, C!Uploaded
  <2> QED BY <1>0, <1>4, <2>4, <2>9
<1> QED BY <1>0, <1>5, <1>6, <1>7, <1>8

-----------------------------------------------------------------------------
(* The thread takes the next packet from the channel.                      *)

\* What is left of a channel to the server when one packet has been taken.
LEMMA TakeOne ==
  ASSUME NEW s \in Seq(Request), s # <<>>
  PROVE  /\ Packets(Tail(s)) \subseteq Packets(s) /\ Head(s) \in Packets(s)
         /\ Acks(s) => Head(s).op = "ACK" /\ Acks(Tail(s))
         /\ Len(s) = 1 => Head(s) = s[1] /\ Tail(s) = <<>>
         /\ \A cmd : EndsIn(s, cmd) =>
              \/ Head(s) = cmd /\ Tail(s) = <<>>
              \/ Head(s).op = "ACK" /\ EndsIn(Tail(s), cmd)
<1> DEFINE t == Tail(s)
<1>1. /\ t \in Seq(Request) /\ Len(s) \in Nat /\ Len(s) > 0 /\ Len(t) = Len(s) - 1
      /\ Head(s) = s[1]
      /\ \A i \in 1 .. Len(t) : t[i] = s[i + 1]
  OBVIOUS
<1> HIDE DEF t
<1>0. Len(s) = 1 => t = <<>>
  BY <1>1
<1>2. Packets(t) \subseteq Packets(s) /\ Head(s) \in Packets(s)
  BY <1>1 DEF Packets
<1>3. Acks(s) => Head(s).op = "ACK" /\ Acks(t)
  BY <1>1 DEF Acks
<1>4. ASSUME NEW cmd, EndsIn(s, cmd)
      PROVE  \/ Head(s) = cmd /\ t = <<>>
             \/ Head(s).op = "ACK" /\ EndsIn(t, cmd)
  <2>1. CASE Len(s) = 1
    BY <1>0, <1>1, <1>4, <2>1 DEF EndsIn
  <2>2. CASE Len(s) # 1
    <3>1. Len(t) > 0 /\ t # <<>> /\ Len(t) \in 1 .. Len(t) /\ t[Len(t)] = s[Len(s)]
      BY <1>1, <2>2
    <3>2. \A i \in 1 .. Len(t) - 1 : t[i].op = "ACK"
      BY <1>1, <1>4 DEF EndsIn
    <3>3. Head(s).op = "ACK"
      BY <1>1, <1>4, <2>2 DEF EndsIn
    <3> QED BY <1>4, <3>1, <3>2, <3>3 DEF EndsIn
  <2> QED BY <2>1, <2>2
<1> QED BY <1>0, <1>1, <1>2, <1>3, <1>4 DEF t

\* What a settled thread takes is an old ACK or the command of its client.
LEMMA TakeStep ==
  ASSUME TypeOK, C!TypeOK, NEW c \in Conns, SystemReceive(c), Agree(c), Admitted(c)
  PROVE  Agree(c)' /\ Admitted(c)'
<1> DEFINE s == toServer[c]
           r == Head(toServer[c])
<1>1. /\ pc[c] = "listen" /\ s # <<>> /\ message'[c] = r /\ toServer'[c] = Tail(s)
      /\ pc'[c] = (IF r.op = "DATA" /\ r.data = <<>> THEN "deaf" ELSE "decode")
      /\ cl' = cl /\ toClient' = toClient
      /\ toDownload' = toDownload /\ myConnectionState' = myConnectionState
      /\ goingToBeReceived' = goingToBeReceived
  BY DEF SystemReceive, Receive, Goto, TypeOK, C!TypeOK, download, session, upload
<1>2. s \in Seq(Request)
  BY ClientTypes
<1>3. /\ Packets(Tail(s)) \subseteq Packets(s) /\ r \in Packets(s)
      /\ Acks(s) => r.op = "ACK" /\ Acks(Tail(s))
      /\ Len(s) = 1 => r = s[1] /\ Tail(s) = <<>>
      /\ \A cmd : EndsIn(s, cmd) =>
           \/ r = cmd /\ Tail(s) = <<>>
           \/ r.op = "ACK" /\ EndsIn(Tail(s), cmd)
  BY <1>1, <1>2, TakeOne
<1> HIDE DEF s, r
<1>4. Admitted(c)'
  BY <1>1, <1>3 DEF Admitted, s, r
<1>5. \A cmd : Asks(c, cmd) => Asks(c, cmd)'
  BY <1>1 DEF Asks
<1>6. toDownload[c] = NONE /\ r.op = "ACK" => Settled(c)'
  BY <1>1 DEF Settled
<1>7. CASE Listening(c)
  <2>0. toDownload[c] = NONE
    BY <1>7 DEF Listening, Settled
  <2>1. CASE Free(c)
    <3>1. r.op = "ACK" /\ Acks(Tail(s))
      BY <1>3, <2>1 DEF Free, s
    <3>2. Free(c)'
      BY <1>1, <1>6, <2>0, <2>1, <3>1 DEF Free
    <3> QED BY <1>4, <3>2 DEF Agree
  <2>2. ASSUME NEW cmd \in Commands[c],
               Asks(c, cmd),
               cmd.op = "RRQ" => cl[c].wholeFile = <<>>,
               ~cl[c].goingToFinish,
               Quiet(toClient[c]),
               EndsIn(s, cmd)
        PROVE  Agree(c)'
    <3>1. CASE r = cmd /\ Tail(s) = <<>>
      <4>1. cmd.op # "DATA"
        BY CommandFields DEF C!Ops
      <4>2. Working(c, cmd)'
        BY <1>1, <2>0, <3>1, <4>1 DEF Working
      <4>3. AtWork(c, cmd)'
        BY <1>1, <1>5, <2>2, <4>2 DEF AtWork
      <4> QED BY <4>3, WorkAgrees
    <3>2. CASE r.op = "ACK" /\ EndsIn(Tail(s), cmd)
      <4>1. Settled(c)'
        BY <1>6, <2>0, <3>2
      <4>2. Requested(c)'
        BY <1>1, <1>5, <2>2, <3>2, <4>1 DEF Requested
      <4> QED BY <4>2 DEF Agree
    <3> QED BY <1>3, <2>2, <3>1, <3>2
  <2>3. ~Replied(c)
    BY <1>1 DEF Replied, s
  <2>4. ASSUME NEW cmd \in Commands[c],
               cmd.op = "RRQ" /\ cmd.file \in FileNames,
               Asks(c, cmd),
               ~cl[c].goingToFinish,
               myConnectionState[c],
               LastBlocks(c)
        PROVE  Agree(c)'
    <3>1. PICK q \in Packets(toClient[c]) :
            ShortBlock(q) /\ Only(toClient[c], q) /\ Acks(s)
      BY <1>1, <2>4 DEF LastBlocks, s
    <3>2. Settled(c)'
      BY <1>3, <1>6, <2>0, <3>1
    <3>3. LastBlocks(c)'
      BY <1>1, <1>3, <3>1, <3>2 DEF LastBlocks
    <3>4. Downloading(c)'
      BY <1>1, <1>5, <2>4, <3>3 DEF Downloading
    <3> QED BY <3>4 DEF Agree
  <2> QED BY <1>4, <1>7, <2>1, <2>2, <2>3, <2>4 DEF Listening, s
<1>8. ASSUME NEW cmd \in Commands[c], AtWork(c, cmd) PROVE FALSE
  BY <1>1, <1>8 DEF AtWork, Working, s
<1>9. ASSUME NEW cmd \in Commands[c], Sends(c, cmd) PROVE Agree(c)'
  <2>1. /\ Quiet(toClient[c]) /\ Len(s) = 1 /\ Acks(s)
        /\ toDownload[c] # NONE /\ Len(toDownload[c]) >= BlockSize
    BY <1>1, <1>9 DEF Sends, MoreBlocks, s
  <2>2. MoreBlocks(c)'
    BY <1>1, <1>3, <2>1 DEF MoreBlocks
  <2>3. Sends(c, cmd)'
    BY <1>1, <1>5, <1>9, <2>2 DEF Sends
  <2> QED BY <2>3, WorkAgrees
<1>10. CASE Uploading(c)
  <2>1. ~Saved(c) /\ ~Awaiting(c) /\ ~NothingSent(c) /\ ~Arrived(c) /\ ~Writing(c)
    BY <1>1 DEF Saved, Awaiting, NothingSent, Arrived, Writing, s
  <2>2. PICK f \in FileNames :
          /\ Put(f) \in Commands[c]
          /\ Asks(c, Put(f))
          /\ myConnectionState[c]
          /\ toDownload[c] = NONE
          /\ goingToBeReceived[c] = f
          /\ Sending(c)
    <3> HIDE DEF Put, Saved, Awaiting, NothingSent, Sending, Arrived, Writing, Asks
    <3> QED BY <1>10, <2>1 DEF Uploading
  <2>3. r = s[1] /\ Tail(s) = <<>> /\ Sent(c, s[1]) /\ Quiet(toClient[c])
    BY <1>3, <2>2 DEF Sending, s
  <2>4. Arrived(c)'
    BY <1>1, <2>3 DEF Arrived, Sent, C!Uploaded
  <2>5. Uploading(c)'
    <3> HIDE DEF Put, Arrived, Asks
    <3> QED BY <1>1, <1>5, <2>2, <2>4 DEF Uploading
  <2> QED BY <1>4, <2>5 DEF Agree
<1> QED BY <1>4, <1>7, <1>8, <1>9, <1>10, Phases

-----------------------------------------------------------------------------
(* Every step of the server leaves a conversation a conversation.          *)

LEMMA AcceptStep ==
  ASSUME TypeOK, C!TypeOK, NEW c \in Conns, SystemAccept(c), Agree(c), Admitted(c)
  PROVE  Agree(c)' /\ Admitted(c)'
<1>1. /\ pc[c] = "idle" /\ pc'[c] = "start"
      /\ cl' = cl /\ toClient' = toClient /\ toServer' = toServer
      /\ toDownload' = toDownload /\ myConnectionState' = myConnectionState
  BY DEF SystemAccept, Accept, Goto, TypeOK, clients, session, download
<1>2. Admitted(c)'
  BY <1>1 DEF Admitted
<1>3. Listening(c)
  <2>1. \A cmd : ~AtWork(c, cmd) /\ ~Sends(c, cmd)
    BY <1>1 DEF AtWork, Working, Sends, MoreBlocks
  <2>2. ~Uploading(c)
    BY <1>1 DEF Uploading, Saved, Awaiting, NothingSent, Sending, Arrived, Writing
  <2> QED BY <2>1, <2>2, Phases
<1>4. Settled(c)'
  BY <1>1, <1>3 DEF Listening, Settled
<1>5. Hears(c)
  BY <1>1 DEF Hears
<1> QED BY <1>1, <1>2, <1>3, <1>4, <1>5, ListeningKept

LEMMA AdmittedStep ==
  ASSUME TypeOK, NEW c \in Conns, SystemThread(c), Admitted(c)
  PROVE  Admitted(c)'
<1>1. /\ pc'[c] # "decode" /\ toServer' = toServer
      /\ myConnectionState[c] => myConnectionState'[c]
  BY ThreadFrame DEF SystemThread
<1>2. pc'[c] \in {"rrq", "length", "read"} => myConnectionState[c]
  <2> SUFFICES ASSUME pc'[c] \in {"rrq", "length", "read"} PROVE myConnectionState[c]
    OBVIOUS
  <2> USE DEF Goto, TypeOK
  <2>1. CASE Login(c)
    BY <2>1 DEF Login, LogrqAgain, LogrqBegin, LogrqNext, LogrqEnd, LogrqPut,
                LogrqAck, Answer
  <2>2. CASE Download(c)
    BY <2>2 DEF Admitted, Download, RrqRefused, RrqFound, RrqOpen, RrqLength, RrqRead,
                RrqGone, AckMore, AckIgnored, Dirq, DirqTooLong, Answer,
                HandleReadingACK, Die, Processing
  <2>3. CASE Upload(c)
    BY <2>3 DEF Upload, WrqRefused, WrqAccepted, DataIgnored, DataOversize,
                DataFull, DataLast, DataWrite, Answer
  <2>4. CASE Delete(c)
    BY <2>4 DEF Delete, DelrqRefused, DelrqFound, DelrqDelete, Answer
  <2>5. CASE Broadcast(c)
    BY <2>5 DEF Broadcast, BcastNext, BcastDeliver, BcastLost, BcastEnd
  <2>6. CASE Other(c)
    BY <2>6 DEF Other, NotLoggedIn, IteratorFails, Error, BcastIn, DiscBegin,
                DiscNext, DiscEnd, Answer, Die
  <2>7. CASE RunAdd(c) \/ RunPut(c) \/ Close(c)
    BY <2>7 DEF RunAdd, RunPut, Close
  <2> QED BY <2>1, <2>2, <2>3, <2>4, <2>5, <2>6, <2>7 DEF SystemThread, Thread
<1> QED BY <1>1, <1>2 DEF Admitted

LEMMA ServerAgrees ==
  ASSUME TypeOK, IndInv, C!TypeOK, Conversation, NEW c \in Conns, ServerStep(c)
  PROVE  Conversation'
<1>0. PcOK /\ RouteOK /\ Serial /\ \A d \in Conns : ReplyAt(d) /\ Admitted(d) /\ Agree(d)
  BY DEF IndInv, ReplyOK, Conversation
<1>1. Serial'
  BY <1>0, SerialStep
<1>2. ASSUME NEW d \in Conns, d # c PROVE Admitted(d)' /\ Agree(d)'
  <2>1. Thread(c) \/ Environment(c)
    BY ServerSteps
  <2>2. Unmoved(d)
    BY <1>0, <1>2, <2>1, OthersHear, TransfersKept, OthersKept DEF Unmoved
  <2> QED BY <1>0, <2>2, AgreeKept
<1>3. Admitted(c)' /\ Agree(c)'
  <2>1. CASE SystemThread(c)
    <3>1. Admitted(c)'
      BY <1>0, <2>1, AdmittedStep
    <3>2. CASE Listening(c)
      <4>1. Settled(c)' /\ Hears(c)
        BY <1>0, <2>1, <3>2, SettledStep DEF Listening
      <4>2. /\ cl'[c] = cl[c] /\ toServer'[c] = toServer[c]
            /\ myConnectionState[c] => myConnectionState'[c]
        BY <2>1, ThreadFrame DEF SystemThread
      <4> QED BY <3>1, <3>2, <4>1, <4>2, ListeningKept
    <3>3. ASSUME NEW cmd \in Commands[c], AtWork(c, cmd) PROVE Agree(c)'
      BY <1>0, <2>1, <3>3, WorkStep
    <3>4. ASSUME NEW cmd \in Commands[c], Sends(c, cmd) PROVE Agree(c)'
      BY <1>0, <2>1, <3>4, SendsStep
    <3>5. CASE Uploading(c)
      BY <1>0, <2>1, <3>1, <3>5, UploadStep
    <3> QED BY <1>0, <3>1, <3>2, <3>3, <3>4, <3>5, Phases
  <2>2. CASE SystemReceive(c)
    BY <1>0, <2>2, TakeStep
  <2>3. CASE SystemAccept(c)
    BY <1>0, <2>3, AcceptStep
  <2> QED BY <2>1, <2>2, <2>3 DEF ServerStep
<1>4. \A d \in Conns : Admitted(d)' /\ Agree(d)'
  BY <1>2, <1>3
<1> QED BY <1>1, <1>4 DEF Conversation

-----------------------------------------------------------------------------
(* What a step of a client does to its object and to its channels.         *)

\* ClientProtocol.process takes one packet and sends what it is given.
LEMMA ProcessedTakes ==
  ASSUME C!TypeOK, NEW c \in Conns, NEW k, NEW pkts \in Seq(Request),
         C!Processed(c, k, pkts)
  PROVE  /\ cl'[c] = k /\ toClient'[c] = Tail(toClient[c])
         /\ toServer'[c] = toServer[c] \o pkts
         /\ \A d \in Conns : d # c => /\ cl'[d] = cl[d]
                                      /\ toClient'[d] = toClient[d]
                                      /\ toServer'[d] = toServer[d]
BY DEF C!Processed, C!TypeOK

LEMMA ProcessedTypes ==
  ASSUME C!TypeOK, NEW c \in Conns, NEW k \in C!ClientProtocol,
         NEW pkts \in Seq(Request), C!Processed(c, k, pkts),
         local' \in [Conns -> [FileNames -> MaybeData]], toClient[c] # <<>>
  PROVE  C!TypeOK'
<1>1. toServer[c] \in Seq(Request) /\ toClient[c] \in Seq(Packet)
  BY ClientTypes
<1>2. toServer[c] \o pkts \in Seq(Request) /\ Tail(toClient[c]) \in Seq(Packet)
  BY <1>1
<1>3. /\ cl' \in [Conns -> C!ClientProtocol] /\ ncmd' \in [Conns -> Nat]
      /\ toServer' \in [Conns -> Seq(Request)] /\ toClient' \in [Conns -> Seq(Packet)]
  BY <1>2, SamePackets DEF C!Processed, C!TypeOK
<1> QED BY <1>3, SamePackets DEF C!TypeOK

\* The fields of a ClientProtocol object.
LEMMA Fields ==
  ASSUME C!TypeOK, NEW c \in Conns
  PROVE  /\ cl[c].req \in [C!Ops -> Names \cup Users \cup {NONE}]
         /\ cl[c].lastOperation \in C!Ops \cup {NONE}
         /\ cl[c].numOfChunksSent \in BlockNum
         /\ cl[c].toSendVec \in Seq(Bytes) \cup {NONE}
         /\ cl[c].goingToFinish \in BOOLEAN
         /\ cl[c].wholeFile \in Seq(Bytes)
         /\ cl[c] = [req |-> cl[c].req, lastOperation |-> cl[c].lastOperation,
                     numOfChunksSent |-> cl[c].numOfChunksSent,
                     toSendVec |-> cl[c].toSendVec,
                     goingToFinish |-> cl[c].goingToFinish,
                     wholeFile |-> cl[c].wholeFile,
                     connected |-> cl[c].connected, typing |-> cl[c].typing]
<1>1. cl[c] \in C!ClientProtocol
  BY ClientTypes
<1> QED BY <1>1, SamePackets DEF C!ClientProtocol, C!MaybeData, MaybeData

\* An object with other fields of their types.
LEMMA FieldsKept ==
  ASSUME C!TypeOK, NEW c \in Conns, NEW op, NEW n \in Names \cup Users \cup {NONE},
         NEW buf \in Seq(Bytes), NEW b \in BOOLEAN, NEW b2 \in BOOLEAN
  PROVE  /\ [cl[c] EXCEPT !.req[op] = n] \in C!ClientProtocol
         /\ [cl[c] EXCEPT !.req[op] = n, !.connected = b] \in C!ClientProtocol
         /\ [cl[c] EXCEPT !.req[op] = n, !.goingToFinish = b] \in C!ClientProtocol
         /\ [cl[c] EXCEPT !.req[op] = n, !.wholeFile = buf] \in C!ClientProtocol
         /\ [cl[c] EXCEPT !.toSendVec = buf] \in C!ClientProtocol
         /\ [cl[c] EXCEPT !.wholeFile = buf] \in C!ClientProtocol
         /\ op \in C!Ops =>
              [cl[c] EXCEPT !.req[op] = n, !.lastOperation = op, !.wholeFile = buf,
                            !.typing = b] \in C!ClientProtocol
<1>1. cl[c] \in C!ClientProtocol
  BY ClientTypes
<1> QED BY <1>1, SamePackets DEF C!ClientProtocol, MaybeData

\* The fields of the packets a client reads.
LEMMA PacketFields ==
  ASSUME NEW p \in Packet
  PROVE  /\ p.op \in {"ACK", "DATA"} => p.block \in BlockNum
         /\ p.op = "DATA" => p.data \in Seq(Bytes)
BY DEF Packet

\* The packets a client sends by itself.
LEMMA SentTypes ==
  /\ \A n \in BlockNum : AckPacket(n) \in Request
  /\ \A n \in BlockNum, s \in Seq(Bytes) : DataPacket(n, s) \in Request
  /\ [op |-> "ERROR"] \in Request
BY DEF Request, AckPacket, DataPacket

\* sendNextPacket cuts one block from what is to be sent.
LEMMA SendsBlock ==
  ASSUME C!TypeOK, NEW c \in Conns, NEW buf \in Seq(Bytes), toClient[c] # <<>>,
         C!SendNextPacket(c, buf), UNCHANGED local
  PROVE  /\ C!TypeOK'
         /\ \A d \in Conns : d # c => /\ cl'[d] = cl[d]
                                      /\ toClient'[d] = toClient[d]
                                      /\ toServer'[d] = toServer[d]
         /\ toClient'[c] = Tail(toClient[c])
         /\ cl'[c].req = cl[c].req /\ cl'[c].lastOperation = cl[c].lastOperation
         /\ \E p \in Request :
              /\ toServer'[c] = toServer[c] \o <<p>>
              /\ \/ /\ FullBlock(p) /\ cl'[c].toSendVec \in Seq(Bytes)
                    /\ cl'[c].goingToFinish = cl[c].goingToFinish
                 \/ ShortBlock(p) /\ cl'[c].goingToFinish /\ cl'[c].toSendVec = <<>>
              /\ p.data \o cl'[c].toSendVec = buf
<1> DEFINE n == NextBlock(cl[c].numOfChunksSent)
           last == Len(buf) < BlockSize
           rest == IF last THEN <<>> ELSE Suffix(buf)
           p == DataPacket(n, IF last THEN buf ELSE Prefix(buf))
           k == [cl[c] EXCEPT !.numOfChunksSent = n, !.toSendVec = rest,
                              !.goingToFinish = last \/ @]
<1>1. n \in BlockNum /\ cl[c] \in C!ClientProtocol /\ cl[c].goingToFinish \in BOOLEAN
  BY BlockNumbers, Fields, ClientTypes
<1>2. /\ BlockSize \in Nat /\ Len(buf) \in Nat
      /\ ~last => /\ Prefix(buf) \in Seq(Bytes) /\ Len(Prefix(buf)) = BlockSize
                  /\ Suffix(buf) \in Seq(Bytes)
                  /\ Prefix(buf) \o Suffix(buf) = buf
      /\ last => buf \o <<>> = buf
  BY BlockAssumption, Cuts, CutJoins
<1>3. rest \in Seq(Bytes) /\ p \in Request
  BY <1>1, <1>2, SentTypes
<1>4. /\ p.op = "DATA" /\ p.data = IF last THEN buf ELSE Prefix(buf)
  BY DEF DataPacket
<1>5. C!Processed(c, k, <<p>>)
  BY SamePackets DEF C!SendNextPacket
<1> HIDE DEF n, p
<1>6. k \in C!ClientProtocol
  BY <1>1, <1>3, SamePackets DEF C!ClientProtocol, MaybeData
<1>7. /\ k.req = cl[c].req /\ k.lastOperation = cl[c].lastOperation
      /\ k.toSendVec = rest /\ k.goingToFinish = (last \/ cl[c].goingToFinish)
  BY <1>1 DEF C!ClientProtocol
<1> HIDE DEF k
<1>8. <<p>> \in Seq(Request)
  BY <1>3
<1>9. local' \in [Conns -> [FileNames -> MaybeData]]
  BY SamePackets DEF C!TypeOK
<1>10. C!TypeOK'
  BY <1>5, <1>6, <1>8, <1>9, ProcessedTypes
<1>11. /\ cl'[c] = k /\ toClient'[c] = Tail(toClient[c])
       /\ toServer'[c] = toServer[c] \o <<p>>
       /\ \A d \in Conns : d # c => /\ cl'[d] = cl[d]
                                    /\ toClient'[d] = toClient[d]
                                    /\ toServer'[d] = toServer[d]
  BY <1>5, <1>8, ProcessedTakes
<1>12. /\ \/ FullBlock(p) /\ rest \in Seq(Bytes) /\ ~last
          \/ ShortBlock(p) /\ last /\ rest = <<>>
       /\ p.data \o rest = buf
  BY <1>2, <1>3, <1>4 DEF FullBlock, ShortBlock
<1> HIDE DEF last, rest
<1>13. cl'[c].goingToFinish = (last \/ cl[c].goingToFinish) /\ cl'[c].toSendVec = rest
  BY <1>7, <1>11
<1>14. \/ /\ FullBlock(p) /\ cl'[c].toSendVec \in Seq(Bytes)
          /\ cl'[c].goingToFinish = cl[c].goingToFinish
       \/ ShortBlock(p) /\ cl'[c].goingToFinish /\ cl'[c].toSendVec = <<>>
  BY <1>1, <1>12, <1>13
<1> QED BY <1>3, <1>7, <1>10, <1>11, <1>12, <1>13, <1>14

\* Every packet leaves the client an object of its class; an ACK of a block is
\* read only when there is a file to send from.
LEMMA ProcessTypes ==
  ASSUME C!TypeOK, NEW c \in Conns, Process(c),
         C!UploadNext(c) => cl[c].toSendVec # NONE
  PROVE  C!TypeOK'
<1> DEFINE h == Head(toClient[c])
<1>1. /\ toClient[c] # <<>> /\ toClient[c] \in Seq(Packet)
      /\ local \in [Conns -> [FileNames -> MaybeData]]
  BY ClientTypes, SamePackets
  DEF Process, C!SocketThread, C!AckPlain, C!AckDisc, C!UploadStart, C!UploadNext,
      C!UploadComplete, C!DownloadNext, C!DownloadComplete, C!Downloads, C!Listing,
      C!Dropped, C!ErrorPrinted, C!Acknowledges, C!Gets, C!TypeOK
<1>2. /\ h \in Packet
      /\ h.op \in {"ACK", "DATA"} => h.block \in BlockNum
      /\ h.op = "DATA" => h.data \in Seq(Bytes)
  <2>1. h \in Packet
    BY <1>1
  <2> HIDE DEF h
  <2> QED BY <2>1, PacketFields
<1>3. ASSUME NEW k \in C!ClientProtocol, NEW pkts \in Seq(Request),
             C!Processed(c, k, pkts), local' \in [Conns -> [FileNames -> MaybeData]]
      PROVE  C!TypeOK'
  BY <1>1, <1>3, ProcessedTypes
<1>4. cl[c] \in C!ClientProtocol /\ <<>> \in Seq(Request)
  BY ClientTypes
<1>5. /\ \A n \in BlockNum : <<AckPacket(n)>> \in Seq(Request)
      /\ <<[op |-> "ERROR"]>> \in Seq(Request)
  BY SentTypes
<1>6. ASSUME NEW op, NEW buf \in Seq(Bytes)
      PROVE  /\ [cl[c] EXCEPT !.req[op] = NONE] \in C!ClientProtocol
             /\ [cl[c] EXCEPT !.req[op] = NONE, !.connected = FALSE] \in C!ClientProtocol
             /\ [cl[c] EXCEPT !.req[op] = NONE, !.goingToFinish = FALSE]
                   \in C!ClientProtocol
             /\ [cl[c] EXCEPT !.req[op] = NONE, !.wholeFile = buf] \in C!ClientProtocol
             /\ [cl[c] EXCEPT !.toSendVec = buf] \in C!ClientProtocol
             /\ [cl[c] EXCEPT !.wholeFile = buf] \in C!ClientProtocol
  BY FieldsKept
<1>7. <<>> \in Seq(Bytes)
  OBVIOUS
<1>8. CASE C!AckPlain(c) \/ C!AckDisc(c) \/ C!UploadComplete(c)
  <2>1. local' = local
    BY <1>8 DEF C!AckPlain, C!AckDisc, C!UploadComplete
  <2> QED BY <1>1, <1>3, <1>4, <1>6, <1>7, <1>8, <2>1
          DEF C!AckPlain, C!AckDisc, C!UploadComplete
<1>9. CASE C!Dropped(c) \/ C!ErrorPrinted(c)
  <2>1. local' = local
    BY <1>9 DEF C!Dropped, C!ErrorPrinted
  <2>2. CASE C!Dropped(c)
    BY <1>1, <1>3, <1>4, <2>1, <2>2 DEF C!Dropped
  <2>3. CASE C!ErrorPrinted(c)
    BY <1>1, <1>3, <1>4, <1>5, <1>6, <1>7, <2>1, <2>3 DEF C!ErrorPrinted
  <2> QED BY <1>9, <2>2, <2>3
<1>10. CASE C!Listing(c)
  <2>1. [cl[c] EXCEPT !.req["DIRQ"] = NONE, !.wholeFile = <<>>] \in C!ClientProtocol
    BY <1>6, <1>7
  <2>2. <<C!AckPacket(1)>> \in Seq(Request)
    BY <1>5, SamePackets, BlockNumbers
  <2>3. C!Processed(c, [cl[c] EXCEPT !.req["DIRQ"] = NONE, !.wholeFile = <<>>],
                    <<C!AckPacket(1)>>)
    BY <1>10 DEF C!Listing
  <2>4. local' = local
    BY <1>10 DEF C!Listing
  <2> QED BY <1>1, <1>3, <2>1, <2>2, <2>3, <2>4
<1>11. CASE C!DownloadNext(c) \/ C!DownloadComplete(c)
  <2>1. h.op = "DATA" /\ h.block \in BlockNum /\ h.data \in Seq(Bytes)
    BY <1>2, <1>11 DEF C!DownloadNext, C!DownloadComplete, C!Downloads, C!Gets
  <2>2. C!DataIn(c) \in Seq(Bytes)
    <3>1. cl[c].wholeFile \in Seq(Bytes)
      BY Fields
    <3> HIDE DEF h
    <3>2. cl[c].wholeFile \o h.data \in Seq(Bytes)
      BY <2>1, <3>1
    <3> QED BY <3>2 DEF C!DataIn, h
  <2>3. <<C!AckPacket(C!Block(c))>> \in Seq(Request)
    BY <1>5, <2>1, SamePackets DEF C!Block
  <2>4. CASE C!DownloadNext(c)
    BY <1>1, <1>3, <1>6, <2>2, <2>3, <2>4 DEF C!DownloadNext
  <2>5. CASE C!DownloadComplete(c)
    <3>1. local' \in [Conns -> [FileNames -> MaybeData]]
      BY <1>1, <2>2, <2>5 DEF C!DownloadComplete, MaybeData
    <3>2. [cl[c] EXCEPT !.req["RRQ"] = NONE, !.wholeFile = <<>>] \in C!ClientProtocol
      BY <1>6, <1>7
    <3> QED BY <1>3, <2>3, <2>5, <3>1, <3>2 DEF C!DownloadComplete
  <2> QED BY <1>11, <2>4, <2>5
<1>12. CASE C!UploadStart(c)
  <2> DEFINE f == cl[c].req["WRQ"]
             buf == IF f \in FileNames /\ local[c][f] # NONE THEN local[c][f] ELSE <<>>
  <2>1. buf \in Seq(Bytes)
    BY <1>1 DEF MaybeData
  <2>2. CASE buf # <<>>
    <3>1. C!SendNextPacket(c, buf) /\ UNCHANGED local
      BY <1>12, <2>2 DEF C!UploadStart
    <3> HIDE DEF buf
    <3> QED BY <1>1, <2>1, <3>1, SendsBlock
  <2>3. CASE buf = <<>>
    <3>1. [cl[c] EXCEPT !.toSendVec = <<>>] \in C!ClientProtocol
      BY <1>6, <1>7
    <3>2. C!Processed(c, [cl[c] EXCEPT !.toSendVec = <<>>], <<>>) /\ local' = local
      BY <1>12, <2>3 DEF C!UploadStart
    <3> QED BY <1>1, <1>3, <1>4, <3>1, <3>2
  <2> QED BY <2>2, <2>3
<1>13. CASE C!UploadNext(c)
  <2>1. cl[c].toSendVec \in Seq(Bytes)
    BY <1>13, Fields
  <2>2. C!SendNextPacket(c, cl[c].toSendVec) /\ UNCHANGED local
    BY <1>13 DEF C!UploadNext
  <2> QED BY <1>1, <2>1, <2>2, SendsBlock
<1> QED BY <1>8, <1>9, <1>10, <1>11, <1>12, <1>13 DEF Process, C!SocketThread

\* So does a command that is typed.
LEMMA TypeTypes ==
  ASSUME C!TypeOK, NEW c \in Conns, Type(c)
  PROVE  C!TypeOK'
<1>1. PICK cmd \in Commands[c] :
        /\ cl' = [cl EXCEPT ![c] =
             [@ EXCEPT !.req[cmd.op] = C!Argument(cmd),
                       !.lastOperation = cmd.op,
                       !.wholeFile = IF cmd.op = "RRQ" THEN <<>>
                                     ELSE cl[c].wholeFile,
                       !.typing = cmd.op # "DISC"]]
        /\ toServer' = [toServer EXCEPT ![c] = Append(@, cmd)]
  BY DEF Type, C!Command
<1>2. /\ ncmd' = [ncmd EXCEPT ![c] = @ + 1] /\ local' = local /\ toClient' = toClient
  BY DEF Type, C!Command
<1>3. cmd \in Request /\ cmd.op \in C!Ops
  BY CommandFields
<1>4. C!Argument(cmd) \in Names \cup Users \cup {NONE}
  BY <1>3, RequestFields DEF C!Argument, C!Ops, Names
<1>5. cl[c] \in C!ClientProtocol /\ toServer[c] \in Seq(Request)
      /\ cl[c].wholeFile \in Seq(Bytes)
  BY ClientTypes, Fields
<1>6. Append(toServer[c], cmd) \in Seq(Request)
  BY <1>3, <1>5
<1> DEFINE buf == IF cmd.op = "RRQ" THEN <<>> ELSE cl[c].wholeFile
           k == [cl[c] EXCEPT !.req[cmd.op] = C!Argument(cmd),
                              !.lastOperation = cmd.op, !.wholeFile = buf,
                              !.typing = cmd.op # "DISC"]
<1>7. k \in C!ClientProtocol
  <2>1. buf \in Seq(Bytes)
    BY <1>5
  <2> HIDE DEF buf
  <2>2. (cmd.op # "DISC") \in BOOLEAN
    OBVIOUS
  <2> QED BY <1>3, <1>4, <2>1, <2>2, FieldsKept
<1>8. cl' = [cl EXCEPT ![c] = k]
  BY <1>1, Zenon
<1> HIDE DEF k
<1>9. cl' \in [Conns -> C!ClientProtocol]
  BY <1>7, <1>8 DEF C!TypeOK
<1>10. toServer' \in [Conns -> Seq(Request)]
  BY <1>1, <1>6, SamePackets DEF C!TypeOK
<1>11. ncmd' \in [Conns -> Nat]
  BY <1>2 DEF C!TypeOK
<1> QED BY <1>2, <1>9, <1>10, <1>11, SamePackets DEF C!TypeOK

-----------------------------------------------------------------------------
(* What a client does with the packet it reads, phase by phase.            *)

LEMMA Asked ==
  ASSUME NEW c \in Conns, NEW cmd \in Commands[c], Asks(c, cmd)
  PROVE  /\ cmd.op \in C!Ops /\ cl[c].req[cmd.op] = C!Argument(cmd)
         /\ cl[c].req[cmd.op] # NONE
         /\ \A op \in C!Ops : op # cmd.op => cl[c].req[op] = NONE
         /\ cl[c].lastOperation = cmd.op /\ cmd.op # NONE
<1>1. /\ cmd.op \in C!Ops /\ C!Argument(cmd) # NONE
      /\ cl[c].lastOperation = cmd.op
      /\ cl[c].req = [op \in C!Ops |-> IF op = cmd.op THEN C!Argument(cmd) ELSE NONE]
  BY CommandFields DEF Asks
<1> QED BY <1>1, CommandsAssumption

\* A broadcast is printed, and nothing comes of it.
LEMMA BroadcastRead ==
  ASSUME C!TypeOK, NEW c \in Conns, Process(c), IsBroadcast(Head(toClient[c]))
  PROVE  Unmoved(c) /\ C!TypeOK' /\ UNCHANGED <<vars, local, cl, toServer>>
<1>1. C!Dropped(c) /\ vars' = vars
  BY DEF Process, C!SocketThread, C!AckPlain, C!AckDisc, C!UploadStart,
         C!UploadNext, C!UploadComplete, C!DownloadNext, C!DownloadComplete,
         C!Downloads, C!Listing, C!ErrorPrinted, C!Acknowledges, C!Gets, IsBroadcast
<1>2. C!Processed(c, cl[c], <<>>) /\ local' = local /\ toClient[c] # <<>>
  BY <1>1 DEF C!Dropped, C!Gets
<1>3. <<>> \in Seq(Request) /\ toServer[c] \in Seq(Request) /\ cl[c] \in C!ClientProtocol
  BY ClientTypes
<1>4. /\ cl'[c] = cl[c] /\ toClient'[c] = Tail(toClient[c])
      /\ toServer'[c] = toServer[c] \o <<>>
  BY <1>2, <1>3, ProcessedTakes
<1>5. toServer[c] \o <<>> = toServer[c]
  BY <1>3
<1>6. Hears(c)
  BY <1>2, <1>4 DEF Hears
<1>7. Unmoved(c)
  BY <1>1, <1>4, <1>5, <1>6 DEF Unmoved, vars, input, loop, download, upload, session
<1>8. C!TypeOK'
  <2>1. local' \in [Conns -> [FileNames -> MaybeData]]
    BY <1>2, SamePackets DEF C!TypeOK
  <2> QED BY <1>2, <1>3, <2>1, ProcessedTypes
<1>9. cl' = cl /\ toServer' = toServer
  BY <1>2, <1>5 DEF C!Processed, C!TypeOK
<1> QED BY <1>1, <1>2, <1>7, <1>8, <1>9

\* What is done with a packet depends on the one command that waits for it.
LEMMA ReadActs ==
  ASSUME NEW c \in Conns, NEW cmd \in Commands[c], Asks(c, cmd), Process(c)
  PROVE  LET h == Head(toClient[c])
         IN /\ h.op = "ERROR" => C!ErrorPrinted(c)
            /\ h.op = "LIST" => C!Listing(c)
            /\ h.op = "ACK" /\ cmd.op \in {"LOGRQ", "DELRQ"} => C!AckPlain(c)
            /\ h.op = "ACK" /\ cmd.op = "DISC" => C!AckDisc(c)
            /\ h.op = "ACK" /\ cmd.op = "WRQ" =>
                 C!UploadStart(c) \/ C!UploadNext(c) \/ C!UploadComplete(c)
            /\ h.op = "DATA" /\ cmd.op = "RRQ" =>
                 C!DownloadNext(c) \/ C!DownloadComplete(c)
<1> DEFINE h == Head(toClient[c])
<1>0. /\ C!SocketThread(c) /\ cmd.op \in C!Ops /\ cl[c].req[cmd.op] # NONE
      /\ \A op \in C!Ops : op # cmd.op => cl[c].req[op] = NONE
      /\ cl[c].lastOperation = cmd.op
  BY Asked DEF Process
<1>1. C!AckPlain(c) => h.op = "ACK" /\ cmd.op \in {"LOGRQ", "DELRQ"}
  BY <1>0 DEF C!AckPlain, C!Acknowledges, C!Gets, C!Ops
<1>2. C!AckDisc(c) => h.op = "ACK" /\ cmd.op = "DISC"
  BY <1>0 DEF C!AckDisc, C!Acknowledges, C!Gets, C!Ops
<1>3. C!UploadStart(c) \/ C!UploadNext(c) \/ C!UploadComplete(c) =>
        h.op = "ACK" /\ cmd.op = "WRQ"
  BY <1>0 DEF C!UploadStart, C!UploadNext, C!UploadComplete, C!Acknowledges, C!Gets, C!Ops
<1>4. C!DownloadNext(c) \/ C!DownloadComplete(c) => h.op = "DATA"
  BY DEF C!DownloadNext, C!DownloadComplete, C!Downloads, C!Gets
<1>5. C!Listing(c) => h.op = "LIST"
  BY DEF C!Listing, C!Gets
<1>6. C!ErrorPrinted(c) => h.op = "ERROR"
  BY DEF C!ErrorPrinted, C!Gets
<1>7. C!Dropped(c) => \/ h.op = "BCAST"
                      \/ h.op = "ACK" /\ cmd.op \notin {"LOGRQ", "DISC", "DELRQ", "WRQ"}
                      \/ h.op = "DATA" /\ cmd.op # "RRQ"
  BY <1>0 DEF C!Dropped, C!Gets, C!Ops
<1> HIDE DEF h
<1>8. /\ h.op = "ERROR" => C!ErrorPrinted(c)
      /\ h.op = "LIST" => C!Listing(c)
      /\ h.op = "ACK" /\ cmd.op \in {"LOGRQ", "DELRQ"} => C!AckPlain(c)
      /\ h.op = "ACK" /\ cmd.op = "DISC" => C!AckDisc(c)
      /\ h.op = "ACK" /\ cmd.op = "WRQ" =>
           C!UploadStart(c) \/ C!UploadNext(c) \/ C!UploadComplete(c)
      /\ h.op = "DATA" /\ cmd.op = "RRQ" =>
           C!DownloadNext(c) \/ C!DownloadComplete(c)
  BY <1>0, <1>1, <1>2, <1>3, <1>4, <1>5, <1>6, <1>7 DEF C!SocketThread
<1> QED BY <1>8 DEF h

\* The answer has been read: the client is free.
LEMMA AnswerRead ==
  ASSUME C!TypeOK, NEW c \in Conns, Process(c), Settled(c),
         NEW cmd \in Commands[c], Asks(c, cmd),
         cl'[c].req = [cl[c].req EXCEPT ![cmd.op] = NONE], ~cl'[c].goingToFinish,
         Quiet(toClient'[c]), Acks(toServer'[c])
  PROVE  Free(c)'
<1>1. \A op \in C!Ops : cl'[c].req[op] = NONE
  BY Asked DEF Asks
<1>2. Settled(c)'
  BY DEF Process, Settled, vars, download, loop, input
<1> QED BY <1>1, <1>2 DEF Free

\* What is no broadcast is the one packet of the phase.
LEMMA HeadIs ==
  ASSUME C!TypeOK, NEW c \in Conns, toClient[c] # <<>>,
         ~IsBroadcast(Head(toClient[c]))
  PROVE  /\ ~Quiet(toClient[c])
         /\ \A p : Only(toClient[c], p) =>
              Head(toClient[c]) = p /\ Quiet(Tail(toClient[c]))
         /\ \A p, q : Both(toClient[c], p, q) =>
              Head(toClient[c]) = p /\ Only(Tail(toClient[c]), q)
<1>1. toClient[c] \in Seq(Packet)
  BY ClientTypes
<1> QED BY <1>1, ReadOne

LEMMA HeadRead ==
  ASSUME C!TypeOK, NEW c \in Conns, Process(c)
  PROVE  /\ toClient[c] # <<>> /\ Head(toClient[c]) \in Packet
         /\ vars' = vars
<1>1. toClient[c] # <<>>
  BY DEF Process, C!SocketThread, C!AckPlain, C!AckDisc, C!UploadStart, C!UploadNext,
         C!UploadComplete, C!DownloadNext, C!DownloadComplete, C!Downloads, C!Listing,
         C!Dropped, C!ErrorPrinted, C!Acknowledges, C!Gets
<1>2. toClient[c] \in Seq(Packet)
  BY ClientTypes
<1>3. Head(toClient[c]) \in Packet
  BY <1>1, <1>2
<1> QED BY <1>1, <1>3 DEF Process

\* The answer to a command.
LEMMA ReplyRead ==
  ASSUME C!TypeOK, NEW c \in Conns, Process(c), ~IsBroadcast(Head(toClient[c])),
         Replied(c)
  PROVE  /\ Free(c)' /\ local' = local
         /\ Packets(toServer'[c]) # {} => myConnectionState[c]
<1> DEFINE h == Head(toClient[c])
<1>1. PICK cmd \in Commands[c] :
        /\ Asks(c, cmd)
        /\ ~cl[c].goingToFinish
        /\ toServer[c] = <<>> /\ Settled(c)
        /\ \E p \in Packets(toClient[c]) : Reports(c, cmd, p)
  BY DEF Replied
<1>2. Reports(c, cmd, h) /\ Quiet(Tail(toClient[c]))
  BY <1>1, HeadIs, HeadRead DEF Reports
<1>3. ASSUME NEW k, NEW pkts \in Seq(Request), C!Processed(c, k, pkts),
             k.req = [cl[c].req EXCEPT ![cmd.op] = NONE], ~k.goingToFinish, Acks(pkts)
      PROVE  Free(c)' /\ toServer'[c] = pkts
  <2>1. /\ cl'[c] = k /\ toClient'[c] = Tail(toClient[c])
        /\ toServer'[c] = toServer[c] \o pkts
    BY <1>3, ProcessedTakes
  <2>2. toServer[c] \o pkts = pkts
    BY <1>1
  <2> QED BY <1>1, <1>2, <1>3, <2>1, <2>2, AnswerRead
<1>4. cl[c] \in C!ClientProtocol /\ <<>> \in Seq(Request) /\ Acks(<<>>)
  BY ClientTypes DEF Acks
<1>5. /\ cmd.op \in C!Ops /\ cl[c].lastOperation = cmd.op /\ cmd.op # NONE
      /\ \A op \in C!Ops : op # cmd.op => cl[c].req[op] = NONE
  BY <1>1, Asked
<1>6. Packets(<<>>) = {}
  BY DEF Packets
<1> DEFINE forgets(op) == [cl[c] EXCEPT !.req[op] = NONE]
<1>7. /\ forgets(cmd.op).req = [cl[c].req EXCEPT ![cmd.op] = NONE]
      /\ ~forgets(cmd.op).goingToFinish
  BY <1>1, <1>4 DEF C!ClientProtocol
<1> HIDE DEF forgets
<1>8. CASE h.op = "ERROR"
  <2>1. C!ErrorPrinted(c)
    BY <1>1, <1>8, ReadActs
  <2>2. C!Processed(c, forgets(cmd.op), <<>>) /\ local' = local
    BY <1>5, <2>1 DEF C!ErrorPrinted, forgets
  <2> QED BY <1>3, <1>4, <1>6, <1>7, <2>2
<1>9. CASE h.op = "ACK" /\ cmd.op \in {"LOGRQ", "DELRQ"}
  <2>1. C!AckPlain(c)
    BY <1>1, <1>9, ReadActs
  <2>2. PICK op \in {"LOGRQ", "DELRQ"} :
          C!Acknowledges(c, op) /\ C!Processed(c, forgets(op), <<>>)
    BY <2>1 DEF C!AckPlain, forgets
  <2>3. op = cmd.op
    BY <1>5, <2>2 DEF C!Acknowledges, C!Ops
  <2>4. local' = local
    BY <2>1 DEF C!AckPlain
  <2> QED BY <1>3, <1>4, <1>6, <1>7, <2>2, <2>3, <2>4
<1>10. CASE h.op = "ACK" /\ cmd.op = "DISC"
  <2>1. C!AckDisc(c)
    BY <1>1, <1>10, ReadActs
  <2> DEFINE k == [cl[c] EXCEPT !.req["DISC"] = NONE, !.connected = FALSE]
  <2>2. C!Processed(c, k, <<>>) /\ local' = local
    BY <2>1 DEF C!AckDisc
  <2>3. k.req = [cl[c].req EXCEPT ![cmd.op] = NONE] /\ ~k.goingToFinish
    BY <1>1, <1>4, <1>10 DEF C!ClientProtocol
  <2> HIDE DEF k
  <2> QED BY <1>3, <1>4, <1>6, <2>2, <2>3
<1>11. CASE h.op = "LIST"
  <2>1. C!Listing(c) /\ cmd.op = "DIRQ" /\ myConnectionState[c]
    BY <1>1, <1>2, <1>11, ReadActs DEF Reports
  <2> DEFINE k == [cl[c] EXCEPT !.req["DIRQ"] = NONE, !.wholeFile = <<>>]
             pkts == <<AckPacket(1)>>
  <2>2. C!Processed(c, k, pkts) /\ local' = local
    BY <2>1, SamePackets DEF C!Listing
  <2>3. k.req = [cl[c].req EXCEPT ![cmd.op] = NONE] /\ ~k.goingToFinish
    BY <1>1, <1>4, <2>1 DEF C!ClientProtocol
  <2>4. pkts \in Seq(Request) /\ Acks(pkts)
    BY SentTypes, BlockNumbers DEF Acks, AckPacket
  <2> HIDE DEF k, pkts
  <2> QED BY <1>3, <2>1, <2>2, <2>3, <2>4
<1> QED BY <1>2, <1>8, <1>9, <1>10, <1>11 DEF Reports

\* What is sent behind old acknowledgements.
LEMMA SendsMore ==
  ASSUME NEW s \in Seq(Request), NEW p \in Request
  PROVE  /\ s \o <<p>> = Append(s, p)
         /\ Packets(Append(s, p)) = Packets(s) \cup {p}
         /\ Acks(s) => EndsIn(Append(s, p), p)
         /\ Acks(s) /\ p.op = "ACK" => Acks(s \o <<p>>)
<1> DEFINE t == Append(s, p)
<1>1. /\ t \in Seq(Request) /\ Len(s) \in Nat /\ Len(t) = Len(s) + 1 /\ t # <<>>
      /\ \A i \in 1 .. Len(s) : t[i] = s[i]
      /\ t[Len(s) + 1] = p
  OBVIOUS
<1>2. s \o <<p>> = t
  OBVIOUS
<1> HIDE DEF t
<1>3. Packets(t) = Packets(s) \cup {p}
  BY <1>1 DEF Packets
<1>4. Acks(s) => EndsIn(t, p)
  BY <1>1 DEF Acks, EndsIn
<1>5. Acks(s) /\ p.op = "ACK" => Acks(t)
  BY <1>1 DEF Acks
<1> QED BY <1>2, <1>3, <1>4, <1>5 DEF t

\* The block at the head of a channel is the next one of a download.
LEMMA BlockHead ==
  ASSUME C!TypeOK, NEW c \in Conns, Process(c), ~IsBroadcast(Head(toClient[c])),
         Downloading(c)
  PROVE  LET s == toClient[c]
             h == Head(toClient[c])
             t == Tail(toClient[c])
         IN \/ /\ Settled(c) /\ FullBlock(h) /\ toServer[c] = <<>>
               /\ \E q \in Packet : ShortBlock(q) /\ Only(t, q) /\ Both(s, h, q)
            \/ /\ Settled(c) /\ ShortBlock(h) /\ Quiet(t) /\ Acks(toServer[c])
               /\ Only(s, h)
            \/ /\ MoreBlocks(c) /\ FullBlock(h) /\ Quiet(t) /\ Only(s, h)
               /\ pc[c] = "listen" /\ toServer[c] = <<>>
<1>1. LastBlocks(c) \/ MoreBlocks(c)
  BY DEF Downloading
<1>2. CASE LastBlocks(c)
  <2>1. CASE \E p, q \in Packets(toClient[c]) :
               /\ FullBlock(p) /\ ShortBlock(q) /\ Both(toClient[c], p, q)
               /\ toServer[c] = <<>>
    <3>1. PICK p \in Packets(toClient[c]), q \in Packets(toClient[c]) :
            /\ FullBlock(p) /\ ShortBlock(q) /\ Both(toClient[c], p, q)
            /\ toServer[c] = <<>>
      BY <2>1
    <3>2. q \in Packet
      BY ClientTypes DEF Packets
    <3> QED BY <1>2, <3>1, <3>2, HeadIs, HeadRead DEF LastBlocks
  <2>2. CASE \E q \in Packets(toClient[c]) :
               ShortBlock(q) /\ Only(toClient[c], q) /\ Acks(toServer[c])
    BY <1>2, <2>2, HeadIs, HeadRead DEF LastBlocks
  <2> QED BY <1>2, <2>1, <2>2 DEF LastBlocks
<1>3. CASE MoreBlocks(c)
  <2>1. ~Quiet(toClient[c])
    BY HeadIs, HeadRead
  <2>2. PICK p \in Packets(toClient[c]) : FullBlock(p) /\ Only(toClient[c], p)
    BY <1>3, <2>1 DEF MoreBlocks
  <2> QED BY <1>3, <2>1, <2>2, HeadIs, HeadRead DEF MoreBlocks
<1> QED BY <1>1, <1>2, <1>3

\* A block of a download, and the ACK that asks for the next ones.
LEMMA BlockRead ==
  ASSUME C!TypeOK, NEW c \in Conns, Process(c), ~IsBroadcast(Head(toClient[c])),
         Downloading(c)
  PROVE  /\ Free(c)' \/ Downloading(c)'
         /\ myConnectionState[c]
<1> DEFINE h == Head(toClient[c])
           t == Tail(toClient[c])
           pkts == <<AckPacket(h.block)>>
<1>1. PICK cmd \in Commands[c] :
        /\ cmd.op = "RRQ" /\ cmd.file \in FileNames
        /\ Asks(c, cmd)
        /\ ~cl[c].goingToFinish
        /\ myConnectionState[c]
        /\ LastBlocks(c) \/ MoreBlocks(c)
  BY DEF Downloading
<1>2. \/ /\ Settled(c) /\ FullBlock(h) /\ toServer[c] = <<>>
         /\ \E q : ShortBlock(q) /\ Only(t, q)
      \/ Settled(c) /\ ShortBlock(h) /\ Quiet(t) /\ Acks(toServer[c])
      \/ /\ MoreBlocks(c) /\ FullBlock(h) /\ Quiet(t)
         /\ pc[c] = "listen" /\ toServer[c] = <<>>
  BY BlockHead
<1>3. h \in Packet /\ h.op = "DATA" /\ vars' = vars
  BY <1>2, HeadRead DEF FullBlock, ShortBlock
<1>4. h.block \in BlockNum /\ h.data \in Seq(Bytes) /\ BlockSize \in Nat
  <2> HIDE DEF h
  <2> QED BY <1>3, PacketFields, BlockAssumption
<1>5. pkts \in Seq(Request) /\ Acks(pkts) /\ Len(pkts) = 1
  BY <1>4, SentTypes DEF Acks, AckPacket
<1>6. C!DownloadNext(c) \/ C!DownloadComplete(c)
  BY <1>1, <1>3, ReadActs
<1>7. toServer[c] \in Seq(Request) /\ cl[c] \in C!ClientProtocol
  BY ClientTypes
<1>8. C!AckPacket(C!Block(c)) = AckPacket(h.block)
  BY SamePackets DEF C!Block
<1>9. CASE C!DownloadNext(c)
  <2> DEFINE k == [cl[c] EXCEPT !.wholeFile = C!DataIn(c)]
  <2>1. C!Processed(c, k, pkts) /\ Len(h.data) = BlockSize
    BY <1>8, <1>9 DEF C!DownloadNext
  <2>2. k.req = cl[c].req /\ k.lastOperation = cl[c].lastOperation /\ ~k.goingToFinish
    BY <1>1, <1>7 DEF C!ClientProtocol
  <2> HIDE DEF k, pkts, h, t
  <2>3. cl'[c] = k /\ toClient'[c] = t /\ toServer'[c] = toServer[c] \o pkts
    BY <1>5, <2>1, ProcessedTakes DEF t
  <2>4. Asks(c, cmd)' /\ ~cl'[c].goingToFinish
    BY <1>1, <2>2, <2>3 DEF Asks
  <2>5. ~ShortBlock(h)
    BY <1>4, <2>1 DEF ShortBlock
  <2>6. toServer'[c] = pkts
    BY <1>2, <1>5, <2>3, <2>5
  <2>7. CASE \E q : ShortBlock(q) /\ Only(t, q) /\ Settled(c)
    <3>1. PICK q : ShortBlock(q) /\ Only(t, q) /\ Settled(c)
      BY <2>7
    <3>2. q \in Packets(toClient'[c]) /\ Only(toClient'[c], q)
      BY <2>3, <3>1 DEF Only, Packets
    <3>3. Settled(c)'
      BY <1>3, <3>1 DEF Settled, vars, download, loop, input
    <3>4. LastBlocks(c)'
      BY <1>5, <2>6, <3>1, <3>2, <3>3 DEF LastBlocks
    <3> QED BY <1>1, <1>3, <2>4, <3>4 DEF Downloading, vars, session
  <2>8. CASE MoreBlocks(c) /\ Quiet(t) /\ pc[c] = "listen"
    <3>1. MoreBlocks(c)'
      BY <1>3, <1>5, <2>3, <2>6, <2>8 DEF MoreBlocks, vars, download
    <3> QED BY <1>1, <1>3, <2>4, <3>1 DEF Downloading, vars, session
  <2> QED BY <1>1, <1>2, <2>5, <2>7, <2>8
<1>10. CASE C!DownloadComplete(c)
  <2> DEFINE k == [cl[c] EXCEPT !.req["RRQ"] = NONE, !.wholeFile = <<>>]
  <2>1. C!Processed(c, k, pkts) /\ Len(h.data) < BlockSize
    BY <1>8, <1>10 DEF C!DownloadComplete
  <2>2. k.req = [cl[c].req EXCEPT !["RRQ"] = NONE] /\ ~k.goingToFinish
    BY <1>1, <1>7 DEF C!ClientProtocol
  <2> HIDE DEF k, pkts, h, t
  <2>3. cl'[c] = k /\ toClient'[c] = t /\ toServer'[c] = toServer[c] \o pkts
    BY <1>5, <2>1, ProcessedTakes DEF t
  <2>4. Settled(c) /\ Quiet(t) /\ Acks(toServer[c])
    BY <1>2, <1>4, <2>1 DEF FullBlock
  <2>5. Acks(toServer'[c])
    <3>1. AckPacket(h.block) \in Request /\ AckPacket(h.block).op = "ACK"
      BY <1>4, SentTypes DEF AckPacket
    <3> QED BY <1>7, <2>3, <2>4, <3>1, SendsMore DEF pkts
  <2> QED BY <1>1, <2>2, <2>3, <2>4, <2>5, AnswerRead
<1> QED BY <1>6, <1>9, <1>10

\* The file an ACK makes the client send from.
Buffer(c, f) ==
  IF Head(toClient[c]).block # 0 THEN cl[c].toSendVec
  ELSE IF local[c][f] # NONE THEN local[c][f] ELSE <<>>

\* An ACK makes the client send the next block of its file, if there is one.
LEMMA AckRead ==
  ASSUME C!TypeOK, NEW c \in Conns, Process(c), ~IsBroadcast(Head(toClient[c])),
         NEW f \in FileNames, Put(f) \in Commands[c], Asks(c, Put(f)), Awaiting(c)
  PROVE  /\ C!TypeOK' /\ local' = local /\ Asks(c, Put(f))'
         /\ Head(toClient[c]).op = "ACK" /\ Head(toClient[c]).block \in BlockNum
         /\ \/ /\ NothingSent(c)'
               /\ Head(toClient[c]).block = 0 /\ Buffer(c, f) = <<>>
            \/ /\ Sending(c)'
               /\ toServer'[c][1] \in Request
               /\ toServer'[c][1].data \o cl'[c].toSendVec = Buffer(c, f)
               /\ Head(toClient[c]).block = 0 => Buffer(c, f) # <<>>
<1> DEFINE h == Head(toClient[c])
           t == Tail(toClient[c])
<1>1. /\ pc[c] = "listen" /\ toServer[c] = <<>> /\ ~cl[c].goingToFinish
      /\ h.op = "ACK" /\ Quiet(t)
      /\ h.block # 0 => cl[c].toSendVec # NONE
  BY HeadIs, HeadRead DEF Awaiting
<1>2. h \in Packet /\ vars' = vars /\ toClient[c] # <<>>
  BY HeadRead
<1>3. h.block \in BlockNum
  <2> HIDE DEF h
  <2> QED BY <1>1, <1>2, PacketFields
<1>4. /\ Put(f).op = "WRQ" /\ Put(f).file = f
      /\ C!Argument(Put(f)) = f
  BY DEF Put, C!Argument
<1>5. cl[c].req["WRQ"] = f
  BY <1>4, Asked
<1>6. C!UploadStart(c) \/ C!UploadNext(c) \/ C!UploadComplete(c)
  BY <1>1, <1>4, ReadActs
<1>7. ~C!Uploaded(c)
  BY <1>1 DEF C!Uploaded
<1>8. local[c] \in [FileNames -> MaybeData] /\ cl[c] \in C!ClientProtocol
      /\ cl[c].toSendVec \in Seq(Bytes) \cup {NONE}
  BY ClientTypes, Fields
<1>9. Buffer(c, f) \in Seq(Bytes)
  BY <1>1, <1>8 DEF Buffer, MaybeData
<1>10. local' = local
  BY <1>6 DEF C!UploadStart, C!UploadNext, C!UploadComplete
<1>11. ASSUME C!SendNextPacket(c, Buffer(c, f))
       PROVE  /\ C!TypeOK' /\ Asks(c, Put(f))' /\ Sending(c)'
              /\ toServer'[c][1] \in Request
              /\ toServer'[c][1].data \o cl'[c].toSendVec = Buffer(c, f)
  <2>1. /\ C!TypeOK' /\ toClient'[c] = t
        /\ cl'[c].req = cl[c].req /\ cl'[c].lastOperation = cl[c].lastOperation
    BY <1>2, <1>9, <1>10, <1>11, SendsBlock
  <2>2. PICK p \in Request :
          /\ toServer'[c] = toServer[c] \o <<p>>
          /\ \/ /\ FullBlock(p) /\ cl'[c].toSendVec \in Seq(Bytes)
                /\ cl'[c].goingToFinish = cl[c].goingToFinish
             \/ ShortBlock(p) /\ cl'[c].goingToFinish /\ cl'[c].toSendVec = <<>>
          /\ p.data \o cl'[c].toSendVec = Buffer(c, f)
    BY <1>2, <1>9, <1>10, <1>11, SendsBlock
  <2>3. toServer'[c] = <<p>> /\ Len(toServer'[c]) = 1 /\ toServer'[c][1] = p
    BY <1>1, <2>2
  <2>4. Sent(c, p)'
    BY <1>1, <2>2, NameAssumption DEF Sent, C!Uploaded
  <2>5. Sending(c)'
    BY <1>1, <1>2, <2>1, <2>3, <2>4 DEF Sending, vars
  <2>6. Asks(c, Put(f))'
    BY <2>1 DEF Asks
  <2> QED BY <2>1, <2>2, <2>3, <2>5, <2>6
<1>12. CASE C!UploadStart(c)
  <2>1. h.block = 0 /\ Buffer(c, f) = IF local[c][f] # NONE THEN local[c][f] ELSE <<>>
    BY <1>12 DEF C!UploadStart, C!Block, Buffer
  <2>2. IF Buffer(c, f) # <<>> THEN C!SendNextPacket(c, Buffer(c, f))
        ELSE C!Processed(c, [cl[c] EXCEPT !.toSendVec = <<>>], <<>>)
    BY <1>5, <1>12, <2>1 DEF C!UploadStart
  <2>3. CASE Buffer(c, f) = <<>>
    <3> DEFINE k == [cl[c] EXCEPT !.toSendVec = <<>>]
    <3>1. C!Processed(c, k, <<>>) /\ <<>> \in Seq(Request) /\ <<>> \in Seq(Bytes)
      BY <2>2, <2>3
    <3>2. k \in C!ClientProtocol
      BY <3>1, FieldsKept
    <3>3. /\ k.req = cl[c].req /\ k.lastOperation = cl[c].lastOperation
          /\ ~k.goingToFinish
      BY <1>1, <1>8 DEF C!ClientProtocol
    <3> HIDE DEF k
    <3>4. /\ cl'[c] = k /\ toClient'[c] = t
          /\ toServer'[c] = toServer[c] \o <<>>
      BY <3>1, ProcessedTakes
    <3>5. toServer'[c] = <<>>
      BY <1>1, <3>4
    <3>6. NothingSent(c)'
      BY <1>1, <1>2, <3>3, <3>4, <3>5 DEF NothingSent, vars
    <3>7. Asks(c, Put(f))'
      BY <3>3, <3>4 DEF Asks
    <3>8. local' \in [Conns -> [FileNames -> MaybeData]]
      BY <1>10, SamePackets DEF C!TypeOK
    <3>9. C!TypeOK'
      BY <1>2, <3>1, <3>2, <3>8, ProcessedTypes
    <3> QED BY <1>1, <1>3, <1>10, <2>1, <2>3, <3>6, <3>7, <3>9
  <2>4. CASE Buffer(c, f) # <<>>
    BY <1>1, <1>3, <1>10, <1>11, <2>2, <2>4
  <2> QED BY <2>3, <2>4
<1>13. CASE C!UploadNext(c)
  <2>1. C!SendNextPacket(c, Buffer(c, f))
    BY <1>13 DEF C!UploadNext, C!Block, Buffer
  <2>2. h.block # 0
    BY <1>13 DEF C!UploadNext, C!Block
  <2> QED BY <1>1, <1>3, <1>10, <1>11, <2>1, <2>2
<1> QED BY <1>6, <1>7, <1>12, <1>13 DEF C!UploadComplete

\* The ACK of the last block.
LEMMA SavedRead ==
  ASSUME C!TypeOK, NEW c \in Conns, Process(c), ~IsBroadcast(Head(toClient[c])),
         NEW f \in FileNames, Put(f) \in Commands[c], Asks(c, Put(f)), Saved(c),
         toDownload[c] = NONE
  PROVE  /\ Free(c)' /\ local' = local
         /\ toServer'[c] = <<>>
         /\ C!UploadComplete(c)
<1> DEFINE h == Head(toClient[c])
           t == Tail(toClient[c])
           k == [cl[c] EXCEPT !.req["WRQ"] = NONE, !.goingToFinish = FALSE]
<1>1. /\ Resting(c) /\ toServer[c] = <<>> /\ C!Uploaded(c)
      /\ h.op = "ACK" /\ Quiet(t)
  BY HeadIs, HeadRead DEF Saved, Resting
<1>2. Put(f).op = "WRQ"
  BY DEF Put
<1>3. C!UploadStart(c) \/ C!UploadNext(c) \/ C!UploadComplete(c)
  BY <1>1, <1>2, ReadActs
<1>4. C!UploadComplete(c)
  BY <1>1, <1>3 DEF C!UploadStart, C!UploadNext
<1>5. C!Processed(c, k, <<>>) /\ local' = local /\ <<>> \in Seq(Request)
  BY <1>4 DEF C!UploadComplete
<1>6. cl[c] \in C!ClientProtocol
  BY ClientTypes
<1>7. k.req = [cl[c].req EXCEPT !["WRQ"] = NONE] /\ ~k.goingToFinish
  BY <1>6 DEF C!ClientProtocol
<1> HIDE DEF k
<1>8. /\ cl'[c] = k /\ toClient'[c] = t
      /\ toServer'[c] = toServer[c] \o <<>>
  BY <1>5, ProcessedTakes
<1>9. toServer'[c] = <<>> /\ Acks(toServer'[c])
  BY <1>1, <1>8 DEF Acks
<1>10. Settled(c)
  BY <1>1 DEF Settled, Resting
<1> QED BY <1>1, <1>2, <1>4, <1>5, <1>7, <1>8, <1>9, <1>10, AnswerRead

\* No other client is concerned.
LEMMA OthersRead ==
  ASSUME C!TypeOK, NEW c \in Conns, Process(c), NEW d \in Conns, d # c
  PROVE  Unmoved(d)
<1>1. \E k, pkts : C!Processed(c, k, pkts)
  <2>1. C!Dropped(c) \/ C!ErrorPrinted(c) \/ C!Listing(c) => \E k, pkts : C!Processed(c, k, pkts)
    BY Zenon DEF C!Dropped, C!ErrorPrinted, C!Listing
  <2>2. C!AckPlain(c) \/ C!AckDisc(c) => \E k, pkts : C!Processed(c, k, pkts)
    BY Zenon DEF C!AckPlain, C!AckDisc
  <2>3. C!UploadStart(c) => \E k, pkts : C!Processed(c, k, pkts)
    BY Zenon DEF C!UploadStart, C!SendNextPacket
  <2>4. C!UploadNext(c) \/ C!UploadComplete(c) => \E k, pkts : C!Processed(c, k, pkts)
    BY Zenon DEF C!UploadNext, C!UploadComplete, C!SendNextPacket
  <2>5. C!DownloadNext(c) \/ C!DownloadComplete(c) => \E k, pkts : C!Processed(c, k, pkts)
    BY Zenon DEF C!DownloadNext, C!DownloadComplete
  <2> QED BY <2>1, <2>2, <2>3, <2>4, <2>5 DEF Process, C!SocketThread
<1>2. /\ cl'[d] = cl[d] /\ toClient'[d] = toClient[d] /\ toServer'[d] = toServer[d]
  BY <1>1 DEF C!Processed, C!TypeOK
<1>3. vars' = vars
  BY DEF Process
<1>4. Hears(d)
  BY <1>2 DEF Hears
<1> QED BY <1>2, <1>3, <1>4 DEF Unmoved, vars, input, loop, download, upload, session

\* The phases in which a client finds what is no broadcast.
LEMMA HeadPhases ==
  ASSUME C!TypeOK, NEW c \in Conns, Process(c), ~IsBroadcast(Head(toClient[c])),
         Agree(c)
  PROVE  \/ Replied(c) \/ Downloading(c)
         \/ \E f \in FileNames :
              /\ Put(f) \in Commands[c]
              /\ Asks(c, Put(f))
              /\ myConnectionState[c]
              /\ toDownload[c] = NONE
              /\ Saved(c) \/ (goingToBeReceived[c] = f /\ Awaiting(c))
<1>1. ~Quiet(toClient[c])
  BY HeadIs, HeadRead
<1>2. ~Free(c) /\ ~Requested(c)
  BY <1>1 DEF Free, Requested
<1>3. ~NothingSent(c) /\ ~Sending(c) /\ ~Arrived(c) /\ ~Writing(c)
  BY <1>1 DEF NothingSent, Sending, Arrived, Writing
<1> HIDE DEF Put, Saved, Awaiting, NothingSent, Sending, Arrived, Writing, Asks
<1>4. Uploading(c) =>
        \E f \in FileNames :
          /\ Put(f) \in Commands[c]
          /\ Asks(c, Put(f))
          /\ myConnectionState[c]
          /\ toDownload[c] = NONE
          /\ Saved(c) \/ (goingToBeReceived[c] = f /\ Awaiting(c))
  BY <1>3 DEF Uploading
<1> QED BY <1>2, <1>4 DEF Agree

\* A file is there when the ACK of a block is read.
LEMMA FileIsOpen ==
  ASSUME C!TypeOK, NEW c \in Conns, Process(c), Agree(c), C!UploadNext(c)
  PROVE  cl[c].toSendVec # NONE
<1>1. /\ Head(toClient[c]).op = "ACK" /\ Head(toClient[c]).block # 0
      /\ cl[c].req["WRQ"] # NONE /\ ~C!Uploaded(c)
  BY DEF C!UploadNext, C!Acknowledges, C!Gets, C!Block
<1>2. ~IsBroadcast(Head(toClient[c]))
  BY <1>1 DEF IsBroadcast
<1>3. \A cmd \in Commands[c] : Asks(c, cmd) => cmd.op = "WRQ"
  BY <1>1, Asked DEF C!Ops
<1>4. ~Downloading(c)
  BY <1>3 DEF Downloading
<1>5. ~Replied(c)
  <2> SUFFICES ASSUME Replied(c) PROVE FALSE
    OBVIOUS
  <2>1. PICK cmd \in Commands[c] :
          Asks(c, cmd) /\ \E p \in Packets(toClient[c]) : Reports(c, cmd, p)
    BY DEF Replied
  <2>2. Reports(c, cmd, Head(toClient[c]))
    BY <1>2, <2>1, HeadIs, HeadRead DEF Reports
  <2> QED BY <1>1, <1>3, <2>1, <2>2 DEF Reports
<1>6. ~Saved(c)
  BY <1>1 DEF Saved
<1>7. Awaiting(c)
  BY <1>2, <1>4, <1>5, <1>6, HeadPhases
<1> QED BY <1>1, <1>2, <1>7, HeadIs, HeadRead DEF Awaiting

\* Every packet a client reads leaves its conversation a conversation.
LEMMA ProcessStep ==
  ASSUME TypeOK, C!TypeOK, NEW c \in Conns, Process(c), Agree(c), Admitted(c)
  PROVE  C!TypeOK' /\ Agree(c)' /\ Admitted(c)'
<1>1. C!TypeOK' /\ vars' = vars
  BY FileIsOpen, ProcessTypes, HeadRead
<1>2. CASE IsBroadcast(Head(toClient[c]))
  BY <1>1, <1>2, BroadcastRead, AgreeKept
<1>3. CASE ~IsBroadcast(Head(toClient[c]))
  <2>0. /\ myConnectionState'[c] = myConnectionState[c] /\ pc'[c] = pc[c]
        /\ message'[c] = message[c] /\ toDownload'[c] = toDownload[c]
        /\ goingToBeReceived'[c] = goingToBeReceived[c]
    BY <1>1 DEF vars, session, input, download, upload
  <2>1. ASSUME Packets(toServer'[c]) # {} => myConnectionState[c] PROVE Admitted(c)'
    BY <2>0, <2>1 DEF Admitted
  <2>2. CASE Replied(c)
    BY <1>1, <1>3, <2>1, <2>2, ReplyRead DEF Agree
  <2>3. CASE Downloading(c)
    BY <1>1, <1>3, <2>1, <2>3, BlockRead DEF Agree
  <2>4. ASSUME NEW f \in FileNames,
               Put(f) \in Commands[c], Asks(c, Put(f)), myConnectionState[c],
               toDownload[c] = NONE, Saved(c)
        PROVE  Agree(c)' /\ Admitted(c)'
    BY <1>3, <2>1, <2>4, SavedRead DEF Agree
  <2>5. ASSUME NEW f \in FileNames,
               Put(f) \in Commands[c], Asks(c, Put(f)), myConnectionState[c],
               toDownload[c] = NONE, goingToBeReceived[c] = f, Awaiting(c)
        PROVE  Agree(c)' /\ Admitted(c)'
    <3>1. Asks(c, Put(f))' /\ (NothingSent(c)' \/ Sending(c)')
      BY <1>3, <2>5, AckRead
    <3>2. Uploading(c)'
      <4> HIDE DEF Put, NothingSent, Sending, Asks
      <4> QED BY <2>0, <2>5, <3>1 DEF Uploading
    <3> QED BY <2>1, <2>5, <3>2 DEF Agree
  <2> QED BY <1>1, <1>3, <2>2, <2>3, <2>4, <2>5, HeadPhases
<1> QED BY <1>2, <1>3

\* A user who waits for no answer is in no phase but the free one.
LEMMA NotWaiting ==
  ASSUME NEW c \in Conns, Agree(c), ~C!Waiting(c)
  PROVE  Free(c)
<1>1. \A cmd \in Commands[c] : ~Asks(c, cmd)
  BY Asked DEF C!Waiting
<1>2. ~Requested(c) /\ ~Replied(c) /\ ~Downloading(c) /\ ~Uploading(c)
  BY <1>1 DEF Requested, Replied, Downloading, Uploading
<1> QED BY <1>2 DEF Agree

LEMMA CommandStep ==
  ASSUME C!TypeOK, NEW c \in Conns, Type(c), Agree(c), Admitted(c)
  PROVE  /\ Requested(c)' /\ Agree(c)' /\ Admitted(c)'
         /\ Free(c)
         /\ \A d \in Conns : d # c => Unmoved(d)
<1>1. PICK cmd \in Commands[c] :
        /\ cl' = [cl EXCEPT ![c] =
             [@ EXCEPT !.req[cmd.op] = C!Argument(cmd),
                       !.lastOperation = cmd.op,
                       !.wholeFile = IF cmd.op = "RRQ" THEN <<>>
                                     ELSE cl[c].wholeFile,
                       !.typing = cmd.op # "DISC"]]
        /\ toServer' = [toServer EXCEPT ![c] = Append(@, cmd)]
  BY DEF Type, C!Command
<1>2. /\ toClient' = toClient /\ vars' = vars /\ ~C!Waiting(c)
  BY DEF Type, C!Command
<1>3. Free(c)
  BY <1>2, NotWaiting
<1>4. /\ cmd \in Request /\ cmd.op \in C!Ops
      /\ toServer[c] \in Seq(Request) /\ cl[c] \in C!ClientProtocol
  BY CommandFields, ClientTypes
<1>5. /\ cl'[c].lastOperation = cmd.op
      /\ cl'[c].req = [cl[c].req EXCEPT ![cmd.op] = C!Argument(cmd)]
      /\ cmd.op = "RRQ" => cl'[c].wholeFile = <<>>
      /\ cl'[c].goingToFinish = cl[c].goingToFinish
      /\ toServer'[c] = Append(toServer[c], cmd)
  BY <1>1, <1>4 DEF C!TypeOK, C!ClientProtocol
<1>6. /\ EndsIn(toServer'[c], cmd)
      /\ Packets(toServer'[c]) = Packets(toServer[c]) \cup {cmd}
  <2> DEFINE s == toServer[c]
  <2>1. Acks(s)
    BY <1>3 DEF Free
  <2>2. s \in Seq(Request) /\ toServer'[c] = Append(s, cmd)
    BY <1>4, <1>5
  <2> HIDE DEF s
  <2>3. EndsIn(Append(s, cmd), cmd) /\ Packets(Append(s, cmd)) = Packets(s) \cup {cmd}
    BY <1>4, <2>1, <2>2, SendsMore
  <2> QED BY <2>2, <2>3 DEF s
<1>7. Asks(c, cmd)'
  <2>1. cl[c].req \in [C!Ops -> Names \cup Users \cup {NONE}]
    BY Fields
  <2>2. cl'[c].req = [op \in C!Ops |-> IF op = cmd.op THEN C!Argument(cmd) ELSE NONE]
    BY <1>3, <1>4, <1>5, <2>1 DEF Free
  <2> QED BY <1>5, <2>2 DEF Asks
<1>8. Settled(c)'
  BY <1>2, <1>3 DEF Free, Settled, vars, download, loop, input
<1>9. Requested(c)'
  BY <1>2, <1>3, <1>5, <1>6, <1>7, <1>8 DEF Requested, Free
<1>10. Admitted(c)'
  BY <1>2, <1>4, <1>6 DEF Admitted, vars, session, input, C!Ops
<1>11. ASSUME NEW d \in Conns, d # c PROVE Unmoved(d)
  <2>1. cl'[d] = cl[d] /\ toServer'[d] = toServer[d]
    BY <1>1, <1>11 DEF C!TypeOK
  <2> QED BY <1>2, <2>1 DEF Unmoved, Hears, vars, input, loop, download, upload, session
<1> QED BY <1>3, <1>9, <1>10, <1>11 DEF Agree

-----------------------------------------------------------------------------
(* The invariants of the system.                                           *)

SystemInv == Safety /\ ClientTypeOK /\ Conversation

LEMMA SystemStarts ==
  ASSUME SystemInit
  PROVE  ClientTypeOK /\ Conversation
<1> USE DEF SystemInit, Init, C!Init
<1>1. ClientTypeOK
  <2>1. /\ 0 \in C!BlockNum /\ NONE \in C!MaybeData
        /\ <<>> \in Seq(Bytes) /\ <<>> \in Seq(C!Request) /\ <<>> \in Seq(C!Packet)
    BY BlockNumbers, SamePackets DEF MaybeData
  <2>2. cl \in [Conns -> C!ClientProtocol]
    BY <2>1 DEF C!ClientProtocol
  <2>3. /\ ncmd \in [Conns -> Nat]
        /\ local \in [Conns -> [FileNames -> C!MaybeData]]
    BY CommandsAssumption, SamePackets
  <2>4. /\ toServer \in [Conns -> Seq(C!Request)]
        /\ toClient \in [Conns -> Seq(C!Packet)]
    BY <2>1
  <2> QED BY <2>2, <2>3, <2>4 DEF ClientTypeOK, C!TypeOK
<1>2. Serial
  BY DEF Serial
<1>3. ASSUME NEW c \in Conns PROVE Admitted(c) /\ Agree(c)
  <2>1. Quiet(toClient[c]) /\ Acks(toServer[c]) /\ Packets(toServer[c]) = {}
    BY DEF Quiet, Acks, Packets
  <2>2. Settled(c) /\ \A op \in C!Ops : cl[c].req[op] = NONE
    BY DEF Settled
  <2>3. Free(c)
    BY <2>1, <2>2 DEF Free
  <2> QED BY <2>1, <2>3 DEF Admitted, Agree
<1> QED BY <1>1, <1>2, <1>3 DEF Conversation

\* What is written to a socket is packets.
LEMMA NewPackets ==
  ASSUME NEW s \in Seq([from : Conns, pkt : Packet]),
         NEW t \in Seq([from : Conns, pkt : Packet])
  PROVE  LET new == SubSeq(t, Len(s) + 1, Len(t))
         IN [i \in 1 .. Len(new) |-> new[i].pkt] \in Seq(Packet)
<1> DEFINE E == [from : Conns, pkt : Packet]
           new == SubSeq(t, Len(s) + 1, Len(t))
<1>1. s \in Seq(E) /\ t \in Seq(E)
  OBVIOUS
<1>2. Len(new) \in Nat /\ \A i \in 1 .. Len(new) : new[i] \in E
  <2> HIDE DEF E
  <2>1. Len(s) \in Nat /\ Len(t) \in Nat
    BY <1>1
  <2>2. \A i \in Len(s) + 1 .. Len(t) : t[i] \in E
    BY <1>1, <2>1
  <2>3. new \in Seq(E)
    BY <1>1, <2>1, <2>2
  <2> HIDE DEF new
  <2> QED BY <2>3
<1> HIDE DEF new
<1>3. /\ Len(new) \in Nat
      /\ \A i \in 1 .. Len(new) : new[i] \in [from : Conns, pkt : Packet]
  BY <1>2
<1>4. \A i \in 1 .. Len(new) : new[i].pkt \in Packet
  BY <1>3
<1>5. [i \in 1 .. Len(new) |-> new[i].pkt] \in [1 .. Len(new) -> Packet]
  BY <1>4
<1>6. [i \in 1 .. Len(new) |-> new[i].pkt] \in Seq(Packet)
  BY <1>3, <1>5
<1> QED BY <1>6 DEF new

LEMMA SystemSteps ==
  ASSUME Safety, ClientTypeOK, Conversation, NEW c \in Conns,
         ServerStep(c) \/ Type(c) \/ Process(c)
  PROVE  ClientTypeOK' /\ Conversation'
<1>0. /\ TypeOK /\ IndInv /\ C!TypeOK
      /\ \A d \in Conns : Agree(d) /\ Admitted(d)
  BY DEF Safety, ClientTypeOK, Conversation
<1>1. CASE ServerStep(c)
  <2>1. C!TypeOK'
    <3>1. cl' = cl /\ local' = local /\ ncmd' = ncmd
      BY <1>1 DEF ServerStep, SystemThread, SystemReceive, SystemAccept, clients
    <3>2. toServer' \in [Conns -> Seq(Request)]
      <4>1. CASE SystemReceive(c)
        <5>1. toServer[c] \in Seq(Request) /\ toServer[c] # <<>>
          BY <1>0, <4>1, ClientTypes DEF SystemReceive
        <5>2. Tail(toServer[c]) \in Seq(Request)
          BY <5>1
        <5> QED BY <1>0, <4>1, <5>2, SamePackets DEF SystemReceive, C!TypeOK
      <4> QED BY <1>0, <1>1, <4>1, SamePackets
              DEF ServerStep, SystemThread, SystemAccept, clients, C!TypeOK
    <3>3. toClient' \in [Conns -> Seq(Packet)]
      <4>1. CASE SystemThread(c)
        <5>1. ASSUME NEW d \in Conns PROVE toClient[d] \o Written(d) \in Seq(Packet)
          <6>1. TypeOK'
            BY <1>0, <1>1, ServerSteps, TypeStep DEF IndInv
          <6>2. out'[d] \in Seq([from : Conns, pkt : Packet])
            BY <6>1 DEF TypeOK
          <6>3. out[d] \in Seq([from : Conns, pkt : Packet])
            BY <1>0 DEF TypeOK
          <6>4. Written(d) \in Seq(Packet)
            BY <6>2, <6>3, NewPackets DEF Written
          <6>5. toClient[d] \in Seq(Packet)
            BY <1>0, ClientTypes
          <6> HIDE DEF Written
          <6> QED BY <6>4, <6>5
        <5> QED BY <4>1, <5>1 DEF SystemThread
      <4> QED BY <1>0, <1>1, <4>1, SamePackets
              DEF ServerStep, SystemReceive, SystemAccept, clients, C!TypeOK
    <3> QED BY <1>0, <3>1, <3>2, <3>3, SamePackets DEF C!TypeOK
  <2>2. Conversation'
    BY <1>0, <1>1, ServerAgrees
  <2> QED BY <2>1, <2>2 DEF ClientTypeOK
<1>2. ASSUME vars' = vars,
             C!TypeOK', Agree(c)', Admitted(c)',
             \A d \in Conns : d # c => Unmoved(d)
      PROVE  ClientTypeOK' /\ Conversation'
  <2>1. Serial'
    BY <1>2 DEF Conversation, Serial, Registered, vars, server, loop
  <2>2. \A d \in Conns : Agree(d)' /\ Admitted(d)'
    BY <1>0, <1>2, AgreeKept
  <2> QED BY <1>2, <2>1, <2>2 DEF Conversation, ClientTypeOK
<1>3. CASE Type(c)
  <2>1. vars' = vars
    BY <1>3 DEF Type
  <2> QED BY <1>0, <1>2, <1>3, <2>1, CommandStep, TypeTypes
<1>4. CASE Process(c)
  <2>1. \A d \in Conns : d # c => Unmoved(d)
    BY <1>0, <1>4, OthersRead
  <2>2. vars' = vars
    BY <1>4 DEF Process
  <2> QED BY <1>0, <1>2, <1>4, <2>1, <2>2, ProcessStep
<1> QED BY <1>1, <1>3, <1>4

LEMMA SystemNextIs ==
  SystemNext <=> \E c \in Conns : ServerStep(c) \/ Type(c) \/ Process(c)
BY DEF SystemNext, ServerStep

LEMMA SystemSafe == SystemInv /\ [SystemNext]_systemVars => SystemInv'
<1> SUFFICES ASSUME SystemInv, [SystemNext]_systemVars PROVE SystemInv'
  OBVIOUS
<1>0. Safety /\ ClientTypeOK /\ Conversation
  BY DEF SystemInv
<1>1. CASE SystemNext
  <2>1. PICK c \in Conns : ServerStep(c) \/ Type(c) \/ Process(c)
    BY <1>1, SystemNextIs
  <2>2. [Next]_vars
    BY <2>1, ServerSteps DEF Next, Type, Process
  <2>3. Safety'
    BY <1>0, <2>2, NextSafe
  <2> QED BY <1>0, <2>1, <2>3, SystemSteps DEF SystemInv
<1>2. CASE UNCHANGED systemVars
  <2>1. UNCHANGED vars /\ UNCHANGED clients
    BY <1>2 DEF systemVars
  <2>2. Safety'
    BY <1>0, <2>1, NextSafe
  <2>3. ClientTypeOK'
    BY <1>0, <2>1 DEF ClientTypeOK, C!TypeOK, clients
  <2>4. Serial'
    BY <1>0, <2>1 DEF Conversation, Serial, Registered, vars, server, loop
  <2>5. ASSUME NEW d \in Conns PROVE Agree(d)' /\ Admitted(d)'
    <3>1. Unmoved(d)
      BY <2>1 DEF Unmoved, Hears, vars, input, loop, download, upload, session, clients
    <3> QED BY <1>0, <3>1, AgreeKept DEF Conversation, ClientTypeOK
  <2> QED BY <2>2, <2>3, <2>4, <2>5 DEF SystemInv, Conversation
<1> QED BY <1>1, <1>2

\* The threads of the server do in the system what TFTPServer lets them do, so
\* whatever holds of them for every sequence of requests holds of them here.
THEOREM ServerOfSystem == SystemSpec => Spec
<1>1. SystemInit => Init
  BY DEF SystemInit
<1>2. [SystemNext]_systemVars => [Next]_vars
  <2>1. SystemNext => [Next]_vars
    BY SystemNextIs, ServerSteps DEF Next, Type, Process
  <2>2. UNCHANGED systemVars => UNCHANGED vars
    BY DEF systemVars
  <2> QED BY <2>1, <2>2
<1> QED BY <1>1, <1>2, PTL DEF SystemSpec, Spec

\* The inductive invariant of the system: the safety of the server, the types of
\* the client and the agreement of the two, which need each other: what a thread
\* may receive next follows from what its client is doing.
THEOREM SystemInvariance == SystemSpec => []SystemInv
<1>1. SystemInit => SystemInv
  BY SystemStarts, InitSafe DEF SystemInit, SystemInv
<1> QED BY <1>1, SystemSafe, PTL DEF SystemSpec

\* The client's fields, its directory and both channels keep their types: no
\* ACK of a block is read while there is no file to send from.
THEOREM ClientTypesHold == SystemSpec => []ClientTypeOK
<1>1. SystemInv => ClientTypeOK
  BY DEF SystemInv
<1> QED BY <1>1, SystemInvariance, PTL

\* A client and its thread agree on the phase of their conversation, although
\* broadcasts of other threads come between, the server sends the last short
\* block unasked and late acknowledgements run ahead of the next command.
THEOREM ConversationHolds == SystemSpec => []Conversation
<1>1. SystemInv => Conversation
  BY DEF SystemInv
<1> QED BY <1>1, SystemInvariance, PTL
=============================================================================
