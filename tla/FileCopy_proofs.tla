--------------------------- MODULE FileCopy_proofs ---------------------------
(***************************************************************************)
(* The refinement of TFTPSystem, proved: the uploads and downloads of all  *)
(* clients, block by block and at the same time, do what FileCopy says.    *)
(* TFTPSystem_proofs has the conversation of each client with its thread;  *)
(* here are the bytes, and the step of FileCopy each step amounts to.      *)
(***************************************************************************)
EXTENDS TFTPSystem_proofs

(* What is on its way to a client.                                         *)

HasAck(s) == \E pkt \in Packets(s) : pkt.op = "ACK"

LEMMA OnlyOne ==
  ASSUME NEW s \in Seq(Packet), NEW p, NEW q \in Packets(s), Only(s, p),
         ~IsBroadcast(q)
  PROVE  q = p
BY DEF Only, Packets

LEMMA NoFlight ==
  ASSUME NEW s \in Seq(Packet), \A i \in 1 .. Len(s) : s[i].op # "DATA"
  PROVE  DataAt(s) = {} /\ InFlight(s) = <<>>
BY DEF DataAt, InFlight

LEMMA QuietFlight ==
  ASSUME NEW s \in Seq(Packet), Quiet(s)
  PROVE  DataAt(s) = {} /\ InFlight(s) = <<>> /\ ~HasAck(s)
<1>1. \A i \in 1 .. Len(s) : s[i].op = "BCAST"
  BY DEF Quiet, IsBroadcast
<1>2. ~HasAck(s)
  BY <1>1 DEF HasAck, Packets
<1> QED BY <1>1, <1>2, NoFlight

\* One packet that is no broadcast.
LEMMA OneFlight ==
  ASSUME NEW s \in Seq(Packet), NEW p, Only(s, p), ~IsBroadcast(p)
  PROVE  /\ HasAck(s) <=> p.op = "ACK"
         /\ p.op # "DATA" => DataAt(s) = {} /\ InFlight(s) = <<>>
         /\ p.op = "DATA" => DataAt(s) # {} /\ InFlight(s) = p.data
<1>1. PICK i \in 1 .. Len(s) :
        s[i] = p /\ \A k \in 1 .. Len(s) : k # i => s[k].op = "BCAST"
  BY DEF Only, IsBroadcast
<1>2. HasAck(s) <=> p.op = "ACK"
  BY <1>1 DEF HasAck, Packets
<1>3. ASSUME p.op # "DATA" PROVE DataAt(s) = {} /\ InFlight(s) = <<>>
  BY <1>1, <1>3, NoFlight
<1>4. ASSUME p.op = "DATA" PROVE DataAt(s) # {} /\ InFlight(s) = p.data
  <2>1. DataAt(s) = {i}
    BY <1>1, <1>4 DEF DataAt
  <2>2. (CHOOSE x \in DataAt(s) : \A j \in DataAt(s) : x <= j) = i
    BY <2>1
  <2>3. (CHOOSE x \in DataAt(s) : \A j \in DataAt(s) : j <= x) = i
    BY <2>1
  <2> QED BY <1>1, <2>1, <2>2, <2>3 DEF InFlight
<1> QED BY <1>2, <1>3, <1>4

LEMMA TwoFlight ==
  ASSUME NEW s \in Seq(Packet), NEW p, NEW q, Both(s, p, q),
         p.op = "DATA", q.op = "DATA"
  PROVE  ~HasAck(s) /\ DataAt(s) # {} /\ InFlight(s) = p.data \o q.data
<1>1. PICK i \in 1 .. Len(s), j \in 1 .. Len(s) :
        /\ i < j /\ s[i] = p /\ s[j] = q
        /\ \A k \in 1 .. Len(s) : k # i /\ k # j => s[k].op = "BCAST"
  BY DEF Both, IsBroadcast
<1>2. ~HasAck(s)
  BY <1>1 DEF HasAck, Packets
<1>3. DataAt(s) = {i, j}
  BY <1>1 DEF DataAt
<1> DEFINE first == CHOOSE x \in DataAt(s) : \A y \in DataAt(s) : x <= y
           last == CHOOSE x \in DataAt(s) : \A y \in DataAt(s) : y <= x
<1>4. first = i
  <2>1. \E x \in DataAt(s) : \A y \in DataAt(s) : x <= y
    BY <1>1, <1>3
  <2>2. first \in DataAt(s) /\ \A y \in DataAt(s) : first <= y
    BY <2>1
  <2> QED BY <1>1, <1>3, <2>2
<1>5. last = j
  <2>1. \E x \in DataAt(s) : \A y \in DataAt(s) : y <= x
    BY <1>1, <1>3
  <2>2. last \in DataAt(s) /\ \A y \in DataAt(s) : y <= last
    BY <2>1
  <2> QED BY <1>1, <1>3, <2>2
<1>6. InFlight(s) = IF DataAt(s) = {} THEN <<>>
                    ELSE IF first = last THEN s[first].data
                    ELSE s[first].data \o s[last].data
  BY DEF InFlight
<1> HIDE DEF first, last
<1>7. InFlight(s) = s[i].data \o s[j].data
  <2>1. DataAt(s) # {} /\ i # j
    BY <1>1, <1>3
  <2> QED BY <1>4, <1>5, <1>6, <2>1
<1> QED BY <1>1, <1>2, <1>3, <1>7

\* Broadcasts change nothing of the load of a channel.
SameLoad(c) ==
  /\ DataAt(toClient'[c]) = {} <=> DataAt(toClient[c]) = {}
  /\ InFlight(toClient'[c]) = InFlight(toClient[c])
  /\ HasAck(toClient'[c]) <=> HasAck(toClient[c])

\* What a channel to a client carries, as the phases of a conversation say.
Loaded(s) ==
  \/ Quiet(s)
  \/ \E p : ~IsBroadcast(p) /\ Only(s, p)
  \/ \E p, q : p.op = "DATA" /\ q.op = "DATA" /\ Both(s, p, q)

LEMMA AgreeLoaded ==
  ASSUME NEW c \in Conns, Agree(c)
  PROVE  Loaded(toClient[c])
<1> USE DEF Loaded, IsBroadcast
<1>1. CASE Free(c) \/ Requested(c)
  BY <1>1 DEF Free, Requested
<1>2. CASE Replied(c)
  BY <1>2 DEF Replied, Reports
<1>3. CASE Downloading(c)
  <2>1. LastBlocks(c) \/ MoreBlocks(c)
    BY <1>3 DEF Downloading
  <2> QED BY <2>1 DEF LastBlocks, MoreBlocks, FullBlock, ShortBlock
<1>4. CASE Uploading(c)
  <2>1. \/ Saved(c) \/ Awaiting(c) \/ NothingSent(c) \/ Sending(c) \/ Arrived(c)
        \/ Writing(c)
    BY <1>4, Zenon DEF Uploading
  <2> QED BY <2>1 DEF Saved, Awaiting, NothingSent, Sending, Arrived, Writing
<1> QED BY <1>1, <1>2, <1>3, <1>4 DEF Agree

LEMMA HearsLoad ==
  ASSUME C!TypeOK, NEW c \in Conns, Agree(c), Hears(c)
  PROVE  SameLoad(c)
<1> DEFINE s == toClient[c]
           t == toClient'[c]
<1>1. s \in Seq(Packet) /\ t \in Seq(Packet) /\ Loaded(s)
  BY ClientTypes, HearsKeeps, AgreeLoaded
<1>2. /\ Quiet(s) => Quiet(t)
      /\ \A p : ~IsBroadcast(p) /\ Only(s, p) => Only(t, p)
      /\ \A p, q : ~IsBroadcast(p) /\ Both(s, p, q) => Both(t, p, q)
  BY HearsKeeps
<1> HIDE DEF s, t
<1>3. CASE Quiet(s)
  BY <1>1, <1>2, <1>3, QuietFlight DEF SameLoad, s, t
<1>4. ASSUME NEW p, ~IsBroadcast(p), Only(s, p) PROVE SameLoad(c)
  BY <1>1, <1>2, <1>4, OneFlight DEF SameLoad, s, t
<1>5. ASSUME NEW p, NEW q, p.op = "DATA", q.op = "DATA", Both(s, p, q)
      PROVE  SameLoad(c)
  <2>1. Both(t, p, q)
    BY <1>2, <1>5 DEF IsBroadcast
  <2>2. /\ ~HasAck(s) /\ DataAt(s) # {} /\ InFlight(s) = p.data \o q.data
        /\ ~HasAck(t) /\ DataAt(t) # {} /\ InFlight(t) = p.data \o q.data
    BY <1>1, <1>5, <2>1, TwoFlight
  <2> QED BY <2>2 DEF SameLoad, s, t
<1> QED BY <1>1, <1>3, <1>4, <1>5 DEF Loaded

-----------------------------------------------------------------------------
(* The job of a client.                                                    *)

\* What the command a client waits for says of its job.
JobsFit ==
  \A c \in Conns :
    /\ (\A op \in C!Ops : cl[c].req[op] = NONE) => JobOf(c) = F!Idle
    /\ \A cmd \in Commands[c] : Asks(c, cmd) =>
         /\ cmd.op = "WRQ" => JobOf(c) = Job("WRQ", cmd.file, UploadStage(c))
         /\ cmd.op = "RRQ" => JobOf(c) = DownloadOf(c, cmd.file)
         /\ cmd.op = "DELRQ" =>
              JobOf(c) = Job("DELRQ", cmd.file,
                             IF HasAck(toClient[c]) THEN "done" ELSE "asked")
         /\ cmd.op \notin {"WRQ", "RRQ", "DELRQ"} => JobOf(c) = F!Idle

LEMMA Jobs == JobsFit
<1> SUFFICES ASSUME NEW c \in Conns
             PROVE  /\ (\A op \in C!Ops : cl[c].req[op] = NONE) => JobOf(c) = F!Idle
                    /\ \A cmd \in Commands[c] : Asks(c, cmd) =>
                         /\ cmd.op = "WRQ" =>
                              JobOf(c) = Job("WRQ", cmd.file, UploadStage(c))
                         /\ cmd.op = "RRQ" => JobOf(c) = DownloadOf(c, cmd.file)
                         /\ cmd.op = "DELRQ" =>
                              JobOf(c) = Job("DELRQ", cmd.file,
                                             IF HasAck(toClient[c]) THEN "done"
                                             ELSE "asked")
                         /\ cmd.op \notin {"WRQ", "RRQ", "DELRQ"} => JobOf(c) = F!Idle
  BY DEF JobsFit
<1>1. {"WRQ", "RRQ", "DELRQ"} \subseteq C!Ops
  BY DEF C!Ops
<1>2. ASSUME \A op \in {"WRQ", "RRQ", "DELRQ"} : cl[c].req[op] = NONE
      PROVE  JobOf(c) = F!Idle
  BY <1>2 DEF JobOf, F!Idle
<1>3. ASSUME NEW cmd \in Commands[c], Asks(c, cmd)
      PROVE  /\ cmd.op = "WRQ" => JobOf(c) = Job("WRQ", cmd.file, UploadStage(c))
             /\ cmd.op = "RRQ" => JobOf(c) = DownloadOf(c, cmd.file)
             /\ cmd.op = "DELRQ" =>
                  JobOf(c) = Job("DELRQ", cmd.file,
                                 IF HasAck(toClient[c]) THEN "done" ELSE "asked")
             /\ cmd.op \notin {"WRQ", "RRQ", "DELRQ"} => JobOf(c) = F!Idle
  <2>1. /\ cl[c].req[cmd.op] = C!Argument(cmd) /\ cl[c].req[cmd.op] # NONE
        /\ \A op \in C!Ops : op # cmd.op => cl[c].req[op] = NONE
    BY <1>3, Asked
  <2>2. cmd.op \in {"RRQ", "WRQ", "DELRQ"} => C!Argument(cmd) = cmd.file
    BY CommandFields
  <2>3. cmd.op = "WRQ" => JobOf(c) = Job("WRQ", cmd.file, UploadStage(c))
    BY <1>1, <2>1, <2>2 DEF JobOf
  <2>4. cmd.op = "RRQ" => JobOf(c) = DownloadOf(c, cmd.file)
    BY <1>1, <2>1, <2>2 DEF JobOf
  <2>5. cmd.op = "DELRQ" =>
          JobOf(c) = Job("DELRQ", cmd.file,
                         IF HasAck(toClient[c]) THEN "done" ELSE "asked")
    BY <1>1, <2>1, <2>2 DEF JobOf, Removed, HasAck
  <2>6. cmd.op \notin {"WRQ", "RRQ", "DELRQ"} => JobOf(c) = F!Idle
    BY <1>1, <1>2, <2>1
  <2> QED BY <2>3, <2>4, <2>5, <2>6
<1> QED BY <1>1, <1>2, <1>3

LEMMA JobsNext == JobsFit'
BY Jobs, PTL

\* The stages of a download.
AtRead(c) == pc[c] \in {"length", "read"}
OpenJob(c, f) == [op |-> "RRQ", file |-> f, stage |-> "opened",
                  held |-> orphan[c], writers |-> writers[c]]
SizeJob(c, f) == [op |-> "RRQ", file |-> f, stage |-> "sized",
                  held |-> orphan[c], writers |-> writers[c],
                  size |-> Len(toDownload[c])]

DownloadsFit ==
  \A c \in Conns : \A f :
    /\ pc[c] = "length" => DownloadOf(c, f) = OpenJob(c, f)
    /\ pc[c] = "read" => DownloadOf(c, f) = SizeJob(c, f)
    /\ ~AtRead(c) => DownloadOf(c, f) = IF Fetched(c) THEN F!Fetched(f, Downloaded(c))
                                        ELSE Job("RRQ", f, "asked")

LEMMA Downloads == DownloadsFit
<1> SUFFICES ASSUME NEW c \in Conns, NEW f
             PROVE  /\ pc[c] = "length" => DownloadOf(c, f) = OpenJob(c, f)
                    /\ pc[c] = "read" => DownloadOf(c, f) = SizeJob(c, f)
                    /\ ~AtRead(c) =>
                         DownloadOf(c, f) = IF Fetched(c) THEN F!Fetched(f, Downloaded(c))
                                            ELSE Job("RRQ", f, "asked")
  BY DEF DownloadsFit
<1>1. CASE pc[c] = "length"
  BY <1>1 DEF DownloadOf, OpenJob, AtRead
<1>2. CASE pc[c] = "read"
  BY <1>2 DEF DownloadOf, SizeJob, AtRead
<1>3. CASE ~AtRead(c) /\ Fetched(c)
  BY <1>3 DEF DownloadOf, AtRead, F!Fetched
<1>4. CASE ~AtRead(c) /\ ~Fetched(c)
  BY <1>4 DEF DownloadOf, AtRead
<1> QED BY <1>1, <1>2, <1>3, <1>4 DEF AtRead

LEMMA DownloadsNext == DownloadsFit'
BY Downloads, PTL

\* What a thread has open for a download stays as it is.
SameReading(c) ==
  \/ pc'[c] = pc[c] /\ orphan'[c] = orphan[c] /\ writers'[c] = writers[c]
  \/ ~AtRead(c) /\ ~AtRead(c)'

LEMMA JobStays ==
  ASSUME NEW c \in Conns, cl'[c] = cl[c], toDownload'[c] = toDownload[c],
         SameLoad(c), SameReading(c),
         cl[c].req["WRQ"] # NONE => UploadStage(c)' = UploadStage(c)
  PROVE  JobOf(c)' = JobOf(c)
<1>1. /\ Removed(c)' = Removed(c) /\ Fetched(c)' = Fetched(c)
      /\ Downloaded(c)' = Downloaded(c)
  BY DEF SameLoad, Removed, HasAck, Fetched, Downloaded, Rest
<1>4. \A f : DownloadOf(c, f)' = DownloadOf(c, f)
  <2> SUFFICES ASSUME NEW f PROVE DownloadOf(c, f)' = DownloadOf(c, f)
    OBVIOUS
  <2>1. /\ pc[c] = "length" => DownloadOf(c, f) = OpenJob(c, f)
        /\ pc[c] = "read" => DownloadOf(c, f) = SizeJob(c, f)
        /\ ~AtRead(c) => DownloadOf(c, f) = IF Fetched(c) THEN F!Fetched(f, Downloaded(c))
                                            ELSE Job("RRQ", f, "asked")
    BY Downloads DEF DownloadsFit
  <2>2. /\ pc'[c] = "length" => DownloadOf(c, f)' = OpenJob(c, f)'
        /\ pc'[c] = "read" => DownloadOf(c, f)' = SizeJob(c, f)'
        /\ ~AtRead(c)' => DownloadOf(c, f)' = IF Fetched(c)'
                                              THEN F!Fetched(f, Downloaded(c)')
                                              ELSE Job("RRQ", f, "asked")
    BY DownloadsNext DEF DownloadsFit
  <2>3. CASE ~AtRead(c) /\ ~AtRead(c)'
    BY <1>1, <2>1, <2>2, <2>3
  <2>4. CASE pc'[c] = pc[c] /\ orphan'[c] = orphan[c] /\ writers'[c] = writers[c]
    BY <1>1, <2>1, <2>2, <2>4 DEF AtRead, OpenJob, SizeJob
  <2> QED BY <2>3, <2>4 DEF SameReading
<1>2. CASE cl[c].req["WRQ"] # NONE
  <2>1. UploadStage(c)' = UploadStage(c)
    BY <1>2
  <2> QED BY <1>1, <1>2, <1>4, <2>1 DEF JobOf, Job
<1>3. CASE cl[c].req["WRQ"] = NONE
  BY <1>1, <1>3, <1>4 DEF JobOf, Job
<1> QED BY <1>2, <1>3

\* The stage of an upload is told by where its thread is.
LEMMA StageStays ==
  ASSUME NEW c \in Conns, pc'[c] = pc[c], linked'[c] = linked[c] \/ pc[c] # "write",
         cl'[c] = cl[c], toServer'[c] = toServer[c]
  PROVE  UploadStage(c)' = UploadStage(c)
<1>1. Stored(c)' <=> Stored(c)
  BY DEF Stored, C!Uploaded
<1> QED BY <1>1 DEF UploadStage

\* Who changes the directory, and the link of an open file to its name.
LEMMA DiskKept ==
  ASSUME TypeOK, NEW c \in Conns, ServerStep(c)
  PROVE  \/ disk' = disk
         \/ RrqRead(c) \/ DataLast(c) \/ DataWrite(c) \/ DelrqDelete(c)
<1>1. CASE Login(c)
  BY <1>1 DEF Login, LogrqAgain, LogrqBegin, LogrqNext, LogrqEnd, LogrqPut,
             LogrqAck, Answer
<1>2. CASE Download(c)
  BY <1>2 DEF Download, RrqRefused, RrqFound, RrqOpen, RrqLength, RrqGone, AckMore,
             AckIgnored, Dirq, DirqTooLong, Answer
<1>3. CASE Upload(c)
  BY <1>3 DEF Upload, WrqRefused, WrqAccepted, DataIgnored, DataOversize,
             DataFull, Answer
<1>4. CASE Delete(c)
  BY <1>4 DEF Delete, DelrqRefused, DelrqFound, Answer
<1>5. CASE Broadcast(c)
  BY <1>5 DEF Broadcast, BcastNext, BcastDeliver, BcastLost, BcastEnd
<1>6. CASE Other(c)
  BY <1>6 DEF Other, NotLoggedIn, IteratorFails, Error, BcastIn, DiscBegin,
             DiscNext, DiscEnd, Answer, Die
<1>7. CASE \/ Accept(c) \/ RunAdd(c) \/ RunPut(c) \/ Close(c) \/ Receive(c)
  BY <1>7 DEF Accept, RunAdd, RunPut, Close, Receive
<1> QED BY <1>1, <1>2, <1>3, <1>4, <1>5, <1>6, <1>7
        DEF ServerStep, SystemThread, SystemReceive, SystemAccept, Thread

\* A step of another client, or of its thread, is none of a client's own.
LEMMA OthersUnmoved ==
  ASSUME SystemInv, NEW c \in Conns, ServerStep(c) \/ Type(c) \/ Process(c),
         NEW d \in Conns, d # c
  PROVE  Unmoved(d)
<1>0. /\ TypeOK /\ PcOK /\ RouteOK /\ C!TypeOK
      /\ \A e \in Conns : Agree(e) /\ Admitted(e)
  BY DEF SystemInv, Safety, IndInv, ClientTypeOK, Conversation
<1>1. CASE ServerStep(c)
  <2>1. Thread(c) \/ Environment(c)
    BY <1>1, ServerSteps
  <2> QED BY <1>0, <1>1, <2>1, OthersHear, TransfersKept, OthersKept DEF Unmoved
<1>2. CASE Type(c)
  BY <1>0, <1>2, CommandStep
<1>3. CASE Process(c)
  BY <1>0, <1>3, OthersRead
<1> QED BY <1>1, <1>2, <1>3

LEMMA OthersJobs ==
  ASSUME SystemInv, NEW c \in Conns, ServerStep(c) \/ Type(c) \/ Process(c),
         NEW d \in Conns, d # c, linked'[d] = linked[d] \/ pc[d] # "write",
         ~AtRead(d) \/ (orphan'[d] = orphan[d] /\ writers'[d] = writers[d])
  PROVE  JobOf(d)' = JobOf(d)
<1>1. Agree(d) /\ C!TypeOK
  BY DEF SystemInv, ClientTypeOK, Conversation
<1>2. Unmoved(d)
  BY OthersUnmoved
<1>3. SameLoad(d) /\ UploadStage(d)' = UploadStage(d)
  BY <1>1, <1>2, HearsLoad, StageStays DEF Unmoved
<1>4. SameReading(d)
  BY <1>2 DEF Unmoved, SameReading, AtRead
<1> QED BY <1>2, <1>3, <1>4, JobStays DEF Unmoved

\* The steps of the server that are seen by those who have a file open: a
\* deletion, and the write to a file that has been deleted.
Disturbs(c) == DelrqDelete(c) \/ (DataWrite(c) /\ ~linked[c])

\* All others leave other clients' jobs.
LEMMA OthersKeepJobs ==
  ASSUME SystemInv, NEW c \in Conns, ServerStep(c) \/ Type(c) \/ Process(c),
         ~Disturbs(c)
  PROVE  \A d \in Conns : d # c => JobOf(d)' = JobOf(d)
<1> SUFFICES ASSUME NEW d \in Conns, d # c
             PROVE  /\ linked'[d] = linked[d] /\ orphan'[d] = orphan[d]
                    /\ writers'[d] = writers[d]
  BY OthersJobs
<1>1. TypeOK /\ ReadAt(d)
  BY DEF SystemInv, Safety, IndInv, PcOK
<1>2. CASE ServerStep(c)
  <2>1. CASE disk' = disk
    BY <2>1 DEF disk
  <2>2. CASE RrqRead(c)
    BY <1>1, <2>2 DEF RrqRead, TypeOK
  <2>3. CASE DataLast(c)
    BY <1>1, <2>3 DEF DataLast, TypeOK
  <2>4. CASE DataWrite(c)
    <3>1. c \notin writers[d]
      BY <1>1, <2>4 DEF Disturbs, ReadAt
    <3>2. writers'[d] = writers[d]
      BY <1>1, <2>4, <3>1 DEF DataWrite, StreamClosed, TypeOK
    <3>3. orphan'[d] = orphan[d] /\ linked'[d] = linked[d]
      BY <1>1, <2>4, <3>1 DEF DataWrite, StreamClosed, TypeOK
    <3> QED BY <3>2, <3>3
  <2> QED BY <1>1, <1>2, <2>1, <2>2, <2>3, <2>4, DiskKept DEF Disturbs
<1>3. CASE Type(c) \/ Process(c)
  BY <1>3 DEF Type, Process, vars, disk
<1> QED BY <1>2, <1>3

-----------------------------------------------------------------------------
(* The bytes of an upload.                                                 *)

\* What is found among the broadcasts was there before they moved.
LEMMA HearsBack ==
  ASSUME C!TypeOK, NEW c \in Conns, Hears(c)
  PROVE  /\ Quiet(toClient'[c]) => Quiet(toClient[c])
         /\ \A p \in Packets(toClient'[c]) :
              ~IsBroadcast(p) => p \in Packets(toClient[c])
         /\ \A p : ~IsBroadcast(p) /\ Only(toClient'[c], p) => Only(toClient[c], p)
<1> DEFINE s == toClient[c]
<1>1. s \in Seq(Packet)
  BY ClientTypes
<1>2. CASE toClient'[c] = s
  BY <1>2
<1>3. ASSUME NEW b \in Packet, IsBroadcast(b), toClient'[c] = Append(s, b)
      PROVE  /\ Quiet(toClient'[c]) => Quiet(s)
             /\ \A p \in Packets(toClient'[c]) : ~IsBroadcast(p) => p \in Packets(s)
             /\ \A p : ~IsBroadcast(p) /\ Only(toClient'[c], p) => Only(s, p)
  <2> DEFINE t == Append(s, b)
  <2>1. /\ Len(s) \in Nat /\ Len(t) = Len(s) + 1 /\ t[Len(t)] = b
        /\ \A i \in 1 .. Len(s) : t[i] = s[i]
    BY <1>1
  <2>2. toClient'[c] = t
    BY <1>3
  <2> HIDE DEF s, t
  <2>3. Quiet(t) => Quiet(s)
    BY <2>1 DEF Quiet
  <2>4. \A p \in Packets(t) : ~IsBroadcast(p) => p \in Packets(s)
    BY <1>3, <2>1 DEF Packets
  <2>5. \A p : ~IsBroadcast(p) /\ Only(t, p) => Only(s, p)
    BY <1>3, <2>1 DEF Only
  <2> QED BY <2>2, <2>3, <2>4, <2>5 DEF s
<1>4. CASE s # <<>> /\ IsBroadcast(Head(s)) /\ toClient'[c] = Tail(s)
  <2> DEFINE t == Tail(s)
  <2>1. /\ Len(s) \in Nat /\ Len(s) > 0 /\ Len(t) = Len(s) - 1 /\ Head(s) = s[1]
        /\ \A i \in 1 .. Len(t) : t[i] = s[i + 1]
    BY <1>1, <1>4
  <2>2. toClient'[c] = t /\ IsBroadcast(s[1])
    BY <1>4, <2>1
  <2> HIDE DEF s, t
  <2>3. \A k \in 1 .. Len(s) : k = 1 \/ (k - 1 \in 1 .. Len(t) /\ s[k] = t[k - 1])
    BY <2>1
  <2>4. Quiet(t) => Quiet(s)
    BY <2>2, <2>3 DEF Quiet
  <2>5. \A p \in Packets(t) : ~IsBroadcast(p) => p \in Packets(s)
    BY <2>1 DEF Packets
  <2>6. ASSUME NEW p, ~IsBroadcast(p), Only(t, p) PROVE Only(s, p)
    <3>1. PICK i \in 1 .. Len(t) :
            t[i] = p /\ \A k \in 1 .. Len(t) : k # i => IsBroadcast(t[k])
      BY <2>6 DEF Only
    <3>2. i + 1 \in 1 .. Len(s) /\ s[i + 1] = p
      BY <2>1, <3>1
    <3>3. ASSUME NEW k \in 1 .. Len(s), k # i + 1 PROVE IsBroadcast(s[k])
      BY <2>1, <2>2, <2>3, <3>1, <3>3
    <3> QED BY <3>2, <3>3 DEF Only
  <2> QED BY <2>2, <2>4, <2>5, <2>6 DEF s
<1>5. CASE \E b \in Packet : IsBroadcast(b) /\ toClient'[c] = Append(s, b)
  <2> HIDE DEF s
  <2>1. PICK b \in Packet : IsBroadcast(b) /\ toClient'[c] = Append(s, b)
    BY <1>5
  <2> QED BY <1>3, <2>1 DEF s
<1> QED BY <1>2, <1>4, <1>5 DEF Hears

\* A client is in one phase only: while its blocks are on their way, or being
\* written, it waits for its upload.
InUpload(c) ==
  Awaiting(c) \/ NothingSent(c) \/ Sending(c) \/ Arrived(c) \/ Writing(c)

UploadsFit ==
  C!TypeOK => \A c \in Conns : \A f \in FileNames :
    cl[c].req["WRQ"] = f /\ InUpload(c) =>
      /\ ~Free(c) /\ ~Requested(c) /\ ~Replied(c) /\ ~Downloading(c)
      /\ Uploading(c) => /\ Put(f) \in Commands[c] /\ Asks(c, Put(f))
                         /\ goingToBeReceived[c] = f /\ ~Saved(c)

LEMMA Uploads == UploadsFit
<1> SUFFICES ASSUME C!TypeOK, NEW c \in Conns, NEW f \in FileNames,
                    cl[c].req["WRQ"] = f, InUpload(c)
             PROVE  /\ ~Free(c) /\ ~Requested(c) /\ ~Replied(c) /\ ~Downloading(c)
                    /\ Uploading(c) => /\ Put(f) \in Commands[c] /\ Asks(c, Put(f))
                                       /\ goingToBeReceived[c] = f /\ ~Saved(c)
  BY DEF UploadsFit
<1>1. f # NONE /\ "WRQ" \in C!Ops /\ toClient[c] \in Seq(Packet)
      /\ toServer[c] \in Seq(Request)
  BY NameAssumption, ClientTypes DEF C!Ops
<1>2. \A cmd \in Commands[c] : Asks(c, cmd) => cmd.op = "WRQ" /\ cmd.file = f
  BY <1>1, Asked, CommandFields
<1>3. ~Free(c)
  BY <1>1 DEF Free
<1>4. Sending(c) => toServer[c] # <<>> /\ Len(toServer[c]) = 1 /\ toServer[c][1].op = "DATA"
  BY <1>1 DEF Sending, Sent, FullBlock, ShortBlock
<1>5. Arrived(c) => message[c].op = "DATA"
  BY DEF Arrived, Sent, FullBlock, ShortBlock
<1>6. ~Requested(c)
  <2> SUFFICES ASSUME NEW cmd \in Commands[c], Asks(c, cmd), Quiet(toClient[c]),
                      (EndsIn(toServer[c], cmd) /\ Settled(c)) \/ Working(c, cmd)
               PROVE  FALSE
    BY DEF Requested
  <2>1. cmd.op = "WRQ"
    BY <1>2
  <2>2. ~Awaiting(c)
    <3>1. \A p \in Packets(toClient[c]) : p.op = "BCAST"
      BY DEF Quiet, Packets, IsBroadcast
    <3> QED BY <3>1 DEF Awaiting
  <2>3. CASE EndsIn(toServer[c], cmd) /\ Settled(c)
    <3>1. Sending(c)
      BY <2>2, <2>3 DEF InUpload, NothingSent, Arrived, Writing, EndsIn
    <3> QED BY <1>4, <2>1, <2>3, <3>1 DEF EndsIn
  <2>4. CASE Working(c, cmd)
    BY <1>4, <1>5, <2>1, <2>2, <2>4 DEF InUpload, NothingSent, Sending, Arrived, Writing, Working
  <2> QED BY <2>3, <2>4
<1>7. ~Replied(c)
  <2> SUFFICES ASSUME NEW cmd \in Commands[c], Asks(c, cmd), toServer[c] = <<>>,
                      NEW p \in Packets(toClient[c]), Reports(c, cmd, p)
               PROVE  FALSE
    BY DEF Replied
  <2>1. p.op = "ERROR" /\ Only(toClient[c], p)
    BY <1>2 DEF Reports
  <2>2. ~Quiet(toClient[c])
    BY <2>1 DEF Quiet, Packets, IsBroadcast
  <2>3. ~Awaiting(c)
    BY <1>1, <2>1, OnlyOne DEF Awaiting, IsBroadcast
  <2> QED BY <2>2, <2>3 DEF InUpload, NothingSent, Sending, Arrived, Writing
<1>8. ~Downloading(c)
  BY <1>2 DEF Downloading
<1>9. ASSUME Uploading(c)
      PROVE  /\ Put(f) \in Commands[c] /\ Asks(c, Put(f))
             /\ goingToBeReceived[c] = f /\ ~Saved(c)
  <2>1. PICK g \in FileNames :
          /\ Put(g) \in Commands[c]
          /\ Asks(c, Put(g))
          /\ Saved(c) \/ goingToBeReceived[c] = g
    BY <1>9, Zenon DEF Uploading
  <2>2. g = f
    BY <1>2, <2>1 DEF Put
  <2>3. ~Saved(c)
    <3> SUFFICES ASSUME Saved(c) PROVE FALSE
      OBVIOUS
    <3>1. ~Quiet(toClient[c]) /\ cl[c].goingToFinish
      BY DEF Saved, Quiet, Packets, IsBroadcast, C!Uploaded
    <3> QED BY <3>1 DEF InUpload, Awaiting, NothingSent, Sending, Arrived, Writing
  <2> QED BY <2>1, <2>2, <2>3
<1> QED BY <1>3, <1>6, <1>7, <1>8, <1>9

LEMMA UploadsNext == UploadsFit'
BY Uploads, PTL

\* An upload whose thread and client stand still, while other files change.
LEMMA UploadStays ==
  ASSUME C!TypeOK, NEW c \in Conns, NEW f \in FileNames, Unmoved(c),
         wholeFile'[c] = wholeFile[c], accSize'[c] = accSize[c],
         local'[c] = local[c], UploadAt(c, f),
         InUpload(c) => /\ files[f] = NONE => files'[f] = NONE
                        /\ linked'[c] => linked[c] /\ files'[f] = files[f]
  PROVE  UploadAt(c, f)'
<1>1. /\ pc'[c] = pc[c] /\ message'[c] = message[c]
      /\ cl'[c] = cl[c] /\ toServer'[c] = toServer[c]
  BY DEF Unmoved
<1>2. /\ Quiet(toClient'[c]) => Quiet(toClient[c])
      /\ \A p \in Packets(toClient'[c]) : ~IsBroadcast(p) => p \in Packets(toClient[c])
      /\ \A p : ~IsBroadcast(p) /\ Only(toClient'[c], p) => Only(toClient[c], p)
  BY HearsBack DEF Unmoved
<1>3. \A p : Sent(c, p)' => Sent(c, p)
  BY <1>1 DEF Sent, C!Uploaded
<1>4. Awaiting(c)' => Awaiting(c)
  BY <1>1, <1>2 DEF Awaiting, IsBroadcast
<1>5. Sending(c)' => Sending(c)
  BY <1>1, <1>2, <1>3 DEF Sending
<1>6. Arrived(c)' => Arrived(c)
  BY <1>1, <1>2, <1>3 DEF Arrived
<1>7. Writing(c)' => Writing(c)
  BY <1>1, <1>2 DEF Writing, C!Uploaded
<1>8. InUpload(c) => \A rest : Copied(c, f, rest) => Copied(c, f, rest)'
  BY DEF Copied
<1>9. ASSUME Awaiting(c)', NEW p \in Packets(toClient'[c]), p.op = "ACK"
      PROVE  /\ p.block # 0 => Copied(c, f, cl[c].toSendVec)'
             /\ p.block = 0 => files'[f] = NONE /\ accSize'[c] = 0 /\ wholeFile'[c] = <<>>
  <2>1. p \in Packets(toClient[c]) /\ Awaiting(c) /\ InUpload(c)
    BY <1>2, <1>4, <1>9 DEF IsBroadcast, InUpload
  <2>2. /\ p.block # 0 => Copied(c, f, cl[c].toSendVec)
        /\ p.block = 0 => files[f] = NONE /\ accSize[c] = 0 /\ wholeFile[c] = <<>>
    BY <1>9, <2>1 DEF UploadAt
  <2> QED BY <1>1, <2>1, <2>2 DEF Copied
<1>10. Sending(c)' => Copied(c, f, toServer[c][1].data \o cl[c].toSendVec)'
  BY <1>1, <1>5 DEF UploadAt, Copied, InUpload
<1>11. Arrived(c)' => /\ Copied(c, f, message[c].data \o cl[c].toSendVec)'
                      /\ message'[c].block # 0
  BY <1>1, <1>6 DEF UploadAt, Copied, InUpload
<1>12. Writing(c)' => /\ accSize'[c] = Len(wholeFile'[c])
                      /\ wholeFile'[c] = local'[c][f]
                      /\ linked'[c] => files'[f] = <<>>
  BY <1>7 DEF UploadAt, InUpload
<1> QED BY <1>9, <1>10, <1>11, <1>12 DEF UploadAt

\* A name a thread receives a file under comes from a WRQ of its client.
Named ==
  \A c \in Conns :
    goingToBeReceived[c] # NONE => Put(goingToBeReceived[c]) \in Commands[c]

LEMMA ReceivesKept ==
  ASSUME TypeOK, NEW c \in Conns, ServerStep(c), ~WrqAccepted(c)
  PROVE  goingToBeReceived'[c] \in {goingToBeReceived[c], NONE}
<1> USE DEF upload, TypeOK
<1>1. CASE Login(c)
  BY <1>1 DEF Login, LogrqAgain, LogrqBegin, LogrqNext, LogrqEnd, LogrqPut,
             LogrqAck, Answer
<1>2. CASE Download(c)
  BY <1>2 DEF Download, RrqRefused, RrqFound, RrqOpen, RrqLength, RrqRead, RrqGone,
             AckMore, AckIgnored, Dirq, DirqTooLong, Answer, HandleReadingACK, Die
<1>3. CASE Upload(c)
  BY <1>3 DEF Upload, WrqRefused, DataIgnored, DataOversize, DataFull, DataLast,
             DataWrite, Answer
<1>4. CASE Delete(c)
  BY <1>4 DEF Delete, DelrqRefused, DelrqFound, DelrqDelete, Answer
<1>5. CASE Broadcast(c)
  BY <1>5 DEF Broadcast, BcastNext, BcastDeliver, BcastLost, BcastEnd
<1>6. CASE Other(c)
  BY <1>6 DEF Other, NotLoggedIn, IteratorFails, Error, BcastIn, DiscBegin,
             DiscNext, DiscEnd, Answer, Die
<1>7. CASE \/ Accept(c) \/ RunAdd(c) \/ RunPut(c) \/ Close(c) \/ Receive(c)
  BY <1>7 DEF Accept, RunAdd, RunPut, Close, Receive
<1> QED BY <1>1, <1>2, <1>3, <1>4, <1>5, <1>6, <1>7
        DEF ServerStep, SystemThread, SystemReceive, SystemAccept, Thread

\* A command that has been decoded is the one the client waits for.
LEMMA DecodedCommand ==
  ASSUME NEW c \in Conns, Agree(c), pc[c] = "decode",
         message[c].op \notin {"ACK", "DATA"}
  PROVE  message[c] \in Commands[c] /\ AtWork(c, message[c])
<1>1. ~Listening(c)
  BY DEF Listening, Settled
<1>2. \A cmd : ~Sends(c, cmd)
  BY DEF Sends, MoreBlocks
<1>3. ~Uploading(c)
  <2>1. ~Saved(c) /\ ~Awaiting(c) /\ ~NothingSent(c) /\ ~Sending(c) /\ ~Writing(c)
    BY DEF Saved, Awaiting, NothingSent, Sending, Writing
  <2>2. ~Arrived(c)
    BY DEF Arrived, Sent, FullBlock, ShortBlock
  <2> QED BY <2>1, <2>2, Zenon DEF Uploading
<1>4. PICK cmd \in Commands[c] : AtWork(c, cmd)
  BY <1>1, <1>2, <1>3, Phases
<1>5. message[c] = cmd
  BY <1>4 DEF AtWork, Working
<1> QED BY <1>4, <1>5

LEMMA NamedStep ==
  ASSUME SystemInv, Named, NEW c \in Conns, ServerStep(c) \/ Type(c) \/ Process(c)
  PROVE  Named'
<1>0. TypeOK /\ Agree(c)
  BY DEF SystemInv, Safety, Conversation
<1>1. CASE ServerStep(c)
  <2>1. \A d \in Conns : d # c => goingToBeReceived'[d] = goingToBeReceived[d]
    BY <1>0, <1>1, ServerSteps, TransfersKept
  <2>2. CASE WrqAccepted(c)
    <3>1. /\ pc[c] = "decode" /\ message[c].op = "WRQ"
          /\ goingToBeReceived'[c] = message[c].file
      BY <1>0, <2>2 DEF WrqAccepted, Processing, TypeOK
    <3>2. message[c] \in Commands[c] /\ message[c] \in Request
      BY <1>0, <3>1, DecodedCommand, CommandFields
    <3>3. message[c] = Put(message[c].file)
      BY <3>1, <3>2 DEF Request, Put
    <3> QED BY <2>1, <3>1, <3>2, <3>3 DEF Named
  <2>3. CASE ~WrqAccepted(c)
    <3>1. goingToBeReceived'[c] \in {goingToBeReceived[c], NONE}
      BY <1>0, <1>1, <2>3, ReceivesKept
    <3> QED BY <2>1, <3>1 DEF Named
  <2> QED BY <2>2, <2>3
<1>2. CASE Type(c) \/ Process(c)
  BY <1>2 DEF Type, Process, vars, upload, Named
<1> QED BY <1>1, <1>2

\* Other threads neither create a file that is being uploaded, nor fill it.
LEMMA FileKept ==
  ASSUME SystemInv, Named, OwnUploads, NEW c \in Conns, ServerStep(c),
         NEW d \in Conns, d # c, NEW f \in FileNames, Put(f) \in Commands[d],
         linked[d] => goingToBeReceived[d] = f
  PROVE  /\ files[f] = NONE => files'[f] = NONE
         /\ linked'[d] => linked[d] /\ files'[f] = files[f]
<1>0. TypeOK /\ PcAt(c)
  BY DEF SystemInv, Safety, IndInv, PcOK
<1>1. CASE disk' = disk \/ RrqRead(c)
  BY <1>1 DEF disk, RrqRead
<1>2. CASE DataLast(c) \/ DataWrite(c)
  <2> DEFINE g == goingToBeReceived[c]
  <2>1. g # NONE /\ g \in FileNames
    BY <1>0, <1>2 DEF DataLast, DataWrite, Receiving, PcAt, TypeOK
  <2>2. Put(g) \in Commands[c]
    BY <2>1 DEF Named
  <2>3. g # f
    BY <2>1, <2>2 DEF OwnUploads
  <2>4. linked'[d] = linked[d]
    BY <1>0, <1>2 DEF DataLast, DataWrite, StreamClosed, TypeOK
  <2>5. files'[f] = files[f]
    BY <1>0, <1>2, <2>3 DEF DataLast, DataWrite, TypeOK
  <2> QED BY <2>4, <2>5
<1>3. CASE DelrqDelete(c)
  <2>1. /\ files' = [files EXCEPT ![message[c].file] = NONE]
        /\ linked'[d] <=> linked[d] /\ goingToBeReceived[d] # message[c].file
    BY <1>0, <1>3 DEF DelrqDelete, TypeOK
  <2>2. f # message[c].file => files'[f] = files[f]
    BY <1>0, <2>1 DEF TypeOK
  <2>3. f = message[c].file => files'[f] = NONE
    BY <1>0, <2>1 DEF TypeOK
  <2> QED BY <2>1, <2>2, <2>3
<1> QED BY <1>0, <1>1, <1>2, <1>3, DiskKept

LEMMA ThreeParts ==
  ASSUME NEW s \in Seq(Bytes), NEW t \in Seq(Bytes), NEW u \in Seq(Bytes)
  PROVE  /\ (s \o t) \o u = s \o (t \o u)
         /\ Len(s \o t) = Len(s) + Len(t) /\ s \o t \in Seq(Bytes)
OBVIOUS

\* The handlers of the commands that move files.
LEMMA WorkByOp ==
  ASSUME SystemInv, NEW c \in Conns, SystemThread(c),
         NEW cmd \in Commands[c], AtWork(c, cmd)
  PROVE  /\ cmd.op = "WRQ" => WrqAccepted(c) \/ WrqRefused(c) \/ NotLoggedIn(c)
         /\ cmd.op = "RRQ" => \/ RrqRefused(c) \/ NotLoggedIn(c) \/ RrqFound(c)
                              \/ RrqOpen(c) \/ RrqLength(c) \/ RrqGone(c) \/ RrqRead(c)
         /\ cmd.op = "DELRQ" => \/ DelrqRefused(c) \/ NotLoggedIn(c) \/ DelrqFound(c)
                                \/ DelrqDelete(c)
<1>1. PcAt(c) /\ ReplyAt(c) /\ Thread(c)
  BY DEF SystemInv, Safety, IndInv, ReplyOK, PcOK, SystemThread
<1>2. /\ message[c] = cmd /\ WorkSteps(c)
      /\ pc[c] \in {"decode", "put", "ack", "rrq", "length", "read", "del", "disc",
                    "dead", "logrq"}
  BY <1>1, WorkActs DEF AtWork, Working
<1>3. /\ cmd.op # "LOGRQ" => pc[c] \notin {"put", "ack", "logrq"}
      /\ cmd.op # "DISC" => pc[c] # "disc"
      /\ cmd.op # "RRQ" => pc[c] \notin {"rrq", "length", "read"}
      /\ cmd.op # "DELRQ" => pc[c] # "del"
  BY <1>1, <1>2 DEF PcAt, ReplyAt
<1> USE DEF WorkSteps, Continues, Refuses, Acknowledging, Processing, LogrqBegin,
            LogrqEnd, LogrqPut, RrqFound, RrqOpen, RrqLength, RrqGone, DirqTooLong,
            DelrqFound, DiscBegin, DiscNext, IteratorFails, LogrqNext, LogrqAgain, RrqRefused,
            DelrqRefused, LogrqAck, DelrqDelete, DiscEnd, Dirq, RrqRead,
            WrqAccepted, WrqRefused, NotLoggedIn
<1>4. cmd.op = "WRQ" => WrqAccepted(c) \/ WrqRefused(c) \/ NotLoggedIn(c)
  BY <1>2, <1>3
<1>5. cmd.op = "RRQ" => \/ RrqRefused(c) \/ NotLoggedIn(c) \/ RrqFound(c)
                        \/ RrqOpen(c) \/ RrqLength(c) \/ RrqGone(c) \/ RrqRead(c)
  BY <1>2, <1>3
<1>6. cmd.op = "DELRQ" => \/ DelrqRefused(c) \/ NotLoggedIn(c) \/ DelrqFound(c)
                          \/ DelrqDelete(c)
  BY <1>2, <1>3
<1> QED BY <1>4, <1>5, <1>6

\* The thread of the upload itself: a block it has received, or the last write.
LEMMA OwnThreadUpload ==
  ASSUME SystemInv, ClientTypeOK', NEW c \in Conns, SystemThread(c),
         NEW f \in FileNames, cl[c].req["WRQ"] = f, UploadAt(c, f)
  PROVE  UploadAt(c, f)'
<1>0. /\ TypeOK /\ PcOK /\ RouteOK /\ Serial /\ C!TypeOK /\ C!TypeOK'
      /\ Agree(c) /\ Admitted(c) /\ ReplyAt(c) /\ PcAt(c)
  BY DEF SystemInv, Safety, IndInv, ClientTypeOK, Conversation, ReplyOK, PcOK
<1>1. /\ Thread(c) /\ cl' = cl /\ toServer' = toServer /\ local' = local
      /\ message' = message
  BY ThreadFrame, <1>0 DEF SystemThread
<1>2. InUpload(c)' => ~Free(c)' /\ ~Requested(c)' /\ ~Replied(c)' /\ ~Downloading(c)'
  BY <1>0, <1>1, UploadsNext DEF UploadsFit
<1>3. ~InUpload(c)' => UploadAt(c, f)'
  BY DEF InUpload, UploadAt
<1>4. CASE Listening(c)
  <2>1. Settled(c)' /\ Hears(c)
    BY <1>0, <1>4, SettledStep DEF Listening
  <2>2. Listening(c)'
    BY <1>0, <1>1, <1>4, <2>1, ListeningKept, ThreadFrame
  <2>3. Free(c)' \/ Requested(c)' \/ Replied(c)' \/ Downloading(c)'
    BY <2>2 DEF Listening, Requested, Downloading
  <2> QED BY <1>2, <1>3, <2>3
<1>5. ASSUME NEW cmd \in Commands[c], AtWork(c, cmd) PROVE UploadAt(c, f)'
  <2>1. /\ cmd \in Request /\ cmd.op = "WRQ" /\ message[c] = cmd
        /\ toServer[c] = <<>> /\ ~cl[c].goingToFinish /\ Quiet(toClient[c])
        /\ toClient[c] \in Seq(Packet) /\ WorkSteps(c)
    <3>1. f # NONE /\ "WRQ" \in C!Ops
      BY NameAssumption DEF C!Ops
    <3>2. cmd.op = "WRQ"
      BY <1>5, <3>1, Asked DEF AtWork
    <3> QED BY <1>0, <1>1, <1>5, <3>2, CommandFields, ClientTypes, WorkActs
            DEF AtWork, Working
  <2>2. WrqAccepted(c) \/ WrqRefused(c) \/ NotLoggedIn(c)
    BY <1>5, <2>1, WorkByOp
  <2>3. pc[c] = "decode" /\ pc'[c] = "listen"
    BY <1>0, <2>2 DEF WrqAccepted, WrqRefused, NotLoggedIn, Answer, Processing, Goto,
                      TypeOK
  <2>4. ASSUME NEW pkt \in Packet, Reply(c, pkt), NEW p \in Packets(toClient'[c]),
               p.op = "ACK"
        PROVE  p = pkt
    <3>1. toClient'[c] = Append(toClient[c], pkt) /\ toClient'[c] \in Seq(Packet)
      BY <1>0, <2>1, <2>3, <2>4, ReplyReaches
    <3>2. Only(toClient'[c], pkt)
      BY <2>1, <2>4, <3>1, HearAnswer
    <3> QED BY <2>4, <3>1, <3>2, OnlyOne DEF IsBroadcast
  <2>5. ~Sending(c)' /\ ~Arrived(c)' /\ ~Writing(c)'
    BY <1>1, <2>1, <2>3 DEF Sending, Arrived, Writing
  <2>6. CASE WrqAccepted(c)
    <3>1. /\ Reply(c, AckPacket(0)) /\ accSize'[c] = 0 /\ wholeFile'[c] = <<>>
          /\ disk' = disk /\ message[c].file \notin OnDisk
          /\ goingToBeReceived'[c] = message[c].file
      BY <1>0, <2>6 DEF WrqAccepted, Answer, TypeOK
    <3>2. AckPacket(0) \in Packet /\ AckPacket(0).block = 0
      BY PacketTypes, BlockNumbers DEF AckPacket
    <3>3. files'[f] = NONE
      <4>1. cmd.file = f
        BY <1>5, <2>1, Asked, CommandFields DEF AtWork
      <4> QED BY <2>1, <3>1, <4>1 DEF OnDisk, disk
    <3>4. \A p \in Packets(toClient'[c]) : p.op = "ACK" => p.block = 0
      BY <2>4, <3>1, <3>2
    <3> QED BY <2>5, <3>1, <3>3, <3>4 DEF UploadAt
  <2>7. CASE WrqRefused(c) \/ NotLoggedIn(c)
    <3>1. PICK code \in 0 .. 7 : Reply(c, ErrorPacket(code))
      BY <2>7 DEF WrqRefused, NotLoggedIn, Answer
    <3>2. ErrorPacket(code) \in Packet /\ ErrorPacket(code).op = "ERROR"
      BY PacketTypes DEF ErrorPacket
    <3>3. \A p \in Packets(toClient'[c]) : p.op # "ACK"
      BY <2>4, <3>1, <3>2
    <3> QED BY <2>5, <3>3 DEF UploadAt
  <2> QED BY <2>2, <2>6, <2>7
<1>6. \A cmd \in Commands[c] : ~Sends(c, cmd)
  <2>1. f # NONE /\ "WRQ" \in C!Ops
    BY NameAssumption DEF C!Ops
  <2> QED BY <2>1, Asked DEF Sends
<1>7. CASE Uploading(c)
  <2>1. CASE ~InUpload(c)
    <3>1. Saved(c) /\ toDownload[c] = NONE
      BY <1>7, <2>1, Zenon DEF Uploading, InUpload
    <3>2. Settled(c) /\ Resting(c) /\ C!Uploaded(c) /\ toServer[c] = <<>>
      BY <3>1 DEF Saved, Settled, Resting
    <3>3. Resting(c)'
      BY <1>0, <3>2, SettledStep
    <3>4. ~Awaiting(c)' /\ ~Sending(c)' /\ ~Arrived(c)' /\ ~Writing(c)'
      BY <1>1, <3>2, <3>3 DEF Awaiting, Sending, Arrived, Writing, Resting, C!Uploaded
    <3> QED BY <3>4 DEF UploadAt
  <2>2. CASE InUpload(c)
    <3>0. /\ goingToBeReceived[c] = f /\ f # NONE /\ myConnectionState[c]
      BY <1>0, <1>7, <2>2, Uploads, NameAssumption DEF UploadsFit, Uploading
    <3>1. CASE Awaiting(c) \/ NothingSent(c) \/ Sending(c)
      BY <1>1, <3>1, ThreadRuns DEF Awaiting, NothingSent, Sending
    <3>2. CASE Arrived(c)
      <4>1. /\ pc[c] = "decode" /\ Quiet(toClient[c]) /\ toServer[c] = <<>>
            /\ message[c].op = "DATA" /\ Sent(c, message[c])
        BY <1>1, <3>2, ThreadRuns DEF Arrived, Sent, FullBlock, ShortBlock
      <4>2. message[c].data \in Seq(Bytes) /\ message[c].block \in BlockNum
        BY <1>0, <4>1, RequestFields DEF PcAt
      <4>3. Copied(c, f, message[c].data \o cl[c].toSendVec) /\ message[c].block # 0
        BY <3>2 DEF UploadAt
      <4>4. wholeFile[c] \in Seq(Bytes) /\ accSize[c] \in Nat
        BY <1>0 DEF TypeOK
      <4>5. Len(message[c].data) <= BlockSize
        BY <4>1, <4>2, BlockAssumption DEF Sent, FullBlock, ShortBlock
      <4>6. cl[c].toSendVec \in Seq(Bytes)
        <5>1. cl[c].toSendVec \in Seq(Bytes) \cup {NONE}
          BY <1>0, Fields
        <5>2. <<>> \in Seq(Bytes)
          OBVIOUS
        <5> QED BY <4>1, <5>1, <5>2 DEF Sent, C!Uploaded
      <4> DEFINE w == wholeFile[c] \o message[c].data
      <4>7. w \o cl[c].toSendVec = wholeFile[c] \o (message[c].data \o cl[c].toSendVec)
            /\ Len(w) = Len(wholeFile[c]) + Len(message[c].data) /\ w \in Seq(Bytes)
        BY <4>2, <4>4, <4>6, ThreeParts
      <4>8. DataFull(c) \/ DataLast(c)
        <5>1. ~DataOversize(c)
          BY <4>2, <4>5, BlockAssumption DEF DataOversize
        <5> QED BY <1>1, <3>0, <4>1, <5>1, TransferActs
      <4>9. wholeFile'[c] = w /\ accSize'[c] = accSize[c] + Len(message[c].data)
        BY <1>0, <4>8 DEF DataFull, DataLast, TypeOK
      <4>10. accSize'[c] = Len(w) /\ files[f] = NONE /\ w \o cl[c].toSendVec = local[c][f]
        BY <4>3, <4>7, <4>9 DEF Copied
      <4> HIDE DEF w
      <4>11. CASE DataFull(c)
        <5>1. /\ Reply(c, AckPacket(message[c].block)) /\ pc'[c] = "listen"
              /\ disk' = disk
          BY <1>0, <4>11 DEF DataFull, Answer, Goto, TypeOK
        <5>2. /\ AckPacket(message[c].block) \in Packet
              /\ AckPacket(message[c].block).block = message[c].block
          BY <4>2, PacketTypes DEF AckPacket
        <5>3. toClient'[c] = Append(toClient[c], AckPacket(message[c].block))
          BY <1>0, <4>1, <5>1, <5>2, ReplyReaches
        <5>4. toClient[c] \in Seq(Packet)
          BY <1>0, ClientTypes
        <5>5. Only(toClient'[c], AckPacket(message[c].block))
          BY <4>1, <5>2, <5>3, <5>4, HearAnswer
        <5>6. toClient'[c] \in Seq(Packet)
          BY <1>0, SamePackets DEF C!TypeOK
        <5>7. \A p \in Packets(toClient'[c]) : p.op = "ACK" => p.block # 0
          BY <4>3, <5>2, <5>5, <5>6, OnlyOne DEF IsBroadcast
        <5>8. Copied(c, f, cl[c].toSendVec)'
          BY <1>1, <4>9, <4>10, <5>1 DEF Copied, disk
        <5>9. ~Sending(c)' /\ ~Arrived(c)' /\ ~Writing(c)'
          BY <1>1, <4>1, <5>1 DEF Sending, Arrived, Writing
        <5> QED BY <5>7, <5>8, <5>9 DEF UploadAt
      <4>12. CASE DataLast(c)
        <5>1. /\ pc'[c] = "write" /\ files'[f] = <<>>
              /\ Len(message[c].data) < BlockSize
          BY <1>0, <3>0, <4>12 DEF DataLast, Goto, TypeOK
        <5>2. cl[c].toSendVec = <<>>
          BY <4>1, <5>1, BlockAssumption DEF Sent, FullBlock, C!Uploaded
        <5>3. w \o <<>> = w
          BY <4>7 DEF w
        <5>4. wholeFile'[c] = local'[c][f] /\ accSize'[c] = Len(wholeFile'[c])
          BY <1>1, <4>9, <4>10, <5>2, <5>3
        <5>5. ~Awaiting(c)' /\ ~Sending(c)' /\ ~Arrived(c)'
          BY <5>1 DEF Awaiting, Sending, Arrived
        <5> QED BY <5>1, <5>4, <5>5 DEF UploadAt
      <4> QED BY <4>8, <4>11, <4>12
    <3>3. CASE Writing(c)
      <4>1. DataWrite(c)
        BY <1>1, <3>0, <3>3, TransferActs DEF Writing
      <4>2. pc'[c] = "bcast"
        BY <1>0, <4>1 DEF DataWrite, Goto, TypeOK
      <4>3. ~Awaiting(c)' /\ ~Sending(c)' /\ ~Arrived(c)' /\ ~Writing(c)'
        BY <4>2 DEF Awaiting, Sending, Arrived, Writing
      <4> QED BY <4>3 DEF UploadAt
    <3> QED BY <2>2, <3>1, <3>2, <3>3 DEF InUpload
  <2> QED BY <2>1, <2>2
<1> QED BY <1>0, <1>4, <1>5, <1>6, <1>7, Phases

\* The steps of its client: an ACK is taken for the next block, or for the first.
LEMMA OwnClientUpload ==
  ASSUME NEW c \in Conns, SystemInv, ClientTypeOK', Agree(c)', Process(c),
         NEW f \in FileNames, cl'[c].req["WRQ"] = f,
         cl[c].req["WRQ"] = f => UploadAt(c, f)
  PROVE  UploadAt(c, f)'
<1> DEFINE h == Head(toClient[c])
<1>0. /\ TypeOK /\ C!TypeOK /\ C!TypeOK' /\ Agree(c)
  BY DEF SystemInv, Safety, ClientTypeOK, Conversation
<1>1. InUpload(c)' => ~Free(c)' /\ ~Requested(c)' /\ ~Replied(c)' /\ ~Downloading(c)'
  BY <1>0, UploadsNext DEF UploadsFit
<1>2. ~InUpload(c)' => UploadAt(c, f)'
  BY DEF InUpload, UploadAt
<1>3. vars' = vars
  BY DEF Process
<1>4. CASE IsBroadcast(h)
  <2>1. Unmoved(c) /\ local' = local /\ cl' = cl
    BY <1>0, <1>4, BroadcastRead
  <2> QED BY <1>0, <1>3, <2>1, UploadStays DEF vars, upload, disk
<1>5. CASE ~IsBroadcast(h)
  <2>1. CASE Replied(c)
    BY <1>0, <1>1, <1>2, <1>5, <2>1, ReplyRead
  <2>2. CASE Downloading(c)
    BY <1>0, <1>1, <1>2, <1>5, <2>2, BlockRead
  <2>3. ASSUME NEW g \in FileNames, Put(g) \in Commands[c], Asks(c, Put(g)),
               Saved(c), toDownload[c] = NONE
        PROVE  UploadAt(c, f)'
    BY <1>0, <1>1, <1>2, <1>5, <2>3, SavedRead
  <2>4. ASSUME NEW g \in FileNames, Put(g) \in Commands[c], Asks(c, Put(g)),
               Awaiting(c), goingToBeReceived[c] = g
        PROVE  UploadAt(c, f)'
    <3>1. /\ local' = local /\ Asks(c, Put(g))' /\ h.op = "ACK"
          /\ \/ NothingSent(c)'
             \/ /\ Sending(c)'
                /\ toServer'[c][1].data \o cl'[c].toSendVec = Buffer(c, g)
                /\ h.block = 0 => Buffer(c, g) # <<>>
      BY <1>0, <1>5, <2>4, AckRead
    <3>2. g = f /\ cl[c].req["WRQ"] = f
      <4>1. /\ Put(g).op = "WRQ" /\ Put(g).file = g /\ C!Argument(Put(g)) = g
            /\ "WRQ" \in C!Ops
        BY DEF Put, C!Argument, C!Ops
      <4>2. cl'[c].req["WRQ"] = g
        BY <3>1, <4>1 DEF Asks
      <4> QED BY <2>4, <4>1, <4>2, Asked
    <3>3. pc'[c] = "listen"
      BY <1>3, <2>4 DEF vars, Awaiting
    <3>4. CASE NothingSent(c)'
      <4>1. toServer'[c] = <<>> /\ \A p \in Packets(toClient'[c]) : p.op = "BCAST"
        BY <3>4 DEF NothingSent, Quiet, Packets, IsBroadcast
      <4> QED BY <3>3, <4>1 DEF UploadAt, Sending, Arrived, Writing
    <3>5. CASE /\ Sending(c)'
               /\ toServer'[c][1].data \o cl'[c].toSendVec = Buffer(c, g)
               /\ h.block = 0 => Buffer(c, g) # <<>>
      <4>1. toServer'[c] # <<>>
        BY <3>5 DEF Sending
      <4>2. h \in Packets(toClient[c])
        BY <1>0, HeadRead, ClientTypes DEF Packets
      <4>3. /\ h.block # 0 => Copied(c, f, cl[c].toSendVec)
            /\ h.block = 0 => files[f] = NONE /\ accSize[c] = 0 /\ wholeFile[c] = <<>>
        BY <2>4, <3>1, <3>2, <4>2 DEF UploadAt
      <4>4. Copied(c, f, Buffer(c, f))
        <5>1. CASE h.block # 0
          BY <4>3, <5>1 DEF Buffer
        <5>2. CASE h.block = 0
          <6>1. Buffer(c, f) = local[c][f] /\ local[c][f] # NONE
            BY <3>2, <3>5, <5>2 DEF Buffer
          <6>2. local[c][f] \in Seq(Bytes)
            BY <1>0, <6>1, ClientTypes DEF MaybeData
          <6>3. <<>> \o local[c][f] = local[c][f] /\ Len(<<>>) = 0
            BY <6>2
          <6> QED BY <4>3, <5>2, <6>1, <6>3 DEF Copied
        <5> QED BY <5>1, <5>2
      <4>5. Copied(c, f, toServer[c][1].data \o cl[c].toSendVec)'
        BY <1>3, <3>1, <3>2, <3>5, <4>4 DEF Copied, vars, upload, disk
      <4> QED BY <3>3, <4>1, <4>5 DEF UploadAt, Awaiting, Arrived, Writing
    <3> QED BY <3>1, <3>4, <3>5
  <2> QED BY <1>0, <1>5, <2>1, <2>2, <2>3, <2>4, HeadPhases
<1> QED BY <1>4, <1>5

\* A client writes to its own directory.
LEMMA LocalKept ==
  ASSUME NEW c \in Conns, Process(c), NEW d \in Conns, d # c, C!TypeOK
  PROVE  local'[d] = local[d]
<1>1. \/ local' = local
      \/ C!DownloadComplete(c)
  BY DEF Process, C!SocketThread, C!AckPlain, C!AckDisc, C!UploadStart, C!UploadNext,
         C!UploadComplete, C!DownloadNext, C!Listing, C!Dropped, C!ErrorPrinted
<1>2. CASE C!DownloadComplete(c)
  BY <1>2 DEF C!DownloadComplete, C!TypeOK
<1> QED BY <1>1, <1>2

LEMMA LastOne ==
  ASSUME NEW S, NEW s \in Seq(S), s # <<>>, Tail(s) = <<>>
  PROVE  Len(s) = 1 /\ Head(s) = s[1]
<1>1. Len(s) \in Nat \ {0} /\ Len(Tail(s)) = Len(s) - 1
  BY EmptySeq, HeadTailProperties
<1>2. Len(Tail(s)) = 0
  BY EmptySeq, Zenon
<1>3. Head(s) = s[1]
  OBVIOUS
<1> QED BY <1>1, <1>2, <1>3

\* Every upload goes on with the bytes of its file, while its name is its own
\* and no block number comes round to 0.
LEMMA UploadsStep ==
  ASSUME SystemInv, SystemInv', OwnUploads, NoWrap, UploadsOK, NEW c \in Conns,
         ServerStep(c) \/ Type(c) \/ Process(c)
  PROVE  UploadsOK'
<1>0. /\ TypeOK /\ C!TypeOK /\ C!TypeOK' /\ Named /\ PcOK
      /\ \A d \in Conns : Agree(d) /\ Agree(d)'
      /\ \A d \in Conns, f \in FileNames : cl[d].req["WRQ"] = f => UploadAt(d, f)
  BY DEF SystemInv, Safety, IndInv, ClientTypeOK, Conversation, UploadsOK, Named
<1>1. Named'
  BY <1>0, NamedStep
<1>2. ASSUME NEW d \in Conns, d # c, NEW f \in FileNames, cl'[d].req["WRQ"] = f
      PROVE  UploadAt(d, f)'
  <2>1. Unmoved(d) /\ cl'[d] = cl[d]
    BY <1>2, OthersUnmoved DEF Unmoved
  <2>2. UploadAt(d, f)
    BY <1>0, <1>2, <2>1
  <2>3. /\ wholeFile'[d] = wholeFile[d] /\ accSize'[d] = accSize[d]
        /\ local'[d] = local[d]
    <3>1. CASE ServerStep(c)
      BY <1>0, <1>2, <3>1, ServerSteps, TransfersKept
         DEF ServerStep, SystemThread, SystemReceive, SystemAccept, clients
    <3>2. CASE Type(c)
      BY <3>2 DEF Type, C!Command, vars, upload
    <3>3. CASE Process(c)
      BY <1>0, <1>2, <3>3, LocalKept DEF Process, vars, upload
    <3> QED BY <3>1, <3>2, <3>3
  <2>4. ASSUME InUpload(d)
        PROVE  /\ files[f] = NONE => files'[f] = NONE
               /\ linked'[d] => linked[d] /\ files'[f] = files[f]
    <3>1. Put(f) \in Commands[d] /\ goingToBeReceived[d] = f
      BY <1>0, <1>2, <2>1, <2>4, Uploads DEF UploadsFit, Agree
    <3>2. CASE ServerStep(c)
      BY <1>0, <1>2, <3>1, <3>2, FileKept
    <3>3. CASE Type(c) \/ Process(c)
      BY <3>3 DEF Type, Process, vars, disk
    <3> QED BY <3>2, <3>3
  <2> QED BY <1>0, <2>1, <2>2, <2>3, <2>4, UploadStays
<1>3. ASSUME NEW f \in FileNames, cl'[c].req["WRQ"] = f
      PROVE  UploadAt(c, f)'
  <2>0. ClientTypeOK' /\ InUpload(c)' => ~Requested(c)'
    BY <1>0, <1>3, UploadsNext DEF UploadsFit
  <2>1. ~InUpload(c)' => UploadAt(c, f)'
    BY DEF InUpload, UploadAt
  <2>2. CASE SystemThread(c)
    <3>1. cl[c].req["WRQ"] = f
      BY <1>3, <2>2 DEF SystemThread
    <3> QED BY <1>0, <2>2, <3>1, OwnThreadUpload DEF SystemInv
  <2>3. CASE SystemReceive(c)
    <3> DEFINE s == toServer[c]
    <3>1. /\ pc[c] = "listen" /\ s # <<>> /\ s \in Seq(Request)
          /\ message'[c] = Head(s) /\ toServer'[c] = Tail(s)
          /\ pc'[c] \in {"decode", "deaf"} /\ cl' = cl /\ local' = local
          /\ toClient' = toClient /\ disk' = disk
          /\ wholeFile' = wholeFile /\ accSize' = accSize
      BY <1>0, <2>3, ClientTypes
         DEF SystemReceive, Receive, Goto, TypeOK, C!TypeOK, upload
    <3>2. ~Awaiting(c)' /\ ~Sending(c)' /\ ~Writing(c)'
      BY <3>1 DEF Awaiting, Sending, Writing
    <3>3. ASSUME Arrived(c)'
          PROVE  /\ Copied(c, f, message[c].data \o cl[c].toSendVec)'
                 /\ message'[c].block # 0
      <4>1. Len(s) = 1 /\ Head(s) = s[1]
        <5>1. Tail(s) = <<>>
          BY <3>1, <3>3 DEF Arrived
        <5> QED BY <3>1, <5>1, LastOne
      <4>2. Sent(c, s[1]) /\ Sending(c)
        BY <3>1, <3>3, <4>1 DEF Arrived, Sent, Sending, C!Uploaded
      <4>3. Copied(c, f, s[1].data \o cl[c].toSendVec)
        BY <1>0, <1>3, <3>1, <4>2 DEF UploadAt
      <4>4. s[1].op = "DATA" /\ s[1] \in Packets(s)
        BY <4>1, <4>2 DEF Sent, FullBlock, ShortBlock, Packets
      <4>5. s[1].block # 0
        BY <4>4 DEF NoWrap
      <4> QED BY <3>1, <4>1, <4>3, <4>5 DEF Copied, disk
    <3> QED BY <3>2, <3>3 DEF UploadAt
  <2>4. CASE SystemAccept(c)
    <3>1. pc'[c] = "start"
      BY <1>0, <2>4 DEF SystemAccept, Accept, Goto, TypeOK
    <3> QED BY <2>1, <3>1 DEF InUpload, Awaiting, NothingSent, Sending, Arrived, Writing
  <2>5. CASE Type(c)
    <3>1. Requested(c)' /\ Admitted(c)
      BY <1>0, <2>5, CommandStep DEF SystemInv, Conversation
    <3> QED BY <1>0, <2>0, <2>1, <3>1 DEF ClientTypeOK
  <2>6. CASE Process(c)
    BY <1>0, <1>3, <2>6, OwnClientUpload DEF SystemInv
  <2> QED BY <2>2, <2>3, <2>4, <2>5, <2>6 DEF ServerStep
<1>4. \A d \in Conns, f \in FileNames : cl'[d].req["WRQ"] = f => UploadAt(d, f)'
  BY <1>2, <1>3
<1> QED BY <1>1, <1>4 DEF UploadsOK, Named

LEMMA UploadsStart == ASSUME SystemInit PROVE UploadsOK
<1>1. \A c \in Conns : goingToBeReceived[c] = NONE /\ cl[c].req["WRQ"] = NONE
  BY DEF SystemInit, Init, C!Init, C!Ops
<1> QED BY <1>1, NameAssumption DEF UploadsOK

\* The bytes of every upload are those of the client's file, wherever they are.
THEOREM UploadsHold == OwnUploads /\ SystemSpec /\ []NoWrap => []UploadsOK
<1> SUFFICES ASSUME OwnUploads PROVE SystemSpec /\ []NoWrap => []UploadsOK
  OBVIOUS
<1>1. ASSUME SystemInv, SystemInv', NoWrap, UploadsOK, [SystemNext]_systemVars
      PROVE  UploadsOK'
  <2>1. CASE SystemNext
    BY <1>1, <2>1, SystemNextIs, UploadsStep
  <2>2. CASE UNCHANGED systemVars
    <3>1. \A c \in Conns :
            /\ Unmoved(c) /\ wholeFile'[c] = wholeFile[c] /\ accSize'[c] = accSize[c]
            /\ goingToBeReceived'[c] = goingToBeReceived[c]
            /\ local'[c] = local[c] /\ cl'[c] = cl[c]
            /\ linked'[c] = linked[c] /\ files' = files
      BY <2>2 DEF systemVars, vars, clients, disk, upload, download, session, input, loop,
                     Unmoved, Hears
    <3>2. C!TypeOK
      BY <1>1 DEF SystemInv, ClientTypeOK
    <3>3. \A c \in Conns, f \in FileNames : UploadAt(c, f) => UploadAt(c, f)'
      BY <3>1, <3>2, UploadStays
    <3> QED BY <1>1, <3>1, <3>3 DEF UploadsOK
  <2> QED BY <1>1, <2>1, <2>2
<1>2. SystemInv /\ SystemInv' /\ NoWrap /\ UploadsOK /\ [SystemNext]_systemVars
      => UploadsOK'
  BY <1>1
<1> QED BY <1>2, SystemInvariance, UploadsStart, PTL DEF SystemSpec

-----------------------------------------------------------------------------
(* What a step amounts to, told by what it does to the job of one client.  *)

OthersJobsKept(c) == \A d \in Conns : d # c => JobOf(d)' = JobOf(d)

LEMMA OneJob ==
  ASSUME NEW c \in Conns, OthersJobsKept(c)
  PROVE  /\ F!Become(c, JobOf(c)')
         /\ JobOf(c)' = JobOf(c) /\ files' = files /\ local' = local
              => UNCHANGED F!vars
<1>1. [d \in Conns |-> JobOf(d)'] =
        [[d \in Conns |-> JobOf(d)] EXCEPT ![c] = JobOf(c)']
  BY DEF OthersJobsKept
<1>2. F!Become(c, JobOf(c)')
  BY <1>1 DEF F!Become
<1>3. ASSUME JobOf(c)' = JobOf(c), files' = files, local' = local
      PROVE  UNCHANGED F!vars
  <2>1. \A d \in Conns : JobOf(d)' = JobOf(d)
    BY <1>3 DEF OthersJobsKept
  <2> QED BY <1>3, <2>1 DEF F!vars
<1> QED BY <1>2, <1>3

LEMMA Amounts ==
  ASSUME NEW c \in Conns, OthersJobsKept(c)
  PROVE  /\ local' = local /\ files' = files =>
              /\ JobOf(c) = F!Idle /\ (\E op \in {"RRQ", "WRQ", "DELRQ"}, f \in Names :
                                         JobOf(c)' = Job(op, f, "asked"))
                   => F!Next
              /\ \A op, f : JobOf(c) = Job(op, f, "asked") /\ JobOf(c)' = F!Idle
                   => F!Next
              /\ \A f \in FileNames :
                   /\ JobOf(c) = Job("RRQ", f, "asked") /\ files[f] # NONE
                   /\ JobOf(c)' = F!Opened(f, NONE, {})
                   => F!Next
              /\ \A op, f : JobOf(c) = Job(op, f, "done") /\ JobOf(c)' = F!Idle
                   => F!Next
         /\ files' = files => \A f, s :
              /\ JobOf(c) = F!Fetched(f, s) /\ JobOf(c)' = F!Idle
              /\ local' = [local EXCEPT ![c][f] = s]
              => F!Next
         /\ local' = local => \A f \in FileNames :
              /\ /\ JobOf(c) = Job("WRQ", f, "asked") /\ files[f] = NONE
                 /\ JobOf(c)' = Job("WRQ", f, "open")
                 /\ files' = [files EXCEPT ![f] = <<>>]
                 => F!Next
              /\ /\ JobOf(c) = Job("WRQ", f, "open")
                 /\ JobOf(c)' = Job("WRQ", f, "done")
                 /\ files' = [files EXCEPT ![f] = local[c][f]]
                 => F!Next
<1> DEFINE job == [d \in Conns |-> JobOf(d)]
<1>1. F!Become(c, JobOf(c)')
  BY OneJob
<1>2. /\ F!Ask(c) => F!Next
      /\ F!Refuse(c) => F!Next
      /\ F!Open(c) => F!Next
      /\ F!Store(c) => F!Next
      /\ F!Create(c) => F!Next
      /\ F!Fill(c) => F!Next
      /\ F!Finish(c) => F!Next
  BY Zenon DEF F!Next
<1>3. job[c] = JobOf(c)
  OBVIOUS
<1>4. ASSUME JobOf(c) = F!Idle, local' = local, files' = files,
             NEW op \in {"RRQ", "WRQ", "DELRQ"}, NEW f \in Names,
             JobOf(c)' = Job(op, f, "asked")
      PROVE  F!Next
  <2>1. F!Become(c, F!Asked(op, f))
    BY <1>1, <1>4 DEF Job, F!Asked
  <2> QED BY <1>2, <1>3, <1>4, <2>1 DEF F!Ask
<1>5. ASSUME NEW op, NEW f, JobOf(c) = Job(op, f, "asked"), local' = local,
             files' = files, JobOf(c)' = F!Idle
      PROVE  F!Next
  BY <1>1, <1>2, <1>3, <1>5 DEF F!Refuse, Job
<1>6. ASSUME NEW f \in FileNames, JobOf(c) = Job("RRQ", f, "asked"), files[f] # NONE,
             JobOf(c)' = F!Opened(f, NONE, {}), local' = local, files' = files
      PROVE  F!Next
  <2>1. JobOf(c).op = "RRQ" /\ JobOf(c).stage = "asked" /\ JobOf(c).file = f
    BY <1>6 DEF Job
  <2>2. F!Open(c)
    BY <1>1, <1>3, <1>6, <2>1 DEF F!Open, F!Waits
  <2> QED BY <1>2, <2>2
<1>8. ASSUME NEW op, NEW f, JobOf(c) = Job(op, f, "done"), local' = local,
             files' = files, JobOf(c)' = F!Idle
      PROVE  F!Next
  <2>1. F!Finish(c)
    BY <1>1, <1>3, <1>8 DEF F!Finish, Job
  <2> QED BY <1>2, <2>1
<1>9. ASSUME NEW f, NEW s, JobOf(c) = F!Fetched(f, s), JobOf(c)' = F!Idle,
             files' = files, local' = [local EXCEPT ![c][f] = s]
      PROVE  F!Next
  <2>1. /\ JobOf(c).op = "RRQ" /\ JobOf(c).stage = "fetched"
        /\ JobOf(c).file = f /\ JobOf(c).got = s
    BY <1>9 DEF F!Fetched
  <2>2. F!Store(c)
    BY <1>1, <1>3, <1>9, <2>1 DEF F!Store, F!Waits
  <2> QED BY <1>2, <2>2
<1>10. ASSUME NEW f \in FileNames, JobOf(c) = Job("WRQ", f, "asked"), files[f] = NONE,
              JobOf(c)' = Job("WRQ", f, "open"), local' = local,
              files' = [files EXCEPT ![f] = <<>>]
       PROVE  F!Next
  <2>1. F!At(c, "open")
    BY <1>1, <1>3, <1>10 DEF F!At, Job
  <2>2. JobOf(c).op = "WRQ" /\ JobOf(c).stage = "asked" /\ JobOf(c).file = f
    BY <1>10 DEF Job
  <2>3. F!Create(c)
    BY <1>3, <1>10, <2>1, <2>2 DEF F!Create, F!Waits
  <2> QED BY <1>2, <2>3
<1>11. ASSUME NEW f \in FileNames, JobOf(c) = Job("WRQ", f, "open"),
              JobOf(c)' = Job("WRQ", f, "done"), local' = local,
              files' = [files EXCEPT ![f] = local[c][f]]
       PROVE  F!Next
  <2>1. F!At(c, "done")
    BY <1>1, <1>3, <1>11 DEF F!At, Job
  <2>2. JobOf(c).op = "WRQ" /\ JobOf(c).stage = "open" /\ JobOf(c).file = f
    BY <1>11 DEF Job
  <2>3. F!Fill(c)
    BY <1>3, <1>11, <2>1, <2>2 DEF F!Fill, F!Waits
  <2> QED BY <1>2, <2>3
<1> QED BY <1>4, <1>5, <1>6, <1>8, <1>9, <1>10, <1>11

\* The steps of a download that has opened its file.
LEMMA ReadAmounts ==
  ASSUME NEW c \in Conns, OthersJobsKept(c), files' = files, local' = local,
         JobOf(c).op = "RRQ"
  PROVE  LET f == JobOf(c).file
             now == files[f]
             held == JobOf(c).held
             n == JobOf(c).size
         IN /\ /\ JobOf(c).stage = "opened"
               /\ JobOf(c)' = F!Sized(f, held, JobOf(c).writers,
                                      IF now = NONE THEN 0 ELSE Len(now))
               => F!Next
            /\ /\ JobOf(c).stage = "sized" /\ held = NONE /\ now # NONE
               /\ n \in {0, Len(now)}
               /\ JobOf(c)' = F!Fetched(f, IF n = 0 THEN <<>> ELSE now)
               => F!Next
            /\ /\ JobOf(c).stage = "sized" /\ held # NONE
               /\ JobOf(c)' = F!Fetched(f, F!Cut(held, n))
               => F!Next
<1> DEFINE job == [d \in Conns |-> JobOf(d)]
<1>1. F!Become(c, JobOf(c)')
  BY OneJob
<1>2. /\ F!Size(c) => F!Next
      /\ F!Fetch(c) => F!Next
      /\ F!FetchRemoved(c) => F!Next
  BY Zenon DEF F!Next
<1>3. job[c] = JobOf(c)
  OBVIOUS
<1> DEFINE f == JobOf(c).file
           now == files[f]
           held == JobOf(c).held
           n == JobOf(c).size
<1>4. ASSUME JobOf(c).stage = "opened",
             JobOf(c)' = F!Sized(f, held, JobOf(c).writers,
                                      IF now = NONE THEN 0 ELSE Len(now))
      PROVE  F!Next
  BY <1>1, <1>2, <1>3, <1>4 DEF F!Size, F!Waits
<1>5. ASSUME JobOf(c).stage = "sized", held = NONE, now # NONE, n \in {0, Len(now)},
             JobOf(c)' = F!Fetched(f, IF n = 0 THEN <<>> ELSE now)
      PROVE  F!Next
  BY <1>1, <1>2, <1>3, <1>5 DEF F!Fetch, F!Waits
<1>6. ASSUME JobOf(c).stage = "sized", held # NONE,
             JobOf(c)' = F!Fetched(f, F!Cut(held, n))
      PROVE  F!Next
  BY <1>1, <1>2, <1>3, <1>6 DEF F!FetchRemoved, F!Waits
<1> QED BY <1>4, <1>5, <1>6

\* A call of handleReadingACK puts on its way, or keeps, what it was given.
Kept(buf) == IF BufferAfter(buf) = NONE THEN <<>> ELSE BufferAfter(buf)

LEMMA FlightSent ==
  ASSUME NEW s \in Seq(Packet), Quiet(s), NEW buf \in Seq(Bytes), NEW n \in BlockNum
  PROVE  /\ DataAt(s \o BlocksOf(buf, n)) # {}
         /\ InFlight(s \o BlocksOf(buf, n)) \o Kept(buf) = buf
         /\ InFlight(s \o BlocksOf(buf, n)) \in Seq(Bytes) /\ Kept(buf) \in Seq(Bytes)
<1> DEFINE t == s \o BlocksOf(buf, n)
<1>0. Len(buf) \in Nat /\ BlockSize \in Nat /\ buf \o <<>> = buf
  BY BlockAssumption
<1>5. <<>> \in Seq(Bytes)
  BY EmptySeq
<1>1. ASSUME NEW q \in Packet, BlocksOf(buf, n) = <<q>>, q.op = "DATA"
      PROVE  DataAt(t) # {} /\ InFlight(t) = q.data /\ q.data \in Seq(Bytes)
  <2>1. s \o <<q>> = Append(s, q) /\ Append(s, q) \in Seq(Packet)
    OBVIOUS
  <2>2. Only(Append(s, q), q)
    BY HearAnswer
  <2> QED BY <1>1, <2>1, <2>2, OneFlight, PacketFields DEF IsBroadcast
<1>2. CASE Len(buf) < BlockSize
  <2>1. PICK q \in Packet : /\ BlocksOf(buf, n) = <<q>> /\ ShortBlock(q) /\ q.data = buf
                            /\ BufferAfter(buf) = NONE
    BY <1>2, BlocksSent
  <2> QED BY <1>0, <1>1, <1>5, <2>1 DEF ShortBlock, Kept
<1>3. CASE Len(buf) >= BlockSize /\ Len(buf) < 2 * BlockSize
  <2>1. PICK p \in Packet, q \in Packet :
          /\ BlocksOf(buf, n) = <<p, q>> /\ FullBlock(p) /\ ShortBlock(q)
          /\ p.data \o q.data = buf /\ BufferAfter(buf) = NONE
    BY <1>3, BlocksSent
  <2>2. Both(t, p, q)
    BY <2>1, HearAnswer
  <2>3. t \in Seq(Packet)
    <3>1. s \o <<p, q>> \in Seq(Packet)
      OBVIOUS
    <3> QED BY <2>1, <3>1
  <2>4. DataAt(t) # {} /\ InFlight(t) = p.data \o q.data
    BY <2>1, <2>2, <2>3, TwoFlight DEF FullBlock, ShortBlock
  <2> QED BY <1>0, <1>5, <2>1, <2>4 DEF Kept
<1>4. CASE Len(buf) >= 2 * BlockSize
  <2>1. PICK p \in Packet : /\ BlocksOf(buf, n) = <<p>> /\ FullBlock(p)
                            /\ p.data \o BufferAfter(buf) = buf
                            /\ BufferAfter(buf) \in Seq(Bytes)
    BY <1>4, BlocksSent
  <2>2. BufferAfter(buf) # NONE
    BY <2>1, NameAssumption
  <2> QED BY <1>1, <2>1, <2>2 DEF FullBlock, Kept
<1> QED BY <1>0, <1>2, <1>3, <1>4

LEMMA PadLength ==
  ASSUME NEW s \in Seq(Bytes), NEW n \in Nat
  PROVE  Len(Pad(s, n)) = n /\ Pad(s, 0) = <<>>
<1>1. Len(Pad(s, n)) = n
  BY DEF Pad
<1>2. Pad(s, 0) = <<>>
  BY DEF Pad
<1> QED BY <1>1, <1>2

LEMMA PadAll ==
  ASSUME NEW s \in Seq(Bytes)
  PROVE  Pad(s, Len(s)) = s
<1>1. Pad(s, Len(s)) = [i \in 1 .. Len(s) |-> s[i]]
  BY DEF Pad
<1>2. [i \in 1 .. Len(s) |-> s[i]] = s
  OBVIOUS
<1> QED BY <1>1, <1>2

LEMMA OverlayAll ==
  ASSUME NEW s \in Seq(Bytes)
  PROVE  Overlay(Pad(s, Len(s)), <<>>) = s
<1>1. Pad(s, Len(s)) = s
  BY PadAll
<1>2. SubSeq(<<>>, Len(s) + 1, 0) = <<>>
  <2>1. Len(s) \in Nat
    OBVIOUS
  <2> QED BY <2>1
<1>3. s \o <<>> = s /\ Len(<<>>) = 0
  OBVIOUS
<1> QED BY <1>1, <1>2, <1>3 DEF Overlay

\* A thread that writes has an upload of its client to write.
LEMMA WriteIsUpload ==
  ASSUME NEW c \in Conns, Agree(c), pc[c] = "write"
  PROVE  \E f \in FileNames :
           /\ Put(f) \in Commands[c] /\ Asks(c, Put(f))
           /\ goingToBeReceived[c] = f /\ Writing(c)
<1>1. ~Settled(c)
  BY DEF Settled
<1>2. ~Free(c) /\ ~Requested(c) /\ ~Replied(c) /\ ~Downloading(c)
  BY <1>1 DEF Free, Requested, Replied, Downloading, LastBlocks, MoreBlocks, Working
<1>3. Uploading(c)
  BY <1>2 DEF Agree
<1>4. ~Saved(c) /\ ~Awaiting(c) /\ ~NothingSent(c) /\ ~Sending(c) /\ ~Arrived(c)
  BY DEF Saved, Awaiting, NothingSent, Sending, Arrived
<1> QED BY <1>3, <1>4, Zenon DEF Uploading

-----------------------------------------------------------------------------
(* The steps of the server, and what they amount to.                       *)

Stutters(c) == JobOf(c)' = JobOf(c) /\ files' = files /\ local' = local

\* A receive or an accept: nothing is stored before it or after it.
LEMMA TakesStutter ==
  ASSUME TypeOK, C!TypeOK, NEW c \in Conns, SystemReceive(c) \/ SystemAccept(c)
  PROVE  Stutters(c)
<1>1. /\ cl' = cl /\ toClient' = toClient /\ local' = local /\ disk' = disk
      /\ toDownload' = toDownload
  BY DEF SystemReceive, SystemAccept, Receive, Accept, clients, download
<1>2. \/ UploadStage(c) = "asked" /\ UploadStage(c)' = "asked"
      \/ UploadStage(c) = UploadStage(c)'
  <2>1. CASE SystemReceive(c)
    <3>1. pc[c] = "listen" /\ pc'[c] \in {"decode", "deaf"} /\ toServer[c] # <<>>
      BY <2>1 DEF SystemReceive, Receive, Goto, TypeOK
    <3> QED BY <3>1 DEF UploadStage, Stored
  <2>2. CASE SystemAccept(c)
    <3>1. pc[c] = "idle" /\ pc'[c] = "start" /\ toServer' = toServer
      BY <2>2 DEF SystemAccept, Accept, Goto, TypeOK, clients
    <3>2. Stored(c)' <=> Stored(c)
      BY <1>1, <3>1 DEF Stored, C!Uploaded
    <3> QED BY <3>1, <3>2 DEF UploadStage
  <2> QED BY <2>1, <2>2
<1>3. SameLoad(c)
  BY <1>1 DEF SameLoad
<1>4. SameReading(c)
  BY DEF SystemReceive, SystemAccept, Receive, Accept, Goto, TypeOK, SameReading, AtRead
<1> QED BY <1>1, <1>2, <1>3, <1>4, JobStays DEF Stutters, disk

\* The thread has nothing of its client's to do.
LEMMA ListeningStutters ==
  ASSUME SystemInv, NEW c \in Conns, SystemThread(c), Listening(c)
  PROVE  Stutters(c)
<1>0. /\ TypeOK /\ PcOK /\ C!TypeOK /\ ReplyAt(c) /\ Agree(c) /\ Admitted(c)
  BY DEF SystemInv, Safety, IndInv, ClientTypeOK, Conversation, ReplyOK
<1>1. Settled(c) /\ Settled(c)' /\ Hears(c) /\ disk' = disk
  BY <1>0, SettledStep DEF Listening
<1>2. cl' = cl /\ local' = local
  BY DEF SystemThread
<1>3. ~cl[c].goingToFinish
  BY DEF Listening, Free, Replied
<1>4. UploadStage(c) = "asked" /\ UploadStage(c)' = "asked"
  BY <1>1, <1>2, <1>3 DEF UploadStage, Stored, C!Uploaded, Settled
<1>5. toDownload'[c] = toDownload[c]
  BY <1>1 DEF Settled
<1>6. SameLoad(c)
  BY <1>0, <1>1, HearsLoad
<1>7. SameReading(c)
  BY <1>1 DEF Settled, SameReading, AtRead
<1> QED BY <1>1, <1>2, <1>4, <1>5, <1>6, <1>7, JobStays DEF Stutters, disk

\* A thread that sends the next blocks of a download.
LEMMA SendsStutters ==
  ASSUME SystemInv, NEW c \in Conns, SystemThread(c), NEW cmd, Sends(c, cmd)
  PROVE  Stutters(c)
<1>0. /\ TypeOK /\ RouteOK /\ Serial /\ C!TypeOK
  BY DEF SystemInv, Safety, IndInv, ClientTypeOK, Conversation
<1>1. pc[c] = "decode" /\ AckMore(c)
  BY <1>0, SendsStep
<1>2. /\ cmd \in Commands[c] /\ cmd.op = "RRQ" /\ Asks(c, cmd)
      /\ toDownload[c] # NONE /\ Quiet(toClient[c])
  BY <1>1 DEF Sends, MoreBlocks
<1> DEFINE buf == toDownload[c]
           pkts == BlocksOf(buf, blockNum[c])
<1>3. /\ cl' = cl /\ local' = local /\ disk' = disk
      /\ toDownload'[c] = BufferAfter(buf)
      /\ Send(c, myId[c], pkts)
  BY <1>0, <1>1 DEF SystemThread, AckMore, HandleReadingACK, TypeOK
<1>4. buf \in Seq(Bytes) /\ blockNum[c] \in BlockNum /\ toClient[c] \in Seq(Packet)
  BY <1>0, <1>2, ClientTypes DEF TypeOK, MaybeData
<1>5. pkts \in Seq(Packet)
  BY <1>4, BlocksType
<1>6. toClient'[c] = toClient[c] \o pkts
  BY <1>0, <1>1, <1>3, <1>5, SendReaches
<1>7. /\ InFlight(toClient'[c]) \o Kept(buf) = buf /\ Kept(buf) \in Seq(Bytes)
      /\ InFlight(toClient'[c]) \in Seq(Bytes)
      /\ DataAt(toClient'[c]) # {}
  <2>1. /\ InFlight(toClient[c] \o pkts) \o Kept(buf) = buf /\ Kept(buf) \in Seq(Bytes)
        /\ InFlight(toClient[c] \o pkts) \in Seq(Bytes)
        /\ DataAt(toClient[c] \o pkts) # {}
    BY <1>2, <1>4, FlightSent, Zenon
  <2> QED BY <1>6, <2>1
<1>8. Rest(c) = buf /\ InFlight(toClient[c]) = <<>>
  BY <1>2, <1>4, QuietFlight DEF Rest
<1>9. Downloaded(c)' = Downloaded(c)
  <2> DEFINE w == cl[c].wholeFile
  <2>1. w \in Seq(Bytes)
    BY <1>0, Fields
  <2>2. <<>> \in Seq(Bytes)
    BY EmptySeq
  <2>3. Rest(c)' = Kept(buf)
    BY <1>3 DEF Rest, Kept
  <2>4. Downloaded(c)' = (w \o InFlight(toClient'[c])) \o Kept(buf)
    BY <1>3, <2>3 DEF Downloaded
  <2>5. Downloaded(c)' = w \o buf
    <3>1. (w \o InFlight(toClient'[c])) \o Kept(buf)
            = w \o (InFlight(toClient'[c]) \o Kept(buf))
      BY <1>7, <2>1, ThreeParts
    <3> QED BY <1>7, <2>4, <3>1
  <2>6. Downloaded(c) = (w \o <<>>) \o buf /\ w \o <<>> = w
    BY <1>8, <2>1, ConcatEmptySeq DEF Downloaded
  <2> QED BY <2>5, <2>6
<1>10. Fetched(c) /\ Fetched(c)'
  BY <1>2, <1>7 DEF Fetched
<1>11. Asks(c, cmd)'
  BY <1>2, <1>3 DEF Asks
<1>12. ~AtRead(c) /\ ~AtRead(c)'
  BY <1>0, <1>1 DEF AckMore, HandleReadingACK, Goto, TypeOK, AtRead
<1>13. /\ DownloadOf(c, cmd.file) = F!Fetched(cmd.file, Downloaded(c))
       /\ DownloadOf(c, cmd.file)' = F!Fetched(cmd.file, Downloaded(c)')
  BY <1>10, <1>12, Downloads, DownloadsNext DEF DownloadsFit
<1> QED BY <1>2, <1>3, <1>9, <1>11, <1>13, Jobs, JobsNext DEF JobsFit, Stutters, disk

StagesFit ==
  \A c \in Conns : pc[c] = "write" =>
    UploadStage(c) = IF linked[c] THEN "open" ELSE "removed"

LEMMA Stages == StagesFit
<1> SUFFICES ASSUME NEW c \in Conns, pc[c] = "write"
             PROVE  UploadStage(c) = IF linked[c] THEN "open" ELSE "removed"
  BY DEF StagesFit
<1>1. ~Stored(c)
  BY DEF Stored
<1>2. CASE linked[c]
  BY <1>1, <1>2, Zenon DEF UploadStage
<1>3. CASE ~linked[c]
  BY <1>1, <1>3, Zenon DEF UploadStage
<1> QED BY <1>2, <1>3

LEMMA StagesNext == StagesFit'
BY Stages, PTL

Moves == F!Next \/ UNCHANGED F!vars

LEMMA StuttersMove ==
  ASSUME NEW c \in Conns, OthersJobsKept(c), Stutters(c)
  PROVE  Moves
BY OneJob DEF Stutters, Moves

LEMMA ThreadDisturbs ==
  ASSUME NEW c \in Conns, Disturbs(c)
  PROVE  pc[c] = "del" \/ (pc[c] = "write" /\ ~linked[c])
BY DEF Disturbs, DelrqDelete, DataWrite

\* A thread that has a file open reads it for its client.
LEMMA ReadingIsDownload ==
  ASSUME NEW c \in Conns, Agree(c), AtRead(c)
  PROVE  \E cmd \in Commands[c] : AtWork(c, cmd) /\ message[c] = cmd
<1>1. ~Settled(c) /\ ~Listening(c)
  BY DEF Settled, Listening, AtRead
<1>2. \A cmd : ~Sends(c, cmd)
  BY DEF Sends, MoreBlocks, AtRead
<1>3. ~Uploading(c)
  <2>1. \/ Saved(c) \/ Awaiting(c) \/ NothingSent(c) \/ Sending(c) \/ Arrived(c)
        \/ Writing(c)
        => ~AtRead(c)
    BY DEF Saved, Awaiting, NothingSent, Sending, Arrived, Writing, AtRead
  <2> QED BY <2>1, Zenon DEF Uploading
<1>4. PICK cmd \in Commands[c] : AtWork(c, cmd)
  BY <1>1, <1>2, <1>3, Phases
<1> QED BY <1>4 DEF AtWork, Working

\* While other threads take steps, its job is as far as it is itself.
ReaderAs(c, f) == IF pc[c] = "length" THEN OpenJob(c, f) ELSE SizeJob(c, f)

LEMMA ReadersJob ==
  ASSUME SystemInv, NEW c \in Conns, ServerStep(c) \/ Type(c) \/ Process(c),
         NEW d \in Conns, d # c, AtRead(d)
  PROVE  /\ \E f : /\ f = message[d].file
                   /\ JobOf(d) = ReaderAs(d, f) /\ JobOf(d)' = ReaderAs(d, f)'
         /\ pc'[d] = pc[d] /\ toDownload'[d] = toDownload[d]
<1>0. Agree(d) /\ PcAt(d)
  BY DEF SystemInv, Safety, IndInv, PcOK, Conversation
<1>1. PICK cmd \in Commands[d] : AtWork(d, cmd) /\ message[d] = cmd
  BY <1>0, ReadingIsDownload
<1>2. cmd.op = "RRQ" /\ Asks(d, cmd)
  BY <1>0, <1>1 DEF AtRead, PcAt, AtWork
<1>3. Unmoved(d)
  BY OthersUnmoved
<1>4. Asks(d, cmd)'
  BY <1>2, <1>3 DEF Unmoved, Asks
<1>5. JobOf(d) = DownloadOf(d, cmd.file) /\ JobOf(d)' = DownloadOf(d, cmd.file)'
  BY <1>2, <1>4, Jobs, JobsNext DEF JobsFit
<1>6. pc'[d] = pc[d] /\ toDownload'[d] = toDownload[d] /\ message'[d] = message[d]
  BY <1>3 DEF Unmoved
<1>7. DownloadOf(d, cmd.file) = ReaderAs(d, cmd.file)
  BY Downloads DEF DownloadsFit, AtRead, ReaderAs
<1>8. DownloadOf(d, cmd.file)' = ReaderAs(d, cmd.file)'
  BY <1>6, DownloadsNext DEF DownloadsFit, AtRead, ReaderAs
<1> QED BY <1>1, <1>5, <1>6, <1>7, <1>8

\* Nobody else is reading.
LEMMA NeverReading ==
  ASSUME NEW c \in Conns, Agree(c), ~AtRead(c)
  PROVE  JobOf(c).stage \notin {"opened", "sized"}
<1>1. UploadStage(c) \in {"open", "removed", "done", "asked"}
  BY DEF UploadStage
<1>2. CASE \A op \in C!Ops : cl[c].req[op] = NONE
  <2>1. JobOf(c) = F!Idle
    BY <1>2, Jobs DEF JobsFit
  <2> QED BY <2>1 DEF F!Idle
<1>3. ASSUME NEW cmd \in Commands[c], Asks(c, cmd)
      PROVE  JobOf(c).stage \notin {"opened", "sized"}
  <2>1. \/ JobOf(c) = Job("WRQ", cmd.file, UploadStage(c))
        \/ JobOf(c) = F!Fetched(cmd.file, Downloaded(c))
        \/ JobOf(c) = Job("RRQ", cmd.file, "asked")
        \/ JobOf(c) = Job("DELRQ", cmd.file, "asked")
        \/ JobOf(c) = Job("DELRQ", cmd.file, "done")
        \/ JobOf(c) = F!Idle
    BY <1>3, Jobs, Downloads DEF JobsFit, DownloadsFit
  <2> QED BY <1>1, <2>1 DEF Job, F!Fetched, F!Idle
<1> QED BY <1>2, <1>3 DEF Agree, Free, Requested, Replied, Downloading, Uploading

\* The file was deleted before it was filled: those who read it see it filled.
LEMMA FillRemovedMoves ==
  ASSUME SystemInv, DownloadsOK, NEW c \in Conns, SystemThread(c),
         NEW f \in FileNames, JobOf(c) = Job("WRQ", f, "removed"),
         JobOf(c)' = Job("WRQ", f, "done"), DataWrite(c), ~linked[c],
         wholeFile[c] = local[c][f], accSize[c] = Len(wholeFile[c])
  PROVE  Moves
<1>0. TypeOK /\ \A d \in Conns : Agree(d) /\ ReadAt(d)
  BY DEF SystemInv, Safety, IndInv, PcOK, Conversation
<1>1. files' = files /\ local' = local
  BY DEF DataWrite, SystemThread
<1>2. Overlay(Pad(wholeFile[c], accSize[c]), <<>>) = local[c][f]
  BY <1>0, OverlayAll DEF TypeOK
<1>3. \A d \in Conns :
        /\ c \in writers[d] => orphan'[d] = Overlay(Pad(wholeFile[c], accSize[c]), orphan[d])
        /\ c \notin writers[d] => orphan'[d] = orphan[d]
        /\ writers'[d] = writers[d] \ {c}
  BY DEF DataWrite, StreamClosed
<1>4. ASSUME NEW d \in Conns, d # c
      PROVE  JobOf(d)' = IF F!Reading(d) /\ c \in JobOf(d).writers
                         THEN F!Holding(JobOf(d), local[c][f], JobOf(d).writers \ {c})
                         ELSE JobOf(d)
  <2>1. F!Reading(d) <=> JobOf(d).op = "RRQ" /\ JobOf(d).stage \in {"opened", "sized"}
    BY DEF F!Reading
  <2>2. CASE AtRead(d) /\ c \in writers[d]
    <3>1. PICK g : JobOf(d) = ReaderAs(d, g) /\ JobOf(d)' = ReaderAs(d, g)'
      BY <1>4, <2>2, ReadersJob DEF ServerStep
    <3>2. pc'[d] = pc[d] /\ toDownload'[d] = toDownload[d]
      BY <1>4, <2>2, ReadersJob DEF ServerStep
    <3>3. orphan[d] = <<>>
      BY <2>2 DEF DownloadsOK, DownloadAt
    <3>4. orphan'[d] = local[c][f] /\ writers'[d] = writers[d] \ {c}
      BY <1>2, <1>3, <2>2, <3>3
    <3>5. CASE pc[d] = "length"
      <4>1. JobOf(d) = OpenJob(d, g) /\ JobOf(d)' = OpenJob(d, g)'
        BY <3>1, <3>2, <3>5 DEF ReaderAs
      <4>2. F!Reading(d) /\ JobOf(d).writers = writers[d]
        BY <2>1, <4>1 DEF OpenJob
      <4>3. F!Holding(JobOf(d), local[c][f], writers[d] \ {c}) = OpenJob(d, g)'
        BY <3>4, <4>1 DEF OpenJob, F!Holding, F!Opened
      <4> QED BY <2>2, <4>1, <4>2, <4>3, Zenon
    <3>6. CASE pc[d] = "read"
      <4>1. JobOf(d) = SizeJob(d, g) /\ JobOf(d)' = SizeJob(d, g)'
        BY <3>1, <3>2, <3>6 DEF ReaderAs
      <4>2. F!Reading(d) /\ JobOf(d).writers = writers[d]
        BY <2>1, <4>1 DEF SizeJob
      <4>3. F!Holding(JobOf(d), local[c][f], writers[d] \ {c}) = SizeJob(d, g)'
        BY <3>2, <3>4, <4>1 DEF SizeJob, F!Holding, F!Sized
      <4> QED BY <2>2, <4>1, <4>2, <4>3, Zenon
    <3> QED BY <2>2, <3>5, <3>6 DEF AtRead
  <2>3. CASE c \notin writers[d]
    <3>1. linked'[d] = linked[d] /\ orphan'[d] = orphan[d] /\ writers'[d] = writers[d]
      BY <1>0, <1>3, <1>4, <2>3 DEF DataWrite, StreamClosed, TypeOK
    <3>2. JobOf(d)' = JobOf(d)
      BY <1>4, <3>1, OthersJobs DEF ServerStep
    <3>3. CASE AtRead(d)
      <4>1. \E g : JobOf(d) = ReaderAs(d, g)
        BY <1>4, <3>3, ReadersJob DEF ServerStep
      <4>2. JobOf(d).writers = writers[d]
        BY <4>1 DEF ReaderAs, OpenJob, SizeJob
      <4> QED BY <2>3, <3>2, <4>2
    <3>4. CASE ~AtRead(d)
      <4>1. JobOf(d).stage \notin {"opened", "sized"}
        BY <1>0, <3>4, NeverReading
      <4> QED BY <2>1, <3>2, <4>1
    <3> QED BY <3>3, <3>4
  <2> QED BY <1>0, <2>2, <2>3 DEF ReadAt, AtRead
<1>5. F!FillRemoved(c)
  <2> DEFINE jobs == [d \in Conns |-> JobOf(d)]
  <2>1. F!Waits(c, "WRQ", "removed") /\ jobs[c].file = f
    BY DEF F!Waits, Job
  <2>2. JobOf(c)' = [jobs[c] EXCEPT !.stage = "done"]
    BY DEF Job
  <2>3. [d \in Conns |-> JobOf(d)'] =
          [d \in Conns |->
             IF d = c THEN [jobs[c] EXCEPT !.stage = "done"]
             ELSE IF F!Reading(d) /\ c \in jobs[d].writers
             THEN F!Holding(jobs[d], local[c][jobs[c].file], jobs[d].writers \ {c})
             ELSE jobs[d]]
    BY <1>4, <2>1, <2>2
  <2> QED BY <1>1, <2>1, <2>3 DEF F!FillRemoved
<1> QED BY <1>5, Zenon DEF Moves, F!Next

\* The blocks of an upload: the last one creates the file, and fills it.
LEMMA UploadMoves ==
  ASSUME SystemInv, UploadsOK, DownloadsOK, NEW c \in Conns, SystemThread(c),
         Uploading(c), ~Disturbs(c) => OthersJobsKept(c)
  PROVE  Moves
<1>0. /\ TypeOK /\ PcOK /\ C!TypeOK /\ ReplyAt(c) /\ PcAt(c) /\ Admitted(c) /\ Agree(c)
  BY DEF SystemInv, Safety, IndInv, ClientTypeOK, Conversation, ReplyOK, PcOK
<1>1. /\ Thread(c) /\ cl' = cl /\ toServer' = toServer /\ local' = local
  BY DEF SystemThread
<1>2. PICK f \in FileNames :
        /\ Put(f) \in Commands[c]
        /\ Asks(c, Put(f))
        /\ myConnectionState[c]
        /\ toDownload[c] = NONE
        /\ \/ Saved(c)
           \/ /\ goingToBeReceived[c] = f
              /\ Awaiting(c) \/ NothingSent(c) \/ Sending(c) \/ Arrived(c) \/ Writing(c)
  BY Zenon DEF Uploading
<1>3. f # NONE
  BY NameAssumption
<1>4. /\ JobOf(c) = Job("WRQ", f, UploadStage(c))
      /\ JobOf(c)' = Job("WRQ", f, UploadStage(c)')
  <2>1. Put(f).op = "WRQ" /\ Put(f).file = f
    BY DEF Put
  <2>2. Asks(c, Put(f))'
    BY <1>1, <1>2 DEF Asks
  <2>3. JobOf(c) = Job("WRQ", f, UploadStage(c))
    BY <1>2, <2>1, Jobs DEF JobsFit
  <2>4. JobOf(c)' = Job("WRQ", f, UploadStage(c)')
    BY <1>2, <2>1, <2>2, JobsNext DEF JobsFit
  <2> QED BY <2>3, <2>4
<1>5. UploadAt(c, f)
  <2>1. Put(f).op = "WRQ" /\ C!Argument(Put(f)) = f
    BY DEF Put, C!Argument
  <2>2. cl[c].req["WRQ"] = f
    BY <1>2, <2>1, Asked
  <2> QED BY <2>2 DEF UploadsOK
<1>6. CASE Saved(c)
  <2>1. Settled(c) /\ Resting(c)
    BY <1>2, <1>6 DEF Saved, Settled, Resting
  <2>2. Resting(c)' /\ disk' = disk
    BY <1>0, <2>1, SettledStep
  <2>3. UploadStage(c) = "done" /\ UploadStage(c)' = "done"
    BY <1>1, <1>6, <2>1, <2>2 DEF UploadStage, Stored, Saved, Resting, C!Uploaded
  <2>4. OthersJobsKept(c)
    BY <2>1, ThreadDisturbs DEF Resting
  <2> QED BY <1>1, <1>4, <2>2, <2>3, <2>4, StuttersMove DEF Stutters, disk
<1>7. CASE goingToBeReceived[c] = f /\ (Awaiting(c) \/ NothingSent(c) \/ Sending(c))
  BY <1>1, <1>7, ThreadRuns DEF Awaiting, NothingSent, Sending
<1>8. CASE goingToBeReceived[c] = f /\ Arrived(c)
  <2>1. /\ pc[c] = "decode" /\ message[c].op = "DATA" /\ Sent(c, message[c])
        /\ toServer[c] = <<>>
    BY <1>1, <1>8, ThreadRuns DEF Arrived, Sent, FullBlock, ShortBlock
  <2>2. /\ message[c].data \in Seq(Bytes) /\ Len(message[c].data) \in Nat
        /\ Len(message[c].data) <= BlockSize
    BY <1>0, <2>1, RequestFields, BlockAssumption DEF PcAt, Sent, FullBlock, ShortBlock
  <2>3. UploadStage(c) = "asked"
    BY <2>1 DEF UploadStage, Stored
  <2>4. OthersJobsKept(c)
    BY <2>1, ThreadDisturbs
  <2>5. DataFull(c) \/ DataLast(c)
    <3>1. ~DataOversize(c)
      BY <2>2, BlockAssumption DEF DataOversize
    <3> QED BY <1>1, <1>2, <1>3, <1>8, <2>1, <3>1, TransferActs
  <2>6. CASE DataFull(c)
    <3>1. pc'[c] = "listen" /\ disk' = disk /\ ~cl[c].goingToFinish
      BY <1>0, <2>1, <2>2, <2>6, BlockAssumption
         DEF DataFull, Answer, Goto, TypeOK, Sent, ShortBlock
    <3>2. UploadStage(c)' = "asked"
      BY <1>1, <3>1 DEF UploadStage, Stored, C!Uploaded
    <3> QED BY <1>1, <1>4, <2>3, <2>4, <3>1, <3>2, StuttersMove DEF Stutters, disk
  <2>7. CASE DataLast(c)
    <3>1. /\ pc'[c] = "write" /\ linked'[c]
          /\ files' = [files EXCEPT ![f] = <<>>]
      BY <1>0, <1>8, <2>7 DEF DataLast, Goto, TypeOK
    <3>2. UploadStage(c)' = "open"
      BY <3>1, StagesNext DEF StagesFit
    <3>3. files[f] = NONE
      BY <1>5, <1>8 DEF UploadAt, Copied
    <3> QED BY <1>1, <1>4, <2>3, <2>4, <3>1, <3>2, <3>3, Amounts DEF Moves
  <2> QED BY <2>5, <2>6, <2>7
<1>9. CASE goingToBeReceived[c] = f /\ Writing(c)
  <2>1. /\ pc[c] = "write" /\ DataWrite(c) /\ C!Uploaded(c) /\ toServer[c] = <<>>
    BY <1>1, <1>2, <1>9, TransferActs DEF Writing
  <2>2. pc'[c] = "bcast"
    BY <1>0, <2>1 DEF DataWrite, Goto, TypeOK
  <2>3. UploadStage(c)' = "done"
    BY <1>1, <2>1, <2>2 DEF UploadStage, Stored, C!Uploaded
  <2>4. CASE ~linked[c]
    <3>1. files' = files /\ UploadStage(c) = "removed"
      BY <2>1, <2>4, Stages DEF DataWrite, StagesFit
    <3>2. wholeFile[c] = local[c][f] /\ accSize[c] = Len(wholeFile[c])
      BY <1>5, <1>9 DEF UploadAt
    <3> QED BY <1>4, <2>1, <2>3, <2>4, <3>1, <3>2, FillRemovedMoves
  <2>5. CASE linked[c]
    <3>1. /\ UploadStage(c) = "open" /\ files[f] = <<>>
          /\ wholeFile[c] = local[c][f] /\ accSize[c] = Len(wholeFile[c])
      BY <1>5, <1>9, <2>1, <2>5, Stages DEF StagesFit, UploadAt
    <3>2. Overlay(Pad(wholeFile[c], accSize[c]), <<>>) = local[c][f]
      BY <1>0, <3>1, OverlayAll DEF TypeOK
    <3>3. files' = [files EXCEPT ![f] = local[c][f]]
      BY <1>0, <1>9, <2>1, <2>5, <3>1, <3>2 DEF DataWrite, TypeOK
    <3>4. OthersJobsKept(c)
      BY <2>1, <2>5, ThreadDisturbs
    <3> QED BY <1>1, <1>4, <2>3, <3>1, <3>3, <3>4, Amounts DEF Moves
  <2> QED BY <2>4, <2>5
<1> QED BY <1>2, <1>6, <1>7, <1>8, <1>9

\* A command that has not taken effect, nor been refused.
JustAsked(c, cmd) ==
  /\ Asks(c, cmd)
  /\ cmd.op = "WRQ" => ~cl[c].goingToFinish /\ pc[c] # "write"
  /\ cmd.op = "RRQ" => /\ cl[c].wholeFile = <<>> /\ toDownload[c] = NONE
                       /\ DataAt(toClient[c]) = {} /\ ~AtRead(c)
  /\ cmd.op = "DELRQ" => ~HasAck(toClient[c])

AskedFit == \A c \in Conns : \A cmd \in Commands[c] : JustAsked(c, cmd) =>
  JobOf(c) = IF cmd.op \in {"RRQ", "WRQ", "DELRQ"}
             THEN Job(cmd.op, cmd.file, "asked") ELSE F!Idle

LEMMA AskedJobs == AskedFit
<1> SUFFICES ASSUME NEW c \in Conns, NEW cmd \in Commands[c], JustAsked(c, cmd)
             PROVE  JobOf(c) = IF cmd.op \in {"RRQ", "WRQ", "DELRQ"}
                               THEN Job(cmd.op, cmd.file, "asked") ELSE F!Idle
  BY DEF AskedFit
<1>1. /\ cmd.op = "WRQ" => JobOf(c) = Job("WRQ", cmd.file, UploadStage(c))
      /\ cmd.op = "RRQ" =>
           JobOf(c) = IF Fetched(c) THEN F!Fetched(cmd.file, Downloaded(c))
                      ELSE Job("RRQ", cmd.file, "asked")
      /\ cmd.op = "DELRQ" =>
           JobOf(c) = Job("DELRQ", cmd.file,
                          IF HasAck(toClient[c]) THEN "done" ELSE "asked")
      /\ cmd.op \notin {"WRQ", "RRQ", "DELRQ"} => JobOf(c) = F!Idle
  BY Jobs, Downloads DEF JobsFit, DownloadsFit, JustAsked
<1>2. cmd.op = "WRQ" => UploadStage(c) = "asked"
  BY DEF JustAsked, UploadStage, Stored, C!Uploaded
<1>3. cmd.op = "RRQ" => ~Fetched(c)
  BY DEF JustAsked, Fetched
<1>4. cmd.op = "DELRQ" => ~HasAck(toClient[c])
  BY DEF JustAsked
<1> QED BY <1>1, <1>2, <1>3, <1>4

LEMMA AskedJobsNext == AskedFit'
BY AskedJobs, PTL

LEMMA AtWorkAsked ==
  ASSUME C!TypeOK, NEW c \in Conns, NEW cmd, AtWork(c, cmd), ~AtRead(c)
  PROVE  JustAsked(c, cmd)
<1>1. DataAt(toClient[c]) = {} /\ ~HasAck(toClient[c])
  BY ClientTypes, QuietFlight DEF AtWork
<1> QED BY <1>1 DEF AtWork, Working, JustAsked, AtRead

LEMMA AskedStays ==
  ASSUME NEW c \in Conns, NEW cmd \in Commands[c], JustAsked(c, cmd),
         JustAsked(c, cmd)', files' = files, local' = local
  PROVE  Stutters(c)
<1>1. JobOf(c) = IF cmd.op \in {"RRQ", "WRQ", "DELRQ"}
                 THEN Job(cmd.op, cmd.file, "asked") ELSE F!Idle
  BY AskedJobs DEF AskedFit
<1>2. JobOf(c)' = IF cmd.op \in {"RRQ", "WRQ", "DELRQ"}
                  THEN Job(cmd.op, cmd.file, "asked") ELSE F!Idle
  BY AskedJobsNext DEF AskedFit
<1> QED BY <1>1, <1>2 DEF Stutters

\* A download opens the file.
LEMMA OpenMoves ==
  ASSUME SystemInv, NEW c \in Conns, SystemThread(c), NEW cmd \in Commands[c],
         AtWork(c, cmd), RrqOpen(c), OthersJobsKept(c)
  PROVE  Moves
<1>0. TypeOK /\ C!TypeOK /\ PcAt(c) /\ ReadAt(c)
  BY DEF SystemInv, Safety, IndInv, ClientTypeOK, PcOK
<1>1. /\ pc[c] = "rrq" /\ pc'[c] = "length" /\ message[c] = cmd /\ Asks(c, cmd)
      /\ cmd.op = "RRQ" /\ cmd.file \in FileNames /\ files[cmd.file] # NONE
      /\ cl' = cl /\ local' = local /\ disk' = disk
  BY <1>0 DEF RrqOpen, Goto, OnDisk, TypeOK, PcAt, AtWork, Working, SystemThread
<1>2. JobOf(c) = Job("RRQ", cmd.file, "asked")
  BY <1>0, <1>1, AtWorkAsked, AskedJobs DEF AskedFit, AtRead
<1>3. Asks(c, cmd)'
  BY <1>1 DEF Asks
<1>4. JobOf(c)' = OpenJob(c, cmd.file)'
  BY <1>1, <1>3, JobsNext, DownloadsNext DEF JobsFit, DownloadsFit
<1>5. orphan'[c] = NONE /\ writers'[c] = {}
  BY <1>0, <1>1 DEF ReadAt, disk
<1>6. JobOf(c)' = F!Opened(cmd.file, NONE, {})
  BY <1>4, <1>5 DEF OpenJob, F!Opened
<1> QED BY <1>1, <1>2, <1>6, Amounts DEF Moves, disk

\* It asks for the size of what has the name.
LEMMA SizeMoves ==
  ASSUME SystemInv, NEW c \in Conns, SystemThread(c), NEW cmd \in Commands[c],
         AtWork(c, cmd), RrqLength(c), OthersJobsKept(c)
  PROVE  Moves
<1>0. TypeOK /\ PcAt(c)
  BY DEF SystemInv, Safety, IndInv, PcOK
<1>1. /\ pc[c] = "length" /\ pc'[c] = "read" /\ message[c] = cmd /\ Asks(c, cmd)
      /\ cmd.op = "RRQ" /\ cmd.file \in FileNames
      /\ cl' = cl /\ local' = local /\ disk' = disk
  BY <1>0 DEF RrqLength, Goto, TypeOK, PcAt, AtWork, Working, SystemThread
<1> DEFINE n == IF files[cmd.file] = NONE THEN 0 ELSE Len(files[cmd.file])
<1>2. n \in Nat
  BY <1>0, <1>1 DEF TypeOK, MaybeData
<1>3. Len(toDownload'[c]) = n
  <2>1. toDownload'[c] = Pad(<<>>, n)
    BY <1>0, <1>1 DEF RrqLength, OnDisk, TypeOK
  <2>2. Len(Pad(<<>>, n)) = n
    <3>1. <<>> \in Seq(Bytes)
      BY EmptySeq
    <3> HIDE DEF n
    <3> QED BY <1>2, <3>1, PadLength
  <2> QED BY <2>1, <2>2
<1>4. Asks(c, cmd)'
  BY <1>1 DEF Asks
<1>5. JobOf(c) = OpenJob(c, cmd.file)
  BY <1>1, Jobs, Downloads DEF JobsFit, DownloadsFit
<1>6. JobOf(c)' = SizeJob(c, cmd.file)'
  BY <1>1, <1>4, JobsNext, DownloadsNext DEF JobsFit, DownloadsFit
<1> HIDE DEF n
<1>7. JobOf(c)' = F!Sized(cmd.file, orphan[c], writers[c], n)
  BY <1>1, <1>3, <1>6 DEF SizeJob, F!Sized, disk
<1>8. /\ JobOf(c).op = "RRQ" /\ JobOf(c).stage = "opened" /\ JobOf(c).file = cmd.file
      /\ JobOf(c).held = orphan[c] /\ JobOf(c).writers = writers[c]
  BY <1>5 DEF OpenJob
<1> QED BY <1>1, <1>7, <1>8, ReadAmounts DEF Moves, disk, n

\* The first blocks of a download carry what was read of the file.
LEMMA FetchMoves ==
  ASSUME SystemInv, DownloadsOK, NEW c \in Conns, SystemThread(c),
         NEW cmd \in Commands[c], AtWork(c, cmd), RrqRead(c), OthersJobsKept(c)
  PROVE  Moves
<1>0. /\ TypeOK /\ RouteOK /\ Serial /\ C!TypeOK /\ PcAt(c) /\ ReadAt(c)
  BY DEF SystemInv, Safety, IndInv, ClientTypeOK, Conversation, PcOK
<1> DEFINE opened == IF orphan[c] = NONE THEN files[cmd.file] ELSE orphan[c]
           n == Len(toDownload[c])
           buf == Pad(opened, n)
           pkts == BlocksOf(buf, blockNum[c])
<1>1. /\ pc[c] = "read" /\ cmd.op = "RRQ" /\ cmd.file \in FileNames
      /\ message[c] = cmd /\ opened # NONE /\ toDownload[c] # NONE
  BY <1>0 DEF RrqRead, PcAt, ReadAt, AtWork, Working
<1>2. /\ cl' = cl /\ local' = local /\ files' = files /\ pc'[c] = "listen"
      /\ toDownload'[c] = BufferAfter(buf)
      /\ Send(c, myId[c], pkts)
  BY <1>0, <1>1 DEF SystemThread, RrqRead, HandleReadingACK, TypeOK, Goto
<1>10. opened \in Seq(Bytes) /\ n \in Nat
  BY <1>0, <1>1 DEF TypeOK, MaybeData
<1>3. buf \in Seq(Bytes) /\ blockNum[c] \in BlockNum /\ toClient[c] \in Seq(Packet)
  BY <1>0, <1>10, PadType, ClientTypes DEF TypeOK
<1>4. Quiet(toClient[c]) /\ cl[c].wholeFile = <<>> /\ Asks(c, cmd)
  BY <1>1 DEF AtWork
<1> HIDE DEF buf
<1>5. toClient'[c] = toClient[c] \o pkts
  <2>1. pkts \in Seq(Packet)
    BY <1>3, BlocksType
  <2> QED BY <1>0, <1>1, <1>2, <2>1, SendReaches
<1>6. /\ InFlight(toClient'[c]) \o Kept(buf) = buf /\ Kept(buf) \in Seq(Bytes)
      /\ InFlight(toClient'[c]) \in Seq(Bytes)
      /\ DataAt(toClient'[c]) # {}
  <2>1. /\ InFlight(toClient[c] \o pkts) \o Kept(buf) = buf /\ Kept(buf) \in Seq(Bytes)
        /\ InFlight(toClient[c] \o pkts) \in Seq(Bytes)
        /\ DataAt(toClient[c] \o pkts) # {}
    BY <1>3, <1>4, FlightSent, Zenon
  <2> QED BY <1>5, <2>1
<1>7. Downloaded(c)' = buf /\ Fetched(c)'
  <2>1. Rest(c)' = Kept(buf)
    BY <1>2 DEF Rest, Kept
  <2>2. Downloaded(c)' = (<<>> \o InFlight(toClient'[c])) \o Kept(buf)
    BY <1>2, <1>4, <2>1 DEF Downloaded
  <2>3. <<>> \o InFlight(toClient'[c]) = InFlight(toClient'[c])
    BY <1>6, ConcatEmptySeq
  <2> QED BY <1>6, <2>2, <2>3 DEF Fetched
<1>8. JobOf(c)' = F!Fetched(cmd.file, buf)
  <2>1. Asks(c, cmd)'
    BY <1>2, <1>4 DEF Asks
  <2>2. ~AtRead(c)'
    BY <1>2 DEF AtRead
  <2> QED BY <1>1, <1>7, <2>1, <2>2, JobsNext, DownloadsNext DEF JobsFit, DownloadsFit
<1>9. /\ JobOf(c).op = "RRQ" /\ JobOf(c).stage = "sized" /\ JobOf(c).file = cmd.file
      /\ JobOf(c).held = orphan[c] /\ JobOf(c).size = n
  <2>1. JobOf(c) = SizeJob(c, cmd.file)
    BY <1>1, <1>4, Jobs, Downloads DEF JobsFit, DownloadsFit
  <2> QED BY <2>1 DEF SizeJob
<1>11. CASE orphan[c] = NONE
  <2>1. n \in {0, Len(files[cmd.file])} /\ files[cmd.file] # NONE
        /\ files[cmd.file] \in Seq(Bytes)
    BY <1>1, <1>10, <1>11 DEF DownloadsOK, DownloadAt
  <2>2. buf = IF n = 0 THEN <<>> ELSE files[cmd.file]
    BY <1>11, <2>1, PadLength, PadAll DEF buf
  <2> HIDE DEF n
  <2> QED BY <1>2, <1>8, <1>9, <1>11, <2>1, <2>2, ReadAmounts DEF Moves
<1>12. CASE orphan[c] # NONE
  <2>1. buf = F!Cut(orphan[c], n)
    BY <1>12 DEF buf, Pad, F!Cut
  <2> HIDE DEF n
  <2> QED BY <1>2, <1>8, <1>9, <1>12, <2>1, ReadAmounts DEF Moves
<1> QED BY <1>11, <1>12

\* A command at work takes effect, is refused, or goes on.
LEMMA WorkMoves ==
  ASSUME SystemInv, DownloadsOK, NEW c \in Conns, SystemThread(c),
         NEW cmd \in Commands[c], AtWork(c, cmd), ~DelrqDelete(c), OthersJobsKept(c)
  PROVE  Moves
<1>0. /\ TypeOK /\ PcOK /\ RouteOK /\ Serial /\ C!TypeOK /\ PcAt(c)
      /\ Thread(c)
  BY DEF SystemInv, Safety, IndInv, ClientTypeOK, Conversation, PcOK, SystemThread
<1>1. /\ message[c] = cmd /\ cmd.op \in C!Ops
      /\ ~cl[c].goingToFinish /\ Quiet(toClient[c]) /\ toClient[c] \in Seq(Packet)
      /\ Asks(c, cmd)
      /\ pc[c] \in {"decode", "put", "ack", "rrq", "length", "read", "del", "disc",
                    "dead", "logrq"}
      /\ cmd.op # "RRQ" => ~AtRead(c)
      /\ ~AtRead(c) => JustAsked(c, cmd) /\ toDownload[c] = NONE
  BY <1>0, AtWorkAsked, ClientTypes, CommandFields DEF AtWork, Working, AtRead, PcAt
<1>2. cl' = cl /\ local' = local /\ files' = files /\ Asks(c, cmd)'
  <2>1. ~DataLast(c) /\ ~DataWrite(c)
    BY <1>1 DEF DataLast, DataWrite, Receiving, Processing, C!Ops
  <2>2. files' = files
    BY <1>0, <2>1, DiskKept DEF ServerStep, disk, RrqRead
  <2> QED BY <1>1, <2>2 DEF SystemThread, Asks
<1>3. ASSUME ~AtRead(c), JustAsked(c, cmd)' PROVE Moves
  BY <1>1, <1>2, <1>3, AskedStays, StuttersMove
<1>4. CASE cmd.op \notin {"WRQ", "RRQ", "DELRQ"}
  BY <1>1, <1>2, <1>3, <1>4 DEF JustAsked
<1>5. CASE cmd.op = "WRQ"
  <2>1. WrqAccepted(c) \/ WrqRefused(c) \/ NotLoggedIn(c)
    BY <1>5, WorkByOp
  <2>2. pc'[c] = "listen"
    BY <1>0, <2>1 DEF WrqAccepted, WrqRefused, NotLoggedIn, Answer, Goto, TypeOK
  <2> QED BY <1>1, <1>2, <1>3, <1>5, <2>2 DEF JustAsked
<1>6. ASSUME \/ out' = out
             \/ pc[c] = "decode" /\ \E code \in 0 .. 7 : Reply(c, ErrorPacket(code))
      PROVE  DataAt(toClient'[c]) = {} /\ ~HasAck(toClient'[c])
  <2>1. CASE out' = out
    BY <1>0, <1>1, <2>1, SilentReaches, QuietFlight
  <2>2. ASSUME pc[c] = "decode", NEW code \in 0 .. 7, Reply(c, ErrorPacket(code))
        PROVE  DataAt(toClient'[c]) = {} /\ ~HasAck(toClient'[c])
    <3>1. ErrorPacket(code) \in Packet /\ ErrorPacket(code).op = "ERROR"
      BY PacketTypes DEF ErrorPacket
    <3>2. toClient'[c] = Append(toClient[c], ErrorPacket(code))
      BY <1>0, <2>2, <3>1, ReplyReaches
    <3>3. Append(toClient[c], ErrorPacket(code)) \in Seq(Packet)
      BY <1>1, <3>1
    <3> QED BY <1>1, <3>1, <3>2, <3>3, HearAnswer, OneFlight DEF IsBroadcast
  <2> QED BY <1>6, <2>1, <2>2
<1>7. CASE cmd.op = "RRQ"
  <2>1. CASE RrqOpen(c) \/ RrqLength(c) \/ RrqRead(c)
    BY <2>1, OpenMoves, SizeMoves, FetchMoves
  <2>2. CASE RrqRefused(c) \/ NotLoggedIn(c) \/ RrqFound(c) \/ RrqGone(c)
    <3>1. /\ toDownload' = toDownload
          /\ \/ out' = out
             \/ pc[c] = "decode" /\ \E code \in 0 .. 7 : Reply(c, ErrorPacket(code))
      BY <2>2 DEF RrqRefused, NotLoggedIn, RrqFound, RrqGone, Answer, Die, download,
                  Processing
    <3>2. ~AtRead(c) /\ ~AtRead(c)'
      BY <1>0, <2>2 DEF RrqRefused, NotLoggedIn, RrqFound, RrqGone, Answer, Die,
                        Processing, Goto, TypeOK, AtRead
    <3> QED BY <1>1, <1>2, <1>3, <1>6, <1>7, <3>1, <3>2 DEF JustAsked
  <2> QED BY <1>7, <2>1, <2>2, WorkByOp
<1>8. CASE cmd.op = "DELRQ"
  <2>1. DelrqRefused(c) \/ NotLoggedIn(c) \/ DelrqFound(c)
    BY <1>8, WorkByOp
  <2>2. \/ out' = out
        \/ pc[c] = "decode" /\ \E code \in 0 .. 7 : Reply(c, ErrorPacket(code))
    BY <2>1 DEF DelrqRefused, NotLoggedIn, DelrqFound, Answer, Processing
  <2> QED BY <1>1, <1>2, <1>3, <1>6, <1>8, <2>2 DEF JustAsked
<1> QED BY <1>4, <1>5, <1>7, <1>8

LEMMA NeverOpen ==
  ASSUME NEW c \in Conns, Agree(c), pc[c] # "write"
  PROVE  JobOf(c).stage # "open"
<1>1. UploadStage(c) # "open"
  BY DEF UploadStage
<1>2. CASE \A op \in C!Ops : cl[c].req[op] = NONE
  <2>1. JobOf(c) = F!Idle
    BY <1>2, Jobs DEF JobsFit
  <2> QED BY <2>1 DEF F!Idle
<1>3. ASSUME NEW cmd \in Commands[c], Asks(c, cmd) PROVE JobOf(c).stage # "open"
  <2>1. \/ JobOf(c) = Job("WRQ", cmd.file, UploadStage(c))
        \/ JobOf(c) = F!Fetched(cmd.file, Downloaded(c))
        \/ JobOf(c) = OpenJob(c, cmd.file) \/ JobOf(c) = SizeJob(c, cmd.file)
        \/ JobOf(c) = Job("RRQ", cmd.file, "asked")
        \/ JobOf(c) = Job("DELRQ", cmd.file, "asked")
        \/ JobOf(c) = Job("DELRQ", cmd.file, "done")
        \/ JobOf(c) = F!Idle
    BY <1>3, Jobs, Downloads DEF JobsFit, DownloadsFit, AtRead
  <2> QED BY <1>1, <2>1 DEF Job, F!Fetched, F!Idle, OpenJob, SizeJob
<1> QED BY <1>2, <1>3 DEF Agree, Free, Requested, Replied, Downloading, Uploading

\* A deletion: an upload that was about to fill the file has nothing to fill.
LEMMA DeleteMoves ==
  ASSUME SystemInv, NEW c \in Conns, SystemThread(c), NEW cmd \in Commands[c],
         AtWork(c, cmd), DelrqDelete(c)
  PROVE  Moves
<1>0. /\ TypeOK /\ RouteOK /\ Serial /\ C!TypeOK /\ PcAt(c)
      /\ \A d \in Conns : Agree(d) /\ PcAt(d)
  BY DEF SystemInv, Safety, IndInv, ClientTypeOK, Conversation, PcOK
<1> DEFINE f == cmd.file
<1>1. /\ pc[c] = "del" /\ cmd.op = "DELRQ" /\ f \in FileNames
      /\ message[c] = cmd /\ Asks(c, cmd) /\ Quiet(toClient[c])
      /\ cl' = cl /\ local' = local
  BY <1>0 DEF DelrqDelete, PcAt, AtWork, Working, SystemThread
<1>2. /\ files' = [files EXCEPT ![f] = NONE]
      /\ \A d \in Conns : linked'[d] <=> linked[d] /\ goingToBeReceived[d] # f
  BY <1>1 DEF DelrqDelete
<1>3. JobOf(c) = Job("DELRQ", f, "asked")
  BY <1>0, <1>1, AtWorkAsked, AskedJobs DEF AskedFit, AtRead
<1>4. JobOf(c)' = Job("DELRQ", f, "done")
  <2>1. AckPacket(0) \in Packet /\ AckPacket(0).op = "ACK"
    BY PacketTypes, BlockNumbers DEF AckPacket
  <2>2. toClient'[c] = Append(toClient[c], AckPacket(0))
    BY <1>0, <1>1, <2>1, ReplyReaches DEF DelrqDelete
  <2>3. HasAck(toClient'[c])
    <3>1. AckPacket(0) \in Packets(toClient'[c])
      BY <1>0, <1>1, <2>1, <2>2, ClientTypes, HearAnswer
    <3> QED BY <2>1, <3>1 DEF HasAck
  <2>4. Asks(c, cmd)'
    BY <1>1 DEF Asks
  <2> QED BY <1>1, <2>3, <2>4, JobsNext DEF JobsFit
<1> DEFINE open == {d \in Conns : linked[d] /\ goingToBeReceived[d] = f}
<1>5. ASSUME NEW d \in Conns
      PROVE  F!Waits(d, "WRQ", "open") /\ JobOf(d).file = f <=> d \in open
  <2>1. F!Waits(d, "WRQ", "open") <=> JobOf(d).op = "WRQ" /\ JobOf(d).stage = "open"
    BY DEF F!Waits
  <2>2. CASE pc[d] = "write"
    <3>1. PICK g \in FileNames : /\ Put(g) \in Commands[d] /\ Asks(d, Put(g))
                                 /\ goingToBeReceived[d] = g
      BY <1>0, <2>2, WriteIsUpload
    <3>2. Put(g).op = "WRQ" /\ Put(g).file = g
      BY DEF Put
    <3>3. JobOf(d) = Job("WRQ", g, IF linked[d] THEN "open" ELSE "removed")
      BY <2>2, <3>1, <3>2, Jobs, Stages DEF JobsFit, StagesFit
    <3> QED BY <2>1, <3>1, <3>3 DEF Job
  <2>3. CASE pc[d] # "write"
    <3>1. JobOf(d).stage # "open"
      BY <1>0, <2>3, NeverOpen
    <3>2. ~linked[d]
      BY <1>0, <2>3 DEF PcAt
    <3> QED BY <2>1, <3>1, <3>2
  <2> QED BY <2>2, <2>3
<1>6. ASSUME NEW d \in Conns, d # c
      PROVE  JobOf(d)' = IF F!Waits(d, "WRQ", "open") /\ JobOf(d).file = f
                         THEN [JobOf(d) EXCEPT !.stage = "removed"]
                         ELSE IF /\ F!Reading(d) /\ JobOf(d).held = NONE
                                 /\ JobOf(d).file = f
                         THEN F!Holding(JobOf(d), files[f], open)
                         ELSE JobOf(d)
  <2>1. F!Waits(d, "WRQ", "open") <=> JobOf(d).op = "WRQ" /\ JobOf(d).stage = "open"
    BY DEF F!Waits
  <2>2. F!Reading(d) <=> JobOf(d).op = "RRQ" /\ JobOf(d).stage \in {"opened", "sized"}
    BY DEF F!Reading
  <2> HIDE DEF open
  <2>3. CASE pc[d] = "write"
    <3>1. PICK g \in FileNames : /\ Put(g) \in Commands[d] /\ Asks(d, Put(g))
                                 /\ goingToBeReceived[d] = g
      BY <1>0, <2>3, WriteIsUpload
    <3>2. Put(g).op = "WRQ" /\ Put(g).file = g
      BY DEF Put
    <3>3. Unmoved(d)
      BY <1>6, OthersUnmoved DEF ServerStep
    <3>4. pc'[d] = "write" /\ cl'[d] = cl[d]
      BY <2>3, <3>3 DEF Unmoved
    <3>5. JobOf(d) = Job("WRQ", g, IF linked[d] THEN "open" ELSE "removed")
      BY <2>3, <3>1, <3>2, Jobs, Stages DEF JobsFit, StagesFit
    <3>6. JobOf(d)' = Job("WRQ", g, IF linked'[d] THEN "open" ELSE "removed")
      <4>1. Asks(d, Put(g))'
        BY <3>1, <3>4 DEF Asks
      <4>2. UploadStage(d)' = IF linked'[d] THEN "open" ELSE "removed"
        BY <3>4, StagesNext DEF StagesFit
      <4>3. JobOf(d)' = Job("WRQ", g, UploadStage(d)')
        BY <3>1, <3>2, <4>1, JobsNext DEF JobsFit
      <4> QED BY <4>2, <4>3
    <3>10. ~F!Reading(d)
      BY <2>2, <3>5 DEF Job
    <3>7. CASE linked[d] /\ g = f
      <4>1. JobOf(d) = Job("WRQ", f, "open") /\ JobOf(d)' = Job("WRQ", f, "removed")
        BY <1>2, <3>1, <3>5, <3>6, <3>7
      <4> QED BY <2>1, <4>1 DEF Job
    <3>8. CASE linked[d] /\ g # f
      <4>1. JobOf(d) = Job("WRQ", g, "open") /\ JobOf(d)' = Job("WRQ", g, "open")
        BY <1>2, <3>1, <3>5, <3>6, <3>8
      <4>2. JobOf(d).file # f
        BY <3>8, <4>1 DEF Job
      <4> QED BY <3>10, <4>1, <4>2
    <3>9. CASE ~linked[d]
      <4>1. JobOf(d) = Job("WRQ", g, "removed") /\ JobOf(d)' = Job("WRQ", g, "removed")
        BY <1>2, <3>1, <3>5, <3>6, <3>9
      <4>2. JobOf(d).stage # "open"
        BY <4>1 DEF Job
      <4> QED BY <2>1, <3>10, <4>1, <4>2
    <3> QED BY <3>7, <3>8, <3>9
  <2>4. CASE AtRead(d)
    <3>1. PICK g : /\ g = message[d].file
                   /\ JobOf(d) = ReaderAs(d, g) /\ JobOf(d)' = ReaderAs(d, g)'
      BY <1>6, <2>4, ReadersJob DEF ServerStep
    <3>2. pc'[d] = pc[d] /\ toDownload'[d] = toDownload[d]
      BY <1>6, <2>4, ReadersJob DEF ServerStep
    <3>3. JobOf(d).stage # "open"
      BY <1>0, <2>4, NeverOpen DEF AtRead
    <3>4. /\ F!Reading(d) /\ JobOf(d).held = orphan[d] /\ JobOf(d).file = g
          /\ JobOf(d).stage = IF pc[d] = "length" THEN "opened" ELSE "sized"
      BY <2>2, <3>1 DEF ReaderAs, OpenJob, SizeJob
    <3>5. CASE orphan[d] = NONE /\ g = f
      <4>1. orphan'[d] = files[f] /\ writers'[d] = open
        BY <1>1, <2>4, <3>1, <3>5 DEF DelrqDelete, Reads, AtRead, open
      <4>2. JobOf(d)' = F!Holding(JobOf(d), files[f], open)
        <5>1. CASE pc[d] = "length"
          <6>1. JobOf(d) = OpenJob(d, g) /\ JobOf(d)' = OpenJob(d, g)'
            BY <3>1, <3>2, <5>1 DEF ReaderAs
          <6> QED BY <4>1, <6>1, <3>5 DEF OpenJob, F!Holding, F!Opened
        <5>2. CASE pc[d] = "read"
          <6>1. JobOf(d) = SizeJob(d, g) /\ JobOf(d)' = SizeJob(d, g)'
            BY <3>1, <3>2, <5>2 DEF ReaderAs
          <6> QED BY <3>2, <4>1, <6>1, <3>5 DEF SizeJob, F!Holding, F!Sized
        <5> QED BY <2>4, <5>1, <5>2 DEF AtRead
      <4> QED BY <2>1, <3>3, <3>4, <3>5, <4>2, Zenon
    <3>6. CASE ~(orphan[d] = NONE /\ g = f)
      <4>1. orphan'[d] = orphan[d] /\ writers'[d] = writers[d]
        BY <1>1, <3>1, <3>6 DEF DelrqDelete, Reads
      <4>2. JobOf(d)' = JobOf(d)
        BY <3>1, <3>2, <4>1 DEF ReaderAs, OpenJob, SizeJob
      <4> QED BY <2>1, <3>3, <3>4, <3>6, <4>2, Zenon
    <3> QED BY <3>5, <3>6
  <2>5. CASE pc[d] # "write" /\ ~AtRead(d)
    <3>1. JobOf(d)' = JobOf(d)
      BY <1>6, <2>5, OthersJobs DEF ServerStep
    <3>2. JobOf(d).stage \notin {"open", "opened", "sized"}
      BY <1>0, <2>5, NeverOpen, NeverReading
    <3> QED BY <2>1, <2>2, <3>1, <3>2
  <2> QED BY <2>3, <2>4, <2>5
<1>7. F!Delete(c)
  <2> DEFINE jobs == [d \in Conns |-> JobOf(d)]
             opens == {d \in Conns : /\ F!Waits(d, "WRQ", "open")
                                     /\ jobs[d].file = jobs[c].file}
             reading == {d \in Conns : /\ F!Reading(d) /\ jobs[d].held = NONE
                                       /\ jobs[d].file = jobs[c].file}
  <2>1. jobs[c] = Job("DELRQ", f, "asked")
    BY <1>3
  <2>2. F!Waits(c, "DELRQ", "asked") /\ jobs[c].file = f
    BY <1>3 DEF F!Waits, Job
  <2>3. JobOf(c)' = [jobs[c] EXCEPT !.stage = "done"]
    BY <1>4, <2>1 DEF Job
  <2>4. opens = open
    BY <1>5, <2>2
  <2> HIDE DEF open
  <2>5. ASSUME NEW d \in Conns
        PROVE  JobOf(d)' = IF d = c THEN [jobs[c] EXCEPT !.stage = "done"]
                           ELSE IF d \in opens THEN [jobs[d] EXCEPT !.stage = "removed"]
                           ELSE IF d \in reading
                           THEN F!Holding(jobs[d], files[jobs[c].file], opens)
                           ELSE jobs[d]
    BY <1>6, <2>2, <2>3, <2>4
  <2>6. [d \in Conns |-> JobOf(d)'] =
          [d \in Conns |->
             IF d = c THEN [jobs[c] EXCEPT !.stage = "done"]
             ELSE IF d \in opens THEN [jobs[d] EXCEPT !.stage = "removed"]
             ELSE IF d \in reading THEN F!Holding(jobs[d], files[jobs[c].file], opens)
             ELSE jobs[d]]
    BY <2>5
  <2> QED BY <1>1, <1>2, <2>2, <2>6 DEF F!Delete
<1> QED BY <1>7, Zenon DEF Moves, F!Next

\* A user's next command.
LEMMA TypeMoves ==
  ASSUME SystemInv, SystemInv', NEW c \in Conns, Type(c), OthersJobsKept(c)
  PROVE  Moves
<1>0. /\ C!TypeOK /\ Agree(c) /\ Admitted(c) /\ C!TypeOK'
  BY DEF SystemInv, ClientTypeOK, Conversation
<1>1. Free(c) /\ Requested(c)' /\ vars' = vars /\ local' = local
  BY <1>0, CommandStep DEF Type, C!Command
<1>2. JobOf(c) = F!Idle
  BY <1>1, Jobs DEF Free, JobsFit
<1>3. PICK cmd \in Commands[c] :
        /\ Asks(c, cmd)'
        /\ cmd.op = "RRQ" => cl'[c].wholeFile = <<>>
        /\ ~cl'[c].goingToFinish /\ Quiet(toClient'[c])
  BY <1>1 DEF Requested
<1>4. Settled(c)'
  BY <1>1 DEF Free, Settled, vars, download, input, loop
<1>5. toClient'[c] \in Seq(Packet)
  BY <1>0, SamePackets DEF C!TypeOK
<1>6. JustAsked(c, cmd)'
  BY <1>3, <1>4, <1>5, QuietFlight DEF JustAsked, Settled, AtRead
<1>7. JobOf(c)' = IF cmd.op \in {"RRQ", "WRQ", "DELRQ"}
                  THEN Job(cmd.op, cmd.file, "asked") ELSE F!Idle
  BY <1>6, AskedJobsNext DEF AskedFit
<1>8. files' = files
  BY <1>1 DEF vars, disk
<1>9. CASE cmd.op \in {"RRQ", "WRQ", "DELRQ"}
  BY <1>1, <1>2, <1>7, <1>8, <1>9, CommandFields, Amounts DEF Moves
<1>10. CASE cmd.op \notin {"RRQ", "WRQ", "DELRQ"}
  BY <1>1, <1>2, <1>7, <1>8, <1>10, StuttersMove DEF Stutters
<1> QED BY <1>9, <1>10

-----------------------------------------------------------------------------
(* The steps of a client's socket thread.                                  *)

\* What a download has on its way, block by block.
LEMMA BlockShape ==
  ASSUME C!TypeOK, NEW c \in Conns, Process(c), ~IsBroadcast(Head(toClient[c])),
         Downloading(c)
  PROVE  LET s == toClient[c]
             h == Head(toClient[c])
             t == Tail(toClient[c])
         IN /\ h.op = "DATA" /\ h.data \in Seq(Bytes) /\ Len(h.data) <= BlockSize
            /\ DataAt(s) # {}
            /\ InFlight(t) \in Seq(Bytes) /\ InFlight(s) = h.data \o InFlight(t)
            /\ Len(h.data) = BlockSize => DataAt(t) # {} \/ toDownload[c] # NONE
            /\ Len(h.data) < BlockSize => InFlight(t) = <<>> /\ toDownload[c] = NONE
<1> DEFINE s == toClient[c]
           h == Head(toClient[c])
           t == Tail(toClient[c])
           shape == /\ h.op = "DATA" /\ h.data \in Seq(Bytes) /\ Len(h.data) <= BlockSize
                    /\ DataAt(s) # {}
                    /\ InFlight(t) \in Seq(Bytes) /\ InFlight(s) = h.data \o InFlight(t)
                    /\ Len(h.data) = BlockSize => DataAt(t) # {} \/ toDownload[c] # NONE
                    /\ Len(h.data) < BlockSize => InFlight(t) = <<>> /\ toDownload[c] = NONE
<1> SUFFICES shape
  OBVIOUS
<1>1. s \in Seq(Packet) /\ h \in Packet /\ t \in Seq(Packet) /\ BlockSize \in Nat
  BY HeadRead, ClientTypes, ReadOne, BlockAssumption
<1>2. \/ /\ Settled(c) /\ FullBlock(h)
         /\ \E q \in Packet : ShortBlock(q) /\ Only(t, q) /\ Both(s, h, q)
      \/ Settled(c) /\ ShortBlock(h) /\ Quiet(t) /\ Only(s, h)
      \/ MoreBlocks(c) /\ FullBlock(h) /\ Quiet(t) /\ Only(s, h)
  BY BlockHead
<1>3. <<>> \in Seq(Bytes)
  BY EmptySeq
<1> HIDE DEF s, h, t
<1>4. /\ h.op = "DATA" /\ h.data \in Seq(Bytes) /\ Len(h.data) <= BlockSize
      /\ h.data \o <<>> = h.data
  BY <1>1, <1>2, PacketFields, ConcatEmptySeq DEF FullBlock, ShortBlock
<1>5. ASSUME Quiet(t), Only(s, h)
      PROVE  /\ DataAt(s) # {} /\ InFlight(t) = <<>> /\ InFlight(t) \in Seq(Bytes)
             /\ InFlight(s) = h.data \o InFlight(t)
  <2>1. DataAt(s) # {} /\ InFlight(t) = <<>> /\ InFlight(s) = h.data
    BY <1>1, <1>4, <1>5, OneFlight, QuietFlight DEF IsBroadcast
  <2> QED BY <1>3, <1>4, <2>1
<1>6. CASE /\ Settled(c) /\ FullBlock(h)
           /\ \E q \in Packet : ShortBlock(q) /\ Only(t, q) /\ Both(s, h, q)
  <2>1. PICK q \in Packet : ShortBlock(q) /\ Only(t, q) /\ Both(s, h, q)
    BY <1>6
  <2>2. q.op = "DATA" /\ q.data \in Seq(Bytes)
    BY <2>1, PacketFields DEF ShortBlock
  <2>3. DataAt(t) # {} /\ InFlight(t) = q.data
    BY <1>1, <2>1, <2>2, OneFlight DEF IsBroadcast
  <2>4. DataAt(s) # {} /\ InFlight(s) = h.data \o q.data
    BY <1>1, <1>4, <2>1, <2>2, TwoFlight
  <2>5. ~(Len(h.data) < BlockSize)
    BY <1>1, <1>6 DEF FullBlock
  <2> QED BY <1>4, <2>2, <2>3, <2>4, <2>5
<1>7. CASE Settled(c) /\ ShortBlock(h) /\ Quiet(t) /\ Only(s, h)
  <2>1. toDownload[c] = NONE /\ Len(h.data) # BlockSize
    BY <1>1, <1>4, <1>7 DEF ShortBlock, Settled
  <2> QED BY <1>4, <1>5, <1>7, <2>1
<1>8. CASE MoreBlocks(c) /\ FullBlock(h) /\ Quiet(t) /\ Only(s, h)
  <2>1. toDownload[c] # NONE /\ ~(Len(h.data) < BlockSize)
    BY <1>1, <1>8 DEF FullBlock, MoreBlocks
  <2> QED BY <1>4, <1>5, <1>8, <2>1
<1> QED BY <1>2, <1>6, <1>7, <1>8

\* A block is taken over, and the last one stores the download.
LEMMA BlockMoves ==
  ASSUME SystemInv, NEW c \in Conns, Process(c), ~IsBroadcast(Head(toClient[c])),
         Downloading(c), OthersJobsKept(c)
  PROVE  Moves
<1> DEFINE h == Head(toClient[c])
           t == Tail(toClient[c])
           w == cl[c].wholeFile
           r == Rest(c)
           pkts == <<AckPacket(h.block)>>
<1>0. C!TypeOK /\ TypeOK
  BY DEF SystemInv, Safety, ClientTypeOK
<1>1. PICK cmd \in Commands[c] :
        cmd.op = "RRQ" /\ cmd.file \in FileNames /\ Asks(c, cmd)
  BY DEF Downloading
<1>2. /\ h.op = "DATA" /\ h.data \in Seq(Bytes) /\ Len(h.data) <= BlockSize
      /\ DataAt(toClient[c]) # {}
      /\ InFlight(t) \in Seq(Bytes) /\ InFlight(toClient[c]) = h.data \o InFlight(t)
      /\ Len(h.data) = BlockSize => DataAt(t) # {} \/ toDownload[c] # NONE
      /\ Len(h.data) < BlockSize => InFlight(t) = <<>> /\ toDownload[c] = NONE
  BY <1>0, BlockShape
<1>3. w \in Seq(Bytes) /\ cl[c] \in C!ClientProtocol
  BY <1>0, Fields, ClientTypes
<1>4. r \in Seq(Bytes)
  <2>1. <<>> \in Seq(Bytes)
    BY EmptySeq
  <2>2. toDownload[c] \in Seq(Bytes) \cup {NONE}
    BY <1>0 DEF TypeOK, MaybeData
  <2> QED BY <2>1, <2>2 DEF Rest
<1>5. vars' = vars /\ h \in Packet
  BY <1>0, HeadRead
<1>6. pkts \in Seq(Request) /\ C!AckPacket(C!Block(c)) = AckPacket(h.block)
  <2>1. h.block \in BlockNum
    BY <1>2, <1>5, PacketFields
  <2> QED BY <2>1, SentTypes, SamePackets DEF C!Block
<1>7. JobOf(c) = F!Fetched(cmd.file, Downloaded(c))
  <2>1. Fetched(c)
    BY <1>2 DEF Fetched
  <2>2. ~AtRead(c)
    BY DEF Downloading, LastBlocks, MoreBlocks, Settled, AtRead
  <2> QED BY <1>1, <2>1, <2>2, Jobs, Downloads DEF JobsFit, DownloadsFit
<1>8. files' = files
  BY <1>5 DEF vars, disk
<1>9. C!DownloadNext(c) \/ C!DownloadComplete(c)
  BY <1>1, <1>2, ReadActs
<1>10. CASE C!DownloadNext(c)
  <2> DEFINE k == [cl[c] EXCEPT !.wholeFile = C!DataIn(c)]
  <2>1. C!Processed(c, k, pkts) /\ Len(h.data) = BlockSize /\ local' = local
    BY <1>6, <1>10 DEF C!DownloadNext
  <2>2. /\ k.req = cl[c].req /\ k.lastOperation = cl[c].lastOperation
        /\ k.wholeFile = w \o h.data
    BY <1>3 DEF C!ClientProtocol, C!DataIn
  <2> HIDE DEF k, pkts, h, t
  <2>3. cl'[c] = k /\ toClient'[c] = t
    BY <1>0, <1>6, <2>1, ProcessedTakes DEF t
  <2>4. Asks(c, cmd)'
    BY <1>1, <2>2, <2>3 DEF Asks
  <2>5. toDownload' = toDownload
    BY <1>5 DEF vars, download
  <2>6. Fetched(c)'
    BY <1>2, <2>1, <2>3, <2>5 DEF Fetched
  <2>7. Downloaded(c)' = Downloaded(c)
    <3>1. Downloaded(c)' = ((w \o h.data) \o InFlight(t)) \o r
      BY <2>2, <2>3, <2>5 DEF Downloaded, Rest
    <3>2. (w \o h.data) \o InFlight(t) = w \o (h.data \o InFlight(t))
      BY <1>2, <1>3, ThreeParts
    <3>3. Downloaded(c) = (w \o (h.data \o InFlight(t))) \o r
      BY <1>2 DEF Downloaded
    <3> QED BY <3>1, <3>2, <3>3
  <2>8. JobOf(c)' = F!Fetched(cmd.file, Downloaded(c)')
    <3>1. ~AtRead(c)'
      BY <1>5 DEF Downloading, LastBlocks, MoreBlocks, Settled, AtRead, vars
    <3> QED BY <1>1, <2>4, <2>6, <3>1, JobsNext, DownloadsNext DEF JobsFit, DownloadsFit
  <2> QED BY <1>7, <1>8, <2>1, <2>7, <2>8, StuttersMove DEF Stutters
<1>11. CASE C!DownloadComplete(c)
  <2> DEFINE k == [cl[c] EXCEPT !.req["RRQ"] = NONE, !.wholeFile = <<>>]
  <2>1. C!Processed(c, k, pkts) /\ Len(h.data) < BlockSize
    BY <1>6, <1>11 DEF C!DownloadComplete
  <2>2. k.req = [cl[c].req EXCEPT !["RRQ"] = NONE]
    BY <1>3 DEF C!ClientProtocol
  <2>3. cl[c].req["RRQ"] = cmd.file /\ \A op \in C!Ops : op # "RRQ" => cl[c].req[op] = NONE
    BY <1>1, Asked, CommandFields
  <2>4. local' = [local EXCEPT ![c][cmd.file] = w \o h.data]
    BY <1>11, <2>3 DEF C!DownloadComplete, C!DataIn
  <2> HIDE DEF k, pkts, h, t
  <2>5. cl'[c] = k
    BY <1>0, <1>6, <2>1, ProcessedTakes
  <2>6. \A op \in C!Ops : cl'[c].req[op] = NONE
    BY <1>0, <2>2, <2>3, <2>5, Fields
  <2>7. JobOf(c)' = F!Idle
    BY <2>6, JobsNext DEF JobsFit
  <2>8. Downloaded(c) = w \o h.data
    <3>1. InFlight(toClient[c]) = h.data /\ Rest(c) = <<>>
      <4>1. h.data \o <<>> = h.data
        BY <1>2, ConcatEmptySeq
      <4> QED BY <1>2, <2>1, <4>1 DEF Rest
    <3>2. w \o h.data \in Seq(Bytes)
      BY <1>2, <1>3, ThreeParts
    <3>3. (w \o h.data) \o <<>> = w \o h.data
      BY <3>2, ConcatEmptySeq
    <3> QED BY <3>1, <3>3 DEF Downloaded
  <2> QED BY <1>7, <1>8, <2>4, <2>7, <2>8, Amounts DEF Moves
<1> QED BY <1>9, <1>10, <1>11

\* An answer that is no block ends a command: it was refused, or is done.
LEMMA ReplyMoves ==
  ASSUME SystemInv, NEW c \in Conns, Process(c), ~IsBroadcast(Head(toClient[c])),
         Replied(c), OthersJobsKept(c)
  PROVE  Moves
<1>0. C!TypeOK /\ toClient[c] \in Seq(Packet)
  BY ClientTypes DEF SystemInv, ClientTypeOK
<1>1. Free(c)' /\ local' = local /\ files' = files
  BY <1>0, ReplyRead, HeadRead DEF vars, disk
<1>2. JobOf(c)' = F!Idle
  BY <1>1, JobsNext DEF Free, JobsFit
<1>3. PICK cmd \in Commands[c] :
        /\ Asks(c, cmd)
        /\ cmd.op = "RRQ" => cl[c].wholeFile = <<>>
        /\ ~cl[c].goingToFinish
        /\ Settled(c)
        /\ \E p \in Packets(toClient[c]) : Reports(c, cmd, p)
  BY DEF Replied
<1>4. PICK p \in Packets(toClient[c]) : Reports(c, cmd, p)
  BY <1>3
<1>5. /\ Only(toClient[c], p) /\ ~IsBroadcast(p) /\ p.op # "DATA"
  BY <1>4 DEF Reports, IsBroadcast
<1>6. DataAt(toClient[c]) = {} /\ (HasAck(toClient[c]) <=> p.op = "ACK")
  BY <1>0, <1>5, OneFlight
<1>7. CASE cmd.op = "DELRQ" /\ HasAck(toClient[c])
  <2>1. JobOf(c) = Job("DELRQ", cmd.file, "done")
    BY <1>3, <1>7, Jobs DEF JobsFit
  <2> QED BY <1>1, <1>2, <2>1, Amounts DEF Moves
<1>8. CASE ~(cmd.op = "DELRQ" /\ HasAck(toClient[c]))
  <2>1. JustAsked(c, cmd)
    BY <1>3, <1>6, <1>8 DEF JustAsked, Settled, AtRead
  <2>2. JobOf(c) = IF cmd.op \in {"RRQ", "WRQ", "DELRQ"}
                   THEN Job(cmd.op, cmd.file, "asked") ELSE F!Idle
    BY <2>1, AskedJobs DEF AskedFit
  <2>3. CASE cmd.op \in {"RRQ", "WRQ", "DELRQ"}
    BY <1>1, <1>2, <2>2, <2>3, Amounts DEF Moves
  <2>4. CASE cmd.op \notin {"RRQ", "WRQ", "DELRQ"}
    BY <1>1, <1>2, <2>2, <2>4, StuttersMove DEF Stutters
  <2> QED BY <2>3, <2>4
<1> QED BY <1>7, <1>8

\* The ACKs of an upload: the next block is sent, or the user is told the end.
LEMMA AckMoves ==
  ASSUME SystemInv, NEW c \in Conns, Process(c), ~IsBroadcast(Head(toClient[c])),
         NEW f \in FileNames, Put(f) \in Commands[c], Asks(c, Put(f)),
         Awaiting(c), OthersJobsKept(c)
  PROVE  Moves
<1>0. C!TypeOK
  BY DEF SystemInv, ClientTypeOK
<1>1. /\ Asks(c, Put(f))' /\ local' = local
      /\ NothingSent(c)' \/ Sending(c)'
  BY <1>0, AckRead
<1>2. files' = files /\ pc[c] = "listen" /\ pc'[c] = "listen" /\ ~cl[c].goingToFinish
  BY <1>0, HeadRead DEF vars, disk, Awaiting
<1>3. UploadStage(c) = "asked"
  BY <1>2 DEF UploadStage, Stored, C!Uploaded
<1>4. UploadStage(c)' = "asked"
  <2>1. toServer'[c] # <<>> \/ ~cl'[c].goingToFinish
    <3>1. Sending(c)' => Len(toServer'[c]) = 1
      BY DEF Sending
    <3>2. toServer'[c] = <<>> => Len(toServer'[c]) = 0
      BY EmptySeq
    <3>3. NothingSent(c)' => ~cl'[c].goingToFinish
      BY DEF NothingSent
    <3>4. Sending(c)' => toServer'[c] # <<>>
      <4>1. 0 # 1
        OBVIOUS
      <4> QED BY <3>1, <3>2, <4>1, Zenon
    <3> QED BY <1>1, <3>3, <3>4
  <2> QED BY <1>2, <2>1 DEF UploadStage, Stored, C!Uploaded
<1>5. Put(f).op = "WRQ" /\ Put(f).file = f
  BY DEF Put
<1>6. JobOf(c) = Job("WRQ", f, "asked")
  BY <1>3, <1>5, Jobs DEF JobsFit
<1>7. JobOf(c)' = Job("WRQ", f, "asked")
  BY <1>1, <1>4, <1>5, JobsNext DEF JobsFit
<1> QED BY <1>1, <1>2, <1>6, <1>7, StuttersMove DEF Stutters

LEMMA SavedMoves ==
  ASSUME SystemInv, NEW c \in Conns, Process(c), ~IsBroadcast(Head(toClient[c])),
         NEW f \in FileNames, Put(f) \in Commands[c], Asks(c, Put(f)),
         Saved(c), toDownload[c] = NONE, OthersJobsKept(c)
  PROVE  Moves
<1>0. C!TypeOK
  BY DEF SystemInv, ClientTypeOK
<1>1. Free(c)' /\ local' = local /\ files' = files
  BY <1>0, SavedRead, HeadRead DEF vars, disk
<1>2. JobOf(c)' = F!Idle
  BY <1>1, JobsNext DEF Free, JobsFit
<1>3. UploadStage(c) = "done"
  BY DEF UploadStage, Stored, Saved
<1>4. JobOf(c) = Job("WRQ", f, "done")
  <2>1. Put(f).op = "WRQ" /\ Put(f).file = f
    BY DEF Put
  <2> QED BY <1>3, <2>1, Jobs DEF JobsFit
<1> QED BY <1>1, <1>2, <1>4, Amounts DEF Moves

LEMMA BroadcastStutters ==
  ASSUME SystemInv, NEW c \in Conns, Process(c), IsBroadcast(Head(toClient[c]))
  PROVE  Stutters(c)
<1>1. C!TypeOK /\ Agree(c)
  BY DEF SystemInv, ClientTypeOK, Conversation
<1>2. /\ Unmoved(c) /\ vars' = vars /\ local' = local
  BY <1>1, BroadcastRead
<1>3. SameLoad(c)
  BY <1>1, <1>2, HearsLoad DEF Unmoved
<1>4. UploadStage(c)' = UploadStage(c)
  BY <1>2, StageStays DEF Unmoved, vars, disk
<1>5. SameReading(c)
  BY <1>2 DEF SameReading, vars, disk
<1>6. JobOf(c)' = JobOf(c)
  BY <1>2, <1>3, <1>4, <1>5, JobStays DEF Unmoved
<1> QED BY <1>2, <1>6 DEF Stutters, vars, disk

LEMMA ProcessMoves ==
  ASSUME SystemInv, NEW c \in Conns, Process(c), OthersJobsKept(c)
  PROVE  Moves
<1>1. C!TypeOK /\ Agree(c)
  BY DEF SystemInv, ClientTypeOK, Conversation
<1>2. CASE IsBroadcast(Head(toClient[c]))
  BY <1>2, BroadcastStutters, StuttersMove
<1>3. CASE ~IsBroadcast(Head(toClient[c]))
  BY <1>1, <1>3, HeadPhases, ReplyMoves, BlockMoves, AckMoves, SavedMoves
<1> QED BY <1>2, <1>3

-----------------------------------------------------------------------------
(* What a download reads.                                                  *)

\* A thread that opens a file, or asks for its size, is about to read it.
LEMMA ComesToRead ==
  ASSUME TypeOK, NEW c \in Conns, ServerStep(c), AtRead(c)'
  PROVE  RrqOpen(c) \/ RrqLength(c)
<1> USE DEF Goto, AtRead, TypeOK
<1>1. CASE Login(c)
  BY <1>1 DEF Login, LogrqAgain, LogrqBegin, LogrqNext, LogrqEnd, LogrqPut,
             LogrqAck, Answer, Processing
<1>2. CASE Download(c)
  BY <1>2 DEF Download, RrqRefused, RrqFound, RrqRead, RrqGone, AckMore,
             AckIgnored, Dirq, DirqTooLong, Answer, HandleReadingACK, Die
<1>3. CASE Upload(c)
  BY <1>3 DEF Upload, WrqRefused, WrqAccepted, DataIgnored, DataOversize, DataFull,
             DataLast, DataWrite, Answer
<1>4. CASE Delete(c)
  BY <1>4 DEF Delete, DelrqRefused, DelrqFound, DelrqDelete, Answer
<1>5. CASE Broadcast(c)
  BY <1>5 DEF Broadcast, BcastNext, BcastDeliver, BcastLost, BcastEnd
<1>6. CASE Other(c)
  BY <1>6 DEF Other, NotLoggedIn, IteratorFails, Error, BcastIn, DiscBegin,
             DiscNext, DiscEnd, Answer, Die
<1>7. CASE \/ Accept(c) \/ RunAdd(c) \/ RunPut(c) \/ Close(c) \/ Receive(c)
  BY <1>7 DEF Accept, RunAdd, RunPut, Close, Receive
<1> QED BY <1>1, <1>2, <1>3, <1>4, <1>5, <1>6, <1>7
        DEF ServerStep, SystemThread, SystemReceive, SystemAccept, Thread

\* The last block of an upload creates a file that was not there.
LEMMA LastIsNew ==
  ASSUME SystemInv, UploadsOK, NEW c \in Conns, DataLast(c)
  PROVE  files[goingToBeReceived[c]] = NONE
<1>0. Agree(c)
  BY DEF SystemInv, Conversation
<1>1. pc[c] = "decode" /\ message[c].op = "DATA" /\ goingToBeReceived[c] # NONE
  BY DEF DataLast, Receiving, Processing
<1>2. ~Listening(c)
  BY <1>1 DEF Listening, Settled
<1>3. ~\E cmd \in Commands[c] : AtWork(c, cmd) \/ Sends(c, cmd)
  BY <1>1, CommandFields DEF AtWork, Working, Sends, MoreBlocks, C!Ops
<1>4. PICK f \in FileNames :
        /\ Put(f) \in Commands[c] /\ Asks(c, Put(f))
        /\ \/ Saved(c)
           \/ /\ goingToBeReceived[c] = f
              /\ \/ Awaiting(c) \/ NothingSent(c) \/ Sending(c) \/ Arrived(c)
                 \/ Writing(c)
  BY <1>0, <1>2, <1>3, Phases, Zenon DEF Uploading
<1>5. goingToBeReceived[c] = f /\ Arrived(c)
  BY <1>1, <1>4 DEF Saved, Awaiting, NothingSent, Sending, Writing
<1>6. Put(f).op = "WRQ" /\ C!Argument(Put(f)) = f
  BY DEF Put, C!Argument
<1>7. cl[c].req["WRQ"] = f
  BY <1>4, <1>6, Asked
<1>8. UploadAt(c, f)
  BY <1>7 DEF UploadsOK
<1>9. Copied(c, f, message[c].data \o cl[c].toSendVec)
  BY <1>5, <1>8 DEF UploadAt
<1> QED BY <1>5, <1>9 DEF Copied

\* A file is empty while it is open for its upload to be written.
LEMMA LinkedIsEmpty ==
  ASSUME SystemInv, UploadsOK, NEW c \in Conns, linked[c]
  PROVE  files[goingToBeReceived[c]] = <<>>
<1>0. Agree(c) /\ pc[c] = "write"
  BY DEF SystemInv, Safety, IndInv, PcOK, PcAt, Conversation
<1>1. PICK f \in FileNames : /\ Put(f) \in Commands[c] /\ Asks(c, Put(f))
                             /\ goingToBeReceived[c] = f /\ Writing(c)
  BY <1>0, WriteIsUpload
<1>2. Put(f).op = "WRQ" /\ C!Argument(Put(f)) = f
  BY DEF Put, C!Argument
<1>3. cl[c].req["WRQ"] = f
  BY <1>1, <1>2, Asked
<1> QED BY <1>1, <1>3 DEF UploadsOK, UploadAt

\* A deletion is a command of the client whose thread does it.
LEMMA DeleteIsCommand ==
  ASSUME SystemInv, NEW c \in Conns, DelrqDelete(c)
  PROVE  Remove(message[c].file) \in Commands[c]
<1>0. Agree(c) /\ PcAt(c)
  BY DEF SystemInv, Safety, IndInv, PcOK, Conversation
<1>1. pc[c] = "del" /\ message[c].op = "DELRQ"
  BY <1>0 DEF DelrqDelete, PcAt
<1>2. ~Listening(c) /\ ~\E cmd : Sends(c, cmd)
  BY <1>1 DEF Listening, Settled, Sends, MoreBlocks
<1>3. ~Uploading(c)
  <2>1. ~(\/ Saved(c) \/ Awaiting(c) \/ NothingSent(c) \/ Sending(c) \/ Arrived(c)
          \/ Writing(c))
    BY <1>1 DEF Saved, Awaiting, NothingSent, Sending, Arrived, Writing
  <2> QED BY <2>1, Zenon DEF Uploading
<1>4. message[c] \in Commands[c]
  BY <1>0, <1>2, <1>3, Phases DEF AtWork, Working
<1>5. message[c] = Remove(message[c].file)
  <2>1. message[c] \in Request
    BY <1>4, CommandFields
  <2> QED BY <1>1, <2>1 DEF Request, Remove
<1> QED BY <1>4, <1>5

\* What other threads do to the file a thread reads.
LEMMA ReaderSees ==
  ASSUME SystemInv, SystemInv', UploadsOK, OwnUploads, NEW c \in Conns, DownloadAt(c),
         AtRead(c), NEW d \in Conns, d # c, ServerStep(d),
         pc'[c] = pc[c], message'[c] = message[c], toDownload'[c] = toDownload[c]
  PROVE  DownloadAt(c)'
<1>0. /\ TypeOK /\ ReadAt(c) /\ Named
      /\ \A e \in Conns : PcAt(e)
  BY DEF SystemInv, Safety, IndInv, PcOK, UploadsOK, Named
<1> DEFINE f == message[c].file
           g == goingToBeReceived[d]
<1>1. CASE disk' = disk
  BY <1>1 DEF disk, DownloadAt
<1>2. CASE RrqRead(d)
  BY <1>0, <1>2 DEF RrqRead, DownloadAt, TypeOK
<1>3. CASE DataLast(d)
  <2>1. /\ orphan' = orphan /\ writers' = writers
        /\ \A x \in FileNames : x # g => files'[x] = files[x]
    BY <1>0, <1>3 DEF DataLast, TypeOK
  <2>2. files[g] = NONE
    BY <1>3, LastIsNew
  <2>3. orphan[c] = NONE => f # g /\ f \in FileNames
    BY <1>0, <2>2 DEF ReadAt, AtRead, PcAt
  <2> QED BY <2>1, <2>3 DEF DownloadAt
<1>4. CASE DataWrite(d) /\ linked[d]
  <2>1. writers'[c] = writers[c] /\ orphan'[c] = orphan[c]
    BY <1>0, <1>4 DEF DataWrite, StreamClosed, ReadAt
  <2>2. files' = [files EXCEPT ![g] = Overlay(Pad(wholeFile[d], accSize[d]), files[g])]
    BY <1>4 DEF DataWrite
  <2>3. files[g] = <<>>
    BY <1>4, LinkedIsEmpty
  <2>4. f \in FileNames /\ (f # g => files'[f] = files[f])
    BY <1>0, <2>2 DEF PcAt, AtRead, TypeOK
  <2>5. f = g /\ pc[c] = "read" /\ orphan[c] = NONE => Len(toDownload[c]) = 0
    BY <2>3 DEF DownloadAt
  <2> QED BY <2>1, <2>4, <2>5 DEF DownloadAt
<1>5. CASE DataWrite(d) /\ ~linked[d]
  <2>1. files' = files /\ writers'[c] = writers[c] \ {d}
    BY <1>5 DEF DataWrite, StreamClosed
  <2>2. CASE d \notin writers[c]
    <3>1. orphan'[c] = orphan[c] /\ writers'[c] = writers[c]
      BY <1>5, <2>1, <2>2 DEF DataWrite
    <3> QED BY <2>1, <3>1 DEF DownloadAt
  <2>3. CASE d \in writers[c]
    <3>1. orphan[c] = <<>>
      BY <2>3 DEF DownloadAt
    <3>2. writers'[c] = {}
      <4>1. \A e \in writers[c] :
              e \in Conns /\ goingToBeReceived[e] = f /\ Put(f) \in Commands[e]
        <5>1. f \in FileNames /\ f # NONE
          BY <1>0, NameAssumption DEF AtRead, PcAt
        <5> QED BY <1>0, <5>1 DEF ReadAt, Named, TypeOK
      <4>2. f \in FileNames
        BY <1>0 DEF AtRead, PcAt
      <4>3. \A e \in writers[c] : e = d
        BY <2>3, <4>1, <4>2 DEF OwnUploads
      <4> QED BY <2>1, <4>3
    <3>3. orphan'[c] # NONE
      <4>1. orphan'[c] = Overlay(Pad(wholeFile[d], accSize[d]), orphan[c])
        BY <1>5, <2>3 DEF DataWrite
      <4>2. /\ <<>> \in Seq(Bytes)
            /\ wholeFile[d] \in Seq(Bytes) /\ accSize[d] \in Nat
        BY <1>0, EmptySeq DEF TypeOK
      <4>3. Overlay(Pad(wholeFile[d], accSize[d]), <<>>) \in Seq(Bytes)
        BY <4>2, WriteType
      <4> QED BY <3>1, <4>1, <4>3, NameAssumption
    <3>4. orphan[c] # NONE
      BY <3>1, EmptySeq, NameAssumption
    <3> QED BY <3>2, <3>3, <3>4 DEF DownloadAt
  <2> QED BY <2>2, <2>3
<1>6. CASE DelrqDelete(d)
  <2> DEFINE h == message[d].file
             open == {e \in Conns : linked[e] /\ goingToBeReceived[e] = h}
  <2>1. /\ files' = [files EXCEPT ![h] = NONE] /\ h \in FileNames
        /\ orphan'[c] = IF Reads(c, h) THEN files[h] ELSE orphan[c]
        /\ writers'[c] = IF Reads(c, h) THEN open ELSE writers[c]
    BY <1>0, <1>6 DEF DelrqDelete, PcAt
  <2>2. CASE Reads(c, h)
    <3>1. /\ f = h /\ orphan'[c] = files[h] /\ writers'[c] = open /\ files[h] # NONE
      BY <1>0, <2>1, <2>2 DEF Reads, ReadAt
    <3>2. Remove(f) \in Commands[d]
      BY <1>6, <3>1, DeleteIsCommand
    <3>3. open # {} => files[h] = <<>>
      BY LinkedIsEmpty
    <3> HIDE DEF open
    <3> QED BY <3>1, <3>2, <3>3 DEF DownloadAt
  <2>3. CASE ~Reads(c, h)
    <3> HIDE DEF open
    <3>1. orphan'[c] = orphan[c] /\ writers'[c] = writers[c]
      BY <2>1, <2>3
    <3>2. orphan[c] = NONE => f # h /\ f \in FileNames
      BY <1>0, <2>3 DEF Reads, AtRead, PcAt
    <3>3. \A x \in FileNames : x # h => files'[x] = files[x]
      BY <1>0, <2>1 DEF TypeOK
    <3> QED BY <3>1, <3>2, <3>3 DEF DownloadAt
  <2> QED BY <2>2, <2>3
<1> QED BY <1>0, <1>1, <1>2, <1>3, <1>4, <1>5, <1>6, DiskKept

LEMMA DownloadsStep ==
  ASSUME SystemInv, SystemInv', UploadsOK, OwnUploads, DownloadsOK, NEW d \in Conns,
         ServerStep(d) \/ Type(d) \/ Process(d)
  PROVE  DownloadsOK'
<1> SUFFICES ASSUME NEW c \in Conns PROVE DownloadAt(c)'
  BY DEF DownloadsOK
<1>0. TypeOK /\ ReadAt(c)' /\ ReadAt(c) /\ PcAt(c) /\ DownloadAt(c)
  BY DEF SystemInv, Safety, IndInv, PcOK, DownloadsOK
<1>1. CASE Type(d) \/ Process(d)
  <2>1. vars' = vars
    BY <1>1 DEF Type, Process
  <2>2. /\ pc' = pc /\ orphan' = orphan /\ writers' = writers /\ files' = files
        /\ message' = message /\ toDownload' = toDownload
    BY <2>1 DEF vars, disk, input, download
  <2> QED BY <1>0, <2>2 DEF DownloadAt
<1>2. CASE ~AtRead(c)'
  BY <1>0, <1>2 DEF ReadAt, DownloadAt, AtRead
<1>3. CASE ServerStep(d) /\ d # c /\ AtRead(c)'
  <2>1. Unmoved(c)
    BY <1>3, OthersUnmoved
  <2> QED BY <1>0, <1>3, <2>1, ReaderSees DEF Unmoved, AtRead
<1>4. CASE ServerStep(c) /\ AtRead(c)'
  <2>1. /\ disk' = disk /\ message' = message
        /\ pc'[c] = "length" \/ RrqLength(c)
    BY <1>0, <1>4, ComesToRead DEF RrqOpen, RrqLength, Goto, TypeOK, input
  <2>2. CASE RrqLength(c)
    <3>1. /\ message[c].file \in FileNames
          /\ toDownload'[c] = Pad(<<>>, IF files[message[c].file] # NONE
                                        THEN Len(files[message[c].file]) ELSE 0)
      BY <1>0, <2>2 DEF RrqLength, OnDisk, PcAt, TypeOK
    <3>2. orphan[c] = NONE => /\ files[message[c].file] # NONE
                              /\ Len(files[message[c].file]) \in Nat
      BY <1>0, <2>2, <3>1 DEF RrqLength, ReadAt, TypeOK, MaybeData
    <3>3. orphan[c] = NONE => Len(toDownload'[c]) = Len(files[message[c].file])
      BY <3>1, <3>2, EmptySeq, PadLength
    <3> QED BY <1>0, <2>1, <3>3 DEF DownloadAt, disk
  <2>3. CASE pc'[c] = "length"
    BY <1>0, <2>1, <2>3 DEF DownloadAt, disk
  <2> QED BY <2>1, <2>2, <2>3
<1> QED BY <1>1, <1>2, <1>3, <1>4

LEMMA DownloadsStart == ASSUME SystemInit PROVE DownloadsOK
BY DEF SystemInit, Init, DownloadsOK, DownloadAt

\* What a download reads of a file that is still in the directory is all of it,
\* or nothing if the file was empty when its size was asked for: no deletion and
\* upload between the opening and the reading of the file goes unnoticed.
THEOREM DownloadsHold == OwnUploads /\ SystemSpec /\ []NoWrap => []DownloadsOK
<1> SUFFICES ASSUME OwnUploads PROVE SystemSpec /\ []NoWrap => []DownloadsOK
  OBVIOUS
<1>1. SystemInv /\ SystemInv' /\ UploadsOK /\ DownloadsOK /\ [SystemNext]_systemVars
      => DownloadsOK'
  <2> SUFFICES ASSUME SystemInv, SystemInv', UploadsOK, DownloadsOK,
                      [SystemNext]_systemVars
               PROVE  DownloadsOK'
    OBVIOUS
  <2>1. CASE SystemNext
    BY <2>1, SystemNextIs, DownloadsStep
  <2>2. CASE UNCHANGED systemVars
    BY <2>2 DEF systemVars, vars, disk, input, download, DownloadsOK, DownloadAt
  <2> QED BY <2>1, <2>2
<1>2. SystemSpec /\ []NoWrap => []UploadsOK
  BY UploadsHold
<1> QED BY <1>1, <1>2, SystemInvariance, DownloadsStart, PTL DEF SystemSpec

-----------------------------------------------------------------------------
(* The refinement.                                                         *)

\* Every step of the system is a step of FileCopy, or none.
LEMMA SystemMoves ==
  ASSUME SystemInv, SystemInv', UploadsOK, DownloadsOK, NEW c \in Conns,
         ServerStep(c) \/ Type(c) \/ Process(c)
  PROVE  Moves
<1>0. TypeOK /\ C!TypeOK /\ Agree(c)
  BY DEF SystemInv, Safety, ClientTypeOK, Conversation
<1>1. ~Disturbs(c) => OthersJobsKept(c)
  BY OthersKeepJobs DEF OthersJobsKept
<1>2. Disturbs(c) => pc[c] \in {"del", "write"} /\ pc'[c] = "bcast" /\ vars' # vars
  BY <1>0 DEF Disturbs, DelrqDelete, DataWrite, Goto, TypeOK, vars
<1>3. CASE SystemReceive(c) \/ SystemAccept(c)
  <2>1. ~Disturbs(c)
    BY <1>2, <1>3 DEF SystemReceive, SystemAccept, Receive, Accept
  <2> QED BY <1>0, <1>1, <1>3, <2>1, TakesStutter, StuttersMove
<1>4. CASE SystemThread(c)
  <2>1. CASE Listening(c)
    <3>1. ~Disturbs(c)
      BY <1>2, <2>1 DEF Listening, Settled
    <3> QED BY <1>1, <1>4, <2>1, <3>1, ListeningStutters, StuttersMove
  <2>2. ASSUME NEW cmd \in Commands[c], AtWork(c, cmd) PROVE Moves
    <3>1. CASE DelrqDelete(c)
      BY <1>4, <2>2, <3>1, DeleteMoves
    <3>2. CASE ~DelrqDelete(c)
      <4>1. pc[c] # "write"
        BY <2>2 DEF AtWork, Working
      <4> QED BY <1>1, <1>4, <2>2, <3>2, <4>1, WorkMoves DEF Disturbs, DataWrite
    <3> QED BY <3>1, <3>2
  <2>3. ASSUME NEW cmd \in Commands[c], Sends(c, cmd) PROVE Moves
    <3>1. ~Disturbs(c)
      BY <1>2, <2>3 DEF Sends, MoreBlocks
    <3> QED BY <1>1, <1>4, <2>3, <3>1, SendsStutters, StuttersMove
  <2>4. CASE Uploading(c)
    BY <1>1, <1>4, <2>4, UploadMoves
  <2> QED BY <1>0, <2>1, <2>2, <2>3, <2>4, Phases
<1>5. CASE Type(c)
  <2>1. ~Disturbs(c)
    BY <1>2, <1>5 DEF Type
  <2> QED BY <1>1, <1>5, <2>1, TypeMoves
<1>6. CASE Process(c)
  <2>1. ~Disturbs(c)
    BY <1>2, <1>6 DEF Process
  <2> QED BY <1>1, <1>6, <2>1, ProcessMoves
<1> QED BY <1>3, <1>4, <1>5, <1>6 DEF ServerStep

LEMMA SystemRests == UNCHANGED systemVars => UNCHANGED F!vars
<1> SUFFICES ASSUME UNCHANGED systemVars PROVE UNCHANGED F!vars
  OBVIOUS
<1>1. /\ pc' = pc /\ linked' = linked /\ toDownload' = toDownload /\ files' = files
      /\ orphan' = orphan /\ writers' = writers
      /\ cl' = cl /\ local' = local /\ toServer' = toServer /\ toClient' = toClient
  BY DEF systemVars, vars, clients, disk, download
<1>2. \A c \in Conns : JobOf(c)' = JobOf(c)
  <2> SUFFICES ASSUME NEW c \in Conns PROVE JobOf(c)' = JobOf(c)
    OBVIOUS
  <2>1. SameLoad(c)
    BY <1>1 DEF SameLoad
  <2>2. UploadStage(c)' = UploadStage(c)
    BY <1>1, StageStays
  <2>3. SameReading(c)
    BY <1>1 DEF SameReading
  <2> QED BY <1>1, <2>1, <2>2, <2>3, JobStays
<1> QED BY <1>1, <1>2 DEF F!vars

LEMMA SystemBegins == SystemInit => F!Init
<1> SUFFICES ASSUME SystemInit PROVE F!Init
  OBVIOUS
<1>1. files = InitFiles /\ local = InitLocal
  BY DEF SystemInit, Init, C!Init
<1>2. \A c \in Conns : JobOf(c) = F!Idle
  <2>1. \A c \in Conns, op \in C!Ops : cl[c].req[op] = NONE
    BY DEF SystemInit, C!Init
  <2> QED BY <2>1, Jobs DEF JobsFit
<1> QED BY <1>1, <1>2 DEF F!Init

\* While uploads of different clients have different names, and no block number
\* comes round to 0, what the users see is what FileCopy says: an upload appears
\* empty and then whole, and is what the client's file holds; a download is an
\* exact copy of what the file was at one moment, unless another client removes
\* the file between its opening and its reading.
THEOREM Refinement == OwnUploads /\ SystemSpec /\ []NoWrap => ImplementsFileCopy
<1> SUFFICES ASSUME OwnUploads PROVE SystemSpec /\ []NoWrap => ImplementsFileCopy
  OBVIOUS
<1>1. SystemInv /\ SystemInv' /\ UploadsOK /\ DownloadsOK /\ [SystemNext]_systemVars
      => [F!Next]_(F!vars)
  <2> SUFFICES ASSUME SystemInv, SystemInv', UploadsOK, DownloadsOK,
                      [SystemNext]_systemVars
               PROVE  [F!Next]_(F!vars)
    OBVIOUS
  <2>1. CASE SystemNext
    BY <2>1, SystemNextIs, SystemMoves DEF Moves
  <2>2. CASE UNCHANGED systemVars
    BY <2>2, SystemRests
  <2> QED BY <2>1, <2>2
<1>2. SystemSpec /\ []NoWrap => []UploadsOK /\ []DownloadsOK
  BY UploadsHold, DownloadsHold
<1> QED BY <1>1, <1>2, SystemBegins, SystemInvariance, PTL
        DEF SystemSpec, ImplementsFileCopy, F!Spec

\* No user uploads anything.
NoUploads == \A c \in Conns : \A cmd \in Commands[c] : cmd.op # "WRQ"

LEMMA NothingWraps == ASSUME NoUploads, Conversation PROVE NoWrap
<1> SUFFICES ASSUME NEW c \in Conns, NEW p \in Packets(toServer[c])
             PROVE  p.op # "DATA"
  BY DEF NoWrap
<1>1. toServer[c] # <<>> \/ p.op # "DATA"
  <2>1. toServer[c] = <<>> => Len(toServer[c]) = 0
    BY EmptySeq
  <2> QED BY <2>1 DEF Packets
<1>2. Acks(toServer[c]) => p.op # "DATA"
  BY DEF Acks, Packets
<1>3. ASSUME NEW cmd \in Commands[c], EndsIn(toServer[c], cmd) PROVE p.op # "DATA"
  <2>1. cmd.op # "DATA"
    BY CommandFields DEF C!Ops
  <2> QED BY <1>3, <2>1 DEF EndsIn, Packets
<1>4. ~Uploading(c)
  <2>1. \A f : Put(f).op = "WRQ"
    BY DEF Put
  <2> QED BY <2>1, Zenon DEF NoUploads, Uploading
<1>5. CASE Free(c)
  BY <1>2, <1>5 DEF Free
<1>6. CASE Requested(c)
  BY <1>1, <1>3, <1>6 DEF Requested, Working
<1>7. CASE Replied(c)
  BY <1>1, <1>7 DEF Replied
<1>8. CASE Downloading(c)
  BY <1>1, <1>2, <1>8 DEF Downloading, LastBlocks, MoreBlocks
<1> QED BY <1>4, <1>5, <1>6, <1>7, <1>8 DEF Conversation, Agree

\* Downloads and deletions alone need nothing of the names or the numbers.  A file
\* that is deleted by another client after it was opened is then sent whole if it
\* still was there when its size was asked for, and as an empty file if not.
THEOREM DownloadsRefine == NoUploads /\ SystemSpec => ImplementsFileCopy
<1> SUFFICES ASSUME NoUploads PROVE SystemSpec => ImplementsFileCopy
  OBVIOUS
<1>1. OwnUploads
  <2>1. \A f : Put(f).op = "WRQ"
    BY DEF Put
  <2> QED BY <2>1 DEF OwnUploads, NoUploads
<1>2. Conversation => NoWrap
  BY NothingWraps
<1>3. SystemSpec /\ []NoWrap => ImplementsFileCopy
  BY <1>1, Refinement
<1> QED BY <1>2, <1>3, ConversationHolds, PTL
=============================================================================
