----------------------------- MODULE TFTPSystem -----------------------------
(***************************************************************************)
(* The server of TFTPServer and the clients of TFTPClient, joined by the   *)
(* two directions of each TCP connection: what a thread of the server      *)
(* writes is appended to a channel, and the request it receives is the     *)
(* first one of another.  Clients are started one after the other: logins  *)
(* that race for connectionsQueue are a matter of TFTPServer.              *)
(***************************************************************************)
EXTENDS TFTPServer

CONSTANTS Commands, MaxCmd, InitLocal
VARIABLES cl, ncmd, local, toServer, toClient

C == INSTANCE TFTPClient WITH Clients <- Conns

ASSUME CommandsAssumption ==
  /\ \A c \in Conns : /\ Commands[c] \subseteq Requests[c]
                      /\ \A cmd \in Commands[c] : cmd.op \in C!Ops
  /\ InitLocal \in [Conns -> [FileNames -> MaybeData]]
  /\ NONE \notin C!Ops

clients == <<cl, ncmd, local, toServer, toClient>>

systemVars == <<vars, clients>>

\* What the server has written to each socket in this step.
Written(c) == LET new == SubSeq(out'[c], Len(out[c]) + 1, Len(out'[c]))
              IN [i \in 1 .. Len(new) |-> new[i].pkt]

SystemThread(c) ==
  /\ Thread(c)
  /\ toClient' = [d \in Conns |-> toClient[d] \o Written(d)]
  /\ UNCHANGED <<cl, ncmd, local, toServer>>

SystemReceive(c) ==
  /\ toServer[c] # <<>>
  /\ Receive(c)
  /\ message'[c] = Head(toServer[c])
  /\ toServer' = [toServer EXCEPT ![c] = Tail(@)]
  /\ UNCHANGED <<cl, ncmd, local, toClient>>

SystemAccept(c) ==
  /\ \A d \in Conns : pc[d] \notin {"start", "adding"}
  /\ Accept(c)
  /\ UNCHANGED clients

Type(c) == C!Command(c) /\ UNCHANGED vars
Process(c) == C!SocketThread(c) /\ UNCHANGED vars

SystemInit == Init /\ C!Init

SystemNext == \E c \in Conns :
  \/ SystemThread(c) \/ SystemReceive(c) \/ SystemAccept(c)
  \/ Type(c) \/ Process(c)

SystemSpec == SystemInit /\ [][SystemNext]_systemVars

\* Both processes run their threads; no user has to type anything.
SystemFairSpec ==
  /\ SystemSpec
  /\ \A c \in Conns : /\ WF_systemVars(SystemAccept(c))
                      /\ WF_systemVars(SystemThread(c))
                      /\ WF_systemVars(SystemReceive(c))
                      /\ WF_systemVars(Process(c))

-----------------------------------------------------------------------------
(* The system implements FileCopy.                                         *)

\* The packets of a channel, and the places of those that carry a block.
Packets(s) == {s[i] : i \in 1 .. Len(s)}
DataAt(s) == {i \in 1 .. Len(s) : s[i].op = "DATA"}

\* The bytes on their way: those of at most two blocks.
InFlight(s) ==
  IF DataAt(s) = {} THEN <<>>
  ELSE LET first == CHOOSE i \in DataAt(s) : \A j \in DataAt(s) : i <= j
           last  == CHOOSE i \in DataAt(s) : \A j \in DataAt(s) : j <= i
       IN IF first = last THEN s[first].data ELSE s[first].data \o s[last].data

\* What the server has yet to send to c.
Rest(c) == IF toDownload[c] = NONE THEN <<>> ELSE toDownload[c]

\* The file a client downloads: what it holds, what is on its way, the rest.
Downloaded(c) == cl[c].wholeFile \o InFlight(toClient[c]) \o Rest(c)

Fetched(c) == \/ cl[c].wholeFile # <<>>
              \/ toDownload[c] # NONE
              \/ DataAt(toClient[c]) # {}

\* The last packet of an upload has been received and stored.
Stored(c) == /\ C!Uploaded(c)
             /\ toServer[c] = <<>>
             /\ pc[c] \notin {"decode", "write", "deaf"}

Removed(c) == \E pkt \in Packets(toClient[c]) : pkt.op = "ACK"

Job(op, f, stage) == [op |-> op, file |-> f, stage |-> stage]

UploadStage(c) == CASE pc[c] = "write" /\ linked[c] -> "open"
                    [] pc[c] = "write" /\ ~linked[c] -> "removed"
                    [] Stored(c) -> "done"
                    [] OTHER -> "asked"

\* The thread has the file open, and the array for it.
DownloadOf(c, f) ==
  CASE pc[c] = "length" -> [op |-> "RRQ", file |-> f, stage |-> "opened",
                            held |-> orphan[c], writers |-> writers[c]]
    [] pc[c] = "read" -> [op |-> "RRQ", file |-> f, stage |-> "sized",
                          held |-> orphan[c], writers |-> writers[c],
                          size |-> Len(toDownload[c])]
    [] pc[c] \notin {"length", "read"} /\ Fetched(c) ->
         [op |-> "RRQ", file |-> f, stage |-> "fetched", got |-> Downloaded(c)]
    [] OTHER -> Job("RRQ", f, "asked")

JobOf(c) ==
  LET req == cl[c].req
  IN CASE req["WRQ"] # NONE -> Job("WRQ", req["WRQ"], UploadStage(c))
       [] req["RRQ"] # NONE -> DownloadOf(c, req["RRQ"])
       [] req["DELRQ"] # NONE ->
            Job("DELRQ", req["DELRQ"], IF Removed(c) THEN "done" ELSE "asked")
       [] OTHER -> [op |-> NONE, stage |-> "idle"]

F == INSTANCE FileCopy WITH Clients <- Conns, job <- [c \in Conns |-> JobOf(c)]

\* What the users of the clients see is what FileCopy describes: downloads are
\* exact copies of one moment unless the file is removed while it is opened,
\* measured and read, and cut or filled up to a wrong size then; uploads appear
\* whole, although transfers go block by block, two blocks may be on their way
\* and other clients change the directory and broadcast in between.
ImplementsFileCopy == F!Spec

\* The objects of the clients and the channels keep their types; block numbers
\* of both sides stay within a short.
ClientTypeOK == C!TypeOK

\* A command is answered in the end, unless the server's thread has died.
CommandsComplete ==
  \A c \in Conns : C!Waiting(c) ~> ~C!Waiting(c) \/ pc[c] = "dead"
-----------------------------------------------------------------------------
(* What a comment says and the code does not keep.                         *)

\* ClientProtocol.cpp:76: the first ACK, ACK 0, sets toSendVec, and the client
\* keeps sending from there: an upload of one client leaves the file it read.
UploadsAreCopies ==
  \A c \in Conns : \A f \in FileNames :
    cl[c].req["WRQ"] = f /\ Stored(c) => files[f] \in {NONE, local[c][f]}

-----------------------------------------------------------------------------
(* How far the conversation of a client with its server thread has come:   *)
(* what makes the refinement inductive.                                    *)

IsBroadcast(pkt) == pkt.op = "BCAST"

\* Among the broadcasts of a channel to a client: nothing, one packet, or two.
Quiet(s) == \A i \in 1 .. Len(s) : IsBroadcast(s[i])
Only(s, p) == \E i \in 1 .. Len(s) :
  s[i] = p /\ \A k \in 1 .. Len(s) : k # i => IsBroadcast(s[k])
Both(s, p, q) == \E i, j \in 1 .. Len(s) :
  /\ i < j /\ s[i] = p /\ s[j] = q
  /\ \A k \in 1 .. Len(s) : k # i /\ k # j => IsBroadcast(s[k])

FullBlock(p) == p.op = "DATA" /\ Len(p.data) = BlockSize
ShortBlock(p) == p.op = "DATA" /\ Len(p.data) < BlockSize

\* In a channel to the server: acknowledgements, and a command behind them.
Acks(s) == \A i \in 1 .. Len(s) : s[i].op = "ACK"
EndsIn(s, cmd) == /\ s # <<>>
                  /\ s[Len(s)] = cmd
                  /\ \A i \in 1 .. Len(s) - 1 : s[i].op = "ACK"

\* The one command that c waits for.
Asks(c, cmd) ==
  /\ cl[c].lastOperation = cmd.op
  /\ cl[c].req = [op \in C!Ops |-> IF op = cmd.op THEN C!Argument(cmd) ELSE NONE]

\* The server's thread has no command of c at hand and nothing to send to it.
Settled(c) ==
  /\ toDownload[c] = NONE
  /\ \/ pc[c] \in {"idle", "start", "adding", "listen", "bcast", "deliver",
                   "exit", "closed", "dead"}
     \/ pc[c] = "logrq" /\ found[c] # {}
     \/ pc[c] = "decode" /\ message[c].op = "ACK"

Free(c) ==
  /\ \A op \in C!Ops : cl[c].req[op] = NONE
  /\ ~cl[c].goingToFinish
  /\ Quiet(toClient[c]) /\ Acks(toServer[c]) /\ Settled(c)

\* The thread has the command, or has died of it.
Working(c, cmd) ==
  /\ toServer[c] = <<>>
  /\ toDownload[c] = NONE \/ pc[c] = "read"
  /\ message[c] = cmd
  /\ \/ pc[c] \in {"decode", "put", "ack", "rrq", "length", "read", "del", "disc",
                   "dead"}
     \/ pc[c] = "logrq" /\ found[c] = {}

Requested(c) == \E cmd \in Commands[c] :
  /\ Asks(c, cmd)
  /\ cmd.op = "RRQ" => cl[c].wholeFile = <<>>
  /\ ~cl[c].goingToFinish
  /\ Quiet(toClient[c])
  /\ \/ EndsIn(toServer[c], cmd) /\ Settled(c)
     \/ Working(c, cmd)

\* The one packet that answers cmd is on its way.
Reports(c, cmd, p) ==
  /\ Only(toClient[c], p)
  /\ \/ p.op = "ERROR"
     \/ p.op = "ACK" /\ cmd.op \in {"LOGRQ", "DISC", "DELRQ"}
     \/ /\ p.op = "LIST" /\ cmd.op = "DIRQ" /\ myConnectionState[c]
        /\ ListingBytes(p.names) < ListingSize

Replied(c) == \E cmd \in Commands[c] :
  /\ Asks(c, cmd)
  /\ cmd.op = "RRQ" => cl[c].wholeFile = <<>>
  /\ ~cl[c].goingToFinish
  /\ toServer[c] = <<>> /\ Settled(c)
  /\ \E p \in Packets(toClient[c]) : Reports(c, cmd, p)

\* Blocks of a download are on their way, or an ACK that asks for the next ones.
LastBlocks(c) ==
  /\ Settled(c)
  /\ \/ \E p, q \in Packets(toClient[c]) :
          /\ FullBlock(p) /\ ShortBlock(q) /\ Both(toClient[c], p, q)
          /\ toServer[c] = <<>>
     \/ \E q \in Packets(toClient[c]) :
          ShortBlock(q) /\ Only(toClient[c], q) /\ Acks(toServer[c])

MoreBlocks(c) ==
  /\ toDownload[c] # NONE
  /\ Len(toDownload[c]) >= BlockSize
  /\ \/ /\ pc[c] = "listen" /\ toServer[c] = <<>>
        /\ \E p \in Packets(toClient[c]) : FullBlock(p) /\ Only(toClient[c], p)
     \/ /\ pc[c] = "listen" /\ Quiet(toClient[c])
        /\ Len(toServer[c]) = 1 /\ Acks(toServer[c])
     \/ /\ pc[c] = "decode" /\ Quiet(toClient[c])
        /\ message[c].op = "ACK" /\ toServer[c] = <<>>

Downloading(c) == \E cmd \in Commands[c] :
  /\ cmd.op = "RRQ" /\ cmd.file \in FileNames
  /\ Asks(c, cmd)
  /\ ~cl[c].goingToFinish
  /\ myConnectionState[c]
  /\ LastBlocks(c) \/ MoreBlocks(c)

Put(f) == [op |-> "WRQ", file |-> f]

\* An upload goes round: an ACK is on its way, a block, the block is processed.
Awaiting(c) ==
  /\ pc[c] = "listen" /\ toServer[c] = <<>> /\ ~cl[c].goingToFinish
  /\ \E p \in Packets(toClient[c]) :
       /\ p.op = "ACK" /\ Only(toClient[c], p)
       /\ p.block # 0 => cl[c].toSendVec # NONE

\* Nothing was sent of an empty file.
NothingSent(c) ==
  /\ pc[c] = "listen" /\ toServer[c] = <<>> /\ ~cl[c].goingToFinish
  /\ Quiet(toClient[c])

Sent(c, p) ==
  \/ FullBlock(p) /\ cl[c].toSendVec # NONE /\ ~cl[c].goingToFinish
  \/ ShortBlock(p) /\ C!Uploaded(c)

Sending(c) ==
  /\ pc[c] = "listen" /\ Quiet(toClient[c])
  /\ Len(toServer[c]) = 1 /\ Sent(c, toServer[c][1])

Arrived(c) ==
  /\ pc[c] \in {"decode", "deaf"} /\ Quiet(toClient[c])
  /\ toServer[c] = <<>> /\ Sent(c, message[c])

Writing(c) ==
  /\ pc[c] = "write" /\ Quiet(toClient[c])
  /\ toServer[c] = <<>> /\ C!Uploaded(c)

Saved(c) ==
  /\ pc[c] \in {"bcast", "deliver", "listen", "dead"}
  /\ toServer[c] = <<>> /\ C!Uploaded(c)
  /\ \E p \in Packets(toClient[c]) : p.op = "ACK" /\ Only(toClient[c], p)

Uploading(c) == \E f \in FileNames :
  /\ Put(f) \in Commands[c]
  /\ Asks(c, Put(f))
  /\ myConnectionState[c]
  /\ toDownload[c] = NONE
  /\ \/ Saved(c)
     \/ /\ goingToBeReceived[c] = f
        /\ Awaiting(c) \/ NothingSent(c) \/ Sending(c) \/ Arrived(c) \/ Writing(c)

\* Only a client that has logged in sends what is no command, or is served.
Admitted(c) ==
  /\ \A p \in Packets(toServer[c]) : p.op \in {"ACK", "DATA"} => myConnectionState[c]
  /\ pc[c] = "decode" /\ message[c].op \in {"ACK", "DATA"} => myConnectionState[c]
  /\ pc[c] \in {"rrq", "length", "read"} => myConnectionState[c]

\* Clients that are started one after the other are all found by send.
Serial ==
  /\ \A c, d \in Conns :
       pc[c] \in {"start", "adding"} /\ pc[d] \in {"start", "adding"} => c = d
  /\ \A c \in Conns :
       /\ pc[c] = "adding" => seen[c] = DOMAIN connectionsQueue
       /\ pc[c] \notin {"idle", "start", "adding"} => Registered(c)

Agree(c) ==
  Free(c) \/ Requested(c) \/ Replied(c) \/ Downloading(c) \/ Uploading(c)

\* At any moment a client and its thread agree on what they are doing: one
\* command at most is asked, worked on or answered, one block at most of an
\* upload and two of a download are on their way, broadcasts come between them
\* and late acknowledgements of a download before the next command.
Conversation ==
  /\ Serial
  /\ \A c \in Conns : Admitted(c) /\ Agree(c)

\* What has been received, is on its way and is left of an upload make up the
\* client's file, which is not in the directory before its last block is.
Copied(c, f, rest) ==
  /\ files[f] = NONE
  /\ accSize[c] = Len(wholeFile[c])
  /\ wholeFile[c] \o rest = local[c][f]

UploadAt(c, f) ==
  /\ Awaiting(c) => \A p \in Packets(toClient[c]) :
       /\ p.op = "ACK" /\ p.block # 0 => Copied(c, f, cl[c].toSendVec)
       /\ p.op = "ACK" /\ p.block = 0 =>
            files[f] = NONE /\ accSize[c] = 0 /\ wholeFile[c] = <<>>
  /\ Sending(c) => Copied(c, f, toServer[c][1].data \o cl[c].toSendVec)
  /\ Arrived(c) => /\ Copied(c, f, message[c].data \o cl[c].toSendVec)
                   /\ message[c].block # 0
  /\ Writing(c) => /\ accSize[c] = Len(wholeFile[c])
                   /\ wholeFile[c] = local[c][f]
                   /\ linked[c] => files[f] = <<>>

UploadsOK ==
  /\ \A c \in Conns :
       goingToBeReceived[c] # NONE => Put(goingToBeReceived[c]) \in Commands[c]
  /\ \A c \in Conns : \A f \in FileNames : cl[c].req["WRQ"] = f => UploadAt(c, f)

\* A file that is still in the directory when it is read is empty or has the
\* size that was asked for by its name, whatever has been deleted and uploaded
\* since it was opened.  It is not there only if another client may delete it,
\* and an upload that was cut off with it had stored nothing.
Remove(f) == [op |-> "DELRQ", file |-> f]

DownloadAt(c) ==
  /\ pc[c] = "read" /\ orphan[c] = NONE =>
       Len(toDownload[c]) \in {0, Len(files[message[c].file])}
  /\ orphan[c] # NONE =>
       \E d \in Conns \ {c} : Remove(message[c].file) \in Commands[d]
  /\ writers[c] # {} => orphan[c] = <<>>

DownloadsOK == \A c \in Conns : DownloadAt(c)

\* The uploads of different clients have different names.
OwnUploads ==
  \A c, d \in Conns : \A f \in FileNames :
    Put(f) \in Commands[c] /\ Put(f) \in Commands[d] => c = d

\* No block number has come round to 0, which a client takes for the first ACK.
NoWrap ==
  \A c \in Conns : \A p \in Packets(toServer[c]) : p.op = "DATA" => p.block # 0
=============================================================================
