----------------------------- MODULE TFTPClient -----------------------------
(***************************************************************************)
(* The C++ client: the keyboard thread (readFromKeyboardTask) types a      *)
(* command into ClientProtocol and sends it, the socket thread             *)
(* (communicateWithServerTask) hands every packet it decodes to            *)
(* ClientProtocol.process.  Each client is joined to the server by two     *)
(* channels, the directions of its TCP connection.                         *)
(*                                                                         *)
(* The user types no command while one is waiting for its answer, which    *)
(* the assignment lets the client assume (section 2.3).                    *)
(***************************************************************************)
EXTENDS TFTPData

CONSTANTS Clients,
          Commands,   \* the commands the user of each client may type
          MaxCmd,     \* bound: commands each user types
          InitLocal   \* the directory each client is started in

VARIABLES
  cl,        \* the ClientProtocol object of each client, as a record
  ncmd,      \* commands typed: bounded by MaxCmd
  local,     \* the client's directory: contents, or NONE
  toServer,  \* packets on their way to the server
  toClient   \* packets on their way to the client

\* logReq, discReq, delReq, uploadReq, readReq and dirqReq of the code are
\* req["LOGRQ"], ...: what the command named, or NONE for "def".
Ops == {"LOGRQ", "DISC", "DELRQ", "WRQ", "RRQ", "DIRQ"}

ClientProtocol ==
  [req : [Ops -> Names \cup Users \cup {NONE}],
   lastOperation : Ops \cup {NONE},
   numOfChunksSent : BlockNum,
   toSendVec : MaybeData,
   goingToFinish : BOOLEAN,
   wholeFile : Seq(Bytes),
   connected : BOOLEAN,  \* ConnectionHandler
   typing : BOOLEAN]     \* the keyboard thread is in its loop

TypeOK ==
  /\ cl \in [Clients -> ClientProtocol]
  /\ ncmd \in [Clients -> Nat]
  /\ local \in [Clients -> [FileNames -> MaybeData]]
  /\ toServer \in [Clients -> Seq(Request)]
  /\ toClient \in [Clients -> Seq(Packet)]

Init ==
  /\ cl = [c \in Clients |->
             [req |-> [op \in Ops |-> NONE], lastOperation |-> NONE,
              numOfChunksSent |-> 0, toSendVec |-> NONE, goingToFinish |-> FALSE,
              wholeFile |-> <<>>, connected |-> TRUE, typing |-> TRUE]]
  /\ ncmd = [c \in Clients |-> 0]
  /\ local = InitLocal
  /\ toServer = [c \in Clients |-> <<>>]
  /\ toClient = [c \in Clients |-> <<>>]

-----------------------------------------------------------------------------
(* The keyboard thread.                                                    *)

\* Some command has not had its answer yet.
Waiting(c) == \E op \in Ops : cl[c].req[op] # NONE

Argument(cmd) == CASE cmd.op = "LOGRQ" -> cmd.user
                   [] cmd.op \in {"RRQ", "WRQ", "DELRQ"} -> cmd.file
                   [] OTHER -> EmptyName

\* processFromKeyboard, HandleWithRequest and sendPacket; a DISC ends the loop.
Command(c) ==
  /\ cl[c].connected
  /\ cl[c].typing
  /\ ~Waiting(c)
  /\ ncmd[c] < MaxCmd[c]
  /\ \E cmd \in Commands[c] :
       /\ cl' = [cl EXCEPT ![c] =
            [@ EXCEPT !.req[cmd.op] = Argument(cmd),
                      !.lastOperation = cmd.op,
                      !.wholeFile = IF cmd.op = "RRQ" THEN <<>>
                                    ELSE cl[c].wholeFile,
                      !.typing = cmd.op # "DISC"]]
       /\ toServer' = [toServer EXCEPT ![c] = Append(@, cmd)]
  /\ ncmd' = [ncmd EXCEPT ![c] = @ + 1]
  /\ UNCHANGED <<local, toClient>>

-----------------------------------------------------------------------------
(* The socket thread: ClientProtocol.process on the next packet.           *)

Gets(c, op) == /\ cl[c].connected
               /\ toClient[c] # <<>>
               /\ Head(toClient[c]).op = op

\* process leaves the object as k and sends pkts.
Processed(c, k, pkts) ==
  /\ cl' = [cl EXCEPT ![c] = k]
  /\ toClient' = [toClient EXCEPT ![c] = Tail(@)]
  /\ toServer' = [toServer EXCEPT ![c] = @ \o pkts]
  /\ UNCHANGED ncmd

\* dealWithACK asks for the flags one after the other: those before op.
Before(op) == CASE op = "LOGRQ" -> {}
                [] op = "DISC" -> {"LOGRQ"}
                [] op = "DELRQ" -> {"LOGRQ", "DISC"}
                [] op = "WRQ" -> {"LOGRQ", "DISC", "DELRQ"}

Acknowledges(c, op) ==
  /\ Gets(c, "ACK")
  /\ cl[c].req[op] # NONE
  /\ \A earlier \in Before(op) : cl[c].req[earlier] = NONE

AckPlain(c) ==
  /\ \E op \in {"LOGRQ", "DELRQ"} :
       /\ Acknowledges(c, op)
       /\ Processed(c, [cl[c] EXCEPT !.req[op] = NONE], <<>>)
  /\ UNCHANGED local

AckDisc(c) ==
  /\ Acknowledges(c, "DISC")
  /\ Processed(c, [cl[c] EXCEPT !.req["DISC"] = NONE, !.connected = FALSE], <<>>)
  /\ UNCHANGED local

\* Mutant: a block that was sent is not taken off toSendVec.
SendNextKeeps(c, buf) ==
  LET last == Len(buf) < BlockSize
      n == NextBlock(cl[c].numOfChunksSent)
  IN Processed(c, [cl[c] EXCEPT !.numOfChunksSent = n,
                                !.toSendVec = IF last THEN <<>> ELSE buf,
                                !.goingToFinish = last \/ @],
               <<DataPacket(n, IF last THEN buf ELSE Prefix(buf))>>)

\* sendNextPacket with buf in toSendVec: a short rest is the last packet.
SendNextPacket(c, buf) ==
  LET last == Len(buf) < BlockSize
      n == NextBlock(cl[c].numOfChunksSent)
  IN Processed(c, [cl[c] EXCEPT !.numOfChunksSent = n,
                                !.toSendVec = IF last THEN <<>> ELSE Suffix(buf),
                                !.goingToFinish = last \/ @],
               <<DataPacket(n, IF last THEN buf ELSE Prefix(buf))>>)

Uploaded(c) == cl[c].goingToFinish /\ cl[c].toSendVec = <<>>
Block(c) == Head(toClient[c]).block

\* ACK 0 reads the file, of which an absent one looks empty; nothing is sent
\* of an empty file.
UploadStart(c) ==
  /\ Acknowledges(c, "WRQ")
  /\ ~Uploaded(c)
  /\ Block(c) = 0
  /\ LET f == cl[c].req["WRQ"]
         buf == IF f \in FileNames /\ local[c][f] # NONE THEN local[c][f] ELSE <<>>
     IN IF buf # <<>> THEN SendNextPacket(c, buf)
        ELSE Processed(c, [cl[c] EXCEPT !.toSendVec = <<>>], <<>>)
  /\ UNCHANGED local

UploadNext(c) ==
  /\ Acknowledges(c, "WRQ")
  /\ ~Uploaded(c)
  /\ Block(c) # 0
  /\ SendNextPacket(c, cl[c].toSendVec)
  /\ UNCHANGED local

\* Mutant: goingToFinish outlives the upload.
UploadStaysFinished(c) ==
  /\ Acknowledges(c, "WRQ")
  /\ Uploaded(c)
  /\ Processed(c, [cl[c] EXCEPT !.req["WRQ"] = NONE], <<>>)
  /\ UNCHANGED local

UploadComplete(c) ==
  /\ Acknowledges(c, "WRQ")
  /\ Uploaded(c)
  /\ Processed(c, [cl[c] EXCEPT !.req["WRQ"] = NONE, !.goingToFinish = FALSE], <<>>)
  /\ UNCHANGED local

\* dealWithDATA while a download is the last operation.
\* Mutant: a block is put before what has been received.
DataInFirst(c) == Head(toClient[c]).data \o cl[c].wholeFile

DataIn(c) == cl[c].wholeFile \o Head(toClient[c]).data
Downloads(c) == Gets(c, "DATA") /\ cl[c].lastOperation = "RRQ"

\* Mutant: a full block ends the download.
DownloadOneBlock(c) ==
  /\ Downloads(c)
  /\ Len(Head(toClient[c]).data) = BlockSize
  /\ Processed(c, [cl[c] EXCEPT !.wholeFile = DataIn(c), !.req["RRQ"] = NONE],
               <<AckPacket(Block(c))>>)
  /\ UNCHANGED local

DownloadNext(c) ==
  /\ Downloads(c)
  /\ Len(Head(toClient[c]).data) = BlockSize
  /\ Processed(c, [cl[c] EXCEPT !.wholeFile = DataIn(c)], <<AckPacket(Block(c))>>)
  /\ UNCHANGED local

DownloadComplete(c) ==
  /\ Downloads(c)
  /\ Len(Head(toClient[c]).data) < BlockSize
  /\ local' = [local EXCEPT ![c][cl[c].req["RRQ"]] = DataIn(c)]
  /\ Processed(c, [cl[c] EXCEPT !.req["RRQ"] = NONE, !.wholeFile = <<>>],
               <<AckPacket(Block(c))>>)

\* A listing is printed and acknowledged.
Listing(c) ==
  /\ Gets(c, "LIST")
  /\ cl[c].lastOperation = "DIRQ"
  /\ Processed(c, [cl[c] EXCEPT !.req["DIRQ"] = NONE, !.wholeFile = <<>>],
               <<AckPacket(1)>>)
  /\ UNCHANGED local

\* A BCAST is printed; what nobody waits for is dropped.
Dropped(c) ==
  /\ \/ Gets(c, "BCAST")
     \/ /\ Gets(c, "ACK")
        /\ \A op \in {"LOGRQ", "DISC", "DELRQ", "WRQ"} : cl[c].req[op] = NONE
     \/ Gets(c, "DATA") /\ cl[c].lastOperation \notin {"RRQ", "DIRQ"}
  /\ Processed(c, cl[c], <<>>)
  /\ UNCHANGED local

\* Mutant: the request an ERROR refuses is not forgotten.
ErrorKeepsRequest(c) ==
  /\ Gets(c, "ERROR")
  /\ Processed(c, cl[c], <<>>)
  /\ UNCHANGED local

ErrorPrinted(c) ==
  /\ Gets(c, "ERROR")
  /\ LET op == cl[c].lastOperation
     IN IF op = NONE THEN Processed(c, cl[c], <<[op |-> "ERROR"]>>)
        ELSE Processed(c, [cl[c] EXCEPT !.req[op] = NONE], <<>>)
  /\ UNCHANGED local

SocketThread(c) ==
  \/ AckPlain(c) \/ AckDisc(c)
  \/ UploadStart(c) \/ UploadNext(c) \/ UploadComplete(c)
  \/ DownloadNext(c) \/ DownloadComplete(c)
  \/ Listing(c) \/ Dropped(c) \/ ErrorPrinted(c)
=============================================================================
