----------------------------- MODULE TFTPServer -----------------------------
(***************************************************************************)
(* The thread-per-client TFTP server: the accept loop, one thread per      *)
(* connection (BlockingConnectionHandler) that decodes a request and runs  *)
(* TFTPProtocolImpl.process on it, the two HashMaps the threads share      *)
(* without a lock (connectionsQueue and the static loggedInUsers) and the  *)
(* directory Files.  A client is the environment: it may send any request  *)
(* of Requests[c] whenever its thread reads, or close its socket.          *)
(*                                                                         *)
(* A handler is split wherever another thread can see or change what it    *)
(* uses: between two steps of an iterator over loggedInUsers, between the  *)
(* search in a map and the put, between the directory listing and the      *)
(* operation on the file, and between the calls that open, measure, read   *)
(* and write it.                                                           *)
(***************************************************************************)
EXTENDS TFTPData
LOCAL INSTANCE FiniteSetsExt

CONSTANTS Conns,        \* connection handlers, one per accepted socket
          Requests,     \* the requests the client of each connection may send
          MaxReq,       \* bound: requests a connection receives
          InitFiles,    \* the directory Files when the server starts
          NameBytes,    \* bytes of a file name in a listing, its '\0' included
          ListingSize,  \* 512 of handleSendingData, scaled to NameBytes
          MayCrash,     \* whether clients may close their sockets
          MayFailWrite  \* whether storing a file may throw an IOException

ASSUME ServerAssumption ==
  /\ Requests \in [Conns -> SUBSET Request]
  /\ MaxReq \in Nat
  /\ InitFiles \in [FileNames -> MaybeData]
  /\ NameBytes \in [FileNames -> Nat]
  /\ ListingSize \in Nat
  /\ MayCrash \in BOOLEAN
  /\ MayFailWrite \in BOOLEAN
  /\ NONE \notin Request
  /\ NONE \notin Users

VARIABLES
  connectionsCounter, \* BaseServer: the last id given out
  connectionsQueue,   \* ConnectionsImpl: id -> handler, a partial function
  loggedInUsers,      \* TFTPProtocolImpl, static: nickname -> id, partial
  files,              \* the directory Files: contents, or NONE
  pc,                 \* where each handler thread is
  myId,               \* the id the handler was constructed with
  message,            \* the request being processed, or the last one
  nreq,               \* requests received: bounded by MaxReq
  due,                \* history: packets of a transfer due an answer then
  out,                \* written to the socket since the last request came in
  myConnectionState, shouldTerminate, goingToBeReceived,
  wholeFile,          \* the byte arrays of the list, concatenated
  accSize,
  toDownload,         \* toDownloadBytesArr
  blockNum,           \* blockNumToSendByAck
  linked,             \* the file the thread writes is still in Files
  orphan,             \* what the file it reads holds, if that was removed
  writers,            \* the threads that have that removed file to write
  iter,               \* what the thread's iterator has yet to return
  stale,              \* its expectedModCount differs from modCount
  found,              \* nicknames the search has matched so far
  dest,               \* the id a broadcast is about to be sent to
  seen,               \* keys of the shared map when the thread's put began
  nick                \* history: the name the connection logged in with

server  == <<connectionsCounter, connectionsQueue, myId>>
session == <<myConnectionState, shouldTerminate, nick>>
upload  == <<goingToBeReceived, wholeFile, accSize>>
download == <<toDownload, blockNum>>
loop    == <<iter, stale, found, dest, seen>>
input   == <<message, nreq, due>>
disk    == <<files, linked, orphan, writers>>

vars == <<server, loggedInUsers, disk, pc, input, out, session, upload,
          download, loop>>

Ids == Nat \ {0}

TypeOK ==
  /\ connectionsCounter \in Nat
  /\ DOMAIN connectionsQueue \subseteq Ids
  /\ connectionsQueue \in [DOMAIN connectionsQueue -> Conns]
  /\ DOMAIN loggedInUsers \subseteq Users
  /\ loggedInUsers \in [DOMAIN loggedInUsers -> Ids]
  /\ files \in [FileNames -> MaybeData]
  /\ pc \in [Conns -> {"idle", "start", "adding", "listen", "decode", "logrq",
                       "put", "ack", "rrq", "length", "read", "write", "del",
                       "bcast", "deliver", "disc", "exit", "deaf", "closed",
                       "dead"}]
  /\ myId \in [Conns -> Nat]
  /\ message \in [Conns -> Request \cup {NONE}]
  /\ nreq \in [Conns -> 0 .. MaxReq]
  /\ due \in [Conns -> SUBSET {"DATA", "ACK"}]
  /\ out \in [Conns -> Seq([from : Conns, pkt : Packet])]
  /\ myConnectionState \in [Conns -> BOOLEAN]
  /\ shouldTerminate \in [Conns -> BOOLEAN]
  /\ goingToBeReceived \in [Conns -> FileNames \cup {NONE}]
  /\ wholeFile \in [Conns -> Seq(Bytes)]
  /\ accSize \in [Conns -> Nat]
  /\ toDownload \in [Conns -> MaybeData]
  /\ blockNum \in [Conns -> BlockNum]
  /\ linked \in [Conns -> BOOLEAN]
  /\ orphan \in [Conns -> MaybeData]
  /\ writers \in [Conns -> SUBSET Conns]
  /\ iter \in [Conns -> SUBSET Users]
  /\ stale \in [Conns -> BOOLEAN]
  /\ found \in [Conns -> SUBSET Users]
  /\ dest \in [Conns -> Nat]
  /\ seen \in [Conns -> SUBSET (Ids \cup Users)]
  /\ nick \in [Conns -> Users \cup {NONE}]

-----------------------------------------------------------------------------
(* What the handlers are made of.                                          *)

Goto(c, l) == pc' = [pc EXCEPT ![c] = l]

\* The socket of c can be written to: its stream exists until run() ends.
IsOpen(c) == pc[c] \notin {"idle", "start", "closed", "dead"}

\* ConnectionsImpl.send by thread c: an unknown id and a closed socket are
\* both swallowed.
Send(c, id, pkts) ==
  IF id \in DOMAIN connectionsQueue /\ IsOpen(connectionsQueue[id])
  THEN out' = [out EXCEPT ![connectionsQueue[id]] =
                 @ \o [i \in 1 .. Len(pkts) |-> [from |-> c, pkt |-> pkts[i]]]]
  ELSE out' = out

Reply(c, pkt) == Send(c, myId[c], <<pkt>>)

\* A structural change of loggedInUsers outdates every iterator in use.
Modified(its) == stale' = [d \in Conns |-> stale[d] \/ its[d] # {}]

\* Iterator over loggedInUsers, for thread c.
StartLoop(c) ==
  /\ iter' = [iter EXCEPT ![c] = DOMAIN loggedInUsers]
  /\ stale' = [stale EXCEPT ![c] = FALSE]
  /\ found' = [found EXCEPT ![c] = {}]

\* Outcomes of m.put(k, v) by a thread that entered put when the keys of m
\* were before: puts that overlap can lose entries, never the last writer's.
PutOutcomes(m, before, k, v) ==
  LET racing == (DOMAIN m \ before) \ {k}
      put == [x \in DOMAIN m \cup {k} |-> IF x = k THEN v ELSE m[x]]
  IN {[x \in DOMAIN put \ lost |-> put[x]] :
        lost \in IF racing = {} THEN {{}}
                 ELSE SUBSET (racing \cup {k}) \ {racing \cup {k}}}

OnDisk == {f \in FileNames : files[f] # NONE}

\* An uncaught RuntimeException ends the thread; run() closes the socket.
Die(c) ==
  /\ Goto(c, "dead")
  /\ iter' = [iter EXCEPT ![c] = {}]
  /\ stale' = [stale EXCEPT ![c] = FALSE]
  /\ found' = [found EXCEPT ![c] = {}]
  /\ UNCHANGED <<dest, seen, server, loggedInUsers, input, out, session,
                 upload, download>>

-----------------------------------------------------------------------------
(* Accepting a connection and starting its handler.                        *)

\* Mutant: every handler gets the same id, as in Reactor.handleAccept.
AcceptSameId(c) ==
  /\ pc[c] = "idle"
  /\ myId' = [myId EXCEPT ![c] = 101]
  /\ Goto(c, "start")
  /\ UNCHANGED <<connectionsCounter, connectionsQueue, loggedInUsers, disk,
                 input, out, session, upload, download, loop>>

\* BaseServer.serve: the counter numbers the handler, which gets a thread.
Accept(c) ==
  /\ pc[c] = "idle"
  /\ connectionsCounter' = connectionsCounter + 1
  /\ myId' = [myId EXCEPT ![c] = connectionsCounter']
  /\ Goto(c, "start")
  /\ UNCHANGED <<connectionsQueue, loggedInUsers, disk, input, out, session,
                 upload, download, loop>>

\* run(): streams, protocol.start, and connectionsQueue.put begins.
RunAdd(c) ==
  /\ pc[c] = "start"
  /\ seen' = [seen EXCEPT ![c] = DOMAIN connectionsQueue]
  /\ Goto(c, "adding")
  /\ UNCHANGED <<server, loggedInUsers, disk, input, out, session, upload,
                 download, iter, stale, found, dest>>

RunPut(c) ==
  /\ pc[c] = "adding"
  /\ connectionsQueue' \in PutOutcomes(connectionsQueue, seen[c], myId[c], c)
  /\ seen' = [seen EXCEPT ![c] = {}]
  /\ Goto(c, "listen")
  /\ UNCHANGED <<connectionsCounter, myId, loggedInUsers, disk, input, out,
                 session, upload, download, iter, stale, found, dest>>

\* A transfer is under way: its next packet is answered.
Due(c) == (IF goingToBeReceived[c] # NONE THEN {"DATA"} ELSE {})
             \cup (IF toDownload[c] \notin {NONE, <<>>} THEN {"ACK"} ELSE {})

\* in.read() returns the last byte of a request: decodeNextByte completes it.
\* The client has read what the server wrote before.
Receive(c) ==
  /\ pc[c] = "listen"
  /\ nreq[c] < MaxReq
  /\ \E r \in Requests[c] :
       /\ message' = [message EXCEPT ![c] = r]
       /\ Goto(c, IF r.op = "DATA" /\ r.data = <<>> THEN "deaf" ELSE "decode")
  /\ nreq' = [nreq EXCEPT ![c] = @ + 1]
  /\ due' = [due EXCEPT ![c] = Due(c)]
  /\ out' = [out EXCEPT ![c] = <<>>]
  /\ UNCHANGED <<server, loggedInUsers, disk, session, upload, download, loop>>

\* in.read() returns -1 or throws: nothing but the socket is released.
Eof(c) ==
  /\ MayCrash
  /\ pc[c] \in {"listen", "deaf"}
  /\ Goto(c, "closed")
  /\ UNCHANGED <<server, loggedInUsers, disk, input, out, session, upload,
                 download, loop>>

\* The read loop sees shouldTerminate and leaves; the socket is closed.
Close(c) ==
  /\ pc[c] = "exit"
  /\ Goto(c, "closed")
  /\ UNCHANGED <<server, loggedInUsers, disk, input, out, session, upload,
                 download, loop>>

-----------------------------------------------------------------------------
(* TFTPProtocolImpl.process.                                               *)

\* Process dispatches on the opcode; all but LOGRQ need a login.
Processing(c, op) ==
  pc[c] = "decode" /\ message[c].op = op /\ myConnectionState[c]

NotLoggedIn(c) ==
  /\ pc[c] = "decode"
  /\ message[c].op # "LOGRQ"
  /\ ~myConnectionState[c]
  /\ Reply(c, ErrorPacket(6))
  /\ Goto(c, "listen")
  /\ UNCHANGED <<server, loggedInUsers, disk, input, session, upload, download,
                 loop>>

\* A handler that answers with one packet and changes nothing else.
Answer(c, pkt) ==
  /\ Reply(c, pkt)
  /\ Goto(c, "listen")
  /\ UNCHANGED <<server, loggedInUsers, disk, input, session, loop>>

LogrqAgain(c) ==
  /\ Processing(c, "LOGRQ")
  /\ Answer(c, ErrorPacket(7))
  /\ UNCHANGED <<upload, download>>

LogrqBegin(c) ==
  /\ pc[c] = "decode"
  /\ message[c].op = "LOGRQ"
  /\ ~myConnectionState[c]
  /\ StartLoop(c)
  /\ Goto(c, "logrq")
  /\ UNCHANGED <<server, loggedInUsers, disk, input, out, session, upload,
                 download, dest, seen>>

\* One turn of the search: it answers ERROR 7 at a match and goes on.
LogrqNext(c) ==
  /\ pc[c] = "logrq"
  /\ iter[c] # {}
  /\ ~stale[c]
  /\ \E u \in iter[c] :
       /\ iter' = [iter EXCEPT ![c] = @ \ {u}]
       /\ IF u = message[c].user
          THEN /\ Reply(c, ErrorPacket(7))
               /\ found' = [found EXCEPT ![c] = {u}]
          ELSE UNCHANGED <<out, found>>
  /\ UNCHANGED <<server, loggedInUsers, disk, pc, input, session, upload,
                 download, stale, dest, seen>>

\* Mutant: the flag loggedIn is not looked at.
LogrqEndAnyway(c) ==
  /\ pc[c] = "logrq"
  /\ iter[c] = {}
  /\ found' = [found EXCEPT ![c] = {}]
  /\ seen' = [seen EXCEPT ![c] = DOMAIN loggedInUsers]
  /\ Goto(c, "put")
  /\ UNCHANGED <<server, loggedInUsers, disk, input, out, session, upload,
                 download, iter, stale, dest>>

LogrqEnd(c) ==
  /\ pc[c] = "logrq"
  /\ iter[c] = {}
  /\ found' = [found EXCEPT ![c] = {}]
  /\ IF found[c] = {}
     THEN /\ seen' = [seen EXCEPT ![c] = DOMAIN loggedInUsers]
          /\ Goto(c, "put")
     ELSE /\ seen' = seen
          /\ Goto(c, "listen")
  /\ UNCHANGED <<server, loggedInUsers, disk, input, out, session, upload,
                 download, iter, stale, dest>>

LogrqPut(c) ==
  /\ pc[c] = "put"
  /\ loggedInUsers' \in
       PutOutcomes(loggedInUsers, seen[c], message[c].user, myId[c])
  /\ IF message[c].user \in DOMAIN loggedInUsers
        /\ DOMAIN loggedInUsers' = DOMAIN loggedInUsers
     THEN stale' = stale
     ELSE Modified(iter)
  /\ nick' = [nick EXCEPT ![c] = message[c].user]
  /\ seen' = [seen EXCEPT ![c] = {}]
  /\ Goto(c, "ack")
  /\ UNCHANGED <<server, disk, input, out, myConnectionState, shouldTerminate,
                 upload, download, iter, found, dest>>

LogrqAck(c) ==
  /\ pc[c] = "ack"
  /\ Reply(c, AckPacket(0))
  /\ myConnectionState' = [myConnectionState EXCEPT ![c] = TRUE]
  /\ Goto(c, "listen")
  /\ UNCHANGED <<server, loggedInUsers, disk, input, shouldTerminate, nick,
                 upload, download, loop>>

-----------------------------------------------------------------------------
(* Downloads and the directory listing.                                    *)

RrqRefused(c) ==
  /\ Processing(c, "RRQ")
  /\ message[c].file \notin OnDisk
  /\ Answer(c, ErrorPacket(IF message[c].file = EmptyName THEN 0 ELSE 1))
  /\ UNCHANGED <<upload, download>>

RrqFound(c) ==
  /\ Processing(c, "RRQ")
  /\ message[c].file \in OnDisk
  /\ Goto(c, "rrq")
  /\ UNCHANGED <<server, loggedInUsers, disk, input, out, session, upload,
                 download, loop>>

\* handleReadingACK on buffer buf.
HandleReadingACK(c, buf) ==
  /\ Send(c, myId[c], BlocksOf(buf, blockNum[c]))
  /\ toDownload' = [toDownload EXCEPT ![c] = BufferAfter(buf)]
  /\ blockNum' = [blockNum EXCEPT ![c] = BlockAfter(buf, @)]
  /\ Goto(c, "listen")
  /\ UNCHANGED <<server, loggedInUsers, input, session, upload, loop>>

\* new FileInputStream(file)
RrqOpen(c) ==
  /\ pc[c] = "rrq"
  /\ message[c].file \in OnDisk
  /\ Goto(c, "length")
  /\ UNCHANGED <<server, loggedInUsers, disk, input, out, session, upload,
                 download, loop>>

\* The file thread d reads is still the one of that name in Files.
Reads(d, f) == /\ pc[d] \in {"length", "read"}
               /\ message[d].file = f
               /\ orphan[d] = NONE

\* file.length() asks for the size of whatever has the name by now.
RrqLength(c) ==
  /\ pc[c] = "length"
  /\ LET f == message[c].file
         length == IF f \in OnDisk THEN Len(files[f]) ELSE 0
     IN toDownload' = [toDownload EXCEPT ![c] = Pad(<<>>, length)]
  /\ Goto(c, "read")
  /\ UNCHANGED <<server, loggedInUsers, disk, input, out, session, upload,
                 blockNum, loop>>

\* fis.read fills the array from the file that was opened; handleReadingACK.
RrqRead(c) ==
  /\ pc[c] = "read"
  /\ LET opened == IF orphan[c] = NONE THEN files[message[c].file] ELSE orphan[c]
     IN HandleReadingACK(c, Pad(opened, Len(toDownload[c])))
  /\ orphan' = [orphan EXCEPT ![c] = NONE]
  /\ writers' = [writers EXCEPT ![c] = {}]
  /\ UNCHANGED <<files, linked>>

\* FileInputStream throws: the file was deleted after the listing.
RrqGone(c) ==
  /\ pc[c] = "rrq"
  /\ message[c].file \notin OnDisk
  /\ Die(c)
  /\ UNCHANGED disk

AckMore(c) ==
  /\ Processing(c, "ACK")
  /\ toDownload[c] \notin {NONE, <<>>}
  /\ HandleReadingACK(c, toDownload[c])
  /\ UNCHANGED disk

\* Nothing is being sent: the ACK is dropped.
AckIgnored(c) ==
  /\ Processing(c, "ACK")
  /\ toDownload[c] \in {NONE, <<>>}
  /\ Goto(c, "listen")
  /\ UNCHANGED <<server, loggedInUsers, disk, input, out, session, upload,
                 download, loop>>

ListingBytes(names) == MapThenSumSet(LAMBDA f : NameBytes[f], names)

Dirq(c) ==
  /\ Processing(c, "DIRQ")
  /\ ListingBytes(OnDisk) < ListingSize
  /\ Answer(c, ListPacket(OnDisk))
  /\ UNCHANGED <<upload, download>>

\* cutFirst512dirqArr reads dirqArr, which is null: NullPointerException.
DirqTooLong(c) ==
  /\ Processing(c, "DIRQ")
  /\ ListingBytes(OnDisk) >= ListingSize
  /\ Die(c)
  /\ UNCHANGED disk

-----------------------------------------------------------------------------
(* Uploads.                                                                *)

WrqRefused(c) ==
  /\ Processing(c, "WRQ")
  /\ message[c].file \in OnDisk \cup {EmptyName}
  /\ Answer(c, ErrorPacket(IF message[c].file = EmptyName THEN 0 ELSE 5))
  /\ UNCHANGED <<upload, download>>

\* Mutants: a file of that name is not looked for; the blocks of an abandoned
\* upload are kept.
WrqUnchecked(c) ==
  /\ Processing(c, "WRQ")
  /\ message[c].file # EmptyName
  /\ goingToBeReceived' = [goingToBeReceived EXCEPT ![c] = message[c].file]
  /\ accSize' = [accSize EXCEPT ![c] = 0]
  /\ wholeFile' = [wholeFile EXCEPT ![c] = <<>>]
  /\ Answer(c, AckPacket(0))
  /\ UNCHANGED download

WrqKeepsBlocks(c) ==
  /\ Processing(c, "WRQ")
  /\ message[c].file \notin OnDisk \cup {EmptyName}
  /\ goingToBeReceived' = [goingToBeReceived EXCEPT ![c] = message[c].file]
  /\ accSize' = [accSize EXCEPT ![c] = 0]
  /\ Answer(c, AckPacket(0))
  /\ UNCHANGED <<wholeFile, download>>

WrqAccepted(c) ==
  /\ Processing(c, "WRQ")
  /\ message[c].file \notin OnDisk \cup {EmptyName}
  /\ goingToBeReceived' = [goingToBeReceived EXCEPT ![c] = message[c].file]
  /\ accSize' = [accSize EXCEPT ![c] = 0]
  /\ wholeFile' = [wholeFile EXCEPT ![c] = <<>>]
  /\ Answer(c, AckPacket(0))
  /\ UNCHANGED download

DataIgnored(c) ==
  /\ Processing(c, "DATA")
  /\ goingToBeReceived[c] = NONE
  /\ Goto(c, "listen")
  /\ UNCHANGED <<server, loggedInUsers, disk, input, out, session, upload,
                 download, loop>>

Receiving(c) == Processing(c, "DATA") /\ goingToBeReceived[c] # NONE

\* wholeFile is cleared, accSize is not.
DataOversize(c) ==
  /\ Receiving(c)
  /\ Len(message[c].data) > BlockSize
  /\ wholeFile' = [wholeFile EXCEPT ![c] = <<>>]
  /\ Answer(c, ErrorPacket(0))
  /\ UNCHANGED <<goingToBeReceived, accSize, download>>

DataFull(c) ==
  /\ Receiving(c)
  /\ Len(message[c].data) = BlockSize
  /\ wholeFile' = [wholeFile EXCEPT ![c] = @ \o message[c].data]
  /\ accSize' = [accSize EXCEPT ![c] = @ + Len(message[c].data)]
  /\ Answer(c, AckPacket(message[c].block))
  /\ UNCHANGED <<goingToBeReceived, download>>

\* new FileOutputStream(path) creates the file or truncates it.
DataLast(c) ==
  /\ Receiving(c)
  /\ Len(message[c].data) < BlockSize
  /\ wholeFile' = [wholeFile EXCEPT ![c] = @ \o message[c].data]
  /\ accSize' = [accSize EXCEPT ![c] = @ + Len(message[c].data)]
  /\ files' = [files EXCEPT ![goingToBeReceived[c]] = <<>>]
  /\ linked' = [linked EXCEPT ![c] = TRUE]
  /\ Goto(c, "write")
  /\ UNCHANGED <<server, loggedInUsers, orphan, writers, input, out, session,
                 goingToBeReceived, download, loop>>

\* The stream to write to is closed, or its thread has died.
StreamClosed(c) ==
  /\ linked' = [linked EXCEPT ![c] = FALSE]
  /\ writers' = [d \in Conns |-> writers[d] \ {c}]

\* write(res) and close, the ACK, and the loop over loggedInUsers.values().  A
\* file that was removed is written to all the same, for those who read it.
DataWrite(c) ==
  /\ pc[c] = "write"
  /\ LET res == Pad(wholeFile[c], accSize[c])
     IN /\ files' = IF linked[c]
                    THEN [files EXCEPT ![goingToBeReceived[c]] = Overlay(res, @)]
                    ELSE files
        /\ orphan' = [d \in Conns |-> IF c \in writers[d] THEN Overlay(res, orphan[d])
                                      ELSE orphan[d]]
  /\ StreamClosed(c)
  /\ wholeFile' = [wholeFile EXCEPT ![c] = <<>>]
  /\ Reply(c, AckPacket(message[c].block))
  /\ StartLoop(c)
  /\ Goto(c, "bcast")
  /\ UNCHANGED <<server, loggedInUsers, input, session, goingToBeReceived,
                 accSize, download, dest, seen>>

\* new FileOutputStream(path) throws: there is no file of that name.
OpenFails(c) ==
  /\ MayFailWrite
  /\ Receiving(c)
  /\ Len(message[c].data) < BlockSize
  /\ Die(c)
  /\ UNCHANGED disk

\* write(res) throws: the truncated file stays in the directory.
WriteFails(c) ==
  /\ MayFailWrite
  /\ pc[c] = "write"
  /\ StreamClosed(c)
  /\ Die(c)
  /\ UNCHANGED <<files, orphan>>

-----------------------------------------------------------------------------
(* Deletion.                                                               *)

DelrqRefused(c) ==
  /\ Processing(c, "DELRQ")
  /\ message[c].file \notin OnDisk
  /\ Answer(c, ErrorPacket(IF message[c].file = EmptyName THEN 0 ELSE 1))
  /\ UNCHANGED <<upload, download>>

DelrqFound(c) ==
  /\ Processing(c, "DELRQ")
  /\ message[c].file \in OnDisk
  /\ Goto(c, "del")
  /\ UNCHANGED <<server, loggedInUsers, disk, input, out, session, upload,
                 download, loop>>

\* The result of file.delete() is ignored.  Those who have the file open keep
\* it: readers what it holds, and what its writers are yet to write.
DelrqDelete(c) ==
  /\ pc[c] = "del"
  /\ LET f == message[c].file
         open == {d \in Conns : linked[d] /\ goingToBeReceived[d] = f}
     IN /\ files' = [files EXCEPT ![f] = NONE]
        /\ linked' = [d \in Conns |-> linked[d] /\ d \notin open]
        /\ orphan' = [d \in Conns |-> IF Reads(d, f) THEN files[f] ELSE orphan[d]]
        /\ writers' = [d \in Conns |-> IF Reads(d, f) THEN open ELSE writers[d]]
  /\ Reply(c, AckPacket(0))
  /\ StartLoop(c)
  /\ Goto(c, "bcast")
  /\ UNCHANGED <<server, loggedInUsers, input, session, upload, download, dest,
                 seen>>

-----------------------------------------------------------------------------
(* BCAST to every id of loggedInUsers, one turn of the loop at a time.     *)

\* Mutants: the broadcast walks connectionsQueue, as Connections.broadcast does;
\* it stops after the first client; its loop does not advance.
BcastToAll(c) ==
  /\ pc[c] = "bcast"
  /\ iter[c] # {}
  /\ ~stale[c]
  /\ \E u \in iter[c] : iter' = [iter EXCEPT ![c] = @ \ {u}]
  /\ \E i \in DOMAIN connectionsQueue : dest' = [dest EXCEPT ![c] = i]
  /\ Goto(c, "deliver")
  /\ UNCHANGED <<server, loggedInUsers, disk, input, out, session, upload,
                 download, stale, found, seen>>

BcastFirst(c) ==
  /\ pc[c] = "bcast"
  /\ iter[c] # {}
  /\ ~stale[c]
  /\ \E u \in iter[c] : dest' = [dest EXCEPT ![c] = loggedInUsers[u]]
  /\ iter' = [iter EXCEPT ![c] = {}]
  /\ Goto(c, "deliver")
  /\ UNCHANGED <<server, loggedInUsers, disk, input, out, session, upload,
                 download, stale, found, seen>>

BcastAgain(c) ==
  /\ pc[c] = "bcast"
  /\ iter[c] # {}
  /\ ~stale[c]
  /\ \E u \in iter[c] : dest' = [dest EXCEPT ![c] = loggedInUsers[u]]
  /\ Goto(c, "deliver")
  /\ UNCHANGED <<server, loggedInUsers, disk, input, out, session, upload,
                 download, iter, stale, found, seen>>

BcastNext(c) ==
  /\ pc[c] = "bcast"
  /\ iter[c] # {}
  /\ ~stale[c]
  /\ \E u \in iter[c] :
       /\ iter' = [iter EXCEPT ![c] = @ \ {u}]
       /\ dest' = [dest EXCEPT ![c] = loggedInUsers[u]]
  /\ Goto(c, "deliver")
  /\ UNCHANGED <<server, loggedInUsers, disk, input, out, session, upload,
                 download, stale, found, seen>>

BcastSent(c) ==
  IF message[c].op = "DATA"
  THEN BCastPacket(TRUE, goingToBeReceived[c])
  ELSE BCastPacket(FALSE, message[c].file)

BcastDeliver(c) ==
  /\ pc[c] = "deliver"
  /\ Send(c, dest[c], <<BcastSent(c)>>)
  /\ dest' = [dest EXCEPT ![c] = 0]
  /\ Goto(c, "bcast")
  /\ UNCHANGED <<server, loggedInUsers, disk, input, session, upload, download,
                 iter, stale, found, seen>>

\* The target's thread is inside decodeNextByte: its cleanFields resets the
\* lenDana that encode has just computed, encode throws, send swallows it.
BcastLost(c) ==
  /\ pc[c] = "deliver"
  /\ dest[c] \in DOMAIN connectionsQueue
  /\ pc[connectionsQueue[dest[c]]] = "decode"
  /\ dest' = [dest EXCEPT ![c] = 0]
  /\ Goto(c, "bcast")
  /\ UNCHANGED <<server, loggedInUsers, disk, input, out, session, upload,
                 download, iter, stale, found, seen>>

BcastEnd(c) ==
  /\ pc[c] = "bcast"
  /\ iter[c] = {}
  /\ goingToBeReceived' =
       [goingToBeReceived EXCEPT ![c] = IF message[c].op = "DATA" THEN NONE ELSE @]
  /\ Goto(c, "listen")
  /\ UNCHANGED <<server, loggedInUsers, disk, input, out, session, wholeFile,
                 accSize, download, loop>>

\* next() of an outdated iterator throws ConcurrentModificationException.
IteratorFails(c) ==
  /\ pc[c] \in {"logrq", "bcast", "disc"}
  /\ iter[c] # {}
  /\ stale[c]
  /\ Die(c)
  /\ UNCHANGED disk

-----------------------------------------------------------------------------
(* ERROR, BCAST and DISC from the client.                                  *)

Error(c) ==
  /\ Processing(c, "ERROR")
  /\ toDownload' = [toDownload EXCEPT ![c] = NONE]
  /\ blockNum' = [blockNum EXCEPT ![c] = 1]
  /\ wholeFile' = [wholeFile EXCEPT ![c] = <<>>]
  /\ accSize' = [accSize EXCEPT ![c] = 0]
  /\ goingToBeReceived' = [goingToBeReceived EXCEPT ![c] = NONE]
  /\ Goto(c, "listen")
  /\ UNCHANGED <<server, loggedInUsers, disk, input, out, session, loop>>

BcastIn(c) ==
  /\ Processing(c, "BCAST")
  /\ Answer(c, ErrorPacket(0))
  /\ UNCHANGED <<upload, download>>

DiscBegin(c) ==
  /\ Processing(c, "DISC")
  /\ shouldTerminate' = [shouldTerminate EXCEPT ![c] = TRUE]
  /\ StartLoop(c)
  /\ Goto(c, "disc")
  /\ UNCHANGED <<server, loggedInUsers, disk, input, out, myConnectionState,
                 nick, upload, download, dest, seen>>

\* One turn of findKeyRepresentMyId: the last match is the key.
DiscNext(c) ==
  /\ pc[c] = "disc"
  /\ iter[c] # {}
  /\ ~stale[c]
  /\ \E u \in iter[c] :
       /\ iter' = [iter EXCEPT ![c] = @ \ {u}]
       /\ found' = [found EXCEPT ![c] =
                      IF loggedInUsers[u] = myId[c] THEN {u} ELSE @]
  /\ UNCHANGED <<server, loggedInUsers, disk, pc, input, out, session, upload,
                 download, stale, dest, seen>>

\* Mutants: a DISC that does not remove the name; one that the read loop does
\* not see.
DiscKeepsName(c) ==
  /\ pc[c] = "disc"
  /\ iter[c] = {}
  /\ found' = [found EXCEPT ![c] = {}]
  /\ Reply(c, AckPacket(0))
  /\ Goto(c, "exit")
  /\ UNCHANGED <<server, loggedInUsers, disk, input, session, upload, download,
                 iter, stale, dest, seen>>

DiscStays(c) ==
  /\ pc[c] = "disc"
  /\ iter[c] = {}
  /\ loggedInUsers' = [u \in DOMAIN loggedInUsers \ found[c] |-> loggedInUsers[u]]
  /\ Modified(iter)
  /\ found' = [found EXCEPT ![c] = {}]
  /\ Reply(c, AckPacket(0))
  /\ Goto(c, "listen")
  /\ UNCHANGED <<server, disk, input, session, upload, download, iter, dest,
                 seen>>

\* loggedInUsers.remove(key), where key may be null, and the ACK.
DiscEnd(c) ==
  /\ pc[c] = "disc"
  /\ iter[c] = {}
  /\ LET kept == DOMAIN loggedInUsers \ found[c]
     IN /\ loggedInUsers' = [u \in kept |-> loggedInUsers[u]]
        /\ IF kept = DOMAIN loggedInUsers THEN stale' = stale ELSE Modified(iter)
  /\ found' = [found EXCEPT ![c] = {}]
  /\ Reply(c, AckPacket(0))
  /\ Goto(c, "exit")
  /\ UNCHANGED <<server, disk, input, session, upload, download, iter, dest,
                 seen>>

-----------------------------------------------------------------------------
Init ==
  /\ connectionsCounter = 0
  /\ connectionsQueue = [i \in {} |-> NONE]
  /\ loggedInUsers = [u \in {} |-> NONE]
  /\ files = InitFiles
  /\ pc = [c \in Conns |-> "idle"]
  /\ myId = [c \in Conns |-> 0]
  /\ message = [c \in Conns |-> NONE]
  /\ nreq = [c \in Conns |-> 0]
  /\ due = [c \in Conns |-> {}]
  /\ out = [c \in Conns |-> <<>>]
  /\ myConnectionState = [c \in Conns |-> FALSE]
  /\ shouldTerminate = [c \in Conns |-> FALSE]
  /\ goingToBeReceived = [c \in Conns |-> NONE]
  /\ wholeFile = [c \in Conns |-> <<>>]
  /\ accSize = [c \in Conns |-> 0]
  /\ toDownload = [c \in Conns |-> NONE]
  /\ blockNum = [c \in Conns |-> 1]
  /\ linked = [c \in Conns |-> FALSE]
  /\ orphan = [c \in Conns |-> NONE]
  /\ writers = [c \in Conns |-> {}]
  /\ iter = [c \in Conns |-> {}]
  /\ stale = [c \in Conns |-> FALSE]
  /\ found = [c \in Conns |-> {}]
  /\ dest = [c \in Conns |-> 0]
  /\ seen = [c \in Conns |-> {}]
  /\ nick = [c \in Conns |-> NONE]

Login(c) == \/ LogrqAgain(c) \/ LogrqBegin(c) \/ LogrqNext(c) \/ LogrqEnd(c)
            \/ LogrqPut(c) \/ LogrqAck(c)

Download(c) == \/ RrqRefused(c) \/ RrqFound(c) \/ RrqOpen(c) \/ RrqLength(c)
               \/ RrqRead(c) \/ RrqGone(c) \/ AckMore(c) \/ AckIgnored(c)
               \/ Dirq(c) \/ DirqTooLong(c)

Upload(c) == \/ WrqRefused(c) \/ WrqAccepted(c) \/ DataIgnored(c)
             \/ DataOversize(c) \/ DataFull(c) \/ DataLast(c) \/ DataWrite(c)

Delete(c) == DelrqRefused(c) \/ DelrqFound(c) \/ DelrqDelete(c)

Broadcast(c) == BcastNext(c) \/ BcastDeliver(c) \/ BcastLost(c) \/ BcastEnd(c)

Other(c) == \/ NotLoggedIn(c) \/ IteratorFails(c) \/ Error(c) \/ BcastIn(c)
            \/ DiscBegin(c) \/ DiscNext(c) \/ DiscEnd(c)

\* What the thread of c does by itself, once it has been started.
Thread(c) == \/ RunAdd(c) \/ RunPut(c) \/ Close(c) \/ Login(c) \/ Download(c)
             \/ Upload(c) \/ Delete(c) \/ Broadcast(c) \/ Other(c)

\* What the clients and the file system do to it.
Environment(c) ==
  Accept(c) \/ Receive(c) \/ Eof(c) \/ OpenFails(c) \/ WriteFails(c)

Next == \E c \in Conns : Thread(c) \/ Environment(c)

Spec == Init /\ [][Next]_vars

\* The JVM schedules every runnable thread; nobody has to send a request.
FairSpec == Spec /\ \A c \in Conns : WF_vars(Thread(c))
-----------------------------------------------------------------------------
(* Safety.                                                                 *)

IsBcast(e) == e.pkt.op = "BCAST"
Registered(c) == myId[c] \in DOMAIN connectionsQueue

\* An answer goes to the client whose request caused it: routing every answer
\* through the id and the shared, unsynchronised connectionsQueue never hands
\* one client's answer to another.
NoCrossTalk ==
  \A c \in Conns : \A i \in 1 .. Len(out[c]) :
    ~IsBcast(out[c][i]) => out[c][i].from = c

\* A BCAST only reaches a client whose LOGRQ was accepted, whatever logins and
\* logouts happen while the ids of loggedInUsers are being walked.
Accepted(c) == myConnectionState[c] \/ pc[c] = "ack"

BcastNeedsLogin ==
  \A c \in Conns : \A i \in 1 .. Len(out[c]) : IsBcast(out[c][i]) => Accepted(c)

\* Every entry of loggedInUsers belongs to the connection that put it there
\* and whose DISC has not been acknowledged: a DISC frees the name it must
\* free, and no other.
EntryHasOwner ==
  \A u \in DOMAIN loggedInUsers : \E c \in Conns :
    /\ loggedInUsers[u] = myId[c]
    /\ nick[c] = u
    /\ shouldTerminate[c] => pc[c] \notin {"exit", "closed"}

\* The byte arrays collected for an upload fit the array accSize sizes for
\* them, for every sequence of WRQ, DATA and ERROR packets: assembling the
\* file never runs over its end.
AssembleFits == \A c \in Conns : Len(wholeFile[c]) <= accSize[c]

\* The places of out[c] that hold an answer; one answer; a full block and the
\* short block that closes the transfer.
Answers(c) == {i \in 1 .. Len(out[c]) : ~IsBcast(out[c][i])}
OneAnswer(c) == \E i \in Answers(c) : Answers(c) = {i}
TwoBlocks(c) ==
  \E i, j \in Answers(c) :
    /\ i < j /\ Answers(c) = {i, j}
    /\ out[c][i].pkt.op = "DATA" /\ Len(out[c][i].pkt.data) = BlockSize
    /\ out[c][j].pkt.op = "DATA" /\ Len(out[c][j].pkt.data) < BlockSize

\* What the code takes without a word: an ERROR, against the comment at
\* TFTPProtocolImpl.java:78, and packets of a transfer that is not under way.
Silent(c) ==
  /\ myConnectionState[c]
  /\ message[c].op \in {"ERROR"} \cup ({"DATA", "ACK"} \ due[c])

Acknowledged(c) ==
  \E i \in Answers(c) : Answers(c) = {i} /\ out[c][i].pkt = AckPacket(message[c].block)

Answered(c) ==
  /\ Silent(c) => Answers(c) = {}
  /\ ~Silent(c) => \/ OneAnswer(c)
                   \/ message[c].op \in {"RRQ", "ACK"} /\ TwoBlocks(c)
  /\ /\ message[c].op = "DATA" /\ myConnectionState[c] /\ ~Silent(c)
     /\ Len(message[c].data) <= BlockSize
     => Acknowledged(c)

\* A command is answered exactly once: by one packet, or for a download by one
\* block, or by a full block and the short block that closes the transfer.  A
\* block of an upload is acknowledged by its number, unless it is too long, and
\* an ACK of a download under way is answered like it; what belongs to no
\* transfer, and an ERROR of a client that is logged in, get no answer.
OneReply ==
  \A c \in Conns :
    pc[c] \in {"listen", "exit"} /\ message[c] # NONE /\ Registered(c) => Answered(c)

-----------------------------------------------------------------------------
(* Liveness.                                                               *)

\* A handler comes back to its socket: neither a search nor a broadcast goes on
\* forever while other threads log in and out.
HandlerReturns ==
  \A c \in Conns :
    pc[c] = "decode" ~> pc[c] \in {"listen", "closed", "dead"}

\* A DISC leads to a closed socket.
DiscCloses == \A c \in Conns : shouldTerminate[c] ~> pc[c] \in {"closed", "dead"}

Idle(d) == /\ pc[d] = "listen"
           /\ Registered(d)
           /\ \E u \in DOMAIN loggedInUsers : loggedInUsers[u] = myId[d]

\* When an upload completes, every client that is logged in and stays idle is
\* told of the file, unless the broadcasting thread dies.
IdleClientsAreTold ==
  \A c \in Conns : \A d \in Conns \ {c} : \A f \in FileNames :
    /\ pc[c] = "write"
    /\ goingToBeReceived[c] = f
    /\ Idle(d)
    ~> \/ \E i \in 1 .. Len(out[d]) : out[d][i].pkt = BCastPacket(TRUE, f)
       \/ ~Idle(d)
       \/ pc[c] = "dead"

-----------------------------------------------------------------------------
(* What comments and the assignment say, and the code does not keep: each  *)
(* of these is refuted by a run of its own.                                *)

\* TFTPProtocolImpl.java:49: a LOGRQ with the userName of another client is an
\* error, so no two clients are logged in with one name.
LoggedIn(c) == /\ myConnectionState[c]
               /\ ~shouldTerminate[c]
               /\ pc[c] \notin {"closed", "dead"}

UniqueNames ==
  \A c, d \in Conns : c # d /\ LoggedIn(c) /\ LoggedIn(d) => nick[c] # nick[d]

\* TFTPProtocolImpl.java:78: a client that sends an ERROR is sent one back, also
\* while the server has a transfer of it under way.
ErrorsAnswered ==
  \A c \in Conns :
    /\ pc[c] = "listen" /\ message[c] # NONE /\ Registered(c)
    /\ message[c].op = "ERROR"
    => \E i \in Answers(c) : out[c][i].pkt.op = "ERROR"

-----------------------------------------------------------------------------
(* What makes the safety invariants inductive.                             *)

\* Where a thread is says what it is working on.
PcAt(c) ==
  /\ pc[c] \in {"decode", "logrq", "put", "ack", "rrq", "length", "read", "write",
                "del", "bcast", "deliver"} => message[c] \in Request
  /\ pc[c] \in {"logrq", "put", "ack"} => message[c].op = "LOGRQ"
  /\ pc[c] \in {"rrq", "length", "read"} =>
       message[c].op = "RRQ" /\ message[c].file \in FileNames
  /\ pc[c] = "del" => message[c].op = "DELRQ" /\ message[c].file \in FileNames
  /\ pc[c] = "write" => message[c].op = "DATA" /\ goingToBeReceived[c] # NONE
  /\ pc[c] \in {"bcast", "deliver"} =>
       \/ message[c].op = "DELRQ" /\ message[c].file \in FileNames
       \/ message[c].op = "DATA" /\ goingToBeReceived[c] # NONE
  /\ linked[c] => /\ goingToBeReceived[c] # NONE
                  /\ files[goingToBeReceived[c]] # NONE
                  /\ pc[c] = "write"
  /\ ~stale[c] => iter[c] \subseteq DOMAIN loggedInUsers

\* What a thread reads is in Files under the name it was asked for, or removed.
ReadAt(c) ==
  /\ pc[c] \notin {"length", "read"} => orphan[c] = NONE /\ writers[c] = {}
  /\ pc[c] \in {"length", "read"} /\ orphan[c] = NONE =>
       files[message[c].file] # NONE /\ writers[c] = {}
  /\ pc[c] = "read" => toDownload[c] # NONE
  /\ \A d \in writers[c] : /\ pc[d] = "write" /\ ~linked[d]
                           /\ goingToBeReceived[d] = message[c].file

PcOK == \A c \in Conns : PcAt(c) /\ ReadAt(c)

\* Ids are unique and connectionsQueue maps an id to the handler that has it.
RouteOK ==
  /\ \A c \in Conns : /\ pc[c] = "idle" <=> myId[c] = 0
                      /\ myId[c] <= connectionsCounter
  /\ \A c, d \in Conns : myId[c] = myId[d] /\ myId[c] # 0 => c = d
  /\ \A i \in DOMAIN connectionsQueue : myId[connectionsQueue[i]] = i

\* How far a login or a logout has come.
LoginAt(c) ==
  /\ ~Accepted(c) => nick[c] = NONE
  /\ pc[c] \in {"logrq", "put", "ack"} => ~myConnectionState[c]
  /\ shouldTerminate[c] => pc[c] \in {"disc", "exit", "closed", "dead"}
  /\ pc[c] = "disc" =>
       \A u \in DOMAIN loggedInUsers :
         loggedInUsers[u] = myId[c] => u \in iter[c] \cup found[c]
  /\ pc[c] = "deliver" =>
       \E d \in Conns : myId[d] = dest[c] /\ dest[c] # 0 /\ Accepted(d)

LoginOK == \A c \in Conns : LoginAt(c)

\* How far the request at hand has been answered.
ReplyAt(c) ==
  /\ pc[c] \in {"idle", "start", "adding"} => message[c] = NONE
  /\ pc[c] = "disc" => message[c].op = "DISC"
  /\ pc[c] = "decode" => due[c] = Due(c)
  /\ pc[c] \in {"decode", "put", "ack", "rrq", "length", "read", "write", "del",
                "disc"} => Answers(c) = {}
  /\ pc[c] = "logrq" /\ found[c] = {} => Answers(c) = {}
  /\ pc[c] = "logrq" /\ found[c] # {} =>
       message[c].user \notin iter[c] /\ (Registered(c) => OneAnswer(c))
  /\ pc[c] \in {"write", "bcast", "deliver"} /\ message[c].op = "DATA" =>
       "DATA" \in due[c]
  /\ pc[c] \in {"bcast", "deliver"} /\ Registered(c) =>
       OneAnswer(c) /\ (message[c].op = "DATA" => Acknowledged(c))
  /\ pc[c] \in {"listen", "exit"} /\ message[c] # NONE /\ Registered(c) => Answered(c)

ReplyOK == \A c \in Conns : ReplyAt(c)

IndInv == PcOK /\ RouteOK /\ LoginOK /\ ReplyOK
=============================================================================
