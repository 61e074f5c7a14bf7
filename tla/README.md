# A verification project for the TFTP server and client

The repository is a file server that speaks an extended TFTP over TCP (Java,
`src/Server`), and its client (C++, `src/Client`). Clients log in with a
nickname, upload, download, list and delete files of the directory `Files`, and
are told by broadcasts when a file appears or disappears. The server comes in
two forms that share the protocol: one thread per client (`TPCMain`) and a
reactor with a pool of worker threads (`ReactorMain`).

This directory holds TLA+ modules of that system, TLC configurations that check
them on small instances, and proofs for TLAPS. J stands for
`src/Server/src/main/java/bgu/spl171/net` below.

## The system

| Component | State | Operations | Talks to |
|---|---|---|---|
| `TFTPProtocolImpl` (J/TFPT) | per connection: `myConnectionState`, `shouldTerminate`, `goingToBeReceived`, `wholeFile`, `accSize`, `toDownloadBytesArr`, `blockNumToSendByAck`; static: `loggedInUsers` | `process` of LOGRQ, RRQ, WRQ, DATA, ACK, ERROR, DIRQ, DELRQ, BCAST, DISC | the directory `Files`; `Connections.send` |
| `ConnectionsImpl` (J/srv) | `connectionsQueue`, an unlocked `HashMap` from id to handler | `add`, `send` (`broadcast` and `disconnect` are never called) | the handlers |
| `BaseServer`, `BlockingConnectionHandler` (J/srv) | `connectionsCounter`; one thread, socket and decoder per client | accept, `run` (read, decode, process), `send` | protocol, registry, decoder |
| `MessageEncoderDecoderImpl` (J/TFPT) | the bytes of a half read packet; `lenDana`, used by `encode` | `decodeNextByte` by the handler's thread, `encode` by any thread | - |
| `Reactor`, `NonBlockingConnectionHandler` (J/srv) | selector, `selectorTasks`, a write queue per handler | accept, `continueRead`, `continueWrite`, `send` | `ActorThreadPool`, protocol |
| `ActorThreadPool` (J/srv) | `playingNow`, a queue of pending tasks per handler | `submit`, `complete` | an executor |
| `ClientProtocol` (src/Client) | one flag per command (`logReq` ...), `lastOperation`, `toSendVec`, `goingToFinish`, `numOfChunksSent`, `wholeFile` | `processFromKeyboard`; `process` of ACK, DATA, BCAST, ERROR | the client's directory, the socket |
| `client`, `ConnectionHandler` | a keyboard thread and a socket thread, `connected` | read a line and send, read a packet and process | `ClientProtocol`, `EncoderDecoder` |
| `EncoderDecoder` | `opcodeBytes`, `dataToDecode`, `data` ..., with a flag for each stage: the bytes of a half read packet, shared by both threads | `decodeNextByte`, `encode`, `cleanFields` | - |
| `ServerPacket.cpp` | the ten classes of packets | constructors, getters | - |

What is hard about it:

* *Threads that share maps without a lock.* `loggedInUsers` is searched and then
  changed in two steps, walked by broadcasts while others log in and out, and
  searched by DISC for the key to remove; `connectionsQueue` is filled by all
  handler threads while every answer is routed through it.
* *A directory shared by all clients.* Listing, checking, opening, measuring, reading
  and writing a file are separate steps, some by its name and some by what was
  opened, and uploads check for the file long before they create it.
* *Transfers.* They go block by block, the state of a transfer is spread over
  the two ends, blocks of downloads may be two at a time on their way, and
  broadcasts arrive between them; block numbers are shorts.
* *One decoder for two threads.* The client's keyboard thread encodes with, and then
  resets, the `EncoderDecoder` in which the socket thread is collecting a packet. The
  decoder itself keeps its place in the stream by flags and counters only.
* *Threads that die or go deaf.* An iterator that meets a change, a file that
  vanishes and a long listing throw; an empty DATA packet stops the decoder.
* *Liveness.* Handlers have to return to their sockets, a DISC has to close
  one, a command has to be answered.

`PROJECT.json` lists each hazard with its line and the properties about it.

## The modules

| Module | What it is |
|---|---|
| `TFTPData` | packets, and the arithmetic of blocks both sides use |
| `TFTPServer` | the thread-per-client server with arbitrary clients |
| `TFTPServer_proofs` | its safety invariants, proved |
| `TFTPClient` | the C++ client: keyboard thread and socket thread |
| `TFTPSystem` | server and clients joined by the channels of their connections |
| `TFTPSystem_proofs` | that the two ends of each connection agree, proved |
| `FileCopy` | what server and clients promise together, without packets or threads |
| `FileCopy_proofs` | that uploads lose nothing and that the system implements `FileCopy`, proved |
| `ServerPacket` | the classes of packets as both sides build them, and the encoding of a short |
| `EncoderDecoder` | the client's `EncoderDecoder`: the object, `encode`, `decodeNextByte`, `cleanFields` |
| `MessageEncoderDecoderImpl` | the same for the server |
| `PacketChannel` | what the two promise: a channel of packets |
| `Codec` | the two codecs side by side |
| `Codec_proofs` | what the one encodes the other decodes, in both directions, proved |
| `PacketStream` | the server's encoder and the client's decoder, byte by byte |
| `PacketStream_proofs` | the framing invariant and the refinement of `PacketChannel`, proved |
| `ClientThreads` | `TFTPSystem` with the bytes between server and client, and the two threads of a client on one decoder |
| `ClientThreads_proofs` | that this still is `TFTPSystem`, and what the race of the threads can cost, proved |
| `ActorThreadPool` | the pool that runs the reactor's tasks |
| `SerialExecutor` | what the pool promises: one task of a handler at a time, in order |
| `ActorThreadPool_proofs` | its invariant and its refinement, proved |
| `Reactor` | the reactor server: selector thread, write queues, and the pool by its promise |
| `Reactor_proofs` | the invariant of the reactor, proved |
| `MCTFTPServer`, `MCTFTPSystem`, `MCActorThreadPool`, `MCReactor`, `MCPacketStream`, `MCClientThreads` | instances for TLC |

### TFTPServer

Every variable of a connection is a function of the handler `c`. `pc[c]` says
where its thread is: `idle` (not accepted), `start`, `adding` (inside
`connectionsQueue.put`), `listen` (in `in.read()`), `decode` (a request is
complete, `process` begins), the intermediate points of a handler (`logrq`,
`put`, `ack`; `rrq`, `length`, `read`; `write`; `del`; `bcast`, `deliver`; `disc`),
`exit`, and the ends `closed`, `dead` (an uncaught exception) and `deaf`.

A handler is one action where no other thread can interfere, and is split where
it can: at each step of an iterator over `loggedInUsers` (`iter` is what it has
yet to return, `stale` that its `modCount` check will fail), between the search
of a map and the put into it, between the listing of `Files` and the operation
on the file, between opening a file (which creates or truncates it) and writing.
`PutOutcomes` says what overlapping puts into one `HashMap` may lose.

A download is three steps, as in `TFTPProtocolImpl.java:167-169`: `RrqOpen` opens the
file, `RrqLength` makes an array of the size of whatever has that name then, and
`RrqRead` fills it from what was opened. A file that is deleted meanwhile is no
longer the one of that name: `orphan[c]` is then what the file open for reading in
`c` holds, and `writers[c]` the threads that have it open for writing. `linked` says the
same for the writer: that the file it has open is still in the directory. A write to
a deleted file is seen by those who read it and by nobody else.

The answers written to a socket since the last request are `out[c]`, each with
the connection whose request caused it. `nick[c]` and `due[c]` are history variables: the
name the connection logged in with, and which transfers were under way when the last
request came in, so that `OneReply` can say which DATA and which ACK must be
answered. `OpenFails` and `WriteFails` are the two places where storing a file throws. A
client is the environment: it may send any request of `Requests[c]` when its thread reads,
and close its socket.

### TFTPClient, TFTPSystem and FileCopy

`cl[c]` is the `ClientProtocol` object of a client as a record. The six request
fields are one function `req` from the command to what it named, with `NONE`
for the sentinel `"def"`; `dealWithACK` asks for the flags one after the other, `Before(op)` first.
`Command` is the keyboard thread, every other action is the socket thread
processing the packet at the head of `toClient[c]`.

`TFTPSystem` takes the server as it is: a step of a server thread appends what it
writes to `out` to the channels to the clients, and `Receive` takes its request
from the channel of its client. The user types no command while one is
unanswered (the assignment, section 2.3, lets the client assume it), and clients
are started one after the other: racing registrations belong to `TFTPServer`.

`FileCopy` is the abstract specification. An upload makes a new file appear, empty
for one moment, and then filled with exactly what the client's file holds,
unless it was deleted meanwhile; nothing else changes a file. A download opens a
file, asks for the size of what has its name, and reads it (`Open`, `Size`, `Fetch`,
`FetchRemoved`), and stores exactly what was fetched. If the file is still in the
directory when it is read, that is all it holds, or nothing if it was empty when it was
measured: one moment's content either way. If another client has removed it, what it
held is cut, or filled up with zeros, to the size of what had the name when that was
asked: an empty file is stored if nothing had. The comment at
`TFTPProtocolImpl.java:170`, "Here the toDownloadBytesArr is full with data", is
therefore only true while nobody deletes the file and uploads a longer one in its place.
`DownloadsOK` is the first of the two cases as an invariant of the system.

The refinement mapping `JobOf` reads the progress of a command from both ends: a download in
progress is what the client holds, then the DATA packets on their way, then
what the server has yet to send; `DownloadOf` maps the three steps of the server's thread
before it. A command may name any of `Names`; one that names no
file is asked and refused.

`Conversation` says where the two ends of a connection can be at one moment, in five
cases: `Free` (no command is asked, acknowledgements of a download may still be on their way
to the server), `Requested`, `Replied`, `Downloading` and `Uploading`, each with
what the two channels then hold; broadcasts may be anywhere between
(`Quiet`, `Only`, `Both`). `UploadsOK` follows the bytes of an upload through the same
places: what has been collected, is on its way and is left is the client's file.

### The codec: EncoderDecoder, MessageEncoderDecoderImpl, Codec, PacketStream

The two decoders are operators, not state machines: an object is a record, and a
method takes it and gives the object after the call and what the call returns.
Both keep their state in flags and counters (`isOpCodeInitialized`, `readSecond`, `leftToRead` on the
client), and cut a packet where these say. `Server!encode` is the bytes of
a packet; `decodeNextByte(ed, b)` one call of the client's. A short is two chars, each
of which is signed, and negative block numbers are sign extended, as the code does. The server
makes a string of the bytes of a name with `popString`, as UTF-8: ASCII comes out as it was,
and of other bytes the model says nothing but that a string (`decoded`) comes out. `Codec` puts
the two next to each other; they share no code, only the protocol.

`PacketStream` is the direction from the server to the client. `wire` are the packets
written, `pos` how many bytes of the first have been read, `received` what came out.
`PacketChannel` is the abstract specification: packets that are sent and
delivered, nothing else. The mapping is the identity on `wire` and `received`; that a
packet is delivered exactly at the step that reads its last byte is the content.

### ClientThreads

`kpc[c]` is where the keyboard thread is: in `getline`, or before one of the three
things `client::sendPacket` does (`encode`, `clean`, `send`). `buffer[c]` is the
command it sends. The socket thread is in `getBytes` or `decodeNextByte` while
`packet[c]` is null, and in `process` when it is not. `ed[c]` is the one decoder. Calls of
the two threads on it that do not overlap come in either order; calls that do are a data
race on three `std::vector`s, of which nothing can be said, and `Crash` ends the client.
`Crash` is also what happens when a decoder reaches past the end of a vector.

The two directions of a connection are `outgoing` and `incoming`, with `pos[c]` the bytes
of the first packet of `incoming[c]` that are read. `toServer` and `toClient`, the channels of
`TFTPSystem`, are history variables: there a command is in the channel at the
keystroke (`AllSent`), and a packet leaves it when it is processed, a broadcast at its
last byte. The refinement of `TFTPSystem` then is the identity, `ImplementsSystem`, and
what remains to be shown is that what the threads do between keystroke and `sendBytes`, and
between the first byte of a packet and `process`, never shows. `Arriving` puts the bytes of
a command through the server's decoder, so that both directions are in bytes; the server's
thread decodes them in one step, as nobody else uses the state of its decoding.

`Intact(c)` says that the decoder holds exactly what has been read of the packet on
its way. What leads away from it is a broadcast that arrives while the keyboard thread
is in `sendPacket`. `InStepOrLost` says what there is beyond:

* `Overwritten`: between `encode` and `cleanFields` the decoder holds the opcode of the request in
  place of what it had read. What is left of the broadcast may then come out as a
  request, which `process` drops;
* `Lost`: `cleanFields` has come in the middle of a broadcast, and the decoder takes what
  follows for the beginning of a packet. `Astray` is why it never makes a packet again: no two bytes
  that follow one another from the middle of a broadcast on make an opcode, the zero at its end
  and the first byte of the next packet make 0, and every opcode it does not know it waits
  behind for ever. The client never hears the answer it waits for.

So the race costs a client all it has to hear, and cannot tell it anything the server has
not said: `NothingInvented` for each answer, `ImplementsSystem` for everything.

### ActorThreadPool and SerialExecutor

The selector thread submits tasks for a handler (an actor); threads of a fixed
pool run them and then complete. `submit` and `complete` are one step each: both
hold the lock of the actor and use only its entry of `acts` and `playingNow`.
`queue` is the FIFO queue of the Java executor and `worker[w]` what a thread of the
pool does: run a task, or be in the `finally` that completes it. Tasks are numbered
per handler, so that `SerialExecutor` can say that they run one at a time and in
the order submitted; `Todo` is what is queued followed by what is pending.

### Reactor

`sel` says where the selector thread is in the loop of `serve` and in
`continueWrite` (`select`, `tasks`, `keys`, `register`, `write`, `drained`), or
that it has ended: `dead` by an exception that leaves `serve`, `stuck` in the loop
of a write that fails again and again. `ready` holds what `select()` has
reported, `interest` the interest set of each key; `writeQueue` counts the
buffers of a handler. A pool thread that sends takes three steps, `send` (queue
the buffer), `update` (queue the change of interest, with the key the channel has
at that moment) and `wake`. The selector thread can be anywhere in between.

The pool is the state of `SerialExecutor`, which `ActorThreadPool_proofs`
proves it implements: `ReadSome` submits a task, whose `buffer` is what was read,
and the task takes its requests one by one. Of a request the model keeps what it
does to the connection: `ask` is answered once, `share` twice (the ACK and a
broadcast), `DISC` sets `shouldTerminate` before it is answered. The registry is
`latest`: all handlers are registered with the id 101, so every answer goes to the
last client accepted. That is not what anybody wants, but the properties of the
reactor are about the client that is answered, whoever it is.

The properties hold as long as the selector thread lives. It does not live long:
a change of interest for a channel that was closed, or is not registered yet,
throws out of `serve`, and a write that fails never returns. `RunTask` and `WriteFails`
are these two.

## The runs

The runs of the server use byte values `a` and `z` and blocks of one to two bytes for
the 512 of the code: what the code tells apart is whether a buffer is shorter than a
block, equal to one, and shorter than two. `codec` and `threads` use real bytes.
Deadlock is not checked: when every client has used up its bounded number of
requests the system does stop.

| Run | Properties | What it shows |
|---|---|---|
| `server_files` | `NoCrossTalk`, `EntryHasOwner`, `OneReply`, `BcastNeedsLogin`, `IndInv`, `HandlerReturns`, `DiscCloses`, `IdleClientsAreTold` | Two clients log in, with racing puts in both maps, also with one name; upload, download and delete one file, and log out. `IndInv` is the invariant of the proofs; the last three are liveness; 152 800 states. |
| `server_requests` | `TypeOK`, `AssembleFits`, `OneReply` | One client sends every kind of request in any order, among them ERRORs, empty names, empty, short, full and oversized blocks; it may drop its socket, and opening or writing a file may fail; 28 000 states. |
| `system_copy` | `Conversation`, `UploadsOK`, `DownloadsOK`, `ImplementsFileCopy` | One client deletes a file and uploads one of three blocks in its place, while another downloads or deletes it: at every possible moment, that is also between the opening, the measuring and the reading. The first three are what the proof of the last rests on; 180 000 states. |
| `codec` | `TypeOK`, `Framing`, `InRange`, `ImplementsChannel`, `EveryPacketArrives` | Every two packets of all ten kinds in sequence: numbers and data whose bytes are zero, negative, or look like an opcode; names of no to two bytes; 37 000 states. |
| `threads` | `ThreadsTypeOK`, `InStepOrLost`, `TornOnlyByBroadcast`, `NothingInvented`, `ImplementsSystem`, `CommandsAnswered` | One client types any five commands: an upload or a deletion is followed by a broadcast, behind which the next answer arrives, and the keyboard thread can be anywhere meanwhile. The first two are the invariant of the proofs; 33 100 states. |
| `pool` | `InOnePlace`, `ImplementsSerialExecutor`, `EveryTaskRuns` | Three handlers of up to three tasks on two threads: handlers outnumber threads, and a submit meets every stage of the task before; 21 000 states. |
| `reactor` | `IndInv`, `NoAnswerStranded`, `AnswersAreWritten`, `RequestsAreHandled` | Two clients of one request each; one is answered twice and may leave, the other sends a DISC. Both handlers answer the client accepted last, so a queue is filled by two pool threads while the selector thread drains it; 123 000 states. |

`CommandsAnswered` is `CommandsComplete` of `TFTPSystem` in bytes, with the ways a client
can be lost named in it; `ThreadsTypeOK` contains the client's `ClientTypeOK`. Block
numbers are modulo 3 in `threads`, so that the last block of an upload has number 0,
the case closest to the wrapping below.

Five runs show where the code does not do what a comment or the assignment says;
each has a finding in `PROJECT.json`.

| Run | Violated | What happens |
|---|---|---|
| `server_same_name` | `UniqueNames` | Two LOGRQs with one name search `loggedInUsers` before either puts its entry: both are accepted. |
| `server_errors` | `ErrorsAnswered` | "If the client send ErrorPacket, I return error packet" (`TFTPProtocolImpl.java:78`): `dealWithERROR` forgets the transfer and sends nothing. |
| `system_wrap` | `UploadsAreCopies` | `numOfChunksSent` is never reset: after 65535 blocks the next one has number 0, and its ACK restarts the upload; the first block is stored twice. |
| `system_full_blocks` | `CommandsComplete` | An upload of a multiple of 512 bytes ends in an empty DATA packet, after which the server's decoder returns nothing any more. |
| `reactor_disc` | `DiscIsAcknowledged` | The queue is empty because an earlier answer has just been written, a pool thread has set `shouldTerminate` for a DISC and not yet queued its ACK: `continueWrite` closes the channel. |

Six more departures are in the models without a run of their own. A request typed
while a broadcast is being read leaves the client deaf (`client.cpp:87`):
`TornOnlyByBroadcast` says that nothing else can be lost that way. Two WRQs of one
new file are both accepted, and the second upload replaces the first. A download of a
file that is deleted between its opening and its reading is cut, or filled up with zeros, to
the size of what has its name then (`FetchRemoved` of `FileCopy`). A listing of
512 bytes or more dereferences the null `dirqArr` and ends the client's thread. In
the reactor every client is answered through one id, and the selector thread ends
as described above.

`OneReply` is exact about what is answered: a command once, a block of an upload by its
number, an ACK by the next block; an ERROR of a client that is logged in, and DATA and ACK that
belong to no transfer, not at all. The first of these is what `server_errors` holds against the
comment. `system_copy` and `threads` upload a file that is not a multiple of
a block and keep the block counter from starting an upload at 0.

### Bounds

`MaxReq` and `MaxCmd` bound the requests and commands of a client: each run lets
every client log in and then do the two or three things that race. Clients drop
their sockets in `server_requests`; with two clients the crashes multiply the states
without a new race, and the theorems hold with them. `ShortMod`
is the number of block numbers, 65536 in the code and small here so that
wrapping is reached. `NameBytes` and `ListingSize` scale the 512 bytes of a
listing. The puts, iterators and broadcasts of a handler are only as long as the
number of names, two. `MaxPackets` is 2 in `codec`: what one packet leaves behind in the
decoder can only be seen by the next, and the proof covers the rest. So it does of `threads`,
which has one client: a client's decoder is used by its own two threads alone, and
five commands are enough for a login, an upload whose broadcast is torn, and
requests that meet the decoder after that. Two clients have the same behaviours with
broadcasts at more moments; they are beyond a few minutes of TLC, and the theorems, but not
`CommandsAnswered`, are about any number of them. No run uses symmetry.

### Fairness

`FairSpec` has weak fairness of `Thread(c)`: the JVM keeps scheduling a thread
that can run, and nothing in a handler waits for another thread but for the length of one
write to a socket (`send` is synchronized). That such a write returns is assumed: the
liveness properties say nothing of a server whose client never reads. Nobody has to
connect, send a request or close a socket. `SystemFairSpec` adds the accept
loop, the reading of a request that has arrived, and the client's socket thread;
no user has to type anything.
`FairSpec` of `PacketStream` has weak fairness of `Read`, the loop of the socket thread;
the server need not write. `ThreadsFairSpec` has it for each client's socket thread, for
its keyboard thread once a command has been typed (`GetLine` is not in it), and for
the server as in `SystemFairSpec`.
The pool's `FairSpec` has weak fairness of every pool thread: the executor keeps
its threads alive when a task throws, and tasks return.
The `FairSpec` of the reactor has weak fairness of the selector thread and of each
handler's task (`EveryTaskRuns` is why), and strong fairness of `WriteOne`: a socket
that takes only a part of a buffer takes the rest when the client has read, which
clients do all the time. `HandlerReturns` and `IdleClientsAreTold` count a
dead thread as an outcome: the exception of an outdated iterator is something
this code does, and a finding of its own only where a document says otherwise.

## The proofs

`TFTPServer_proofs` proves, for any number of connections, any requests, block
size, names and files (assumptions `BlockAssumption`, `NameAssumption`,
`ServerAssumption`: constants have their types, and `NONE` is none of the
values it stands beside):

* `TypeCorrect`: `Spec => []TypeOK`;
* `NoCrossTalkHolds`, `BcastNeedsLoginHolds`, `EntryHasOwnerHolds`,
  `AssembleFitsHolds`, `OneReplyHolds`: the five safety invariants of the server;
* `Invariance`: `Spec => []Safety`, from which they follow; `IndInvHolds`: the
  part of it that `server_files` checks.

None of the five is inductive alone. `Safety` adds `IndInv`, in four parts:

* `PcOK`: where a thread is says what it is working on (a thread in `put` has a
  LOGRQ, one in `write` has a file to receive, an iterator that is not stale
  only holds names of the map; what a thread reads is in the directory or is an
  `orphan`, and who has yet to write that is in `write`);
* `RouteOK`: ids are unique, and an id of `connectionsQueue` leads to the handler
  that has it. This survives lost puts because what a put may lose is entries,
  never their values, and is what `NoCrossTalk` rests on;
* `LoginOK`: how far a login or a logout has come. A thread in `disc` has seen,
  or has yet to see, each name that maps to its id, so what it removes in the
  end is all that is its own (`EntryHasOwner`); a broadcast that is about to be
  delivered has the id of somebody who is logged in (`BcastNeedsLogin`);
* `ReplyOK`: how far the request at hand has been answered, and that `due` still is what
  the fields of the transfer say when `process` begins. Nothing is sent
  before the handler's reply, and one answer lies in `out` from the reply to the end of
  the broadcast that follows a delete or an upload, which is what `OneReply` says of
  the end. A login that finds its name taken answers inside the search, and cannot find
  it again. Another thread's step only adds broadcasts behind the answers
  (`BcastAnswers`, `OthersAnswers`), because only the handler's own id leads to it.

The proof has one lemma per part of the invariant and group of actions that can
disturb it. The facts about `Send` (`SendEntries`) and about puts that overlap
are stated once.

`TFTPSystem_proofs` proves of server and clients together, for any number of clients,
any commands that name what a user can name (`CommandsAssumption`), any files and any block size:

* `ServerOfSystem`: `SystemSpec => Spec`, so that the safety theorems of
  `TFTPServer` hold of the server in the system: a packet that is received
  is a request the server accepts from anybody;
* `ClientTypesHold` and `ConversationHolds`: the client's fields keep their types, and
  `Conversation` holds. Neither does alone: that a block is never asked for while
  the client has no file to send, or a listing while it downloads, follows from how far the
  conversation is. `SystemInvariance` proves both with `Safety`.

The proof goes by who moves. A thread of another client only adds broadcasts to a
channel (`AgreeKept`), which none of the five cases minds. For the client's own
thread and for the client there is one lemma for each case and step: it says which case comes next
and which packets are in the channels then. That no answer is lost or goes to another
client needs `RouteOK` of the server and `Serial`: clients that register one after
the other are all found by `send`.

`FileCopy_proofs` proves, on top of it:

* `UploadsHold`: `OwnUploads /\ SystemSpec /\ []NoWrap => []UploadsOK`;
* `DownloadsHold`: under the same hypotheses, `[]DownloadsOK`;
* `Refinement`: under the same two hypotheses, `ImplementsFileCopy`, which rests on both;
* `DownloadsRefine`: when no command is an upload, `ImplementsFileCopy` with neither
  hypothesis: block numbers of downloads may wrap as often as they like. A file that is
  deleted after it was opened is then sent whole, or as an empty one if it was gone when
  it was measured.

The hypotheses are what the code needs, not what the proof does. `OwnUploads` says that no two
clients upload one name: the server checks for the file when it
accepts the WRQ and creates it with the last block, so that of two such uploads the later
replaces the earlier, which `FileCopy` does not allow. `NoWrap` says that no DATA packet from a client carries the
number 0: `system_wrap` shows what happens to an upload otherwise. In the code that is 65535
blocks in one run of a client, and both
can be met by every behaviour whose users keep below that.

The refinement has one lemma for each step of a conversation and stage of a job
(`FetchMoves`, `DeleteMoves`, `BlockMoves`, `ReplyMoves`, `AckMoves`, `SavedMoves` ...). The heart of a
download is that the concatenation of what the client holds, what is in the channel and what the
thread has left does not change when a block moves from one part to the
next (`FlightSent` and the other lemmas about `InFlight`); of an upload, that `UploadsOK`
makes the file that is written the one the client holds. Before that, a download rests on what
is in the directory: that a file which is still there when it is read has the size that was
asked for, or was empty then, is `DownloadsOK`. It needs `UploadsOK`: the only change to a file
under a name is an upload filling the file it has created. A step of one client must
leave the jobs of all others as they are (`OthersJobsKept`): only broadcasts are added to
their channels. What a deletion and the write of a deleted file do to those who read it
is said once (`ReadersJob`, `ReaderSees`), and is part of the steps `Delete` and `FillRemoved`. It is then the step of `FileCopy` that its own job makes (`OneJob`).

`ActorThreadPool_proofs` proves, for any number of handlers, threads and tasks
(assumptions `PoolAssumption`, `NoneAssumption`):

* `InOnePlaceHolds`: a handler is queued, running or completing in at most one
  place, and in exactly one when it is in `playingNow`; with the type invariant this
  is inductive as it stands (`PoolInvariance`);
* `ImplementsHolds`: every step maps to a step of `SerialExecutor` or, for
  `complete`, to a stutter: the task it moves from `acts` to the queue stays the
  next one, because the handler is nowhere else in the queue (`InOnePlace`). The
  lemmas `SubmitMaps`, `TakeMaps`, `ReturnMaps` and `CompleteMaps` are one per action.

`Reactor_proofs` proves, for any number of clients and requests (`ReactorAssumption`:
constants have their types), `NoAnswerStrandedHolds`: while the selector thread
lives, an answer that waits in the write queue of an open channel is covered by an
interest in writing or by a change of interest that has been asked for, and the
selector thread does not go to sleep on such a change. It is
not inductive: it holds at all moments only as `AnswerOK` and `WakeOK` state it, for
channels not yet registered and for every place of the selector thread, and rests on
`SelectorOK` (the channel the selector thread works on is open while it writes; one
without a key has no interest), `SendOK` (who sends has been accepted) and `NumberOK`
(tasks and their buffers match). `ReactorInvariance` proves them together. The
theorem takes the pool as `SerialExecutor`, which `ImplementsHolds` justifies.

`PacketStream_proofs` proves, for any set of packets a server may write, any names and
data (sequences of bytes that hold no zero where one ends them) and any number
of packets (`PacketsAssumption`: packets are what the constructors make, a
DATA packet holds as many bytes as it says, a broadcast names a file):

* `TypeCorrect` and `FramingHolds`: `TypeOK /\ Framing` is inductive. `Framing`, by
  `Decoding`, says what every flag, counter and vector of the decoder holds after
  `pos` bytes of the current packet, whatever packets came before;
* `InRangeHolds`: no `at()` and no `erase` of the decoder goes past the end of a vector;
* `ChannelImplemented`: the bytes implement `PacketChannel`. `ReadStep` is its heart:
  a byte that is not the last of its packet makes no packet, and the last one makes
  the packet that was sent.

`Codec_proofs` has the lemmas about bytes that this and `ClientThreads_proofs` rest on.
The proof follows the bytes. Layout lemmas say which bytes `encode` makes of a class
(`AckLayout` ...); for each class there is one lemma per position (opcode,
fields, terminator, last byte) that runs `decodeNextByte` on a decoder that is
`Decoding` and shows it is `Decoding` one byte further. That a short comes back from its
two bytes is arithmetic over all 2^16 values. The other direction is a theorem of its own:

* `RequestsArrive`: whatever a user types, the server's decoder has a request of that class
  with the last byte the client encodes, with the string `popString` makes of its name, and
  keeps nothing of it; `AsciiArrives`: a name in ASCII arrives as it was typed. `decodeAll` is a recursive function over the
  bytes of a request; that it is what the steps make of it (`DecodeAllIs`) is shown without
  an induction rule, from the least number at which it would not be (`MinOfNats`).

`ClientThreads_proofs` proves for any number of clients, any commands, names, contents and
listings (the assumptions of `TFTPSystem` and `ThreadsAssumption`: numbers are shorts, a
listing fits a packet, names are printable ASCII):

* `ThreadsInvariance`: `ThreadsSpec => []ThreadsInv`, with `ThreadsTypes` and
  `StaysInStep`, the two parts of it that `threads` checks; the third is the invariant of
  `TFTPSystem`;
* `ThreadsRefine`: `ThreadsSpec => ImplementsSystem`. Each step of a thread is a step of
  `TFTPSystem` or changes nothing it knows of;
* `OnlyBroadcastsTorn` and `NoAnswerInvented`: the two action properties;
* `ThreadsConverse`, `ThreadsDownload`, `ThreadsCopy`: what was proved of `TFTPSystem` holds
  down to bytes and threads: `Conversation`, and `ImplementsFileCopy` (which says what a download
  may store when the file is removed under it), with the hypotheses of `DownloadsRefine`
  and of `Refinement`.

The invariant needs two things of the conversation. While a command is typed and not sent,
only broadcasts are on their way to the client (`QuietWhenTyping`); so it is a broadcast
that `cleanFields` resets. And the first packet on its way is always one whose bytes are
known (`HeadFits`, `WireFits`): a block of a size the code sends, a listing that
fits, a name that is text. `AnnouncePairs` is the fact about bytes: after the first, no two
neighbours in a broadcast make an opcode of 1 to 10. `WireAnnounces` and it carry `Overwritten`
and `Astray` from byte to byte (`ReadOverwritten`, `ReadLost`), as `ReadIntact` carries `Intact`
with the lemmas of the codec. There is one lemma per other action: `GetLineStep`,
`EncodePlaced`, `CleanPlaced`, `SendPlaced`, `CrashStep`, `ServerSideStep`, and for
`process` `AnswerProcessed` and `NoAnswer`, which says that anything else leaves the
`ClientProtocol` as it is.

Only model-checked: the liveness properties (`HandlerReturns`, `DiscCloses`,
`IdleClientsAreTold`, `EveryPacketArrives`, `CommandsAnswered`, `EveryTaskRuns`,
`AnswersAreWritten`, `RequestsAreHandled`). Liveness under fairness is outside what the
prover does.

## What the models leave out

* The Java memory model beyond lost map entries: stale reads of fields, a `get`
  during a resize of the table, and the loss of entries older than the racing ones when
  two puts resize the table together.
* Bytes in `TFTPServer` and `TFTPSystem`: a packet arrives whole, which
  `PacketStream` and `ImplementsSystem` justify. The server's decoder that goes deaf and the
  broadcast lost when `encode` meets `cleanFields` are modelled by their effect
  (`Receive`, `BcastLost`).
* In the codec: `encodeError`, which writes through a pointer that is never set, and of
  which nothing can be said; the client only calls it for packets the server never sends
  (a DATA packet over 512 bytes, an ERROR before any command). The methods nobody calls:
  `sendPacket`, `sendSafeAckPacket` and `sendVecViaCH` of `EncoderDecoder`; `getLine`,
  `sendLine` and the frame functions of `ConnectionHandler`. A BCAST of an empty name.
* In `ClientThreads`: what a data race on the vectors really does (the client is
  crashed, and nothing is claimed of it); errors of the socket, after which
  `getBytes` fails for ever and the socket thread spins; a connection that is
  refused; the client's uploads typed over (the user does not type while a
  request is unanswered, so the two `sendBytes` of a DATA packet are never interleaved
  with a request). Names with control characters, which might look like an opcode, and
  names that are not ASCII, which the server decodes as UTF-8 with replacement: for these
  `RequestsArrive` is all that is shown.
* One `write(res)` and one `fis.read` are a step each, so a download never sees half a
  write, and the listing of `Files` with its `isFile` checks is one step. A read
  returns as much as there is and fits (`fis.read` may return less; its result is not
  looked at).
* A write to a socket that blocks because the client does not read.
* The client prints what came of a command before it clears its flag: one step here.
* The client of `TFTPServer` has read every answer when it sends its next
  request: `out[c]` is emptied then. `TFTPSystem` has real channels.
* `handleReadingDIRQ` and `cutFirst512dirqArr` past their first line: `dirqArr`
  is null whenever they run. Opcodes of no request (ERROR 4), negative packet
  sizes, and stopping the server.
* A user who does not wait, a file or user called `def`, packets of more than 512
  bytes sent to a client.
* `ActorThreadPool.shutdown`, which ends the pool with the reactor, and the garbage
  collection of handlers nobody refers to (`acts` is a `WeakHashMap`).
* A listing may name a file that is being uploaded; no run is about it.
* In the reactor: a request cut by the end of the 8 KB buffer, the pool of buffers,
  the race of two pool threads in the `encode` of one client, logins, and
  `Reactor.close`. `select` is one step: a channel
  that becomes ready during `select` is one that was ready before.
* The samples `echo`, `newsfeed` and `rci` of the course, which neither program
  uses, and the files CMake generates to identify a compiler (`CompilerIdC`,
  `CompilerIdCXX`), which are no part of the program.

## Plan

In this order, most important first:

1. done: `TFTPData`, `TFTPServer`, its runs and the proofs of its safety
   invariants.
2. done: `TFTPClient`, `TFTPSystem`, `FileCopy` and the refinement as a run.
3. done: `ActorThreadPool`, `SerialExecutor`, the refinement as a run and as a
   theorem.
4. done: `Reactor`, over the promise of the pool, and the proof that it strands no
   answer.
5. done: `ServerPacket`, `EncoderDecoder`, `MessageEncoderDecoderImpl`, `PacketStream`
   over `PacketChannel`, with the proof of framing and refinement.
6. done: `ClientThreads`, the race of the client's two threads on one decoder.
7. done: `TFTPSystem_proofs` and `FileCopy_proofs`: the conversation, and the refinement of
   `FileCopy`.
8. done: `Codec_proofs` with the direction from client to server, and `ClientThreads_proofs`:
   the threads and bytes of a client implement `TFTPSystem`, and only broadcasts are torn.
9. Runs left: `ClientThreads` with two clients, which only `CommandsAnswered` still needs;
   the reactor with packets cut by the end of its read buffer.
10. Proofs left: none of the safety properties the runs check; liveness is TLC's.
