---------------------------- MODULE ClientThreads ----------------------------
(***************************************************************************)
(* TFTPSystem with the two threads of a client on the one EncoderDecoder   *)
(* of its ConnectionHandler: the socket thread gives it each byte that     *)
(* arrives, the keyboard thread encodes its request with it and then       *)
(* resets it, and neither takes a lock.  Calls that do not overlap happen  *)
(* in either order; calls that do are a data race on the vectors of the    *)
(* object, of which nothing is claimed: the client is crashed.  So is one   *)
(* whose decoder reads past the end of a vector.                           *)
(*                                                                         *)
(* ClientProtocol has an EncoderDecoder of its own, which only the socket  *)
(* thread uses, for what it sends.                                         *)
(*                                                                         *)
(* The two directions of a connection are outgoing and incoming here.  The *)
(* toServer and toClient of TFTPSystem are kept as history: they are what  *)
(* the channels hold when a command is sent at the keystroke and a packet  *)
(* read when it is processed, in one step each.                            *)
(***************************************************************************)
EXTENDS TFTPSystem

CONSTANTS
  ErrMsg,       \* the message of every ERROR: the client does not look at it
  NamesAsBytes  \* the names of a directory, each ended by a '\0', in the order
                \* in which the file system gives them

E == INSTANCE EncoderDecoder
S == INSTANCE MessageEncoderDecoderImpl

\* Names are ASCII, of the chars a user can type: the server takes others for
\* what their bytes are in UTF-8.  Sizes and block numbers are shorts.
ASSUME ThreadsAssumption ==
  /\ Users \cup FileNames \subseteq Seq(32 .. 127) \ {<<>>}
  /\ EmptyName = <<>>
  /\ Bytes \subseteq E!Byte
  /\ ErrMsg \in E!Text
  /\ NamesAsBytes \in [SUBSET FileNames -> Seq(E!Byte)]
  /\ \A names \in SUBSET FileNames : Len(NamesAsBytes[names]) = ListingBytes(names)
  /\ ShortMod <= 65536
  /\ BlockSize <= 512
  /\ ListingSize <= 512

VARIABLES
  outgoing, \* packets sent to the server
  incoming, \* packets from the server that have not been read to the last byte
  kpc,      \* where the keyboard thread is: in getline or in client::sendPacket
  buffer,   \* the command it is sending, if any
  ed,       \* the EncoderDecoder both threads use
  pos,      \* bytes of the first packet of incoming that have been read
  packet,   \* what decodeNextByte has returned to the socket thread
  crashed   \* the client has done what has no defined behaviour

threads == <<kpc, buffer, ed, pos, packet, crashed>>

threadsVars == <<systemVars, outgoing, incoming, threads>>

-----------------------------------------------------------------------------
(* Packets and their bytes.                                                *)

\* A block number, which may be negative as a short of the client.
Signed(n) == E!bytesToShort(E!shortToBytes(n))

\* The object that a packet of TFTPData stands for.
Wire(pkt) ==
  CASE pkt.op = "ACK" -> E!AckPacket(Signed(pkt.block))
    [] pkt.op = "ERROR" -> E!ErrorPacket(pkt.code, ErrMsg)
    [] pkt.op = "DATA" -> E!DataPacket(Len(pkt.data), Signed(pkt.block), pkt.data)
    [] pkt.op = "LIST" -> E!DataPacket(Len(NamesAsBytes[pkt.names]), 1,
                                       NamesAsBytes[pkt.names])
    [] pkt.op = "BCAST" -> E!BCastPacket(IF pkt.added THEN 1 ELSE 0, pkt.file)

\* The object HandleWithRequest makes of a command.
Typed(cmd) ==
  CASE cmd.op = "LOGRQ" -> E!LOGRQPacket(cmd.user)
    [] cmd.op = "RRQ" -> E!RRQPacket(cmd.file)
    [] cmd.op = "WRQ" -> E!WRQPacket(cmd.file)
    [] cmd.op = "DELRQ" -> E!DELRQPacket(cmd.file)
    [] cmd.op = "DIRQ" -> E!DIRQPacket
    [] cmd.op = "DISC" -> E!DiscPacket

\* What the server receives when its decoder has all the bytes of a command.
Arriving(cmd) ==
  IF \E r \in S!decodeAll(E!encode(Typed(cmd))) : r.packet = Typed(cmd) THEN <<cmd>>
  ELSE <<>>

\* process casts a packet to the class its opcode says and drops other opcodes.
Familiar(pkt) == E!getOpcode(pkt) \in {3, 4, 5, 9}
IsAnswer(pkt) == E!getOpcode(pkt) \in {3, 4, 5}

\* The content of a listing is only printed.
Meaning(c, pkt) ==
  CASE pkt.opcode = 4 -> AckPacket(pkt.blockNum % 65536)
    [] pkt.opcode = 5 -> ErrorPacket(pkt.ErrCode)
    [] pkt.opcode = 9 -> BCastPacket(pkt.delOrAdd = 1, pkt.fileName)
    [] pkt.opcode = 3 /\ cl[c].lastOperation = "DIRQ" -> ListPacket({})
    [] OTHER -> DataPacket(pkt.blockNum % 65536, pkt.data)

Delivered ==
  [c \in Conns |-> IF Familiar(packet[c]) THEN <<Meaning(c, packet[c])>> ELSE <<>>]

Keyboard == INSTANCE TFTPClient WITH Clients <- Conns, toServer <- buffer
Socket == INSTANCE TFTPClient
            WITH Clients <- Conns, toServer <- outgoing, toClient <- Delivered

\* History: a command is in the channel from the keystroke on.
AllSent == [c \in Conns |-> outgoing[c] \o buffer[c]]

-----------------------------------------------------------------------------
ThreadsInit ==
  /\ SystemInit
  /\ outgoing = [c \in Conns |-> <<>>]
  /\ incoming = [c \in Conns |-> <<>>]
  /\ kpc = [c \in Conns |-> "getline"]
  /\ buffer = [c \in Conns |-> <<>>]
  /\ ed = [c \in Conns |-> E!NewEncoderDecoder]
  /\ pos = [c \in Conns |-> 0]
  /\ packet = [c \in Conns |-> E!nullptr]
  /\ crashed = [c \in Conns |-> FALSE]

(* The keyboard thread.                                                    *)

At(c, l) == kpc[c] = l /\ ~crashed[c]
Then(c, l) == kpc' = [kpc EXCEPT ![c] = l]

GetLine(c) ==
  /\ At(c, "getline")
  /\ Keyboard!Command(c)
  /\ Then(c, "encode")
  /\ UNCHANGED <<vars, outgoing, incoming, ed, pos, packet, crashed>>
  /\ toServer' = AllSent'

\* encdec->encode(packet): the vectors and the opcode of a packet that is being
\* decoded are replaced by those of the request.
Encode(c) ==
  /\ At(c, "encode")
  /\ ed' = [ed EXCEPT ![c] = E!encoding(@, Typed(buffer[c][1]))]
  /\ Then(c, "clean")
  /\ UNCHANGED <<systemVars, outgoing, incoming, buffer, pos, packet, crashed>>

Clean(c) ==
  /\ At(c, "clean")
  /\ ed' = [ed EXCEPT ![c] = E!cleanFields(@)]
  /\ Then(c, "send")
  /\ UNCHANGED <<systemVars, outgoing, incoming, buffer, pos, packet, crashed>>

SendBytes(c) ==
  /\ At(c, "send")
  /\ outgoing' = [outgoing EXCEPT ![c] = @ \o Arriving(buffer[c][1])]
  /\ buffer' = [buffer EXCEPT ![c] = <<>>]
  /\ Then(c, "getline")
  /\ UNCHANGED <<vars, cl, ncmd, local, toClient, incoming, ed, pos, packet, crashed>>
  /\ toServer' = AllSent'

-----------------------------------------------------------------------------
(* The socket thread.                                                      *)

\* In getBytes or decodeNextByte, with a byte to read.
Reading(c) == /\ cl[c].connected
              /\ ~crashed[c]
              /\ packet[c] = E!nullptr
              /\ incoming[c] # <<>>

bytes(c) == S!encode(Wire(Head(incoming[c])))

\* History: TFTPSystem drops a broadcast in the step that reads it.
Heard(c) == /\ toClient[c] = incoming[c]
            /\ Head(incoming[c]).op = "BCAST"
            /\ incoming'[c] # incoming[c]

DecodeNextByte(c) ==
  /\ Reading(c)
  /\ ~E!OutOfRange(ed[c])
  /\ LET result == E!decodeNextByte(ed[c], bytes(c)[pos[c] + 1])
     IN /\ ed' = [ed EXCEPT ![c] = result.ed]
        /\ packet' = [packet EXCEPT ![c] = result.packet]
  /\ IF pos[c] + 1 = Len(bytes(c))
     THEN /\ pos' = [pos EXCEPT ![c] = 0]
          /\ incoming' = [incoming EXCEPT ![c] = Tail(@)]
     ELSE /\ pos' = [pos EXCEPT ![c] = @ + 1]
          /\ UNCHANGED incoming
  /\ toClient' = IF Heard(c) THEN [toClient EXCEPT ![c] = Tail(@)] ELSE toClient
  /\ UNCHANGED <<vars, cl, ncmd, local, toServer, outgoing, kpc, buffer, crashed>>

\* process; the packet is gone when it returns.
ProcessPacket(c) ==
  /\ ~crashed[c]
  /\ packet[c] # E!nullptr
  /\ packet' = [packet EXCEPT ![c] = E!nullptr]
  /\ IF Familiar(packet[c]) THEN Socket!SocketThread(c)
     ELSE UNCHANGED <<cl, ncmd, local, outgoing>>
  /\ UNCHANGED <<vars, incoming, kpc, buffer, ed, pos, crashed>>
  /\ toServer' = AllSent'
  /\ toClient' = IF IsAnswer(packet[c]) THEN [toClient EXCEPT ![c] = Tail(@)]
                 ELSE toClient

\* encode or cleanFields of one thread meets decodeNextByte of the other, or
\* decodeNextByte erases what encode has already taken away.
Crash(c) ==
  /\ Reading(c)
  /\ At(c, "encode") \/ At(c, "clean") \/ E!OutOfRange(ed[c])
  /\ crashed' = [crashed EXCEPT ![c] = TRUE]
  /\ UNCHANGED <<systemVars, outgoing, incoming, kpc, buffer, ed, pos, packet>>

-----------------------------------------------------------------------------
(* The server.                                                             *)

ServerThread(c) ==
  /\ SystemThread(c)
  /\ incoming' = [d \in Conns |-> incoming[d] \o Written(d)]
  /\ UNCHANGED <<outgoing, threads>>

ServerReceive(c) ==
  /\ outgoing[c] # <<>>
  /\ Receive(c)
  /\ message'[c] = Head(outgoing[c])
  /\ outgoing' = [outgoing EXCEPT ![c] = Tail(@)]
  /\ UNCHANGED <<cl, ncmd, local, toClient, incoming, threads>>
  /\ toServer' = AllSent'

ServerAccept(c) ==
  /\ SystemAccept(c)
  /\ UNCHANGED <<outgoing, incoming, threads>>

ServerSide(c) == ServerThread(c) \/ ServerReceive(c) \/ ServerAccept(c)
KeyboardThread(c) == Encode(c) \/ Clean(c) \/ SendBytes(c)
SocketThread(c) == DecodeNextByte(c) \/ ProcessPacket(c)

ThreadsNext == \E c \in Conns :
  \/ ServerSide(c) \/ GetLine(c) \/ KeyboardThread(c) \/ SocketThread(c)
  \/ Crash(c)

ThreadsSpec == ThreadsInit /\ [][ThreadsNext]_threadsVars

\* The threads of both processes run; no user has to type anything.
ThreadsFairSpec ==
  /\ ThreadsSpec
  /\ \A c \in Conns : /\ WF_threadsVars(ServerSide(c))
                      /\ WF_threadsVars(KeyboardThread(c))
                      /\ WF_threadsVars(SocketThread(c))

-----------------------------------------------------------------------------
\* The variables of the client keep their types.  What it has decoded is always
\* of one of the classes, although a name in it need not be text.
ThreadsTypeOK ==
  /\ ClientTypeOK
  /\ outgoing \in [Conns -> Seq(Request)]
  /\ incoming \in [Conns -> Seq(Packet)]
  /\ kpc \in [Conns -> {"getline", "encode", "clean", "send"}]
  /\ buffer \in [Conns -> Seq(Request)]
  /\ ed \in [Conns -> E!Fields]
  /\ pos \in [Conns -> Nat]
  /\ DOMAIN packet = Conns
  /\ \A c \in Conns : E!getOpcode(packet[c]) \in 0 .. 10
  /\ crashed \in [Conns -> BOOLEAN]

\* The decoder is where the stream is: it holds what has been read of the first
\* packet.  What encode has left is harmless if cleanFields comes first.
Intact(c) ==
  IF kpc[c] = "clean" THEN pos[c] = 0
  ELSE IF incoming[c] = <<>> THEN E!Decoding(ed[c], E!DiscPacket, <<>>, 0)
  ELSE E!Decoding(ed[c], Wire(Head(incoming[c])), bytes(c), pos[c])

\* client.cpp:87 resets the decoder under the other thread, and that can only
\* hit a broadcast: no answer is on its way while the keyboard thread is in
\* sendPacket, however far the server and the socket thread are.
TornOnlyByBroadcast ==
  [][\A c \in Conns :
       Intact(c) /\ (~Intact(c)' \/ crashed'[c] # crashed[c])
         => incoming[c] # <<>> /\ Head(incoming[c]).op = "BCAST"]_threadsVars

\* Whatever the keyboard thread does to the decoder, also after it has lost its
\* place: an answer process acts on is one the server has sent, and it is acted
\* on at its last byte.  A broadcast, which is only printed, may be garbled.
NothingInvented ==
  [][\A c \in Conns :
       packet'[c] # packet[c] /\ IsAnswer(packet'[c])
         => /\ packet'[c] = Wire(Head(incoming[c]))
            /\ incoming'[c] = Tail(incoming[c])]_threadsVars

\* The threads with their bytes do what TFTPSystem does in whole packets, and a
\* client that has lost its place, or crashed, only stops reading.
ImplementsSystem == SystemSpec

\* A command is answered in the end, unless the server's thread has died or a
\* broadcast was torn: requests reach the server as they were typed, and no
\* broadcast before an answer keeps the client from it.
CommandsAnswered ==
  \A c \in Conns :
    C!Waiting(c) ~> ~C!Waiting(c) \/ pc[c] = "dead" \/ ~Intact(c) \/ crashed[c]
-----------------------------------------------------------------------------
(* Where the decoder of a client stands: what makes all this inductive.    *)

\* What has been read of the packets that have not been processed.
InStep(c) ==
  \/ ~IsAnswer(packet[c]) /\ toClient[c] = incoming[c]
  \/ /\ IsAnswer(packet[c])
     /\ toClient[c] # <<>>
     /\ packet[c] = Wire(Head(toClient[c]))
     /\ incoming[c] = Tail(toClient[c])

\* The keyboard thread has something to send, and its answer is to come.
Typing(c) ==
  IF kpc[c] = "getline" THEN buffer[c] = <<>>
  ELSE \E cmd \in Commands[c] : buffer[c] = <<cmd>>

InStream(c) ==
  IF incoming[c] = <<>> THEN pos[c] = 0 ELSE pos[c] < Len(bytes(c))

\* The opcode bytes of a request, which encode has put in the decoder.
OfRequest(s) == /\ Len(s) > 1
                /\ s[1] = 0
                /\ s[2] \in {1, 2, 6, 7, 8, 10}

\* The one byte last read.
LastRead(c, s) == IF pos[c] = 0 THEN s = <<0>> ELSE s = <<bytes(c)[pos[c]]>>

\* Between encode and cleanFields: no opcode of an answer can come together.
Overwritten(c) ==
  /\ Quiet(incoming[c])
  /\ ed[c].readSecond => ed[c].isOpCodeInitialized
  /\ IF ed[c].isOpCodeInitialized THEN ed[c].opcode \notin {3, 4, 5}
     ELSE IF ed[c].startedInitializingOpCode
          THEN OfRequest(ed[c].opcodeBytes) \/ LastRead(c, ed[c].opcodeBytes)
          ELSE ed[c].opcodeBytes = <<>> \/ OfRequest(ed[c].opcodeBytes)

\* cleanFields has come in the middle of a broadcast: what follows never makes
\* an opcode, so that nothing is ever decoded again.
Astray(c) ==
  \/ /\ ed[c].isOpCodeInitialized
     /\ ed[c].opcode \notin 1 .. 10
  \/ /\ ~ed[c].isOpCodeInitialized
     /\ ~ed[c].readSecond
     /\ pos[c] > 0 => IsBroadcast(Head(incoming[c]))
     /\ IF ed[c].startedInitializingOpCode
        THEN pos[c] # 1 /\ LastRead(c, ed[c].opcodeBytes)
        ELSE pos[c] > 0 /\ ed[c].opcodeBytes = <<>>

Lost(c) == /\ kpc[c] \in {"send", "getline"}
           /\ C!Waiting(c)
           /\ ~IsAnswer(packet[c])
           /\ Astray(c)

\* A client is in step with its stream, is between encode and cleanFields, or
\* waits for an answer it will never decode: the keyboard thread can stop the
\* client that way, and it cannot make it take a wrong answer.
InStepOrLost ==
  /\ toServer = AllSent
  /\ \A c \in Conns :
       /\ Typing(c)
       /\ InStream(c)
       /\ \/ InStep(c) /\ kpc[c] # "clean" /\ Intact(c)
          \/ InStep(c) /\ kpc[c] = "clean" /\ Overwritten(c)
          \/ Lost(c)

=============================================================================
