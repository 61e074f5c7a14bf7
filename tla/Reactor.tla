------------------------------ MODULE Reactor ------------------------------
(***************************************************************************)
(* The reactor server: one selector thread accepts, reads and writes for   *)
(* all clients, and the pool runs what it has read.  The pool is used      *)
(* through what it promises (SerialExecutor): the task with which a        *)
(* handler decodes and processes is an actor's task.  A handler and the    *)
(* client of its channel have one name.                                    *)
(***************************************************************************)
EXTENDS Naturals, Sequences

CONSTANTS Conns, NONE,
          Requests,  \* what each client asks: "ask", "share" or "DISC"
          MaxAsk,    \* bound: requests of one client
          MayLeave   \* the clients that may close their socket

\* Requests that are answered once, twice, and by the end of the connection.
Request == {"ask", "share", "DISC"}

ASSUME ReactorAssumption ==
  /\ Requests \in [Conns -> SUBSET Request]
  /\ MaxAsk \in Nat
  /\ MayLeave \subseteq Conns
  /\ NONE \notin Conns \cup Nat

VARIABLES
  (* the selector thread *)
  sel,              \* where it is
  at,               \* the handler it accepts or writes for
  ready,            \* selectedKeys: what each channel is ready for
  acceptReady,      \* the key of the server socket is selected
  selectorTasks,    \* pending changes of interest, and whether the key was found
  wakeup,           \* selector.wakeup() since the last select
  latest,           \* connectionsQueue.get(101): the last handler accepted
  (* the channels *)
  chan,             \* "none", "connecting", "adding", "open", "closed"
  interest,         \* interestOps of the key
  writeQueue,       \* how many buffers wait in writeQueue
  inbound,          \* requests that arrived and are not read
  asked, gone,      \* requests sent, and: the client has closed its socket
  (* the pool *)
  submitted, todo, current,
  buffer,           \* what each task of a handler has yet to decode
  (* the task of a handler *)
  shouldTerminate, step, toSend, dest

selector == <<sel, at, ready, acceptReady>>
changes == <<selectorTasks, wakeup>>
channel == <<chan, interest>>
client == <<inbound, asked, gone>>
pool == <<submitted, todo, current>>
task == <<shouldTerminate, step, toSend, dest>>
vars == <<selector, changes, latest, channel, writeQueue, client, pool, buffer, task>>

Ops == {"R", "W"}
Change == [conn : Conns, key : BOOLEAN]

TypeOK ==
  /\ sel \in {"select", "tasks", "keys", "register", "write", "drained", "dead", "stuck"}
  /\ at \in Conns \cup {NONE}
  /\ ready \in [Conns -> SUBSET Ops]
  /\ acceptReady \in BOOLEAN
  /\ selectorTasks \in Seq(Change)
  /\ wakeup \in BOOLEAN
  /\ latest \in Conns \cup {NONE}
  /\ chan \in [Conns -> {"none", "connecting", "adding", "open", "closed"}]
  /\ interest \in [Conns -> SUBSET Ops]
  /\ writeQueue \in [Conns -> Nat]
  /\ inbound \in [Conns -> Seq(Request)]
  /\ asked \in [Conns -> 0 .. MaxAsk]
  /\ gone \in [Conns -> BOOLEAN]
  /\ submitted \in [Conns -> Nat]
  /\ todo \in [Conns -> Seq(Nat)]
  /\ current \in [Conns -> Nat \cup {NONE}]
  /\ buffer \in [Conns -> Seq(Seq(Request))]
  /\ shouldTerminate \in [Conns -> BOOLEAN]
  /\ step \in [Conns -> {"decode", "send", "update", "wake"}]
  /\ toSend \in [Conns -> 0 .. 2]
  /\ dest \in [Conns -> Conns \cup {NONE}]

Executor == INSTANCE SerialExecutor WITH Actors <- Conns

Init == /\ sel = "select"
        /\ at = NONE
        /\ ready = [h \in Conns |-> {}]
        /\ acceptReady = FALSE
        /\ selectorTasks = <<>>
        /\ wakeup = FALSE
        /\ latest = NONE
        /\ chan = [h \in Conns |-> "none"]
        /\ interest = [h \in Conns |-> {}]
        /\ writeQueue = [h \in Conns |-> 0]
        /\ inbound = [h \in Conns |-> <<>>]
        /\ asked = [h \in Conns |-> 0]
        /\ gone = [h \in Conns |-> FALSE]
        /\ Executor!Init
        /\ buffer = [h \in Conns |-> <<>>]
        /\ shouldTerminate = [h \in Conns |-> FALSE]
        /\ step = [h \in Conns |-> "decode"]
        /\ toSend = [h \in Conns |-> 0]
        /\ dest = [h \in Conns |-> NONE]

-----------------------------------------------------------------------------
(* The clients.                                                            *)

Connect(h) ==
  /\ chan[h] = "none"
  /\ chan' = [chan EXCEPT ![h] = "connecting"]
  /\ UNCHANGED <<selector, changes, latest, interest, writeQueue, client, pool,
                 buffer, task>>

HasSocket(h) == chan[h] \in {"connecting", "adding", "open"} /\ ~gone[h]

Ask(h, r) ==
  /\ HasSocket(h)
  /\ asked[h] < MaxAsk
  /\ asked' = [asked EXCEPT ![h] = @ + 1]
  /\ inbound' = [inbound EXCEPT ![h] = Append(@, r)]
  /\ UNCHANGED <<selector, changes, latest, channel, writeQueue, gone, pool,
                 buffer, task>>

Leave(h) ==
  /\ h \in MayLeave
  /\ HasSocket(h)
  /\ gone' = [gone EXCEPT ![h] = TRUE]
  /\ UNCHANGED <<selector, changes, latest, channel, writeQueue, inbound, asked,
                 pool, buffer, task>>

Client(h) == Connect(h) \/ (\E r \in Requests[h] : Ask(h, r)) \/ Leave(h)

-----------------------------------------------------------------------------
(* The selector thread.                                                    *)

SelectorAt(where) == sel' = where /\ UNCHANGED at

\* What select() reports of a channel: what it is interested in and ready for.
ReadyOps(h) ==
  IF chan[h] # "open" THEN {}
  ELSE {op \in interest[h] : op = "R" => inbound[h] # <<>> \/ gone[h]}
Connecting == {h \in Conns : chan[h] = "connecting"}

Select ==
  /\ sel = "select"
  /\ wakeup \/ Connecting # {} \/ \E h \in Conns : ReadyOps(h) # {}
  /\ wakeup' = FALSE
  /\ ready' = [h \in Conns |-> ReadyOps(h)]
  /\ acceptReady' = (Connecting # {})
  /\ SelectorAt("tasks")
  /\ UNCHANGED <<selectorTasks, latest, channel, writeQueue, client, pool, buffer,
                 task>>

\* key.interestOps(ops); the exceptions of a key that was not registered yet or
\* whose channel has been closed meanwhile end the selector thread.
RunTask ==
  /\ sel = "tasks"
  /\ selectorTasks # <<>>
  /\ selectorTasks' = Tail(selectorTasks)
  /\ LET t == Head(selectorTasks)
     IN \/ /\ t.key /\ chan[t.conn] = "open"
           /\ interest' = [interest EXCEPT ![t.conn] = Ops]
           /\ UNCHANGED sel
        \/ /\ ~(t.key /\ chan[t.conn] = "open")
           /\ sel' = "dead"
           /\ UNCHANGED interest
  /\ UNCHANGED <<at, ready, acceptReady, wakeup, latest, chan, writeQueue, client,
                 pool, buffer, task>>

TasksDone ==
  /\ sel = "tasks"
  /\ selectorTasks = <<>>
  /\ SelectorAt("keys")
  /\ UNCHANGED <<ready, acceptReady, changes, latest, channel, writeQueue, client,
                 pool, buffer, task>>

\* handleAccept: the handler is in the registry before its channel has a key.
AcceptAdd(h) ==
  /\ sel = "keys"
  /\ acceptReady
  /\ chan[h] = "connecting"
  /\ acceptReady' = FALSE
  /\ chan' = [chan EXCEPT ![h] = "adding"]
  /\ latest' = h
  /\ sel' = "register"
  /\ at' = h
  /\ UNCHANGED <<ready, changes, interest, writeQueue, client, pool, buffer, task>>

AcceptRegister ==
  /\ sel = "register"
  /\ chan' = [chan EXCEPT ![at] = "open"]
  /\ interest' = [interest EXCEPT ![at] = {"R"}]
  /\ SelectorAt("keys")
  /\ UNCHANGED <<ready, acceptReady, changes, latest, writeQueue, client, pool,
                 buffer, task>>

\* continueRead takes what has arrived and the pool gets a task for it; then the
\* same handler writes.
ReadSome(h) ==
  /\ sel = "keys"
  /\ "R" \in ready[h]
  /\ inbound[h] # <<>>
  /\ inbound' = [inbound EXCEPT ![h] = <<>>]
  /\ Executor!Submit(h)
  /\ buffer' = [buffer EXCEPT ![h] = Append(@, inbound[h])]
  /\ ready' = [ready EXCEPT ![h] = {}]
  /\ \/ /\ "W" \in ready[h]
        /\ sel' = "write"
        /\ at' = h
     \/ /\ "W" \notin ready[h]
        /\ UNCHANGED <<sel, at>>
  /\ UNCHANGED <<acceptReady, changes, latest, channel, writeQueue, asked, gone, task>>

\* End of stream, or the reset of a client that left: the channel is closed.
ReadEnd(h) ==
  /\ sel = "keys"
  /\ "R" \in ready[h]
  /\ gone[h]
  /\ chan' = [chan EXCEPT ![h] = "closed"]
  /\ ready' = [ready EXCEPT ![h] = {}]
  /\ UNCHANGED <<sel, at, acceptReady, changes, latest, interest, writeQueue, client,
                 pool, buffer, task>>

WriteBegin(h) ==
  /\ sel = "keys"
  /\ ready[h] = {"W"}
  /\ ready' = [ready EXCEPT ![h] = {}]
  /\ sel' = "write"
  /\ at' = h
  /\ UNCHANGED <<acceptReady, changes, latest, channel, writeQueue, client, pool,
                 buffer, task>>

Unwritten == sel = "write" /\ writeQueue[at] > 0

WriteOne ==
  /\ Unwritten
  /\ writeQueue' = [writeQueue EXCEPT ![at] = @ - 1]
  /\ UNCHANGED <<selector, changes, latest, channel, client, pool, buffer, task>>

\* The socket takes a part of the first buffer, which stays the first.
WritePart ==
  /\ Unwritten
  /\ SelectorAt("keys")
  /\ UNCHANGED <<ready, acceptReady, changes, latest, channel, writeQueue, client,
                 pool, buffer, task>>

\* A write that fails closes the channel; the loop goes on, and fails for ever.
WriteFails ==
  /\ Unwritten
  /\ gone[at]
  /\ chan' = [chan EXCEPT ![at] = "closed"]
  /\ SelectorAt("stuck")
  /\ UNCHANGED <<ready, acceptReady, changes, latest, interest, writeQueue, client,
                 pool, buffer, task>>

WriteDrained ==
  /\ sel = "write"
  /\ writeQueue[at] = 0
  /\ SelectorAt("drained")
  /\ UNCHANGED <<ready, acceptReady, changes, latest, channel, writeQueue, client,
                 pool, buffer, task>>

\* Mutant: the interest in reading is not set again.
WriteEndDeaf ==
  /\ sel = "drained"
  /\ interest' = [interest EXCEPT ![at] = IF writeQueue[at] > 0 THEN @ ELSE {}]
  /\ SelectorAt("keys")
  /\ UNCHANGED <<chan, ready, acceptReady, changes, latest, writeQueue, client,
                 pool, buffer, task>>

WriteEnd ==
  /\ sel = "drained"
  /\ \/ /\ writeQueue[at] > 0
        /\ UNCHANGED channel
     \/ /\ writeQueue[at] = 0
        /\ shouldTerminate[at]
        /\ chan' = [chan EXCEPT ![at] = "closed"]
        /\ UNCHANGED interest
     \/ /\ writeQueue[at] = 0
        /\ ~shouldTerminate[at]
        /\ interest' = [interest EXCEPT ![at] = {"R"}]
        /\ UNCHANGED chan
  /\ SelectorAt("keys")
  /\ UNCHANGED <<ready, acceptReady, changes, latest, writeQueue, client, pool,
                 buffer, task>>

KeysDone ==
  /\ sel = "keys"
  /\ \A h \in Conns : ready[h] = {}
  /\ ~acceptReady
  /\ SelectorAt("select")
  /\ UNCHANGED <<ready, acceptReady, changes, latest, channel, writeQueue, client,
                 pool, buffer, task>>

Keys == \E h \in Conns : AcceptAdd(h) \/ ReadSome(h) \/ ReadEnd(h) \/ WriteBegin(h)
Write == WriteOne \/ WritePart \/ WriteFails \/ WriteDrained \/ WriteEnd
Selector == \/ Select \/ RunTask \/ TasksDone \/ Keys \/ AcceptRegister \/ Write
            \/ KeysDone

-----------------------------------------------------------------------------
(* The task of a handler, on a thread of the pool.                         *)

Step(h, where) == step' = [step EXCEPT ![h] = where]

Start(h) ==
  /\ Executor!Start(h)
  /\ UNCHANGED <<selector, changes, latest, channel, writeQueue, client, buffer, task>>

Rest(h) == buffer[h][current[h]]

\* A request is decoded and processed; a DISC sets shouldTerminate before it is
\* acknowledged.
Process(h) ==
  /\ step[h] = "decode"
  /\ current[h] # NONE
  /\ ~shouldTerminate[h]
  /\ Rest(h) # <<>>
  /\ LET r == Head(Rest(h))
     IN /\ shouldTerminate' = [shouldTerminate EXCEPT ![h] = r = "DISC"]
        /\ toSend' = [toSend EXCEPT ![h] = IF r = "share" THEN 2 ELSE 1]
  /\ buffer' = [buffer EXCEPT ![h][current[h]] = Tail(@)]
  /\ Step(h, "send")
  /\ UNCHANGED <<selector, changes, latest, channel, writeQueue, client, pool, dest>>

\* process throws: what is left of the buffer is lost.
Throw(h) ==
  /\ step[h] = "send"
  /\ toSend' = [toSend EXCEPT ![h] = 0]
  /\ buffer' = [buffer EXCEPT ![h][current[h]] = <<>>]
  /\ Step(h, "decode")
  /\ UNCHANGED <<selector, changes, latest, channel, writeQueue, client, pool,
                 shouldTerminate, dest>>

\* connections.send: every handler has the id 101, which leads to the latest.
Send(h) ==
  /\ step[h] = "send"
  /\ toSend' = [toSend EXCEPT ![h] = @ - 1]
  /\ dest' = [dest EXCEPT ![h] = latest]
  /\ writeQueue' = [writeQueue EXCEPT ![latest] = @ + 1]
  /\ Step(h, "update")
  /\ UNCHANGED <<selector, changes, latest, channel, client, pool, buffer,
                 shouldTerminate>>

\* Mutant: the loop over the answers does not end.
SentNever(h) == "send"

Sent(h) == IF toSend[h] > 0 THEN "send" ELSE "decode"

\* Mutant: the selector thread is not woken.
UpdateSilently(h) ==
  /\ step[h] = "update"
  /\ selectorTasks' =
       Append(selectorTasks, [conn |-> dest[h], key |-> chan[dest[h]] # "adding"])
  /\ Step(h, Sent(h))
  /\ UNCHANGED <<selector, wakeup, latest, channel, writeQueue, client, pool, buffer,
                 shouldTerminate, toSend, dest>>

\* updateInterestedOps, called by a thread of the pool.
Update(h) ==
  /\ step[h] = "update"
  /\ selectorTasks' =
       Append(selectorTasks, [conn |-> dest[h], key |-> chan[dest[h]] # "adding"])
  /\ Step(h, "wake")
  /\ UNCHANGED <<selector, wakeup, latest, channel, writeQueue, client, pool, buffer,
                 shouldTerminate, toSend, dest>>

Wake(h) ==
  /\ step[h] = "wake"
  /\ wakeup' = TRUE
  /\ Step(h, Sent(h))
  /\ UNCHANGED <<selector, selectorTasks, latest, channel, writeQueue, client, pool,
                 buffer, shouldTerminate, toSend, dest>>

End(h) ==
  /\ step[h] = "decode"
  /\ current[h] # NONE
  /\ shouldTerminate[h] \/ Rest(h) = <<>>
  /\ Executor!End(h)
  /\ UNCHANGED <<selector, changes, latest, channel, writeQueue, client, buffer, task>>

Task(h) == \/ Start(h) \/ Process(h) \/ Throw(h) \/ Send(h) \/ Update(h) \/ Wake(h)
           \/ End(h)

Next == Selector \/ \E h \in Conns : Client(h) \/ Task(h)

Spec == Init /\ [][Next]_vars

\* The selector thread is scheduled, every task of the pool runs (EveryTaskRuns
\* of ActorThreadPool), and a client reads what its socket holds, so that a write
\* that is tried again and again succeeds.
FairSpec == /\ Spec
            /\ WF_vars(Selector)
            /\ SF_vars(WriteOne)
            /\ \A h \in Conns : WF_vars(Task(h))

-----------------------------------------------------------------------------
Serving == sel \notin {"dead", "stuck"}

\* The channel is interested in writing, or a change to that effect is on its way.
Covered(h) ==
  \/ "W" \in interest[h]
  \/ \E i \in 1 .. Len(selectorTasks) : selectorTasks[i].conn = h
  \/ \E g \in Conns : step[g] = "update" /\ dest[g] = h

\* An answer that waits in a writeQueue is never forgotten by updateInterestedOps,
\* and the selector thread never goes to sleep on a change of interest.
NoAnswerStranded ==
  /\ \A h \in Conns :
       writeQueue[h] > 0 /\ chan[h] = "open" /\ Serving => Covered(h)
  /\ sel = "select" /\ selectorTasks # <<>> =>
       wakeup \/ \E g \in Conns : step[g] = "wake"

\* What is queued for a client leaves in the end, while the selector thread
\* lives and the channel is open.
AnswersAreWritten ==
  \A h \in Conns :
    writeQueue[h] > 0 ~> writeQueue[h] = 0 \/ chan[h] = "closed" \/ ~Serving

\* What a client has asked is read and taken from its buffer in the end, whatever
\* the interest of its channel was set to meanwhile.
Unhandled(h) == inbound[h] # <<>> \/ todo[h] # <<>> \/ current[h] # NONE

RequestsAreHandled ==
  \A h \in Conns :
    Unhandled(h) ~> ~Unhandled(h) \/ chan[h] = "closed" \/ ~Serving

\* The assignment acknowledges a DISC with an ACK, after which the client may end
\* (section DISC Packets): the server does not close a channel while an answer to
\* its client is still to be sent or written (DealWithDISC, continueWrite).
DiscIsAcknowledged ==
  \A h \in Conns :
    chan[h] = "closed" /\ ~gone[h] => step[h] # "send" /\ writeQueue[h] = 0

-----------------------------------------------------------------------------
(* What makes NoAnswerStranded inductive.                                  *)

\* The tasks of a handler are numbered, and each has its buffer.
NumberOK ==
  \A h \in Conns :
    /\ Len(buffer[h]) = submitted[h]
    /\ todo[h] \in Seq(1 .. submitted[h])
    /\ current[h] # NONE => current[h] \in 1 .. submitted[h]

\* A handler that sends has something to send, to a handler that was accepted.
SendOK ==
  \A h \in Conns :
    /\ step[h] # "decode" => current[h] # NONE
    /\ step[h] = "send" => toSend[h] > 0
    /\ step[h] \in {"update", "wake"} => dest[h] \in Conns
    /\ submitted[h] > 0 => latest \in Conns

\* The channel the selector thread works on is in the state its place implies;
\* a channel without a key has no interest.
Writing == sel \in {"write", "drained"}
SelectorOK ==
  /\ sel = "register" => at \in Conns /\ chan[at] = "adding"
  /\ Writing => at \in Conns /\ chan[at] = "open" /\ ready[at] = {}
  /\ \A h \in Conns :
       /\ chan[h] = "adding" => sel = "register" /\ at = h
       /\ chan[h] \in {"none", "connecting", "adding"} => interest[h] = {}
       /\ chan[h] \notin {"none", "connecting"} => latest \in Conns
       /\ ready[h] # {} => chan[h] = "open"

\* Both parts of NoAnswerStranded at every moment of the selector thread.
AnswerOK ==
  \A h \in Conns :
    writeQueue[h] > 0 /\ chan[h] # "closed" /\ Serving => Covered(h)
WakeOK ==
  sel \notin {"tasks", "dead", "stuck"} /\ selectorTasks # <<>> =>
    wakeup \/ \E g \in Conns : step[g] = "wake"

IndInv == TypeOK /\ NumberOK /\ SendOK /\ SelectorOK /\ AnswerOK /\ WakeOK
=============================================================================
