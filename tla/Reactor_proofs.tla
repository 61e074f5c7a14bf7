--------------------------- MODULE Reactor_proofs ---------------------------
(***************************************************************************)
(* No answer is stranded in a write queue of the reactor while its         *)
(* selector thread lives, for any number of clients and requests.          *)
(***************************************************************************)
EXTENDS Reactor, SequenceTheorems, TLAPS

\* A handler that works has been accepted, so there is a latest one.
LEMMA Accepted ==
  ASSUME IndInv, NEW h \in Conns, step[h] # "decode" PROVE latest \in Conns
  <1>1. current[h] \in 1 .. submitted[h] BY DEF IndInv, SendOK, NumberOK
  <1>2. submitted[h] > 0 BY <1>1 DEF IndInv, TypeOK
  <1> QED BY <1>2 DEF IndInv, SendOK

\* Every variable keeps its type in every step.
LEMMA TypeStep == IndInv /\ [Next]_vars => TypeOK'
  <1> SUFFICES ASSUME IndInv, [Next]_vars PROVE TypeOK' OBVIOUS
  <1> USE ReactorAssumption DEF selector, changes, channel, client, pool, task
  <1>1. ASSUME Select PROVE TypeOK'
    BY <1>1 DEF IndInv, TypeOK, NumberOK, SelectorOK, Ops, Writing, Select,
          SelectorAt, ReadyOps, Connecting
  <1>2. ASSUME RunTask PROVE TypeOK'
    <2>1. selectorTasks \in Seq(Change) /\ selectorTasks # <<>>
      BY <1>2 DEF IndInv, TypeOK, RunTask
    <2>2. Head(selectorTasks) \in Change /\ Tail(selectorTasks) \in Seq(Change)
      BY <2>1
    <2>3. PICK t \in Change : t = Head(selectorTasks) BY <2>2
    <2>4. interest' = interest \/ interest' = [interest EXCEPT ![t.conn] = Ops]
      BY <1>2, <2>3 DEF RunTask
    <2>5. interest \in [Conns -> SUBSET Ops] BY DEF IndInv, TypeOK
    <2>6. interest' \in [Conns -> SUBSET Ops] BY <2>4, <2>5
    <2>7. selectorTasks' \in Seq(Change) BY <1>2, <2>2 DEF RunTask
    <2>8. sel' \in {"tasks", "dead"} BY <1>2 DEF RunTask
    <2> QED BY <1>2, <2>6, <2>7, <2>8 DEF IndInv, TypeOK, RunTask
  <1>3. ASSUME TasksDone PROVE TypeOK'
    BY <1>3 DEF IndInv, TypeOK, NumberOK, SelectorOK, Ops, Writing, TasksDone,
          SelectorAt
  <1>4. ASSUME AcceptRegister PROVE TypeOK'
    BY <1>4 DEF IndInv, TypeOK, NumberOK, SelectorOK, Ops, Writing, AcceptRegister,
          SelectorAt
  <1>5. ASSUME WriteOne PROVE TypeOK'
    <2>1. at \in Conns BY <1>5 DEF IndInv, SelectorOK, Writing, WriteOne, Unwritten
    <2>2. writeQueue \in [Conns -> Nat] BY DEF IndInv, TypeOK
    <2>3. writeQueue[at] > 0 /\ writeQueue' = [writeQueue EXCEPT ![at] = @ - 1]
      BY <1>5 DEF WriteOne, Unwritten
    <2>4. writeQueue' \in [Conns -> Nat] BY <2>1, <2>2, <2>3
    <2> QED BY <1>5, <2>4 DEF IndInv, TypeOK, WriteOne
  <1>6. ASSUME WritePart PROVE TypeOK'
    BY <1>6 DEF IndInv, TypeOK, NumberOK, SelectorOK, Ops, Writing, WritePart,
          SelectorAt, Unwritten
  <1>7. ASSUME WriteFails PROVE TypeOK'
    BY <1>7 DEF IndInv, TypeOK, NumberOK, SelectorOK, Ops, Writing, WriteFails,
          SelectorAt, Unwritten
  <1>8. ASSUME WriteDrained PROVE TypeOK'
    BY <1>8 DEF IndInv, TypeOK, NumberOK, SelectorOK, Ops, Writing, WriteDrained,
          SelectorAt
  <1>9. ASSUME WriteEnd PROVE TypeOK'
    <2>1. at \in Conns BY <1>9 DEF IndInv, SelectorOK, Writing, WriteEnd
    <2>2. chan' \in [Conns -> {"none", "connecting", "adding", "open", "closed"}]
      BY <1>9, <2>1 DEF IndInv, TypeOK, WriteEnd
    <2>3. interest' = interest \/ interest' = [interest EXCEPT ![at] = {"R"}]
      BY <1>9 DEF WriteEnd
    <2>4. interest \in [Conns -> SUBSET Ops] /\ {"R"} \in SUBSET Ops
      BY DEF IndInv, TypeOK, Ops
    <2>5. interest' \in [Conns -> SUBSET Ops] BY <2>1, <2>3, <2>4
    <2> QED BY <1>9, <2>2, <2>5 DEF IndInv, TypeOK, WriteEnd, SelectorAt
  <1>10. ASSUME KeysDone PROVE TypeOK'
    BY <1>10 DEF IndInv, TypeOK, NumberOK, SelectorOK, Ops, Writing, KeysDone,
          SelectorAt
  <1>11. ASSUME NEW h \in Conns, AcceptAdd(h) PROVE TypeOK'
    BY <1>11 DEF IndInv, TypeOK, NumberOK, SelectorOK, Ops, Writing, AcceptAdd
  <1>12. ASSUME NEW h \in Conns, ReadSome(h) PROVE TypeOK'
    <2>0. submitted \in [Conns -> Nat] BY DEF IndInv, TypeOK
    <2>1. submitted[h] + 1 \in Nat BY <2>0
    <2>2. Append(todo[h], submitted[h] + 1) \in Seq(Nat) BY <2>1 DEF IndInv, TypeOK
    <2>3. Append(buffer[h], inbound[h]) \in Seq(Seq(Request)) BY DEF IndInv, TypeOK
    <2>4. /\ submitted' = [submitted EXCEPT ![h] = @ + 1]
          /\ todo' = [todo EXCEPT ![h] = Append(todo[h], submitted[h] + 1)]
          /\ buffer' = [buffer EXCEPT ![h] = Append(buffer[h], inbound[h])]
      BY <1>12 DEF ReadSome, Executor!Submit, IndInv, TypeOK
    <2>5. /\ submitted' \in [Conns -> Nat]
          /\ todo' \in [Conns -> Seq(Nat)]
          /\ buffer' \in [Conns -> Seq(Seq(Request))]
      BY <2>1, <2>2, <2>3, <2>4 DEF IndInv, TypeOK
    <2>6. inbound' \in [Conns -> Seq(Request)] BY <1>12 DEF IndInv, TypeOK, ReadSome
    <2>7. ready' \in [Conns -> SUBSET Ops] BY <1>12 DEF IndInv, TypeOK, ReadSome
    <2> QED BY <1>12, <2>5, <2>6, <2>7 DEF IndInv, TypeOK, ReadSome, Executor!Submit
  <1>13. ASSUME NEW h \in Conns, ReadEnd(h) PROVE TypeOK'
    BY <1>13 DEF IndInv, TypeOK, NumberOK, SelectorOK, Ops, Writing, ReadEnd
  <1>14. ASSUME NEW h \in Conns, WriteBegin(h) PROVE TypeOK'
    BY <1>14 DEF IndInv, TypeOK, NumberOK, SelectorOK, Ops, Writing, WriteBegin
  <1>15. ASSUME NEW h \in Conns, Connect(h) PROVE TypeOK'
    BY <1>15 DEF IndInv, TypeOK, NumberOK, SelectorOK, Ops, Writing, Connect
  <1>16. ASSUME NEW h \in Conns, Leave(h) PROVE TypeOK'
    BY <1>16 DEF IndInv, TypeOK, NumberOK, SelectorOK, Ops, Writing, Leave
  <1>17. ASSUME NEW h \in Conns, Start(h) PROVE TypeOK'
    <2>0. todo[h] \in Seq(Nat) /\ todo[h] # <<>>
      BY <1>17 DEF IndInv, TypeOK, Start, Executor!Start
    <2>1. Head(todo[h]) \in Nat /\ Tail(todo[h]) \in Seq(Nat) BY <2>0
    <2>2. /\ todo' = [todo EXCEPT ![h] = Tail(todo[h])]
          /\ current' = [current EXCEPT ![h] = Head(todo[h])]
      BY <1>17 DEF IndInv, TypeOK, Start, Executor!Start
    <2>3. todo' \in [Conns -> Seq(Nat)] /\ current' \in [Conns -> Nat \cup {NONE}]
      BY <2>1, <2>2 DEF IndInv, TypeOK
    <2> QED BY <1>17, <2>3 DEF IndInv, TypeOK, Start, Executor!Start
  <1>18. ASSUME NEW h \in Conns, Process(h) PROVE TypeOK'
    <2>1. current[h] \in 1 .. Len(buffer[h]) BY <1>18 DEF IndInv, NumberOK, Process
    <2>2. Rest(h) \in Seq(Request) /\ Rest(h) # <<>>
      BY <1>18, <2>1 DEF IndInv, TypeOK, Process, Rest
    <2>3. Tail(Rest(h)) \in Seq(Request) BY <2>2
    <2>4. [buffer[h] EXCEPT ![current[h]] = Tail(Rest(h))] \in Seq(Seq(Request))
      BY <2>1, <2>3, ExceptSeq DEF IndInv, TypeOK
    <2>5. buffer' = [buffer EXCEPT ![h] = [buffer[h] EXCEPT ![current[h]] = Tail(Rest(h))]]
      BY <1>18 DEF IndInv, TypeOK, Process, Rest
    <2>6. buffer' \in [Conns -> Seq(Seq(Request))] BY <2>4, <2>5 DEF IndInv, TypeOK
    <2>7. PICK b \in BOOLEAN, n \in {1, 2} :
            /\ shouldTerminate' = [shouldTerminate EXCEPT ![h] = b]
            /\ toSend' = [toSend EXCEPT ![h] = n]
      BY <1>18 DEF Process
    <2>8. /\ shouldTerminate' \in [Conns -> BOOLEAN]
          /\ toSend' \in [Conns -> 0 .. 2]
      BY <2>7 DEF IndInv, TypeOK
    <2>9. step' \in [Conns -> {"decode", "send", "update", "wake"}]
      BY <1>18 DEF IndInv, TypeOK, Process, Step
    <2>10. /\ sel' = sel /\ at' = at /\ ready' = ready /\ acceptReady' = acceptReady
           /\ selectorTasks' = selectorTasks /\ wakeup' = wakeup /\ latest' = latest
           /\ chan' = chan /\ interest' = interest /\ writeQueue' = writeQueue
           /\ inbound' = inbound /\ asked' = asked /\ gone' = gone /\ dest' = dest
           /\ submitted' = submitted /\ todo' = todo /\ current' = current
      BY <1>18 DEF Process
    <2>11. TypeOK BY DEF IndInv
    <2> QED BY <2>6, <2>8, <2>9, <2>10, <2>11, Zenon DEF TypeOK
  <1>19. ASSUME NEW h \in Conns, Throw(h) PROVE TypeOK'
    <2>1. current[h] \in 1 .. Len(buffer[h])
      BY <1>19 DEF IndInv, NumberOK, SendOK, Throw
    <2>2. [buffer[h] EXCEPT ![current[h]] = <<>>] \in Seq(Seq(Request))
      BY <2>1, ExceptSeq DEF IndInv, TypeOK
    <2>3. buffer' = [buffer EXCEPT ![h] = [buffer[h] EXCEPT ![current[h]] = <<>>]]
      BY <1>19 DEF IndInv, TypeOK, Throw
    <2>4. buffer' \in [Conns -> Seq(Seq(Request))] BY <2>2, <2>3 DEF IndInv, TypeOK
    <2>5. toSend' = [toSend EXCEPT ![h] = 0] /\ step' = [step EXCEPT ![h] = "decode"]
      BY <1>19 DEF Throw, Step
    <2>8. toSend' \in [Conns -> 0 .. 2]
      <3>1. toSend \in [Conns -> 0 .. 2] /\ 0 \in 0 .. 2 BY DEF IndInv, TypeOK
      <3> QED BY <2>5, <3>1
    <2>9. step' \in [Conns -> {"decode", "send", "update", "wake"}]
      <3>1. step \in [Conns -> {"decode", "send", "update", "wake"}] BY DEF IndInv, TypeOK
      <3> QED BY <2>5, <3>1
    <2>6. /\ sel' = sel /\ at' = at /\ ready' = ready /\ acceptReady' = acceptReady
          /\ selectorTasks' = selectorTasks /\ wakeup' = wakeup /\ latest' = latest
          /\ chan' = chan /\ interest' = interest /\ writeQueue' = writeQueue
          /\ inbound' = inbound /\ asked' = asked /\ gone' = gone /\ dest' = dest
          /\ submitted' = submitted /\ todo' = todo /\ current' = current
          /\ shouldTerminate' = shouldTerminate
      BY <1>19 DEF Throw
    <2>7. TypeOK BY DEF IndInv
    <2> QED BY <2>4, <2>6, <2>7, <2>8, <2>9, Zenon DEF TypeOK
  <1>20. ASSUME NEW h \in Conns, Send(h) PROVE TypeOK'
    <2>1. latest \in Conns BY <1>20, Accepted DEF Send
    <2>2. toSend[h] - 1 \in 0 .. 2 BY <1>20 DEF IndInv, TypeOK, SendOK, Send
    <2>3. toSend' \in [Conns -> 0 .. 2] BY <1>20, <2>2 DEF IndInv, TypeOK, Send
    <2>4. writeQueue' = [writeQueue EXCEPT ![latest] = @ + 1] BY <1>20 DEF Send
    <2>5. writeQueue \in [Conns -> Nat] BY DEF IndInv, TypeOK
    <2>6. writeQueue' \in [Conns -> Nat] BY <2>1, <2>4, <2>5
    <2> QED BY <1>20, <2>1, <2>3, <2>6 DEF IndInv, TypeOK, Send, Step
  <1>21. ASSUME NEW h \in Conns, Update(h) PROVE TypeOK'
    <2>1. [conn |-> dest[h], key |-> chan[dest[h]] # "adding"] \in Change
      BY <1>21 DEF IndInv, SendOK, Update, Change
    <2>2. selectorTasks' \in Seq(Change) BY <1>21, <2>1 DEF IndInv, TypeOK, Update
    <2> QED BY <1>21, <2>2 DEF IndInv, TypeOK, Update, Step
  <1>22. ASSUME NEW h \in Conns, Wake(h) PROVE TypeOK'
    BY <1>22 DEF IndInv, TypeOK, NumberOK, SelectorOK, Ops, Writing, Wake, Step, Sent
  <1>23. ASSUME NEW h \in Conns, End(h) PROVE TypeOK'
    BY <1>23 DEF IndInv, TypeOK, NumberOK, SelectorOK, Ops, Writing, End, Rest,
          Executor!End
  <1>24. ASSUME NEW h \in Conns, NEW r \in Requests[h], Ask(h, r) PROVE TypeOK'
    <2>1. r \in Request OBVIOUS
    <2>2. Append(inbound[h], r) \in Seq(Request) BY <2>1 DEF IndInv, TypeOK
    <2>3. inbound' \in [Conns -> Seq(Request)] BY <1>24, <2>2 DEF IndInv, TypeOK, Ask
    <2>4. asked \in [Conns -> 0 .. MaxAsk] /\ asked[h] < MaxAsk /\ MaxAsk \in Nat
      BY <1>24 DEF IndInv, TypeOK, Ask
    <2>5. asked[h] + 1 \in 0 .. MaxAsk BY <2>4
    <2>6. asked' \in [Conns -> 0 .. MaxAsk] BY <1>24, <2>4, <2>5 DEF Ask
    <2> QED BY <1>24, <2>3, <2>6 DEF IndInv, TypeOK, Ask
  <1>25. CASE UNCHANGED vars
    BY <1>25 DEF IndInv, TypeOK, NumberOK, SelectorOK, Ops, Writing, vars
  <1> QED
    BY <1>1, <1>2, <1>3, <1>4, <1>5, <1>6, <1>7, <1>8, <1>9, <1>10, <1>11, <1>12,
       <1>13, <1>14, <1>15, <1>16, <1>17, <1>18, <1>19, <1>20, <1>21, <1>22, <1>23,
       <1>24, <1>25
    DEF Next, Selector, Keys, Write, Client, Task

\* Tasks keep their numbers and buffers.
LEMMA NumberStep == IndInv /\ [Next]_vars => NumberOK'
  <1> SUFFICES ASSUME IndInv, [Next]_vars PROVE NumberOK' OBVIOUS
  <1> USE ReactorAssumption DEF selector, changes, channel, client, pool, task
  <1>1. ASSUME \/ Select \/ RunTask \/ TasksDone \/ AcceptRegister \/ WriteOne \/ WritePart
               \/ WriteFails \/ WriteDrained \/ WriteEnd \/ KeysDone
               \/ \E h \in Conns : AcceptAdd(h) \/ ReadEnd(h) \/ WriteBegin(h) \/ Connect(h)
               \/ \E h \in Conns : Leave(h) \/ Send(h) \/ Update(h) \/ Wake(h)
               \/ \E h \in Conns : \E r \in Requests[h] : Ask(h, r)
        PROVE  NumberOK'
    <2>1. UNCHANGED <<submitted, todo, current, buffer>>
      BY <1>1 DEF Select, SelectorAt, RunTask, TasksDone, AcceptRegister, WriteOne,
          Unwritten, WritePart, WriteFails, WriteDrained, WriteEnd, KeysDone,
          AcceptAdd, ReadEnd, WriteBegin, Connect, Leave, Send, Step, Update, Wake,
          Sent, Ask
    <2> QED BY <2>1 DEF IndInv, TypeOK, NumberOK
  <1>2. ASSUME NEW h \in Conns, ReadSome(h) PROVE NumberOK'
    <2>1. /\ submitted' = [submitted EXCEPT ![h] = submitted[h] + 1]
          /\ todo' = [todo EXCEPT ![h] = Append(todo[h], submitted[h] + 1)]
          /\ buffer' = [buffer EXCEPT ![h] = Append(buffer[h], inbound[h])]
          /\ current' = current
      BY <1>2 DEF ReadSome, Executor!Submit, IndInv, TypeOK
    <2>2. SUFFICES ASSUME NEW g \in Conns
                   PROVE  /\ Len(buffer'[g]) = submitted'[g]
                          /\ todo'[g] \in Seq(1 .. submitted'[g])
                          /\ current'[g] # NONE => current'[g] \in 1 .. submitted'[g]
      BY DEF NumberOK
    <2>3. CASE g # h BY <2>1, <2>3 DEF IndInv, TypeOK, NumberOK
    <2>4. CASE g = h
      <3>1. submitted'[h] = submitted[h] + 1 /\ submitted[h] \in Nat
        BY <2>1 DEF IndInv, TypeOK
      <3>2. Len(buffer'[h]) = Len(buffer[h]) + 1 BY <2>1 DEF IndInv, TypeOK
      <3>3. 1 .. submitted[h] \subseteq 1 .. submitted'[h] BY <3>1
      <3>4. todo[h] \in Seq(1 .. submitted'[h])
        BY <3>3, SeqMonotonic DEF IndInv, NumberOK
      <3>5. submitted[h] + 1 \in 1 .. submitted'[h] BY <3>1
      <3>6. Append(todo[h], submitted[h] + 1) \in Seq(1 .. submitted'[h])
        BY <3>4, <3>5
      <3>7. todo'[h] \in Seq(1 .. submitted'[h]) BY <2>1, <3>6 DEF IndInv, TypeOK
      <3> QED BY <2>1, <2>4, <3>1, <3>2, <3>3, <3>7 DEF IndInv, NumberOK
    <2> QED BY <2>3, <2>4
  <1>3. ASSUME NEW h \in Conns, Start(h) PROVE NumberOK'
    <2>1. /\ todo' = [todo EXCEPT ![h] = Tail(todo[h])]
          /\ current' = [current EXCEPT ![h] = Head(todo[h])]
          /\ UNCHANGED <<submitted, buffer>>
      BY <1>3 DEF Start, Executor!Start, IndInv, TypeOK
    <2>0. todo[h] \in Seq(1 .. submitted[h]) /\ todo[h] # <<>>
      BY <1>3 DEF IndInv, NumberOK, Start, Executor!Start
    <2>2. /\ Head(todo[h]) \in 1 .. submitted[h]
          /\ Tail(todo[h]) \in Seq(1 .. submitted[h])
      BY <2>0, HeadTailProperties
    <2> QED BY <2>1, <2>2 DEF IndInv, TypeOK, NumberOK
  <1>4. ASSUME NEW h \in Conns, Process(h) PROVE NumberOK'
    <2>1. current[h] \in 1 .. Len(buffer[h]) BY <1>4 DEF IndInv, NumberOK, Process
    <2>2. Rest(h) \in Seq(Request) /\ Rest(h) # <<>>
      BY <1>4, <2>1 DEF IndInv, TypeOK, Process, Rest
    <2>3. Tail(Rest(h)) \in Seq(Request) BY <2>2
    <2>4. Len([buffer[h] EXCEPT ![current[h]] = Tail(Rest(h))]) = Len(buffer[h])
      BY <2>1, <2>3, ExceptSeq DEF IndInv, TypeOK
    <2>5. /\ buffer' = [buffer EXCEPT ![h] = [buffer[h] EXCEPT ![current[h]] = Tail(Rest(h))]]
          /\ UNCHANGED <<submitted, todo, current>>
      BY <1>4 DEF IndInv, TypeOK, Process, Rest
    <2> QED BY <2>4, <2>5 DEF IndInv, TypeOK, NumberOK
  <1>5. ASSUME NEW h \in Conns, Throw(h) PROVE NumberOK'
    <2>1. current[h] \in 1 .. Len(buffer[h])
      BY <1>5 DEF IndInv, NumberOK, SendOK, Throw
    <2>2. Len([buffer[h] EXCEPT ![current[h]] = <<>>]) = Len(buffer[h])
      BY <2>1, ExceptSeq DEF IndInv, TypeOK
    <2>3. /\ buffer' = [buffer EXCEPT ![h] = [buffer[h] EXCEPT ![current[h]] = <<>>]]
          /\ UNCHANGED <<submitted, todo, current>>
      BY <1>5 DEF IndInv, TypeOK, Throw
    <2> QED BY <2>2, <2>3 DEF IndInv, TypeOK, NumberOK
  <1>6. ASSUME NEW h \in Conns, End(h) PROVE NumberOK'
    BY <1>6 DEF IndInv, TypeOK, NumberOK, End, Rest, Executor!End
  <1>7. CASE UNCHANGED vars
    BY <1>7 DEF IndInv, TypeOK, NumberOK, vars
  <1> QED
    BY <1>1, <1>2, <1>3, <1>4, <1>5, <1>6, <1>7
    DEF Next, Selector, Keys, Write, Client, Task

\* A handler that sends has been accepted and has something to send.
LEMMA SendStep == IndInv /\ [Next]_vars => SendOK'
  <1> SUFFICES ASSUME IndInv, [Next]_vars PROVE SendOK' OBVIOUS
  <1> USE ReactorAssumption DEF selector, changes, channel, client, pool, task
  <1>1. ASSUME \/ Select \/ RunTask \/ TasksDone \/ AcceptRegister \/ WriteOne \/ WritePart
               \/ WriteFails \/ WriteDrained \/ WriteEnd \/ KeysDone
               \/ \E h \in Conns : ReadEnd(h) \/ WriteBegin(h) \/ Connect(h) \/ Leave(h)
               \/ \E h \in Conns : \E r \in Requests[h] : Ask(h, r)
        PROVE  SendOK'
    <2>1. UNCHANGED <<step, current, toSend, dest, submitted, latest>>
      BY <1>1 DEF Select, SelectorAt, RunTask, TasksDone, AcceptRegister, WriteOne,
          Unwritten, WritePart, WriteFails, WriteDrained, WriteEnd, KeysDone, ReadEnd,
          WriteBegin, Connect, Leave, Ask
    <2> QED BY <2>1 DEF IndInv, TypeOK, SendOK
  <1>2. ASSUME NEW h \in Conns, AcceptAdd(h) PROVE SendOK'
    BY <1>2 DEF IndInv, TypeOK, SendOK, AcceptAdd
  <1>3. ASSUME NEW h \in Conns, ReadSome(h) PROVE SendOK'
    <2>1. latest \in Conns BY <1>3 DEF IndInv, SelectorOK, ReadSome
    <2> QED BY <1>3, <2>1 DEF IndInv, TypeOK, SendOK, ReadSome, Executor!Submit
  <1>4. ASSUME NEW h \in Conns, Start(h) PROVE SendOK'
    BY <1>4 DEF IndInv, TypeOK, SendOK, Start, Executor!Start
  <1>5. ASSUME NEW h \in Conns, Process(h) PROVE SendOK'
    <2>1. PICK n \in {1, 2} : toSend' = [toSend EXCEPT ![h] = n] BY <1>5 DEF Process
    <2>2. /\ step' = [step EXCEPT ![h] = "send"]
          /\ current[h] # NONE
          /\ UNCHANGED <<current, submitted, latest, dest>>
      BY <1>5 DEF Process, Step
    <2>3. /\ step \in [Conns -> {"decode", "send", "update", "wake"}]
          /\ toSend \in [Conns -> 0 .. 2]
          /\ SendOK
      BY DEF IndInv, TypeOK
    <2> QED BY <2>1, <2>2, <2>3 DEF SendOK
  <1>6. ASSUME NEW h \in Conns, Throw(h) PROVE SendOK'
    BY <1>6 DEF IndInv, TypeOK, SendOK, Throw, Step
  <1>7. ASSUME NEW h \in Conns, Send(h) PROVE SendOK'
    <2>1. latest \in Conns BY <1>7, Accepted DEF Send
    <2>2. UNCHANGED <<current, submitted, latest>> BY <1>7 DEF Send
    <2>3. /\ step' = [step EXCEPT ![h] = "update"]
          /\ toSend' = [toSend EXCEPT ![h] = @ - 1]
          /\ dest' = [dest EXCEPT ![h] = latest]
          /\ step[h] = "send"
      BY <1>7 DEF Send, Step
    <2> QED BY <2>1, <2>2, <2>3 DEF IndInv, TypeOK, SendOK
  <1>8. ASSUME NEW h \in Conns, Update(h) PROVE SendOK'
    <2>1. UNCHANGED <<current, submitted, latest, toSend, dest>> BY <1>8 DEF Update
    <2>2. step' = [step EXCEPT ![h] = "wake"] /\ step[h] = "update"
      BY <1>8 DEF Update, Step
    <2> QED BY <2>1, <2>2 DEF IndInv, TypeOK, SendOK
  <1>9. ASSUME NEW h \in Conns, Wake(h) PROVE SendOK'
    BY <1>9 DEF IndInv, TypeOK, SendOK, Wake, Step, Sent
  <1>10. ASSUME NEW h \in Conns, End(h) PROVE SendOK'
    BY <1>10 DEF IndInv, TypeOK, SendOK, End, Rest, Executor!End
  <1>11. CASE UNCHANGED vars
    BY <1>11 DEF IndInv, TypeOK, SendOK, vars
  <1> QED
    BY <1>1, <1>2, <1>3, <1>4, <1>5, <1>6, <1>7, <1>8, <1>9, <1>10, <1>11
    DEF Next, Selector, Keys, Write, Client, Task

\* The selector thread works on channels in the right state.
LEMMA SelectorStep == IndInv /\ [Next]_vars => SelectorOK'
  <1> SUFFICES ASSUME IndInv, [Next]_vars PROVE SelectorOK' OBVIOUS
  <1> USE ReactorAssumption DEF selector, changes, channel, client, pool, task
  <1>1. ASSUME \/ WriteOne
               \/ \E h \in Conns : Leave(h) \/ Start(h) \/ Process(h) \/ Throw(h)
               \/ \E h \in Conns : Send(h) \/ Update(h) \/ Wake(h) \/ End(h)
               \/ \E h \in Conns : \E r \in Requests[h] : Ask(h, r)
        PROVE  SelectorOK'
    <2>1. UNCHANGED <<sel, at, chan, interest, latest, ready>>
      BY <1>1 DEF WriteOne, Unwritten, Leave, Start, Executor!Start, Process, Step,
          Throw, Send, Update, Wake, Sent, End, Executor!End, Ask
    <2> QED BY <2>1 DEF IndInv, TypeOK, SelectorOK, Ops, Writing
  <1>2. ASSUME Select PROVE SelectorOK'
    BY <1>2 DEF IndInv, TypeOK, SelectorOK, Ops, Writing, Select, SelectorAt,
          ReadyOps, Connecting
  <1>3. ASSUME RunTask PROVE SelectorOK'
    <2>1. PICK t \in Change : t = Head(selectorTasks)
      <3>1. selectorTasks \in Seq(Change) BY DEF IndInv, TypeOK
      <3>2. selectorTasks # <<>> BY <1>3 DEF RunTask
      <3> QED BY <3>1, <3>2
    <2>2. t.conn \in Conns BY DEF Change
    <2>3. UNCHANGED <<at, ready, latest, chan>> BY <1>3 DEF RunTask
    <2>4. sel = "tasks" /\ sel' \in {"tasks", "dead"} BY <1>3 DEF RunTask
    <2>5. \/ chan[t.conn] = "open" /\ interest' = [interest EXCEPT ![t.conn] = Ops]
          \/ interest' = interest
      BY <1>3, <2>1 DEF RunTask
    <2> QED BY <2>2, <2>3, <2>4, <2>5 DEF IndInv, TypeOK, SelectorOK, Writing
  <1>4. ASSUME TasksDone PROVE SelectorOK'
    BY <1>4 DEF IndInv, TypeOK, SelectorOK, Ops, Writing, TasksDone, SelectorAt
  <1>5. ASSUME AcceptRegister PROVE SelectorOK'
    BY <1>5 DEF IndInv, TypeOK, SelectorOK, Ops, Writing, AcceptRegister, SelectorAt
  <1>6. ASSUME WritePart PROVE SelectorOK'
    BY <1>6 DEF IndInv, TypeOK, SelectorOK, Ops, Writing, WritePart, SelectorAt,
          Unwritten
  <1>7. ASSUME WriteFails PROVE SelectorOK'
    <2>1. at \in Conns /\ chan[at] = "open" /\ ready[at] = {}
      BY <1>7 DEF IndInv, SelectorOK, Writing, WriteFails, Unwritten
    <2>2. UNCHANGED <<at, ready, latest, interest>> /\ sel = "write" /\ sel' = "stuck"
      BY <1>7 DEF WriteFails, SelectorAt, Unwritten
    <2>3. chan' = [chan EXCEPT ![at] = "closed"] BY <1>7 DEF WriteFails
    <2>4. /\ chan \in [Conns -> {"none", "connecting", "adding", "open", "closed"}]
          /\ SelectorOK
      BY DEF IndInv, TypeOK
    <2> QED BY <2>1, <2>2, <2>3, <2>4 DEF SelectorOK, Writing
  <1>8. ASSUME WriteDrained PROVE SelectorOK'
    BY <1>8 DEF IndInv, TypeOK, SelectorOK, Ops, Writing, WriteDrained, SelectorAt
  <1>9. ASSUME WriteEnd PROVE SelectorOK'
    <2>1. at \in Conns /\ chan[at] = "open" /\ ready[at] = {}
      BY <1>9 DEF IndInv, SelectorOK, Writing, WriteEnd
    <2>2. UNCHANGED <<at, ready, latest>> /\ sel = "drained" /\ sel' = "keys"
      BY <1>9 DEF WriteEnd, SelectorAt
    <2>3. \/ UNCHANGED <<chan, interest>>
          \/ chan' = [chan EXCEPT ![at] = "closed"] /\ UNCHANGED interest
          \/ interest' = [interest EXCEPT ![at] = {"R"}] /\ UNCHANGED chan
      BY <1>9 DEF WriteEnd
    <2>4. /\ chan \in [Conns -> {"none", "connecting", "adding", "open", "closed"}]
          /\ interest \in [Conns -> SUBSET Ops]
          /\ SelectorOK
      BY DEF IndInv, TypeOK
    <2> QED BY <2>1, <2>2, <2>3, <2>4 DEF SelectorOK, Writing
  <1>10. ASSUME KeysDone PROVE SelectorOK'
    BY <1>10 DEF IndInv, TypeOK, SelectorOK, Ops, Writing, KeysDone, SelectorAt
  <1>11. ASSUME NEW h \in Conns, AcceptAdd(h) PROVE SelectorOK'
    BY <1>11 DEF IndInv, TypeOK, SelectorOK, Ops, Writing, AcceptAdd
  <1>12. ASSUME NEW h \in Conns, ReadSome(h) PROVE SelectorOK'
    <2>1. ready[h] # {} /\ chan[h] = "open" BY <1>12 DEF IndInv, SelectorOK, ReadSome
    <2>2. UNCHANGED <<chan, interest, latest>> /\ sel = "keys" BY <1>12 DEF ReadSome
    <2>3. /\ ready' = [ready EXCEPT ![h] = {}]
          /\ \/ sel' = "write" /\ at' = h
             \/ sel' = "keys" /\ at' = at
      BY <1>12 DEF ReadSome
    <2>4. ready \in [Conns -> SUBSET Ops] /\ SelectorOK BY DEF IndInv, TypeOK
    <2>5. /\ ready'[h] = {}
          /\ \A g \in Conns : ready'[g] # {} => ready[g] # {}
      BY <2>3, <2>4
    <2>6. Writing' => at' \in Conns /\ chan'[at'] = "open" /\ ready'[at'] = {}
      BY <2>1, <2>2, <2>3, <2>5 DEF Writing
    <2>7. sel' # "register" /\ \A g \in Conns : chan[g] # "adding"
      BY <2>2, <2>3, <2>4 DEF SelectorOK
    <2>8. ASSUME NEW g \in Conns
          PROVE  /\ chan'[g] # "adding"
                 /\ chan'[g] \in {"none", "connecting", "adding"} => interest'[g] = {}
                 /\ chan'[g] \notin {"none", "connecting"} => latest' \in Conns
                 /\ ready'[g] # {} => chan'[g] = "open"
      BY <2>2, <2>4, <2>5, <2>7 DEF SelectorOK
    <2> QED BY <2>6, <2>7, <2>8 DEF SelectorOK
  <1>13. ASSUME NEW h \in Conns, ReadEnd(h) PROVE SelectorOK'
    <2>1. UNCHANGED <<sel, at, latest, interest>> /\ sel = "keys" BY <1>13 DEF ReadEnd
    <2>2. /\ chan' = [chan EXCEPT ![h] = "closed"] /\ ready' = [ready EXCEPT ![h] = {}]
          /\ ready[h] # {}
      BY <1>13 DEF ReadEnd
    <2>3. /\ chan \in [Conns -> {"none", "connecting", "adding", "open", "closed"}]
          /\ ready \in [Conns -> SUBSET Ops]
          /\ SelectorOK
      BY DEF IndInv, TypeOK
    <2> QED BY <2>1, <2>2, <2>3 DEF SelectorOK, Writing
  <1>14. ASSUME NEW h \in Conns, WriteBegin(h) PROVE SelectorOK'
    BY <1>14 DEF IndInv, TypeOK, SelectorOK, Ops, Writing, WriteBegin
  <1>15. ASSUME NEW h \in Conns, Connect(h) PROVE SelectorOK'
    BY <1>15 DEF IndInv, TypeOK, SelectorOK, Ops, Writing, Connect
  <1>16. CASE UNCHANGED vars
    BY <1>16 DEF IndInv, TypeOK, SelectorOK, Ops, Writing, vars
  <1> QED
    BY <1>1, <1>2, <1>3, <1>4, <1>5, <1>6, <1>7, <1>8, <1>9, <1>10, <1>11, <1>12,
       <1>13, <1>14, <1>15, <1>16
    DEF Next, Selector, Keys, Write, Client, Task

\* What is queued stays covered by an interest in writing, or a change to it.
LEMMA AnswerStep == IndInv /\ [Next]_vars => AnswerOK'
  <1> SUFFICES ASSUME IndInv, [Next]_vars PROVE AnswerOK' OBVIOUS
  <1> USE ReactorAssumption DEF selector, changes, channel, client, pool, task
  <1> SUFFICES ASSUME NEW h \in Conns, writeQueue'[h] > 0, chan'[h] # "closed", Serving'
               PROVE  Covered(h)'
    BY DEF AnswerOK, Serving
  <1>1. ASSUME \/ Select \/ TasksDone \/ WritePart \/ WriteDrained \/ KeysDone
               \/ \E g \in Conns : ReadSome(g) \/ WriteBegin(g) \/ Leave(g)
               \/ \E g \in Conns : \E r \in Requests[g] : Ask(g, r)
        PROVE  Covered(h)'
    <2>1. UNCHANGED <<chan, writeQueue, interest, selectorTasks, step, dest>>
      BY <1>1 DEF Select, SelectorAt, TasksDone, WritePart, Unwritten, WriteDrained,
          KeysDone, ReadSome, Executor!Submit, WriteBegin, Leave, Ask
    <2>2. Serving
      BY <1>1 DEF Serving, Select, SelectorAt, TasksDone, WritePart, Unwritten, WriteDrained,
          KeysDone, ReadSome, Executor!Submit, WriteBegin, Leave, Ask
    <2> QED BY <2>1, <2>2 DEF IndInv, AnswerOK, Covered
  <1>2. ASSUME RunTask PROVE Covered(h)'
    <2>1. selectorTasks \in Seq(Change) /\ selectorTasks # <<>>
      BY <1>2 DEF IndInv, TypeOK, RunTask
    <2>2. PICK t \in Change : t = Head(selectorTasks) BY <2>1
    <2>3. UNCHANGED <<writeQueue, chan, step, dest>> /\ selectorTasks' = Tail(selectorTasks)
      BY <1>2 DEF RunTask
    <2>4. /\ interest' = [interest EXCEPT ![t.conn] = Ops]
          /\ Serving
      BY <1>2, <2>2 DEF RunTask, Serving
    <2>5. Covered(h) BY <2>3, <2>4 DEF IndInv, AnswerOK
    <2>6. CASE t.conn = h
      <3>1. "W" \in interest'[h] BY <2>4, <2>6 DEF IndInv, TypeOK, Ops
      <3> QED BY <3>1 DEF Covered
    <2>7. CASE t.conn # h
      <3>1. interest'[h] = interest[h] BY <2>4, <2>7 DEF IndInv, TypeOK
      <3>2. ASSUME NEW i \in 1 .. Len(selectorTasks), selectorTasks[i].conn = h
            PROVE  \E j \in 1 .. Len(selectorTasks') : selectorTasks'[j].conn = h
        <4>1. i # 1 BY <2>1, <2>2, <2>7, <3>2
        <4>2. i - 1 \in 1 .. Len(selectorTasks') /\ selectorTasks'[i - 1] = selectorTasks[i]
          BY <2>1, <2>3, <4>1
        <4> QED BY <3>2, <4>2
      <3> QED BY <2>3, <2>5, <3>1, <3>2 DEF Covered
    <2> QED BY <2>6, <2>7
  <1>3. ASSUME AcceptRegister PROVE Covered(h)'
    <2>1. UNCHANGED <<writeQueue, selectorTasks, step, dest>> BY <1>3 DEF AcceptRegister
    <2>2. chan[h] # "closed" /\ Serving
      BY <1>3 DEF IndInv, TypeOK, SelectorOK, Serving, AcceptRegister
    <2>3. "W" \in interest[h] => "W" \in interest'[h]
      BY <1>3 DEF IndInv, TypeOK, SelectorOK, AcceptRegister
    <2> QED BY <2>1, <2>2, <2>3 DEF IndInv, AnswerOK, Covered
  <1>4. ASSUME WriteOne PROVE Covered(h)'
    <2>1. UNCHANGED <<chan, interest, selectorTasks, step, dest>> BY <1>4 DEF WriteOne
    <2>2. writeQueue[h] > 0 /\ Serving
      BY <1>4 DEF IndInv, TypeOK, Serving, WriteOne, Unwritten
    <2> QED BY <2>1, <2>2 DEF IndInv, AnswerOK, Covered
  <1>5. ASSUME WriteFails PROVE Covered(h)'
    <2>1. UNCHANGED <<writeQueue, interest, selectorTasks, step, dest>>
      BY <1>5 DEF WriteFails, SelectorAt, Unwritten
    <2>2. chan[h] # "closed" /\ Serving
      BY <1>5
      DEF IndInv, TypeOK, SelectorOK, Writing, Serving, WriteFails, SelectorAt, Unwritten
    <2> QED BY <2>1, <2>2 DEF IndInv, AnswerOK, Covered
  <1>6. ASSUME WriteEnd PROVE Covered(h)'
    <2>1. UNCHANGED <<writeQueue, selectorTasks, step, dest>> BY <1>6 DEF WriteEnd
    <2>2. chan[h] # "closed" /\ Serving
      BY <1>6 DEF IndInv, TypeOK, Serving, WriteEnd
    <2>3. interest'[h] = interest[h]
      BY <1>6, <2>1 DEF IndInv, TypeOK, WriteEnd
    <2> QED BY <2>1, <2>2, <2>3 DEF IndInv, AnswerOK, Covered
  <1>7. ASSUME NEW g \in Conns, AcceptAdd(g) PROVE Covered(h)'
    <2>1. UNCHANGED <<writeQueue, interest, selectorTasks, step, dest>>
      BY <1>7 DEF AcceptAdd
    <2>2. chan[h] # "closed" /\ Serving
      BY <1>7
      DEF IndInv, TypeOK, SelectorOK, Writing, Serving, AcceptAdd
    <2> QED BY <2>1, <2>2 DEF IndInv, AnswerOK, Covered
  <1>8. ASSUME NEW g \in Conns, ReadEnd(g) PROVE Covered(h)'
    <2>1. UNCHANGED <<writeQueue, interest, selectorTasks, step, dest>>
      BY <1>8 DEF ReadEnd
    <2>2. chan[h] # "closed" /\ Serving
      BY <1>8
      DEF IndInv, TypeOK, SelectorOK, Writing, Serving, ReadEnd
    <2> QED BY <2>1, <2>2 DEF IndInv, AnswerOK, Covered
  <1>9. ASSUME NEW g \in Conns, Connect(g) PROVE Covered(h)'
    <2>1. UNCHANGED <<writeQueue, interest, selectorTasks, step, dest>>
      BY <1>9 DEF Connect
    <2>2. chan[h] # "closed" /\ Serving
      BY <1>9
      DEF IndInv, TypeOK, SelectorOK, Writing, Serving, Connect
    <2> QED BY <2>1, <2>2 DEF IndInv, AnswerOK, Covered
  <1>10. ASSUME NEW g \in Conns, Start(g) PROVE Covered(h)'
    <2>1. UNCHANGED <<writeQueue, interest, selectorTasks, chan, sel, dest>>
      BY <1>10 DEF Start, Executor!Start
    <2>2. Covered(h) BY <2>1 DEF IndInv, AnswerOK, Serving
    <2>3. \A f \in Conns : step[f] = "update" => step'[f] = "update"
      BY <1>10 DEF IndInv, TypeOK, Start, Executor!Start
    <2> QED BY <2>1, <2>2, <2>3 DEF Covered
  <1>11. ASSUME NEW g \in Conns, Process(g) PROVE Covered(h)'
    <2>1. UNCHANGED <<writeQueue, interest, selectorTasks, chan, sel, dest>>
      BY <1>11 DEF Process, Step, Rest
    <2>2. Covered(h) BY <2>1 DEF IndInv, AnswerOK, Serving
    <2>3. \A f \in Conns : step[f] = "update" => step'[f] = "update"
      BY <1>11 DEF IndInv, TypeOK, Process, Step, Rest
    <2> QED BY <2>1, <2>2, <2>3 DEF Covered
  <1>12. ASSUME NEW g \in Conns, Throw(g) PROVE Covered(h)'
    <2>1. UNCHANGED <<writeQueue, interest, selectorTasks, chan, sel, dest>>
      BY <1>12 DEF Throw, Step
    <2>2. Covered(h) BY <2>1 DEF IndInv, AnswerOK, Serving
    <2>3. \A f \in Conns : step[f] = "update" => step'[f] = "update"
      BY <1>12 DEF IndInv, TypeOK, Throw, Step
    <2> QED BY <2>1, <2>2, <2>3 DEF Covered
  <1>13. ASSUME NEW g \in Conns, Send(g) PROVE Covered(h)'
    <2>1. UNCHANGED <<interest, selectorTasks, chan, sel>>
          /\ writeQueue' = [writeQueue EXCEPT ![latest] = @ + 1]
          /\ step' = [step EXCEPT ![g] = "update"]
          /\ dest' = [dest EXCEPT ![g] = latest]
          /\ step[g] = "send"
      BY <1>13 DEF Send, Step
    <2>2. CASE latest = h
      <3>1. step'[g] = "update" /\ dest'[g] = h BY <2>1, <2>2 DEF IndInv, TypeOK
      <3> QED BY <3>1 DEF Covered
    <2>3. CASE latest # h
      <3>1. writeQueue[h] > 0 BY <2>1, <2>3 DEF IndInv, TypeOK
      <3>2. Covered(h) BY <2>1, <3>1 DEF IndInv, AnswerOK, Serving
      <3>3. \A f \in Conns : step[f] = "update" => step'[f] = "update" /\ dest'[f] = dest[f]
        BY <2>1 DEF IndInv, TypeOK
      <3> QED BY <2>1, <3>2, <3>3 DEF Covered
    <2> QED BY <2>2, <2>3
  <1>14. ASSUME NEW g \in Conns, Update(g) PROVE Covered(h)'
    <2> DEFINE t == [conn |-> dest[g], key |-> chan[dest[g]] # "adding"]
    <2>1. UNCHANGED <<writeQueue, interest, chan, sel, dest>>
          /\ selectorTasks' = Append(selectorTasks, t)
          /\ step' = [step EXCEPT ![g] = "wake"]
      BY <1>14 DEF Update, Step
    <2>2. Covered(h) BY <2>1 DEF IndInv, AnswerOK, Serving
    <2>3. /\ Len(selectorTasks') = Len(selectorTasks) + 1
          /\ \A i \in 1 .. Len(selectorTasks) : selectorTasks'[i] = selectorTasks[i]
          /\ selectorTasks'[Len(selectorTasks) + 1].conn = dest[g]
      BY <2>1 DEF IndInv, TypeOK
    <2>4. Len(selectorTasks) \in Nat BY DEF IndInv, TypeOK
    <2>5. CASE dest[g] = h
      <3>1. Len(selectorTasks) + 1 \in 1 .. Len(selectorTasks') BY <2>3, <2>4
      <3> QED BY <2>3, <2>5, <3>1 DEF Covered
    <2>6. CASE dest[g] # h
      <3>1. \A f \in Conns : step[f] = "update" /\ dest[f] = h => step'[f] = "update"
        BY <2>1, <2>6 DEF IndInv, TypeOK
      <3>2. 1 .. Len(selectorTasks) \subseteq 1 .. Len(selectorTasks') BY <2>3, <2>4
      <3> QED BY <2>1, <2>2, <2>3, <3>1, <3>2 DEF Covered
    <2> QED BY <2>5, <2>6
  <1>15. ASSUME NEW g \in Conns, Wake(g) PROVE Covered(h)'
    <2>1. UNCHANGED <<writeQueue, interest, selectorTasks, chan, sel, dest>>
      BY <1>15 DEF Wake, Step, Sent
    <2>2. Covered(h) BY <2>1 DEF IndInv, AnswerOK, Serving
    <2>3. \A f \in Conns : step[f] = "update" => step'[f] = "update"
      BY <1>15 DEF IndInv, TypeOK, Wake, Step, Sent
    <2> QED BY <2>1, <2>2, <2>3 DEF Covered
  <1>16. ASSUME NEW g \in Conns, End(g) PROVE Covered(h)'
    <2>1. UNCHANGED <<writeQueue, interest, selectorTasks, chan, sel, dest>>
      BY <1>16 DEF End, Rest, Executor!End
    <2>2. Covered(h) BY <2>1 DEF IndInv, AnswerOK, Serving
    <2>3. \A f \in Conns : step[f] = "update" => step'[f] = "update"
      BY <1>16 DEF IndInv, TypeOK, End, Rest, Executor!End
    <2> QED BY <2>1, <2>2, <2>3 DEF Covered
  <1>17. CASE UNCHANGED vars
    BY <1>17 DEF IndInv, AnswerOK, Covered, Serving, vars
  <1> QED
    BY <1>1, <1>2, <1>3, <1>4, <1>5, <1>6, <1>7, <1>8, <1>9, <1>10, <1>11, <1>12,
       <1>13, <1>14, <1>15, <1>16, <1>17
    DEF Next, Selector, Keys, Write, Client, Task

\* The selector thread does not sleep on a change of interest.
LEMMA WakeStep == IndInv /\ [Next]_vars => WakeOK'
  <1> SUFFICES ASSUME IndInv, [Next]_vars PROVE WakeOK' OBVIOUS
  <1> USE ReactorAssumption DEF selector, changes, channel, client, pool, task
  <1>1. ASSUME \/ WriteOne
               \/ \E h \in Conns : Connect(h) \/ Leave(h) \/ Start(h) \/ End(h)
               \/ \E h \in Conns : \E r \in Requests[h] : Ask(h, r)
        PROVE  WakeOK'
    <2>1. UNCHANGED <<sel, selectorTasks, wakeup, step>>
      BY <1>1 DEF WriteOne, Unwritten, Connect, Leave, Start, Executor!Start, End,
          Executor!End, Ask
    <2> QED BY <2>1 DEF IndInv, TypeOK, WakeOK
  <1>2. ASSUME Select PROVE WakeOK'
    BY <1>2 DEF IndInv, TypeOK, WakeOK, Select, SelectorAt, ReadyOps, Connecting
  <1>3. ASSUME RunTask PROVE WakeOK'
    BY <1>3 DEF IndInv, TypeOK, WakeOK, RunTask
  <1>4. ASSUME TasksDone PROVE WakeOK'
    BY <1>4 DEF IndInv, TypeOK, WakeOK, TasksDone, SelectorAt
  <1>5. ASSUME AcceptRegister PROVE WakeOK'
    BY <1>5 DEF IndInv, TypeOK, WakeOK, AcceptRegister, SelectorAt
  <1>6. ASSUME WritePart PROVE WakeOK'
    BY <1>6 DEF IndInv, TypeOK, WakeOK, WritePart, SelectorAt, Unwritten
  <1>7. ASSUME WriteFails PROVE WakeOK'
    BY <1>7 DEF IndInv, TypeOK, WakeOK, WriteFails, SelectorAt, Unwritten
  <1>8. ASSUME WriteDrained PROVE WakeOK'
    BY <1>8 DEF IndInv, TypeOK, WakeOK, WriteDrained, SelectorAt
  <1>9. ASSUME WriteEnd PROVE WakeOK'
    BY <1>9 DEF IndInv, TypeOK, WakeOK, WriteEnd, SelectorAt
  <1>10. ASSUME KeysDone PROVE WakeOK'
    BY <1>10 DEF IndInv, TypeOK, WakeOK, KeysDone, SelectorAt
  <1>11. ASSUME NEW h \in Conns, AcceptAdd(h) PROVE WakeOK'
    BY <1>11 DEF IndInv, TypeOK, WakeOK, AcceptAdd
  <1>12. ASSUME NEW h \in Conns, ReadSome(h) PROVE WakeOK'
    BY <1>12 DEF IndInv, TypeOK, WakeOK, ReadSome, Executor!Submit
  <1>13. ASSUME NEW h \in Conns, ReadEnd(h) PROVE WakeOK'
    BY <1>13 DEF IndInv, TypeOK, WakeOK, ReadEnd
  <1>14. ASSUME NEW h \in Conns, WriteBegin(h) PROVE WakeOK'
    BY <1>14 DEF IndInv, TypeOK, WakeOK, WriteBegin
  <1>15. ASSUME NEW h \in Conns, Process(h) PROVE WakeOK'
    BY <1>15 DEF IndInv, TypeOK, WakeOK, Process, Step, Rest
  <1>16. ASSUME NEW h \in Conns, Throw(h) PROVE WakeOK'
    BY <1>16 DEF IndInv, TypeOK, WakeOK, Throw, Step
  <1>17. ASSUME NEW h \in Conns, Send(h) PROVE WakeOK'
    BY <1>17 DEF IndInv, TypeOK, WakeOK, Send, Step
  <1>18. ASSUME NEW h \in Conns, Update(h) PROVE WakeOK'
    BY <1>18 DEF IndInv, TypeOK, WakeOK, Update, Step
  <1>19. ASSUME NEW h \in Conns, Wake(h) PROVE WakeOK'
    BY <1>19 DEF IndInv, TypeOK, WakeOK, Wake, Step, Sent
  <1>20. CASE UNCHANGED vars
    BY <1>20 DEF IndInv, TypeOK, WakeOK, vars
  <1> QED
    BY <1>1, <1>2, <1>3, <1>4, <1>5, <1>6, <1>7, <1>8, <1>9, <1>10, <1>11, <1>12,
       <1>13, <1>14, <1>15, <1>16, <1>17, <1>18, <1>19, <1>20
    DEF Next, Selector, Keys, Write, Client, Task

\* The invariant and what each handler and the selector thread are doing.
THEOREM ReactorInvariance == Spec => []IndInv
  <1>1. Init => IndInv
    <2> SUFFICES ASSUME Init PROVE IndInv OBVIOUS
    <2> USE ReactorAssumption DEF Init, Executor!Init
    <2>1. /\ Executor!Init
          /\ buffer = [h \in Conns |-> <<>>]
          /\ selectorTasks = <<>> /\ inbound = [h \in Conns |-> <<>>]
      OBVIOUS
    <2>2. /\ buffer \in [Conns -> Seq(Seq(Request))]
          /\ todo \in [Conns -> Seq(Nat)]
          /\ current \in [Conns -> Nat \cup {NONE}]
          /\ selectorTasks \in Seq(Change) /\ inbound \in [Conns -> Seq(Request)]
      BY <2>1, EmptySeq
    <2>3. /\ ready \in [Conns -> SUBSET Ops] /\ interest \in [Conns -> SUBSET Ops]
          /\ asked \in [Conns -> 0 .. MaxAsk] /\ toSend \in [Conns -> 0 .. 2]
          /\ submitted \in [Conns -> Nat] /\ writeQueue \in [Conns -> Nat]
      OBVIOUS
    <2>4. TypeOK BY <2>2, <2>3 DEF TypeOK
    <2>5. ASSUME NEW h \in Conns
          PROVE  /\ Len(buffer[h]) = submitted[h]
                 /\ todo[h] \in Seq(1 .. submitted[h])
                 /\ current[h] # NONE => current[h] \in 1 .. submitted[h]
      BY <2>1, EmptySeq
    <2>6. NumberOK BY <2>5 DEF NumberOK
    <2>7. SendOK /\ SelectorOK BY DEF SendOK, SelectorOK, Writing
    <2>8. AnswerOK /\ WakeOK BY DEF AnswerOK, WakeOK
    <2> QED BY <2>4, <2>6, <2>7, <2>8 DEF IndInv
  <1>2. IndInv /\ [Next]_vars => IndInv'
    BY TypeStep, NumberStep, SendStep, SelectorStep, AnswerStep, WakeStep DEF IndInv
  <1> QED BY <1>1, <1>2, PTL DEF Spec

\* An answer that waits in a writeQueue of an open channel is covered by an
\* interest in writing or a change to it that has been asked for, and the selector
\* thread does not go to sleep on one (updateInterestedOps, continueWrite).
THEOREM NoAnswerStrandedHolds == Spec => []NoAnswerStranded
  <1>1. IndInv => NoAnswerStranded
    BY DEF IndInv, AnswerOK, WakeOK, NoAnswerStranded
  <1> QED BY <1>1, ReactorInvariance, PTL
=============================================================================
