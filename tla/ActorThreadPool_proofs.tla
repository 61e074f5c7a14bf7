----------------------- MODULE ActorThreadPool_proofs -----------------------
(***************************************************************************)
(* ActorThreadPool keeps an actor in at most one place and implements      *)
(* SerialExecutor, for any number of actors, threads and tasks.            *)
(***************************************************************************)
EXTENDS ActorThreadPool, TLAPS

Inv == TypeOK /\ InOnePlace

\* What Execute does to the work queue.
LEMMA Executed ==
  ASSUME TypeOK, NEW a \in Actors, NEW t \in Nat, Execute(a, t)
  PROVE  /\ queue' \in Seq(Task)
         /\ Len(queue') = Len(queue) + 1
         /\ \A i \in 1 .. Len(queue) : queue'[i] = queue[i]
         /\ queue'[Len(queue) + 1] = [act |-> a, task |-> t]
  <1> DEFINE e == [act |-> a, task |-> t]
  <1>1. e \in Task BY DEF Task
  <1>2. queue \in Seq(Task) BY DEF TypeOK
  <1>3. queue' = Append(queue, e) BY DEF Execute
  <1> HIDE DEF e
  <1>4. /\ queue' \in Seq(Task)
        /\ Len(queue') = Len(queue) + 1
        /\ \A i \in 1 .. Len(queue) : queue'[i] = queue[i]
        /\ queue'[Len(queue) + 1] = e
    BY <1>1, <1>2, <1>3
  <1> QED BY <1>4 DEF e

\* Every variable keeps its type in every step.
LEMMA TypeStep == TypeOK /\ [Next]_vars => TypeOK'
  <1> SUFFICES ASSUME TypeOK, [Next]_vars PROVE TypeOK' OBVIOUS
  <1>1. ASSUME NEW a \in Actors, Submit(a) PROVE TypeOK'
    <2>1. CASE a \notin playingNow
      <3>1. submitted[a] + 1 \in Nat BY DEF TypeOK
      <3>2. Execute(a, submitted[a] + 1) BY <1>1, <2>1 DEF Submit
      <3>3. queue' \in Seq(Task) BY <3>1, <3>2, Executed
      <3> QED BY <1>1, <2>1, <3>3 DEF TypeOK, Submit
    <2>2. CASE a \in playingNow
      <3> DEFINE more == Append(acts[a], submitted[a] + 1)
      <3>1. more \in Seq(Nat) BY DEF TypeOK
      <3>2. /\ acts' = [acts EXCEPT ![a] = more]
            /\ submitted' = [submitted EXCEPT ![a] = @ + 1]
            /\ UNCHANGED <<playingNow, queue, worker>>
        BY <1>1, <2>2 DEF Submit
      <3> HIDE DEF more
      <3> QED BY <3>1, <3>2 DEF TypeOK
    <2> QED BY <2>1, <2>2
  <1>2. ASSUME NEW w \in Workers, Take(w) PROVE TypeOK'
    <2>1. Head(queue) \in Task /\ Tail(queue) \in Seq(Task)
      BY <1>2 DEF TypeOK, Take
    <2>2. [act |-> Head(queue).act, task |-> Head(queue).task, stage |-> "run"] \in Working
      BY <2>1 DEF Task, Working
    <2> QED BY <1>2, <2>1, <2>2 DEF TypeOK, Take
  <1>3. ASSUME NEW w \in Workers, Return(w) PROVE TypeOK'
    <2>1. worker[w] \in Working BY <1>3 DEF TypeOK, Return, At
    <2>2. [act |-> worker[w].act, task |-> worker[w].task, stage |-> "complete"] \in Working
      BY <2>1 DEF Working
    <2> QED BY <1>3, <2>2 DEF TypeOK, Return
  <1>4. ASSUME NEW w \in Workers, Complete(w) PROVE TypeOK'
    <2> DEFINE a == worker[w].act
    <2>1. a \in Actors BY <1>4 DEF TypeOK, Complete, At, Working
    <2>2. CASE acts[a] = <<>>
      BY <1>4, <2>1, <2>2 DEF TypeOK, Complete
    <2>3. CASE acts[a] # <<>>
      <3>1. Head(acts[a]) \in Nat /\ Tail(acts[a]) \in Seq(Nat)
        BY <2>1, <2>3 DEF TypeOK
      <3>2. Execute(a, Head(acts[a])) BY <1>4, <2>3 DEF Complete
      <3>3. queue' \in Seq(Task) BY <2>1, <3>1, <3>2, Executed
      <3> QED BY <1>4, <2>1, <2>3, <3>1, <3>3 DEF TypeOK, Complete
    <2> QED BY <2>2, <2>3
  <1>5. CASE UNCHANGED vars BY <1>5 DEF TypeOK, vars
  <1> QED BY <1>1, <1>2, <1>3, <1>4, <1>5 DEF Next, Thread

\* No step brings an actor to a second place or strands it.
LEMMA PlaceStep == Inv /\ [Next]_vars => InOnePlace'
  <1> SUFFICES ASSUME TypeOK, InOnePlace, [Next]_vars PROVE InOnePlace'
    BY DEF Inv
  <1>1. ASSUME NEW a \in Actors, Submit(a) PROVE InOnePlace'
    <2>1. CASE a \notin playingNow
      <3>1. submitted[a] + 1 \in Nat BY DEF TypeOK
      <3>2. Execute(a, submitted[a] + 1) BY <1>1, <2>1 DEF Submit
      <3>3. /\ queue' \in Seq(Task)
            /\ Len(queue') = Len(queue) + 1
            /\ \A i \in 1 .. Len(queue) : queue'[i] = queue[i]
            /\ queue'[Len(queue) + 1] = [act |-> a, task |-> submitted[a] + 1]
        BY <3>1, <3>2, Executed
      <3>4. ~Queued(a) /\ \A w \in Workers : ~Busy(w, a)
        BY <2>1 DEF InOnePlace
      <3>5. UNCHANGED <<acts, worker>> /\ playingNow' = playingNow \cup {a}
        BY <1>1, <2>1 DEF Submit
      <3>6. \A b \in Actors, w \in Workers : Busy(w, b)' <=> Busy(w, b)
        BY <3>5 DEF Busy
      <3>7. Len(queue) \in Nat BY DEF TypeOK
      <3>8. \A b \in Actors : Queued(b)' <=> Queued(b) \/ b = a
        BY <3>3, <3>7 DEF Queued, Holds
      <3>9. \A i, j \in 1 .. Len(queue') : queue'[i].act = queue'[j].act => i = j
        BY <3>3, <3>4, <3>7 DEF InOnePlace, Queued, Holds
      <3> QED BY <3>4, <3>5, <3>6, <3>8, <3>9 DEF InOnePlace
    <2>2. CASE a \in playingNow
      BY <1>1, <2>2 DEF InOnePlace, Submit, Busy, Queued, Holds, TypeOK
    <2> QED BY <2>1, <2>2
  <1>2. ASSUME NEW w \in Workers, Take(w) PROVE InOnePlace'
    <2> DEFINE a == queue[1].act
    <2>1. /\ Len(queue) \in Nat \ {0}
          /\ Head(queue) = queue[1]
          /\ Len(queue') = Len(queue) - 1
          /\ \A i \in 1 .. Len(queue') : queue'[i] = queue[i + 1]
      BY <1>2 DEF TypeOK, Take
    <2>2. a \in Actors /\ queue[1] \in Task
      <3>1. queue \in Seq(Task) /\ 1 \in 1 .. Len(queue) BY <2>1 DEF TypeOK
      <3>2. queue[1] \in Task BY <3>1
      <3> QED BY <3>2 DEF Task
    <2>3. UNCHANGED <<acts, playingNow>> BY <1>2 DEF Take
    <2>4. /\ worker[w] = NONE
          /\ worker' = [worker EXCEPT ![w] =
               [act |-> a, task |-> queue[1].task, stage |-> "run"]]
      BY <1>2, <2>1 DEF Take
    <2>5. [act |-> a, task |-> queue[1].task, stage |-> "run"] \in Working
      BY <2>2 DEF Working, Task
    <2>6. [act |-> a, task |-> queue[1].task, stage |-> "run"] # NONE
      BY <2>5, NoneAssumption
    <2>7. worker' \in [Workers -> Working \cup {NONE}]
      BY <2>4, <2>5 DEF TypeOK
    <2>8. \A b \in Actors, v \in Workers :
            Busy(v, b)' <=> Busy(v, b) \/ (v = w /\ b = a)
      <3> TAKE b \in Actors, v \in Workers
      <3>1. CASE v = w
        BY <2>4, <2>6, <3>1 DEF Busy, TypeOK
      <3>2. CASE v # w
        BY <2>4, <3>2 DEF Busy, TypeOK
      <3> QED BY <3>1, <3>2
    <2>9. Queued(a) BY <2>1 DEF Queued, Holds
    <2>10. \A b \in Actors : Queued(b)' <=> Queued(b) /\ b # a
      <3> TAKE b \in Actors
      <3>1. ASSUME Queued(b)' PROVE Queued(b) /\ b # a
        <4>1. PICK i \in 1 .. Len(queue') : queue'[i].act = b
          BY <3>1 DEF Queued, Holds
        <4>2. i + 1 \in 1 .. Len(queue) /\ queue[i + 1].act = b
          BY <2>1, <4>1
        <4>3. b # a BY <2>1, <4>2 DEF InOnePlace
        <4> QED BY <4>2, <4>3 DEF Queued, Holds
      <3>2. ASSUME Queued(b), b # a PROVE Queued(b)'
        <4>1. PICK i \in 1 .. Len(queue) : queue[i].act = b
          BY <3>2 DEF Queued, Holds
        <4>2. i - 1 \in 1 .. Len(queue') /\ queue'[i - 1] = queue[i]
          BY <2>1, <3>2, <4>1
        <4> QED BY <4>1, <4>2 DEF Queued, Holds
      <3> QED BY <3>1, <3>2
    <2>11. \A i, j \in 1 .. Len(queue') : queue'[i].act = queue'[j].act => i = j
      <3> TAKE i, j \in 1 .. Len(queue')
      <3>1. /\ i + 1 \in 1 .. Len(queue) /\ j + 1 \in 1 .. Len(queue)
            /\ queue'[i] = queue[i + 1] /\ queue'[j] = queue[j + 1]
        BY <2>1
      <3>2. queue[i + 1].act = queue[j + 1].act => i + 1 = j + 1
        BY <3>1 DEF InOnePlace
      <3> QED BY <3>1, <3>2
    <2>12. \A v \in Workers : ~Busy(v, a) BY <2>2, <2>9 DEF InOnePlace
    <2> HIDE DEF a
    <2>13. \A u, v \in Workers : \A b \in Actors : Busy(u, b)' /\ Busy(v, b)' => u = v
      BY <2>8, <2>12 DEF InOnePlace
    <2>14. \A b \in Actors : \A v \in Workers : ~(Busy(v, b)' /\ Queued(b)')
      BY <2>8, <2>10 DEF InOnePlace
    <2>15. \A b \in Actors :
             b \in playingNow' <=> Queued(b)' \/ \E v \in Workers : Busy(v, b)'
      BY <2>3, <2>8, <2>9, <2>10 DEF InOnePlace
    <2> QED BY <2>3, <2>11, <2>13, <2>14, <2>15 DEF InOnePlace
  <1>3. ASSUME NEW w \in Workers, Return(w) PROVE InOnePlace'
    <2> DEFINE r == [act |-> worker[w].act, task |-> worker[w].task, stage |-> "complete"]
    <2>1. worker[w] \in Working /\ worker[w] # NONE BY <1>3 DEF TypeOK, Return, At
    <2>2. r \in Working BY <2>1 DEF Working
    <2>3. r # NONE BY <2>2, NoneAssumption
    <2>4. worker' = [worker EXCEPT ![w] = r] /\ UNCHANGED <<playingNow, acts, queue>>
      BY <1>3 DEF Return
    <2>5. \A b \in Actors, v \in Workers : Busy(v, b)' <=> Busy(v, b)
      <3> TAKE b \in Actors, v \in Workers
      <3>1. CASE v = w BY <2>1, <2>3, <2>4, <3>1 DEF Busy, TypeOK
      <3>2. CASE v # w BY <2>4, <3>2 DEF Busy, TypeOK
      <3> QED BY <3>1, <3>2
    <2>6. \A b \in Actors : Queued(b)' <=> Queued(b) BY <2>4 DEF Queued, Holds
    <2> QED BY <2>4, <2>5, <2>6 DEF InOnePlace
  <1>4. ASSUME NEW w \in Workers, Complete(w) PROVE InOnePlace'
    <2> DEFINE a == worker[w].act
    <2>1. a \in Actors /\ Busy(w, a)
      BY <1>4 DEF TypeOK, Complete, At, Working, Busy
    <2>2. worker' = [worker EXCEPT ![w] = NONE] BY <1>4 DEF Complete
    <2>3. \A b \in Actors, v \in Workers :
            Busy(v, b)' <=> Busy(v, b) /\ v # w
      <3> TAKE b \in Actors, v \in Workers
      <3>1. CASE v = w BY <2>2, <3>1 DEF Busy, TypeOK
      <3>2. CASE v # w BY <2>2, <3>2 DEF Busy, TypeOK
      <3> QED BY <3>1, <3>2
    <2>4. \A b \in Actors : Busy(w, b) => b = a BY DEF Busy
    <2>5. ~Queued(a) /\ \A v \in Workers : Busy(v, a) => v = w
      BY <2>1 DEF InOnePlace
    <2>6. \A b \in Actors : (\E v \in Workers : Busy(v, b)')
                              <=> b # a /\ \E v \in Workers : Busy(v, b)
      BY <2>1, <2>3, <2>4, <2>5
    <2>7. \A u, v \in Workers : \A b \in Actors : Busy(u, b)' /\ Busy(v, b)' => u = v
      BY <2>3 DEF InOnePlace
    <2>8. CASE acts[a] = <<>>
      <3>1. playingNow' = playingNow \ {a} /\ UNCHANGED <<acts, queue>>
        BY <1>4, <2>8 DEF Complete
      <3>2. \A b \in Actors : Queued(b)' <=> Queued(b) BY <3>1 DEF Queued, Holds
      <3> HIDE DEF a
      <3> QED BY <2>3, <2>5, <2>6, <2>7, <2>8, <3>1, <3>2 DEF InOnePlace
    <2>9. CASE acts[a] # <<>>
      <3>1. /\ Execute(a, Head(acts[a]))
            /\ acts' = [acts EXCEPT ![a] = Tail(@)]
            /\ playingNow' = playingNow
        BY <1>4, <2>9 DEF Complete
      <3>2. Head(acts[a]) \in Nat BY <2>1, <2>9 DEF TypeOK
      <3>3. /\ Len(queue') = Len(queue) + 1
            /\ \A i \in 1 .. Len(queue) : queue'[i] = queue[i]
            /\ queue'[Len(queue) + 1].act = a
        <4> HIDE DEF a
        <4>1. queue'[Len(queue) + 1] = [act |-> a, task |-> Head(acts[a])]
          BY <2>1, <3>1, <3>2, Executed
        <4> QED BY <2>1, <3>1, <3>2, <4>1, Executed
      <3>4. Len(queue) \in Nat BY DEF TypeOK
      <3> HIDE DEF a
      <3>5. \A b \in Actors : Queued(b)' <=> Queued(b) \/ b = a
        BY <3>3, <3>4 DEF Queued, Holds
      <3>6. \A i, j \in 1 .. Len(queue') : queue'[i].act = queue'[j].act => i = j
        BY <2>5, <3>3, <3>4 DEF InOnePlace, Queued, Holds
      <3>7. \A b \in Actors : acts'[b] # <<>> => b \in playingNow'
        BY <2>9, <3>1 DEF InOnePlace, TypeOK
      <3> QED BY <2>1, <2>3, <2>4, <2>5, <2>6, <2>7, <3>1, <3>5, <3>6, <3>7
            DEF InOnePlace
    <2> QED BY <2>8, <2>9
  <1>5. CASE UNCHANGED vars
    BY <1>5 DEF InOnePlace, Busy, Queued, Holds, vars
  <1> QED BY <1>1, <1>2, <1>3, <1>4, <1>5 DEF Next, Thread

\* The invariant holds for ever.
THEOREM PoolInvariance == Spec => []Inv
  <1>1. Init => Inv
    BY DEF Init, Inv, TypeOK, InOnePlace, Busy, Queued, Holds
  <1>2. Inv /\ [Next]_vars => Inv'
    BY TypeStep, PlaceStep DEF Inv
  <1> QED BY <1>1, <1>2, PTL DEF Spec

\* A handler is never worked on by two threads, and a playing handler always has
\* a task that is queued, runs or completes: submit and complete cannot strand
\* what is pending.
THEOREM InOnePlaceHolds == Spec => []InOnePlace
  BY PoolInvariance, PTL DEF Inv

-----------------------------------------------------------------------------
(* The refinement.                                                         *)

\* The upcoming task of an actor is the one the work queue holds.
LEMMA UpcomingIs ==
  ASSUME NEW q, NEW a, NEW i \in 1 .. Len(q), q[i].act = a,
         \A j \in 1 .. Len(q) : q[j].act = a => j = i
  PROVE  Upcoming(q, a) = <<q[i].task>>
  <1>1. Holds(q, a) BY DEF Holds
  <1>2. (CHOOSE j \in 1 .. Len(q) : q[j].act = a) = i OBVIOUS
  <1> QED BY <1>1, <1>2 DEF Upcoming

\* The current task of an actor is that of the one thread that runs it.
LEMMA CurrentIs ==
  ASSUME NEW m, NEW a, NEW w, Running(m, a) = {w}
  PROVE  CurrentOf(m, a) = m[w].task
  <1>1. (CHOOSE v \in {w} : TRUE) = w OBVIOUS
  <1> QED BY <1>1 DEF CurrentOf

\* It is the same when the thread that runs it is.
LEMMA CurrentSame ==
  ASSUME NEW m, NEW n, NEW a, Running(m, a) = Running(n, a),
         \A w \in Running(m, a) : m[w] = n[w]
  PROVE  CurrentOf(m, a) = CurrentOf(n, a)
  <1>1. CASE Running(m, a) = {} BY <1>1 DEF CurrentOf
  <1>2. CASE Running(m, a) # {}
    <2>1. (CHOOSE w \in Running(m, a) : TRUE) \in Running(m, a) BY <1>2
    <2> QED BY <1>2, <2>1 DEF CurrentOf
  <1> QED BY <1>1, <1>2

\* Executing a task of an actor the queue does not hold makes it upcoming.
LEMMA ExecutedUpcoming ==
  ASSUME Inv, NEW a \in Actors, NEW t \in Nat, Execute(a, t), ~Queued(a)
  PROVE  /\ Upcoming(queue, a)' = <<t>>
         /\ \A b \in Actors \ {a} : Upcoming(queue, b)' = Upcoming(queue, b)
  <1> DEFINE n == Len(queue) + 1
  <1>1. /\ Len(queue') = n
        /\ \A i \in 1 .. Len(queue) : queue'[i] = queue[i]
        /\ queue'[n] = [act |-> a, task |-> t]
    BY Executed DEF Inv
  <1>2. Len(queue) \in Nat BY DEF Inv, TypeOK
  <1>3. \A i \in 1 .. Len(queue) : queue[i].act # a BY DEF Queued, Holds
  <1>4. n \in 1 .. Len(queue') /\ queue'[n].act = a /\ queue'[n].task = t
    BY <1>1, <1>2
  <1>5. \A j \in 1 .. Len(queue') : queue'[j].act = a => j = n
    BY <1>1, <1>2, <1>3
  <1>6. Upcoming(queue', a) = <<t>>
    <2> HIDE DEF n
    <2>1. Upcoming(queue', a) = <<queue'[n].task>> BY <1>4, <1>5, UpcomingIs
    <2> QED BY <2>1, <1>4
  <1>7. ASSUME NEW b \in Actors \ {a} PROVE Upcoming(queue', b) = Upcoming(queue, b)
    <2>1. \A j \in 1 .. Len(queue') : queue'[j].act = b =>
            j \in 1 .. Len(queue) /\ queue[j].act = b
      BY <1>1, <1>2, <1>4
    <2>2. CASE Holds(queue, b)
      <3>1. PICK i \in 1 .. Len(queue) : queue[i].act = b BY <2>2 DEF Holds
      <3>2. \A j \in 1 .. Len(queue) : queue[j].act = b => j = i
        BY <3>1 DEF Inv, InOnePlace
      <3>3. i \in 1 .. Len(queue') /\ queue'[i] = queue[i]
        BY <1>1, <1>2, <3>1
      <3>4. \A j \in 1 .. Len(queue') : queue'[j].act = b => j = i
        BY <2>1, <3>2
      <3>5. Upcoming(queue, b) = <<queue[i].task>> BY <3>1, <3>2, UpcomingIs
      <3>6. Upcoming(queue', b) = <<queue'[i].task>>
        BY <3>1, <3>3, <3>4, UpcomingIs
      <3> QED BY <3>3, <3>5, <3>6
    <2>3. CASE ~Holds(queue, b)
      <3>1. ~Holds(queue', b) BY <2>1, <2>3 DEF Holds
      <3> QED BY <2>3, <3>1 DEF Upcoming
    <2> QED BY <2>2, <2>3
  <1> QED BY <1>6, <1>7

\* submit appends the task to what its actor has to do.
LEMMA SubmitMaps ==
  ASSUME Inv, NEW a \in Actors, Submit(a)
  PROVE  S!Submit(a)
  <1> DEFINE t == submitted[a] + 1
             todo == [b \in Actors |-> Todo(b)]
  <1>1. TypeOK /\ InOnePlace BY DEF Inv
  <1>2. UNCHANGED worker /\ submitted' = [submitted EXCEPT ![a] = @ + 1]
    BY DEF Submit
  <1>3. [b \in Actors |-> Current(b)]' = [b \in Actors |-> Current(b)]
    BY <1>2 DEF Current
  <1>4. t \in Nat BY <1>1 DEF TypeOK
  <1>5. /\ Todo(a)' = Append(Todo(a), t)
        /\ \A b \in Actors \ {a} : Todo(b)' = Todo(b)
    <2>1. CASE a \notin playingNow
      <3>1. ~Queued(a) /\ acts[a] = <<>> BY <1>1, <2>1 DEF InOnePlace
      <3>2. Todo(a) = <<>> BY <3>1 DEF Todo, Upcoming, Queued
      <3>3. Execute(a, t) /\ acts' = acts BY <2>1 DEF Submit
      <3> HIDE DEF t
      <3>4. /\ Upcoming(queue, a)' = <<t>>
            /\ \A b \in Actors \ {a} : Upcoming(queue, b)' = Upcoming(queue, b)
        BY <1>4, <3>1, <3>3, ExecutedUpcoming
      <3>5. acts'[a] = <<>> /\ <<t>> \o <<>> = <<t>> BY <1>4, <3>1, <3>3
      <3>6. Todo(a)' = <<t>> BY <3>4, <3>5 DEF Todo
      <3>7. Append(Todo(a), t) = <<t>> BY <1>4, <3>2
      <3> QED BY <3>3, <3>4, <3>6, <3>7 DEF Todo
    <2>2. CASE a \in playingNow
      <3>1. queue' = queue /\ acts' = [acts EXCEPT ![a] = Append(@, t)]
        BY <2>2 DEF Submit
      <3>2. acts'[a] = Append(acts[a], t) /\ \A b \in Actors \ {a} : acts'[b] = acts[b]
        BY <1>1, <3>1 DEF TypeOK
      <3>3. Upcoming(queue, a) \in Seq(Nat)
        <4>1. CASE Holds(queue, a)
          <5>1. PICK i \in 1 .. Len(queue) : queue[i].act = a BY <4>1 DEF Holds
          <5>2. Upcoming(queue, a) = <<queue[i].task>>
            BY <1>1, <5>1, UpcomingIs DEF InOnePlace
          <5>3. queue[i] \in Task
            <6>1. queue \in Seq(Task) BY <1>1 DEF TypeOK
            <6> QED BY <5>1, <6>1
          <5>4. queue[i].task \in Nat BY <5>3 DEF Task
          <5> QED BY <5>2, <5>4
        <4>2. CASE ~Holds(queue, a) BY <4>2 DEF Upcoming
        <4> QED BY <4>1, <4>2
      <3>4. acts[a] \in Seq(Nat) BY <1>1 DEF TypeOK
      <3> HIDE DEF t
      <3>5. Upcoming(queue, a) \o Append(acts[a], t)
              = Append(Upcoming(queue, a) \o acts[a], t)
        BY <1>4, <3>3, <3>4
      <3> QED BY <3>1, <3>2, <3>5 DEF Todo
    <2> QED BY <2>1, <2>2
  <1>6. todo' = [todo EXCEPT ![a] = Append(@, t)]
    BY <1>5
  <1> QED BY <1>2, <1>3, <1>6 DEF S!Submit

\* A thread that takes a task starts it.
LEMMA TakeMaps ==
  ASSUME Inv, NEW w \in Workers, Take(w)
  PROVE  \E a \in Actors : S!Start(a)
  <1> DEFINE todo == [b \in Actors |-> Todo(b)]
             current == [b \in Actors |-> Current(b)]
  <1>1. TypeOK /\ InOnePlace BY DEF Inv
  <1>2. /\ Len(queue) \in Nat \ {0}
        /\ Head(queue) = queue[1]
        /\ Len(queue') = Len(queue) - 1
        /\ \A i \in 1 .. Len(queue') : queue'[i] = queue[i + 1]
    BY <1>1 DEF TypeOK, Take
  <1>3. queue[1] \in Task
    <2>1. queue \in Seq(Task) /\ 1 \in 1 .. Len(queue) BY <1>1, <1>2 DEF TypeOK
    <2> QED BY <2>1
  <1>4. PICK a \in Actors, t \in Nat : a = queue[1].act /\ t = queue[1].task
    BY <1>3 DEF Task
  <1> DEFINE r == [act |-> a, task |-> t, stage |-> "run"]
  <1>5. worker[w] = NONE /\ worker' = [worker EXCEPT ![w] = r]
        /\ UNCHANGED <<submitted, acts>>
    BY <1>2, <1>4 DEF Take
  <1>6. r # NONE
    <2>1. r \in Working BY <1>4 DEF Working
    <2> QED BY <2>1, NoneAssumption
  <1>7. Queued(a) BY <1>2, <1>4 DEF Queued, Holds
  <1>8. \A v \in Workers : ~Busy(v, a) BY <1>1, <1>4, <1>7 DEF InOnePlace
  <1>9. Running(worker, a) = {} BY <1>8 DEF Running, Busy
  <1>10. \A v \in Workers : worker'[v] = IF v = w THEN r ELSE worker[v]
    BY <1>1, <1>5 DEF TypeOK
  <1>11. Current(a)' = t
    <2>1. Running(worker', a) = {w}
      BY <1>6, <1>9, <1>10 DEF Running
    <2>2. CurrentOf(worker', a) = worker'[w].task BY <2>1, CurrentIs
    <2> QED BY <2>2, <1>10 DEF Current
  <1>12. ASSUME NEW b \in Actors \ {a} PROVE Current(b)' = Current(b)
    <2>1. Running(worker', b) = Running(worker, b)
      BY <1>5, <1>6, <1>10 DEF Running
    <2>2. \A v \in Running(worker, b) : worker'[v] = worker[v]
      BY <1>5, <1>10 DEF Running
    <2>3. CurrentOf(worker, b) = CurrentOf(worker', b)
      BY <2>1, <2>2, CurrentSame
    <2> QED BY <2>3 DEF Current
  <1>13. Current(a) = NONE BY <1>9 DEF Current, CurrentOf
  <1>14. \A j \in 1 .. Len(queue) : queue[j].act = a => j = 1
    BY <1>1, <1>2, <1>4 DEF InOnePlace
  <1>15. Upcoming(queue, a) = <<t>> BY <1>2, <1>4, <1>14, UpcomingIs
  <1>16. Upcoming(queue', a) = <<>>
    <2>1. ~Holds(queue', a) BY <1>2, <1>14 DEF Holds
    <2> QED BY <2>1 DEF Upcoming
  <1>17. ASSUME NEW b \in Actors \ {a} PROVE Upcoming(queue', b) = Upcoming(queue, b)
    <2>1. CASE Holds(queue, b)
      <3>1. PICK i \in 1 .. Len(queue) : queue[i].act = b BY <2>1 DEF Holds
      <3>2. \A j \in 1 .. Len(queue) : queue[j].act = b => j = i
        BY <1>1, <3>1 DEF InOnePlace
      <3>3. i - 1 \in 1 .. Len(queue') /\ queue'[i - 1] = queue[i]
        BY <1>2, <1>4, <3>1
      <3>4. \A j \in 1 .. Len(queue') : queue'[j].act = b => j = i - 1
        BY <1>2, <3>2
      <3>5. Upcoming(queue, b) = <<queue[i].task>> BY <3>1, <3>2, UpcomingIs
      <3>6. Upcoming(queue', b) = <<queue'[i - 1].task>>
        BY <3>1, <3>3, <3>4, UpcomingIs
      <3> QED BY <3>3, <3>5, <3>6
    <2>2. CASE ~Holds(queue, b)
      <3>1. ~Holds(queue', b) BY <1>2, <2>2, SMTT(30) DEF Holds
      <3> QED BY <2>2, <3>1 DEF Upcoming
    <2> QED BY <2>1, <2>2
  <1>18. acts[a] \in Seq(Nat) BY <1>1, <1>4 DEF TypeOK
  <1>19. Todo(a) = <<t>> \o acts[a] /\ Todo(a)' = <<>> \o acts[a]
    BY <1>5, <1>15, <1>16 DEF Todo
  <1>20. \A b \in Actors \ {a} : Todo(b)' = Todo(b)
    BY <1>5, <1>17 DEF Todo
  <1>21. Todo(a) # <<>> /\ Head(Todo(a)) = t /\ Todo(a)' = Tail(Todo(a))
    <2>1. <<t>> \o acts[a] # <<>> /\ Head(<<t>> \o acts[a]) = t BY <1>18
    <2>2. <<>> \o acts[a] = Tail(<<t>> \o acts[a]) BY <1>18
    <2> QED BY <1>19, <2>1, <2>2
  <1>22. todo' = [todo EXCEPT ![a] = Tail(@)]
    BY <1>4, <1>20, <1>21
  <1>23. current' = [current EXCEPT ![a] = Head(todo[a])]
    BY <1>4, <1>11, <1>12, <1>21
  <1>24. current[a] = NONE /\ todo[a] # <<>> BY <1>4, <1>13, <1>21
  <1>25. S!Start(a) BY <1>5, <1>22, <1>23, <1>24 DEF S!Start
  <1> QED BY <1>4, <1>25

\* A task that returns ends.
LEMMA ReturnMaps ==
  ASSUME Inv, NEW w \in Workers, Return(w)
  PROVE  \E a \in Actors : S!End(a)
  <1> DEFINE todo == [b \in Actors |-> Todo(b)]
             current == [b \in Actors |-> Current(b)]
  <1>1. TypeOK /\ InOnePlace BY DEF Inv
  <1>2. worker[w] \in Working /\ worker[w] # NONE /\ worker[w].stage = "run"
    BY <1>1 DEF TypeOK, Return, At
  <1>3. PICK a \in Actors, t \in Nat : a = worker[w].act /\ t = worker[w].task
    BY <1>2 DEF Working
  <1> DEFINE r == [act |-> a, task |-> t, stage |-> "complete"]
  <1>4. worker' = [worker EXCEPT ![w] = r] /\ UNCHANGED <<submitted, acts, queue>>
    BY <1>3 DEF Return
  <1>5. \A v \in Workers : worker'[v] = IF v = w THEN r ELSE worker[v]
    BY <1>1, <1>4 DEF TypeOK
  <1>6. Running(worker, a) = {w}
    <2>1. Busy(w, a) BY <1>2, <1>3 DEF Busy
    <2>2. \A v \in Workers : Busy(v, a) => v = w BY <1>1, <1>3, <2>1 DEF InOnePlace
    <2> QED BY <1>2, <1>3, <2>2 DEF Running, Busy
  <1>7. Running(worker', a) = {}
    BY <1>5, <1>6 DEF Running
  <1>8. Current(a) \in Nat BY <1>3, <1>6, CurrentIs DEF Current
  <1>9. Current(a)' = NONE BY <1>7 DEF Current, CurrentOf
  <1>10. ASSUME NEW b \in Actors \ {a} PROVE Current(b)' = Current(b)
    <2>1. Running(worker', b) = Running(worker, b)
      BY <1>2, <1>3, <1>5 DEF Running
    <2>2. \A v \in Running(worker, b) : worker'[v] = worker[v]
      BY <1>3, <1>5 DEF Running
    <2>3. CurrentOf(worker, b) = CurrentOf(worker', b)
      BY <2>1, <2>2, CurrentSame
    <2> QED BY <2>3 DEF Current
  <1>11. \A b \in Actors : Todo(b)' = Todo(b) BY <1>4 DEF Todo
  <1>12. current' = [current EXCEPT ![a] = NONE] BY <1>3, <1>9, <1>10
  <1>13. current[a] # NONE BY <1>3, <1>8, PoolAssumption
  <1>14. todo' = todo BY <1>11
  <1>15. S!End(a) BY <1>4, <1>12, <1>13, <1>14 DEF S!End
  <1> QED BY <1>3, <1>15

\* complete moves the next pending task to the executor: it stays the next one.
LEMMA CompleteMaps ==
  ASSUME Inv, NEW w \in Workers, Complete(w)
  PROVE  UNCHANGED S!vars
  <1> DEFINE todo == [b \in Actors |-> Todo(b)]
             current == [b \in Actors |-> Current(b)]
  <1>1. TypeOK /\ InOnePlace BY DEF Inv
  <1>2. /\ worker[w] \in Working
        /\ worker[w] # NONE
        /\ worker[w].stage = "complete"
    BY <1>1 DEF TypeOK, Complete, At
  <1>3. PICK a \in Actors : a = worker[w].act BY <1>2 DEF Working
  <1>4. worker' = [worker EXCEPT ![w] = NONE] /\ submitted' = submitted
    BY DEF Complete
  <1>5. \A v \in Workers : worker'[v] = IF v = w THEN NONE ELSE worker[v]
    BY <1>1, <1>4 DEF TypeOK
  <1>6. ASSUME NEW b \in Actors PROVE Current(b)' = Current(b)
    <2>1. Running(worker', b) = Running(worker, b)
      BY <1>2, <1>5 DEF Running
    <2>2. \A v \in Running(worker, b) : worker'[v] = worker[v]
      BY <1>2, <1>5 DEF Running
    <2>3. CurrentOf(worker, b) = CurrentOf(worker', b)
      BY <2>1, <2>2, CurrentSame
    <2> QED BY <2>3 DEF Current
  <1>7. \A b \in Actors : Todo(b)' = Todo(b)
    <2>1. CASE acts[a] = <<>>
      <3>1. UNCHANGED <<acts, queue>> BY <1>3, <2>1 DEF Complete
      <3> QED BY <3>1 DEF Todo
    <2>2. CASE acts[a] # <<>>
      <3>1. acts[a] \in Seq(Nat) BY <1>1 DEF TypeOK
      <3>2. PICK t \in Nat : t = Head(acts[a]) BY <2>2, <3>1
      <3>3. Execute(a, t) /\ acts' = [acts EXCEPT ![a] = Tail(@)]
        BY <1>3, <2>2, <3>2 DEF Complete
      <3>4. ~Queued(a)
        <4>1. Busy(w, a) BY <1>2, <1>3 DEF Busy
        <4> QED BY <1>1, <1>3, <4>1 DEF InOnePlace
      <3>5. /\ acts'[a] = Tail(acts[a])
            /\ \A b \in Actors \ {a} : acts'[b] = acts[b]
        BY <1>1, <1>3, <3>3 DEF TypeOK
      <3>6. <<t>> \o Tail(acts[a]) = <<>> \o acts[a] BY <2>2, <3>1, <3>2
      <3>7. /\ Upcoming(queue, a)' = <<t>>
            /\ \A b \in Actors \ {a} : Upcoming(queue, b)' = Upcoming(queue, b)
        BY <1>3, <3>3, <3>4, <3>2, ExecutedUpcoming
      <3>8. Todo(a) = <<>> \o acts[a] BY <3>4 DEF Todo, Upcoming, Queued
      <3>9. Todo(a)' = <<t>> \o Tail(acts[a]) BY <3>5, <3>7 DEF Todo
      <3>10. \A b \in Actors \ {a} : Todo(b)' = Todo(b) BY <3>5, <3>7 DEF Todo
      <3> QED BY <3>6, <3>8, <3>9, <3>10
    <2> QED BY <2>1, <2>2
  <1>8. todo' = todo /\ current' = current BY <1>6, <1>7
  <1> QED BY <1>4, <1>8 DEF S!vars

\* The pool implements SerialExecutor: tasks of one handler run one at a time,
\* in the order in which they were submitted, and none is lost.
THEOREM ImplementsHolds == Spec => ImplementsSerialExecutor
  <1>1. Init => S!Init
    BY DEF Init, S!Init, Todo, Upcoming, Holds, Current, CurrentOf, Running
  <1>2. Inv /\ [Next]_vars => [S!Next]_(S!vars)
    <2> SUFFICES ASSUME Inv, [Next]_vars PROVE [S!Next]_(S!vars) OBVIOUS
    <2>1. ASSUME NEW a \in Actors, Submit(a) PROVE S!Next
      BY <2>1, SubmitMaps DEF S!Next
    <2>2. ASSUME NEW w \in Workers, Take(w) PROVE S!Next
      BY <2>2, TakeMaps DEF S!Next
    <2>3. ASSUME NEW w \in Workers, Return(w) PROVE S!Next
      BY <2>3, ReturnMaps DEF S!Next
    <2>4. ASSUME NEW w \in Workers, Complete(w) PROVE UNCHANGED S!vars
      BY <2>4, CompleteMaps
    <2>5. CASE UNCHANGED vars
      BY <2>5 DEF vars, S!vars, Todo, Current
    <2> QED BY <2>1, <2>2, <2>3, <2>4, <2>5 DEF Next, Thread
  <1> QED BY <1>1, <1>2, PoolInvariance, PTL
        DEF Spec, S!Spec, ImplementsSerialExecutor
=============================================================================
