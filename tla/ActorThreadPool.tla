-------------------------- MODULE ActorThreadPool --------------------------
(***************************************************************************)
(* The pool the reactor hands its tasks to.  An actor is a connection      *)
(* handler, a task the Runnable its continueRead returns.  submit and      *)
(* complete hold the lock of the actor, and touch only what belongs to it: *)
(* each is one step.  The fixed pool of threads takes tasks from the FIFO  *)
(* queue of the executor.                                                  *)
(***************************************************************************)
EXTENDS Naturals, Sequences

CONSTANTS Actors, Workers, NONE,
          MaxTasks  \* bound: tasks submitted for an actor

ASSUME PoolAssumption == MaxTasks \in Nat /\ NONE \notin Nat

Task == [act : Actors, task : Nat]
Working == [act : Actors, task : Nat, stage : {"run", "complete"}]

ASSUME NoneAssumption == NONE \notin Working

VARIABLES
  submitted,   \* tasks submitted for each actor; a task is its number
  playingNow,  \* actors with a task that is queued, runs or completes
  acts,        \* the pending tasks of each actor; no queue is an empty one
  queue,       \* the work queue of the executor
  worker       \* what each thread of the pool is doing

vars == <<submitted, playingNow, acts, queue, worker>>

TypeOK == /\ submitted \in [Actors -> Nat]
          /\ playingNow \subseteq Actors
          /\ acts \in [Actors -> Seq(Nat)]
          /\ queue \in Seq(Task)
          /\ worker \in [Workers -> Working \cup {NONE}]

Init == /\ submitted = [a \in Actors |-> 0]
        /\ playingNow = {}
        /\ acts = [a \in Actors |-> <<>>]
        /\ queue = <<>>
        /\ worker = [w \in Workers |-> NONE]

Execute(a, t) == queue' = Append(queue, [act |-> a, task |-> t])

\* Mutant: the task is executed whether or not the actor is playing.
SubmitAlways(a) ==
  /\ submitted[a] < MaxTasks
  /\ submitted' = [submitted EXCEPT ![a] = @ + 1]
  /\ playingNow' = playingNow \cup {a}
  /\ Execute(a, submitted'[a])
  /\ UNCHANGED <<acts, worker>>

Submit(a) ==
  /\ submitted[a] < MaxTasks
  /\ submitted' = [submitted EXCEPT ![a] = @ + 1]
  /\ \/ /\ a \notin playingNow
        /\ playingNow' = playingNow \cup {a}
        /\ Execute(a, submitted[a] + 1)
        /\ UNCHANGED acts
     \/ /\ a \in playingNow
        /\ acts' = [acts EXCEPT ![a] = Append(@, submitted[a] + 1)]
        /\ UNCHANGED <<playingNow, queue>>
  /\ UNCHANGED worker

\* A thread of the pool takes the first task.
Take(w) ==
  /\ worker[w] = NONE
  /\ queue # <<>>
  /\ worker' = [worker EXCEPT ![w] =
       [act |-> Head(queue).act, task |-> Head(queue).task, stage |-> "run"]]
  /\ queue' = Tail(queue)
  /\ UNCHANGED <<submitted, playingNow, acts>>

At(w, stage) == worker[w] # NONE /\ worker[w].stage = stage

\* r.run() returns or throws: complete is called in either case.
Return(w) ==
  /\ At(w, "run")
  /\ worker' = [worker EXCEPT ![w] =
       [act |-> worker[w].act, task |-> worker[w].task, stage |-> "complete"]]
  /\ UNCHANGED <<submitted, playingNow, acts, queue>>

\* Mutant: what is pending waits for the next submit.
CompleteForgets(w) ==
  /\ At(w, "complete")
  /\ playingNow' = playingNow \ {worker[w].act}
  /\ worker' = [worker EXCEPT ![w] = NONE]
  /\ UNCHANGED <<submitted, acts, queue>>

Complete(w) ==
  /\ At(w, "complete")
  /\ LET a == worker[w].act
     IN \/ /\ acts[a] = <<>>
           /\ playingNow' = playingNow \ {a}
           /\ UNCHANGED <<acts, queue>>
        \/ /\ acts[a] # <<>>
           /\ Execute(a, Head(acts[a]))
           /\ acts' = [acts EXCEPT ![a] = Tail(@)]
           /\ UNCHANGED playingNow
  /\ worker' = [worker EXCEPT ![w] = NONE]
  /\ UNCHANGED submitted

Thread(w) == Take(w) \/ Return(w) \/ Complete(w)

Next == \/ \E a \in Actors : Submit(a)
        \/ \E w \in Workers : Thread(w)

Spec == Init /\ [][Next]_vars

\* The threads of the pool are scheduled and tasks return.
FairSpec == Spec /\ \A w \in Workers : WF_vars(Thread(w))

-----------------------------------------------------------------------------
Busy(w, a) == worker[w] # NONE /\ worker[w].act = a
Holds(q, a) == \E i \in 1 .. Len(q) : q[i].act = a
Queued(a) == Holds(queue, a)

\* An actor is in at most one place, and in one exactly when it is playing: no
\* two threads run or complete tasks of one handler, and none is stranded.
InOnePlace ==
  /\ \A i, j \in 1 .. Len(queue) : queue[i].act = queue[j].act => i = j
  /\ \A v, w \in Workers : \A a \in Actors : Busy(v, a) /\ Busy(w, a) => v = w
  /\ \A a \in Actors : \A w \in Workers : ~(Busy(w, a) /\ Queued(a))
  /\ \A a \in Actors : a \in playingNow <=> Queued(a) \/ \E w \in Workers : Busy(w, a)
  /\ \A a \in Actors : acts[a] # <<>> => a \in playingNow

\* The tasks of an actor that have not begun, and the one that runs.
Upcoming(q, a) == IF Holds(q, a)
                  THEN <<q[CHOOSE i \in 1 .. Len(q) : q[i].act = a].task>>
                  ELSE <<>>
Todo(a) == Upcoming(queue, a) \o acts[a]

Running(m, a) == {w \in Workers : m[w] # NONE /\ m[w].act = a /\ m[w].stage = "run"}
CurrentOf(m, a) == IF Running(m, a) = {} THEN NONE
                   ELSE m[CHOOSE w \in Running(m, a) : TRUE].task
Current(a) == CurrentOf(worker, a)

S == INSTANCE SerialExecutor WITH todo <- [a \in Actors |-> Todo(a)],
                                  current <- [a \in Actors |-> Current(a)]

\* The tasks of a handler run one at a time, in the order the selector thread
\* submitted them, and none is lost, whatever the other threads complete.
ImplementsSerialExecutor == S!Spec

\* A task that has been submitted runs in the end: nothing stays pending when a
\* submit meets the completion of the last task.
EveryTaskRuns ==
  \A a \in Actors : \A n \in 1 .. MaxTasks :
    (\E i \in 1 .. Len(Todo(a)) : Todo(a)[i] = n) ~> Current(a) = n
=============================================================================
