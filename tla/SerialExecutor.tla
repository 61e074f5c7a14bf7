--------------------------- MODULE SerialExecutor ---------------------------
(***************************************************************************)
(* What ActorThreadPool promises: the tasks submitted for an actor run one *)
(* at a time and in the order they were submitted.                         *)
(***************************************************************************)
EXTENDS Naturals, Sequences

CONSTANTS Actors, NONE

VARIABLES submitted,  \* how many tasks each actor has got: they are numbered
          todo,       \* the tasks that have not begun, in order
          current     \* the task that runs, or NONE

vars == <<submitted, todo, current>>

Init == /\ submitted = [a \in Actors |-> 0]
        /\ todo = [a \in Actors |-> <<>>]
        /\ current = [a \in Actors |-> NONE]

Submit(a) == /\ submitted' = [submitted EXCEPT ![a] = @ + 1]
             /\ todo' = [todo EXCEPT ![a] = Append(@, submitted[a] + 1)]
             /\ UNCHANGED current

Start(a) == /\ current[a] = NONE
            /\ todo[a] # <<>>
            /\ current' = [current EXCEPT ![a] = Head(todo[a])]
            /\ todo' = [todo EXCEPT ![a] = Tail(@)]
            /\ UNCHANGED submitted

End(a) == /\ current[a] # NONE
          /\ current' = [current EXCEPT ![a] = NONE]
          /\ UNCHANGED <<submitted, todo>>

Next == \E a \in Actors : Submit(a) \/ Start(a) \/ End(a)

Spec == Init /\ [][Next]_vars
=============================================================================
