------------------------ MODULE MCActorThreadPool ------------------------
(* Instances of ActorThreadPool for TLC.                                   *)
EXTENDS ActorThreadPool
CONSTANTS h1, h2, h3, w1, w2
=============================================================================
