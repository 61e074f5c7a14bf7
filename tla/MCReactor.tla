----------------------------- MODULE MCReactor -----------------------------
(* Instances of Reactor for TLC.                                           *)
EXTENDS Reactor
CONSTANTS h1, h2

\* One client is answered twice and may leave, the other sends a DISC.
TwoClients == [h \in Conns |-> IF h = h1 THEN {"share"} ELSE {"DISC"}]

\* One client that asks and sends a DISC, in any order.
OneClient == [h \in Conns |-> {"ask", "DISC"}]
=============================================================================
