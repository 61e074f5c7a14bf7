---------------------------- MODULE MCTFTPServer ----------------------------
(* Instances of TFTPServer for TLC.                                         *)
EXTENDS TFTPServer

CONSTANTS c1, c2, c3, u1, u2, f1, f2, a, z

Logrq(u) == [op |-> "LOGRQ", user |-> u]
Rrq(f) == [op |-> "RRQ", file |-> f]
Wrq(f) == [op |-> "WRQ", file |-> f]
Delrq(f) == [op |-> "DELRQ", file |-> f]
Data(s) == [op |-> "DATA", block |-> 1, data |-> s]
Ack == [op |-> "ACK", block |-> 1]
Just(op) == [op |-> op]

NoFiles == [f \in FileNames |-> NONE]
OneByte == [f \in FileNames |-> <<a>>]
OneName == [f \in FileNames |-> 1]

\* Clients that log in with one name and may leave, while c3 logs in.
LoginRequests ==
  [c \in Conns |-> IF c = c3 THEN {Logrq(u2)} ELSE {Logrq(u1), Just("DISC")}]

\* Two clients that may both upload a file; one also downloads it, the other
\* deletes it, leaves, and may try to log in with the name of the first.
OwnName(c) == IF c = c1 THEN u1 ELSE u2
FileRequests ==
  [c \in Conns |-> {Logrq(OwnName(c)), Wrq(f1), Data(<<a>>)}
     \cup (IF c = c1 THEN {Rrq(f1)} ELSE {Logrq(u1), Delrq(f1), Just("DISC")})]

\* One client that sends everything there is, in any order.
ThreeBlocks == [f \in FileNames |-> IF f = f1 THEN <<a, z, a, a>> ELSE NONE]
AllRequests ==
  [c \in Conns |->
     {Logrq(u1), Rrq(f1), Rrq(f2), Rrq(EmptyName), Wrq(f2), Wrq(f1),
      Wrq(EmptyName), Delrq(f1), Delrq(f2), Ack, Data(<<>>), Data(<<a>>),
      Data(<<a, a>>), Data(<<a, a, a>>)}
     \cup {Just(op) : op \in {"ERROR", "DIRQ", "BCAST", "DISC"}}]
=============================================================================
