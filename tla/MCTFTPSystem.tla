---------------------------- MODULE MCTFTPSystem ----------------------------
(* Instances of TFTPSystem for TLC.                                         *)
EXTENDS TFTPSystem

CONSTANTS c1, c2, u1, u2, f1, f2, a, z

File(op, f) == [op |-> op, file |-> f]
Logrq(u) == [op |-> "LOGRQ", user |-> u]
Just(op) == [op |-> op]
OwnName(c) == IF c = c1 THEN u1 ELSE u2

Blocks == UNION {[1 .. n -> {a, z}] : n \in 0 .. BlockSize}
SystemRequests ==
  [c \in Conns |->
     {Logrq(OwnName(c))}
     \cup {File(op, f) : op \in {"RRQ", "WRQ", "DELRQ"}, f \in Names}
     \cup {Just(op) : op \in {"DIRQ", "DISC", "ERROR"}}
     \cup {AckPacket(n) : n \in BlockNum}
     \cup {DataPacket(n, s) : n \in BlockNum, s \in Blocks}]

OneName == [f \in FileNames |-> 1]
NoFiles == [f \in FileNames |-> NONE]

\* c1 may delete f1, which is there at the start, and upload another, while c2
\* downloads or deletes it.
ShortFile == [f \in FileNames |-> <<z>>]
CopyCommands ==
  [c \in Conns |-> {Logrq(OwnName(c))}
     \cup {File("DELRQ", f1), File(IF c = c1 THEN "WRQ" ELSE "RRQ", f1)}]
CopyMaxCmd == [c \in Conns |-> IF c = c1 THEN 3 ELSE 2]
CopyLocal ==
  [c \in Conns |-> [f \in FileNames |-> IF c = c1 THEN <<a, z, a, a, z>> ELSE NONE]]

\* One client that uploads files of its directory.
UploadCommands ==
  [c \in Conns |-> {Logrq(OwnName(c))} \cup {File("WRQ", f) : f \in FileNames}]
UploadMaxCmd == [c \in Conns |-> 3]
FullBlocks == [c \in Conns |-> [f \in FileNames |-> <<a, z, a, a>>]]

=============================================================================
