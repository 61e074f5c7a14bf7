--------------------------- MODULE MCClientThreads ---------------------------
(* An instance of ClientThreads for TLC.                                    *)
EXTENDS ClientThreads

CONSTANT c1

f1 == <<102, 103>>
u1 == <<117>>
EmptyText == <<>>
OneFile == {f1}
OneUser == {u1}
Message == <<69>>

File(op) == [op |-> op, file |-> f1]
Just(op) == [op |-> op]

Blocks == UNION {[1 .. n -> Bytes] : n \in 0 .. BlockSize}

\* One client that types any command; the broadcasts are those its own uploads
\* and deletions cause, which arrive behind their answers.
AllCommands ==
  [c \in Conns |-> {[op |-> "LOGRQ", user |-> u1]}
                   \cup {File(op) : op \in {"RRQ", "WRQ", "DELRQ"}}
                   \cup {Just(op) : op \in {"DIRQ", "DISC"}}]
AllRequests ==
  [c \in Conns |-> AllCommands[c] \cup {Just("ERROR")}
                   \cup {AckPacket(n) : n \in BlockNum}
                   \cup {DataPacket(n, s) : n \in BlockNum, s \in Blocks}]
FiveCommands == [c \in Conns |-> 5]

ThreeBytes == [f \in FileNames |-> 3]
OneName == [names \in SUBSET FileNames |-> IF f1 \in names THEN f1 \o <<0>> ELSE <<>>]
NoFiles == [f \in FileNames |-> NONE]
ShortRest == [c \in Conns |-> [f \in FileNames |-> <<97, 0, 97, 97, 0>>]]
=============================================================================
