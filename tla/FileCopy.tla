------------------------------ MODULE FileCopy ------------------------------
(***************************************************************************)
(* What the clients and the server promise together, with no packets and   *)
(* no threads: a command of a client takes effect at one moment between    *)
(* its being typed and its being reported.  An upload makes a new file     *)
(* appear, empty for a moment, and then holding exactly what the client's  *)
(* file holds.  A download opens a file, asks for the size of what has its *)
(* name, and reads it.  If the file is still in the directory when it is   *)
(* read, what the download stores is exactly what it held at one moment;   *)
(* if another client has removed it, what it held is cut, or filled up     *)
(* with Zero, to the size of what had the name when that was asked: an     *)
(* empty file if nothing had.                                              *)
(***************************************************************************)
EXTENDS Integers, Sequences

CONSTANTS Clients, FileNames, NONE, Zero,
          Names,                \* of the commands: those of files, and ""
          InitFiles, InitLocal  \* the directories at the start

VARIABLES files,  \* the server's directory: contents, or NONE
          local,  \* the directory of each client
          job     \* the transfer or deletion each client is waiting for

vars == <<files, local, job>>

Idle == [op |-> NONE, stage |-> "idle"]
Asked(op, f) == [op |-> op, file |-> f, stage |-> "asked"]
Fetched(f, s) == [op |-> "RRQ", file |-> f, stage |-> "fetched", got |-> s]

\* s is what a file that was removed while it was open holds, or NONE, and w are
\* the clients whose uploads are yet to be written to it.
Opened(f, s, w) == [op |-> "RRQ", file |-> f, stage |-> "opened", held |-> s,
                    writers |-> w]
Sized(f, s, w, n) == [op |-> "RRQ", file |-> f, stage |-> "sized", held |-> s,
                      writers |-> w, size |-> n]
Holding(j, s, w) == IF j.stage = "opened" THEN Opened(j.file, s, w)
                    ELSE Sized(j.file, s, w, j.size)

Become(c, j) == job' = [job EXCEPT ![c] = j]
Waits(c, op, stage) == job[c].op = op /\ job[c].stage = stage
At(c, stage) == Become(c, [job[c] EXCEPT !.stage = stage])

Ask(c) ==
  /\ job[c] = Idle
  /\ \E op \in {"RRQ", "WRQ", "DELRQ"}, f \in Names : Become(c, Asked(op, f))
  /\ UNCHANGED <<files, local>>

Refuse(c) ==
  /\ job[c].stage = "asked"
  /\ Become(c, Idle)
  /\ UNCHANGED <<files, local>>

Open(c) ==
  /\ Waits(c, "RRQ", "asked")
  /\ job[c].file \in FileNames
  /\ files[job[c].file] # NONE
  /\ Become(c, Opened(job[c].file, NONE, {}))
  /\ UNCHANGED <<files, local>>

Size(c) ==
  /\ Waits(c, "RRQ", "opened")
  /\ LET j == job[c]
         now == files[j.file]
     IN Become(c, Sized(j.file, j.held, j.writers, IF now = NONE THEN 0 ELSE Len(now)))
  /\ UNCHANGED <<files, local>>

\* The file has the size it was found to have, unless it was empty by then.
Fetch(c) ==
  /\ Waits(c, "RRQ", "sized")
  /\ job[c].held = NONE
  /\ LET now == files[job[c].file]
     IN /\ now # NONE
        /\ job[c].size \in {0, Len(now)}
        /\ Become(c, Fetched(job[c].file, IF job[c].size = 0 THEN <<>> ELSE now))
  /\ UNCHANGED <<files, local>>

Cut(s, n) == [i \in 1 .. n |-> IF i <= Len(s) THEN s[i] ELSE Zero]

FetchRemoved(c) ==
  /\ Waits(c, "RRQ", "sized")
  /\ job[c].held # NONE
  /\ Become(c, Fetched(job[c].file, Cut(job[c].held, job[c].size)))
  /\ UNCHANGED <<files, local>>

Store(c) ==
  /\ Waits(c, "RRQ", "fetched")
  /\ local' = [local EXCEPT ![c][job[c].file] = job[c].got]
  /\ Become(c, Idle)
  /\ UNCHANGED files

Create(c) ==
  /\ Waits(c, "WRQ", "asked")
  /\ job[c].file \in FileNames
  /\ files[job[c].file] = NONE
  /\ files' = [files EXCEPT ![job[c].file] = <<>>]
  /\ At(c, "open")
  /\ UNCHANGED local

Fill(c) ==
  /\ Waits(c, "WRQ", "open")
  /\ files' = [files EXCEPT ![job[c].file] = local[c][job[c].file]]
  /\ At(c, "done")
  /\ UNCHANGED local

\* The client has the file open, to read it.
Reading(d) == job[d].op = "RRQ" /\ job[d].stage \in {"opened", "sized"}

\* The file was deleted before it was filled: nothing reappears, and only those
\* who had it open see what it was to hold.
FillRemoved(c) ==
  /\ Waits(c, "WRQ", "removed")
  /\ job' = [d \in Clients |->
               IF d = c THEN [job[c] EXCEPT !.stage = "done"]
               ELSE IF Reading(d) /\ c \in job[d].writers
               THEN Holding(job[d], local[c][job[c].file], job[d].writers \ {c})
               ELSE job[d]]
  /\ UNCHANGED <<files, local>>

\* A second deletion of the file has nothing left to do.
Delete(c) ==
  /\ Waits(c, "DELRQ", "asked")
  /\ job[c].file \in FileNames
  /\ files' = [files EXCEPT ![job[c].file] = NONE]
  /\ LET open == {d \in Clients : /\ Waits(d, "WRQ", "open")
                                  /\ job[d].file = job[c].file}
         reading == {d \in Clients : /\ Reading(d) /\ job[d].held = NONE
                                     /\ job[d].file = job[c].file}
     IN job' = [d \in Clients |->
                  IF d = c THEN [job[c] EXCEPT !.stage = "done"]
                  ELSE IF d \in open THEN [job[d] EXCEPT !.stage = "removed"]
                  ELSE IF d \in reading
                  THEN Holding(job[d], files[job[c].file], open)
                  ELSE job[d]]
  /\ UNCHANGED local

Finish(c) ==
  /\ job[c].stage = "done"
  /\ Become(c, Idle)
  /\ UNCHANGED <<files, local>>

Init == /\ files = InitFiles
        /\ local = InitLocal
        /\ job = [c \in Clients |-> Idle]

Next == \E c \in Clients :
  \/ Ask(c) \/ Refuse(c) \/ Open(c) \/ Size(c) \/ Fetch(c) \/ FetchRemoved(c)
  \/ Store(c) \/ Create(c) \/ Fill(c) \/ FillRemoved(c) \/ Delete(c) \/ Finish(c)

Spec == Init /\ [][Next]_vars
=============================================================================
