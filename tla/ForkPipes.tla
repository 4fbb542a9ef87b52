------------------------------ MODULE ForkPipes ------------------------------
(***************************************************************************)
(* net/pipe/pipe.cpp and net/pipe/pipe2.cpp: a parent makes a pipe for     *)
(* each of its children, forks them and writes a message to each; a child  *)
(* reads one byte.  Who sees the end of a pipe, and who is killed by       *)
(* writing to it, depends on which processes still have its ends: fork     *)
(* copies all of them.                                                     *)
(*                                                                         *)
(* The two programs differ in the number of children, and in what happens  *)
(* after the message: pipe's child exits and its parent waits for that,    *)
(* pipe2's children loop forever and their parent goes on.  The pipes in   *)
(* the other direction (send_pipefd) carry nothing and are left out.       *)
(***************************************************************************)
EXTENDS Integers

CONSTANTS
  parent,
  MAX_PID_CNT,   \* children of pipe2 (three)
  MsgLen         \* bytes of the message (at least one)

VARIABLES
  prog,      \* the program that runs; never changes
  readers,   \* the processes that have the read end of a pipe
  writers,   \* ... and its write end
  bytes,     \* bytes in a pipe
  pc,
  loop,      \* the loop counter of each process
  got        \* what read told a child

vars == <<prog, readers, writers, bytes, pc, loop, got>>

\* Child k reads from pipe k.
Kids == 0 .. (MAX_PID_CNT - 1)

Procs == Kids \cup {parent}

Count == IF prog = "pipe" THEN 1 ELSE MAX_PID_CNT

Init ==
  /\ prog \in {"pipe", "pipe2"}
  /\ readers = [k \in Kids |-> {}]
  /\ writers = [k \in Kids |-> {}]
  /\ bytes = [k \in Kids |-> 0]
  /\ pc = [p \in Procs |-> IF p = parent THEN "start" ELSE "none"]
  /\ loop = [p \in Procs |-> 0]
  /\ got = [k \in Kids |-> "nothing"]

Goto(p, place) == pc' = [pc EXCEPT ![p] = place]

\* The end of a process closes all its descriptors.
Ends(p) ==
  /\ Goto(p, "ended")
  /\ readers' = [k \in Kids |-> readers[k] \ {p}]
  /\ writers' = [k \in Kids |-> writers[k] \ {p}]

-----------------------------------------------------------------------------
(***************************************************************************)
(* The parent.                                                             *)
(***************************************************************************)
Start ==
  /\ pc[parent] = "start"
  /\ readers' = [k \in Kids |-> IF k < Count THEN {parent} ELSE {}]
  /\ writers' = readers'
  /\ Goto(parent, "fork")
  /\ UNCHANGED <<bytes, loop, got>>

StartFails == pc[parent] = "start" /\ Ends(parent) /\ UNCHANGED <<bytes, loop, got>>

\* fork: the child has every end the parent has.
Fork ==
  /\ pc[parent] = "fork" /\ loop[parent] < Count
  /\ LET child == loop[parent]
         Copy(set) == IF parent \in set THEN set \cup {child} ELSE set
     IN /\ readers' = [k \in Kids |-> Copy(readers[k])]
        /\ writers' = [k \in Kids |-> Copy(writers[k])]
        /\ pc' = [pc EXCEPT ![parent] = "close", ![child] = "close"]
  /\ UNCHANGED <<bytes, loop, got>>

ForkFails ==
  /\ pc[parent] = "fork" /\ loop[parent] < Count
  /\ Ends(parent)
  /\ UNCHANGED <<bytes, loop, got>>

CloseReadEnd ==
  /\ pc[parent] = "close"
  /\ readers' = [readers EXCEPT ![loop[parent]] = @ \ {parent}]
  /\ Goto(parent, "write")
  /\ UNCHANGED <<writers, bytes, loop, got>>

Write ==
  /\ pc[parent] = "write"
  /\ readers[loop[parent]] # {}
  /\ bytes' = [bytes EXCEPT ![loop[parent]] = @ + MsgLen]
  /\ loop' = [loop EXCEPT ![parent] = @ + 1]
  /\ Goto(parent, IF prog = "pipe" THEN "wait" ELSE "fork")
  /\ UNCHANGED <<readers, writers, got>>

\* Nobody can read any more: SIGPIPE.
BrokenPipe ==
  /\ pc[parent] = "write"
  /\ readers[loop[parent]] = {}
  /\ Ends(parent)
  /\ UNCHANGED <<bytes, loop, got>>

\* pipe2's parent returns after its last child, ...
Return ==
  /\ pc[parent] = "fork" /\ loop[parent] = Count
  /\ Ends(parent)
  /\ UNCHANGED <<bytes, loop, got>>

\* ... pipe's when its child has ended.
Wait ==
  /\ pc[parent] = "wait"
  /\ pc[0] = "ended"
  /\ Ends(parent)
  /\ UNCHANGED <<bytes, loop, got>>

-----------------------------------------------------------------------------
(***************************************************************************)
(* A child.                                                                *)
(***************************************************************************)
CloseEnds_KeepsOthersWriteEnd(k) ==
  /\ pc[k] = "close" /\ loop[k] < Count
  /\ LET i == loop[k]
     IN IF i = k
        THEN /\ writers' = [writers EXCEPT ![i] = @ \ {k}]
             /\ UNCHANGED readers
        ELSE /\ readers' = [readers EXCEPT ![i] = @ \ {k}]
             /\ UNCHANGED writers
  /\ loop' = [loop EXCEPT ![k] = @ + 1]
  /\ Goto(k, IF loop[k] + 1 = Count THEN "read" ELSE "close")
  /\ UNCHANGED <<bytes, got>>

CloseEnds_WrongEnd(k) ==
  /\ pc[k] = "close" /\ loop[k] < Count
  /\ readers' = [readers EXCEPT ![loop[k]] = @ \ {k}]
  /\ writers' = [writers EXCEPT ![loop[k]] = @ \ {k}]
  /\ loop' = [loop EXCEPT ![k] = @ + 1]
  /\ Goto(k, IF loop[k] + 1 = Count THEN "read" ELSE "close")
  /\ UNCHANGED <<bytes, got>>

CloseEnds_KeepsOwnWriteEnd(k) ==
  /\ pc[k] = "close" /\ loop[k] < Count
  /\ LET i == loop[k]
     IN IF i = k
        THEN UNCHANGED <<readers, writers>>
        ELSE /\ readers' = [readers EXCEPT ![i] = @ \ {k}]
             /\ writers' = [writers EXCEPT ![i] = @ \ {k}]
  /\ loop' = [loop EXCEPT ![k] = @ + 1]
  /\ Goto(k, IF loop[k] + 1 = Count THEN "read" ELSE "close")
  /\ UNCHANGED <<bytes, got>>

\* One iteration: both ends of another child's pipe, or the write end of its
\* own.  (Closing what is not open fails, and nobody looks.)
CloseEnds(k) ==
  /\ pc[k] = "close" /\ loop[k] < Count
  /\ LET i == loop[k]
     IN /\ writers' = [writers EXCEPT ![i] = @ \ {k}]
        /\ readers' = IF i = k THEN readers ELSE [readers EXCEPT ![i] = @ \ {k}]
  /\ loop' = [loop EXCEPT ![k] = @ + 1]
  /\ Goto(k, IF loop[k] + 1 = Count THEN "read" ELSE "close")
  /\ UNCHANGED <<bytes, got>>

\* After read pipe's child exits; pipe2's turn in while(1).
AfterRead(k) ==
  IF prog = "pipe" THEN Ends(k) ELSE Goto(k, "spin") /\ UNCHANGED <<readers, writers>>

Read(k) ==
  /\ pc[k] = "read"
  /\ bytes[k] > 0
  /\ bytes' = [bytes EXCEPT ![k] = @ - 1]
  /\ got' = [got EXCEPT ![k] = "byte"]
  /\ AfterRead(k)
  /\ UNCHANGED loop

\* End of file: the pipe is empty and nobody has its write end.
ReadEof(k) ==
  /\ pc[k] = "read"
  /\ bytes[k] = 0 /\ writers[k] = {}
  /\ got' = [got EXCEPT ![k] = "eof"]
  /\ AfterRead(k)
  /\ UNCHANGED <<bytes, loop>>

-----------------------------------------------------------------------------
\* Any process may be killed at any time.
Killed(p) ==
  /\ pc[p] \notin {"none", "ended"}
  /\ Ends(p)
  /\ UNCHANGED <<bytes, loop, got>>

ParentStep ==
  \/ Start \/ StartFails \/ Fork \/ ForkFails
  \/ CloseReadEnd \/ Write \/ BrokenPipe \/ Return \/ Wait

ChildStep(k) == CloseEnds(k) \/ Read(k) \/ ReadEof(k)

Next ==
  /\ \/ ParentStep
     \/ \E k \in Kids : ChildStep(k)
     \/ \E p \in Procs : Killed(p)
  /\ UNCHANGED prog

\* A process that is not blocked in read or wait goes on; none has to be killed.
Fairness ==
  /\ WF_vars(ParentStep /\ UNCHANGED prog)
  /\ \A k \in Kids : WF_vars(ChildStep(k) /\ UNCHANGED prog)

Spec == Init /\ [][Next]_vars /\ Fairness

-----------------------------------------------------------------------------
(***************************************************************************)
(* Properties.                                                             *)
(***************************************************************************)
\* The parent is killed by SIGPIPE only if its child was killed before: no
\* order of the children's closes takes the last read end away.
WriterFindsReader ==
  pc[parent] = "write" /\ readers[loop[parent]] = {} => pc[loop[parent]] = "ended"

\* Once the children have closed what fork gave them, a pipe has one reader,
\* its child, and no writer but the parent (pipe2.cpp:51-66).  So a child is told
\* of the end of file only if its message was never written.
PipeHasTwoEnds ==
  /\ (\A k \in Kids : pc[k] # "close") /\ pc[parent] # "close" =>
       \A k \in Kids :
         /\ writers[k] \subseteq {parent}
         /\ pc[k] \in {"read", "spin"} => readers[k] \ {parent} = {k}
  /\ \A k \in Kids : got[k] = "eof" => loop[parent] <= k /\ pc[parent] = "ended"

\* Nobody waits forever.  A child in read gets its byte or, when the parent was
\* killed before it wrote, the end of file, because all siblings closed the write
\* ends that they inherited; and the parent's wait returns.
NobodyWaitsForever ==
  /\ \A k \in Kids : pc[k] = "read" ~> pc[k] # "read"
  /\ pc[parent] # "start" ~> pc[parent] = "ended"

=============================================================================
