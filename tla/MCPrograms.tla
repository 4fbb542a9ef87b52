----------------------------- MODULE MCPrograms -----------------------------
(***************************************************************************)
(* The small programs of net/ for TLC, one at a time: program says which,  *)
(* the variables of the others keep their initial values.                  *)
(*                                                                         *)
(*   foo    RefCount: three threads, up to three references each           *)
(*   pipe   ForkPipes: three children as in pipe2.cpp; a message is longer *)
(*          than the byte a child reads                                    *)
(*   sem    SharedSem                                                      *)
(*   join   ThreadJoin: three threads                                      *)
(*   udp    UdpCount: a receive buffer shorter than the clients are many,  *)
(*          up to two failed receives                                      *)
(***************************************************************************)
EXTENDS RefCount

CONSTANTS parent, MAX_PID_CNT, MsgLen, num_threads, Clients, RcvBuf, MaxFailed

ASSUME ProgramsAssumption ==
  /\ MAX_PID_CNT \in Nat \ {0}
  /\ parent \notin 0 .. (MAX_PID_CNT - 1)
  /\ MsgLen \in Nat \ {0}
  /\ num_threads \in Nat
  /\ IsFiniteSet(Clients)
  /\ MaxFailed \in Nat

VARIABLES
  program,
  prog, readers, writers, bytes, ppc, loop, got,
  value, at,
  step, tnum, tinfo, filled, run, copy,
  server, queue, count, client, flight, refused, failed

Pipes == INSTANCE ForkPipes WITH pc <- ppc
Sem == INSTANCE SharedSem
TJ == INSTANCE ThreadJoin
Udp == INSTANCE UdpCount

pipeVars == <<prog, readers, writers, bytes, ppc, loop, got>>
semVars == <<value, at>>
joinVars == <<step, tnum, tinfo, filled, run, copy>>
udpVars == <<server, queue, count, client, flight, refused, failed>>
allVars == <<program, vars, pipeVars, semVars, joinVars, udpVars>>

AllInit ==
  /\ program \in {"foo", "pipe", "sem", "join", "udp"}
  /\ Init /\ Pipes!Init /\ Sem!Init /\ TJ!Init /\ Udp!Init

AllNext ==
  /\ \/ program = "foo" /\ Next /\ UNCHANGED <<pipeVars, semVars, joinVars, udpVars>>
     \/ program = "pipe" /\ Pipes!Next /\ UNCHANGED <<vars, semVars, joinVars, udpVars>>
     \/ program = "sem" /\ Sem!Next /\ UNCHANGED <<vars, pipeVars, joinVars, udpVars>>
     \/ program = "join" /\ TJ!Next /\ UNCHANGED <<vars, pipeVars, semVars, udpVars>>
     \/ program = "udp" /\ Udp!Next /\ UNCHANGED <<vars, pipeVars, semVars, joinVars>>
  /\ UNCHANGED program

\* The fairness of each module, for the program that runs.  (Nothing that
\* RefCount's speaks of is enabled in its initial states.)
AllFairness ==
  /\ Fairness
  /\ WF_pipeVars(program = "pipe" /\ Pipes!ParentStep /\ UNCHANGED prog)
  /\ \A k \in Pipes!Kids :
       WF_pipeVars(program = "pipe" /\ Pipes!ChildStep(k) /\ UNCHANGED prog)
  /\ \A p \in Sem!Procs : WF_semVars(program = "sem" /\ Sem!Step(p))

AllSpec == AllInit /\ [][AllNext]_allVars /\ AllFairness

-----------------------------------------------------------------------------
\* ForkPipes: no order of the children's closes takes the last read end away
\* from the parent that writes.
WriterFindsReader == Pipes!WriterFindsReader

\* ForkPipes: of the ends that fork copies every pipe keeps one reader and one
\* writer, and end of file means that no message was written.
PipeHasTwoEnds == Pipes!PipeHasTwoEnds

\* ForkPipes and SharedSem: no read, wait or sem_wait lasts forever.
NobodyWaitsForever == Pipes!NobodyWaitsForever /\ Sem!WaitEnds

\* SharedSem: the steps of parent and child do not mix.
StepsDoNotMix == Sem!StepsDoNotMix

\* ThreadJoin: array and strings live as long as a thread uses them.
MemoryOutlivesUse == TJ!MemoryOutlivesUse

\* UdpCount: each datagram counted is of another client, which waits until it is
\* killed; what is counted beyond them are failed receives.
CountedClientsWait == Udp!CountedClientsWait

=============================================================================
