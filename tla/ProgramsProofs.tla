--------------------------- MODULE ProgramsProofs ---------------------------
(***************************************************************************)
(* Proofs about the small programs of net/, each for its own Spec and for  *)
(* any number of threads, processes or clients.                            *)
(***************************************************************************)
EXTENDS MCPrograms, Sequences, FiniteSetTheorems, TLAPS

\* A set with no two different elements has at most one.
LEMMA AtMostOne ==
  ASSUME NEW S, \A x, y \in S : x = y
  PROVE  IsFiniteSet(S) /\ Cardinality(S) <= 1
  <1>1. CASE S = {}
    BY <1>1, FS_EmptySet
  <1>2. CASE S # {}
    <2>1. PICK x : x \in S
      BY <1>2
    <2>2. S = {x}
      BY <2>1
    <2>3. IsFiniteSet({x}) /\ Cardinality({x}) = 1
      BY FS_Singleton
    <2>. QED
      BY <2>2, <2>3
  <1>. QED
    BY <1>1, <1>2

-----------------------------------------------------------------------------
(***************************************************************************)
(* SharedSem.                                                              *)
(***************************************************************************)
\* The value is 0 until the child has posted, and never more than 1; whoever is
\* in the steps has taken that 1.
SemInv ==
  /\ value \in {0, 1}
  /\ at \in [{"parent", "child"} ->
               {"none", "fork", "post", "wait", "steps", "ended", "killed"}]
  /\ \A p \in {"parent", "child"} : at[p] = "steps" => value = 0
  /\ ~ (at["parent"] = "steps" /\ at["child"] = "steps")
  /\ at["child"] \in {"none", "post"} => value = 0 /\ at["parent"] # "steps"
  /\ at["parent"] = "fork" => at["child"] = "none"
  /\ at["child"] = "none" => at["parent"] # "wait"

\* Parent and child never mix their steps, for every run of semaphore/a.c.
THEOREM SharedSemExcludes == Sem!Spec => []StepsDoNotMix
  <1>1. Sem!Init => SemInv
    BY DEF Sem!Init, SemInv, Sem!Procs
  <1>2. SemInv /\ [Sem!Next]_(Sem!vars) => SemInv'
    BY DEF SemInv, Sem!Next, Sem!vars, Sem!Procs, Sem!Step, Sem!Fork, Sem!ForkFails,
           Sem!FirstPost, Sem!sem_wait, Sem!sem_post, Sem!Killed, Sem!Goto
  <1>3. SemInv => StepsDoNotMix
    BY DEF SemInv, StepsDoNotMix, Sem!StepsDoNotMix, Sem!Procs
  <1>. QED
    BY <1>1, <1>2, <1>3, PTL DEF Sem!Spec

-----------------------------------------------------------------------------
(***************************************************************************)
(* ThreadJoin.                                                             *)
(***************************************************************************)
\* What main has done up to tnum, and what each thread has.
JoinTypes ==
  /\ step \in {"calloc", "fill", "create", "join", "show", "exit", "exited"}
  /\ tnum \in 0 .. num_threads
  /\ filled \subseteq TJ!Nums
  /\ run \in [TJ!Nums -> {"none", "start", "toupper", "returned", "joined"}]
  /\ copy \in [TJ!Nums -> {"none", "lower", "upper", "freed"}]

\* The first tnum threads are started and then joined.
JoinProgress ==
  /\ step = "calloc" => tnum = 0 /\ \A n \in TJ!Nums : run[n] = "none"
  /\ step \in {"fill", "create"} =>
       \A n \in TJ!Nums : IF n < tnum THEN run[n] # "none" /\ n \in filled
                          ELSE run[n] = "none"
  /\ step = "create" => tnum < num_threads /\ tnum \in filled
  /\ step \in {"join", "show", "exit"} => \A n \in TJ!Nums : run[n] # "none"
  /\ step \in {"join", "show"} =>
       \A n \in TJ!Nums : n < tnum => run[n] = "joined" /\ copy[n] = "freed"
  /\ step = "show" => tnum < num_threads /\ run[tnum] = "joined" /\ copy[tnum] = "upper"

\* The strings follow the threads, and the array is there for those that have
\* not copied their entry.
JoinStrings ==
  /\ \A n \in TJ!Nums : run[n] = "returned" => copy[n] = "upper"
  /\ step \in {"fill", "create", "join", "show"} => tinfo = "allocated"
  /\ \A n \in TJ!Nums : run[n] = "start" => tinfo = "allocated" /\ n \in filled

JoinInv == JoinTypes /\ JoinProgress /\ JoinStrings /\ MemoryOutlivesUse

\* No step of main or of a thread breaks it.
LEMMA JoinStep ==
  ASSUME JoinInv, [TJ!Next]_(TJ!vars)
  PROVE  JoinInv'
  <1>. USE ProgramsAssumption DEF JoinInv, JoinTypes, JoinProgress, JoinStrings,
            MemoryOutlivesUse, TJ!MemoryOutlivesUse, TJ!Nums
  <1>1. CASE TJ!Calloc
    BY <1>1 DEF TJ!Calloc
  <1>2. CASE TJ!Fill
    BY <1>2 DEF TJ!Fill
  <1>3. CASE TJ!pthread_create
    BY <1>3 DEF TJ!pthread_create
  <1>4. CASE TJ!AllStarted
    BY <1>4 DEF TJ!AllStarted
  <1>5. CASE TJ!pthread_join
    BY <1>5 DEF TJ!pthread_join
  <1>6. CASE TJ!Show
    BY <1>6 DEF TJ!Show
  <1>7. CASE TJ!FreeTinfo
    BY <1>7 DEF TJ!FreeTinfo
  <1>8. CASE TJ!Exit
    BY <1>8 DEF TJ!Exit
  <1>9. ASSUME NEW n \in TJ!Nums, TJ!Strdup(n)
        PROVE  JoinInv'
    BY <1>9 DEF TJ!Strdup
  <1>10. ASSUME NEW n \in TJ!Nums, TJ!StrdupFails(n)
         PROVE  JoinInv'
    BY <1>10 DEF TJ!StrdupFails
  <1>11. ASSUME NEW n \in TJ!Nums, TJ!ToUpper(n)
         PROVE  JoinInv'
    BY <1>11 DEF TJ!ToUpper
  <1>12. CASE UNCHANGED TJ!vars
    BY <1>12 DEF TJ!vars
  <1>. QED
    BY <1>1, <1>2, <1>3, <1>4, <1>5, <1>6, <1>7, <1>8, <1>9, <1>10, <1>11, <1>12
    DEF TJ!Next

\* The array and the strings of pthread/main.c outlive their last use, for any
\* number of threads and in every order in which they run.
THEOREM ThreadMemoryIsSafe == TJ!Spec => []MemoryOutlivesUse
  <1>1. TJ!Init => JoinInv
    BY ProgramsAssumption DEF TJ!Init, JoinInv, JoinTypes, JoinProgress, JoinStrings,
       MemoryOutlivesUse, TJ!MemoryOutlivesUse, TJ!Nums
  <1>2. JoinInv /\ [TJ!Next]_(TJ!vars) => JoinInv'
    BY JoinStep
  <1>3. JoinInv => MemoryOutlivesUse
    BY DEF JoinInv
  <1>. QED
    BY <1>1, <1>2, <1>3, PTL DEF TJ!Spec

-----------------------------------------------------------------------------
(***************************************************************************)
(* UdpCount.                                                               *)
(***************************************************************************)
\* The clients that wait, or did when they were killed, for an answer to a datagram
\* that has arrived or is lost.
Waiting == {c \in Clients : client[c] \in {"recv", "killed"}} \ (refused \cup flight)

UdpInv ==
  /\ server \in {"up", "down"}
  /\ queue \in Seq(Clients)
  /\ count \in Nat
  /\ client \in [Clients -> {"input", "send", "recv", "killed", "ended"}]
  /\ failed \in Nat
  /\ flight \subseteq Clients /\ refused \subseteq Clients
  /\ flight \cap refused = {}
  /\ \A c \in Clients : /\ c \in refused => client[c] = "recv"
                        /\ c \in flight => client[c] \in {"recv", "killed"}
  /\ server = "up" => count + Len(queue) <= Cardinality(Waiting) + failed

\* More waiting clients are at least as many; one more counts one more.
LEMMA WaitingGrows ==
         /\ Cardinality(Waiting) \in Nat /\ Cardinality(Waiting') \in Nat
         /\ Waiting \subseteq Waiting' => Cardinality(Waiting) <= Cardinality(Waiting')
         /\ \A c : c \notin Waiting /\ Waiting' = Waiting \cup {c} =>
              Cardinality(Waiting') = Cardinality(Waiting) + 1
  <1>1. IsFiniteSet(Waiting) /\ IsFiniteSet(Waiting')
    <2>1. Waiting \subseteq Clients /\ Waiting' \subseteq Clients
      BY DEF Waiting
    <2>. QED
      BY <2>1, FS_Subset, ProgramsAssumption
  <1>2. Waiting \subseteq Waiting' => Cardinality(Waiting) <= Cardinality(Waiting')
    BY <1>1, FS_Subset
  <1>. QED
    BY <1>1, <1>2, FS_AddElement, FS_CardinalityType

\* The clients' places and the datagrams on their way decide who waits.
LEMMA UdpStep ==
  ASSUME UdpInv, [Udp!Next]_(Udp!vars)
  PROVE  UdpInv'
  <1>. USE DEF UdpInv, Waiting
  <1>1. CASE Udp!ServerStarts
    BY <1>1, WaitingGrows DEF Udp!ServerStarts
  <1>2. CASE Udp!ServerKilled
    BY <1>2 DEF Udp!ServerKilled
  <1>3. CASE Udp!ServerReceives
    BY <1>3, WaitingGrows DEF Udp!ServerReceives
  <1>4. ASSUME NEW c \in Clients, Udp!Arrives(c)
        PROVE  UdpInv'
    BY <1>4, WaitingGrows DEF Udp!Arrives
  <1>5. ASSUME NEW c \in Clients, Udp!Lost(c)
        PROVE  UdpInv'
    BY <1>5, WaitingGrows DEF Udp!Lost
  <1>6. ASSUME NEW c \in Clients, Udp!Refused(c)
        PROVE  UdpInv'
    BY <1>6 DEF Udp!Refused
  <1>7. ASSUME NEW c \in Clients, Udp!Connect(c) \/ Udp!ConnectFails(c)
        PROVE  UdpInv'
    BY <1>7, WaitingGrows DEF Udp!Connect, Udp!ConnectFails, Udp!Goto
  <1>8. ASSUME NEW c \in Clients, Udp!Send(c)
        PROVE  UdpInv'
    BY <1>8, WaitingGrows DEF Udp!Send, Udp!Goto
  <1>9. ASSUME NEW c \in Clients, Udp!Receive(c)
        PROVE  UdpInv'
    BY <1>9, WaitingGrows DEF Udp!Receive, Udp!Goto
  <1>10. ASSUME NEW c \in Clients, Udp!ClientKilled(c)
         PROVE  UdpInv'
    BY <1>10, WaitingGrows DEF Udp!ClientKilled, Udp!Goto
  <1>11. CASE Udp!ServerReceiveFails
    BY <1>11, WaitingGrows DEF Udp!ServerReceiveFails
  <1>12. CASE UNCHANGED Udp!vars
    BY <1>12 DEF Udp!vars
  <1>. QED
    BY <1>1, <1>2, <1>3, <1>4, <1>5, <1>6, <1>7, <1>8, <1>9, <1>10, <1>11, <1>12 DEF Udp!Next

\* What the UDP server counts and has still to read is never more than its failed
\* receives and the clients that wait in recvfrom or were killed there, and no
\* refusal outlives its round: for any number of clients, any size of the receive
\* buffer and any number of failures.
THEOREM UdpCountIsBounded == Udp!Spec => []CountedClientsWait
  <1>1. Udp!Init => UdpInv
    <2>1. Cardinality(Waiting) \in Nat
      BY WaitingGrows
    <2>. QED
      BY <2>1 DEF Udp!Init, UdpInv
  <1>2. UdpInv /\ [Udp!Next]_(Udp!vars) => UdpInv'
    BY UdpStep
  <1>3. UdpInv => CountedClientsWait
    <2>1. \A S : Udp!Cardinality(S) = Cardinality(S)
      BY DEF Udp!Cardinality, Cardinality
    <2>. QED
      BY <2>1 DEF UdpInv, Waiting, CountedClientsWait, Udp!CountedClientsWait, Udp!Unanswered
  <1>. QED
    BY <1>1, <1>2, <1>3, PTL DEF Udp!Spec

-----------------------------------------------------------------------------
(***************************************************************************)
(* ForkPipes.                                                              *)
(***************************************************************************)
Kids == 0 .. (MAX_PID_CNT - 1)

PipeTypes ==
  /\ prog \in {"pipe", "pipe2"}
  /\ readers \in [Kids -> SUBSET (Kids \cup {parent})]
  /\ writers \in [Kids -> SUBSET (Kids \cup {parent})]
  /\ bytes \in [Kids -> Nat]
  /\ ppc \in [Kids \cup {parent} -> {"none", "start", "fork", "close", "write", "wait",
                                     "read", "spin", "ended"}]
  /\ loop \in [Kids \cup {parent} -> 0 .. Pipes!Count]
  /\ got \in [Kids -> {"nothing", "byte", "eof"}]

\* The parent has all write ends for as long as it runs, and the read ends of
\* the pipes whose child it has still to fork.
ParentEnds ==
  /\ ppc[parent] \in {"start", "fork", "close", "write", "wait", "ended"}
  /\ ppc[parent] = "start" => \A k \in Kids : ppc[k] = "none"
  /\ ppc[parent] \in {"fork", "close", "write", "wait"} =>
       \A k \in Kids :
         k < Pipes!Count => /\ parent \in writers[k]
                            /\ k >= loop[parent] /\ ppc[parent] \in {"fork", "close"} =>
                                 parent \in readers[k]
                            /\ k > loop[parent] => parent \in readers[k]
  /\ ppc[parent] \in {"close", "write"} => loop[parent] < Pipes!Count
  /\ ppc[parent] = "fork" => \A k \in Kids : k >= loop[parent] => ppc[k] = "none"
  /\ ppc[parent] \in {"close", "write"} =>
       \A k \in Kids : IF k > loop[parent] THEN ppc[k] = "none"
                       ELSE k = loop[parent] => ppc[k] # "none"

\* A child has what it has not yet closed of what fork gave it, and its own read
\* end until it ends.
ChildEnds ==
  \A k \in Kids :
    /\ ppc[k] \in {"none", "close", "read", "spin", "ended"}
    /\ ppc[k] = "none" => loop[k] = 0
    /\ ppc[k] = "close" => loop[k] < Pipes!Count
    /\ k >= Pipes!Count => readers[k] = {} /\ writers[k] = {} /\ ppc[k] = "none"
    /\ ppc[k] \in {"close", "read", "spin"} => k \in readers[k]
    /\ \A i \in Kids :
         /\ k \in writers[i] => ppc[k] = "close" /\ i >= loop[k]
         /\ k \in readers[i] /\ i # k => ppc[k] = "close" /\ i >= loop[k]

\* A message that was written is there until its child has read.
MessageWaits ==
  \A k \in Kids :
    /\ ppc[k] \in {"close", "read"} /\ k < loop[parent] => bytes[k] > 0
    /\ got[k] = "eof" => loop[parent] <= k /\ ppc[parent] = "ended"

PipeInv == PipeTypes /\ ParentEnds /\ ChildEnds /\ MessageWaits

\* The end of a process, whatever ends it.
LEMMA ProcessEnds ==
  ASSUME PipeInv, NEW p \in Kids \cup {parent}, Pipes!Ends(p),
         ppc[p] # "none", UNCHANGED <<prog, bytes, loop, got>>
  PROVE  PipeInv'
  <1>. USE ProgramsAssumption DEF PipeInv, PipeTypes, Kids, Pipes!Kids, Pipes!Count,
           Pipes!Ends, Pipes!Goto
  <1>1. PipeTypes'
    OBVIOUS
  <1>2. ParentEnds'
    BY DEF ParentEnds, ChildEnds
  <1>3. ChildEnds'
    BY DEF ChildEnds
  <1>4. MessageWaits'
    BY DEF MessageWaits, ChildEnds
  <1>. QED
    BY <1>1, <1>2, <1>3, <1>4

\* A child goes on after it has read.
LEMMA ChildReads ==
  ASSUME PipeInv, NEW k \in Kids, ppc[k] = "read", Pipes!AfterRead(k),
         UNCHANGED <<prog, loop>>,
         bytes' \in [Kids -> Nat], \A m \in Kids \ {k} : bytes'[m] = bytes[m],
         got' \in [Kids -> {"nothing", "byte", "eof"}],
         \A m \in Kids : got'[m] = "eof" => loop[parent] <= m /\ ppc[parent] = "ended"
  PROVE  PipeInv'
  <1>1. CASE prog = "pipe"
    <2>1. /\ ppc' = [ppc EXCEPT ![k] = "ended"]
          /\ readers' = [m \in Kids |-> readers[m] \ {k}]
          /\ writers' = [m \in Kids |-> writers[m] \ {k}]
      BY <1>1 DEF Pipes!AfterRead, Pipes!Ends, Pipes!Goto, Pipes!Kids, Kids
    <2>. USE <2>1, ProgramsAssumption DEF PipeInv, PipeTypes, Kids, Pipes!Count
    <2>2. PipeTypes'
      OBVIOUS
    <2>3. ParentEnds'
      BY DEF ParentEnds
    <2>4. ChildEnds'
      BY DEF ChildEnds
    <2>5. MessageWaits'
      BY DEF MessageWaits
    <2>. QED
      BY <2>2, <2>3, <2>4, <2>5
  <1>2. CASE prog # "pipe"
    <2>1. /\ ppc' = [ppc EXCEPT ![k] = "spin"]
          /\ UNCHANGED <<readers, writers>>
      BY <1>2 DEF Pipes!AfterRead, Pipes!Goto
    <2>. USE <2>1, ProgramsAssumption DEF PipeInv, PipeTypes, Kids, Pipes!Count
    <2>2. PipeTypes'
      OBVIOUS
    <2>3. ParentEnds'
      BY DEF ParentEnds
    <2>4. ChildEnds'
      BY DEF ChildEnds
    <2>5. MessageWaits'
      BY DEF MessageWaits
    <2>. QED
      BY <2>2, <2>3, <2>4, <2>5
  <1>. QED
    BY <1>1, <1>2

\* No step of the parent or of a child breaks the invariant.
LEMMA PipeStep ==
  ASSUME PipeInv, [Pipes!Next]_(Pipes!vars)
  PROVE  PipeInv'
  <1>0. /\ \A k \in Kids : k \in Nat
        /\ \A x \in Kids \cup {parent} : loop[x] \in Nat
    <2>1. Pipes!Count \in Nat
      BY ProgramsAssumption DEF Pipes!Count
    <2>2. loop \in [Kids \cup {parent} -> 0 .. Pipes!Count]
      BY DEF PipeInv, PipeTypes
    <2>. QED
      BY <2>1, <2>2 DEF Kids
  <1>. USE ProgramsAssumption DEF PipeInv, PipeTypes, Kids, Pipes!Kids, Pipes!Procs, Pipes!Count
  <1>1. CASE Pipes!Start /\ UNCHANGED prog
    BY <1>1 DEF Pipes!Start, Pipes!Goto, ParentEnds, ChildEnds, MessageWaits
  <1>2. CASE (Pipes!StartFails \/ Pipes!ForkFails) /\ UNCHANGED prog
    BY <1>2, ProcessEnds DEF Pipes!StartFails, Pipes!ForkFails
  <1>3. CASE Pipes!Fork /\ UNCHANGED prog
    <2>. DEFINE child == loop[parent]
    <2>1. child \in Kids /\ ppc[child] = "none" /\ child < Pipes!Count /\ ppc[parent] = "fork"
      BY <1>3 DEF ParentEnds, Pipes!Fork
    <2>2. /\ ppc' = [ppc EXCEPT ![parent] = "close", ![child] = "close"]
          /\ readers' = [k \in Kids |-> IF parent \in readers[k] THEN readers[k] \cup {child}
                                        ELSE readers[k]]
          /\ writers' = [k \in Kids |-> IF parent \in writers[k] THEN writers[k] \cup {child}
                                        ELSE writers[k]]
          /\ UNCHANGED <<prog, bytes, loop, got>>
      BY <1>3 DEF Pipes!Fork
    <2>. HIDE DEF child
    <2>3. child = loop[parent]
      BY DEF child
    <2>4. PipeTypes'
      BY <2>1, <2>2
    <2>a. /\ ppc'[parent] = "close" /\ ppc'[child] = "close"
          /\ \A k \in Kids \ {child} : ppc'[k] = ppc[k]
      BY <2>1, <2>2
    <2>b. \A k \in Kids :
            k < Pipes!Count =>
              /\ parent \in writers[k]
              /\ k >= child => parent \in readers[k]
      BY <2>1, <2>3 DEF ParentEnds
    <2>c. \A k \in Kids, x \in Kids \cup {parent} :
            /\ x \in readers'[k] <=> x \in readers[k] \/ (x = child /\ parent \in readers[k])
            /\ x \in writers'[k] <=> x \in writers[k] \/ (x = child /\ parent \in writers[k])
      BY <2>2
    <2>d. \A k \in Kids : k > child => ppc[k] = "none"
      BY <2>1, <2>3 DEF ParentEnds
    <2>5. ParentEnds'
      <3>1. Pipes!Count' = Pipes!Count /\ loop'[parent] = child
        BY <2>2, <2>3
      <3>2. ASSUME NEW k \in Kids, k < Pipes!Count
            PROVE  /\ parent \in writers'[k]
                   /\ k >= child => parent \in readers'[k]
                   /\ k > child => parent \in readers'[k]
        <4>1. k \in Nat /\ child \in Nat
          BY <1>0, <2>1
        <4>2. parent \in writers[k] /\ (k >= child => parent \in readers[k])
          BY <3>2, <2>b
        <4>. QED
          BY <4>1, <4>2, <2>c
      <3>3. ASSUME NEW k \in Kids
            PROVE  IF k > child THEN ppc'[k] = "none" ELSE k = child => ppc'[k] # "none"
        BY <2>1, <2>a, <2>d
      <3>. HIDE DEF Pipes!Count, Kids
      <3>. QED
        BY <2>1, <2>a, <3>1, <3>2, <3>3 DEF ParentEnds
    <2>6. ChildEnds'
      <3>1. ASSUME NEW k \in Kids, k >= Pipes!Count
            PROVE  readers'[k] = {} /\ writers'[k] = {} /\ ppc'[k] = "none"
        <4>1. readers[k] = {} /\ writers[k] = {} /\ ppc[k] = "none" /\ k # child
          BY <3>1, <2>1 DEF ChildEnds
        <4>. QED
          BY <4>1, <2>2, <2>a
      <3>2. ASSUME NEW k \in Kids, NEW i \in Kids
            PROVE  /\ k \in writers'[i] => ppc'[k] = "close" /\ i >= loop[k]
                   /\ k \in readers'[i] /\ i # k => ppc'[k] = "close" /\ i >= loop[k]
        <4>1. /\ k \in writers[i] => ppc[k] = "close" /\ i >= loop[k]
              /\ k \in readers[i] /\ i # k => ppc[k] = "close" /\ i >= loop[k]
              /\ ppc[k] = "none" => loop[k] = 0
          BY DEF ChildEnds
        <4>2. loop[k] \in Nat /\ i \in Nat
          BY <1>0
        <4>. QED
          BY <4>1, <4>2, <2>1, <2>a, <2>c
      <3>3. ASSUME NEW k \in Kids, ppc'[k] \in {"close", "read", "spin"}
            PROVE  k \in readers'[k]
        BY <3>3, <2>1, <2>a, <2>b, <2>c DEF ChildEnds
      <3>4. ASSUME NEW k \in Kids
            PROVE  /\ ppc'[k] \in {"none", "close", "read", "spin", "ended"}
                   /\ ppc'[k] = "none" => loop[k] = 0
                   /\ ppc'[k] = "close" => loop[k] < Pipes!Count
        BY <2>1, <2>a, SMTT(60) DEF ChildEnds
      <3>5. Pipes!Count' = Pipes!Count /\ loop' = loop
        BY <2>2
      <3>. QED
        BY <3>1, <3>2, <3>3, <3>4, <3>5 DEF ChildEnds
    <2>7. MessageWaits'
      BY <2>1, <2>2, <2>3 DEF MessageWaits
    <2>. QED
      BY <2>4, <2>5, <2>6, <2>7
  <1>4. CASE Pipes!CloseReadEnd /\ UNCHANGED prog
    <2>. USE <1>4 DEF Pipes!CloseReadEnd, Pipes!Goto
    <2>1. PipeTypes' /\ ParentEnds'
      BY SMTT(60) DEF ParentEnds
    <2>2. ChildEnds'
      BY DEF ChildEnds
    <2>3. MessageWaits'
      BY DEF MessageWaits
    <2>. QED
      BY <2>1, <2>2, <2>3
  <1>5. CASE Pipes!Write /\ UNCHANGED prog
    <2>. USE <1>5 DEF Pipes!Write, Pipes!Goto
    <2>0. loop[parent] \in Kids /\ loop[parent] < Pipes!Count
      BY DEF ParentEnds
    <2>1. PipeTypes' /\ ParentEnds'
      BY <2>0, SMTT(60) DEF ParentEnds
    <2>2. ChildEnds'
      BY DEF ChildEnds
    <2>3. MessageWaits'
      BY DEF MessageWaits, ParentEnds
    <2>. QED
      BY <2>1, <2>2, <2>3
  <1>6. CASE (Pipes!BrokenPipe \/ Pipes!Return \/ Pipes!Wait) /\ UNCHANGED prog
    BY <1>6, ProcessEnds DEF Pipes!BrokenPipe, Pipes!Return, Pipes!Wait
  <1>7. ASSUME NEW k \in Kids, Pipes!CloseEnds(k), UNCHANGED prog
        PROVE  PipeInv'
    <2>1. /\ ppc[k] = "close" /\ loop[k] < Pipes!Count
          /\ loop[k] \in Kids /\ k # parent
          /\ loop' = [loop EXCEPT ![k] = @ + 1]
          /\ ppc' = [ppc EXCEPT ![k] = IF loop[k] + 1 = Pipes!Count THEN "read" ELSE "close"]
          /\ writers' = [writers EXCEPT ![loop[k]] = @ \ {k}]
          /\ UNCHANGED <<prog, bytes, got>>
      BY <1>7 DEF Pipes!CloseEnds, Pipes!Goto
    <2>2. readers' = IF loop[k] = k THEN readers ELSE [readers EXCEPT ![loop[k]] = @ \ {k}]
      BY <1>7 DEF Pipes!CloseEnds
    <2>3. PipeTypes'
      <3>1. loop' \in [Kids \cup {parent} -> 0 .. Pipes!Count']
        BY <2>1
      <3>2. /\ writers' \in [Kids -> SUBSET (Kids \cup {parent})]
            /\ readers' \in [Kids -> SUBSET (Kids \cup {parent})]
        BY <2>1, <2>2
      <3>. QED
        BY <2>1, <3>1, <3>2
    <2>4. ParentEnds'
      BY <2>1, <2>2 DEF ParentEnds
    <2>5. ChildEnds'
      BY <2>1, <2>2, SMTT(60) DEF ChildEnds
    <2>6. MessageWaits'
      BY <2>1 DEF MessageWaits
    <2>. QED
      BY <2>3, <2>4, <2>5, <2>6
  <1>8. ASSUME NEW k \in Kids, Pipes!Read(k), UNCHANGED prog
        PROVE  PipeInv'
    <2>1. /\ bytes' \in [Kids -> Nat] /\ \A m \in Kids \ {k} : bytes'[m] = bytes[m]
          /\ got' \in [Kids -> {"nothing", "byte", "eof"}]
          /\ \A m \in Kids : got'[m] = "eof" => loop[parent] <= m /\ ppc[parent] = "ended"
      BY <1>8 DEF Pipes!Read, MessageWaits
    <2>. QED
      BY <1>8, <2>1, ChildReads DEF Pipes!Read
  <1>9. ASSUME NEW k \in Kids, Pipes!ReadEof(k), UNCHANGED prog
        PROVE  PipeInv'
    <2>1. ppc[parent] = "ended" /\ loop[parent] <= k
      BY <1>9 DEF Pipes!ReadEof, ParentEnds, ChildEnds, MessageWaits
    <2>. QED
      BY <1>9, <2>1, ChildReads, ZenonT(60) DEF Pipes!ReadEof, MessageWaits
  <1>10. ASSUME NEW p \in Kids \cup {parent}, Pipes!Killed(p), UNCHANGED prog
         PROVE  PipeInv'
    BY <1>10, ProcessEnds DEF Pipes!Killed
  <1>11. CASE UNCHANGED Pipes!vars
    BY <1>11 DEF Pipes!vars, ParentEnds, ChildEnds, MessageWaits
  <1>. QED
    BY <1>1, <1>2, <1>3, <1>4, <1>5, <1>6, <1>7, <1>8, <1>9, <1>10, <1>11
    DEF Pipes!Next, Pipes!ParentStep, Pipes!ChildStep

\* What PipeInv says of the ends, as the runs check it.
LEMMA PipeInvSuffices == PipeInv => WriterFindsReader /\ PipeHasTwoEnds
  <1>. USE ProgramsAssumption DEF PipeInv, PipeTypes, ParentEnds, ChildEnds, MessageWaits,
           Kids, Pipes!Kids, Pipes!Count
  <1>1. PipeInv => WriterFindsReader
    BY DEF WriterFindsReader, Pipes!WriterFindsReader
  <1>2. PipeInv => PipeHasTwoEnds
    BY DEF PipeHasTwoEnds, Pipes!PipeHasTwoEnds
  <1>. QED
    BY <1>1, <1>2

LEMMA PipeInvHolds == Pipes!Spec => []PipeInv
  <1>1. Pipes!Init => PipeInv
    BY ProgramsAssumption DEF Pipes!Init, PipeInv, PipeTypes, ParentEnds, ChildEnds,
       MessageWaits, Kids, Pipes!Kids, Pipes!Procs, Pipes!Count
  <1>2. PipeInv /\ [Pipes!Next]_(Pipes!vars) => PipeInv'
    BY PipeStep
  <1>. QED
    BY <1>1, <1>2, PTL DEF Pipes!Spec

\* Whatever the number of children and the order of their closes, the parent of
\* pipe and pipe2 finds a reader unless the child was killed.
THEOREM ParentFindsReader == Pipes!Spec => []WriterFindsReader
  BY PipeInvHolds, PipeInvSuffices, PTL

\* Of the ends that fork copies, one reader and one writer are left to each pipe.
THEOREM PipesKeepTwoEnds == Pipes!Spec => []PipeHasTwoEnds
  BY PipeInvHolds, PipeInvSuffices, PTL

-----------------------------------------------------------------------------
(***************************************************************************)
(* RefCount.                                                               *)
(***************************************************************************)
Owing == {"hold_unlock", "rele_lock", "rele_read", "rele_write", "init"}

Locked == {"hold_read", "hold_write", "hold_unlock",
           "rele_read", "rele_write", "rele_unlock", "last_unlock"}

Last == {"last_unlock", "destroy", "free"}

\* The mutex belongs to the one thread inside, which knows the count.
MutexHeld ==
  \A t \in Threads :
    /\ pc[t] \in Locked <=> f_lock = t
    /\ pc[t] \in {"hold_write", "rele_write"} => tmp[t] = f_count

\* A thread in foo_hold keeps the reference that allows the call.
HolderHasReference ==
  \A t \in Threads :
    /\ pc[t] \in {"hold_lock", "hold_read", "hold_write"} => refs[t] \in 1 .. MaxRefs
    /\ pc[t] = "hold_unlock" => refs[t] <= MaxRefs

\* The life of the object.
Lifetime ==
  /\ foo # "live" => Held = 0
  /\ \A t, u \in Threads : pc[t] = "init" /\ pc[u] = "init" => t = u
  /\ \A t \in Threads :
       /\ pc[t] \notin {"idle", "init", "free"} => foo = "live"
       /\ pc[t] = "init" => foo = "raw"
       /\ pc[t] = "free" => foo = "destroyed"

\* Who has brought the count to 0 is alone with it.
LastIsAlone ==
  \A t \in Threads :
    /\ pc[t] \in {"last_unlock", "destroy"} => f_count = 0
    /\ pc[t] = "rele_unlock" => f_count > 0
    /\ \A u \in Threads : pc[t] \in Last /\ pc[u] \in Last => t = u

RefInv ==
  /\ TypeOK
  /\ MutexHeld
  /\ HolderHasReference
  /\ Lifetime
  /\ LastIsAlone
  /\ CountsReferences

\* References and calls are finitely many.
LEMMA CountsAreNumbers ==
  /\ IsFiniteSet(References) /\ Held \in Nat
  /\ \A places : IsFiniteSet(At(places)) /\ Cardinality(At(places)) \in Nat
  <1>1. IsFiniteSet(References)
    <2>1. IsFiniteSet(Threads \X (1 .. (MaxRefs + 1)))
      <3>1. IsFiniteSet(1 .. (MaxRefs + 1))
        BY FS_Interval, RefAssumption
      <3>. QED
        BY <3>1, FS_Product, RefAssumption
    <2>2. References \subseteq Threads \X (1 .. (MaxRefs + 1))
      BY DEF References
    <2>. QED
      BY <2>1, <2>2, FS_Subset
  <1>2. ASSUME NEW places
        PROVE  IsFiniteSet(At(places))
    BY FS_Subset, RefAssumption DEF At
  <1>. QED
    BY <1>1, <1>2, FS_CardinalityType DEF Held

\* No references at all: nobody has one.
LEMMA NoneHeld ==
  ASSUME refs \in [Threads -> 0 .. (MaxRefs + 1)]
  PROVE  Held = 0 <=> \A t \in Threads : refs[t] = 0
  <1>1. Held = 0 <=> References = {}
    BY CountsAreNumbers, FS_EmptySet DEF Held
  <1>2. ASSUME NEW t \in Threads, refs[t] # 0
        PROVE  <<t, 1>> \in References
    BY <1>2, RefAssumption DEF References
  <1>3. ASSUME \A t \in Threads : refs[t] = 0
        PROVE  References = {}
    BY <1>3, RefAssumption DEF References
  <1>. QED
    BY <1>1, <1>2, <1>3

\* One reference more, or one less.
LEMMA OneMoreReference ==
  ASSUME refs \in [Threads -> 0 .. (MaxRefs + 1)], NEW t \in Threads,
         refs[t] <= MaxRefs, refs' = [refs EXCEPT ![t] = @ + 1]
  PROVE  Held' = Held + 1
  <1>1. References' = References \cup {<<t, refs[t] + 1>>}
    BY RefAssumption DEF References
  <1>2. <<t, refs[t] + 1>> \notin References
    BY RefAssumption DEF References
  <1>. QED
    BY <1>1, <1>2, CountsAreNumbers, FS_AddElement DEF Held

LEMMA OneReferenceLess ==
  ASSUME refs \in [Threads -> 0 .. (MaxRefs + 1)], NEW t \in Threads,
         refs[t] > 0, refs' = [refs EXCEPT ![t] = @ - 1]
  PROVE  Held' = Held - 1
  <1>1. References' = References \ {<<t, refs[t]>>}
    BY RefAssumption DEF References
  <1>2. <<t, refs[t]>> \in References
    BY RefAssumption DEF References
  <1>. QED
    BY <1>1, <1>2, CountsAreNumbers, FS_RemoveElement DEF Held

\* A reference that is passed on.
LEMMA PassedReference ==
  ASSUME refs \in [Threads -> 0 .. (MaxRefs + 1)], NEW t \in Threads, NEW u \in Threads,
         t # u, refs[t] > 0, refs[u] < MaxRefs,
         refs' = [refs EXCEPT ![t] = @ - 1, ![u] = @ + 1]
  PROVE  Held' = Held
  <1>. DEFINE less == References \ {<<t, refs[t]>>}
  <1>1. References' = less \cup {<<u, refs[u] + 1>>}
    BY RefAssumption DEF References
  <1>2. <<t, refs[t]>> \in References /\ <<u, refs[u] + 1>> \notin less
    BY RefAssumption DEF References
  <1>3. IsFiniteSet(less) /\ Cardinality(less) = Held - 1
    BY <1>2, CountsAreNumbers, FS_RemoveElement DEF Held
  <1>4. Cardinality(less \cup {<<u, refs[u] + 1>>}) = Cardinality(less) + 1
    BY <1>2, <1>3, FS_AddElement
  <1>. QED
    BY <1>1, <1>3, <1>4, CountsAreNumbers DEF Held

\* A thread that moves joins the calls that owe a reference, leaves them, or
\* neither.
LEMMA OwedMoves ==
  ASSUME NEW t \in Threads, \A u \in Threads \ {t} : pc'[u] = pc[u]
  PROVE  /\ Owed \in Nat
         /\ pc'[t] \in Owing /\ pc[t] \notin Owing => Owed' = Owed + 1
         /\ pc'[t] \notin Owing /\ pc[t] \in Owing => Owed' = Owed - 1
         /\ (pc'[t] \in Owing <=> pc[t] \in Owing) => Owed' = Owed
  <1>. DEFINE S == At(Owing)
  <1>1. Owed = Cardinality(S) /\ Owed' = Cardinality(S')
    BY DEF Owed, Owing
  <1>2. /\ pc'[t] \in Owing => S' = S \cup {t}
        /\ pc'[t] \notin Owing => S' = S \ {t}
        /\ t \in S <=> pc[t] \in Owing
    BY DEF At
  <1>3. IsFiniteSet(S) /\ Cardinality(S) \in Nat
    BY CountsAreNumbers
  <1>4. /\ Cardinality(S \cup {t}) = IF t \in S THEN Cardinality(S) ELSE Cardinality(S) + 1
        /\ Cardinality(S \ {t}) = IF t \in S THEN Cardinality(S) - 1 ELSE Cardinality(S)
    BY <1>3, FS_AddElement, FS_RemoveElement
  <1>. HIDE DEF S
  <1>. QED
    BY <1>1, <1>2, <1>3, <1>4

\* No call in progress owes a reference.
LEMMA NoneOwed == Owed \in Nat /\ (Owed = 0 <=> \A t \in Threads : pc[t] \notin Owing)
  <1>1. Owed = Cardinality(At(Owing))
    BY DEF Owed, Owing
  <1>2. IsFiniteSet(At(Owing)) /\ Cardinality(At(Owing)) \in Nat
    BY CountsAreNumbers
  <1>3. Cardinality(At(Owing)) = 0 <=> At(Owing) = {}
    BY <1>2, FS_EmptySet
  <1>4. At(Owing) = {} <=> \A t \in Threads : pc[t] \notin Owing
    BY DEF At
  <1>. QED
    BY <1>1, <1>2, <1>3, <1>4

\* While the object is not live, at most one thread is in a call: the one that
\* allocates or frees it.
LEMMA NotLive ==
  ASSUME RefInv, foo # "live", NEW t \in Threads, pc[t] # "idle"
  PROVE  /\ Held = 0
         /\ \A u \in Threads \ {t} : pc[u] = "idle"
  BY DEF RefInv, Lifetime, LastIsAlone, Last, TypeOK, Places

\* foo_alloc.
LEMMA AllocSteps ==
  ASSUME RefInv, NEW t \in Threads, Alloc(t) \/ InitMutex(t) \/ InitMutexFails(t)
  PROVE  RefInv'
  <1>. USE RefAssumption DEF RefInv, Goto
  <1>1. CASE Alloc(t)
    <2>. USE <1>1 DEF Alloc
    <2>1. \A u \in Threads : pc[u] = "idle"
      BY DEF Lifetime
    <2>2. Held' = Held /\ Held = 0
      BY DEF Held, References, Lifetime
    <2>3. Owed' = 1
      BY <2>1, OwedMoves, NoneOwed DEF TypeOK, Owing
    <2>4. TypeOK'
      BY DEF TypeOK, Places
    <2>5. MutexHeld' /\ HolderHasReference' /\ LastIsAlone'
      BY <2>1 DEF MutexHeld, HolderHasReference, LastIsAlone, Locked, Last, TypeOK
    <2>6. Lifetime'
      BY <2>1, <2>2 DEF Lifetime, TypeOK
    <2>7. CountsReferences'
      BY <2>2, <2>3 DEF CountsReferences
    <2>. QED
      BY <2>4, <2>5, <2>6, <2>7
  <1>2. CASE InitMutex(t)
    <2>. USE <1>2 DEF InitMutex
    <2>1. foo = "raw" /\ Held = 0 /\ \A u \in Threads \ {t} : pc[u] = "idle"
      BY NotLive DEF Lifetime
    <2>2. refs[t] = 0
      BY <2>1, NoneHeld DEF TypeOK
    <2>3. Held' = Held + 1
      <3>1. refs' = [refs EXCEPT ![t] = @ + 1] /\ refs[t] <= MaxRefs
        BY <2>2
      <3>. QED
        BY <3>1, OneMoreReference DEF TypeOK
    <2>4. Owed' = Owed - 1 /\ Owed \in Nat
      BY OwedMoves DEF TypeOK, Owing
    <2>5. TypeOK'
      BY DEF TypeOK, Places
    <2>6. MutexHeld' /\ HolderHasReference' /\ LastIsAlone'
      BY <2>1 DEF MutexHeld, HolderHasReference, LastIsAlone, Locked, Last, TypeOK
    <2>7. Lifetime'
      BY <2>1 DEF Lifetime, TypeOK
    <2>8. CountsReferences'
      BY <2>1, <2>3, <2>4 DEF CountsReferences
    <2>. QED
      BY <2>5, <2>6, <2>7, <2>8
  <1>3. CASE InitMutexFails(t)
    <2>. USE <1>3 DEF InitMutexFails
    <2>1. foo = "raw" /\ Held = 0 /\ \A u \in Threads \ {t} : pc[u] = "idle"
      BY NotLive DEF Lifetime
    <2>2. Held' = 0
      BY <2>1 DEF Held, References
    <2>3. TypeOK'
      BY DEF TypeOK, Places
    <2>4. MutexHeld' /\ HolderHasReference' /\ LastIsAlone'
      BY <2>1 DEF MutexHeld, HolderHasReference, LastIsAlone, Locked, Last, TypeOK
    <2>5. Lifetime' /\ CountsReferences'
      BY <2>1, <2>2 DEF Lifetime, CountsReferences, TypeOK
    <2>. QED
      BY <2>3, <2>4, <2>5
  <1>. QED
    BY <1>1, <1>2, <1>3

\* A thread with a reference finds the object live.
LEMMA HasReference ==
  ASSUME RefInv, NEW t \in Threads, refs[t] > 0
  PROVE  foo = "live" /\ Held \in Nat \ {0} /\ f_count = Held + Owed /\ f_count > 0
  <1>1. Held \in Nat /\ Held # 0
    BY CountsAreNumbers, NoneHeld, RefAssumption DEF RefInv, TypeOK
  <1>2. foo = "live"
    BY <1>1 DEF RefInv, Lifetime
  <1>. QED
    BY <1>1, <1>2, NoneOwed DEF RefInv, CountsReferences

\* The clients.
LEMMA ClientSteps ==
  ASSUME RefInv, NEW t \in Threads,
         CallHold(t) \/ CallRele(t) \/ \E u \in Threads : Pass(t, u)
  PROVE  RefInv'
  <1>. USE RefAssumption DEF RefInv, Goto
  <1>0. foo = "live" /\ Held \in Nat \ {0} /\ f_count = Held + Owed
    BY HasReference DEF CallHold, CallRele, Pass, TypeOK
  <1>1. CASE CallHold(t)
    <2>. USE <1>1 DEF CallHold
    <2>1. Held' = Held
      BY DEF Held, References
    <2>2. Owed' = Owed
      BY OwedMoves DEF TypeOK, Owing
    <2>3. TypeOK'
      BY DEF TypeOK, Places
    <2>4. MutexHeld' /\ HolderHasReference' /\ LastIsAlone'
      BY DEF MutexHeld, HolderHasReference, LastIsAlone, Locked, Last, TypeOK
    <2>5. Lifetime' /\ CountsReferences'
      BY <1>0, <2>1, <2>2 DEF Lifetime, CountsReferences, TypeOK
    <2>. QED
      BY <2>3, <2>4, <2>5
  <1>2. CASE CallRele(t)
    <2>. USE <1>2 DEF CallRele
    <2>1. Held' = Held - 1
      BY OneReferenceLess DEF TypeOK
    <2>2. Owed' = Owed + 1 /\ Owed \in Nat
      BY OwedMoves DEF TypeOK, Owing
    <2>3. TypeOK'
      BY DEF TypeOK, Places
    <2>4. MutexHeld' /\ HolderHasReference' /\ LastIsAlone'
      BY DEF MutexHeld, HolderHasReference, LastIsAlone, Locked, Last, TypeOK
    <2>5. Lifetime' /\ CountsReferences'
      BY <1>0, <2>1, <2>2 DEF Lifetime, CountsReferences, TypeOK
    <2>. QED
      BY <2>3, <2>4, <2>5
  <1>3. ASSUME NEW u \in Threads, Pass(t, u)
        PROVE  RefInv'
    <2>. USE <1>3 DEF Pass
    <2>1. Held' = Held
      BY PassedReference DEF TypeOK
    <2>2. Owed' = Owed
      BY DEF Owed, At
    <2>3. TypeOK'
      BY DEF TypeOK
    <2>4. MutexHeld' /\ HolderHasReference' /\ LastIsAlone'
      BY DEF MutexHeld, HolderHasReference, LastIsAlone, TypeOK
    <2>5. Lifetime' /\ CountsReferences'
      BY <1>0, <2>1, <2>2 DEF Lifetime, CountsReferences
    <2>. QED
      BY <2>3, <2>4, <2>5
  <1>. QED
    BY <1>1, <1>2, <1>3

\* Inside foo_hold and foo_rele up to the change of the count.
LEMMA LockAndRead ==
  ASSUME RefInv, NEW t \in Threads, Lock(t) \/ Read(t)
  PROVE  RefInv'
  <1>. USE RefAssumption DEF RefInv, Goto
  <1>1. Held' = Held /\ foo = "live"
    BY DEF Held, References, Lock, Read, Lifetime
  <1>2. CASE Lock(t)
    <2>. USE <1>2 DEF Lock
    <2>1. Owed' = Owed
      BY OwedMoves DEF TypeOK, Owing
    <2>2. TypeOK'
      BY DEF TypeOK, Places
    <2>3. MutexHeld' /\ HolderHasReference' /\ LastIsAlone'
      BY DEF MutexHeld, HolderHasReference, LastIsAlone, Locked, Last, TypeOK
    <2>4. Lifetime' /\ CountsReferences'
      BY <1>1, <2>1 DEF Lifetime, CountsReferences, TypeOK
    <2>. QED
      BY <2>2, <2>3, <2>4
  <1>3. CASE Read(t)
    <2>. USE <1>3 DEF Read
    <2>1. Owed' = Owed
      BY OwedMoves DEF TypeOK, Owing
    <2>2. TypeOK'
      BY DEF TypeOK, Places
    <2>3. MutexHeld' /\ HolderHasReference' /\ LastIsAlone'
      BY DEF MutexHeld, HolderHasReference, LastIsAlone, Locked, Last, TypeOK
    <2>4. Lifetime' /\ CountsReferences'
      BY <1>1, <2>1 DEF Lifetime, CountsReferences, TypeOK
    <2>. QED
      BY <2>2, <2>3, <2>4
  <1>. QED
    BY <1>2, <1>3

\* The rest of foo_hold: ++f_count and unlock.
LEMMA HoldSteps ==
  ASSUME RefInv, NEW t \in Threads, HoldWrite(t) \/ HoldUnlock(t)
  PROVE  RefInv'
  <1>. USE RefAssumption DEF RefInv, Goto
  <1>0. foo = "live" /\ f_count = Held + Owed /\ Held \in Nat /\ Owed \in Nat
    BY CountsAreNumbers, NoneOwed DEF HoldWrite, HoldUnlock, Lifetime, CountsReferences
  <1>1. CASE HoldWrite(t)
    <2>. USE <1>1 DEF HoldWrite
    <2>1. refs[t] > 0 /\ f_count > 0
      BY HasReference DEF HolderHasReference
    <2>2. Held' = Held
      BY DEF Held, References
    <2>3. Owed' = Owed + 1
      BY OwedMoves DEF TypeOK, Owing
    <2>4. TypeOK'
      BY DEF TypeOK, Places
    <2>5. f_count' = f_count + 1 /\ f_lock = t
      BY DEF MutexHeld, Locked
    <2>6. MutexHeld' /\ HolderHasReference'
      BY <2>5 DEF MutexHeld, HolderHasReference, Locked, TypeOK
    <2>7. LastIsAlone'
      BY <2>1, <2>5 DEF LastIsAlone, Last, TypeOK
    <2>8. Lifetime' /\ CountsReferences'
      BY <1>0, <2>2, <2>3, <2>5 DEF Lifetime, CountsReferences, TypeOK
    <2>. QED
      BY <2>4, <2>6, <2>7, <2>8
  <1>2. CASE HoldUnlock(t)
    <2>. USE <1>2 DEF HoldUnlock
    <2>1. Held' = Held + 1
      BY OneMoreReference DEF HolderHasReference, TypeOK
    <2>2. Owed' = Owed - 1
      BY OwedMoves DEF TypeOK, Owing
    <2>3. TypeOK'
      BY DEF TypeOK, Places, HolderHasReference
    <2>4. MutexHeld' /\ HolderHasReference' /\ LastIsAlone'
      BY DEF MutexHeld, HolderHasReference, LastIsAlone, Locked, Last, TypeOK
    <2>5. Lifetime' /\ CountsReferences'
      BY <1>0, <2>1, <2>2 DEF Lifetime, CountsReferences, TypeOK
    <2>. QED
      BY <2>3, <2>4, <2>5
  <1>. QED
    BY <1>1, <1>2

\* The rest of foo_rele up to the unlock, for the last reference and the others.
LEMMA ReleSteps ==
  ASSUME RefInv, NEW t \in Threads, ReleWrite(t) \/ ReleUnlock(t) \/ LastUnlock(t)
  PROVE  RefInv'
  <1>. USE RefAssumption DEF RefInv, Goto
  <1>0. foo = "live" /\ f_count = Held + Owed /\ Held \in Nat /\ Owed \in Nat
    BY CountsAreNumbers, NoneOwed
    DEF ReleWrite, ReleUnlock, LastUnlock, Lifetime, CountsReferences
  <1>1. Held' = Held
    BY DEF Held, References, ReleWrite, ReleUnlock, LastUnlock
  <1>2. CASE ReleWrite(t)
    <2>. USE <1>2 DEF ReleWrite
    <2>1. f_count > 0
      BY <1>0, NoneOwed DEF Owing
    <2>2. Owed' = Owed - 1
      BY OwedMoves DEF TypeOK, Owing
    <2>3. tmp[t] = f_count /\ f_count' = f_count - 1 /\ f_lock = t
      BY DEF MutexHeld, Locked
    <2>4. TypeOK'
      BY <2>1, <2>3 DEF TypeOK, Places
    <2>5. MutexHeld' /\ HolderHasReference'
      BY <2>3 DEF MutexHeld, HolderHasReference, Locked, TypeOK
    <2>6. LastIsAlone'
      BY <1>0, <2>1, <2>3 DEF LastIsAlone, Last, TypeOK, MutexHeld, Locked, Lifetime
    <2>7. Lifetime' /\ CountsReferences'
      BY <1>0, <1>1, <2>2, <2>3 DEF Lifetime, CountsReferences, TypeOK
    <2>. QED
      BY <2>4, <2>5, <2>6, <2>7
  <1>3. CASE ReleUnlock(t) \/ LastUnlock(t)
    <2>. USE <1>3 DEF ReleUnlock, LastUnlock
    <2>1. Owed' = Owed
      BY OwedMoves DEF TypeOK, Owing
    <2>2. TypeOK'
      BY DEF TypeOK, Places
    <2>3. MutexHeld' /\ HolderHasReference' /\ LastIsAlone'
      BY DEF MutexHeld, HolderHasReference, LastIsAlone, Locked, Last, TypeOK
    <2>4. Lifetime' /\ CountsReferences'
      BY <1>0, <1>1, <2>1 DEF Lifetime, CountsReferences, TypeOK
    <2>. QED
      BY <2>2, <2>3, <2>4
  <1>. QED
    BY <1>2, <1>3

\* The end of the object.
LEMMA FreeSteps ==
  ASSUME RefInv, NEW t \in Threads, Destroy(t) \/ Free(t)
  PROVE  RefInv'
  <1>. USE RefAssumption DEF RefInv, Goto
  <1>1. Held = 0 /\ \A u \in Threads \ {t} : pc[u] = "idle"
    <2>1. CASE Destroy(t)
      <3>1. foo = "live" /\ f_count = 0
        BY <2>1 DEF Destroy, Lifetime, LastIsAlone
      <3>2. Held = 0 /\ Owed = 0
        BY <3>1, CountsAreNumbers, NoneOwed DEF CountsReferences
      <3>3. \A u \in Threads : refs[u] = 0 /\ pc[u] \notin Owing
        BY <3>2, NoneHeld, NoneOwed DEF TypeOK
      <3>. QED
        BY <2>1, <3>1, <3>2, <3>3
        DEF Destroy, Owing, HolderHasReference, LastIsAlone, Last, Lifetime, TypeOK, Places
    <2>2. CASE Free(t)
      BY <2>2, NotLive DEF Free, Lifetime
    <2>. QED
      BY <2>1, <2>2
  <1>2. Held' = 0
    BY <1>1 DEF Destroy, Free, Held, References
  <1>3. TypeOK'
    BY DEF Destroy, Free, TypeOK, Places
  <1>4. MutexHeld' /\ HolderHasReference' /\ LastIsAlone'
    BY <1>1 DEF Destroy, Free, MutexHeld, HolderHasReference, LastIsAlone, Locked, Last, TypeOK
  <1>5. Lifetime' /\ CountsReferences'
    BY <1>1, <1>2 DEF Destroy, Free, Lifetime, CountsReferences, TypeOK
  <1>. QED
    BY <1>3, <1>4, <1>5

LEMMA RefInvHolds == Spec => []RefInv
  <1>1. Init => RefInv
    <2>. SUFFICES ASSUME Init PROVE RefInv
      OBVIOUS
    <2>1. TypeOK
      BY RefAssumption DEF Init, TypeOK, Places
    <2>2. Held = 0
      BY <2>1, NoneHeld DEF Init, TypeOK
    <2>. QED
      BY <2>1, <2>2, RefAssumption DEF Init, RefInv, MutexHeld, HolderHasReference, Lifetime,
         LastIsAlone, CountsReferences, Locked, Last
  <1>2. RefInv /\ [Next]_vars => RefInv'
    <2>. SUFFICES ASSUME RefInv, [Next]_vars PROVE RefInv'
      OBVIOUS
    <2>1. CASE Next
      BY <2>1, AllocSteps, ClientSteps, LockAndRead, HoldSteps, ReleSteps, FreeSteps
      DEF Next, InCall
    <2>2. CASE UNCHANGED vars
      BY <2>2 DEF vars, RefInv, TypeOK, MutexHeld, HolderHasReference, Lifetime, LastIsAlone,
         CountsReferences, Held, References, Owed, At
    <2>. QED
      BY <2>1, <2>2
  <1>. QED
    BY <1>1, <1>2, PTL DEF Spec

\* f_count is exact at every statement, for any number of threads and
\* references.
THEOREM CountIsExact == Spec => []CountsReferences
  <1>1. RefInv => CountsReferences
    BY DEF RefInv
  <1>. QED
    BY <1>1, RefInvHolds, PTL

\* Nothing is done with a foo that was destroyed or freed.
THEOREM FooIsNotUsedAfterFree == Spec => []NoUseAfterFree
  <1>1. RefInv => NoUseAfterFree
    <2>. SUFFICES ASSUME RefInv PROVE NoUseAfterFree
      OBVIOUS
    <2>1. At(Places \ {"idle", "init", "free"}) # {} => foo = "live"
      BY DEF RefInv, Lifetime, At
    <2>2. foo \in {"destroyed", "freed"} => Held = 0
      BY DEF RefInv, Lifetime
    <2>3. Cardinality(At({"last_unlock", "destroy", "free"})) <= 1
      <3>1. \A t, u \in At({"last_unlock", "destroy", "free"}) : t = u
        BY DEF RefInv, LastIsAlone, Last, At
      <3>. QED
        BY <3>1, AtMostOne
    <2>. QED
      BY <2>1, <2>2, <2>3 DEF NoUseAfterFree
  <1>. QED
    BY <1>1, RefInvHolds, PTL

=============================================================================
