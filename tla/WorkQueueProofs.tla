--------------------------- MODULE WorkQueueProofs ---------------------------
(***************************************************************************)
(* Proofs about WorkQueue, for any number of consumers, addresses and      *)
(* messages.  Everything rests on one inductive invariant, Inv: the        *)
(* invariants the runs check do not hold by themselves.                    *)
(***************************************************************************)
EXTENDS WorkQueue, SequenceTheorems, TLAPS

\* What main has prepared between its malloc and its signal.
MainPrepared ==
  /\ pc[main] \in {"lock", "link", "push", "unlock", "signal"} => loop < N
  /\ pc[main] \in {"lock", "link", "push"} => data[mp[main]] = loop
  /\ pc[main] = "push" => m_next[mp[main]] = workq

\* Messages on their way were put and differ from each other.
DataDiffers ==
  /\ \A a \in InFlight : data[a] < Put
  /\ \A a, b \in InFlight : data[a] = data[b] => a = b

Inv ==
  /\ TypeOK
  /\ MutualExclusion
  /\ ListIsLinked
  /\ PointersValid
  /\ MainPrepared
  /\ DataDiffers
  /\ NothingLostOrRepeated

-----------------------------------------------------------------------------
(***************************************************************************)
(* Facts used by several actions.                                          *)
(***************************************************************************)
\* The shared data of the queue, the mutex and the program counters aside.
queueVars == <<workq, m_next, data, heap, mp, printed, list>>

\* A step that changes no queue data and leaves Put, the holders and what the
\* threads are about to follow as they are.
Quiet ==
  /\ UNCHANGED queueVars
  /\ Put' = Put
  /\ Holders' = Holders
  /\ \A t \in Consumers : pc'[t] = "take" => list # << >>
  /\ \A t \in Consumers : pc'[t] = "advance" => pc[t] = "advance"
  /\ pc'[main] \in {"lock", "link", "push"} => pc[main] \in {"lock", "link", "push"}

\* A step after which a client sees the queue as it was before.
SameView ==
  /\ list' = list /\ printed' = printed
  /\ Put' = Put
  /\ Holders' = Holders
  /\ \A t \in Holders : mp'[t] = mp[t]
  /\ \A a \in InFlight : data'[a] = data[a]

\* A quiet step keeps everything that is said about the queue.
LEMMA QuietStep ==
  ASSUME Inv, Quiet
  PROVE  ListIsLinked' /\ PointersValid' /\ DataDiffers' /\ NothingLostOrRepeated'
  <1>1. Listed' = Listed
    BY DEF Quiet, queueVars, Listed
  <1>2. ListIsLinked'
    BY DEF Inv, ListIsLinked, queueVars, Quiet
  <1>3. PointersValid'
    BY <1>1 DEF Inv, PointersValid, queueVars, Quiet
  <1>4. InFlight' = InFlight
    BY <1>1 DEF InFlight, queueVars, Quiet
  <1>5. DataDiffers'
    BY <1>4 DEF Inv, DataDiffers, queueVars, Quiet
  <1>6. NothingLostOrRepeated'
    BY <1>4 DEF Inv, NothingLostOrRepeated, queueVars, Quiet
  <1>. QED
    BY <1>2, <1>3, <1>5, <1>6

\* A sequence without its first element.
LEMMA SeqTail ==
  ASSUME NEW S, NEW s \in Seq(S), s # << >>
  PROVE  /\ Tail(s) \in Seq(S)
         /\ Len(s) \in Nat \ {0}
         /\ Len(Tail(s)) = Len(s) - 1
         /\ \A k \in 1 .. (Len(s) - 1) : Tail(s)[k] = s[k + 1]
         /\ \A k \in 1 .. Len(s) : s[k] \in S
  BY EmptySeq, LenProperties, HeadTailProperties, ElementOfSeq

\* A sequence with a new element in front.
LEMMA SeqPush ==
  ASSUME NEW S, NEW s \in Seq(S), NEW a \in S
  PROVE  /\ <<a>> \o s \in Seq(S)
         /\ Len(s) \in Nat
         /\ Len(<<a>> \o s) = Len(s) + 1
         /\ (<<a>> \o s)[1] = a
         /\ \A k \in 2 .. (Len(s) + 1) : (<<a>> \o s)[k] = s[k - 1]
  BY LenProperties

-----------------------------------------------------------------------------
(***************************************************************************)
(* Actions that touch the mutex and the program counters only.             *)
(***************************************************************************)

\* pthread_mutex_lock.
LEMMA LockStep ==
  ASSUME Inv, NEW t \in Threads, Lock(t)
  PROVE  Inv' /\ Quiet
  <1>. USE QueueAssumption DEF Lock, Goto
  <1>1. TypeOK'
    BY DEF Inv, TypeOK, ConsumerPlaces, MainPlaces, Threads, MainPrepared
  <1>2. MutualExclusion'
    BY DEF Inv, TypeOK, ConsumerPlaces, MainPlaces, Threads, MutualExclusion, InSection
  <1>3. Quiet
    BY DEF Inv, TypeOK, ConsumerPlaces, MainPlaces, Threads, Quiet, queueVars, Put, Holders, PointersValid, ListIsLinked
  <1>4. MainPrepared'
    BY DEF Inv, TypeOK, ConsumerPlaces, MainPlaces, Threads, MainPrepared
  <1>. QED
    BY <1>1, <1>2, <1>3, <1>4, QuietStep DEF Inv

\* pthread_mutex_unlock.
LEMMA UnlockStep ==
  ASSUME Inv, NEW t \in Threads, Unlock(t)
  PROVE  Inv' /\ Quiet
  <1>. USE QueueAssumption DEF Unlock, Goto
  <1>1. TypeOK'
    BY DEF Inv, TypeOK, ConsumerPlaces, MainPlaces, Threads, MainPrepared
  <1>2. MutualExclusion'
    BY DEF Inv, TypeOK, ConsumerPlaces, MainPlaces, Threads, MutualExclusion, InSection
  <1>3. Quiet
    BY DEF Inv, TypeOK, ConsumerPlaces, MainPlaces, Threads, Quiet, queueVars, Put, Holders, PointersValid, ListIsLinked
  <1>4. MainPrepared'
    BY DEF Inv, TypeOK, ConsumerPlaces, MainPlaces, Threads, MainPrepared
  <1>. QED
    BY <1>1, <1>2, <1>3, <1>4, QuietStep DEF Inv

\* The while of process_msg finds a message: the list is not empty.
LEMMA CheckStep ==
  ASSUME Inv, NEW t \in Consumers, Check(t)
  PROVE  Inv' /\ Quiet
  <1>. USE QueueAssumption DEF Check, Goto
  <1>1. TypeOK'
    BY DEF Inv, TypeOK, ConsumerPlaces, MainPlaces, Threads, MainPrepared
  <1>2. MutualExclusion'
    BY DEF Inv, TypeOK, ConsumerPlaces, MainPlaces, Threads, MutualExclusion, InSection
  <1>3. Quiet
    BY DEF Inv, TypeOK, ConsumerPlaces, MainPlaces, Threads, Quiet, queueVars, Put, Holders, PointersValid, ListIsLinked
  <1>4. MainPrepared'
    BY DEF Inv, TypeOK, ConsumerPlaces, MainPlaces, Threads, MainPrepared
  <1>. QED
    BY <1>1, <1>2, <1>3, <1>4, QuietStep DEF Inv

\* pthread_cond_wait gives the mutex back.
LEMMA WaitStep ==
  ASSUME Inv, NEW t \in Consumers, Wait(t)
  PROVE  Inv' /\ Quiet
  <1>. USE QueueAssumption DEF Wait, Goto
  <1>1. TypeOK'
    BY DEF Inv, TypeOK, ConsumerPlaces, MainPlaces, Threads, MainPrepared
  <1>2. MutualExclusion'
    BY DEF Inv, TypeOK, ConsumerPlaces, MainPlaces, Threads, MutualExclusion, InSection
  <1>3. Quiet
    BY DEF Inv, TypeOK, ConsumerPlaces, MainPlaces, Threads, Quiet, queueVars, Put, Holders, PointersValid, ListIsLinked
  <1>4. MainPrepared'
    BY DEF Inv, TypeOK, ConsumerPlaces, MainPlaces, Threads, MainPrepared
  <1>. QED
    BY <1>1, <1>2, <1>3, <1>4, QuietStep DEF Inv

\* A wakeup without a signal.
LEMMA SpuriousWakeupStep ==
  ASSUME Inv, NEW t \in Consumers, SpuriousWakeup(t)
  PROVE  Inv' /\ Quiet
  <1>. USE QueueAssumption DEF SpuriousWakeup, Goto
  <1>1. TypeOK'
    BY DEF Inv, TypeOK, ConsumerPlaces, MainPlaces, Threads, MainPrepared
  <1>2. MutualExclusion'
    BY DEF Inv, TypeOK, ConsumerPlaces, MainPlaces, Threads, MutualExclusion, InSection
  <1>3. Quiet
    BY DEF Inv, TypeOK, ConsumerPlaces, MainPlaces, Threads, Quiet, queueVars, Put, Holders, PointersValid, ListIsLinked
  <1>4. MainPrepared'
    BY DEF Inv, TypeOK, ConsumerPlaces, MainPlaces, Threads, MainPrepared
  <1>. QED
    BY <1>1, <1>2, <1>3, <1>4, QuietStep DEF Inv

\* A woken thread gets the mutex again.
LEMMA RelockStep ==
  ASSUME Inv, NEW t \in Consumers, Relock(t)
  PROVE  Inv' /\ Quiet
  <1>. USE QueueAssumption DEF Relock, Goto
  <1>1. TypeOK'
    BY DEF Inv, TypeOK, ConsumerPlaces, MainPlaces, Threads, MainPrepared
  <1>2. MutualExclusion'
    BY DEF Inv, TypeOK, ConsumerPlaces, MainPlaces, Threads, MutualExclusion, InSection
  <1>3. Quiet
    BY DEF Inv, TypeOK, ConsumerPlaces, MainPlaces, Threads, Quiet, queueVars, Put, Holders, PointersValid, ListIsLinked
  <1>4. MainPrepared'
    BY DEF Inv, TypeOK, ConsumerPlaces, MainPlaces, Threads, MainPrepared
  <1>. QED
    BY <1>1, <1>2, <1>3, <1>4, QuietStep DEF Inv

\* pthread_cond_signal, and main's counter.
LEMMA SignalStep ==
  ASSUME Inv, Signal
  PROVE  Inv' /\ Quiet
  <1>. USE QueueAssumption DEF Signal, Goto
  <1>1. loop < N /\ loop' \in 0 .. N
    BY DEF Inv, TypeOK, MainPrepared
  <1>2. /\ pc' \in [Threads -> ConsumerPlaces \cup MainPlaces]
        /\ pc'[main] = "malloc"
        /\ \A t \in Consumers :
             pc'[t] = pc[t] \/ (pc[t] = "wait" /\ pc'[t] = "relock")
    <2>1. CASE Goto(main, "malloc")
      BY <2>1 DEF Inv, TypeOK, ConsumerPlaces, MainPlaces, Threads
    <2>2. CASE \E t \in Consumers : /\ pc[t] = "wait"
                                    /\ pc' = [pc EXCEPT ![t] = "relock", ![main] = "malloc"]
      BY <2>2 DEF Inv, TypeOK, ConsumerPlaces, MainPlaces, Threads
    <2>. QED
      BY <2>1, <2>2
  <1>3. TypeOK'
    BY <1>1, <1>2 DEF Inv, TypeOK, ConsumerPlaces, MainPlaces
  <1>4. MutualExclusion'
    BY <1>2 DEF Inv, TypeOK, ConsumerPlaces, MainPlaces, Threads, MutualExclusion, InSection
  <1>5. Quiet
    <2>1. Put' = Put
      BY <1>2 DEF Put
    <2>2. Holders' = Holders
      BY <1>2 DEF Holders
    <2>. QED
      BY <1>2, <2>1, <2>2 DEF Inv, PointersValid, Quiet, queueVars
  <1>6. MainPrepared'
    BY <1>2 DEF MainPrepared
  <1>. QED
    BY <1>3, <1>4, <1>5, <1>6, QuietStep DEF Inv

\* main has enqueued everything.
LEMMA JoinStep ==
  ASSUME Inv, Join
  PROVE  Inv' /\ Quiet
  <1>. USE QueueAssumption DEF Join, Goto
  <1>1. TypeOK'
    BY DEF Inv, TypeOK, ConsumerPlaces, MainPlaces, Threads, MainPrepared
  <1>2. MutualExclusion'
    BY DEF Inv, TypeOK, ConsumerPlaces, MainPlaces, Threads, MutualExclusion, InSection
  <1>3. Quiet
    BY DEF Inv, TypeOK, ConsumerPlaces, MainPlaces, Threads, Quiet, queueVars, Put, Holders, PointersValid, ListIsLinked
  <1>4. MainPrepared'
    BY DEF Inv, TypeOK, ConsumerPlaces, MainPlaces, Threads, MainPrepared
  <1>. QED
    BY <1>1, <1>2, <1>3, <1>4, QuietStep DEF Inv

-----------------------------------------------------------------------------
(***************************************************************************)
(* Actions that change the queue.                                          *)
(***************************************************************************)
\* mp = workq: what is taken is the first of the list.
LEMMA TakeHeadStep ==
  ASSUME Inv, NEW t \in Consumers, TakeHead(t)
  PROVE  Inv' /\ SameView
  <1>. USE QueueAssumption DEF TakeHead, Goto
  <1>1. TypeOK'
    BY DEF Inv, TypeOK, ConsumerPlaces, MainPlaces, Threads
  <1>2. MutualExclusion'
    BY DEF Inv, TypeOK, ConsumerPlaces, MainPlaces, Threads, MutualExclusion, InSection
  <1>3. /\ Put' = Put
        /\ Holders' = Holders
        /\ \A u \in Holders : mp'[u] = mp[u]
        /\ mp'[main] = mp[main]
        /\ Listed' = Listed
    BY DEF Inv, TypeOK, ConsumerPlaces, MainPlaces, Threads, Put, Holders, Listed
  <1>4. InFlight' = InFlight
    BY <1>3 DEF InFlight
  <1>5. ListIsLinked'
    BY DEF Inv, ListIsLinked
  <1>6. PointersValid'
    <2>1. \A u \in Consumers : pc'[u] = "take" => list # << >>
      BY DEF Inv, TypeOK, Threads, PointersValid
    <2>2. \A u \in Consumers : pc'[u] = "advance" => list # << >> /\ mp'[u] = list[1]
      BY DEF Inv, TypeOK, Threads, PointersValid, ListIsLinked
    <2>3. pc'[main] = pc[main]
      BY DEF Inv, TypeOK, Threads
    <2>. QED
      BY <1>3, <2>1, <2>2, <2>3 DEF Inv, PointersValid
  <1>7. MainPrepared'
    BY <1>3 DEF Inv, TypeOK, Threads, MainPrepared
  <1>8. DataDiffers' /\ NothingLostOrRepeated'
    BY <1>3, <1>4 DEF Inv, DataDiffers, NothingLostOrRepeated
  <1>9. SameView
    BY <1>3 DEF SameView
  <1>. QED
    BY <1>1, <1>2, <1>5, <1>6, <1>7, <1>8, <1>9 DEF Inv

\* workq = mp->m_next: the first msg leaves the list and belongs to t alone;
\* the messages in flight are the same as before.
LEMMA AdvanceStep ==
  ASSUME Inv, NEW t \in Consumers, Advance(t)
  PROVE  Inv'
  <1>. USE QueueAssumption DEF Advance, Goto
  <1>1. /\ list \in Seq(Addr) /\ list # << >>
        /\ mp[t] = list[1] /\ mp[t] \in Addr
    BY SeqTail DEF Inv, TypeOK, PointersValid
  <1>2. /\ list' \in Seq(Addr)
        /\ Len(list) \in Nat \ {0}
        /\ Len(list') = Len(list) - 1
        /\ \A k \in 1 .. (Len(list) - 1) : list'[k] = list[k + 1]
    BY <1>1, SeqTail
  <1>3. TypeOK'
    BY <1>1, <1>2 DEF Inv, TypeOK, ConsumerPlaces, MainPlaces, Threads
  <1>4. MutualExclusion'
    BY DEF Inv, TypeOK, ConsumerPlaces, MainPlaces, Threads, MutualExclusion, InSection
  <1>5. ListIsLinked'
    <2>1. workq' = IF list' = << >> THEN NULL ELSE list'[1]
      <3>1. CASE Len(list) = 1
        <4>1. list' = << >>
          BY <3>1, <1>2, EmptySeq
        <4>. QED
          BY <3>1, <4>1, <1>1 DEF Inv, ListIsLinked
      <3>2. CASE Len(list) > 1
        <4>1. list' # << >>
          <5>1. Len(list') # 0
            BY <3>2, <1>2
          <5>. HIDE DEF Advance
          <5>. QED
            BY <5>1
        <4>2. 1 \in 1 .. (Len(list) - 1) /\ list'[1] = list[1 + 1]
          BY <3>2, <1>2
        <4>. QED
          BY <3>2, <4>1, <4>2, <1>1, <1>2 DEF Inv, ListIsLinked
      <3>. QED
        BY <3>1, <3>2, <1>2
    <2>2. \A i \in 1 .. Len(list') :
            m_next'[list'[i]] = IF i < Len(list') THEN list'[i + 1] ELSE NULL
      BY <1>2 DEF Inv, ListIsLinked
    <2>3. \A i, j \in 1 .. Len(list') : list'[i] = list'[j] => i = j
      BY <1>2 DEF Inv, ListIsLinked
    <2>. QED
      BY <2>1, <2>2, <2>3 DEF ListIsLinked
  <1>6. /\ Put' = Put
        /\ Holders' = Holders \cup {t} /\ t \notin Holders
        /\ pc'[main] = pc[main] /\ pc[main] \notin {"link", "push"}
    BY DEF Inv, TypeOK, ConsumerPlaces, MainPlaces, Threads, Put, Holders,
           MutualExclusion, InSection
  <1>7. Listed = Listed' \cup {mp[t]} /\ mp[t] \notin Listed'
    <2>1. Listed' \subseteq Listed
      BY <1>2 DEF Listed
    <2>2. \A k \in 1 .. Len(list) : k = 1 \/ list[k] \in Listed'
      <3>1. \A k \in 2 .. Len(list) : k - 1 \in 1 .. Len(list') /\ list'[k - 1] = list[k]
        BY <1>2
      <3>. QED
        BY <3>1, <1>2 DEF Listed
    <2>3. mp[t] \in Listed
      BY <1>1, <1>2 DEF Listed
    <2>4. mp[t] \notin Listed'
      BY <1>1, <1>2 DEF Listed, Inv, ListIsLinked
    <2>. QED
      BY <1>1, <2>1, <2>2, <2>3, <2>4 DEF Listed
  <1>8. InFlight' = InFlight
    BY <1>6, <1>7 DEF InFlight
  <1>9. PointersValid'
    <2>1. \A u \in Consumers : pc'[u] \notin {"take", "advance"}
      BY DEF Inv, TypeOK, ConsumerPlaces, MainPlaces, Threads, MutualExclusion, InSection
    <2>2. \A u \in Holders : mp[u] \in heap \ Listed
      BY DEF Inv, PointersValid
    <2>3. \A u \in Holders' : mp'[u] \in heap' \ Listed'
      BY <1>6, <1>7, <2>2 DEF Inv, PointersValid
    <2>4. \A u, v \in Holders' : mp'[u] = mp'[v] => u = v
      BY <1>6, <1>7, <2>2 DEF Inv, PointersValid
    <2>5. pc'[main] \in {"lock", "link", "push"} =>
            mp'[main] \in heap' \ (Listed' \cup {mp'[u] : u \in Holders'})
      BY <1>6, <1>7 DEF Inv, PointersValid
    <2>6. Listed' \subseteq heap'
      BY <1>7 DEF Inv, PointersValid
    <2>. QED
      BY <2>1, <2>3, <2>4, <2>5, <2>6 DEF PointersValid
  <1>10. MainPrepared'
    BY <1>6 DEF Inv, MainPrepared
  <1>11. DataDiffers' /\ NothingLostOrRepeated'
    BY <1>6, <1>8 DEF Inv, DataDiffers, NothingLostOrRepeated
  <1>. QED
    BY <1>3, <1>4, <1>5, <1>9, <1>10, <1>11 DEF Inv

\* printf and free: the message counts as printed and is no longer in flight.
LEMMA PrintAndFreeStep ==
  ASSUME Inv, NEW t \in Consumers, PrintAndFree(t)
  PROVE  Inv'
  <1>. USE QueueAssumption DEF PrintAndFree, Goto
  <1>1. TypeOK'
    <2>1. printed' \in [Messages -> Nat]
      <3>1. \A m \in Messages : printed[m] + 1 \in Nat
        BY DEF Inv, TypeOK
      <3>. QED
        BY <3>1 DEF Inv, TypeOK
    <2>. QED
      BY <2>1 DEF Inv, TypeOK, ConsumerPlaces, MainPlaces, Threads
  <1>2. MutualExclusion'
    BY DEF Inv, TypeOK, ConsumerPlaces, MainPlaces, Threads, MutualExclusion, InSection
  <1>3. /\ t \in Holders
        /\ Holders' = Holders \ {t}
        /\ Put' = Put
        /\ pc'[main] = pc[main]
        /\ Listed' = Listed
    BY DEF Inv, TypeOK, ConsumerPlaces, MainPlaces, Threads, Put, Holders, Listed
  <1>4. mp[t] \notin Listed /\ \A u \in Holders \ {t} : mp[u] # mp[t]
    BY <1>3 DEF Inv, PointersValid
  <1>5. InFlight' = InFlight \ {mp[t]} /\ mp[t] \in InFlight
    BY <1>3, <1>4 DEF InFlight
  <1>6. ListIsLinked'
    BY DEF Inv, ListIsLinked
  <1>7. PointersValid'
    <2>1. Listed' \subseteq heap'
      BY <1>3, <1>4 DEF Inv, PointersValid
    <2>2. \A u \in Consumers : pc'[u] = "take" => list' # << >>
      BY DEF Inv, TypeOK, Threads, PointersValid
    <2>3. \A u \in Consumers : pc'[u] = "advance" => list' # << >> /\ mp'[u] = list'[1]
      BY DEF Inv, TypeOK, Threads, PointersValid
    <2>4. \A u \in Holders' : mp'[u] \in heap' \ Listed'
      BY <1>3, <1>4 DEF Inv, PointersValid
    <2>5. \A u, v \in Holders' : mp'[u] = mp'[v] => u = v
      BY <1>3 DEF Inv, PointersValid
    <2>6. pc'[main] \in {"lock", "link", "push"} =>
            mp'[main] \in heap' \ (Listed' \cup {mp'[u] : u \in Holders'})
      BY <1>3 DEF Inv, PointersValid
    <2>. HIDE DEF PrintAndFree
    <2>. QED
      BY <2>1, <2>2, <2>3, <2>4, <2>5, <2>6 DEF PointersValid
  <1>8. MainPrepared'
    BY <1>3 DEF Inv, MainPrepared
  <1>9. DataDiffers'
    BY <1>3, <1>5 DEF Inv, DataDiffers
  <1>10. NothingLostOrRepeated'
    <2>. DEFINE d == data[mp[t]]
    <2>1. mp[t] \in Addr /\ d \in Nat /\ d < Put
      BY <1>3, <1>5 DEF Inv, TypeOK, PointersValid, DataDiffers
    <2>2. Put <= N /\ Put \in Nat
      BY DEF Inv, TypeOK, MainPrepared, Put
    <2>3. d \in Messages
      BY <2>1, <2>2 DEF Messages
    <2>4. printed[d] = 0 /\ printed'[d] = 1
      BY <2>3, <1>5 DEF Inv, TypeOK, NothingLostOrRepeated
    <2>5. \A m \in Messages \ {d} : printed'[m] = printed[m]
      BY <2>3 DEF Inv, TypeOK
    <2>6. ~ \E a \in InFlight' : data[a] = d
      BY <1>5 DEF Inv, DataDiffers
    <2>7. \A m \in Messages \ {d} :
            (\E a \in InFlight' : data'[a] = m) <=> (\E a \in InFlight : data[a] = m)
      BY <1>5
    <2>. HIDE DEF d
    <2>. QED
      BY <1>3, <2>1, <2>3, <2>4, <2>5, <2>6, <2>7 DEF Inv, NothingLostOrRepeated
  <1>. QED
    BY <1>1, <1>2, <1>6, <1>7, <1>8, <1>9, <1>10 DEF Inv

\* malloc: an address that is not in use is in nobody's hands but main's.
LEMMA MallocStep ==
  ASSUME Inv, Malloc
  PROVE  Inv' /\ SameView
  <1>. USE QueueAssumption DEF Goto
  <1>1. PICK a \in Addr \ heap : /\ heap' = heap \cup {a}
                                /\ mp' = [mp EXCEPT ![main] = a]
                                /\ data' = [data EXCEPT ![a] = loop]
    BY DEF Malloc
  <1>2. /\ pc[main] = "malloc" /\ loop < N
        /\ pc' = [pc EXCEPT ![main] = "lock"]
        /\ UNCHANGED <<qlock, workq, m_next, loop, wakeups, printed, list>>
    BY DEF Malloc
  <1>3. TypeOK'
    BY <1>1, <1>2 DEF Inv, TypeOK, ConsumerPlaces, MainPlaces, Threads
  <1>4. MutualExclusion'
    BY <1>2 DEF Inv, TypeOK, ConsumerPlaces, MainPlaces, Threads, MutualExclusion, InSection
  <1>5. /\ Holders' = Holders
        /\ \A u \in Consumers : mp'[u] = mp[u] /\ pc'[u] = pc[u]
        /\ mp'[main] = a /\ pc'[main] = "lock"
        /\ Put' = Put
        /\ Listed' = Listed
    BY <1>1, <1>2 DEF Inv, TypeOK, ConsumerPlaces, MainPlaces, Threads, Put, Holders, Listed
  <1>6. InFlight' = InFlight /\ InFlight \subseteq heap
    BY <1>5 DEF InFlight, Inv, PointersValid, Holders
  <1>7. \A b \in InFlight : data'[b] = data[b]
    BY <1>1, <1>6 DEF Inv, TypeOK
  <1>8. ListIsLinked'
    BY <1>2 DEF Inv, ListIsLinked
  <1>9. PointersValid'
    <2>1. \A u \in Holders' : mp'[u] \in heap' \ Listed'
      BY <1>1, <1>5 DEF Inv, PointersValid, Holders
    <2>2. \A u, v \in Holders' : mp'[u] = mp'[v] => u = v
      BY <1>5 DEF Inv, PointersValid, Holders
    <2>3. mp'[main] \in heap' \ (Listed' \cup {mp'[u] : u \in Holders'})
      BY <1>1, <1>5, <1>6 DEF InFlight
    <2>. QED
      BY <1>1, <1>2, <1>5, <2>1, <2>2, <2>3 DEF Inv, PointersValid
  <1>10. MainPrepared'
    BY <1>1, <1>2, <1>5 DEF Inv, TypeOK, MainPrepared
  <1>11. DataDiffers' /\ NothingLostOrRepeated'
    BY <1>2, <1>5, <1>6, <1>7 DEF Inv, DataDiffers, NothingLostOrRepeated
  <1>12. SameView
    BY <1>2, <1>5, <1>7 DEF SameView, Holders
  <1>. QED
    BY <1>3, <1>4, <1>8, <1>9, <1>10, <1>11, <1>12 DEF Inv

\* mp->m_next = workq: the links of the list itself do not change.
LEMMA LinkStep ==
  ASSUME Inv, Link
  PROVE  Inv' /\ SameView
  <1>. USE QueueAssumption DEF Link, Goto
  <1>1. TypeOK'
    BY DEF Inv, TypeOK, ConsumerPlaces, MainPlaces, Threads
  <1>2. MutualExclusion'
    BY DEF Inv, TypeOK, ConsumerPlaces, MainPlaces, Threads, MutualExclusion, InSection
  <1>3. /\ Holders' = Holders
        /\ \A u \in Consumers : pc'[u] = pc[u]
        /\ pc'[main] = "push"
        /\ Put' = Put
        /\ Listed' = Listed
    BY DEF Inv, TypeOK, ConsumerPlaces, MainPlaces, Threads, Put, Holders, Listed
  <1>4. InFlight' = InFlight
    BY <1>3 DEF InFlight
  <1>5. mp[main] \in Addr /\ mp[main] \notin Listed
    BY DEF Inv, TypeOK, PointersValid
  <1>6. ListIsLinked'
    <2>1. \A k \in 1 .. Len(list) : m_next'[list[k]] = m_next[list[k]]
      BY <1>5, ElementOfSeq DEF Listed, Inv, TypeOK
    <2>. QED
      BY <2>1 DEF Inv, ListIsLinked
  <1>7. PointersValid'
    BY <1>3 DEF Inv, PointersValid
  <1>8. MainPrepared'
    BY <1>3, <1>5 DEF Inv, TypeOK, MainPrepared
  <1>9. DataDiffers' /\ NothingLostOrRepeated'
    BY <1>3, <1>4 DEF Inv, DataDiffers, NothingLostOrRepeated
  <1>10. SameView
    BY <1>3 DEF SameView
  <1>. QED
    BY <1>1, <1>2, <1>6, <1>7, <1>8, <1>9, <1>10 DEF Inv

\* workq = mp: the msg main owned becomes the first of the list.
LEMMA PushStep ==
  ASSUME Inv, Push
  PROVE  Inv'
  <1>. DEFINE a == mp[main]
  <1>. USE QueueAssumption DEF Push, Goto
  <1>1. /\ a \in Addr /\ a \in heap /\ a \notin Listed
        /\ \A u \in Holders : mp[u] # a
    BY DEF Inv, TypeOK, PointersValid
  <1>2. /\ list' \in Seq(Addr)
        /\ Len(list) \in Nat
        /\ Len(list') = Len(list) + 1
        /\ list'[1] = a
        /\ \A k \in 2 .. (Len(list) + 1) : list'[k] = list[k - 1]
    BY <1>1, SeqPush DEF Inv, TypeOK
  <1>3. TypeOK'
    BY <1>1, <1>2 DEF Inv, TypeOK, ConsumerPlaces, MainPlaces, Threads
  <1>4. MutualExclusion'
    BY DEF Inv, TypeOK, ConsumerPlaces, MainPlaces, Threads, MutualExclusion, InSection
  <1>5. /\ Holders' = Holders
        /\ \A u \in Consumers : pc'[u] = pc[u] /\ pc[u] \notin {"take", "advance"}
        /\ pc'[main] = "unlock"
        /\ Put = loop /\ Put' = loop + 1 /\ loop \in Nat /\ loop < N
        /\ data[a] = loop
    BY DEF Inv, TypeOK, ConsumerPlaces, MainPlaces, Threads, Put, Holders,
           MutualExclusion, InSection, MainPrepared
  <1>6. Listed' = Listed \cup {a}
    <2>1. \A k \in 1 .. Len(list) : k + 1 \in 1 .. Len(list') /\ list'[k + 1] = list[k]
      BY <1>2
    <2>2. Listed \subseteq Listed'
      BY <2>1 DEF Listed
    <2>3. a \in Listed'
      BY <1>2 DEF Listed
    <2>4. \A k \in 1 .. Len(list') :
            k = 1 \/ (k - 1 \in 1 .. Len(list) /\ list'[k] = list[k - 1])
      BY <1>2
    <2>5. Listed' \subseteq Listed \cup {a}
      BY <1>2, <2>4 DEF Listed
    <2>. QED
      BY <2>2, <2>3, <2>5
  <1>7. InFlight' = InFlight \cup {a}
    BY <1>5, <1>6 DEF InFlight
  <1>8. ListIsLinked'
    <2>1. list' # << >>
      <3>1. Len(list') # 0
        BY <1>2
      <3>. HIDE DEF Push
      <3>. QED
        BY <3>1
    <2>2. workq' = IF list' = << >> THEN NULL ELSE list'[1]
      BY <1>2, <2>1
    <2>3. m_next[a] = IF list = << >> THEN NULL ELSE list[1]
      BY DEF Inv, ListIsLinked, MainPrepared
    <2>4. (list = << >>) <=> (Len(list) = 0)
      BY EmptySeq DEF Inv, TypeOK
    <2>5. \A i \in 1 .. Len(list') :
            m_next'[list'[i]] = IF i < Len(list') THEN list'[i + 1] ELSE NULL
      <3>. SUFFICES ASSUME NEW i \in 1 .. Len(list')
                    PROVE  m_next'[list'[i]] = IF i < Len(list') THEN list'[i + 1] ELSE NULL
        OBVIOUS
      <3>1. CASE i = 1
        BY <3>1, <1>2, <2>3, <2>4
      <3>2. CASE i > 1
        <4>. DEFINE k == i - 1
        <4>1. /\ k \in 1 .. Len(list) /\ list'[i] = list[k]
              /\ i < Len(list') <=> k < Len(list)
              /\ i < Len(list') => list'[i + 1] = list[k + 1]
          BY <3>2, <1>2
        <4>2. m_next[list[k]] = IF k < Len(list) THEN list[k + 1] ELSE NULL
          BY <4>1 DEF Inv, ListIsLinked
        <4>. QED
          BY <4>1, <4>2
      <3>. QED
        BY <3>1, <3>2, <1>2
    <2>6. \A i, j \in 1 .. Len(list') : list'[i] = list'[j] => i = j
      <3>1. \A k \in 1 .. Len(list) : list[k] # a
        BY <1>1 DEF Listed
      <3>2. \A k \in 1 .. Len(list') :
              k = 1 \/ (k - 1 \in 1 .. Len(list) /\ list'[k] = list[k - 1])
        BY <1>2
      <3>3. \A i, j \in 1 .. Len(list) : list[i] = list[j] => i = j
        BY DEF Inv, ListIsLinked
      <3>. HIDE DEF a, Push
      <3>. QED
        BY <3>1, <3>2, <3>3, <1>2, SMTT(60)
    <2>. QED
      BY <2>2, <2>5, <2>6 DEF ListIsLinked
  <1>9. PointersValid'
    <2>1. \A u \in Holders' : mp'[u] \in heap' \ Listed'
      BY <1>1, <1>5, <1>6 DEF Inv, PointersValid
    <2>2. \A u, v \in Holders' : mp'[u] = mp'[v] => u = v
      BY <1>5 DEF Inv, PointersValid
    <2>3. Listed' \subseteq heap'
      BY <1>1, <1>6 DEF Inv, PointersValid
    <2>. QED
      BY <1>5, <2>1, <2>2, <2>3 DEF PointersValid
  <1>10. MainPrepared'
    BY <1>5 DEF MainPrepared
  <1>11. DataDiffers'
    <2>1. \A b \in InFlight : b \in Addr /\ data[b] \in Nat /\ data[b] < loop
      BY <1>5 DEF Inv, TypeOK, DataDiffers, InFlight, PointersValid
    <2>. HIDE DEF a
    <2>. QED
      BY <1>5, <1>7, <2>1 DEF Inv, DataDiffers
  <1>12. NothingLostOrRepeated'
    <2>. HIDE DEF a
    <2>. SUFFICES ASSUME NEW m \in Messages
                  PROVE  printed[m] = IF m < loop + 1 /\ ~ (\E b \in InFlight' : data[b] = m)
                                      THEN 1 ELSE 0
      BY <1>5 DEF NothingLostOrRepeated
    <2>1. printed[m] = IF m < loop /\ ~ (\E b \in InFlight : data[b] = m) THEN 1 ELSE 0
      BY <1>5 DEF Inv, NothingLostOrRepeated
    <2>2. CASE m = loop
      BY <1>5, <1>7, <2>1, <2>2 DEF Messages
    <2>3. CASE m # loop
      <3>1. (m < loop + 1) <=> (m < loop)
        BY <1>5, <2>3 DEF Messages
      <3>2. (\E b \in InFlight' : data[b] = m) <=> (\E b \in InFlight : data[b] = m)
        BY <1>5, <1>7, <2>3
      <3>. QED
        BY <2>1, <3>1, <3>2
    <2>. QED
      BY <2>2, <2>3
  <1>. QED
    BY <1>3, <1>4, <1>8, <1>9, <1>10, <1>11, <1>12 DEF Inv

-----------------------------------------------------------------------------
(***************************************************************************)
(* The invariant and what it says.                                         *)
(***************************************************************************)
\* The queue starts empty, with nobody inside.
LEMMA InitInv == Init => Inv
  <1>. SUFFICES ASSUME Init PROVE Inv
    OBVIOUS
  <1>. USE QueueAssumption DEF Init
  <1>1. TypeOK
    BY DEF TypeOK, ConsumerPlaces, MainPlaces, Threads, Messages
  <1>2. MutualExclusion
    BY DEF MutualExclusion, InSection, Threads
  <1>3. Listed = {} /\ Holders = {} /\ Put = 0
    BY DEF Listed, Holders, Put, Threads
  <1>4. InFlight = {}
    BY <1>3 DEF InFlight
  <1>5. ListIsLinked /\ PointersValid
    BY <1>3 DEF ListIsLinked, PointersValid, Threads
  <1>6. MainPrepared
    BY DEF MainPrepared, Threads
  <1>7. DataDiffers /\ NothingLostOrRepeated
    BY <1>3, <1>4 DEF DataDiffers, NothingLostOrRepeated, Messages
  <1>. QED
    BY <1>1, <1>2, <1>5, <1>6, <1>7 DEF Inv

\* Every statement of every thread keeps the invariant.
LEMMA NextInv == Inv /\ [Next]_vars => Inv'
  <1>. SUFFICES ASSUME Inv, [Next]_vars PROVE Inv'
    OBVIOUS
  <1>1. main \in Threads /\ \A t \in Consumers : t \in Threads
    BY DEF Threads
  <1>2. CASE MainStep
    BY <1>1, <1>2, MallocStep, LockStep, LinkStep, PushStep, UnlockStep, SignalStep,
       JoinStep DEF MainStep
  <1>3. ASSUME NEW t \in Consumers, ConsumerStep(t) \/ SpuriousWakeup(t)
        PROVE  Inv'
    BY <1>1, <1>3, LockStep, CheckStep, WaitStep, RelockStep, TakeHeadStep,
       AdvanceStep, UnlockStep, PrintAndFreeStep, SpuriousWakeupStep DEF ConsumerStep
  <1>4. CASE UNCHANGED vars
    BY <1>4 DEF vars, Inv, TypeOK, MutualExclusion, InSection, ListIsLinked,
       PointersValid, Listed, Holders, MainPrepared, DataDiffers, InFlight, Put,
       NothingLostOrRepeated
  <1>. QED
    BY <1>2, <1>3, <1>4 DEF Next

\* So it always holds.
LEMMA InvAlways == Spec => []Inv
  BY InitInv, NextInv, PTL DEF Spec

\* The types hold for any number of consumers, addresses and messages.
THEOREM TypesAlwaysOK == Spec => []TypeOK
  <1>1. Inv => TypeOK
    BY DEF Inv
  <1>. QED
    BY <1>1, InvAlways, PTL

\* qlock excludes: whoever is between lock and unlock, also after a wakeup
\* inside pthread_cond_wait, is the one thread that holds it.
THEOREM MutexExcludes == Spec => []MutualExclusion
  <1>1. Inv => MutualExclusion
    BY DEF Inv
  <1>. QED
    BY <1>1, InvAlways, PTL

\* workq and the links always spell out a list without cycle or cut, and no
\* thread follows a NULL or freed pointer or shares a msg with another.
THEOREM QueueNeverCorrupted == Spec => [](ListIsLinked /\ PointersValid)
  <1>1. Inv => ListIsLinked /\ PointersValid
    BY DEF Inv
  <1>. QED
    BY <1>1, InvAlways, PTL

\* Each message that left the queue and its consumer was printed once, and
\* no other was printed.
THEOREM NothingEverLostOrRepeated == Spec => []NothingLostOrRepeated
  <1>1. Inv => NothingLostOrRepeated
    BY DEF Inv
  <1>. QED
    BY <1>1, InvAlways, PTL

-----------------------------------------------------------------------------
(***************************************************************************)
(* The queue implements MsgStack.                                          *)
(***************************************************************************)
pendingView == [k \in 1 .. Len(list) |-> data[list[k]]]

heldView == [t \in Consumers |-> IF t \in Holders THEN data[mp[t]] ELSE NULL]

\* The stack a client sees is a sequence of messages.
LEMMA PendingIsSeq ==
  ASSUME TypeOK
  PROVE  /\ pendingView \in Seq(Nat)
         /\ Len(list) \in Nat
         /\ Len(pendingView) = Len(list)
         /\ \A k \in 1 .. Len(list) : pendingView[k] = data[list[k]]
  <1>1. Len(list) \in Nat /\ \A k \in 1 .. Len(list) : data[list[k]] \in Nat
    BY LenProperties, ElementOfSeq DEF TypeOK
  <1>2. pendingView \in Seq(Nat)
    BY <1>1, IsASeq DEF pendingView
  <1>3. Len(pendingView) = Len(list)
    BY <1>1, <1>2, LenProperties DEF pendingView
  <1>. QED
    BY <1>1, <1>2, <1>3 DEF pendingView

\* A step that keeps the view is a stuttering step of MsgStack.
LEMMA ViewStutters ==
  ASSUME Inv, SameView
  PROVE  UNCHANGED <<Put, pendingView, heldView, printed>>
  <1>1. pendingView' = pendingView
    <2>1. \A k \in 1 .. Len(list) : data'[list[k]] = data[list[k]]
      BY DEF SameView, InFlight, Listed
    <2>. QED
      BY <2>1 DEF SameView, pendingView
  <1>2. heldView' = heldView
    BY DEF SameView, heldView, InFlight
  <1>. QED
    BY <1>1, <1>2 DEF SameView

\* A quiet step keeps the view.
LEMMA QuietKeepsView == Quiet => SameView
  BY DEF Quiet, SameView, queueVars

\* workq = mp is MsgStack's Put.
LEMMA PushIsPut ==
  ASSUME Inv, Inv', Push
  PROVE  /\ Put < N /\ Put' = Put + 1
         /\ pendingView' = <<Put>> \o pendingView
         /\ heldView' = heldView /\ printed' = printed
  <1>. USE QueueAssumption DEF Push, Goto
  <1>1. /\ Put = loop /\ Put' = loop + 1 /\ loop < N /\ loop \in Nat
        /\ Holders' = Holders
        /\ mp[main] \in Addr /\ data[mp[main]] = loop
    BY DEF Inv, TypeOK, ConsumerPlaces, MainPlaces, Threads, Put, Holders,
           MainPrepared, PointersValid
  <1>2. /\ Len(list') = Len(list) + 1
        /\ list'[1] = mp[main]
        /\ \A k \in 2 .. (Len(list) + 1) : list'[k] = list[k - 1]
    BY <1>1, SeqPush DEF Inv, TypeOK
  <1>3. /\ pendingView' \in Seq(Nat) /\ Len(pendingView') = Len(list')
        /\ \A k \in 1 .. Len(list') : pendingView'[k] = data[list'[k]]
    BY PendingIsSeq, SMTT(60) DEF Inv, pendingView, TypeOK
  <1>4. /\ pendingView \in Seq(Nat) /\ Len(list) \in Nat
        /\ Len(pendingView) = Len(list)
        /\ \A k \in 1 .. Len(list) : pendingView[k] = data[list[k]]
    BY PendingIsSeq DEF Inv
  <1>5. /\ <<loop>> \o pendingView \in Seq(Nat)
        /\ Len(<<loop>> \o pendingView) = Len(list) + 1
        /\ (<<loop>> \o pendingView)[1] = loop
        /\ \A k \in 2 .. (Len(list) + 1) :
             (<<loop>> \o pendingView)[k] = pendingView[k - 1]
    BY <1>1, <1>4, SeqPush
  <1>6. pendingView' = <<loop>> \o pendingView
    <2>. DEFINE u == pendingView'
                v == <<loop>> \o pendingView
    <2>1. u \in Seq(Nat) /\ v \in Seq(Nat) /\ Len(u) = Len(v) /\ Len(u) = Len(list) + 1
      BY <1>2, <1>3, <1>5
    <2>2. \A k \in 1 .. Len(u) : u[k] = v[k]
      <3>. SUFFICES ASSUME NEW k \in 1 .. Len(u) PROVE u[k] = v[k]
        OBVIOUS
      <3>1. CASE k = 1
        BY <3>1, <2>1, <1>1, <1>2, <1>3, <1>5
      <3>2. CASE k > 1
        <4>. HIDE DEF u, v, Push
        <4>1. /\ k \in 2 .. (Len(list) + 1) /\ k - 1 \in 1 .. Len(list)
              /\ k \in 1 .. Len(list')
          BY <3>2, <2>1, <1>2, <1>4, SMTT(60)
        <4>2. v[k] = data[list[k - 1]]
          BY <4>1, <1>4, <1>5 DEF v
        <4>3. u[k] = data[list[k - 1]]
          BY <4>1, <1>2, <1>3 DEF u
        <4>. QED
          BY <4>2, <4>3
      <3>. QED
        BY <3>1, <3>2, <2>1, <1>4
    <2>. HIDE DEF u, v
    <2>3. u = v
      BY <2>1, <2>2, SeqEqual
    <2>. QED
      BY <2>3 DEF u, v
  <1>7. heldView' = heldView
    BY <1>1 DEF heldView
  <1>. QED
    BY <1>1, <1>6, <1>7

\* workq = mp->m_next is MsgStack's Take.
LEMMA AdvanceIsTake ==
  ASSUME Inv, Inv', NEW t \in Consumers, Advance(t)
  PROVE  /\ heldView[t] = NULL /\ pendingView # << >>
         /\ heldView' = [heldView EXCEPT ![t] = Head(pendingView)]
         /\ pendingView' = Tail(pendingView)
         /\ Put' = Put /\ printed' = printed
  <1>. USE QueueAssumption DEF Advance, Goto
  <1>1. /\ Put' = Put /\ t \notin Holders /\ Holders' = Holders \cup {t}
        /\ list # << >> /\ mp[t] = list[1]
    BY DEF Inv, TypeOK, ConsumerPlaces, MainPlaces, Threads, Put, Holders, PointersValid
  <1>2. /\ Len(list) \in Nat \ {0} /\ Len(list') = Len(list) - 1
        /\ \A k \in 1 .. (Len(list) - 1) : list'[k] = list[k + 1]
    BY <1>1, SeqTail DEF Inv, TypeOK
  <1>3. /\ pendingView' \in Seq(Nat) /\ Len(pendingView') = Len(list')
        /\ \A k \in 1 .. Len(list') : pendingView'[k] = data[list'[k]]
    BY PendingIsSeq DEF Inv, pendingView, TypeOK
  <1>4. /\ pendingView \in Seq(Nat) /\ Len(pendingView) = Len(list)
        /\ \A k \in 1 .. Len(list) : pendingView[k] = data[list[k]]
    BY PendingIsSeq DEF Inv
  <1>5. pendingView # << >>
    BY <1>2, <1>4, EmptySeq
  <1>6. /\ Tail(pendingView) \in Seq(Nat)
        /\ Len(Tail(pendingView)) = Len(list) - 1
        /\ \A k \in 1 .. (Len(list) - 1) : Tail(pendingView)[k] = pendingView[k + 1]
    BY <1>4, <1>5, SeqTail
  <1>7. pendingView' = Tail(pendingView)
    <2>. DEFINE u == pendingView'
                v == Tail(pendingView)
    <2>1. u \in Seq(Nat) /\ v \in Seq(Nat) /\ Len(u) = Len(v) /\ Len(u) = Len(list) - 1
      BY <1>2, <1>3, <1>6
    <2>2. \A k \in 1 .. Len(u) : u[k] = v[k]
      <3>. SUFFICES ASSUME NEW k \in 1 .. Len(u) PROVE u[k] = v[k]
        OBVIOUS
      <3>. HIDE DEF u, v, Advance
      <3>1. k \in 1 .. (Len(list) - 1) /\ k + 1 \in 1 .. Len(list) /\ k \in 1 .. Len(list')
        BY <2>1, <1>2
      <3>2. v[k] = data[list[k + 1]]
        BY <3>1, <1>4, <1>6 DEF v
      <3>3. u[k] = data[list[k + 1]]
        BY <3>1, <1>2, <1>3 DEF u
      <3>. QED
        BY <3>2, <3>3
    <2>. HIDE DEF u, v
    <2>3. u = v
      BY <2>1, <2>2, SeqEqual
    <2>. QED
      BY <2>3 DEF u, v
  <1>8. Head(pendingView) = data[mp[t]]
    <2>1. Head(pendingView) = pendingView[1]
      BY <1>4, <1>5, HeadTailProperties
    <2>. QED
      BY <2>1, <1>1, <1>2, <1>4
  <1>9. heldView' = [heldView EXCEPT ![t] = data[mp[t]]]
    BY <1>1 DEF heldView
  <1>10. heldView[t] = NULL
    BY <1>1 DEF heldView
  <1>. QED
    BY <1>1, <1>5, <1>7, <1>8, <1>9, <1>10

\* printf and free are MsgStack's Finish.
LEMMA PrintIsFinish ==
  ASSUME Inv, NEW t \in Consumers, PrintAndFree(t)
  PROVE  /\ heldView[t] # NULL
         /\ printed' = [printed EXCEPT ![heldView[t]] = @ + 1]
         /\ heldView' = [heldView EXCEPT ![t] = NULL]
         /\ Put' = Put /\ pendingView' = pendingView
  <1>. USE QueueAssumption DEF PrintAndFree, Goto
  <1>1. Put' = Put /\ t \in Holders /\ Holders' = Holders \ {t}
    BY DEF Inv, TypeOK, ConsumerPlaces, MainPlaces, Threads, Put, Holders
  <1>2. heldView[t] = data[mp[t]] /\ data[mp[t]] \in Nat
    BY <1>1 DEF heldView, Inv, TypeOK, PointersValid
  <1>3. heldView' = [heldView EXCEPT ![t] = NULL]
    BY <1>1 DEF heldView
  <1>4. pendingView' = pendingView
    BY DEF pendingView
  <1>. QED
    BY <1>1, <1>2, <1>3, <1>4

\* The linked list under its mutex and condition variable implements the
\* stack of messages: every step of a thread is a step of the stack or
\* changes nothing a client can see.
THEOREM QueueImplementsMsgStack == Spec => ImplementsMsgStack
  <1>1. Init => Stack!Init
    <2>. SUFFICES ASSUME Init PROVE Stack!Init
      OBVIOUS
    <2>1. Put = 0 /\ Holders = {}
      BY QueueAssumption DEF Init, Put, Holders, Threads
    <2>2. pendingView = << >>
      <3>1. Len(list) = 0 /\ TypeOK
        BY InitInv DEF Init, Inv
      <3>. QED
        BY <3>1, PendingIsSeq, EmptySeq
    <2>. QED
      BY <2>1, <2>2 DEF Init, Stack!Init, pendingView, Messages, Stack!Messages
  <1>2. Inv /\ Inv' /\ [Next]_vars => [Stack!Next]_Stack!stackVars
    <2>. SUFFICES ASSUME Inv, Inv', [Next]_vars PROVE [Stack!Next]_Stack!stackVars
      OBVIOUS
    <2>0. main \in Threads /\ \A t \in Consumers : t \in Threads
      BY DEF Threads
    <2>1. CASE SameView
      BY <2>1, ViewStutters DEF Stack!stackVars, pendingView, heldView
    <2>2. CASE Push
      <3>1. Stack!Put
        BY <2>2, PushIsPut DEF Stack!Put, pendingView, heldView
      <3>. QED
        BY <3>1 DEF Stack!Next
    <2>3. ASSUME NEW t \in Consumers, Advance(t)
          PROVE  Stack!Next
      <3>1. Stack!Take(t)
        BY <2>3, AdvanceIsTake DEF Stack!Take, pendingView, heldView
      <3>. QED
        BY <3>1 DEF Stack!Next
    <2>4. ASSUME NEW t \in Consumers, PrintAndFree(t)
          PROVE  Stack!Next
      <3>1. Stack!Finish(t)
        BY <2>4, PrintIsFinish DEF Stack!Finish, pendingView, heldView
      <3>. QED
        BY <3>1 DEF Stack!Next
    <2>5. CASE UNCHANGED vars
      BY <2>5, <2>1 DEF vars, SameView, Put, Holders
    <2>6. CASE MainStep
      BY <2>0, <2>1, <2>2, <2>6, MallocStep, LockStep, LinkStep, UnlockStep, SignalStep,
         JoinStep, QuietKeepsView DEF MainStep
    <2>7. ASSUME NEW t \in Consumers, ConsumerStep(t) \/ SpuriousWakeup(t)
          PROVE  [Stack!Next]_Stack!stackVars
      BY <2>0, <2>1, <2>3, <2>4, <2>7, LockStep, CheckStep, WaitStep, RelockStep,
         TakeHeadStep, UnlockStep, SpuriousWakeupStep, QuietKeepsView DEF ConsumerStep
    <2>. QED
      BY <2>5, <2>6, <2>7 DEF Next
  <1>. QED
    BY <1>1, <1>2, InvAlways, PTL DEF Spec, ImplementsMsgStack, Stack!Spec

=============================================================================
