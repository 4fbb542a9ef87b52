------------------------------ MODULE WorkQueue ------------------------------
(***************************************************************************)
(* net/pthread/pthread_create.c: a linked list of messages, a mutex and a  *)
(* condition variable between the main thread, which enqueues the messages *)
(* 0 .. N-1, and the threads that run process_msg.                         *)
(*                                                                         *)
(* A step is one statement of a thread.  A msg is an address of the heap;  *)
(* malloc may hand out an address that was freed before.                   *)
(***************************************************************************)
EXTENDS Integers, Sequences, FiniteSets

CONSTANTS
  Consumers,    \* the threads that run process_msg (two in main)
  main,         \* the main thread
  Addr,         \* addresses of the heap
  NULL,
  N,            \* messages main enqueues (ten in main)
  MaxSpurious   \* bound on wakeups without a signal

ASSUME QueueAssumption ==
  /\ main \notin Consumers
  /\ NULL \notin Consumers \cup {main} \cup Addr \cup Nat
  /\ N \in Nat
  /\ MaxSpurious \in Nat

VARIABLES
  qlock,     \* the thread that holds the mutex, or NULL
  workq,     \* head of the list
  m_next,    \* the link of every msg
  data,      \* the message a msg carries
  heap,      \* the allocated addresses
  pc,        \* what each thread does next
  mp,        \* the msg pointer of each thread (f in main)
  loop,      \* main's counter
  wakeups,   \* spurious wakeups so far
  printed,   \* history: how often a message was printed
  list       \* history: the addresses linked from workq, in order

vars == <<qlock, workq, m_next, data, heap, pc, mp, loop, wakeups, printed, list>>

Threads == Consumers \cup {main}

Messages == 0 .. (N - 1)

\* process_msg: "lock", "check" (the while), "wait" (blocked in cond_wait),
\* "relock" (woken, needs the mutex again), "take", "advance", "unlock", "print".
\* main: "malloc", "lock", "link", "push", "unlock", "signal", "join".
ConsumerPlaces ==
  {"lock", "check", "wait", "relock", "take", "advance", "unlock", "print"}

MainPlaces == {"malloc", "lock", "link", "push", "unlock", "signal", "join"}

Init ==
  /\ qlock = NULL
  /\ workq = NULL
  /\ m_next \in [Addr -> {NULL}]
  /\ data \in [Addr -> {0}]
  /\ heap = {}
  /\ pc = [t \in Threads |-> IF t = main THEN "malloc" ELSE "lock"]
  /\ mp = [t \in Threads |-> NULL]
  /\ loop = 0
  /\ wakeups = 0
  /\ printed = [m \in Messages |-> 0]
  /\ list = << >>

Goto(t, place) == pc' = [pc EXCEPT ![t] = place]

-----------------------------------------------------------------------------
(***************************************************************************)
(* The mutex, used by all threads.                                         *)
(***************************************************************************)
\* pthread_mutex_lock; a consumer goes on to the while, main to the link.
Lock(t) ==
  /\ pc[t] = "lock"
  /\ qlock = NULL
  /\ qlock' = t
  /\ Goto(t, IF t = main THEN "link" ELSE "check")
  /\ UNCHANGED <<workq, m_next, data, heap, mp, loop, wakeups, printed, list>>

Unlock_FreesEarly(t) ==
  /\ pc[t] = "unlock"
  /\ qlock' = NULL
  /\ heap' = IF t = main THEN heap ELSE heap \ {mp[t]}
  /\ Goto(t, IF t = main THEN "signal" ELSE "print")
  /\ UNCHANGED <<workq, m_next, data, mp, loop, wakeups, printed, list>>

Unlock(t) ==
  /\ pc[t] = "unlock"
  /\ qlock' = NULL
  /\ Goto(t, IF t = main THEN "signal" ELSE "print")
  /\ UNCHANGED <<workq, m_next, data, heap, mp, loop, wakeups, printed, list>>

-----------------------------------------------------------------------------
(***************************************************************************)
(* process_msg.                                                            *)
(***************************************************************************)
Check(t) ==
  /\ pc[t] = "check"
  /\ workq # NULL
  /\ Goto(t, "take")
  /\ UNCHANGED <<qlock, workq, m_next, data, heap, mp, loop, wakeups, printed, list>>

\* pthread_cond_wait releases the mutex and blocks in one step.
Wait(t) ==
  /\ pc[t] = "check"
  /\ workq = NULL
  /\ qlock' = NULL
  /\ Goto(t, "wait")
  /\ UNCHANGED <<workq, m_next, data, heap, mp, loop, wakeups, printed, list>>

SpuriousWakeup(t) ==
  /\ pc[t] = "wait"
  /\ wakeups < MaxSpurious
  /\ wakeups' = wakeups + 1
  /\ Goto(t, "relock")
  /\ UNCHANGED <<qlock, workq, m_next, data, heap, mp, loop, printed, list>>

Relock_WithoutMutex(t) ==
  /\ pc[t] = "relock"
  /\ Goto(t, "check")
  /\ UNCHANGED <<qlock, workq, m_next, data, heap, mp, loop, wakeups, printed, list>>

Relock_IfNotWhile(t) ==
  /\ pc[t] = "relock"
  /\ qlock = NULL
  /\ qlock' = t
  /\ Goto(t, "take")
  /\ UNCHANGED <<workq, m_next, data, heap, mp, loop, wakeups, printed, list>>

\* pthread_cond_wait returns with the mutex held, and the while tests again.
Relock(t) ==
  /\ pc[t] = "relock"
  /\ qlock = NULL
  /\ qlock' = t
  /\ Goto(t, "check")
  /\ UNCHANGED <<workq, m_next, data, heap, mp, loop, wakeups, printed, list>>

TakeHead(t) ==
  /\ pc[t] = "take"
  /\ mp' = [mp EXCEPT ![t] = workq]
  /\ Goto(t, "advance")
  /\ UNCHANGED <<qlock, workq, m_next, data, heap, loop, wakeups, printed, list>>

Advance_DropsRest(t) ==
  /\ pc[t] = "advance"
  /\ workq' = NULL
  /\ list' = << >>
  /\ Goto(t, "unlock")
  /\ UNCHANGED <<qlock, m_next, data, heap, mp, loop, wakeups, printed>>

Advance(t) ==
  /\ pc[t] = "advance"
  /\ workq' = m_next[mp[t]]
  /\ list' = Tail(list)
  /\ Goto(t, "unlock")
  /\ UNCHANGED <<qlock, m_next, data, heap, mp, loop, wakeups, printed>>

\* Printed, then freed; the thread starts over.
PrintAndFree(t) ==
  /\ pc[t] = "print"
  /\ printed' = [printed EXCEPT ![data[mp[t]]] = @ + 1]
  /\ heap' = heap \ {mp[t]}
  /\ Goto(t, "lock")
  /\ UNCHANGED <<qlock, workq, m_next, data, mp, loop, wakeups, list>>

-----------------------------------------------------------------------------
(***************************************************************************)
(* main and enqueue_msg.                                                   *)
(***************************************************************************)
Malloc ==
  /\ pc[main] = "malloc"
  /\ loop < N
  /\ \E a \in Addr \ heap :
       /\ heap' = heap \cup {a}
       /\ mp' = [mp EXCEPT ![main] = a]
       /\ data' = [data EXCEPT ![a] = loop]
  /\ Goto(main, "lock")
  /\ UNCHANGED <<qlock, workq, m_next, loop, wakeups, printed, list>>

Link ==
  /\ pc[main] = "link"
  /\ m_next' = [m_next EXCEPT ![mp[main]] = workq]
  /\ Goto(main, "push")
  /\ UNCHANGED <<qlock, workq, data, heap, mp, loop, wakeups, printed, list>>

Push ==
  /\ pc[main] = "push"
  /\ workq' = mp[main]
  /\ list' = <<mp[main]>> \o list
  /\ Goto(main, "unlock")
  /\ UNCHANGED <<qlock, m_next, data, heap, mp, loop, wakeups, printed>>

Signal_Forgotten ==
  /\ pc[main] = "signal"
  /\ Goto(main, "malloc")
  /\ loop' = loop + 1
  /\ UNCHANGED <<qlock, workq, m_next, data, heap, mp, wakeups, printed, list>>

\* pthread_cond_signal, after the unlock: wakes one waiter if there is one.
\* Then main's next iteration.
Signal ==
  /\ pc[main] = "signal"
  /\ LET waiting == {t \in Consumers : pc[t] = "wait"}
     IN \/ waiting = {} /\ Goto(main, "malloc")
        \/ \E t \in waiting :
             pc' = [pc EXCEPT ![t] = "relock", ![main] = "malloc"]
  /\ loop' = loop + 1
  /\ UNCHANGED <<qlock, workq, m_next, data, heap, mp, wakeups, printed, list>>

\* pthread_join of threads that never end.
Join ==
  /\ pc[main] = "malloc"
  /\ loop = N
  /\ Goto(main, "join")
  /\ UNCHANGED <<qlock, workq, m_next, data, heap, mp, loop, wakeups, printed, list>>

-----------------------------------------------------------------------------
ConsumerStep(t) ==
  \/ Lock(t) \/ Check(t) \/ Wait(t) \/ Relock(t)
  \/ TakeHead(t) \/ Advance(t) \/ Unlock(t) \/ PrintAndFree(t)

MainStep ==
  Malloc \/ Lock(main) \/ Link \/ Push \/ Unlock(main) \/ Signal \/ Join

Next ==
  \/ MainStep
  \/ \E t \in Consumers : ConsumerStep(t) \/ SpuriousWakeup(t)

\* Every thread that can go on eventually does; no thread is owed a spurious
\* wakeup, and which waiter a signal wakes is anyone's choice.
Fairness == WF_vars(MainStep) /\ \A t \in Consumers : WF_vars(ConsumerStep(t))

Spec == Init /\ [][Next]_vars /\ Fairness

-----------------------------------------------------------------------------
(***************************************************************************)
(* Properties.                                                             *)
(***************************************************************************)
\* Types of the state.
TypeOK ==
  /\ qlock \in Threads \cup {NULL}
  /\ workq \in Addr \cup {NULL}
  /\ m_next \in [Addr -> Addr \cup {NULL}]
  /\ data \in [Addr -> Nat]
  /\ heap \in SUBSET Addr
  /\ pc \in [Threads -> ConsumerPlaces \cup MainPlaces]
  /\ pc[main] \in MainPlaces /\ \A t \in Consumers : pc[t] \in ConsumerPlaces
  /\ mp \in [Threads -> Addr \cup {NULL}]
  /\ loop \in 0 .. N
  /\ wakeups \in 0 .. MaxSpurious
  /\ printed \in [Messages -> Nat]
  /\ list \in Seq(Addr)

\* Between lock and unlock.
InSection(t) == pc[t] \in {"check", "take", "advance", "unlock", "link", "push"}

\* At most one thread is between pthread_mutex_lock and its unlock, also after
\* a wakeup inside pthread_cond_wait, and it is the one that holds the mutex.
MutualExclusion ==
  \A t \in Threads : InSection(t) <=> qlock = t

\* The messages put so far are 0 .. Put - 1.
Put == IF pc[main] \in {"unlock", "signal"} THEN loop + 1 ELSE loop

\* Consumers that have taken a msg off the list and not yet freed it.
Holders == {t \in Consumers : pc[t] \in {"unlock", "print"}}

Listed == {list[i] : i \in 1 .. Len(list)}

\* The list is what workq and the links say: no msg is cut off from it and it
\* has no cycle, whatever addresses malloc hands out again.
ListIsLinked ==
  /\ workq = IF list = << >> THEN NULL ELSE list[1]
  /\ \A i \in 1 .. Len(list) :
       m_next[list[i]] = IF i < Len(list) THEN list[i + 1] ELSE NULL
  /\ \A i, j \in 1 .. Len(list) : list[i] = list[j] => i = j

\* Whoever follows a pointer owns an allocated msg: the list holds allocated
\* ones only, mp is never NULL or freed where it is used (the while around
\* pthread_cond_wait), and no two threads work on the same msg.
PointersValid ==
  /\ Listed \subseteq heap
  /\ \A t \in Consumers : pc[t] = "take" => list # << >>
  /\ \A t \in Consumers : pc[t] = "advance" => list # << >> /\ mp[t] = list[1]
  /\ \A t \in Holders : mp[t] \in heap \ Listed
  /\ \A t, u \in Holders : mp[t] = mp[u] => t = u
  /\ pc[main] \in {"lock", "link", "push"} =>
       mp[main] \in heap \ (Listed \cup {mp[t] : t \in Holders})

InFlight == Listed \cup {mp[t] : t \in Holders}

\* A message is printed exactly once after it left the list and its consumer,
\* and not before: none is lost and none is printed twice.
NothingLostOrRepeated ==
  \A m \in Messages :
    printed[m] = IF m < Put /\ ~ (\E a \in InFlight : data[a] = m) THEN 1 ELSE 0

\* The pointers, the mutex and the condition variable implement a stack whose
\* messages are each taken by one consumer.
Stack == INSTANCE MsgStack
           WITH next <- Put,
                pending <- [i \in 1 .. Len(list) |-> data[list[i]]],
                held <- [t \in Consumers |->
                           IF t \in Holders THEN data[mp[t]] ELSE NULL],
                NoMsg <- NULL

ImplementsMsgStack == Stack!Spec

\* Every message main enqueues is eventually printed, for any interleaving of
\* the signal that follows the unlock with consumers that already took the
\* message, are about to wait, or wake up without a signal.
AllPrinted == <>[](\A m \in Messages : printed[m] = 1)

=============================================================================
