------------------------------ MODULE RefCount ------------------------------
(***************************************************************************)
(* net/pthread/pthread_create.c: struct foo, a reference-counted object    *)
(* with its own mutex (foo_alloc, foo_hold, foo_rele).                     *)
(*                                                                         *)
(* A step is one statement.  f_count++ and --f_count are a read and a      *)
(* write.  The clients keep the rule of the API: only a thread that has a  *)
(* reference takes another one, passes one on or releases one.             *)
(***************************************************************************)
EXTENDS Integers, FiniteSets

CONSTANTS
  Threads,
  NULL,
  MaxRefs     \* bound: a thread with as many takes no more

ASSUME RefAssumption ==
  /\ IsFiniteSet(Threads)
  /\ NULL \notin Threads
  /\ MaxRefs \in Nat \ {0}

VARIABLES
  foo,       \* "none", "raw" (no mutex yet), "live", "destroyed" or "freed"
  f_count,
  f_lock,    \* the thread that holds the mutex, or NULL
  refs,      \* references a thread may use
  pc,
  tmp        \* f_count as the thread read it; 0 when it needs it no more

vars == <<foo, f_count, f_lock, refs, pc, tmp>>

Init ==
  /\ foo = "none"
  /\ f_count = 0
  /\ f_lock = NULL
  /\ refs = [t \in Threads |-> 0]
  /\ pc = [t \in Threads |-> "idle"]
  /\ tmp = [t \in Threads |-> 0]

Goto(t, place) == pc' = [pc EXCEPT ![t] = place]

-----------------------------------------------------------------------------
(***************************************************************************)
(* foo_alloc.                                                              *)
(***************************************************************************)
Alloc(t) ==
  /\ foo = "none"
  /\ pc[t] = "idle"
  /\ foo' = "raw"
  /\ f_count' = 1
  /\ Goto(t, "init")
  /\ UNCHANGED <<f_lock, refs, tmp>>

InitMutex(t) ==
  /\ pc[t] = "init"
  /\ foo' = "live"
  /\ refs' = [refs EXCEPT ![t] = 1]
  /\ Goto(t, "idle")
  /\ UNCHANGED <<f_count, f_lock, tmp>>

\* pthread_mutex_init fails: the object is freed and NULL returned.
InitMutexFails(t) ==
  /\ pc[t] = "init"
  /\ foo' = "freed"
  /\ Goto(t, "idle")
  /\ UNCHANGED <<f_count, f_lock, refs, tmp>>

-----------------------------------------------------------------------------
(***************************************************************************)
(* The clients.                                                            *)
(***************************************************************************)
CallHold(t) ==
  /\ pc[t] = "idle"
  /\ refs[t] \in 1 .. (MaxRefs - 1)
  /\ Goto(t, "hold_lock")
  /\ UNCHANGED <<foo, f_count, f_lock, refs, tmp>>

CallRele(t) ==
  /\ pc[t] = "idle"
  /\ refs[t] > 0
  /\ refs' = [refs EXCEPT ![t] = @ - 1]
  /\ Goto(t, "rele_lock")
  /\ UNCHANGED <<foo, f_count, f_lock, tmp>>

\* The pointer, with the reference, is passed to another thread.
Pass(t, u) ==
  /\ pc[t] = "idle"
  /\ refs[t] > 0 /\ refs[u] < MaxRefs
  /\ t # u
  /\ refs' = [refs EXCEPT ![t] = @ - 1, ![u] = @ + 1]
  /\ UNCHANGED <<foo, f_count, f_lock, pc, tmp>>

-----------------------------------------------------------------------------
(***************************************************************************)
(* foo_hold and foo_rele.                                                  *)
(***************************************************************************)
Lock_NotTaken(t) ==
  /\ pc[t] \in {"hold_lock", "rele_lock"}
  /\ Goto(t, IF pc[t] = "hold_lock" THEN "hold_read" ELSE "rele_read")
  /\ UNCHANGED <<foo, f_count, f_lock, refs, tmp>>

Lock(t) ==
  /\ pc[t] \in {"hold_lock", "rele_lock"}
  /\ f_lock = NULL
  /\ f_lock' = t
  /\ Goto(t, IF pc[t] = "hold_lock" THEN "hold_read" ELSE "rele_read")
  /\ UNCHANGED <<foo, f_count, refs, tmp>>

Read(t) ==
  /\ pc[t] \in {"hold_read", "rele_read"}
  /\ tmp' = [tmp EXCEPT ![t] = f_count]
  /\ Goto(t, IF pc[t] = "hold_read" THEN "hold_write" ELSE "rele_write")
  /\ UNCHANGED <<foo, f_count, f_lock, refs>>

HoldWrite(t) ==
  /\ pc[t] = "hold_write"
  /\ f_count' = tmp[t] + 1
  /\ Goto(t, "hold_unlock")
  /\ tmp' = [tmp EXCEPT ![t] = 0]
  /\ UNCHANGED <<foo, f_lock, refs>>

HoldUnlock(t) ==
  /\ pc[t] = "hold_unlock"
  /\ f_lock' = NULL
  /\ refs' = [refs EXCEPT ![t] = @ + 1]
  /\ Goto(t, "idle")
  /\ UNCHANGED <<foo, f_count, tmp>>

ReleWrite_OffByOne(t) ==
  /\ pc[t] = "rele_write"
  /\ f_count' = tmp[t] - 1
  /\ Goto(t, IF tmp[t] = 0 THEN "last_unlock" ELSE "rele_unlock")
  /\ tmp' = [tmp EXCEPT ![t] = 0]
  /\ UNCHANGED <<foo, f_lock, refs>>

ReleWrite_FreesTooSoon(t) ==
  /\ pc[t] = "rele_write"
  /\ f_count' = tmp[t] - 1
  /\ Goto(t, IF tmp[t] - 1 <= 1 THEN "last_unlock" ELSE "rele_unlock")
  /\ tmp' = [tmp EXCEPT ![t] = 0]
  /\ UNCHANGED <<foo, f_lock, refs>>

\* --fp->f_count == 0 decides the branch.
ReleWrite(t) ==
  /\ pc[t] = "rele_write"
  /\ f_count' = tmp[t] - 1
  /\ Goto(t, IF tmp[t] - 1 = 0 THEN "last_unlock" ELSE "rele_unlock")
  /\ tmp' = [tmp EXCEPT ![t] = 0]
  /\ UNCHANGED <<foo, f_lock, refs>>

\* Not the last reference ...
ReleUnlock(t) ==
  /\ pc[t] = "rele_unlock"
  /\ f_lock' = NULL
  /\ Goto(t, "idle")
  /\ UNCHANGED <<foo, f_count, refs, tmp>>

\* ... or the last one: unlock, destroy, free.
LastUnlock(t) ==
  /\ pc[t] = "last_unlock"
  /\ f_lock' = NULL
  /\ Goto(t, "destroy")
  /\ UNCHANGED <<foo, f_count, refs, tmp>>

Destroy(t) ==
  /\ pc[t] = "destroy"
  /\ foo' = "destroyed"
  /\ Goto(t, "free")
  /\ UNCHANGED <<f_count, f_lock, refs, tmp>>

Free(t) ==
  /\ pc[t] = "free"
  /\ foo' = "freed"
  /\ Goto(t, "idle")
  /\ UNCHANGED <<f_count, f_lock, refs, tmp>>

-----------------------------------------------------------------------------
InCall(t) ==
  \/ InitMutex(t) \/ InitMutexFails(t)
  \/ Lock(t) \/ Read(t) \/ HoldWrite(t) \/ HoldUnlock(t)
  \/ ReleWrite(t) \/ ReleUnlock(t) \/ LastUnlock(t) \/ Destroy(t) \/ Free(t)

Next ==
  \E t \in Threads :
    \/ Alloc(t) \/ InCall(t) \/ CallHold(t) \/ CallRele(t)
    \/ \E u \in Threads : Pass(t, u)

\* A call that was begun goes on unless it waits for the mutex.  No thread has
\* to make a call.
Fairness == \A t \in Threads : WF_vars(InCall(t))

Spec == Init /\ [][Next]_vars /\ Fairness

-----------------------------------------------------------------------------
(***************************************************************************)
(* Properties.                                                             *)
(***************************************************************************)
Places == {"idle", "init", "hold_lock", "hold_read", "hold_write", "hold_unlock",
           "rele_lock", "rele_read", "rele_write", "rele_unlock",
           "last_unlock", "destroy", "free"}

At(places) == {t \in Threads : pc[t] \in places}

\* Types of the state; the count never goes below zero.
TypeOK ==
  /\ foo \in {"none", "raw", "live", "destroyed", "freed"}
  /\ f_count \in Nat
  /\ f_lock \in Threads \cup {NULL}
  /\ refs \in [Threads -> 0 .. (MaxRefs + 1)]
  /\ pc \in [Threads -> Places]
  /\ tmp \in [Threads -> Nat]

\* References the threads have, each as a thread and a number up to how many it
\* has; and those taken or given up by calls that are not finished.
References == {r \in Threads \X (1 .. (MaxRefs + 1)) : r[2] <= refs[r[1]]}

Held == Cardinality(References)

Owed == Cardinality(At({"hold_unlock", "rele_lock", "rele_read", "rele_write", "init"}))

\* f_count is the number of references at every statement, not only when all
\* threads are idle: no increment or decrement is lost.
CountsReferences == foo \in {"raw", "live"} => f_count = Held + Owed

\* No thread locks, reads, writes, unlocks or destroys a foo that was destroyed
\* or freed, also not between the last unlock and the free of another thread;
\* and nobody has a reference to it.
NoUseAfterFree ==
  /\ At(Places \ {"idle", "init", "free"}) # {} => foo = "live"
  /\ foo \in {"destroyed", "freed"} => Held = 0
  /\ Cardinality(At({"last_unlock", "destroy", "free"})) <= 1

\* Once no thread has a reference the object is freed, whichever of the
\* releasing threads happens to be the last: it does not leak.
LastReleaseFrees == (foo = "live" /\ Held = 0) ~> (foo = "freed")

=============================================================================
