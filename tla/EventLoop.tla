------------------------------ MODULE EventLoop ------------------------------
(***************************************************************************)
(* netlib/EventLoop: loop, quit, runInLoop and doPendingFunctors, and of   *)
(* Poller the event list that poll makes longer.                           *)
(*                                                                         *)
(* One thread runs loop.  quit may come from any thread (quit_ is "shared  *)
(* between threads", EventLoop.hpp); runInLoop is called by that one only. *)
(*                                                                         *)
(* What the active Channels do is left to the module that extends this     *)
(* one: it takes the loop from "read" to "functors".                       *)
(***************************************************************************)
EXTENDS Integers, Sequences

CONSTANTS
  InitEventList,   \* events_(16)
  EP_MAX_EVENTS    \* epoll_wait refuses a longer list: INT_MAX / sizeof(epoll_event)

ASSUME LoopAssumption ==
  /\ InitEventList \in Nat \ {0}
  /\ EP_MAX_EVENTS \in Nat

VARIABLES
  pc,                 \* where the loop's thread is
  quit_,
  events_,            \* events_.size()
  pendingFunctors_,   \* the functors, in the order they were queued
  i,                  \* the counter of doPendingFunctors
  ran                 \* history: positions of the functors that ran

loopVars == <<pc, quit_, events_, pendingFunctors_, i, ran>>

Places == {"idle", "while", "poll", "read", "write", "functors", "returned", "ended"}

LoopInit ==
  /\ pc = "idle"
  /\ quit_ = FALSE
  /\ events_ = InitEventList
  /\ pendingFunctors_ = << >>
  /\ i = 1
  /\ ran = {}

Running == pc \notin {"returned", "ended"}

-----------------------------------------------------------------------------
(***************************************************************************)
(* The loop's thread.                                                      *)
(***************************************************************************)
loop ==
  /\ pc = "idle"
  /\ quit_' = FALSE
  /\ pc' = "while"
  /\ UNCHANGED <<events_, pendingFunctors_, i, ran>>

While ==
  /\ pc = "while"
  /\ pc' = IF quit_ THEN "returned" ELSE "poll"
  /\ UNCHANGED <<quit_, events_, pendingFunctors_, i, ran>>

\* poll has events to report: afterwards the list is twice as long.
PollReports(ready) ==
  /\ pc = "poll" /\ events_ <= EP_MAX_EVENTS
  /\ ready # {}
  /\ events_' = events_ * 2
  /\ pc' = "read"
  /\ UNCHANGED <<quit_, pendingFunctors_, i, ran>>

\* ... unless there is no memory for it: nobody catches bad_alloc.
PollOutOfMemory(ready) ==
  /\ pc = "poll" /\ events_ <= EP_MAX_EVENTS
  /\ ready # {}
  /\ pc' = "ended"
  /\ UNCHANGED <<quit_, events_, pendingFunctors_, i, ran>>

PollNothing_NoTimeout(ready) ==
  /\ pc = "poll" /\ events_ > EP_MAX_EVENTS
  /\ i' = 1
  /\ pc' = "functors"
  /\ UNCHANGED <<quit_, events_, pendingFunctors_, ran>>

\* poll returns without events: nothing happened for kPollTimeMs, a signal
\* came, or epoll_wait refused the list, which has become too long.
PollNothing(ready) ==
  /\ pc = "poll"
  /\ ready = {} \/ events_ > EP_MAX_EVENTS
  /\ i' = 1
  /\ pc' = "functors"
  /\ UNCHANGED <<quit_, events_, pendingFunctors_, ran>>

\* doPendingFunctors: no functor is taken out of the vector, so the ones of
\* earlier rounds run again.
RunFunctor ==
  /\ pc = "functors" /\ i <= Len(pendingFunctors_)
  /\ ran' = ran \cup {i}
  /\ i' = i + 1
  /\ UNCHANGED <<pc, quit_, events_, pendingFunctors_>>

FunctorsDone_OneEarly ==
  /\ pc = "functors" /\ i >= Len(pendingFunctors_)
  /\ pc' = "while"
  /\ UNCHANGED <<quit_, events_, pendingFunctors_, i, ran>>

FunctorsDone ==
  /\ pc = "functors" /\ i > Len(pendingFunctors_)
  /\ pc' = "while"
  /\ UNCHANGED <<quit_, events_, pendingFunctors_, i, ran>>

-----------------------------------------------------------------------------
(***************************************************************************)
(* quit, by any thread, and runInLoop, a part of the caller's step.        *)
(***************************************************************************)
quit ==
  /\ Running
  /\ quit_' = TRUE
  /\ UNCHANGED <<pc, events_, pendingFunctors_, i, ran>>

runInLoop(cb) == pendingFunctors_' = Append(pendingFunctors_, cb)

-----------------------------------------------------------------------------
(***************************************************************************)
(* Properties.                                                             *)
(***************************************************************************)
\* epoll_wait refuses the list for good: poll reports nothing any more.
Deaf == events_ > EP_MAX_EVENTS

\* quit stops a loop that has begun, whichever thread calls it and whatever the
\* loop is doing: poll comes back within kPollTimeMs.  (loop sets quit_ to
\* false, so a quit that comes before it is lost, EventLoop.cpp:25.)
QuitStopsLoop == quit_ /\ pc # "idle" ~> ~ Running

\* A functor queued by a handler has run before the thread sleeps in poll again:
\* none waits for an event that need not come.
NoFunctorSleeps == pc = "poll" => DOMAIN pendingFunctors_ \subseteq ran

=============================================================================
