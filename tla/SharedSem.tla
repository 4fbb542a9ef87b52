------------------------------ MODULE SharedSem ------------------------------
(***************************************************************************)
(* net/semaphore/a.c: a POSIX semaphore in a page that parent and child    *)
(* share.  It starts at 0, the child's first post makes it 1, and from     *)
(* then on it is used as a mutex.  The sleeps order nothing: the two run   *)
(* in any order.                                                           *)
(*                                                                         *)
(* sem_destroy of glibc does nothing, so the process that ends first does  *)
(* not take the semaphore away from the other.                             *)
(***************************************************************************)
EXTENDS Integers

VARIABLES
  value,   \* of the semaphore
  at       \* where parent and child are

vars == <<value, at>>

Procs == {"parent", "child"}

Init_One ==
  /\ value = 1
  /\ at = [p \in Procs |-> IF p = "parent" THEN "fork" ELSE "none"]

Init ==
  /\ value = 0
  /\ at = [p \in Procs |-> IF p = "parent" THEN "fork" ELSE "none"]

Goto(p, place) == at' = [at EXCEPT ![p] = place]

Fork ==
  /\ at["parent"] = "fork"
  /\ at' = [parent |-> "wait", child |-> "post"]
  /\ UNCHANGED value

\* fork fails: neither branch is taken.  Nor is main's, if mmap fails.
ForkFails ==
  /\ at["parent"] = "fork"
  /\ Goto("parent", "ended")
  /\ UNCHANGED value

FirstPost ==
  /\ at["child"] = "post"
  /\ value' = value + 1
  /\ Goto("child", "wait")

sem_wait(p) ==
  /\ at[p] = "wait" /\ value > 0
  /\ value' = value - 1
  /\ Goto(p, "steps")

sem_post_Forgotten(p) ==
  /\ at[p] = "steps"
  /\ Goto(p, "ended")
  /\ UNCHANGED value

\* The ten steps are done: post, sem_destroy, return.
sem_post(p) ==
  /\ at[p] = "steps"
  /\ value' = value + 1
  /\ Goto(p, "ended")

Killed(p) ==
  /\ at[p] \notin {"none", "ended"}
  /\ Goto(p, "killed")
  /\ UNCHANGED value

Step(p) ==
  \/ p = "parent" /\ (Fork \/ ForkFails)
  \/ p = "child" /\ FirstPost
  \/ sem_wait(p) \/ sem_post(p)

Next == \E p \in Procs : Step(p) \/ Killed(p)

\* Both processes run unless they wait; nobody has to be killed.
Fairness == \A p \in Procs : WF_vars(Step(p))

Spec == Init /\ [][Next]_vars /\ Fairness

-----------------------------------------------------------------------------
(***************************************************************************)
(* Properties.                                                             *)
(***************************************************************************)
\* The child posts before it waits for the first time, and yet the steps of the
\* two never mix: nobody is killed out of the section and lets a second one in,
\* and no post is one too many.
StepsDoNotMix ==
  /\ \A p, q \in Procs : at[p] = "steps" /\ at[q] = "steps" => p = q
  /\ \A p \in Procs : at[p] = "steps" => value = 0

\* Nobody waits forever, unless the other was killed: before it posted, or in the
\* steps, where the semaphore goes with it.
WaitEnds ==
  \A p \in Procs : at[p] = "wait" ~> at[p] # "wait" \/ \E q \in Procs : at[q] = "killed"

=============================================================================
