------------------------------- MODULE SysVSem -------------------------------
(***************************************************************************)
(* net/semaphores/main.c: processes that share a resource under a System V *)
(* semaphore.  Whoever finds no semaphore set creates and initialises it;  *)
(* the others wait until sem_otime says that it was used, and initialise   *)
(* it themselves after max_tries seconds without that.                     *)
(*                                                                         *)
(* A step is one system call.  The sets outlive the processes; a process   *)
(* that ends, killed or not, has its SEM_UNDO adjustment applied.          *)
(***************************************************************************)
EXTENDS Integers, FiniteSets

CONSTANTS
  Procs,
  NoSem,
  max_tries,
  Worlds      \* the versions and circumstances considered, see below

(***************************************************************************)
(* A world is a version of the program and what may happen besides its     *)
(* steps.  removes: with the IPC_RMID that the comment at line 99 says can *)
(* be left out.  faults:                                                   *)
(* "late"   a waiter gives up while the creator still is to run semop:     *)
(*          what the comment at lines 43-45 assumes away                   *)
(* "early"  a creator is killed before anyone ran semop on its set: the    *)
(*          second half of that comment                                    *)
(* "kill"   a process is killed at any other time                          *)
(* "stop"   a blocked semop fails with EINTR after SIGSTOP and SIGCONT     *)
(***************************************************************************)
World == [removes : BOOLEAN, faults : SUBSET {"late", "early", "kill", "stop"}]

ASSUME SemAssumption ==
  /\ IsFiniteSet(Procs)
  /\ NoSem \notin Nat \cup Procs
  /\ max_tries \in Nat \ {0}
  /\ Worlds \subseteq World

\* Every process creates at most one set.
Sems == 1 .. Cardinality(Procs)

VARIABLES
  key,     \* the set semget finds under the key, or NoSem
  sem,     \* the sets: in existence, value, sem_otime # 0, creator
  pc,
  semid,   \* the set a process works with
  i,       \* its loop counter
  semadj,  \* its undo adjustment of that set
  world,   \* never changes
  spoilt   \* history: what first made the value wrong, see Spoil

vars == <<key, sem, pc, semid, i, semadj, world, spoilt>>

Unused == [exists |-> FALSE, val |-> 0, otime |-> FALSE, creator |-> NoSem]

Init ==
  /\ key = NoSem
  /\ sem = [s \in Sems |-> Unused]
  /\ pc = [p \in Procs |-> "semget"]
  /\ semid = [p \in Procs |-> NoSem]
  /\ i = [p \in Procs |-> 0]
  /\ semadj = [p \in Procs |-> 0]
  /\ world \in Worlds
  /\ spoilt = "no"

Exists(s) == s # NoSem /\ sem[s].exists

Goto(p, place) == pc' = [pc EXCEPT ![p] = place]

\* The first of: "reset", a SETVAL of a set whose resource somebody has;
\* "interrupted", a semop that returned without taking it; "removed", IPC_RMID.
Spoil(what) == spoilt' = IF spoilt = "no" THEN what ELSE spoilt

\* semget makes a set of one semaphore; its value is 0.
Create(p) ==
  \E s \in {t \in Sems : sem[t].creator = NoSem} :
    /\ \A t \in Sems : sem[t].creator = NoSem => s <= t
    /\ sem' = [sem EXCEPT ![s] = [exists |-> TRUE, val |-> 0, otime |-> FALSE,
                                  creator |-> p]]
    /\ key' = s
    /\ semid' = [semid EXCEPT ![p] = s]

-----------------------------------------------------------------------------
\* semget with IPC_EXCL creates the set ...
SemgetCreates_Shared(p) ==
  /\ pc[p] = "semget"
  /\ IF key = NoSem THEN Create(p)
     ELSE semid' = [semid EXCEPT ![p] = key] /\ UNCHANGED <<key, sem>>
  /\ Goto(p, "setval")
  /\ UNCHANGED <<i, semadj, spoilt>>

SemgetCreates(p) ==
  /\ pc[p] = "semget"
  /\ key = NoSem
  /\ Create(p)
  /\ Goto(p, "setval")
  /\ UNCHANGED <<i, semadj, spoilt>>

\* ... or fails with EEXIST ...
SemgetExists(p) ==
  /\ pc[p] = "semget"
  /\ key # NoSem
  /\ Goto(p, "semget2")
  /\ UNCHANGED <<key, sem, semid, i, semadj, spoilt>>

\* ... or with another error, and the process exits.
SemgetFails(p) ==
  /\ pc[p] = "semget"
  /\ key = NoSem
  /\ Goto(p, "exit")
  /\ UNCHANGED <<key, sem, semid, i, semadj, spoilt>>

\* semget without IPC_EXCL.  If the set was removed since, it creates one, or
\* fails, and the process goes on with semid = -1.
SemgetAgain(p) ==
  /\ pc[p] = "semget2"
  /\ \/ key # NoSem /\ semid' = [semid EXCEPT ![p] = key] /\ UNCHANGED <<key, sem>>
     \/ key = NoSem /\ (Create(p) \/ UNCHANGED <<key, sem, semid>>)
  /\ Goto(p, "stat")
  /\ UNCHANGED <<i, semadj, spoilt>>

\* IPC_STAT says that semop was run on the set.
StatInitialised(p) ==
  /\ pc[p] = "stat"
  /\ Exists(semid[p]) /\ sem[semid[p]].otime
  /\ Goto(p, "ask")
  /\ UNCHANGED <<key, sem, semid, i, semadj, spoilt>>

\* The creator has not yet run its semop, and still may.
CreatorIsBusy(s) ==
  /\ ~ sem[s].otime
  /\ pc[sem[s].creator] \in {"setval", "ask"}

\* It says that it was not: another second, or the process gives up.
StatUnused(p) ==
  /\ pc[p] = "stat"
  /\ Exists(semid[p]) /\ ~ sem[semid[p]].otime
  /\ IF i[p] + 1 < max_tries
     THEN /\ i' = [i EXCEPT ![p] = @ + 1]
          /\ UNCHANGED pc
     ELSE /\ "late" \in world.faults \/ ~ CreatorIsBusy(semid[p])
          /\ Goto(p, "setval")
          /\ UNCHANGED i
  /\ UNCHANGED <<key, sem, semid, semadj, spoilt>>

\* IPC_STAT fails: the set is gone.
StatFails(p) ==
  /\ pc[p] = "stat"
  /\ ~ Exists(semid[p])
  /\ Goto(p, "setval")
  /\ UNCHANGED <<key, sem, semid, i, semadj, spoilt>>

\* SETVAL also clears everybody's adjustments.  The information printed
\* afterwards changes nothing.
Setval_Forgotten(p) ==
  /\ pc[p] = "setval"
  /\ Goto(p, "ask")
  /\ UNCHANGED <<key, sem, semid, i, semadj, spoilt>>

Setval(p) ==
  /\ pc[p] = "setval"
  /\ IF Exists(semid[p])
     THEN /\ sem' = [sem EXCEPT ![semid[p]].val = 1]
          /\ semadj' = [q \in Procs |-> IF semid[q] = semid[p] THEN 0 ELSE semadj[q]]
          /\ IF sem[semid[p]].otime /\ sem[semid[p]].val = 0 THEN Spoil("reset")
             ELSE UNCHANGED spoilt
     ELSE UNCHANGED <<sem, semadj, spoilt>>
  /\ Goto(p, "ask")
  /\ UNCHANGED <<key, semid, i>>

\* semop(-1, SEM_UNDO), which blocks while the value is 0.
Ask(p) ==
  /\ pc[p] = "ask"
  /\ Exists(semid[p]) /\ sem[semid[p]].val > 0
  /\ sem' = [sem EXCEPT ![semid[p]].val = @ - 1, ![semid[p]].otime = TRUE]
  /\ semadj' = [semadj EXCEPT ![p] = @ + 1]
  /\ Goto(p, "section")
  /\ UNCHANGED <<key, semid, i, spoilt>>

\* semop fails: EIDRM or EINVAL when the set is gone ...  The error is printed
\* and the resource used all the same.
AskFails(p) ==
  /\ pc[p] = "ask"
  /\ ~ Exists(semid[p])
  /\ Goto(p, "section")
  /\ UNCHANGED <<key, sem, semid, i, semadj, spoilt>>

\* ... and EINTR when a process stopped while it was blocked continues.
AskInterrupted(p) ==
  /\ "stop" \in world.faults
  /\ pc[p] = "ask"
  /\ Exists(semid[p]) /\ sem[semid[p]].val = 0
  /\ Spoil("interrupted")
  /\ Goto(p, "section")
  /\ UNCHANGED <<key, sem, semid, i, semadj>>

\* The resource was used; semop(1, SEM_UNDO).
Free(p) ==
  /\ pc[p] = "section"
  /\ IF Exists(semid[p])
     THEN /\ sem' = [sem EXCEPT ![semid[p]].val = @ + 1, ![semid[p]].otime = TRUE]
          /\ semadj' = [semadj EXCEPT ![p] = @ - 1]
     ELSE UNCHANGED <<sem, semadj>>
  /\ Goto(p, IF world.removes THEN "remove" ELSE "exit")
  /\ UNCHANGED <<key, semid, i, spoilt>>

Remove(p) ==
  /\ pc[p] = "remove"
  /\ IF Exists(semid[p])
     THEN /\ sem' = [sem EXCEPT ![semid[p]].exists = FALSE]
          /\ key' = NoSem
          /\ Spoil("removed")
     ELSE UNCHANGED <<sem, key, spoilt>>
  /\ Goto(p, "exit")
  /\ UNCHANGED <<semid, i, semadj>>

\* The end of a process: the kernel adds its adjustment, never below 0.
Ends_WithoutUndo(p) ==
  /\ Goto(p, "ended")
  /\ UNCHANGED <<key, sem, semid, i, semadj, spoilt>>

Ends(p) ==
  /\ IF Exists(semid[p])
     THEN sem' = [sem EXCEPT ![semid[p]].val = IF @ + semadj[p] < 0 THEN 0
                                               ELSE @ + semadj[p]]
     ELSE UNCHANGED sem
  /\ semadj' = [semadj EXCEPT ![p] = 0]
  /\ Goto(p, "ended")
  /\ UNCHANGED <<key, semid, i, spoilt>>

Exit(p) == pc[p] = "exit" /\ Ends(p)

Killed(p) ==
  /\ pc[p] # "ended"
  /\ LET early == \E s \in Sems : sem[s].creator = p /\ ~ sem[s].otime
     IN IF early THEN "early" \in world.faults ELSE "kill" \in world.faults
  /\ Ends(p)

-----------------------------------------------------------------------------
Step(p) ==
  \/ SemgetCreates(p) \/ SemgetExists(p) \/ SemgetFails(p) \/ SemgetAgain(p)
  \/ StatInitialised(p) \/ StatUnused(p) \/ StatFails(p) \/ Setval(p)
  \/ Ask(p) \/ AskFails(p) \/ Free(p) \/ Remove(p) \/ Exit(p)

Next ==
  /\ \E p \in Procs : Step(p) \/ AskInterrupted(p) \/ Killed(p)
  /\ UNCHANGED world

\* A process that is not blocked in semop goes on.  Ask needs no strong
\* fairness: every process asks once.
Fairness == \A p \in Procs : WF_vars(Step(p) /\ UNCHANGED world)

Spec == Init /\ [][Next]_vars /\ Fairness

-----------------------------------------------------------------------------
(***************************************************************************)
(* Properties.                                                             *)
(***************************************************************************)
Places == {"semget", "semget2", "stat", "setval", "ask", "section", "remove",
           "exit", "ended"}

\* Types of the state; a value is never negative.
TypeOK ==
  /\ key \in Sems \cup {NoSem}
  /\ sem \in [Sems -> [exists : BOOLEAN, val : Nat, otime : BOOLEAN,
                       creator : Procs \cup {NoSem}]]
  /\ pc \in [Procs -> Places]
  /\ semid \in [Procs -> Sems \cup {NoSem}]
  /\ i \in [Procs -> 0 .. (max_tries - 1)]
  /\ semadj \in [Procs -> Int]
  /\ world \in Worlds
  /\ spoilt \in {"no", "reset", "interrupted", "removed"}

InSection == {p \in Procs : pc[p] = "section"}

\* "ask for resource ... do some handling on the sharing resource here" (lines
\* 85-89): between its two semops a process has the resource for itself.
MutualExclusion == \A p, q \in InSection : p = q

\* "here we assume that the first process that creates the sem will finish
\* initialize the sem and run semop in max_tries*1 seconds" (lines 43-44).  The
\* comment goes on "else it will not run semop any more": that creator, dead
\* before its semop, is the fault "early", for which the waiters run SETVAL.
CreatorInTime == world.faults \cap {"late", "early"} = {}

\* In every world, with processes killed at any time, the creator before its
\* semop included: exclusion holds until the first SETVAL of a set that somebody
\* holds, interrupted semop or IPC_RMID; and with a creator in time that SETVAL is
\* never the first of them.  When the creator dies, two waiters both run SETVAL,
\* and the later one can let itself in beside the other.
ExclusionUntilSpoilt ==
  /\ spoilt = "no" => MutualExclusion
  /\ CreatorInTime => spoilt # "reset"

\* Until then the value counts the resource exactly, through late joiners,
\* holders that are killed and waiters that initialise the set together: 1 when
\* it is free, 0 while somebody has it.
ValueCountsHolders ==
  spoilt = "no" =>
    \A s \in Sems :
      sem[s].otime => sem[s].val + Cardinality({p \in InSection : semid[p] = s}) = 1

\* In every world nobody waits forever, whether the holder is killed, the creator never
\* initialises the set, or the set is removed under the waiters.
EveryoneEnds == \A p \in Procs : <>(pc[p] = "ended")

=============================================================================
