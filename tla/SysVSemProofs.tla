---------------------------- MODULE SysVSemProofs ----------------------------
(***************************************************************************)
(* TypeOK of SysVSem, and exclusion until the value is spoilt, in every    *)
(* world and for any number of processes.                                  *)
(*                                                                         *)
(* Exclusion is an argument over the whole life of the set: until          *)
(* something is spoilt one set is created and stays; whoever runs SETVAL   *)
(* before the first semop finds everybody outside, and from that semop on  *)
(* value and adjustments follow the one holder.  That a creator in time is *)
(* the only one ever to run SETVAL is the part CreatorFirst.               *)
(***************************************************************************)
EXTENDS SysVSem, FiniteSetTheorems, TLAPS

\* One set is created, and it stays.
OneSet ==
  /\ \A s \in Sems :
       /\ s = key <=> sem[s].creator # NoSem
       /\ s = key <=> sem[s].exists
       /\ sem[s].otime => s = key
  /\ \A p \in Procs :
       /\ semid[p] \in {NoSem, key}
       /\ pc[p] = "semget2" => key # NoSem
       /\ pc[p] \in {"stat", "setval", "ask", "section", "remove"}
            => key # NoSem /\ semid[p] = key

\* Before the first semop nobody is past it, and whoever waits for it comes from
\* SETVAL.
BeforeFirst ==
  key # NoSem /\ ~ sem[key].otime =>
    \A p \in Procs : /\ pc[p] \notin {"section", "remove"}
                     /\ pc[p] = "ask" => sem[key].val = 1

\* The holder's adjustment gives back what it took.
OneHolder ==
  /\ \A p \in Procs : semadj[p] = IF pc[p] = "section" THEN 1 ELSE 0
  /\ \A p, q \in Procs : pc[p] = "section" /\ pc[q] = "section" => p = q
  /\ key # NoSem /\ sem[key].otime =>
       sem[key].val = IF \E p \in Procs : pc[p] = "section" THEN 0 ELSE 1

\* Until sem_otime is set a creator in time is on its way to semop, alone;
\* afterwards nobody sets the value.
CreatorFirst ==
  CreatorInTime /\ key # NoSem =>
    /\ ~ sem[key].otime =>
         /\ pc[sem[key].creator] \in {"setval", "ask"}
         /\ \A p \in Procs : pc[p] \in {"setval", "ask"} => p = sem[key].creator
    /\ sem[key].otime => \A p \in Procs : pc[p] # "setval"

SetInv == OneSet /\ BeforeFirst /\ OneHolder /\ CreatorFirst

SemsInv ==
  /\ TypeOK
  /\ spoilt = "no" => SetInv
  /\ CreatorInTime => spoilt # "reset"

LEMMA SemsAreNumbers == Sems \subseteq Nat \ {0} /\ NoSem \notin Sems /\ NoSem \notin Procs
  BY SemAssumption, FS_CardinalityType DEF Sems

SemRecord == [exists : BOOLEAN, val : Nat, otime : BOOLEAN, creator : Procs \cup {NoSem}]

LEMMA CreateTypes ==
  ASSUME TypeOK, NEW p \in Procs, Create(p)
  PROVE  /\ key' \in Sems /\ semid' \in [Procs -> Sems \cup {NoSem}]
         /\ sem' \in [Sems -> SemRecord]
  BY DEF Create, TypeOK, SemRecord

\* The system calls change single fields of a set: semop ...
LEMMA SemopEffect ==
  ASSUME sem \in [Sems -> SemRecord], NEW s \in Sems, NEW v \in Nat,
         sem' = [sem EXCEPT ![s].val = v, ![s].otime = TRUE]
  PROVE  /\ sem' \in [Sems -> SemRecord]
         /\ \A t \in Sems : /\ sem'[t].exists = sem[t].exists
                            /\ sem'[t].creator = sem[t].creator
                            /\ sem'[t].val = IF t = s THEN v ELSE sem[t].val
                            /\ sem'[t].otime = IF t = s THEN TRUE ELSE sem[t].otime
  <1>1. \A t \in Sems \ {s} : sem'[t] = sem[t]
    OBVIOUS
  <1>2. sem'[s] = [exists |-> sem[s].exists, val |-> v, otime |-> TRUE, creator |-> sem[s].creator]
    BY DEF SemRecord
  <1>3. sem'[s] \in SemRecord
    BY <1>2 DEF SemRecord
  <1>4. sem' \in [Sems -> SemRecord]
    BY <1>1, <1>3
  <1>. QED
    BY <1>1, <1>2, <1>4, ZenonT(60)

\* ... SETVAL and the end of a process ...
LEMMA ValueEffect ==
  ASSUME sem \in [Sems -> SemRecord], NEW s \in Sems, NEW v \in Nat,
         sem' = [sem EXCEPT ![s].val = v]
  PROVE  /\ sem' \in [Sems -> SemRecord]
         /\ \A t \in Sems : /\ sem'[t].exists = sem[t].exists
                            /\ sem'[t].creator = sem[t].creator
                            /\ sem'[t].val = IF t = s THEN v ELSE sem[t].val
                            /\ sem'[t].otime = sem[t].otime
  <1>1. \A t \in Sems \ {s} : sem'[t] = sem[t]
    OBVIOUS
  <1>2. sem'[s] = [exists |-> sem[s].exists, val |-> v, otime |-> sem[s].otime,
                   creator |-> sem[s].creator]
    BY DEF SemRecord
  <1>3. sem'[s] \in SemRecord
    BY <1>2 DEF SemRecord
  <1>4. sem' \in [Sems -> SemRecord]
    BY <1>1, <1>3
  <1>. QED
    BY <1>1, <1>2, <1>4, ZenonT(60)

\* ... and IPC_RMID.
LEMMA RemoveEffect ==
  ASSUME sem \in [Sems -> SemRecord], NEW s \in Sems,
         sem' = [sem EXCEPT ![s].exists = FALSE]
  PROVE  sem' \in [Sems -> SemRecord]
  BY DEF SemRecord

\* Every step keeps the types.
LEMMA SemTypes ==
  ASSUME TypeOK, [Next]_vars
  PROVE  TypeOK'
  <1>. USE SemAssumption DEF TypeOK, Goto, Spoil
  <1>0. CASE UNCHANGED vars
    BY <1>0 DEF vars
  <1>. SUFFICES ASSUME NEW p \in Procs, Step(p) \/ AskInterrupted(p) \/ Killed(p), UNCHANGED world
                PROVE  TypeOK'
    BY <1>0 DEF Next
  <1>1. CASE SemgetCreates(p) \/ SemgetAgain(p)
    BY <1>1, CreateTypes DEF SemgetCreates, SemgetAgain, Places, SemRecord
  <1>2. CASE SemgetExists(p) \/ SemgetFails(p) \/ StatInitialised(p) \/ StatFails(p)
             \/ AskFails(p) \/ AskInterrupted(p)
    BY <1>2 DEF SemgetExists, SemgetFails, StatInitialised, StatFails, AskFails, AskInterrupted,
                Places
  <1>3. CASE StatUnused(p)
    BY <1>3 DEF StatUnused, Places
  <1>4. CASE Setval(p)
    BY <1>4 DEF Setval, Places, Exists
  <1>5. CASE Ask(p)
    <2>1. semid[p] \in Sems /\ sem[semid[p]].val - 1 \in Nat
      BY <1>5 DEF Ask, Exists
    <2>2. sem' = [sem EXCEPT ![semid[p]].val = sem[semid[p]].val - 1, ![semid[p]].otime = TRUE]
      BY <1>5 DEF Ask
    <2>3. sem' \in [Sems -> SemRecord]
      BY <2>1, <2>2, SemopEffect DEF SemRecord
    <2>. QED
      BY <1>5, <2>3 DEF Ask, Places, SemRecord
  <1>6. CASE Free(p)
    <2>1. sem' \in [Sems -> SemRecord]
      <3>1. CASE Exists(semid[p])
        <4>1. semid[p] \in Sems /\ sem[semid[p]].val + 1 \in Nat
          BY <3>1 DEF Exists
        <4>2. sem' = [sem EXCEPT ![semid[p]].val = sem[semid[p]].val + 1, ![semid[p]].otime = TRUE]
          BY <1>6, <3>1 DEF Free
        <4>. QED
          BY <4>1, <4>2, SemopEffect DEF SemRecord
      <3>. QED
        BY <1>6, <3>1 DEF Free, SemRecord
    <2>2. semadj' \in [Procs -> Int]
      BY <1>6 DEF Free
    <2>. QED
      BY <1>6, <2>1, <2>2 DEF Free, Places, SemRecord
  <1>7. CASE Remove(p)
    <2>1. sem' \in [Sems -> SemRecord] /\ key' \in Sems \cup {NoSem}
      BY <1>7, RemoveEffect DEF Remove, Exists, SemRecord
    <2>. QED
      BY <1>7, <2>1 DEF Remove, Places, SemRecord
  <1>8. CASE Ends(p)
    <2>1. Exists(semid[p]) =>
            /\ semid[p] \in Sems
            /\ (IF sem[semid[p]].val + semadj[p] < 0 THEN 0
                ELSE sem[semid[p]].val + semadj[p]) \in Nat
      BY DEF Exists
    <2>. QED
      BY <1>8, <2>1, SMTT(60) DEF Ends, Places
  <1>. QED
    BY <1>1, <1>2, <1>3, <1>4, <1>5, <1>6, <1>7, <1>8 DEF Step, Exit, Killed

-----------------------------------------------------------------------------
(***************************************************************************)
(* A step that spoils nothing, one lemma per kind.                         *)
(***************************************************************************)
Unspoilt == TypeOK /\ SetInv

LEMMA UnspoiltTypes ==
  ASSUME Unspoilt
  PROVE  /\ pc \in [Procs -> Places] /\ semid \in [Procs -> Sems \cup {NoSem}]
         /\ sem \in [Sems -> SemRecord] /\ semadj \in [Procs -> Int]
         /\ key \in Sems \cup {NoSem}
         /\ key # NoSem => sem[key].creator \in Procs
  BY SemsAreNumbers DEF Unspoilt, TypeOK, SemRecord, SetInv, OneSet

\* What a process that works with the set can rely on.
LEMMA SetInUse ==
  ASSUME Unspoilt, NEW p \in Procs, pc[p] \in {"stat", "setval", "ask", "section", "remove"}
  PROVE  /\ semid[p] = key /\ key \in Sems /\ key # NoSem /\ Exists(key)
         /\ sem[key].creator \in Procs /\ sem[key].otime \in BOOLEAN /\ sem[key].val \in Nat
  BY SemsAreNumbers DEF Unspoilt, SetInv, OneSet, TypeOK, Exists

\* Steps that change neither a set nor an adjustment: the process goes to place.
LEMMA QuietStep ==
  ASSUME Unspoilt, NEW p \in Procs, NEW place,
         UNCHANGED <<key, sem, semadj, world>>, pc' = [pc EXCEPT ![p] = place],
         \/ UNCHANGED semid
         \/ semid' = [semid EXCEPT ![p] = key] /\ key # NoSem,
         pc[p] \in {"semget", "semget2", "stat"},
         \/ place = "exit"
         \/ place = "semget2" /\ key # NoSem
         \/ place = "stat" /\ semid'[p] = key /\ key # NoSem
         \/ place = "setval" /\ semid'[p] = key /\ key # NoSem /\ ~ CreatorInTime
         \/ place = "ask" /\ sem[key].otime /\ key # NoSem /\ semid'[p] = key
  PROVE  SetInv'
  <1>. USE SemsAreNumbers DEF Unspoilt, SetInv
  <1>1. /\ pc \in [Procs -> Places] /\ semid \in [Procs -> Sems \cup {NoSem}]
        /\ key \in Sems \cup {NoSem}
        /\ key # NoSem => sem[key].creator \in Procs
    BY UnspoiltTypes
  <1>2. OneSet'
    BY <1>1 DEF OneSet
  <1>3. BeforeFirst'
    BY <1>1 DEF BeforeFirst
  <1>4. CreatorFirst'
    BY <1>1 DEF CreatorFirst, CreatorInTime
  <1>5. OneHolder'
    BY <1>1 DEF OneHolder
  <1>. QED
    BY <1>2, <1>3, <1>4, <1>5

\* Nobody was there before the creator of the set.
LEMMA CreateStep ==
  ASSUME Unspoilt, NEW p \in Procs, SemgetCreates(p), UNCHANGED world
  PROVE  SetInv'
  <1>. USE SemsAreNumbers DEF Unspoilt, SetInv
  <1>0. /\ pc \in [Procs -> Places] /\ semid \in [Procs -> Sems \cup {NoSem}]
        /\ sem \in [Sems -> SemRecord] /\ semadj \in [Procs -> Int]
    BY UnspoiltTypes
  <1>1. PICK s \in Sems :
          /\ sem' = [sem EXCEPT ![s] = [exists |-> TRUE, val |-> 0, otime |-> FALSE,
                                        creator |-> p]]
          /\ key' = s
          /\ semid' = [semid EXCEPT ![p] = s]
    BY DEF SemgetCreates, Create
  <1>2. /\ key = NoSem /\ pc[p] = "semget" /\ pc' = [pc EXCEPT ![p] = "setval"]
        /\ semadj' = semadj
    BY DEF SemgetCreates, Goto
  <1>3. \A q \in Procs : /\ pc[q] \notin {"semget2", "stat", "setval", "ask", "section", "remove"}
                         /\ semid[q] = NoSem
    BY <1>2 DEF OneSet
  <1>4. OneSet'
    BY <1>0, <1>1, <1>2, <1>3 DEF OneSet
  <1>5. BeforeFirst'
    BY <1>0, <1>1, <1>2, <1>3 DEF BeforeFirst
  <1>6. CreatorFirst'
    BY <1>0, <1>1, <1>2, <1>3 DEF CreatorFirst
  <1>7. OneHolder'
    BY <1>0, <1>1, <1>2, <1>3 DEF OneHolder
  <1>. QED
    BY <1>4, <1>5, <1>6, <1>7

\* SETVAL is run before anyone ran semop, or finds the resource free.
LEMMA SetvalStep ==
  ASSUME Unspoilt, NEW p \in Procs, Setval(p), UNCHANGED <<world, spoilt>>, spoilt = "no"
  PROVE  SetInv'
  <1>. USE SemsAreNumbers DEF Unspoilt, SetInv
  <1>0. /\ pc \in [Procs -> Places] /\ semid \in [Procs -> Sems \cup {NoSem}]
        /\ sem \in [Sems -> SemRecord] /\ semadj \in [Procs -> Int] /\ pc[p] = "setval"
    BY UnspoiltTypes DEF Setval
  <1>1. /\ semid[p] = key /\ key \in Sems /\ key # NoSem /\ Exists(key)
        /\ sem[key].otime \in BOOLEAN
    BY <1>0, SetInUse
  <1>2. /\ \A q \in Procs : pc[q] # "section"
        /\ sem[key].otime => \A q \in Procs : pc[q] # "setval" \/ ~ CreatorInTime
    <2>1. ~ (sem[key].otime /\ sem[key].val = 0)
      BY <1>1 DEF Setval, Spoil
    <2>2. CASE sem[key].otime
      BY <1>1, <2>1, <2>2 DEF OneHolder, CreatorFirst
    <2>3. CASE ~ sem[key].otime
      BY <1>1, <2>3 DEF BeforeFirst
    <2>. QED
      BY <2>2, <2>3
  <1>3. /\ sem' = [sem EXCEPT ![key].val = 1] /\ pc' = [pc EXCEPT ![p] = "ask"]
        /\ semadj' = [q \in Procs |-> IF semid[q] = key THEN 0 ELSE semadj[q]]
        /\ UNCHANGED <<key, semid>>
    BY <1>1 DEF Setval, Goto
  <1>4. \A t \in Sems : /\ sem'[t].exists = sem[t].exists
                        /\ sem'[t].creator = sem[t].creator
                        /\ sem'[t].val = IF t = key THEN 1 ELSE sem[t].val
                        /\ sem'[t].otime = sem[t].otime
    BY <1>0, <1>1, <1>3, ValueEffect
  <1>5. OneSet'
    BY <1>0, <1>1, <1>3, <1>4 DEF OneSet
  <1>6. BeforeFirst'
    BY <1>0, <1>1, <1>2, <1>3, <1>4 DEF BeforeFirst
  <1>7. CreatorFirst'
    <2>1. sem[key].creator \in Procs
      BY <1>0, SetInUse
    <2>. QED
      BY <1>0, <1>1, <1>2, <1>3, <1>4, <2>1 DEF CreatorFirst, CreatorInTime
  <1>8. OneHolder'
    BY <1>0, <1>1, <1>2, <1>3, <1>4 DEF OneHolder
  <1>. QED
    BY <1>5, <1>6, <1>7, <1>8

\* The semop that takes the resource finds it free.
LEMMA AskStep ==
  ASSUME Unspoilt, NEW p \in Procs, Ask(p), UNCHANGED world
  PROVE  SetInv'
  <1>. USE SemsAreNumbers DEF Unspoilt, SetInv
  <1>0. /\ pc \in [Procs -> Places] /\ semid \in [Procs -> Sems \cup {NoSem}]
        /\ sem \in [Sems -> SemRecord] /\ semadj \in [Procs -> Int] /\ pc[p] = "ask"
    BY UnspoiltTypes DEF Ask
  <1>1. semid[p] = key /\ key \in Sems /\ key # NoSem /\ sem[key].otime \in BOOLEAN
    BY <1>0, SetInUse
  <1>2. /\ sem[key].val > 0 /\ pc' = [pc EXCEPT ![p] = "section"]
        /\ sem' = [sem EXCEPT ![key].val = sem[key].val - 1, ![key].otime = TRUE]
        /\ semadj' = [semadj EXCEPT ![p] = @ + 1]
        /\ UNCHANGED <<key, semid>>
    BY <1>1 DEF Ask, Goto
  <1>3. /\ sem[key].val = 1
        /\ \A q \in Procs : pc[q] # "section"
        /\ CreatorInTime => \A q \in Procs : pc[q] # "setval"
    <2>1. CASE sem[key].otime
      BY <1>0, <1>1, <1>2, <2>1 DEF CreatorFirst, OneHolder
    <2>2. CASE ~ sem[key].otime
      <3>1. sem[key].val = 1 /\ \A q \in Procs : pc[q] # "section"
        BY <1>0, <1>1, <2>2 DEF BeforeFirst
      <3>2. CreatorInTime => \A q \in Procs : pc[q] # "setval"
        BY <1>0, <1>1, <2>2 DEF CreatorFirst
      <3>. QED
        BY <3>1, <3>2
    <2>. QED
      BY <1>1, <2>1, <2>2
  <1>4. sem[key].val - 1 \in Nat
    BY <1>3
  <1>5. \A t \in Sems : /\ sem'[t].exists = sem[t].exists
                        /\ sem'[t].creator = sem[t].creator
                        /\ sem'[t].val = IF t = key THEN sem[key].val - 1 ELSE sem[t].val
                        /\ sem'[t].otime = IF t = key THEN TRUE ELSE sem[t].otime
    BY <1>0, <1>1, <1>2, <1>4, SemopEffect
  <1>6. OneSet'
    BY <1>0, <1>1, <1>2, <1>5 DEF OneSet
  <1>7. BeforeFirst'
    BY <1>1, <1>2, <1>5 DEF BeforeFirst
  <1>8. CreatorFirst'
    BY <1>0, <1>1, <1>2, <1>3, <1>5 DEF CreatorFirst, CreatorInTime
  <1>9. OneHolder'
    BY <1>0, <1>1, <1>2, <1>3, <1>5 DEF OneHolder
  <1>. QED
    BY <1>6, <1>7, <1>8, <1>9

\* Whoever is in the section has the value, and semop was run.
LEMMA Holding ==
  ASSUME Unspoilt, NEW p \in Procs, pc[p] = "section"
  PROVE  /\ semid[p] = key /\ key \in Sems /\ key # NoSem /\ Exists(key)
         /\ sem[key].otime = TRUE /\ sem[key].val = 0 /\ semadj[p] = 1
         /\ \A q \in Procs : pc[q] = "section" => q = p
  <1>1. /\ semid[p] = key /\ key \in Sems /\ key # NoSem /\ Exists(key)
        /\ sem[key].otime \in BOOLEAN
    BY SetInUse
  <1>2. sem[key].otime
    BY <1>1 DEF Unspoilt, SetInv, BeforeFirst
  <1>. QED
    BY <1>1, <1>2 DEF Unspoilt, SetInv, OneHolder

\* The resource is given back, by semop or by the kernel for a holder that ends.
LEMMA GiveBack ==
  ASSUME Unspoilt, NEW p \in Procs, pc[p] = "section", NEW place \in {"remove", "exit", "ended"},
         pc' = [pc EXCEPT ![p] = place],
         \/ sem' = [sem EXCEPT ![key].val = 1]
         \/ sem' = [sem EXCEPT ![key].val = 1, ![key].otime = TRUE],
         semadj' = [semadj EXCEPT ![p] = 0],
         UNCHANGED <<key, semid, world>>
  PROVE  SetInv'
  <1>. USE SemsAreNumbers DEF Unspoilt, SetInv
  <1>0. /\ pc \in [Procs -> Places] /\ semid \in [Procs -> Sems \cup {NoSem}]
        /\ sem \in [Sems -> SemRecord] /\ semadj \in [Procs -> Int]
    BY UnspoiltTypes
  <1>1. /\ semid[p] = key /\ key \in Sems /\ key # NoSem
        /\ sem[key].otime = TRUE /\ \A q \in Procs : pc[q] = "section" => q = p
    BY Holding
  <1>2. \A t \in Sems : /\ sem'[t].exists = sem[t].exists
                        /\ sem'[t].creator = sem[t].creator
                        /\ sem'[t].val = IF t = key THEN 1 ELSE sem[t].val
                        /\ sem'[t].otime = sem[t].otime
    <2>1. CASE sem' = [sem EXCEPT ![key].val = 1]
      BY <1>0, <1>1, <2>1, ValueEffect
    <2>2. CASE sem' = [sem EXCEPT ![key].val = 1, ![key].otime = TRUE]
      <3>1. \A t \in Sems : /\ sem'[t].exists = sem[t].exists
                            /\ sem'[t].creator = sem[t].creator
                            /\ sem'[t].val = IF t = key THEN 1 ELSE sem[t].val
                            /\ sem'[t].otime = IF t = key THEN TRUE ELSE sem[t].otime
        BY <1>0, <1>1, <2>2, SemopEffect, ZenonT(60)
      <3>. QED
        BY <1>1, <3>1
    <2>. QED
      BY <2>1, <2>2
  <1>3. OneSet'
    BY <1>0, <1>1, <1>2 DEF OneSet
  <1>4. BeforeFirst'
    BY <1>1, <1>2 DEF BeforeFirst
  <1>5. CreatorFirst'
    BY <1>0, <1>1, <1>2 DEF CreatorFirst, CreatorInTime
  <1>6. OneHolder'
    BY <1>0, <1>1, <1>2 DEF OneHolder
  <1>. QED
    BY <1>3, <1>4, <1>5, <1>6

\* The end of a process, the creator before its semop included.
LEMMA EndStep ==
  ASSUME Unspoilt, NEW p \in Procs, Exit(p) \/ Killed(p), UNCHANGED world
  PROVE  SetInv'
  <1>. USE SemsAreNumbers DEF Unspoilt, SetInv
  <1>0. /\ pc \in [Procs -> Places] /\ semid \in [Procs -> Sems \cup {NoSem}]
        /\ sem \in [Sems -> SemRecord] /\ semadj \in [Procs -> Int]
        /\ key \in Sems \cup {NoSem}
        /\ key # NoSem => sem[key].creator \in Procs
    BY UnspoiltTypes
  <1>1. Ends(p)
    BY DEF Exit, Killed
  <1>2. CreatorInTime /\ key # NoSem /\ ~ sem[key].otime => sem[key].creator # p
    <2>1. CASE Exit(p)
      BY <2>1 DEF Exit, CreatorFirst
    <2>2. CASE Killed(p)
      BY <1>0, <2>2 DEF Killed, CreatorInTime
    <2>. QED
      BY <2>1, <2>2
  <1>3. /\ pc' = [pc EXCEPT ![p] = "ended"] /\ semadj' = [semadj EXCEPT ![p] = 0]
        /\ UNCHANGED <<key, semid>>
    BY <1>1 DEF Ends, Goto
  <1>4. CASE pc[p] = "section"
    <2>1. /\ semid[p] = key /\ key \in Sems /\ Exists(key)
          /\ sem[key].val = 0 /\ semadj[p] = 1
      BY <1>4, Holding
    <2>2. sem' = [sem EXCEPT ![key].val = 1]
      BY <1>1, <2>1 DEF Ends
    <2>. QED
      BY <1>3, <1>4, <2>2, GiveBack
  <1>5. CASE pc[p] # "section"
    <2>1. semadj[p] = 0
      BY <1>5 DEF OneHolder
    <2>2. \A t \in Sems : /\ sem'[t].exists = sem[t].exists
                          /\ sem'[t].creator = sem[t].creator
                          /\ sem'[t].val = sem[t].val
                          /\ sem'[t].otime = sem[t].otime
      <3>1. CASE Exists(semid[p])
        <4>1. semid[p] \in Sems /\ sem[semid[p]].val \in Nat
          BY <1>0, <3>1 DEF Exists, SemRecord
        <4>2. sem' = [sem EXCEPT ![semid[p]].val = sem[semid[p]].val]
          BY <1>1, <2>1, <3>1, <4>1 DEF Ends
        <4>. QED
          BY <1>0, <4>1, <4>2, ValueEffect
      <3>. QED
        BY <1>1, <3>1 DEF Ends
    <2>3. OneSet'
      BY <1>0, <1>3, <2>2 DEF OneSet
    <2>4. BeforeFirst'
      BY <1>0, <1>3, <2>2 DEF BeforeFirst
    <2>5. CreatorFirst'
      BY <1>0, <1>2, <1>3, <2>2 DEF CreatorFirst, CreatorInTime
    <2>6. OneHolder'
      BY <1>0, <1>3, <1>5, <2>1, <2>2 DEF OneHolder
    <2>. QED
      BY <2>3, <2>4, <2>5, <2>6
  <1>. QED
    BY <1>4, <1>5

\* A waiter that sees the set unused tries again, or runs SETVAL when the creator
\* need not be in time.
LEMMA StatUnusedStep ==
  ASSUME Unspoilt, NEW p \in Procs, StatUnused(p), UNCHANGED world
  PROVE  SetInv'
  <1>1. /\ semid[p] = key /\ key # NoSem /\ ~ sem[key].otime /\ pc[p] = "stat"
        /\ UNCHANGED <<key, sem, semid, semadj>>
    BY SetInUse DEF StatUnused
  <1>2. CreatorInTime => pc' = pc
    <2>. SUFFICES ASSUME CreatorInTime PROVE pc' = pc
      OBVIOUS
    <2>1. CreatorIsBusy(key)
      BY <1>1 DEF CreatorIsBusy, Unspoilt, SetInv, CreatorFirst
    <2>2. "late" \notin world.faults
      BY DEF CreatorInTime
    <2>. QED
      BY <1>1, <2>1, <2>2 DEF StatUnused
  <1>3. CASE pc' = pc
    BY <1>1, <1>3 DEF Unspoilt, SetInv, OneSet, BeforeFirst, OneHolder, CreatorFirst, CreatorInTime
  <1>4. CASE pc' # pc
    <2>1. pc' = [pc EXCEPT ![p] = "setval"]
      BY <1>4 DEF StatUnused, Goto
    <2>2. semid'[p] = key /\ ~ CreatorInTime
      BY <1>1, <1>2, <1>4
    <2>. QED
      BY <1>1, <2>1, <2>2, QuietStep
  <1>. QED
    BY <1>3, <1>4

LEMMA UnspoiltStep ==
  ASSUME Unspoilt, [Next]_vars, spoilt = "no", spoilt' = "no"
  PROVE  SetInv'
  <1>0. CASE UNCHANGED vars
    BY <1>0 DEF vars, Unspoilt, SetInv, OneSet, BeforeFirst, OneHolder, CreatorFirst, CreatorInTime
  <1>. SUFFICES ASSUME NEW p \in Procs, Step(p) \/ AskInterrupted(p) \/ Killed(p), UNCHANGED world
                PROVE  SetInv'
    BY <1>0 DEF Next
  <1>1. CASE SemgetExists(p) \/ SemgetFails(p)
    BY <1>1, QuietStep DEF SemgetExists, SemgetFails, Goto
  <1>2. CASE SemgetAgain(p)
    <2>1. key # NoSem
      BY <1>2 DEF SemgetAgain, Unspoilt, SetInv, OneSet
    <2>2. semid'[p] = key
      BY <1>2, <2>1 DEF SemgetAgain, Unspoilt, TypeOK
    <2>. QED
      BY <1>2, <2>1, <2>2, QuietStep DEF SemgetAgain, Goto
  <1>3. CASE StatInitialised(p)
    <2>1. semid[p] = key /\ key # NoSem
      BY <1>3, SetInUse DEF StatInitialised
    <2>. QED
      BY <1>3, <2>1, QuietStep DEF StatInitialised, Goto
  <1>4. CASE Free(p)
    <2>1. /\ semid[p] = key /\ key \in Sems /\ Exists(key)
          /\ sem[key].val = 0 /\ semadj[p] = 1 /\ pc[p] = "section"
      BY <1>4, Holding DEF Free
    <2>2. /\ sem' = [sem EXCEPT ![key].val = 1, ![key].otime = TRUE]
          /\ semadj' = [semadj EXCEPT ![p] = 0]
      BY <1>4, <2>1 DEF Free, Unspoilt, TypeOK
    <2>3. PICK place \in {"remove", "exit"} : pc' = [pc EXCEPT ![p] = place]
      BY <1>4 DEF Free, Goto
    <2>4. UNCHANGED <<key, semid>>
      BY <1>4 DEF Free
    <2>. QED
      BY <2>1, <2>2, <2>3, <2>4, GiveBack
  <1>5. ~ (StatFails(p) \/ AskFails(p) \/ AskInterrupted(p) \/ Remove(p))
    BY SetInUse DEF StatFails, AskFails, AskInterrupted, Remove, Spoil
  <1>. QED
    BY <1>1, <1>2, <1>3, <1>4, <1>5, CreateStep, SetvalStep, AskStep, EndStep, StatUnusedStep DEF Step

\* What is spoilt stays so, and a creator in time spoils nothing by SETVAL.
LEMMA SpoiltStep ==
  ASSUME TypeOK, [Next]_vars
  PROVE  /\ spoilt # "no" => spoilt' = spoilt
         /\ Unspoilt /\ CreatorInTime /\ spoilt = "no" => spoilt' # "reset"
  <1>0. CASE UNCHANGED vars
    BY <1>0 DEF vars
  <1>. SUFFICES ASSUME NEW p \in Procs, Step(p) \/ AskInterrupted(p) \/ Killed(p)
                PROVE  /\ spoilt # "no" => spoilt' = spoilt
                       /\ Unspoilt /\ CreatorInTime /\ spoilt = "no" => spoilt' # "reset"
    BY <1>0 DEF Next
  <1>1. CASE Setval(p)
    <2>1. ASSUME Unspoilt, CreatorInTime PROVE UNCHANGED spoilt
      <3>1. semid[p] = key /\ key # NoSem /\ pc[p] = "setval"
        BY <1>1, <2>1, SetInUse DEF Setval
      <3>2. ~ sem[key].otime
        BY <2>1, <3>1 DEF Unspoilt, SetInv, CreatorFirst
      <3>. QED
        BY <1>1, <3>1, <3>2 DEF Setval
    <2>2. spoilt # "no" => spoilt' = spoilt
      BY <1>1 DEF Setval, Spoil
    <2>. QED
      BY <2>1, <2>2
  <1>2. CASE AskInterrupted(p) \/ Remove(p)
    BY <1>2 DEF AskInterrupted, Remove, Spoil
  <1>3. CASE SemgetCreates(p) \/ SemgetExists(p) \/ SemgetFails(p) \/ SemgetAgain(p)
             \/ StatInitialised(p) \/ StatUnused(p) \/ StatFails(p) \/ Ask(p) \/ AskFails(p)
             \/ Free(p) \/ Ends(p)
    BY <1>3 DEF SemgetCreates, SemgetExists, SemgetFails, SemgetAgain, StatInitialised, StatUnused,
                StatFails, Ask, AskFails, Free, Ends
  <1>. QED
    BY <1>1, <1>2, <1>3 DEF Step, Exit, Killed

-----------------------------------------------------------------------------
LEMMA SemsInvHolds == Spec => []SemsInv
  <1>1. Init => SemsInv
    <2>. SUFFICES ASSUME Init PROVE SemsInv
      OBVIOUS
    <2>1. TypeOK
      BY SemAssumption DEF Init, TypeOK, Unused, Places
    <2>2. SetInv
      BY SemsAreNumbers DEF Init, SetInv, OneSet, BeforeFirst, OneHolder, CreatorFirst, Unused
    <2>. QED
      BY <2>1, <2>2 DEF SemsInv, Init
  <1>2. SemsInv /\ [Next]_vars => SemsInv'
    <2>. SUFFICES ASSUME SemsInv, [Next]_vars PROVE SemsInv'
      OBVIOUS
    <2>1. TypeOK'
      BY SemTypes DEF SemsInv
    <2>2. CreatorInTime' => CreatorInTime
      BY DEF CreatorInTime, Next, vars
    <2>3. /\ spoilt # "no" => spoilt' = spoilt
          /\ Unspoilt /\ CreatorInTime /\ spoilt = "no" => spoilt' # "reset"
      BY SpoiltStep DEF SemsInv
    <2>4. spoilt' = "no" => SetInv'
      BY <2>3, UnspoiltStep DEF SemsInv, Unspoilt
    <2>. QED
      BY <2>1, <2>2, <2>3, <2>4 DEF SemsInv, Unspoilt
  <1>. QED
    BY <1>1, <1>2, PTL DEF Spec

LEMMA ExclusionFollows == SemsInv => ExclusionUntilSpoilt
  BY DEF SemsInv, SetInv, OneHolder, ExclusionUntilSpoilt, MutualExclusion, InSection

LEMMA ValueFollows == SemsInv => ValueCountsHolders
  <1>. SUFFICES ASSUME SemsInv, spoilt = "no", NEW s \in Sems, sem[s].otime
                PROVE  sem[s].val + Cardinality({p \in InSection : semid[p] = s}) = 1
    BY DEF ValueCountsHolders
  <1>. DEFINE H == {p \in InSection : semid[p] = s}
  <1>1. Unspoilt
    BY DEF SemsInv, Unspoilt
  <1>2. s = key /\ key # NoSem
    BY <1>1, SemsAreNumbers DEF Unspoilt, SetInv, OneSet
  <1>3. CASE \E p \in Procs : pc[p] = "section"
    <2>1. PICK p \in Procs : pc[p] = "section"
      BY <1>3
    <2>2. H = {p} /\ sem[s].val = 0
      BY <1>1, <1>2, <2>1, Holding DEF InSection
    <2>3. Cardinality({p}) = 1
      BY FS_Singleton
    <2>. QED
      BY <2>2, <2>3
  <1>4. CASE ~ \E p \in Procs : pc[p] = "section"
    <2>1. H = {} /\ sem[s].val = 1
      BY <1>1, <1>2, <1>4 DEF InSection, Unspoilt, SetInv, OneHolder
    <2>. QED
      BY <2>1, FS_EmptySet
  <1>. QED
    BY <1>3, <1>4

\* Types, in every world: no value goes below zero although the kernel applies
\* adjustments at any time.
THEOREM SemTypesHold == Spec => []TypeOK
  <1>1. SemsInv => TypeOK
    BY DEF SemsInv
  <1>. QED
    BY <1>1, SemsInvHolds, PTL

\* In every world, for any number of processes, tries and kills, creators killed
\* before their first semop included: main.c excludes until a SETVAL hits a set
\* that is held, a semop is interrupted or a set is removed; and with a creator in
\* time, as the comment at lines 43-44 assumes it, that SETVAL is never the first
\* of them.
THEOREM ExclusionHoldsUntilSpoilt == Spec => []ExclusionUntilSpoilt
  BY SemsInvHolds, ExclusionFollows, PTL

\* Until then the value is exact.
THEOREM ValueIsExact == Spec => []ValueCountsHolders
  BY SemsInvHolds, ValueFollows, PTL

=============================================================================
