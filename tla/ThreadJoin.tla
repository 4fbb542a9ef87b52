----------------------------- MODULE ThreadJoin -----------------------------
(***************************************************************************)
(* net/pthread/main.c: main fills an array of arguments, starts a thread   *)
(* on each entry, joins the threads in order, shows what they return and   *)
(* frees it, and at last frees the array.                                  *)
(*                                                                         *)
(* exit, called by main on an error and by a thread when strdup fails,     *)
(* ends all threads wherever they are.                                     *)
(***************************************************************************)
EXTENDS Integers

CONSTANTS
  num_threads   \* one for each command-line argument

VARIABLES
  step,     \* what main does next; "exited" is the end of the process
  tnum,
  tinfo,    \* the array: "none", "allocated", "freed"
  filled,   \* the entries main has filled
  run,      \* where each thread is; "joined" once main has joined it
  copy      \* the string of each thread: "none", "lower", "upper", "freed"

vars == <<step, tnum, tinfo, filled, run, copy>>

Nums == 0 .. (num_threads - 1)

Init ==
  /\ step = "calloc"
  /\ tnum = 0
  /\ tinfo = "none"
  /\ filled = {}
  /\ run = [n \in Nums |-> "none"]
  /\ copy = [n \in Nums |-> "none"]

-----------------------------------------------------------------------------
(***************************************************************************)
(* main.                                                                   *)
(***************************************************************************)
\* Options and attributes, then the array.
Calloc ==
  /\ step = "calloc"
  /\ step' = "fill"
  /\ tinfo' = "allocated"
  /\ UNCHANGED <<tnum, filled, run, copy>>

Fill ==
  /\ step = "fill" /\ tnum < num_threads
  /\ filled' = filled \cup {tnum}
  /\ step' = "create"
  /\ UNCHANGED <<tnum, tinfo, run, copy>>

pthread_create ==
  /\ step = "create"
  /\ run' = [run EXCEPT ![tnum] = "start"]
  /\ tnum' = tnum + 1
  /\ step' = "fill"
  /\ UNCHANGED <<tinfo, filled, copy>>

\* All are started; the attributes are destroyed.
AllStarted ==
  /\ step = "fill" /\ tnum = num_threads
  /\ tnum' = 0
  /\ step' = "join"
  /\ UNCHANGED <<tinfo, filled, run, copy>>

pthread_join_DoesNotWait ==
  /\ step = "join" /\ tnum < num_threads
  /\ run' = [run EXCEPT ![tnum] = IF @ = "returned" THEN "joined" ELSE @]
  /\ step' = "show"
  /\ UNCHANGED <<tnum, tinfo, filled, copy>>

pthread_join ==
  /\ step = "join" /\ tnum < num_threads
  /\ run[tnum] = "returned"
  /\ run' = [run EXCEPT ![tnum] = "joined"]
  /\ step' = "show"
  /\ UNCHANGED <<tnum, tinfo, filled, copy>>

\* printf and free of the thread's string.
Show ==
  /\ step = "show"
  /\ copy' = [copy EXCEPT ![tnum] = "freed"]
  /\ tnum' = tnum + 1
  /\ step' = "join"
  /\ UNCHANGED <<tinfo, filled, run>>

FreeTinfo ==
  /\ step = "join" /\ tnum = num_threads
  /\ tinfo' = "freed"
  /\ step' = "exit"
  /\ UNCHANGED <<tnum, filled, run, copy>>

\* handle_error: calloc, the attributes, pthread_create or pthread_join fail.
\* Otherwise the end of main.
Exit ==
  /\ step \in {"calloc", "create", "join", "exit"} \/ (step = "fill" /\ tnum = num_threads)
  /\ step' = "exited"
  /\ UNCHANGED <<tnum, tinfo, filled, run, copy>>

-----------------------------------------------------------------------------
(***************************************************************************)
(* thread_start.                                                           *)
(***************************************************************************)
\* printf and strdup read the thread's entry.
Strdup(n) ==
  /\ step # "exited"
  /\ run[n] = "start"
  /\ run' = [run EXCEPT ![n] = "toupper"]
  /\ copy' = [copy EXCEPT ![n] = "lower"]
  /\ UNCHANGED <<step, tnum, tinfo, filled>>

StrdupFails(n) ==
  /\ step # "exited"
  /\ run[n] = "start"
  /\ step' = "exited"
  /\ UNCHANGED <<tnum, tinfo, filled, run, copy>>

ToUpper(n) ==
  /\ step # "exited"
  /\ run[n] = "toupper"
  /\ run' = [run EXCEPT ![n] = "returned"]
  /\ copy' = [copy EXCEPT ![n] = "upper"]
  /\ UNCHANGED <<step, tnum, tinfo, filled>>

-----------------------------------------------------------------------------
Next ==
  \/ Calloc \/ Fill \/ pthread_create \/ AllStarted
  \/ pthread_join \/ Show \/ FreeTinfo \/ Exit
  \/ \E n \in Nums : Strdup(n) \/ StrdupFails(n) \/ ToUpper(n)

Spec == Init /\ [][Next]_vars

-----------------------------------------------------------------------------
(***************************************************************************)
(* Properties.                                                             *)
(***************************************************************************)
\* The array outlives its readers and the strings their writers, in whatever
\* order the threads run: a thread finds its own entry filled and not freed, main
\* shows a string only when its thread has converted it to the end, and when main
\* ends as it should nothing that was allocated is left.
MemoryOutlivesUse ==
  /\ \A n \in Nums : run[n] = "start" => tinfo = "allocated" /\ n \in filled
  /\ step = "show" => copy[tnum] = "upper"
  /\ step = "exit" => \A n \in Nums : run[n] = "joined" /\ copy[n] = "freed"

=============================================================================
