------------------------------ MODULE MsgStack ------------------------------
(***************************************************************************)
(* What the work queue of net/pthread/pthread_create.c promises: messages  *)
(* are put on a stack one after the other; each is taken from the top by   *)
(* one consumer, who prints it once.                                       *)
(***************************************************************************)
EXTENDS Integers, Sequences

CONSTANTS Consumers, N, NoMsg

Messages == 0 .. (N - 1)

VARIABLES
  next,      \* the next message to be put
  pending,   \* the stack, top first
  held,      \* the message a consumer has taken and not yet printed
  printed    \* how often each message was printed

stackVars == <<next, pending, held, printed>>

Init ==
  /\ next = 0
  /\ pending = << >>
  /\ held = [c \in Consumers |-> NoMsg]
  /\ printed = [m \in Messages |-> 0]

Put ==
  /\ next < N
  /\ next' = next + 1
  /\ pending' = <<next>> \o pending
  /\ UNCHANGED <<held, printed>>

Take(c) ==
  /\ held[c] = NoMsg
  /\ pending # << >>
  /\ held' = [held EXCEPT ![c] = Head(pending)]
  /\ pending' = Tail(pending)
  /\ UNCHANGED <<next, printed>>

Finish(c) ==
  /\ held[c] # NoMsg
  /\ printed' = [printed EXCEPT ![held[c]] = @ + 1]
  /\ held' = [held EXCEPT ![c] = NoMsg]
  /\ UNCHANGED <<next, pending>>

Next == Put \/ \E c \in Consumers : Take(c) \/ Finish(c)

Spec == Init /\ [][Next]_stackVars

=============================================================================
