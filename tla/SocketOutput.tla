---------------------------- MODULE SocketOutput ----------------------------
(***************************************************************************)
(* netlib/Socket: how the bytes of one connection get out.  Send, called   *)
(* by the message callback and by the write-complete callback, and         *)
(* handleWrite, composed with the EventLoop that calls them.               *)
(*                                                                         *)
(* The bytes that Send accepts are numbered 1, 2, ...  The peer asks,      *)
(* which makes the socket readable, and drains the kernel's send buffer.   *)
(* Closing and errors are in module TcpServer.                             *)
(***************************************************************************)
EXTENDS EventLoop, FiniteSetsExt

CONSTANTS
  MsgLen,     \* bytes of a message ("aaaabbbb" with its NUL: nine)
  Room,       \* size of the kernel's send buffer
  LowWater,   \* EPOLLOUT is reported when so much of it is free
  MaxBytes    \* bound on the bytes that Send accepts

ASSUME OutputAssumption ==
  /\ MsgLen \in Nat \ {0}
  /\ Room \in Nat \ {0}
  /\ LowWater \in 1 .. Room
  /\ MaxBytes \in Nat

VARIABLES
  asked,           \* the peer sent something that was not read
  room,            \* what is free in the send buffer
  outputBuffer_,
  writing,         \* the Channel's events_ have kWriteEvent
  revents_,
  sent,            \* bytes Send accepted: it returned 0
  wire,            \* history: the bytes written to the socket, in order
  direct           \* history: those that Send wrote

socketVars == <<outputBuffer_, writing, sent, wire, direct>>
vars == <<loopVars, asked, room, revents_, socketVars>>

Init ==
  /\ LoopInit
  /\ asked = FALSE
  /\ room = Room
  /\ outputBuffer_ = << >>
  /\ writing = FALSE
  /\ revents_ = {}
  /\ sent = 0
  /\ wire = << >>
  /\ direct = {}

-----------------------------------------------------------------------------
(***************************************************************************)
(* The peer and the kernel.                                                *)
(***************************************************************************)
PeerAsks ==
  /\ Running /\ ~ asked
  /\ asked' = TRUE
  /\ UNCHANGED <<loopVars, room, revents_, socketVars>>

PeerDrains ==
  /\ Running /\ room < Room
  /\ room' \in (room + 1) .. Room
  /\ UNCHANGED <<loopVars, asked, revents_, socketVars>>

Ready ==
  (IF asked THEN {"IN"} ELSE {}) \cup (IF writing /\ room >= LowWater THEN {"OUT"} ELSE {})

-----------------------------------------------------------------------------
(***************************************************************************)
(* Socket::Send.                                                           *)
(***************************************************************************)
From(a, b) == [k \in 1 .. (b - a + 1) |-> a + k - 1]

SendWrites_KeepsAll ==
  \E n \in 1 .. Min({MsgLen, room}) :
    /\ wire' = wire \o From(sent + 1, sent + n)
    /\ outputBuffer_' =
         IF n = MsgLen THEN outputBuffer_ ELSE outputBuffer_ \o From(sent + 1, sent + MsgLen)
    /\ sent' = sent + MsgLen
    /\ room' = room - n
    /\ direct' = direct \cup (sent + 1) .. (sent + n)
    /\ UNCHANGED writing

SendWrites_Prepends ==
  \E n \in 1 .. Min({MsgLen, room}) :
    /\ wire' = wire \o From(sent + 1, sent + n)
    /\ outputBuffer_' = From(sent + n + 1, sent + MsgLen) \o outputBuffer_
    /\ sent' = sent + MsgLen
    /\ room' = room - n
    /\ direct' = direct \cup (sent + 1) .. (sent + n)
    /\ UNCHANGED writing

\* write takes all or part, whatever waits in outputBuffer_; the rest of the
\* message is appended there.  kWriteEvent is not enabled for it.
SendWrites ==
  \E n \in 1 .. Min({MsgLen, room}) :
    /\ wire' = wire \o From(sent + 1, sent + n)
    /\ outputBuffer_' = outputBuffer_ \o From(sent + n + 1, sent + MsgLen)
    /\ sent' = sent + MsgLen
    /\ room' = room - n
    /\ direct' = direct \cup (sent + 1) .. (sent + n)
    /\ UNCHANGED writing

\* EAGAIN: kWriteEvent is enabled, but the message is not kept.
SendBlocked ==
  /\ room = 0
  /\ writing' = TRUE
  /\ UNCHANGED <<room, outputBuffer_, sent, wire, direct>>

Send == sent + MsgLen <= MaxBytes /\ (SendWrites \/ SendBlocked)

DoesNotSend == UNCHANGED <<room, socketVars>>

-----------------------------------------------------------------------------
(***************************************************************************)
(* The Channel's handleEvent: handleRead, then handleWrite.                *)
(***************************************************************************)
Poll ==
  /\ PollReports(Ready)
  /\ revents_' = Ready
  /\ UNCHANGED <<asked, room, socketVars>>

PollFails == PollOutOfMemory(Ready) /\ UNCHANGED <<asked, room, revents_, socketVars>>

PollEmpty == PollNothing(Ready) /\ UNCHANGED <<asked, room, revents_, socketVars>>

HandleRead_SkipsWrite ==
  /\ pc = "read" /\ "IN" \in revents_
  /\ asked' = FALSE
  /\ Send \/ DoesNotSend
  /\ i' = 1
  /\ pc' = "functors"
  /\ UNCHANGED <<quit_, events_, pendingFunctors_, ran, revents_>>

\* handleRead takes everything into inputBuffer_ and calls the message callback,
\* which answers or does not.
HandleRead ==
  /\ pc = "read" /\ "IN" \in revents_
  /\ asked' = FALSE
  /\ Send \/ DoesNotSend
  /\ pc' = "write"
  /\ UNCHANGED <<quit_, events_, pendingFunctors_, i, ran, revents_>>

NotReadable_IfWritable ==
  /\ pc = "read" /\ ("IN" \notin revents_ \/ "OUT" \in revents_)
  /\ pc' = "write"
  /\ UNCHANGED <<quit_, events_, pendingFunctors_, i, ran, asked, room, revents_, socketVars>>

NotReadable ==
  /\ pc = "read" /\ "IN" \notin revents_
  /\ pc' = "write"
  /\ UNCHANGED <<quit_, events_, pendingFunctors_, i, ran, asked, room, revents_, socketVars>>

EventHandled == pc' = "functors" /\ i' = 1

\* Part of outputBuffer_ is written.  When it is empty, kWriteEvent is disabled
\* and the write-complete callback queued.
HandleWrite ==
  /\ pc = "write" /\ "OUT" \in revents_
  /\ \E n \in 1 .. Min({Len(outputBuffer_), room}) :
       /\ wire' = wire \o SubSeq(outputBuffer_, 1, n)
       /\ outputBuffer_' = SubSeq(outputBuffer_, n + 1, Len(outputBuffer_))
       /\ room' = room - n
  /\ IF outputBuffer_' = << >>
     THEN writing' = FALSE /\ runInLoop("writeCallback_")
     ELSE UNCHANGED <<writing, pendingFunctors_>>
  /\ EventHandled
  /\ UNCHANGED <<quit_, events_, ran, asked, revents_, sent, direct>>

\* No write event; or write returns 0, because outputBuffer_ is empty, or -1,
\* because the send buffer is full: an error is logged, kWriteEvent stays.
WriteNothing ==
  /\ pc = "write"
  /\ "OUT" \in revents_ => outputBuffer_ = << >> \/ room = 0
  /\ EventHandled
  /\ UNCHANGED <<quit_, events_, pendingFunctors_, ran, asked, room, revents_, socketVars>>

\* The write-complete callback may Send.
RunCallback ==
  /\ RunFunctor
  /\ Send \/ DoesNotSend
  /\ UNCHANGED <<asked, revents_>>

-----------------------------------------------------------------------------
LoopStep ==
  \/ (loop \/ While \/ FunctorsDone) /\ UNCHANGED <<asked, room, revents_, socketVars>>
  \/ Poll \/ PollEmpty
  \/ HandleRead \/ NotReadable \/ HandleWrite \/ WriteNothing
  \/ RunCallback

Quit == quit /\ UNCHANGED <<asked, room, revents_, socketVars>>

Next == LoopStep \/ PollFails \/ Quit \/ PeerAsks \/ PeerDrains

\* The loop's thread goes on: poll, too, ends after kPollTimeMs.  Nothing is
\* assumed of the peer, and nobody has to call quit.
Spec == Init /\ [][Next]_vars /\ WF_vars(LoopStep)

-----------------------------------------------------------------------------
(***************************************************************************)
(* Properties.                                                             *)
(***************************************************************************)
\* Types of the state.
TypeOK ==
  /\ pc \in Places
  /\ quit_ \in BOOLEAN
  /\ events_ \in Nat \ {0}
  /\ pendingFunctors_ \in Seq({"writeCallback_"})
  /\ i \in Nat \ {0}
  /\ ran \subseteq 1 .. Len(pendingFunctors_)
  /\ asked \in BOOLEAN
  /\ room \in 0 .. Room
  /\ outputBuffer_ \in Seq(1 .. MaxBytes)
  /\ writing \in BOOLEAN
  /\ revents_ \subseteq {"IN", "OUT"}
  /\ sent \in 0 .. MaxBytes
  /\ wire \in Seq(1 .. MaxBytes)
  /\ direct \subseteq 1 .. MaxBytes

Once(q) == \A a, b \in DOMAIN q : q[a] = q[b] => a = b

\* Every byte for which Send returned 0 is either on the wire or in
\* outputBuffer_, and there once, however short the writes of Send and
\* handleWrite were and however they alternated.
BytesOnce ==
  LET all == wire \o outputBuffer_
  IN Once(all) /\ {all[k] : k \in DOMAIN all} = 1 .. sent

\* The peer may get bytes out of order, since Send writes without looking at
\* outputBuffer_ (Socket.cpp:45); but only so: whatever overtakes was written by
\* Send itself, and what is overtaken had been buffered.  The buffered bytes
\* keep their order among themselves.
OnlyDirectOvertakes ==
  LET all == wire \o outputBuffer_
  IN \A a, b \in DOMAIN all :
       a < b /\ all[a] > all[b] => all[a] \in direct /\ all[b] \notin direct

\* A request is read although writes, callbacks and partial answers go on in the
\* same rounds, provided that poll still works when it comes: events_ doubles on
\* every poll that reports something, and is then refused (Poller.cpp:37).
RequestsAreRead == asked /\ ~ Deaf ~> ~ asked \/ ~ Running

\* Buffered bytes do not get stuck once the socket can be written and kWriteEvent
\* is enabled: more bytes get on the wire, whatever the message callback writes
\* first in the same round, and also if it fills the send buffer.
BlockedOutputMoves ==
  \A n \in 0 .. MaxBytes :
    /\ Len(wire) = n /\ outputBuffer_ # << >>
    /\ writing /\ room >= LowWater /\ ~ Deaf
    ~> Len(wire) > n \/ ~ Running

=============================================================================
