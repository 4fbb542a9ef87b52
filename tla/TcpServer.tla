------------------------------ MODULE TcpServer ------------------------------
(***************************************************************************)
(* netlib's server: TcpServer, its Socket objects and the EventLoop that   *)
(* drives them, over the Poller and Channel of module Poller, and the      *)
(* kernel with the remote peers as its environment.                        *)
(*                                                                         *)
(* The server is one thread.  Between two of its system calls the peers    *)
(* may connect, send, close, reset or drain what they were sent.           *)
(*                                                                         *)
(* A Socket owns its Channel and both die together, so one object of       *)
(* Channels stands for the pair; an address is used again once it is free. *)
(***************************************************************************)
EXTENDS Poller, FiniteSets, Sequences, SequencesExt

CONSTANTS
  Peers,      \* remote programs, each with at most one connection at a time
  ListenFd,   \* the descriptor socket() gives to the acceptor
  acceptor,   \* the acceptor's Socket
  MaxData,    \* bound on what a peer has sent and the server not yet read
  Allocate(_) \* the addresses operator new may return, given the free ones

ASSUME ServerAssumption ==
  /\ ListenFd \in Fds
  /\ IsFiniteSet(Fds)
  /\ acceptor \in Channels
  /\ MaxData \in Nat
  /\ {None, acceptor} \cap Peers = {}

ASSUME AllocateAssumption ==
  \A S \in SUBSET Channels : Allocate(S) \subseteq S /\ (S # {} => Allocate(S) # {})

VARIABLES
  peer,         \* the kernel's end of each connection
  backlog,      \* connections waiting in the listening socket
  file,         \* descriptor table: None, a peer, or acceptor
  pl,           \* Poller, Channels and epoll (see module Poller)
  out,          \* outputBuffer_ of a Socket holds bytes
  connections_, \* TcpServer's map from descriptor to Socket
  active,       \* EventLoop::activeChannels_, the ones still to be handled
  pc,           \* where the server's thread is
  app           \* what the application was told of each peer

kernelVars == <<peer, backlog>>
serverVars == <<file, pl, out, connections_, active, pc, app>>
vars == <<peer, backlog, file, pl, out, connections_, active, pc, app>>

(***************************************************************************)
(* peer[p].st    idle, queued (in the backlog) or open                     *)
(* peer[p].data  chunks that arrived and were not read                     *)
(* peer[p].eof   "no"; "fin" after an orderly close; "err" after a reset   *)
(*               whose error was not yet reported; "hup" once it was       *)
(* peer[p].full  the send buffer is full                                   *)
(***************************************************************************)
PeerState ==
  [st : {"idle", "queued", "open"}, data : 0 .. MaxData,
   eof : {"no", "fin", "err", "hup"}, full : BOOLEAN]

NoPeer == [st |-> "idle", data |-> 0, eof |-> "no", full |-> FALSE]

\* pc: start() not run; in epoll_wait; handleEvent of Head(active) before its
\* read part, in the message callback, before its write part, and after the
\* Channel it runs on was destroyed; epoll_wait fails for good; and the process
\* ended.
Places == {"start", "poll", "handle", "send", "write", "freed", "deaf", "ended"}

open == {fd \in Fds : file[fd] # None}

free == Fds \ open

alive == {c \in Channels : pl.chan[c] # None}

cur == Head(active).ptr

curFd == pl.chan[cur].fd_

rev == Head(active).revents

\* The peer at the other end of the Socket whose event is being handled.
curPeer == file[curFd]

Init ==
  /\ peer = [p \in Peers |-> NoPeer]
  /\ backlog = << >>
  /\ file = [fd \in Fds |-> None]
  /\ pl = [chan      |-> [c \in Channels |-> None],
           channels_ |-> [fd \in AnyFd |-> None],
           interest  |-> [fd \in Fds |-> None]]
  /\ out = [c \in Channels |-> FALSE]
  /\ connections_ = [fd \in AnyFd |-> None]
  /\ active = << >>
  /\ pc = "start"
  /\ app = [p \in Peers |-> "down"]

-----------------------------------------------------------------------------
(***************************************************************************)
(* The peers and the kernel.                                               *)
(***************************************************************************)
Listening == pc \notin {"start", "ended"}

Connect(p) ==
  /\ Listening
  /\ peer[p].st = "idle"
  /\ peer' = [peer EXCEPT ![p].st = "queued"]
  /\ backlog' = Append(backlog, p)
  /\ UNCHANGED serverVars

Connected(p) == Listening /\ peer[p].st \in {"queued", "open"}

PeerSends(p) ==
  /\ Connected(p)
  /\ peer[p].eof = "no"
  /\ peer[p].data < MaxData
  /\ peer' = [peer EXCEPT ![p].data = @ + 1]
  /\ UNCHANGED <<backlog, serverVars>>

PeerCloses(p) ==
  /\ Connected(p)
  /\ peer[p].eof = "no"
  /\ peer' = [peer EXCEPT ![p].eof = "fin"]
  /\ UNCHANGED <<backlog, serverVars>>

PeerResets(p) ==
  /\ Connected(p)
  /\ peer[p].eof \in {"no", "fin"}
  /\ peer' = [peer EXCEPT ![p].eof = "err"]
  /\ UNCHANGED <<backlog, serverVars>>

\* A connection reset before it is accepted may leave the backlog.
PeerAborts(p) ==
  /\ Listening
  /\ peer[p].st = "queued"
  /\ peer' = [peer EXCEPT ![p] = NoPeer]
  /\ \E i \in DOMAIN backlog : backlog[i] = p /\ backlog' = RemoveAt(backlog, i)
  /\ UNCHANGED serverVars

PeerDrains(p) ==
  /\ Connected(p)
  /\ peer[p].full
  /\ peer' = [peer EXCEPT ![p].full = FALSE]
  /\ UNCHANGED <<backlog, serverVars>>

\* What epoll_wait may report of a descriptor whose entry asks for events.
\* HUP and ERR come unasked.  A hung-up connection without unread bytes may
\* be reported with or without IN.
Reports(fd) ==
  LET asked == pl.interest[fd].events
      p     == file[fd]
      reset == peer[p].eof \in {"err", "hup"}
      base  == (IF peer[p].data > 0 \/ peer[p].eof = "fin" THEN {"IN"} ELSE {})
                 \cup (IF ~ peer[p].full \/ reset THEN {"OUT"} ELSE {})
      hung  == (IF peer[p].eof = "err" THEN {"HUP", "ERR"} ELSE {"HUP"}) \cup base
  IN IF p = acceptor THEN {IF backlog = << >> THEN {} ELSE {"IN"}}
     ELSE {r \cap (asked \cup {"HUP", "ERR"}) :
             r \in IF reset THEN {hung, hung \cup {"IN"}} ELSE {base}}

-----------------------------------------------------------------------------

NewSocket(p, c, fd, opened) ==
  enableReading([p EXCEPT !.chan[c] = NewChannel(fd)], c, opened)

Start ==
  /\ pc = "start"
  /\ file' = [file EXCEPT ![ListenFd] = acceptor]
  /\ pl' = NewSocket(pl, acceptor, ListenFd, {ListenFd})
  /\ pc' = "poll"
  /\ UNCHANGED <<kernelVars, out, connections_, active, app>>

\* socket or bind fails: start returns and so does main.  listen fails: abort.
StartFails ==
  /\ pc = "start"
  /\ pc' = "ended"
  /\ UNCHANGED <<kernelVars, file, pl, out, connections_, active, app>>

(***************************************************************************)
(* EventLoop::loop: activeChannels_ is filled by Poller::poll, in whatever *)
(* order the kernel keeps its ready list, then handled one by one.  The    *)
(* timeout and an interrupted epoll_wait change nothing.  Every poll that  *)
(* reports something doubles events_ (see module EventLoop, which counts); *)
(* here the list may be too long for epoll_wait, or for the memory, at any *)
(* poll.                                                                   *)
(* pendingFunctors_ stays empty: only a writeCallback_ is ever queued, and *)
(* TcpServer has no way to set one.                                        *)
(***************************************************************************)
Orders(S) ==
  {s \in [1 .. Cardinality(S) -> S] : \A i, j \in DOMAIN s : s[i] = s[j] => i = j}

Poll ==
  /\ pc = "poll"
  /\ \E report \in {f \in [{fd \in Fds : pl.interest[fd] # None} ->
                            SUBSET {"IN", "OUT", "HUP", "ERR"}] :
                      \A fd \in DOMAIN f : f[fd] \in Reports(fd)} :
       LET ready == {fd \in DOMAIN report : report[fd] # {}}
       IN /\ ready # {}
          /\ \E order \in Orders(ready) :
               active' = fillActiveChannels(pl, order, report)
  /\ pc' = "handle"
  /\ UNCHANGED <<kernelVars, file, pl, out, connections_, app>>

\* From now on epoll_wait returns EINVAL, which is only logged.
PollRefused ==
  /\ pc = "poll"
  /\ pc' = "deaf"
  /\ UNCHANGED <<kernelVars, file, pl, out, connections_, active, app>>

\* Nobody catches the bad_alloc of events_.resize.
PollOutOfMemory ==
  /\ pc = "poll"
  /\ \E fd \in Fds : pl.interest[fd] # None /\ Reports(fd) # {{}}
  /\ pc' = "ended"
  /\ UNCHANGED <<kernelVars, file, pl, out, connections_, active, app>>

\* handleEvent is done with Head(active).
NextChannel ==
  /\ active' = Tail(active)
  /\ pc' = IF Len(active) > 1 THEN "handle" ELSE "poll"

-----------------------------------------------------------------------------
(***************************************************************************)
(* Closing: Socket::handleClose closes the descriptor, removes the         *)
(* Channel and calls TcpServer::connectionClose, which erases the last     *)
(* shared_ptr to the Socket: it is destroyed when handleClose returns.     *)
(***************************************************************************)
handleClose_OnlyErases(c) ==
  LET fd == pl.chan[c].fd_
      p  == file[fd]
  IN /\ pl' = [pl EXCEPT !.chan[c] = None]
     /\ connections_' = [connections_ EXCEPT ![fd] = None]
     /\ app' = [app EXCEPT ![p] = "down"]
     /\ out' = [out EXCEPT ![c] = FALSE]
     /\ pc' = "freed"
     /\ UNCHANGED <<peer, file>>

handleClose_ForgetsClose(c) ==
  LET fd == pl.chan[c].fd_
      p  == file[fd]
  IN /\ pl' = [removeChannel(pl, c, open) EXCEPT !.chan[c] = None]
     /\ connections_' = [connections_ EXCEPT ![fd] = None]
     /\ app' = [app EXCEPT ![p] = "down"]
     /\ out' = [out EXCEPT ![c] = FALSE]
     /\ pc' = "freed"
     /\ UNCHANGED <<peer, file>>

connectionClose(fd) ==
  /\ connections_' = [connections_ EXCEPT ![fd] = None]
  /\ app' = [app EXCEPT ![file[fd]] = "down"]

handleClose(c) ==
  LET fd == pl.chan[c].fd_
  IN /\ file' = [file EXCEPT ![fd] = None]
     /\ peer' = [peer EXCEPT ![file[fd]] = NoPeer]
     /\ pl' = [removeChannel(CloseFd(pl, fd), c, open \ {fd}) EXCEPT !.chan[c] = None]
     /\ connectionClose(fd)
     /\ out' = [out EXCEPT ![c] = FALSE]
     /\ pc' = "freed"

AfterFree_NotAdvanced ==
  /\ pc = "freed"
  /\ pc' = "handle"
  /\ UNCHANGED <<kernelVars, file, pl, out, connections_, active, app>>

\* Channel::handleEvent goes on to read revents_ and the callbacks of the
\* Channel just destroyed.  The memory may still hold the old values, and a
\* write on the closed descriptor fails; or the process crashes.
AfterFree ==
  /\ pc = "freed"
  /\ NextChannel
  /\ UNCHANGED <<kernelVars, file, pl, out, connections_, app>>

AfterFreeCrash ==
  /\ pc = "freed"
  /\ pc' = "ended"
  /\ UNCHANGED <<kernelVars, file, pl, out, connections_, active, app>>

HangUp == "HUP" \in rev /\ "IN" \notin rev

HandleHangUp ==
  /\ pc = "handle" /\ HangUp
  /\ handleClose(cur)
  /\ UNCHANGED <<backlog, active>>

(***************************************************************************)
(* Socket::handleRead.                                                     *)
(***************************************************************************)
Readable == pc = "handle" /\ ~ HangUp /\ "IN" \in rev /\ cur # acceptor

ReadData ==
  /\ Readable
  /\ \E n \in 1 .. peer[curPeer].data :
       peer' = [peer EXCEPT ![curPeer].data = @ - n]
  /\ pc' = "send"
  /\ UNCHANGED <<backlog, file, pl, out, connections_, active, app>>

ReadEof ==
  /\ Readable
  /\ peer[curPeer].data = 0 /\ peer[curPeer].eof \in {"fin", "hup"}
  /\ handleClose(cur)
  /\ UNCHANGED <<backlog, active>>

\* The error of a socket is reported once.  handleError asks for it and logs.
handleError(p) == peer' = [peer EXCEPT ![p].eof = "hup"]

ReadError ==
  /\ Readable
  /\ peer[curPeer].data = 0 /\ peer[curPeer].eof = "err"
  /\ handleError(curPeer)
  /\ pc' = "write"
  /\ UNCHANGED <<backlog, file, pl, out, connections_, active, app>>

\* No read event: on to the write part.
NotReadable ==
  /\ pc = "handle" /\ ~ HangUp /\ "IN" \notin rev
  /\ pc' = "write"
  /\ UNCHANGED <<kernelVars, file, pl, out, connections_, active, app>>

(***************************************************************************)
(* The message callback of main.cpp takes everything from inputBuffer_ and *)
(* calls Socket::Send.                                                     *)
(***************************************************************************)
Broken(p) == peer[p].eof \in {"err", "hup"}

\* Everything is written, and may fill the send buffer to the last byte: the
\* next Send is then refused although outputBuffer_ is empty.
SendAll ==
  /\ pc = "send" /\ ~ Broken(curPeer) /\ ~ peer[curPeer].full
  /\ \E filled \in BOOLEAN : peer' = [peer EXCEPT ![curPeer].full = filled]
  /\ pc' = "write"
  /\ UNCHANGED <<backlog, file, pl, out, connections_, active, app>>

\* Part is written, the rest goes to outputBuffer_.
SendPart ==
  /\ pc = "send" /\ ~ Broken(curPeer) /\ ~ peer[curPeer].full
  /\ peer' = [peer EXCEPT ![curPeer].full = TRUE]
  /\ out' = [out EXCEPT ![cur] = TRUE]
  /\ pc' = "write"
  /\ UNCHANGED <<backlog, file, pl, connections_, active, app>>

SendBlocked ==
  /\ pc = "send" /\ ~ Broken(curPeer) /\ peer[curPeer].full
  /\ pl' = enableWriting(pl, cur, open)
  /\ pc' = "write"
  /\ UNCHANGED <<kernelVars, file, out, connections_, active, app>>

\* write on a reset connection: an error to the caller, who ignores it ...
SendError ==
  /\ pc = "send" /\ Broken(curPeer)
  /\ peer' = [peer EXCEPT ![curPeer].eof = "hup"]
  /\ pc' = "write"
  /\ UNCHANGED <<backlog, file, pl, out, connections_, active, app>>

\* ... or SIGPIPE, which the program does not ignore.
BrokenPipe ==
  /\ \/ pc = "send"
     \/ pc = "write" /\ "OUT" \in rev
  /\ Broken(curPeer)
  /\ pc' = "ended"
  /\ UNCHANGED <<kernelVars, file, pl, out, connections_, active, app>>

(***************************************************************************)
(* Socket::handleWrite.  A write of no bytes returns 0 and a write that    *)
(* fails returns -1: both are only logged.                                 *)
(***************************************************************************)
WriteAll ==
  /\ pc = "write" /\ "OUT" \in rev
  /\ out[cur] /\ ~ Broken(curPeer) /\ ~ peer[curPeer].full
  /\ \E filled \in BOOLEAN : peer' = [peer EXCEPT ![curPeer].full = filled]
  /\ out' = [out EXCEPT ![cur] = FALSE]
  /\ pl' = disableWriting(pl, cur, open)
  /\ NextChannel
  /\ UNCHANGED <<backlog, file, connections_, app>>

WritePart ==
  /\ pc = "write" /\ "OUT" \in rev
  /\ out[cur] /\ ~ Broken(curPeer) /\ ~ peer[curPeer].full
  /\ peer' = [peer EXCEPT ![curPeer].full = TRUE]
  /\ NextChannel
  /\ UNCHANGED <<backlog, file, pl, out, connections_, app>>

WriteError ==
  /\ pc = "write" /\ "OUT" \in rev
  /\ Broken(curPeer)
  /\ peer' = [peer EXCEPT ![curPeer].eof = "hup"]
  /\ NextChannel
  /\ UNCHANGED <<backlog, file, pl, out, connections_, app>>

WriteNothing ==
  /\ pc = "write"
  /\ "OUT" \in rev => ~ Broken(curPeer) /\ (out[cur] => peer[curPeer].full)
  /\ NextChannel
  /\ UNCHANGED <<kernelVars, file, pl, out, connections_, app>>

-----------------------------------------------------------------------------
(***************************************************************************)
(* TcpServer::accept.  insert does not replace an entry; a Socket that is  *)
(* not inserted dies with the last local shared_ptr.                       *)
(***************************************************************************)
Register(c, fd, opened) ==
  LET made == updateChannel(NewSocket(pl, c, fd, opened), c, opened)
      kept == connections_[fd] = None
  IN /\ connections_' = [connections_ EXCEPT ![fd] = IF kept THEN c ELSE @]
     /\ pl' = IF kept THEN made ELSE [made EXCEPT !.chan[c] = None]

Accepting == pc = "handle" /\ cur = acceptor /\ "IN" \in rev

LowestFree == CHOOSE fd \in free : \A o \in free : fd <= o

accept ==
  /\ Accepting
  /\ backlog # << >> /\ free # {}
  /\ \E c \in Allocate(Channels \ alive) :
       /\ file' = [file EXCEPT ![LowestFree] = Head(backlog)]
       /\ Register(c, LowestFree, open \cup {LowestFree})
  /\ peer' = [peer EXCEPT ![Head(backlog)].st = "open"]
  /\ backlog' = Tail(backlog)
  /\ app' = [app EXCEPT ![Head(backlog)] = "up"]
  /\ pc' = "write"
  /\ UNCHANGED <<out, active>>

\* EAGAIN, or EMFILE: the switch is left and the rest of the function runs
\* with connfd = -1, the call of connectionCallback_ included: app, which is
\* kept per peer, has no entry for that connection.
acceptFails ==
  /\ Accepting
  /\ backlog = << >> \/ free = {}
  /\ \E c \in Allocate(Channels \ alive) : Register(c, BadFd, open)
  /\ pc' = "write"
  /\ UNCHANGED <<kernelVars, file, out, active, app>>

\* The unexpected errors: LOG(FATAL) aborts.
acceptAborts ==
  /\ Accepting
  /\ pc' = "ended"
  /\ UNCHANGED <<kernelVars, file, pl, out, connections_, active, app>>

-----------------------------------------------------------------------------
ServerNext ==
  \/ Start \/ StartFails
  \/ Poll
  \/ HandleHangUp \/ AfterFree \/ AfterFreeCrash
  \/ ReadData \/ ReadEof \/ ReadError \/ NotReadable
  \/ SendAll \/ SendPart \/ SendBlocked \/ SendError \/ BrokenPipe
  \/ WriteAll \/ WritePart \/ WriteError \/ WriteNothing
  \/ accept \/ acceptFails \/ acceptAborts

PeerNext ==
  \E p \in Peers :
    \/ Connect(p) \/ PeerSends(p) \/ PeerCloses(p) \/ PeerResets(p)
    \/ PeerAborts(p) \/ PeerDrains(p)

Next == ServerNext \/ PollRefused \/ PollOutOfMemory \/ PeerNext

\* The server's thread runs whenever it is not blocked in epoll_wait; nothing
\* is assumed of the peers, and the event list need not ever be too long.
Spec == Init /\ [][Next]_vars /\ WF_vars(ServerNext)

-----------------------------------------------------------------------------
(***************************************************************************)
(* Properties.                                                             *)
(***************************************************************************)
Channel == [fd_ : AnyFd, events_ : SUBSET {"IN", "PRI", "OUT"},
            index_ : {kNew, kAdded, kDeleted}]

Entry == [ptr : Channels, events : SUBSET {"IN", "PRI", "OUT"}]

PollerState ==
  [chan      : [Channels -> Channel \cup {None}],
   channels_ : [AnyFd -> Channels \cup {None}],
   interest  : [Fds -> Entry \cup {None}]]

\* Types of the state; a round of the loop handles at most one event per
\* descriptor.
TypeOK ==
  /\ peer \in [Peers -> PeerState]
  /\ backlog \in Seq(Peers)
  /\ file \in [Fds -> Peers \cup {acceptor, None}]
  /\ pl \in PollerState
  /\ out \in [Channels -> BOOLEAN]
  /\ connections_ \in [AnyFd -> Channels \cup {None}]
  /\ active \in Seq([ptr : Channels, revents : SUBSET {"IN", "OUT", "HUP", "ERR"}])
  /\ Len(active) <= Cardinality(Fds)
  /\ pc \in Places
  /\ app \in [Peers -> {"down", "up"}]

\* The pointer the kernel gives back in data.ptr is a live Channel of that very
\* descriptor, registered with the events the Channel believes in, and known to
\* channels_: fillActiveChannels never touches a destroyed Channel, although
\* handleClose destroys Channels and closes descriptors before removing them.
EpollPointersAlive ==
  \A fd \in Fds :
    LET e == pl.interest[fd]
    IN e # None =>
         /\ fd \in open
         /\ e.ptr \in alive
         /\ pl.chan[e.ptr].fd_ = fd
         /\ pl.chan[e.ptr].events_ = e.events
         /\ pl.chan[e.ptr].index_ = kAdded
         /\ pl.channels_[fd] = e.ptr

\* A handler run for one active Channel never destroys or unregisters one that
\* is still to be handled in the same round of EventLoop::loop.  The Channel a
\* handler destroys is its own, and is exempt: handleEvent goes on reading it
\* (Channel.cpp:44), see AfterFree.
ActiveChannelsAlive ==
  pc # "ended" =>
    \A i \in (IF pc = "freed" THEN 2 ELSE 1) .. Len(active) :
      /\ active[i].ptr \in alive
      /\ \E fd \in open : pl.interest[fd] # None /\ pl.interest[fd].ptr = active[i].ptr

\* Descriptors, Sockets and connections_ agree whatever was closed, reused or
\* accepted in between: every open descriptor except the listening one has its
\* Socket in connections_ under that number, no Socket outlives its entry, and
\* the application knows exactly the connections that are open.  Nothing is said
\* of the entry under -1, see NoPhantomConnection.
ConnectionsOwnDescriptors ==
  /\ \A fd \in Fds \ {ListenFd} :
       /\ (connections_[fd] # None) = (file[fd] # None)
       /\ connections_[fd] # None => /\ connections_[fd] \in alive
                                     /\ pl.chan[connections_[fd]].fd_ = fd
                                     /\ app[file[fd]] = "up"
  /\ alive \subseteq {acceptor} \cup {connections_[fd] : fd \in AnyFd}
  /\ \A p \in Peers : app[p] = "up" => \E fd \in Fds : file[fd] = p

\* A peer that closed or reset its connection does not keep its descriptor: the
\* server reads end of file, through errors, blocked writes, writing left enabled
\* with nothing to write, and a busy backlog, and the connection is closed.  Only a process that has ended or an event list
\* that epoll_wait refuses (Poller.cpp:37) excuses it.
ClosedPeerIsReleased ==
  \A p \in Peers :
    (peer[p].st = "open" /\ peer[p].eof # "no")
      ~> (peer[p].st # "open" \/ pc \in {"deaf", "ended"})

\* A connection in the backlog is accepted while there are descriptors for it,
\* also while other connections keep the loop busy with writing they left enabled.
QueuedPeerIsAccepted ==
  \A p \in Peers :
    peer[p].st = "queued"
      ~> (peer[p].st # "queued" \/ free = {} \/ pc \in {"deaf", "ended"})

\* After an "expected" error of accept no connection is created: the -1 that
\* accept returned never becomes a key of connections_ (TcpServer.cpp:97).
NoPhantomConnection == connections_[BadFd] = None

=============================================================================
