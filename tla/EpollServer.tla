----------------------------- MODULE EpollServer -----------------------------
(***************************************************************************)
(* net/test/serv2.cpp: a server of one thread over edge-triggered epoll.   *)
(* A connection is read until a short read, then waits for room to write   *)
(* "nihao", then to be read again.                                         *)
(*                                                                         *)
(* Between two system calls of the server the peers may connect, send,     *)
(* close, reset, or take what they were sent.                              *)
(***************************************************************************)
EXTENDS Integers, Sequences, FiniteSets, SequencesExt

CONSTANTS
  Peers,      \* remote programs, each with at most one connection at a time
  Fds,        \* descriptors left to the server
  listenfd,   \* the one of the listening socket
  None,
  MAXLEN,     \* recv asks for sizeof(buf) = MAXLEN + 1 bytes
  MaxSent     \* bound on what a peer sends on one connection

ASSUME EpollAssumption ==
  /\ listenfd \in Fds
  /\ IsFiniteSet(Fds)
  /\ Fds \subseteq Nat \ {0}  \* epoll_create has taken the lowest descriptor
  /\ MAXLEN \in Nat \ {0}
  /\ MaxSent \in Nat
  /\ None \notin Peers \cup {"listen"}
  /\ None \notin {{"IN"}, {"OUT"}}
  /\ "listen" \notin Peers

VARIABLES
  peer,      \* the kernel's end of each connection
  backlog,   \* connections not yet accepted
  file,      \* descriptor table: the peer, "listen" or None
  interest,  \* the events asked for each descriptor, or None
  rdl,       \* epoll's ready list: descriptors whose edge was not reported
  events,    \* the reported events still to be handled, as <<fd, events>>
  pc

kernel == <<peer, backlog>>
vars == <<peer, backlog, file, interest, rdl, events, pc>>

\* unread: bytes that arrived; left: bytes the peer may still send; eof: "no",
\* "fin" after a close, "err" after a reset, "hup" once its error was reported;
\* full: no room in the send buffer.
NoPeer == [st |-> "idle", unread |-> 0, left |-> MaxSent, eof |-> "no", full |-> FALSE]

PeerState == [st : {"idle", "queued", "open"}, unread : 0 .. MaxSent,
              left : 0 .. MaxSent, eof : {"no", "fin", "err", "hup"}, full : BOOLEAN]

\* pc: main before the loop; in epoll_wait or at the top of the for; in the
\* accept loop; before recv; before the MOD to EPOLLOUT; before write; before
\* the MOD to EPOLLIN; and the process ended.
Places == {"start", "loop", "accept", "recv", "modout", "write", "modin", "ended"}

FdsOf(p) == {fd \in Fds : file[fd] = p}

free == {fd \in Fds : file[fd] = None}

cur == Head(events)[1]

rev == Head(events)[2]

curPeer == peer[file[cur]]

Reset(p) == peer[p].eof \in {"err", "hup"}

\* The events that hold of a connection now.
Holds(c) ==
  LET down == c.eof \in {"err", "hup"}
  IN {e \in {"IN", "OUT", "HUP", "ERR"} :
        \/ e = "IN"  /\ (c.unread > 0 \/ c.eof # "no")
        \/ e = "OUT" /\ (~ c.full \/ down)
        \/ e = "HUP" /\ down
        \/ e = "ERR" /\ c.eof = "err"}

Wanted(asked) == asked \cup {"ERR", "HUP"}

Init ==
  /\ peer = [p \in Peers |-> NoPeer]
  /\ backlog = << >>
  /\ file = [fd \in Fds |-> None]
  /\ interest = [fd \in Fds |-> None]
  /\ rdl = {}
  /\ events = << >>
  /\ pc = "start"

-----------------------------------------------------------------------------
(***************************************************************************)
(* The peers.  What happens on a connection is an edge: its descriptor     *)
(* enters the ready list if one of the happened events is asked for.       *)
(***************************************************************************)
Edge(p, happened) ==
  rdl' = rdl \cup {fd \in FdsOf(p) :
                     interest[fd] # None /\ happened \cap Wanted(interest[fd]) # {}}

Running == pc \notin {"start", "ended"}

Connect(p) ==
  /\ Running
  /\ peer[p].st = "idle"
  /\ peer' = [peer EXCEPT ![p].st = "queued"]
  /\ backlog' = Append(backlog, p)
  /\ UNCHANGED <<file, interest, rdl, events, pc>>

Connected(p) == Running /\ peer[p].st \in {"queued", "open"}

PeerSends(p) ==
  /\ Connected(p)
  /\ peer[p].eof = "no"
  /\ \E n \in 1 .. peer[p].left :
       peer' = [peer EXCEPT ![p].unread = @ + n, ![p].left = @ - n]
  /\ Edge(p, {"IN"})
  /\ UNCHANGED <<backlog, file, interest, events, pc>>

PeerCloses(p) ==
  /\ Connected(p)
  /\ peer[p].eof = "no"
  /\ peer' = [peer EXCEPT ![p].eof = "fin"]
  /\ Edge(p, {"IN"})
  /\ UNCHANGED <<backlog, file, interest, events, pc>>

PeerResets(p) ==
  /\ Connected(p)
  /\ peer[p].eof \in {"no", "fin"}
  /\ peer' = [peer EXCEPT ![p].eof = "err", ![p].unread = 0]
  /\ Edge(p, {"IN", "OUT", "ERR", "HUP"})
  /\ UNCHANGED <<backlog, file, interest, events, pc>>

PeerDrains(p) ==
  /\ Connected(p)
  /\ peer[p].full
  /\ peer' = [peer EXCEPT ![p].full = FALSE]
  /\ Edge(p, {"OUT"})
  /\ UNCHANGED <<backlog, file, interest, events, pc>>

-----------------------------------------------------------------------------
(***************************************************************************)
(* main up to the loop.  f, the value of SO_REUSEADDR, is not initialised: *)
(* bind fails or not on a port that was in use.                            *)
(***************************************************************************)
Start ==
  /\ pc = "start"
  /\ file' = [file EXCEPT ![listenfd] = "listen"]
  /\ interest' = [interest EXCEPT ![listenfd] = {"IN"}]
  /\ pc' = "loop"
  /\ UNCHANGED <<kernel, rdl, events>>

StartFails ==
  /\ pc = "start"
  /\ pc' = "ended"
  /\ UNCHANGED <<kernel, file, interest, rdl, events>>

(***************************************************************************)
(* epoll_wait.  The listening socket is level-triggered; the others leave  *)
(* the ready list when they are reported.  A timeout changes nothing.      *)
(***************************************************************************)
Reported(fd) == Holds(peer[file[fd]]) \cap Wanted(interest[fd])

EpollWait ==
  /\ pc = "loop" /\ events = << >>
  /\ LET ready == {fd \in rdl : Reported(fd) # {}}
                    \cup (IF backlog = << >> THEN {} ELSE {listenfd})
         What(fd) == IF fd = listenfd THEN {"IN"} ELSE Reported(fd)
     IN /\ ready # {}
        /\ \E order \in SetToSeqs(ready) :
             events' = [k \in DOMAIN order |-> <<order[k], What(order[k])>>]
  /\ rdl' = {}
  /\ UNCHANGED <<kernel, file, interest, pc>>

\* nfds is -1, and loop < nfds compares it as an unsigned number: the for
\* walks over the old events and past the array until the process faults.
EpollWaitInterrupted ==
  /\ pc = "loop" /\ events = << >>
  /\ pc' = "ended"
  /\ UNCHANGED <<kernel, file, interest, rdl, events>>

\* The next iteration of the for.
NextEvent == events' = Tail(events) /\ pc' = "loop"

\* What epoll_ctl finds ready at once it reports at once.
Arm(fd, p, asked) ==
  /\ interest' = [interest EXCEPT ![fd] = asked]
  /\ rdl' = IF Holds(peer'[p]) \cap Wanted(asked) # {} THEN rdl \cup {fd} ELSE rdl

-----------------------------------------------------------------------------
DispatchListen ==
  /\ pc = "loop" /\ events # << >> /\ cur = listenfd
  /\ pc' = "accept"
  /\ UNCHANGED <<kernel, file, interest, rdl, events>>

\* A new connection is added and accept is called again (connfd is not 0).
AcceptOne ==
  /\ pc = "accept"
  /\ backlog # << >> /\ free # {}
  /\ LET fd == CHOOSE x \in free : \A y \in free : x <= y
         p  == Head(backlog)
     IN /\ file' = [file EXCEPT ![fd] = p]
        /\ peer' = [peer EXCEPT ![p].st = "open"]
        /\ Arm(fd, p, {"IN"})
  /\ backlog' = Tail(backlog)
  /\ UNCHANGED <<events, pc>>

\* EAGAIN, EMFILE or another error.
AcceptFails ==
  /\ pc = "accept"
  /\ backlog = << >> \/ free = {}
  /\ NextEvent
  /\ UNCHANGED <<kernel, file, interest, rdl>>

\* close(events[loop].data.fd): the kernel drops the descriptor from epoll.
CloseCur ==
  /\ peer' = [peer EXCEPT ![file[cur]] = NoPeer]
  /\ file' = [file EXCEPT ![cur] = None]
  /\ interest' = [interest EXCEPT ![cur] = None]
  /\ rdl' = rdl \ {cur}
  /\ UNCHANGED backlog

AtConnection == pc = "loop" /\ events # << >> /\ cur # listenfd

HandleLinkDown_OnlyContinues ==
  /\ AtConnection
  /\ rev \cap {"ERR", "HUP", "PRI"} # {}
  /\ NextEvent
  /\ UNCHANGED <<kernel, file, interest, rdl>>

\* EPOLLERR, EPOLLHUP (and EPOLLPRI, never asked for).
HandleLinkDown ==
  /\ AtConnection
  /\ rev \cap {"ERR", "HUP", "PRI"} # {}
  /\ CloseCur
  /\ NextEvent

Dispatch(event, place) ==
  /\ AtConnection
  /\ rev \cap {"ERR", "HUP", "PRI"} = {}
  /\ event \in rev
  /\ pc' = place
  /\ UNCHANGED <<kernel, file, interest, rdl, events>>

DispatchIn == Dispatch("IN", "recv")

DispatchOut == Dispatch("OUT", "write") /\ "IN" \notin rev

\* A read of n bytes; only a short one ends the loop.
Recv ==
  /\ pc = "recv"
  /\ \E n \in 1 .. (MAXLEN + 1) :
       /\ n <= curPeer.unread
       /\ peer' = [peer EXCEPT ![file[cur]].unread = @ - n]
       /\ pc' = IF n >= MAXLEN THEN "recv" ELSE "modout"
  /\ UNCHANGED <<backlog, file, interest, rdl, events>>

\* recv returns 0, or fails with ECONNRESET: close, and tag = false.
RecvEnds_KeepsTag ==
  /\ pc = "recv"
  /\ curPeer.unread = 0 /\ curPeer.eof # "no"
  /\ CloseCur
  /\ pc' = "modout"
  /\ UNCHANGED events

RecvEnds ==
  /\ pc = "recv"
  /\ curPeer.unread = 0 /\ curPeer.eof # "no"
  /\ CloseCur
  /\ NextEvent

\* EAGAIN.  (EINTR takes the same branch, but a socket that does not block is
\* not interrupted.)
RecvBreaks ==
  /\ pc = "recv"
  /\ curPeer.unread = 0 /\ curPeer.eof = "no"
  /\ pc' = "modout"
  /\ UNCHANGED <<kernel, file, interest, rdl, events>>

\* epoll_ctl MOD on the current descriptor.
Mod(asked) ==
  IF interest[cur] = None
  THEN /\ pc' = "ended"          \* ENOENT or EBADF: main returns -1
       /\ UNCHANGED <<kernel, file, interest, rdl, events>>
  ELSE /\ UNCHANGED <<kernel, file>>
       /\ Arm(cur, file[cur], asked)
       /\ NextEvent

ModOut == pc = "modout" /\ Mod({"OUT"})

\* The result of write is ignored: all, part or nothing is written ...
Write ==
  /\ pc = "write"
  /\ IF Reset(file[cur]) THEN peer' = [peer EXCEPT ![file[cur]].eof = "hup"]
     ELSE \E full \in BOOLEAN :
            peer' = [peer EXCEPT ![file[cur]].full = @ \/ full]
  /\ pc' = "modin"
  /\ UNCHANGED <<backlog, file, interest, rdl, events>>

\* ... or SIGPIPE ends the process.
BrokenPipe ==
  /\ pc = "write"
  /\ Reset(file[cur])
  /\ pc' = "ended"
  /\ UNCHANGED <<kernel, file, interest, rdl, events>>

ModIn_Forgotten ==
  /\ pc = "modin"
  /\ NextEvent
  /\ UNCHANGED <<kernel, file, interest, rdl>>

ModIn == pc = "modin" /\ Mod({"IN"})

-----------------------------------------------------------------------------
ServerNext ==
  \/ Start \/ StartFails
  \/ EpollWait
  \/ DispatchListen \/ AcceptOne \/ AcceptFails
  \/ HandleLinkDown \/ DispatchIn \/ DispatchOut
  \/ Recv \/ RecvEnds \/ RecvBreaks \/ ModOut
  \/ Write \/ BrokenPipe \/ ModIn

PeerNext ==
  \E p \in Peers :
    \/ Connect(p) \/ PeerSends(p) \/ PeerCloses(p) \/ PeerResets(p) \/ PeerDrains(p)

Next == ServerNext \/ EpollWaitInterrupted \/ PeerNext

\* The server runs whenever epoll_wait has something to report; nothing is
\* assumed of the peers.
Spec == Init /\ [][Next]_vars /\ WF_vars(ServerNext)

-----------------------------------------------------------------------------
(***************************************************************************)
(* Properties.                                                             *)
(***************************************************************************)
\* Types of the state.
TypeOK ==
  /\ peer \in [Peers -> PeerState]
  /\ backlog \in Seq(Peers)
  /\ file \in [Fds -> Peers \cup {"listen", None}]
  /\ interest \in [Fds -> {{"IN"}, {"OUT"}, None}]
  /\ rdl \in SUBSET Fds
  /\ \A k \in DOMAIN events :
       events[k] \in Fds \X SUBSET {"IN", "OUT", "ERR", "HUP"}
  /\ pc \in Places

\* An event reported earlier in the same array is still about the connection
\* that has its descriptor, although connections are closed and their numbers
\* given to accepted ones in between; so no epoll_ctl fails and main never
\* leaves its loop by a return.
EventsAreCurrent ==
  pc # "ended" =>
    /\ \A k \in DOMAIN events :
         LET fd == events[k][1]
         IN /\ file[fd] # None
            /\ fd # listenfd => events[k][2] \subseteq Wanted(interest[fd])
    /\ \A j, k \in DOMAIN events : events[j][1] = events[k][1] => j = k

\* The descriptors whose event was reported and is not yet handled.
Pending == {events[k][1] : k \in DOMAIN events}

\* Edge-triggered epoll reports a change once.  A connection that has something
\* to be done about it is on the ready list or among the events being handled:
\* no short read, ignored write or change of the events asked for loses an edge.
NoEdgeIsLost ==
  pc # "ended" =>
    \A fd \in Fds \ {listenfd} :
      file[fd] # None /\ fd \notin Pending /\ Reported(fd) # {} => fd \in rdl

\* What a peer sent is read, unless the connection ends or the peer does not
\* take the replies.
EveryByteIsRead ==
  \A p \in Peers :
    (peer[p].st = "open" /\ peer[p].unread > 0)
      ~> (peer[p].unread = 0 \/ peer[p].full \/ pc = "ended")

\* A connection the peer closed or reset gives its descriptor back, unless its
\* reply still waits for room.
ClosedPeerIsReleased ==
  \A p \in Peers :
    (peer[p].st = "open" /\ peer[p].eof # "no")
      ~> (peer[p].st # "open" \/ peer[p].full \/ pc = "ended")

=============================================================================
