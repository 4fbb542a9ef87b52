--------------------------- MODULE TcpServerProofs ---------------------------
(***************************************************************************)
(* The safety invariants of TcpServer, for any number of peers,            *)
(* descriptors and Socket objects: no pointer in epoll or in the list of   *)
(* active Channels dangles, and descriptors, Sockets and connections_      *)
(* agree.                                                                  *)
(*                                                                         *)
(* The three hold together: a Socket found through connections_ is the one *)
(* epoll points to because a live Channel is the one entry of connections_ *)
(* under its own descriptor.                                               *)
(***************************************************************************)
EXTENDS TcpServer, SequenceTheorems, FiniteSetTheorems, WellFoundedInduction, TLAPS

Activity == [ptr : Channels, revents : SUBSET {"IN", "OUT", "HUP", "ERR"}]

TableTypes ==
  /\ peer \in [Peers -> PeerState]
  /\ backlog \in Seq(Peers)
  /\ file \in [Fds -> Peers \cup {acceptor, None}]
  /\ pl \in PollerState
  /\ connections_ \in [AnyFd -> Channels \cup {None}]
  /\ app \in [Peers -> {"down", "up"}]

\* The backlog has every queued connection at most once, and no other.
BacklogIsQueued ==
  /\ \A n \in 1 .. Len(backlog) : peer[backlog[n]].st = "queued"
  /\ \A m, n \in 1 .. Len(backlog) : backlog[m] = backlog[n] => m = n

\* A live Channel is registered and asks to read; connections_ has it under its
\* own descriptor, and nothing else.
ChannelsOwned ==
  /\ \A c \in alive : kReadEvent \subseteq pl.chan[c].events_ /\ pl.chan[c].index_ = kAdded
  /\ \A c \in alive \ {acceptor} : connections_[pl.chan[c].fd_] = c
  /\ \A g \in AnyFd : connections_[g] # None =>
       connections_[g] \in alive /\ pl.chan[connections_[g]].fd_ = g /\ g # ListenFd
  /\ acceptor \in alive => pl.chan[acceptor].fd_ = ListenFd

\* The descriptor table: an open connection has one descriptor.
FilesOwned ==
  /\ \A fd \in Fds : file[fd] # None => pl.interest[fd] # None
  /\ \A fd \in Fds : file[fd] = acceptor => fd = ListenFd
  /\ file[ListenFd] \notin Peers
  /\ Listening => file[ListenFd] = acceptor /\ acceptor \in alive
  /\ \A fd \in Fds : file[fd] \in Peers => peer[file[fd]].st = "open"
  /\ \A f, g \in Fds : file[f] = file[g] /\ file[f] \in Peers => f = g

\* Before start() there is nothing.
NothingYet ==
  pc = "start" =>
    /\ \A c \in Channels : pl.chan[c] = None
    /\ \A fd \in Fds : file[fd] = None /\ pl.interest[fd] = None
    /\ \A g \in AnyFd : connections_[g] = None
    /\ active = << >>

\* A round of the loop has every Channel at most once, and tells the acceptor
\* of connections only.
RoundOK ==
  /\ active \in Seq(Activity)
  /\ pc \in {"handle", "send", "write", "freed"} => active # << >>
  /\ pc = "send" => cur # acceptor
  /\ \A i, j \in 1 .. Len(active) : active[i].ptr = active[j].ptr => i = j
  /\ \A i \in 1 .. Len(active) : active[i].ptr = acceptor => active[i].revents \subseteq {"IN"}

\* What the server keeps, and where its thread is.
TableInv ==
  /\ TableTypes
  /\ BacklogIsQueued
  /\ ChannelsOwned
  /\ FilesOwned
  /\ EpollPointersAlive
  /\ ConnectionsOwnDescriptors

RoundInv ==
  /\ NothingYet
  /\ RoundOK
  /\ ActiveChannelsAlive

ServerInv == TableInv /\ RoundInv

-----------------------------------------------------------------------------
(***************************************************************************)
(* What the operations of Channel and Poller do to the record they change. *)
(***************************************************************************)
Rec(chan, channels_, interest) ==
  [chan |-> chan, channels_ |-> channels_, interest |-> interest]

LEMMA PollerFields ==
  ASSUME NEW p \in PollerState
  PROVE  /\ p = Rec(p.chan, p.channels_, p.interest)
         /\ p.chan \in [Channels -> Channel \cup {None}]
         /\ p.channels_ \in [AnyFd -> Channels \cup {None}]
         /\ p.interest \in [Fds -> Entry \cup {None}]
  BY DEF PollerState, Rec

LEMMA RecFields ==
  ASSUME NEW a, NEW b, NEW d
  PROVE  Rec(a, b, d).chan = a /\ Rec(a, b, d).channels_ = b /\ Rec(a, b, d).interest = d
  BY DEF Rec

LEMMA RecType ==
  ASSUME NEW a \in [Channels -> Channel \cup {None}], NEW b \in [AnyFd -> Channels \cup {None}],
         NEW d \in [Fds -> Entry \cup {None}]
  PROVE  Rec(a, b, d) \in PollerState
  BY DEF Rec, PollerState

Put(f, x, v) == [f EXCEPT ![x] = v]

\* The assignments of updateChannel to a Channel that is new.
Added(p, c, fd) == [p EXCEPT !.chan[c].index_ = kAdded, !.channels_[fd] = c]

AddedChan(a, c) == [a EXCEPT ![c].index_ = kAdded]

LEMMA AddedIs ==
  ASSUME NEW a, NEW b, NEW d, NEW c, NEW fd
  PROVE  Added(Rec(a, b, d), c, fd) = Rec(AddedChan(a, c), Put(b, fd, c), d)
  <1>. DEFINE A == AddedChan(a, c)
              B == Put(b, fd, c)
              r == Rec(a, b, d)
  <1>1. Added(r, c, fd) = [r EXCEPT !.chan = A, !.channels_ = B]
    BY DEF Rec, Added, AddedChan, Put
  <1>. HIDE DEF A, B
  <1>2. [r EXCEPT !.chan = A] = Rec(A, b, d) /\ [Rec(A, b, d) EXCEPT !.channels_ = B] = Rec(A, B, d)
    BY DEF Rec
  <1>. HIDE DEF r
  <1>3. [r EXCEPT !.chan = A, !.channels_ = B] = [[r EXCEPT !.chan = A] EXCEPT !.channels_ = B]
    OBVIOUS
  <1>. QED
    BY <1>1, <1>2, <1>3 DEF A, B, r

\* What the kernel keeps of Channel c of a.
EntryOf(a, c) == [ptr |-> c, events |-> a[c].events_]

\* epoll_ctl is refused, or sets the entry of the Channel.
LEMMA UpdateIs ==
  ASSUME NEW a, NEW b, NEW d, NEW op \in {"ADD", "MOD", "DEL"}, NEW c, NEW opened
  PROVE  /\ a[c].fd_ \notin opened => update(Rec(a, b, d), op, c, opened) = Rec(a, b, d)
         /\ a[c].fd_ \in opened /\ op # "DEL" /\ (op = "ADD" <=> d[a[c].fd_] = None) =>
              update(Rec(a, b, d), op, c, opened) = Rec(a, b, Put(d, a[c].fd_, EntryOf(a, c)))
  <1>. DEFINE p == Rec(a, b, d)
  <1>1. p.chan = a /\ p.channels_ = b /\ p.interest = d
    BY DEF Rec
  <1>2. ASSUME a[c].fd_ \notin opened
        PROVE  update(p, op, c, opened) = p
    <2>. HIDE DEF p
    <2>. QED
      BY <1>1, <1>2 DEF update, CtlAllowed
  <1>3. ASSUME a[c].fd_ \in opened, op # "DEL", op = "ADD" <=> d[a[c].fd_] = None
        PROVE  update(p, op, c, opened) = Rec(a, b, Put(d, a[c].fd_, EntryOf(a, c)))
    <2>1. update(p, op, c, opened) = [p EXCEPT !.interest[a[c].fd_] = EntryOf(a, c)]
      <3>1. (op = "ADD") = (d[a[c].fd_] = None) /\ op # "DEL"
        BY <1>3
      <3>. HIDE DEF p
      <3>. QED
        BY <1>1, <1>3, <3>1 DEF update, CtlAllowed, EntryOf
    <2>. QED
      BY <2>1 DEF Rec, Put
  <1>. QED
    BY <1>2, <1>3

\* updateChannel of a Channel that is new.
LEMMA AddIs ==
  ASSUME NEW a, NEW b, NEW d, NEW c, NEW opened, NEW a2,
         a[c].index_ = kNew, a2 = AddedChan(a, c), a2[c].fd_ = a[c].fd_
  PROVE  /\ a[c].fd_ \notin opened =>
              updateChannel(Rec(a, b, d), c, opened) = Rec(a2, Put(b, a[c].fd_, c), d)
         /\ a[c].fd_ \in opened /\ d[a[c].fd_] = None =>
              updateChannel(Rec(a, b, d), c, opened) =
                Rec(a2, Put(b, a[c].fd_, c), Put(d, a[c].fd_, EntryOf(a2, c)))
  <1>. DEFINE p == Rec(a, b, d)
  <1>1. p.chan = a
    BY DEF Rec
  <1>2. updateChannel(p, c, opened) = update(Added(p, c, a[c].fd_), "ADD", c, opened)
    <2>. HIDE DEF p
    <2>. QED
      BY <1>1 DEF updateChannel, Added
  <1>3. Added(p, c, a[c].fd_) = Rec(a2, Put(b, a[c].fd_, c), d)
    BY AddedIs
  <1>. QED
    BY <1>2, <1>3, UpdateIs

\* updateChannel of a Channel that was added and still asks for something.
LEMMA ModIs ==
  ASSUME NEW a, NEW b, NEW d, NEW c, NEW opened,
         a[c].index_ = kAdded, a[c].events_ # {}
  PROVE  /\ a[c].fd_ \notin opened => updateChannel(Rec(a, b, d), c, opened) = Rec(a, b, d)
         /\ a[c].fd_ \in opened /\ d[a[c].fd_] # None =>
              updateChannel(Rec(a, b, d), c, opened) = Rec(a, b, Put(d, a[c].fd_, EntryOf(a, c)))
  <1>. DEFINE p == Rec(a, b, d)
  <1>1. p.chan = a
    BY DEF Rec
  <1>2. updateChannel(p, c, opened) = update(p, "MOD", c, opened)
    <2>. HIDE DEF p
    <2>. QED
      BY <1>1 DEF updateChannel, kAdded, kNew, kDeleted
  <1>. QED
    BY <1>2, UpdateIs

Registered(fd) == [fd_ |-> fd, events_ |-> kReadEvent, index_ |-> kAdded]

Asking(c) == [ptr |-> c, events |-> kReadEvent]

\* The constructor of Socket, on a good descriptor and on one that is not.
LEMMA NewSocketIs ==
  ASSUME NEW a \in [Channels -> Channel \cup {None}], NEW b, NEW d, NEW c \in Channels, NEW fd, NEW opened
  PROVE  /\ fd \notin opened =>
              NewSocket(Rec(a, b, d), c, fd, opened) = Rec(Put(a, c, Registered(fd)), Put(b, fd, c), d)
         /\ fd \in opened /\ d[fd] = None =>
              NewSocket(Rec(a, b, d), c, fd, opened) =
                Rec(Put(a, c, Registered(fd)), Put(b, fd, c), Put(d, fd, Asking(c)))
  <1>. DEFINE asks == [fd_ |-> fd, events_ |-> kReadEvent, index_ |-> kNew]
              a1 == Put(a, c, asks)
              a2 == Put(a, c, Registered(fd))
  <1>1. [Rec(a, b, d) EXCEPT !.chan[c] = NewChannel(fd)] = Rec(Put(a, c, NewChannel(fd)), b, d)
    BY DEF Rec, Put
  <1>2. [Rec(Put(a, c, NewChannel(fd)), b, d) EXCEPT !.chan[c].events_ = @ \cup kReadEvent]
          = Rec(a1, b, d)
    BY DEF Rec, NewChannel, Put
  <1>3. a1[c] = asks /\ a1[c].fd_ = fd /\ a1[c].index_ = kNew /\ a2[c] = Registered(fd)
        /\ a2[c].fd_ = fd /\ EntryOf(a2, c) = Asking(c)
    BY DEF Put, Registered, EntryOf, Asking
  <1>4. a2 = AddedChan(a1, c)
    <2>1. [asks EXCEPT !.index_ = kAdded] = Registered(fd)
      BY DEF Registered
    <2>2. [a1 EXCEPT ![c] = Registered(fd)] = a2
      BY DEF Put
    <2>. HIDE DEF a1, asks
    <2>. QED
      BY <1>3, <2>1, <2>2 DEF AddedChan
  <1>5. NewSocket(Rec(a, b, d), c, fd, opened) = updateChannel(Rec(a1, b, d), c, opened)
    BY <1>1, <1>2 DEF NewSocket, enableReading
  <1>. HIDE DEF asks, a1, a2
  <1>6. /\ fd \notin opened => updateChannel(Rec(a1, b, d), c, opened) = Rec(a2, Put(b, fd, c), d)
        /\ fd \in opened /\ d[fd] = None =>
             updateChannel(Rec(a1, b, d), c, opened) = Rec(a2, Put(b, fd, c), Put(d, fd, Asking(c)))
    BY <1>3, <1>4, AddIs
  <1>. QED
    BY <1>5, <1>6 DEF a2

\* TcpServer::accept registers the new Socket a second time, to no effect.
LEMMA MadeIs ==
  ASSUME NEW a \in [Channels -> Channel \cup {None}], NEW b,
         NEW d \in [Fds -> Entry \cup {None}], NEW c \in Channels, NEW fd \in AnyFd, NEW opened \in SUBSET Fds
  PROVE  /\ fd \notin opened =>
              updateChannel(NewSocket(Rec(a, b, d), c, fd, opened), c, opened) =
                Rec(Put(a, c, Registered(fd)), Put(b, fd, c), d)
         /\ fd \in opened /\ d[fd] = None =>
              updateChannel(NewSocket(Rec(a, b, d), c, fd, opened), c, opened) =
                Rec(Put(a, c, Registered(fd)), Put(b, fd, c), Put(d, fd, Asking(c)))
  <1>. DEFINE A == Put(a, c, Registered(fd))
              B == Put(b, fd, c)
              D == Put(d, fd, Asking(c))
  <1>1. /\ A[c].fd_ = fd /\ A[c].index_ = kAdded /\ A[c].events_ = kReadEvent
        /\ kReadEvent # {} /\ EntryOf(A, c) = Asking(c)
    BY DEF Put, Registered, EntryOf, Asking, kReadEvent
  <1>2. fd \in opened => D[fd] = Asking(c) /\ Put(D, fd, Asking(c)) = D
    BY DEF Put
  <1>3. Asking(c) # None
    BY PollerAssumption DEF Asking, kReadEvent
  <1>. HIDE DEF A, B, D
  <1>4. fd \notin opened => updateChannel(Rec(A, B, d), c, opened) = Rec(A, B, d)
    BY <1>1, ModIs
  <1>5. fd \in opened => updateChannel(Rec(A, B, D), c, opened) = Rec(A, B, D)
    <2>1. fd \in opened => D[fd] # None
      BY <1>2, <1>3
    <2>2. fd \in opened => updateChannel(Rec(A, B, D), c, opened) = Rec(A, B, Put(D, fd, Asking(c)))
      BY <1>1, <2>1, ModIs
    <2>. QED
      BY <1>2, <2>2
  <1>6. /\ fd \notin opened => NewSocket(Rec(a, b, d), c, fd, opened) = Rec(A, B, d)
        /\ fd \in opened /\ d[fd] = None => NewSocket(Rec(a, b, d), c, fd, opened) = Rec(A, B, D)
    BY NewSocketIs DEF A, B, D
  <1>. QED
    BY <1>4, <1>5, <1>6 DEF A, B, D

\* Channel c of a asks for the events e.
WithEvents(a, c, e) == [a EXCEPT ![c].events_ = e]

\* Channel c is in epoll.
InEpoll(a, d, c, opened) ==
  /\ a \in [Channels -> Channel \cup {None}] /\ a[c] \in Channel
  /\ a[c].index_ = kAdded /\ kReadEvent \subseteq a[c].events_
  /\ a[c].fd_ \in opened /\ d[a[c].fd_] # None

\* q is p after Channel c changed to the events e.
Writes(q, e, p, c, opened) ==
  \/ q = enableWriting(p, c, opened) /\ e = p.chan[c].events_ \cup kWriteEvent
  \/ q = disableWriting(p, c, opened) /\ e = p.chan[c].events_ \ kWriteEvent

\* enableWriting and disableWriting of a Channel in epoll.
LEMMA WritingIs ==
  ASSUME NEW a, NEW b, NEW d, NEW c \in Channels, NEW opened, InEpoll(a, d, c, opened),
         NEW e, NEW q, Writes(q, e, Rec(a, b, d), c, opened)
  PROVE  /\ q = Rec(WithEvents(a, c, e), b, Put(d, a[c].fd_, [ptr |-> c, events |-> e]))
         /\ kReadEvent \subseteq e /\ e \in SUBSET {"IN", "PRI", "OUT"}
  <1>. DEFINE A == WithEvents(a, c, e)
  <1>0. /\ a \in [Channels -> Channel \cup {None}] /\ a[c] \in Channel
        /\ a[c].index_ = kAdded /\ kReadEvent \subseteq a[c].events_
        /\ a[c].fd_ \in opened /\ d[a[c].fd_] # None
        /\ \/ q = enableWriting(Rec(a, b, d), c, opened) /\ e = a[c].events_ \cup kWriteEvent
           \/ q = disableWriting(Rec(a, b, d), c, opened) /\ e = a[c].events_ \ kWriteEvent
    BY RecFields DEF InEpoll, Writes
  <1>1. kReadEvent \subseteq e /\ e # {} /\ e \in SUBSET {"IN", "PRI", "OUT"}
    BY <1>0 DEF kReadEvent, kWriteEvent, Channel
  <1>2. A[c].fd_ = a[c].fd_ /\ A[c].index_ = kAdded /\ A[c].events_ = e
    BY <1>0 DEF WithEvents, Channel
  <1>3. q = updateChannel(Rec(A, b, d), c, opened)
    <2>1. [Rec(a, b, d) EXCEPT !.chan[c].events_ = a[c].events_ \cup kWriteEvent] =
            Rec(WithEvents(a, c, a[c].events_ \cup kWriteEvent), b, d)
      BY <1>0 DEF Rec, WithEvents
    <2>2. [Rec(a, b, d) EXCEPT !.chan[c].events_ = a[c].events_ \ kWriteEvent] =
            Rec(WithEvents(a, c, a[c].events_ \ kWriteEvent), b, d)
      BY <1>0 DEF Rec, WithEvents
    <2>3. Rec(a, b, d).chan[c].events_ = a[c].events_
      BY DEF Rec
    <2>4. CASE q = enableWriting(Rec(a, b, d), c, opened) /\ e = a[c].events_ \cup kWriteEvent
      BY <2>1, <2>3, <2>4 DEF enableWriting
    <2>5. CASE q = disableWriting(Rec(a, b, d), c, opened) /\ e = a[c].events_ \ kWriteEvent
      BY <2>2, <2>3, <2>5 DEF disableWriting
    <2>. QED
      BY <1>0, <2>4, <2>5
  <1>. HIDE DEF A
  <1>4. updateChannel(Rec(A, b, d), c, opened) = Rec(A, b, Put(d, a[c].fd_, EntryOf(A, c)))
    BY <1>0, <1>1, <1>2, ModIs
  <1>5. EntryOf(A, c) = [ptr |-> c, events |-> e]
    BY <1>2 DEF EntryOf
  <1>. QED
    BY <1>1, <1>3, <1>4, <1>5 DEF A

\* The destruction of a Channel whose descriptor was closed first.
Closed(p, fd, c, opened) == [removeChannel(CloseFd(p, fd), c, opened) EXCEPT !.chan[c] = None]

LEMMA CloseIs ==
  ASSUME NEW a \in [Channels -> Channel \cup {None}], NEW b, NEW d, NEW c \in Channels, NEW opened,
         NEW fd \in Fds, a[c].fd_ = fd, a[c].index_ = kAdded, fd \notin opened
  PROVE  Closed(Rec(a, b, d), fd, c, opened) = Rec(Put(a, c, None), Put(b, fd, None), Put(d, fd, None))
  <1>. DEFINE B == Put(b, fd, None)
              D == Put(d, fd, None)
              A == [a EXCEPT ![c].index_ = kNew]
  <1>1. CloseFd(Rec(a, b, d), fd) = Rec(a, b, D)
    BY PollerAssumption DEF CloseFd, BadFd, Rec, Put
  <1>2. [Rec(a, b, D) EXCEPT !.channels_[fd] = None] = Rec(a, B, D)
    BY DEF Rec, Put
  <1>. HIDE DEF B, D
  <1>3. Rec(a, b, D).chan = a
    BY DEF Rec
  <1>4. update(Rec(a, B, D), "DEL", c, opened) = Rec(a, B, D)
    BY UpdateIs
  <1>5. removeChannel(Rec(a, b, D), c, opened) = [Rec(a, B, D) EXCEPT !.chan[c].index_ = kNew]
    BY <1>2, <1>3, <1>4 DEF removeChannel
  <1>6. [Rec(a, B, D) EXCEPT !.chan[c].index_ = kNew] = Rec(A, B, D)
    BY DEF Rec
  <1>7. [A EXCEPT ![c] = None] = Put(a, c, None)
    BY DEF Put
  <1>. HIDE DEF A
  <1>8. [Rec(A, B, D) EXCEPT !.chan[c] = None] = Rec(Put(a, c, None), B, D)
    BY <1>7 DEF Rec
  <1>. QED
    BY <1>1, <1>5, <1>6, <1>8 DEF B, D, Closed

-----------------------------------------------------------------------------
(***************************************************************************)
(* Facts about one state.                                                  *)
(***************************************************************************)
LEMMA TableState ==
  ASSUME TableInv
  PROVE  /\ peer \in [Peers -> PeerState] /\ backlog \in Seq(Peers)
         /\ file \in [Fds -> Peers \cup {acceptor, None}]
         /\ connections_ \in [AnyFd -> Channels \cup {None}]
         /\ app \in [Peers -> {"down", "up"}]
         /\ pl \in PollerState /\ pl = Rec(pl.chan, pl.channels_, pl.interest)
         /\ pl.chan \in [Channels -> Channel \cup {None}]
         /\ pl.channels_ \in [AnyFd -> Channels \cup {None}]
         /\ pl.interest \in [Fds -> Entry \cup {None}]
         /\ \A c \in alive : c \in Channels /\ pl.chan[c] \in Channel /\ pl.chan[c].fd_ \in AnyFd
  <1>1. /\ pl \in PollerState /\ pl = Rec(pl.chan, pl.channels_, pl.interest)
        /\ pl.chan \in [Channels -> Channel \cup {None}]
        /\ pl.channels_ \in [AnyFd -> Channels \cup {None}]
        /\ pl.interest \in [Fds -> Entry \cup {None}]
    BY PollerFields DEF TableInv, TableTypes
  <1>2. \A c \in alive : c \in Channels /\ pl.chan[c] \in Channel
    BY <1>1 DEF alive
  <1>3. \A c \in alive : pl.chan[c].fd_ \in AnyFd
    BY <1>2 DEF Channel
  <1>. QED
    BY <1>1, <1>2, <1>3 DEF TableInv, TableTypes

\* The Channel whose event is handled is in epoll, and a connection's is the one
\* connections_ has under its descriptor.
LEMMA CurrentChannel ==
  ASSUME ServerInv, pc \in {"handle", "send", "write"}
  PROVE  /\ cur \in alive /\ cur \in Channels
         /\ curFd = pl.chan[cur].fd_ /\ curFd \in Fds /\ file[curFd] # None
         /\ pl.interest[curFd] # None /\ pl.interest[curFd].ptr = cur
         /\ cur = acceptor => rev \subseteq {"IN"}
         /\ cur # acceptor => /\ file[curFd] \in Peers /\ curFd # ListenFd
                              /\ connections_[curFd] = cur
  <1>. USE PollerAssumption, ServerAssumption
  <1>1. active \in Seq(Activity) /\ active # << >>
    BY DEF ServerInv, RoundInv, RoundOK
  <1>2. cur = active[1].ptr /\ rev = active[1].revents /\ 1 \in 1 .. Len(active)
    BY <1>1 DEF cur, rev
  <1>3. cur \in alive /\ \E fd \in open : pl.interest[fd] # None /\ pl.interest[fd].ptr = cur
    BY <1>2 DEF ServerInv, RoundInv, ActiveChannelsAlive
  <1>4. PICK fd \in open : pl.interest[fd] # None /\ pl.interest[fd].ptr = cur
    BY <1>3
  <1>5. fd \in Fds /\ file[fd] # None
    BY DEF open
  <1>6. pl.chan[cur].fd_ = fd
    BY <1>4, <1>5 DEF ServerInv, TableInv, EpollPointersAlive
  <1>7. curFd = fd
    BY <1>6 DEF curFd
  <1>8. cur \in Channels
    BY <1>3 DEF alive
  <1>9. cur = acceptor => rev \subseteq {"IN"}
    BY <1>2 DEF ServerInv, RoundInv, RoundOK
  <1>10. ASSUME cur # acceptor
         PROVE  file[fd] \in Peers /\ fd # ListenFd /\ connections_[fd] = cur
    <2>1. connections_[fd] = cur
      BY <1>3, <1>6, <1>10 DEF ServerInv, TableInv, ChannelsOwned
    <2>2. fd # ListenFd
      BY <1>5, <1>8, <2>1 DEF ServerInv, TableInv, ChannelsOwned, AnyFd
    <2>3. file[fd] # acceptor
      BY <1>5, <2>2 DEF ServerInv, TableInv, FilesOwned
    <2>. QED
      BY <1>5, <2>1, <2>2, <2>3 DEF ServerInv, TableInv, TableTypes
  <1>. QED
    BY <1>3, <1>4, <1>5, <1>6, <1>7, <1>8, <1>9, <1>10

-----------------------------------------------------------------------------
(***************************************************************************)
(* A step that leaves the descriptors, and one that leaves the Channels of *)
(* the round.                                                              *)
(***************************************************************************)
\* Bytes, ends of connections and errors: only a peer changes, and not its state.
SameConnections ==
  /\ peer' \in [Peers -> PeerState]
  /\ \A p \in Peers : peer'[p].st = peer[p].st
  /\ UNCHANGED <<backlog, file, pl, connections_, app>>

LEMMA TableKept ==
  ASSUME TableInv, SameConnections, Listening' => Listening
  PROVE  TableInv'
  <1>1. TableTypes'
    BY DEF TableInv, TableTypes, SameConnections
  <1>2. BacklogIsQueued'
    <2>1. \A n \in 1 .. Len(backlog) : backlog[n] \in Peers
      BY DEF TableInv, TableTypes
    <2>. QED
      BY <2>1 DEF TableInv, BacklogIsQueued, SameConnections
  <1>3. ChannelsOwned'
    BY DEF TableInv, ChannelsOwned, alive, SameConnections
  <1>4. FilesOwned'
    BY DEF TableInv, FilesOwned, alive, SameConnections
  <1>5. EpollPointersAlive'
    BY DEF TableInv, EpollPointersAlive, open, alive, SameConnections
  <1>6. ConnectionsOwnDescriptors'
    BY DEF TableInv, ConnectionsOwnDescriptors, alive, SameConnections
  <1>. QED
    BY <1>1, <1>2, <1>3, <1>4, <1>5, <1>6 DEF TableInv

\* No Channel is destroyed or taken out of epoll.
EntriesKept ==
  /\ alive \subseteq alive'
  /\ \A fd \in open : pl.interest[fd] # None =>
       fd \in open' /\ pl'.interest[fd] # None /\ pl'.interest[fd].ptr = pl.interest[fd].ptr

LEMMA EntriesUnchanged ==
  ASSUME UNCHANGED <<pl, file>>
  PROVE  EntriesKept
  BY DEF EntriesKept, alive, open

LEMMA RoundKept ==
  ASSUME RoundInv, EntriesKept, active' = active, pc # "freed",
         pc' \in {"handle", "send", "write"} => pc \in {"handle", "send", "write"},
         pc' = "send" => cur # acceptor, pc' \notin {"start", "freed"}, pc # "ended"
  PROVE  RoundInv'
  <1>1. NothingYet'
    BY DEF NothingYet
  <1>2. RoundOK'
    BY DEF RoundInv, RoundOK, cur
  <1>3. ActiveChannelsAlive'
    BY DEF RoundInv, ActiveChannelsAlive, EntriesKept
  <1>. QED
    BY <1>1, <1>2, <1>3 DEF RoundInv

\* The loop goes on to the next active Channel.
LEMMA RoundAdvances ==
  ASSUME RoundInv, EntriesKept, NextChannel, pc \in {"write", "freed"}
  PROVE  RoundInv'
  <1>1. /\ active \in Seq(Activity) /\ Len(active) \in Nat \ {0} /\ active # << >>
        /\ active' = Tail(active) /\ pc' = IF Len(active) > 1 THEN "handle" ELSE "poll"
    BY DEF RoundInv, RoundOK, NextChannel
  <1>2. /\ active' \in Seq(Activity) /\ Len(active') = Len(active) - 1
        /\ \A i \in 1 .. Len(active') : i + 1 \in 2 .. Len(active) /\ active'[i] = active[i + 1]
    BY <1>1
  <1>3. NothingYet'
    BY <1>1 DEF NothingYet
  <1>4. RoundOK'
    <2>1. pc' = "handle" => active' # << >>
      <3>1. pc' = "handle" => Len(active) > 1
        BY <1>1
      <3>2. Len(active) > 1 => Len(active') # 0
        <4>1. Len(active) \in Nat /\ Len(active') = Len(active) - 1
          BY <1>1, <1>2
        <4>2. \A n \in Nat : n > 1 => n - 1 # 0
          OBVIOUS
        <4>. QED
          BY <4>1, <4>2, Zenon
      <3>3. active' = << >> => Len(active') = 0
        OBVIOUS
      <3>. QED
        BY <3>1, <3>2, <3>3
    <2>2. ASSUME NEW i \in 1 .. Len(active'), NEW j \in 1 .. Len(active'),
                 active'[i].ptr = active'[j].ptr
          PROVE  i = j
      <3>1. i + 1 = j + 1
        BY <1>1, <1>2, <2>2 DEF RoundInv, RoundOK
      <3>. QED
        BY <1>1, <1>2, <3>1
    <2>3. \A i \in 1 .. Len(active') : active'[i].ptr = acceptor => active'[i].revents \subseteq {"IN"}
      BY <1>1, <1>2 DEF RoundInv, RoundOK
    <2>. QED
      BY <1>1, <1>2, <2>1, <2>2, <2>3 DEF RoundOK
  <1>5. ActiveChannelsAlive'
    <2>1. \A i \in 2 .. Len(active) :
            /\ active[i].ptr \in alive
            /\ \E fd \in open : pl.interest[fd] # None /\ pl.interest[fd].ptr = active[i].ptr
      BY <1>1 DEF RoundInv, ActiveChannelsAlive
    <2>2. \A i \in 2 .. Len(active) :
            /\ active[i].ptr \in alive'
            /\ \E fd \in open' : pl'.interest[fd] # None /\ pl'.interest[fd].ptr = active[i].ptr
      BY <2>1 DEF EntriesKept
    <2>3. pc' # "freed"
      BY <1>1
    <2>. QED
      BY <1>2, <2>2, <2>3 DEF ActiveChannelsAlive
  <1>. QED
    BY <1>3, <1>4, <1>5 DEF RoundInv

-----------------------------------------------------------------------------
(***************************************************************************)
(* Steps that change one field of a peer, or nothing but the place.        *)
(***************************************************************************)
LEMMA PeerField ==
  ASSUME peer \in [Peers -> PeerState], NEW p \in Peers,
         \/ \E v \in 0 .. MaxData : peer' = [peer EXCEPT ![p].data = v]
         \/ \E v \in {"no", "fin", "err", "hup"} : peer' = [peer EXCEPT ![p].eof = v]
         \/ \E v \in BOOLEAN : peer' = [peer EXCEPT ![p].full = v]
  PROVE  peer' \in [Peers -> PeerState] /\ \A q \in Peers : peer'[q].st = peer[q].st
  <1>1. ASSUME NEW v \in 0 .. MaxData, peer' = [peer EXCEPT ![p].data = v]
        PROVE  peer' \in [Peers -> PeerState] /\ \A q \in Peers : peer'[q].st = peer[q].st
    BY <1>1 DEF PeerState
  <1>2. ASSUME NEW v \in {"no", "fin", "err", "hup"}, peer' = [peer EXCEPT ![p].eof = v]
        PROVE  peer' \in [Peers -> PeerState] /\ \A q \in Peers : peer'[q].st = peer[q].st
    BY <1>2 DEF PeerState
  <1>3. ASSUME NEW v \in BOOLEAN, peer' = [peer EXCEPT ![p].full = v]
        PROVE  peer' \in [Peers -> PeerState] /\ \A q \in Peers : peer'[q].st = peer[q].st
    BY <1>3 DEF PeerState
  <1>. QED
    BY <1>1, <1>2, <1>3

LEMMA PeerActs ==
  ASSUME ServerInv, NEW p \in Peers,
         PeerSends(p) \/ PeerCloses(p) \/ PeerResets(p) \/ PeerDrains(p)
  PROVE  ServerInv'
  <1>. USE ServerAssumption
  <1>1. peer \in [Peers -> PeerState] /\ peer[p].data \in 0 .. MaxData
    BY TableState DEF ServerInv, PeerState
  <1>2. \/ \E v \in 0 .. MaxData : peer' = [peer EXCEPT ![p].data = v]
        \/ \E v \in {"no", "fin", "err", "hup"} : peer' = [peer EXCEPT ![p].eof = v]
        \/ \E v \in BOOLEAN : peer' = [peer EXCEPT ![p].full = v]
    <2>1. ASSUME PeerSends(p)
          PROVE  \E v \in 0 .. MaxData : peer' = [peer EXCEPT ![p].data = v]
      <3>1. peer[p].data + 1 \in 0 .. MaxData
        BY <1>1, <2>1 DEF PeerSends
      <3>2. peer' = [peer EXCEPT ![p].data = peer[p].data + 1]
        BY <2>1 DEF PeerSends
      <3>. QED
        BY <3>1, <3>2
    <2>. QED
      BY <2>1 DEF PeerCloses, PeerResets, PeerDrains
  <1>3. Listening /\ UNCHANGED <<backlog, file, pl, connections_, active, pc, app>>
    BY DEF PeerSends, PeerCloses, PeerResets, PeerDrains, serverVars, Connected
  <1>4. SameConnections
    BY <1>1, <1>2, <1>3, PeerField DEF SameConnections
  <1>5. TableInv'
    BY <1>3, <1>4, TableKept DEF ServerInv, Listening
  <1>6. RoundInv'
    <2>1. NothingYet'
      BY <1>3 DEF NothingYet, Listening
    <2>2. RoundOK' /\ ActiveChannelsAlive'
      BY <1>3 DEF ServerInv, RoundInv, RoundOK, ActiveChannelsAlive, alive, open, cur
    <2>. QED
      BY <2>1, <2>2 DEF RoundInv
  <1>. QED
    BY <1>5, <1>6 DEF ServerInv

\* The process ends.
LEMMA EndsStep ==
  ASSUME ServerInv, pc' = "ended", UNCHANGED <<peer, backlog, file, pl, connections_, active, app>>
  PROVE  ServerInv'
  <1>1. SameConnections
    BY TableState DEF ServerInv, SameConnections
  <1>2. TableInv'
    BY <1>1, TableKept DEF ServerInv, Listening
  <1>3. RoundInv'
    BY DEF ServerInv, RoundInv, NothingYet, RoundOK, ActiveChannelsAlive
  <1>. QED
    BY <1>2, <1>3 DEF ServerInv

\* The steps of a handler that touch at most the bytes of its connection.
LEMMA HandlerStep ==
  ASSUME ServerInv,
         ReadData \/ ReadError \/ NotReadable \/ SendAll \/ SendPart \/ SendError \/ PollRefused
  PROVE  ServerInv'
  <1>. USE ServerAssumption
  <1>1. /\ UNCHANGED <<backlog, file, pl, connections_, active, app>>
        /\ pc \in {"handle", "send", "poll"} /\ pc' \in {"send", "write", "deaf"}
        /\ pc' # "deaf" => pc \in {"handle", "send"}
        /\ pc' = "send" => cur # acceptor
    BY DEF ReadData, ReadError, NotReadable, SendAll, SendPart, SendError, PollRefused, Readable, kernelVars
  <1>2. SameConnections
    <2>1. CASE peer' = peer
      BY <1>1, <2>1, TableState DEF ServerInv, SameConnections
    <2>2. CASE ReadData \/ ReadError \/ SendAll \/ SendPart \/ SendError
      <3>1. cur # acceptor /\ pc \in {"handle", "send"}
        BY <2>2 DEF ReadData, ReadError, Readable, SendAll, SendPart, SendError, ServerInv, RoundInv,
                    RoundOK
      <3>2. PICK p \in Peers : p = curPeer
        BY <3>1, CurrentChannel DEF curPeer
      <3>3. peer \in [Peers -> PeerState] /\ peer[p].data \in 0 .. MaxData
        BY TableState DEF ServerInv, PeerState
      <3>4. \/ \E v \in 0 .. MaxData : peer' = [peer EXCEPT ![p].data = v]
            \/ \E v \in {"no", "fin", "err", "hup"} : peer' = [peer EXCEPT ![p].eof = v]
            \/ \E v \in BOOLEAN : peer' = [peer EXCEPT ![p].full = v]
        <4>1. ASSUME ReadData
              PROVE  \E v \in 0 .. MaxData : peer' = [peer EXCEPT ![p].data = v]
          <5>1. PICK n \in 1 .. peer[p].data : peer' = [peer EXCEPT ![p].data = @ - n]
            BY <3>2, <4>1 DEF ReadData
          <5>2. peer[p].data - n \in 0 .. MaxData
            BY <3>3
          <5>. QED
            BY <5>1, <5>2
        <4>. QED
          BY <2>2, <3>2, <4>1 DEF ReadError, SendAll, SendPart, SendError, handleError
      <3>. QED
        BY <1>1, <3>3, <3>4, PeerField DEF SameConnections
    <2>. QED
      BY <2>1, <2>2 DEF NotReadable, PollRefused, kernelVars
  <1>3. TableInv'
    BY <1>1, <1>2, TableKept DEF ServerInv, Listening
  <1>4. RoundInv'
    BY <1>1, EntriesUnchanged, RoundKept DEF ServerInv
  <1>. QED
    BY <1>3, <1>4 DEF ServerInv

\* The steps that end a handler, without touching a Channel.
LEMMA HandlerEnds ==
  ASSUME ServerInv, WritePart \/ WriteError \/ WriteNothing \/ AfterFree
  PROVE  ServerInv'
  <1>. USE ServerAssumption
  <1>1. /\ UNCHANGED <<backlog, file, pl, connections_, app>>
        /\ pc \in {"write", "freed"} /\ NextChannel
    BY DEF WritePart, WriteError, WriteNothing, AfterFree, kernelVars
  <1>2. SameConnections
    <2>1. CASE peer' = peer
      BY <1>1, <2>1, TableState DEF ServerInv, SameConnections
    <2>2. CASE WritePart \/ WriteError
      <3>1. pc = "write" /\ "OUT" \in rev
        BY <2>2 DEF WritePart, WriteError
      <3>2. cur # acceptor
        BY <3>1, CurrentChannel
      <3>3. PICK p \in Peers : p = curPeer
        BY <3>1, <3>2, CurrentChannel DEF curPeer
      <3>4. \/ \E v \in {"no", "fin", "err", "hup"} : peer' = [peer EXCEPT ![p].eof = v]
            \/ \E v \in BOOLEAN : peer' = [peer EXCEPT ![p].full = v]
        BY <2>2, <3>3 DEF WritePart, WriteError
      <3>. QED
        BY <1>1, <3>4, TableState, PeerField DEF ServerInv, SameConnections
    <2>. QED
      BY <2>1, <2>2 DEF WriteNothing, AfterFree, kernelVars
  <1>3. TableInv'
    BY <1>1, <1>2, TableKept DEF ServerInv, Listening
  <1>4. RoundInv'
    BY <1>1, EntriesUnchanged, RoundAdvances DEF ServerInv
  <1>. QED
    BY <1>3, <1>4 DEF ServerInv

-----------------------------------------------------------------------------
(***************************************************************************)
(* The backlog.                                                            *)
(***************************************************************************)
LEMMA RemoveAtIs ==
  ASSUME NEW S, NEW s \in Seq(S), NEW i \in 1 .. Len(s)
  PROVE  /\ RemoveAt(s, i) \in Seq(S) /\ Len(RemoveAt(s, i)) = Len(s) - 1
         /\ \A n \in 1 .. Len(s) - 1 : RemoveAt(s, i)[n] = IF n < i THEN s[n] ELSE s[n + 1]
  <1>. DEFINE l == SubSeq(s, 1, i - 1)
              r == SubSeq(s, i + 1, Len(s))
  <1>0. Len(s) \in Nat /\ i \in Nat /\ 1 <= i /\ i <= Len(s)
    OBVIOUS
  <1>1. l \in Seq(S) /\ Len(l) = i - 1 /\ \A n \in 1 .. i - 1 : l[n] = s[n]
    BY <1>0
  <1>2. r \in Seq(S) /\ Len(r) = Len(s) - i /\ \A n \in 1 .. Len(s) - i : r[n] = s[i + n]
    BY <1>0
  <1>. HIDE DEF l, r
  <1>3. /\ l \o r \in Seq(S) /\ Len(l \o r) = Len(s) - 1
        /\ \A n \in 1 .. Len(s) - 1 : (l \o r)[n] = IF n <= Len(l) THEN l[n] ELSE r[n - Len(l)]
    <2>1. /\ l \o r \in Seq(S) /\ Len(l \o r) = Len(l) + Len(r)
          /\ \A n \in 1 .. Len(l) + Len(r) : (l \o r)[n] = IF n <= Len(l) THEN l[n] ELSE r[n - Len(l)]
      BY <1>1, <1>2, ConcatProperties
    <2>2. Len(l) + Len(r) = Len(s) - 1
      BY <1>0, <1>1, <1>2
    <2>. QED
      BY <2>1, <2>2, Zenon
  <1>4. ASSUME NEW n \in 1 .. Len(s) - 1
        PROVE  (l \o r)[n] = IF n < i THEN s[n] ELSE s[n + 1]
    <2>1. CASE n < i
      BY <1>0, <1>1, <1>3, <2>1
    <2>2. CASE ~ (n < i)
      <3>1. n - (i - 1) \in 1 .. Len(s) - i /\ i + (n - (i - 1)) = n + 1 /\ ~ (n <= i - 1)
        BY <1>0, <2>2
      <3>. QED
        BY <1>1, <1>2, <1>3, <2>2, <3>1
    <2>. QED
      BY <2>1, <2>2
  <1>. QED
    BY <1>3, <1>4 DEF RemoveAt, l, r

\* A connection that has no descriptor enters or leaves the backlog.
LEMMA BacklogStep ==
  ASSUME ServerInv, Listening, NEW p \in Peers, peer[p].st # "open",
         peer' \in [Peers -> PeerState], \A q \in Peers : q # p => peer'[q].st = peer[q].st,
         backlog' \in Seq(Peers), BacklogIsQueued', UNCHANGED serverVars
  PROVE  ServerInv'
  <1>1. UNCHANGED <<file, pl, connections_, active, pc, app>>
    BY DEF serverVars
  <1>2. TableTypes'
    BY <1>1 DEF ServerInv, TableInv, TableTypes
  <1>3. ChannelsOwned' /\ EpollPointersAlive' /\ ConnectionsOwnDescriptors'
    BY <1>1 DEF ServerInv, TableInv, ChannelsOwned, EpollPointersAlive, ConnectionsOwnDescriptors, alive, open
  <1>4. FilesOwned'
    BY <1>1 DEF ServerInv, TableInv, FilesOwned, alive, Listening
  <1>5. NothingYet'
    BY <1>1 DEF NothingYet, Listening
  <1>6. RoundOK' /\ ActiveChannelsAlive'
    BY <1>1 DEF ServerInv, RoundInv, RoundOK, ActiveChannelsAlive, alive, open, cur
  <1>. QED
    BY <1>2, <1>3, <1>4, <1>5, <1>6 DEF ServerInv, TableInv, RoundInv

LEMMA ConnectStep ==
  ASSUME ServerInv, NEW p \in Peers, Connect(p)
  PROVE  ServerInv'
  <1>1. /\ peer \in [Peers -> PeerState] /\ backlog \in Seq(Peers) /\ peer[p].st = "idle"
        /\ peer' = [peer EXCEPT ![p].st = "queued"] /\ backlog' = Append(backlog, p)
        /\ Listening /\ UNCHANGED serverVars
    BY TableState DEF ServerInv, Connect
  <1>2. /\ peer' \in [Peers -> PeerState]
        /\ \A q \in Peers : peer'[q].st = IF q = p THEN "queued" ELSE peer[q].st
    BY <1>1 DEF PeerState
  <1>3. /\ backlog' \in Seq(Peers) /\ Len(backlog') = Len(backlog) + 1
        /\ backlog'[Len(backlog) + 1] = p /\ Len(backlog) \in Nat
        /\ \A n \in 1 .. Len(backlog) : backlog'[n] = backlog[n] /\ backlog[n] \in Peers
    BY <1>1
  <1>4. \A n \in 1 .. Len(backlog) : backlog[n] # p
    BY <1>1 DEF ServerInv, TableInv, BacklogIsQueued
  <1>5. BacklogIsQueued'
    BY <1>2, <1>3, <1>4 DEF ServerInv, TableInv, BacklogIsQueued
  <1>. QED
    BY <1>1, <1>2, <1>3, <1>5, BacklogStep

LEMMA PeerAbortsStep ==
  ASSUME ServerInv, NEW p \in Peers, PeerAborts(p)
  PROVE  ServerInv'
  <1>. USE ServerAssumption
  <1>1. /\ peer \in [Peers -> PeerState] /\ backlog \in Seq(Peers) /\ peer[p].st = "queued"
        /\ peer' = [peer EXCEPT ![p] = NoPeer] /\ Listening /\ UNCHANGED serverVars
    BY TableState DEF ServerInv, PeerAborts
  <1>2. /\ peer' \in [Peers -> PeerState]
        /\ \A q \in Peers : q # p => peer'[q].st = peer[q].st
    <2>1. NoPeer \in PeerState
      BY DEF NoPeer, PeerState
    <2>. QED
      BY <1>1, <2>1
  <1>3. PICK i \in 1 .. Len(backlog) : backlog[i] = p /\ backlog' = RemoveAt(backlog, i)
    BY <1>1 DEF PeerAborts
  <1>4. /\ backlog' \in Seq(Peers) /\ Len(backlog') = Len(backlog) - 1 /\ Len(backlog) \in Nat
        /\ \A n \in 1 .. Len(backlog) - 1 : backlog'[n] = IF n < i THEN backlog[n] ELSE backlog[n + 1]
    <2>1. backlog \in Seq(Peers)
      BY <1>1
    <2>2. /\ RemoveAt(backlog, i) \in Seq(Peers) /\ Len(RemoveAt(backlog, i)) = Len(backlog) - 1
          /\ \A n \in 1 .. Len(backlog) - 1 :
               RemoveAt(backlog, i)[n] = IF n < i THEN backlog[n] ELSE backlog[n + 1]
      BY <2>1, RemoveAtIs
    <2>. QED
      BY <1>3, <2>1, <2>2
  <1>5. BacklogIsQueued'
    <2>. DEFINE from(n) == IF n < i THEN n ELSE n + 1
    <2>1. \A n \in 1 .. Len(backlog') : from(n) \in 1 .. Len(backlog) /\ from(n) # i
      BY <1>4
    <2>2. \A m, n \in 1 .. Len(backlog') : from(m) = from(n) => m = n
      BY <1>4
    <2>3. \A n \in 1 .. Len(backlog') : backlog'[n] = backlog[from(n)]
      BY <1>4
    <2>. HIDE DEF from
    <2>4. \A n \in 1 .. Len(backlog') : backlog'[n] # p /\ backlog'[n] \in Peers
                                        /\ peer[backlog'[n]].st = "queued"
      BY <1>1, <1>3, <2>1, <2>3 DEF ServerInv, TableInv, BacklogIsQueued
    <2>5. \A m, n \in 1 .. Len(backlog') : backlog'[m] = backlog'[n] => m = n
      BY <2>1, <2>2, <2>3 DEF ServerInv, TableInv, BacklogIsQueued
    <2>. QED
      BY <1>2, <2>4, <2>5 DEF BacklogIsQueued
  <1>. QED
    BY <1>1, <1>2, <1>4, <1>5, BacklogStep

-----------------------------------------------------------------------------
(***************************************************************************)
(* TcpServer::start and EventLoop::loop.                                   *)
(***************************************************************************)
LEMMA NewChannelIsOne ==
  ASSUME NEW fd \in AnyFd, NEW c \in Channels
  PROVE  /\ Registered(fd) \in Channel /\ Registered(fd) # None /\ Registered(fd).fd_ = fd
         /\ Registered(fd).events_ = kReadEvent /\ Registered(fd).index_ = kAdded
         /\ Asking(c) \in Entry /\ Asking(c) # None
         /\ Asking(c).ptr = c /\ Asking(c).events = kReadEvent
  <1>1. Registered(fd) \in Channel /\ Asking(c) \in Entry
    BY DEF Registered, Channel, Asking, Entry, kReadEvent
  <1>. QED
    BY <1>1, PollerAssumption DEF Registered, Asking, Channel, Entry

LEMMA StartStep ==
  ASSUME ServerInv, Start
  PROVE  ServerInv'
  <1>. USE ServerAssumption, PollerAssumption
  <1>1. /\ pc = "start" /\ pc' = "poll" /\ file' = [file EXCEPT ![ListenFd] = acceptor]
        /\ pl' = NewSocket(pl, acceptor, ListenFd, {ListenFd})
        /\ UNCHANGED <<peer, backlog, connections_, active, app>>
    BY DEF Start, kernelVars
  <1>2. /\ \A c \in Channels : pl.chan[c] = None
        /\ \A fd \in Fds : file[fd] = None /\ pl.interest[fd] = None
        /\ \A g \in AnyFd : connections_[g] = None
        /\ active = << >>
    BY <1>1 DEF ServerInv, RoundInv, NothingYet
  <1>3. /\ peer \in [Peers -> PeerState] /\ backlog \in Seq(Peers)
        /\ file \in [Fds -> Peers \cup {acceptor, None}]
        /\ pl = Rec(pl.chan, pl.channels_, pl.interest)
        /\ pl.chan \in [Channels -> Channel \cup {None}]
        /\ pl.channels_ \in [AnyFd -> Channels \cup {None}]
        /\ pl.interest \in [Fds -> Entry \cup {None}]
    BY TableState DEF ServerInv
  <1>4. ListenFd \in AnyFd
    BY DEF AnyFd
  <1>5. pl' = Rec(Put(pl.chan, acceptor, Registered(ListenFd)), Put(pl.channels_, ListenFd, acceptor),
                  Put(pl.interest, ListenFd, Asking(acceptor)))
    <2>1. ListenFd \in {ListenFd} /\ pl.interest[ListenFd] = None
      BY <1>2
    <2>. QED
      BY <1>1, <1>3, <2>1, NewSocketIs
  <1>6. /\ pl'.chan = Put(pl.chan, acceptor, Registered(ListenFd))
        /\ pl'.interest = Put(pl.interest, ListenFd, Asking(acceptor))
        /\ pl'.channels_ = Put(pl.channels_, ListenFd, acceptor)
    BY <1>5, RecFields
  <1>7. /\ \A c \in Channels : pl'.chan[c] = IF c = acceptor THEN Registered(ListenFd) ELSE None
        /\ \A fd \in Fds : pl'.interest[fd] = IF fd = ListenFd THEN Asking(acceptor) ELSE None
        /\ pl'.channels_[ListenFd] = acceptor
        /\ \A fd \in Fds : file'[fd] = IF fd = ListenFd THEN acceptor ELSE None
    BY <1>1, <1>2, <1>3, <1>4, <1>6 DEF Put
  <1>8. /\ Registered(ListenFd) \in Channel /\ Registered(ListenFd) # None /\ Registered(ListenFd).fd_ = ListenFd
        /\ Registered(ListenFd).events_ = kReadEvent /\ Registered(ListenFd).index_ = kAdded
        /\ Asking(acceptor) \in Entry /\ Asking(acceptor) # None
        /\ Asking(acceptor).ptr = acceptor /\ Asking(acceptor).events = kReadEvent
    BY <1>4, NewChannelIsOne
  <1>9. TableTypes'
    <2>1. pl'.chan \in [Channels -> Channel \cup {None}]
      BY <1>3, <1>6, <1>8 DEF Put
    <2>2. pl'.channels_ \in [AnyFd -> Channels \cup {None}]
      BY <1>3, <1>6 DEF Put
    <2>3. pl'.interest \in [Fds -> Entry \cup {None}]
      BY <1>3, <1>6, <1>8 DEF Put
    <2>4. pl' \in PollerState
      BY <1>5, <1>6, <2>1, <2>2, <2>3, RecType
    <2>5. file' \in [Fds -> Peers \cup {acceptor, None}]
      BY <1>1, <1>3
    <2>. QED
      BY <1>1, <2>4, <2>5 DEF ServerInv, TableInv, TableTypes
  <1>10. alive' = {acceptor} /\ open' = {ListenFd}
    BY <1>7, <1>8 DEF alive, open
  <1>11. BacklogIsQueued'
    BY <1>1 DEF ServerInv, TableInv, BacklogIsQueued
  <1>12. ChannelsOwned'
    BY <1>1, <1>2, <1>7, <1>8, <1>10 DEF ChannelsOwned
  <1>13. FilesOwned'
    BY <1>7, <1>8, <1>10 DEF FilesOwned
  <1>14. EpollPointersAlive'
    BY <1>7, <1>8, <1>10 DEF EpollPointersAlive
  <1>15. ConnectionsOwnDescriptors'
    <2>1. \A fd \in Fds \ {ListenFd} : connections_'[fd] = None /\ file'[fd] = None
      BY <1>1, <1>2, <1>7 DEF AnyFd
    <2>2. \A p \in Peers : app[p] # "up"
      BY <1>2 DEF ServerInv, TableInv, ConnectionsOwnDescriptors
    <2>. QED
      BY <1>1, <1>10, <2>1, <2>2 DEF ConnectionsOwnDescriptors
  <1>16. RoundInv'
    BY <1>1, <1>2 DEF RoundInv, NothingYet, RoundOK, ActiveChannelsAlive
  <1>. QED
    BY <1>9, <1>11, <1>12, <1>13, <1>14, <1>15, <1>16 DEF ServerInv, TableInv

\* The pointers epoll gives back are live and different, and the acceptor's comes
\* with EPOLLIN.
LEMMA PollStep ==
  ASSUME ServerInv, Poll
  PROVE  ServerInv'
  <1>. USE ServerAssumption, PollerAssumption
  <1>1. /\ pc = "poll" /\ pc' = "handle" /\ UNCHANGED <<peer, backlog, file, pl, connections_, app>>
    BY DEF Poll, kernelVars
  <1>2. PICK report \in [{fd \in Fds : pl.interest[fd] # None} -> SUBSET {"IN", "OUT", "HUP", "ERR"}] :
          /\ \A fd \in {fd \in Fds : pl.interest[fd] # None} : report[fd] \in Reports(fd)
          /\ {fd \in {fd \in Fds : pl.interest[fd] # None} : report[fd] # {}} # {}
          /\ \E order \in Orders({fd \in {fd \in Fds : pl.interest[fd] # None} : report[fd] # {}}) :
               active' = fillActiveChannels(pl, order, report)
    BY DEF Poll
  <1>. DEFINE ready == {fd \in {fd \in Fds : pl.interest[fd] # None} : report[fd] # {}}
              n == Cardinality(ready)
  <1>3. PICK order \in Orders(ready) : active' = fillActiveChannels(pl, order, report)
    BY <1>2
  <1>4. ready \subseteq Fds /\ ready # {} /\ IsFiniteSet(ready)
    BY <1>2, FS_Subset
  <1>5. n \in Nat /\ n # 0
    BY <1>4, FS_CardinalityType, FS_EmptySet
  <1>6. order \in [1 .. n -> ready] /\ \A i, j \in 1 .. n : order[i] = order[j] => i = j
    BY DEF Orders
  <1>7. \A fd \in ready : /\ fd \in Fds /\ pl.interest[fd] # None /\ report[fd] \in Reports(fd)
                          /\ report[fd] \in SUBSET {"IN", "OUT", "HUP", "ERR"}
    BY <1>2
  <1>. HIDE DEF ready, n
  <1>8. \A fd \in ready : /\ fd \in open /\ pl.interest[fd].ptr \in alive
                          /\ pl.interest[fd].ptr \in Channels
                          /\ pl.chan[pl.interest[fd].ptr].fd_ = fd
    BY <1>7 DEF ServerInv, TableInv, EpollPointersAlive, alive
  <1>9. active' = [i \in 1 .. n |-> [ptr |-> pl.interest[order[i]].ptr, revents |-> report[order[i]]]]
    BY <1>3, <1>6 DEF fillActiveChannels
  <1>10. \A i \in 1 .. n : /\ order[i] \in ready
                           /\ [ptr |-> pl.interest[order[i]].ptr, revents |-> report[order[i]]] \in Activity
    BY <1>6, <1>7, <1>8 DEF Activity
  <1>11. active' \in Seq(Activity) /\ Len(active') = n
    <2>. DEFINE g(i) == [ptr |-> pl.interest[order[i]].ptr, revents |-> report[order[i]]]
    <2>1. active' = [i \in 1 .. n |-> g(i)] /\ \A i \in 1 .. n : g(i) \in Activity
      BY <1>9, <1>10
    <2>. HIDE DEF g
    <2>2. active' \in [1 .. n -> Activity] /\ DOMAIN active' = 1 .. n
      BY <2>1
    <2>3. active' \in Seq(Activity)
      BY <1>5, <2>2
    <2>. QED
      BY <1>5, <2>2, <2>3
  <1>12. \A i \in 1 .. n : active'[i].ptr = pl.interest[order[i]].ptr /\ active'[i].revents = report[order[i]]
    BY <1>9
  <1>13. SameConnections
    BY <1>1, TableState DEF ServerInv, SameConnections
  <1>14. TableInv'
    BY <1>1, <1>13, TableKept DEF ServerInv, Listening
  <1>15. RoundOK'
    <2>1. active' # << >>
      <3>1. active' = << >> => Len(active') = 0
        OBVIOUS
      <3>. QED
        BY <1>5, <1>11, <3>1
    <2>2. \A i, j \in 1 .. n : active'[i].ptr = active'[j].ptr => i = j
      BY <1>6, <1>8, <1>10, <1>12
    <2>3. ASSUME NEW i \in 1 .. n, active'[i].ptr = acceptor
          PROVE  active'[i].revents \subseteq {"IN"}
      <3>1. order[i] = ListenFd
        BY <1>8, <1>10, <1>12, <2>3 DEF ServerInv, TableInv, ChannelsOwned
      <3>2. file[ListenFd] = acceptor
        BY <1>1 DEF ServerInv, TableInv, FilesOwned, Listening
      <3>3. report[ListenFd] \in Reports(ListenFd)
        BY <1>7, <1>10, <3>1
      <3>4. Reports(ListenFd) = {IF backlog = << >> THEN {} ELSE {"IN"}}
        BY <3>2 DEF Reports
      <3>. QED
        BY <1>12, <3>1, <3>3, <3>4
    <2>. QED
      BY <1>1, <1>11, <2>1, <2>2, <2>3 DEF RoundOK
  <1>16. ActiveChannelsAlive'
    <2>1. \A i \in 1 .. n : /\ active'[i].ptr \in alive
                            /\ \E fd \in open : pl.interest[fd] # None /\ pl.interest[fd].ptr = active'[i].ptr
      <3>. SUFFICES ASSUME NEW i \in 1 .. n
                    PROVE  /\ active'[i].ptr \in alive
                           /\ \E fd \in open : pl.interest[fd] # None /\ pl.interest[fd].ptr = active'[i].ptr
        OBVIOUS
      <3>1. order[i] \in ready /\ active'[i].ptr = pl.interest[order[i]].ptr
        BY <1>10, <1>12
      <3>2. order[i] \in open /\ pl.interest[order[i]] # None /\ pl.interest[order[i]].ptr \in alive
        BY <1>7, <1>8, <3>1
      <3>. QED
        BY <3>1, <3>2
    <2>2. alive' = alive /\ open' = open
      BY <1>1 DEF alive, open
    <2>. QED
      BY <1>1, <1>11, <2>1, <2>2 DEF ActiveChannelsAlive
  <1>17. NothingYet'
    BY <1>1 DEF NothingYet
  <1>. QED
    BY <1>14, <1>15, <1>16, <1>17 DEF ServerInv, RoundInv

-----------------------------------------------------------------------------
(***************************************************************************)
(* The steps that change Channels.                                         *)
(***************************************************************************)
\* Channel::enableWriting and disableWriting keep the Channel in epoll: it never
\* asks for nothing.
LEMMA WritingTable ==
  ASSUME ServerInv, pc \in {"send", "write"}, Listening',
         pl' = enableWriting(pl, cur, open) \/ pl' = disableWriting(pl, cur, open),
         peer' \in [Peers -> PeerState], \A q \in Peers : peer'[q].st = peer[q].st,
         UNCHANGED <<backlog, file, connections_, app>>
  PROVE  TableInv' /\ EntriesKept
  <1>. USE ServerAssumption, PollerAssumption
  <1>1. PICK c \in Channels : c = cur
    BY CurrentChannel
  <1>2. PICK fd \in Fds : fd = curFd
    BY CurrentChannel
  <1>3. /\ c \in alive /\ pl.chan[c].fd_ = fd /\ fd \in open /\ pl.interest[fd] # None
        /\ pl.interest[fd].ptr = c
    BY <1>1, <1>2, CurrentChannel DEF open
  <1>4. /\ pl = Rec(pl.chan, pl.channels_, pl.interest)
        /\ pl.chan \in [Channels -> Channel \cup {None}]
        /\ pl.channels_ \in [AnyFd -> Channels \cup {None}]
        /\ pl.interest \in [Fds -> Entry \cup {None}]
        /\ \A x \in alive : x \in Channels /\ pl.chan[x] \in Channel
    BY TableState DEF ServerInv
  <1>5. pl.chan[c].index_ = kAdded /\ kReadEvent \subseteq pl.chan[c].events_
    BY <1>3 DEF ServerInv, TableInv, ChannelsOwned
  <1>6. PICK e : /\ pl' = Rec(WithEvents(pl.chan, c, e), pl.channels_,
                              Put(pl.interest, fd, [ptr |-> c, events |-> e]))
                 /\ kReadEvent \subseteq e /\ e \in SUBSET {"IN", "PRI", "OUT"}
    <2>1. \E e : Writes(pl', e, pl, c, open)
      BY <1>1 DEF Writes
    <2>2. PICK e : Writes(pl', e, pl, c, open)
      BY <2>1
    <2>. DEFINE a == pl.chan
                b == pl.channels_
                d == pl.interest
    <2>3. InEpoll(a, d, c, open) /\ a[c].fd_ = fd /\ pl = Rec(a, b, d)
      BY <1>3, <1>4, <1>5 DEF InEpoll
    <2>. HIDE DEF a, b, d
    <2>4. Writes(pl', e, Rec(a, b, d), c, open)
      BY <2>2, <2>3
    <2>5. /\ pl' = Rec(WithEvents(a, c, e), b, Put(d, a[c].fd_, [ptr |-> c, events |-> e]))
          /\ kReadEvent \subseteq e /\ e \in SUBSET {"IN", "PRI", "OUT"}
      BY <2>3, <2>4, WritingIs
    <2>. QED
      BY <2>3, <2>5 DEF a, b, d
  <1>7. /\ pl'.chan = WithEvents(pl.chan, c, e) /\ pl'.channels_ = pl.channels_
        /\ pl'.interest = Put(pl.interest, fd, [ptr |-> c, events |-> e])
    BY <1>6, RecFields
  <1>. DEFINE entry == [ptr |-> c, events |-> e]
  <1>8. entry \in Entry /\ entry # None /\ entry.ptr = c /\ entry.events = e
    <2>1. entry \in Entry
      BY <1>6 DEF Entry
    <2>. QED
      BY <2>1 DEF Entry
  <1>. HIDE DEF entry
  <1>9. /\ pl'.chan \in [Channels -> Channel \cup {None}]
        /\ pl'.chan[c] \in Channel /\ pl'.chan[c].fd_ = fd /\ pl'.chan[c].index_ = kAdded
        /\ pl'.chan[c].events_ = e
        /\ \A x \in Channels : x # c => pl'.chan[x] = pl.chan[x]
    <2>1. [pl.chan[c] EXCEPT !.events_ = e] \in Channel
      BY <1>3, <1>4, <1>6 DEF Channel
    <2>2. /\ [pl.chan[c] EXCEPT !.events_ = e].fd_ = fd
          /\ [pl.chan[c] EXCEPT !.events_ = e].index_ = kAdded
          /\ [pl.chan[c] EXCEPT !.events_ = e].events_ = e
      BY <1>3, <1>4, <1>5 DEF Channel
    <2>3. /\ pl'.chan[c] = [pl.chan[c] EXCEPT !.events_ = e]
          /\ \A x \in Channels : x # c => pl'.chan[x] = pl.chan[x]
      BY <1>4, <1>7 DEF WithEvents
    <2>4. pl'.chan \in [Channels -> Channel \cup {None}]
      BY <1>4, <1>7, <2>1 DEF WithEvents
    <2>. QED
      BY <2>1, <2>2, <2>3, <2>4
  <1>10. /\ pl'.interest \in [Fds -> Entry \cup {None}] /\ pl'.interest[fd] = entry
         /\ \A f \in Fds : f # fd => pl'.interest[f] = pl.interest[f]
    BY <1>4, <1>7, <1>8 DEF Put, entry
  <1>11. alive' = alive /\ open' = open /\ \A x \in alive : pl'.chan[x].fd_ = pl.chan[x].fd_
    <2>1. \A x \in Channels : pl'.chan[x] # None <=> pl.chan[x] # None
      BY <1>3, <1>9 DEF alive, Channel
    <2>. QED
      BY <1>3, <1>4, <1>9, <2>1 DEF alive, open
  <1>12. TableTypes'
    <2>1. pl' \in PollerState
      BY <1>4, <1>6, <1>7, <1>9, <1>10, RecType
    <2>. QED
      BY <2>1 DEF ServerInv, TableInv, TableTypes
  <1>13. BacklogIsQueued'
    <2>1. \A n \in 1 .. Len(backlog) : backlog[n] \in Peers
      BY DEF ServerInv, TableInv, TableTypes
    <2>. QED
      BY <2>1 DEF ServerInv, TableInv, BacklogIsQueued
  <1>14. ChannelsOwned'
    <2>1. \A x \in alive : kReadEvent \subseteq pl'.chan[x].events_ /\ pl'.chan[x].index_ = kAdded
      BY <1>4, <1>6, <1>9 DEF ServerInv, TableInv, ChannelsOwned
    <2>. QED
      BY <1>11, <2>1 DEF ServerInv, TableInv, ChannelsOwned
  <1>15. FilesOwned'
    <2>1. \A f \in Fds : pl.interest[f] # None => pl'.interest[f] # None
      BY <1>8, <1>10
    <2>2. Listening
      BY DEF Listening
    <2>. QED
      BY <1>11, <2>1, <2>2 DEF ServerInv, TableInv, FilesOwned
  <1>16. EpollPointersAlive'
    <2>. SUFFICES ASSUME NEW f \in Fds, pl'.interest[f] # None
                  PROVE  /\ f \in open /\ pl'.interest[f].ptr \in alive
                         /\ pl'.chan[pl'.interest[f].ptr].fd_ = f
                         /\ pl'.chan[pl'.interest[f].ptr].events_ = pl'.interest[f].events
                         /\ pl'.chan[pl'.interest[f].ptr].index_ = kAdded
                         /\ pl'.channels_[f] = pl'.interest[f].ptr
      BY <1>11 DEF EpollPointersAlive
    <2>1. CASE f = fd
      BY <1>3, <1>7, <1>8, <1>9, <1>10, <2>1 DEF ServerInv, TableInv, EpollPointersAlive
    <2>2. CASE f # fd
      <3>1. /\ f \in open /\ pl.interest[f].ptr \in alive /\ pl.chan[pl.interest[f].ptr].fd_ = f
            /\ pl.chan[pl.interest[f].ptr].events_ = pl.interest[f].events
            /\ pl.chan[pl.interest[f].ptr].index_ = kAdded
            /\ pl.channels_[f] = pl.interest[f].ptr
        BY <1>10, <2>2 DEF ServerInv, TableInv, EpollPointersAlive
      <3>2. pl.interest[f].ptr # c /\ pl.interest[f].ptr \in Channels
        BY <1>3, <1>4, <2>2, <3>1
      <3>. QED
        BY <1>7, <1>9, <1>10, <2>2, <3>1, <3>2
    <2>. QED
      BY <2>1, <2>2
  <1>17. ConnectionsOwnDescriptors'
    <2>1. ConnectionsOwnDescriptors
      BY DEF ServerInv, TableInv
    <2>2. \A f \in Fds \ {ListenFd} :
            connections_[f] # None => /\ connections_[f] \in alive
                                      /\ pl'.chan[connections_[f]].fd_ = f
                                      /\ app[file[f]] = "up"
      BY <1>11, <2>1 DEF ConnectionsOwnDescriptors
    <2>3. \A f \in Fds \ {ListenFd} : (connections_[f] # None) = (file[f] # None)
      BY <2>1 DEF ConnectionsOwnDescriptors
    <2>4. /\ alive \subseteq {acceptor} \cup {connections_[g] : g \in AnyFd}
          /\ \A p \in Peers : app[p] = "up" => \E f \in Fds : file[f] = p
      BY <2>1 DEF ConnectionsOwnDescriptors
    <2>5. \A f \in Fds \ {ListenFd} :
            /\ (connections_'[f] # None) = (file'[f] # None)
            /\ connections_'[f] # None => /\ connections_'[f] \in alive'
                                          /\ pl'.chan[connections_'[f]].fd_ = f
                                          /\ app'[file'[f]] = "up"
      BY <1>11, <2>2, <2>3
    <2>6. /\ alive' \subseteq {acceptor} \cup {connections_'[g] : g \in AnyFd}
          /\ \A p \in Peers : app'[p] = "up" => \E f \in Fds : file'[f] = p
      BY <1>11, <2>4
    <2>. QED
      BY <2>5, <2>6 DEF ConnectionsOwnDescriptors
  <1>18. EntriesKept
    BY <1>3, <1>8, <1>10, <1>11 DEF EntriesKept, open
  <1>. QED
    BY <1>12, <1>13, <1>14, <1>15, <1>16, <1>17, <1>18 DEF TableInv

LEMMA WritingStep ==
  ASSUME ServerInv, SendBlocked \/ WriteAll
  PROVE  ServerInv'
  <1>1. CASE SendBlocked
    <2>1. /\ pc = "send" /\ pc' = "write" /\ pl' = enableWriting(pl, cur, open) /\ active' = active
          /\ UNCHANGED <<peer, backlog, file, connections_, app>>
      BY <1>1 DEF SendBlocked, kernelVars
    <2>2. TableInv' /\ EntriesKept
      <3>1. peer' \in [Peers -> PeerState] /\ \A q \in Peers : peer'[q].st = peer[q].st
        BY <2>1, TableState DEF ServerInv
      <3>. QED
        BY <2>1, <3>1, WritingTable DEF Listening
    <2>3. RoundInv'
      BY <2>1, <2>2, RoundKept DEF ServerInv
    <2>. QED
      BY <2>2, <2>3 DEF ServerInv
  <1>2. CASE WriteAll
    <2>1. /\ pc = "write" /\ NextChannel /\ pl' = disableWriting(pl, cur, open)
          /\ UNCHANGED <<backlog, file, connections_, app>>
      BY <1>2 DEF WriteAll
    <2>2. peer' \in [Peers -> PeerState] /\ \A q \in Peers : peer'[q].st = peer[q].st
      <3>1. cur # acceptor
        BY <1>2, CurrentChannel DEF WriteAll
      <3>2. PICK p \in Peers : p = curPeer
        BY <2>1, <3>1, CurrentChannel DEF curPeer
      <3>3. \E v \in BOOLEAN : peer' = [peer EXCEPT ![p].full = v]
        BY <1>2, <3>2 DEF WriteAll
      <3>4. peer \in [Peers -> PeerState]
        BY TableState DEF ServerInv
      <3>. QED
        BY <3>3, <3>4, PeerField
    <2>3. Listening'
      BY <2>1 DEF Listening, NextChannel
    <2>4. TableInv' /\ EntriesKept
      BY <2>1, <2>2, <2>3, WritingTable
    <2>5. RoundInv'
      BY <2>1, <2>4, RoundAdvances DEF ServerInv
    <2>. QED
      BY <2>4, <2>5 DEF ServerInv
  <1>. QED
    BY <1>1, <1>2

\* Socket::handleClose of the connection whose event is handled.
LEMMA CloseTable ==
  ASSUME ServerInv, pc = "handle", cur # acceptor, handleClose(cur), backlog' = backlog
  PROVE  /\ TableInv' /\ alive' = alive \ {cur} /\ open' = open \ {curFd}
         /\ pl.interest[curFd].ptr = cur
         /\ \A f \in Fds : f # curFd => pl'.interest[f] = pl.interest[f]
  <1>. USE ServerAssumption, PollerAssumption
  <1>1. PICK c \in Channels : c = cur
    BY CurrentChannel
  <1>2. PICK fd \in Fds : fd = curFd
    BY CurrentChannel
  <1>3. PICK p \in Peers : p = file[fd]
    BY <1>2, CurrentChannel
  <1>4. /\ c \in alive /\ pl.chan[c].fd_ = fd /\ fd # ListenFd /\ connections_[fd] = c
        /\ pl.interest[fd].ptr = c /\ c # acceptor
    BY <1>1, <1>2, CurrentChannel
  <1>5. /\ peer \in [Peers -> PeerState] /\ backlog \in Seq(Peers)
        /\ file \in [Fds -> Peers \cup {acceptor, None}]
        /\ connections_ \in [AnyFd -> Channels \cup {None}]
        /\ app \in [Peers -> {"down", "up"}]
        /\ pl = Rec(pl.chan, pl.channels_, pl.interest)
        /\ pl.chan \in [Channels -> Channel \cup {None}]
        /\ pl.channels_ \in [AnyFd -> Channels \cup {None}]
        /\ pl.interest \in [Fds -> Entry \cup {None}]
        /\ \A x \in alive : x \in Channels /\ pl.chan[x] \in Channel /\ pl.chan[x].fd_ \in AnyFd
    BY TableState DEF ServerInv
  <1>6. /\ file' = [file EXCEPT ![fd] = None] /\ peer' = [peer EXCEPT ![p] = NoPeer]
        /\ pl' = [removeChannel(CloseFd(pl, fd), c, open \ {fd}) EXCEPT !.chan[c] = None]
        /\ connections_' = [connections_ EXCEPT ![fd] = None] /\ app' = [app EXCEPT ![p] = "down"]
        /\ pc' = "freed"
    BY <1>1, <1>3, <1>4 DEF handleClose, connectionClose
  <1>7. pl' = Rec(Put(pl.chan, c, None), Put(pl.channels_, fd, None), Put(pl.interest, fd, None))
    <2>. DEFINE a == pl.chan
                b == pl.channels_
                d == pl.interest
    <2>1. /\ a \in [Channels -> Channel \cup {None}] /\ a[c].fd_ = fd /\ a[c].index_ = kAdded
          /\ pl = Rec(a, b, d)
      BY <1>4, <1>5 DEF ServerInv, TableInv, ChannelsOwned
    <2>. HIDE DEF a, b, d
    <2>2. pl' = Closed(Rec(a, b, d), fd, c, open \ {fd})
      BY <1>6, <2>1 DEF Closed
    <2>3. fd \notin open \ {fd}
      OBVIOUS
    <2>4. Closed(Rec(a, b, d), fd, c, open \ {fd})
            = Rec(Put(a, c, None), Put(b, fd, None), Put(d, fd, None))
      BY <2>1, <2>3, CloseIs
    <2>. QED
      BY <2>2, <2>4 DEF a, b, d
  <1>8. /\ pl'.chan = Put(pl.chan, c, None) /\ pl'.channels_ = Put(pl.channels_, fd, None)
        /\ pl'.interest = Put(pl.interest, fd, None)
    BY <1>7, RecFields
  <1>9. fd \in AnyFd /\ Fds \subseteq AnyFd
    BY DEF AnyFd
  <1>10. /\ \A x \in Channels : pl'.chan[x] = IF x = c THEN None ELSE pl.chan[x]
         /\ \A f \in Fds : pl'.interest[f] = IF f = fd THEN None ELSE pl.interest[f]
         /\ \A g \in AnyFd : pl'.channels_[g] = IF g = fd THEN None ELSE pl.channels_[g]
    BY <1>5, <1>8, <1>9 DEF Put
  <1>11. /\ \A f \in Fds : file'[f] = IF f = fd THEN None ELSE file[f]
         /\ \A g \in AnyFd : connections_'[g] = IF g = fd THEN None ELSE connections_[g]
         /\ \A q \in Peers : app'[q] = IF q = p THEN "down" ELSE app[q]
         /\ \A q \in Peers : q # p => peer'[q] = peer[q]
    BY <1>5, <1>6, <1>9
  <1>12. alive' = alive \ {c} /\ open' = open \ {fd}
    <2>1. alive' = alive \ {c}
      BY <1>10 DEF alive
    <2>2. open' = open \ {fd}
      BY <1>11 DEF open
    <2>. QED
      BY <2>1, <2>2
  <1>13. \A f \in Fds : file[f] = p => f = fd
    BY <1>3 DEF ServerInv, TableInv, FilesOwned
  <1>14. TableTypes'
    <2>1. pl'.chan \in [Channels -> Channel \cup {None}]
      BY <1>5, <1>8 DEF Put
    <2>2. pl'.channels_ \in [AnyFd -> Channels \cup {None}]
      BY <1>5, <1>8 DEF Put
    <2>3. pl'.interest \in [Fds -> Entry \cup {None}]
      BY <1>5, <1>8 DEF Put
    <2>4. pl' \in PollerState
      BY <1>7, <1>8, <2>1, <2>2, <2>3, RecType
    <2>5. file' \in [Fds -> Peers \cup {acceptor, None}] /\ connections_' \in [AnyFd -> Channels \cup {None}]
      BY <1>5, <1>6
    <2>6. peer' \in [Peers -> PeerState] /\ app' \in [Peers -> {"down", "up"}]
      <3>1. NoPeer \in PeerState
        BY DEF NoPeer, PeerState
      <3>. QED
        BY <1>5, <1>6, <3>1
    <2>. QED
      BY <1>5, <2>4, <2>5, <2>6 DEF TableTypes
  <1>15. BacklogIsQueued'
    <2>1. \A n \in 1 .. Len(backlog) : backlog[n] \in Peers /\ backlog[n] # p
      BY <1>3, <1>5 DEF ServerInv, TableInv, BacklogIsQueued, FilesOwned
    <2>. QED
      BY <1>11, <2>1 DEF ServerInv, TableInv, BacklogIsQueued
  <1>16. ChannelsOwned'
    <2>1. \A x \in alive' : kReadEvent \subseteq pl'.chan[x].events_ /\ pl'.chan[x].index_ = kAdded
      BY <1>5, <1>10, <1>12 DEF ServerInv, TableInv, ChannelsOwned
    <2>2. \A x \in alive' \ {acceptor} : connections_'[pl'.chan[x].fd_] = x
      <3>. SUFFICES ASSUME NEW x \in alive \ {acceptor}, x # c
                    PROVE  connections_'[pl'.chan[x].fd_] = x
        BY <1>12
      <3>1. connections_[pl.chan[x].fd_] = x /\ pl'.chan[x] = pl.chan[x] /\ pl.chan[x].fd_ \in AnyFd
        BY <1>5, <1>10 DEF ServerInv, TableInv, ChannelsOwned
      <3>. QED
        BY <1>4, <1>11, <3>1
    <2>3. ASSUME NEW g \in AnyFd, connections_'[g] # None
          PROVE  connections_'[g] \in alive' /\ pl'.chan[connections_'[g]].fd_ = g /\ g # ListenFd
      <3>1. g # fd /\ connections_'[g] = connections_[g]
        BY <1>11, <2>3
      <3>2. connections_[g] \in alive /\ pl.chan[connections_[g]].fd_ = g /\ g # ListenFd
        BY <2>3, <3>1 DEF ServerInv, TableInv, ChannelsOwned
      <3>3. connections_[g] # c
        BY <1>4, <3>1, <3>2
      <3>. QED
        BY <1>5, <1>10, <1>12, <3>1, <3>2, <3>3
    <2>4. acceptor \in alive' => pl'.chan[acceptor].fd_ = ListenFd
      BY <1>4, <1>10, <1>12 DEF ServerInv, TableInv, ChannelsOwned
    <2>. QED
      BY <2>1, <2>2, <2>3, <2>4 DEF ChannelsOwned
  <1>17. FilesOwned'
    <2>1. \A f \in Fds : file'[f] # None => pl'.interest[f] # None
      BY <1>10, <1>11 DEF ServerInv, TableInv, FilesOwned
    <2>2. \A f \in Fds : file'[f] = acceptor => f = ListenFd
      BY <1>11 DEF ServerInv, TableInv, FilesOwned
    <2>3. file'[ListenFd] = acceptor /\ acceptor \in alive' /\ file'[ListenFd] \notin Peers
      BY <1>4, <1>11, <1>12 DEF ServerInv, TableInv, FilesOwned, Listening
    <2>4. \A f \in Fds : file'[f] \in Peers => file'[f] = file[f] /\ file[f] # p
      BY <1>11, <1>13
    <2>5. \A f \in Fds : file'[f] \in Peers => peer'[file'[f]].st = "open"
      BY <1>11, <2>4 DEF ServerInv, TableInv, FilesOwned
    <2>6. \A f, g \in Fds : file'[f] = file'[g] /\ file'[f] \in Peers => f = g
      BY <2>4 DEF ServerInv, TableInv, FilesOwned
    <2>. QED
      BY <2>1, <2>2, <2>3, <2>5, <2>6 DEF FilesOwned
  <1>18. EpollPointersAlive'
    <2>. SUFFICES ASSUME NEW f \in Fds, pl'.interest[f] # None
                  PROVE  /\ f \in open' /\ pl'.interest[f].ptr \in alive'
                         /\ pl'.chan[pl'.interest[f].ptr].fd_ = f
                         /\ pl'.chan[pl'.interest[f].ptr].events_ = pl'.interest[f].events
                         /\ pl'.chan[pl'.interest[f].ptr].index_ = kAdded
                         /\ pl'.channels_[f] = pl'.interest[f].ptr
      BY DEF EpollPointersAlive
    <2>1. f # fd /\ pl'.interest[f] = pl.interest[f] /\ pl'.channels_[f] = pl.channels_[f]
      BY <1>9, <1>10
    <2>2. /\ f \in open /\ pl.interest[f].ptr \in alive /\ pl.chan[pl.interest[f].ptr].fd_ = f
          /\ pl.chan[pl.interest[f].ptr].events_ = pl.interest[f].events
          /\ pl.chan[pl.interest[f].ptr].index_ = kAdded
          /\ pl.channels_[f] = pl.interest[f].ptr
      BY <2>1 DEF ServerInv, TableInv, EpollPointersAlive
    <2>3. pl.interest[f].ptr # c /\ pl.interest[f].ptr \in Channels
      BY <1>4, <1>5, <2>1, <2>2
    <2>. QED
      BY <1>10, <1>12, <2>1, <2>2, <2>3
  <1>19. ConnectionsOwnDescriptors'
    <2>1. ConnectionsOwnDescriptors
      BY DEF ServerInv, TableInv
    <2>2. \A f \in Fds \ {ListenFd} : connections_'[f] # None <=> file'[f] # None
      BY <1>9, <1>11, <2>1 DEF ConnectionsOwnDescriptors
    <2>3. ASSUME NEW f \in Fds \ {ListenFd}, connections_'[f] # None
          PROVE  /\ connections_'[f] \in alive' /\ pl'.chan[connections_'[f]].fd_ = f
                 /\ app'[file'[f]] = "up"
      <3>1. connections_'[f] \in alive' /\ pl'.chan[connections_'[f]].fd_ = f
        BY <1>9, <1>16, <2>3 DEF ChannelsOwned
      <3>2. f # fd /\ connections_[f] # None /\ file'[f] = file[f]
        BY <1>9, <1>11, <2>3
      <3>3. app[file[f]] = "up" /\ file[f] # None
        BY <2>1, <3>2 DEF ConnectionsOwnDescriptors
      <3>4. file[f] \in Peers /\ file[f] # p
        BY <1>5, <1>13, <3>2, <3>3 DEF ServerInv, TableInv, FilesOwned
      <3>. QED
        BY <1>11, <3>1, <3>2, <3>3, <3>4
    <2>4. \A f \in Fds \ {ListenFd} :
            /\ (connections_'[f] # None) = (file'[f] # None)
            /\ connections_'[f] # None => /\ connections_'[f] \in alive'
                                          /\ pl'.chan[connections_'[f]].fd_ = f
                                          /\ app'[file'[f]] = "up"
      BY <2>2, <2>3
    <2>5. alive' \subseteq {acceptor} \cup {connections_'[g] : g \in AnyFd}
      <3>. SUFFICES ASSUME NEW x \in alive', x # acceptor
                    PROVE  \E g \in AnyFd : connections_'[g] = x
        OBVIOUS
      <3>1. connections_'[pl'.chan[x].fd_] = x
        BY <1>16 DEF ChannelsOwned
      <3>2. pl'.chan[x].fd_ \in AnyFd
        BY <1>5, <1>10, <1>12
      <3>. QED
        BY <3>1, <3>2
    <2>6. ASSUME NEW q \in Peers, app'[q] = "up"
          PROVE  \E f \in Fds : file'[f] = q
      <3>1. q # p /\ app[q] = "up"
        BY <1>11, <2>6
      <3>2. PICK f \in Fds : file[f] = q
        BY <2>1, <3>1 DEF ConnectionsOwnDescriptors
      <3>3. file'[f] = q
        BY <1>3, <1>11, <3>1, <3>2
      <3>. QED
        BY <3>3
    <2>. QED
      BY <2>4, <2>5, <2>6 DEF ConnectionsOwnDescriptors
  <1>. QED
    BY <1>1, <1>2, <1>4, <1>10, <1>12, <1>14, <1>15, <1>16, <1>17, <1>18, <1>19 DEF TableInv

LEMMA CloseStep ==
  ASSUME ServerInv, HandleHangUp \/ ReadEof
  PROVE  ServerInv'
  <1>1. pc = "handle" /\ handleClose(cur) /\ backlog' = backlog /\ active' = active /\ pc' = "freed"
    BY DEF HandleHangUp, ReadEof, Readable, handleClose
  <1>2. cur # acceptor
    <2>1. HandleHangUp => "HUP" \in rev
      BY DEF HandleHangUp, HangUp
    <2>. QED
      BY <1>1, <2>1, CurrentChannel DEF ReadEof, Readable
  <1>3. /\ TableInv' /\ alive' = alive \ {cur} /\ open' = open \ {curFd}
        /\ pl.interest[curFd].ptr = cur
        /\ \A f \in Fds : f # curFd => pl'.interest[f] = pl.interest[f]
    BY <1>1, <1>2, CloseTable
  <1>4. active \in Seq(Activity) /\ active # << >>
    BY <1>1 DEF ServerInv, RoundInv, RoundOK
  <1>5. cur = active[1].ptr /\ 1 \in 1 .. Len(active) /\ Len(active) \in Nat
    BY <1>4 DEF cur
  <1>6. ActiveChannelsAlive'
    <2>. SUFFICES ASSUME NEW i \in 2 .. Len(active)
                  PROVE  /\ active[i].ptr \in alive'
                         /\ \E fd \in open' : pl'.interest[fd] # None /\ pl'.interest[fd].ptr = active[i].ptr
      BY <1>1 DEF ActiveChannelsAlive
    <2>1. i \in 1 .. Len(active) /\ i # 1
      BY <1>5
    <2>2. active[i].ptr # cur
      BY <1>5, <2>1 DEF ServerInv, RoundInv, RoundOK
    <2>3. active[i].ptr \in alive
      BY <1>1, <2>1 DEF ServerInv, RoundInv, ActiveChannelsAlive
    <2>4. PICK fd \in open : pl.interest[fd] # None /\ pl.interest[fd].ptr = active[i].ptr
      BY <1>1, <2>1 DEF ServerInv, RoundInv, ActiveChannelsAlive
    <2>5. fd # curFd /\ fd \in Fds
      BY <1>3, <2>2, <2>4 DEF open
    <2>. QED
      BY <1>3, <2>2, <2>3, <2>4, <2>5
  <1>7. NothingYet' /\ RoundOK'
    BY <1>1, <1>4 DEF NothingYet, ServerInv, RoundInv, RoundOK
  <1>. QED
    BY <1>3, <1>6, <1>7 DEF ServerInv, RoundInv

LEMMA LeastIs ==
  ASSUME NEW S \in SUBSET Nat, S # {}
  PROVE  \E x \in S : \A y \in S : x <= y
  <1>1. PICK x \in S : \A y \in S : ~ (<<y, x>> \in OpToRel(<, Nat))
    BY NatLessThanWellFounded, WFMin
  <1>2. \A y \in S : ~ (y < x)
    BY <1>1 DEF OpToRel
  <1>. QED
    BY <1>2

\* The descriptor of a new connection is in no table any more.
LEMMA FreeIsUnused ==
  ASSUME ServerInv, Listening, NEW fd \in free
  PROVE  /\ fd \in Fds /\ file[fd] = None /\ fd # ListenFd
         /\ pl.interest[fd] = None /\ connections_[fd] = None
  <1>. USE ServerAssumption, PollerAssumption
  <1>1. fd \in Fds /\ file[fd] = None /\ fd \notin open
    BY DEF free, open
  <1>2. fd # ListenFd
    BY <1>1 DEF ServerInv, TableInv, FilesOwned
  <1>3. pl.interest[fd] = None
    BY <1>1 DEF ServerInv, TableInv, EpollPointersAlive
  <1>4. connections_[fd] = None
    BY <1>1, <1>2 DEF ServerInv, TableInv, ConnectionsOwnDescriptors
  <1>. QED
    BY <1>1, <1>2, <1>3, <1>4

\* A Socket on descriptor fd is new: where it and the old ones are.
NewOne(c, fd) ==
  /\ c \notin alive /\ c # acceptor /\ connections_[fd] = None /\ fd # ListenFd
  /\ pl'.chan \in [Channels -> Channel \cup {None}]
  /\ \A x \in Channels : pl'.chan[x] = IF x = c THEN Registered(fd) ELSE pl.chan[x]
  /\ \A g \in AnyFd : connections_'[g] = IF g = fd THEN c ELSE connections_[g]

LEMMA NewOneOwned ==
  ASSUME TableInv, NEW c \in Channels, NEW fd \in AnyFd, NewOne(c, fd)
  PROVE  /\ ChannelsOwned' /\ alive' = alive \cup {c}
         /\ alive' \subseteq {acceptor} \cup {connections_'[g] : g \in AnyFd}
         /\ pl'.chan[c] = Registered(fd)
         /\ \A x \in alive : x # c /\ pl'.chan[x] = pl.chan[x]
  <1>. USE PollerAssumption
  <1>1. /\ Registered(fd) \in Channel /\ Registered(fd) # None /\ Registered(fd).fd_ = fd
        /\ Registered(fd).events_ = kReadEvent /\ Registered(fd).index_ = kAdded
    BY NewChannelIsOne
  <1>2. \A x \in Channels : pl'.chan[x] = IF x = c THEN Registered(fd) ELSE pl.chan[x]
    BY DEF NewOne
  <1>3. \A g \in AnyFd : connections_'[g] = IF g = fd THEN c ELSE connections_[g]
    BY DEF NewOne
  <1>4. alive' = alive \cup {c}
    BY <1>1, <1>2 DEF alive
  <1>5. \A x \in alive : /\ x \in Channels /\ x # c /\ pl'.chan[x] = pl.chan[x]
                         /\ pl.chan[x].fd_ \in AnyFd
    BY <1>2, TableState DEF NewOne
  <1>6. pl'.chan[c] = Registered(fd)
    BY <1>2
  <1>7. \A x \in alive' : kReadEvent \subseteq pl'.chan[x].events_ /\ pl'.chan[x].index_ = kAdded
    <2>1. \A x \in alive : kReadEvent \subseteq pl.chan[x].events_ /\ pl.chan[x].index_ = kAdded
      BY DEF TableInv, ChannelsOwned
    <2>. QED
      BY <1>1, <1>4, <1>5, <1>6, <2>1
  <1>8. ASSUME NEW x \in alive', x # acceptor
        PROVE  connections_'[pl'.chan[x].fd_] = x /\ pl'.chan[x].fd_ \in AnyFd
    <2>1. CASE x = c
      BY <1>1, <1>3, <1>6, <2>1
    <2>2. CASE x # c
      <3>1. x \in alive /\ connections_[pl.chan[x].fd_] = x
        BY <1>4, <1>8, <2>2 DEF TableInv, ChannelsOwned
      <3>2. pl.chan[x].fd_ # fd
        BY <1>5, <3>1 DEF NewOne
      <3>. QED
        BY <1>3, <1>5, <3>1, <3>2
    <2>. QED
      BY <2>1, <2>2
  <1>9. ASSUME NEW g \in AnyFd, connections_'[g] # None
        PROVE  connections_'[g] \in alive' /\ pl'.chan[connections_'[g]].fd_ = g /\ g # ListenFd
    <2>1. CASE g = fd
      BY <1>1, <1>3, <1>4, <1>6, <2>1 DEF NewOne
    <2>2. CASE g # fd
      <3>1. connections_'[g] = connections_[g]
        BY <1>3, <2>2
      <3>2. connections_[g] \in alive /\ pl.chan[connections_[g]].fd_ = g /\ g # ListenFd
        BY <1>9, <3>1 DEF TableInv, ChannelsOwned
      <3>. QED
        BY <1>4, <1>5, <3>1, <3>2
    <2>. QED
      BY <2>1, <2>2
  <1>10. acceptor \in alive' => pl'.chan[acceptor].fd_ = ListenFd
    <2>1. acceptor \in alive' => acceptor \in alive
      BY <1>4 DEF NewOne
    <2>. QED
      BY <1>5, <2>1 DEF TableInv, ChannelsOwned
  <1>11. ChannelsOwned'
    BY <1>7, <1>8, <1>9, <1>10 DEF ChannelsOwned
  <1>12. alive' \subseteq {acceptor} \cup {connections_'[g] : g \in AnyFd}
    <2>1. \A x \in alive' : x = acceptor \/ \E g \in AnyFd : connections_'[g] = x
      BY <1>8
    <2>. QED
      BY <2>1
  <1>. QED
    BY <1>4, <1>5, <1>6, <1>11, <1>12

\* TcpServer::accept of a connection.
LEMMA AcceptStep ==
  ASSUME ServerInv, accept
  PROVE  ServerInv'
  <1>. USE ServerAssumption, PollerAssumption
  <1>1. /\ pc = "handle" /\ pc' = "write" /\ backlog # << >> /\ free # {} /\ Listening
        /\ backlog' = Tail(backlog) /\ active' = active
    BY DEF accept, Accepting, Listening
  <1>2. /\ peer \in [Peers -> PeerState] /\ backlog \in Seq(Peers)
        /\ file \in [Fds -> Peers \cup {acceptor, None}]
        /\ connections_ \in [AnyFd -> Channels \cup {None}]
        /\ app \in [Peers -> {"down", "up"}]
        /\ pl = Rec(pl.chan, pl.channels_, pl.interest)
        /\ pl.chan \in [Channels -> Channel \cup {None}]
        /\ pl.channels_ \in [AnyFd -> Channels \cup {None}]
        /\ pl.interest \in [Fds -> Entry \cup {None}]
        /\ \A x \in alive : x \in Channels /\ pl.chan[x] \in Channel /\ pl.chan[x].fd_ \in AnyFd
    BY TableState DEF ServerInv
  <1>3. PICK p \in Peers : p = Head(backlog)
    BY <1>1, <1>2
  <1>4. PICK fd \in free : fd = LowestFree
    <2>1. free \in SUBSET Nat
      BY DEF free
    <2>2. \E x \in free : \A y \in free : x <= y
      BY <1>1, <2>1, LeastIs
    <2>. QED
      BY <2>2 DEF LowestFree
  <1>5. /\ fd \in Fds /\ file[fd] = None /\ fd # ListenFd /\ fd \in AnyFd
        /\ pl.interest[fd] = None /\ connections_[fd] = None
    BY <1>1, FreeIsUnused DEF AnyFd
  <1>6. PICK c \in Channels \ alive : /\ file' = [file EXCEPT ![fd] = p]
                                      /\ Register(c, fd, open \cup {fd})
    <2>1. Allocate(Channels \ alive) \subseteq Channels \ alive
      BY AllocateAssumption
    <2>. QED
      BY <1>3, <1>4, <2>1 DEF accept
  <1>7. /\ peer' = [peer EXCEPT ![p].st = "open"] /\ app' = [app EXCEPT ![p] = "up"]
    BY <1>3 DEF accept
  <1>8. /\ connections_' = [connections_ EXCEPT ![fd] = c]
        /\ pl' = updateChannel(NewSocket(pl, c, fd, open \cup {fd}), c, open \cup {fd})
    BY <1>5, <1>6 DEF Register
  <1>9. pl' = Rec(Put(pl.chan, c, Registered(fd)), Put(pl.channels_, fd, c), Put(pl.interest, fd, Asking(c)))
    <2>. DEFINE a == pl.chan
                b == pl.channels_
                d == pl.interest
                opened == open \cup {fd}
    <2>1. /\ a \in [Channels -> Channel \cup {None}] /\ d \in [Fds -> Entry \cup {None}]
          /\ opened \in SUBSET Fds /\ fd \in opened /\ d[fd] = None /\ pl = Rec(a, b, d)
          /\ pl' = updateChannel(NewSocket(pl, c, fd, opened), c, opened)
      BY <1>2, <1>5, <1>8 DEF open
    <2>. HIDE DEF a, b, d, opened
    <2>2. pl' = updateChannel(NewSocket(Rec(a, b, d), c, fd, opened), c, opened)
      BY <2>1
    <2>3. updateChannel(NewSocket(Rec(a, b, d), c, fd, opened), c, opened) =
            Rec(Put(a, c, Registered(fd)), Put(b, fd, c), Put(d, fd, Asking(c)))
      BY <1>5, <2>1, MadeIs
    <2>. QED
      BY <2>2, <2>3 DEF a, b, d
  <1>10. /\ pl'.chan = Put(pl.chan, c, Registered(fd)) /\ pl'.channels_ = Put(pl.channels_, fd, c)
         /\ pl'.interest = Put(pl.interest, fd, Asking(c))
    BY <1>9, RecFields
  <1>11. /\ Registered(fd) \in Channel /\ Registered(fd) # None /\ Registered(fd).fd_ = fd
         /\ Registered(fd).events_ = kReadEvent /\ Registered(fd).index_ = kAdded
         /\ Asking(c) \in Entry /\ Asking(c) # None
         /\ Asking(c).ptr = c /\ Asking(c).events = kReadEvent
    BY <1>5, NewChannelIsOne
  <1>12. /\ pl'.chan \in [Channels -> Channel \cup {None}]
         /\ pl'.channels_ \in [AnyFd -> Channels \cup {None}]
         /\ pl'.interest \in [Fds -> Entry \cup {None}]
    <2>1. pl'.chan \in [Channels -> Channel \cup {None}]
      BY <1>2, <1>10, <1>11 DEF Put
    <2>2. pl'.channels_ \in [AnyFd -> Channels \cup {None}]
      <3>1. /\ pl.channels_ \in [AnyFd -> Channels \cup {None}] /\ c \in Channels \cup {None}
            /\ pl'.channels_ = [pl.channels_ EXCEPT ![fd] = c]
        BY <1>2, <1>10 DEF Put
      <3>. QED
        BY <3>1, Zenon
    <2>3. pl'.interest \in [Fds -> Entry \cup {None}]
      BY <1>2, <1>10, <1>11, ZenonT(60) DEF Put
    <2>. QED
      BY <2>1, <2>2, <2>3
  <1>13. /\ \A f \in Fds : pl'.interest[f] = IF f = fd THEN Asking(c) ELSE pl.interest[f]
         /\ \A g \in AnyFd : pl'.channels_[g] = IF g = fd THEN c ELSE pl.channels_[g]
    BY <1>2, <1>10 DEF Put
  <1>14. /\ \A f \in Fds : file'[f] = IF f = fd THEN p ELSE file[f]
         /\ \A q \in Peers : app'[q] = IF q = p THEN "up" ELSE app[q]
    BY <1>2, <1>6, <1>7
  <1>15. /\ peer' \in [Peers -> PeerState]
         /\ \A q \in Peers : peer'[q].st = IF q = p THEN "open" ELSE peer[q].st
    <2>1. /\ peer \in [Peers -> PeerState] /\ "open" \in {"idle", "queued", "open"}
          /\ peer' = [peer EXCEPT ![p].st = "open"]
      BY <1>2, <1>7
    <2>. HIDE ServerAssumption, PollerAssumption
    <2>. QED
      BY <2>1 DEF PeerState
  <1>16. NewOne(c, fd)
    <2>1. acceptor \in alive
      BY <1>1 DEF ServerInv, TableInv, FilesOwned
    <2>2. \A x \in Channels : pl'.chan[x] = IF x = c THEN Registered(fd) ELSE pl.chan[x]
      BY <1>2, <1>10 DEF Put
    <2>3. \A g \in AnyFd : connections_'[g] = IF g = fd THEN c ELSE connections_[g]
      BY <1>2, <1>8
    <2>. QED
      BY <1>5, <1>12, <2>1, <2>2, <2>3 DEF NewOne
  <1>17. /\ ChannelsOwned' /\ alive' = alive \cup {c}
         /\ alive' \subseteq {acceptor} \cup {connections_'[g] : g \in AnyFd}
         /\ pl'.chan[c] = Registered(fd)
         /\ \A x \in alive : x # c /\ pl'.chan[x] = pl.chan[x]
    BY <1>5, <1>16, NewOneOwned DEF ServerInv
  <1>18. open' = open \cup {fd}
    BY <1>5, <1>14 DEF open
  <1>19. /\ Len(backlog) \in Nat \ {0} /\ p = backlog[1] /\ 1 \in 1 .. Len(backlog)
         /\ backlog' \in Seq(Peers) /\ Len(backlog') = Len(backlog) - 1
         /\ \A n \in 1 .. Len(backlog') : /\ n + 1 \in 1 .. Len(backlog) /\ n + 1 # 1
                                          /\ backlog'[n] = backlog[n + 1] /\ backlog'[n] \in Peers
    BY <1>1, <1>2, <1>3
  <1>20. peer[p].st = "queued" /\ \A f \in Fds : file[f] # p
    BY <1>19 DEF ServerInv, TableInv, BacklogIsQueued, FilesOwned
  <1>21. TableTypes'
    <2>1. pl' \in PollerState
      BY <1>9, <1>10, <1>12, RecType
    <2>2. file' \in [Fds -> Peers \cup {acceptor, None}]
      BY <1>2, <1>6
    <2>3. connections_' \in [AnyFd -> Channels \cup {None}]
      BY <1>2, <1>8
    <2>4. app' \in [Peers -> {"down", "up"}]
      BY <1>2, <1>7
    <2>. QED
      BY <1>15, <1>19, <2>1, <2>2, <2>3, <2>4 DEF TableTypes
  <1>22. BacklogIsQueued'
    <2>1. \A n \in 1 .. Len(backlog') : backlog'[n] # p /\ peer[backlog'[n]].st = "queued"
      BY <1>19 DEF ServerInv, TableInv, BacklogIsQueued
    <2>2. ASSUME NEW m \in 1 .. Len(backlog'), NEW n \in 1 .. Len(backlog'), backlog'[m] = backlog'[n]
          PROVE  m = n
      <3>1. m + 1 = n + 1
        BY <1>19, <2>2 DEF ServerInv, TableInv, BacklogIsQueued
      <3>. QED
        BY <3>1, <1>19
    <2>3. \A n \in 1 .. Len(backlog') : peer'[backlog'[n]].st = "queued"
      BY <1>15, <1>19, <2>1
    <2>. QED
      BY <2>2, <2>3 DEF BacklogIsQueued
  <1>23. FilesOwned'
    <2>1. \A f \in Fds : file'[f] # None => pl'.interest[f] # None
      BY <1>11, <1>13, <1>14 DEF ServerInv, TableInv, FilesOwned
    <2>2. \A f \in Fds : file'[f] = acceptor => f = ListenFd
      BY <1>14 DEF ServerInv, TableInv, FilesOwned
    <2>3. file'[ListenFd] = acceptor /\ acceptor \in alive' /\ file'[ListenFd] \notin Peers
      BY <1>1, <1>5, <1>14, <1>17 DEF ServerInv, TableInv, FilesOwned
    <2>4. \A f \in Fds : file'[f] \in Peers => peer'[file'[f]].st = "open"
      BY <1>14, <1>15 DEF ServerInv, TableInv, FilesOwned
    <2>5. ASSUME NEW f \in Fds, NEW g \in Fds, file'[f] = file'[g], file'[f] \in Peers
          PROVE  f = g
      <3>1. f = fd <=> g = fd
        BY <1>14, <1>20, <2>5
      <3>2. f # fd /\ g # fd => file[f] = file[g] /\ file[f] \in Peers
        BY <1>14, <2>5
      <3>. QED
        BY <3>1, <3>2 DEF ServerInv, TableInv, FilesOwned
    <2>. QED
      BY <2>1, <2>2, <2>3, <2>4, <2>5 DEF FilesOwned
  <1>24. EpollPointersAlive'
    <2>. SUFFICES ASSUME NEW f \in Fds, pl'.interest[f] # None
                  PROVE  /\ f \in open' /\ pl'.interest[f].ptr \in alive'
                         /\ pl'.chan[pl'.interest[f].ptr].fd_ = f
                         /\ pl'.chan[pl'.interest[f].ptr].events_ = pl'.interest[f].events
                         /\ pl'.chan[pl'.interest[f].ptr].index_ = kAdded
                         /\ pl'.channels_[f] = pl'.interest[f].ptr
      BY DEF EpollPointersAlive
    <2>0. f \in AnyFd
      BY DEF AnyFd
    <2>1. CASE f = fd
      <3>1. pl'.interest[f] = Asking(c) /\ pl'.channels_[f] = c
        BY <1>13, <2>0, <2>1
      <3>. QED
        BY <1>11, <1>17, <1>18, <2>1, <3>1
    <2>2. CASE f # fd
      <3>1. pl'.interest[f] = pl.interest[f] /\ pl'.channels_[f] = pl.channels_[f]
        BY <1>13, <2>0, <2>2
      <3>2. /\ f \in open /\ pl.interest[f].ptr \in alive /\ pl.chan[pl.interest[f].ptr].fd_ = f
            /\ pl.chan[pl.interest[f].ptr].events_ = pl.interest[f].events
            /\ pl.chan[pl.interest[f].ptr].index_ = kAdded
            /\ pl.channels_[f] = pl.interest[f].ptr
        BY <3>1 DEF ServerInv, TableInv, EpollPointersAlive
      <3>. QED
        BY <1>17, <1>18, <3>1, <3>2
    <2>. QED
      BY <2>1, <2>2
  <1>25. ConnectionsOwnDescriptors'
    <2>1. ConnectionsOwnDescriptors /\ Fds \subseteq AnyFd
      BY DEF ServerInv, TableInv, AnyFd
    <2>2. \A g \in AnyFd : connections_'[g] = IF g = fd THEN c ELSE connections_[g]
      BY <1>16 DEF NewOne
    <2>3. \A f \in Fds \ {ListenFd} : connections_'[f] # None <=> file'[f] # None
      BY <1>14, <2>1, <2>2 DEF ConnectionsOwnDescriptors
    <2>4. ASSUME NEW f \in Fds \ {ListenFd}, connections_'[f] # None
          PROVE  /\ connections_'[f] \in alive' /\ pl'.chan[connections_'[f]].fd_ = f
                 /\ app'[file'[f]] = "up"
      <3>1. connections_'[f] \in alive' /\ pl'.chan[connections_'[f]].fd_ = f
        BY <1>17, <2>1, <2>4 DEF ChannelsOwned
      <3>2. CASE f = fd
        BY <1>14, <3>1, <3>2
      <3>3. CASE f # fd
        <4>1. connections_[f] # None /\ file'[f] = file[f]
          BY <1>14, <2>1, <2>2, <2>4, <3>3
        <4>2. app[file[f]] = "up" /\ file[f] # None
          BY <2>1, <4>1 DEF ConnectionsOwnDescriptors
        <4>3. file[f] \in Peers
          BY <1>2, <4>2 DEF ServerInv, TableInv, FilesOwned
        <4>. QED
          BY <1>14, <3>1, <4>1, <4>2, <4>3
      <3>. QED
        BY <3>2, <3>3
    <2>5. \A f \in Fds \ {ListenFd} :
            /\ (connections_'[f] # None) = (file'[f] # None)
            /\ connections_'[f] # None => /\ connections_'[f] \in alive'
                                          /\ pl'.chan[connections_'[f]].fd_ = f
                                          /\ app'[file'[f]] = "up"
      BY <2>3, <2>4
    <2>6. ASSUME NEW q \in Peers, app'[q] = "up"
          PROVE  \E f \in Fds : file'[f] = q
      <3>1. CASE q = p
        BY <1>5, <1>14, <3>1
      <3>2. CASE q # p
        <4>1. PICK f \in Fds : file[f] = q
          BY <1>14, <2>1, <2>6, <3>2 DEF ConnectionsOwnDescriptors
        <4>2. f # fd /\ file'[f] = q
          BY <1>5, <1>14, <4>1
        <4>. QED
          BY <4>2
      <3>. QED
        BY <3>1, <3>2
    <2>. QED
      BY <1>17, <2>5, <2>6 DEF ConnectionsOwnDescriptors
  <1>26. TableInv'
    BY <1>17, <1>21, <1>22, <1>23, <1>24, <1>25 DEF TableInv
  <1>27. EntriesKept
    <2>1. \A f \in open : f \in Fds /\ f # fd
      BY <1>5 DEF open
    <2>. QED
      BY <1>13, <1>17, <1>18, <2>1 DEF EntriesKept
  <1>28. RoundInv'
    BY <1>1, <1>27, RoundKept DEF ServerInv
  <1>. QED
    BY <1>26, <1>28 DEF ServerInv

\* TcpServer::accept after a failed accept: a Socket on descriptor -1, which
\* epoll refuses.  Only the first of them stays.
LEMMA AcceptFailsStep ==
  ASSUME ServerInv, acceptFails
  PROVE  ServerInv'
  <1>. USE ServerAssumption, PollerAssumption
  <1>1. /\ pc = "handle" /\ pc' = "write" /\ Listening
        /\ UNCHANGED <<peer, backlog, file, active, app>>
    BY DEF acceptFails, Accepting, Listening, kernelVars
  <1>2. PICK c \in Channels \ alive : Register(c, BadFd, open)
    BY AllocateAssumption DEF acceptFails
  <1>3. /\ connections_ \in [AnyFd -> Channels \cup {None}]
        /\ pl = Rec(pl.chan, pl.channels_, pl.interest)
        /\ pl.chan \in [Channels -> Channel \cup {None}]
        /\ pl.channels_ \in [AnyFd -> Channels \cup {None}]
        /\ pl.interest \in [Fds -> Entry \cup {None}]
        /\ \A x \in alive : x \in Channels /\ pl.chan[x] \in Channel /\ pl.chan[x].fd_ \in AnyFd
    BY TableState DEF ServerInv
  <1>4. /\ BadFd \in AnyFd /\ BadFd \notin Fds /\ BadFd # ListenFd /\ open \in SUBSET Fds
        /\ BadFd \notin open
    BY DEF AnyFd, BadFd, open
  <1>. DEFINE made == updateChannel(NewSocket(pl, c, BadFd, open), c, open)
  <1>5. made = Rec(Put(pl.chan, c, Registered(BadFd)), Put(pl.channels_, BadFd, c), pl.interest)
    <2>. DEFINE a == pl.chan
                b == pl.channels_
                d == pl.interest
    <2>1. /\ a \in [Channels -> Channel \cup {None}] /\ d \in [Fds -> Entry \cup {None}]
          /\ pl = Rec(a, b, d)
      BY <1>3
    <2>. HIDE DEF a, b, d
    <2>2. made = updateChannel(NewSocket(Rec(a, b, d), c, BadFd, open), c, open)
      BY <2>1
    <2>3. updateChannel(NewSocket(Rec(a, b, d), c, BadFd, open), c, open) =
            Rec(Put(a, c, Registered(BadFd)), Put(b, BadFd, c), d)
      BY <1>4, <2>1, MadeIs
    <2>. QED
      BY <2>2, <2>3 DEF a, b, d
  <1>6. Registered(BadFd) \in Channel
    BY <1>4, NewChannelIsOne
  <1>7. /\ Put(pl.chan, c, Registered(BadFd)) \in [Channels -> Channel \cup {None}]
        /\ Put(pl.channels_, BadFd, c) \in [AnyFd -> Channels \cup {None}]
    <2>1. Put(pl.chan, c, Registered(BadFd)) \in [Channels -> Channel \cup {None}]
      BY <1>3, <1>6 DEF Put
    <2>2. Put(pl.channels_, BadFd, c) \in [AnyFd -> Channels \cup {None}]
      <3>1. pl.channels_ \in [AnyFd -> Channels \cup {None}] /\ c \in Channels \cup {None}
        BY <1>3
      <3>. QED
        BY <3>1 DEF Put
    <2>. QED
      BY <2>1, <2>2
  <1>8. /\ connections_' = [connections_ EXCEPT ![BadFd] = IF connections_[BadFd] = None THEN c ELSE @]
        /\ pl' = IF connections_[BadFd] = None THEN made ELSE [made EXCEPT !.chan[c] = None]
    BY <1>2 DEF Register
  <1>. HIDE DEF made
  \* What both outcomes leave, and that live Channels are as they were.
  <1>9. /\ pl' \in PollerState /\ pl'.interest = pl.interest
        /\ connections_' \in [AnyFd -> Channels \cup {None}]
        /\ \A f \in Fds : connections_'[f] = connections_[f] /\ pl'.channels_[f] = pl.channels_[f]
        /\ alive \subseteq alive' /\ \A x \in alive : pl'.chan[x] = pl.chan[x]
        /\ ChannelsOwned'
        /\ alive' \subseteq {acceptor} \cup {connections_'[g] : g \in AnyFd}
    <2>0. acceptor \in alive /\ c # acceptor
      BY <1>1 DEF ServerInv, TableInv, FilesOwned
    <2>1. CASE connections_[BadFd] = None
      <3>1. /\ connections_' = [connections_ EXCEPT ![BadFd] = c]
            /\ pl' = Rec(Put(pl.chan, c, Registered(BadFd)), Put(pl.channels_, BadFd, c), pl.interest)
        BY <1>5, <1>8, <2>1
      <3>2. /\ pl'.chan = Put(pl.chan, c, Registered(BadFd)) /\ pl'.interest = pl.interest
            /\ pl'.channels_ = Put(pl.channels_, BadFd, c)
        BY <3>1, RecFields
      <3>3. pl' \in PollerState
        BY <1>3, <1>7, <3>1, RecType
      <3>4. connections_' \in [AnyFd -> Channels \cup {None}]
        BY <1>3, <3>1
      <3>5. NewOne(c, BadFd)
        <4>1. \A x \in Channels : pl'.chan[x] = IF x = c THEN Registered(BadFd) ELSE pl.chan[x]
          BY <1>3, <3>2 DEF Put
        <4>2. \A g \in AnyFd : connections_'[g] = IF g = BadFd THEN c ELSE connections_[g]
          BY <1>3, <3>1
        <4>. QED
          BY <1>4, <1>7, <2>0, <2>1, <3>2, <4>1, <4>2 DEF NewOne
      <3>6. /\ ChannelsOwned' /\ alive' = alive \cup {c}
            /\ alive' \subseteq {acceptor} \cup {connections_'[g] : g \in AnyFd}
            /\ \A x \in alive : x # c /\ pl'.chan[x] = pl.chan[x]
        BY <1>4, <3>5, NewOneOwned DEF ServerInv
      <3>7. \A f \in Fds : connections_'[f] = connections_[f] /\ pl'.channels_[f] = pl.channels_[f]
        BY <1>3, <1>4, <3>1, <3>2 DEF Put, AnyFd
      <3>. QED
        BY <3>2, <3>3, <3>4, <3>6, <3>7
    <2>2. CASE connections_[BadFd] # None
      <3>1. connections_' = connections_
        BY <1>3, <1>8, <2>2
      <3>2. pl' = Rec(pl.chan, Put(pl.channels_, BadFd, c), pl.interest)
        <4>1. pl' = [made EXCEPT !.chan[c] = None]
          BY <1>8, <2>2
        <4>. DEFINE A == Put(pl.chan, c, Registered(BadFd))
                    B == Put(pl.channels_, BadFd, c)
        <4>2. pl.chan[c] = None
          BY DEF alive
        <4>3. [A EXCEPT ![c] = None] = pl.chan
          BY <1>3, <4>2 DEF Put
        <4>4. made = Rec(A, B, pl.interest)
          BY <1>5
        <4>. HIDE DEF A, B
        <4>5. [Rec(A, B, pl.interest) EXCEPT !.chan[c] = None] = Rec([A EXCEPT ![c] = None], B, pl.interest)
          BY DEF Rec
        <4>. QED
          BY <4>1, <4>3, <4>4, <4>5 DEF B
      <3>3. /\ pl'.chan = pl.chan /\ pl'.interest = pl.interest
            /\ pl'.channels_ = Put(pl.channels_, BadFd, c)
        BY <3>2, RecFields
      <3>4. pl' \in PollerState
        BY <1>3, <1>7, <3>2, RecType
      <3>5. alive' = alive
        BY <3>3 DEF alive
      <3>6. ChannelsOwned' /\ alive' \subseteq {acceptor} \cup {connections_'[g] : g \in AnyFd}
        BY <3>1, <3>3, <3>5 DEF ServerInv, TableInv, ChannelsOwned, ConnectionsOwnDescriptors
      <3>7. \A f \in Fds : pl'.channels_[f] = pl.channels_[f]
        BY <1>3, <1>4, <3>3 DEF Put, AnyFd
      <3>. QED
        BY <1>3, <3>1, <3>3, <3>4, <3>5, <3>6, <3>7
    <2>. QED
      BY <2>1, <2>2
  <1>10. open' = open
    BY <1>1 DEF open
  <1>11. TableTypes' /\ BacklogIsQueued'
    BY <1>1, <1>9 DEF ServerInv, TableInv, TableTypes, BacklogIsQueued
  <1>12. FilesOwned'
    BY <1>1, <1>9 DEF ServerInv, TableInv, FilesOwned
  <1>13. EpollPointersAlive'
    <2>1. \A f \in Fds : pl.interest[f] # None =>
            /\ f \in open /\ pl.interest[f].ptr \in alive
            /\ pl.chan[pl.interest[f].ptr].fd_ = f
            /\ pl.chan[pl.interest[f].ptr].events_ = pl.interest[f].events
            /\ pl.chan[pl.interest[f].ptr].index_ = kAdded
            /\ pl.channels_[f] = pl.interest[f].ptr
      BY DEF ServerInv, TableInv, EpollPointersAlive
    <2>. QED
      BY <1>9, <1>10, <2>1 DEF EpollPointersAlive
  <1>14. ConnectionsOwnDescriptors'
    <2>1. ConnectionsOwnDescriptors
      BY DEF ServerInv, TableInv
    <2>2. \A f \in Fds \ {ListenFd} :
            /\ (connections_[f] # None) = (file[f] # None)
            /\ connections_[f] # None => /\ connections_[f] \in alive
                                         /\ pl.chan[connections_[f]].fd_ = f
                                         /\ app[file[f]] = "up"
      BY <2>1 DEF ConnectionsOwnDescriptors
    <2>3. \A f \in Fds \ {ListenFd} :
            /\ (connections_'[f] # None) = (file'[f] # None)
            /\ connections_'[f] # None => /\ connections_'[f] \in alive'
                                          /\ pl'.chan[connections_'[f]].fd_ = f
                                          /\ app'[file'[f]] = "up"
      BY <1>1, <1>9, <2>2
    <2>4. \A q \in Peers : app'[q] = "up" => \E f \in Fds : file'[f] = q
      BY <1>1, <2>1 DEF ConnectionsOwnDescriptors
    <2>. QED
      BY <1>9, <2>3, <2>4 DEF ConnectionsOwnDescriptors
  <1>15. TableInv'
    BY <1>9, <1>11, <1>12, <1>13, <1>14 DEF TableInv
  <1>16. EntriesKept
    BY <1>9, <1>10 DEF EntriesKept
  <1>17. RoundInv'
    BY <1>1, <1>16, RoundKept DEF ServerInv
  <1>. QED
    BY <1>15, <1>17 DEF ServerInv

-----------------------------------------------------------------------------
LEMMA ServerStarts ==
  ASSUME Init
  PROVE  ServerInv
  <1>. USE ServerAssumption, PollerAssumption
  <1>1. NoPeer \in PeerState
    BY DEF NoPeer, PeerState
  <1>2. /\ pl = Rec([c \in Channels |-> None], [fd \in AnyFd |-> None], [fd \in Fds |-> None])
        /\ backlog = << >> /\ active = << >> /\ pc = "start"
    BY DEF Init, Rec
  <1>3. /\ pl.chan = [c \in Channels |-> None] /\ pl.interest = [fd \in Fds |-> None]
        /\ pl.channels_ = [fd \in AnyFd |-> None]
    BY <1>2, RecFields
  <1>4. /\ \A c \in Channels : pl.chan[c] = None
        /\ \A fd \in Fds : pl.interest[fd] = None /\ file[fd] = None
        /\ \A g \in AnyFd : connections_[g] = None
        /\ \A p \in Peers : app[p] = "down"
    BY <1>3 DEF Init
  <1>5. pl \in PollerState
    <2>1. /\ [c \in Channels |-> None] \in [Channels -> Channel \cup {None}]
          /\ [fd \in AnyFd |-> None] \in [AnyFd -> Channels \cup {None}]
          /\ [fd \in Fds |-> None] \in [Fds -> Entry \cup {None}]
      OBVIOUS
    <2>. QED
      BY <1>2, <2>1, RecType
  <1>6. TableTypes
    <2>1. peer \in [Peers -> PeerState]
      BY <1>1 DEF Init
    <2>2. /\ file \in [Fds -> Peers \cup {acceptor, None}]
          /\ connections_ \in [AnyFd -> Channels \cup {None}]
          /\ app \in [Peers -> {"down", "up"}]
      BY DEF Init
    <2>3. backlog \in Seq(Peers)
      BY <1>2
    <2>. QED
      BY <1>5, <2>1, <2>2, <2>3 DEF TableTypes
  <1>7. alive = {}
    BY <1>4 DEF alive
  <1>8. BacklogIsQueued
    BY <1>2 DEF BacklogIsQueued
  <1>9. ChannelsOwned
    BY <1>4, <1>7 DEF ChannelsOwned
  <1>10. FilesOwned
    BY <1>2, <1>4 DEF FilesOwned, Listening
  <1>11. EpollPointersAlive
    BY <1>4 DEF EpollPointersAlive
  <1>12. ConnectionsOwnDescriptors
    <2>1. \A fd \in Fds : connections_[fd] = None /\ file[fd] = None
      BY <1>4 DEF AnyFd
    <2>. QED
      BY <1>4, <1>7, <2>1 DEF ConnectionsOwnDescriptors
  <1>13. RoundInv
    <2>1. NothingYet
      BY <1>2, <1>4 DEF NothingYet
    <2>2. active \in Seq(Activity) /\ Len(active) = 0
      BY <1>2
    <2>3. pc = "start"
      BY <1>2
    <2>4. \A i \in 1 .. Len(active) : FALSE
      BY <2>2
    <2>5. RoundOK
      BY <2>2, <2>3, <2>4, Zenon DEF RoundOK
    <2>6. ActiveChannelsAlive
      BY <2>3, <2>4, Zenon DEF ActiveChannelsAlive
    <2>. QED
      BY <2>1, <2>5, <2>6 DEF RoundInv
  <1>. QED
    BY <1>6, <1>8, <1>9, <1>10, <1>11, <1>12, <1>13 DEF ServerInv, TableInv

LEMMA ServerSteps ==
  ASSUME ServerInv, [Next]_vars
  PROVE  ServerInv'
  <1>1. CASE UNCHANGED vars
    <2>1. SameConnections /\ (Listening' => Listening)
      BY <1>1, TableState DEF vars, ServerInv, SameConnections, Listening
    <2>2. TableInv'
      BY <2>1, TableKept DEF ServerInv
    <2>3. NothingYet'
      BY <1>1 DEF vars, ServerInv, RoundInv, NothingYet
    <2>4. RoundOK' /\ ActiveChannelsAlive'
      BY <1>1 DEF vars, ServerInv, RoundInv, RoundOK, ActiveChannelsAlive, cur, alive, open
    <2>. QED
      BY <2>2, <2>3, <2>4 DEF ServerInv, RoundInv
  <1>2. CASE PeerNext
    BY <1>2, PeerActs, ConnectStep, PeerAbortsStep DEF PeerNext
  <1>3. CASE StartFails \/ PollOutOfMemory \/ AfterFreeCrash \/ BrokenPipe \/ acceptAborts
    BY <1>3, EndsStep DEF StartFails, PollOutOfMemory, AfterFreeCrash, BrokenPipe, acceptAborts, kernelVars
  <1>4. CASE Start
    BY <1>4, StartStep
  <1>5. CASE Poll
    BY <1>5, PollStep
  <1>6. CASE ReadData \/ ReadError \/ NotReadable \/ SendAll \/ SendPart \/ SendError \/ PollRefused
    BY <1>6, HandlerStep
  <1>7. CASE WritePart \/ WriteError \/ WriteNothing \/ AfterFree
    BY <1>7, HandlerEnds
  <1>8. CASE SendBlocked \/ WriteAll
    BY <1>8, WritingStep
  <1>9. CASE HandleHangUp \/ ReadEof
    BY <1>9, CloseStep
  <1>10. CASE accept
    BY <1>10, AcceptStep
  <1>11. CASE acceptFails
    BY <1>11, AcceptFailsStep
  <1>. QED
    BY <1>1, <1>2, <1>3, <1>4, <1>5, <1>6, <1>7, <1>8, <1>9, <1>10, <1>11 DEF Next, ServerNext

LEMMA ServerAlways == Spec => []ServerInv
  <1>1. Init => ServerInv
    BY ServerStarts
  <1>2. ServerInv /\ [Next]_vars => ServerInv'
    BY ServerSteps
  <1>. QED
    BY <1>1, <1>2, PTL DEF Spec

\* Every pointer epoll may give back is a live Channel, of that descriptor and
\* with the events the kernel was told: closing the descriptor before
\* removeChannel, the accepts that fail and the addresses and descriptor numbers
\* that are used again never leave a stale one.
THEOREM EpollNeverDangles == Spec => []EpollPointersAlive
  <1>1. ServerInv => EpollPointersAlive
    BY DEF ServerInv, TableInv
  <1>. QED
    BY <1>1, ServerAlways, PTL

\* No handler of EventLoop::loop destroys or unregisters a Channel that is still
\* to be handled in the same round.
THEOREM RoundNeverDangles == Spec => []ActiveChannelsAlive
  <1>1. ServerInv => ActiveChannelsAlive
    BY DEF ServerInv, RoundInv
  <1>. QED
    BY <1>1, ServerAlways, PTL

\* Descriptors, Sockets, connections_ and what the application was told agree,
\* whatever is accepted, closed, reset or refused, in any order.
THEOREM TablesAgree == Spec => []ConnectionsOwnDescriptors
  <1>1. ServerInv => ConnectionsOwnDescriptors
    BY DEF ServerInv, TableInv
  <1>. QED
    BY <1>1, ServerAlways, PTL

=============================================================================
