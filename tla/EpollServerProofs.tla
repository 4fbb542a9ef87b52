-------------------------- MODULE EpollServerProofs --------------------------
(***************************************************************************)
(* EventsAreCurrent and NoEdgeIsLost of EpollServer, for any number of     *)
(* peers and descriptors and any sizes of reads.                           *)
(*                                                                         *)
(* Both rest on the descriptor table: a descriptor is in epoll exactly     *)
(* while it is open, a connection has one descriptor, and the ready list   *)
(* and the reported events name open ones only.                            *)
(***************************************************************************)
EXTENDS EpollServer, FiniteSetTheorems, SequenceTheorems, WellFoundedInduction, TLAPS

EventSet == SUBSET {"IN", "OUT", "ERR", "HUP"}

\* TypeOK, with what keeps the counters of a peer within their types.
EpollTypes ==
  /\ TypeOK
  /\ events \in Seq(Fds \X EventSet)
  /\ \A p \in Peers : peer[p].unread + peer[p].left <= MaxSent

\* The backlog has every queued connection at most once, and no other.
BacklogIsQueued ==
  /\ \A n \in 1 .. Len(backlog) : peer[backlog[n]].st = "queued"
  /\ \A m, n \in 1 .. Len(backlog) : backlog[m] = backlog[n] => m = n

\* The descriptor table and epoll's tree.
TableOK ==
  /\ \A fd \in Fds : file[fd] = None <=> interest[fd] = None
  /\ pc \notin {"start", "ended"} => file[listenfd] = "listen"
  /\ \A fd \in Fds \ {listenfd} : file[fd] # "listen"
  /\ file[listenfd] \notin Peers
  /\ \A fd \in Fds : file[fd] \in Peers => peer[file[fd]].st = "open"
  /\ \A f, g \in Fds : file[f] = file[g] /\ file[f] \in Peers => f = g
  /\ \A fd \in rdl : file[fd] \in Peers

\* What the handler of the current event relies on.
PlaceOK ==
  /\ pc = "start" => events = << >> /\ \A fd \in Fds : file[fd] = None
  /\ pc = "accept" => events # << >> /\ cur = listenfd
  /\ pc \in {"recv", "modout", "write", "modin"} => events # << >> /\ cur # listenfd

EpollInv ==
  /\ EpollTypes
  /\ BacklogIsQueued
  /\ TableOK
  /\ PlaceOK
  /\ EventsAreCurrent
  /\ NoEdgeIsLost

-----------------------------------------------------------------------------
(***************************************************************************)
(* Facts about one state.                                                  *)
(***************************************************************************)
LEMMA StateTypes ==
  ASSUME EpollInv
  PROVE  /\ peer \in [Peers -> PeerState] /\ backlog \in Seq(Peers)
         /\ file \in [Fds -> Peers \cup {"listen", None}]
         /\ interest \in [Fds -> {{"IN"}, {"OUT"}, None}]
         /\ rdl \in SUBSET Fds /\ events \in Seq(Fds \X EventSet) /\ pc \in Places
         /\ \A p \in Peers : peer[p].unread + peer[p].left <= MaxSent
         /\ \A p \in Peers : peer[p].unread \in 0 .. MaxSent /\ peer[p].left \in 0 .. MaxSent
  BY DEF EpollInv, EpollTypes, TypeOK, PeerState

\* TypeOK's clause on events is their being a sequence of events.
LEMMA TypesFollow ==
  ASSUME peer \in [Peers -> PeerState], backlog \in Seq(Peers),
         file \in [Fds -> Peers \cup {"listen", None}],
         interest \in [Fds -> {{"IN"}, {"OUT"}, None}],
         rdl \in SUBSET Fds, events \in Seq(Fds \X EventSet), pc \in Places,
         \A p \in Peers : peer[p].unread + peer[p].left <= MaxSent
  PROVE  EpollTypes
  <1>1. \A k \in DOMAIN events : events[k] \in Fds \X SUBSET {"IN", "OUT", "ERR", "HUP"}
    BY DEF EventSet
  <1>. QED
    BY <1>1 DEF EpollTypes, TypeOK

LEMMA Current ==
  ASSUME EpollInv, events # << >>
  PROVE  /\ cur = events[1][1] /\ rev = events[1][2] /\ 1 \in DOMAIN events
         /\ cur \in Fds /\ cur \in Pending
         /\ pc # "ended" /\ cur # listenfd =>
              file[cur] \in Peers /\ interest[cur] # None /\ peer[file[cur]].st = "open"
  <1>1. events \in Seq(Fds \X EventSet)
    BY StateTypes
  <1>2. 1 \in DOMAIN events /\ Head(events) = events[1] /\ events[1] \in Fds \X EventSet
    BY <1>1
  <1>3. cur = events[1][1] /\ rev = events[1][2] /\ cur \in Fds /\ cur \in Pending
    BY <1>2 DEF cur, rev, Pending
  <1>4. ASSUME pc # "ended", cur # listenfd
        PROVE  file[cur] \in Peers /\ interest[cur] # None /\ peer[file[cur]].st = "open"
    <2>1. file[cur] # None
      BY <1>2, <1>3, <1>4 DEF EpollInv, EventsAreCurrent
    <2>. QED
      BY <1>3, <1>4, <2>1, StateTypes DEF EpollInv, TableOK
  <1>. QED
    BY <1>2, <1>3, <1>4

\* When the for goes on to the next event, the current descriptor is done with.
LEMMA NextEventIs ==
  ASSUME EpollInv, pc # "ended", events # << >>, events' = Tail(events),
         \A fd \in Fds \ {cur} : (file[fd] # None => file'[fd] # None) /\ interest'[fd] = interest[fd]
  PROVE  /\ events' \in Seq(Fds \X EventSet)
         /\ EventsAreCurrent'
         /\ \A fd \in Pending : fd # cur => fd \in Pending'
  <1>1. events \in Seq(Fds \X EventSet) /\ Len(events) \in Nat \ {0}
    BY StateTypes
  <1>2. /\ events' \in Seq(Fds \X EventSet) /\ Len(events') = Len(events) - 1
        /\ \A k \in 1 .. Len(events') : k + 1 \in 1 .. Len(events) /\ events'[k] = events[k + 1]
        /\ DOMAIN events' = 1 .. Len(events') /\ DOMAIN events = 1 .. Len(events)
    BY <1>1
  <1>3. cur = events[1][1] /\ 1 \in 1 .. Len(events)
    BY <1>1, Current
  <1>4. /\ \A k \in 1 .. Len(events) :
             /\ file[events[k][1]] # None /\ events[k][1] \in Fds
             /\ events[k][1] # listenfd => events[k][2] \subseteq Wanted(interest[events[k][1]])
        /\ \A j, k \in 1 .. Len(events) : events[j][1] = events[k][1] => j = k
    <2>1. \A k \in 1 .. Len(events) : events[k] \in Fds \X EventSet
      BY <1>1
    <2>2. \A k \in 1 .. Len(events) : events[k][1] \in Fds
      BY <2>1
    <2>3. EventsAreCurrent /\ DOMAIN events = 1 .. Len(events)
      BY <1>2 DEF EpollInv
    <2>. QED
      BY <2>2, <2>3 DEF EventsAreCurrent
  <1>5. ASSUME NEW k \in 1 .. Len(events')
        PROVE  events'[k][1] # cur /\ events'[k][1] \in Fds
    BY <1>2, <1>3, <1>4
  <1>6. EventsAreCurrent'
    <2>1. ASSUME NEW k \in 1 .. Len(events')
          PROVE  /\ file'[events'[k][1]] # None
                 /\ events'[k][1] # listenfd => events'[k][2] \subseteq Wanted(interest'[events'[k][1]])
      BY <1>2, <1>4, <1>5
    <2>2. ASSUME NEW j \in 1 .. Len(events'), NEW k \in 1 .. Len(events'),
                 events'[j][1] = events'[k][1]
          PROVE  j = k
      <3>1. j + 1 = k + 1
        BY <1>2, <1>4, <2>2
      <3>. QED
        BY <3>1, <1>2
    <2>. QED
      BY <1>2, <2>1, <2>2 DEF EventsAreCurrent, Wanted
  <1>7. ASSUME NEW fd \in Pending, fd # cur
        PROVE  fd \in Pending'
    <2>1. PICK k \in 1 .. Len(events) : events[k][1] = fd
      BY <1>2 DEF Pending
    <2>2. k # 1 /\ k - 1 \in 1 .. Len(events') /\ k - 1 + 1 = k
      BY <1>1, <1>2, <1>3, <1>7, <2>1
    <2>3. events'[k - 1] = events[k]
      BY <1>2, <2>2
    <2>. QED
      BY <1>2, <2>1, <2>2, <2>3 DEF Pending
  <1>. QED
    BY <1>2, <1>6, <1>7

\* The end of the process changes nothing else.
LEMMA EndsStep ==
  ASSUME EpollInv, pc' = "ended", UNCHANGED <<peer, backlog, file, interest, rdl, events>>
  PROVE  EpollInv'
  <1>1. EpollTypes'
    BY DEF EpollInv, EpollTypes, TypeOK, Places
  <1>2. BacklogIsQueued' /\ TableOK' /\ PlaceOK' /\ EventsAreCurrent' /\ NoEdgeIsLost'
    BY DEF EpollInv, BacklogIsQueued, TableOK, PlaceOK, EventsAreCurrent, NoEdgeIsLost
  <1>. QED
    BY <1>1, <1>2 DEF EpollInv

-----------------------------------------------------------------------------
(***************************************************************************)
(* The peers.                                                              *)
(***************************************************************************)
\* Something happens on connection p.  Whatever holds of it and did not before
\* is among what happened.
LEMMA PeerStep ==
  ASSUME EpollInv, NEW p \in Peers, Running, NEW r \in PeerState, NEW happened,
         r.st = peer[p].st, r.unread + r.left <= MaxSent,
         Holds(r) \subseteq Holds(peer[p]) \cup happened,
         peer' = [peer EXCEPT ![p] = r], Edge(p, happened),
         UNCHANGED <<backlog, file, interest, events, pc>>
  PROVE  EpollInv'
  <1>1. /\ peer \in [Peers -> PeerState] /\ file \in [Fds -> Peers \cup {"listen", None}]
        /\ rdl \in SUBSET Fds /\ backlog \in Seq(Peers)
    BY StateTypes
  <1>2. /\ peer' \in [Peers -> PeerState]
        /\ \A q \in Peers : peer'[q].st = peer[q].st /\ peer'[q].unread + peer'[q].left <= MaxSent
    BY <1>1, StateTypes
  <1>3. rdl' \in SUBSET Fds /\ rdl \subseteq rdl' /\ \A fd \in rdl' : fd \in rdl \/ file[fd] = p
    BY <1>1 DEF Edge, FdsOf
  <1>4. EpollTypes'
    BY <1>2, <1>3, StateTypes, TypesFollow DEF EpollInv, EpollTypes, TypeOK
  <1>5. BacklogIsQueued'
    BY <1>1, <1>2 DEF EpollInv, BacklogIsQueued
  <1>6. TableOK'
    BY <1>2, <1>3 DEF EpollInv, TableOK
  <1>7. PlaceOK' /\ EventsAreCurrent'
    BY DEF EpollInv, PlaceOK, EventsAreCurrent, cur
  <1>8. NoEdgeIsLost'
    <2>. SUFFICES ASSUME NEW fd \in Fds \ {listenfd}, file[fd] # None, fd \notin Pending,
                         Reported(fd)' # {}
                  PROVE  fd \in rdl'
      BY DEF NoEdgeIsLost, Pending
    <2>1. file[fd] \in Peers /\ interest[fd] # None
      BY <1>1 DEF EpollInv, TableOK
    <2>2. CASE file[fd] = p
      <3>1. peer'[p] = r
        BY <1>1
      <3>2. PICK e : e \in Holds(r) /\ e \in Wanted(interest[fd])
        BY <2>2, <3>1 DEF Reported
      <3>3. CASE e \in Holds(peer[p])
        <4>1. Reported(fd) # {}
          BY <2>2, <3>2, <3>3 DEF Reported
        <4>2. fd \in rdl
          BY <4>1 DEF EpollInv, NoEdgeIsLost, Running
        <4>. QED
          BY <1>3, <4>2
      <3>4. CASE e \in happened
        BY <2>1, <2>2, <3>2, <3>4 DEF Edge, FdsOf
      <3>. QED
        BY <3>2, <3>3, <3>4
    <2>3. CASE file[fd] # p
      <3>1. Reported(fd)' = Reported(fd)
        BY <1>1, <2>1, <2>3 DEF Reported
      <3>2. fd \in rdl
        BY <3>1 DEF EpollInv, NoEdgeIsLost, Running
      <3>. QED
        BY <1>3, <3>2
    <2>. QED
      BY <2>2, <2>3
  <1>. QED
    BY <1>4, <1>5, <1>6, <1>7, <1>8 DEF EpollInv

LEMMA PeerActs ==
  ASSUME EpollInv, NEW p \in Peers,
         PeerSends(p) \/ PeerCloses(p) \/ PeerResets(p) \/ PeerDrains(p)
  PROVE  EpollInv'
  <1>. USE EpollAssumption
  <1>0. /\ Running /\ peer \in [Peers -> PeerState] /\ peer[p] \in PeerState
        /\ UNCHANGED <<backlog, file, interest, events, pc>>
        /\ peer[p].unread \in 0 .. MaxSent /\ peer[p].left \in 0 .. MaxSent
        /\ peer[p].unread + peer[p].left <= MaxSent
    BY StateTypes DEF PeerSends, PeerCloses, PeerResets, PeerDrains, Connected
  <1>1. CASE PeerSends(p)
    <2>1. PICK n \in 1 .. peer[p].left :
            peer' = [peer EXCEPT ![p].unread = @ + n, ![p].left = @ - n]
      BY <1>1 DEF PeerSends
    <2>. DEFINE r == [peer[p] EXCEPT !.unread = @ + n, !.left = @ - n]
    <2>2. /\ peer[p].unread + n \in 0 .. MaxSent /\ peer[p].left - n \in 0 .. MaxSent
          /\ (peer[p].unread + n) + (peer[p].left - n) <= MaxSent
      BY <1>0
    <2>3. /\ r \in PeerState /\ r.st = peer[p].st /\ r.unread = peer[p].unread + n
          /\ r.left = peer[p].left - n /\ r.eof = peer[p].eof /\ r.full = peer[p].full
      BY <1>0, <2>2 DEF PeerState
    <2>4. peer' = [peer EXCEPT ![p] = r]
      BY <1>0, <2>1 DEF PeerState
    <2>. HIDE DEF r
    <2>5. r.unread + r.left <= MaxSent
      BY <2>2, <2>3
    <2>6. Holds(r) \subseteq Holds(peer[p]) \cup {"IN"}
      BY <2>3 DEF Holds
    <2>. QED
      BY <1>0, <1>1, <2>3, <2>4, <2>5, <2>6, PeerStep DEF PeerSends
  <1>2. CASE PeerCloses(p)
    <2>. DEFINE r == [peer[p] EXCEPT !.eof = "fin"]
    <2>1. /\ r \in PeerState /\ r.st = peer[p].st /\ r.unread = peer[p].unread
          /\ r.left = peer[p].left /\ r.eof = "fin" /\ r.full = peer[p].full
      BY <1>0 DEF PeerState
    <2>2. peer' = [peer EXCEPT ![p] = r]
      BY <1>2 DEF PeerCloses
    <2>. HIDE DEF r
    <2>3. Holds(r) \subseteq Holds(peer[p]) \cup {"IN"}
      BY <2>1 DEF Holds
    <2>. QED
      BY <1>0, <1>2, <2>1, <2>2, <2>3, PeerStep DEF PeerCloses
  <1>3. CASE PeerResets(p)
    <2>. DEFINE r == [peer[p] EXCEPT !.eof = "err", !.unread = 0]
    <2>0. 0 \in 0 .. MaxSent
      OBVIOUS
    <2>1. r \in PeerState /\ r.st = peer[p].st /\ r.unread = 0 /\ r.left = peer[p].left
      BY <1>0, <2>0 DEF PeerState
    <2>2. peer' = [peer EXCEPT ![p] = r]
      BY <1>0, <1>3 DEF PeerResets, PeerState
    <2>. HIDE DEF r
    <2>3. Holds(r) \subseteq Holds(peer[p]) \cup {"IN", "OUT", "ERR", "HUP"}
      BY DEF Holds
    <2>4. r.unread + r.left <= MaxSent
      BY <1>0, <2>1
    <2>. QED
      BY <1>0, <1>3, <2>1, <2>2, <2>3, <2>4, PeerStep DEF PeerResets
  <1>4. CASE PeerDrains(p)
    <2>. DEFINE r == [peer[p] EXCEPT !.full = FALSE]
    <2>1. /\ r \in PeerState /\ r.st = peer[p].st /\ r.unread = peer[p].unread
          /\ r.left = peer[p].left /\ r.eof = peer[p].eof
      BY <1>0 DEF PeerState
    <2>2. peer' = [peer EXCEPT ![p] = r]
      BY <1>4 DEF PeerDrains
    <2>. HIDE DEF r
    <2>3. Holds(r) \subseteq Holds(peer[p]) \cup {"OUT"}
      BY <2>1 DEF Holds
    <2>. QED
      BY <1>0, <1>4, <2>1, <2>2, <2>3, PeerStep DEF PeerDrains
  <1>. QED
    BY <1>1, <1>2, <1>3, <1>4

\* A connection enters another state.
LEMMA StateOfPeer ==
  ASSUME peer \in [Peers -> PeerState], NEW p \in Peers, NEW st \in {"idle", "queued", "open"},
         peer' = [peer EXCEPT ![p].st = st]
  PROVE  /\ peer' \in [Peers -> PeerState]
         /\ \A q \in Peers : /\ peer'[q].st = IF q = p THEN st ELSE peer[q].st
                            /\ peer'[q].unread = peer[q].unread
                            /\ peer'[q].left = peer[q].left
                            /\ Holds(peer'[q]) = Holds(peer[q])
  <1>1. /\ peer' \in [Peers -> PeerState]
        /\ \A q \in Peers : /\ peer'[q].st = IF q = p THEN st ELSE peer[q].st
                           /\ peer'[q].unread = peer[q].unread
                           /\ peer'[q].left = peer[q].left
    BY DEF PeerState
  <1>2. \A q \in Peers : peer'[q].eof = peer[q].eof /\ peer'[q].full = peer[q].full
    BY DEF PeerState
  <1>. QED
    BY <1>1, <1>2 DEF Holds

LEMMA ConnectStep ==
  ASSUME EpollInv, NEW p \in Peers, Connect(p)
  PROVE  EpollInv'
  <1>1. /\ peer \in [Peers -> PeerState] /\ file \in [Fds -> Peers \cup {"listen", None}]
        /\ backlog \in Seq(Peers) /\ peer[p].st = "idle"
        /\ peer' = [peer EXCEPT ![p].st = "queued"] /\ backlog' = Append(backlog, p)
        /\ UNCHANGED <<file, interest, rdl, events, pc>>
    BY StateTypes DEF Connect
  <1>2. /\ peer' \in [Peers -> PeerState]
        /\ \A q \in Peers : /\ peer'[q].st = IF q = p THEN "queued" ELSE peer[q].st
                           /\ peer'[q].unread = peer[q].unread
                           /\ peer'[q].left = peer[q].left
                           /\ Holds(peer'[q]) = Holds(peer[q])
    BY <1>1, StateOfPeer
  <1>3. /\ backlog' \in Seq(Peers) /\ Len(backlog') = Len(backlog) + 1
        /\ backlog'[Len(backlog) + 1] = p /\ Len(backlog) \in Nat
        /\ \A n \in 1 .. Len(backlog) : backlog'[n] = backlog[n] /\ backlog[n] \in Peers
    BY <1>1
  <1>4. EpollTypes'
    BY <1>1, <1>2, <1>3, StateTypes, TypesFollow DEF EpollInv, EpollTypes, TypeOK
  <1>5. BacklogIsQueued'
    <2>1. \A n \in 1 .. Len(backlog) : backlog[n] # p
      BY <1>1 DEF EpollInv, BacklogIsQueued
    <2>. QED
      BY <1>2, <1>3, <2>1, SMTT(60) DEF EpollInv, BacklogIsQueued
  <1>6. TableOK'
    BY <1>1, <1>2 DEF EpollInv, TableOK
  <1>7. PlaceOK' /\ EventsAreCurrent'
    BY <1>1 DEF EpollInv, PlaceOK, EventsAreCurrent, cur
  <1>8. NoEdgeIsLost'
    <2>. SUFFICES ASSUME NEW fd \in Fds \ {listenfd}, file[fd] # None, fd \notin Pending,
                         Reported(fd)' # {}, pc # "ended"
                  PROVE  fd \in rdl
      BY <1>1 DEF NoEdgeIsLost, Pending
    <2>1. file[fd] \in Peers
      BY <1>1 DEF EpollInv, TableOK
    <2>2. Reported(fd)' = Reported(fd)
      BY <1>1, <1>2, <2>1 DEF Reported
    <2>. QED
      BY <2>2 DEF EpollInv, NoEdgeIsLost
  <1>. QED
    BY <1>4, <1>5, <1>6, <1>7, <1>8 DEF EpollInv

-----------------------------------------------------------------------------
(***************************************************************************)
(* The server.                                                             *)
(***************************************************************************)
LEMMA StartStep ==
  ASSUME EpollInv, Start
  PROVE  EpollInv'
  <1>. USE EpollAssumption
  <1>0. /\ pc = "start" /\ pc' = "loop" /\ UNCHANGED <<peer, backlog, rdl, events>>
        /\ file' = [file EXCEPT ![listenfd] = "listen"]
        /\ interest' = [interest EXCEPT ![listenfd] = {"IN"}]
    BY DEF Start, kernel
  <1>1. events = << >> /\ (\A fd \in Fds : file[fd] = None) /\ rdl = {}
    <2>1. events = << >> /\ \A fd \in Fds : file[fd] = None
      BY <1>0 DEF EpollInv, PlaceOK
    <2>2. rdl \in SUBSET Fds /\ \A fd \in rdl : file[fd] \in Peers
      BY StateTypes DEF EpollInv, TableOK
    <2>. QED
      BY <2>1, <2>2
  <1>2. /\ file \in [Fds -> Peers \cup {"listen", None}]
        /\ interest \in [Fds -> {{"IN"}, {"OUT"}, None}]
    BY StateTypes
  <1>3. EpollTypes'
    <2>1. file' \in [Fds -> Peers \cup {"listen", None}]
      BY <1>0, <1>1, <1>2
    <2>2. interest' \in [Fds -> {{"IN"}, {"OUT"}, None}]
      BY <1>0, <1>1, <1>2
    <2>3. pc' \in Places
      BY <1>0, <1>1 DEF Places
    <2>. QED
      BY <1>0, <1>1, <2>1, <2>2, <2>3, StateTypes, TypesFollow DEF EpollInv, EpollTypes, TypeOK
  <1>4. BacklogIsQueued'
    BY <1>0, <1>1 DEF EpollInv, BacklogIsQueued
  <1>5. TableOK'
    BY <1>0, <1>1, <1>2 DEF EpollInv, TableOK
  <1>6. PlaceOK'
    BY <1>0, <1>1 DEF PlaceOK
  <1>7. EventsAreCurrent' /\ NoEdgeIsLost'
    BY <1>0, <1>1, <1>2 DEF EventsAreCurrent, NoEdgeIsLost
  <1>. QED
    BY <1>3, <1>4, <1>5, <1>6, <1>7 DEF EpollInv

\* Only the place changes.
LEMMA DispatchStep ==
  ASSUME EpollInv, DispatchListen \/ DispatchIn \/ DispatchOut \/ RecvBreaks
  PROVE  EpollInv'
  <1>1. /\ UNCHANGED <<peer, backlog, file, interest, rdl, events>> /\ events # << >>
        /\ pc \in {"loop", "recv"}
        /\ \/ pc' = "accept" /\ cur = listenfd
           \/ pc' \in {"recv", "write", "modout"} /\ cur # listenfd
    BY DEF DispatchListen, DispatchIn, DispatchOut, Dispatch, AtConnection, RecvBreaks, kernel,
           EpollInv, PlaceOK
  <1>2. EpollTypes'
    BY <1>1 DEF EpollInv, EpollTypes, TypeOK, Places
  <1>3. PlaceOK'
    BY <1>1 DEF PlaceOK, cur
  <1>4. BacklogIsQueued' /\ TableOK'
    BY <1>1 DEF EpollInv, BacklogIsQueued, TableOK
  <1>5. EventsAreCurrent' /\ NoEdgeIsLost'
    BY <1>1 DEF EpollInv, EventsAreCurrent, NoEdgeIsLost, Pending, Reported
  <1>. QED
    BY <1>2, <1>3, <1>4, <1>5 DEF EpollInv

\* A bijection between the positions and the descriptors reported.
LEMMA OrderIs ==
  ASSUME NEW S, IsFiniteSet(S), NEW order \in SetToSeqs(S)
  PROVE  \E n \in Nat :
           /\ order \in [1 .. n -> S]
           /\ \A j, k \in 1 .. n : order[j] = order[k] => j = k
           /\ \A x \in S : \E k \in 1 .. n : order[k] = x
  <1>. DEFINE n == Cardinality(S)
  <1>1. n \in Nat /\ IsFiniteSet(1 .. n) /\ Cardinality(1 .. n) = n
    BY FS_CardinalityType, FS_Interval
  <1>2. order \in [1 .. n -> S] /\ \A j, k \in 1 .. n : j # k => order[j] # order[k]
    BY DEF SetToSeqs
  <1>3. order \in Injection(1 .. n, S)
    BY <1>2 DEF Injection, IsInjective
  <1>4. order \in Surjection(1 .. n, S)
    BY <1>1, <1>3, FS_Injection
  <1>5. \A x \in S : \E k \in 1 .. n : order[k] = x
    BY <1>4 DEF Surjection
  <1>. QED
    BY <1>1, <1>2, <1>5

\* epoll_wait: every edge on the ready list becomes an event or is void.
LEMMA EpollWaitStep ==
  ASSUME EpollInv, EpollWait
  PROVE  EpollInv'
  <1>. USE EpollAssumption
  <1>. DEFINE ready == {fd \in rdl : Reported(fd) # {}}
                         \cup (IF backlog = << >> THEN {} ELSE {listenfd})
              What(fd) == IF fd = listenfd THEN {"IN"} ELSE Reported(fd)
  <1>1. /\ pc = "loop" /\ events = << >> /\ rdl' = {}
        /\ UNCHANGED <<peer, backlog, file, interest, pc>>
    BY DEF EpollWait, kernel
  <1>2. PICK order \in SetToSeqs(ready) :
          events' = [k \in DOMAIN order |-> <<order[k], What(order[k])>>]
    BY DEF EpollWait
  <1>3. rdl \in SUBSET Fds /\ ready \subseteq Fds
    BY StateTypes
  <1>4. IsFiniteSet(ready)
    BY <1>3, FS_Subset
  <1>5. /\ \A fd \in rdl : Reported(fd) # {} => fd \in ready
        /\ \A fd \in ready : fd = listenfd \/ fd \in rdl
        /\ \A fd \in Fds : What(fd) \in EventSet
        /\ \A fd \in Fds : fd # listenfd => What(fd) \subseteq Wanted(interest[fd])
    BY DEF Reported, Holds, EventSet
  <1>. HIDE DEF ready, What
  <1>6. PICK n \in Nat :
          /\ order \in [1 .. n -> ready]
          /\ \A j, k \in 1 .. n : order[j] = order[k] => j = k
          /\ \A x \in ready : \E k \in 1 .. n : order[k] = x
    BY <1>4, OrderIs, SMTT(60)
  <1>7. /\ DOMAIN events' = 1 .. n
        /\ \A k \in 1 .. n : /\ events'[k] = <<order[k], What(order[k])>>
                             /\ order[k] \in ready /\ order[k] \in Fds
    BY <1>2, <1>3, <1>6
  <1>8. events' \in Seq(Fds \X EventSet)
    <2>1. \A k \in 1 .. n : <<order[k], What(order[k])>> \in Fds \X EventSet
      BY <1>5, <1>7
    <2>2. events' = [k \in 1 .. n |-> <<order[k], What(order[k])>>]
      BY <1>2, <1>6
    <2>. QED
      BY <2>1, <2>2
  <1>9. EpollTypes'
    <2>1. \A k \in DOMAIN events' : events'[k] \in Fds \X SUBSET {"IN", "OUT", "ERR", "HUP"}
      BY <1>8 DEF EventSet
    <2>2. rdl' \in SUBSET Fds
      BY <1>1
    <2>. QED
      BY <1>1, <1>8, <2>1, <2>2, StateTypes DEF EpollTypes, TypeOK
  <1>10. BacklogIsQueued' /\ TableOK' /\ PlaceOK'
    BY <1>1 DEF EpollInv, BacklogIsQueued, TableOK, PlaceOK
  <1>11. EventsAreCurrent'
    <2>1. \A fd \in ready : file[fd] # None
      BY <1>1, <1>5 DEF EpollInv, TableOK
    <2>2. \A k \in 1 .. n : events'[k][1] = order[k] /\ events'[k][2] = What(order[k])
      BY <1>7
    <2>3. \A k \in 1 .. n :
            /\ file'[events'[k][1]] # None
            /\ events'[k][1] # listenfd => events'[k][2] \subseteq Wanted(interest'[events'[k][1]])
      BY <1>1, <1>5, <1>7, <2>1, <2>2
    <2>4. \A j, k \in 1 .. n : events'[j][1] = events'[k][1] => j = k
      BY <1>6, <2>2
    <2>. QED
      BY <1>7, <2>3, <2>4 DEF EventsAreCurrent, Wanted
  <1>12. NoEdgeIsLost'
    <2>. SUFFICES ASSUME NEW fd \in Fds \ {listenfd}, file[fd] # None, fd \notin Pending',
                         Reported(fd)' # {}
                  PROVE  FALSE
      BY <1>1 DEF NoEdgeIsLost
    <2>1. Reported(fd)' = Reported(fd)
      BY <1>1 DEF Reported
    <2>2. fd \in rdl
      BY <1>1, <2>1 DEF EpollInv, NoEdgeIsLost, Pending
    <2>3. PICK k \in 1 .. n : order[k] = fd
      BY <1>5, <1>6, <2>1, <2>2
    <2>. QED
      BY <1>7, <2>3 DEF Pending
  <1>. QED
    BY <1>9, <1>10, <1>11, <1>12 DEF EpollInv

-----------------------------------------------------------------------------
LEMMA LeastIs ==
  ASSUME NEW S \in SUBSET Nat, S # {}
  PROVE  \E x \in S : \A y \in S : x <= y
  <1>1. PICK x \in S : \A y \in S : ~ (<<y, x>> \in OpToRel(<, Nat))
    BY NatLessThanWellFounded, WFMin
  <1>2. \A y \in S : ~ (y < x)
    BY <1>1 DEF OpToRel
  <1>. QED
    BY <1>2

\* accept gives the connection a descriptor that no pending event names.
LEMMA AcceptOneStep ==
  ASSUME EpollInv, AcceptOne
  PROVE  EpollInv'
  <1>. USE EpollAssumption
  <1>. DEFINE fd == CHOOSE x \in free : \A y \in free : x <= y
  <1>0. PICK p \in Peers : p = Head(backlog)
    BY StateTypes DEF AcceptOne
  <1>1. /\ pc = "accept" /\ backlog # << >> /\ free # {} /\ backlog' = Tail(backlog)
        /\ UNCHANGED <<events, pc>>
        /\ file' = [file EXCEPT ![fd] = p] /\ peer' = [peer EXCEPT ![p].st = "open"]
        /\ Arm(fd, p, {"IN"})
    BY <1>0 DEF AcceptOne
  <1>2. /\ peer \in [Peers -> PeerState] /\ backlog \in Seq(Peers)
        /\ file \in [Fds -> Peers \cup {"listen", None}]
        /\ interest \in [Fds -> {{"IN"}, {"OUT"}, None}] /\ rdl \in SUBSET Fds
    BY StateTypes
  <1>3. fd \in Fds /\ file[fd] = None
    <2>1. free \in SUBSET Nat
      BY DEF free
    <2>2. \E x \in free : \A y \in free : x <= y
      BY <1>1, <2>1, LeastIs
    <2>3. fd \in free
      BY <2>2
    <2>. QED
      BY <2>3 DEF free
  <1>4. fd # listenfd /\ interest[fd] = None
    BY <1>1, <1>3 DEF EpollInv, TableOK
  <1>5. /\ Len(backlog) \in Nat \ {0} /\ p = backlog[1] /\ p \in Peers
        /\ backlog' \in Seq(Peers) /\ Len(backlog') = Len(backlog) - 1
        /\ \A n \in 1 .. Len(backlog') : /\ n + 1 \in 1 .. Len(backlog)
                                         /\ backlog'[n] = backlog[n + 1] /\ backlog'[n] \in Peers
    BY <1>0, <1>1, <1>2
  <1>. HIDE DEF fd
  <1>6. /\ peer[p].st = "queued" /\ \A f \in Fds : file[f] # p
        /\ \A n \in 1 .. Len(backlog') : backlog'[n] # p /\ peer[backlog'[n]].st = "queued"
    <2>1. peer[p].st = "queued" /\ 1 \in 1 .. Len(backlog)
      BY <1>5 DEF EpollInv, BacklogIsQueued
    <2>2. \A n \in 1 .. Len(backlog') : backlog'[n] # p /\ peer[backlog'[n]].st = "queued"
      BY <1>5, <2>1, SMTT(60) DEF EpollInv, BacklogIsQueued
    <2>3. \A f \in Fds : file[f] # p
      BY <1>5, <2>1 DEF EpollInv, TableOK
    <2>. QED
      BY <2>1, <2>2, <2>3
  <1>7. /\ peer' \in [Peers -> PeerState]
        /\ \A q \in Peers : /\ peer'[q].st = IF q = p THEN "open" ELSE peer[q].st
                           /\ peer'[q].unread = peer[q].unread
                           /\ peer'[q].left = peer[q].left
                           /\ Holds(peer'[q]) = Holds(peer[q])
    <2>1. /\ peer \in [Peers -> PeerState] /\ p \in Peers /\ "open" \in {"idle", "queued", "open"}
          /\ peer' = [peer EXCEPT ![p].st = "open"]
      BY <1>1, <1>2
    <2>. HIDE EpollAssumption
    <2>. QED
      BY <2>1, StateOfPeer
  <1>8. /\ interest' = [interest EXCEPT ![fd] = {"IN"}]
        /\ rdl \subseteq rdl' /\ rdl' \subseteq rdl \cup {fd}
        /\ Holds(peer'[p]) \cap Wanted({"IN"}) # {} => fd \in rdl'
    BY <1>1 DEF Arm
  <1>9. EpollTypes'
    <2>1. file' \in [Fds -> Peers \cup {"listen", None}]
      BY <1>1, <1>2, <1>5
    <2>2. interest' \in [Fds -> {{"IN"}, {"OUT"}, None}]
      BY <1>2, <1>8
    <2>3. rdl' \in SUBSET Fds
      BY <1>2, <1>3, <1>8
    <2>4. \A q \in Peers : peer'[q].unread + peer'[q].left <= MaxSent
      BY <1>7, StateTypes
    <2>. QED
      BY <1>1, <1>5, <1>7, <2>1, <2>2, <2>3, <2>4 DEF EpollInv, EpollTypes, TypeOK
  <1>10. BacklogIsQueued'
    <2>1. \A n \in 1 .. Len(backlog') : peer'[backlog'[n]].st = "queued"
      BY <1>5, <1>6, <1>7
    <2>2. ASSUME NEW m \in 1 .. Len(backlog'), NEW n \in 1 .. Len(backlog'), backlog'[m] = backlog'[n]
          PROVE  m = n
      <3>1. m + 1 = n + 1
        BY <1>5, <2>2 DEF EpollInv, BacklogIsQueued
      <3>. QED
        BY <3>1, <1>5
    <2>. QED
      BY <2>1, <2>2 DEF BacklogIsQueued
  <1>11. TableOK'
    <2>1. \A f \in Fds : file'[f] = IF f = fd THEN p ELSE file[f]
      BY <1>1, <1>2
    <2>2. \A f \in Fds : interest'[f] = IF f = fd THEN {"IN"} ELSE interest[f]
      BY <1>2, <1>8
    <2>3. \A f \in Fds : file'[f] = None <=> interest'[f] = None
      BY <1>5, <2>1, <2>2 DEF EpollInv, TableOK
    <2>4. /\ file'[listenfd] = "listen" /\ file'[listenfd] \notin Peers
          /\ \A f \in Fds \ {listenfd} : file'[f] # "listen"
      BY <1>1, <1>4, <1>5, <2>1 DEF EpollInv, TableOK
    <2>5. ASSUME NEW f \in Fds, file'[f] \in Peers
          PROVE  peer'[file'[f]].st = "open"
      <3>1. CASE f = fd
        BY <1>5, <1>7, <2>1, <3>1
      <3>2. CASE f # fd
        <4>1. file'[f] = file[f] /\ file[f] \in Peers
          BY <2>1, <2>5, <3>2
        <4>2. peer[file[f]].st = "open"
          BY <4>1 DEF EpollInv, TableOK
        <4>. QED
          BY <1>7, <4>1, <4>2
      <3>. QED
        BY <3>1, <3>2
    <2>6. \A f, g \in Fds : file'[f] = file'[g] /\ file'[f] \in Peers => f = g
      BY <1>6, <2>1 DEF EpollInv, TableOK
    <2>7. \A f \in rdl' : file'[f] \in Peers
      BY <1>2, <1>3, <1>5, <1>8, <2>1 DEF EpollInv, TableOK
    <2>. QED
      BY <2>3, <2>4, <2>5, <2>6, <2>7 DEF TableOK
  <1>12. PlaceOK'
    BY <1>1 DEF EpollInv, PlaceOK, cur
  <1>13. fd \notin Pending
    BY <1>1, <1>3 DEF EpollInv, EventsAreCurrent, Pending
  <1>14. EventsAreCurrent'
    <2>1. /\ \A k \in DOMAIN events :
               /\ file[events[k][1]] # None /\ events[k][1] \in Fds /\ events[k][1] # fd
               /\ events[k][1] # listenfd => events[k][2] \subseteq Wanted(interest[events[k][1]])
          /\ \A j, k \in DOMAIN events : events[j][1] = events[k][1] => j = k
      <3>1. \A k \in DOMAIN events : events[k][1] \in Fds
        BY StateTypes
      <3>2. EventsAreCurrent /\ pc # "ended"
        BY <1>1 DEF EpollInv
      <3>. QED
        BY <1>3, <3>1, <3>2 DEF EventsAreCurrent
    <2>2. \A k \in DOMAIN events : file'[events[k][1]] = file[events[k][1]]
                                   /\ interest'[events[k][1]] = interest[events[k][1]]
      BY <1>1, <1>2, <1>8, <2>1
    <2>. QED
      BY <1>1, <2>1, <2>2 DEF EventsAreCurrent, Wanted
  <1>15. NoEdgeIsLost'
    <2>. SUFFICES ASSUME NEW f \in Fds \ {listenfd}, file'[f] # None, f \notin Pending,
                         Reported(f)' # {}
                  PROVE  f \in rdl'
      BY <1>1 DEF NoEdgeIsLost, Pending
    <2>1. CASE f = fd
      <3>1. file'[fd] = p /\ interest'[fd] = {"IN"}
        BY <1>1, <1>2, <1>3, <1>8
      <3>. QED
        BY <1>8, <2>1, <3>1 DEF Reported, Wanted
    <2>2. CASE f # fd
      <3>1. file'[f] = file[f] /\ interest'[f] = interest[f]
        BY <1>1, <1>2, <1>8, <2>2
      <3>2. file[f] \in Peers
        BY <1>2, <3>1 DEF EpollInv, TableOK
      <3>3. Reported(f)' = Reported(f)
        BY <1>7, <3>1, <3>2 DEF Reported
      <3>4. f \in rdl
        BY <1>1, <3>1, <3>3 DEF EpollInv, NoEdgeIsLost
      <3>. QED
        BY <1>8, <3>4
    <2>. QED
      BY <2>1, <2>2
  <1>. QED
    BY <1>9, <1>10, <1>11, <1>12, <1>14, <1>15 DEF EpollInv

LEMMA AcceptFailsStep ==
  ASSUME EpollInv, AcceptFails
  PROVE  EpollInv'
  <1>1. /\ pc = "accept" /\ events # << >> /\ cur = listenfd /\ events' = Tail(events)
        /\ pc' = "loop" /\ UNCHANGED <<peer, backlog, file, interest, rdl>>
    BY DEF AcceptFails, NextEvent, kernel, EpollInv, PlaceOK
  <1>2. /\ events' \in Seq(Fds \X EventSet) /\ EventsAreCurrent'
        /\ \A fd \in Pending : fd # cur => fd \in Pending'
    BY <1>1, NextEventIs
  <1>3. EpollTypes'
    <2>1. \A k \in DOMAIN events' : events'[k] \in Fds \X SUBSET {"IN", "OUT", "ERR", "HUP"}
      BY <1>2 DEF EventSet
    <2>. QED
      BY <1>1, <1>2, <2>1, StateTypes DEF EpollTypes, TypeOK, Places
  <1>4. BacklogIsQueued' /\ TableOK' /\ PlaceOK'
    BY <1>1 DEF EpollInv, BacklogIsQueued, TableOK, PlaceOK
  <1>5. NoEdgeIsLost'
    <2>. SUFFICES ASSUME NEW fd \in Fds \ {listenfd}, file[fd] # None, fd \notin Pending',
                         Reported(fd)' # {}
                  PROVE  fd \in rdl
      BY <1>1 DEF NoEdgeIsLost
    <2>1. fd \notin Pending
      BY <1>1, <1>2
    <2>2. Reported(fd)' = Reported(fd)
      BY <1>1 DEF Reported
    <2>. QED
      BY <1>1, <2>1, <2>2 DEF EpollInv, NoEdgeIsLost
  <1>. QED
    BY <1>2, <1>3, <1>4, <1>5 DEF EpollInv

\* close of the current descriptor: its number is free, and named by no event.
LEMMA CloseStep ==
  ASSUME EpollInv, HandleLinkDown \/ RecvEnds
  PROVE  EpollInv'
  <1>. USE EpollAssumption
  <1>1. /\ pc \notin {"start", "ended"} /\ events # << >> /\ cur # listenfd
        /\ events' = Tail(events) /\ pc' = "loop" /\ CloseCur
    BY DEF HandleLinkDown, RecvEnds, AtConnection, NextEvent, EpollInv, PlaceOK
  <1>2. cur \in Fds /\ file[cur] \in Peers /\ peer[file[cur]].st = "open"
    BY <1>1, Current
  <1>3. /\ peer \in [Peers -> PeerState] /\ backlog \in Seq(Peers)
        /\ file \in [Fds -> Peers \cup {"listen", None}]
        /\ interest \in [Fds -> {{"IN"}, {"OUT"}, None}] /\ rdl \in SUBSET Fds
    BY StateTypes
  <1>4. PICK c \in Fds : c = cur
    BY <1>2
  <1>5. PICK p \in Peers : p = file[c]
    BY <1>2, <1>4
  <1>6. /\ peer' = [peer EXCEPT ![p] = NoPeer] /\ file' = [file EXCEPT ![c] = None]
        /\ interest' = [interest EXCEPT ![c] = None] /\ rdl' = rdl \ {c} /\ backlog' = backlog
    BY <1>1, <1>4, <1>5 DEF CloseCur
  <1>7. /\ \A f \in Fds : file'[f] = IF f = c THEN None ELSE file[f]
        /\ \A f \in Fds : interest'[f] = IF f = c THEN None ELSE interest[f]
        /\ \A q \in Peers : q # p => peer'[q] = peer[q]
    BY <1>3, <1>6
  <1>8. /\ events' \in Seq(Fds \X EventSet) /\ EventsAreCurrent'
        /\ \A fd \in Pending : fd # cur => fd \in Pending'
    <2>1. pc # "ended" /\ events # << >> /\ events' = Tail(events)
      BY <1>1
    <2>2. \A fd \in Fds \ {cur} : (file[fd] # None => file'[fd] # None) /\ interest'[fd] = interest[fd]
      BY <1>4, <1>7
    <2>. QED
      BY <2>1, <2>2, NextEventIs
  <1>9. EpollTypes'
    <2>1. \A k \in DOMAIN events' : events'[k] \in Fds \X SUBSET {"IN", "OUT", "ERR", "HUP"}
      BY <1>8 DEF EventSet
    <2>2. NoPeer \in PeerState /\ NoPeer.unread + NoPeer.left <= MaxSent
      BY DEF NoPeer, PeerState
    <2>3. peer' \in [Peers -> PeerState] /\ \A q \in Peers : peer'[q].unread + peer'[q].left <= MaxSent
      BY <1>3, <1>6, <2>2, StateTypes
    <2>4. file' \in [Fds -> Peers \cup {"listen", None}]
      BY <1>3, <1>6
    <2>5. interest' \in [Fds -> {{"IN"}, {"OUT"}, None}]
      BY <1>3, <1>6
    <2>6. rdl' \in SUBSET Fds /\ backlog' \in Seq(Peers) /\ pc' \in Places
      BY <1>1, <1>3, <1>6 DEF Places
    <2>. QED
      BY <1>8, <2>1, <2>3, <2>4, <2>5, <2>6 DEF EpollTypes, TypeOK
  <1>10. BacklogIsQueued'
    <2>1. \A n \in 1 .. Len(backlog) : backlog[n] \in Peers /\ backlog[n] # p
      BY <1>2, <1>3, <1>4, <1>5 DEF EpollInv, BacklogIsQueued
    <2>. QED
      BY <1>6, <1>7, <2>1 DEF EpollInv, BacklogIsQueued
  <1>11. TableOK'
    <2>1. \A f \in Fds : file'[f] = None <=> interest'[f] = None
      BY <1>7 DEF EpollInv, TableOK
    <2>2. file'[listenfd] = "listen" /\ file'[listenfd] \notin Peers
      BY <1>1, <1>4, <1>7 DEF EpollInv, TableOK
    <2>3. \A f \in Fds \ {listenfd} : file'[f] # "listen"
      BY <1>7 DEF EpollInv, TableOK
    <2>4. \A f \in Fds : file'[f] \in Peers => file'[f] = file[f] /\ file[f] # p
      BY <1>5, <1>7 DEF EpollInv, TableOK
    <2>5. \A f \in Fds : file'[f] \in Peers => peer'[file'[f]].st = "open"
      BY <1>7, <2>4 DEF EpollInv, TableOK
    <2>6. \A f, g \in Fds : file'[f] = file'[g] /\ file'[f] \in Peers => f = g
      BY <2>4 DEF EpollInv, TableOK
    <2>7. \A f \in rdl' : file'[f] \in Peers
      BY <1>3, <1>6, <1>7 DEF EpollInv, TableOK
    <2>. QED
      BY <2>1, <2>2, <2>3, <2>5, <2>6, <2>7 DEF TableOK
  <1>12. PlaceOK'
    BY <1>1 DEF PlaceOK
  <1>13. NoEdgeIsLost'
    <2>. SUFFICES ASSUME NEW fd \in Fds \ {listenfd}, file'[fd] # None, fd \notin Pending',
                         Reported(fd)' # {}
                  PROVE  fd \in rdl'
      BY DEF NoEdgeIsLost
    <2>1. fd # c /\ file'[fd] = file[fd] /\ interest'[fd] = interest[fd]
      BY <1>7
    <2>2. file[fd] \in Peers /\ file[fd] # p
      BY <1>3, <1>5, <2>1 DEF EpollInv, TableOK
    <2>3. Reported(fd)' = Reported(fd)
      BY <1>7, <2>1, <2>2 DEF Reported
    <2>4. fd \notin Pending
      BY <1>4, <1>8, <2>1
    <2>5. fd \in rdl
      BY <1>1, <2>1, <2>3, <2>4 DEF EpollInv, NoEdgeIsLost
    <2>. QED
      BY <1>6, <2>1, <2>5
  <1>. QED
    BY <1>8, <1>9, <1>10, <1>11, <1>12, <1>13 DEF EpollInv

\* Bytes move on the connection of the current event: its descriptor is pending.
LEMMA DataStep ==
  ASSUME EpollInv, NEW p \in Peers, NEW r \in PeerState, p = file[cur],
         pc \in {"recv", "write"}, pc' \in {"recv", "modout", "modin"},
         r.st = peer[p].st, r.unread + r.left <= MaxSent,
         peer' = [peer EXCEPT ![p] = r], UNCHANGED <<backlog, file, interest, rdl, events>>
  PROVE  EpollInv'
  <1>1. events # << >> /\ cur # listenfd
    BY DEF EpollInv, PlaceOK
  <1>2. cur \in Fds /\ cur \in Pending
    BY <1>1, Current
  <1>3. /\ peer \in [Peers -> PeerState] /\ backlog \in Seq(Peers)
        /\ file \in [Fds -> Peers \cup {"listen", None}]
    BY StateTypes
  <1>4. /\ peer' \in [Peers -> PeerState]
        /\ \A q \in Peers : peer'[q].st = peer[q].st /\ peer'[q].unread + peer'[q].left <= MaxSent
        /\ \A q \in Peers : q # p => peer'[q] = peer[q]
    BY <1>3, StateTypes
  <1>5. EpollTypes'
    BY <1>4 DEF EpollInv, EpollTypes, TypeOK, Places
  <1>6. BacklogIsQueued'
    BY <1>3, <1>4 DEF EpollInv, BacklogIsQueued
  <1>7. TableOK'
    BY <1>4 DEF EpollInv, TableOK
  <1>8. PlaceOK'
    BY <1>1 DEF PlaceOK, cur
  <1>9. EventsAreCurrent'
    BY DEF EpollInv, EventsAreCurrent
  <1>10. NoEdgeIsLost'
    <2>. SUFFICES ASSUME NEW fd \in Fds \ {listenfd}, file[fd] # None, fd \notin Pending,
                         Reported(fd)' # {}
                  PROVE  fd \in rdl
      BY DEF NoEdgeIsLost, Pending
    <2>1. file[fd] \in Peers /\ file[fd] # p
      BY <1>2, <1>3 DEF EpollInv, TableOK
    <2>2. Reported(fd)' = Reported(fd)
      BY <1>4, <2>1 DEF Reported
    <2>. QED
      BY <2>2 DEF EpollInv, NoEdgeIsLost
  <1>. QED
    BY <1>5, <1>6, <1>7, <1>8, <1>9, <1>10 DEF EpollInv

LEMMA RecvWriteStep ==
  ASSUME EpollInv, Recv \/ Write
  PROVE  EpollInv'
  <1>. USE EpollAssumption
  <1>0. /\ pc \in {"recv", "write"} /\ events # << >> /\ cur # listenfd
        /\ UNCHANGED <<backlog, file, interest, rdl, events>>
    BY DEF Recv, Write, EpollInv, PlaceOK
  <1>1. PICK p \in Peers : p = file[cur]
    BY <1>0, Current
  <1>2. /\ peer \in [Peers -> PeerState] /\ peer[p] \in PeerState
        /\ peer[p].unread \in 0 .. MaxSent /\ peer[p].left \in 0 .. MaxSent
        /\ peer[p].unread + peer[p].left <= MaxSent
    BY StateTypes
  <1>3. CASE Recv
    <2>1. PICK n \in 1 .. (MAXLEN + 1) :
            /\ n <= peer[p].unread /\ peer' = [peer EXCEPT ![p].unread = @ - n]
            /\ pc' \in {"recv", "modout", "modin"}
      BY <1>1, <1>3 DEF Recv, curPeer
    <2>2. /\ peer[p].unread - n \in 0 .. MaxSent
          /\ (peer[p].unread - n) + peer[p].left <= MaxSent
      BY <1>2, <2>1
    <2>. DEFINE r == [peer[p] EXCEPT !.unread = @ - n]
    <2>3. r \in PeerState /\ r.st = peer[p].st /\ r.unread = peer[p].unread - n /\ r.left = peer[p].left
      BY <1>2, <2>2 DEF PeerState
    <2>4. peer' = [peer EXCEPT ![p] = r]
      BY <1>2, <2>1 DEF PeerState
    <2>. HIDE DEF r
    <2>5. r.unread + r.left <= MaxSent
      BY <2>2, <2>3
    <2>. QED
      BY <1>0, <1>1, <2>1, <2>3, <2>4, <2>5, DataStep
  <1>4. CASE Write
    <2>0. pc' \in {"recv", "modout", "modin"}
      BY <1>4 DEF Write
    <2>1. CASE peer' = [peer EXCEPT ![p].eof = "hup"]
      <3>. DEFINE r == [peer[p] EXCEPT !.eof = "hup"]
      <3>1. r \in PeerState /\ r.st = peer[p].st /\ r.unread = peer[p].unread /\ r.left = peer[p].left
        BY <1>2 DEF PeerState
      <3>2. peer' = [peer EXCEPT ![p] = r]
        BY <2>1
      <3>. HIDE DEF r
      <3>. QED
        BY <1>0, <1>1, <1>2, <2>0, <3>1, <3>2, DataStep
    <2>2. ASSUME NEW full \in BOOLEAN, peer' = [peer EXCEPT ![p].full = @ \/ full]
          PROVE  EpollInv'
      <3>. DEFINE r == [peer[p] EXCEPT !.full = @ \/ full]
      <3>1. r \in PeerState /\ r.st = peer[p].st /\ r.unread = peer[p].unread /\ r.left = peer[p].left
        BY <1>2 DEF PeerState
      <3>2. peer' = [peer EXCEPT ![p] = r]
        BY <2>2
      <3>. HIDE DEF r
      <3>. QED
        BY <1>0, <1>1, <1>2, <2>0, <3>1, <3>2, DataStep
    <2>. QED
      BY <1>1, <1>4, <2>1, <2>2 DEF Write
  <1>. QED
    BY <1>3, <1>4

\* epoll_ctl on the current descriptor finds it, and what holds already is
\* put on the ready list again.
LEMMA ModStep ==
  ASSUME EpollInv, ModOut \/ ModIn
  PROVE  EpollInv'
  <1>. USE EpollAssumption
  <1>0. pc \in {"modout", "modin"} /\ events # << >> /\ cur # listenfd
    BY DEF ModOut, ModIn, EpollInv, PlaceOK
  <1>1. PICK c \in Fds : c = cur /\ file[c] \in Peers /\ interest[c] # None
    BY <1>0, Current
  <1>2. PICK asked \in {{"IN"}, {"OUT"}} : Mod(asked)
    BY DEF ModOut, ModIn
  <1>3. /\ events' = Tail(events) /\ pc' = "loop" /\ UNCHANGED <<peer, backlog, file>>
        /\ interest' = [interest EXCEPT ![c] = asked]
        /\ rdl' = IF Holds(peer'[file[c]]) \cap Wanted(asked) # {} THEN rdl \cup {c} ELSE rdl
    BY <1>1, <1>2 DEF Mod, Arm, NextEvent, kernel
  <1>4. rdl \subseteq rdl' /\ rdl' \subseteq rdl \cup {c}
    BY <1>3
  <1>5. /\ file \in [Fds -> Peers \cup {"listen", None}]
        /\ interest \in [Fds -> {{"IN"}, {"OUT"}, None}] /\ rdl \in SUBSET Fds
    BY StateTypes
  <1>6. \A f \in Fds : interest'[f] = IF f = c THEN asked ELSE interest[f]
    BY <1>3, <1>5
  <1>7. /\ events' \in Seq(Fds \X EventSet) /\ EventsAreCurrent'
        /\ \A fd \in Pending : fd # cur => fd \in Pending'
    <2>1. pc # "ended" /\ events # << >> /\ events' = Tail(events)
      BY <1>0, <1>3
    <2>2. \A fd \in Fds \ {cur} : (file[fd] # None => file'[fd] # None) /\ interest'[fd] = interest[fd]
      BY <1>1, <1>3, <1>6
    <2>. QED
      BY <2>1, <2>2, NextEventIs
  <1>8. EpollTypes'
    <2>1. \A k \in DOMAIN events' : events'[k] \in Fds \X SUBSET {"IN", "OUT", "ERR", "HUP"}
      BY <1>7 DEF EventSet
    <2>2. interest' \in [Fds -> {{"IN"}, {"OUT"}, None}]
      BY <1>3, <1>5
    <2>3. rdl' \in SUBSET Fds /\ pc' \in Places
      BY <1>3, <1>4, <1>5 DEF Places
    <2>. QED
      BY <1>3, <1>7, <2>1, <2>2, <2>3, StateTypes DEF EpollTypes, TypeOK
  <1>9. BacklogIsQueued' /\ PlaceOK'
    BY <1>3 DEF EpollInv, BacklogIsQueued, PlaceOK
  <1>10. TableOK'
    <2>1. \A f \in Fds : file[f] = None <=> interest'[f] = None
      BY <1>1, <1>6 DEF EpollInv, TableOK
    <2>2. \A f \in rdl' : file[f] \in Peers
      BY <1>1, <1>4 DEF EpollInv, TableOK
    <2>3. file[listenfd] = "listen"
      BY <1>0 DEF EpollInv, TableOK
    <2>. QED
      BY <1>3, <2>1, <2>2, <2>3 DEF EpollInv, TableOK
  <1>11. NoEdgeIsLost'
    <2>. SUFFICES ASSUME NEW fd \in Fds \ {listenfd}, file[fd] # None, fd \notin Pending',
                         Reported(fd)' # {}
                  PROVE  fd \in rdl'
      BY <1>3 DEF NoEdgeIsLost
    <2>1. CASE fd = c
      <3>1. Holds(peer'[file[c]]) \cap Wanted(asked) # {}
        BY <1>3, <1>6, <2>1 DEF Reported, Wanted
      <3>. QED
        BY <1>3, <2>1, <3>1
    <2>2. CASE fd # c
      <3>1. Reported(fd)' = Reported(fd)
        BY <1>3, <1>6, <2>2 DEF Reported
      <3>2. fd \notin Pending
        BY <1>1, <1>7, <2>2
      <3>3. fd \in rdl
        BY <1>0, <3>1, <3>2 DEF EpollInv, NoEdgeIsLost
      <3>. QED
        BY <1>4, <3>3
    <2>. QED
      BY <2>1, <2>2
  <1>. QED
    BY <1>7, <1>8, <1>9, <1>10, <1>11 DEF EpollInv

-----------------------------------------------------------------------------
LEMMA EpollStarts ==
  ASSUME Init
  PROVE  EpollInv
  <1>. USE EpollAssumption
  <1>1. NoPeer \in PeerState /\ NoPeer.unread + NoPeer.left <= MaxSent
    BY DEF NoPeer, PeerState
  <1>2. /\ peer \in [Peers -> PeerState] /\ backlog = << >> /\ rdl = {} /\ events = << >>
        /\ \A p \in Peers : peer[p].unread + peer[p].left <= MaxSent
        /\ pc = "start"
    BY <1>1 DEF Init
  <1>3. /\ file \in [Fds -> Peers \cup {"listen", None}]
        /\ interest \in [Fds -> {{"IN"}, {"OUT"}, None}]
        /\ \A fd \in Fds : file[fd] = None /\ interest[fd] = None
    BY DEF Init
  <1>4. EpollTypes
    <2>1. backlog \in Seq(Peers) /\ events \in Seq(Fds \X EventSet) /\ pc \in Places
      BY <1>2 DEF Places
    <2>. QED
      BY <1>2, <1>3, <2>1, TypesFollow
  <1>5. BacklogIsQueued /\ PlaceOK
    BY <1>2, <1>3 DEF BacklogIsQueued, PlaceOK
  <1>6. TableOK
    BY <1>2, <1>3 DEF TableOK
  <1>7. EventsAreCurrent /\ NoEdgeIsLost
    BY <1>2, <1>3 DEF EventsAreCurrent, NoEdgeIsLost
  <1>. QED
    BY <1>4, <1>5, <1>6, <1>7 DEF EpollInv

LEMMA EpollSteps ==
  ASSUME EpollInv, [Next]_vars
  PROVE  EpollInv'
  <1>1. CASE UNCHANGED vars
    <2>1. EpollTypes'
      BY <1>1 DEF vars, EpollInv, EpollTypes, TypeOK
    <2>2. BacklogIsQueued' /\ TableOK' /\ PlaceOK'
      BY <1>1 DEF vars, EpollInv, BacklogIsQueued, TableOK, PlaceOK, cur
    <2>3. EventsAreCurrent' /\ NoEdgeIsLost'
      BY <1>1 DEF vars, EpollInv, EventsAreCurrent, NoEdgeIsLost, Pending, Reported
    <2>. QED
      BY <2>1, <2>2, <2>3 DEF EpollInv
  <1>2. CASE PeerNext
    BY <1>2, PeerActs, ConnectStep DEF PeerNext
  <1>3. CASE StartFails \/ EpollWaitInterrupted \/ BrokenPipe
    BY <1>3, EndsStep DEF StartFails, EpollWaitInterrupted, BrokenPipe, kernel
  <1>4. CASE Start
    BY <1>4, StartStep
  <1>5. CASE EpollWait
    BY <1>5, EpollWaitStep
  <1>6. CASE DispatchListen \/ DispatchIn \/ DispatchOut \/ RecvBreaks
    BY <1>6, DispatchStep
  <1>7. CASE AcceptOne
    BY <1>7, AcceptOneStep
  <1>8. CASE AcceptFails
    BY <1>8, AcceptFailsStep
  <1>9. CASE HandleLinkDown \/ RecvEnds
    BY <1>9, CloseStep
  <1>10. CASE Recv \/ Write
    BY <1>10, RecvWriteStep
  <1>11. CASE ModOut \/ ModIn
    BY <1>11, ModStep
  <1>. QED
    BY <1>1, <1>2, <1>3, <1>4, <1>5, <1>6, <1>7, <1>8, <1>9, <1>10, <1>11 DEF Next, ServerNext

\* While a batch of events is handled, every event left in it is about the
\* connection that has its descriptor now and about something still asked for,
\* although close and accept reuse descriptor numbers between two events: so
\* no epoll_ctl of main fails.
THEOREM EventsStayCurrent == Spec => []EventsAreCurrent
  <1>1. Init => EpollInv
    BY EpollStarts
  <1>2. EpollInv /\ [Next]_vars => EpollInv'
    BY EpollSteps
  <1>3. EpollInv => EventsAreCurrent
    BY DEF EpollInv
  <1>. QED
    BY <1>1, <1>2, <1>3, PTL DEF Spec

\* No edge is lost: what can be done on a connection and is asked for is on
\* epoll's ready list, or its descriptor is among the events being handled,
\* whatever reads, writes and changes of the events asked for come between.
THEOREM EdgesAreKept == Spec => []NoEdgeIsLost
  <1>1. Init => EpollInv
    BY EpollStarts
  <1>2. EpollInv /\ [Next]_vars => EpollInv'
    BY EpollSteps
  <1>3. EpollInv => NoEdgeIsLost
    BY DEF EpollInv
  <1>. QED
    BY <1>1, <1>2, <1>3, PTL DEF Spec

=============================================================================
