-------------------------- MODULE ForkServerProofs --------------------------
(***************************************************************************)
(* OneOwner of ForkServer for any number of peers, children and requests.  *)
(*                                                                         *)
(* OneOwner is not inductive.  That a descriptor is closed once and that a *)
(* child gets the descriptor of its own connection only needs to know that *)
(* whoever is due to close connfd still has it, that a connection leaves   *)
(* the backlog once, and that before fork no child has what the parent has.*)
(***************************************************************************)
EXTENDS ForkServer, FiniteSetTheorems, TLAPS

ParentPlaces == {"start", "accept", "fork", "close", "ended"}

KidPlaces == {"none", "closelisten", "read", "write", "exit", "zombie"}

\* TypeOK, with what keeps the counters of a peer within their types.
ForkTypes ==
  /\ TypeOK
  /\ pc \in [Procs -> ParentPlaces \cup KidPlaces]
  /\ \A p \in Peers : peer[p].unread + peer[p].left <= MaxSent

\* The backlog has every queued connection at most once, and no other.
BacklogIsQueued ==
  /\ \A n \in 1 .. Len(backlog) : peer[backlog[n]].st = "queued"
  /\ \A m, n \in 1 .. Len(backlog) : backlog[m] = backlog[n] => m = n

\* Who has a descriptor, per connection.
HoldersOwn ==
  \A p \in Peers :
    /\ peer[p].st = "open" <=> holders[p] # {}
    /\ \A k, l \in holders[p] \cap Kids : k = l
    /\ \A k \in holders[p] \cap Kids : k \in Serving /\ connfd[k] = p
    /\ parent \in holders[p] =>
         /\ pc[parent] \in {"fork", "close"} /\ connfd[parent] = p
         /\ pc[parent] = "fork" => holders[p] = {parent}

\* Who has a connection in connfd, and is to close it, has a descriptor.
ConnfdIsHeld ==
  /\ \A k \in Serving : connfd[k] # None => k \in holders[connfd[k]]
  /\ pc[parent] \in {"fork", "close"} /\ connfd[parent] # None
       => parent \in holders[connfd[parent]]

ListenersKnown == lholders \subseteq {parent} \cup {k \in Kids : pc[k] = "closelisten"}

ForkInv ==
  /\ ForkTypes
  /\ BacklogIsQueued
  /\ HoldersOwn
  /\ ConnfdIsHeld
  /\ ListenersKnown

\* A set with no two different elements has at most one.
LEMMA AtMostOne ==
  ASSUME NEW S, \A x, y \in S : x = y
  PROVE  Cardinality(S) <= 1
  <1>1. CASE S = {}
    BY <1>1, FS_EmptySet
  <1>2. CASE S # {}
    <2>1. PICK x : x \in S
      BY <1>2
    <2>2. S = {x}
      BY <2>1
    <2>. QED
      BY <2>2, FS_Singleton
  <1>. QED
    BY <1>1, <1>2

LEMMA ForkInvSuffices == ForkInv => OneOwner /\ TypeOK
  <1>1. ASSUME ForkInv, NEW p \in Peers
        PROVE  Cardinality(holders[p] \cap Kids) <= 1
    BY <1>1, AtMostOne DEF ForkInv, HoldersOwn
  <1>. QED
    BY <1>1 DEF ForkInv, ForkTypes, HoldersOwn, ListenersKnown, OneOwner

LEMMA ForkInvInit == Init => ForkInv
  <1>. SUFFICES ASSUME Init PROVE ForkInv
    OBVIOUS
  <1>. USE ForkAssumption DEF Init, Procs
  <1>1. ForkTypes
    BY DEF ForkTypes, TypeOK, PeerState, NoPeer, ParentPlaces, KidPlaces
  <1>2. BacklogIsQueued
    BY DEF BacklogIsQueued
  <1>3. HoldersOwn
    BY DEF HoldersOwn, NoPeer
  <1>4. ConnfdIsHeld /\ ListenersKnown
    BY DEF ConnfdIsHeld, ListenersKnown, Serving
  <1>. QED
    BY <1>1, <1>2, <1>3, <1>4 DEF ForkInv

\* A peer that sends, closes, resets or drains changes no owner.
LEMMA PeerSteps ==
  ASSUME ForkInv, NEW p \in Peers,
         PeerSends(p) \/ PeerCloses(p) \/ PeerResets(p) \/ PeerDrains(p)
  PROVE  ForkInv'
  <1>. USE ForkAssumption DEF ForkInv
  <1>0. /\ peer \in [Peers -> PeerState] /\ UNCHANGED <<backlog, holders, lholders, connfd, pc>>
        /\ \A q \in Peers : peer[q].unread + peer[q].left <= MaxSent
    BY DEF ForkTypes, TypeOK, PeerSends, PeerCloses, PeerResets, PeerDrains
  <1>a. /\ peer[p].unread \in 0 .. MaxSent /\ peer[p].left \in 0 .. MaxSent
        /\ peer[p] \in PeerState
    BY <1>0 DEF PeerState
  <1>b. \E r \in PeerState : /\ peer' = [peer EXCEPT ![p] = r] /\ r.st = peer[p].st
                            /\ r.unread + r.left <= MaxSent
    <2>1. CASE PeerSends(p)
      <3>. DEFINE r == [peer[p] EXCEPT !.unread = @ + 1, !.left = @ - 1]
      <3>1. r \in PeerState /\ r.st = peer[p].st /\ r.unread + r.left <= MaxSent
        BY <2>1, <1>0, <1>a DEF PeerSends, PeerState
      <3>2. peer' = [peer EXCEPT ![p] = r]
        BY <2>1, <1>0, <1>a DEF PeerSends, PeerState
      <3>. QED
        BY <3>1, <3>2
    <2>2. CASE PeerCloses(p)
      <3>. DEFINE r == [peer[p] EXCEPT !.eof = "fin"]
      <3>1. r \in PeerState /\ r.st = peer[p].st /\ r.unread + r.left <= MaxSent
        BY <2>2, <1>0, <1>a DEF PeerCloses, PeerState
      <3>. QED
        BY <2>2, <3>1 DEF PeerCloses
    <2>3. CASE PeerResets(p)
      <3>. DEFINE r == [peer[p] EXCEPT !.eof = "reset", !.unread = 0]
      <3>a. 0 \in 0 .. MaxSent
        OBVIOUS
      <3>b. r \in PeerState
        BY <1>a, <3>a DEF PeerState
      <3>c. r.st = peer[p].st /\ r.unread = 0 /\ r.left = peer[p].left
        BY <1>a DEF PeerState
      <3>1. r \in PeerState /\ r.st = peer[p].st /\ r.unread + r.left <= MaxSent
        BY <1>a, <3>b, <3>c
      <3>2. peer' = [peer EXCEPT ![p] = r]
        BY <2>3, <1>0, <1>a DEF PeerResets, PeerState
      <3>. QED
        BY <3>1, <3>2
    <2>4. CASE PeerDrains(p)
      <3>. DEFINE r == [peer[p] EXCEPT !.full = FALSE]
      <3>1. r \in PeerState /\ r.st = peer[p].st /\ r.unread + r.left <= MaxSent
        BY <2>4, <1>0, <1>a DEF PeerDrains, PeerState
      <3>. QED
        BY <2>4, <3>1 DEF PeerDrains
    <2>. QED
      BY <2>1, <2>2, <2>3, <2>4
  <1>1. peer' \in [Peers -> PeerState] /\ \A q \in Peers : peer'[q].st = peer[q].st
    BY <1>0, <1>b
  <1>2. \A q \in Peers : peer'[q].unread + peer'[q].left <= MaxSent
    BY <1>0, <1>b
  <1>3. ForkTypes'
    BY <1>0, <1>1, <1>2 DEF ForkTypes, TypeOK
  <1>4. BacklogIsQueued'
    BY <1>0, <1>1 DEF BacklogIsQueued, ForkTypes, TypeOK
  <1>5. HoldersOwn' /\ ConnfdIsHeld' /\ ListenersKnown'
    BY <1>0, <1>1 DEF HoldersOwn, ConnfdIsHeld, ListenersKnown, Serving
  <1>. QED
    BY <1>3, <1>4, <1>5

\* A connection enters another state.
LEMMA StateOfPeer ==
  ASSUME peer \in [Peers -> PeerState], NEW p \in Peers, NEW st \in {"idle", "queued", "open"},
         peer' = [peer EXCEPT ![p].st = st]
  PROVE  /\ peer' \in [Peers -> PeerState]
         /\ \A q \in Peers : /\ peer'[q].st = IF q = p THEN st ELSE peer[q].st
                            /\ peer'[q].unread = peer[q].unread
                            /\ peer'[q].left = peer[q].left
  BY DEF PeerState

\* A new connection joins the backlog.
LEMMA ConnectStep ==
  ASSUME ForkInv, NEW p \in Peers, Connect(p)
  PROVE  ForkInv'
  <1>. USE ForkAssumption DEF ForkInv, Connect
  <1>0. peer \in [Peers -> PeerState] /\ backlog \in Seq(Peers)
    BY DEF ForkTypes, TypeOK
  <1>1. /\ peer' \in [Peers -> PeerState]
        /\ \A q \in Peers : /\ peer'[q].st = IF q = p THEN "queued" ELSE peer[q].st
                           /\ peer'[q].unread = peer[q].unread
                           /\ peer'[q].left = peer[q].left
    BY <1>0, StateOfPeer
  <1>2. /\ backlog' \in Seq(Peers) /\ Len(backlog') = Len(backlog) + 1
        /\ backlog'[Len(backlog) + 1] = p
        /\ \A n \in 1 .. Len(backlog) : backlog'[n] = backlog[n] /\ backlog[n] \in Peers
        /\ Len(backlog) \in Nat
    BY <1>0
  <1>3. ForkTypes'
    BY <1>1, <1>2 DEF ForkTypes, TypeOK
  <1>4. \A n \in 1 .. Len(backlog) : backlog[n] # p
    BY <1>0 DEF BacklogIsQueued
  <1>5. BacklogIsQueued'
    BY <1>1, <1>2, <1>4 DEF BacklogIsQueued
  <1>6. HoldersOwn' /\ ConnfdIsHeld' /\ ListenersKnown'
    BY <1>1 DEF HoldersOwn, ConnfdIsHeld, ListenersKnown, Serving
  <1>. QED
    BY <1>3, <1>5, <1>6

\* What closing connfd does: process x, which has a descriptor of it, has none
\* any more, and the connection is gone when nobody else has one.
LEMMA DropStep ==
  ASSUME ForkInv, NEW x \in Procs, Drop(x, connfd[x]),
         connfd[x] # None => x \in holders[connfd[x]]
  PROVE  /\ peer' \in [Peers -> PeerState] /\ holders' \in [Peers -> SUBSET Procs]
         /\ \A q \in Peers : peer'[q].unread + peer'[q].left <= MaxSent
         /\ \A q \in Peers \ {connfd[x]} : peer'[q] = peer[q] /\ holders'[q] = holders[q]
         /\ connfd[x] # None =>
              /\ connfd[x] \in Peers /\ peer[connfd[x]].st = "open"
              /\ holders'[connfd[x]] = holders[connfd[x]] \ {x}
              /\ peer'[connfd[x]].st =
                   IF holders[connfd[x]] \ {x} = {} THEN "idle" ELSE "open"
  <1>. USE ForkAssumption DEF ForkInv
  <1>0. /\ peer \in [Peers -> PeerState] /\ holders \in [Peers -> SUBSET Procs]
        /\ connfd[x] \in Peers \cup {None}
        /\ \A q \in Peers : peer[q].unread + peer[q].left <= MaxSent
    BY DEF ForkTypes, TypeOK
  <1>1. NoPeer \in PeerState /\ NoPeer.st = "idle" /\ NoPeer.unread + NoPeer.left <= MaxSent
    BY DEF NoPeer, PeerState
  <1>2. CASE connfd[x] = None
    BY <1>0, <1>2 DEF Drop
  <1>3. CASE connfd[x] # None
    <2>1. connfd[x] \in Peers /\ peer[connfd[x]].st = "open"
      BY <1>0, <1>3 DEF HoldersOwn
    <2>2. CASE holders[connfd[x]] \subseteq {x}
      <3>1. peer' = [peer EXCEPT ![connfd[x]] = NoPeer]
        BY <1>3, <2>2 DEF Drop
      <3>2. holders' = [holders EXCEPT ![connfd[x]] = @ \ {x}]
        BY <1>3 DEF Drop
      <3>. QED
        BY <1>0, <1>1, <2>1, <2>2, <3>1, <3>2
    <2>3. CASE ~ (holders[connfd[x]] \subseteq {x})
      <3>1. peer' = peer
        BY <1>3, <2>3 DEF Drop
      <3>2. holders' = [holders EXCEPT ![connfd[x]] = @ \ {x}]
        BY <1>3 DEF Drop
      <3>. QED
        BY <1>0, <2>1, <2>3, <3>1, <3>2
    <2>. QED
      BY <2>2, <2>3
  <1>. QED
    BY <1>2, <1>3

\* The parent before and after the accept.
LEMMA AcceptSteps ==
  ASSUME ForkInv, Start \/ StartFails \/ Accept \/ AcceptFails
  PROVE  ForkInv'
  <1>. USE ForkAssumption DEF ForkInv, Goto, Procs
  <1>1. CASE Start \/ StartFails
    <2>. USE <1>1 DEF Start, StartFails
    <2>1. ForkTypes'
      BY DEF ForkTypes, TypeOK, ParentPlaces
    <2>2. BacklogIsQueued' /\ HoldersOwn'
      BY DEF BacklogIsQueued, HoldersOwn, Serving, ForkTypes
    <2>3. ConnfdIsHeld' /\ ListenersKnown'
      BY DEF ConnfdIsHeld, ListenersKnown, Serving, ForkTypes
    <2>. QED
      BY <2>1, <2>2, <2>3
  <1>2. CASE AcceptFails
    <2>. USE <1>2 DEF AcceptFails
    <2>1. ForkTypes'
      BY DEF ForkTypes, TypeOK, ParentPlaces
    <2>2. BacklogIsQueued' /\ ListenersKnown'
      BY DEF BacklogIsQueued, ListenersKnown, ForkTypes
    <2>3. HoldersOwn'
      BY DEF HoldersOwn, Serving, ForkTypes, TypeOK
    <2>4. ConnfdIsHeld'
      BY DEF ConnfdIsHeld, Serving, ForkTypes, TypeOK
    <2>. QED
      BY <2>1, <2>2, <2>3, <2>4
  <1>3. CASE Accept
    <2>. USE <1>3
    <2>. DEFINE p == Head(backlog)
    <2>0. /\ peer \in [Peers -> PeerState] /\ holders \in [Peers -> SUBSET Procs]
          /\ connfd \in [Procs -> Peers \cup {None}] /\ backlog \in Seq(Peers)
          /\ pc \in [Procs -> ParentPlaces \cup KidPlaces]
      BY DEF ForkTypes, TypeOK
    <2>1. p \in Peers /\ p = backlog[1] /\ Len(backlog) \in Nat \ {0}
      BY <2>0 DEF Accept
    <2>2. peer[p].st = "queued" /\ holders[p] = {}
      BY <2>0, <2>1 DEF BacklogIsQueued, HoldersOwn
    <2>3. /\ backlog' \in Seq(Peers) /\ Len(backlog') = Len(backlog) - 1
          /\ \A n \in 1 .. Len(backlog') :
               n + 1 \in 1 .. Len(backlog) /\ backlog'[n] = backlog[n + 1]
      BY <2>0, <2>1 DEF Accept
    <2>4. \A n \in 1 .. Len(backlog') : backlog'[n] # p /\ backlog'[n] \in Peers
      BY <2>0, <2>1, <2>3 DEF BacklogIsQueued
    <2>6. /\ peer' = [peer EXCEPT ![p].st = "open"]
          /\ holders' = [holders EXCEPT ![p] = {parent}]
          /\ connfd' = [connfd EXCEPT ![parent] = p]
          /\ pc' = [pc EXCEPT ![parent] = "fork"]
          /\ pc[parent] = "accept" /\ lholders' = lholders
      BY DEF Accept
    <2>. HIDE DEF p
    <2>. USE <2>0, <2>1, <2>6
    <2>5. /\ peer' \in [Peers -> PeerState]
          /\ \A q \in Peers : /\ peer'[q].st = IF q = p THEN "open" ELSE peer[q].st
                             /\ peer'[q].unread = peer[q].unread
                             /\ peer'[q].left = peer[q].left
      BY StateOfPeer
    <2>7. ForkTypes'
      BY <2>3, <2>5 DEF ForkTypes, TypeOK, ParentPlaces
    <2>8. BacklogIsQueued'
      <3>1. \A n \in 1 .. Len(backlog') : peer'[backlog'[n]].st = "queued"
        BY <2>3, <2>4, <2>5 DEF BacklogIsQueued
      <3>2. \A m, n \in 1 .. Len(backlog') : backlog'[m] = backlog'[n] => m = n
        <4>. SUFFICES ASSUME NEW m \in 1 .. Len(backlog'), NEW n \in 1 .. Len(backlog'),
                             backlog'[m] = backlog'[n]
                      PROVE  m = n
          OBVIOUS
        <4>1. backlog[m + 1] = backlog[n + 1] /\ m + 1 \in 1 .. Len(backlog)
              /\ n + 1 \in 1 .. Len(backlog)
          BY <2>3
        <4>2. m + 1 = n + 1
          BY <4>1 DEF BacklogIsQueued
        <4>. QED
          BY <4>2, <2>3
      <3>. QED
        BY <3>1, <3>2 DEF BacklogIsQueued
    <2>9. HoldersOwn'
      BY <2>2, <2>5 DEF HoldersOwn, Serving
    <2>10. ConnfdIsHeld' /\ ListenersKnown'
      BY <2>2 DEF ConnfdIsHeld, ListenersKnown, Serving
    <2>. QED
      BY <2>7, <2>8, <2>9, <2>10
  <1>. QED
    BY <1>1, <1>2, <1>3

\* fork: the child gets a descriptor of the parent's connection and of nothing else.
LEMMA ForkStep ==
  ASSUME ForkInv, Fork
  PROVE  ForkInv'
  <1>. USE ForkAssumption DEF ForkInv, Procs
  <1>0. /\ holders \in [Peers -> SUBSET Procs]
        /\ connfd \in [Procs -> Peers \cup {None}]
        /\ pc \in [Procs -> ParentPlaces \cup KidPlaces]
    BY DEF ForkTypes, TypeOK
  <1>1. PICK k \in Kids :
          /\ pc[k] = "none" /\ pc[parent] = "fork"
          /\ pc' = [pc EXCEPT ![k] = "closelisten", ![parent] = "close"]
          /\ connfd' = [connfd EXCEPT ![k] = connfd[parent]]
          /\ lholders' = lholders \cup {k}
          /\ holders' = [p \in Peers |-> IF parent \in holders[p]
                                         THEN holders[p] \cup {k} ELSE holders[p]]
          /\ UNCHANGED <<peer, backlog>>
    BY DEF Fork
  <1>2. k # parent /\ \A p \in Peers : k \notin holders[p]
    BY <1>0, <1>1 DEF HoldersOwn, Serving
  <1>. USE <1>0, <1>1, <1>2
  <1>3. ForkTypes'
    BY DEF ForkTypes, TypeOK, ParentPlaces, KidPlaces
  <1>4. BacklogIsQueued'
    BY DEF BacklogIsQueued
  <1>5. HoldersOwn'
    <2>. SUFFICES ASSUME NEW p \in Peers
                  PROVE  HoldersOwn!(p)'
      BY DEF HoldersOwn
    <2>1. CASE parent \in holders[p]
      <3>1. holders[p] = {parent} /\ connfd[parent] = p /\ holders'[p] = {parent, k}
        BY <2>1 DEF HoldersOwn
      <3>. QED
        BY <3>1 DEF HoldersOwn, Serving
    <2>2. CASE parent \notin holders[p]
      <3>1. holders'[p] = holders[p]
        BY <2>2
      <3>. QED
        BY <2>2, <3>1 DEF HoldersOwn, Serving
    <2>. QED
      BY <2>1, <2>2
  <1>6. ConnfdIsHeld'
    <2>1. connfd[parent] # None => connfd[parent] \in Peers /\ parent \in holders[connfd[parent]]
      BY DEF ConnfdIsHeld
    <2>2. ASSUME NEW m \in Serving', connfd'[m] # None
          PROVE  m \in holders'[connfd'[m]]
      <3>1. CASE m = k
        BY <2>1, <2>2, <3>1
      <3>2. CASE m # k
        BY <2>2, <3>2 DEF ConnfdIsHeld, Serving
      <3>. QED
        BY <3>1, <3>2
    <2>3. connfd'[parent] = connfd[parent]
      OBVIOUS
    <2>. QED
      BY <2>1, <2>2, <2>3 DEF ConnfdIsHeld
  <1>7. ListenersKnown'
    BY DEF ListenersKnown
  <1>. QED
    BY <1>3, <1>4, <1>5, <1>6, <1>7

\* Who closes its connection or ends, the parent or a child: x goes to a place
\* where connfd counts no more, and has the descriptor no more.
LEMMA CloseStep ==
  ASSUME ForkInv, NEW x \in Procs, NEW place \in {"accept", "ended", "zombie"},
         Drop(x, connfd[x]), connfd[x] # None => x \in holders[connfd[x]],
         x = parent => place # "zombie", x # parent => place = "zombie",
         x = parent => pc[parent] \in {"fork", "close"}, x # parent => x \in Serving,
         pc' = [pc EXCEPT ![x] = place],
         lholders' \in {lholders, lholders \ {x}},
         x # parent => lholders' = lholders \ {x},
         UNCHANGED <<backlog, connfd>>
  PROVE  ForkInv'
  <1>. USE ForkAssumption DEF ForkInv, Procs
  <1>0. /\ holders \in [Peers -> SUBSET Procs]
        /\ connfd \in [Procs -> Peers \cup {None}]
        /\ pc \in [Procs -> ParentPlaces \cup KidPlaces]
    BY DEF ForkTypes, TypeOK
  <1>1. /\ peer' \in [Peers -> PeerState] /\ holders' \in [Peers -> SUBSET Procs]
        /\ \A q \in Peers : peer'[q].unread + peer'[q].left <= MaxSent
        /\ \A q \in Peers \ {connfd[x]} : peer'[q] = peer[q] /\ holders'[q] = holders[q]
        /\ connfd[x] # None =>
             /\ connfd[x] \in Peers /\ peer[connfd[x]].st = "open"
             /\ holders'[connfd[x]] = holders[connfd[x]] \ {x}
             /\ peer'[connfd[x]].st =
                  IF holders[connfd[x]] \ {x} = {} THEN "idle" ELSE "open"
    BY DropStep
  <1>2. \A q \in Peers : x \notin holders'[q] /\ holders'[q] \subseteq holders[q]
    BY <1>0, <1>1 DEF HoldersOwn
  <1>3. ForkTypes'
    BY <1>0, <1>1 DEF ForkTypes, TypeOK, ParentPlaces, KidPlaces
  <1>4. BacklogIsQueued'
    <2>1. \A n \in 1 .. Len(backlog) : backlog[n] \in Peers /\ backlog[n] # connfd[x]
      BY <1>1 DEF BacklogIsQueued, ForkTypes, TypeOK
    <2>. QED
      BY <1>1, <2>1 DEF BacklogIsQueued
  <1>5. HoldersOwn'
    <2>. SUFFICES ASSUME NEW p \in Peers
                  PROVE  HoldersOwn!(p)'
      BY DEF HoldersOwn
    <2>1. peer'[p].st = "open" <=> holders'[p] # {}
      BY <1>0, <1>1 DEF HoldersOwn
    <2>2. \A k \in holders'[p] \cap Kids : k # x /\ pc'[k] = pc[k] /\ k \in holders[p]
      BY <1>0, <1>2
    <2>3. \A k, l \in holders'[p] \cap Kids : k = l
      BY <2>2 DEF HoldersOwn
    <2>4. \A k \in holders'[p] \cap Kids : k \in Serving' /\ connfd'[k] = p
      BY <2>2 DEF HoldersOwn, Serving
    <2>5. parent \in holders'[p] =>
            /\ pc'[parent] \in {"fork", "close"} /\ connfd'[parent] = p
            /\ pc'[parent] = "fork" => holders'[p] = {parent}
      BY <1>0, <1>2 DEF HoldersOwn
    <2>. QED
      BY <2>1, <2>3, <2>4, <2>5
  <1>6. ConnfdIsHeld'
    <2>1. ASSUME NEW m \in Serving', connfd'[m] # None
          PROVE  m \in holders'[connfd'[m]]
      <3>1. m # x /\ m \in Serving
        BY <1>0, <2>1 DEF Serving
      <3>. QED
        BY <1>0, <1>1, <2>1, <3>1 DEF ConnfdIsHeld, Serving
    <2>2. ASSUME pc'[parent] \in {"fork", "close"}, connfd'[parent] # None
          PROVE  parent \in holders'[connfd'[parent]]
      <3>1. x # parent /\ pc[parent] \in {"fork", "close"}
        BY <1>0, <2>2
      <3>. QED
        BY <1>0, <1>1, <2>2, <3>1 DEF ConnfdIsHeld
    <2>. QED
      BY <2>1, <2>2 DEF ConnfdIsHeld
  <1>7. ListenersKnown'
    BY <1>0 DEF ListenersKnown
  <1>. QED
    BY <1>3, <1>4, <1>5, <1>6, <1>7

\* A child that goes on with its own connection.
LEMMA ServeStep ==
  ASSUME ForkInv, NEW k \in Kids,
         CloseListen(k) \/ Read(k) \/ ReadEnds(k) \/ Write(k)
  PROVE  ForkInv'
  <1>. USE ForkAssumption DEF ForkInv, Procs
  <1>0. /\ peer \in [Peers -> PeerState]
        /\ holders \in [Peers -> SUBSET Procs]
        /\ connfd \in [Procs -> Peers \cup {None}]
        /\ pc \in [Procs -> ParentPlaces \cup KidPlaces]
        /\ \A q \in Peers : peer[q].unread + peer[q].left <= MaxSent
        /\ \A q \in Peers : peer[q].unread \in Nat /\ peer[q].left \in Nat
    BY DEF ForkTypes, TypeOK, PeerState
  <1>1. /\ peer' \in [Peers -> PeerState]
        /\ \A q \in Peers : /\ peer'[q].st = peer[q].st
                           /\ peer'[q].unread + peer'[q].left <= MaxSent
    <2>1. CASE CloseListen(k) \/ ReadEnds(k)
      BY <1>0, <2>1 DEF CloseListen, ReadEnds
    <2>2. CASE Read(k)
      <3>1. connfd[k] \in Peers
        BY <1>0, <2>2 DEF Read
      <3>2. PICK n \in 1 .. peer[connfd[k]].unread :
              peer' = [peer EXCEPT ![connfd[k]].unread = @ - n]
        BY <2>2 DEF Read
      <3>3. peer[connfd[k]].unread \in 0 .. MaxSent /\ peer[connfd[k]].unread - n \in 0 .. MaxSent
        BY <1>0, <3>1, <3>2 DEF PeerState
      <3>4. \A q \in Peers :
              /\ peer'[q] \in PeerState
              /\ peer'[q].st = peer[q].st /\ peer'[q].left = peer[q].left
              /\ peer'[q].unread \in Nat /\ peer'[q].unread <= peer[q].unread
        BY <1>0, <3>1, <3>2, <3>3 DEF PeerState
      <3>5. peer' \in [Peers -> PeerState]
        BY <1>0, <3>2, <3>4
      <3>. QED
        BY <1>0, <3>4, <3>5
    <2>3. CASE Write(k)
      <3>1. PICK full \in BOOLEAN : peer' = [peer EXCEPT ![connfd[k]].full = full]
        BY <2>3 DEF Write
      <3>2. \A q \in Peers :
              /\ peer'[q] \in PeerState
              /\ peer'[q].st = peer[q].st
              /\ peer'[q].left = peer[q].left /\ peer'[q].unread = peer[q].unread
        BY <1>0, <3>1 DEF PeerState
      <3>3. peer' \in [Peers -> PeerState]
        BY <1>0, <3>1, <3>2
      <3>. QED
        BY <1>0, <3>2, <3>3
    <2>. QED
      BY <2>1, <2>2, <2>3
  <1>2. /\ pc[k] \in {"closelisten", "read", "write"}
        /\ \E place \in {"read", "write", "exit"} : pc' = [pc EXCEPT ![k] = place]
        /\ lholders' \in {lholders, lholders \ {k}}
        /\ pc[k] = "closelisten" => lholders' = lholders \ {k}
        /\ UNCHANGED <<backlog, holders, connfd>>
    BY DEF CloseListen, Read, ReadEnds, Write, Goto
  <1>3. ForkTypes'
    BY <1>0, <1>1, <1>2 DEF ForkTypes, TypeOK, KidPlaces
  <1>4. BacklogIsQueued'
    BY <1>1, <1>2 DEF BacklogIsQueued, ForkTypes, TypeOK
  <1>5. Serving' = Serving /\ pc'[parent] = pc[parent]
    BY <1>0, <1>2 DEF Serving
  <1>6. HoldersOwn' /\ ConnfdIsHeld'
    BY <1>1, <1>2, <1>5 DEF HoldersOwn, ConnfdIsHeld
  <1>7. ListenersKnown'
    BY <1>0, <1>2 DEF ListenersKnown
  <1>. QED
    BY <1>3, <1>4, <1>6, <1>7

LEMMA ForkInvStep == ForkInv /\ [Next]_vars => ForkInv'
  <1>. SUFFICES ASSUME ForkInv, [Next]_vars PROVE ForkInv'
    OBVIOUS
  <1>1. CASE ForkFails \/ ParentClose
    <2>1. connfd[parent] # None => parent \in holders[connfd[parent]]
      BY <1>1 DEF ForkFails, ParentClose, ForkInv, ConnfdIsHeld
    <2>. QED
      BY <1>1, <2>1, CloseStep DEF ForkFails, ParentClose, Goto, Procs
  <1>2. ASSUME NEW k \in Kids, Exit(k)
        PROVE  ForkInv'
    <2>1. k \in Serving /\ k \in Procs /\ k # parent
      BY <1>2, ForkAssumption DEF Exit, Serving, Procs
    <2>2. connfd[k] # None => k \in holders[connfd[k]]
      BY <2>1 DEF ForkInv, ConnfdIsHeld
    <2>. QED
      BY <1>2, <2>1, <2>2, CloseStep DEF Exit, Goto
  <1>3. CASE UNCHANGED vars
    BY <1>3 DEF vars, ForkInv, ForkTypes, TypeOK, BacklogIsQueued, HoldersOwn, ConnfdIsHeld,
                ListenersKnown, Serving
  <1>. QED
    BY <1>1, <1>2, <1>3, AcceptSteps, ForkStep, ServeStep, ConnectStep, PeerSteps
    DEF Next, ParentNext, ChildNext, PeerNext

\* Every connection of serv.cpp has one owner, whatever the number of peers and
\* children and however their steps interleave with accept, fork and close.
THEOREM ForkServerOneOwner == Spec => []OneOwner
  <1>1. Init => ForkInv
    BY ForkInvInit
  <1>2. ForkInv /\ [Next]_vars => ForkInv'
    BY ForkInvStep
  <1>3. ForkInv => OneOwner
    BY ForkInvSuffices
  <1>. QED
    BY <1>1, <1>2, <1>3, PTL DEF Spec

=============================================================================
