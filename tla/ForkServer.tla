----------------------------- MODULE ForkServer -----------------------------
(***************************************************************************)
(* net/test/serv.cpp: a server that forks a process per connection.  The   *)
(* parent only accepts; the child reads, answers "nihao" and ends with the *)
(* connection.  Sockets block.  A connection is closed when the last       *)
(* process that has a descriptor of it closes it or ends.                  *)
(***************************************************************************)
EXTENDS Integers, Sequences, FiniteSets

CONSTANTS
  Peers,      \* remote programs, each with at most one connection at a time
  Kids,       \* process table entries for children
  parent,
  None,
  MaxSent     \* bound on the requests a peer sends on one connection

ASSUME ForkAssumption ==
  /\ parent \notin Kids
  /\ None \notin Peers \cup Kids
  /\ MaxSent \in Nat

VARIABLES
  peer,      \* the kernel's end of each connection
  backlog,   \* connections not yet accepted
  holders,   \* the processes with a descriptor of a connection
  lholders,  \* the processes with a descriptor of the listening socket
  connfd,    \* the connection in variable connfd of each process, or None (-1)
  pc         \* of the parent and of every child; "none": entry not in use

vars == <<peer, backlog, holders, lholders, connfd, pc>>

Procs == Kids \cup {parent}

NoPeer == [st |-> "idle", unread |-> 0, left |-> MaxSent, eof |-> "no", full |-> FALSE]

PeerState == [st : {"idle", "queued", "open"}, unread : 0 .. MaxSent,
              left : 0 .. MaxSent, eof : {"no", "fin", "reset"}, full : BOOLEAN]

Init ==
  /\ peer = [p \in Peers |-> NoPeer]
  /\ backlog = << >>
  /\ holders = [p \in Peers |-> {}]
  /\ lholders = {}
  /\ connfd = [x \in Procs |-> None]
  /\ pc = [x \in Procs |-> IF x = parent THEN "start" ELSE "none"]

Goto(x, place) == pc' = [pc EXCEPT ![x] = place]

\* Process x gives up its descriptor of connection p: the last one closes it.
Drop(x, p) ==
  IF p = None THEN UNCHANGED <<holders, peer>>
  ELSE /\ holders' = [holders EXCEPT ![p] = @ \ {x}]
       /\ peer' = IF holders[p] \subseteq {x} THEN [peer EXCEPT ![p] = NoPeer] ELSE peer

-----------------------------------------------------------------------------
(***************************************************************************)
(* The peers.                                                              *)
(***************************************************************************)
Connect(p) ==
  /\ lholders # {}
  /\ peer[p].st = "idle"
  /\ peer' = [peer EXCEPT ![p].st = "queued"]
  /\ backlog' = Append(backlog, p)
  /\ UNCHANGED <<holders, lholders, connfd, pc>>

PeerSends(p) ==
  /\ peer[p].st \in {"queued", "open"} /\ peer[p].eof = "no"
  /\ peer[p].left > 0
  /\ peer' = [peer EXCEPT ![p].unread = @ + 1, ![p].left = @ - 1]
  /\ UNCHANGED <<backlog, holders, lholders, connfd, pc>>

PeerCloses(p) ==
  /\ peer[p].st \in {"queued", "open"} /\ peer[p].eof = "no"
  /\ peer' = [peer EXCEPT ![p].eof = "fin"]
  /\ UNCHANGED <<backlog, holders, lholders, connfd, pc>>

PeerResets(p) ==
  /\ peer[p].st \in {"queued", "open"} /\ peer[p].eof # "reset"
  /\ peer' = [peer EXCEPT ![p].eof = "reset", ![p].unread = 0]
  /\ UNCHANGED <<backlog, holders, lholders, connfd, pc>>

PeerDrains(p) ==
  /\ peer[p].full
  /\ peer' = [peer EXCEPT ![p].full = FALSE]
  /\ UNCHANGED <<backlog, holders, lholders, connfd, pc>>

-----------------------------------------------------------------------------
(***************************************************************************)
(* The parent.                                                             *)
(***************************************************************************)
Start ==
  /\ pc[parent] = "start"
  /\ lholders' = {parent}
  /\ Goto(parent, "accept")
  /\ UNCHANGED <<peer, backlog, holders, connfd>>

\* socket, bind or listen fails (the port may be taken).
StartFails ==
  /\ pc[parent] = "start"
  /\ Goto(parent, "ended")
  /\ UNCHANGED <<peer, backlog, holders, lholders, connfd>>

Accept ==
  /\ pc[parent] = "accept"
  /\ backlog # << >>
  /\ LET p == Head(backlog)
     IN /\ peer' = [peer EXCEPT ![p].st = "open"]
        /\ holders' = [holders EXCEPT ![p] = {parent}]
        /\ connfd' = [connfd EXCEPT ![parent] = p]
  /\ backlog' = Tail(backlog)
  /\ Goto(parent, "fork")
  /\ UNCHANGED lholders

\* The result of accept is not tested: a child is forked for -1.
AcceptFails ==
  /\ pc[parent] = "accept"
  /\ backlog # << >>
  /\ connfd' = [connfd EXCEPT ![parent] = None]
  /\ Goto(parent, "fork")
  /\ UNCHANGED <<peer, backlog, holders, lholders>>

\* The child has a copy of every descriptor.
Fork ==
  /\ pc[parent] = "fork"
  /\ \E k \in Kids :
       /\ pc[k] = "none"
       /\ pc' = [pc EXCEPT ![k] = "closelisten", ![parent] = "close"]
       /\ connfd' = [connfd EXCEPT ![k] = connfd[parent]]
       /\ lholders' = lholders \cup {k}
       /\ holders' = [p \in Peers |-> IF parent \in holders[p]
                                      THEN holders[p] \cup {k} ELSE holders[p]]
  /\ UNCHANGED <<peer, backlog>>

\* fork fails, at the latest when the process table is full: children that
\* ended stay in it, since nobody waits for them.  The parent exits, and init
\* takes over its children.
ForkFails ==
  /\ pc[parent] = "fork"
  /\ Drop(parent, connfd[parent])
  /\ lholders' = lholders \ {parent}
  /\ Goto(parent, "ended")
  /\ UNCHANGED <<backlog, connfd>>

ParentClose_Forgotten ==
  /\ pc[parent] = "close"
  /\ Goto(parent, "accept")
  /\ UNCHANGED <<peer, backlog, holders, lholders, connfd>>

ParentClose_WaitsForChild ==
  /\ pc[parent] = "close"
  /\ \A k \in Kids : pc[k] \in {"none", "zombie"}
  /\ Drop(parent, connfd[parent])
  /\ Goto(parent, "accept")
  /\ UNCHANGED <<backlog, lholders, connfd>>

ParentClose ==
  /\ pc[parent] = "close"
  /\ Drop(parent, connfd[parent])
  /\ Goto(parent, "accept")
  /\ UNCHANGED <<backlog, lholders, connfd>>

-----------------------------------------------------------------------------
(***************************************************************************)
(* A child.                                                                *)
(***************************************************************************)
CloseListen(k) ==
  /\ pc[k] = "closelisten"
  /\ lholders' = lholders \ {k}
  /\ Goto(k, "read")
  /\ UNCHANGED <<peer, backlog, holders, connfd>>

\* read returns data ...
Read(k) ==
  /\ pc[k] = "read"
  /\ connfd[k] # None /\ peer[connfd[k]].unread > 0
  /\ \E n \in 1 .. peer[connfd[k]].unread :
       peer' = [peer EXCEPT ![connfd[k]].unread = @ - n]
  /\ Goto(k, "write")
  /\ UNCHANGED <<backlog, holders, lholders, connfd>>

\* ... or 0 or an error, and the loop is left.
ReadEnds(k) ==
  /\ pc[k] = "read"
  /\ connfd[k] # None => peer[connfd[k]].unread = 0 /\ peer[connfd[k]].eof # "no"
  /\ Goto(k, "exit")
  /\ UNCHANGED <<peer, backlog, holders, lholders, connfd>>

\* write blocks while there is no room; an error is ignored.
Write(k) ==
  /\ pc[k] = "write"
  /\ ~ peer[connfd[k]].full \/ peer[connfd[k]].eof = "reset"
  /\ \E full \in BOOLEAN : peer' = [peer EXCEPT ![connfd[k]].full = full]
  /\ Goto(k, "read")
  /\ UNCHANGED <<backlog, holders, lholders, connfd>>

\* close(connfd) and exit, or SIGPIPE: the descriptors are gone either way, and
\* the entry stays in use for a parent that never waits.
Exit(k) ==
  /\ \/ pc[k] = "exit"
     \/ pc[k] = "write" /\ peer[connfd[k]].eof = "reset"
  /\ Drop(k, connfd[k])
  /\ lholders' = lholders \ {k}
  /\ Goto(k, "zombie")
  /\ UNCHANGED <<backlog, connfd>>

-----------------------------------------------------------------------------
ParentNext ==
  Start \/ StartFails \/ Accept \/ AcceptFails \/ Fork \/ ForkFails \/ ParentClose

ChildNext(k) ==
  CloseListen(k) \/ Read(k) \/ ReadEnds(k) \/ Write(k) \/ Exit(k)

PeerNext ==
  \E p \in Peers :
    \/ Connect(p) \/ PeerSends(p) \/ PeerCloses(p) \/ PeerResets(p) \/ PeerDrains(p)

Next == ParentNext \/ (\E k \in Kids : ChildNext(k)) \/ PeerNext

\* Every process that is not blocked in a system call runs.
Fairness == WF_vars(ParentNext) /\ \A k \in Kids : WF_vars(ChildNext(k))

Spec == Init /\ [][Next]_vars /\ Fairness

-----------------------------------------------------------------------------
(***************************************************************************)
(* Properties.                                                             *)
(***************************************************************************)
Serving == {k \in Kids : pc[k] \in {"closelisten", "read", "write", "exit"}}

\* Types of the state.
TypeOK ==
  /\ peer \in [Peers -> PeerState]
  /\ backlog \in Seq(Peers)
  /\ holders \in [Peers -> SUBSET Procs]
  /\ lholders \in SUBSET Procs
  /\ connfd \in [Procs -> Peers \cup {None}]
  /\ pc[parent] \in {"start", "accept", "fork", "close", "ended"}
  /\ \A k \in Kids :
       pc[k] \in {"none", "closelisten", "read", "write", "exit", "zombie"}

\* Every accepted connection has one child that serves it and nobody else, or
\* is still in the hands of the parent: the parent keeps no descriptor beyond
\* its iteration, no child has one of a connection that is not its own, and the
\* listening socket goes back to the parent alone.
OneOwner ==
  /\ \A p \in Peers :
       /\ (peer[p].st = "open") = (holders[p] # {})
       /\ Cardinality(holders[p] \cap Kids) <= 1
       /\ \A k \in holders[p] \cap Kids : k \in Serving /\ connfd[k] = p
       /\ parent \in holders[p] => pc[parent] \in {"fork", "close"} /\ connfd[parent] = p
  /\ lholders \subseteq {parent} \cup {k \in Kids : pc[k] = "closelisten"}

\* A peer that hangs up is let go, unless it closed without taking the answer,
\* whatever the parent and the other children do: a parent that exits because
\* fork failed leaves no connection behind, neither its own nor those of the
\* children that outlive it.
ClosedPeerIsReleased ==
  \A p \in Peers :
    (peer[p].st = "open" /\ peer[p].eof # "no")
      ~> (peer[p].st # "open" \/ (peer[p].full /\ peer[p].eof = "fin"))

\* A peer that blocks its child does not keep the others from being accepted:
\* only failing accepts and the end of the parent do.
QueuedPeerIsAccepted ==
  \A p \in Peers : peer[p].st = "queued" ~> (peer[p].st # "queued" \/ pc[parent] = "ended")

=============================================================================
