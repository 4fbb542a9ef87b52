------------------------------- MODULE Poller -------------------------------
(***************************************************************************)
(* netlib/Channel and netlib/Poller, with the epoll instance under them.   *)
(* The member functions are operators on a record                          *)
(*                                                                         *)
(*   chan      the Channel objects: fd_, events_, index_                   *)
(*   channels_ Poller's map from descriptor to Channel*                    *)
(*   interest  the epoll interest list: what the kernel holds per          *)
(*             descriptor, a Channel* (data.ptr) and the events asked for  *)
(*                                                                         *)
(* so that the modules that use them compose a whole handler in one step.  *)
(***************************************************************************)
EXTENDS Integers

CONSTANTS
  Channels,   \* Channel objects (addresses: reused after destruction)
  Fds,        \* descriptors the kernel can hand out
  None        \* no pointer, no entry

BadFd == -1   \* what a failed socket or accept returns

AnyFd == Fds \cup {BadFd}

\* index_: where a Channel stands with its Poller.
kNew     == -1
kAdded   == 1
kDeleted == 2

kReadEvent  == {"IN", "PRI"}
kWriteEvent == {"OUT"}

ASSUME PollerAssumption ==
  /\ Fds \subseteq Nat
  /\ None \notin Channels
  /\ None \notin [ptr : Channels, events : SUBSET {"IN", "PRI", "OUT"}]
  /\ None \notin [fd_ : AnyFd, events_ : SUBSET {"IN", "PRI", "OUT"},
                  index_ : {kNew, kAdded, kDeleted}]

NewChannel(fd) == [fd_ |-> fd, events_ |-> {}, index_ |-> kNew]

-----------------------------------------------------------------------------
\* epoll_ctl on descriptor fd; open is the set of descriptors in use.  A
\* refused operation is logged by Poller::update and nothing else.
CtlAllowed(p, op, fd, open) ==
  /\ fd \in open
  /\ (op = "ADD") = (p.interest[fd] = None)

update(p, op, c, open) ==
  LET fd    == p.chan[c].fd_
      entry == [ptr |-> c, events |-> p.chan[c].events_]
  IN IF CtlAllowed(p, op, fd, open)
     THEN [p EXCEPT !.interest[fd] = IF op = "DEL" THEN None ELSE entry]
     ELSE p

\* Poller::updateChannel, reached by every change of a Channel's events.
updateChannel(p, c, open) ==
  LET fd    == p.chan[c].fd_
      index == p.chan[c].index_
      added == [p EXCEPT !.chan[c].index_ = kAdded,
                         !.channels_[fd] = IF index = kNew THEN c ELSE @]
  IN IF index \in {kNew, kDeleted} THEN update(added, "ADD", c, open)
     ELSE IF p.chan[c].events_ = {}
          THEN [update(p, "DEL", c, open) EXCEPT !.chan[c].index_ = kDeleted]
          ELSE update(p, "MOD", c, open)

\* Poller::removeChannel.
removeChannel(p, c, open) ==
  LET erased == [p EXCEPT !.channels_[p.chan[c].fd_] = None]
      gone   == IF p.chan[c].index_ = kAdded THEN update(erased, "DEL", c, open)
                ELSE erased
  IN [gone EXCEPT !.chan[c].index_ = kNew]

\* Channel::enableReading, enableWriting, disableWriting.
enableReading(p, c, open) ==
  updateChannel([p EXCEPT !.chan[c].events_ = @ \cup kReadEvent], c, open)

enableWriting(p, c, open) ==
  updateChannel([p EXCEPT !.chan[c].events_ = @ \cup kWriteEvent], c, open)

disableWriting_DisablesAll(p, c, open) ==
  updateChannel([p EXCEPT !.chan[c].events_ = {}], c, open)

disableWriting(p, c, open) ==
  updateChannel([p EXCEPT !.chan[c].events_ = @ \ kWriteEvent], c, open)

\* The kernel drops a descriptor from the interest list when it is closed.
CloseFd(p, fd) == IF fd = BadFd THEN p ELSE [p EXCEPT !.interest[fd] = None]

\* Poller::fillActiveChannels: the Channel of a ready descriptor, with the
\* events reported for it.  (revents_ is kept with the list and not with the
\* Channel: it is written here and read only while this list is handled.)
fillActiveChannels(p, order, report) ==
  [i \in DOMAIN order |->
     [ptr |-> p.interest[order[i]].ptr, revents |-> report[order[i]]]]

=============================================================================
