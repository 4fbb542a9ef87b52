# TLA+ verification of c_test

The repository is a collection of C and C++ programs about networking and
concurrency.  Its largest part is `netlib`, a small event-driven TCP library
(Buffer, Channel, Poller, EventLoop, Socket, TcpServer); beside it stand
programs of their own: a work queue, a reference-counted object and joined
workers on POSIX threads, resources shared through a System V and a POSIX
semaphore, an epoll echo server, a forking echo server, two programs with pipes
between parent and children, and a UDP server with its client.  This directory
models those programs in TLA+, checks them with TLC on small instances, and
proves with TLAPS, for every value of the constants, every safety property that
the passing runs check.

## 1. Inventory

| part | source | state | operations |
|---|---|---|---|
| Buffer | `netlib/Buffer.hpp`, `Buffer.cpp` | `buffer_`, `readerIndex_`, `writerIndex_` | append, prepend, retrieve, unwrite, find, integers of three widths, readFd, swap, makeSpace |
| Channel, Poller | `netlib/Channel.*`, `Poller.*` | a Channel's `events_` and `index_`; the Poller's `channels_` and `events_` (the list given to epoll_wait); the kernel's interest list | enable/disable, updateChannel, removeChannel, poll |
| EventLoop | `netlib/EventLoop.*` | `activeChannels_`, `quit_`, `pendingFunctors_` | loop, quit, runInLoop |
| Socket | `netlib/Socket.*` | `inputBuffer_`, `outputBuffer_`, its Channel | handleRead, handleWrite, handleClose, handleError, Send |
| TcpServer | `netlib/TcpServer.*`, `main.cpp` | `connections_`, the acceptor | start, accept, connectionClose |
| work queue | `net/pthread/pthread_create.c` | `workq`, `qlock`, `qready` | enqueue_msg, process_msg, main |
| foo | same file | `f_count`, `f_lock` | foo_alloc, foo_hold, foo_rele |
| System V semaphore | `net/semaphores/main.c` | the semaphore set in the kernel | the program, started several times |
| epoll server | `net/test/serv2.cpp` | epoll instance, event array | the program |
| forking server | `net/test/serv.cpp` | descriptors shared across fork | parent and children |
| pipes | `net/pipe/pipe.cpp`, `pipe2.cpp` | pipe ends shared across fork | parent and children |
| POSIX semaphore | `net/semaphore/a.c` | the semaphore in a shared page | parent and child |
| joined threads | `net/pthread/main.c` | `tinfo`, the strings the threads return | main and thread_start |
| UDP | `net/udp/udpserv.cpp`, `udpconnectcli.cpp` | the server's receive buffer and `count`, the error of a connected socket | server and clients |

How the parts interact.  A TcpServer owns Sockets, a Socket owns its Channel and
two Buffers; a Channel is registered with the Poller through the EventLoop, and
the kernel gives the raw Channel pointer back from epoll_wait.  EventLoop::loop
calls Channel::handleEvent for each pointer, which calls the Socket, which calls
the server's close callback, which destroys the Socket and the Channel that
handleEvent is still running on.  After the Channels, the loop calls the
functors in `pendingFunctors_`, among them the write-complete callback that
Socket::handleWrite queues, and both callbacks may call Send.  Consumers and main of the work queue meet in one mutex, one
condition variable and the heap.  The processes of the semaphore program meet in
the kernel's semaphore set only, those of the forking server and of the pipe
programs in the descriptors that fork copies.

What is hard, and the property that makes each part correct:

- **Buffer**: arithmetic on two unsigned indices, three ways to make room, bytes
  that arrive in two pieces.  Correct if a client sees a byte queue, the indices
  never leave the vector and the asserts hold.
- **Channel, Poller, TcpServer**: raw pointers held by the kernel and by
  `activeChannels_` while handlers destroy objects and descriptor numbers are
  reused; failing system calls.  Correct if no pointer dangles, if descriptors,
  Sockets and `connections_` agree, and if peers are accepted and released.
- **Socket output, EventLoop**: short and refused writes, two callers of Send in
  one round, a Send that does not look at what waits in `outputBuffer_`, functors
  that are never taken out, quit against a sleeping loop, an event list that
  doubles until the kernel refuses it.  Correct if every accepted byte leaves
  once, if order is lost in the one known way only, and if requests, buffered
  bytes, functors and quit are served.
- **Work queue**: signal after unlock, spurious wakeups, addresses handed out
  again.  Correct if it is a stack whose messages are each printed once.
- **foo**: two threads inside hold and release.  Correct if the count is exact
  and the last release alone frees.
- **System V semaphore**: creation and initialisation are not atomic, processes
  are killed, the set is removed while in use.  Correct if one process at a time
  has the resource and nobody waits forever.
- **serv2**: edge-triggered epoll, a reported event that is old when it is
  handled.  Correct if no edge is lost and no event is about another connection.
- **serv**: one connection, two processes with a descriptor for it.  Correct if
  it ends up with one child and is closed when that child is done.
- **pipes**: every child inherits the ends of all pipes, and any process may be
  killed.  Correct if a pipe ends up with one reader and one writer, so that a
  read returns when the writer is gone and a write finds its reader.
- **POSIX semaphore**: it starts at 0 and the child posts before it waits.
  Correct if the steps of the two never mix and neither waits forever.
- **joined threads**: pointers into an array that main goes on filling and then
  frees, strings handed from thread to main.  Correct if all of it outlives its
  last use and nothing is left over.
- **UDP**: datagrams are lost or refused, the server is restarted, the client
  waits without a timeout, and the server counts what recvfrom returns, failures
  included.  Correct if a late refusal never ends another round, so that what the
  server counts beyond its failed receives is one datagram per client that waits.

`PROJECT.json` lists every component, also those that are not modelled, and the
hazards with the lines at which they bite.

## 2. Modules

| module | models | state and actions |
|---|---|---|
| `BufferApi` | byte strings, the integers of appendInt/peekInt, and the record of the last call | no state |
| `ByteQueue` | what a Buffer promises: a queue of bytes per object | `q`, `call`; one action per member function |
| `Buffer` | `Buffer.hpp`, `Buffer.cpp` | `buf` (vector and indices per object), `call`; one action per member function, refines `ByteQueue` |
| `BufferProofs` | proofs about `Buffer` | |
| `Poller` | Channel, Poller and epoll's interest list as operators on one record | no state of its own |
| `TcpServer` | TcpServer, Socket, EventLoop::loop and `main.cpp`, with the kernel and the peers; extends `Poller` | see below |
| `EventLoop` | loop, quit, runInLoop, doPendingFunctors and the growth of the Poller's `events_`; what the Channels do is left open | `pc`, `quit_`, `events_`, `pendingFunctors_`, `i`; the history variable `ran` |
| `SocketOutput` | Socket::Send, handleRead and handleWrite of one connection under that loop; extends `EventLoop` | `asked`, `room`, `outputBuffer_`, `writing`, `revents_`, `sent`; the history variables `wire` and `direct` |
| `MsgStack` | what the work queue promises | `next`, `pending`, `held`, `printed` |
| `WorkQueue` | process_msg, enqueue_msg, main; one action per statement; refines `MsgStack` | `qlock`, `workq`, `m_next`, `data`, `heap`, `pc`, `mp`, `loop`; the history variables `printed` and `list` |
| `WorkQueueProofs` | proofs about `WorkQueue` | |
| `RefCount` | foo_alloc, foo_hold, foo_rele; one action per statement, `++` and `--` split into read and write | `foo`, `f_count`, `f_lock`, `refs`, `pc`, `tmp` |
| `SysVSem` | `semaphores/main.c`; one action per system call | `key`, `sem`, `pc`, `semid`, `i`, `semadj`, `world`; the history variable `spoilt` |
| `EpollServer` | `serv2.cpp`, split at its system calls | `peer`, `backlog`, `file`, `interest`, `rdl`, `events`, `pc` |
| `ForkServer` | `serv.cpp`, parent and children | `peer`, `backlog`, `holders`, `lholders`, `connfd`, `pc` |
| `ForkPipes` | `pipe.cpp` and `pipe2.cpp`, parent and children | `prog`, `readers`, `writers`, `bytes`, `pc`, `loop`, `got` |
| `SharedSem` | `semaphore/a.c`, parent and child | `value`, `at` |
| `ThreadJoin` | `pthread/main.c`; main and its threads | `step`, `tnum`, `tinfo`, `filled`, `run`, `copy` |
| `UdpCount` | `udpserv.cpp`, `udpconnectcli.cpp` and the network between them | `server`, `queue`, `count`, `client`, `flight`, `refused`; the history variable `failed` |
| `MCPrograms` | the five small programs in one run: `program` is chosen initially and says which module's Next is taken; the variables of the others keep their initial values | |
| other `MC*` | the instances for TLC | |
| `TcpServerProofs` | proofs about `TcpServer` and the operators of `Poller` | |
| `SocketOutputProofs` | proofs about `SocketOutput` and the `EventLoop` under it | |
| `SysVSemProofs`, `EpollServerProofs`, `ForkServerProofs` | proofs about those modules | |
| `ProgramsProofs` | proofs about `RefCount`, `ForkPipes`, `SharedSem`, `ThreadJoin`, `UdpCount`, each for its own Spec | |

Abstractions worth knowing when a module is read beside its source:

- *Buffer.*  A byte is a number below `ByteBase`, and the widths of the integers
  are numbers of bytes; conversion to network order and back is modelled with
  its signs.  A call that would break an assert about its arguments is not made.
  `MaxLen` and `MaxSize` bound what the client asks for, not what the code does.
- *TcpServer.*  The server is one thread; between any two of its system calls
  the peers may connect, send, close, reset, or read what they were sent.  A
  Socket and its Channel die together and are one object of `Channels`; a freed
  object may be allocated again at once.  `close` takes a descriptor out of the
  interest list, as the kernel does for the last reference.  What runs on a Channel after
  it was destroyed is undefined; action `AfterFree` and `AfterFreeCrash` are the
  outcomes (the freed memory still reads as before, or the process dies).
  LOG(FATAL) and SIGPIPE end the process.  How often `events_` has doubled is
  not counted: any poll that has something to report may find no memory, or be
  refused, after which the loop is "deaf" and nothing is reported any more.
  A write that goes through whole may fill the send buffer exactly; the next Send
  is then refused with nothing in `outputBuffer_`, and leaves kWriteEvent on.
  `Allocate` is the allocator's choice among the free addresses: any, or a
  certain one.  The callbacks are the application's; `app` has those about
  connections with a descriptor and not the one for a phantom.
- *EventLoop.*  epoll_wait accepts at most INT_MAX / sizeof(epoll_event) =
  178 956 970 events and fails with EINVAL above.  The list starts at 16 and
  doubles on every poll that reports something, so it is refused after 24 of
  them (an allocation of some 3 GB, unless memory runs out before); Poller::poll
  logs the error and reports nothing, for good.  `EP_MAX_EVENTS` is a constant,
  and what the loop is owed is stated for polls before that point.  quit may come
  at any step.  runInLoop is called by the loop's own thread only, as everywhere
  in the repository: `pendingFunctors_` is marked as guarded by `mutex_`, but the
  lock is commented out, so calls from elsewhere would be races.
- *SocketOutput.*  Bytes are numbered in the order in which Send accepts them.
  `room` is what is free in the kernel's send buffer; the kernel reports EPOLLOUT
  from `LowWater` on.  A Send refused with EAGAIN enables kWriteEvent and keeps
  nothing, which is why its bytes get no numbers.  If `outputBuffer_` is empty
  then, handleWrite writes nothing and leaves kWriteEvent on, and every further
  poll reports the socket at once.  The write-complete callback is one that was
  set through Socket::setWriteCompleteCallback and may Send.  Errors and closing
  are the subject of `TcpServer`.
- *WorkQueue.*  `malloc` returns any address that is not in use; neither it nor
  pthread_create fails.  printf and
  free are one step, since the msg belongs to one thread by then (which is what
  `PointersValid` shows).  The two `sleep(1)` of main are left out: they only
  exclude schedules.
- *RefCount.*  The clients keep the rule of the interface: only a thread that
  has a reference uses, passes on or gives up that reference.
- *SysVSem.*  `world` is chosen initially and never changes: whether the version
  with IPC_RMID runs (the comment says it can be left out), and which faults
  happen.  The comment at lines 43-45 has two halves.  A waiter that gives up
  while the creator is only slow (`late`) is what its first half assumes away; a
  creator that ends before its first semop (`early`) is its second half ("else it
  will not run semop any more"), for which the SETVAL after the tries is there.
  `spoilt` keeps the first event after which the value no longer counts the
  resource: a SETVAL of a set that somebody holds ("reset"), a semop that fails
  with EINTR and is followed by the critical section ("interrupted"), or IPC_RMID
  ("removed").
- *EpollServer.*  `rdl` is the kernel's ready list; an edge puts a descriptor on
  it, epoll_wait takes it off, EPOLL_CTL_ADD and MOD test again.  After a failed
  epoll_wait the program walks over old events and past its array, which is
  undefined; the model counts it as the end.
- *ForkServer.*  A connection is closed when its last holder has closed it.
  Zombies keep their place in `Kids`, because nobody waits for them; fork fails
  when none is left, and the parent exits.
- *ForkPipes.*  `prog` says which of the two programs runs.  A pipe is who has
  its ends and how many bytes are in it; the pipes in the other direction carry
  nothing and are left out.  The two closes at the start of a child are one step,
  since nothing is read or written between them.  The sleeps only exclude
  schedules and are left out.
- *SharedSem.*  As there, sleeps are left out, and either process may be killed.
  sem_destroy of glibc does nothing, so the first to end takes nothing away.
- *ThreadJoin.*  exit, called on any error of main or when strdup fails in a
  thread, ends all threads wherever they are.
- *UdpCount.*  A datagram is the client it comes from.  The network may lose it;
  without a server it comes back as a pending error of the connected socket,
  which the next sendto or recvfrom takes.  The server never answers.  Its
  `if(n = recvfrom(...))` counts a -1 as well; `failed` counts these, up to
  `MaxFailed`.  A client may be killed at any time; its recvfrom fails through a
  refusal only.

## 3. Runs

| run | instance | shows |
|---|---|---|
| `buffer` | one Buffer, bytes 0 and 1, strings up to 3, initial size 2, prepend area 2, extrabuf 2, vectors up to 7 | indices, asserts, growth bound, integers, refinement of the byte queue |
| `buffer_eol` | vectors up to 4 | **violation**: findEOL(start) finds a stale byte |
| `tcp_server` | 2 peers, 2 descriptors besides the listening one, 4 Sockets at any free address (with symmetry) | no dangling Channel pointers in epoll and in the rest of a round; tables agree |
| `tcp_server_live` | 2 peers, 1 descriptor, 3 Sockets at certain addresses | release and acceptance |
| `tcp_server_phantom` | same | **violation**: a connection of descriptor -1 |
| `work_queue` | 2 consumers, 3 messages, 3 addresses, 1 spurious wakeup | all properties of the queue, with liveness |
| `socket_output` | messages of 2, a send buffer of 3 that is reported from 2 on, 3 messages, a list that is refused after 8 doublings | bytes once, their order, requests, functors, quit |
| `sysv_sem` | 3 processes, with and without IPC_RMID; faults: kills and signals, the same with a creator that dies, the same with impatient waiters too | when exclusion and the value are lost, nobody waits forever |
| `sysv_sem_removed` | 3 processes, the program as it is, no faults | **violation**: IPC_RMID breaks exclusion |
| `epoll_server` | 2 peers, 2 descriptors, a buffer of 2, up to 3 unread | events, edges, liveness |
| `fork_server` | 2 peers, 2 places for children, 1 unread | ownership of descriptors, liveness |
| `small_programs` | *RefCount*: 3 threads, up to 3 references each | count, use after free, leak |
| | *ForkPipes*: both programs, 3 children as in the source, 2 bytes, any process may be killed | who has which end, no read and no wait forever |
| | *SharedSem*: parent and child, either may be killed | steps do not mix, no sem_wait forever |
| | *ThreadJoin*: 3 threads | memory outlives its use |
| | *UdpCount*: 3 clients, a receive buffer of 2, the server restarted any number of times, 2 failed receives, clients killed | what is counted |

Why the bounds are enough.  The vector of the Buffer grows more than once, moves
to the front and overflows into extrabuf in strings of 3; two bytes suffice for
every sign.  With two peers and fewer descriptors than peers, a number is closed
and reused while an event of the other connection is pending, the backlog waits
for a descriptor, and accept fails.  Three messages in three addresses let one
address be freed and linked again while two others are in the list.  Three
processes are an owner, one who waits, and a newcomer; a world with fewer faults
has fewer behaviours, so the largest of each sort stand for all 32.  A read buffer of 2 and 3
unread bytes give full, short and exact reads.  A message of 2 bytes leaves one in
the pipe after the child's read, so that an empty pipe and one without writer are
different states.  Two bytes in a send buffer of three are written whole, cut in two or
refused, directly and from `outputBuffer_`, and eight productive polls hold a
blocked Send, the handleWrite that clears it and the functor that sends again,
before the list is refused.  Three clients overflow a receive buffer of two.
Addresses matter for pointers, which `tcp_server` checks with every choice of the
allocator; `tcp_server_live` fixes the choice and keeps the states few enough for
liveness.  `VIEW Objects` in the Buffer
runs leaves the record of the last call out of the fingerprint; it is part of no
invariant, and each action property is evaluated on every step.  One Buffer makes `Swap` trivial in the run; two
Buffers are covered by the theorem, which holds for any set of them.

The definitions `TypeOK` are not among the runs' properties: where a proof needs
one it is part of the inductive invariant, and proved with it.

CHECK_DEADLOCK is FALSE where the program ends (a process that exits, threads that
wait for ever after the last message) or stands still with the state it has.

Violations and what the repository says:

- `buffer_eol`: `findEOL(start)` passes `readableBytes()` as the length although
  it starts behind `peek()`; what it finds may lie behind `beginWrite()`, which
  `retrieveUntil` asserts against (`Buffer.hpp:97`).
- `tcp_server_phantom`: after an "expected" error of accept (`TcpServer.cpp:97`)
  the function goes on with -1 and enters a connection that nothing removes.
- `sysv_sem_removed`: whoever finishes first removes the set under the others.

A related weakness needs no IPC_RMID: when the creator is killed before its
first semop, every waiter initialises the set after its tries, and a second SETVAL
can let a process in beside the first.  `ExclusionUntilSpoilt` says so: exclusion
is lost only after such an event, and only a creator that dies or a waiter
that is too early makes SETVAL the first of them.  `MutualExclusion` alone, with
`Worlds = {[removes |-> FALSE, faults |-> {"early"}]}`, gives the trace.

## 4. Fairness

- `TcpServer`, `EpollServer`: weak fairness of the server's steps together.  The
  process runs when its system call can return; nothing is assumed of the peers.
  While epoll has something to report, the loop comes round, because each round
  handles a finite list.  A signal that interrupts epoll_wait, a refused list and
  an allocation that fails are owed to nobody.
- `SocketOutput`: weak fairness of the steps of the loop's thread together.  poll
  is one of them even if there is nothing to report, since it ends after
  kPollTimeMs.  Running out of memory, quit and whatever the peer does are not
  owed.
- `WorkQueue`: weak fairness of each thread, which a scheduler gives.  No thread
  is owed a spurious wakeup, and a signal wakes any one waiter.
- `RefCount`: weak fairness of calls in progress; no thread has to make a call.
- `SysVSem`: weak fairness of each process.  Strong fairness of the blocked
  semop is not needed, since every process asks once.
- `ForkServer`: weak fairness of the parent and of each child; a child blocked
  in write or read is not enabled and owed nothing.
- `ForkPipes`, `SharedSem`: weak fairness of each process; nobody has to be
  killed.  In `MCPrograms` the fairness of a module is that of the program that
  runs.

Liveness properties name what may excuse them: the process has ended, the peer
does not take what it was sent, the process one waits for was killed, or the
event list was already refused.  serv releases every peer that hangs up, also
after its parent has exited; the one excuse is a peer that closed without taking
the answer its child is writing.

## 5. Proofs

Every invariant of the passing runs, both refinements and the one action property
are theorems, for arbitrary constants under the named assumptions of the modules:

- `ApiAssumption`, `BufferAssumption`: sizes are naturals, a byte has at least two
  values.
- The assumptions about names (`QueueAssumption`, `ForkAssumption`, `SemAssumption`,
  `EpollAssumption`, `PollerAssumption`, `ServerAssumption`, parts of
  `RefAssumption` and `ProgramsAssumption`): the value that stands for NULL, no
  peer or no file is none of the values it is told apart from (threads, addresses,
  peers, registered records), and main, parent and acceptor are not one of
  the others.  In C these are different types or different pointers.
- Finiteness of the threads, processes, clients and descriptors, where something
  is counted or the lowest free descriptor is looked for.
- `OutputAssumption`, `LoopAssumption`: messages, the send buffer and the initial
  event list are not empty, and the low-water mark lies within the send buffer.
- `AllocateAssumption`: the allocator returns free addresses only.

The argument is the same everywhere.  An inductive invariant is the conjunction of
the run's invariants and what is missing for induction; TLC checked it on the
instance of the run first; one lemma or one step per action shows that it is kept.
The missing parts are what a reader of the code would have to know.

**Buffer** (`BufferProofs`).  `IndicesOK` is inductive as it stands: with the
indices ordered and inside the vector, each operation keeps them so.  The work is
in the operators: what makeSpace, prepend, retrieve and readFd do to vector and
indices is stated once per operator, with the content before and after.  From
these follow `IndicesAlwaysOK`, `AssertsAlwaysHold`, and
`BufferImplementsByteQueue`: each action maps to the ByteQueue action of the same
name, with the returned value.  `PrependedIntIsReadBack` adds the arithmetic of
the wire: quotient and remainder are unique (`Quotient`), dividing twice is
dividing by the product (`DivTwice`), so the digits of a number put together again
are the number (`Digits`), in any base and for one, two and four bytes; and two's
complement undoes itself (`Wrapped`).  `GrowthStaysProportional` is an action
property: one bound per operator that can grow the vector (`EnsureGrowth`,
`AppendGrowth`, `ReadFdGrowth`), and equal size for all others.

**Work queue** (`WorkQueueProofs`).  None of the invariants of the run is
inductive alone: the list stays linked only if nobody else changes it
(`MutualExclusion`), mp is valid only if the list is, and a message is counted
once only if messages in flight differ.  `Inv` is their conjunction with two
additions: `MainPrepared` (between malloc and signal main's message is number
`loop`, and after mp->m_next = workq its link is the head) and `DataDiffers`
(messages in flight were put, and differ).  The actions that only touch mutex and
program counters share the lemma `QuietStep`.  Results: `TypesAlwaysOK`,
`MutexExcludes`, `QueueNeverCorrupted`, `NothingEverLostOrRepeated`, and
`QueueImplementsMsgStack`: Push is the stack's Put, Advance its Take,
PrintAndFree its Finish, and every other step changes nothing a client sees.

**TcpServer, Channel, Poller** (`TcpServerProofs`).  The three invariants of the
run need each other: connectionClose finds the Socket by its descriptor, so no
other Channel must be destroyed than the one epoll points to.  `ServerInv` adds
`ChannelsOwned` (a live Channel is registered, asks to read, and is the one entry
of `connections_` under its own number, the number -1 of a phantom included),
`FilesOwned` (a connection has one descriptor, an open descriptor is registered),
`BacklogIsQueued` (a connection leaves the backlog once), `NothingYet` (before
start there is nothing) and `RoundOK` (a Channel is at most once in a round, and
the acceptor is told of connections only).  A first part says what each operation of
Channel and Poller does to the record it changes (`UpdateIs`, `AddIs`, `ModIs`,
`MadeIs`, `WritingIs`, `CloseIs`), so that the steps do not expand them.  Results:
`EpollNeverDangles`, `RoundNeverDangles`, `TablesAgree`.  They include the
steps after handleClose has destroyed the Channel that handleEvent runs on
("freed"): `ActiveChannelsAlive` speaks of the Channels after that one, and the
use of the freed one itself is modelled as undefined.

**Socket output, EventLoop** (`SocketOutputProofs`).  `BytesOnce` alone is
inductive with the types.  `OnlyDirectOvertakes` needs `BufferedNotDirect`:
nothing in `outputBuffer_` was written by Send itself, so what handleWrite puts on
the wire cannot overtake.  `NoFunctorSleeps` needs how far doPendingFunctors has
come (`FunctorsSoFar`): the functors before `i` have run, and those queued meanwhile
are behind `i`.  Results: `OutputTypes`, `NoByteLost`, `OvertakingIsDirect`,
`FunctorsRunBeforePoll`.

**System V semaphore** (`SysVSemProofs`).  Exclusion lasts until the first event
that spoils it, and the argument is over the life of the set up to there
(`SetInv`): one set is created and stays (`OneSet`); before its first semop
nobody is past that call, and whoever asks comes from SETVAL (`BeforeFirst`); afterwards
value and adjustments follow the one holder, also when it is killed
(`OneHolder`).  With a creator in time, the creator alone may run SETVAL before
sem_otime is set, and nobody does afterwards (`CreatorFirst`), so that no SETVAL
can be the first such event.  Results: `SemTypesHold`,
`ExclusionHoldsUntilSpoilt`, `ValueIsExact`, in all worlds.

**serv2** (`EpollServerProofs`).  Both invariants rest on the descriptor table
(`TableOK`): a descriptor is registered exactly while it is open, a connection has
one descriptor, the ready list names open connections only; and on what the
handler of the current event knows (`PlaceOK`).  Closing takes the descriptor
from table, epoll and ready list at once; a batch has at most one event per
descriptor, so when accept hands the number out again no event of the closed
connection is left.  Results: `EventsStayCurrent`, `EdgesAreKept`.

**serv** (`ForkServerProofs`).  `OneOwner` counts descriptors but does not say who
will close them: `ConnfdIsHeld` does (whoever has a connection in `connfd` and is
to close it still has a descriptor), and `HoldersOwn` adds that before fork the
parent is alone with it.  Result: `ForkServerOneOwner`.

**Small programs** (`ProgramsProofs`).
*foo*: `RefInv` adds who has the mutex, that whoever is inside hold or release has
a reference or has just given one up, the lifetime of the object, and that
the thread on the way to free is alone.  References are a set of pairs of thread
and number, so that taking and giving up are one element more or less
(`CountIsExact`, `FooIsNotUsedAfterFree`).
*Pipes*: `PipeInv` says which ends the parent and each child have at each place,
per program, and that an unread message is still in its pipe (`ParentFindsReader`,
`PipesKeepTwoEnds`).
*POSIX semaphore*: the value is 0 until the child posts and never above 1
(`SharedSemExcludes`).
*Joined threads*: which entries are filled, which threads run and which are joined,
by main's place in its two loops (`ThreadMemoryIsSafe`).
*UDP*: no client is both refused and in flight; what is counted and queued is
bounded by the failed receives and the number of clients that wait or were killed
waiting, which each step raises or keeps (`UdpCountIsBounded`).

Only model-checked: liveness under fairness, which is out of the prover's reach
(`ClosedPeerIsReleased` and `QueuedPeerIsAccepted` of the servers, `EveryByteIsRead`,
`QuitStopsLoop`, `RequestsAreRead`, `BlockedOutputMoves`, `AllPrinted`,
`EveryoneEnds`, `LastReleaseFrees`, `NobodyWaitsForever`).  The refinements are
proved for the safety part of the abstract specifications, which is all they have.
The three violations are counterexamples of TLC.

## 6. Not modelled

- `net/myser2`: does not compile as it stands (undefined functions, a variable
  out of scope); its event loop is that of serv2.
- Other programs that do not compile: `net/pthread/taxi.c`; `udp/udpcli.cpp`,
  which calls a function that is not there; `udp/udpservdaemon.cpp`, whose header
  is missing and whose loop is udpserv's.
- `unixdomain.cpp` listens on a descriptor that was never assigned.
- `net/messagequeue`: one process, a new queue (IPC_EXCL) and calls that never
  wait (IPC_NOWAIT): a straight line with printed results.  So are the signal and
  daemon programs.  `test/cli.cpp` is the peer of the modelled servers.
- `net/semaphore/b.c`: parent and child share a page and are ordered by sleep
  alone; it has no property to keep.  `c.c` is empty.
- `net/fork.cpp`: parent and child share nothing.
- `c++/`: language examples; the lock-free queue in `c++/f` is pseudo-code.
- In netlib: calls of runInLoop from threads other than the loop's, which the
  repository never makes; in `TcpServer`, the bytes of the output buffer, which
  are abstracted to whether there are any (`SocketOutput` has them).

## 7. Plan

Done: Buffer, the servers, the programs with threads and processes, the socket's
output under the EventLoop and the small programs; and the proofs of all safety
properties of the passing runs.  What is left:

1. a promise of serv and of TcpServer towards their peers as abstract
   specifications (a connection is queued, served by one owner, and released), with
   the refinements proved from `ForkInv` and `ServerInv`;
2. the safety half of liveness properties where it can be stated without fairness:
   what a waiting process waits for is still owed (as `NoEdgeIsLost` does for
   serv2), for the work queue and the pipes.
