------------------------------- MODULE Buffer -------------------------------
(***************************************************************************)
(* netlib/Buffer.hpp and Buffer.cpp: a vector of bytes with a reader and a *)
(* writer index.                                                           *)
(*                                                                         *)
(*     0 <= readerIndex_ <= writerIndex_ <= buffer_.size()                 *)
(*                                                                         *)
(* The bytes between the indices are readable; those before are room for   *)
(* prepend, those after are room for append.  Bytes outside the readable   *)
(* range keep whatever was last stored there, as in the program.           *)
(* A Buffer is a record; the member functions are operators on it, and an  *)
(* action is one call by a client that respects the asserts of the API.    *)
(***************************************************************************)
EXTENDS BufferApi

CONSTANTS
  kCheapPrepend,
  kInitialSize,
  ExtraSize,      \* sizeof extrabuf in readFd (65536)
  MaxSize         \* bound: no call that would grow buffer_ beyond it is made

ASSUME BufferAssumption ==
  /\ kCheapPrepend \in Nat
  /\ kInitialSize \in Nat
  /\ ExtraSize \in Nat
  /\ MaxSize \in Nat

VARIABLES
  buf,    \* the Buffer objects
  call    \* the last call, as its client sees it

vars == <<buf, call>>

BufferType ==
  [buffer_ : Seq(Byte), readerIndex_ : Nat, writerIndex_ : Nat]

\* The last conjunct is what retrieveAll needs.
WellFormed(b) ==
  /\ b \in BufferType
  /\ b.readerIndex_ <= b.writerIndex_
  /\ b.writerIndex_ <= Len(b.buffer_)
  /\ kCheapPrepend <= Len(b.buffer_)

-----------------------------------------------------------------------------
readableBytes(b) == b.writerIndex_ - b.readerIndex_

writableBytes(b) == Len(b.buffer_) - b.writerIndex_

prependableBytes(b) == b.readerIndex_

\* The bytes from peek() up to beginWrite().
Content(b) == [i \in 1 .. readableBytes(b) |-> b.buffer_[b.readerIndex_ + i]]

\* std::copy of src into mem at offset at.
CopyTo(mem, at, src) ==
  [i \in 1 .. Len(mem) |->
     IF at < i /\ i <= at + Len(src) THEN src[i - at] ELSE mem[i]]

\* vector::resize: new elements are zero.
Resize(mem, n) ==
  [i \in 1 .. n |-> IF i <= Len(mem) THEN mem[i] ELSE 0]

\* The constructor.
NewBuffer ==
  [buffer_      |-> [i \in 1 .. (kCheapPrepend + kInitialSize) |-> 0],
   readerIndex_ |-> kCheapPrepend,
   writerIndex_ |-> kCheapPrepend]

MustGrow_ForgetsPrepend(b, len) ==
  writableBytes(b) + prependableBytes(b) < len

MustGrow_Always(b, len) == TRUE

\* The condition of makeSpace: the free bytes at both ends are not enough.
MustGrow(b, len) ==
  writableBytes(b) + prependableBytes(b) < len + kCheapPrepend

Grow(b, len) == [b EXCEPT !.buffer_ = Resize(b.buffer_, b.writerIndex_ + len)]

MoveToFront_WithoutCopy(b) ==
  [b EXCEPT !.readerIndex_ = kCheapPrepend,
            !.writerIndex_ = kCheapPrepend + readableBytes(b)]

MoveToFront(b) ==
  [buffer_      |-> CopyTo(b.buffer_, kCheapPrepend, Content(b)),
   readerIndex_ |-> kCheapPrepend,
   writerIndex_ |-> kCheapPrepend + readableBytes(b)]

makeSpace(b, len) ==
  IF MustGrow(b, len) THEN Grow(b, len) ELSE MoveToFront(b)

ensureWritableBytes(b, len) ==
  IF writableBytes(b) < len THEN makeSpace(b, len) ELSE b

\* Bytes stored at beginWrite(), then hasWritten(Len(data)).
Store(b, data) ==
  [b EXCEPT !.buffer_ = CopyTo(b.buffer_, b.writerIndex_, data),
            !.writerIndex_ = b.writerIndex_ + Len(data)]

append(b, data) == Store(ensureWritableBytes(b, Len(data)), data)

retrieveAll(b) ==
  [b EXCEPT !.readerIndex_ = kCheapPrepend, !.writerIndex_ = kCheapPrepend]

retrieve(b, len) ==
  IF len < readableBytes(b)
  THEN [b EXCEPT !.readerIndex_ = b.readerIndex_ + len]
  ELSE retrieveAll(b)

unwrite(b, len) == [b EXCEPT !.writerIndex_ = b.writerIndex_ - len]

prepend_CopiesFirst(b, data) ==
  [b EXCEPT !.buffer_ = CopyTo(b.buffer_, b.readerIndex_, data),
            !.readerIndex_ = b.readerIndex_ - Len(data)]

prepend(b, data) ==
  [b EXCEPT !.buffer_ = CopyTo(b.buffer_, b.readerIndex_ - Len(data), data),
            !.readerIndex_ = b.readerIndex_ - Len(data)]

\* What one readv can deliver: extrabuf is passed only when it is the larger.
ReadCapacity(b) ==
  writableBytes(b) + (IF writableBytes(b) < ExtraSize THEN ExtraSize ELSE 0)

readFd_IgnoresExtra(b, data) == Store(b, data)

\* readv put data first into the free space of the vector, then into extrabuf.
readFd(b, data) ==
  LET w == writableBytes(b)
  IN IF Len(data) <= w
     THEN Store(b, data)
     ELSE append(Store(b, SubSeq(data, 1, w)), SubSeq(data, w + 1, Len(data)))

peekInt(b, n) == FromNetwork(n, Content(b))

prependInt(b, n, x) == prepend(b, ToNetwork(n, x))

-----------------------------------------------------------------------------
(***************************************************************************)
(* Searching.  A position is an offset into buffer_, and NotFound is the   *)
(* null pointer.                                                           *)
(***************************************************************************)
NotFound == -1

FirstOf(S) == IF S = {} THEN NotFound ELSE CHOOSE p \in S : \A o \in S : p <= o

\* memchr(begin() + from, '\n', n); the bytes past the vector are not modelled.
memchr(b, from, n) ==
  FirstOf({p \in from .. (from + n - 1) :
             p < Len(b.buffer_) /\ b.buffer_[p + 1] = EOL})

\* findEOL(start); findEOL() is the case start = peek().
findEOL(b, start) == memchr(b, start, readableBytes(b))

\* findCRLF(start); findCRLF() is the case start = peek().
findCRLF(b, start) ==
  FirstOf({p \in start .. (b.writerIndex_ - 2) :
             b.buffer_[p + 1] = CR /\ b.buffer_[p + 2] = EOL})

\* retrieveUntil(end), for an end that satisfies its asserts.
retrieveUntil(b, end) == retrieve(b, end - b.readerIndex_)

-----------------------------------------------------------------------------
Init ==
  /\ buf = [b \in Buffers |-> NewBuffer]
  /\ \E b \in Buffers : call = Call("ctor", b, << >>, 0, 0)

\* Object b becomes new, and the client saw c.
Become(b, new, c) ==
  /\ Len(new.buffer_) <= MaxSize
  /\ buf' = [buf EXCEPT ![b] = new]
  /\ call' = c

AppendBytes(b, data) ==
  Become(b, append(buf[b], data), Call("append", b, data, 0, 0))

AppendInt(b, n, x) ==
  Become(b, append(buf[b], ToNetwork(n, x)),
         Call("appendInt", b, ToNetwork(n, x), 0, x))

\* The client stores data at beginWrite() and calls hasWritten.
HasWritten(b, data) ==
  /\ Len(data) <= writableBytes(buf[b])
  /\ Become(b, Store(buf[b], data), Call("hasWritten", b, data, 0, 0))

ReadFd(b, data) ==
  /\ Len(data) <= ReadCapacity(buf[b])
  /\ Become(b, readFd(buf[b], data), Call("readFd", b, data, 0, Len(data)))

ReadFdFails(b) == Become(b, buf[b], Call("readFd", b, << >>, 0, -1))

Prepend(b, data) ==
  /\ Len(data) <= prependableBytes(buf[b])
  /\ Become(b, prepend(buf[b], data), Call("prepend", b, data, 0, 0))

PrependInt(b, n, x) ==
  /\ n <= prependableBytes(buf[b])
  /\ Become(b, prependInt(buf[b], n, x),
            Call("prependInt", b, ToNetwork(n, x), 0, x))

Retrieve(b, len) ==
  /\ len <= readableBytes(buf[b])
  /\ Become(b, retrieve(buf[b], len), Call("retrieve", b, << >>, len, 0))

RetrieveAll(b) ==
  Become(b, retrieveAll(buf[b]),
         Call("retrieveAll", b, << >>, readableBytes(buf[b]), 0))

RetrieveAsString(b, len) ==
  /\ len <= readableBytes(buf[b])
  /\ Become(b, retrieve(buf[b], len),
            Call("retrieveAsString", b, SubSeq(Content(buf[b]), 1, len), len, 0))

\* eol = findEOL(); retrieveUntil(eol + 1).
RetrieveLine(b) ==
  LET eol == findEOL(buf[b], buf[b].readerIndex_)
  IN /\ eol # NotFound
     /\ Become(b, retrieveUntil(buf[b], eol + 1),
               Call("retrieveUntil", b, << >>, (eol + 1) - buf[b].readerIndex_, 0))

\* crlf = findCRLF(); retrieveUntil(crlf + 2).
RetrieveCRLF(b) ==
  LET crlf == findCRLF(buf[b], buf[b].readerIndex_)
  IN /\ crlf # NotFound
     /\ Become(b, retrieveUntil(buf[b], crlf + 2),
               Call("retrieveUntil", b, << >>, (crlf + 2) - buf[b].readerIndex_, 0))

ReadInt(b, n) ==
  /\ n <= readableBytes(buf[b])
  /\ Become(b, retrieve(buf[b], n),
            Call("readInt", b, << >>, n, peekInt(buf[b], n)))

Unwrite(b, len) ==
  /\ len <= readableBytes(buf[b])
  /\ Become(b, unwrite(buf[b], len), Call("unwrite", b, << >>, len, 0))

EnsureWritableBytes(b, len) ==
  Become(b, ensureWritableBytes(buf[b], len),
         Call("ensureWritableBytes", b, << >>, len, 0))

Swap(b, c) ==
  /\ buf' = [buf EXCEPT ![b] = buf[c], ![c] = buf[b]]
  /\ call' = Call("swap", b, << >>, 0, 0)

Next ==
  \E b \in Buffers :
    \/ \E data \in Data :
         \/ AppendBytes(b, data)
         \/ HasWritten(b, data)
         \/ ReadFd(b, data)
         \/ Prepend(b, data)
    \/ ReadFdFails(b)
    \/ \E n \in Widths : \E x \in IntN(n) : AppendInt(b, n, x) \/ PrependInt(b, n, x)
    \/ \E len \in 0 .. readableBytes(buf[b]) :
         Retrieve(b, len) \/ RetrieveAsString(b, len) \/ Unwrite(b, len)
    \/ RetrieveAll(b) \/ RetrieveLine(b) \/ RetrieveCRLF(b)
    \/ \E n \in Widths : ReadInt(b, n)
    \/ \E len \in 0 .. MaxLen : EnsureWritableBytes(b, len)
    \/ \E c \in Buffers : Swap(b, c)

Spec == Init /\ [][Next]_vars

-----------------------------------------------------------------------------
(***************************************************************************)
(* Properties.                                                             *)
(***************************************************************************)

\* The indices stay ordered and inside the vector, whatever the calls: no
\* size_t subtraction in readableBytes or writableBytes wraps around, and no
\* std::copy leaves the vector.
IndicesOK ==
  /\ buf \in [Buffers -> BufferType]
  /\ \A b \in Buffers : WellFormed(buf[b])

\* Every internal assert that a client cannot break holds: makeSpace moves
\* data only towards the front (Buffer.hpp:322), and ensureWritableBytes
\* delivers the space asked for (Buffer.hpp:163).
AssertsHold ==
  \A b \in Buffers, len \in 0 .. MaxLen :
    /\ writableBytes(buf[b]) < len /\ ~ MustGrow(buf[b], len)
         => kCheapPrepend < buf[b].readerIndex_
    /\ writableBytes(ensureWritableBytes(buf[b], len)) >= len

\* The detailed Buffer implements the abstract byte queue: growing, moving,
\* reading through extrabuf, prepending into consumed space and swapping are
\* invisible to the client.
Queue == INSTANCE ByteQueue WITH q <- [b \in Buffers |-> Content(buf[b])]

ImplementsByteQueue == Queue!Spec

\* makeSpace reuses consumed space before it grows: the vector grows only to a
\* size bounded by the bytes it holds and the bytes asked for, never by the
\* number of bytes that ever went through it.
GrowthIsProportional ==
  [][\A b \in Buffers :
       call'.op # "swap" /\ Len(buf'[b].buffer_) > Len(buf[b].buffer_)
         => Len(buf'[b].buffer_) <
              readableBytes(buf'[b]) + Len(call'.data) + 2 * call'.len + kCheapPrepend]_vars

\* An integer prepended is the integer read back, and reading it restores the
\* bytes that were readable: network order, sign and the indices all agree.
PrependIntThenReadInt ==
  \A b \in Buffers, n \in Widths :
    n <= prependableBytes(buf[b]) =>
      \A x \in IntN(n) :
        LET p == prependInt(buf[b], n, x)
        IN /\ peekInt(p, n) = x
           /\ Content(retrieve(p, n)) = Content(buf[b])

\* What findEOL(start) finds can be given to retrieveUntil, whose assert asks
\* for end <= beginWrite() (Buffer.hpp:97), and so can the byte after it.
FoundEOLIsReadable ==
  \A b \in Buffers :
    \A start \in buf[b].readerIndex_ .. buf[b].writerIndex_ :
      findEOL(buf[b], start) + 1 <= buf[b].writerIndex_

=============================================================================
