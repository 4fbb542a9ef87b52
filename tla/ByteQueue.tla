----------------------------- MODULE ByteQueue -----------------------------
(***************************************************************************)
(* What a Buffer promises: a queue of bytes.  Bytes enter at the back      *)
(* (append, hasWritten, readFd) or at the front (prepend), leave from the  *)
(* front (retrieve) or from the back (unwrite), and no call changes,       *)
(* drops, repeats or reorders any other byte.                              *)
(***************************************************************************)
EXTENDS BufferApi

VARIABLES
  q,      \* the readable bytes of each Buffer
  call    \* the last call, as its client sees it

queueVars == <<q, call>>

Drop(s, n) == SubSeq(s, n + 1, Len(s))

Init ==
  /\ q = [b \in Buffers |-> << >>]
  /\ \E b \in Buffers : call = Call("ctor", b, << >>, 0, 0)

PutBack(op, b, d, x) ==
  /\ q' = [q EXCEPT ![b] = @ \o d]
  /\ call' = Call(op, b, d, 0, x)

PutFront(op, b, d, x) ==
  /\ q' = [q EXCEPT ![b] = d \o @]
  /\ call' = Call(op, b, d, 0, x)

Take(op, b, n) ==
  /\ n <= Len(q[b])
  /\ q' = [q EXCEPT ![b] = Drop(@, n)]
  /\ call' = Call(op, b, << >>, n, 0)

TakeString(b, n) ==
  /\ n <= Len(q[b])
  /\ q' = [q EXCEPT ![b] = Drop(@, n)]
  /\ call' = Call("retrieveAsString", b, SubSeq(q[b], 1, n), n, 0)

TakeInt(b, n) ==
  /\ n <= Len(q[b])
  /\ q' = [q EXCEPT ![b] = Drop(@, n)]
  /\ call' = Call("readInt", b, << >>, n, FromNetwork(n, q[b]))

TakeBack(b, n) ==
  /\ n <= Len(q[b])
  /\ q' = [q EXCEPT ![b] = SubSeq(@, 1, Len(@) - n)]
  /\ call' = Call("unwrite", b, << >>, n, 0)

EndsWith(s, mark) ==
  /\ Len(mark) <= Len(s)
  /\ \A i \in 1 .. Len(mark) : s[Len(s) - Len(mark) + i] = mark[i]

\* The shortest prefix that ends with the mark, and nothing if there is none.
TakeLine(b, mark) ==
  \E n \in 1 .. Len(q[b]) :
    /\ EndsWith(SubSeq(q[b], 1, n), mark)
    /\ \A m \in 1 .. (n - 1) : ~ EndsWith(SubSeq(q[b], 1, m), mark)
    /\ Take("retrieveUntil", b, n)

Reserve(b, n) ==
  /\ UNCHANGED q
  /\ call' = Call("ensureWritableBytes", b, << >>, n, 0)

Exchange(b, c) ==
  /\ q' = [q EXCEPT ![b] = q[c], ![c] = q[b]]
  /\ call' = Call("swap", b, << >>, 0, 0)

Next ==
  \E b \in Buffers :
    \/ \E d \in Data :
         \/ PutBack("append", b, d, 0)
         \/ PutBack("hasWritten", b, d, 0)
         \/ PutBack("readFd", b, d, Len(d))
         \/ PutFront("prepend", b, d, 0)
    \/ PutBack("readFd", b, << >>, -1)      \* readv failed
    \/ \E n \in Widths : \E x \in IntN(n) :
         \/ PutBack("appendInt", b, ToNetwork(n, x), x)
         \/ PutFront("prependInt", b, ToNetwork(n, x), x)
    \/ \E n \in 0 .. Len(q[b]) :
         Take("retrieve", b, n) \/ TakeString(b, n) \/ TakeBack(b, n)
    \/ Take("retrieveAll", b, Len(q[b]))
    \/ TakeLine(b, <<EOL>>) \/ TakeLine(b, <<CR, EOL>>)
    \/ \E n \in Widths : TakeInt(b, n)
    \/ \E n \in 0 .. MaxLen : Reserve(b, n)
    \/ \E c \in Buffers : Exchange(b, c)

Spec == Init /\ [][Next]_queueVars

=============================================================================
