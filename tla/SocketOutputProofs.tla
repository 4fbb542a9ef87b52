------------------------- MODULE SocketOutputProofs -------------------------
(***************************************************************************)
(* What leaves a connection, for any size of messages and of the kernel's  *)
(* buffer: BytesOnce, OnlyDirectOvertakes and NoFunctorSleeps.             *)
(***************************************************************************)
EXTENDS SocketOutput, SequenceTheorems, TLAPS

\* Nothing in outputBuffer_ was written by Send: this is what makes
\* OnlyDirectOvertakes inductive.
BufferedNotDirect ==
  /\ direct \subseteq 1 .. sent
  /\ \A k \in DOMAIN outputBuffer_ : outputBuffer_[k] \notin direct

\* How far doPendingFunctors has come.
FunctorsSoFar ==
  /\ pc = "idle" => pendingFunctors_ = << >>
  /\ pc \in {"while", "poll"} => DOMAIN pendingFunctors_ \subseteq ran
  /\ pc = "functors" => 1 .. (i - 1) \subseteq ran

\* The part of the invariant about the bytes ...
BytesInv ==
  /\ room \in 0 .. Room
  /\ outputBuffer_ \in Seq(1 .. MaxBytes)
  /\ writing \in BOOLEAN
  /\ sent \in 0 .. MaxBytes
  /\ wire \in Seq(1 .. MaxBytes)
  /\ direct \subseteq 1 .. MaxBytes
  /\ BytesOnce
  /\ OnlyDirectOvertakes
  /\ BufferedNotDirect

\* ... and the part about the loop.
LoopInv ==
  /\ pc \in Places
  /\ quit_ \in BOOLEAN
  /\ events_ \in Nat \ {0}
  /\ pendingFunctors_ \in Seq({"writeCallback_"})
  /\ i \in Nat \ {0}
  /\ ran \subseteq 1 .. Len(pendingFunctors_)
  /\ asked \in BOOLEAN
  /\ revents_ \subseteq {"IN", "OUT"}
  /\ FunctorsSoFar

\* BytesOnce and OnlyDirectOvertakes of any wire w, buffer o, count s and set d.
AllOnce(w, o, s) ==
  LET all == w \o o
  IN Once(all) /\ {all[k] : k \in DOMAIN all} = 1 .. s

DirectFirst(w, o, d) ==
  LET all == w \o o
  IN \A a, b \in DOMAIN all : a < b /\ all[a] > all[b] => all[a] \in d /\ all[b] \notin d

-----------------------------------------------------------------------------
(***************************************************************************)
(* The operators.                                                          *)
(***************************************************************************)
LEMMA MinOfTwo ==
  ASSUME NEW a \in Nat, NEW b \in Nat
  PROVE  Min({a, b}) \in Nat /\ Min({a, b}) <= a /\ Min({a, b}) <= b
  <1>1. \E x \in {a, b} : \A y \in {a, b} : x <= y
    <2>1. CASE a <= b
      BY <2>1
    <2>2. CASE b <= a
      BY <2>2
    <2>. QED
      BY <2>1, <2>2
  <1>2. Min({a, b}) \in {a, b} /\ \A y \in {a, b} : Min({a, b}) <= y
    BY <1>1 DEF Min
  <1>. QED
    BY <1>2

\* From(a, b) is the sequence of the numbers from a to b.
LEMMA FromIs ==
  ASSUME NEW a \in Nat, NEW n \in Nat, NEW S, (a + 1) .. (a + n) \subseteq S
  PROVE  /\ From(a + 1, a + n) \in Seq(S) /\ Len(From(a + 1, a + n)) = n
         /\ \A k \in 1 .. n : From(a + 1, a + n)[k] = a + k
  <1>. DEFINE e(k) == a + 1 + k - 1
  <1>1. From(a + 1, a + n) = [k \in 1 .. n |-> e(k)]
    BY DEF From
  <1>2. \A k \in 1 .. n : e(k) = a + k /\ e(k) \in S
    OBVIOUS
  <1>. HIDE DEF e
  <1>3. [k \in 1 .. n |-> e(k)] \in Seq(S)
    BY <1>2
  <1>. QED
    BY <1>1, <1>2, <1>3

LEMMA ConcatIs ==
  ASSUME NEW S, NEW s \in Seq(S), NEW t \in Seq(S)
  PROVE  /\ s \o t \in Seq(S) /\ Len(s \o t) = Len(s) + Len(t)
         /\ DOMAIN (s \o t) = 1 .. (Len(s) + Len(t))
         /\ \A k \in 1 .. (Len(s) + Len(t)) :
              (s \o t)[k] = IF k <= Len(s) THEN s[k] ELSE t[k - Len(s)]
  <1>1. s \o t \in Seq(S) /\ Len(s \o t) = Len(s) + Len(t)
    OBVIOUS
  <1>. QED
    BY <1>1

\* A front part and the rest of a sequence.
LEMMA SplitIs ==
  ASSUME NEW S, NEW s \in Seq(S), NEW n \in 0 .. Len(s)
  PROVE  /\ SubSeq(s, 1, n) \in Seq(S) /\ Len(SubSeq(s, 1, n)) = n
         /\ SubSeq(s, n + 1, Len(s)) \in Seq(S) /\ Len(SubSeq(s, n + 1, Len(s))) = Len(s) - n
         /\ \A k \in 1 .. n : SubSeq(s, 1, n)[k] = s[k]
         /\ \A k \in 1 .. (Len(s) - n) : SubSeq(s, n + 1, Len(s))[k] = s[n + k]
  BY SubSeqProperties

-----------------------------------------------------------------------------
(***************************************************************************)
(* Send: n bytes go behind the wire, m bytes behind the buffer.            *)
(***************************************************************************)
\* The positions of A, with n new numbers put in behind position x and m behind
\* the end: how the bytes of wire \o outputBuffer_ move.
Moves(x, l, n, m, s, A, B, d) ==
  /\ \A k \in 1 .. (x + l) : A[k] \in 1 .. s
  /\ \A k \in 1 .. x : B[k] = A[k]
  /\ \A k \in (x + 1) .. (x + n) : B[k] = s + (k - x)
  /\ \A k \in (x + n + 1) .. (x + n + l) : B[k] = A[k - n] /\ B[k] \notin d
  /\ \A k \in (x + n + l + 1) .. (x + n + l + m) : B[k] = s + (k - x - l)
  /\ \A v \in 1 .. s : \E k \in 1 .. (x + l) : A[k] = v
  /\ \A a, b \in 1 .. (x + l) : A[a] = A[b] => a = b
  /\ \A a, b \in 1 .. (x + l) : a < b /\ A[a] > A[b] => A[a] \in d /\ A[b] \notin d

\* Where that leads: the numbers up to t, each once, and no descent but from dn.
Moved(e, t, B, dn) ==
  /\ \A a, b \in 1 .. e : B[a] = B[b] => a = b
  /\ \A k \in 1 .. e : B[k] \in 1 .. t
  /\ \A v \in 1 .. t : \E k \in 1 .. e : B[k] = v
  /\ \A a, b \in 1 .. e : a < b /\ B[a] > B[b] => B[a] \in dn /\ B[b] \notin dn

LEMMA Merge ==
  ASSUME NEW x \in Nat, NEW l \in Nat, NEW n \in Nat, NEW m \in Nat, NEW s \in Nat,
         NEW A \in [1 .. (x + l) -> Nat], NEW B \in [1 .. (x + n + l + m) -> Nat],
         NEW d \in SUBSET (1 .. s), Moves(x, l, n, m, s, A, B, d)
  PROVE  Moved(x + n + l + m, s + n + m, B, d \cup (s + 1) .. (s + n))
  <1>. USE DEF Moves
  <1>. DEFINE y == x + n
              z == x + n + l
              e == x + n + l + m
              Old(k) == IF k <= x THEN k ELSE k - n
              Was(k) == k \in 1 .. x \/ k \in (y + 1) .. z
              dn == d \cup (s + 1) .. (s + n)
  <1>1. ASSUME NEW k \in 1 .. e, Was(k)
        PROVE  Old(k) \in 1 .. (x + l) /\ B[k] = A[Old(k)] /\ B[k] \in 1 .. s
    <2>1. CASE k \in 1 .. x
      BY <2>1
    <2>2. CASE k \in (y + 1) .. z
      <3>1. k - n \in 1 .. (x + l) /\ ~ (k <= x)
        BY <2>2
      <3>2. B[k] = A[k - n]
        BY <2>2
      <3>. QED
        BY <3>1, <3>2
    <2>. QED
      BY <1>1, <2>1, <2>2
  <1>2. ASSUME NEW k \in 1 .. e, ~ Was(k)
        PROVE  /\ \/ k \in (x + 1) .. y /\ B[k] = s + (k - x)
                  \/ k \in (z + 1) .. e /\ B[k] = s + (k - x - l)
               /\ B[k] \in (s + 1) .. (s + n + m)
    <2>1. k \in (x + 1) .. y \/ k \in (z + 1) .. e
      BY <1>2
    <2>2. CASE k \in (x + 1) .. y
      <3>1. B[k] = s + (k - x)
        BY <2>2
      <3>. QED
        BY <2>2, <3>1
    <2>3. CASE k \in (z + 1) .. e
      <3>1. B[k] = s + (k - x - l)
        BY <2>3
      <3>. QED
        BY <2>3, <3>1
    <2>. QED
      BY <2>1, <2>2, <2>3
  <1>2b. ASSUME NEW a \in 1 .. e, NEW b \in 1 .. e, ~ Was(a), ~ Was(b), a < b
         PROVE  B[a] < B[b]
    <2>1. \/ a \in (x + 1) .. y /\ B[a] = s + (a - x)
          \/ a \in (z + 1) .. e /\ B[a] = s + (a - x - l)
      BY <1>2, <1>2b
    <2>2. \/ b \in (x + 1) .. y /\ B[b] = s + (b - x)
          \/ b \in (z + 1) .. e /\ B[b] = s + (b - x - l)
      BY <1>2, <1>2b
    <2>. HIDE DEF Was
    <2>. QED
      BY <1>2b, <2>1, <2>2
  <1>3. ASSUME NEW a \in 1 .. e, NEW b \in 1 .. e, Was(a), Was(b)
        PROVE  (Old(a) = Old(b) => a = b) /\ (a < b => Old(a) < Old(b))
    BY <1>3
  <1>. HIDE DEF Was, Old
  <1>4. ASSUME NEW a \in 1 .. e, NEW b \in 1 .. e, B[a] = B[b]
        PROVE  a = b
    <2>1. CASE Was(a) /\ Was(b)
      BY <1>1, <1>3, <1>4, <2>1
    <2>2. CASE ~ Was(a) /\ ~ Was(b)
      <3>1. ~ (a < b) /\ ~ (b < a)
        BY <1>2b, <1>4, <2>2
      <3>. QED
        BY <3>1
    <2>3. CASE Was(a) /\ ~ Was(b)
      <3>1. B[a] \in 1 .. s /\ B[b] \in (s + 1) .. (s + n + m)
        BY <1>1, <1>2, <2>3
      <3>. QED
        BY <1>4, <3>1
    <2>4. CASE ~ Was(a) /\ Was(b)
      <3>1. B[b] \in 1 .. s /\ B[a] \in (s + 1) .. (s + n + m)
        BY <1>1, <1>2, <2>4
      <3>. QED
        BY <1>4, <3>1
    <2>. QED
      BY <2>1, <2>2, <2>3, <2>4
  <1>5. ASSUME NEW k \in 1 .. e
        PROVE  B[k] \in 1 .. (s + n + m)
    <2>1. CASE Was(k)
      <3>1. B[k] \in 1 .. s
        BY <1>1, <2>1
      <3>. QED
        BY <3>1
    <2>2. CASE ~ Was(k)
      <3>1. B[k] \in (s + 1) .. (s + n + m)
        BY <1>2, <2>2
      <3>. QED
        BY <3>1
    <2>. QED
      BY <2>1, <2>2
  <1>6. ASSUME NEW v \in 1 .. (s + n + m)
        PROVE  \E k \in 1 .. e : B[k] = v
    <2>1. CASE v <= s
      <3>1. PICK k \in 1 .. (x + l) : A[k] = v
        BY <2>1
      <3>2. CASE k <= x
        BY <3>1, <3>2
      <3>3. CASE k > x
        <4>1. k + n \in (y + 1) .. z /\ k + n \in 1 .. e /\ k + n - n = k
          BY <3>3
        <4>2. B[k + n] = A[k + n - n]
          BY <4>1
        <4>. QED
          BY <3>1, <4>1, <4>2
      <3>. QED
        BY <3>2, <3>3
    <2>2. CASE s < v /\ v <= s + n
      <3>1. x + (v - s) \in (x + 1) .. y /\ x + (v - s) \in 1 .. e
        BY <2>2
      <3>2. B[x + (v - s)] = s + (x + (v - s) - x)
        BY <3>1
      <3>. QED
        BY <3>1, <3>2
    <2>3. CASE s + n < v
      <3>1. x + l + (v - s) \in (z + 1) .. e /\ x + l + (v - s) \in 1 .. e
        BY <2>3
      <3>2. B[x + l + (v - s)] = s + (x + l + (v - s) - x - l)
        BY <3>1
      <3>. QED
        BY <3>1, <3>2
    <2>. QED
      BY <2>1, <2>2, <2>3
  <1>7. ASSUME NEW a \in 1 .. e, NEW b \in 1 .. e, a < b, B[a] > B[b]
        PROVE  B[a] \in dn /\ B[b] \notin dn
    <2>1. CASE Was(a) /\ Was(b)
      <3>1. B[b] \in 1 .. s /\ A[Old(a)] > A[Old(b)] /\ Old(a) < Old(b)
        BY <1>1, <1>3, <1>7, <2>1
      <3>2. A[Old(a)] \in d /\ A[Old(b)] \notin d
        BY <1>1, <2>1, <3>1
      <3>. QED
        BY <1>1, <2>1, <3>1, <3>2
    <2>2. Was(a) => Was(b)
      <3>. SUFFICES ASSUME Was(a), ~ Was(b) PROVE FALSE
        OBVIOUS
      <3>1. B[a] \in 1 .. s /\ B[b] \in (s + 1) .. (s + n + m)
        BY <1>1, <1>2
      <3>. QED
        BY <1>7, <3>1
    <2>3. CASE ~ Was(a) /\ Was(b)
      <3>1. a \in (x + 1) .. y
        BY <1>7, <2>3 DEF Was
      <3>2. b \in (y + 1) .. z
        BY <1>7, <2>3, <3>1 DEF Was
      <3>3. B[b] \notin d /\ B[b] \in 1 .. s
        BY <1>1, <2>3, <3>2
      <3>. QED
        BY <3>1, <3>3, SMTT(60)
    <2>4. Was(a) \/ Was(b)
      <3>. SUFFICES ASSUME ~ Was(a), ~ Was(b) PROVE FALSE
        OBVIOUS
      <3>1. B[a] < B[b]
        BY <1>2b, <1>7
      <3>. QED
        BY <1>7, <3>1
    <2>. QED
      BY <2>1, <2>2, <2>3, <2>4
  <1>. QED
    BY <1>4, <1>5, <1>6, <1>7 DEF Moved

LEMMA SequenceIsFunction ==
  ASSUME NEW q \in Seq(Nat), NEW n \in Nat, Len(q) = n
  PROVE  q \in [1 .. n -> Nat]
  OBVIOUS

\* The n numbers that follow s; and a buffer without bytes of d.
Numbered(q, s, n) == Len(q) = n /\ \A k \in 1 .. n : q[k] = s + k

NoneOf(q, d) == \A k \in 1 .. Len(q) : q[k] \notin d

LEMMA TwoAppends ==
  ASSUME NEW w \in Seq(Nat), NEW o \in Seq(Nat), NEW s \in Nat, NEW n \in Nat, NEW m \in Nat,
         NEW d \in SUBSET (1 .. s),
         NEW wn \in Seq(Nat), Numbered(wn, s, n), NEW on \in Seq(Nat), Numbered(on, s + n, m),
         AllOnce(w, o, s), DirectFirst(w, o, d), NoneOf(o, d)
  PROVE  /\ AllOnce(w \o wn, o \o on, s + n + m)
         /\ DirectFirst(w \o wn, o \o on, d \cup (s + 1) .. (s + n))
         /\ NoneOf(o \o on, d \cup (s + 1) .. (s + n))
  <1>. USE DEF Numbered, NoneOf
  <1>1. PICK x \in Nat, l \in Nat : x = Len(w) /\ l = Len(o)
    OBVIOUS
  <1>2. PICK A, B : A = w \o o /\ B = (w \o wn) \o (o \o on)
    OBVIOUS
  <1>3. PICK W, O : W = w \o wn /\ O = o \o on
    OBVIOUS
  <1>4. /\ W \in Seq(Nat) /\ Len(W) = x + n
        /\ \A k \in 1 .. (x + n) : W[k] = IF k <= x THEN w[k] ELSE wn[k - x]
    BY <1>1, <1>3, ConcatIs, ZenonT(60)
  <1>5. /\ O \in Seq(Nat) /\ Len(O) = l + m
        /\ \A k \in 1 .. (l + m) : O[k] = IF k <= l THEN o[k] ELSE on[k - l]
    BY <1>1, <1>3, ConcatIs, ZenonT(60)
  <1>6. /\ B \in Seq(Nat) /\ Len(B) = x + n + l + m
        /\ \A k \in 1 .. (x + n + l + m) : B[k] = IF k <= x + n THEN W[k] ELSE O[k - (x + n)]
    <2>1. Len(W) + Len(O) = x + n + l + m
      BY <1>4, <1>5
    <2>2. B = W \o O
      BY <1>2, <1>3
    <2>3. /\ B \in Seq(Nat) /\ Len(B) = Len(W) + Len(O)
          /\ \A k \in 1 .. (Len(W) + Len(O)) : B[k] = IF k <= Len(W) THEN W[k] ELSE O[k - Len(W)]
      BY <1>4, <1>5, <2>2, ConcatIs, ZenonT(60)
    <2>. QED
      BY <1>4, <2>1, <2>3
  <1>7. /\ A \in Seq(Nat) /\ Len(A) = x + l
        /\ \A k \in 1 .. (x + l) : A[k] = IF k <= x THEN w[k] ELSE o[k - x]
    BY <1>1, <1>2, ConcatIs
  <1>8. A \in [1 .. (x + l) -> Nat] /\ B \in [1 .. (x + n + l + m) -> Nat]
    BY <1>6, <1>7, SequenceIsFunction, SMTT(60)
  <1>9. /\ \A k \in 1 .. (x + l) : A[k] \in 1 .. s
        /\ \A v \in 1 .. s : \E k \in 1 .. (x + l) : A[k] = v
        /\ \A a, b \in 1 .. (x + l) : A[a] = A[b] => a = b
    <2>1. Once(A) /\ {A[k] : k \in DOMAIN A} = 1 .. s
      BY <1>2 DEF AllOnce
    <2>2. DOMAIN A = 1 .. (x + l)
      BY <1>8
    <2>. QED
      BY <2>1, <2>2 DEF Once
  <1>10. \A a, b \in 1 .. (x + l) : a < b /\ A[a] > A[b] => A[a] \in d /\ A[b] \notin d
    BY <1>2, <1>8 DEF DirectFirst
  <1>11. \A k \in 1 .. x : B[k] = A[k]
    <2>. SUFFICES ASSUME NEW k \in 1 .. x PROVE B[k] = A[k]
      OBVIOUS
    <2>1. /\ k \in 1 .. (x + l) /\ k \in 1 .. (x + n) /\ k \in 1 .. (x + n + l + m)
          /\ k <= x /\ k <= x + n
      OBVIOUS
    <2>2. B[k] = W[k]
      BY <1>6, <2>1
    <2>3. W[k] = w[k] /\ A[k] = w[k]
      BY <1>4, <1>7, <2>1
    <2>. QED
      BY <2>2, <2>3
  <1>12. \A k \in (x + 1) .. (x + n) : B[k] = s + (k - x)
    BY <1>4, <1>6
  <1>13. ASSUME NEW k \in (x + n + 1) .. (x + n + l)
         PROVE  B[k] = A[k - n] /\ B[k] \notin d
    <2>1. /\ k \in 1 .. (x + n + l + m) /\ ~ (k <= x + n) /\ k - (x + n) \in 1 .. l
          /\ k - (x + n) \in 1 .. (l + m) /\ k - (x + n) <= l
          /\ k - n \in 1 .. (x + l) /\ ~ (k - n <= x) /\ k - n - x = k - (x + n)
      OBVIOUS
    <2>2. B[k] = O[k - (x + n)]
      BY <1>6, <2>1
    <2>3. O[k - (x + n)] = o[k - (x + n)]
      BY <1>5, <2>1
    <2>4. A[k - n] = o[k - (x + n)]
      BY <1>7, <2>1
    <2>. QED
      BY <1>1, <2>1, <2>2, <2>3, <2>4
  <1>14. ASSUME NEW k \in (x + n + l + 1) .. (x + n + l + m)
         PROVE  B[k] = s + (k - x - l)
    <2>1. /\ k \in 1 .. (x + n + l + m) /\ ~ (k <= x + n)
          /\ k - (x + n) \in 1 .. (l + m) /\ ~ (k - (x + n) <= l)
          /\ k - (x + n) - l \in 1 .. m /\ s + n + (k - (x + n) - l) = s + (k - x - l)
      OBVIOUS
    <2>2. B[k] = O[k - (x + n)]
      BY <1>6, <2>1
    <2>3. O[k - (x + n)] = on[k - (x + n) - l]
      BY <1>5, <2>1
    <2>. QED
      BY <2>1, <2>2, <2>3
  <1>15. Moved(x + n + l + m, s + n + m, B, d \cup (s + 1) .. (s + n))
    <2>1. Moves(x, l, n, m, s, A, B, d)
      BY <1>9, <1>10, <1>11, <1>12, <1>13, <1>14, Zenon DEF Moves
    <2>. QED
      BY <1>8, <2>1, Merge
  <1>16. AllOnce(W, O, s + n + m)
    <2>1. DOMAIN B = 1 .. (x + n + l + m)
      BY <1>8
    <2>2. Once(B)
      BY <1>15, <2>1 DEF Once, Moved
    <2>3. {B[k] : k \in DOMAIN B} = 1 .. (s + n + m)
      <3>1. \A k \in DOMAIN B : B[k] \in 1 .. (s + n + m)
        BY <1>15, <2>1 DEF Moved
      <3>2. \A v \in 1 .. (s + n + m) : \E k \in DOMAIN B : B[k] = v
        BY <1>15, <2>1 DEF Moved
      <3>. QED
        BY <3>1, <3>2, SMTT(60)
    <2>. QED
      BY <1>2, <1>3, <2>2, <2>3 DEF AllOnce
  <1>17. DirectFirst(W, O, d \cup (s + 1) .. (s + n))
    <2>1. DOMAIN B = 1 .. (x + n + l + m)
      BY <1>8
    <2>. QED
      BY <1>2, <1>3, <1>15, <2>1, ZenonT(60) DEF DirectFirst, Moved
  <1>18. ASSUME NEW k \in 1 .. (l + m)
         PROVE  O[k] \notin d \cup (s + 1) .. (s + n)
    <2>1. CASE k <= l
      <3>1. O[k] = o[k] /\ o[k] \notin d
        BY <1>1, <1>5, <2>1
      <3>2. k + x \in 1 .. (x + l) /\ ~ (k + x <= x) /\ k + x - x = k
        BY <2>1
      <3>3. A[k + x] = o[k]
        BY <1>7, <3>2
      <3>4. o[k] \in 1 .. s
        BY <1>9, <3>2, <3>3
      <3>. QED
        BY <3>1, <3>4
    <2>2. CASE k > l
      <3>1. k - l \in 1 .. m /\ ~ (k <= l)
        BY <2>2
      <3>2. O[k] = s + n + (k - l)
        BY <1>5, <3>1
      <3>. QED
        BY <3>1, <3>2
    <2>. QED
      BY <2>1, <2>2
  <1>. QED
    BY <1>3, <1>5, <1>16, <1>17, <1>18

-----------------------------------------------------------------------------
(***************************************************************************)
(* The steps that move bytes.                                              *)
(***************************************************************************)
LEMMA BytesAreNumbers ==
  ASSUME NEW q \in Seq(1 .. MaxBytes)
  PROVE  q \in Seq(Nat)
  BY OutputAssumption

LEMMA SendWritesKeeps ==
  ASSUME BytesInv, sent + MsgLen <= MaxBytes, SendWrites
  PROVE  BytesInv'
  <1>. USE OutputAssumption
  <1>1. PICK n \in 1 .. Min({MsgLen, room}) :
          /\ wire' = wire \o From(sent + 1, sent + n)
          /\ outputBuffer_' = outputBuffer_ \o From(sent + n + 1, sent + MsgLen)
          /\ sent' = sent + MsgLen
          /\ room' = room - n
          /\ direct' = direct \cup (sent + 1) .. (sent + n)
          /\ UNCHANGED writing
    BY DEF SendWrites
  <1>2. /\ sent \in 0 .. MaxBytes /\ room \in 0 .. Room /\ writing \in BOOLEAN
        /\ wire \in Seq(1 .. MaxBytes) /\ outputBuffer_ \in Seq(1 .. MaxBytes)
        /\ direct \in SUBSET (1 .. sent)
        /\ \A k \in 1 .. Len(outputBuffer_) : outputBuffer_[k] \notin direct
    BY DEF BytesInv, BufferedNotDirect
  <1>3. n \in Nat /\ n <= MsgLen /\ n <= room /\ MsgLen - n \in Nat /\ MsgLen \in Nat
    <2>1. MsgLen \in Nat /\ room \in Nat
      BY <1>2
    <2>2. /\ Min({MsgLen, room}) \in Nat
          /\ Min({MsgLen, room}) <= MsgLen /\ Min({MsgLen, room}) <= room
      BY <2>1, MinOfTwo
    <2>. QED
      BY <2>1, <2>2
  <1>m. PICK m \in Nat : m = MsgLen - n
    BY <1>3
  <1>4. PICK wn, on : wn = From(sent + 1, sent + n) /\ on = From(sent + n + 1, sent + MsgLen)
    OBVIOUS
  <1>5. sent + n + m = sent + MsgLen /\ sent + n \in Nat /\ sent \in Nat
    BY <1>2, <1>3, <1>m
  <1>6. /\ wn \in Seq(1 .. MaxBytes) /\ Len(wn) = n
        /\ \A k \in 1 .. n : wn[k] = sent + k
    <2>1. (sent + 1) .. (sent + n) \subseteq 1 .. MaxBytes
      BY <1>2, <1>3
    <2>. QED
      BY <1>3, <1>4, <1>5, <2>1, FromIs
  <1>7. /\ on \in Seq(1 .. MaxBytes) /\ Len(on) = m
        /\ \A k \in 1 .. m : on[k] = sent + n + k
    <2>1. (sent + n + 1) .. (sent + n + m) \subseteq 1 .. MaxBytes
      BY <1>2, <1>3, <1>5
    <2>2. on = From(sent + n + 1, sent + n + m)
      BY <1>4, <1>5
    <2>. QED
      BY <1>5, <2>1, <2>2, FromIs
  <1>8. wire' = wire \o wn /\ outputBuffer_' = outputBuffer_ \o on
    BY <1>1, <1>4
  <1>9. wire' \in Seq(1 .. MaxBytes) /\ outputBuffer_' \in Seq(1 .. MaxBytes)
    BY <1>2, <1>6, <1>7, <1>8
  <1>10. /\ AllOnce(wire, outputBuffer_, sent)
         /\ DirectFirst(wire, outputBuffer_, direct)
    BY DEF BytesInv, BytesOnce, OnlyDirectOvertakes, AllOnce, DirectFirst
  <1>11. /\ AllOnce(wire', outputBuffer_', sent + n + m)
         /\ DirectFirst(wire', outputBuffer_', direct \cup (sent + 1) .. (sent + n))
         /\ \A k \in 1 .. Len(outputBuffer_') :
              outputBuffer_'[k] \notin direct \cup (sent + 1) .. (sent + n)
    <2>1. /\ wire \in Seq(Nat) /\ outputBuffer_ \in Seq(Nat)
          /\ wn \in Seq(Nat) /\ on \in Seq(Nat)
      BY <1>2, <1>6, <1>7, BytesAreNumbers
    <2>2. /\ AllOnce(wire \o wn, outputBuffer_ \o on, sent + n + m)
          /\ DirectFirst(wire \o wn, outputBuffer_ \o on, direct \cup (sent + 1) .. (sent + n))
          /\ NoneOf(outputBuffer_ \o on, direct \cup (sent + 1) .. (sent + n))
      <3>1. Numbered(wn, sent, n) /\ Numbered(on, sent + n, m) /\ NoneOf(outputBuffer_, direct)
        BY <1>2, <1>6, <1>7 DEF Numbered, NoneOf
      <3>. QED
        BY <1>2, <1>3, <1>5, <1>10, <2>1, <3>1, TwoAppends
    <2>. QED
      BY <1>8, <2>2 DEF NoneOf
  <1>12. BytesOnce' /\ OnlyDirectOvertakes'
    BY <1>1, <1>5, <1>11, ZenonT(60) DEF BytesOnce, OnlyDirectOvertakes, AllOnce, DirectFirst
  <1>13. BufferedNotDirect'
    <2>1. direct' \subseteq 1 .. sent'
      BY <1>1, <1>2, <1>3
    <2>2. DOMAIN outputBuffer_' = 1 .. Len(outputBuffer_')
      BY <1>9
    <2>. QED
      BY <1>1, <1>11, <2>1, <2>2 DEF BufferedNotDirect
  <1>14. room' \in 0 .. Room /\ sent' \in 0 .. MaxBytes /\ direct' \subseteq 1 .. MaxBytes
    BY <1>1, <1>2, <1>3
  <1>. QED
    BY <1>1, <1>2, <1>9, <1>12, <1>13, <1>14 DEF BytesInv

\* Bytes are only moved from outputBuffer_ to the wire.
LEMMA SameBytes ==
  ASSUME BytesInv, wire' \o outputBuffer_' = wire \o outputBuffer_, UNCHANGED <<sent, direct>>
  PROVE  BytesOnce' /\ OnlyDirectOvertakes'
  BY DEF BytesInv, BytesOnce, OnlyDirectOvertakes

LEMMA SendKeeps ==
  ASSUME BytesInv, Send \/ DoesNotSend
  PROVE  BytesInv'
  <1>1. CASE DoesNotSend
    BY <1>1 DEF DoesNotSend, socketVars, BytesInv, BytesOnce, OnlyDirectOvertakes, BufferedNotDirect
  <1>2. CASE Send /\ SendWrites
    BY <1>2, SendWritesKeeps DEF Send
  <1>3. CASE SendBlocked
    BY <1>3 DEF SendBlocked, BytesInv, BytesOnce, OnlyDirectOvertakes, BufferedNotDirect
  <1>. QED
    BY <1>1, <1>2, <1>3 DEF Send

LEMMA TakenFromFront ==
  ASSUME NEW S, NEW w \in Seq(S), NEW o \in Seq(S), NEW n \in 0 .. Len(o)
  PROVE  (w \o SubSeq(o, 1, n)) \o SubSeq(o, n + 1, Len(o)) = w \o o
  <1>1. PICK f, r : f = SubSeq(o, 1, n) /\ r = SubSeq(o, n + 1, Len(o))
    OBVIOUS
  <1>2. /\ f \in Seq(S) /\ Len(f) = n /\ r \in Seq(S) /\ Len(r) = Len(o) - n
        /\ \A k \in 1 .. n : f[k] = o[k]
        /\ \A k \in 1 .. (Len(o) - n) : r[k] = o[n + k]
    BY <1>1, SplitIs
  <1>3. f \o r = o
    <2>1. /\ f \o r \in Seq(S) /\ Len(f \o r) = Len(f) + Len(r)
          /\ \A k \in 1 .. (Len(f) + Len(r)) :
               (f \o r)[k] = IF k <= Len(f) THEN f[k] ELSE r[k - Len(f)]
      BY <1>2, ConcatIs
    <2>2. Len(o) \in Nat /\ Len(f) + Len(r) = Len(o)
      BY <1>2
    <2>3. ASSUME NEW k \in 1 .. Len(o)
          PROVE  (f \o r)[k] = o[k]
      <3>1. CASE k <= n
        BY <1>2, <2>1, <2>2, <3>1
      <3>2. CASE ~ (k <= n)
        <4>1. k - n \in 1 .. (Len(o) - n) /\ n + (k - n) = k
          BY <2>2, <3>2
        <4>2. (f \o r)[k] = r[k - n]
          BY <1>2, <2>1, <2>2, <3>2
        <4>. QED
          BY <1>2, <4>1, <4>2
      <3>. QED
        BY <3>1, <3>2
    <2>. QED
      BY <2>1, <2>2, <2>3, SeqEqual
  <1>4. (w \o f) \o r = w \o (f \o r)
    BY <1>2, ConcatAssociative, SMTT(60)
  <1>. QED
    BY <1>1, <1>3, <1>4

LEMMA HandleWriteKeeps ==
  ASSUME BytesInv, HandleWrite
  PROVE  BytesInv'
  <1>. USE OutputAssumption
  <1>1. PICK n \in 1 .. Min({Len(outputBuffer_), room}) :
          /\ wire' = wire \o SubSeq(outputBuffer_, 1, n)
          /\ outputBuffer_' = SubSeq(outputBuffer_, n + 1, Len(outputBuffer_))
          /\ room' = room - n
    BY DEF HandleWrite
  <1>2. /\ sent \in 0 .. MaxBytes /\ room \in 0 .. Room /\ writing \in BOOLEAN
        /\ wire \in Seq(1 .. MaxBytes) /\ outputBuffer_ \in Seq(1 .. MaxBytes)
        /\ Len(outputBuffer_) \in Nat
        /\ direct \subseteq 1 .. sent
        /\ \A k \in 1 .. Len(outputBuffer_) : outputBuffer_[k] \notin direct
    BY DEF BytesInv, BufferedNotDirect
  <1>3. n \in 0 .. Len(outputBuffer_) /\ n <= room /\ n \in Nat
    <2>. DEFINE most == Min({Len(outputBuffer_), room})
    <2>1. room \in Nat
      BY <1>2
    <2>2. most \in Nat /\ most <= Len(outputBuffer_) /\ most <= room
      BY <1>2, <2>1, MinOfTwo
    <2>. QED
      BY <1>2, <2>1, <2>2
  <1>4. UNCHANGED <<sent, direct>> /\ writing' \in BOOLEAN
    BY <1>2 DEF HandleWrite
  <1>5. /\ SubSeq(outputBuffer_, 1, n) \in Seq(1 .. MaxBytes)
        /\ outputBuffer_' \in Seq(1 .. MaxBytes) /\ Len(outputBuffer_') = Len(outputBuffer_) - n
        /\ \A k \in 1 .. (Len(outputBuffer_) - n) : outputBuffer_'[k] = outputBuffer_[n + k]
    <2>1. /\ SubSeq(outputBuffer_, 1, n) \in Seq(1 .. MaxBytes)
          /\ SubSeq(outputBuffer_, n + 1, Len(outputBuffer_)) \in Seq(1 .. MaxBytes)
          /\ Len(SubSeq(outputBuffer_, n + 1, Len(outputBuffer_))) = Len(outputBuffer_) - n
          /\ \A k \in 1 .. (Len(outputBuffer_) - n) :
               SubSeq(outputBuffer_, n + 1, Len(outputBuffer_))[k] = outputBuffer_[n + k]
      BY <1>2, <1>3, SplitIs, ZenonT(60)
    <2>. QED
      BY <1>1, <2>1
  <1>6. wire' \in Seq(1 .. MaxBytes)
    BY <1>1, <1>2, <1>5
  <1>7. wire' \o outputBuffer_' = wire \o outputBuffer_
    BY <1>1, <1>2, <1>3, TakenFromFront
  <1>8. BytesOnce' /\ OnlyDirectOvertakes'
    BY <1>4, <1>7, SameBytes
  <1>9. BufferedNotDirect'
    <2>1. DOMAIN outputBuffer_' = 1 .. (Len(outputBuffer_) - n)
      BY <1>5
    <2>2. \A k \in 1 .. (Len(outputBuffer_) - n) : n + k \in 1 .. Len(outputBuffer_)
      BY <1>2, <1>3
    <2>. QED
      BY <1>2, <1>4, <1>5, <2>1, <2>2 DEF BufferedNotDirect
  <1>10. room' \in 0 .. Room
    BY <1>1, <1>2, <1>3
  <1>. QED
    BY <1>2, <1>4, <1>5, <1>6, <1>8, <1>9, <1>10 DEF BytesInv

\* Every step keeps the bytes.
LEMMA BytesStep == BytesInv /\ [Next]_vars => BytesInv'
  <1>. SUFFICES ASSUME BytesInv, [Next]_vars PROVE BytesInv'
    OBVIOUS
  <1>1. ASSUME UNCHANGED <<room, socketVars>>
        PROVE  BytesInv'
    BY <1>1, SendKeeps DEF DoesNotSend
  <1>2. CASE LoopStep
    BY <1>1, <1>2, SendKeeps, HandleWriteKeeps
    DEF LoopStep, Poll, PollEmpty, HandleRead, NotReadable, WriteNothing, RunCallback
  <1>3. CASE PollFails \/ Quit \/ PeerAsks
    BY <1>1, <1>3 DEF PollFails, Quit, PeerAsks
  <1>4. CASE PeerDrains
    <2>1. room' \in 0 .. Room /\ UNCHANGED <<outputBuffer_, writing, sent, wire, direct>>
      BY <1>4, OutputAssumption DEF PeerDrains, socketVars, BytesInv
    <2>. QED
      BY <2>1 DEF BytesInv, BytesOnce, OnlyDirectOvertakes, BufferedNotDirect
  <1>5. CASE UNCHANGED vars
    BY <1>1, <1>5 DEF vars
  <1>. QED
    BY <1>2, <1>3, <1>4, <1>5 DEF Next

LEMMA BytesInit == Init => BytesInv
  <1>. SUFFICES ASSUME Init PROVE BytesInv
    OBVIOUS
  <1>. USE OutputAssumption DEF Init
  <1>1. /\ room \in 0 .. Room /\ outputBuffer_ \in Seq(1 .. MaxBytes) /\ writing \in BOOLEAN
        /\ sent \in 0 .. MaxBytes /\ wire \in Seq(1 .. MaxBytes) /\ direct \subseteq 1 .. MaxBytes
    <2>1. room \in 0 .. Room /\ sent \in 0 .. MaxBytes
      OBVIOUS
    <2>2. << >> \in Seq(1 .. MaxBytes)
      OBVIOUS
    <2>. QED
      BY <2>1, <2>2
  <1>2. wire \o outputBuffer_ = << >>
    OBVIOUS
  <1>3. BytesOnce /\ OnlyDirectOvertakes
    BY <1>2 DEF BytesOnce, OnlyDirectOvertakes, Once
  <1>4. BufferedNotDirect
    BY DEF BufferedNotDirect
  <1>. QED
    BY <1>1, <1>3, <1>4 DEF BytesInv

-----------------------------------------------------------------------------
(***************************************************************************)
(* The loop.                                                               *)
(***************************************************************************)
LEMMA LoopStepKeeps == LoopInv /\ [Next]_vars => LoopInv'
  <1>. SUFFICES ASSUME LoopInv, [Next]_vars PROVE LoopInv'
    OBVIOUS
  <1>. USE LoopAssumption DEF LoopInv, FunctorsSoFar, Places
  <1>1. CASE loop \/ While \/ FunctorsDone
    <2>1. asked' = asked /\ revents_' = revents_ /\ pendingFunctors_' = pendingFunctors_
          /\ ran' = ran /\ i' = i /\ events_' = events_
      BY <1>1 DEF loop, While, FunctorsDone, Next, LoopStep, Poll, PollReports, PollEmpty,
                  PollNothing, HandleRead, NotReadable, HandleWrite, WriteNothing, RunCallback,
                  RunFunctor, EventHandled, PollFails, PollOutOfMemory, Quit, quit, PeerAsks,
                  PeerDrains, loopVars, vars
    <2>2. CASE loop
      <3>1. quit_' \in BOOLEAN /\ pc' = "while" /\ pendingFunctors_ = << >>
        BY <2>2 DEF loop
      <3>2. DOMAIN pendingFunctors_ = {}
        BY <3>1
      <3>. QED
        BY <2>1, <3>1, <3>2
    <2>3. CASE While
      BY <2>1, <2>3 DEF While
    <2>4. CASE FunctorsDone
      <3>1. DOMAIN pendingFunctors_ \subseteq 1 .. (i - 1)
        BY <2>4 DEF FunctorsDone
      <3>. QED
        BY <2>1, <2>4, <3>1 DEF FunctorsDone
    <2>. QED
      BY <1>1, <2>2, <2>3, <2>4
  <1>2. CASE Poll \/ PollEmpty
    <2>1. CASE Poll
      <3>1. revents_' \subseteq {"IN", "OUT"}
        BY <2>1 DEF Poll, Ready
      <3>2. events_' \in Nat \ {0} /\ pc' = "read"
        BY <2>1 DEF Poll, PollReports
      <3>3. UNCHANGED <<quit_, pendingFunctors_, i, ran, asked>>
        BY <2>1 DEF Poll, PollReports
      <3>. QED
        BY <3>1, <3>2, <3>3
    <2>2. CASE PollEmpty
      <3>1. UNCHANGED <<quit_, events_, pendingFunctors_, ran, asked, revents_>>
        BY <2>2 DEF PollEmpty, PollNothing
      <3>2. i' = 1 /\ pc' = "functors"
        BY <2>2 DEF PollEmpty, PollNothing
      <3>. QED
        BY <3>1, <3>2
    <2>. QED
      BY <1>2, <2>1, <2>2
  <1>3. CASE HandleRead \/ NotReadable \/ WriteNothing
    <2>1. /\ UNCHANGED <<quit_, events_, pendingFunctors_, ran, revents_>>
          /\ asked' \in BOOLEAN
      BY <1>3 DEF HandleRead, NotReadable, WriteNothing
    <2>2. \/ pc' = "write" /\ i' = i
          \/ pc' = "functors" /\ i' = 1
      BY <1>3 DEF HandleRead, NotReadable, WriteNothing, EventHandled
    <2>. QED
      BY <2>1, <2>2
  <1>4. CASE HandleWrite
    <2>1. /\ pendingFunctors_' \in Seq({"writeCallback_"})
          /\ Len(pendingFunctors_') >= Len(pendingFunctors_)
      <3>1. \/ pendingFunctors_' = pendingFunctors_
            \/ pendingFunctors_' = Append(pendingFunctors_, "writeCallback_")
        BY <1>4 DEF HandleWrite, runInLoop
      <3>. QED
        BY <3>1
    <2>2. ran \subseteq 1 .. Len(pendingFunctors_')
      BY <2>1
    <2>. QED
      BY <1>4, <2>1, <2>2 DEF HandleWrite, EventHandled
  <1>5. CASE RunCallback
    <2>1. i \in 1 .. Len(pendingFunctors_) /\ 1 .. (i + 1 - 1) \subseteq ran \cup {i}
      BY <1>5 DEF RunCallback, RunFunctor
    <2>. QED
      BY <1>5, <2>1 DEF RunCallback, RunFunctor
  <1>6. CASE PollFails \/ Quit
    BY <1>6 DEF PollFails, PollOutOfMemory, Quit, quit
  <1>7. CASE PeerAsks \/ PeerDrains \/ UNCHANGED vars
    BY <1>7 DEF PeerAsks, PeerDrains, vars, loopVars
  <1>. QED
    BY <1>1, <1>2, <1>3, <1>4, <1>5, <1>6, <1>7 DEF Next, LoopStep

LEMMA LoopInvInit == Init => LoopInv
  <1>. SUFFICES ASSUME Init PROVE LoopInv
    OBVIOUS
  <1>. USE LoopAssumption DEF Init, LoopInit
  <1>1. pendingFunctors_ \in Seq({"writeCallback_"}) /\ ran \subseteq 1 .. Len(pendingFunctors_)
    OBVIOUS
  <1>2. quit_ \in BOOLEAN /\ asked \in BOOLEAN
    OBVIOUS
  <1>3. FunctorsSoFar
    BY DEF FunctorsSoFar
  <1>. QED
    BY <1>1, <1>2, <1>3 DEF LoopInv, Places

-----------------------------------------------------------------------------
\* The types hold.
THEOREM OutputTypes == Spec => []TypeOK
  <1>1. BytesInv /\ LoopInv => TypeOK
    BY DEF BytesInv, LoopInv, TypeOK
  <1>. QED
    BY <1>1, BytesInit, BytesStep, LoopInvInit, LoopStepKeeps, PTL DEF Spec

\* No byte that Send accepted is lost or doubled, for all lengths of messages,
\* sizes of the send buffer and short writes.
THEOREM NoByteLost == Spec => []BytesOnce
  <1>1. BytesInv => BytesOnce
    BY DEF BytesInv
  <1>. QED
    BY <1>1, BytesInit, BytesStep, PTL DEF Spec

\* Only a direct write of Send overtakes, and only bytes that were buffered.
THEOREM OvertakingIsDirect == Spec => []OnlyDirectOvertakes
  <1>1. BytesInv => OnlyDirectOvertakes
    BY DEF BytesInv
  <1>. QED
    BY <1>1, BytesInit, BytesStep, PTL DEF Spec

\* Every functor has run when the loop sleeps in poll.
THEOREM FunctorsRunBeforePoll == Spec => []NoFunctorSleeps
  <1>1. LoopInv => NoFunctorSleeps
    BY DEF LoopInv, FunctorsSoFar, NoFunctorSleeps
  <1>. QED
    BY <1>1, LoopInvInit, LoopStepKeeps, PTL DEF Spec

=============================================================================
