---------------------------- MODULE BufferProofs ----------------------------
(***************************************************************************)
(* Proofs about Buffer, for all constants: every vector size, byte base,   *)
(* and number of objects.                                                  *)
(***************************************************************************)
EXTENDS Buffer, TLAPS, SequenceTheorems, WellFoundedInduction

\* std::copy stays in the vector and keeps its size.
LEMMA CopyToType ==
  ASSUME NEW mem \in Seq(Byte), NEW at \in Int, NEW src \in Seq(Byte)
  PROVE  CopyTo(mem, at, src) \in Seq(Byte) /\ Len(CopyTo(mem, at, src)) = Len(mem)
<1> DEFINE e(i) == IF at < i /\ i <= at + Len(src) THEN src[i - at] ELSE mem[i]
<1>1. Len(mem) \in Nat /\ Len(src) \in Nat
  BY LenProperties
<1>2. \A i \in 1 .. Len(mem) : e(i) \in Byte
  <2> TAKE i \in 1 .. Len(mem)
  <2>1. CASE at < i /\ i <= at + Len(src)
    <3>1. i - at \in 1 .. Len(src)
      BY <2>1, <1>1
    <3> QED BY <2>1, <3>1, ElementOfSeq
  <2>2. CASE ~ (at < i /\ i <= at + Len(src))
    BY <2>2, ElementOfSeq
  <2> QED BY <2>1, <2>2
<1> HIDE DEF e
<1>3. [i \in 1 .. Len(mem) |-> e(i)] \in Seq(Byte)
  BY <1>1, <1>2, IsASeq
<1>4. CopyTo(mem, at, src) = [i \in 1 .. Len(mem) |-> e(i)]
  BY DEF CopyTo, e
<1>5. Len([i \in 1 .. Len(mem) |-> e(i)]) = Len(mem)
  BY <1>1
<1> QED BY <1>3, <1>4, <1>5

\* resize yields a vector of exactly the size asked for.
LEMMA ResizeType ==
  ASSUME NEW mem \in Seq(Byte), NEW n \in Nat
  PROVE  Resize(mem, n) \in Seq(Byte) /\ Len(Resize(mem, n)) = n
<1> DEFINE e(i) == IF i <= Len(mem) THEN mem[i] ELSE 0
<1>1. Len(mem) \in Nat
  BY LenProperties
<1>2. \A i \in 1 .. n : e(i) \in Byte
  <2> TAKE i \in 1 .. n
  <2>1. CASE i <= Len(mem)
    BY <2>1, <1>1, ElementOfSeq
  <2>2. CASE ~ (i <= Len(mem))
    BY <2>2, ApiAssumption DEF Byte
  <2> QED BY <2>1, <2>2
<1> HIDE DEF e
<1>3. [i \in 1 .. n |-> e(i)] \in Seq(Byte)
  BY <1>2, IsASeq
<1>4. Resize(mem, n) = [i \in 1 .. n |-> e(i)]
  BY DEF Resize, e
<1>5. Len([i \in 1 .. n |-> e(i)]) = n
  OBVIOUS
<1> QED BY <1>3, <1>4, <1>5

\* A byte string a client passes in is a sequence of bytes.
LEMMA DataType == ASSUME NEW d \in Data PROVE d \in Seq(Byte)
<1>1. PICK n \in 0 .. MaxLen : d \in [1 .. n -> Byte]
  BY DEF Data
<1> QED BY <1>1, ApiAssumption

\* An integer on the wire has the width of its type.
LEMMA ToNetworkType ==
  ASSUME NEW n \in Widths, NEW x \in IntN(n)
  PROVE  ToNetwork(n, x) \in Seq(Byte) /\ Len(ToNetwork(n, x)) = n
<1>1. ByteBase \in Nat /\ ByteBase > 0
  BY ApiAssumption
<1>2. Modulus(n) \in Nat /\ Modulus(n) > 0
  <2>1. \A a, c \in Nat : a > 0 /\ c > 0 => a * c \in Nat /\ a * c > 0
    OBVIOUS
  <2> QED BY <1>1, <2>1 DEF Modulus, Widths
<1>3. x \in Int
  BY <1>2 DEF IntN
<1> DEFINE u == x % Modulus(n)
           d(k) == (u \div k) % ByteBase
<1>4. u \in Nat
  BY <1>2, <1>3
<1>5. \A k \in Nat : k > 0 => d(k) \in Byte
  <2> TAKE k \in Nat
  <2> HAVE k > 0
  <2>1. u \div k \in Int
    BY <1>4
  <2> QED BY <1>1, <2>1 DEF Byte
<1>6. /\ ByteBase * ByteBase \in Nat /\ ByteBase * ByteBase > 0
      /\ ByteBase * ByteBase * ByteBase \in Nat /\ ByteBase * ByteBase * ByteBase > 0
  <2>1. \A a, c \in Nat : a > 0 /\ c > 0 => a * c \in Nat /\ a * c > 0
    OBVIOUS
  <2> QED BY <1>1, <2>1
<1>7. /\ d(1) \in Byte /\ d(ByteBase) \in Byte /\ d(ByteBase * ByteBase) \in Byte
      /\ d(ByteBase * ByteBase * ByteBase) \in Byte
  BY <1>1, <1>5, <1>6
<1>8. n = 1 \/ n = 2 \/ n = 4
  BY DEF Widths
<1>9. ToNetwork(n, x) = CASE n = 1 -> << d(1) >>
                          [] n = 2 -> << d(ByteBase), d(1) >>
                          [] n = 4 -> << d(ByteBase * ByteBase * ByteBase),
                                         d(ByteBase * ByteBase), d(ByteBase), d(1) >>
  BY DEF ToNetwork
<1> HIDE DEF d
<1> QED BY <1>7, <1>8, <1>9

-----------------------------------------------------------------------------
(***************************************************************************)
(* Integers on the wire: what ToNetwork takes apart, FromNetwork puts      *)
(* together again, for every base.                                         *)
(***************************************************************************)

\* Quotient and remainder of a positive divisor.
LEMMA Divided ==
  ASSUME NEW u \in Int, NEW d \in Nat, d > 0
  PROVE  /\ u \div d \in Int /\ u % d \in 0 .. (d - 1)
         /\ u = d * (u \div d) + (u % d)
OBVIOUS

\* Two facts about products that the solver needs one at a time.
LEMMA ProductGrows ==
  ASSUME NEW d \in Nat, NEW s \in Int, s >= 1
  PROVE  d * s >= d /\ d * s \in Int
OBVIOUS

LEMMA ProductOfDifference ==
  ASSUME NEW d \in Int, NEW s \in Int, NEW q \in Int
  PROVE  d * (s - q) = d * s - d * q
OBVIOUS

\* There are no others.
LEMMA Quotient ==
  ASSUME NEW d \in Nat, d > 0, NEW s \in Int, NEW e \in 0 .. (d - 1)
  PROVE  (d * s + e) \div d = s /\ (d * s + e) % d = e
<1> DEFINE u == d * s + e
           q == u \div d
           r == u % d
<1>1. u \in Int
  OBVIOUS
<1>2. q \in Int /\ r \in 0 .. (d - 1) /\ u = d * q + r
  BY <1>1, Divided
<1>3. d * s \in Int /\ d * q \in Int /\ d * s - d * q = r - e
  BY <1>2
<1>4. ~ s - q >= 1
  BY <1>2, <1>3, ProductOfDifference, ProductGrows
<1>5. ~ q - s >= 1
  BY <1>2, <1>3, ProductOfDifference, ProductGrows
<1> QED
  BY <1>2, <1>3, <1>4, <1>5

\* Dividing by k and then by d is dividing by k * d.
LEMMA DivTwice ==
  ASSUME NEW u \in Int, NEW k \in Nat, k > 0, NEW d \in Nat, d > 0
  PROVE  (u \div k) \div d = u \div (k * d)
<1> DEFINE q == u \div k
           r == u % k
           s == q \div d
           t == q % d
           e == k * t + r
<1>1. q \in Int /\ r \in 0 .. (k - 1) /\ u = k * q + r
  BY Divided
<1>2. s \in Int /\ t \in 0 .. (d - 1) /\ q = d * s + t
  BY <1>1, Divided
<1> HIDE DEF q, r, s, t
<1>3. k * d \in Nat /\ k * d > 0
  OBVIOUS
<1>4. e \in 0 .. (k * d - 1)
  <2>1. k * t \in Nat /\ k * t = k * (d - 1) - k * (d - 1 - t) /\ k * (d - 1 - t) \in Nat
    BY <1>2, ProductOfDifference
  <2>2. k * (d - 1) = k * d - k
    OBVIOUS
  <2> QED
    BY <1>1, <1>3, <2>1, <2>2
<1>5. u = (k * d) * s + e
  <2>1. k * (d * s + t) = k * (d * s) + k * t /\ k * (d * s) = (k * d) * s
    BY <1>2
  <2> QED
    BY <1>1, <1>2, <2>1
<1>6. u \div (k * d) = s
  BY <1>2, <1>3, <1>4, <1>5, Quotient
<1> QED
  BY <1>6 DEF s, q

\* Two's complement: the remainder, taken back into the range of IntN.
LEMMA Wrapped ==
  ASSUME NEW m \in Nat, m > 0, NEW x \in (- (m \div 2)) .. ((m + 1) \div 2 - 1)
  PROVE  /\ x % m \in 0 .. (m - 1)
         /\ (IF x % m > (m + 1) \div 2 - 1 THEN (x % m) - m ELSE x % m) = x
<1>1. x \in Int /\ x < m /\ x + m >= 0 /\ x % m \in 0 .. (m - 1)
  BY Divided
<1>2. CASE x >= 0
  <2>1. m * 0 + x = x
    BY <1>1
  <2>2. x % m = x
    BY <1>1, <1>2, <2>1, Quotient
  <2> QED
    BY <1>1, <2>2
<1>3. CASE x < 0
  <2>1. m * (-1) + (x + m) = x /\ x + m \in 0 .. (m - 1)
    BY <1>1, <1>3
  <2>2. x % m = x + m
    BY <2>1, Quotient
  <2>3. x + m > (m + 1) \div 2 - 1
    OBVIOUS
  <2> QED
    BY <1>1, <2>2, <2>3
<1> QED
  BY <1>1, <1>2, <1>3

\* The most significant digit is the quotient itself.
LEMMA HighDigit ==
  ASSUME NEW k \in Nat, k > 0, NEW d \in Nat, d > 0, NEW u \in 0 .. (k * d - 1)
  PROVE  u \div k \in 0 .. (d - 1) /\ (u \div k) % d = u \div k
<1> DEFINE q == u \div k
<1>1. q \in Int /\ u % k \in 0 .. (k - 1) /\ u = k * q + (u % k)
  BY Divided
<1>2. k * d \in Nat /\ k * q \in Int /\ u \in Int /\ u < k * d /\ u >= 0
  BY <1>1
<1> HIDE DEF q
<1>3. ~ q >= d
  <2>1. k * (q - d) = k * q - k * d
    BY <1>1
  <2>2. q >= d => k * (q - d) \in Nat
    BY <1>1
  <2> QED
    BY <1>1, <1>2, <2>1, <2>2
<1>4. ~ q <= -1
  <2>1. k * (-1 - q) = - k - k * q
    BY <1>1
  <2>2. q <= -1 => k * (-1 - q) \in Nat
    BY <1>1
  <2> QED
    BY <1>1, <1>2, <2>1, <2>2
<1>5. q \in 0 .. (d - 1) /\ d * 0 + q = q
  BY <1>1, <1>3, <1>4
<1>6. q % d = q
  BY <1>5, Quotient
<1> QED
  BY <1>5, <1>6 DEF q

\* The digits of u in base d, put together again.
LEMMA Digits ==
  ASSUME NEW d \in Nat, d > 0
  PROVE  /\ \A u \in 0 .. (d - 1) : (u \div 1) % d = u
         /\ \A u \in 0 .. (d * d - 1) :
              ((u \div d) % d) * d + ((u \div 1) % d) = u
         /\ \A u \in 0 .. (d * d * d * d - 1) :
              ((((u \div (d * d * d)) % d) * d + ((u \div (d * d)) % d)) * d
                 + ((u \div d) % d)) * d + ((u \div 1) % d) = u
<1>1. /\ d * d \in Nat /\ d * d > 0
      /\ (d * d) * d \in Nat /\ (d * d) * d > 0
  BY ProductGrows
<1>2. ASSUME NEW u \in Int
      PROVE  u \div 1 = u
  OBVIOUS
<1>3. ASSUME NEW u \in Int
      PROVE  u \div d \in Int /\ u = (u \div d) * d + (u % d)
  <2>1. u \div d \in Int /\ u = d * (u \div d) + (u % d)
    BY Divided
  <2> QED
    BY <2>1
<1>4. ASSUME NEW u \in 0 .. (d - 1)
      PROVE  (u \div 1) % d = u
  <2>1. u \in Int /\ d * 0 + u = u
    OBVIOUS
  <2>2. u % d = u
    BY <2>1, Quotient
  <2> QED
    BY <1>2, <2>1, <2>2
<1>5. ASSUME NEW u \in 0 .. (d * d - 1)
      PROVE  ((u \div d) % d) * d + ((u \div 1) % d) = u
  <2>1. u \in Int
    BY <1>1
  <2>2. (u \div d) % d = u \div d
    BY HighDigit
  <2> QED
    BY <1>2, <1>3, <2>1, <2>2
<1>6. ASSUME NEW u \in 0 .. (d * d * d * d - 1)
      PROVE  ((((u \div (d * d * d)) % d) * d + ((u \div (d * d)) % d)) * d
                + ((u \div d) % d)) * d + ((u \div 1) % d) = u
  <2> DEFINE q1 == u \div d
             q2 == u \div (d * d)
             q3 == u \div (d * d * d)
  <2>1. u \in Int
    BY <1>1
  <2>2. q3 % d = q3
    BY <1>1, HighDigit
  <2>3. q2 \div d = q3 /\ q1 \div d = q2
    BY <1>1, <2>1, DivTwice
  <2>4. q1 \in Int /\ q2 \in Int
    BY <1>1, <2>1, Divided
  <2>5. q2 = q3 * d + (q2 % d)
    BY <1>3, <2>3, <2>4
  <2>6. q1 = q2 * d + (q1 % d)
    BY <1>3, <2>3, <2>4
  <2>7. u = q1 * d + (u % d) /\ u \div 1 = u
    BY <1>2, <1>3, <2>1
  <2> QED
    BY <2>2, <2>5, <2>6, <2>7
<1> QED
  BY <1>4, <1>5, <1>6

\* What appendInt or prependInt puts on the wire is what peekInt reads, whatever
\* follows it.
LEMMA NetworkRoundTrip ==
  ASSUME NEW n \in Widths, NEW x \in IntN(n), NEW s,
         \A i \in 1 .. n : s[i] = ToNetwork(n, x)[i]
  PROVE  FromNetwork(n, s) = x
<1> DEFINE b == ByteBase
           m == Modulus(n)
           u == x % m
           d(k) == (u \div k) % b
           w == CASE n = 1 -> s[1]
                  [] n = 2 -> s[1] * b + s[2]
                  [] n = 4 -> ((s[1] * b + s[2]) * b + s[3]) * b + s[4]
<1>1. b \in Nat /\ b > 0
  BY ApiAssumption
<1>2. m \in Nat /\ m > 0
  <2>1. \A a, c \in Nat : a > 0 /\ c > 0 => a * c \in Nat /\ a * c > 0
    OBVIOUS
  <2> QED BY <1>1, <2>1 DEF Modulus, Widths
<1>3. x \in (- (m \div 2)) .. ((m + 1) \div 2 - 1)
  BY DEF IntN
<1>4. /\ u \in 0 .. (m - 1)
      /\ (IF u > (m + 1) \div 2 - 1 THEN u - m ELSE u) = x
  <2> HIDE DEF m
  <2> QED BY <1>2, <1>3, Wrapped
<1>5. n = 1 \/ n = 2 \/ n = 4
  BY DEF Widths
<1>6. w = u
  <2>1. CASE n = 1
    <3>1. m = b
      BY <2>1 DEF Modulus
    <3>2. s[1] = d(1)
      <4>1. ToNetwork(n, x) = << d(1) >>
        BY <2>1 DEF ToNetwork
      <4> HIDE DEF d
      <4> QED BY <2>1, <4>1
    <3>3. d(1) = u
      BY <1>1, <1>4, <3>1, Digits
    <3> QED BY <2>1, <3>2, <3>3
  <2>2. CASE n = 2
    <3>1. m = b * b
      BY <2>2 DEF Modulus
    <3>2. s[1] = d(b) /\ s[2] = d(1)
      <4>1. ToNetwork(n, x) = << d(b), d(1) >>
        BY <2>2 DEF ToNetwork
      <4> HIDE DEF d
      <4> QED BY <2>2, <4>1
    <3>3. d(b) * b + d(1) = u
      BY <1>1, <1>4, <3>1, Digits
    <3>4. w = s[1] * b + s[2]
      BY <2>2
    <3> QED BY <3>2, <3>3, <3>4
  <2>3. CASE n = 4
    <3>1. m = b * b * b * b
      BY <2>3 DEF Modulus
    <3>2. s[1] = d(b * b * b) /\ s[2] = d(b * b) /\ s[3] = d(b) /\ s[4] = d(1)
      <4>1. ToNetwork(n, x) = << d(b * b * b), d(b * b), d(b), d(1) >>
        BY <2>3 DEF ToNetwork
      <4> HIDE DEF d
      <4> QED BY <2>3, <4>1
    <3>3. ((d(b * b * b) * b + d(b * b)) * b + d(b)) * b + d(1) = u
      BY <1>1, <1>4, <3>1, Digits
    <3>4. w = ((s[1] * b + s[2]) * b + s[3]) * b + s[4]
      BY <2>3
    <3> QED BY <3>2, <3>3, <3>4
  <2> QED BY <1>5, <2>1, <2>2, <2>3
<1>7. FromNetwork(n, s) = IF w > (m + 1) \div 2 - 1 THEN w - m ELSE w
  BY DEF FromNetwork
<1> QED
  <2> HIDE DEF w, u, m
  <2> QED BY <1>4, <1>6, <1>7

-----------------------------------------------------------------------------
(***************************************************************************)
(* What each member function does to a well-formed Buffer, said in terms   *)
(* of its readable bytes.                                                  *)
(***************************************************************************)

\* The facts about a well-formed Buffer that the other lemmas start from.
LEMMA WellFormedFacts ==
  ASSUME NEW b, WellFormed(b)
  PROVE  /\ b.buffer_ \in Seq(Byte)
         /\ Len(b.buffer_) \in Nat
         /\ \A i \in 1 .. Len(b.buffer_) : b.buffer_[i] \in Byte
         /\ b.readerIndex_ \in Nat /\ b.writerIndex_ \in Nat
         /\ b.readerIndex_ <= b.writerIndex_
         /\ b.writerIndex_ <= Len(b.buffer_)
         /\ kCheapPrepend \in Nat
         /\ kCheapPrepend <= Len(b.buffer_)
         /\ readableBytes(b) = b.writerIndex_ - b.readerIndex_
         /\ writableBytes(b) = Len(b.buffer_) - b.writerIndex_
         /\ prependableBytes(b) = b.readerIndex_
         /\ readableBytes(b) \in Nat /\ writableBytes(b) \in Nat
         /\ b = [buffer_ |-> b.buffer_, readerIndex_ |-> b.readerIndex_,
                 writerIndex_ |-> b.writerIndex_]
<1>1. b.buffer_ \in Seq(Byte)
  BY DEF WellFormed, BufferType
<1>2. Len(b.buffer_) \in Nat
  BY <1>1, LenProperties
<1>3. \A i \in 1 .. Len(b.buffer_) : b.buffer_[i] \in Byte
  BY <1>1, ElementOfSeq
<1> QED BY <1>1, <1>2, <1>3, BufferAssumption
        DEF WellFormed, BufferType, readableBytes, writableBytes, prependableBytes

\* The readable bytes are a string as long as readableBytes says.
LEMMA ContentProperties ==
  ASSUME NEW b, WellFormed(b)
  PROVE  /\ Content(b) \in Seq(Byte)
         /\ Len(Content(b)) = readableBytes(b)
         /\ \A i \in 1 .. readableBytes(b) :
              Content(b)[i] = b.buffer_[b.readerIndex_ + i]
<1> DEFINE n == readableBytes(b)
           e(i) == b.buffer_[b.readerIndex_ + i]
<1>1. n \in Nat
  BY WellFormedFacts
<1>2. \A i \in 1 .. n : e(i) \in Byte
  BY WellFormedFacts
<1>3. Content(b) = [i \in 1 .. n |-> e(i)]
  BY DEF Content
<1> HIDE DEF n, e
<1>4. [i \in 1 .. n |-> e(i)] \in Seq(Byte)
  BY <1>1, <1>2, IsASeq
<1>5. Len([i \in 1 .. n |-> e(i)]) = n
  BY <1>1
<1>6. \A i \in 1 .. n : Content(b)[i] = e(i)
  BY <1>3
<1> QED BY <1>3, <1>4, <1>5, <1>6 DEF n, e

\* Two Buffers with the same number of readable bytes, equal one by one, have
\* the same content.
LEMMA SameContent ==
  ASSUME NEW b, WellFormed(b), NEW s \in Seq(Byte), Len(s) = readableBytes(b),
         \A i \in 1 .. readableBytes(b) : b.buffer_[b.readerIndex_ + i] = s[i]
  PROVE  Content(b) = s
<1>1. /\ Content(b) \in Seq(Byte) /\ Len(Content(b)) = readableBytes(b)
      /\ \A i \in 1 .. readableBytes(b) : Content(b)[i] = s[i]
  BY ContentProperties
<1> QED BY <1>1, SeqEqual

\* makeSpace: the vector stays well formed, the content survives the move and
\* the growth, the space asked for is there, and a move goes to the front.
LEMMA MakeSpaceCorrect ==
  ASSUME NEW b, WellFormed(b), NEW len \in Nat, writableBytes(b) < len
  PROVE  /\ WellFormed(makeSpace(b, len))
         /\ Content(makeSpace(b, len)) = Content(b)
         /\ writableBytes(makeSpace(b, len)) >= len
         /\ ~ MustGrow(b, len) => kCheapPrepend < b.readerIndex_
<1> DEFINE m == makeSpace(b, len)
           c == Content(b)
<1>0. /\ c \in Seq(Byte) /\ Len(c) = readableBytes(b)
      /\ \A i \in 1 .. readableBytes(b) : c[i] = b.buffer_[b.readerIndex_ + i]
  BY ContentProperties
<1>1. CASE MustGrow(b, len)
  <2> DEFINE r == Resize(b.buffer_, b.writerIndex_ + len)
  <2>1. m = [buffer_ |-> r, readerIndex_ |-> b.readerIndex_,
             writerIndex_ |-> b.writerIndex_]
    BY <1>1 DEF makeSpace, Grow, WellFormed, BufferType
  <2>2. r \in Seq(Byte) /\ Len(r) = b.writerIndex_ + len
    <3>1. b.writerIndex_ + len \in Nat /\ b.buffer_ \in Seq(Byte)
      BY WellFormedFacts
    <3> QED BY <3>1, ResizeType
  <2>3. \A i \in 1 .. b.writerIndex_ : r[i] = b.buffer_[i]
    BY WellFormedFacts DEF Resize
  <2> HIDE DEF r
  <2>4. WellFormed(m)
    <3> HIDE DEF m
    <3> QED BY <2>1, <2>2, WellFormedFacts, SMTT(60) DEF WellFormed, BufferType
  <2>5. readableBytes(m) = readableBytes(b) /\ writableBytes(m) >= len
    BY <2>1, <2>2, WellFormedFacts DEF readableBytes, writableBytes
  <2>6. Content(m) = c
    <3> HIDE DEF m, c
    <3>1. \A i \in 1 .. readableBytes(m) : m.buffer_[m.readerIndex_ + i] = c[i]
      <4> TAKE i \in 1 .. readableBytes(m)
      <4>1. i \in 1 .. readableBytes(b) /\ b.readerIndex_ + i \in 1 .. b.writerIndex_
        BY <2>5, WellFormedFacts
      <4> QED BY <1>0, <2>1, <2>3, <4>1
    <3> QED BY <1>0, <2>4, <2>5, <3>1, SameContent
  <2> QED BY <1>1, <2>4, <2>5, <2>6
<1>2. CASE ~ MustGrow(b, len)
  <2> DEFINE r == CopyTo(b.buffer_, kCheapPrepend, c)
  <2>1. m = [buffer_ |-> r, readerIndex_ |-> kCheapPrepend,
             writerIndex_ |-> kCheapPrepend + readableBytes(b)]
    BY <1>2 DEF makeSpace, MoveToFront
  <2>2. r \in Seq(Byte) /\ Len(r) = Len(b.buffer_)
    BY <1>0, CopyToType, WellFormedFacts
  <2>3. kCheapPrepend < b.readerIndex_
    BY <1>2, WellFormedFacts DEF MustGrow
  <2>4. \A i \in 1 .. readableBytes(b) : r[kCheapPrepend + i] = c[i]
    BY <1>0, <2>3, WellFormedFacts, SMTT(60) DEF CopyTo
  <2> HIDE DEF r
  <2>5. WellFormed(m)
    <3>1. kCheapPrepend + readableBytes(b) <= Len(r)
      BY <2>2, <2>3, WellFormedFacts
    <3> HIDE DEF m
    <3> QED BY <2>1, <2>2, <3>1, WellFormedFacts DEF WellFormed, BufferType
  <2>6. readableBytes(m) = readableBytes(b)
    BY <2>1, WellFormedFacts DEF readableBytes
  <2>7. writableBytes(m) >= len
    BY <1>2, <2>1, <2>2, WellFormedFacts, SMTT(60) DEF MustGrow, writableBytes
  <2>8. Content(m) = c
    <3>1. \A i \in 1 .. readableBytes(m) : m.buffer_[m.readerIndex_ + i] = c[i]
      BY <2>1, <2>4, <2>6
    <3> HIDE DEF m, c
    <3> QED BY <1>0, <2>5, <2>6, <3>1, SameContent
  <2> QED BY <2>3, <2>5, <2>7, <2>8
<1> QED BY <1>1, <1>2

\* ensureWritableBytes delivers the space and keeps the content.
LEMMA EnsureCorrect ==
  ASSUME NEW b, WellFormed(b), NEW len \in Nat
  PROVE  /\ WellFormed(ensureWritableBytes(b, len))
         /\ Content(ensureWritableBytes(b, len)) = Content(b)
         /\ writableBytes(ensureWritableBytes(b, len)) >= len
BY MakeSpaceCorrect, WellFormedFacts DEF ensureWritableBytes

\* Storing at beginWrite() and hasWritten add the bytes at the back.
LEMMA StoreCorrect ==
  ASSUME NEW b, WellFormed(b), NEW data \in Seq(Byte),
         Len(data) <= writableBytes(b)
  PROVE  /\ WellFormed(Store(b, data))
         /\ Content(Store(b, data)) = Content(b) \o data
         /\ writableBytes(Store(b, data)) = writableBytes(b) - Len(data)
<1> DEFINE m == Store(b, data)
           c == Content(b)
           r == CopyTo(b.buffer_, b.writerIndex_, data)
<1>0. Len(data) \in Nat
  BY LenProperties
<1>1. /\ c \in Seq(Byte) /\ Len(c) = readableBytes(b)
      /\ \A i \in 1 .. readableBytes(b) : c[i] = b.buffer_[b.readerIndex_ + i]
  BY ContentProperties
<1>2. m = [buffer_ |-> r, readerIndex_ |-> b.readerIndex_,
           writerIndex_ |-> b.writerIndex_ + Len(data)]
  <2>1. b \in BufferType
    BY DEF WellFormed
  <2>2. m = [b EXCEPT !.buffer_ = r, !.writerIndex_ = b.writerIndex_ + Len(data)]
    BY DEF Store
  <2> HIDE DEF m, r
  <2> QED BY <2>1, <2>2 DEF BufferType
<1>3. r \in Seq(Byte) /\ Len(r) = Len(b.buffer_)
  BY CopyToType, WellFormedFacts
<1>4. /\ \A i \in 1 .. b.writerIndex_ : r[i] = b.buffer_[i]
      /\ \A i \in 1 .. Len(data) : r[b.writerIndex_ + i] = data[i]
  BY <1>0, WellFormedFacts, SMTT(60) DEF CopyTo
<1> HIDE DEF r
<1>5. WellFormed(m)
  <2> HIDE DEF m
  <2> QED BY <1>0, <1>2, <1>3, WellFormedFacts DEF WellFormed, BufferType
<1>6. /\ readableBytes(m) = readableBytes(b) + Len(data)
      /\ writableBytes(m) = writableBytes(b) - Len(data)
  BY <1>0, <1>2, <1>3, WellFormedFacts DEF readableBytes, writableBytes
<1>7. /\ c \o data \in Seq(Byte) /\ Len(c \o data) = readableBytes(m)
      /\ \A i \in 1 .. readableBytes(m) :
           (c \o data)[i] = IF i <= readableBytes(b) THEN c[i]
                            ELSE data[i - readableBytes(b)]
  <2> HIDE DEF c, m
  <2>1. Len(c \o data) = Len(c) + Len(data) /\ c \o data \in Seq(Byte)
    BY <1>1, ConcatProperties
  <2>2. \A i \in 1 .. Len(c) + Len(data) :
          (c \o data)[i] = IF i <= Len(c) THEN c[i] ELSE data[i - Len(c)]
    BY <1>1, ConcatProperties
  <2> QED BY <1>1, <1>6, <2>1, <2>2
<1>8. \A i \in 1 .. readableBytes(m) : m.buffer_[m.readerIndex_ + i] = (c \o data)[i]
  <2> TAKE i \in 1 .. readableBytes(m)
  <2>1. CASE i <= readableBytes(b)
    <3>1. b.readerIndex_ + i \in 1 .. b.writerIndex_ /\ i \in 1 .. readableBytes(b)
      BY <2>1, <1>0, <1>6, WellFormedFacts
    <3> QED BY <1>1, <1>2, <1>4, <1>7, <2>1, <3>1
  <2>2. CASE ~ (i <= readableBytes(b))
    <3>1. /\ i - readableBytes(b) \in 1 .. Len(data)
          /\ b.readerIndex_ + i = b.writerIndex_ + (i - readableBytes(b))
      BY <2>2, <1>0, <1>6, WellFormedFacts, SMTT(60)
    <3> QED BY <1>2, <1>4, <1>7, <2>2, <3>1
  <2> QED BY <2>1, <2>2
<1> HIDE DEF m, c
<1>9. Content(m) = c \o data
  BY <1>5, <1>7, <1>8, SameContent
<1> QED BY <1>5, <1>6, <1>9 DEF m, c

\* append adds the bytes at the back, growing the vector when it must.
LEMMA AppendCorrect ==
  ASSUME NEW b, WellFormed(b), NEW data \in Seq(Byte)
  PROVE  /\ WellFormed(append(b, data))
         /\ Content(append(b, data)) = Content(b) \o data
<1> DEFINE m == ensureWritableBytes(b, Len(data))
<1>1. Len(data) \in Nat
  BY LenProperties
<1>2. /\ WellFormed(m) /\ Content(m) = Content(b)
      /\ writableBytes(m) >= Len(data)
  BY <1>1, EnsureCorrect
<1>3. writableBytes(m) \in Nat
  BY <1>2, WellFormedFacts
<1> HIDE DEF m
<1>4. /\ WellFormed(Store(m, data)) /\ Content(Store(m, data)) = Content(m) \o data
  BY <1>1, <1>2, <1>3, StoreCorrect
<1> QED BY <1>2, <1>4 DEF append, m

\* retrieveAll and retrieve take bytes from the front.
LEMMA RetrieveCorrect ==
  ASSUME NEW b, WellFormed(b), NEW len \in Nat, len <= readableBytes(b)
  PROVE  /\ WellFormed(retrieve(b, len))
         /\ retrieve(b, len).buffer_ = b.buffer_
         /\ Content(retrieve(b, len)) = Queue!Drop(Content(b), len)
<1> DEFINE m == retrieve(b, len)
           c == Content(b)
           d == SubSeq(c, len + 1, Len(c))
<1>0. readableBytes(b) \in Nat
  BY WellFormedFacts
<1>1. /\ c \in Seq(Byte) /\ Len(c) = readableBytes(b)
      /\ \A i \in 1 .. readableBytes(b) : c[i] = b.buffer_[b.readerIndex_ + i]
  BY ContentProperties
<1>2. /\ d \in Seq(Byte) /\ Len(d) = readableBytes(b) - len
      /\ \A i \in 1 .. (readableBytes(b) - len) : d[i] = c[len + i]
  <2> HIDE DEF c
  <2>1. \A i \in (len + 1) .. Len(c) : c[i] \in Byte
    BY <1>0, <1>1, ElementOfSeq
  <2> QED BY <1>0, <1>1, <2>1, SubSeqProperties
<1>3. d = Queue!Drop(c, len)
  BY DEF Queue!Drop
<1>4. CASE len < readableBytes(b)
  <2>1. m = [buffer_ |-> b.buffer_, readerIndex_ |-> b.readerIndex_ + len,
             writerIndex_ |-> b.writerIndex_]
    BY <1>4 DEF retrieve, WellFormed, BufferType
  <2> HIDE DEF m, c, d
  <2>2. WellFormed(m)
    BY <1>4, <2>1, WellFormedFacts DEF WellFormed, BufferType
  <2>3. readableBytes(m) = readableBytes(b) - len
    BY <2>1, WellFormedFacts DEF readableBytes
  <2>4. \A i \in 1 .. readableBytes(m) : m.buffer_[m.readerIndex_ + i] = d[i]
    <3> TAKE i \in 1 .. readableBytes(m)
    <3>1. i \in 1 .. (readableBytes(b) - len) /\ len + i \in 1 .. readableBytes(b)
      BY <1>0, <2>3
    <3>2. b.readerIndex_ + (len + i) = (b.readerIndex_ + len) + i
      BY <3>1, WellFormedFacts
    <3> QED BY <1>1, <1>2, <2>1, <3>1, <3>2
  <2>5. Content(m) = d
    BY <1>2, <2>2, <2>3, <2>4, SameContent
  <2> QED BY <1>3, <2>1, <2>2, <2>5 DEF m, c
<1>5. CASE ~ (len < readableBytes(b))
  <2>1. m = [b EXCEPT !.readerIndex_ = kCheapPrepend, !.writerIndex_ = kCheapPrepend]
    BY <1>5 DEF retrieve, retrieveAll
  <2> HIDE DEF m, c, d
  <2>2. m = [buffer_ |-> b.buffer_, readerIndex_ |-> kCheapPrepend,
             writerIndex_ |-> kCheapPrepend]
    BY <2>1 DEF WellFormed, BufferType
  <2>3. WellFormed(m)
    BY <2>2, WellFormedFacts DEF WellFormed, BufferType
  <2>4. readableBytes(m) = 0 /\ Len(d) = 0
    BY <1>0, <1>2, <1>5, <2>2, WellFormedFacts DEF readableBytes
  <2>5. Len(d) = readableBytes(m) /\ 1 .. readableBytes(m) = {}
    BY <2>4
  <2>6. Content(m) = d
    BY <1>2, <2>3, <2>5, SameContent
  <2> QED BY <1>3, <2>2, <2>3, <2>6 DEF m, c
<1> QED BY <1>4, <1>5

\* retrieveAll is retrieve of everything.
LEMMA RetrieveAllIsRetrieve ==
  ASSUME NEW b, WellFormed(b)
  PROVE  retrieveAll(b) = retrieve(b, readableBytes(b))
BY WellFormedFacts DEF retrieve

\* unwrite takes bytes from the back.
LEMMA UnwriteCorrect ==
  ASSUME NEW b, WellFormed(b), NEW len \in Nat, len <= readableBytes(b)
  PROVE  /\ WellFormed(unwrite(b, len))
         /\ Content(unwrite(b, len)) = SubSeq(Content(b), 1, Len(Content(b)) - len)
<1> DEFINE m == unwrite(b, len)
           c == Content(b)
           d == SubSeq(c, 1, Len(c) - len)
<1>0. readableBytes(b) \in Nat
  BY WellFormedFacts
<1>1. /\ c \in Seq(Byte) /\ Len(c) = readableBytes(b)
      /\ \A i \in 1 .. readableBytes(b) : c[i] = b.buffer_[b.readerIndex_ + i]
  BY ContentProperties
<1>2. /\ d \in Seq(Byte) /\ Len(d) = readableBytes(b) - len
      /\ \A i \in 1 .. (readableBytes(b) - len) : d[i] = c[i]
  <2> HIDE DEF c
  <2>1. \A i \in 1 .. (Len(c) - len) : c[i] \in Byte
    BY <1>0, <1>1, ElementOfSeq
  <2> QED BY <1>0, <1>1, <2>1, SubSeqProperties
<1>3. m = [buffer_ |-> b.buffer_, readerIndex_ |-> b.readerIndex_,
           writerIndex_ |-> b.writerIndex_ - len]
  BY DEF unwrite, WellFormed, BufferType
<1> HIDE DEF m, c, d
<1>4. WellFormed(m)
  BY <1>3, WellFormedFacts DEF WellFormed, BufferType
<1>5. readableBytes(m) = readableBytes(b) - len
  BY <1>3, WellFormedFacts DEF readableBytes
<1>6. \A i \in 1 .. readableBytes(m) : m.buffer_[m.readerIndex_ + i] = d[i]
  <2> TAKE i \in 1 .. readableBytes(m)
  <2>1. i \in 1 .. readableBytes(b)
    BY <1>0, <1>5
  <2> QED BY <1>1, <1>2, <1>3, <1>5, <2>1
<1>7. Content(m) = d
  BY <1>2, <1>4, <1>5, <1>6, SameContent
<1> QED BY <1>4, <1>7 DEF m, c, d

\* prepend adds bytes at the front, in front of the readable bytes.
LEMMA PrependCorrect ==
  ASSUME NEW b, WellFormed(b), NEW data \in Seq(Byte),
         Len(data) <= prependableBytes(b)
  PROVE  /\ WellFormed(prepend(b, data))
         /\ Content(prepend(b, data)) = data \o Content(b)
         /\ Len(prepend(b, data).buffer_) = Len(b.buffer_)
<1> DEFINE m == prepend(b, data)
           c == Content(b)
           k == b.readerIndex_ - Len(data)
           r == CopyTo(b.buffer_, k, data)
<1>0. /\ Len(data) \in Nat /\ k \in Nat /\ readableBytes(b) \in Nat
      /\ k + Len(data) = b.readerIndex_
      /\ b.readerIndex_ \in Nat /\ b.writerIndex_ \in Nat /\ Len(b.buffer_) \in Nat
      /\ b.writerIndex_ = b.readerIndex_ + readableBytes(b)
      /\ b.writerIndex_ <= Len(b.buffer_)
  BY LenProperties, WellFormedFacts
<1>1. /\ c \in Seq(Byte) /\ Len(c) = readableBytes(b)
      /\ \A i \in 1 .. readableBytes(b) : c[i] = b.buffer_[b.readerIndex_ + i]
  BY ContentProperties
<1>2. m = [buffer_ |-> r, readerIndex_ |-> k, writerIndex_ |-> b.writerIndex_]
  <2>1. b \in BufferType
    BY DEF WellFormed
  <2>2. m = [b EXCEPT !.buffer_ = r, !.readerIndex_ = k]
    BY DEF prepend
  <2> HIDE DEF m, r, k
  <2> QED BY <2>1, <2>2 DEF BufferType
<1>3. r \in Seq(Byte) /\ Len(r) = Len(b.buffer_)
  <2>1. k \in Int /\ b.buffer_ \in Seq(Byte)
    BY <1>0, WellFormedFacts
  <2> HIDE DEF k
  <2> QED BY <2>1, CopyToType
<1>4. /\ \A i \in 1 .. Len(data) : r[k + i] = data[i]
      /\ \A i \in (b.readerIndex_ + 1) .. b.writerIndex_ : r[i] = b.buffer_[i]
  <2> HIDE DEF k
  <2>1. \A i \in 1 .. Len(b.buffer_) :
          r[i] = IF k < i /\ i <= k + Len(data) THEN data[i - k] ELSE b.buffer_[i]
    BY DEF CopyTo
  <2> HIDE DEF r
  <2>2. \A i \in 1 .. Len(data) : r[k + i] = data[i]
    <3> TAKE i \in 1 .. Len(data)
    <3>1. k + i \in 1 .. Len(b.buffer_) /\ k < k + i /\ k + i <= k + Len(data)
          /\ (k + i) - k = i
      BY <1>0
    <3> QED BY <2>1, <3>1
  <2>3. \A i \in (b.readerIndex_ + 1) .. b.writerIndex_ : r[i] = b.buffer_[i]
    <3> TAKE i \in (b.readerIndex_ + 1) .. b.writerIndex_
    <3>1. i \in 1 .. Len(b.buffer_) /\ ~ (i <= k + Len(data))
      BY <1>0, SMTT(60)
    <3> QED BY <2>1, <3>1
  <2> QED BY <2>2, <2>3
<1> HIDE DEF r, m, c, k
<1>5. WellFormed(m)
  BY <1>0, <1>2, <1>3, WellFormedFacts DEF WellFormed, BufferType
<1>6. readableBytes(m) = Len(data) + readableBytes(b)
  BY <1>0, <1>2 DEF readableBytes
<1>7. /\ data \o c \in Seq(Byte) /\ Len(data \o c) = readableBytes(m)
      /\ \A i \in 1 .. readableBytes(m) :
           (data \o c)[i] = IF i <= Len(data) THEN data[i] ELSE c[i - Len(data)]
  <2>1. Len(data \o c) = Len(data) + Len(c) /\ data \o c \in Seq(Byte)
    BY <1>1, ConcatProperties
  <2>2. \A i \in 1 .. Len(data) + Len(c) :
          (data \o c)[i] = IF i <= Len(data) THEN data[i] ELSE c[i - Len(data)]
    BY <1>1, ConcatProperties
  <2> QED BY <1>1, <1>6, <2>1, <2>2
<1>8. \A i \in 1 .. readableBytes(m) : m.buffer_[m.readerIndex_ + i] = (data \o c)[i]
  <2> TAKE i \in 1 .. readableBytes(m)
  <2>1. CASE i <= Len(data)
    BY <1>0, <1>2, <1>4, <1>6, <1>7, <2>1
  <2>2. CASE ~ (i <= Len(data))
    <3>1. /\ i - Len(data) \in 1 .. readableBytes(b)
          /\ k + i = b.readerIndex_ + (i - Len(data))
          /\ k + i \in (b.readerIndex_ + 1) .. b.writerIndex_
      BY <2>2, <1>0, <1>6
    <3> QED BY <1>1, <1>2, <1>4, <1>7, <2>2, <3>1
  <2> QED BY <2>1, <2>2
<1>9. Content(m) = data \o c
  BY <1>5, <1>7, <1>8, SameContent
<1> QED BY <1>2, <1>3, <1>5, <1>9 DEF m, c

\* readFd adds all bytes readv delivered at the back, those that went through
\* extrabuf after those that went into the vector.
LEMMA ReadFdCorrect ==
  ASSUME NEW b, WellFormed(b), NEW data \in Seq(Byte)
  PROVE  /\ WellFormed(readFd(b, data))
         /\ Content(readFd(b, data)) = Content(b) \o data
<1> DEFINE w == writableBytes(b)
           first == SubSeq(data, 1, w)
           rest == SubSeq(data, w + 1, Len(data))
           s == Store(b, first)
<1>0. w \in Nat /\ Len(data) \in Nat /\ \A i \in 1 .. Len(data) : data[i] \in Byte
  BY WellFormedFacts, LenProperties, ElementOfSeq
<1> HIDE DEF w
<1>1. CASE Len(data) <= w
  BY <1>1, StoreCorrect DEF readFd, w
<1>2. CASE ~ (Len(data) <= w)
  <2>1. /\ first \in Seq(Byte) /\ Len(first) = w
        /\ \A i \in 1 .. w : first[i] = data[i]
    <3>1. \A i \in 1 .. w : data[i] \in Byte
      BY <1>0, <1>2
    <3> QED BY <1>0, <3>1, SubSeqProperties
  <2>2. /\ rest \in Seq(Byte) /\ Len(rest) = Len(data) - w
        /\ \A i \in 1 .. (Len(data) - w) : rest[i] = data[w + i]
    <3>1. \A i \in (w + 1) .. Len(data) : data[i] \in Byte
      BY <1>0
    <3> QED BY <1>0, <1>2, <3>1, SubSeqProperties
  <2>3. first \o rest = data
    <3> HIDE DEF first, rest
    <3>1. first \o rest \in Seq(Byte) /\ Len(first \o rest) = Len(data)
      <4>1. Len(first) + Len(rest) = Len(data)
        BY <1>0, <2>1, <2>2
      <4> QED BY <2>1, <2>2, <4>1, ConcatProperties
    <3>2. \A i \in 1 .. Len(data) : (first \o rest)[i] = data[i]
      <4>1. \A i \in 1 .. Len(first) + Len(rest) : (first \o rest)[i] =
              IF i <= Len(first) THEN first[i] ELSE rest[i - Len(first)]
        BY <2>1, <2>2, ConcatProperties
      <4> TAKE i \in 1 .. Len(data)
      <4>2. (first \o rest)[i] = IF i <= w THEN first[i] ELSE rest[i - w]
        BY <1>0, <1>2, <2>1, <2>2, <4>1
      <4>3. CASE i <= w
        BY <1>0, <2>1, <4>2, <4>3
      <4>4. CASE ~ (i <= w)
        <5>1. i - w \in 1 .. (Len(data) - w) /\ w + (i - w) = i
          BY <1>0, <1>2, <4>4
        <5> QED BY <2>2, <4>2, <4>4, <5>1
      <4> QED BY <4>3, <4>4
    <3> QED BY <3>1, <3>2, SeqEqual
  <2> HIDE DEF first, rest
  <2>4. WellFormed(s) /\ Content(s) = Content(b) \o first
    BY <1>0, <2>1, StoreCorrect DEF w
  <2> HIDE DEF s
  <2>5. WellFormed(append(s, rest)) /\ Content(append(s, rest)) = Content(s) \o rest
    BY <2>2, <2>4, AppendCorrect
  <2>6. readFd(b, data) = append(s, rest)
    BY <1>2 DEF readFd, s, first, rest, w
  <2>7. Content(b) \in Seq(Byte)
    BY ContentProperties
  <2>8. (Content(b) \o first) \o rest = Content(b) \o (first \o rest)
    BY <2>1, <2>2, <2>7, ConcatAssociative, SMTT(60)
  <2> QED BY <2>3, <2>4, <2>5, <2>6, <2>8
<1> QED BY <1>1, <1>2

\* A new Buffer is well formed and empty.
LEMMA NewBufferCorrect == WellFormed(NewBuffer) /\ Content(NewBuffer) = << >>
<1> DEFINE n == kCheapPrepend + kInitialSize
           z == [i \in 1 .. n |-> 0]
<1>1. n \in Nat /\ kCheapPrepend \in Nat /\ kCheapPrepend <= n /\ 0 \in Byte
  BY BufferAssumption, ApiAssumption DEF Byte
<1> HIDE DEF n
<1>2. z \in Seq(Byte) /\ Len(z) = n
  BY <1>1
<1>3. NewBuffer = [buffer_ |-> z, readerIndex_ |-> kCheapPrepend,
                   writerIndex_ |-> kCheapPrepend]
  BY DEF NewBuffer, n
<1> HIDE DEF z
<1>4. WellFormed(NewBuffer)
  BY <1>1, <1>2, <1>3 DEF WellFormed, BufferType
<1>5. readableBytes(NewBuffer) = 0
  BY <1>1, <1>3 DEF readableBytes
<1>6. << >> \in Seq(Byte) /\ Len(<< >>) = 0 /\ 1 .. 0 = {}
  OBVIOUS
<1>7. Content(NewBuffer) = << >>
  BY <1>4, <1>5, <1>6, SameContent
<1> QED BY <1>4, <1>7

-----------------------------------------------------------------------------
(***************************************************************************)
(* Searching.                                                              *)
(***************************************************************************)

\* The first match is a match, and no match comes before it.
LEMMA FirstOfCorrect ==
  ASSUME NEW S \in SUBSET Nat, S # {}
  PROVE  FirstOf(S) \in S /\ \A o \in S : FirstOf(S) <= o
<1> DEFINE R == OpToRel(<, Nat)
<1>1. \E p \in S : \A o \in S : ~ (<<o, p>> \in R)
  <2> HIDE DEF R
  <2>1. IsWellFoundedOn(R, Nat)
    BY NatLessThanWellFounded DEF R
  <2> QED BY <2>1, WFMin
<1>2. \A o, p \in Nat : <<o, p>> \in R <=> o < p
  BY DEF OpToRel
<1> HIDE DEF R
<1>3. \E p \in S : \A o \in S : p <= o
  <2>1. PICK p \in S : \A o \in S : ~ (<<o, p>> \in R)
    BY <1>1
  <2>2. \A o \in S : o \in Nat /\ ~ (o < p)
    BY <1>2, <2>1
  <2>3. \A o \in S : p <= o
    BY <2>2
  <2> QED BY <2>3
<1> QED BY <1>3 DEF FirstOf

\* When a prefix ends with '\n', and when it ends with "\r\n".
LEMMA EndsWithMark ==
  ASSUME NEW c \in Seq(Byte), NEW n \in 1 .. Len(c)
  PROVE  /\ Queue!EndsWith(SubSeq(c, 1, n), <<EOL>>) <=> c[n] = EOL
         /\ Queue!EndsWith(SubSeq(c, 1, n), <<CR, EOL>>)
              <=> n >= 2 /\ c[n - 1] = CR /\ c[n] = EOL
<1> DEFINE s == SubSeq(c, 1, n)
<1>0. Len(c) \in Nat /\ n \in Nat /\ n >= 1
  BY LenProperties
<1>1. Len(s) = n /\ \A i \in 1 .. n : s[i] = c[i]
  <2>1. \A i \in 1 .. n : c[i] \in Byte
    BY <1>0, ElementOfSeq
  <2> QED BY <1>0, <2>1, SubSeqProperties
<1> HIDE DEF s
<1>2. Queue!EndsWith(s, <<EOL>>) <=> c[n] = EOL
  <2>1. Queue!EndsWith(s, <<EOL>>) <=>
          1 <= n /\ \A i \in 1 .. 1 : s[n - 1 + i] = <<EOL>>[i]
    BY <1>1 DEF Queue!EndsWith
  <2>2. (\A i \in 1 .. 1 : s[n - 1 + i] = <<EOL>>[i]) <=> s[n] = EOL
    BY <1>0
  <2> QED BY <1>0, <1>1, <2>1, <2>2
<1>3. Queue!EndsWith(s, <<CR, EOL>>) <=> n >= 2 /\ c[n - 1] = CR /\ c[n] = EOL
  <2> DEFINE mark == <<CR, EOL>>
  <2>1. Queue!EndsWith(s, mark) <=>
          2 <= n /\ \A i \in 1 .. 2 : s[n - 2 + i] = mark[i]
    BY <1>1 DEF Queue!EndsWith
  <2>2. \A i \in 1 .. 2 : i = 1 \/ i = 2
    OBVIOUS
  <2>3. (\A i \in 1 .. 2 : s[n - 2 + i] = mark[i])
          <=> s[n - 1] = CR /\ s[n] = EOL
    <3>1. n - 2 + 1 = n - 1 /\ n - 2 + 2 = n /\ mark[1] = CR /\ mark[2] = EOL
          /\ 1 \in 1 .. 2 /\ 2 \in 1 .. 2
      BY <1>0
    <3> HIDE DEF mark
    <3> QED BY <2>2, <3>1
  <2>4. n >= 2 => s[n - 1] = c[n - 1] /\ s[n] = c[n]
    BY <1>0, <1>1
  <2> HIDE DEF mark
  <2>5. QED BY <1>0, <2>1, <2>3, <2>4 DEF mark
<1> QED BY <1>2, <1>3 DEF s

\* findEOL() finds the end of the first line, and nothing else.
LEMMA FindEOLCorrect ==
  ASSUME NEW b, WellFormed(b), findEOL(b, b.readerIndex_) # NotFound
  PROVE  LET n == (findEOL(b, b.readerIndex_) + 1) - b.readerIndex_
         IN /\ n \in 1 .. readableBytes(b)
            /\ Queue!EndsWith(SubSeq(Content(b), 1, n), <<EOL>>)
            /\ \A m \in 1 .. (n - 1) :
                 ~ Queue!EndsWith(SubSeq(Content(b), 1, m), <<EOL>>)
<1> DEFINE r == b.readerIndex_
           k == readableBytes(b)
           S == {p \in r .. (r + k - 1) : p < Len(b.buffer_) /\ b.buffer_[p + 1] = EOL}
           e == findEOL(b, r)
           n == (e + 1) - r
           c == Content(b)
<1>0. /\ r \in Nat /\ k \in Nat /\ Len(b.buffer_) \in Nat /\ r + k <= Len(b.buffer_)
  BY WellFormedFacts
<1>1. c \in Seq(Byte) /\ Len(c) = k /\ \A i \in 1 .. k : c[i] = b.buffer_[r + i]
  BY ContentProperties
<1>2. e = FirstOf(S)
  BY DEF findEOL, memchr
<1>3. S # {}
  BY <1>2 DEF FirstOf
<1>4. S \subseteq Nat
  BY <1>0
<1> HIDE DEF k, r, e, c
<1>5. e \in S /\ \A o \in S : e <= o
  <2> HIDE DEF S
  <2> QED BY <1>2, <1>3, <1>4, FirstOfCorrect
<1>6. n \in 1 .. k /\ c[n] = EOL
  <2>1. e \in r .. (r + k - 1) /\ b.buffer_[e + 1] = EOL
    BY <1>5
  <2>2. n \in 1 .. k /\ r + n = e + 1
    BY <1>0, <2>1
  <2> QED BY <1>1, <2>1, <2>2
<1>7. \A m \in 1 .. (n - 1) : m \in 1 .. k /\ c[m] # EOL
  <2> TAKE m \in 1 .. (n - 1)
  <2>0. e \in Nat
    BY <1>4, <1>5
  <2>1. /\ m \in 1 .. k /\ r + m - 1 \in r .. (r + k - 1) /\ r + m - 1 < e
        /\ r + m - 1 < Len(b.buffer_) /\ r + m - 1 + 1 = r + m
    BY <1>0, <1>6, <2>0
  <2>2. r + m - 1 \notin S
    BY <1>0, <1>5, <2>0, <2>1
  <2> QED BY <1>1, <2>1, <2>2
<1> HIDE DEF n
<1>8. Queue!EndsWith(SubSeq(c, 1, n), <<EOL>>)
  BY <1>1, <1>6, EndsWithMark
<1>9. \A m \in 1 .. (n - 1) : ~ Queue!EndsWith(SubSeq(c, 1, m), <<EOL>>)
  <2> TAKE m \in 1 .. (n - 1)
  <2>1. m \in 1 .. Len(c) /\ c[m] # EOL
    BY <1>1, <1>7
  <2> QED BY <1>1, <2>1, EndsWithMark
<1> QED BY <1>6, <1>8, <1>9 DEF n, e, r, k, c

\* findCRLF() finds the end of the first line that ends with "\r\n".
LEMMA FindCRLFCorrect ==
  ASSUME NEW b, WellFormed(b), findCRLF(b, b.readerIndex_) # NotFound
  PROVE  LET n == (findCRLF(b, b.readerIndex_) + 2) - b.readerIndex_
         IN /\ n \in 1 .. readableBytes(b)
            /\ Queue!EndsWith(SubSeq(Content(b), 1, n), <<CR, EOL>>)
            /\ \A m \in 1 .. (n - 1) :
                 ~ Queue!EndsWith(SubSeq(Content(b), 1, m), <<CR, EOL>>)
<1> DEFINE r == b.readerIndex_
           k == readableBytes(b)
           S == {p \in r .. (b.writerIndex_ - 2) :
                   b.buffer_[p + 1] = CR /\ b.buffer_[p + 2] = EOL}
           e == findCRLF(b, r)
           n == (e + 2) - r
           c == Content(b)
<1>0. /\ r \in Nat /\ k \in Nat /\ b.writerIndex_ = r + k
  BY WellFormedFacts
<1>1. c \in Seq(Byte) /\ Len(c) = k /\ \A i \in 1 .. k : c[i] = b.buffer_[r + i]
  BY ContentProperties
<1>2. e = FirstOf(S)
  BY DEF findCRLF
<1>3. S # {}
  BY <1>2 DEF FirstOf
<1>4. S \subseteq Nat
  BY <1>0
<1> HIDE DEF k, r, e, c
<1>5. e \in S /\ \A o \in S : e <= o
  <2> HIDE DEF S
  <2> QED BY <1>2, <1>3, <1>4, FirstOfCorrect
<1>6. n \in 1 .. k /\ n >= 2 /\ c[n - 1] = CR /\ c[n] = EOL
  <2>1. e \in r .. (r + k - 2) /\ b.buffer_[e + 1] = CR /\ b.buffer_[e + 2] = EOL
    BY <1>0, <1>5
  <2>2. n \in 1 .. k /\ n >= 2 /\ n - 1 \in 1 .. k
        /\ r + n = e + 2 /\ r + (n - 1) = e + 1
    BY <1>0, <2>1
  <2> QED BY <1>1, <2>1, <2>2
<1>7. \A m \in 1 .. (n - 1) :
        m \in 1 .. k /\ ~ (m >= 2 /\ c[m - 1] = CR /\ c[m] = EOL)
  <2> TAKE m \in 1 .. (n - 1)
  <2>0. e \in Nat /\ m \in 1 .. k
    BY <1>0, <1>4, <1>5, <1>6
  <2>1. CASE m >= 2
    <3>1. /\ r + m - 2 \in r .. (r + k - 2) /\ r + m - 2 < e /\ m - 1 \in 1 .. k
          /\ (r + m - 2) + 1 = r + (m - 1) /\ (r + m - 2) + 2 = r + m
      BY <1>0, <1>6, <2>0, <2>1
    <3>2. r + m - 2 \notin S
      BY <1>0, <1>5, <2>0, <3>1
    <3>3. ~ (b.buffer_[r + (m - 1)] = CR /\ b.buffer_[r + m] = EOL)
      BY <1>0, <3>1, <3>2
    <3> QED BY <1>1, <2>0, <3>1, <3>3
  <2> QED BY <2>0, <2>1
<1> HIDE DEF n
<1>8. Queue!EndsWith(SubSeq(c, 1, n), <<CR, EOL>>)
  BY <1>1, <1>6, EndsWithMark
<1>9. \A m \in 1 .. (n - 1) : ~ Queue!EndsWith(SubSeq(c, 1, m), <<CR, EOL>>)
  <2> TAKE m \in 1 .. (n - 1)
  <2>1. m \in 1 .. Len(c) /\ ~ (m >= 2 /\ c[m - 1] = CR /\ c[m] = EOL)
    BY <1>1, <1>7
  <2> QED BY <1>1, <2>1, EndsWithMark
<1> QED BY <1>6, <1>8, <1>9 DEF n, e, r, k, c

-----------------------------------------------------------------------------
(***************************************************************************)
(* Steps.  Every action gives one object a well-formed value (Become), or  *)
(* swaps two, and is a step of the byte queue on the readable bytes.       *)
(***************************************************************************)

\* The value the refinement mapping gives to q.
Contents == [b \in Buffers |-> Content(buf[b])]

\* Giving one object a well-formed value keeps the invariant and changes the
\* readable bytes of that object only.
LEMMA BecomeStep ==
  ASSUME IndicesOK, NEW b \in Buffers, NEW new, NEW c, WellFormed(new),
         Become(b, new, c)
  PROVE  /\ IndicesOK'
         /\ Contents' = [Contents EXCEPT ![b] = Content(new)]
         /\ call' = c
<1>1. buf' = [buf EXCEPT ![b] = new] /\ call' = c
  BY DEF Become
<1>2. buf \in [Buffers -> BufferType] /\ new \in BufferType
  BY DEF IndicesOK, WellFormed
<1>3. \A x \in Buffers : buf'[x] = IF x = b THEN new ELSE buf[x]
  BY <1>1, <1>2
<1>4. buf' \in [Buffers -> BufferType]
  BY <1>1, <1>2
<1>5. \A x \in Buffers : WellFormed(buf'[x])
  BY <1>3 DEF IndicesOK
<1>6. Contents' = [Contents EXCEPT ![b] = Content(new)]
  BY <1>3 DEF Contents
<1> QED BY <1>1, <1>4, <1>5, <1>6 DEF IndicesOK

\* What is known of the object an action works on.
LEMMA ObjectFacts ==
  ASSUME IndicesOK, NEW b \in Buffers
  PROVE  /\ WellFormed(buf[b])
         /\ Contents[b] = Content(buf[b])
         /\ Len(Contents[b]) = readableBytes(buf[b])
         /\ readableBytes(buf[b]) \in Nat
<1>1. WellFormed(buf[b])
  BY DEF IndicesOK
<1> QED BY <1>1, ContentProperties, WellFormedFacts DEF Contents

\* The queue and the Buffer speak of the same calls, bytes and integers.
LEMMA SameApi ==
  /\ Queue!Data = Data
  /\ Queue!Widths = Widths
  /\ \A n \in Widths : Queue!IntN(n) = IntN(n)
  /\ \A op, b, d, n, x : Queue!Call(op, b, d, n, x) = Call(op, b, d, n, x)
  /\ \A n, x : Queue!ToNetwork(n, x) = ToNetwork(n, x)
  /\ \A n, s : Queue!FromNetwork(n, s) = FromNetwork(n, s)
<1>1. Queue!Data = Data
  BY DEF Queue!Data, Data, Queue!Byte, Byte
<1>2. Queue!Widths = Widths
  BY DEF Queue!Widths, Widths
<1>3. \A n : Queue!Modulus(n) = Modulus(n)
  BY Zenon DEF Queue!Modulus, Modulus
<1>4. \A n : Queue!IntN(n) = IntN(n)
  BY <1>3, Zenon DEF Queue!IntN, IntN
<1>5. \A op, b, d, n, x : Queue!Call(op, b, d, n, x) = Call(op, b, d, n, x)
  BY DEF Queue!Call, Call
<1>6. \A n, x : Queue!ToNetwork(n, x) = ToNetwork(n, x)
  BY Zenon DEF Queue!ToNetwork, ToNetwork, Queue!Modulus, Modulus
<1>7. \A n, s : Queue!FromNetwork(n, s) = FromNetwork(n, s)
  BY Zenon DEF Queue!FromNetwork, FromNetwork, Queue!Modulus, Modulus
<1> QED BY <1>1, <1>2, <1>4, <1>5, <1>6, <1>7

\* Every step of the Buffer keeps the indices in order, and is a step of the
\* byte queue.
LEMMA NextRefines ==
  ASSUME IndicesOK, Next
  PROVE  IndicesOK' /\ Queue!Next
<1>1. ASSUME NEW b \in Buffers, NEW data \in Data, AppendBytes(b, data)
      PROVE  IndicesOK' /\ Queue!PutBack("append", b, data, 0)
  <2>1. WellFormed(append(buf[b], data)) /\ Content(append(buf[b], data)) = Contents[b] \o data
    BY DataType, ObjectFacts, AppendCorrect
  <2>2. /\ IndicesOK' /\ Contents' = [Contents EXCEPT ![b] = Contents[b] \o data]
        /\ call' = Call("append", b, data, 0, 0)
    BY <1>1, <2>1, BecomeStep DEF AppendBytes
  <2> QED BY <2>2, SameApi DEF Queue!PutBack, Contents
<1>2. ASSUME NEW b \in Buffers, NEW data \in Data, HasWritten(b, data)
      PROVE  IndicesOK' /\ Queue!PutBack("hasWritten", b, data, 0)
  <2>1. WellFormed(Store(buf[b], data)) /\ Content(Store(buf[b], data)) = Contents[b] \o data
    BY <1>2, DataType, ObjectFacts, StoreCorrect DEF HasWritten
  <2>2. /\ IndicesOK' /\ Contents' = [Contents EXCEPT ![b] = Contents[b] \o data]
        /\ call' = Call("hasWritten", b, data, 0, 0)
    BY <1>2, <2>1, BecomeStep DEF HasWritten
  <2> QED BY <2>2, SameApi DEF Queue!PutBack, Contents
<1>3. ASSUME NEW b \in Buffers, NEW data \in Data, ReadFd(b, data)
      PROVE  IndicesOK' /\ Queue!PutBack("readFd", b, data, Len(data))
  <2>1. WellFormed(readFd(buf[b], data)) /\ Content(readFd(buf[b], data)) = Contents[b] \o data
    BY DataType, ObjectFacts, ReadFdCorrect
  <2>2. /\ IndicesOK' /\ Contents' = [Contents EXCEPT ![b] = Contents[b] \o data]
        /\ call' = Call("readFd", b, data, 0, Len(data))
    BY <1>3, <2>1, BecomeStep DEF ReadFd
  <2> QED BY <2>2, SameApi DEF Queue!PutBack, Contents
<1>4. ASSUME NEW b \in Buffers, ReadFdFails(b)
      PROVE  IndicesOK' /\ Queue!PutBack("readFd", b, << >>, -1)
  <2>1. WellFormed(buf[b]) /\ Content(buf[b]) = Contents[b] \o << >>
    BY ObjectFacts, ContentProperties, ConcatEmptySeq
  <2>2. /\ IndicesOK' /\ Contents' = [Contents EXCEPT ![b] = Contents[b] \o << >>]
        /\ call' = Call("readFd", b, << >>, 0, -1)
    BY <1>4, <2>1, BecomeStep DEF ReadFdFails
  <2> QED BY <2>2, SameApi DEF Queue!PutBack, Contents
<1>5. ASSUME NEW b \in Buffers, NEW data \in Data, Prepend(b, data)
      PROVE  IndicesOK' /\ Queue!PutFront("prepend", b, data, 0)
  <2>1. WellFormed(prepend(buf[b], data)) /\ Content(prepend(buf[b], data)) = data \o Contents[b]
    BY <1>5, DataType, ObjectFacts, PrependCorrect DEF Prepend
  <2>2. /\ IndicesOK' /\ Contents' = [Contents EXCEPT ![b] = data \o Contents[b]]
        /\ call' = Call("prepend", b, data, 0, 0)
    BY <1>5, <2>1, BecomeStep DEF Prepend
  <2> QED BY <2>2, SameApi DEF Queue!PutFront, Contents
<1>6. ASSUME NEW b \in Buffers, NEW n \in Widths, NEW x \in IntN(n), AppendInt(b, n, x)
      PROVE  IndicesOK' /\ Queue!PutBack("appendInt", b, Queue!ToNetwork(n, x), x)
  <2>1. WellFormed(append(buf[b], ToNetwork(n, x))) /\ Content(append(buf[b], ToNetwork(n, x))) = Contents[b] \o ToNetwork(n, x)
    BY ToNetworkType, ObjectFacts, AppendCorrect
  <2>2. /\ IndicesOK' /\ Contents' = [Contents EXCEPT ![b] = Contents[b] \o ToNetwork(n, x)]
        /\ call' = Call("appendInt", b, ToNetwork(n, x), 0, x)
    BY <1>6, <2>1, BecomeStep DEF AppendInt
  <2> QED BY <2>2, SameApi DEF Queue!PutBack, Contents
<1>7. ASSUME NEW b \in Buffers, NEW n \in Widths, NEW x \in IntN(n), PrependInt(b, n, x)
      PROVE  IndicesOK' /\ Queue!PutFront("prependInt", b, Queue!ToNetwork(n, x), x)
  <2>1. WellFormed(prepend(buf[b], ToNetwork(n, x))) /\ Content(prepend(buf[b], ToNetwork(n, x))) = ToNetwork(n, x) \o Contents[b]
    BY <1>7, ToNetworkType, ObjectFacts, PrependCorrect DEF PrependInt
  <2>2. /\ IndicesOK' /\ Contents' = [Contents EXCEPT ![b] = ToNetwork(n, x) \o Contents[b]]
        /\ call' = Call("prependInt", b, ToNetwork(n, x), 0, x)
    BY <1>7, <2>1, BecomeStep DEF PrependInt, prependInt
  <2> QED BY <2>2, SameApi DEF Queue!PutFront, Contents
<1>8. ASSUME NEW b \in Buffers, NEW len \in 0 .. readableBytes(buf[b]), Retrieve(b, len)
      PROVE  IndicesOK' /\ Queue!Take("retrieve", b, len)
  <2>0. len \in Nat /\ len <= readableBytes(buf[b])
    BY ObjectFacts
  <2>1. WellFormed(retrieve(buf[b], len)) /\ Content(retrieve(buf[b], len)) = Queue!Drop(Contents[b], len)
    BY <2>0, ObjectFacts, RetrieveCorrect
  <2>2. /\ IndicesOK' /\ Contents' = [Contents EXCEPT ![b] = Queue!Drop(Contents[b], len)]
        /\ call' = Call("retrieve", b, << >>, len, 0)
    BY <1>8, <2>1, BecomeStep DEF Retrieve
  <2> QED BY <2>2, SameApi, <2>0, ObjectFacts DEF Queue!Take, Contents
<1>9. ASSUME NEW b \in Buffers, NEW len \in 0 .. readableBytes(buf[b]), RetrieveAsString(b, len)
      PROVE  IndicesOK' /\ Queue!TakeString(b, len)
  <2>0. len \in Nat /\ len <= readableBytes(buf[b])
    BY ObjectFacts
  <2>1. WellFormed(retrieve(buf[b], len)) /\ Content(retrieve(buf[b], len)) = Queue!Drop(Contents[b], len)
    BY <2>0, ObjectFacts, RetrieveCorrect
  <2>2. /\ IndicesOK' /\ Contents' = [Contents EXCEPT ![b] = Queue!Drop(Contents[b], len)]
        /\ call' = Call("retrieveAsString", b, SubSeq(Content(buf[b]), 1, len), len, 0)
    BY <1>9, <2>1, BecomeStep DEF RetrieveAsString
  <2> QED BY <2>2, SameApi, <2>0, ObjectFacts DEF Queue!TakeString, Contents
<1>10. ASSUME NEW b \in Buffers, NEW len \in 0 .. readableBytes(buf[b]), Unwrite(b, len)
      PROVE  IndicesOK' /\ Queue!TakeBack(b, len)
  <2>0. len \in Nat /\ len <= readableBytes(buf[b])
    BY ObjectFacts
  <2>1. WellFormed(unwrite(buf[b], len)) /\ Content(unwrite(buf[b], len)) = SubSeq(Contents[b], 1, Len(Contents[b]) - len)
    BY <2>0, ObjectFacts, UnwriteCorrect
  <2>2. /\ IndicesOK' /\ Contents' = [Contents EXCEPT ![b] = SubSeq(Contents[b], 1, Len(Contents[b]) - len)]
        /\ call' = Call("unwrite", b, << >>, len, 0)
    BY <1>10, <2>1, BecomeStep DEF Unwrite
  <2> QED BY <2>2, SameApi, <2>0, ObjectFacts DEF Queue!TakeBack, Contents
<1>11. ASSUME NEW b \in Buffers, RetrieveAll(b)
      PROVE  IndicesOK' /\ Queue!Take("retrieveAll", b, Len(Contents[b]))
  <2>1. WellFormed(retrieveAll(buf[b])) /\ Content(retrieveAll(buf[b])) = Queue!Drop(Contents[b], readableBytes(buf[b]))
    BY ObjectFacts, RetrieveCorrect, RetrieveAllIsRetrieve
  <2>2. /\ IndicesOK' /\ Contents' = [Contents EXCEPT ![b] = Queue!Drop(Contents[b], readableBytes(buf[b]))]
        /\ call' = Call("retrieveAll", b, << >>, readableBytes(buf[b]), 0)
    BY <1>11, <2>1, BecomeStep DEF RetrieveAll
  <2>3. Len(Contents[b]) = readableBytes(buf[b]) /\ Len(Contents[b]) <= Len(Contents[b])
    BY ObjectFacts
  <2> QED BY <2>2, <2>3, SameApi DEF Queue!Take, Contents
<1>12. ASSUME NEW b \in Buffers, NEW n \in Widths, ReadInt(b, n)
      PROVE  IndicesOK' /\ Queue!TakeInt(b, n)
  <2>0. n \in Nat /\ n <= readableBytes(buf[b])
    BY <1>12 DEF ReadInt, Widths
  <2>1. WellFormed(retrieve(buf[b], n)) /\ Content(retrieve(buf[b], n)) = Queue!Drop(Contents[b], n)
    BY <2>0, ObjectFacts, RetrieveCorrect
  <2>2. /\ IndicesOK' /\ Contents' = [Contents EXCEPT ![b] = Queue!Drop(Contents[b], n)]
        /\ call' = Call("readInt", b, << >>, n, FromNetwork(n, Content(buf[b])))
    BY <1>12, <2>1, BecomeStep DEF ReadInt, peekInt
  <2> QED BY <2>2, SameApi, <2>0, ObjectFacts DEF Queue!TakeInt, Contents
<1>13. ASSUME NEW b \in Buffers, NEW len \in 0 .. MaxLen, EnsureWritableBytes(b, len)
      PROVE  IndicesOK' /\ Queue!Reserve(b, len)
  <2>0. len \in Nat
    BY ApiAssumption
  <2>1. WellFormed(ensureWritableBytes(buf[b], len)) /\ Content(ensureWritableBytes(buf[b], len)) = Contents[b]
    BY <2>0, ObjectFacts, EnsureCorrect
  <2>2. /\ IndicesOK' /\ Contents' = [Contents EXCEPT ![b] = Contents[b]]
        /\ call' = Call("ensureWritableBytes", b, << >>, len, 0)
    BY <1>13, <2>1, BecomeStep DEF EnsureWritableBytes
  <2> QED BY <2>2, SameApi DEF Queue!Reserve, Contents
<1>14. ASSUME NEW b \in Buffers, RetrieveLine(b)
      PROVE  IndicesOK' /\ Queue!TakeLine(b, <<EOL>>)
  <2> DEFINE e == findEOL(buf[b], buf[b].readerIndex_)
             n == (e + 1) - buf[b].readerIndex_
             m == retrieve(buf[b], n)
  <2>0. e # NotFound /\ Become(b, m, Call("retrieveUntil", b, << >>, n, 0))
    BY <1>14 DEF RetrieveLine, retrieveUntil
  <2>1. /\ n \in 1 .. readableBytes(buf[b])
        /\ Queue!EndsWith(SubSeq(Contents[b], 1, n), <<EOL>>)
        /\ \A k \in 1 .. (n - 1) :
             ~ Queue!EndsWith(SubSeq(Contents[b], 1, k), <<EOL>>)
    BY <2>0, ObjectFacts, FindEOLCorrect
  <2> HIDE DEF e, n
  <2>2. n \in Nat /\ n <= readableBytes(buf[b])
    BY <2>1, ObjectFacts
  <2>3. WellFormed(m) /\ Content(m) = Queue!Drop(Contents[b], n)
    BY <2>2, ObjectFacts, RetrieveCorrect
  <2> HIDE DEF m
  <2>4. /\ IndicesOK' /\ Contents' = [Contents EXCEPT ![b] = Queue!Drop(Contents[b], n)]
        /\ call' = Call("retrieveUntil", b, << >>, n, 0)
    BY <2>0, <2>3, BecomeStep
  <2>5. Queue!Take("retrieveUntil", b, n)
    BY <2>2, <2>4, SameApi, ObjectFacts DEF Queue!Take, Contents
  <2> QED BY <2>1, <2>4, <2>5, ObjectFacts DEF Queue!TakeLine, Contents
<1>15. ASSUME NEW b \in Buffers, RetrieveCRLF(b)
      PROVE  IndicesOK' /\ Queue!TakeLine(b, <<CR, EOL>>)
  <2> DEFINE e == findCRLF(buf[b], buf[b].readerIndex_)
             n == (e + 2) - buf[b].readerIndex_
             m == retrieve(buf[b], n)
  <2>0. e # NotFound /\ Become(b, m, Call("retrieveUntil", b, << >>, n, 0))
    BY <1>15 DEF RetrieveCRLF, retrieveUntil
  <2>1. /\ n \in 1 .. readableBytes(buf[b])
        /\ Queue!EndsWith(SubSeq(Contents[b], 1, n), <<CR, EOL>>)
        /\ \A k \in 1 .. (n - 1) :
             ~ Queue!EndsWith(SubSeq(Contents[b], 1, k), <<CR, EOL>>)
    BY <2>0, ObjectFacts, FindCRLFCorrect
  <2> HIDE DEF e, n
  <2>2. n \in Nat /\ n <= readableBytes(buf[b])
    BY <2>1, ObjectFacts
  <2>3. WellFormed(m) /\ Content(m) = Queue!Drop(Contents[b], n)
    BY <2>2, ObjectFacts, RetrieveCorrect
  <2> HIDE DEF m
  <2>4. /\ IndicesOK' /\ Contents' = [Contents EXCEPT ![b] = Queue!Drop(Contents[b], n)]
        /\ call' = Call("retrieveUntil", b, << >>, n, 0)
    BY <2>0, <2>3, BecomeStep
  <2>5. Queue!Take("retrieveUntil", b, n)
    BY <2>2, <2>4, SameApi, ObjectFacts DEF Queue!Take, Contents
  <2> QED BY <2>1, <2>4, <2>5, ObjectFacts DEF Queue!TakeLine, Contents
<1>16. ASSUME NEW b \in Buffers, NEW c \in Buffers, Swap(b, c)
      PROVE  IndicesOK' /\ Queue!Exchange(b, c)
  <2>1. buf \in [Buffers -> BufferType] /\ \A x \in Buffers : WellFormed(buf[x])
    BY DEF IndicesOK
  <2>2. /\ buf' = [buf EXCEPT ![b] = buf[c], ![c] = buf[b]]
        /\ call' = Call("swap", b, << >>, 0, 0)
    BY <1>16 DEF Swap
  <2>3. /\ buf' \in [Buffers -> BufferType]
        /\ \A x \in Buffers : buf'[x] = IF x = c THEN buf[b]
                                         ELSE IF x = b THEN buf[c] ELSE buf[x]
    BY <2>1, <2>2
  <2>4. IndicesOK'
    BY <2>1, <2>3 DEF IndicesOK
  <2>5. Contents' = [Contents EXCEPT ![b] = Contents[c], ![c] = Contents[b]]
    BY <2>3 DEF Contents
  <2> QED BY <2>2, <2>4, <2>5, SameApi DEF Queue!Exchange, Contents
<1> QED
  BY <1>1, <1>2, <1>3, <1>4, <1>5, <1>6, <1>7, <1>8, <1>9, <1>10, <1>11, <1>12,
     <1>13, <1>14, <1>15, <1>16, SameApi, ObjectFacts DEF Next, Queue!Next, Contents

-----------------------------------------------------------------------------
(***************************************************************************)
(* How far a call makes the vector grow.                                   *)
(***************************************************************************)

\* ensureWritableBytes grows the vector only when the space in front of the
\* readable bytes is less than what it must provide.
LEMMA EnsureGrowth ==
  ASSUME NEW b, WellFormed(b), NEW len \in Nat,
         Len(ensureWritableBytes(b, len).buffer_) > Len(b.buffer_)
  PROVE  Len(ensureWritableBytes(b, len).buffer_) <
           readableBytes(b) + 2 * len + kCheapPrepend
<1> DEFINE m == ensureWritableBytes(b, len)
<1>1. /\ b.buffer_ \in Seq(Byte) /\ Len(b.buffer_) \in Nat
      /\ b.readerIndex_ \in Nat /\ b.writerIndex_ \in Nat /\ kCheapPrepend \in Nat
      /\ b.readerIndex_ <= b.writerIndex_ /\ b.writerIndex_ <= Len(b.buffer_)
  BY WellFormedFacts
<1>2. CASE ~ writableBytes(b) < len
  BY <1>1, <1>2 DEF ensureWritableBytes
<1>3. CASE writableBytes(b) < len /\ MustGrow(b, len)
  <2>1. m = Grow(b, len)
    BY <1>3 DEF ensureWritableBytes, makeSpace
  <2>2. m.buffer_ = Resize(b.buffer_, b.writerIndex_ + len)
    BY <2>1 DEF Grow, WellFormed, BufferType
  <2>3. Len(m.buffer_) = b.writerIndex_ + len
    <3>1. b.writerIndex_ + len \in Nat
      BY <1>1
    <3> QED BY <1>1, <2>2, <3>1, ResizeType
  <2>4. b.readerIndex_ < len + kCheapPrepend
    BY <1>1, <1>3 DEF MustGrow, writableBytes, prependableBytes
  <2> QED BY <1>1, <2>3, <2>4 DEF readableBytes
<1>4. CASE writableBytes(b) < len /\ ~ MustGrow(b, len)
  <2>1. m.buffer_ = CopyTo(b.buffer_, kCheapPrepend, Content(b))
    BY <1>4 DEF ensureWritableBytes, makeSpace, MoveToFront
  <2>2. Len(m.buffer_) = Len(b.buffer_)
    BY <1>1, <2>1, ContentProperties, CopyToType
  <2> QED BY <1>1, <2>2
<1> QED BY <1>2, <1>3, <1>4

\* Storing at beginWrite() never changes the size of the vector.
LEMMA StoreGrowth ==
  ASSUME NEW b, WellFormed(b), NEW data \in Seq(Byte)
  PROVE  Len(Store(b, data).buffer_) = Len(b.buffer_)
<1>1. b.buffer_ \in Seq(Byte) /\ b.writerIndex_ \in Int
  BY WellFormedFacts
<1>2. Store(b, data).buffer_ = CopyTo(b.buffer_, b.writerIndex_, data)
  BY DEF Store, WellFormed, BufferType
<1> QED BY <1>1, <1>2, CopyToType

LEMMA AppendGrowth ==
  ASSUME NEW b, WellFormed(b), NEW data \in Seq(Byte),
         Len(append(b, data).buffer_) > Len(b.buffer_)
  PROVE  Len(append(b, data).buffer_) <
           readableBytes(append(b, data)) + Len(data) + kCheapPrepend
<1> DEFINE m == ensureWritableBytes(b, Len(data))
           a == append(b, data)
<1>1. Len(data) \in Nat /\ kCheapPrepend \in Nat /\ readableBytes(b) \in Nat
  BY LenProperties, WellFormedFacts
<1>2. WellFormed(m)
  BY <1>1, EnsureCorrect
<1>3. a = Store(m, data)
  BY DEF append
<1>4. Len(a.buffer_) = Len(m.buffer_)
  <2> HIDE DEF m, a
  <2> QED BY <1>2, <1>3, StoreGrowth
<1>5. Len(m.buffer_) < readableBytes(b) + 2 * Len(data) + kCheapPrepend
  BY <1>1, <1>4, EnsureGrowth
<1>6. readableBytes(a) = readableBytes(b) + Len(data)
  <2>1. WellFormed(a) /\ Content(a) = Content(b) \o data
    BY AppendCorrect
  <2>2. Content(b) \in Seq(Byte) /\ Len(Content(b)) = readableBytes(b)
    BY ContentProperties
  <2>3. Len(Content(a)) = readableBytes(a)
    BY <2>1, ContentProperties
  <2> HIDE DEF a
  <2> QED BY <2>1, <2>2, <2>3
<1>7. Len(m.buffer_) \in Nat
  BY <1>2, WellFormedFacts
<1> QED
  <2> HIDE DEF m, a
  <2> QED BY <1>1, <1>4, <1>5, <1>6, <1>7 DEF a

\* Only what did not fit into the vector makes readFd grow it.
LEMMA ReadFdGrowth ==
  ASSUME NEW b, WellFormed(b), NEW data \in Seq(Byte),
         Len(readFd(b, data).buffer_) > Len(b.buffer_)
  PROVE  Len(readFd(b, data).buffer_) <
           readableBytes(readFd(b, data)) + Len(data) + kCheapPrepend
<1> DEFINE w == writableBytes(b)
           first == SubSeq(data, 1, w)
           rest == SubSeq(data, w + 1, Len(data))
           s == Store(b, first)
           a == append(s, rest)
<1>1. w \in Nat /\ Len(data) \in Nat /\ kCheapPrepend \in Nat /\ Len(b.buffer_) \in Nat
  BY WellFormedFacts, LenProperties
<1>2. CASE Len(data) <= w
  <2>1. readFd(b, data) = Store(b, data)
    BY <1>2 DEF readFd
  <2> QED BY <1>1, <2>1, StoreGrowth
<1>3. CASE ~ Len(data) <= w
  <2>1. readFd(b, data) = a
    BY <1>3 DEF readFd
  <2>2. /\ first \in Seq(Byte) /\ Len(first) = w
        /\ rest \in Seq(Byte) /\ Len(rest) = Len(data) - w
    BY <1>1, <1>3
  <2> HIDE DEF first, rest
  <2>3. WellFormed(s) /\ Len(s.buffer_) = Len(b.buffer_)
    BY <1>1, <2>2, StoreCorrect, StoreGrowth
  <2>4. WellFormed(a)
    BY <2>2, <2>3, AppendCorrect
  <2>5. Len(a.buffer_) > Len(s.buffer_)
    BY <2>1, <2>3
  <2> HIDE DEF s
  <2>6. Len(a.buffer_) < readableBytes(a) + Len(rest) + kCheapPrepend
    BY <2>2, <2>3, <2>5, AppendGrowth
  <2>7. Len(a.buffer_) \in Nat /\ readableBytes(a) \in Nat
    BY <2>4, WellFormedFacts
  <2> HIDE DEF a, w
  <2>8. Len(a.buffer_) < readableBytes(a) + Len(data) + kCheapPrepend
    BY <1>1, <2>2, <2>6, <2>7
  <2> QED BY <2>1, <2>8
<1> QED BY <1>2, <1>3

\* What GrowthIsProportional says of one step.
ProportionalStep ==
  \A b \in Buffers :
    call'.op # "swap" /\ Len(buf'[b].buffer_) > Len(buf[b].buffer_)
      => Len(buf'[b].buffer_) <
           readableBytes(buf'[b]) + Len(call'.data) + 2 * call'.len + kCheapPrepend

LEMMA BecomeGrowth ==
  ASSUME IndicesOK, NEW b \in Buffers, NEW new,
         NEW op, NEW obj, NEW data, NEW len, NEW val,
         Become(b, new, Call(op, obj, data, len, val)),
         Len(new.buffer_) > Len(buf[b].buffer_) =>
           Len(new.buffer_) < readableBytes(new) + Len(data) + 2 * len + kCheapPrepend
  PROVE  ProportionalStep
<1>1. buf' = [buf EXCEPT ![b] = new] /\ call'.data = data /\ call'.len = len
  BY DEF Become, Call
<1>2. buf \in [Buffers -> BufferType]
  BY DEF IndicesOK
<1>3. \A x \in Buffers : buf'[x] = IF x = b THEN new ELSE buf[x]
  BY <1>1, <1>2
<1>4. \A x \in Buffers : ~ Len(buf[x].buffer_) > Len(buf[x].buffer_)
  <2>1. \A x \in Buffers : Len(buf[x].buffer_) \in Nat
    BY WellFormedFacts DEF IndicesOK
  <2>2. \A k \in Nat : ~ k > k
    OBVIOUS
  <2> QED BY <2>1, <2>2, Zenon
<1> QED BY <1>1, <1>3, <1>4 DEF ProportionalStep

\* A call that keeps the size of the vector.
LEMMA KeepsSize ==
  ASSUME IndicesOK, NEW b \in Buffers, NEW new,
         NEW op, NEW obj, NEW data, NEW len, NEW val,
         Become(b, new, Call(op, obj, data, len, val)),
         Len(new.buffer_) = Len(buf[b].buffer_)
  PROVE  ProportionalStep
<1>1. Len(buf[b].buffer_) \in Nat
  BY WellFormedFacts DEF IndicesOK
<1>2. ~ Len(new.buffer_) > Len(buf[b].buffer_)
  BY <1>1
<1> QED BY <1>2, BecomeGrowth

\* A call that took n bytes from the front.
LEMMA RetrieveKeepsSize ==
  ASSUME IndicesOK, NEW b \in Buffers, NEW n \in Nat, n <= readableBytes(buf[b]),
         NEW op, NEW obj, NEW data, NEW len, NEW val,
         Become(b, retrieve(buf[b], n), Call(op, obj, data, len, val))
  PROVE  ProportionalStep
<1>1. retrieve(buf[b], n).buffer_ = buf[b].buffer_
  BY ObjectFacts, RetrieveCorrect
<1> QED BY <1>1, KeepsSize

LEMMA NextGrowth ==
  ASSUME IndicesOK, Next
  PROVE  ProportionalStep
<1>1. ASSUME NEW b \in Buffers, NEW data \in Seq(Byte), NEW op, NEW val,
             Become(b, append(buf[b], data), Call(op, b, data, 0, val))
      PROVE  ProportionalStep
  <2>1. Len(append(buf[b], data).buffer_) > Len(buf[b].buffer_) =>
          Len(append(buf[b], data).buffer_) <
            readableBytes(append(buf[b], data)) + Len(data) + kCheapPrepend
    BY ObjectFacts, AppendGrowth
  <2>2. Len(data) \in Nat /\ readableBytes(append(buf[b], data)) \in Nat /\ kCheapPrepend \in Nat
    BY LenProperties, ObjectFacts, AppendCorrect, WellFormedFacts
  <2>3. Len(append(buf[b], data).buffer_) > Len(buf[b].buffer_) =>
          Len(append(buf[b], data).buffer_) <
            readableBytes(append(buf[b], data)) + Len(data) + 2 * 0 + kCheapPrepend
    BY <2>1, <2>2
  <2> QED BY <1>1, <2>3, BecomeGrowth
<1>2. ASSUME NEW b \in Buffers, NEW data \in Data, AppendBytes(b, data)
      PROVE  ProportionalStep
  BY <1>1, <1>2, DataType DEF AppendBytes
<1>3. ASSUME NEW b \in Buffers, NEW n \in Widths, NEW x \in IntN(n), AppendInt(b, n, x)
      PROVE  ProportionalStep
  BY <1>1, <1>3, ToNetworkType DEF AppendInt
<1>4. ASSUME NEW b \in Buffers, NEW data \in Data, HasWritten(b, data)
      PROVE  ProportionalStep
  <2>1. Len(Store(buf[b], data).buffer_) = Len(buf[b].buffer_)
    BY DataType, ObjectFacts, StoreGrowth
  <2> QED BY <1>4, <2>1, KeepsSize DEF HasWritten
<1>5. ASSUME NEW b \in Buffers, NEW data \in Data, ReadFd(b, data)
      PROVE  ProportionalStep
  <2>1. data \in Seq(Byte)
    BY DataType
  <2>2. Len(readFd(buf[b], data).buffer_) > Len(buf[b].buffer_) =>
          Len(readFd(buf[b], data).buffer_) <
            readableBytes(readFd(buf[b], data)) + Len(data) + kCheapPrepend
    BY <2>1, ObjectFacts, ReadFdGrowth
  <2>3. Len(data) \in Nat /\ readableBytes(readFd(buf[b], data)) \in Nat /\ kCheapPrepend \in Nat
    BY <2>1, LenProperties, ObjectFacts, ReadFdCorrect, WellFormedFacts
  <2>4. Len(readFd(buf[b], data).buffer_) > Len(buf[b].buffer_) =>
          Len(readFd(buf[b], data).buffer_) <
            readableBytes(readFd(buf[b], data)) + Len(data) + 2 * 0 + kCheapPrepend
    BY <2>2, <2>3
  <2>5. Become(b, readFd(buf[b], data), Call("readFd", b, data, 0, Len(data)))
    BY <1>5 DEF ReadFd
  <2> QED BY <2>4, <2>5, BecomeGrowth
<1>6. ASSUME NEW b \in Buffers, ReadFdFails(b)
      PROVE  ProportionalStep
  BY <1>6, KeepsSize DEF ReadFdFails
<1>7. ASSUME NEW b \in Buffers, NEW data \in Seq(Byte), NEW op, NEW val,
             Len(data) <= prependableBytes(buf[b]),
             Become(b, prepend(buf[b], data), Call(op, b, data, 0, val))
      PROVE  ProportionalStep
  <2>1. Len(prepend(buf[b], data).buffer_) = Len(buf[b].buffer_)
    BY <1>7, ObjectFacts, PrependCorrect
  <2> QED BY <1>7, <2>1, KeepsSize
<1>8. ASSUME NEW b \in Buffers, NEW data \in Data, Prepend(b, data)
      PROVE  ProportionalStep
  BY <1>7, <1>8, DataType DEF Prepend
<1>9. ASSUME NEW b \in Buffers, NEW n \in Widths, NEW x \in IntN(n), PrependInt(b, n, x)
      PROVE  ProportionalStep
  BY <1>7, <1>9, ToNetworkType DEF PrependInt, prependInt
<1>10. ASSUME NEW b \in Buffers, NEW len \in 0 .. readableBytes(buf[b]),
              Retrieve(b, len) \/ RetrieveAsString(b, len)
      PROVE  ProportionalStep
  <2>1. len \in Nat /\ len <= readableBytes(buf[b])
    BY ObjectFacts
  <2> QED BY <1>10, <2>1, RetrieveKeepsSize DEF Retrieve, RetrieveAsString
<1>11. ASSUME NEW b \in Buffers, NEW len \in 0 .. readableBytes(buf[b]), Unwrite(b, len)
      PROVE  ProportionalStep
  <2>1. unwrite(buf[b], len).buffer_ = buf[b].buffer_
    BY ObjectFacts DEF unwrite, WellFormed, BufferType
  <2> QED BY <1>11, <2>1, KeepsSize DEF Unwrite
<1>12. ASSUME NEW b \in Buffers, RetrieveAll(b)
      PROVE  ProportionalStep
  <2>1. retrieveAll(buf[b]).buffer_ = buf[b].buffer_
    BY ObjectFacts DEF retrieveAll, WellFormed, BufferType
  <2> QED BY <1>12, <2>1, KeepsSize DEF RetrieveAll
<1>13. ASSUME NEW b \in Buffers, RetrieveLine(b)
      PROVE  ProportionalStep
  <2> DEFINE eol == findEOL(buf[b], buf[b].readerIndex_)
             n == (eol + 1) - buf[b].readerIndex_
  <2>1. eol # NotFound /\ WellFormed(buf[b]) /\ readableBytes(buf[b]) \in Nat
    BY <1>13, ObjectFacts DEF RetrieveLine
  <2>2. n \in 1 .. readableBytes(buf[b])
    BY <2>1, FindEOLCorrect
  <2>3. Become(b, retrieve(buf[b], n), Call("retrieveUntil", b, << >>, n, 0))
    BY <1>13 DEF RetrieveLine, retrieveUntil
  <2> HIDE DEF n
  <2>4. n \in Nat /\ n <= readableBytes(buf[b])
    BY <2>1, <2>2
  <2> QED BY <2>3, <2>4, RetrieveKeepsSize
<1>14. ASSUME NEW b \in Buffers, RetrieveCRLF(b)
      PROVE  ProportionalStep
  <2> DEFINE crlf == findCRLF(buf[b], buf[b].readerIndex_)
             n == (crlf + 2) - buf[b].readerIndex_
  <2>1. crlf # NotFound /\ WellFormed(buf[b]) /\ readableBytes(buf[b]) \in Nat
    BY <1>14, ObjectFacts DEF RetrieveCRLF
  <2>2. n \in 1 .. readableBytes(buf[b])
    BY <2>1, FindCRLFCorrect
  <2>3. Become(b, retrieve(buf[b], n), Call("retrieveUntil", b, << >>, n, 0))
    BY <1>14 DEF RetrieveCRLF, retrieveUntil
  <2> HIDE DEF n
  <2>4. n \in Nat /\ n <= readableBytes(buf[b])
    BY <2>1, <2>2
  <2> QED BY <2>3, <2>4, RetrieveKeepsSize
<1>15. ASSUME NEW b \in Buffers, NEW n \in Widths, ReadInt(b, n)
      PROVE  ProportionalStep
  BY <1>15, RetrieveKeepsSize DEF ReadInt, Widths
<1>16. ASSUME NEW b \in Buffers, NEW len \in 0 .. MaxLen, EnsureWritableBytes(b, len)
      PROVE  ProportionalStep
  <2> DEFINE m == ensureWritableBytes(buf[b], len)
  <2>1. len \in Nat
    BY ApiAssumption
  <2>2. WellFormed(m) /\ Content(m) = Content(buf[b])
    BY <2>1, ObjectFacts, EnsureCorrect
  <2>3. readableBytes(m) = readableBytes(buf[b])
    BY <2>2, ObjectFacts, ContentProperties
  <2>4. Len(m.buffer_) > Len(buf[b].buffer_) =>
          Len(m.buffer_) < readableBytes(m) + 2 * len + kCheapPrepend
    BY <2>1, <2>3, ObjectFacts, EnsureGrowth
  <2>5. Become(b, m, Call("ensureWritableBytes", b, << >>, len, 0))
    BY <1>16 DEF EnsureWritableBytes
  <2> HIDE DEF m
  <2>6. Len(<< >>) = 0 /\ readableBytes(m) \in Nat
    BY <2>3, ObjectFacts
  <2>7. Len(m.buffer_) > Len(buf[b].buffer_) =>
          Len(m.buffer_) < readableBytes(m) + Len(<< >>) + 2 * len + kCheapPrepend
    BY <2>4, <2>6
  <2> QED BY <2>5, <2>7, BecomeGrowth
<1>17. ASSUME NEW b \in Buffers, NEW c \in Buffers, Swap(b, c)
      PROVE  ProportionalStep
  BY <1>17 DEF Swap, Call, ProportionalStep
<1> QED
  BY <1>2, <1>3, <1>4, <1>5, <1>6, <1>8, <1>9, <1>10, <1>11, <1>12, <1>13, <1>14,
     <1>15, <1>16, <1>17 DEF Next

-----------------------------------------------------------------------------
\* No call leaves a Buffer with an index out of order or outside its vector:
\* readableBytes and writableBytes never wrap around and std::copy stays in
\* bounds, whatever legal calls are made in whatever order.
THEOREM IndicesAlwaysOK == Spec => []IndicesOK
<1>1. Init => IndicesOK
  <2> SUFFICES ASSUME Init PROVE IndicesOK
    OBVIOUS
  <2>1. buf = [b \in Buffers |-> NewBuffer]
    BY DEF Init
  <2>2. NewBuffer \in BufferType /\ WellFormed(NewBuffer)
    BY NewBufferCorrect DEF WellFormed
  <2> QED BY <2>1, <2>2 DEF IndicesOK
<1>2. IndicesOK /\ [Next]_vars => IndicesOK'
  <2> SUFFICES ASSUME IndicesOK, [Next]_vars PROVE IndicesOK'
    OBVIOUS
  <2>1. CASE Next
    BY <2>1, NextRefines
  <2>2. CASE UNCHANGED vars
    BY <2>2 DEF vars, IndicesOK
  <2> QED BY <2>1, <2>2
<1> QED BY <1>1, <1>2, PTL DEF Spec

\* The asserts inside makeSpace (it moves data only towards the front) and at
\* the end of ensureWritableBytes (the space is there) never fail.
THEOREM AssertsAlwaysHold == Spec => []AssertsHold
<1>1. IndicesOK => AssertsHold
  <2> SUFFICES ASSUME IndicesOK, NEW b \in Buffers, NEW len \in 0 .. MaxLen
               PROVE  /\ writableBytes(buf[b]) < len /\ ~ MustGrow(buf[b], len)
                            => kCheapPrepend < buf[b].readerIndex_
                      /\ writableBytes(ensureWritableBytes(buf[b], len)) >= len
    BY DEF AssertsHold
  <2>1. len \in Nat /\ WellFormed(buf[b])
    BY ApiAssumption, ObjectFacts
  <2>2. writableBytes(ensureWritableBytes(buf[b], len)) >= len
    BY <2>1, EnsureCorrect
  <2>3. ASSUME writableBytes(buf[b]) < len, ~ MustGrow(buf[b], len)
        PROVE  kCheapPrepend < buf[b].readerIndex_
    BY <2>1, <2>3, MakeSpaceCorrect
  <2> QED BY <2>2, <2>3
<1> QED BY <1>1, IndicesAlwaysOK, PTL

\* A Buffer is a byte queue to its client: no sequence of calls, whatever moves
\* and growths it causes, loses, repeats, reorders or changes a readable byte.
THEOREM BufferImplementsByteQueue == Spec => ImplementsByteQueue
<1>1. Init => Queue!Init
  <2> SUFFICES ASSUME Init PROVE Queue!Init
    OBVIOUS
  <2>1. [b \in Buffers |-> Content(buf[b])] = [b \in Buffers |-> << >>]
    BY NewBufferCorrect DEF Init
  <2> QED BY <2>1, SameApi DEF Init, Queue!Init
<1>2. IndicesOK /\ [Next]_vars => [Queue!Next]_(Queue!queueVars)
  <2> SUFFICES ASSUME IndicesOK, [Next]_vars
               PROVE  [Queue!Next]_(Queue!queueVars)
    OBVIOUS
  <2>1. CASE Next
    BY <2>1, NextRefines
  <2>2. CASE UNCHANGED vars
    BY <2>2 DEF vars, Queue!queueVars
  <2> QED BY <2>1, <2>2
<1> QED BY <1>1, <1>2, IndicesAlwaysOK, PTL DEF Spec, ImplementsByteQueue, Queue!Spec

\* An integer put in front with prependInt is the integer that peekInt reads,
\* for each of the three widths, either sign and any base of bytes, and reading
\* it leaves the bytes that were readable before.
THEOREM PrependedIntIsReadBack == Spec => []PrependIntThenReadInt
<1>1. ASSUME IndicesOK, NEW b \in Buffers, NEW n \in Widths,
             n <= prependableBytes(buf[b]), NEW x \in IntN(n)
      PROVE  /\ peekInt(prependInt(buf[b], n, x), n) = x
             /\ Content(retrieve(prependInt(buf[b], n, x), n)) = Content(buf[b])
  <2> DEFINE p == prependInt(buf[b], n, x)
             w == ToNetwork(n, x)
             c == Content(buf[b])
  <2>0. n \in Nat
    BY DEF Widths
  <2>1. w \in Seq(Byte) /\ Len(w) = n /\ n \in Nat
    BY <2>0, ToNetworkType
  <2>2. c \in Seq(Byte)
    BY <1>1, ObjectFacts, ContentProperties
  <2>3. WellFormed(p) /\ Content(p) = w \o c
    BY <1>1, <2>1, ObjectFacts, PrependCorrect DEF prependInt
  <2>4. Len(Content(p)) = readableBytes(p)
    BY <2>3, ContentProperties
  <2> HIDE DEF p, w, c
  <2>5. /\ Len(w \o c) = n + Len(c) /\ Len(c) \in Nat
        /\ \A i \in 1 .. n : (w \o c)[i] = w[i]
    BY <2>1, <2>2
  <2>6. peekInt(p, n) = x
    <3>1. \A i \in 1 .. n : Content(p)[i] = ToNetwork(n, x)[i]
      BY <2>3, <2>5 DEF w
    <3> QED BY <3>1, NetworkRoundTrip DEF peekInt
  <2>7. Content(retrieve(p, n)) = SubSeq(w \o c, n + 1, Len(w \o c))
    <3>1. n <= readableBytes(p)
      BY <2>1, <2>3, <2>4, <2>5
    <3> QED BY <2>1, <2>3, <3>1, RetrieveCorrect DEF Queue!Drop
  <2>8. SubSeq(w \o c, n + 1, Len(w \o c)) = c
    <3> DEFINE s == SubSeq(w \o c, n + 1, Len(w \o c))
    <3>1. w \o c \in Seq(Byte)
      BY <2>1, <2>2
    <3>2. s \in Seq(Byte) /\ Len(s) = Len(c)
      BY <2>1, <2>5, <3>1
    <3>3. \A i \in 1 .. Len(c) : s[i] = c[i]
      BY <2>1, <2>2, <2>5, <3>1
    <3> QED BY <2>2, <3>2, <3>3, SeqEqual
  <2> QED BY <2>6, <2>7, <2>8 DEF p, c
<1>2. IndicesOK => PrependIntThenReadInt
  BY <1>1 DEF PrependIntThenReadInt
<1> QED BY <1>2, IndicesAlwaysOK, PTL

\* However many bytes went through a Buffer, a step makes its vector longer only
\* up to what it holds, what the call asked for and the prepend area: makeSpace
\* and readFd reuse the consumed space before they grow.
THEOREM GrowthStaysProportional == Spec => GrowthIsProportional
<1>1. IndicesOK /\ [Next]_vars => [ProportionalStep]_vars
  BY NextGrowth
<1>2. IndicesOK /\ [Next]_vars =>
        [\A b \in Buffers :
           call'.op # "swap" /\ Len(buf'[b].buffer_) > Len(buf[b].buffer_)
             => Len(buf'[b].buffer_) <
                  readableBytes(buf'[b]) + Len(call'.data) + 2 * call'.len + kCheapPrepend]_vars
  BY <1>1 DEF ProportionalStep
<1> QED BY <1>2, IndicesAlwaysOK, PTL DEF Spec, GrowthIsProportional

=============================================================================
