----------------------------- MODULE BufferApi -----------------------------
(***************************************************************************)
(* What the client of a netlib Buffer sees: bytes, the calls it makes with *)
(* their arguments and results, and the network representation of the      *)
(* fixed-width integers.  Shared by the abstract ByteQueue and the         *)
(* detailed Buffer.                                                        *)
(***************************************************************************)
EXTENDS Integers, Sequences

CONSTANTS
  Buffers,        \* the Buffer objects
  ByteBase,       \* number of values of a char (256 in the program)
  EOL, CR,        \* the bytes '\n' and '\r'
  MaxLen          \* bound on the bytes of one append, prepend or readv

Byte == 0 .. (ByteBase - 1)

ASSUME ApiAssumption ==
  /\ ByteBase \in Nat /\ ByteBase >= 2
  /\ EOL \in Byte /\ CR \in Byte
  /\ MaxLen \in Nat

\* The byte strings a client passes in.
Data == UNION {[1 .. n -> Byte] : n \in 0 .. MaxLen}

(***************************************************************************)
(* The last call and what it returned.  data: bytes passed in or handed    *)
(* out; len: a length argument; val: an integer argument or result.        *)
(***************************************************************************)
Call(op, obj, data, len, val) ==
  [op |-> op, obj |-> obj, data |-> data, len |-> len, val |-> val]

-----------------------------------------------------------------------------
(***************************************************************************)
(* Integers on the wire: sizeof(intN_t) bytes, most significant first      *)
(* (htonl/htons on the way in, ntohl/ntohs on the way out), two's          *)
(* complement.                                                             *)
(***************************************************************************)
Widths == {1, 2, 4}

Modulus(n) ==
  CASE n = 1 -> ByteBase
    [] n = 2 -> ByteBase * ByteBase
    [] n = 4 -> ByteBase * ByteBase * ByteBase * ByteBase

IntN(n) == (- (Modulus(n) \div 2)) .. ((Modulus(n) + 1) \div 2 - 1)

ToNetwork(n, x) ==
  LET u == x % Modulus(n)
      d(k) == (u \div k) % ByteBase
  IN CASE n = 1 -> << d(1) >>
       [] n = 2 -> << d(ByteBase), d(1) >>
       [] n = 4 -> << d(ByteBase * ByteBase * ByteBase),
                      d(ByteBase * ByteBase), d(ByteBase), d(1) >>

FromNetwork(n, s) ==
  LET u == CASE n = 1 -> s[1]
             [] n = 2 -> s[1] * ByteBase + s[2]
             [] n = 4 -> ((s[1] * ByteBase + s[2]) * ByteBase + s[3]) * ByteBase
                           + s[4]
  IN IF u > (Modulus(n) + 1) \div 2 - 1 THEN u - Modulus(n) ELSE u

=============================================================================
