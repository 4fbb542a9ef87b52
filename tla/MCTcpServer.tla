---------------------------- MODULE MCTcpServer ----------------------------
(***************************************************************************)
(* Instances of TcpServer for TLC.  acc is the acceptor's Socket; the      *)
(* other addresses are interchangeable, and so are the peers.              *)
(***************************************************************************)
EXTENDS TcpServer, TLC

Symmetry == Permutations(Peers) \cup Permutations(Channels \ {acceptor})

\* An allocator that may return every free address, old or new ...
AnyAddress(S) == S

\* ... and one that prefers some, where no property looks at addresses.
OneAddress(S) == IF S = {} THEN {} ELSE {CHOOSE c \in S : TRUE}

=============================================================================
