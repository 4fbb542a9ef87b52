------------------------------ MODULE UdpCount ------------------------------
(***************************************************************************)
(* net/udp/udpserv.cpp, which counts what its recvfrom returns and answers *)
(* nothing, and net/udp/udpconnectcli.cpp, which sends a datagram on a        *)
(* connected UDP socket and waits, without a timeout, for the answer.      *)
(*                                                                         *)
(* A datagram may be lost; one for a port that nobody has bound comes back *)
(* as an error of the socket that sent it.  The server may be killed and   *)
(* started again, and a client may be killed.                              *)
(***************************************************************************)
EXTENDS Integers, Sequences, FiniteSets

CONSTANTS
  Clients,
  RcvBuf,     \* datagrams that fit into the receive buffer
  MaxFailed   \* bound on the receives of one server that fail

VARIABLES
  server,     \* "down" or "up": bound to the port
  queue,      \* its receive buffer
  count,
  client,     \* what each client does next
  flight,     \* the client's datagram is on its way
  refused,    \* an error waits in the client's socket
  failed      \* history: receives of this server that failed

vars == <<server, queue, count, client, flight, refused, failed>>

Init ==
  /\ server = "down"
  /\ queue = << >>
  /\ count = 0
  /\ client = [c \in Clients |-> "input"]
  /\ flight = {}
  /\ refused = {}
  /\ failed = 0

Goto(c, place) == client' = [client EXCEPT ![c] = place]

-----------------------------------------------------------------------------
(***************************************************************************)
(* The server.                                                             *)
(***************************************************************************)
\* A new process: socket, bind, count = 0.  (When one of them fails it ends at
\* once.)
ServerStarts ==
  /\ server = "down"
  /\ server' = "up"
  /\ queue' = << >>
  /\ count' = 0
  /\ failed' = 0
  /\ UNCHANGED <<client, flight, refused>>

ServerKilled ==
  /\ server = "up"
  /\ server' = "down"
  /\ queue' = << >>
  /\ UNCHANGED <<count, client, flight, refused, failed>>

\* The while(1): whatever recvfrom returns is counted, unless it is 0.  A
\* datagram ...
ServerReceives ==
  /\ server = "up" /\ queue # << >>
  /\ queue' = Tail(queue)
  /\ count' = count + 1
  /\ UNCHANGED <<server, client, flight, refused, failed>>

\* ... or the -1 of a receive that fails.
ServerReceiveFails ==
  /\ server = "up" /\ failed < MaxFailed
  /\ count' = count + 1
  /\ failed' = failed + 1
  /\ UNCHANGED <<server, queue, client, flight, refused>>

-----------------------------------------------------------------------------
(***************************************************************************)
(* The network.                                                            *)
(***************************************************************************)
Arrives(c) ==
  /\ c \in flight
  /\ server = "up" /\ Len(queue) < RcvBuf
  /\ queue' = Append(queue, c)
  /\ flight' = flight \ {c}
  /\ UNCHANGED <<server, count, client, refused, failed>>

\* On the way, or because the receive buffer is full.
Lost(c) ==
  /\ c \in flight
  /\ flight' = flight \ {c}
  /\ UNCHANGED <<server, queue, count, client, refused, failed>>

\* The error of a client that is gone finds no socket.
Refused(c) ==
  /\ c \in flight
  /\ server = "down"
  /\ flight' = flight \ {c}
  /\ refused' = IF client[c] = "recv" THEN refused \cup {c} ELSE refused
  /\ UNCHANGED <<server, queue, count, client, failed>>

-----------------------------------------------------------------------------
(***************************************************************************)
(* A client.                                                               *)
(***************************************************************************)
\* A line is read and the socket connected, anew in every round.
Connect(c) ==
  /\ client[c] = "input"
  /\ Goto(c, "send")
  /\ UNCHANGED <<server, queue, count, flight, refused, failed>>

ConnectFails(c) ==
  /\ client[c] = "input"
  /\ Goto(c, "ended")
  /\ UNCHANGED <<server, queue, count, flight, refused, failed>>

\* An error that waits makes sendto fail, which is only printed.
Send(c) ==
  /\ client[c] = "send"
  /\ IF c \in refused
     THEN refused' = refused \ {c} /\ UNCHANGED flight
     ELSE flight' = flight \cup {c} /\ UNCHANGED refused
  /\ Goto(c, "recv")
  /\ UNCHANGED <<server, queue, count, failed>>

Receive_DoesNotBlock(c) ==
  /\ client[c] = "recv"
  /\ refused' = refused \ {c}
  /\ Goto(c, "input")
  /\ UNCHANGED <<server, queue, count, flight, failed>>

\* recvfrom returns only with an error: nobody ever sends an answer.
Receive(c) ==
  /\ client[c] = "recv"
  /\ c \in refused
  /\ refused' = refused \ {c}
  /\ Goto(c, "input")
  /\ UNCHANGED <<server, queue, count, flight, failed>>

\* "killed": while it waited, with its datagram on its way, lost or received.
ClientKilled(c) ==
  /\ client[c] \notin {"killed", "ended"}
  /\ Goto(c, IF client[c] = "recv" /\ c \notin refused THEN "killed" ELSE "ended")
  /\ refused' = refused \ {c}
  /\ UNCHANGED <<server, queue, count, flight, failed>>

-----------------------------------------------------------------------------
Next ==
  \/ ServerStarts \/ ServerKilled \/ ServerReceives \/ ServerReceiveFails
  \/ \E c \in Clients :
       \/ Arrives(c) \/ Lost(c) \/ Refused(c)
       \/ Connect(c) \/ ConnectFails(c) \/ Send(c) \/ Receive(c) \/ ClientKilled(c)

Spec == Init /\ [][Next]_vars

-----------------------------------------------------------------------------
(***************************************************************************)
(* Properties.                                                             *)
(***************************************************************************)
\* The clients whose datagram is neither on its way nor refused, and which wait
\* for the answer, or did when they were killed.
Unanswered == {c \in Clients : client[c] \in {"recv", "killed"}} \ (refused \cup flight)

\* No error of an earlier round is taken for the answer of a later one, however
\* late it comes and however often the server was restarted; so every datagram
\* that the server has counted or will count is of another client, which waits in
\* recvfrom until it is killed, and all that the count has beyond those clients
\* are the failed receives, which udpserv.cpp:58 counts too.
CountedClientsWait ==
  /\ \A c \in Clients : /\ c \in refused => client[c] = "recv"
                        /\ c \in flight => client[c] \in {"recv", "killed"}
  /\ server = "up" => count + Len(queue) <= Cardinality(Unanswered) + failed

=============================================================================
