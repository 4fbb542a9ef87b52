---------------------------- MODULE MCEpollServer ----------------------------
(***************************************************************************)
(* EpollServer for TLC: two peers and two descriptors for them.  recv asks *)
(* for three bytes, as many as a peer sends.                               *)
(***************************************************************************)
EXTENDS EpollServer

=============================================================================
