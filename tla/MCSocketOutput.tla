--------------------------- MODULE MCSocketOutput ---------------------------
(***************************************************************************)
(* SocketOutput for TLC: messages longer than what is reported as free, so *)
(* that answers are cut in two, and an event list that is refused after it *)
(* has doubled a few times.                                                *)
(***************************************************************************)
EXTENDS SocketOutput

=============================================================================
