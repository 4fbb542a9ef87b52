---------------------------- MODULE MCForkServer ----------------------------
(***************************************************************************)
(* ForkServer for TLC: two peers and a process table with room for two     *)
(* children, so that it is full when the third connection comes.           *)
(***************************************************************************)
EXTENDS ForkServer

=============================================================================
