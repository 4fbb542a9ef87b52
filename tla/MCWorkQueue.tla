---------------------------- MODULE MCWorkQueue ----------------------------
(***************************************************************************)
(* WorkQueue for TLC: two consumers as in main(), three messages, and as   *)
(* many addresses, so that freed ones are allocated again.                 *)
(***************************************************************************)
EXTENDS WorkQueue

=============================================================================
