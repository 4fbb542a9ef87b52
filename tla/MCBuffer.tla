------------------------------ MODULE MCBuffer ------------------------------
(***************************************************************************)
(* Instances of Buffer for TLC.  MCBuffer.cfg: one object and a vector of  *)
(* up to 7 bytes, so that moving, growing, extrabuf and every integer      *)
(* width are reached.  MCBufferEOL.cfg: up to 4 bytes.                     *)
(***************************************************************************)
EXTENDS Buffer

\* No action reads call, and the properties read only call': states that
\* differ in the last call alone are one state.
Objects == buf

=============================================================================
