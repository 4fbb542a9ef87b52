------------------------------ MODULE MCSysVSem ------------------------------
(***************************************************************************)
(* Instances of SysVSem for TLC.  The faults "early", "kill" and "stop"    *)
(* only add behaviours, so the behaviours of every world with a creator in *)
(* time, a creator that may die, or an impatient waiter are among those of *)
(* the largest world of that sort, with and without IPC_RMID.              *)
(***************************************************************************)
EXTENDS SysVSem

LargestWorlds ==
  [removes : BOOLEAN,
   faults : {{"kill", "stop"},
             {"kill", "stop", "early"},
             {"kill", "stop", "early", "late"}}]

\* The program as it is, without faults.
AsCommitted == {[removes |-> TRUE, faults |-> {}]}

=============================================================================
