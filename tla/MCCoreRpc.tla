----------------------------- MODULE MCCoreRpc -----------------------------
(* Three calls: one that is cut, one queued behind it and one that waits   *)
(* for its answer.                                                         *)
EXTENDS CoreRpc
=============================================================================
