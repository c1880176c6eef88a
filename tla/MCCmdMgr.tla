------------------------------ MODULE MCCmdMgr ------------------------------
(* CmdMgr on small sets of callers, ids and array elements. *)
EXTENDS CmdMgr, TLC

Symmetry == Permutations(Caller) \cup Permutations(ReqId)
=============================================================================
