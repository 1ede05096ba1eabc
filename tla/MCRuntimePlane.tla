---------------------------- MODULE MCRuntimePlane ----------------------------
(* A short chain with a transaction that a reorganization moved to a later  *)
(* block, a block the limit cuts and an empty one.                         *)
EXTENDS RuntimePlane

MCTxsOf == <<<<"t1">>, <<"t1", "t2", "t3">>, << >>, <<"t4", "t5">>, <<"t6", "t7">>>>
=============================================================================
