--------------------------- MODULE MCNodeExecutor ---------------------------
(* Small instance of NodeExecutor: nodes of one kind with different retries. *)
EXTENDS NodeExecutor, TLC

CONSTANTS n1, n2, n3

MCNodes == {n1, n2, n3}
MCRetries == n1 :> 2 @@ n2 :> 1 @@ n3 :> 0
=============================================================================
