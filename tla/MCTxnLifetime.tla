--------------------------- MODULE MCTxnLifetime ---------------------------
(***************************************************************************)
(* TxnLifetime for TLC: three goroutines with different tasks share a      *)
(* handle.                                                                 *)
(***************************************************************************)
EXTENDS TxnLifetime, TLC

CONSTANTS t1, t2, t3

MCTasks == t1 :> {"commit", "set", "watch"}
             @@ t2 :> {"commit", "onerror", "cancel"}
             @@ t3 :> {"read", "reset"}

=============================================================================
