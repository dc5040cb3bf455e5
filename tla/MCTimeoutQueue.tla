--------------------------- MODULE MCTimeoutQueue ---------------------------
(***************************************************************************)
(* TimeoutQueue for TLC: where the nodes of the transactions are, and    *)
(* which constants are interchangeable.                                    *)
(***************************************************************************)
EXTENDS TimeoutQueue, TLC

CONSTANTS t1, t2, e1, e2

OwnShards == t1 :> 1 @@ t2 :> 2

\* The entries of the pool are alike.
EntrySymmetry == Permutations(Entries)

=============================================================================
