-------------------------- MODULE MCOnlineIndexer --------------------------
(* Instances of the online indexer for TLC. *)
EXTENDS OnlineIndexer, TLC

CONSTANTS b1, b2, w1, a, b

MCContinue == [x \in Builders |-> "CONTINUE"]
MCRebuildFirst == [x \in Builders |-> IF x = b1 THEN "REBUILD" ELSE "CONTINUE"]

(* One record at each end and a gap between them; or a record everywhere. *)
MCEnds == [k \in Keys |-> IF k \in {1, N} THEN a ELSE None]
MCFull == [k \in Keys |-> a]
=============================================================================
