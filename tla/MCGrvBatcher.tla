--------------------------- MODULE MCGrvBatcher ---------------------------
(* GrvBatcher for TLC. *)
EXTENDS GrvBatcher

===========================================================================
