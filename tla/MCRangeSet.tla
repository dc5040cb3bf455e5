----------------------------- MODULE MCRangeSet -----------------------------
(* The range set over seven keys: room for three ranges with gaps around   *)
(* and between them.                                                       *)
EXTENDS RangeSet
=============================================================================
