----------------------------- MODULE MCGrvCache -----------------------------
(***************************************************************************)
(* GrvCache for TLC.  Cluster 0 hands out larger versions than the cluster *)
(* after it, so that a number carried across the handoff is recognisable   *)
(* and a floor carried across it refuses everything.                       *)
(***************************************************************************)
EXTENDS GrvCache, FiniteSets

MCStart == [e \in Epochs |-> IF e = 0 THEN 5 ELSE 1]

(***************************************************************************)
(* Bound: what is explored together.  Two replies are under way at a time, *)
(* and one once a throttle came or an invalidation met a moving clock.  A  *)
(* handoff begins while the clock stands at 1 and before any throttle;     *)
(* MaxGen = 1 makes a behaviour have an invalidation or a handoff, not     *)
(* both.  A reader is at Immediate beside a handoff, at a throttled        *)
(* priority beside an invalidation or a throttle, and at either before:    *)
(* without a throttle the two are served alike.                            *)
(***************************************************************************)
Busy == {p \in Pubs : pub[p].pc # "idle"}
Throttled ==
  \/ \E p \in Pubs : pub[p].thr # {}
  \/ \E e \in Epochs : throttled[e] # Zeros
Moving == monitor # "idle" \/ fence.epoch > 0
MCBound ==
  /\ Cardinality(Busy) <= IF Throttled \/ (fence.gen > 0 /\ now > 1) THEN 1 ELSE 2
  /\ Moving => now = 1 /\ ~Throttled
  /\ \A r \in Readers : rdr[r].pc # "idle" =>
       IF rdr[r].prio = Immediate THEN ~Throttled /\ (fence.gen > 0 => Moving) ELSE ~Moving

=============================================================================
