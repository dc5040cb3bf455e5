------------------------------ MODULE MCSimFDB ------------------------------
(* Instances of SimFDB for TLC: numbers a cfg cannot write. *)
EXTENDS SimFDB

Unlimited == -1
DiscardFaults == {0, UnknownDiscarded}
LifeFaults == {0, UnknownApplied, UnknownDiscarded}
=============================================================================
