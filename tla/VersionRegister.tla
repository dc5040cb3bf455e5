-------------------------- MODULE VersionRegister --------------------------
(***************************************************************************)
(* What the read-version cache of the native client promises, as one       *)
(* atomic register: the version served for the cluster the handle is bound *)
(* to, the instant that version's MVCC window is dated from, and the floor *)
(* left by the commits of that cluster.  GrvCache implements it with       *)
(* load / compare-and-swap loops over one pointer and one fence word.      *)
(***************************************************************************)
EXTENDS Naturals

CONSTANTS
  Versions,   \* the read and commit versions a cluster may hand out
  Instants    \* the request instants a version may be dated from

VARIABLES
  epoch,      \* the cluster the handle is bound to
  version,    \* the version on offer, 0 when there is none
  anchor,     \* the instant that version is dated from
  floor       \* the highest version known to be committed by this cluster

regVars == <<epoch, version, anchor, floor>>

Init ==
  /\ epoch = 0
  /\ version = 0
  /\ anchor = 0
  /\ floor = 0

(***************************************************************************)
(* A version is offered.  It is below neither the floor nor the version it *)
(* replaces, and a version already on offer is never dated later.          *)
(***************************************************************************)
Offer(v, t) ==
  /\ v >= floor'
  /\ v >= version
  /\ version' = v
  /\ anchor' = IF v = version /\ anchor < t THEN anchor ELSE t

(***************************************************************************)
(* One observation of the cluster: it may raise the floor to the version   *)
(* of a commit, may offer its version, or may do neither.                  *)
(***************************************************************************)
Observe(v, t) ==
  /\ floor' \in {floor, IF v > floor THEN v ELSE floor}
  /\ Offer(v, t) \/ UNCHANGED <<version, anchor>>
  /\ UNCHANGED epoch

(* The version is withdrawn; what the commits proved stays. *)
Withdraw ==
  /\ version' = 0
  /\ anchor' = 0
  /\ UNCHANGED <<epoch, floor>>

(* Another cluster: nothing learned from the last one applies to it. *)
NewCluster ==
  /\ epoch' = epoch + 1
  /\ version' = 0
  /\ anchor' = 0
  /\ floor' = 0

Next ==
  \/ \E v \in Versions, t \in Instants : Observe(v, t)
  \/ Withdraw
  \/ NewCluster

Spec == Init /\ [][Next]_regVars
=============================================================================
