------------------------------ MODULE PointSet ------------------------------
(***************************************************************************)
(* What a range set promises: a set of points of the key space to which    *)
(* whole intervals are added.  An insertion that requires its interval to  *)
(* be empty is a test-and-set; every insertion reports whether it changed  *)
(* anything.                                                               *)
(***************************************************************************)
EXTENDS Naturals

CONSTANT Points       \* the keys below the range set's final key

VARIABLES covered,    \* the points of the inserted ranges
          changed     \* what the last insertion reported

Init == covered = {} /\ changed = FALSE

(* All of the interval is added, or it was not empty and nothing is. *)
Insert(S, requireEmpty) ==
    LET refused == requireEmpty /\ S \cap covered # {} IN
    /\ changed' = (~refused /\ ~(S \subseteq covered))
    /\ covered' = IF refused THEN covered ELSE covered \cup S

Clear == covered' = {} /\ UNCHANGED changed

Next == Clear \/ \E S \in SUBSET Points, requireEmpty \in BOOLEAN :
                    Insert(S, requireEmpty)

Spec == Init /\ [][Next]_<<covered, changed>>
=============================================================================
