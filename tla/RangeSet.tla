------------------------------ MODULE RangeSet ------------------------------
(***************************************************************************)
(* The range set in which an online index build records what it has built  *)
(* (pkg/recordlayer/range_set.go): one database entry per range, its key   *)
(* the range's begin and its value the range's end.  Keys are the numbers  *)
(* 0 .. N; FIRST_KEY is 0 and FINAL_KEY is N.  An operation sees the       *)
(* entries only through two scans: the last entry that begins at or before *)
(* its begin, and the entries that begin strictly inside its range.        *)
(***************************************************************************)
EXTENDS Naturals, Sequences, Functions

CONSTANT N            \* rangeSetFinalKey

ASSUME NAssumption == N \in Nat \ {0}

VARIABLES entries,    \* the stored entries: begin |-> end
          changed     \* what the last InsertRange returned

vars == <<entries, changed>>

Points == 0 .. N - 1

(* The reverse scan with limit one: the last entry at or before key, as a  *)
(* set of at most one begin.                                               *)
before(key) == {b \in DOMAIN entries :
                   b <= key /\ \A c \in DOMAIN entries : c <= key => c <= b}

(* The entries of the forward scan of (begin, end), which meets them in    *)
(* key order.                                                              *)
after(begin, end) == {b \in DOMAIN entries : begin < b /\ b < end}

Put(fn, key, value) == [b \in DOMAIN fn \cup {key} |->
                           IF b = key THEN value ELSE fn[b]]

(* A key is in the set when the last entry at or before it ends after it;  *)
(* the mutant's end is inclusive.                                          *)
ContainsEnd(key) == \E b \in before(key) : key <= entries[b]

ContainsKey(key) == \E b \in before(key) : key < entries[b]

(* Test-and-set: refused when an entry covers begin or begins inside the   *)
(* range.  A range that starts where the one before it ends extends it.    *)
(* The mutant looks only at the entries that begin inside.                 *)
InsertInside(begin, end) ==
    IF after(begin, end) # {}
    THEN [entries |-> entries, changed |-> FALSE]
    ELSE [entries |-> Put(entries, begin, end), changed |-> TRUE]

InsertEmpty(begin, end) ==
    IF ContainsKey(begin) \/ after(begin, end) # {}
    THEN [entries |-> entries, changed |-> FALSE]
    ELSE [entries |-> IF \E b \in before(begin) : entries[b] = begin
                      THEN Put(entries, CHOOSE b \in before(begin) : TRUE, end)
                      ELSE Put(entries, begin, end),
          changed |-> TRUE]

(* Where an insertion or a search starts: begin, or the end of the entry   *)
(* that covers it.                                                         *)
StartOf(begin) == IF ContainsKey(begin)
                  THEN entries[CHOOSE b \in before(begin) : TRUE] ELSE begin

(* One turn of the gap-filling loop: the gap up to the next entry becomes  *)
(* a range of its own, and the walk goes on from that entry's end.         *)
FillGap(acc, next) ==
    [entries  |-> IF acc.lastSeen < next THEN Put(acc.entries, acc.lastSeen, next)
                                         ELSE acc.entries,
     changed  |-> acc.changed \/ acc.lastSeen < next,
     lastSeen |-> entries[next]]

(* The loop over the scan: the turns of the entries below p are done. *)
FillWalk(begin, end) ==
    LET walk[p \in begin .. end] ==
            IF p = begin
            THEN [entries |-> entries, changed |-> FALSE, lastSeen |-> StartOf(begin)]
            ELSE IF p - 1 \in after(begin, end) THEN FillGap(walk[p - 1], p - 1)
                                                ELSE walk[p - 1]
    IN  walk

InsertFilling(begin, end) ==
    LET done == FillWalk(begin, end)[end] IN
    [entries |-> IF done.lastSeen < end THEN Put(done.entries, done.lastSeen, end)
                                        ELSE done.entries,
     changed |-> done.changed \/ done.lastSeen < end]

(* The gaps of [begin, end) in order: one turn per entry inside it.  The   *)
(* mutant goes on from the entry's begin.                                  *)
GapFromBegin(acc, next) ==
    [gaps |-> IF acc.at < next THEN Append(acc.gaps, <<acc.at, next>>) ELSE acc.gaps,
     at   |-> next]

Gap(acc, next) ==
    [gaps |-> IF acc.at < next THEN Append(acc.gaps, <<acc.at, next>>) ELSE acc.gaps,
     at   |-> entries[next]]

GapWalk(begin, end) ==
    LET walk[p \in begin .. end] ==
            IF p = begin THEN [gaps |-> << >>, at |-> StartOf(begin)]
            ELSE IF p - 1 \in after(begin, end) THEN Gap(walk[p - 1], p - 1)
                                                ELSE walk[p - 1]
    IN  walk

MissingRanges(begin, end) ==
    LET done == GapWalk(begin, end)[end] IN
    IF done.at < end THEN Append(done.gaps, <<done.at, end>>) ELSE done.gaps

-----------------------------------------------------------------------------
Init == entries = << >> /\ changed = FALSE

(* begin > end is refused with an error and begin = end changes nothing. *)
InsertRange(begin, end, requireEmpty) ==
    /\ begin < end
    /\ LET done == IF requireEmpty THEN InsertEmpty(begin, end)
                                   ELSE InsertFilling(begin, end)
       IN  /\ entries' = done.entries
           /\ changed' = done.changed

Clear == entries' = << >> /\ UNCHANGED changed

Next == Clear \/ \E begin, end \in 0 .. N, requireEmpty \in BOOLEAN :
                    InsertRange(begin, end, requireEmpty)

Spec == Init /\ [][Next]_vars

-----------------------------------------------------------------------------
covered == UNION {b .. entries[b] - 1 : b \in DOMAIN entries}

Abstract == INSTANCE PointSet

(* The entries stay disjoint and non-empty whatever ranges are inserted in *)
(* whatever order, so the one entry a lookup reads decides it: Contains    *)
(* finds exactly the covered keys.  A key wrongly outside makes a writer   *)
(* skip the count of a record the build has passed; a key wrongly inside   *)
(* counts it twice.                                                        *)
LookupExact ==
    /\ \A b \in DOMAIN entries : b < entries[b] /\ entries[b] <= N
    /\ \A b, c \in DOMAIN entries : b < c => entries[b] <= c
    /\ \A key \in Points : ContainsKey(key) <=> key \in covered

(* The maximal runs of uncovered points of [begin, end). *)
Runs(begin, end) ==
    {run \in (begin .. end) \X (begin .. end) :
        /\ run[1] < run[2]
        /\ (run[1] .. run[2] - 1) \cap covered = {}
        /\ run[1] = begin \/ run[1] - 1 \in covered
        /\ run[2] = end \/ run[2] \in covered}

(* For every part of the key space MissingRanges returns exactly the       *)
(* maximal uncovered runs, each once and in order: what a build scans next *)
(* is never built already and nothing unbuilt is left between two of them. *)
MissingExact ==
    \A begin, end \in 0 .. N :
        begin < end =>
            LET gaps == MissingRanges(begin, end) IN
            /\ Range(gaps) = Runs(begin, end)
            /\ \A i \in 1 .. Len(gaps) - 1 : gaps[i][2] < gaps[i + 1][1]

(* The entry operations implement the abstract point set: what is covered  *)
(* after an insertion, and whether it reports a change.                    *)
ImplementsPointSet == Abstract!Spec
=============================================================================
