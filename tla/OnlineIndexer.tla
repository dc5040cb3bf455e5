---------------------------- MODULE OnlineIndexer ----------------------------
(***************************************************************************)
(* An index built while the store is in use (pkg/recordlayer: the online   *)
(* indexer, its mutual and pending-queue variants, the heartbeats, the     *)
(* index state transitions and the dispatch of record writes to an index   *)
(* by its state).                                                          *)
(*                                                                         *)
(* Every operation is one optimistic transaction of the database: it reads *)
(* a snapshot when it begins, adds read conflicts, and when it commits is  *)
(* refused if a transaction that committed in between wrote what it        *)
(* conflicts on.  A transaction without writes always commits.  A          *)
(* transaction is therefore two steps: the one that takes the snapshot and *)
(* works out reads, writes and what its caller does next, and the commit.  *)
(*                                                                         *)
(* Primary keys are 1 .. N; key k also stands for the gap up to k + 1, so  *)
(* a range of the key space is an interval of keys and the range set is    *)
(* the set of its keys (module RangeSet has the entries).  A record is the *)
(* value the index is on.  index[k][v] is what record k contributes to the *)
(* entry of v: present or not for a VALUE index, and how often it is       *)
(* counted for a COUNT index, whose stored sums are finer here.            *)
(***************************************************************************)
EXTENDS Integers, FiniteSets, Sequences, FiniteSetsExt, SequencesExt

CONSTANTS
    N,             \* the number of primary keys
    Vals,          \* the values of the indexed field
    Writers,       \* the processes that save and delete records
    Builders,      \* the indexers; each has one indexer ID
    Mutual,        \* the indexers with a mutual policy
    IfWriteOnly,   \* [Builders -> {"CONTINUE", "REBUILD"}]
    IfReadable,    \* [Builders -> {"CONTINUE", "REBUILD"}]
    Idempotent,    \* VALUE index (TRUE) or COUNT index (FALSE)
    UseQueue,      \* SUBSET BOOLEAN: may the policy ask for the pending write queue?
    Boundaries,    \* where the fragments of a mutual build begin
    Limit,         \* records indexed by one transaction
    MaxQueue,      \* the queue length at which a write disables the index
    Lease,         \* how long a heartbeat counts
    InitRecords,   \* the records when the model starts
    MaxTime, MaxWrites, MaxCalls,        \* bounds
    Faults         \* "crash", "fail", "unknown", "detach", "disable"

Keys == 1 .. N
None == "none"

ASSUME ConstantsAssumption ==
    /\ N \in Nat \ {0} /\ Limit \in Nat \ {0} /\ Lease \in Nat \ {0}
    /\ UseQueue \subseteq BOOLEAN /\ Mutual \subseteq Builders
    /\ Boundaries \subseteq Keys /\ 1 \in Boundaries
    /\ None \notin Writers \cup Builders /\ Writers \cap Builders = {}
    /\ MaxTime \in Nat
    /\ None \notin Vals /\ InitRecords \in [Keys -> Vals \cup {None}]

VARIABLES
    records,       \* [Keys -> Vals \cup {None}]
    index,         \* [Keys -> [Vals -> Int]]
    built,         \* the keys of the range set
    state,         \* the index state
    stamp,         \* the method of the indexing type stamp
    queue,         \* the pending write queue: <<key, old, new>> in commit order
    hb,            \* [Builders -> time of the heartbeat, -1 without one]
    now,           \* the clock
    tx,            \* [Writers \cup Builders -> the open transaction]
    late,          \* [Builders -> a heartbeat cleanup its session gave up on]
    bs,            \* [Builders -> the state of the indexer]
    writes,        \* what the application has committed so far
    useQueue       \* the policy asks for the pending write queue; never changes

store == <<records, index, built, state, stamp, queue, hb>>
vars  == <<store, now, tx, late, bs, writes, useQueue>>

Procs == Writers \cup Builders

-----------------------------------------------------------------------------
(* Index maintenance. *)

(* maintainer.Update(old, new): a VALUE index skips an unchanged entry,    *)
(* clears the old one and sets the new one; a COUNT index adds -1 and 1.   *)
Update(ix, op) ==
    LET k == op[1]  old == op[2]  new == op[3] IN
    [ix EXCEPT ![k] =
        [v \in Vals |->
            CASE v = old /\ v # new -> IF Idempotent THEN 0 ELSE @[v] - 1
              [] v = new /\ v # old -> IF Idempotent THEN 1 ELSE @[v] + 1
              [] OTHER              -> @[v]]]

(* The updates of ops, first to last. *)
UpdateAll(ix, ops) ==
    LET after[i \in 0 .. Len(ops)] == IF i = 0 THEN ix ELSE Update(after[i - 1], ops[i])
    IN  after[Len(ops)]

EmptyIndex == [k \in Keys |-> [v \in Vals |-> 0]]

IsWriteOnly(s) == s \in {"WRITE_ONLY", "WRITE_ONLY_WITH_QUEUE"}

-----------------------------------------------------------------------------
(* Transactions. *)

RecKey(k)   == <<"record", k>>
RangeKey(k) == <<"range", k>>
BeatKey(b)  == <<"heartbeat", b>>
StateKey    == <<"state", 0>>
StampKey    == <<"stamp", 0>>
QueueKey    == <<"queue", 0>>     \* the entries a scan saw
TailKey     == <<"tail", 0>>      \* where the next entry goes

RecKeys(S)   == {RecKey(k) : k \in S}
RangeKeys(S) == {RangeKey(k) : k \in S}
BeatKeys     == {BeatKey(b) : b \in Builders}

(* What a transaction writes.  wipe clears the index entries, forget the   *)
(* range set, erase the stamp, the heartbeats and the queue.               *)
NoEffect == [rec |-> {}, ops |-> << >>, built |-> {}, state |-> None,
             stamp |-> None, wipe |-> FALSE, forget |-> FALSE, erase |-> FALSE,
             enq |-> << >>, deq |-> 0, beat |-> {}, at |-> 0, unbeat |-> {}]

WriteSet(e) ==
    RecKeys({r[1] : r \in e.rec})
        \cup RangeKeys(IF e.forget THEN Keys ELSE e.built)
        \cup (IF e.state # None THEN {StateKey} ELSE {})
        \cup (IF e.stamp # None THEN {StampKey} ELSE {})
        \cup (IF e.enq # << >> THEN {TailKey} ELSE {})
        \cup (IF e.deq > 0 THEN {QueueKey} ELSE {})
        \cup {BeatKey(b) : b \in e.beat \cup e.unbeat}
        \cup (IF e.erase THEN BeatKeys \cup {StampKey, QueueKey, TailKey} ELSE {})

NoTx == [open |-> FALSE]

Begin(p, reads, effect, next) ==
    /\ tx' = [tx EXCEPT ![p] = [open |-> TRUE, conflict |-> FALSE,
                                reads |-> reads, effect |-> effect, next |-> next]]
    /\ UNCHANGED <<store, now, late, bs, writes, useQueue>>

(* The writes of a commit, clears first, and who conflicts with them. *)
Apply(p, e) ==
    /\ records' = [k \in Keys |-> IF \E r \in e.rec : r[1] = k
                                  THEN (CHOOSE r \in e.rec : r[1] = k)[2]
                                  ELSE records[k]]
    /\ index'   = UpdateAll(IF e.wipe THEN EmptyIndex ELSE index, e.ops)
    /\ built'   = (IF e.forget THEN {} ELSE built) \cup e.built
    /\ state'   = IF e.state = None THEN state ELSE e.state
    /\ stamp'   = IF e.stamp # None THEN e.stamp ELSE IF e.erase THEN None ELSE stamp
    /\ queue'   = (IF e.erase THEN << >> ELSE SubSeq(queue, e.deq + 1, Len(queue)))
                      \o e.enq
    /\ hb'      = [b \in Builders |-> IF b \in e.beat THEN e.at
                                      ELSE IF e.erase \/ b \in e.unbeat THEN -1
                                      ELSE hb[b]]

Conflicts(p, e) ==
    [q \in Procs |->
        IF q # p /\ tx[q].open /\ tx[q].reads \cap WriteSet(e) # {}
        THEN [tx[q] EXCEPT !.conflict = TRUE] ELSE tx[q]]

(* A cleanup on its way has read its own heartbeat.  The mutant's has not. *)
LateConflictsNever(e) == late

LateConflicts(e) ==
    [b \in Builders |-> IF late[b] = "open" /\ BeatKey(b) \in WriteSet(e)
                        THEN "conflict" ELSE late[b]]

MayCommit(t) == t.open /\ (t.conflict => WriteSet(t.effect) = {})

-----------------------------------------------------------------------------
(* Record writes. *)

(* MarkIndexDisabled: the state, and clearIndexData. *)
Disabling == [NoEffect EXCEPT !.state = "DISABLED", !.wipe = TRUE,
                              !.forget = TRUE, !.erase = TRUE]

Queued(op) == [NoEffect EXCEPT !.enq = <<op>>]

(* A full queue disables the index in a commit check of the same write. *)
Enqueue(op) == IF Len(queue) >= MaxQueue THEN Disabling ELSE Queued(op)

(* A non-idempotent update of an index under construction applies only     *)
(* where the build has been; a build yet to pass counts the record itself. *)
UpdateWhileWriteOnly(op) ==
    IF Idempotent \/ op[1] \in built THEN [NoEffect EXCEPT !.ops = <<op>>]
                                     ELSE NoEffect

updateOneIndex(op) ==
    CASE state = "DISABLED"              -> NoEffect
      [] state = "WRITE_ONLY_WITH_QUEUE" -> Enqueue(op)
      [] state = "WRITE_ONLY"            -> UpdateWhileWriteOnly(op)
      [] OTHER                           -> [NoEffect EXCEPT !.ops = <<op>>]

(* What a write conflicts on: the record it loads and the index state;     *)
(* ContainsKey adds the key of the range set (the mutant's does not).      *)
SaveReadsNoRange(k) == {RecKey(k), StateKey}

SaveReads(k) ==
    {RecKey(k), StateKey}
        \cup IF ~Idempotent /\ state = "WRITE_ONLY" THEN {RangeKey(k), StampKey} ELSE {}

(* A write: the record, and the update of the index in one transaction. *)
Write(w, k, new) ==
    /\ ~tx[w].open /\ writes < MaxWrites
    /\ Begin(w, SaveReads(k),
             [updateOneIndex(<<k, records[k], new>>) EXCEPT !.rec = {<<k, new>>}],
             None)

saveRecord(w, k, v) == Write(w, k, v)

deleteRecord(w, k) == records[k] # None /\ Write(w, k, None)

CommitSave(w) ==
    /\ MayCommit(tx[w])
    /\ Apply(w, tx[w].effect)
    /\ tx' = [Conflicts(w, tx[w].effect) EXCEPT ![w] = NoTx]
    /\ late' = LateConflicts(tx[w].effect)
    /\ writes' = writes + 1
    /\ UNCHANGED <<now, bs, useQueue>>

(* not_committed: the caller may try again from a new snapshot. *)
Retry(p) ==
    /\ tx[p].open /\ ~MayCommit(tx[p])
    /\ tx' = [tx EXCEPT ![p] = NoTx]
    /\ UNCHANGED <<store, now, late, bs, writes, useQueue>>

(* An application disables the index, whoever is building it. *)
MarkIndexDisabled ==
    /\ "disable" \in Faults /\ state # "DISABLED" /\ writes < MaxWrites
    /\ Apply(None, Disabling)
    /\ tx' = Conflicts(None, Disabling)
    /\ late' = LateConflicts(Disabling)
    /\ writes' = writes + 1
    /\ UNCHANGED <<now, bs, useQueue>>

-----------------------------------------------------------------------------
(* The session of an indexer: where it is (pc), whether the catcher made   *)
(* it fall back to a records scan (never reset), its queue, what follows   *)
(* the drain, the claimed range and the fragment walk of a mutual build,   *)
(* and how the attempt ends.                                               *)
NoWalk  == [first |-> 0, step |-> 0, cur |-> 0, phase |-> 0]

Idle(fallback, calls, result) ==
    [pc |-> "idle", fallback |-> fallback, calls |-> calls, queued |-> FALSE,
     after |-> None, claimed |-> {}, walk |-> NoWalk, result |-> result]

buildsMutually(b) == b \in Mutual /\ ~bs[b].fallback
Method(b) == IF buildsMutually(b) THEN "MUTUAL_BY_RECORDS" ELSE "BY_RECORDS"

At(b, pc) == bs[b].pc = pc /\ ~tx[b].open

(* The attempt ends: its heartbeat is removed next. *)
Ending(b, result) == [bs[b] EXCEPT !.pc = "cleanup", !.result = result]

(* An error leaves the transaction uncommitted. *)
End(b, next) ==
    /\ bs' = [bs EXCEPT ![b] = next]
    /\ UNCHANGED <<store, now, tx, late, writes, useQueue>>

(* indexingCatcher: a partly built index is continued by the records scan  *)
(* that started it; otherwise the call fails.                              *)
PartlyBuilt(b, saved) ==
    IF saved = "BY_RECORDS" THEN [Ending(b, "retry") EXCEPT !.fallback = TRUE]
                            ELSE Ending(b, "failed")

(* Under a mutual policy an index its peers published is a built one. *)
UnexpectedState(b) ==
    Ending(b, IF b \in Mutual /\ state = "READABLE" THEN "ok" ELSE "failed")

heartbeatBlocksSession(t) == t >= 0 /\ now - t < Lease

(* checkAdmission with allowMutual FALSE: no live heartbeat but our own. *)
Admitted(b) == \A c \in Builders \ {b} : ~heartbeatBlocksSession(hb[c])

Beat(b) == [NoEffect EXCEPT !.beat = {b}, !.at = now]

StartBuild(b) ==
    /\ At(b, "idle") /\ bs[b].calls < MaxCalls
    /\ End(b, [Idle(bs[b].fallback, bs[b].calls + 1, None) EXCEPT !.pc = "prepare"])

(* prepareIndexingState.  A session that leaves a READABLE index alone     *)
(* ends; one that clears, or that is not mutual, needs every other         *)
(* heartbeat to have expired; one that continues needs a matching stamp.   *)
DesiredAction(b) ==
    CASE state = "DISABLED"   -> "REBUILD"
      [] IsWriteOnly(state)   -> IfWriteOnly[b]
      [] state = "READABLE"   -> IfReadable[b]

FreshState(b) == IF useQueue /\ Idempotent /\ b \notin Mutual
                 THEN "WRITE_ONLY_WITH_QUEUE" ELSE "WRITE_ONLY"

(* ClearAndMarkIndexWriteOnly, the stamp and the heartbeat. *)
FreshStart(b) ==
    [Beat(b) EXCEPT !.wipe = TRUE, !.forget = TRUE, !.erase = TRUE,
                    !.state = FreshState(b), !.stamp = Method(b)]

(* The mutants: only a session that continues, or only one that clears,    *)
(* looks for others; a mutual session too continues only alone.            *)
NeedsExclusionToContinue(b, continued) == continued /\ ~buildsMutually(b)
NeedsExclusionToClear(b, continued)    == ~continued
NeedsExclusionAlways(b, continued)     == TRUE

NeedsExclusion(b, continued) == ~(buildsMutually(b) /\ continued)

(* setIndexingTypeOrThrow: a build without a stamp is an old records scan. *)
MayTakeOver(b) ==
    \/ stamp = Method(b)
    \/ stamp = None /\ Method(b) = "BY_RECORDS"
    \/ (stamp = None \/ bs[b].fallback) /\ built = {}

(* A mutual policy does not go with a pending queue. *)
QueueForbids(b) == b \in Mutual /\ state = "WRITE_ONLY_WITH_QUEUE"

PrepareReads == {StateKey, StampKey} \cup BeatKeys

(* The first transaction of the session, and what the session is after it. *)
SessionOf(b, queued) ==
    [bs[b] EXCEPT !.pc = IF buildsMutually(b) THEN "claim" ELSE "build",
                  !.queued = queued]

prepareIndexingState(b) ==
    LET continued == DesiredAction(b) = "CONTINUE" IN
    /\ At(b, "prepare")
    /\ \/ /\ state = "READABLE" /\ continued
          /\ Begin(b, PrepareReads, NoEffect, Ending(b, "ok"))
       \/ /\ ~(state = "READABLE" /\ continued)
          /\ NeedsExclusion(b, continued) /\ ~Admitted(b)
          /\ End(b, Ending(b, "failed"))
       \/ /\ ~continued
          /\ NeedsExclusion(b, continued) => Admitted(b)
          /\ Begin(b, PrepareReads, FreshStart(b),
                   SessionOf(b, FreshState(b) = "WRITE_ONLY_WITH_QUEUE"))
       \/ /\ continued /\ IsWriteOnly(state)
          /\ NeedsExclusion(b, continued) => Admitted(b)
          /\ \/ QueueForbids(b) /\ End(b, Ending(b, "failed"))
             \/ /\ ~QueueForbids(b) /\ ~MayTakeOver(b)
                /\ End(b, PartlyBuilt(b, IF stamp = None THEN "BY_RECORDS" ELSE stamp))
             \/ /\ ~QueueForbids(b) /\ MayTakeOver(b)
                /\ Begin(b, PrepareReads
                               \cup (IF stamp = Method(b) THEN {} ELSE RangeKeys(Keys)),
                         IF stamp = Method(b) THEN Beat(b)
                         ELSE [Beat(b) EXCEPT !.stamp = Method(b)],
                         SessionOf(b, state = "WRITE_ONLY_WITH_QUEUE"))

-----------------------------------------------------------------------------
(* Every transaction of a session validates it first: the state is the one *)
(* the session started with, the stamp is still of its method, and no      *)
(* other heartbeat is live unless the build is mutual.                     *)
ExpectedState(b) == IF bs[b].queued THEN "WRITE_ONLY_WITH_QUEUE" ELSE "WRITE_ONLY"

StampHolds(b) == stamp = Method(b) \/ (stamp = None /\ Method(b) = "BY_RECORDS")

validateBuildSession(b) ==
    /\ state = ExpectedState(b) /\ StampHolds(b)
    /\ ~buildsMutually(b) => Admitted(b)

SessionError(b) ==
    IF state # ExpectedState(b) THEN UnexpectedState(b)
    ELSE IF ~StampHolds(b) THEN PartlyBuilt(b, stamp)
    ELSE Ending(b, "failed")

SessionReads(b) == {StateKey, StampKey} \cup (IF buildsMutually(b) THEN {} ELSE BeatKeys)

(* The first missing range inside S. *)
FirstMissing(S) ==
    LET lo == Min(S \ built) IN {k \in S : lo <= k /\ (lo .. k) \cap built = {}}

(* One chunk of a range: at most Limit records, fewer when the transaction *)
(* reaches its time or write limit; the record after them ends the chunk.  *)
(* A cut of 0 is a chunk that reaches the end of the range.                *)
Present(S) == {k \in S : records[k] # None}

(* The mutant: a chunk may end before its first record. *)
CutsEmpty(S) ==
    LET below(k) == Cardinality({j \in Present(S) : j < k}) IN
    {k \in Present(S) : below(k) \in 0 .. Limit}
        \cup (IF Cardinality(Present(S)) <= Limit THEN {0} ELSE {})

Cuts(S) ==
    LET below(k) == Cardinality({j \in Present(S) : j < k}) IN
    {k \in Present(S) : below(k) \in 1 .. Limit}
        \cup (IF Cardinality(Present(S)) <= Limit THEN {0} ELSE {})

UpTo(S, cut) == IF cut = 0 THEN S ELSE {k \in S : k < cut}

(* A snapshot scan of an idempotent build conflicts on the records it      *)
(* indexes; the serializable scan of another conflicts on all it passed.   *)
ScanReads(S, cut) ==
    RecKeys(IF Idempotent THEN Present(UpTo(S, cut))
            ELSE UpTo(S, cut) \cup {k \in S : k = cut})

(* maintainer.Update(nil, record) for each record of the chunk, in key     *)
(* order.                                                                  *)
ScanOps(S) ==
    LET scan[k \in 0 .. N] ==
            IF k = 0 THEN << >>
            ELSE IF k \in Present(S) THEN Append(scan[k - 1], <<k, None, records[k]>>)
                                     ELSE scan[k - 1]
    IN  scan[N]

Chunk(b, S, cut) ==
    [Beat(b) EXCEPT !.built = UpTo(S, cut), !.ops = ScanOps(UpTo(S, cut))]

(* What a session does after its last range, and after each one. *)
Then(b, pc) ==
    IF bs[b].queued THEN [bs[b] EXCEPT !.pc = "drain", !.after = pc]
                    ELSE [bs[b] EXCEPT !.pc = pc]

(* buildRange: the chunk that begins the first missing range. *)
buildRange(b) ==
    /\ At(b, "build")
    /\ \/ ~validateBuildSession(b) /\ End(b, SessionError(b))
       \/ /\ validateBuildSession(b) /\ built = Keys
          /\ Begin(b, SessionReads(b) \cup RangeKeys(Keys), Beat(b), Then(b, "publish"))
       \/ /\ validateBuildSession(b) /\ built # Keys
          /\ LET S == FirstMissing(Keys) IN
             \E cut \in Cuts(S) :
                Begin(b, SessionReads(b) \cup RangeKeys(Keys) \cup ScanReads(S, cut),
                      Chunk(b, S, cut),
                      Then(b, IF cut = 0 /\ N \in S THEN "publish" ELSE "build"))

(* drainPendingIndexWrites: the entries are replayed in order and removed  *)
(* in one transaction; a scan that was not cut short also saw the end of   *)
(* the queue, and the drain is over.                                       *)
DrainReads(n, short) == {QueueKey} \cup IF short THEN {} ELSE {TailKey}

Replay(n) == SubSeq(queue, 1, n)

drainPendingIndexWrites(b) ==
    /\ At(b, "drain")
    /\ IF ~validateBuildSession(b) THEN End(b, Ending(b, "failed"))
       ELSE \E n \in 0 .. Len(queue), short \in BOOLEAN :
               /\ IF short THEN n > 0 ELSE n = Len(queue)
               /\ Begin(b, SessionReads(b) \cup DrainReads(n, short),
                        [Beat(b) EXCEPT !.ops = Replay(n), !.deq = n],
                        IF short THEN bs[b] ELSE [bs[b] EXCEPT !.pc = bs[b].after])

-----------------------------------------------------------------------------
(* A mutual build: the key space is cut into fragments, visited from a     *)
(* random one with a step coprime to their number: first the fragments     *)
(* nothing of which is built, then whatever a peer has left.               *)
FragmentCount == Cardinality(Boundaries)

Fragment(i) ==
    {k \in Keys : Cardinality({c \in Boundaries : c <= k}) = i + 1}

CoprimeSteps ==
    IF FragmentCount <= 1 THEN {1}
    ELSE {s \in 1 .. FragmentCount - 1 :
             \A d \in 2 .. FragmentCount : ~(s % d = 0 /\ FragmentCount % d = 0)}

(* The walk after i advances; each return to the first fragment moves on a *)
(* phase.                                                                  *)
Advance(w, i) ==
    LET pos(j) == (w.cur + j * w.step) % FragmentCount IN
    [w EXCEPT !.cur = pos(i),
              !.phase = @ + Cardinality({j \in 1 .. i : pos(j) = w.first})]

ClaimAt(w) ==
    LET fragment == Fragment(w.cur) IN
    IF w.phase = 0 THEN IF fragment \cap built = {} THEN fragment ELSE {}
    ELSE IF fragment \subseteq built THEN {} ELSE FirstMissing(fragment)

(* nextClaim: the first position of the first two phases with a claim. *)
HasClaim(w) == w.phase < 2 /\ ClaimAt(w) # {}

FirstClaim(w, i) ==
    HasClaim(Advance(w, i)) /\ \A j \in 0 .. i - 1 : ~HasClaim(Advance(w, j))

Walks(b) ==
    IF bs[b].walk # NoWalk THEN {bs[b].walk}
    ELSE {[first |-> f, step |-> s, cur |-> f, phase |-> 0] :
             f \in 0 .. FragmentCount - 1, s \in CoprimeSteps}

(* claimNextRange: writes nothing unless the build is complete. *)
claimNextRange(b) ==
    /\ At(b, "claim")
    /\ \/ ~IsWriteOnly(state) /\ End(b, UnexpectedState(b))
       \/ /\ IsWriteOnly(state) /\ built = Keys
          /\ IF validateBuildSession(b)
             THEN Begin(b, SessionReads(b) \cup RangeKeys(Keys), Beat(b),
                        [bs[b] EXCEPT !.pc = "publish"])
             ELSE End(b, SessionError(b))
       \/ /\ IsWriteOnly(state) /\ built # Keys
          /\ \E w \in Walks(b) :
                \/ /\ \A i \in 0 .. 2 * FragmentCount : ~HasClaim(Advance(w, i))
                   /\ End(b, Ending(b, "third iteration"))
                \/ \E i \in 0 .. 2 * FragmentCount :
                      /\ FirstClaim(w, i)
                      /\ Begin(b, {StateKey} \cup RangeKeys(Keys), NoEffect,
                               [bs[b] EXCEPT !.pc = "fragment", !.walk = Advance(w, i),
                                             !.claimed = ClaimAt(Advance(w, i))])

(* The mutant: the range set is read without a conflict. *)
FragmentReadsNothing(b, S) == SessionReads(b)

(* buildClaimedRange: a chunk of the claim's first missing range. *)
FragmentReads(b, S) == SessionReads(b) \cup RangeKeys(S)

buildClaimedRange(b) ==
    LET claim == bs[b].claimed
        drop  == [bs[b] EXCEPT !.pc = "claim", !.claimed = {}]
    IN
    /\ At(b, "fragment")
    /\ \/ ~validateBuildSession(b) /\ End(b, SessionError(b))
       \/ /\ validateBuildSession(b) /\ claim \subseteq built
          /\ Begin(b, FragmentReads(b, claim), Beat(b), drop)
       \/ /\ validateBuildSession(b) /\ ~(claim \subseteq built)
          /\ LET S == FirstMissing(claim) IN
             \E cut \in Cuts(S) :
                Begin(b, FragmentReads(b, claim) \cup ScanReads(S, cut), Chunk(b, S, cut),
                      IF cut = 0 /\ Max(claim) \in S THEN drop ELSE bs[b])

-----------------------------------------------------------------------------
(* markReadable: the queue is drained once more, and the index published   *)
(* in the transaction that finds the range set complete and the queue      *)
(* empty; a queue of ours that filled up meanwhile is drained again.  The  *)
(* mutant: a complete range set is taken for a published index.            *)
PublishSkipped(b) ==
    /\ At(b, "publish")
    /\ End(b, Ending(b, "ok"))

publish(b) ==
    /\ At(b, "publish")
    /\ End(b, Then(b, "mark"))

(* The mutant: the look into the queue adds no conflict. *)
MarkReadsNoQueue == {StateKey} \cup RangeKeys(Keys)

MarkReads == {StateKey, QueueKey, TailKey} \cup RangeKeys(Keys)

MarkIndexReadable ==
    [NoEffect EXCEPT !.state = "READABLE", !.forget = TRUE, !.erase = TRUE]

(* checkIndexBuilt: no missing range. *)
IndexBuilt == built = Keys

markReadable(b) ==
    /\ At(b, "mark")
    /\ \/ /\ state = "READABLE"
          /\ Begin(b, {StateKey}, [NoEffect EXCEPT !.erase = TRUE], Ending(b, "ok"))
       \/ state # "READABLE" /\ ~IndexBuilt /\ End(b, Ending(b, "failed"))
       \/ /\ state # "READABLE" /\ IndexBuilt /\ queue # << >>
          /\ End(b, IF bs[b].queued THEN Then(b, "mark") ELSE Ending(b, "failed"))
       \/ /\ state # "READABLE" /\ IndexBuilt /\ queue = << >>
          /\ Begin(b, MarkReads, MarkIndexReadable, Ending(b, "ok"))

(* The heartbeat is read before it is cleared, so that a clear that lands  *)
(* late conflicts with the heartbeat of the next session.                  *)
CleanupReads(b) == {BeatKey(b)}

AfterAttempt(b) ==
    IF bs[b].result = "retry"
    THEN [Idle(bs[b].fallback, bs[b].calls, None) EXCEPT !.pc = "prepare"]
    ELSE Idle(bs[b].fallback, bs[b].calls, bs[b].result)

cleanupHeartbeat(b) ==
    /\ At(b, "cleanup")
    /\ Begin(b, CleanupReads(b), [NoEffect EXCEPT !.unbeat = {b}], AfterAttempt(b))

CommitBuild(b) ==
    /\ MayCommit(tx[b])
    /\ Apply(b, tx[b].effect)
    /\ tx' = [Conflicts(b, tx[b].effect) EXCEPT ![b] = NoTx]
    /\ late' = LateConflicts(tx[b].effect)
    /\ bs' = [bs EXCEPT ![b] = tx[b].next]
    /\ UNCHANGED <<now, writes, useQueue>>

(* commit_unknown_result: the commit is applied and run calls again. *)
CommitUnknown(b) ==
    /\ "unknown" \in Faults /\ MayCommit(tx[b])
    /\ bs[b].pc # "cleanup" /\ WriteSet(tx[b].effect) # {}
    /\ Apply(b, tx[b].effect)
    /\ tx' = [Conflicts(b, tx[b].effect) EXCEPT ![b] = NoTx]
    /\ late' = LateConflicts(tx[b].effect)
    /\ UNCHANGED <<now, bs, writes, useQueue>>

(* The cleanup's deadline passes with its commit on the way. *)
GiveUpCleanup(b) ==
    /\ "detach" \in Faults /\ bs[b].pc = "cleanup" /\ tx[b].open /\ late[b] = None
    /\ late' = [late EXCEPT ![b] = IF tx[b].conflict THEN None ELSE "open"]
    /\ tx' = [tx EXCEPT ![b] = NoTx]
    /\ bs' = [bs EXCEPT ![b] = AfterAttempt(b)]
    /\ UNCHANGED <<store, now, writes, useQueue>>

LateCleanup(b) ==
    LET e == [NoEffect EXCEPT !.unbeat = {b}] IN
    /\ late[b] = "open"
    /\ Apply(None, e)
    /\ tx' = Conflicts(None, e)
    /\ late' = [late EXCEPT ![b] = None]
    /\ UNCHANGED <<now, bs, writes, useQueue>>

LateCleanupRefused(b) ==
    /\ late[b] = "conflict"
    /\ late' = [late EXCEPT ![b] = None]
    /\ UNCHANGED <<store, now, tx, bs, writes, useQueue>>

(* A time limit, or an error that exhausted its retries. *)
AttemptFails(b) ==
    /\ "fail" \in Faults /\ ~tx[b].open
    /\ bs[b].pc \in {"build", "drain", "claim", "fragment", "mark"}
    /\ End(b, Ending(b, "failed"))

Crash(b) ==
    /\ "crash" \in Faults /\ bs[b].pc \notin {"idle", "dead"}
    /\ bs' = [bs EXCEPT ![b].pc = "dead", ![b].result = None]
    /\ tx' = [tx EXCEPT ![b] = NoTx]
    /\ UNCHANGED <<store, now, late, writes, useQueue>>

Tick ==
    /\ now < MaxTime
    /\ now' = now + 1
    /\ UNCHANGED <<store, tx, late, bs, writes, useQueue>>

-----------------------------------------------------------------------------
Init ==
    /\ records = InitRecords
    /\ index = EmptyIndex /\ built = {} /\ state = "DISABLED" /\ stamp = None
    /\ queue = << >> /\ hb = [b \in Builders |-> -1]
    /\ now = 0 /\ writes = 0 /\ useQueue \in UseQueue
    /\ tx = [p \in Procs |-> NoTx]
    /\ late = [b \in Builders |-> None]
    /\ bs = [b \in Builders |-> Idle(FALSE, 0, None)]

Work(b) ==
    \/ prepareIndexingState(b) \/ buildRange(b) \/ drainPendingIndexWrites(b)
    \/ claimNextRange(b) \/ buildClaimedRange(b) \/ publish(b) \/ markReadable(b)
    \/ cleanupHeartbeat(b)

Next ==
    \/ \E w \in Writers, k \in Keys, v \in Vals : saveRecord(w, k, v)
    \/ \E w \in Writers, k \in Keys : deleteRecord(w, k)
    \/ \E w \in Writers : CommitSave(w)
    \/ \E p \in Procs : Retry(p)
    \/ \E b \in Builders :
          \/ StartBuild(b) \/ Work(b) \/ CommitBuild(b) \/ CommitUnknown(b)
          \/ GiveUpCleanup(b) \/ LateCleanup(b) \/ LateCleanupRefused(b)
          \/ AttemptFails(b) \/ Crash(b)
    \/ MarkIndexDisabled
    \/ Tick

Spec == Init /\ [][Next]_vars

(* A builder's goroutine keeps running and its commits are answered.       *)
(* Writers, calls, the clock and the faults are left to themselves.        *)
FairSpec ==
    Spec /\ \A b \in Builders : WF_vars(Work(b) \/ CommitBuild(b) \/ Retry(b))

-----------------------------------------------------------------------------
(* Every commit keeps the store typed, and no heartbeat is from the future. *)
TypeOK ==
    /\ records \in [Keys -> Vals \cup {None}]
    /\ index \in [Keys -> [Vals -> Int]]
    /\ built \subseteq Keys
    /\ state \in {"DISABLED", "WRITE_ONLY", "WRITE_ONLY_WITH_QUEUE", "READABLE"}
    /\ stamp \in {None, "BY_RECORDS", "MUTUAL_BY_RECORDS"}
    /\ queue \in Seq(Keys \X (Vals \cup {None}) \X (Vals \cup {None}))
    /\ hb \in [Builders -> -1 .. now] /\ now \in 0 .. MaxTime
    /\ late \in [Builders -> {None, "open", "conflict"}]
    /\ useQueue \in UseQueue /\ writes \in Nat

Contribution(k, v) == IF records[k] = v THEN 1 ELSE 0

(* A readable index agrees with the records: each record is in it once,    *)
(* under its own value, and nothing else is, whatever writes, retries,     *)
(* takeovers and crashes the build went through (MarkIndexReadable).       *)
ReadableAgrees ==
    state = "READABLE" =>
        \A k \in Keys, v \in Vals : index[k][v] = Contribution(k, v)

(* While the index is being built, what the range set calls built is       *)
(* exactly indexed once the queue is replayed, and of the rest a COUNT     *)
(* index counts nothing and a VALUE index has no entry that is not a       *)
(* record's: so a build may stop after any commit and be continued.        *)
BuiltAgrees ==
    IsWriteOnly(state) =>
        LET replayed == UpdateAll(index, queue) IN
        \A k \in Keys, v \in Vals :
            /\ k \in built => replayed[k][v] = Contribution(k, v)
            /\ k \notin built =>
                  IF Idempotent THEN replayed[k][v] <= Contribution(k, v)
                                ELSE replayed[k][v] = 0

(* Two heartbeats are live at once only when both sessions are mutual: an  *)
(* exclusive session shares the index with nobody, though its lease is     *)
(* checked in one transaction and renewed in the next.                     *)
ExclusiveAlone ==
    \A b, c \in Builders :
        b # c /\ heartbeatBlocksSession(hb[b]) /\ heartbeatBlocksSession(hb[c])
            => buildsMutually(b) /\ buildsMutually(c)

(* A session never clears the index under a peer whose heartbeat is live,  *)
(* mutual or not.                                                          *)
NoResetUnderLive ==
    [][\A b \in Builders :
          (CommitBuild(b) \/ CommitUnknown(b)) /\ tx[b].effect.wipe
              => \A c \in Builders \ {b} : ~heartbeatBlocksSession(hb[c])]_vars

InSession(b) == bs[b].pc \in {"build", "drain", "claim", "fragment", "publish", "mark"}

(* A live heartbeat of a session that is building is removed only by a     *)
(* change of the index state: not by the cleanup of an earlier attempt of  *)
(* the same indexer that lands late, and not by a peer.                    *)
BeatSurvives ==
    [][\A b \in Builders :
          InSession(b) /\ heartbeatBlocksSession(hb[b]) /\ hb'[b] = -1
              => state' # state]_vars

(* Where nothing resets the index, a call that reports success leaves it   *)
(* readable, also one that ends because its peers published it.            *)
SuccessIsReadable ==
    \A b \in Builders : bs[b].result = "ok" => state = "READABLE"

(* A call of BuildIndex ends, however writers and peers interfere: every   *)
(* transaction it has to repeat was beaten by one that made progress, and  *)
(* no chunk is empty (BuildIndex, markReadable's drain loop).              *)
BuildEnds ==
    \A b \in Builders : bs[b].pc = "prepare" ~> bs[b].pc \in {"idle", "dead"}

(* Where every build is mutual and nothing else fails, the index becomes   *)
(* readable once a peer survives: it takes over what crashed peers had     *)
(* claimed, in part or in whole.                                           *)
SurvivorFinishes ==
    \A b \in Builders : bs[b].pc = "prepare" ~> (bs[b].pc = "dead" \/ state = "READABLE")

=============================================================================
