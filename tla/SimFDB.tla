------------------------------- MODULE SimFDB -------------------------------
(***************************************************************************)
(* The in-memory multi-version database of pkg/simfdb: transaction handles *)
(* (simTxn), the versioned store (mvccStore) and the serializable-snapshot *)
(* commit (SimDB.commit) under the commit-time faults of pkg/dst.          *)
(*                                                                         *)
(* Every method of the code that holds db.mu is one action.  A handle is   *)
(* used by one goroutine, so its calls are atomic to each other, and calls *)
(* on different handles interleave freely; Cancel is the only call another *)
(* goroutine may make on a handle.  ensureReadVersion locks db.mu on its   *)
(* own before the call that needs it: GetReadVersion(t), which changes     *)
(* nothing else, followed by the other call is that interleaving.          *)
(*                                                                         *)
(* Data.  A key is an integer (byte order is integer order).  A conflict   *)
(* range is the set of keys it covers, since commit only asks whether two  *)
(* ranges intersect.  The write buffer, a list of mutations that is always *)
(* replayed from its start, is kept per key as the composition of the      *)
(* mutations on that key: a function from the base value to the result,    *)
(* with the dependent/independent class of ryw_conflict.go.                *)
(***************************************************************************)
EXTENDS Integers, Sequences, FiniteSets

CONSTANTS
  Txn,          \* the transaction handles
  Calls,        \* the calls this workload makes, a subset of CallNames
  NKeys,        \* keys are 1..NKeys
  ValueMod,     \* stored integers are 0..ValueMod-1; Add wraps at this width
  Absent,       \* no value: a missing or cleared key
  AtomicOps,    \* the atomic mutations callers use, a subset of AtomicNames
  Operands,     \* the values callers pass to Set and to atomic mutations
  RowLimits,    \* the row limits callers pass to GetRange
  Faults,       \* the faults a commit may meet, a subset of FaultCodes
  Oversized,    \* the keys longer than keySizeLimit
  RYWDisabled,  \* the handles opened with SetReadYourWritesDisable
  WriteConflictsDisabled, \* the handles opened with SetWriteConflictsDisabled
  RetryLimit,   \* the retry_limit option; negative is unlimited
  MVCCWindow,   \* mvccWindow, in versions
  MaxClock,     \* bound on the simulated clock; 0 when no Clock is installed
  MaxVersion,   \* bound on commit versions
  MaxRetries,   \* bound on the retries counted on one handle
  MaxOps        \* bound on the reads and writes issued on one handle

Keys == 1..NKeys
Values == 0..(ValueMod - 1)
Val == Values \cup {Absent}

CallNames ==
  {"get", "getRange", "snapshot", "getReadVersion", "setReadVersion",
   "addReadConflict", "addWriteConflict", "set", "clearRange", "atomic",
   "noWriteConflict", "cancel", "reset", "onError", "close"}

AtomicNames == {"add", "max", "compareAndClear"}

\* The branch-explicit forms of commit_unknown_result (simfdb.go).
UnknownApplied == -1021
UnknownDiscarded == -1022
FaultCodes == {0, 1007, 1009, 1020, 1039, UnknownApplied, UnknownDiscarded}

ASSUME ConstantsAssumption ==
  /\ Calls \subseteq CallNames
  /\ NKeys \in Nat \ {0}
  /\ ValueMod \in Nat \ {0}
  /\ Absent \notin Values
  /\ AtomicOps \subseteq AtomicNames
  /\ Operands \subseteq Values
  /\ RowLimits \subseteq Nat \ {0}
  /\ Faults \subseteq FaultCodes
  /\ Oversized \subseteq Keys
  /\ RYWDisabled \subseteq Txn
  /\ WriteConflictsDisabled \subseteq Txn
  /\ RetryLimit \in Int
  /\ MVCCWindow \in Nat
  /\ MaxClock \in Nat
  /\ MaxVersion \in Nat
  /\ MaxRetries \in Nat
  /\ MaxOps \in Nat

VARIABLES
  store,        \* mvccStore: per key, its versions in commit order
  lastVersion,  \* the commit counter
  recentWrites, \* the write-conflict keys of every commit, by version
  closed,       \* SimDB.closed
  clock,        \* clockVersion()
  tx,           \* the handles
  observed,     \* history: the stored values each handle's reads depend on
  owed,         \* history: keys a retry owes to an attempt that ended 1021
  unguarded,    \* history: writes that logged no write-conflict range
  log           \* history: the commits that were applied

dbvars == <<store, lastVersion, recentWrites, closed, clock>>
history == <<observed, owed, unguarded, log>>
vars == <<store, lastVersion, recentWrites, closed, clock, tx,
          observed, owed, unguarded, log>>

-----------------------------------------------------------------------------
(* The pending mutations of one key. *)

Kinds == {"none", "independent", "dependent", "cleared"}
Pending == [kind : Kinds, fn : [Val -> Val]]

NoMutation == [kind |-> "none", fn |-> [v \in Val |-> v]]
Setting(x) == [kind |-> "independent", fn |-> [v \in Val |-> x]]
Clearing == [kind |-> "cleared", fn |-> [v \in Val |-> Absent]]

\* Mutant: an addition that does not wrap at its width.
doAddUnwrapped(x) == [v \in Val |-> IF v = Absent THEN x ELSE v + x]
doAdd(x) == [v \in Val |-> IF v = Absent THEN x ELSE (v + x) % ValueMod]
doMax(x) == [v \in Val |-> IF v # Absent /\ v > x THEN v ELSE x]
doCompareAndClear(x) == [v \in Val |-> IF v = x THEN Absent ELSE v]

applyAtomic(op, x) ==
  CASE op = "add" -> doAdd(x)
    [] op = "max" -> doMax(x)
    [] op = "compareAndClear" -> doCompareAndClear(x)

\* An atomic folds onto what is pending.  Alone it is dependent on the stored
\* base; over a cleared base or over a Set it is independent.
FoldAtomic(p, f) ==
  [kind |-> CASE p.kind = "none" -> "dependent"
              [] p.kind = "cleared" -> "independent"
              [] OTHER -> p.kind,
   fn |-> [v \in Val |-> f[p.fn[v]]]]

\* conflictForKeyDirect: an unmodified key or a dependent operation.
conflictForKey(p) == p.kind \in {"none", "dependent"}

-----------------------------------------------------------------------------
(* The versioned store. *)

Version == [version : Nat, value : Val]

\* valueAt: the newest version not above rv.
valueAt(h, rv) ==
  LET visible == {i \in DOMAIN h : h[i].version <= rv}
  IN  IF visible = {} THEN Absent
      ELSE h[CHOOSE i \in visible : \A j \in visible : j <= i].value

put(h, value, version) == Append(h, [version |-> version, value |-> value])

latestVersion == IF clock > lastVersion THEN clock ELSE lastVersion

-----------------------------------------------------------------------------
(* A handle, and the methods of simTxn that only change the handle. *)

Handle ==
  [rvSet : BOOLEAN, readVersion : Nat, buffer : [Keys -> Pending],
   readConflicts : SUBSET Keys, writeConflicts : SUBSET Keys,
   nextWriteNoConflict : BOOLEAN, committed : BOOLEAN,
   committedVersion : Int, cancelled : BOOLEAN, retryCount : Nat,
   err : Nat, ops : Nat,
   ahead : BOOLEAN]  \* history: the pin was moved, or put above the last commit

EmptyBuffer == [k \in Keys |-> NoMutation]

newTxn ==
  [rvSet |-> FALSE, readVersion |-> 0, buffer |-> EmptyBuffer,
   readConflicts |-> {}, writeConflicts |-> {},
   nextWriteNoConflict |-> FALSE, committed |-> FALSE,
   committedVersion |-> 0, cancelled |-> FALSE, retryCount |-> 0,
   err |-> 0, ops |-> 0, ahead |-> FALSE]

ensureReadVersion(h) ==
  IF h.rvSet THEN h
  ELSE [h EXCEPT !.rvSet = TRUE, !.readVersion = latestVersion,
                 !.ahead = latestVersion > lastVersion]

postCommitReset(h) ==
  [h EXCEPT !.rvSet = FALSE, !.readVersion = 0, !.buffer = EmptyBuffer,
            !.readConflicts = {}, !.writeConflicts = {}, !.ahead = FALSE]

resetState(h) ==
  [h EXCEPT !.rvSet = FALSE, !.readVersion = 0, !.buffer = EmptyBuffer,
            !.readConflicts = {}, !.writeConflicts = {},
            !.nextWriteNoConflict = FALSE, !.committed = FALSE,
            !.committedVersion = 0, !.cancelled = FALSE,
            !.err = 0, !.ahead = FALSE]

\* enqueue: the write-conflict range is skipped by the one-shot option, which
\* any write disarms, and by SetWriteConflictsDisabled.
enqueue(h, t, K, buf) ==
  [h EXCEPT !.buffer = buf,
            !.nextWriteNoConflict = FALSE,
            !.writeConflicts =
               IF h.nextWriteNoConflict \/ t \in WriteConflictsDisabled
               THEN @ ELSE @ \cup K,
            !.err = 0, !.ops = @ + 1]

\* The read-conflict keys of a read of K, filtered through the write map.
filteredConflict(t, h, K) ==
  IF t \in RYWDisabled THEN K ELSE {k \in K : conflictForKey(h.buffer[k])}

\* resolveKey: the stored value at the read version, own writes replayed.
resolveKey(t, h, k) ==
  LET base == valueAt(store[k], h.readVersion)
  IN  IF t \in RYWDisabled THEN base ELSE h.buffer[k].fn[base]

maybeCommitted(code) == code \in {1021, 1039}
IsOnErrorRetryable(code) == code \in {1007, 1009, 1020, 1021, 1039}

-----------------------------------------------------------------------------
(* History: what a read of K by t learned about the database.  A key that  *)
(* is written so that the result is the same whatever is stored teaches    *)
(* nothing; this is stated over the pending function, not over its class.  *)

DependsOnBase(t, p) ==
  t \in RYWDisabled \/ \E v, w \in Val : p.fn[v] # p.fn[w]

Learned(t, h, K) ==
  {<<k, valueAt(store[k], h.readVersion)>> :
     k \in {x \in K : DependsOnBase(t, h.buffer[x])}}

-----------------------------------------------------------------------------
(* Reads. *)

Init ==
  /\ store = [k \in Keys |-> <<>>]
  /\ lastVersion = 0
  /\ recentWrites = {}
  /\ closed = FALSE
  /\ clock = 0
  /\ tx = [t \in Txn |-> newTxn]
  /\ observed = [t \in Txn |-> {}]
  /\ owed = [t \in Txn |-> {}]
  /\ unguarded = {}
  /\ log = {}

\* A call that only reports an error to its caller.
Fail(t, code) ==
  /\ tx' = [tx EXCEPT ![t].err = code]
  /\ UNCHANGED <<dbvars, history>>

\* Every read entry point checks for cancellation before it does anything.
ReadCancelled(t) == tx[t].cancelled /\ Fail(t, 1025)

\* A read of K that takes the given read conflict.
ReadKeys(t, h, K, conflict, snapshot) ==
  /\ tx' = [tx EXCEPT ![t] =
              [h EXCEPT !.readConflicts = IF snapshot THEN @ ELSE @ \cup conflict,
                        !.err = 0, !.ops = @ + 1]]
  /\ observed' = [observed EXCEPT ![t] =
                    IF snapshot THEN @ ELSE @ \cup Learned(t, h, K)]
  /\ UNCHANGED <<dbvars, owed, unguarded, log>>

get(t, k, snapshot) ==
  /\ tx[t].ops < MaxOps
  /\ ~tx[t].cancelled
  /\ LET h == ensureReadVersion(tx[t])
     IN  ReadKeys(t, h, {k}, filteredConflict(t, h, {k}), snapshot)

\* rangeRows: the live keys of lo..hi in read order, up to the limit.
Live(t, h, lo, hi) == {k \in lo..hi : resolveKey(t, h, k) # Absent}

rangeRows(t, h, lo, hi, limit, reverse) ==
  LET live == Live(t, h, lo, hi)
  IN  {k \in live :
         Cardinality({j \in live : IF reverse THEN j >= k ELSE j <= k}) <= limit}

\* Mutant: a conflict on the returned rows only, not on the gaps between them.
rangeConflictRows(lo, hi, rows, more, reverse) == rows

\* A read that met its limit conflicts up to its last row, any other read over
\* the whole requested range.
rangeConflictExtent(lo, hi, rows, more, reverse) ==
  IF ~more \/ rows = {} THEN lo..hi
  ELSE {k \in lo..hi : \E r \in rows : IF reverse THEN r <= k ELSE k <= r}

\* History: the keys whose presence or absence a batch of rows tells.
Told(lo, hi, rows, more, reverse) ==
  {k \in lo..hi : more => \E r \in rows : IF reverse THEN r <= k ELSE k <= r}

\* One batch of a range read; a later batch of an iterator is another call,
\* over the rest of the range.
getRange(t, lo, hi, limit, reverse, snapshot) ==
  /\ tx[t].ops < MaxOps
  /\ ~tx[t].cancelled
  /\ LET h == ensureReadVersion(tx[t])
         rows == rangeRows(t, h, lo, hi, limit, reverse)
         more == Cardinality(rows) = limit
     IN  ReadKeys(t, h, Told(lo, hi, rows, more, reverse),
                  filteredConflict(t, h,
                    rangeConflictExtent(lo, hi, rows, more, reverse)),
                  snapshot)

GetReadVersion(t) ==
  /\ ~tx[t].cancelled
  /\ tx' = [tx EXCEPT ![t] = [ensureReadVersion(@) EXCEPT !.err = 0]]
  /\ UNCHANGED <<dbvars, history>>

\* Any version, at any time: a later pin moves the snapshot of reads already
\* made, and a version above the last commit names a snapshot yet to be written.
SetReadVersion(t, v) ==
  /\ tx' = [tx EXCEPT ![t].rvSet = TRUE, ![t].readVersion = v,
                      ![t].ahead = @ \/ v > lastVersion
                                     \/ (tx[t].rvSet /\ v # tx[t].readVersion)]
  /\ UNCHANGED <<dbvars, history>>

\* An explicit read conflict, filtered like an implicit one.  It turns what a
\* snapshot read already learned into a dependency.
AddReadConflictRange(t, lo, hi) ==
  /\ tx[t].ops < MaxOps
  /\ tx' = [tx EXCEPT ![t].readConflicts =
                         @ \cup filteredConflict(t, tx[t], lo..hi),
                      ![t].ops = @ + 1]
  /\ observed' = [observed EXCEPT ![t] =
       IF tx[t].rvSet THEN @ \cup Learned(t, tx[t], lo..hi) ELSE @]
  /\ UNCHANGED <<dbvars, owed, unguarded, log>>

-----------------------------------------------------------------------------
(* Writes. *)

Write(t, K, buf) ==
  /\ tx[t].ops < MaxOps
  /\ tx' = [tx EXCEPT ![t] = enqueue(@, t, K, buf)]
  /\ UNCHANGED <<dbvars, history>>

Set(t, k, x) ==
  Write(t, {k}, [tx[t].buffer EXCEPT ![k] = Setting(x)])

ClearRange(t, lo, hi) ==
  Write(t, lo..hi,
        [k \in Keys |-> IF k \in lo..hi THEN Clearing ELSE tx[t].buffer[k]])

Atomic(t, k, op, x) ==
  Write(t, {k}, [tx[t].buffer EXCEPT ![k] = FoldAtomic(@, applyAtomic(op, x))])

AddWriteConflictRange(t, lo, hi) ==
  /\ tx[t].ops < MaxOps
  /\ tx' = [tx EXCEPT ![t].writeConflicts = @ \cup lo..hi, ![t].ops = @ + 1]
  /\ UNCHANGED <<dbvars, history>>

SetNextWriteNoWriteConflictRange(t) ==
  /\ tx' = [tx EXCEPT ![t].nextWriteNoConflict = TRUE]
  /\ UNCHANGED <<dbvars, history>>

-----------------------------------------------------------------------------
(* Commit: Commit() and SimDB.commit, in the order of their checks. *)

Written(h) == {k \in Keys : h.buffer[k].kind # "none"}

\* checkSizeLimits, of which only the key limit is told apart.
TooLarge(h) == Written(h) \cap Oversized # {}

\* Mutant: a window measured against the commits only.
TooOldByCommits(h) ==
  /\ h.readConflicts # {}
  /\ h.readVersion < lastVersion - MVCCWindow

TooOld(h) ==
  /\ h.readConflicts # {}
  /\ h.readVersion < latestVersion - MVCCWindow

\* Mutant: the commit right after the snapshot is skipped.
ConflictsOffByOne(h) ==
  \E w \in recentWrites :
    /\ w.version > h.readVersion + 1
    /\ w.keys \cap h.readConflicts # {}

Conflicts(h) ==
  \E w \in recentWrites :
    /\ w.version > h.readVersion
    /\ w.keys \cap h.readConflicts # {}

\* The verdict of a commit that is not read-only, given the fault it meets.
Verdict(h, fault) ==
  CASE closed -> 1025
    [] ~closed /\ TooLarge(h) -> 2102
    [] ~closed /\ ~TooLarge(h) /\ TooOld(h) -> 1007
    [] ~closed /\ ~TooLarge(h) /\ ~TooOld(h) /\ Conflicts(h) -> 1020
    [] OTHER -> fault

commitVersion == IF clock > lastVersion + 1 THEN clock ELSE lastVersion + 1

ReadOnly(h) == Written(h) = {} /\ h.writeConflicts = {}

\* The handle as db.commit sees it: a committed handle that buffered anew is
\* a new logical transaction, and the read version is pinned.
Committing(h) == ensureReadVersion([h EXCEPT !.committed = FALSE])

CommitCancelled(t) == tx[t].cancelled /\ Fail(t, 1025)

CommitNoop(t) ==
  /\ ~tx[t].cancelled
  /\ tx[t].committed /\ Written(tx[t]) = {}
  /\ tx' = [tx EXCEPT ![t].err = 0]
  /\ UNCHANGED <<dbvars, history>>

\* What reaches db.commit.
Submitted(t) ==
  /\ ~tx[t].cancelled
  /\ ~(tx[t].committed /\ Written(tx[t]) = {})

CommitReadOnly(t) ==
  /\ Submitted(t)
  /\ ~closed
  /\ ReadOnly(tx[t])
  /\ tx' = [tx EXCEPT ![t] = [postCommitReset(@) EXCEPT
              !.committed = TRUE, !.committedVersion = -1, !.err = 0]]
  /\ observed' = [observed EXCEPT ![t] = {}]
  /\ owed' = [owed EXCEPT ![t] = {}]
  /\ UNCHANGED <<dbvars, unguarded, log>>

\* An error before anything is applied; the handle keeps all it had.
CommitRejected(t, fault) ==
  LET h == Committing(tx[t])
      verdict == Verdict(h, fault)
  IN  /\ Submitted(t)
      /\ closed \/ ~ReadOnly(h)
      /\ verdict \notin {0, UnknownApplied}
      /\ tx' = [tx EXCEPT ![t] = [h EXCEPT
                  !.err = IF verdict = UnknownDiscarded THEN 1021 ELSE verdict]]
      /\ UNCHANGED <<dbvars, history>>

\* Mutant: atomics applied to the values of the transaction's own snapshot.
applyAtSnapshot(h, cv) ==
  [k \in Keys |->
     IF k \in Written(h)
     THEN put(store[k], h.buffer[k].fn[valueAt(store[k], h.readVersion)], cv)
     ELSE store[k]]

\* applyMutations at the commit version, on the values already stored.
applyMutations(h, cv) ==
  [k \in Keys |->
     IF k \in Written(h)
     THEN put(store[k], h.buffer[k].fn[valueAt(store[k], cv)], cv)
     ELSE store[k]]

\* Mutant: a lost answer taken for a success.
AnsweredAlways(h, cv, verdict) ==
  [postCommitReset(h) EXCEPT !.committed = TRUE,
                             !.committedVersion = cv, !.err = 0]

\* The handle after a commit that was applied: a lost answer leaves it as it
\* was, an answer advances it.
Answered(h, cv, verdict) ==
  IF verdict = UnknownApplied THEN [h EXCEPT !.err = 1021]
  ELSE [postCommitReset(h) EXCEPT !.committed = TRUE,
                                  !.committedVersion = cv, !.err = 0]

\* History: the record of an applied commit.
Applied(t, h, cv, answered) ==
  [tx |-> t, version |-> cv, readVersion |-> h.readVersion,
   observed |-> observed[t], owed |-> owed[t], ahead |-> h.ahead,
   effect |-> [k \in Keys |-> h.buffer[k].fn],
   reads |-> h.readConflicts # {}, answered |-> answered]

CommitApplied(t, fault) ==
  LET h == Committing(tx[t])
      verdict == Verdict(h, fault)
      cv == commitVersion
      answered == verdict = 0
  IN  /\ Submitted(t)
      /\ ~closed /\ ~ReadOnly(h)
      /\ verdict \in {0, UnknownApplied}
      /\ cv <= MaxVersion
      /\ store' = applyMutations(h, cv)
      /\ recentWrites' = recentWrites \cup
           {[version |-> cv, keys |-> h.writeConflicts]}
      /\ lastVersion' = cv
      /\ tx' = [tx EXCEPT ![t] = Answered(h, cv, verdict)]
      /\ log' = log \cup {Applied(t, h, cv, answered)}
      /\ unguarded' = unguarded \cup
           {<<k, cv>> : k \in Written(h) \ h.writeConflicts}
      /\ observed' = IF answered THEN [observed EXCEPT ![t] = {}] ELSE observed
      /\ owed' = IF answered THEN [owed EXCEPT ![t] = {}] ELSE owed
      /\ UNCHANGED <<closed, clock>>

Commit(t) ==
  \/ CommitCancelled(t)
  \/ CommitNoop(t)
  \/ CommitReadOnly(t)
  \/ \E fault \in Faults : CommitRejected(t, fault) \/ CommitApplied(t, fault)

-----------------------------------------------------------------------------
(* The rest of a handle's life, and the database's own steps. *)

Cancel(t) ==
  /\ tx' = [tx EXCEPT ![t].cancelled = TRUE]
  /\ UNCHANGED <<dbvars, history>>

Reset(t) ==
  /\ tx' = [tx EXCEPT ![t] = [resetState(@) EXCEPT !.retryCount = 0]]
  /\ observed' = [observed EXCEPT ![t] = {}]
  /\ owed' = [owed EXCEPT ![t] = {}]
  /\ UNCHANGED <<dbvars, unguarded, log>>

\* Mutant: a retry that forgets the writes of the unknown attempt.
selfConflictsDropped(h) == {}

\* What OnError carries over from an attempt that may have committed.
selfConflicts(h) == IF maybeCommitted(h.err) THEN h.writeConflicts ELSE {}

\* OnError with the error the last call returned.  Past the retry limit, and
\* on a code that is not retryable, it changes nothing and returns the error.
OnError(t) ==
  /\ IsOnErrorRetryable(tx[t].err)
  /\ RetryLimit >= 0 => tx[t].retryCount < RetryLimit
  /\ tx[t].retryCount < MaxRetries
  /\ tx' = [tx EXCEPT ![t] = [resetState(tx[t]) EXCEPT
              !.readConflicts = selfConflicts(tx[t]),
              !.retryCount = @ + 1]]
  /\ observed' = [observed EXCEPT ![t] = {}]
  /\ owed' = [owed EXCEPT ![t] =
       IF maybeCommitted(tx[t].err) THEN tx[t].writeConflicts ELSE {}]
  /\ UNCHANGED <<dbvars, unguarded, log>>

Close ==
  /\ closed' = TRUE
  /\ UNCHANGED <<store, lastVersion, recentWrites, clock, tx, history>>

\* The driver of a simulation advances the clock or sets it to an instant.
MoveClock ==
  /\ clock' \in 0..MaxClock
  /\ UNCHANGED <<store, lastVersion, recentWrites, closed, tx, history>>

Snapshots == {FALSE} \cup {b \in BOOLEAN : "snapshot" \in Calls}

Read(t) ==
  \/ ReadCancelled(t)
  \/ /\ "get" \in Calls
     /\ \E k \in Keys, snapshot \in Snapshots : get(t, k, snapshot)
  \/ /\ "getRange" \in Calls
     /\ \E lo, hi \in Keys, limit \in RowLimits, reverse \in BOOLEAN,
          snapshot \in Snapshots :
          lo <= hi /\ getRange(t, lo, hi, limit, reverse, snapshot)
  \/ "getReadVersion" \in Calls /\ GetReadVersion(t)
  \/ /\ "setReadVersion" \in Calls
     /\ \E v \in 0..MaxVersion : SetReadVersion(t, v)
  \/ /\ "addReadConflict" \in Calls
     /\ \E lo, hi \in Keys : lo <= hi /\ AddReadConflictRange(t, lo, hi)

Mutate(t) ==
  \/ /\ "addWriteConflict" \in Calls
     /\ \E lo, hi \in Keys : lo <= hi /\ AddWriteConflictRange(t, lo, hi)
  \/ "set" \in Calls /\ \E k \in Keys, x \in Operands : Set(t, k, x)
  \/ /\ "clearRange" \in Calls
     /\ \E lo, hi \in Keys : lo <= hi /\ ClearRange(t, lo, hi)
  \/ /\ "atomic" \in Calls
     /\ \E k \in Keys, op \in AtomicOps, x \in Operands : Atomic(t, k, op, x)
  \/ "noWriteConflict" \in Calls /\ SetNextWriteNoWriteConflictRange(t)

Next ==
  \/ \E t \in Txn :
       \/ Read(t)
       \/ Mutate(t)
       \/ Commit(t)
       \/ "cancel" \in Calls /\ Cancel(t)
       \/ "reset" \in Calls /\ Reset(t)
       \/ "onError" \in Calls /\ OnError(t)
  \/ "close" \in Calls /\ Close
  \/ MoveClock

Spec == Init /\ [][Next]_vars

-----------------------------------------------------------------------------
(* Properties. *)

LogEntry ==
  [tx : Txn, version : Nat, readVersion : Nat, observed : SUBSET (Keys \X Val),
   owed : SUBSET Keys, ahead : BOOLEAN, effect : [Keys -> [Val -> Val]],
   reads : BOOLEAN, answered : BOOLEAN]

\* Every variable has its type.
TypeOK ==
  /\ store \in [Keys -> Seq(Version)]
  /\ lastVersion \in Nat
  /\ recentWrites \subseteq [version : Nat, keys : SUBSET Keys]
  /\ closed \in BOOLEAN
  /\ clock \in Nat
  /\ tx \in [Txn -> Handle]
  /\ observed \in [Txn -> SUBSET (Keys \X Val)]
  /\ owed \in [Txn -> SUBSET Keys]
  /\ unguarded \subseteq Keys \X Nat
  /\ log \subseteq LogEntry

\* Each stored value that the reads of commit e depended on is the value just
\* below its commit version, unless a writer that chose to log no conflict range
\* wrote the key in between.
ReadsCurrent(e) ==
  \A o \in e.observed :
    \/ o[2] = valueAt(store[o[1]], e.version - 1)
    \/ \E u \in unguarded :
         u[1] = o[1] /\ e.readVersion < u[2] /\ u[2] < e.version

\* What a transaction read is still what is stored when its commit is applied,
\* for every transaction whose snapshot was pinned once and not above the last
\* commit of that moment.  Without a Clock only SetReadVersion does otherwise.
\* This is what the readConflicts and recentWrites of SimDB.commit, the
\* write-map filter and the clamped range extents are for.
SerializableReads == \A e \in log : ~e.ahead => ReadsCurrent(e)

\* The same with no transaction left out: SimDB.commit "resolves tx under
\* serializable snapshot isolation" (conflict.go:119), because a transaction's
\* "future commit version is larger than its read version" (conflict.go:183).
CommitResolvesSSI == \A e \in log : ReadsCurrent(e)

\* The store is the replay of the applied commits in version order: at its
\* version each commit changed each key by exactly its own mutations.
SerialHistory ==
  \A e \in log : \A k \in Keys :
    valueAt(store[k], e.version) = e.effect[k][valueAt(store[k], e.version - 1)]

\* A retry after commit_unknown_result never commits over a transaction that
\* wrote, between the retry's read version and its commit, a key the unknown
\* attempt wrote, even if the retry itself reads nothing (OnError's promotion).
RetryIsolated ==
  \A e \in log : \A w \in recentWrites :
    (e.readVersion < w.version /\ w.version < e.version) => w.keys \cap e.owed = {}

\* A handle that reports a committed version names a commit of its own that was
\* applied and answered; after 1021 it reports none.
CommittedIsDurable ==
  \A t \in Txn : (tx[t].committed /\ tx[t].committedVersion # -1) =>
    \E e \in log : /\ e.tx = t
                   /\ e.version = tx[t].committedVersion
                   /\ e.answered

\* No transaction that read commits on a snapshot older than the MVCC window,
\* measured against the clock as well as against the commits.
WindowRespected ==
  \A e \in log : e.reads => e.version - e.readVersion <= MVCCWindow + 1
=============================================================================
