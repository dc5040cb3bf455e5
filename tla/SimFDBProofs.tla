---------------------------- MODULE SimFDBProofs ----------------------------
(***************************************************************************)
(* What valueAt and put do to a key's version chain (store.go), the type   *)
(* invariant of SimFDB, and the safety of its transactions, for every      *)
(* number of handles, keys, calls and versions.                            *)
(*                                                                         *)
(* Every step either leaves a handle in its transaction (Keeps) or gives   *)
(* it a new one (Fresh); only CommitApplied changes the store.  The        *)
(* invariants follow from these two facts: read conflicts only grow while  *)
(* a transaction lasts, and always cover what it observed and what its     *)
(* last maybe-committed attempt wrote.                                     *)
(***************************************************************************)
EXTENDS SimFDB, TLAPS, WellFoundedInduction

\* The natural numbers are well ordered.
LEMMA SmallestNat ==
  ASSUME NEW T, T \subseteq Nat, T # {}
  PROVE  \E m \in T : \A y \in T : m <= y
<1> DEFINE R == OpToRel(<, Nat)
<1>1. PICK m \in T : \A y \in T : ~(<<y, m>> \in R)
  <2> HIDE DEF R
  <2>1. IsWellFoundedOn(R, Nat)
    BY NatLessThanWellFounded DEF R
  <2> QED BY <2>1, WFMin
<1>2. \A y \in T : ~(y < m)
  BY <1>1, Zenon DEF OpToRel
<1>3. \A y \in T : m <= y
  <2> HIDE DEF R
  <2> QED BY <1>2
<1> HIDE DEF R
<1> QED BY <1>3

\* A non-empty set of positions of a sequence has a largest one.
LEMMA LargestIndex ==
  ASSUME NEW n \in Nat, NEW S, S \subseteq 1..n, S # {}
  PROVE  \E i \in S : \A j \in S : j <= i
<1> DEFINE T == {x \in 0..n : n - x \in S}
<1>1. \A j \in S : n - j \in T
  <2> TAKE j \in S
  <2>1. n - j \in 0..n /\ n - (n - j) = j
    OBVIOUS
  <2> QED BY <2>1
<1>2. T \subseteq Nat
  OBVIOUS
<1>3. PICK m \in T : \A y \in T : m <= y
  <2> HIDE DEF T
  <2> QED BY <1>1, <1>2, SmallestNat
<1>4. \A j \in S : j <= n - m
  BY <1>1, <1>3
<1> QED BY <1>4

-----------------------------------------------------------------------------
(* The versioned store. *)

Visible(h, rv) == {i \in DOMAIN h : h[i].version <= rv}

\* What valueAt returns: nothing, or the value of the last visible version.
LEMMA ValueAtMeaning ==
  ASSUME NEW h \in Seq(Version), NEW rv \in Int
  PROVE  \/ Visible(h, rv) = {} /\ valueAt(h, rv) = Absent
         \/ \E i \in Visible(h, rv) : /\ \A j \in Visible(h, rv) : j <= i
                                      /\ valueAt(h, rv) = h[i].value
<1> DEFINE V == Visible(h, rv)
<1>1. Len(h) \in Nat /\ V \subseteq 1..Len(h)
  BY DEF Visible
<1>2. CASE V = {}
  BY <1>2 DEF valueAt, Visible
<1>3. CASE V # {}
  <2> DEFINE m == CHOOSE i \in V : \A j \in V : j <= i
  <2>1. \E i \in V : \A j \in V : j <= i
    <3> HIDE DEF V
    <3> QED BY <1>1, <1>3, LargestIndex
  <2>2. m \in V /\ \A j \in V : j <= m
    <3> HIDE DEF V
    <3> QED BY <2>1
  <2>3. valueAt(h, rv) = h[m].value
    BY <1>3 DEF valueAt, Visible
  <2> QED BY <2>2, <2>3
<1> QED BY <1>2, <1>3

\* valueAt of a well-formed version chain is a value or Absent.
LEMMA ValueAtType ==
  ASSUME NEW h \in Seq(Version), NEW rv \in Int
  PROVE  valueAt(h, rv) \in Val
<1>1. CASE Visible(h, rv) = {}
  BY <1>1, ValueAtMeaning DEF Val
<1>2. CASE Visible(h, rv) # {}
  <2>1. PICK i \in Visible(h, rv) : valueAt(h, rv) = h[i].value
    BY <1>2, ValueAtMeaning
  <2>2. h[i] \in Version
    BY DEF Visible
  <2> QED BY <2>1, <2>2 DEF Version
<1> QED BY <1>1, <1>2

\* A version put above rv is not seen at rv.
LEMMA ValueBelowPut ==
  ASSUME NEW h \in Seq(Version), NEW rv \in Int, NEW x \in Val,
         NEW cv \in Nat, rv < cv
  PROVE  valueAt(put(h, x, cv), rv) = valueAt(h, rv)
<1> DEFINE g == put(h, x, cv)
<1>1. /\ Len(g) = Len(h) + 1
      /\ \A i \in 1..Len(h) : g[i] = h[i]
      /\ g[Len(h) + 1] = [version |-> cv, value |-> x]
      /\ g \in Seq(Version)
  BY DEF put, Version
<1>2. Visible(g, rv) = Visible(h, rv)
  <2> HIDE DEF g
  <2>1. g[Len(h) + 1].version = cv /\ ~(cv <= rv)
    BY <1>1
  <2>2. DOMAIN g = DOMAIN h \cup {Len(h) + 1}
    BY <1>1
  <2>3. \A i \in DOMAIN h : g[i] = h[i]
    BY <1>1
  <2> QED BY <2>1, <2>2, <2>3, Zenon DEF Visible
<1> SUFFICES valueAt(g, rv) = valueAt(h, rv)
  OBVIOUS
<1> HIDE DEF g
<1>3. CASE Visible(h, rv) = {}
  <2>1. valueAt(h, rv) = Absent
    BY <1>3, ValueAtMeaning
  <2>2. valueAt(g, rv) = Absent
    BY <1>1, <1>2, <1>3, ValueAtMeaning
  <2> QED BY <2>1, <2>2
<1>4. CASE Visible(h, rv) # {}
  <2>1. PICK i \in Visible(h, rv) : /\ \A j \in Visible(h, rv) : j <= i
                                    /\ valueAt(h, rv) = h[i].value
    BY <1>4, ValueAtMeaning
  <2>2. PICK l \in Visible(g, rv) : /\ \A j \in Visible(g, rv) : j <= l
                                    /\ valueAt(g, rv) = g[l].value
    BY <1>1, <1>2, <1>4, ValueAtMeaning
  <2>3. i = l /\ i \in 1..Len(h)
    BY <1>2, <2>1, <2>2 DEF Visible
  <2> QED BY <1>1, <2>1, <2>2, <2>3
<1> QED BY <1>3, <1>4

\* A version that is put is what is seen from it on.
LEMMA ValueFromPut ==
  ASSUME NEW h \in Seq(Version), NEW rv \in Int, NEW x \in Val,
         NEW cv \in Nat, cv <= rv
  PROVE  valueAt(put(h, x, cv), rv) = x
<1> DEFINE g == put(h, x, cv)
<1>1. /\ Len(g) = Len(h) + 1
      /\ g[Len(h) + 1] = [version |-> cv, value |-> x]
      /\ g \in Seq(Version)
  BY DEF put, Version
<1> HIDE DEF g
<1>2. Len(h) + 1 \in Visible(g, rv)
  BY <1>1 DEF Visible
<1>3. PICK l \in Visible(g, rv) : /\ \A j \in Visible(g, rv) : j <= l
                                  /\ valueAt(g, rv) = g[l].value
  BY <1>1, <1>2, ValueAtMeaning
<1>4. l = Len(h) + 1
  BY <1>1, <1>2, <1>3 DEF Visible
<1> QED BY <1>1, <1>3, <1>4 DEF g

\* Without a version in between, two versions see the same value.
LEMMA ValueUnchanged ==
  ASSUME NEW h \in Seq(Version), NEW rv \in Int, NEW sv \in Int, rv <= sv,
         \A i \in DOMAIN h : ~(rv < h[i].version /\ h[i].version <= sv)
  PROVE  valueAt(h, sv) = valueAt(h, rv)
<1>1. \A i \in DOMAIN h : h[i].version \in Nat
  <2> TAKE i \in DOMAIN h
  <2>1. h[i] \in Version
    OBVIOUS
  <2> QED BY <2>1 DEF Version
<1>2. \A i \in DOMAIN h : h[i].version <= rv <=> h[i].version <= sv
  BY <1>1
<1>3. Visible(h, sv) = Visible(h, rv)
  BY <1>2, Zenon DEF Visible
<1>4. CASE Visible(h, rv) = {}
  BY <1>3, <1>4, ValueAtMeaning
<1>5. CASE Visible(h, rv) # {}
  <2>1. PICK i \in Visible(h, rv) : /\ \A j \in Visible(h, rv) : j <= i
                                    /\ valueAt(h, rv) = h[i].value
    BY <1>5, ValueAtMeaning
  <2>2. PICK l \in Visible(h, sv) : /\ \A j \in Visible(h, sv) : j <= l
                                    /\ valueAt(h, sv) = h[l].value
    BY <1>3, <1>5, ValueAtMeaning
  <2>3. i = l
    BY <1>3, <2>1, <2>2 DEF Visible
  <2> QED BY <2>1, <2>2, <2>3
<1> QED BY <1>4, <1>5
-----------------------------------------------------------------------------
(* Types. *)

\* The constants of the model and the three fixed mutations have their types.
LEMMA ConstantTypes ==
  /\ Operands \subseteq Val
  /\ \A v \in Val : v = Absent \/ v \in Nat
  /\ ValueMod \in Nat \ {0}
  /\ NoMutation \in Pending /\ Clearing \in Pending
  /\ \A x \in Operands : Setting(x) \in Pending
<1>1. Operands \subseteq Val /\ ValueMod \in Nat \ {0}
  BY ConstantsAssumption DEF Val
<1>2. \A v \in Val : v = Absent \/ v \in Nat
  BY ConstantsAssumption DEF Val, Values
<1>3. Absent \in Val
  BY DEF Val
<1>4. NoMutation \in Pending /\ Clearing \in Pending
  BY <1>3 DEF NoMutation, Clearing, Pending, Kinds
<1>5. \A x \in Operands : Setting(x) \in Pending
  BY <1>1 DEF Setting, Pending, Kinds
<1> QED BY <1>1, <1>2, <1>4, <1>5

\* An atomic mutation maps values to values.
LEMMA AtomicType ==
  ASSUME NEW op \in AtomicOps, NEW x \in Operands
  PROVE  applyAtomic(op, x) \in [Val -> Val]
<1>1. x \in Values /\ x \in Val /\ Values = 0..(ValueMod - 1) /\ Absent \notin Values
  BY ConstantsAssumption, ConstantTypes DEF Values
<1>2. doAdd(x) \in [Val -> Val]
  <2>1. \A v \in Values : (v + x) % ValueMod \in Values
    BY <1>1, ConstantTypes
  <2> QED BY <1>1, <2>1 DEF doAdd, Val
<1>3. doMax(x) \in [Val -> Val]
  BY <1>1 DEF doMax
<1>4. doCompareAndClear(x) \in [Val -> Val]
  BY <1>1 DEF doCompareAndClear, Val
<1>5. op \in {"add", "max", "compareAndClear"}
  BY ConstantsAssumption DEF AtomicNames
<1> QED BY <1>2, <1>3, <1>4, <1>5 DEF applyAtomic

\* buildWriteMap folds an atomic onto a pending mutation into a pending mutation.
LEMMA FoldType ==
  ASSUME NEW p \in Pending, NEW f \in [Val -> Val]
  PROVE  FoldAtomic(p, f) \in Pending
<1>1. p.kind \in Kinds /\ p.fn \in [Val -> Val]
  BY DEF Pending
<1>2. [v \in Val |-> f[p.fn[v]]] \in [Val -> Val]
  BY <1>1
<1>3. (CASE p.kind = "none" -> "dependent"
         [] p.kind = "cleared" -> "independent"
         [] OTHER -> p.kind) \in Kinds
  BY <1>1 DEF Kinds
<1> QED BY <1>2, <1>3 DEF FoldAtomic, Pending

\* latestVersion and commitVersion are versions.
LEMMA LatestType ==
  ASSUME TypeOK
  PROVE  latestVersion \in Nat /\ commitVersion \in Nat
BY DEF TypeOK, latestVersion, commitVersion

\* The empty write buffer of a new handle is a buffer.
LEMMA BufferType == EmptyBuffer \in [Keys -> Pending]
BY ConstantTypes DEF EmptyBuffer

\* Zero is a number: stated once for leaves that avoid arithmetic.
LEMMA Zero == 0 \in Nat /\ 0 \in Int
OBVIOUS

\* The fields of a simTxn have their types.
LEMMA HandleFields ==
  ASSUME NEW h \in Handle
  PROVE  /\ h.rvSet \in BOOLEAN /\ h.readVersion \in Nat
         /\ h.buffer \in [Keys -> Pending]
         /\ h.readConflicts \in SUBSET Keys /\ h.writeConflicts \in SUBSET Keys
         /\ h.committedVersion \in Int /\ h.retryCount \in Nat
         /\ h.err \in Nat /\ h.ops \in Nat /\ h.ahead \in BOOLEAN
BY DEF Handle

\* The methods that only change the handle return a handle.
LEMMA HandleTypes ==
  ASSUME TypeOK, NEW h \in Handle
  PROVE  /\ ensureReadVersion(h) \in Handle
         /\ Committing(h) \in Handle
         /\ postCommitReset(h) \in Handle
         /\ resetState(h) \in Handle
<1>1. ASSUME NEW g \in Handle
      PROVE  ensureReadVersion(g) \in Handle
  <2> DEFINE a == latestVersion > lastVersion
             n == latestVersion
  <2>1. a \in BOOLEAN /\ n \in Nat
    BY LatestType
  <2>2. ensureReadVersion(g) = IF g.rvSet THEN g
          ELSE [g EXCEPT !.rvSet = TRUE, !.readVersion = n, !.ahead = a]
    BY DEF ensureReadVersion
  <2> HIDE DEF a, n
  <2>3. [g EXCEPT !.rvSet = TRUE, !.readVersion = n, !.ahead = a] \in Handle
    BY <2>1, Zenon DEF Handle
  <2> QED BY <2>2, <2>3
<1>2. [h EXCEPT !.committed = FALSE] \in Handle
  BY DEF Handle
<1>3. postCommitReset(h) \in Handle
  BY BufferType, Zero, Zenon DEF postCommitReset, Handle
<1>4. resetState(h) \in Handle
  BY BufferType, Zero, Zenon DEF resetState, Handle
<1> QED BY <1>1, <1>2, <1>3, <1>4 DEF Committing

\* What a read learns is a set of keys with values.
LEMMA LearnedType ==
  ASSUME TypeOK, NEW t \in Txn, NEW h \in Handle, NEW K \in SUBSET Keys
  PROVE  Learned(t, h, K) \subseteq Keys \X Val
<1>1. h.readVersion \in Nat
  BY HandleFields
<1>2. \A k \in Keys : valueAt(store[k], h.readVersion) \in Val
  BY <1>1, ValueAtType DEF TypeOK
<1> QED BY <1>2 DEF Learned

\* A step that replaces one handle by a handle, and leaves the database and the
\* log alone, preserves the types.
LEMMA HandleStepType ==
  ASSUME TypeOK, NEW t \in Txn, NEW h \in Handle,
         tx' = [tx EXCEPT ![t] = h], UNCHANGED <<dbvars, unguarded, log>>,
         observed' \in [Txn -> SUBSET (Keys \X Val)],
         owed' \in [Txn -> SUBSET Keys]
  PROVE  TypeOK'
BY DEF TypeOK, dbvars

\* A read of any set of keys (get, fetchRange) keeps the types.
LEMMA ReadKeysType ==
  ASSUME TypeOK, NEW t \in Txn, NEW h \in Handle, NEW K \in SUBSET Keys,
         NEW conflict \in SUBSET Keys, NEW snapshot \in BOOLEAN,
         ReadKeys(t, h, K, conflict, snapshot)
  PROVE  TypeOK'
<1> DEFINE rc == IF snapshot THEN h.readConflicts ELSE h.readConflicts \cup conflict
           g == [h EXCEPT !.readConflicts = rc, !.err = 0, !.ops = @ + 1]
<1>1. g \in Handle
  <2>1. rc \in SUBSET Keys /\ h.ops + 1 \in Nat
    BY HandleFields
  <2> HIDE DEF rc
  <2> QED BY <2>1, Zero, Zenon DEF Handle
<1>2. observed' \in [Txn -> SUBSET (Keys \X Val)]
  BY LearnedType DEF ReadKeys, TypeOK
<1>3. tx' = [tx EXCEPT ![t] = g] /\ UNCHANGED <<dbvars, owed, unguarded, log>>
  BY DEF ReadKeys
<1> HIDE DEF g
<1> QED BY <1>1, <1>2, <1>3, HandleStepType DEF TypeOK

\* enqueue keeps the types, for any buffer it leaves behind.
LEMMA WriteType ==
  ASSUME TypeOK, NEW t \in Txn, NEW K \in SUBSET Keys,
         NEW buf \in [Keys -> Pending], Write(t, K, buf)
  PROVE  TypeOK'
<1>1. tx[t] \in Handle
  BY DEF TypeOK
<1>2. enqueue(tx[t], t, K, buf) \in Handle
  <2> DEFINE wc == IF tx[t].nextWriteNoConflict \/ t \in WriteConflictsDisabled
                   THEN tx[t].writeConflicts ELSE tx[t].writeConflicts \cup K
  <2>1. wc \in SUBSET Keys /\ tx[t].ops + 1 \in Nat
    BY <1>1, HandleFields
  <2>2. enqueue(tx[t], t, K, buf) =
          [tx[t] EXCEPT !.buffer = buf, !.nextWriteNoConflict = FALSE,
                        !.writeConflicts = wc, !.err = 0, !.ops = @ + 1]
    BY DEF enqueue
  <2> HIDE DEF wc
  <2> QED BY <1>1, <2>1, <2>2, Zero, Zenon DEF Handle
<1>3. tx' = [tx EXCEPT ![t] = enqueue(tx[t], t, K, buf)] /\ UNCHANGED <<dbvars, history>>
  BY DEF Write
<1> QED BY <1>2, <1>3, HandleStepType DEF TypeOK, history

\* The conflict extent of a range read, and what its rows tell, lie in the range.
LEMMA RangeTypes ==
  ASSUME NEW lo \in Keys, NEW hi \in Keys, NEW rows, NEW more \in BOOLEAN,
         NEW reverse \in BOOLEAN
  PROVE  /\ lo..hi \subseteq Keys
         /\ rangeConflictExtent(lo, hi, rows, more, reverse) \subseteq lo..hi
         /\ Told(lo, hi, rows, more, reverse) \subseteq lo..hi
<1>1. lo..hi \subseteq Keys
  BY ConstantsAssumption DEF Keys
<1>2. rangeConflictExtent(lo, hi, rows, more, reverse) \subseteq lo..hi
  BY Zenon DEF rangeConflictExtent
<1>3. Told(lo, hi, rows, more, reverse) \subseteq lo..hi
  BY Zenon DEF Told
<1> QED BY <1>1, <1>2, <1>3

\* A call that fails at once keeps the types.
LEMMA FailType ==
  ASSUME TypeOK, NEW t \in Txn, NEW code \in Nat, Fail(t, code)
  PROVE  TypeOK'
<1> DEFINE g == [tx[t] EXCEPT !.err = code]
<1>0. tx[t] \in Handle
  BY DEF TypeOK
<1>1. g \in Handle
  BY <1>0, Zenon DEF Handle
<1>2. tx' = [tx EXCEPT ![t] = g] /\ UNCHANGED <<dbvars, history>>
  BY DEF Fail
<1> HIDE DEF g
<1> QED BY <1>1, <1>2, HandleStepType DEF TypeOK, history

\* Whether the pin of handle t counts as ahead once SetReadVersion(v) is done.
Moved(t, v) ==
  tx[t].ahead \/ v > lastVersion \/ (tx[t].rvSet /\ v # tx[t].readVersion)

\* SetReadVersion (txn.go) pins the version it is given, whatever it is.
LEMMA SetReadVersionStep ==
  ASSUME TypeOK, NEW t \in Txn, NEW v, SetReadVersion(t, v)
  PROVE  tx' = [tx EXCEPT ![t] = [tx[t] EXCEPT !.rvSet = TRUE, !.readVersion = v,
                                               !.ahead = Moved(t, v)]]
BY DEF SetReadVersion, TypeOK, Handle, Moved

\* The reading calls of a handle keep the types.
LEMMA ReadType ==
  ASSUME TypeOK, NEW t \in Txn, Read(t)
  PROVE  TypeOK'
<1> USE DEF history
<1>0. tx[t] \in Handle /\ ensureReadVersion(tx[t]) \in Handle
  BY HandleTypes DEF TypeOK
<1>1. CASE ReadCancelled(t)
  BY <1>1, FailType DEF ReadCancelled
<1>2. ASSUME NEW k \in Keys, NEW snapshot \in BOOLEAN, get(t, k, snapshot)
      PROVE  TypeOK'
  <2> DEFINE h == ensureReadVersion(tx[t])
  <2>1. filteredConflict(t, h, {k}) \in SUBSET Keys
    BY Zenon DEF filteredConflict
  <2>2. ReadKeys(t, h, {k}, filteredConflict(t, h, {k}), snapshot)
    BY <1>2 DEF get
  <2> HIDE DEF h
  <2> QED BY <1>0, <2>1, <2>2, ReadKeysType DEF h
<1>3. ASSUME NEW lo \in Keys, NEW hi \in Keys, NEW limit \in RowLimits,
             NEW reverse \in BOOLEAN, NEW snapshot \in BOOLEAN,
             getRange(t, lo, hi, limit, reverse, snapshot)
      PROVE  TypeOK'
  <2> DEFINE h == ensureReadVersion(tx[t])
             rows == rangeRows(t, h, lo, hi, limit, reverse)
             more == Cardinality(rows) = limit
             told == Told(lo, hi, rows, more, reverse)
             extent == rangeConflictExtent(lo, hi, rows, more, reverse)
  <2>1. ReadKeys(t, h, told, filteredConflict(t, h, extent), snapshot)
    BY <1>3 DEF getRange
  <2>2. told \in SUBSET Keys /\ extent \in SUBSET Keys
    <3> HIDE DEF rows
    <3> QED BY RangeTypes
  <2> HIDE DEF h, told, extent
  <2>3. filteredConflict(t, h, extent) \in SUBSET Keys
    BY <2>2, Zenon DEF filteredConflict
  <2> QED BY <1>0, <2>1, <2>2, <2>3, ReadKeysType DEF h
<1>4. CASE GetReadVersion(t)
  <2>1. [ensureReadVersion(tx[t]) EXCEPT !.err = 0] \in Handle
    BY <1>0 DEF Handle
  <2> QED BY <1>4, <2>1, HandleStepType DEF GetReadVersion, TypeOK
<1>5. ASSUME NEW v \in 0..MaxVersion, SetReadVersion(t, v)
      PROVE  TypeOK'
  <2>1. v \in Nat
    BY ConstantsAssumption
  <2> DEFINE a == Moved(t, v)
             g == [tx[t] EXCEPT !.rvSet = TRUE, !.readVersion = v, !.ahead = a]
  <2>2. a \in BOOLEAN /\ tx' = [tx EXCEPT ![t] = g]
    BY <1>5, SetReadVersionStep DEF Moved
  <2> HIDE DEF a
  <2>3. g \in Handle
    BY <1>0, <2>1, <2>2, Zenon DEF Handle
  <2> HIDE DEF g
  <2> QED BY <1>5, <2>2, <2>3, HandleStepType DEF SetReadVersion, TypeOK
<1>6. ASSUME NEW lo \in Keys, NEW hi \in Keys, AddReadConflictRange(t, lo, hi)
      PROVE  TypeOK'
  <2>1. filteredConflict(t, tx[t], lo..hi) \in SUBSET Keys /\ lo..hi \in SUBSET Keys
    BY RangeTypes, Zenon DEF filteredConflict
  <2> DEFINE rc == tx[t].readConflicts \cup filteredConflict(t, tx[t], lo..hi)
             g == [tx[t] EXCEPT !.readConflicts = rc, !.ops = @ + 1]
  <2>2. g \in Handle
    <3>1. rc \in SUBSET Keys /\ tx[t].ops + 1 \in Nat
      BY <1>0, <2>1, HandleFields
    <3> HIDE DEF rc
    <3> QED BY <1>0, <3>1, Zero, Zenon DEF Handle
  <2>3. tx' = [tx EXCEPT ![t] = g]
    BY <1>6 DEF AddReadConflictRange, TypeOK
  <2>4. observed' \in [Txn -> SUBSET (Keys \X Val)]
    BY <1>0, <1>6, <2>1, LearnedType DEF AddReadConflictRange, TypeOK
  <2> HIDE DEF g
  <2> QED BY <1>6, <2>2, <2>3, <2>4, HandleStepType DEF AddReadConflictRange, TypeOK
<1>7. Snapshots \subseteq BOOLEAN
  BY DEF Snapshots
<1> QED BY <1>1, <1>2, <1>3, <1>4, <1>5, <1>6, <1>7 DEF Read

\* The writing calls of a handle and its options keep the types.
LEMMA MutateType ==
  ASSUME TypeOK, NEW t \in Txn, Mutate(t)
  PROVE  TypeOK'
<1>0. tx[t] \in Handle /\ tx[t].buffer \in [Keys -> Pending]
  BY HandleFields DEF TypeOK
<1>1. ASSUME NEW lo \in Keys, NEW hi \in Keys, AddWriteConflictRange(t, lo, hi)
      PROVE  TypeOK'
  <2> DEFINE wc == tx[t].writeConflicts \cup lo..hi
             g == [tx[t] EXCEPT !.writeConflicts = wc, !.ops = @ + 1]
  <2>1. g \in Handle
    <3>0. tx[t].writeConflicts \in SUBSET Keys /\ tx[t].ops \in Nat
      BY <1>0, HandleFields
    <3>01. lo..hi \subseteq Keys
      BY RangeTypes
    <3>1. wc \in SUBSET Keys /\ tx[t].ops + 1 \in Nat
      BY <3>0, <3>01
    <3> HIDE DEF wc
    <3> QED BY <1>0, <3>1, Zenon DEF Handle
  <2>2. tx' = [tx EXCEPT ![t] = g] /\ UNCHANGED <<dbvars, history>>
    BY <1>1 DEF AddWriteConflictRange, TypeOK
  <2> HIDE DEF g
  <2> QED BY <2>1, <2>2, HandleStepType DEF TypeOK, history
<1>2. ASSUME NEW k \in Keys, NEW x \in Operands, Set(t, k, x)
      PROVE  TypeOK'
  <2> DEFINE buf == [tx[t].buffer EXCEPT ![k] = Setting(x)]
  <2>1. buf \in [Keys -> Pending]
    BY <1>0, ConstantTypes
  <2>2. Write(t, {k}, buf)
    BY <1>2 DEF Set
  <2> HIDE DEF buf
  <2> QED BY <2>1, <2>2, WriteType
<1>3. ASSUME NEW lo \in Keys, NEW hi \in Keys, ClearRange(t, lo, hi)
      PROVE  TypeOK'
  <2> DEFINE buf == [k \in Keys |-> IF k \in lo..hi THEN Clearing ELSE tx[t].buffer[k]]
  <2>1. buf \in [Keys -> Pending]
    BY <1>0, ConstantTypes
  <2>2. Write(t, lo..hi, buf)
    BY <1>3 DEF ClearRange
  <2> HIDE DEF buf
  <2> QED BY <2>1, <2>2, WriteType, RangeTypes
<1>4. ASSUME NEW k \in Keys, NEW op \in AtomicOps, NEW x \in Operands,
             Atomic(t, k, op, x)
      PROVE  TypeOK'
  <2> DEFINE buf == [tx[t].buffer EXCEPT ![k] = FoldAtomic(@, applyAtomic(op, x))]
  <2>1. buf \in [Keys -> Pending]
    BY <1>0, AtomicType, FoldType
  <2>2. Write(t, {k}, buf)
    BY <1>4 DEF Atomic
  <2> HIDE DEF buf
  <2> QED BY <2>1, <2>2, WriteType
<1>5. CASE SetNextWriteNoWriteConflictRange(t)
  <2> DEFINE g == [tx[t] EXCEPT !.nextWriteNoConflict = TRUE]
  <2>1. g \in Handle
    BY <1>0, Zenon DEF Handle
  <2>2. tx' = [tx EXCEPT ![t] = g] /\ UNCHANGED <<dbvars, history>>
    BY <1>5 DEF SetNextWriteNoWriteConflictRange, TypeOK
  <2> HIDE DEF g
  <2> QED BY <2>1, <2>2, HandleStepType DEF TypeOK, history
<1> QED BY <1>1, <1>2, <1>3, <1>4, <1>5 DEF Mutate

\* The commit of h: what it stores, and that it stores it above every version.
LEMMA ApplyType ==
  ASSUME TypeOK, NEW h \in Handle, NEW cv \in Nat
  PROVE  applyMutations(h, cv) \in [Keys -> Seq(Version)]
<1> SUFFICES ASSUME NEW k \in Keys
             PROVE  /\ store[k] \in Seq(Version)
                    /\ put(store[k], h.buffer[k].fn[valueAt(store[k], cv)], cv) \in Seq(Version)
  BY DEF applyMutations
<1>1. store[k] \in Seq(Version)
  BY DEF TypeOK
<1>2. h.buffer[k].fn[valueAt(store[k], cv)] \in Val
  <2>1. valueAt(store[k], cv) \in Val
    BY <1>1, ValueAtType
  <2>2. h.buffer[k].fn \in [Val -> Val]
    BY HandleFields DEF Pending
  <2> QED BY <2>1, <2>2
<1> DEFINE x == h.buffer[k].fn[valueAt(store[k], cv)]
<1>3. put(store[k], x, cv) \in Seq(Version)
  <2> HIDE DEF x
  <2> QED BY <1>1, <1>2 DEF put, Version, x
<1> QED BY <1>1, <1>3

\* Every way Commit can end keeps the types.
LEMMA CommitType ==
  ASSUME TypeOK, NEW t \in Txn, Commit(t)
  PROVE  TypeOK'
<1> USE DEF history
<1>0. tx[t] \in Handle /\ Committing(tx[t]) \in Handle
  BY HandleTypes DEF TypeOK
<1>1. CASE CommitCancelled(t)
  BY <1>1, FailType DEF CommitCancelled
<1>2. CASE CommitNoop(t)
  <2> DEFINE g == [tx[t] EXCEPT !.err = 0]
  <2>1. g \in Handle
    BY <1>0, Zero, Zenon DEF Handle
  <2>2. /\ tx' = [tx EXCEPT ![t] = g]
        /\ UNCHANGED <<dbvars, observed, owed, unguarded, log>>
    BY <1>2 DEF CommitNoop, TypeOK
  <2> HIDE DEF g
  <2> QED BY <2>1, <2>2, HandleStepType DEF TypeOK
<1>3. CASE CommitReadOnly(t)
  <2> DEFINE g == [postCommitReset(tx[t]) EXCEPT
                     !.committed = TRUE, !.committedVersion = -1, !.err = 0]
  <2>1. g \in Handle
    <3>1. postCommitReset(tx[t]) \in Handle /\ -1 \in Int
      BY <1>0, HandleTypes
    <3> QED BY <3>1, Zero, Zenon DEF Handle
  <2>2. tx' = [tx EXCEPT ![t] = g] /\ UNCHANGED <<dbvars, unguarded, log>>
    BY <1>3 DEF CommitReadOnly, TypeOK
  <2>3. /\ observed' \in [Txn -> SUBSET (Keys \X Val)]
        /\ owed' \in [Txn -> SUBSET Keys]
    BY <1>3 DEF CommitReadOnly, TypeOK
  <2> HIDE DEF g
  <2> QED BY <2>1, <2>2, <2>3, HandleStepType
<1>4. ASSUME NEW fault \in Faults, CommitRejected(t, fault)
      PROVE  TypeOK'
  <2> DEFINE h == Committing(tx[t])
             v == Verdict(h, fault)
             code == IF v = UnknownDiscarded THEN 1021 ELSE v
             g == [h EXCEPT !.err = code]
  <2>1. v \in FaultCodes \cup {1025, 2102}
    BY ConstantsAssumption DEF Verdict, FaultCodes
  <2>2. v \notin {0, UnknownApplied} /\ tx' = [tx EXCEPT ![t] = g]
        /\ UNCHANGED <<dbvars, history>>
    BY <1>4 DEF CommitRejected
  <2>3. code \in Nat
    <3> HIDE DEF v
    <3> QED BY <2>1, <2>2 DEF FaultCodes, UnknownDiscarded, UnknownApplied
  <2>4. g \in Handle
    <3> HIDE DEF h, code
    <3> QED BY <1>0, <2>3, Zenon DEF Handle, h
  <2> HIDE DEF g
  <2> QED BY <2>2, <2>4, HandleStepType DEF TypeOK
<1>5. ASSUME NEW fault \in Faults, CommitApplied(t, fault)
      PROVE  TypeOK'
  <2> DEFINE h == Committing(tx[t])
             v == Verdict(h, fault)
             cv == commitVersion
             g == Answered(h, cv, v)
             e == Applied(t, h, cv, v = 0)
  <2>1. h \in Handle /\ cv \in Nat
    BY <1>0, LatestType
  <2>2. g \in Handle
    <3>1. postCommitReset(h) \in Handle /\ cv \in Int
      BY <2>1, HandleTypes
    <3> HIDE DEF h, cv, v
    <3>2. [h EXCEPT !.err = 1021] \in Handle
      <4> DEFINE code == 1021
      <4>1. code \in Nat
        OBVIOUS
      <4> HIDE DEF code
      <4>2. [h EXCEPT !.err = code] \in Handle
        BY <2>1, <4>1, Zenon DEF Handle
      <4> QED BY <4>2 DEF code
    <3>3. [postCommitReset(h) EXCEPT !.committed = TRUE,
             !.committedVersion = cv, !.err = 0] \in Handle
      BY <3>1, Zero, Zenon DEF Handle
    <3> QED BY <3>2, <3>3 DEF Answered
  <2>3. e \in LogEntry
    <3> HIDE DEF h, cv, v
    <3>1. [k \in Keys |-> h.buffer[k].fn] \in [Keys -> [Val -> Val]]
      BY <2>1, HandleFields DEF Pending
    <3>2. h.readVersion \in Nat /\ h.retryCount \in Nat /\ h.ahead \in BOOLEAN
      BY <2>1, HandleFields
    <3>3. observed[t] \in SUBSET (Keys \X Val) /\ owed[t] \in SUBSET Keys
      BY DEF TypeOK
    <3>4. (h.readConflicts # {}) \in BOOLEAN /\ (v = 0) \in BOOLEAN
      OBVIOUS
    <3> QED BY <2>1, <3>1, <3>2, <3>3, <3>4, Zenon DEF LogEntry, Applied
  <2>4. store' \in [Keys -> Seq(Version)]
    BY <1>5, <2>1, ApplyType DEF CommitApplied
  <2>5. recentWrites' \subseteq [version : Nat, keys : SUBSET Keys]
    <3>1. h.writeConflicts \in SUBSET Keys
      BY <2>1, HandleFields
    <3>2. recentWrites' = recentWrites \cup {[version |-> cv, keys |-> h.writeConflicts]}
      BY <1>5 DEF CommitApplied
    <3> HIDE DEF h, cv
    <3> QED BY <2>1, <3>1, <3>2 DEF TypeOK
  <2>6. log' = log \cup {e} /\ tx' = [tx EXCEPT ![t] = g]
        /\ lastVersion' = cv /\ UNCHANGED <<closed, clock>>
    BY <1>5 DEF CommitApplied
  <2>7. unguarded' \subseteq Keys \X Nat
    <3>1. unguarded' = unguarded \cup {<<k, cv>> : k \in Written(h) \ h.writeConflicts}
      BY <1>5 DEF CommitApplied
    <3>2. Written(h) \subseteq Keys
      BY DEF Written
    <3> HIDE DEF h, cv
    <3> QED BY <2>1, <3>1, <3>2 DEF TypeOK
  <2>8. /\ observed' \in [Txn -> SUBSET (Keys \X Val)]
        /\ owed' \in [Txn -> SUBSET Keys]
    BY <1>5 DEF CommitApplied, TypeOK
  <2> HIDE DEF g, e, cv
  <2> QED BY <2>1, <2>2, <2>3, <2>4, <2>5, <2>6, <2>7, <2>8 DEF TypeOK
<1> QED BY <1>1, <1>2, <1>3, <1>4, <1>5 DEF Commit

\* Reset and OnError keep the types.
LEMMA ResetType ==
  ASSUME TypeOK, NEW t \in Txn, Reset(t) \/ OnError(t)
  PROVE  TypeOK'
<1>0. tx[t] \in Handle /\ resetState(tx[t]) \in Handle
  BY HandleTypes DEF TypeOK
<1>1. /\ observed' \in [Txn -> SUBSET (Keys \X Val)]
      /\ UNCHANGED <<dbvars, unguarded, log>>
  BY DEF Reset, OnError, TypeOK
<1>2. owed' \in [Txn -> SUBSET Keys]
  BY <1>0, HandleFields DEF Reset, OnError, TypeOK
<1>3. CASE Reset(t)
  <2> DEFINE g == [resetState(tx[t]) EXCEPT !.retryCount = 0]
  <2>1. g \in Handle
    BY <1>0, Zero, Zenon DEF Handle
  <2>2. tx' = [tx EXCEPT ![t] = g]
    BY <1>3 DEF Reset
  <2> HIDE DEF g
  <2> QED BY <1>1, <1>2, <2>1, <2>2, HandleStepType
<1>4. CASE OnError(t)
  <2> DEFINE rc == selfConflicts(tx[t])
             g == [resetState(tx[t]) EXCEPT !.readConflicts = rc,
                                            !.retryCount = @ + 1]
  <2>1. rc \in SUBSET Keys /\ resetState(tx[t]).retryCount + 1 \in Nat
    BY <1>0, HandleFields DEF selfConflicts
  <2>2. tx' = [tx EXCEPT ![t] = g]
    BY <1>4 DEF OnError
  <2>3. g \in Handle
    <3> HIDE DEF rc
    <3> QED BY <1>0, <2>1, Zenon DEF Handle
  <2> HIDE DEF g
  <2> QED BY <1>1, <1>2, <2>2, <2>3, HandleStepType
<1> QED BY <1>3, <1>4

\* A new SimDB and its new handles are well formed.
LEMMA TypeInit == Init => TypeOK
<1> SUFFICES ASSUME Init PROVE TypeOK
  OBVIOUS
<1>1. newTxn \in Handle
  BY BufferType, Zero, Zenon DEF newTxn, Handle
<1>2. store \in [Keys -> Seq(Version)]
  <2>1. <<>> \in Seq(Version)
    OBVIOUS
  <2> QED BY <2>1 DEF Init
<1> QED BY <1>1, <1>2 DEF Init, TypeOK

\* Every call and every move of the clock keeps the types.
LEMMA TypeStep == TypeOK /\ [Next]_vars => TypeOK'
<1> SUFFICES ASSUME TypeOK, [Next]_vars PROVE TypeOK'
  OBVIOUS
<1>1. ASSUME NEW t \in Txn, Read(t) PROVE TypeOK'
  BY <1>1, ReadType
<1>2. ASSUME NEW t \in Txn, Mutate(t) PROVE TypeOK'
  BY <1>2, MutateType
<1>3. ASSUME NEW t \in Txn, Commit(t) PROVE TypeOK'
  BY <1>3, CommitType
<1>4. ASSUME NEW t \in Txn, Cancel(t) PROVE TypeOK'
  <2> DEFINE g == [tx[t] EXCEPT !.cancelled = TRUE]
  <2>0. tx[t] \in Handle
    BY DEF TypeOK
  <2>1. g \in Handle
    BY <2>0, Zenon DEF Handle
  <2>2. tx' = [tx EXCEPT ![t] = g] /\ UNCHANGED <<dbvars, history>>
    BY <1>4 DEF Cancel
  <2> HIDE DEF g
  <2> QED BY <2>1, <2>2, HandleStepType DEF TypeOK, history
<1>5. ASSUME NEW t \in Txn, Reset(t) \/ OnError(t) PROVE TypeOK'
  BY <1>5, ResetType
<1>6. CASE Close
  BY <1>6 DEF Close, TypeOK, history
<1>7. CASE MoveClock
  BY <1>7, ConstantsAssumption DEF MoveClock, TypeOK, history
<1>8. CASE UNCHANGED vars
  BY <1>8 DEF vars, TypeOK
<1> QED BY <1>1, <1>2, <1>3, <1>4, <1>5, <1>6, <1>7, <1>8 DEF Next

\* Every variable has its type in every reachable state.
THEOREM TypeCorrect == Spec => []TypeOK
BY TypeInit, TypeStep, PTL DEF Spec

-----------------------------------------------------------------------------
(* The safety of the transactions. *)

\* A pending mutation that is classed independent or cleared really gives the
\* same result on every base, and no mutation gives the base back.
GoodPending(p) ==
  /\ p.kind = "none" => \A v \in Val : p.fn[v] = v
  /\ p.kind \in {"independent", "cleared"} => \A v, w \in Val : p.fn[v] = p.fn[w]

GoodBuffer(b) == \A k \in Keys : GoodPending(b[k])

\* From h to g the snapshot is kept, or pinned at the last commit or below, or g
\* is known to be ahead.
SameSnapshot(h, g) ==
  /\ h.rvSet => g.rvSet /\ (h.ahead => g.ahead)
  /\ \/ g.ahead
     \/ h.rvSet /\ g.readVersion = h.readVersion
     \/ ~h.rvSet /\ (g.rvSet => g.readVersion <= lastVersion)

\* What a step does to a handle that stays in its transaction.
Keeps(u) ==
  /\ GoodBuffer(tx[u].buffer) => GoodBuffer(tx'[u].buffer)
  /\ tx[u].readConflicts \subseteq tx'[u].readConflicts
  /\ owed'[u] = owed[u]
  /\ SameSnapshot(tx[u], tx'[u])
  /\ \/ observed'[u] = observed[u]
     \/ /\ tx'[u].rvSet
        /\ \E K \in SUBSET Keys :
             /\ observed'[u] \subseteq observed[u] \cup Learned(u, tx'[u], K)
             /\ filteredConflict(u, tx'[u], K) \subseteq tx'[u].readConflicts

\* What a step does to a handle that it gives a new transaction.
Fresh(u) ==
  /\ tx'[u].buffer = EmptyBuffer
  /\ ~tx'[u].rvSet
  /\ observed'[u] = {}
  /\ owed'[u] \subseteq tx'[u].readConflicts

-----------------------------------------------------------------------------

\* A step that changes one handle, and adds to its conflicts without moving its
\* snapshot, keeps every handle in its transaction.
LEMMA HandleStepKeeps ==
  ASSUME TypeOK, NEW t \in Txn, NEW g, NEW u \in Txn,
         tx' = [tx EXCEPT ![t] = g],
         GoodBuffer(tx[t].buffer) => GoodBuffer(g.buffer),
         tx[t].readConflicts \subseteq g.readConflicts,
         SameSnapshot(tx[t], g),
         UNCHANGED <<owed, observed>>
  PROVE  Keeps(u)
<1>1. CASE u = t
  <2>1. tx'[u] = g
    BY <1>1 DEF TypeOK
  <2> QED BY <1>1, <2>1 DEF Keeps
<1>2. CASE u # t
  <2>1. tx'[u] = tx[u]
    BY <1>2 DEF TypeOK
  <2> QED BY <2>1 DEF Keeps, SameSnapshot
<1> QED BY <1>1, <1>2

\* A handle that a step leaves alone stays in its transaction.
LEMMA StillKeeps ==
  ASSUME NEW u \in Txn, tx'[u] = tx[u], owed'[u] = owed[u],
         observed'[u] = observed[u]
  PROVE  Keeps(u)
BY DEF Keeps, SameSnapshot

\* ensureReadVersion only pins the snapshot, at latestVersion.
LEMMA EnsureFields ==
  ASSUME TypeOK, NEW h \in Handle, NEW g, g = ensureReadVersion(h)
  PROVE  /\ g \in Handle /\ g.rvSet
         /\ g.buffer = h.buffer
         /\ g.readConflicts = h.readConflicts
         /\ g.writeConflicts = h.writeConflicts
         /\ g.retryCount = h.retryCount
         /\ SameSnapshot(h, g)
<1>1. g \in Handle
  BY HandleTypes
<1>2. CASE h.rvSet
  BY <1>1, <1>2 DEF ensureReadVersion, SameSnapshot
<1>3. CASE ~h.rvSet
  <2> DEFINE a == latestVersion > lastVersion
  <2>1. g = [h EXCEPT !.rvSet = TRUE, !.readVersion = latestVersion, !.ahead = a]
    BY <1>3 DEF ensureReadVersion
  <2>a. a \/ latestVersion <= lastVersion
    BY LatestType DEF TypeOK
  <2> HIDE DEF a
  <2>2. /\ g.rvSet /\ g.readVersion = latestVersion /\ g.ahead = a /\ g.buffer = h.buffer
        /\ g.readConflicts = h.readConflicts /\ g.writeConflicts = h.writeConflicts
        /\ g.retryCount = h.retryCount
    BY <2>1 DEF Handle
  <2> QED BY <1>1, <1>3, <2>a, <2>2 DEF SameSnapshot
<1> QED BY <1>2, <1>3

\* Commit first pins the snapshot of a handle that wrote, and changes nothing else.
LEMMA CommittingFields ==
  ASSUME TypeOK, NEW h \in Handle, NEW g, g = Committing(h)
  PROVE  /\ g \in Handle /\ g.rvSet
         /\ g.buffer = h.buffer
         /\ g.readConflicts = h.readConflicts
         /\ g.writeConflicts = h.writeConflicts
         /\ g.retryCount = h.retryCount
         /\ SameSnapshot(h, g)
<1> DEFINE f == [h EXCEPT !.committed = FALSE]
<1>1. /\ f \in Handle /\ f.rvSet = h.rvSet /\ f.readVersion = h.readVersion
      /\ f.ahead = h.ahead /\ f.buffer = h.buffer /\ f.readConflicts = h.readConflicts
      /\ f.writeConflicts = h.writeConflicts /\ f.retryCount = h.retryCount
  BY DEF Handle
<1>2. g = ensureReadVersion(f)
  BY DEF Committing
<1> HIDE DEF f
<1> QED BY <1>1, <1>2, EnsureFields DEF SameSnapshot

\* A read whose conflict extent covers the keys it reports keeps every handle in
\* its transaction, with what it learned guarded by its read conflicts.
LEMMA ReadKeysKeeps ==
  ASSUME TypeOK, NEW t \in Txn, NEW u \in Txn, NEW K \in SUBSET Keys,
         NEW E \in SUBSET Keys, K \subseteq E, NEW snapshot \in BOOLEAN,
         NEW h, h = ensureReadVersion(tx[t]),
         ReadKeys(t, h, K, filteredConflict(t, h, E), snapshot)
  PROVE  Keeps(u)
<1>0. tx[t] \in Handle
  BY DEF TypeOK
<1> DEFINE rc == IF snapshot THEN h.readConflicts
                 ELSE h.readConflicts \cup filteredConflict(t, h, E)
           g == [h EXCEPT !.readConflicts = rc, !.err = 0, !.ops = @ + 1]
<1>1. /\ h \in Handle /\ h.rvSet /\ h.buffer = tx[t].buffer
      /\ h.readConflicts = tx[t].readConflicts
      /\ SameSnapshot(tx[t], h)
  BY <1>0, EnsureFields
<1>2. tx' = [tx EXCEPT ![t] = g] /\ owed' = owed
  BY DEF ReadKeys
<1>3. /\ g.rvSet = h.rvSet /\ g.readVersion = h.readVersion /\ g.ahead = h.ahead /\ g.buffer = h.buffer
      /\ g.readConflicts = rc
  <2> HIDE DEF rc
  <2> QED BY <1>1 DEF Handle
<1>4. SameSnapshot(tx[t], g) /\ tx[t].readConflicts \subseteq rc
  BY <1>1, <1>3 DEF SameSnapshot
<1>5. CASE u # t
  <2>1. tx'[u] = tx[u] /\ observed'[u] = observed[u]
    BY <1>5 DEF ReadKeys, TypeOK
  <2> QED BY <1>2, <2>1, StillKeeps
<1>6. CASE u = t /\ snapshot
  <2>1. observed' = observed
    BY <1>6 DEF ReadKeys, TypeOK
  <2> HIDE DEF g, rc
  <2> QED BY <1>1, <1>2, <1>3, <1>4, <2>1, HandleStepKeeps
<1>7. CASE u = t /\ ~snapshot
  <2>1. tx'[t] = g
    BY <1>2 DEF TypeOK
  <2>2. observed'[t] = observed[t] \cup Learned(t, h, K)
    BY <1>7 DEF ReadKeys, TypeOK
  <2>3. filteredConflict(t, g, E) = filteredConflict(t, h, E)
    BY <1>3 DEF filteredConflict
  <2>4. Learned(t, h, K) \subseteq Learned(t, g, E)
    BY <1>3 DEF Learned
  <2>5. filteredConflict(t, g, E) \subseteq g.readConflicts
    BY <1>3, <1>7, <2>3
  <2> HIDE DEF g, rc
  <2> QED BY <1>1, <1>2, <1>3, <1>4, <1>7, <2>1, <2>2, <2>4, <2>5 DEF Keeps
<1> QED BY <1>5, <1>6, <1>7

\* The clamped extent of a range read covers every key its rows tell of.
LEMMA ToldIsCovered ==
  ASSUME NEW lo, NEW hi, NEW rows, NEW more, NEW reverse
  PROVE  Told(lo, hi, rows, more, reverse)
           \subseteq rangeConflictExtent(lo, hi, rows, more, reverse)
BY DEF Told, rangeConflictExtent

\* The reading calls keep every handle in its transaction.
LEMMA ReadKeeps ==
  ASSUME TypeOK, NEW t \in Txn, NEW u \in Txn, Read(t)
  PROVE  Keeps(u)
<1> USE DEF history
<1>0. tx[t] \in Handle
  BY DEF TypeOK
<1>1. CASE ReadCancelled(t)
  <2> DEFINE g == [tx[t] EXCEPT !.err = 1025]
  <2>1. /\ g.rvSet = tx[t].rvSet /\ g.readVersion = tx[t].readVersion /\ g.ahead = tx[t].ahead
        /\ g.buffer = tx[t].buffer /\ g.readConflicts = tx[t].readConflicts
    BY <1>0 DEF Handle
  <2>2. tx' = [tx EXCEPT ![t] = g] /\ UNCHANGED <<owed, observed>>
    BY <1>1 DEF ReadCancelled, Fail
  <2> HIDE DEF g
  <2> QED BY <2>1, <2>2, HandleStepKeeps DEF SameSnapshot
<1>2. ASSUME NEW k \in Keys, NEW snapshot \in BOOLEAN, get(t, k, snapshot)
      PROVE  Keeps(u)
  <2> DEFINE h == ensureReadVersion(tx[t])
  <2>1. ReadKeys(t, h, {k}, filteredConflict(t, h, {k}), snapshot)
    BY <1>2 DEF get
  <2> QED BY <2>1, ReadKeysKeeps
<1>3. ASSUME NEW lo \in Keys, NEW hi \in Keys, NEW limit \in RowLimits,
             NEW reverse \in BOOLEAN, NEW snapshot \in BOOLEAN,
             getRange(t, lo, hi, limit, reverse, snapshot)
      PROVE  Keeps(u)
  <2> DEFINE h == ensureReadVersion(tx[t])
             rows == rangeRows(t, h, lo, hi, limit, reverse)
             more == Cardinality(rows) = limit
             told == Told(lo, hi, rows, more, reverse)
             extent == rangeConflictExtent(lo, hi, rows, more, reverse)
  <2>1. ReadKeys(t, h, told, filteredConflict(t, h, extent), snapshot)
    BY <1>3 DEF getRange
  <2>2. told \in SUBSET Keys /\ extent \in SUBSET Keys /\ told \subseteq extent
    <3> HIDE DEF rows
    <3> QED BY RangeTypes, ToldIsCovered
  <2> HIDE DEF told, extent
  <2> QED BY <2>1, <2>2, ReadKeysKeeps
<1>4. CASE GetReadVersion(t)
  <2> DEFINE h == ensureReadVersion(tx[t])
             g == [h EXCEPT !.err = 0]
  <2>1. /\ h \in Handle /\ h.buffer = tx[t].buffer
        /\ h.readConflicts = tx[t].readConflicts /\ SameSnapshot(tx[t], h)
    BY <1>0, EnsureFields
  <2>2. /\ g.rvSet = h.rvSet /\ g.readVersion = h.readVersion /\ g.ahead = h.ahead
        /\ g.buffer = h.buffer /\ g.readConflicts = h.readConflicts
    BY <2>1 DEF Handle
  <2>3. tx' = [tx EXCEPT ![t] = g] /\ UNCHANGED <<owed, observed>>
    BY <1>4 DEF GetReadVersion
  <2>4. SameSnapshot(tx[t], g)
    BY <2>1, <2>2 DEF SameSnapshot
  <2> HIDE DEF g, h
  <2> QED BY <2>1, <2>2, <2>3, <2>4, HandleStepKeeps
<1>5. ASSUME NEW v \in 0..MaxVersion, SetReadVersion(t, v)
      PROVE  Keeps(u)
  <2> DEFINE a == Moved(t, v)
             g == [tx[t] EXCEPT !.rvSet = TRUE, !.readVersion = v, !.ahead = a]
  <2>2. tx' = [tx EXCEPT ![t] = g] /\ UNCHANGED <<owed, observed>>
    BY <1>5, SetReadVersionStep DEF SetReadVersion
  <2>a. /\ tx[t].ahead => a
        /\ a \/ v <= lastVersion
        /\ a \/ ~tx[t].rvSet \/ v = tx[t].readVersion
    BY ConstantsAssumption DEF Moved, TypeOK
  <2> HIDE DEF a
  <2>1. /\ g.rvSet /\ g.readVersion = v /\ g.ahead = a
        /\ g.buffer = tx[t].buffer /\ g.readConflicts = tx[t].readConflicts
    BY <1>0 DEF Handle
  <2>3. SameSnapshot(tx[t], g)
    <3> HIDE DEF g
    <3> QED BY <2>a, <2>1 DEF SameSnapshot
  <2> HIDE DEF g
  <2> QED BY <2>1, <2>2, <2>3, HandleStepKeeps
<1>6. ASSUME NEW lo \in Keys, NEW hi \in Keys, AddReadConflictRange(t, lo, hi)
      PROVE  Keeps(u)
  <2> DEFINE rc == tx[t].readConflicts \cup filteredConflict(t, tx[t], lo..hi)
             g == [tx[t] EXCEPT !.readConflicts = rc, !.ops = @ + 1]
  <2>1. /\ g.rvSet = tx[t].rvSet /\ g.readVersion = tx[t].readVersion /\ g.ahead = tx[t].ahead
        /\ g.buffer = tx[t].buffer /\ g.readConflicts = rc
    <3> HIDE DEF rc
    <3> QED BY <1>0 DEF Handle
  <2>2. tx' = [tx EXCEPT ![t] = g] /\ owed' = owed
    BY <1>6 DEF AddReadConflictRange, TypeOK
  <2>3. SameSnapshot(tx[t], g) /\ tx[t].readConflicts \subseteq rc
    BY <2>1 DEF SameSnapshot
  <2>4. CASE u # t
    <3>1. tx'[u] = tx[u] /\ observed'[u] = observed[u]
      BY <1>6, <2>4 DEF AddReadConflictRange, TypeOK
    <3> QED BY <2>2, <3>1, StillKeeps
  <2>5. CASE u = t /\ ~tx[t].rvSet
    <3>1. observed' = observed
      BY <1>6, <2>5 DEF AddReadConflictRange, TypeOK
    <3> HIDE DEF g, rc
    <3> QED BY <2>1, <2>2, <2>3, <3>1, HandleStepKeeps
  <2>6. CASE u = t /\ tx[t].rvSet
    <3>1. tx'[t] = g
      BY <2>2 DEF TypeOK
    <3>2. observed'[t] = observed[t] \cup Learned(t, tx[t], lo..hi)
      BY <1>6, <2>6 DEF AddReadConflictRange, TypeOK
    <3>3. Learned(t, tx[t], lo..hi) = Learned(t, g, lo..hi)
      BY <2>1 DEF Learned
    <3>4. filteredConflict(t, g, lo..hi) \subseteq g.readConflicts
      BY <2>1 DEF filteredConflict
    <3>5. lo..hi \in SUBSET Keys
      BY RangeTypes
    <3> HIDE DEF g, rc
    <3> QED BY <2>1, <2>2, <2>3, <2>6, <3>1, <3>2, <3>3, <3>4, <3>5 DEF Keeps
  <2> QED BY <2>4, <2>5, <2>6
<1>7. Snapshots \subseteq BOOLEAN
  BY DEF Snapshots
<1> QED BY <1>1, <1>2, <1>3, <1>4, <1>5, <1>6, <1>7 DEF Read

\* A set, a clear and an empty buffer are classed as what they do.
LEMMA GoodConstants ==
  /\ \A x \in Operands : GoodPending(Setting(x))
  /\ GoodPending(Clearing)
  /\ GoodBuffer(EmptyBuffer)
<1>1. \A x \in Operands : GoodPending(Setting(x))
  BY DEF GoodPending, Setting
<1>2. GoodPending(Clearing)
  BY DEF GoodPending, Clearing
<1>3. GoodPending(NoMutation)
  BY DEF GoodPending, NoMutation
<1> QED BY <1>1, <1>2, <1>3 DEF GoodBuffer, EmptyBuffer

\* Folding an atomic keeps the class of a pending mutation right: one classed
\* independent still ignores its base.
LEMMA GoodFold ==
  ASSUME NEW p \in Pending, NEW f \in [Val -> Val], GoodPending(p)
  PROVE  GoodPending(FoldAtomic(p, f))
<1> DEFINE q == FoldAtomic(p, f)
<1>1. p.kind \in Kinds /\ p.fn \in [Val -> Val]
  BY DEF Pending
<1>2. /\ p.kind = "none" => q.kind = "dependent"
      /\ p.kind = "cleared" => q.kind = "independent"
      /\ p.kind \in {"independent", "dependent"} => q.kind = p.kind
  BY <1>1 DEF FoldAtomic
<1>3. \A v \in Val : q.fn[v] = f[p.fn[v]]
  BY DEF FoldAtomic
<1>4. p.kind \in {"none", "independent", "dependent", "cleared"}
  BY <1>1 DEF Kinds
<1> HIDE DEF q
<1>5. q.kind # "none"
  BY <1>2, <1>4
<1>6. q.kind \in {"independent", "cleared"} => \A v, w \in Val : p.fn[v] = p.fn[w]
  BY <1>2, <1>4 DEF GoodPending
<1> QED BY <1>3, <1>5, <1>6 DEF GoodPending, q

\* enqueue keeps every handle in its transaction.
LEMMA WriteKeeps ==
  ASSUME TypeOK, NEW t \in Txn, NEW u \in Txn, NEW K \in SUBSET Keys, NEW buf,
         GoodBuffer(tx[t].buffer) => GoodBuffer(buf), Write(t, K, buf)
  PROVE  Keeps(u)
<1> DEFINE g == enqueue(tx[t], t, K, buf)
<1>0. tx[t] \in Handle
  BY DEF TypeOK
<1>1. /\ g.rvSet = tx[t].rvSet /\ g.readVersion = tx[t].readVersion /\ g.ahead = tx[t].ahead
      /\ g.buffer = buf /\ g.readConflicts = tx[t].readConflicts
  BY <1>0 DEF enqueue, Handle
<1>2. tx' = [tx EXCEPT ![t] = g] /\ UNCHANGED <<owed, observed>>
  BY DEF Write, history
<1> HIDE DEF g
<1> QED BY <1>1, <1>2, HandleStepKeeps DEF SameSnapshot

\* The writing calls keep every handle in its transaction.
LEMMA MutateKeeps ==
  ASSUME TypeOK, NEW t \in Txn, NEW u \in Txn, Mutate(t)
  PROVE  Keeps(u)
<1>0. tx[t] \in Handle /\ tx[t].buffer \in [Keys -> Pending]
  BY HandleFields DEF TypeOK
<1>1. ASSUME NEW lo \in Keys, NEW hi \in Keys, AddWriteConflictRange(t, lo, hi)
      PROVE  Keeps(u)
  <2> DEFINE wc == tx[t].writeConflicts \cup lo..hi
             g == [tx[t] EXCEPT !.writeConflicts = wc, !.ops = @ + 1]
  <2>1. /\ g.rvSet = tx[t].rvSet /\ g.readVersion = tx[t].readVersion /\ g.ahead = tx[t].ahead
        /\ g.buffer = tx[t].buffer /\ g.readConflicts = tx[t].readConflicts
    <3> HIDE DEF wc
    <3> QED BY <1>0 DEF Handle
  <2>2. tx' = [tx EXCEPT ![t] = g] /\ UNCHANGED <<owed, observed>>
    BY <1>1 DEF AddWriteConflictRange, TypeOK, history
  <2> HIDE DEF g
  <2> QED BY <2>1, <2>2, HandleStepKeeps DEF SameSnapshot
<1>2. ASSUME NEW k \in Keys, NEW x \in Operands, Set(t, k, x)
      PROVE  Keeps(u)
  <2> DEFINE buf == [tx[t].buffer EXCEPT ![k] = Setting(x)]
  <2>1. GoodBuffer(tx[t].buffer) => GoodBuffer(buf)
    BY <1>0, GoodConstants DEF GoodBuffer
  <2>2. Write(t, {k}, buf)
    BY <1>2 DEF Set
  <2> HIDE DEF buf
  <2> QED BY <2>1, <2>2, WriteKeeps
<1>3. ASSUME NEW lo \in Keys, NEW hi \in Keys, ClearRange(t, lo, hi)
      PROVE  Keeps(u)
  <2> DEFINE buf == [k \in Keys |-> IF k \in lo..hi THEN Clearing ELSE tx[t].buffer[k]]
  <2>1. GoodBuffer(tx[t].buffer) => GoodBuffer(buf)
    BY <1>0, GoodConstants DEF GoodBuffer
  <2>2. Write(t, lo..hi, buf)
    BY <1>3 DEF ClearRange
  <2> HIDE DEF buf
  <2> QED BY <2>1, <2>2, WriteKeeps, RangeTypes
<1>4. ASSUME NEW k \in Keys, NEW op \in AtomicOps, NEW x \in Operands,
             Atomic(t, k, op, x)
      PROVE  Keeps(u)
  <2> DEFINE p == FoldAtomic(tx[t].buffer[k], applyAtomic(op, x))
             buf == [tx[t].buffer EXCEPT ![k] = p]
  <2>1. GoodPending(tx[t].buffer[k]) => GoodPending(p)
    BY <1>0, AtomicType, GoodFold
  <2>2. GoodBuffer(tx[t].buffer) => GoodBuffer(buf)
    <3> HIDE DEF p
    <3> QED BY <1>0, <2>1 DEF GoodBuffer
  <2>3. Write(t, {k}, buf)
    BY <1>4 DEF Atomic
  <2> HIDE DEF buf
  <2> QED BY <2>2, <2>3, WriteKeeps
<1>5. CASE SetNextWriteNoWriteConflictRange(t)
  <2> DEFINE g == [tx[t] EXCEPT !.nextWriteNoConflict = TRUE]
  <2>1. /\ g.rvSet = tx[t].rvSet /\ g.readVersion = tx[t].readVersion /\ g.ahead = tx[t].ahead
        /\ g.buffer = tx[t].buffer /\ g.readConflicts = tx[t].readConflicts
    BY <1>0 DEF Handle
  <2>2. tx' = [tx EXCEPT ![t] = g] /\ UNCHANGED <<owed, observed>>
    BY <1>5 DEF SetNextWriteNoWriteConflictRange, TypeOK, history
  <2> HIDE DEF g
  <2> QED BY <2>1, <2>2, HandleStepKeeps DEF SameSnapshot
<1> QED BY <1>1, <1>2, <1>3, <1>4, <1>5 DEF Mutate

\* The handle that a successful commit or a reset leaves behind.
LEMMA ResetFields ==
  ASSUME NEW h \in Handle, NEW g, g = postCommitReset(h) \/ g = resetState(h)
  PROVE  /\ g \in Handle
         /\ ~g.rvSet /\ g.buffer = EmptyBuffer /\ g.readConflicts = {}
<1>1. g \in Handle
  BY BufferType, Zero, Zenon DEF postCommitReset, resetState, Handle
<1>2. CASE g = postCommitReset(h)
  BY <1>1, <1>2 DEF postCommitReset, Handle
<1>3. CASE g = resetState(h)
  BY <1>1, <1>3 DEF resetState, Handle
<1> QED BY <1>1, <1>2, <1>3

\* A step that gives one handle a new transaction leaves the others in theirs.
LEMMA HandleStepFresh ==
  ASSUME TypeOK, NEW t \in Txn, NEW g, NEW u \in Txn,
         tx' = [tx EXCEPT ![t] = g], g.buffer = EmptyBuffer, ~g.rvSet,
         observed' = [observed EXCEPT ![t] = {}],
         NEW own, own \subseteq g.readConflicts,
         owed' = [owed EXCEPT ![t] = own]
  PROVE  Keeps(u) \/ Fresh(u)
<1>1. CASE u = t
  <2>1. tx'[u] = g /\ observed'[u] = {} /\ owed'[u] = own
    BY <1>1 DEF TypeOK
  <2> QED BY <2>1 DEF Fresh
<1>2. CASE u # t
  <2>1. tx'[u] = tx[u] /\ observed'[u] = observed[u] /\ owed'[u] = owed[u]
    BY <1>2 DEF TypeOK
  <2> QED BY <2>1, StillKeeps
<1> QED BY <1>1, <1>2

\* Commit leaves a handle in its transaction or gives it a new one.
LEMMA CommitStep ==
  ASSUME TypeOK, NEW t \in Txn, NEW u \in Txn, Commit(t)
  PROVE  Keeps(u) \/ Fresh(u)
<1> USE DEF history
<1>0. tx[t] \in Handle
  BY DEF TypeOK
<1> DEFINE h == Committing(tx[t])
<1>h. /\ h \in Handle /\ h.buffer = tx[t].buffer
      /\ h.readConflicts = tx[t].readConflicts /\ SameSnapshot(tx[t], h)
  BY <1>0, CommittingFields
<1>1. CASE CommitCancelled(t)
  <2> DEFINE g == [tx[t] EXCEPT !.err = 1025]
  <2>1. /\ g.rvSet = tx[t].rvSet /\ g.readVersion = tx[t].readVersion /\ g.ahead = tx[t].ahead
        /\ g.buffer = tx[t].buffer /\ g.readConflicts = tx[t].readConflicts
    BY <1>0 DEF Handle
  <2>2. tx' = [tx EXCEPT ![t] = g] /\ UNCHANGED <<owed, observed>>
    BY <1>1 DEF CommitCancelled, Fail
  <2> HIDE DEF g
  <2> QED BY <2>1, <2>2, HandleStepKeeps DEF SameSnapshot
<1>2. CASE CommitNoop(t)
  <2> DEFINE g == [tx[t] EXCEPT !.err = 0]
  <2>1. /\ g.rvSet = tx[t].rvSet /\ g.readVersion = tx[t].readVersion /\ g.ahead = tx[t].ahead
        /\ g.buffer = tx[t].buffer /\ g.readConflicts = tx[t].readConflicts
    BY <1>0 DEF Handle
  <2>2. tx' = [tx EXCEPT ![t] = g] /\ UNCHANGED <<owed, observed>>
    BY <1>2 DEF CommitNoop
  <2> HIDE DEF g
  <2> QED BY <2>1, <2>2, HandleStepKeeps DEF SameSnapshot
<1>3. CASE CommitReadOnly(t)
  <2> DEFINE r == postCommitReset(tx[t])
             g == [r EXCEPT !.committed = TRUE, !.committedVersion = -1, !.err = 0]
  <2>1. r \in Handle /\ ~r.rvSet /\ r.buffer = EmptyBuffer /\ r.readConflicts = {}
    BY <1>0, ResetFields
  <2>2. ~g.rvSet /\ g.buffer = EmptyBuffer /\ g.readConflicts = {}
    <3> HIDE DEF r
    <3> QED BY <2>1 DEF Handle
  <2>3. /\ tx' = [tx EXCEPT ![t] = g]
        /\ observed' = [observed EXCEPT ![t] = {}]
        /\ owed' = [owed EXCEPT ![t] = {}]
    BY <1>3 DEF CommitReadOnly
  <2> HIDE DEF g
  <2> QED BY <2>2, <2>3, HandleStepFresh
<1>4. ASSUME NEW fault \in Faults, CommitRejected(t, fault)
      PROVE  Keeps(u)
  <2> DEFINE v == Verdict(h, fault)
             code == IF v = UnknownDiscarded THEN 1021 ELSE v
             g == [h EXCEPT !.err = code]
  <2>1. tx' = [tx EXCEPT ![t] = g] /\ UNCHANGED <<owed, observed>>
    BY <1>4 DEF CommitRejected
  <2>2. /\ g.rvSet = h.rvSet /\ g.readVersion = h.readVersion /\ g.ahead = h.ahead
        /\ g.buffer = h.buffer /\ g.readConflicts = h.readConflicts
    <3> HIDE DEF h, code
    <3> QED BY <1>h DEF Handle
  <2>3. SameSnapshot(tx[t], g)
    <3> HIDE DEF g
    <3> QED BY <1>h, <2>2 DEF SameSnapshot
  <2> HIDE DEF g, h
  <2> QED BY <1>h, <2>1, <2>2, <2>3, HandleStepKeeps
<1>5. ASSUME NEW fault \in Faults, CommitApplied(t, fault)
      PROVE  Keeps(u) \/ Fresh(u)
  <2> DEFINE v == Verdict(h, fault)
             cv == commitVersion
             g == Answered(h, cv, v)
  <2>1. tx' = [tx EXCEPT ![t] = g] /\ v \in {0, UnknownApplied}
    BY <1>5 DEF CommitApplied
  <2>2. CASE v = UnknownApplied
    <3>1. g = [h EXCEPT !.err = 1021]
      BY <2>2 DEF Answered
    <3>2. /\ g.rvSet = h.rvSet /\ g.readVersion = h.readVersion /\ g.ahead = h.ahead
          /\ g.buffer = h.buffer /\ g.readConflicts = h.readConflicts
      <4> HIDE DEF h, g
      <4> QED BY <1>h, <3>1 DEF Handle
    <3>3. v # 0
      BY <2>2 DEF UnknownApplied
    <3>4. UNCHANGED <<owed, observed>>
      BY <1>5, <3>3 DEF CommitApplied
    <3>5. SameSnapshot(tx[t], g)
      <4> HIDE DEF g
      <4> QED BY <1>h, <3>2 DEF SameSnapshot
    <3> HIDE DEF g, h
    <3> QED BY <1>h, <2>1, <3>2, <3>4, <3>5, HandleStepKeeps
  <2>3. CASE v # UnknownApplied
    <3> DEFINE r == postCommitReset(h)
    <3>1. r \in Handle /\ ~r.rvSet /\ r.buffer = EmptyBuffer /\ r.readConflicts = {}
      BY <1>h, ResetFields
    <3>2. g = [r EXCEPT !.committed = TRUE, !.committedVersion = cv, !.err = 0]
      BY <2>3 DEF Answered
    <3>3. ~g.rvSet /\ g.buffer = EmptyBuffer /\ g.readConflicts = {}
      <4> HIDE DEF r, g, cv
      <4> QED BY <3>1, <3>2 DEF Handle
    <3>4. /\ observed' = [observed EXCEPT ![t] = {}]
          /\ owed' = [owed EXCEPT ![t] = {}]
      BY <1>5, <2>1, <2>3 DEF CommitApplied
    <3> HIDE DEF g
    <3> QED BY <2>1, <3>3, <3>4, HandleStepFresh
  <2> QED BY <2>2, <2>3
<1> QED BY <1>1, <1>2, <1>3, <1>4, <1>5 DEF Commit

\* Reset and OnError leave a handle in its transaction or give it a new one whose
\* read conflicts hold what a maybe-committed attempt wrote.
LEMMA ResetStep ==
  ASSUME TypeOK, NEW t \in Txn, NEW u \in Txn, Reset(t) \/ OnError(t)
  PROVE  Keeps(u) \/ Fresh(u)
<1> DEFINE r == resetState(tx[t])
           rc == selfConflicts(tx[t])
<1>0. r \in Handle /\ ~r.rvSet /\ r.buffer = EmptyBuffer
  BY ResetFields DEF TypeOK
<1>1. CASE Reset(t)
  <2> DEFINE g == [r EXCEPT !.retryCount = 0]
  <2>1. ~g.rvSet /\ g.buffer = EmptyBuffer
    <3> HIDE DEF r
    <3> QED BY <1>0 DEF Handle
  <2>2. /\ tx' = [tx EXCEPT ![t] = g]
        /\ observed' = [observed EXCEPT ![t] = {}]
        /\ owed' = [owed EXCEPT ![t] = {}]
    BY <1>1 DEF Reset
  <2> HIDE DEF g
  <2> QED BY <2>1, <2>2, HandleStepFresh
<1>2. CASE OnError(t)
  <2> DEFINE g == [r EXCEPT !.readConflicts = rc, !.retryCount = @ + 1]
  <2>1. ~g.rvSet /\ g.buffer = EmptyBuffer /\ g.readConflicts = rc
    <3> HIDE DEF r, rc
    <3> QED BY <1>0 DEF Handle
  <2>2. /\ tx' = [tx EXCEPT ![t] = g]
        /\ observed' = [observed EXCEPT ![t] = {}]
        /\ owed' = [owed EXCEPT ![t] = rc]
    BY <1>2 DEF OnError, selfConflicts
  <2> HIDE DEF g, rc
  <2> QED BY <2>1, <2>2, HandleStepFresh
<1> QED BY <1>1, <1>2

\* Every step leaves every handle in its transaction or gives it a new one.
LEMMA EveryStep ==
  ASSUME TypeOK, [Next]_vars, NEW u \in Txn
  PROVE  Keeps(u) \/ Fresh(u)
<1>1. ASSUME NEW t \in Txn, Read(t) PROVE Keeps(u)
  BY <1>1, ReadKeeps
<1>2. ASSUME NEW t \in Txn, Mutate(t) PROVE Keeps(u)
  BY <1>2, MutateKeeps
<1>3. ASSUME NEW t \in Txn, Commit(t) PROVE Keeps(u) \/ Fresh(u)
  BY <1>3, CommitStep
<1>4. ASSUME NEW t \in Txn, Cancel(t) PROVE Keeps(u)
  <2> DEFINE g == [tx[t] EXCEPT !.cancelled = TRUE]
  <2>1. tx[t] \in Handle
    BY DEF TypeOK
  <2>2. /\ g.rvSet = tx[t].rvSet /\ g.readVersion = tx[t].readVersion /\ g.ahead = tx[t].ahead
        /\ g.buffer = tx[t].buffer /\ g.readConflicts = tx[t].readConflicts
    BY <2>1 DEF Handle
  <2>3. tx' = [tx EXCEPT ![t] = g] /\ UNCHANGED <<owed, observed>>
    BY <1>4 DEF Cancel, history
  <2> HIDE DEF g
  <2> QED BY <2>2, <2>3, HandleStepKeeps DEF SameSnapshot
<1>5. ASSUME NEW t \in Txn, Reset(t) \/ OnError(t) PROVE Keeps(u) \/ Fresh(u)
  BY <1>5, ResetStep
<1>6. CASE Close \/ MoveClock \/ UNCHANGED vars
  <2>1. UNCHANGED <<tx, owed, observed>>
    BY <1>6 DEF Close, MoveClock, vars, history
  <2> QED BY <2>1, StillKeeps
<1> QED BY <1>1, <1>2, <1>3, <1>4, <1>5, <1>6 DEF Next

\* The steps that change the database or what is known of its history.
LEMMA DatabaseStep ==
  ASSUME [Next]_vars
  PROVE  \/ UNCHANGED <<dbvars, unguarded, log>>
         \/ \E t \in Txn, fault \in Faults : CommitApplied(t, fault)
         \/ Close
         \/ MoveClock
<1> USE DEF dbvars, history
<1>1. ASSUME NEW t \in Txn, Read(t) PROVE UNCHANGED <<dbvars, unguarded, log>>
  <2>1. CASE ReadCancelled(t)
    BY <2>1 DEF ReadCancelled, Fail
  <2>2. ASSUME NEW k, NEW snapshot, get(t, k, snapshot)
        PROVE  UNCHANGED <<dbvars, unguarded, log>>
    BY <2>2 DEF get, ReadKeys
  <2>3. ASSUME NEW lo, NEW hi, NEW limit, NEW reverse, NEW snapshot,
               getRange(t, lo, hi, limit, reverse, snapshot)
        PROVE  UNCHANGED <<dbvars, unguarded, log>>
    BY <2>3, Zenon DEF getRange, ReadKeys
  <2>4. CASE GetReadVersion(t)
    BY <2>4 DEF GetReadVersion
  <2>5. ASSUME NEW v, SetReadVersion(t, v) PROVE UNCHANGED <<dbvars, unguarded, log>>
    BY <2>5 DEF SetReadVersion
  <2>6. ASSUME NEW lo, NEW hi, AddReadConflictRange(t, lo, hi)
        PROVE  UNCHANGED <<dbvars, unguarded, log>>
    BY <2>6 DEF AddReadConflictRange
  <2> QED BY <1>1, <2>1, <2>2, <2>3, <2>4, <2>5, <2>6, Zenon DEF Read
<1>2. ASSUME NEW t \in Txn, Mutate(t) PROVE UNCHANGED <<dbvars, unguarded, log>>
  BY <1>2 DEF Mutate, AddWriteConflictRange, Set, ClearRange, Atomic, Write,
              SetNextWriteNoWriteConflictRange
<1>3. ASSUME NEW t \in Txn, Commit(t)
      PROVE  \/ UNCHANGED <<dbvars, unguarded, log>>
             \/ \E fault \in Faults : CommitApplied(t, fault)
  BY <1>3 DEF Commit, CommitCancelled, Fail, CommitNoop, CommitReadOnly,
              CommitRejected
<1>4. ASSUME NEW t \in Txn, Cancel(t) \/ Reset(t) \/ OnError(t)
      PROVE  UNCHANGED <<dbvars, unguarded, log>>
  BY <1>4 DEF Cancel, Reset, OnError
<1>5. CASE UNCHANGED vars
  BY <1>5 DEF vars
<1> QED BY <1>1, <1>2, <1>3, <1>4, <1>5 DEF Next

\* Only an applied commit changes the store and what is known of its history.
LEMMA QuietStep ==
  ASSUME [Next]_vars
  PROVE  \/ UNCHANGED <<store, lastVersion, recentWrites, unguarded, log>>
         \/ \E t \in Txn, fault \in Faults : CommitApplied(t, fault)
BY DatabaseStep DEF dbvars, history, Close, MoveClock

-----------------------------------------------------------------------------
(* The inductive invariant, for every clock. *)

\* Nothing carries a version above the commit counter.
VersionsBounded ==
  /\ \A k \in Keys : \A i \in DOMAIN store[k] : store[k][i].version <= lastVersion
  /\ \A w \in recentWrites : w.version <= lastVersion
  /\ \A e \in log : 1 <= e.version /\ e.version <= lastVersion

BuffersGood == \A t \in Txn : GoodBuffer(tx[t].buffer)

\* What a retry owes is still among its read conflicts.
OwedGuarded == \A t \in Txn : owed[t] \subseteq tx[t].readConflicts

Inv ==
  /\ TypeOK
  /\ VersionsBounded
  /\ BuffersGood
  /\ OwedGuarded
  /\ SerialHistory
  /\ RetryIsolated
  /\ WindowRespected

\* The facts about an applied commit that the invariants rest on.
LEMMA AppliedCommit ==
  ASSUME TypeOK, NEW t \in Txn, NEW fault \in Faults, CommitApplied(t, fault),
         NEW h, h = Committing(tx[t]), NEW cv, cv = commitVersion
  PROVE  /\ cv \in Nat /\ lastVersion \in Nat /\ lastVersion < cv
         /\ cv <= latestVersion + 1 /\ lastVersion <= latestVersion
         /\ h \in Handle /\ h.buffer = tx[t].buffer
         /\ h.readConflicts = tx[t].readConflicts
         /\ h.rvSet /\ SameSnapshot(tx[t], h)
         /\ ~Conflicts(h) /\ ~TooOld(h)
         /\ lastVersion' = cv
         /\ store' = applyMutations(h, cv)
         /\ recentWrites' = recentWrites \cup {[version |-> cv, keys |-> h.writeConflicts]}
         /\ unguarded' = unguarded \cup {<<k, cv>> : k \in Written(h) \ h.writeConflicts}
<1>0. tx[t] \in Handle
  BY DEF TypeOK
<1>1. /\ h \in Handle /\ h.buffer = tx[t].buffer
      /\ h.readConflicts = tx[t].readConflicts
      /\ h.rvSet /\ SameSnapshot(tx[t], h)
  BY <1>0, CommittingFields
<1>2. /\ cv \in Nat /\ lastVersion \in Nat /\ lastVersion < cv
      /\ cv <= latestVersion + 1 /\ lastVersion <= latestVersion
  BY DEF TypeOK, commitVersion, latestVersion
<1>3. ~Conflicts(h) /\ ~TooOld(h)
  <2>1. Verdict(h, fault) \in {0, UnknownApplied} /\ ~closed
    BY DEF CommitApplied
  <2> QED BY <2>1 DEF Verdict, UnknownApplied
<1>4. /\ lastVersion' = cv
      /\ store' = applyMutations(h, cv)
      /\ recentWrites' = recentWrites \cup {[version |-> cv, keys |-> h.writeConflicts]}
      /\ unguarded' = unguarded \cup {<<k, cv>> : k \in Written(h) \ h.writeConflicts}
  BY DEF CommitApplied
<1> QED BY <1>1, <1>2, <1>3, <1>4

\* The entry it adds to the log.
LEMMA AppliedEntry ==
  ASSUME NEW t \in Txn, NEW h, NEW cv, NEW answered, NEW n,
         n = Applied(t, h, cv, answered)
  PROVE  /\ n.tx = t /\ n.version = cv /\ n.readVersion = h.readVersion
         /\ n.observed = observed[t] /\ n.owed = owed[t] /\ n.ahead = h.ahead
         /\ n.effect = [k \in Keys |-> h.buffer[k].fn]
         /\ n.reads <=> h.readConflicts # {}
BY DEF Applied

\* Below the commit version the store is what it was.
LEMMA AppliedBelow ==
  ASSUME TypeOK, NEW h \in Handle, NEW cv \in Nat, NEW k \in Keys,
         NEW rv \in Int, rv < cv
  PROVE  valueAt(applyMutations(h, cv)[k], rv) = valueAt(store[k], rv)
<1>1. store[k] \in Seq(Version)
  BY DEF TypeOK
<1> DEFINE x == h.buffer[k].fn[valueAt(store[k], cv)]
<1>2. x \in Val
  <2>1. valueAt(store[k], cv) \in Val
    BY <1>1, ValueAtType
  <2>2. h.buffer[k].fn \in [Val -> Val]
    BY HandleFields DEF Pending
  <2> QED BY <2>1, <2>2
<1>3. applyMutations(h, cv)[k] \in {store[k], put(store[k], x, cv)}
  BY DEF applyMutations
<1> HIDE DEF x
<1> QED BY <1>1, <1>2, <1>3, ValueBelowPut

\* At the commit version it is what the mutations make of what was stored.
LEMMA AppliedAt ==
  ASSUME TypeOK, VersionsBounded, NEW h \in Handle, GoodBuffer(h.buffer),
         NEW cv \in Nat, lastVersion < cv, NEW k \in Keys
  PROVE  valueAt(applyMutations(h, cv)[k], cv)
           = h.buffer[k].fn[valueAt(store[k], cv - 1)]
<1>1. store[k] \in Seq(Version) /\ lastVersion \in Nat
  BY DEF TypeOK
<1>2. valueAt(store[k], cv) = valueAt(store[k], cv - 1)
  <2>1. \A i \in DOMAIN store[k] : store[k][i].version \in Nat
    <3> TAKE i \in DOMAIN store[k]
    <3>1. store[k][i] \in Version
      BY <1>1
    <3> QED BY <3>1 DEF Version
  <2>2. \A i \in DOMAIN store[k] : ~(cv - 1 < store[k][i].version /\ store[k][i].version <= cv)
    BY <1>1, <2>1 DEF VersionsBounded
  <2> QED BY <1>1, <2>2, ValueUnchanged
<1>3. valueAt(store[k], cv) \in Val
  BY <1>1, ValueAtType
<1> DEFINE x == h.buffer[k].fn[valueAt(store[k], cv)]
<1>4. CASE k \in Written(h)
  <2>1. applyMutations(h, cv)[k] = put(store[k], x, cv)
    BY <1>4 DEF applyMutations
  <2>2. x \in Val
    <3>1. h.buffer[k].fn \in [Val -> Val]
      BY HandleFields DEF Pending
    <3> QED BY <1>3, <3>1
  <2>3. valueAt(put(store[k], x, cv), cv) = x
    <3> HIDE DEF x
    <3> QED BY <1>1, <2>2, ValueFromPut
  <2> QED BY <1>2, <2>1, <2>3
<1>5. CASE k \notin Written(h)
  <2>1. applyMutations(h, cv)[k] = store[k]
    BY <1>5 DEF applyMutations
  <2>2. h.buffer[k].kind = "none"
    BY <1>5 DEF Written
  <2>3. h.buffer[k].fn[valueAt(store[k], cv)] = valueAt(store[k], cv)
    BY <1>3, <2>2 DEF GoodBuffer, GoodPending
  <2> QED BY <1>2, <2>1, <2>3
<1> QED BY <1>4, <1>5

\* The invariant holds of a new database.
LEMMA InvInit == Init => Inv
<1> SUFFICES ASSUME Init PROVE Inv
  OBVIOUS
<1>1. TypeOK
  BY TypeInit
<1>2. VersionsBounded /\ SerialHistory /\ RetryIsolated /\ WindowRespected
  BY DEF Init, VersionsBounded, SerialHistory, RetryIsolated, WindowRespected
<1>3. BuffersGood
  BY GoodConstants DEF Init, BuffersGood, newTxn
<1>4. OwedGuarded
  BY DEF Init, OwedGuarded
<1> QED BY <1>1, <1>2, <1>3, <1>4 DEF Inv

\* The parts of the invariant about handles, for every step.
LEMMA HandlesStep ==
  ASSUME TypeOK, BuffersGood, OwedGuarded, [Next]_vars
  PROVE  BuffersGood' /\ OwedGuarded'
<1> SUFFICES ASSUME NEW u \in Txn
             PROVE  GoodBuffer(tx'[u].buffer) /\ owed'[u] \subseteq tx'[u].readConflicts
  BY DEF BuffersGood, OwedGuarded, GoodBuffer, GoodPending
<1>1. CASE Keeps(u)
  BY <1>1 DEF Keeps, BuffersGood, OwedGuarded
<1>2. CASE Fresh(u)
  BY <1>2, GoodConstants DEF Fresh
<1> QED BY <1>1, <1>2, EveryStep

\* A commit takes a version above every version in the store.
LEMMA VersionsStep ==
  ASSUME TypeOK, VersionsBounded, NEW t \in Txn, NEW fault \in Faults,
         CommitApplied(t, fault)
  PROVE  VersionsBounded'
<1> DEFINE h == Committing(tx[t])
           cv == commitVersion
<1>0. /\ cv \in Nat /\ lastVersion \in Nat /\ lastVersion < cv /\ lastVersion' = cv
      /\ h \in Handle /\ store' = applyMutations(h, cv)
      /\ recentWrites' = recentWrites \cup {[version |-> cv, keys |-> h.writeConflicts]}
  BY AppliedCommit
<1> DEFINE n == Applied(t, h, cv, Verdict(h, fault) = 0)
<1>n. log' = log \cup {n} /\ n.version = cv
  <2>1. log' = log \cup {n}
    BY DEF CommitApplied
  <2> HIDE DEF h, cv
  <2> QED BY <2>1 DEF Applied
<1> HIDE DEF h, cv, n
<1>1. ASSUME NEW k \in Keys, NEW i \in DOMAIN store'[k]
      PROVE  store'[k][i].version <= cv
  <2> DEFINE x == h.buffer[k].fn[valueAt(store[k], cv)]
  <2>1. store[k] \in Seq(Version)
    BY DEF TypeOK
  <2>2. \A j \in DOMAIN store[k] : store[k][j].version <= cv
    <3> TAKE j \in DOMAIN store[k]
    <3>1. store[k][j] \in Version
      BY <2>1
    <3>2. store[k][j].version \in Nat /\ store[k][j].version <= lastVersion
      BY <3>1 DEF VersionsBounded, Version
    <3> QED BY <1>0, <3>2
  <2>3. store'[k] = store[k] \/ store'[k] = put(store[k], x, cv)
    BY <1>0 DEF applyMutations
  <2>4. CASE store'[k] = store[k]
    BY <1>1, <2>2, <2>4
  <2>5. CASE store'[k] = put(store[k], x, cv)
    <3> HIDE DEF x
    <3> DEFINE r == [version |-> cv, value |-> x]
    <3>1. store'[k] = Append(store[k], r) /\ r.version = cv
      BY <2>5 DEF put
    <3> HIDE DEF r
    <3>2. CASE i \in 1..Len(store[k])
      <4>1. store'[k][i] = store[k][i]
        BY <2>1, <3>1, <3>2
      <4> QED BY <2>1, <2>2, <3>2, <4>1
    <3>3. CASE i = Len(store[k]) + 1
      BY <1>0, <2>1, <3>1, <3>3
    <3> QED BY <1>1, <2>1, <3>1, <3>2, <3>3
  <2> QED BY <2>3, <2>4, <2>5
<1>2. \A w \in recentWrites' : w.version <= cv
  <2> TAKE w \in recentWrites'
  <2>1. CASE w \in recentWrites
    <3>1. w.version \in Nat /\ w.version <= lastVersion
      BY <2>1 DEF VersionsBounded, TypeOK
    <3> QED BY <1>0, <3>1
  <2>2. CASE w = [version |-> cv, keys |-> h.writeConflicts]
    BY <1>0, <2>2
  <2> QED BY <1>0, <2>1, <2>2
<1>3. \A e \in log' : 1 <= e.version /\ e.version <= cv
  <2> TAKE e \in log'
  <2>2. CASE e \in log
    <3>1. e.version \in Nat /\ 1 <= e.version /\ e.version <= lastVersion
      BY <2>2 DEF VersionsBounded, TypeOK, LogEntry
    <3> QED BY <1>0, <3>1
  <2>3. CASE e = n
    BY <1>0, <1>n, <2>3
  <2> QED BY <1>n, <2>2, <2>3
<1> QED BY <1>0, <1>1, <1>2, <1>3 DEF VersionsBounded

\* Every step keeps the invariant.
LEMMA InvStep == Inv /\ [Next]_vars => Inv'
<1> SUFFICES ASSUME Inv, [Next]_vars PROVE Inv'
  OBVIOUS
<1> USE DEF Inv
<1>1. TypeOK' /\ BuffersGood' /\ OwedGuarded'
  BY TypeStep, HandlesStep
<1>2. CASE UNCHANGED <<store, lastVersion, recentWrites, unguarded, log>>
  <2>1. VersionsBounded' /\ RetryIsolated' /\ WindowRespected'
    BY <1>2 DEF VersionsBounded, RetryIsolated, WindowRespected
  <2>2. SerialHistory'
    <3> SUFFICES ASSUME NEW e \in log', NEW k \in Keys
                 PROVE  valueAt(store'[k], e.version)
                          = e.effect[k][valueAt(store'[k], e.version - 1)]
      BY Zenon DEF SerialHistory, valueAt
    <3> QED BY <1>2 DEF SerialHistory
  <2> QED BY <1>1, <2>1, <2>2
<1>3. ASSUME NEW t \in Txn, NEW fault \in Faults, CommitApplied(t, fault)
      PROVE  Inv'
  <2> DEFINE h == Committing(tx[t])
             cv == commitVersion
  <2>0. /\ cv \in Nat /\ lastVersion \in Nat /\ lastVersion < cv
        /\ cv <= latestVersion + 1 /\ h \in Handle
        /\ h.buffer = tx[t].buffer /\ h.readConflicts = tx[t].readConflicts
        /\ ~Conflicts(h) /\ ~TooOld(h) /\ store' = applyMutations(h, cv)
        /\ recentWrites' = recentWrites \cup {[version |-> cv, keys |-> h.writeConflicts]}
    BY <1>3, AppliedCommit
  <2> DEFINE n == Applied(t, h, cv, Verdict(h, fault) = 0)
  <2>e. /\ log' = log \cup {n}
        /\ n.tx = t /\ n.version = cv /\ n.readVersion = h.readVersion
        /\ n.observed = observed[t] /\ n.owed = owed[t]
        /\ n.effect = [k \in Keys |-> h.buffer[k].fn]
        /\ n.reads <=> h.readConflicts # {}
    <3>1. log' = log \cup {n}
      BY <1>3 DEF CommitApplied
    <3> HIDE DEF h, cv
    <3> QED BY <3>1, AppliedEntry
  <2> HIDE DEF h, cv, n
  <2>l. \A e \in log : e.version \in Nat /\ 1 <= e.version /\ e.version <= lastVersion
                       /\ e.readVersion \in Nat
    BY DEF VersionsBounded, TypeOK, LogEntry
  <2>1. VersionsBounded'
    BY <1>3, VersionsStep
  <2>2. SerialHistory'
    <3> SUFFICES ASSUME NEW e \in log', NEW k \in Keys
                 PROVE  valueAt(store'[k], e.version)
                          = e.effect[k][valueAt(store'[k], e.version - 1)]
      BY Zenon DEF SerialHistory, valueAt
    <3>1. CASE e \in log
      <4>1. /\ e.version \in Int /\ e.version - 1 \in Int
            /\ e.version < cv /\ e.version - 1 < cv
        BY <2>0, <2>l, <3>1
      <4>2. /\ valueAt(store'[k], e.version) = valueAt(store[k], e.version)
            /\ valueAt(store'[k], e.version - 1) = valueAt(store[k], e.version - 1)
        BY <2>0, <4>1, AppliedBelow
      <4> QED BY <3>1, <4>2 DEF SerialHistory
    <3>2. CASE e = n
      <4>1. cv - 1 \in Int /\ cv - 1 < cv
        BY <2>0
      <4>2. valueAt(store'[k], cv - 1) = valueAt(store[k], cv - 1)
        BY <2>0, <4>1, AppliedBelow
      <4>3. valueAt(store'[k], cv) = h.buffer[k].fn[valueAt(store[k], cv - 1)]
        BY <2>0, AppliedAt DEF BuffersGood
      <4> QED BY <2>e, <3>2, <4>2, <4>3
    <3> QED BY <2>e, <3>1, <3>2
  <2>3. RetryIsolated'
    <3> SUFFICES ASSUME NEW e \in log', NEW w \in recentWrites',
                        e.readVersion < w.version, w.version < e.version
                 PROVE  w.keys \cap e.owed = {}
      BY DEF RetryIsolated
    <3>w. w.version \in Nat /\ (w \in recentWrites \/ w.version = cv)
      BY <2>0 DEF TypeOK
    <3>1. CASE e \in log
      <4>1. w \in recentWrites
        BY <2>0, <2>l, <3>w, <3>1
      <4> QED BY <3>1, <4>1 DEF RetryIsolated
    <3>2. CASE e = n
      <4>1. w \in recentWrites
        BY <2>0, <2>e, <3>w, <3>2
      <4>2. w.keys \cap h.readConflicts = {}
        BY <2>0, <2>e, <3>2, <4>1 DEF Conflicts
      <4>3. e.owed \subseteq h.readConflicts
        BY <2>0, <2>e, <3>2 DEF OwedGuarded
      <4> QED BY <4>2, <4>3
    <3> QED BY <2>e, <3>1, <3>2
  <2>4. WindowRespected'
    <3> SUFFICES ASSUME NEW e \in log', e.reads
                 PROVE  e.version - e.readVersion <= MVCCWindow + 1
      BY DEF WindowRespected
    <3>1. CASE e \in log
      BY <3>1 DEF WindowRespected
    <3>2. CASE e = n
      <4>1. h.readVersion \in Nat /\ latestVersion \in Nat /\ MVCCWindow \in Nat
        BY <2>0, HandleFields, LatestType, ConstantsAssumption
      <4>2. ~(h.readVersion < latestVersion - MVCCWindow)
        BY <2>0, <2>e, <3>2 DEF TooOld
      <4> QED BY <2>0, <2>e, <3>2, <4>1, <4>2
    <3> QED BY <2>e, <3>1, <3>2
  <2> QED BY <1>1, <2>1, <2>2, <2>3, <2>4
<1> QED BY <1>2, <1>3, QuietStep

\* Inv holds in every reachable state.
THEOREM Invariance == Spec => []Inv
BY InvInit, InvStep, PTL DEF Spec

\* The store is the serial replay of the applied commits, whatever the clock.
THEOREM SerialHistoryHolds == Spec => []SerialHistory
<1>1. Inv => SerialHistory
  BY DEF Inv
<1> QED BY <1>1, Invariance, PTL

\* A retry never commits over a writer of a key its unknown attempt wrote.
THEOREM RetryIsolatedHolds == Spec => []RetryIsolated
<1>1. Inv => RetryIsolated
  BY DEF Inv
<1> QED BY <1>1, Invariance, PTL

\* No transaction that read commits on a snapshot outside the MVCC window.
THEOREM WindowRespectedHolds == Spec => []WindowRespected
<1>1. Inv => WindowRespected
  BY DEF Inv
<1> QED BY <1>1, Invariance, PTL

-----------------------------------------------------------------------------
(* Snapshots. *)

\* A read version that is not ahead is not above the last commit.
SnapshotPinned ==
  \A t \in Txn : (tx[t].rvSet /\ ~tx[t].ahead) => tx[t].readVersion <= lastVersion

\* Every stored version is announced to later readers or was written unguarded.
VersionsAnnounced ==
  \A k \in Keys : \A i \in DOMAIN store[k] :
    \/ \E w \in recentWrites : w.version = store[k][i].version /\ k \in w.keys
    \/ <<k, store[k][i].version>> \in unguarded

\* What a transaction learned is guarded and is still true of its snapshot.
ObservedGuarded ==
  \A t \in Txn : \A o \in observed[t] :
    /\ tx[t].rvSet
    /\ o[1] \in tx[t].readConflicts
    /\ tx[t].ahead \/ o[2] = valueAt(store[o[1]], tx[t].readVersion)

SnapshotInv ==
  /\ Inv
  /\ SnapshotPinned
  /\ VersionsAnnounced
  /\ ObservedGuarded
  /\ SerializableReads

\* A key whose result depends on the stored value is not filtered out.
LEMMA LearnedIsGuarded ==
  ASSUME NEW t \in Txn, NEW h \in Handle, GoodBuffer(h.buffer),
         NEW K \in SUBSET Keys, NEW o \in Learned(t, h, K)
  PROVE  /\ o[1] \in filteredConflict(t, h, K)
         /\ o[2] = valueAt(store[o[1]], h.readVersion)
<1>1. PICK k \in K : /\ DependsOnBase(t, h.buffer[k])
                     /\ o = <<k, valueAt(store[k], h.readVersion)>>
  BY DEF Learned
<1>2. CASE t \in RYWDisabled
  BY <1>1, <1>2 DEF filteredConflict
<1>3. CASE t \notin RYWDisabled
  <2>1. h.buffer[k] \in Pending
    BY HandleFields
  <2>2. h.buffer[k].kind \notin {"independent", "cleared"}
    BY <1>1, <1>3 DEF DependsOnBase, GoodBuffer, GoodPending
  <2>3. conflictForKey(h.buffer[k])
    BY <2>1, <2>2 DEF Pending, Kinds, conflictForKey
  <2> QED BY <1>1, <1>3, <2>3 DEF filteredConflict
<1> QED BY <1>2, <1>3

\* Every step keeps the pinned snapshots below the commits, and the values
\* visible at them.
LEMMA SnapshotStep ==
  ASSUME Inv, SnapshotPinned, [Next]_vars
  PROVE  /\ SnapshotPinned'
         /\ \A k \in Keys, rv \in 0..lastVersion :
              valueAt(store'[k], rv) = valueAt(store[k], rv)
<1> USE DEF Inv
<1>0. lastVersion \in Nat /\ TypeOK'
  BY TypeStep DEF TypeOK
<1>2. lastVersion <= lastVersion' /\ lastVersion' \in Nat
  <2>1. CASE UNCHANGED <<store, lastVersion, recentWrites, unguarded, log>>
    BY <1>0, <2>1
  <2>2. ASSUME NEW t \in Txn, NEW fault \in Faults, CommitApplied(t, fault)
        PROVE  lastVersion <= lastVersion' /\ lastVersion' \in Nat
    BY <2>2, AppliedCommit
  <2> QED BY <2>1, <2>2, QuietStep
<1>4. ASSUME NEW u \in Txn, tx'[u].rvSet, ~tx'[u].ahead
      PROVE  tx'[u].readVersion <= lastVersion'
  <2>1. Keeps(u)
    BY <1>4, EveryStep DEF Fresh
  <2>2. tx'[u].readVersion <= lastVersion
    BY <1>4, <2>1 DEF Keeps, SameSnapshot, SnapshotPinned
  <2>3. tx'[u].readVersion \in Nat
    BY <1>0, HandleFields DEF TypeOK
  <2> QED BY <1>0, <1>2, <2>2, <2>3
<1>5. ASSUME NEW k \in Keys, NEW rv \in 0..lastVersion
      PROVE  valueAt(store'[k], rv) = valueAt(store[k], rv)
  <2>1. CASE UNCHANGED <<store, lastVersion, recentWrites, unguarded, log>>
    BY <2>1
  <2>2. ASSUME NEW t \in Txn, NEW fault \in Faults, CommitApplied(t, fault)
        PROVE  valueAt(store'[k], rv) = valueAt(store[k], rv)
    <3> DEFINE h == Committing(tx[t])
               cv == commitVersion
    <3>1. /\ cv \in Nat /\ lastVersion < cv
          /\ h \in Handle /\ store' = applyMutations(h, cv)
      BY <2>2, AppliedCommit
    <3> HIDE DEF h, cv
    <3>2. rv \in Int /\ rv < cv
      BY <1>0, <1>5, <3>1
    <3> QED BY <3>1, <3>2, AppliedBelow
  <2> QED BY <2>1, <2>2, QuietStep
<1> QED BY <1>4, <1>5 DEF SnapshotPinned

\* A commit announces the version it writes at.
LEMMA AnnouncedStep ==
  ASSUME Inv, VersionsAnnounced, NEW t \in Txn, NEW fault \in Faults,
         CommitApplied(t, fault)
  PROVE  VersionsAnnounced'
<1> USE DEF Inv
<1> DEFINE h == Committing(tx[t])
           cv == commitVersion
           r == [version |-> cv, keys |-> h.writeConflicts]
<1>0. /\ cv \in Nat /\ h \in Handle /\ store' = applyMutations(h, cv)
      /\ recentWrites' = recentWrites \cup {r}
      /\ unguarded' = unguarded \cup {<<k, cv>> : k \in Written(h) \ h.writeConflicts}
  BY AppliedCommit
<1>r. r.version = cv /\ r.keys = h.writeConflicts
  OBVIOUS
<1> HIDE DEF h, cv, r
<1> SUFFICES ASSUME NEW k \in Keys, NEW i \in DOMAIN store'[k]
             PROVE  \/ \E w \in recentWrites' : w.version = store'[k][i].version /\ k \in w.keys
                    \/ <<k, store'[k][i].version>> \in unguarded'
  BY DEF VersionsAnnounced
<1>s. store[k] \in Seq(Version)
  BY DEF TypeOK
<1>1. CASE i \in DOMAIN store[k] /\ store'[k][i] = store[k][i]
  BY <1>0, <1>1 DEF VersionsAnnounced
<1>2. CASE store'[k][i].version = cv /\ k \in Written(h)
  <2>1. CASE k \in h.writeConflicts
    BY <1>0, <1>r, <1>2, <2>1
  <2>2. CASE k \notin h.writeConflicts
    BY <1>0, <1>2, <2>2
  <2> QED BY <2>1, <2>2
<1>3. \/ i \in DOMAIN store[k] /\ store'[k][i] = store[k][i]
      \/ store'[k][i].version = cv /\ k \in Written(h)
  <2> DEFINE x == h.buffer[k].fn[valueAt(store[k], cv)]
             p == [version |-> cv, value |-> x]
  <2>1. \/ store'[k] = store[k]
        \/ k \in Written(h) /\ store'[k] = Append(store[k], p)
    BY <1>0 DEF applyMutations, put
  <2>2. p.version = cv
    OBVIOUS
  <2> HIDE DEF p
  <2>3. CASE store'[k] = Append(store[k], p) /\ k \in Written(h)
    BY <1>s, <2>2, <2>3
  <2>4. CASE store'[k] = store[k]
    BY <2>4
  <2> QED BY <2>1, <2>3, <2>4
<1> QED BY <1>1, <1>2, <1>3

\* What a handle observed stays guarded by its read conflicts.
LEMMA ObservedStep ==
  ASSUME Inv, SnapshotPinned, ObservedGuarded, [Next]_vars
  PROVE  ObservedGuarded'
<1> USE DEF Inv
<1>0. TypeOK' /\ BuffersGood' /\ lastVersion \in Nat
  BY TypeStep, HandlesStep DEF TypeOK
<1>1. SnapshotPinned' /\ \A k \in Keys, rv \in 0..lastVersion :
                            valueAt(store'[k], rv) = valueAt(store[k], rv)
  BY SnapshotStep
<1> SUFFICES ASSUME NEW u \in Txn, NEW o \in observed'[u]
             PROVE  /\ tx'[u].rvSet
                    /\ o[1] \in tx'[u].readConflicts
                    /\ \/ tx'[u].ahead
                       \/ o[2] = valueAt(store'[o[1]], tx'[u].readVersion)
  BY Zenon DEF ObservedGuarded, valueAt
<1>2. Keeps(u)
  BY EveryStep DEF Fresh
<1>3. /\ tx'[u] \in Handle /\ GoodBuffer(tx'[u].buffer)
      /\ tx'[u].readVersion \in Nat /\ tx'[u].readConflicts \subseteq Keys
  BY <1>0, HandleFields DEF TypeOK, BuffersGood, GoodBuffer, GoodPending
<1>4. SUFFICES /\ tx'[u].rvSet
               /\ o[1] \in tx'[u].readConflicts
               /\ tx'[u].ahead \/ o[2] = valueAt(store[o[1]], tx'[u].readVersion)
  <2>1. tx'[u].ahead \/ tx'[u].readVersion <= lastVersion
    BY <1>0, <1>2, <1>4 DEF Keeps, SameSnapshot, SnapshotPinned
  <2>2. tx'[u].ahead \/ tx'[u].readVersion \in 0..lastVersion
    BY <1>0, <1>3, <2>1
  <2> QED BY <1>1, <1>3, <1>4, <2>2
<1>5. CASE o \in observed[u]
  BY <1>2, <1>5 DEF Keeps, SameSnapshot, ObservedGuarded
<1>6. CASE o \notin observed[u]
  <2>1. PICK K \in SUBSET Keys :
          /\ tx'[u].rvSet
          /\ o \in Learned(u, tx'[u], K)
          /\ filteredConflict(u, tx'[u], K) \subseteq tx'[u].readConflicts
    BY <1>2, <1>6 DEF Keeps
  <2> QED BY <1>3, <2>1, LearnedIsGuarded
<1> QED BY <1>5, <1>6

\* The commit that is applied saw, for each value it depended on, the value
\* just below its own version.
LEMMA AppliedReadsCurrent ==
  ASSUME Inv, SnapshotPinned, VersionsAnnounced, ObservedGuarded,
         NEW t \in Txn, NEW o \in observed[t], NEW h \in Handle,
         NEW cv \in Nat, cv > lastVersion, tx[t].rvSet, ~tx[t].ahead,
         h.readConflicts = tx[t].readConflicts, ~Conflicts(h),
         h.readVersion = tx[t].readVersion
  PROVE  \/ o[2] = valueAt(store[o[1]], cv - 1)
         \/ \E q \in unguarded :
              q[1] = o[1] /\ h.readVersion < q[2] /\ q[2] < cv
<1> USE DEF Inv
<1> DEFINE k == o[1]
           rv == h.readVersion
<1>1. /\ k \in Keys /\ k \in h.readConflicts /\ o[2] = valueAt(store[k], rv)
      /\ rv \in Nat /\ lastVersion \in Nat /\ rv <= lastVersion /\ lastVersion <= cv - 1
      /\ store[k] \in Seq(Version)
  BY HandleFields DEF ObservedGuarded, SnapshotPinned, TypeOK
<1>2. CASE \A i \in DOMAIN store[k] :
             ~(rv < store[k][i].version /\ store[k][i].version <= lastVersion)
  <2>1. \A i \in DOMAIN store[k] :
          ~(rv < store[k][i].version /\ store[k][i].version <= cv - 1)
    BY <1>1, <1>2 DEF VersionsBounded
  <2>2. rv \in Int /\ cv - 1 \in Int /\ rv <= cv - 1
    BY <1>1
  <2> QED BY <1>1, <2>1, <2>2, ValueUnchanged
<1>3. ASSUME NEW i \in DOMAIN store[k], rv < store[k][i].version,
             store[k][i].version <= lastVersion
      PROVE  <<k, store[k][i].version>> \in unguarded
  <2>1. ASSUME NEW w \in recentWrites, w.version = store[k][i].version, k \in w.keys
        PROVE  FALSE
    BY <1>1, <1>3, <2>1 DEF Conflicts
  <2> QED BY <1>1, <2>1 DEF VersionsAnnounced
<1>4. ASSUME NEW i \in DOMAIN store[k], rv < store[k][i].version,
             store[k][i].version <= lastVersion
      PROVE  \E q \in unguarded : q[1] = k /\ rv < q[2] /\ q[2] < cv
  <2> DEFINE n == store[k][i].version
  <2>1. n \in Nat
    <3>1. store[k][i] \in Version
      BY <1>1, <1>4
    <3> QED BY <3>1 DEF Version
  <2>2. <<k, n>> \in unguarded
    BY <1>3, <1>4
  <2>3. rv < n /\ n < cv
    BY <1>1, <1>4, <2>1
  <2> HIDE DEF n, k, rv
  <2> WITNESS <<k, n>> \in unguarded
  <2> QED BY <2>3
<1> QED BY <1>2, <1>4

\* A commit that passes the conflict check read nothing that changed since.
LEMMA SerializableStep ==
  ASSUME SnapshotInv, NEW t \in Txn, NEW fault \in Faults, CommitApplied(t, fault)
  PROVE  SerializableReads'
<1> USE DEF SnapshotInv, Inv
<1> DEFINE h == Committing(tx[t])
           cv == commitVersion
           n == Applied(t, h, cv, Verdict(h, fault) = 0)
<1>0. /\ cv \in Nat /\ lastVersion \in Nat /\ h \in Handle
      /\ h.readConflicts = tx[t].readConflicts /\ SameSnapshot(tx[t], h)
      /\ ~Conflicts(h) /\ store' = applyMutations(h, cv)
      /\ unguarded \subseteq unguarded'
  BY AppliedCommit
<1>1. cv > lastVersion
  BY AppliedCommit
<1>n. /\ log' = log \cup {n}
      /\ n.version = cv /\ n.readVersion = h.readVersion /\ n.observed = observed[t]
      /\ n.ahead = h.ahead
  <2>1. log' = log \cup {n}
    BY DEF CommitApplied
  <2> HIDE DEF h, cv
  <2> QED BY <2>1 DEF Applied
<1> HIDE DEF h, cv, n
<1> SUFFICES ASSUME NEW e \in log', ~e.ahead, NEW o \in e.observed
             PROVE  \/ o[2] = valueAt(store'[o[1]], e.version - 1)
                    \/ \E q \in unguarded' :
                         q[1] = o[1] /\ e.readVersion < q[2] /\ q[2] < e.version
  BY Zenon DEF SerializableReads, ReadsCurrent, valueAt
<1>2. CASE e \in log
  <2>1. /\ e.version \in Nat /\ e.version <= lastVersion /\ o[1] \in Keys
    BY <1>2 DEF VersionsBounded, TypeOK, LogEntry
  <2>2. e.version - 1 \in Int /\ e.version - 1 < cv
    BY <1>0, <1>1, <2>1
  <2>3. valueAt(store'[o[1]], e.version - 1) = valueAt(store[o[1]], e.version - 1)
    BY <1>0, <2>1, <2>2, AppliedBelow
  <2>4. \/ o[2] = valueAt(store[o[1]], e.version - 1)
        \/ \E q \in unguarded :
             q[1] = o[1] /\ e.readVersion < q[2] /\ q[2] < e.version
    BY <1>2 DEF SerializableReads, ReadsCurrent
  <2> QED BY <1>0, <2>3, <2>4
<1>3. CASE e = n
  <2>1. o \in observed[t] /\ o[1] \in Keys
    BY <1>n, <1>3 DEF TypeOK
  <2>2. tx[t].rvSet /\ ~tx[t].ahead /\ h.readVersion = tx[t].readVersion
    BY <1>0, <1>n, <1>3, <2>1 DEF ObservedGuarded, SameSnapshot
  <2>3. \/ o[2] = valueAt(store[o[1]], cv - 1)
        \/ \E q \in unguarded :
             q[1] = o[1] /\ h.readVersion < q[2] /\ q[2] < cv
    BY <1>0, <1>1, <2>1, <2>2, AppliedReadsCurrent
  <2>4. cv - 1 \in Int /\ cv - 1 < cv
    BY <1>0
  <2>5. valueAt(store'[o[1]], cv - 1) = valueAt(store[o[1]], cv - 1)
    BY <1>0, <2>1, <2>4, AppliedBelow
  <2> QED BY <1>0, <1>n, <1>3, <2>3, <2>5
<1> QED BY <1>n, <1>2, <1>3

\* Every step keeps the invariant of snapshots.
LEMMA SnapshotInvStep ==
  ASSUME SnapshotInv, [Next]_vars
  PROVE  SnapshotInv'
<1> USE DEF SnapshotInv
<1>1. Inv' /\ SnapshotPinned' /\ ObservedGuarded'
  BY InvStep, SnapshotStep, ObservedStep
<1>2. CASE UNCHANGED <<store, lastVersion, recentWrites, unguarded, log>>
  <2>1. VersionsAnnounced'
    BY <1>2 DEF VersionsAnnounced
  <2>2. SerializableReads'
    <3> SUFFICES ASSUME NEW e \in log', ~e.ahead, NEW o \in e.observed
                 PROVE  \/ o[2] = valueAt(store'[o[1]], e.version - 1)
                        \/ \E q \in unguarded' :
                             q[1] = o[1] /\ e.readVersion < q[2] /\ q[2] < e.version
      BY Zenon DEF SerializableReads, ReadsCurrent, valueAt
    <3> QED BY <1>2 DEF SerializableReads, ReadsCurrent
  <2> QED BY <1>1, <2>1, <2>2
<1>3. ASSUME NEW t \in Txn, NEW fault \in Faults, CommitApplied(t, fault)
      PROVE  SnapshotInv'
  BY <1>1, <1>3, AnnouncedStep, SerializableStep
<1> QED BY <1>2, <1>3, QuietStep

\* The invariant of snapshots holds of a new database.
LEMMA SnapshotInvInit == Init => SnapshotInv
<1> SUFFICES ASSUME Init PROVE SnapshotInv
  OBVIOUS
<1>1. Inv
  BY InvInit
<1>2. SnapshotPinned
  BY DEF Init, SnapshotPinned, newTxn
<1>3. VersionsAnnounced /\ ObservedGuarded /\ SerializableReads
  BY DEF Init, VersionsAnnounced, ObservedGuarded, SerializableReads
<1> QED BY <1>1, <1>2, <1>3 DEF SnapshotInv

\* Every applied commit read what is stored just below it, for every clock and
\* every use of SetReadVersion, if its snapshot was pinned once and not above the
\* last commit of that moment.
THEOREM SerializableReadsHolds == Spec => []SerializableReads
<1>1. SnapshotInv /\ [Next]_vars => SnapshotInv'
  BY SnapshotInvStep
<1>2. SnapshotInv => SerializableReads
  BY DEF SnapshotInv
<1> QED BY <1>1, <1>2, SnapshotInvInit, PTL DEF Spec

-----------------------------------------------------------------------------
(* The committed version that a handle reports. *)

\* Both reports are the same.
SameReport(h, g) ==
  g.committed = h.committed /\ g.committedVersion = h.committedVersion

\* A handle in this state names no committed version.
NoReport(h) == ~h.committed \/ h.committedVersion = -1

\* A handle names an applied and answered commit of its own.
Backed(u, h, entries) ==
  \E e \in entries : e.tx = u /\ e.version = h.committedVersion /\ e.answered

\* What a step does to the report of a handle.
Reports(u) ==
  \/ SameReport(tx[u], tx'[u])
  \/ NoReport(tx'[u])
  \/ Backed(u, tx'[u], log')

\* A step that changes one handle, and neither reports a commit nor touches the
\* report of another.
LEMMA HandleReport ==
  ASSUME TypeOK, NEW t \in Txn, NEW u \in Txn, NEW g,
         tx' = [tx EXCEPT ![t] = g],
         SameReport(tx[t], g) \/ NoReport(g) \/ Backed(t, g, log')
  PROVE  Reports(u)
<1>1. CASE u = t
  <2>1. tx'[u] = g
    BY <1>1 DEF TypeOK
  <2> QED BY <1>1, <2>1 DEF Reports
<1>2. CASE u # t
  <2>1. tx'[u] = tx[u]
    BY <1>2 DEF TypeOK
  <2> QED BY <2>1 DEF Reports, SameReport
<1> QED BY <1>1, <1>2

\* Pinning a snapshot does not touch the report.
LEMMA EnsureReport ==
  ASSUME TypeOK, NEW h \in Handle, NEW g, g = ensureReadVersion(h)
  PROVE  g \in Handle /\ SameReport(h, g)
<1>1. g \in Handle
  BY HandleTypes
<1>2. CASE h.rvSet
  BY <1>1, <1>2 DEF ensureReadVersion, SameReport
<1>3. CASE ~h.rvSet
  <2> DEFINE a == latestVersion > lastVersion
  <2>1. g = [h EXCEPT !.rvSet = TRUE, !.readVersion = latestVersion, !.ahead = a]
    BY <1>3 DEF ensureReadVersion
  <2> HIDE DEF a
  <2> QED BY <1>1, <2>1 DEF SameReport, Handle
<1> QED BY <1>2, <1>3

\* Commit withdraws the report of the handle before it decides anything.
LEMMA CommittingReport ==
  ASSUME TypeOK, NEW h \in Handle, NEW g, g = Committing(h)
  PROVE  g \in Handle /\ ~g.committed
<1> DEFINE f == [h EXCEPT !.committed = FALSE]
<1>1. f \in Handle /\ ~f.committed
  BY DEF Handle
<1>2. g = ensureReadVersion(f)
  BY DEF Committing
<1> HIDE DEF f
<1> QED BY <1>1, <1>2, EnsureReport DEF SameReport

\* A read leaves every report alone.
LEMMA ReadKeysReport ==
  ASSUME TypeOK, NEW t \in Txn, NEW u \in Txn, NEW K, NEW C, NEW snapshot,
         NEW h, h = ensureReadVersion(tx[t]), ReadKeys(t, h, K, C, snapshot)
  PROVE  Reports(u) /\ log' = log
<1>0. tx[t] \in Handle
  BY DEF TypeOK
<1> DEFINE rc == IF snapshot THEN h.readConflicts ELSE h.readConflicts \cup C
           g == [h EXCEPT !.readConflicts = rc, !.err = 0, !.ops = @ + 1]
<1>1. h \in Handle /\ SameReport(tx[t], h)
  BY <1>0, EnsureReport
<1>2. tx' = [tx EXCEPT ![t] = g] /\ log' = log
  BY DEF ReadKeys
<1>3. g.committed = h.committed /\ g.committedVersion = h.committedVersion
  <2> HIDE DEF rc
  <2> QED BY <1>1 DEF Handle
<1>4. SameReport(tx[t], g)
  BY <1>1, <1>3 DEF SameReport
<1> HIDE DEF g
<1> QED BY <1>2, <1>4, HandleReport

\* A write leaves every report alone.
LEMMA WriteReport ==
  ASSUME TypeOK, NEW t \in Txn, NEW u \in Txn, NEW K, NEW buf, Write(t, K, buf)
  PROVE  Reports(u) /\ log' = log
<1> DEFINE g == enqueue(tx[t], t, K, buf)
<1>0. tx[t] \in Handle
  BY DEF TypeOK
<1>1. SameReport(tx[t], g)
  BY <1>0 DEF enqueue, Handle, SameReport
<1>2. tx' = [tx EXCEPT ![t] = g] /\ log' = log
  BY DEF Write, history
<1> HIDE DEF g
<1> QED BY <1>1, <1>2, HandleReport

\* The reading calls leave every report alone.
LEMMA ReadReport ==
  ASSUME TypeOK, NEW t \in Txn, NEW u \in Txn, Read(t)
  PROVE  Reports(u) /\ log' = log
<1> USE DEF history
<1>0. tx[t] \in Handle
  BY DEF TypeOK
<1>1. CASE ReadCancelled(t)
  <2> DEFINE g == [tx[t] EXCEPT !.err = 1025]
  <2>1. SameReport(tx[t], g)
    BY <1>0 DEF Handle, SameReport
  <2>2. tx' = [tx EXCEPT ![t] = g] /\ log' = log
    BY <1>1 DEF ReadCancelled, Fail
  <2> HIDE DEF g
  <2> QED BY <2>1, <2>2, HandleReport
<1>2. ASSUME NEW k \in Keys, NEW snapshot \in BOOLEAN, get(t, k, snapshot)
      PROVE  Reports(u) /\ log' = log
  <2> DEFINE h == ensureReadVersion(tx[t])
  <2>1. ReadKeys(t, h, {k}, filteredConflict(t, h, {k}), snapshot)
    BY <1>2 DEF get
  <2> QED BY <2>1, ReadKeysReport
<1>3. ASSUME NEW lo \in Keys, NEW hi \in Keys, NEW limit \in RowLimits,
             NEW reverse \in BOOLEAN, NEW snapshot \in BOOLEAN,
             getRange(t, lo, hi, limit, reverse, snapshot)
      PROVE  Reports(u) /\ log' = log
  <2> DEFINE h == ensureReadVersion(tx[t])
             rows == rangeRows(t, h, lo, hi, limit, reverse)
             more == Cardinality(rows) = limit
             told == Told(lo, hi, rows, more, reverse)
             extent == rangeConflictExtent(lo, hi, rows, more, reverse)
  <2>1. ReadKeys(t, h, told, filteredConflict(t, h, extent), snapshot)
    BY <1>3 DEF getRange
  <2> HIDE DEF told, extent
  <2> QED BY <2>1, ReadKeysReport
<1>4. CASE GetReadVersion(t)
  <2> DEFINE h == ensureReadVersion(tx[t])
             g == [h EXCEPT !.err = 0]
  <2>1. h \in Handle /\ SameReport(tx[t], h)
    BY <1>0, EnsureReport
  <2>2. g.committed = h.committed /\ g.committedVersion = h.committedVersion
    BY <2>1 DEF Handle
  <2>3. tx' = [tx EXCEPT ![t] = g] /\ log' = log
    BY <1>4 DEF GetReadVersion
  <2>4. SameReport(tx[t], g)
    BY <2>1, <2>2 DEF SameReport
  <2> HIDE DEF g, h
  <2> QED BY <2>3, <2>4, HandleReport
<1>5. ASSUME NEW v \in 0..MaxVersion, SetReadVersion(t, v)
      PROVE  Reports(u) /\ log' = log
  <2> DEFINE a == Moved(t, v)
             g == [tx[t] EXCEPT !.rvSet = TRUE, !.readVersion = v, !.ahead = a]
  <2>2. tx' = [tx EXCEPT ![t] = g] /\ log' = log
    BY <1>5, SetReadVersionStep DEF SetReadVersion
  <2> HIDE DEF a
  <2>1. SameReport(tx[t], g)
    BY <1>0 DEF Handle, SameReport
  <2> HIDE DEF g
  <2> QED BY <2>1, <2>2, HandleReport
<1>6. ASSUME NEW lo \in Keys, NEW hi \in Keys, AddReadConflictRange(t, lo, hi)
      PROVE  Reports(u) /\ log' = log
  <2> DEFINE rc == tx[t].readConflicts \cup filteredConflict(t, tx[t], lo..hi)
             g == [tx[t] EXCEPT !.readConflicts = rc, !.ops = @ + 1]
  <2>1. SameReport(tx[t], g)
    <3> HIDE DEF rc
    <3> QED BY <1>0 DEF Handle, SameReport
  <2>2. tx' = [tx EXCEPT ![t] = g] /\ log' = log
    BY <1>6 DEF AddReadConflictRange, TypeOK
  <2> HIDE DEF g
  <2> QED BY <2>1, <2>2, HandleReport
<1>7. Snapshots \subseteq BOOLEAN
  BY DEF Snapshots
<1> QED BY <1>1, <1>2, <1>3, <1>4, <1>5, <1>6, <1>7 DEF Read

\* The writing calls leave every report alone.
LEMMA MutateReport ==
  ASSUME TypeOK, NEW t \in Txn, NEW u \in Txn, Mutate(t)
  PROVE  Reports(u) /\ log' = log
<1> USE DEF history
<1>0. tx[t] \in Handle
  BY DEF TypeOK
<1>1. ASSUME NEW lo \in Keys, NEW hi \in Keys, AddWriteConflictRange(t, lo, hi)
      PROVE  Reports(u) /\ log' = log
  <2> DEFINE wc == tx[t].writeConflicts \cup lo..hi
             g == [tx[t] EXCEPT !.writeConflicts = wc, !.ops = @ + 1]
  <2>1. SameReport(tx[t], g)
    <3> HIDE DEF wc
    <3> QED BY <1>0 DEF Handle, SameReport
  <2>2. tx' = [tx EXCEPT ![t] = g] /\ log' = log
    BY <1>1 DEF AddWriteConflictRange, TypeOK
  <2> HIDE DEF g
  <2> QED BY <2>1, <2>2, HandleReport
<1>2. ASSUME NEW k \in Keys, NEW x \in Operands, Set(t, k, x)
      PROVE  Reports(u) /\ log' = log
  BY <1>2, WriteReport DEF Set
<1>3. ASSUME NEW lo \in Keys, NEW hi \in Keys, ClearRange(t, lo, hi)
      PROVE  Reports(u) /\ log' = log
  <2> DEFINE b == [k \in Keys |-> IF k \in lo..hi THEN Clearing ELSE tx[t].buffer[k]]
  <2>1. Write(t, lo..hi, b)
    BY <1>3 DEF ClearRange
  <2> HIDE DEF b
  <2> QED BY <2>1, WriteReport
<1>4. ASSUME NEW k \in Keys, NEW op \in AtomicOps, NEW x \in Operands,
             Atomic(t, k, op, x)
      PROVE  Reports(u) /\ log' = log
  <2> DEFINE b == [tx[t].buffer EXCEPT ![k] = FoldAtomic(@, applyAtomic(op, x))]
  <2>1. Write(t, {k}, b)
    BY <1>4 DEF Atomic
  <2> HIDE DEF b
  <2> QED BY <2>1, WriteReport
<1>5. CASE SetNextWriteNoWriteConflictRange(t)
  <2> DEFINE g == [tx[t] EXCEPT !.nextWriteNoConflict = TRUE]
  <2>1. SameReport(tx[t], g)
    BY <1>0 DEF Handle, SameReport
  <2>2. tx' = [tx EXCEPT ![t] = g] /\ log' = log
    BY <1>5 DEF SetNextWriteNoWriteConflictRange
  <2> HIDE DEF g
  <2> QED BY <2>1, <2>2, HandleReport
<1> QED BY <1>1, <1>2, <1>3, <1>4, <1>5 DEF Mutate

\* Commit withdraws the report, and makes a new one only with an answered entry
\* of the log behind it.
LEMMA CommitReport ==
  ASSUME TypeOK, NEW t \in Txn, NEW u \in Txn, Commit(t)
  PROVE  Reports(u) /\ log \subseteq log'
<1> USE DEF history
<1>0. tx[t] \in Handle
  BY DEF TypeOK
<1>1. CASE CommitCancelled(t)
  <2> DEFINE g == [tx[t] EXCEPT !.err = 1025]
  <2>1. SameReport(tx[t], g)
    BY <1>0 DEF Handle, SameReport
  <2>2. tx' = [tx EXCEPT ![t] = g] /\ log' = log
    BY <1>1 DEF CommitCancelled, Fail
  <2> HIDE DEF g
  <2> QED BY <2>1, <2>2, HandleReport
<1>2. CASE CommitNoop(t)
  <2> DEFINE g == [tx[t] EXCEPT !.err = 0]
  <2>1. SameReport(tx[t], g)
    BY <1>0 DEF Handle, SameReport
  <2>2. tx' = [tx EXCEPT ![t] = g] /\ log' = log
    BY <1>2 DEF CommitNoop
  <2> HIDE DEF g
  <2> QED BY <2>1, <2>2, HandleReport
<1>3. CASE CommitReadOnly(t)
  <2> DEFINE f == postCommitReset(tx[t])
             g == [f EXCEPT !.committed = TRUE, !.committedVersion = -1, !.err = 0]
  <2>1. f \in Handle
    BY <1>0, BufferType, Zero DEF postCommitReset, Handle
  <2>2. g.committedVersion = -1
    <3> HIDE DEF f
    <3> QED BY <2>1 DEF Handle
  <2>3. tx' = [tx EXCEPT ![t] = g] /\ log' = log
    BY <1>3 DEF CommitReadOnly
  <2> HIDE DEF g
  <2> QED BY <2>2, <2>3, HandleReport DEF NoReport
<1>4. ASSUME NEW fault \in Faults, CommitRejected(t, fault)
      PROVE  Reports(u) /\ log \subseteq log'
  <2> DEFINE h == Committing(tx[t])
             v == Verdict(h, fault)
             g == [h EXCEPT !.err = IF v = UnknownDiscarded THEN 1021 ELSE v]
  <2>1. h \in Handle /\ ~h.committed
    BY <1>0, CommittingReport
  <2>2. tx' = [tx EXCEPT ![t] = g] /\ log' = log
    BY <1>4 DEF CommitRejected
  <2>3. ~g.committed
    <3> HIDE DEF h, v
    <3> QED BY <2>1 DEF Handle
  <2> HIDE DEF g
  <2> QED BY <2>2, <2>3, HandleReport DEF NoReport
<1>5. ASSUME NEW fault \in Faults, CommitApplied(t, fault)
      PROVE  Reports(u) /\ log \subseteq log'
  <2> DEFINE h == Committing(tx[t])
             v == Verdict(h, fault)
             cv == commitVersion
             e == Applied(t, h, cv, v = 0)
             g == Answered(h, cv, v)
  <2>1. h \in Handle /\ ~h.committed
    BY <1>0, CommittingReport
  <2>2. /\ tx' = [tx EXCEPT ![t] = g]
        /\ log' = log \cup {e}
        /\ v \in {0, UnknownApplied}
    BY <1>5 DEF CommitApplied
  <2>3. CASE v = UnknownApplied
    <3>1. ~g.committed
      <4> HIDE DEF h, v, cv
      <4> QED BY <2>1, <2>3 DEF Handle, Answered
    <3> HIDE DEF g, e
    <3> QED BY <2>2, <3>1, HandleReport DEF NoReport
  <2>4. CASE v # UnknownApplied
    <3> HIDE DEF h, v, cv
    <3>1. v = 0
      BY <2>2, <2>4
    <3>2. e.tx = t /\ e.version = cv /\ e.answered
      BY <3>1 DEF Applied
    <3> DEFINE f == postCommitReset(h)
    <3>3. f \in Handle
      BY <2>1, BufferType, Zero DEF postCommitReset, Handle
    <3>4. g = [f EXCEPT !.committed = TRUE, !.committedVersion = cv, !.err = 0]
      BY <2>4 DEF Answered
    <3>5. g.committedVersion = cv
      <4> HIDE DEF f, g
      <4> QED BY <3>3, <3>4 DEF Handle
    <3> HIDE DEF g, e, f
    <3>6. Backed(t, g, log')
      BY <2>2, <3>2, <3>5 DEF Backed
    <3> QED BY <2>2, <3>6, HandleReport
  <2> QED BY <2>3, <2>4
<1> QED BY <1>1, <1>2, <1>3, <1>4, <1>5 DEF Commit

\* Reset and OnError withdraw the report.
LEMMA ResetReport ==
  ASSUME TypeOK, NEW t \in Txn, NEW u \in Txn, Reset(t) \/ OnError(t)
  PROVE  Reports(u) /\ log' = log
<1>0. tx[t] \in Handle
  BY DEF TypeOK
<1> DEFINE f == resetState(tx[t])
<1>1. f \in Handle /\ ~f.committed
  BY <1>0, BufferType, Zero DEF resetState, Handle
<1>2. CASE Reset(t)
  <2> DEFINE g == [f EXCEPT !.retryCount = 0]
  <2>1. tx' = [tx EXCEPT ![t] = g] /\ log' = log
    BY <1>2 DEF Reset
  <2>2. ~g.committed
    <3> HIDE DEF f
    <3> QED BY <1>1 DEF Handle
  <2> HIDE DEF g
  <2> QED BY <2>1, <2>2, HandleReport DEF NoReport
<1>3. CASE OnError(t)
  <2> DEFINE s == selfConflicts(tx[t])
             g == [f EXCEPT !.readConflicts = s, !.retryCount = @ + 1]
  <2>1. tx' = [tx EXCEPT ![t] = g] /\ log' = log
    BY <1>3 DEF OnError
  <2>2. ~g.committed
    <3> HIDE DEF f, s
    <3> QED BY <1>1 DEF Handle
  <2> HIDE DEF g
  <2> QED BY <2>1, <2>2, HandleReport DEF NoReport
<1> QED BY <1>2, <1>3

\* No step makes a handle report a commit that is not in the log.
LEMMA ReportStep ==
  ASSUME TypeOK, [Next]_vars, NEW u \in Txn
  PROVE  Reports(u) /\ log \subseteq log'
<1>1. ASSUME NEW t \in Txn, Read(t) \/ Mutate(t)
      PROVE  Reports(u) /\ log \subseteq log'
  BY <1>1, ReadReport, MutateReport
<1>2. ASSUME NEW t \in Txn, Commit(t)
      PROVE  Reports(u) /\ log \subseteq log'
  BY <1>2, CommitReport
<1>3. ASSUME NEW t \in Txn, Cancel(t)
      PROVE  Reports(u) /\ log \subseteq log'
  <2> DEFINE g == [tx[t] EXCEPT !.cancelled = TRUE]
  <2>1. SameReport(tx[t], g)
    BY DEF TypeOK, Handle, SameReport
  <2>2. tx' = [tx EXCEPT ![t] = g] /\ log' = log
    BY <1>3 DEF Cancel, history
  <2> HIDE DEF g
  <2> QED BY <2>1, <2>2, HandleReport
<1>4. ASSUME NEW t \in Txn, Reset(t) \/ OnError(t)
      PROVE  Reports(u) /\ log \subseteq log'
  BY <1>4, ResetReport
<1>5. CASE Close \/ MoveClock \/ UNCHANGED vars
  <2>1. tx' = tx /\ log' = log
    BY <1>5 DEF Close, MoveClock, vars, history
  <2> QED BY <2>1 DEF Reports, SameReport
<1> QED BY <1>1, <1>2, <1>3, <1>4, <1>5 DEF Next

\* A handle reports a committed version only of a commit of its own that was
\* applied and whose answer it received: for every mix of commits, lost answers,
\* retries, cancellations and resets.
THEOREM CommittedIsDurableHolds == Spec => []CommittedIsDurable
<1>1. Init => CommittedIsDurable
  BY DEF Init, newTxn, CommittedIsDurable
<1>2. TypeOK /\ CommittedIsDurable /\ [Next]_vars => CommittedIsDurable'
  <2> SUFFICES ASSUME TypeOK, CommittedIsDurable, [Next]_vars, NEW u \in Txn,
                      tx'[u].committed, tx'[u].committedVersion # -1
               PROVE  Backed(u, tx'[u], log')
    BY DEF CommittedIsDurable, Backed
  <2>1. Reports(u) /\ log \subseteq log'
    BY ReportStep
  <2>2. CASE SameReport(tx[u], tx'[u])
    <3>1. tx[u].committed /\ tx[u].committedVersion # -1
      BY <2>2 DEF SameReport
    <3>2. PICK e \in log : /\ e.tx = u /\ e.version = tx[u].committedVersion
                           /\ e.answered
      BY <3>1 DEF CommittedIsDurable
    <3>3. e \in log' /\ e.version = tx'[u].committedVersion
      BY <2>1, <2>2, <3>2 DEF SameReport
    <3> QED BY <3>2, <3>3 DEF Backed
  <2> QED BY <2>1, <2>2 DEF Reports, NoReport
<1> QED BY <1>1, <1>2, TypeCorrect, PTL DEF Spec
=============================================================================
