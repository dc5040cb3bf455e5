--------------------------- MODULE RangeSetProofs ---------------------------
(***************************************************************************)
(* The entries of the range set implement a set of points, and what        *)
(* MissingRanges returns is exact, for every size of the key space.        *)
(*                                                                         *)
(* The inductive invariant is Good: the entries are non-empty ranges of    *)
(* the key space and no two overlap.  Each of the two loops over a scan    *)
(* has an invariant of its own (Filled, Listed), proved along the points   *)
(* the walk has passed.                                                    *)
(***************************************************************************)
EXTENDS RangeSet, TLAPS, WellFoundedInduction

\* The entries E are ranges of the key space, none empty and no two overlap.
Good(E) ==
  /\ DOMAIN E \subseteq 0 .. N - 1
  /\ E = [b \in DOMAIN E |-> E[b]]
  /\ \A b \in DOMAIN E : E[b] \in 0 .. N /\ b < E[b]
  /\ \A b, c \in DOMAIN E : b < c => E[b] <= c

\* The points of the ranges of E.
Cov(E) == UNION {b .. E[b] - 1 : b \in DOMAIN E}

Inv == Good(entries) /\ changed \in BOOLEAN

-----------------------------------------------------------------------------
(* Recursion along an interval. *)

\* The natural numbers are well ordered.
LEMMA LeastNat ==
  ASSUME NEW T, T \subseteq Nat, T # {}
  PROVE  \E m \in T : \A y \in T : m <= y
<1> DEFINE R == OpToRel(<, Nat)
<1>1. PICK m \in T : \A y \in T : ~(<<y, m>> \in R)
  <2> HIDE DEF R
  <2>1. IsWellFoundedOn(R, Nat)
    BY NatLessThanWellFounded DEF R
  <2> QED BY <2>1, WFMin
<1>2. \A y \in T : ~(y < m)
  BY <1>1, Zenon DEF OpToRel
<1>3. \A y \in T : m <= y
  <2> HIDE DEF R
  <2> QED BY <1>2
<1> HIDE DEF R
<1> QED BY <1>3

\* A set of points of an interval that has its first point, and with a point
\* the next one, is the whole interval.
LEMMA IntervalInduction ==
  ASSUME NEW lo \in Nat, NEW hi \in Nat, lo <= hi,
         NEW S, lo \in S,
         \A p \in lo .. hi : p \in S /\ p < hi => p + 1 \in S
  PROVE  \A p \in lo .. hi : p \in S
<1> DEFINE T == {p \in lo .. hi : p \notin S}
<1>1. SUFFICES ASSUME T # {} PROVE FALSE
  OBVIOUS
<1>2. PICK m \in T : \A y \in T : m <= y
  <2>1. T \subseteq Nat
    OBVIOUS
  <2> HIDE DEF T
  <2> QED BY <1>1, <2>1, LeastNat
<1>3. m \in lo .. hi /\ m # lo /\ m \notin S
  BY <1>2
<1>4. m - 1 \in lo .. hi /\ m - 1 < hi /\ m - 1 + 1 = m
  BY <1>3
<1>5. m - 1 \in S
  BY <1>2, <1>4
<1> QED BY <1>3, <1>4, <1>5

\* G gives each point of an interval a step of A, and f takes them from a on.
IsStep(G, lo, hi, A) == G \in [lo .. hi -> [A -> A]]

IsWalk(f, lo, hi, A, a, G) ==
  /\ f \in [lo .. hi -> A]
  /\ f[lo] = a
  /\ \A p \in lo + 1 .. hi : f[p] = G[p - 1][f[p - 1]]

\* A step function can be iterated along an interval.
LEMMA WalkExists ==
  ASSUME NEW lo \in Nat, NEW hi \in Nat, lo <= hi,
         NEW A, NEW a \in A, NEW G, IsStep(G, lo, hi, A)
  PROVE  \E f : IsWalk(f, lo, hi, A, a, G)
<1> USE DEF IsStep
<1> DEFINE Walks(m, f) == f[lo] = a /\ \A p \in lo + 1 .. m : f[p] = G[p - 1][f[p - 1]]
           S == {m \in lo .. hi : \E f \in [lo .. m -> A] : Walks(m, f)}
<1>1. lo \in S
  <2> DEFINE f == [x \in lo .. lo |-> a]
  <2>1. f \in [lo .. lo -> A] /\ f[lo] = a
    OBVIOUS
  <2>2. lo + 1 .. lo = {}
    OBVIOUS
  <2> HIDE DEF f
  <2> QED BY <2>1, <2>2
<1>2. ASSUME NEW m \in lo .. hi, m \in S, m < hi
      PROVE  m + 1 \in S
  <2>1. PICK f \in [lo .. m -> A] : Walks(m, f)
    BY <1>2
  <2> DEFINE z == G[m][f[m]]
             g == [x \in lo .. m + 1 |-> IF x = m + 1 THEN z ELSE f[x]]
  <2>2. z \in A
    OBVIOUS
  <2>3. g \in [lo .. m + 1 -> A] /\ g[lo] = a
    <3> HIDE DEF z
    <3> QED BY <2>1, <2>2
  <2>4. ASSUME NEW p \in lo + 1 .. m + 1
        PROVE  g[p] = G[p - 1][g[p - 1]]
    <3>1. g[p - 1] = f[p - 1]
      OBVIOUS
    <3>2. CASE p = m + 1
      BY <3>1, <3>2
    <3>3. CASE p \in lo + 1 .. m
      BY <2>1, <3>1, <3>3
    <3> QED BY <3>2, <3>3
  <2> HIDE DEF g
  <2>5. m + 1 \in lo .. hi
    BY <1>2
  <2> QED BY <2>3, <2>4, <2>5
<1>3. \A p \in lo .. hi : p \in S
  <2> HIDE DEF S
  <2> QED BY <1>1, <1>2, IntervalInduction
<1>4. hi \in S
  BY <1>3
<1> QED BY <1>4 DEF IsWalk

-----------------------------------------------------------------------------
(* Entries and the points they cover. *)

\* A point is covered when an entry begins at or before it and ends after it.
LEMMA InCov ==
  ASSUME NEW E, Good(E), NEW x \in Nat
  PROVE  x \in Cov(E) <=> \E b \in DOMAIN E : b <= x /\ x < E[b]
BY NAssumption DEF Good, Cov

LEMMA CovPoints ==
  ASSUME NEW E, Good(E)
  PROVE  Cov(E) \subseteq 0 .. N - 1
BY NAssumption DEF Good, Cov

\* An entry set where no other range begins before its end, and after the end
\* of every range that begins earlier, leaves the entries good and adds its
\* points.
LEMMA PutGood ==
  ASSUME NEW E, Good(E), NEW k \in 0 .. N - 1, NEW v \in 0 .. N, k < v,
         \A b \in DOMAIN E : b < k => E[b] <= k,
         \A b \in DOMAIN E : b > k => b >= v,
         k \in DOMAIN E => E[k] <= v
  PROVE  /\ Good(Put(E, k, v))
         /\ Cov(Put(E, k, v)) = Cov(E) \cup (k .. v - 1)
<1> DEFINE F == Put(E, k, v)
<1>1. DOMAIN F = DOMAIN E \cup {k}
  BY DEF Put
<1>2. F = [b \in DOMAIN F |-> F[b]]
  BY DEF Put
<1>3. F[k] = v /\ \A b \in DOMAIN E : b # k => F[b] = E[b]
  BY DEF Put
<1> HIDE DEF F
<1>4. Good(F)
  <2>1. DOMAIN F \subseteq 0 .. N - 1
    BY <1>1, NAssumption DEF Good
  <2>2. \A b \in DOMAIN F : F[b] \in 0 .. N /\ b < F[b]
    BY <1>1, <1>3, NAssumption DEF Good
  <2>3. ASSUME NEW b \in DOMAIN F, NEW c \in DOMAIN F, b < c
        PROVE  F[b] <= c
    <3>1. CASE b = k
      BY <3>1, <2>3, <1>1, <1>3, NAssumption DEF Good
    <3>2. CASE b # k /\ c = k
      BY <3>2, <2>3, <1>1, <1>3, NAssumption DEF Good
    <3>3. CASE b # k /\ c # k
      BY <3>3, <2>3, <1>1, <1>3, NAssumption DEF Good
    <3> QED BY <3>1, <3>2, <3>3
  <2> QED BY <1>2, <2>1, <2>2, <2>3 DEF Good
<1>5. ASSUME NEW x \in Nat
      PROVE  x \in Cov(F) <=> x \in Cov(E) \/ (k <= x /\ x < v)
  <2>1. x \in Cov(F) <=> \E b \in DOMAIN F : b <= x /\ x < F[b]
    BY <1>4, InCov
  <2>2. x \in Cov(E) <=> \E b \in DOMAIN E : b <= x /\ x < E[b]
    BY InCov
  <2>3. DOMAIN E \subseteq Nat /\ \A b \in DOMAIN E : E[b] \in Nat
    BY NAssumption DEF Good
  <2> QED BY <2>1, <2>2, <2>3, <1>1, <1>3, NAssumption
<1>6. Cov(F) \subseteq Nat /\ Cov(E) \subseteq Nat
  BY <1>4, CovPoints, NAssumption
<1>7. Cov(F) = Cov(E) \cup (k .. v - 1)
  BY <1>5, <1>6, NAssumption
<1> QED BY <1>4, <1>7 DEF F

\* The reverse scan finds the last entry at or before key, if there is one.
LEMMA BeforeLast ==
  ASSUME Good(entries), NEW key \in 0 .. N
  PROVE  /\ \A b \in before(key) :
              /\ b \in DOMAIN entries /\ b <= key
              /\ before(key) = {b}
              /\ \A c \in DOMAIN entries : c <= key => c <= b
         /\ before(key) = {} => \A c \in DOMAIN entries : c > key
<1>1. DOMAIN entries \subseteq Nat
  BY NAssumption DEF Good
<1>2. ASSUME NEW b \in before(key)
      PROVE  /\ b \in DOMAIN entries /\ b <= key
             /\ before(key) = {b}
             /\ \A c \in DOMAIN entries : c <= key => c <= b
  BY <1>1, <1>2, NAssumption DEF before
<1>3. ASSUME NEW c \in DOMAIN entries, c <= key
      PROVE  before(key) # {}
  <2> DEFINE T == {x \in 0 .. key : key - x \in DOMAIN entries}
  <2>1. T \subseteq Nat /\ key - c \in T
    <3>1. key - c \in 0 .. key /\ key - (key - c) = c
      BY <1>1, <1>3, NAssumption
    <3> QED BY <1>3, <3>1, NAssumption
  <2>2. PICK m \in T : \A y \in T : m <= y
    <3> HIDE DEF T
    <3> QED BY <2>1, LeastNat
  <2>3. PICK b \in DOMAIN entries : b = key - m /\ b <= key
    BY <2>2, NAssumption
  <2>4. ASSUME NEW d \in DOMAIN entries, d <= key PROVE d <= b
    <3>1. key - d \in 0 .. key /\ key - (key - d) = d
      BY <1>1, <2>4, NAssumption
    <3>2. m <= key - d
      BY <2>2, <3>1
    <3> QED BY <2>2, <2>3, <3>2, <1>1, NAssumption
  <2> QED BY <2>3, <2>4 DEF before
<1> QED BY <1>1, <1>2, <1>3, NAssumption

\* The one entry a lookup reads decides it.
LEMMA ContainsExact ==
  ASSUME Good(entries), NEW key \in 0 .. N
  PROVE  /\ ContainsKey(key) <=> key \in Cov(entries)
         /\ ContainsKey(key) <=> \E b \in DOMAIN entries : b <= key /\ key < entries[b]
<1>1. key \in Nat
  BY NAssumption
<1>2. ASSUME NEW b \in DOMAIN entries, b <= key, key < entries[b]
      PROVE  ContainsKey(key)
  <2>1. PICK d \in before(key) : TRUE
    BY <1>2, BeforeLast, NAssumption DEF Good
  <2>2. d \in DOMAIN entries /\ d <= key /\ b <= d
    BY <2>1, <1>2, BeforeLast
  <2>3. b = d
    BY <2>2, <1>2, NAssumption DEF Good
  <2> QED BY <2>1, <2>3, <1>2 DEF ContainsKey
<1>3. ASSUME ContainsKey(key)
      PROVE  \E b \in DOMAIN entries : b <= key /\ key < entries[b]
  BY <1>3, BeforeLast DEF ContainsKey
<1> QED BY <1>1, <1>2, <1>3, InCov

\* Where an operation on [begin, ...) starts: every range that begins before
\* that point has ended there, and the points from begin up to it are covered.
LEMMA StartExact ==
  ASSUME Good(entries), NEW begin \in 0 .. N
  PROVE  /\ StartOf(begin) \in 0 .. N /\ begin <= StartOf(begin)
         /\ (begin .. StartOf(begin) - 1) \subseteq Cov(entries)
         /\ \A b \in DOMAIN entries :
              /\ b < StartOf(begin) => entries[b] <= StartOf(begin)
              /\ b >= StartOf(begin) => b > begin
              /\ b > begin => b >= StartOf(begin)
<1>1. DOMAIN entries \subseteq Nat /\ \A b \in DOMAIN entries : entries[b] \in 0 .. N /\ b < entries[b]
  BY NAssumption DEF Good
<1>2. CASE ContainsKey(begin)
  <2>1. PICK d \in before(begin) : begin < entries[d]
    BY <1>2 DEF ContainsKey
  <2>2. before(begin) = {d} /\ d \in DOMAIN entries /\ d <= begin
    BY <2>1, BeforeLast
  <2>3. StartOf(begin) = entries[d]
    BY <1>2, <2>2 DEF StartOf
  <2>4. \A x \in begin .. entries[d] - 1 : x \in Cov(entries)
    BY <2>2, <1>1, InCov, NAssumption
  <2>5. \A b \in DOMAIN entries : b < entries[d] => b <= d
    BY <2>2, <1>1, NAssumption DEF Good
  <2>6. \A b \in DOMAIN entries : b < d => entries[b] <= d
    BY <2>2 DEF Good
  <2>7. \A b \in DOMAIN entries : b < entries[d] => entries[b] <= entries[d]
    BY <2>2, <2>5, <2>6, <1>1, NAssumption
  <2>8. \A b \in DOMAIN entries : b >= entries[d] => b > begin
    BY <2>1, <2>2, <1>1, NAssumption
  <2>9. \A b \in DOMAIN entries : b > begin => b >= entries[d]
    BY <2>2, <1>1, NAssumption DEF Good
  <2>10. entries[d] \in 0 .. N /\ begin <= entries[d]
    BY <2>1, <2>2, <1>1, NAssumption
  <2> QED BY <2>3, <2>4, <2>7, <2>8, <2>9, <2>10
<1>3. CASE ~ContainsKey(begin)
  <2>1. StartOf(begin) = begin
    BY <1>3 DEF StartOf
  <2>2. \A b \in DOMAIN entries : b <= begin => entries[b] <= begin
    BY <1>1, <1>3, ContainsExact, NAssumption
  <2>3. \A b \in DOMAIN entries : b >= begin => b > begin
    BY <1>1, <2>2, NAssumption
  <2>4. begin .. begin - 1 = {}
    BY NAssumption
  <2> QED BY <2>1, <2>2, <2>3, <2>4, <1>1, NAssumption
<1> QED BY <1>2, <1>3

-----------------------------------------------------------------------------
(* The gap-filling loop. *)

\* The states of the loop.
Fills == [entries : UNION {[D -> 0 .. N] : D \in SUBSET (0 .. N)},
          changed : BOOLEAN, lastSeen : 0 .. N]

LEMMA FillGapType ==
  ASSUME Good(entries), NEW acc \in Fills, NEW next \in DOMAIN entries
  PROVE  FillGap(acc, next) \in Fills
<1>1. PICK D \in SUBSET (0 .. N) : acc.entries \in [D -> 0 .. N]
  BY DEF Fills
<1>2. acc.lastSeen \in 0 .. N /\ acc.changed \in BOOLEAN
  BY DEF Fills
<1>3. next \in 0 .. N /\ entries[next] \in 0 .. N
  BY NAssumption DEF Good
<1>4. Put(acc.entries, acc.lastSeen, next) \in [D \cup {acc.lastSeen} -> 0 .. N]
  BY <1>1, <1>2, <1>3 DEF Put
<1>5. D \cup {acc.lastSeen} \in SUBSET (0 .. N)
  BY <1>2
<1>6. ASSUME NEW E, E = Put(acc.entries, acc.lastSeen, next) \/ E = acc.entries
      PROVE  E \in UNION {[C -> 0 .. N] : C \in SUBSET (0 .. N)}
  BY <1>1, <1>4, <1>5, <1>6
<1>7. (IF acc.lastSeen < next THEN Put(acc.entries, acc.lastSeen, next) ELSE acc.entries)
         \in UNION {[C -> 0 .. N] : C \in SUBSET (0 .. N)}
  BY <1>6
<1> QED BY <1>2, <1>3, <1>7 DEF FillGap, Fills

\* The loop's state after each point, as the definition computes it.
LEMMA FillWalkStep ==
  ASSUME Good(entries), NEW begin \in 0 .. N, NEW end \in 0 .. N, begin < end
  PROVE  /\ FillWalk(begin, end)[begin]
              = [entries |-> entries, changed |-> FALSE, lastSeen |-> StartOf(begin)]
         /\ \A p \in begin + 1 .. end :
              FillWalk(begin, end)[p] =
                IF p - 1 \in after(begin, end) THEN FillGap(FillWalk(begin, end)[p - 1], p - 1)
                                               ELSE FillWalk(begin, end)[p - 1]
<1> DEFINE a == [entries |-> entries, changed |-> FALSE, lastSeen |-> StartOf(begin)]
           Step(acc, q) == IF q \in after(begin, end) THEN FillGap(acc, q) ELSE acc
           G == [q \in begin .. end |-> [acc \in Fills |-> Step(acc, q)]]
           Eq(f) == f = [p \in begin .. end |-> IF p = begin THEN a ELSE Step(f[p - 1], p - 1)]
<1>1. a \in Fills
  <2>1. entries \in [DOMAIN entries -> 0 .. N] /\ DOMAIN entries \in SUBSET (0 .. N)
    BY NAssumption DEF Good
  <2>2. entries \in UNION {[D -> 0 .. N] : D \in SUBSET (0 .. N)}
    BY <2>1
  <2> QED BY <2>2, StartExact DEF Fills
<1>2. \A acc \in Fills, q \in begin .. end : Step(acc, q) \in Fills
  BY FillGapType DEF after
<1>3. IsStep(G, begin, end, Fills)
  <2> HIDE DEF Step
  <2> QED BY <1>2 DEF IsStep
<1>4. begin \in Nat /\ end \in Nat /\ begin <= end
  BY NAssumption
<1>5. PICK f : IsWalk(f, begin, end, Fills, a, G)
  <2> HIDE DEF a, G
  <2> QED BY <1>1, <1>3, <1>4, WalkExists
<1>6. ASSUME NEW p \in begin + 1 .. end
      PROVE  f[p] = Step(f[p - 1], p - 1)
  <2>1. p - 1 \in begin .. end /\ f[p - 1] \in Fills
    BY <1>4, <1>5 DEF IsWalk
  <2>2. f[p] = G[p - 1][f[p - 1]]
    <3> HIDE DEF G, Step
    <3> QED BY <1>5 DEF IsWalk
  <2> HIDE DEF Step
  <2> QED BY <2>1, <2>2
<1>7. Eq(f)
  <2> HIDE DEF Step, a
  <2>1. f \in [begin .. end -> Fills] /\ f[begin] = a
    BY <1>5 DEF IsWalk
  <2> QED BY <1>4, <1>6, <2>1
<1>8. FillWalk(begin, end) = CHOOSE g : Eq(g)
  BY DEF FillWalk
<1>9. Eq(FillWalk(begin, end))
  <2> HIDE DEF Eq
  <2> QED BY <1>7, <1>8
<1> HIDE DEF a, Step
<1>10. /\ FillWalk(begin, end)[begin] = a
       /\ \A p \in begin + 1 .. end :
            FillWalk(begin, end)[p] = Step(FillWalk(begin, end)[p - 1], p - 1)
  BY <1>4, <1>9
<1> QED BY <1>10 DEF a, Step

\* The state acc of the loop when the entries of the scan below p are visited:
\* [begin, lastSeen) is covered and nothing else was added; the ranges that
\* begin before lastSeen have ended there and the others are yet to visit.
Filled(begin, p, acc) ==
  /\ Good(acc.entries)
  /\ acc.lastSeen \in 0 .. N /\ begin <= acc.lastSeen
  /\ DOMAIN entries \subseteq DOMAIN acc.entries
  /\ \A b \in DOMAIN entries : acc.entries[b] = entries[b]
  /\ \A b \in DOMAIN acc.entries :
       /\ b < acc.lastSeen => acc.entries[b] <= acc.lastSeen
       /\ b >= acc.lastSeen => b >= p /\ b > begin /\ b \in DOMAIN entries
  /\ Cov(acc.entries) = Cov(entries) \cup (begin .. acc.lastSeen - 1)
  /\ (p .. acc.lastSeen - 1) \subseteq Cov(entries)
  /\ acc.changed = ~((begin .. acc.lastSeen - 1) \subseteq Cov(entries))

\* Writing the gap [lastSeen, v) keeps the entries good, covers the gap, and
\* is a change.
LEMMA GapFilled ==
  ASSUME Good(entries), NEW begin \in 0 .. N, NEW v \in 0 .. N, NEW acc,
         Filled(begin, v, acc), acc.lastSeen < v
  PROVE  /\ Good(Put(acc.entries, acc.lastSeen, v))
         /\ Cov(Put(acc.entries, acc.lastSeen, v)) = Cov(entries) \cup (begin .. v - 1)
         /\ acc.lastSeen \in begin .. v - 1 /\ acc.lastSeen \notin Cov(entries)
         /\ acc.lastSeen \notin DOMAIN acc.entries
<1>1. PICK E : E = acc.entries
  OBVIOUS
<1>2. PICK k : k = acc.lastSeen
  OBVIOUS
<1>3. /\ Good(E) /\ k \in 0 .. N - 1 /\ begin <= k /\ k < v
      /\ \A b \in DOMAIN E : b < k => E[b] <= k
      /\ \A b \in DOMAIN E : b >= k => b >= v
      /\ Cov(E) = Cov(entries) \cup (begin .. k - 1)
      /\ DOMAIN entries \subseteq DOMAIN E /\ \A b \in DOMAIN entries : E[b] = entries[b]
  BY <1>1, <1>2, NAssumption DEF Filled
<1>4. DOMAIN E \subseteq Nat
  BY <1>3, NAssumption DEF Good
<1>5. k \notin DOMAIN E
  BY <1>3, <1>4, NAssumption
<1>6. Good(Put(E, k, v)) /\ Cov(Put(E, k, v)) = Cov(E) \cup (k .. v - 1)
  <2>1. \A b \in DOMAIN E : b > k => b >= v
    BY <1>3, <1>4, NAssumption
  <2> QED BY <1>3, <1>5, <2>1, PutGood
<1>7. Cov(E) \cup (k .. v - 1) = Cov(entries) \cup (begin .. v - 1)
  <2>1. (begin .. k - 1) \cup (k .. v - 1) = begin .. v - 1
    BY <1>3, NAssumption
  <2> QED BY <1>3, <2>1
<1>8. k \notin Cov(entries)
  <2>1. \A b \in DOMAIN entries : ~(b <= k /\ k < entries[b])
    BY <1>3, <1>4, <1>5, NAssumption DEF Good
  <2> QED BY <1>3, <2>1, InCov, NAssumption
<1> QED BY <1>1, <1>2, <1>3, <1>5, <1>6, <1>7, <1>8, NAssumption

\* One turn of the loop.
LEMMA FilledTurn ==
  ASSUME Good(entries), NEW begin \in 0 .. N, NEW p \in 0 .. N, NEW acc,
         begin < p, p \in DOMAIN entries, Filled(begin, p, acc)
  PROVE  Filled(begin, p + 1, FillGap(acc, p))
<1>1. PICK nxt : nxt = FillGap(acc, p)
  OBVIOUS
<1>2. PICK E : E = acc.entries
  OBVIOUS
<1>3. PICK k : k = acc.lastSeen
  OBVIOUS
<1>4. PICK F : F = nxt.entries
  OBVIOUS
<1>5. /\ F = IF k < p THEN Put(E, k, p) ELSE E
      /\ nxt.lastSeen = entries[p]
      /\ nxt.changed = (acc.changed \/ k < p)
  BY <1>1, <1>2, <1>3, <1>4 DEF FillGap
<1>6. /\ Good(E) /\ k \in 0 .. N /\ begin <= k
      /\ DOMAIN entries \subseteq DOMAIN E
      /\ \A b \in DOMAIN entries : E[b] = entries[b]
      /\ \A b \in DOMAIN E : b < k => E[b] <= k
      /\ \A b \in DOMAIN E : b >= k => b >= p /\ b > begin /\ b \in DOMAIN entries
      /\ Cov(E) = Cov(entries) \cup (begin .. k - 1)
      /\ (p .. k - 1) \subseteq Cov(entries)
      /\ acc.changed = ~((begin .. k - 1) \subseteq Cov(entries))
  BY <1>2, <1>3 DEF Filled
<1>7. DOMAIN E \subseteq Nat /\ \A b \in DOMAIN E : E[b] \in 0 .. N /\ b < E[b]
  BY <1>6, NAssumption DEF Good
<1>8. PICK z : z = entries[p]
  OBVIOUS
<1>9. z \in 0 .. N /\ p < z /\ E[p] = z /\ p \in DOMAIN E
  BY <1>6, <1>7, <1>8
<1>10. (p .. z - 1) \subseteq Cov(entries)
  <2>1. \A x \in p .. z - 1 : x \in Cov(entries)
    BY <1>8, <1>9, InCov, NAssumption
  <2> QED BY <2>1
<1>11. k < p => /\ Good(Put(E, k, p))
                /\ Cov(Put(E, k, p)) = Cov(entries) \cup (begin .. p - 1)
                /\ k \in begin .. p - 1 /\ k \notin Cov(entries) /\ k \notin DOMAIN E
  BY <1>2, <1>3, GapFilled
<1>12. k < p => /\ DOMAIN F = DOMAIN E \cup {k}
                /\ F[k] = p
                /\ \A b \in DOMAIN E : F[b] = E[b]
  BY <1>5, <1>11 DEF Put
<1>13. Good(F)
  BY <1>5, <1>6, <1>11
<1>14. /\ DOMAIN entries \subseteq DOMAIN F
       /\ \A b \in DOMAIN entries : F[b] = entries[b]
  BY <1>5, <1>6, <1>12
<1>15. ASSUME NEW b \in DOMAIN F
       PROVE  /\ b < z => F[b] <= z
              /\ b >= z => b >= p + 1 /\ b > begin /\ b \in DOMAIN entries
  <2>1. CASE k < p /\ b = k
    BY <2>1, <1>6, <1>9, <1>12, NAssumption
  <2>2. CASE b \in DOMAIN E
    <3>1. F[b] = E[b]
      BY <2>2, <1>5, <1>12
    <3>2. b < z => E[b] <= z
      <4>1. b < p => E[b] <= p
        BY <2>2, <1>6, <1>9 DEF Good
      <4>2. p < b => z <= b
        BY <2>2, <1>6, <1>9 DEF Good
      <4> QED BY <2>2, <4>1, <4>2, <1>7, <1>9, NAssumption
    <3>3. b >= z => b >= p + 1 /\ b > begin /\ b \in DOMAIN entries
      <4>1. b < k => E[b] <= k
        BY <2>2, <1>6
      <4>2. ASSUME b >= z, b < k PROVE b \in DOMAIN entries
        <5>1. b \in Cov(E)
          BY <2>2, <1>6, <1>7, InCov
        <5>2. b \in p .. k - 1
          BY <2>2, <4>2, <1>6, <1>7, <1>9, NAssumption
        <5>3. PICK c \in DOMAIN entries : c <= b /\ b < entries[c]
          BY <5>2, <2>2, <1>6, <1>7, InCov
        <5>4. c = b
          BY <5>3, <2>2, <1>6, <1>7, NAssumption DEF Good
        <5> QED BY <5>3, <5>4
      <4> QED BY <2>2, <4>2, <1>6, <1>7, <1>9, NAssumption
    <3> QED BY <3>1, <3>2, <3>3
  <2> QED BY <2>1, <2>2, <1>5, <1>12
<1>16. Cov(F) = Cov(entries) \cup (begin .. z - 1)
  <2>1. CASE k < p
    <3>1. begin .. z - 1 = (begin .. p - 1) \cup (p .. z - 1)
      BY <1>6, <1>9, NAssumption
    <3> QED BY <2>1, <3>1, <1>5, <1>10, <1>11
  <2>2. CASE ~(k < p)
    <3>1. Cov(F) = Cov(entries) \cup (begin .. k - 1)
      BY <2>2, <1>5, <1>6
    <3>2. begin .. p - 1 \subseteq begin .. k - 1
      BY <2>2, <1>6, NAssumption
    <3>3. begin .. k - 1 = (begin .. p - 1) \cup (p .. k - 1)
      BY <2>2, <1>6, NAssumption
    <3>4. begin .. z - 1 = (begin .. p - 1) \cup (p .. z - 1)
      BY <1>6, <1>9, NAssumption
    <3> QED BY <3>1, <3>3, <3>4, <1>6, <1>10
  <2> QED BY <2>1, <2>2
<1>17. (p + 1 .. z - 1) \subseteq Cov(entries)
  <2>1. p + 1 .. z - 1 \subseteq p .. z - 1
    BY <1>9, NAssumption
  <2> QED BY <2>1, <1>10
<1>18. nxt.changed = ~((begin .. z - 1) \subseteq Cov(entries))
  <2>1. begin .. z - 1 = (begin .. p - 1) \cup (p .. z - 1)
    BY <1>6, <1>9, NAssumption
  <2>2. CASE k < p
    BY <2>1, <2>2, <1>5, <1>11
  <2>3. CASE ~(k < p)
    <3>1. begin .. k - 1 = (begin .. p - 1) \cup (p .. k - 1)
      BY <2>3, <1>6, NAssumption
    <3> QED BY <2>1, <2>3, <3>1, <1>5, <1>6, <1>10
  <2> QED BY <2>2, <2>3
<1>19. z \in 0 .. N /\ begin <= z
  BY <1>9, NAssumption
<1> QED
  <2>1. nxt.lastSeen = z
    BY <1>5, <1>8
  <2>2. Filled(begin, p + 1, nxt)
    BY <1>4, <1>13, <1>14, <1>15, <1>16, <1>17, <1>18, <1>19, <2>1 DEF Filled
  <2> QED BY <1>1, <2>2

\* A point where no entry of the scan begins is passed without a turn.
LEMMA FilledSkip ==
  ASSUME Good(entries), NEW begin \in 0 .. N, NEW p \in 0 .. N, NEW acc,
         p = begin \/ p \notin DOMAIN entries, Filled(begin, p, acc)
  PROVE  Filled(begin, p + 1, acc)
<1>1. PICK E : E = acc.entries
  OBVIOUS
<1>2. PICK k : k = acc.lastSeen
  OBVIOUS
<1>3. DOMAIN E \subseteq Nat /\ k \in Nat
  BY <1>1, <1>2, NAssumption DEF Filled, Good
<1>4. \A b \in DOMAIN E : b >= k => b >= p + 1
  BY <1>1, <1>2, <1>3, NAssumption DEF Filled
<1>5. p + 1 .. k - 1 \subseteq p .. k - 1
  BY <1>3, NAssumption
<1> QED BY <1>1, <1>2, <1>4, <1>5 DEF Filled

\* The loop ends with [begin, lastSeen) covered, for every scan.
LEMMA FillWalkFilled ==
  ASSUME Good(entries), NEW begin \in 0 .. N, NEW end \in 0 .. N, begin < end
  PROVE  Filled(begin, end, FillWalk(begin, end)[end])
<1> DEFINE f == FillWalk(begin, end)
           S == {p \in begin .. end : Filled(begin, p, f[p])}
<1>1. begin \in Nat /\ end \in Nat /\ begin <= end
  BY NAssumption
<1>2. begin \in S
  <2>1. f[begin] = [entries |-> entries, changed |-> FALSE, lastSeen |-> StartOf(begin)]
    BY FillWalkStep
  <2>2. /\ f[begin].entries = entries /\ f[begin].changed = FALSE
        /\ f[begin].lastSeen = StartOf(begin)
    BY <2>1
  <2> HIDE DEF f
  <2>3. PICK k : k = StartOf(begin)
    OBVIOUS
  <2>4. /\ k \in 0 .. N /\ begin <= k
        /\ (begin .. k - 1) \subseteq Cov(entries)
        /\ \A b \in DOMAIN entries :
             /\ b < k => entries[b] <= k
             /\ b >= k => b > begin
    BY <2>3, StartExact
  <2>5. \A b \in DOMAIN entries : b >= k => b >= begin
    BY <1>1, <2>4, NAssumption DEF Good
  <2>6. Cov(entries) = Cov(entries) \cup (begin .. k - 1)
    BY <2>4
  <2>7. Filled(begin, begin, f[begin])
    BY <2>2, <2>3, <2>4, <2>5, <2>6 DEF Filled
  <2> QED BY <1>1, <2>7
<1>3. ASSUME NEW p \in begin .. end, p \in S, p < end
      PROVE  p + 1 \in S
  <2>1. p \in 0 .. N /\ p + 1 \in begin + 1 .. end /\ p + 1 - 1 = p
    BY <1>1, <1>3, NAssumption
  <2>2. f[p + 1] = IF p \in after(begin, end) THEN FillGap(f[p], p) ELSE f[p]
    <3> HIDE DEF f
    <3>1. \A q \in begin + 1 .. end :
            f[q] = IF q - 1 \in after(begin, end) THEN FillGap(f[q - 1], q - 1) ELSE f[q - 1]
      BY FillWalkStep DEF f
    <3>2. PICK q \in begin + 1 .. end : q = p + 1 /\ q - 1 = p
      BY <2>1
    <3> QED BY <3>1, <3>2
  <2>3. Filled(begin, p, f[p])
    BY <1>3
  <2> HIDE DEF f
  <2>4. CASE p \in after(begin, end)
    <3>1. begin < p /\ p \in DOMAIN entries
      BY <2>4 DEF after
    <3>2. Filled(begin, p + 1, FillGap(f[p], p))
      BY <3>1, <2>1, <2>3, FilledTurn
    <3> QED BY <3>2, <2>1, <2>2, <2>4, <1>1
  <2>5. CASE p \notin after(begin, end)
    <3>1. p = begin \/ p \notin DOMAIN entries
      BY <2>5, <1>1, <1>3 DEF after
    <3>2. Filled(begin, p + 1, f[p])
      BY <3>1, <2>1, <2>3, FilledSkip
    <3> QED BY <3>2, <2>1, <2>2, <2>5, <1>1
  <2> QED BY <2>4, <2>5
<1>4. \A p \in begin .. end : p \in S
  <2> HIDE DEF S
  <2> QED BY <1>1, <1>2, <1>3, IntervalInduction
<1> QED BY <1>1, <1>4

\* Filling the gaps of [begin, end) covers it, adds nothing else, and reports
\* a change exactly when some point of it was missing.
LEMMA InsertFillingExact ==
  ASSUME Good(entries), NEW begin \in 0 .. N, NEW end \in 0 .. N, begin < end
  PROVE  /\ Good(InsertFilling(begin, end).entries)
         /\ Cov(InsertFilling(begin, end).entries) = Cov(entries) \cup (begin .. end - 1)
         /\ InsertFilling(begin, end).changed
              = ~((begin .. end - 1) \subseteq Cov(entries))
<1>1. PICK acc : acc = FillWalk(begin, end)[end]
  OBVIOUS
<1>2. Filled(begin, end, acc)
  BY <1>1, FillWalkFilled
<1>3. PICK k : k = acc.lastSeen
  OBVIOUS
<1>4. /\ InsertFilling(begin, end).entries
           = IF k < end THEN Put(acc.entries, k, end) ELSE acc.entries
      /\ InsertFilling(begin, end).changed = (acc.changed \/ k < end)
  BY <1>1, <1>3 DEF InsertFilling
<1>5. CASE k < end
  <2>1. /\ Good(Put(acc.entries, k, end))
        /\ Cov(Put(acc.entries, k, end)) = Cov(entries) \cup (begin .. end - 1)
        /\ k \in begin .. end - 1 /\ k \notin Cov(entries)
    BY <1>2, <1>3, <1>5, GapFilled
  <2> QED BY <1>4, <1>5, <2>1
<1>6. CASE ~(k < end)
  <2>1. /\ Good(acc.entries) /\ k \in 0 .. N
        /\ Cov(acc.entries) = Cov(entries) \cup (begin .. k - 1)
        /\ (end .. k - 1) \subseteq Cov(entries)
        /\ acc.changed = ~((begin .. k - 1) \subseteq Cov(entries))
    BY <1>2, <1>3 DEF Filled
  <2>2. begin .. k - 1 = (begin .. end - 1) \cup (end .. k - 1)
    BY <1>6, <2>1, NAssumption
  <2> QED BY <1>4, <1>6, <2>1, <2>2
<1> QED BY <1>5, <1>6

\* The test-and-set is refused exactly when [begin, end) has a covered point,
\* and otherwise covers all of it.
LEMMA InsertEmptyExact ==
  ASSUME Good(entries), NEW begin \in 0 .. N, NEW end \in 0 .. N, begin < end
  PROVE  /\ Good(InsertEmpty(begin, end).entries)
         /\ InsertEmpty(begin, end).changed = ((begin .. end - 1) \cap Cov(entries) = {})
         /\ Cov(InsertEmpty(begin, end).entries) =
              IF (begin .. end - 1) \cap Cov(entries) = {}
              THEN Cov(entries) \cup (begin .. end - 1) ELSE Cov(entries)
<1>1. DOMAIN entries \subseteq Nat /\ \A b \in DOMAIN entries : entries[b] \in 0 .. N /\ b < entries[b]
  BY NAssumption DEF Good
<1>2. CASE ContainsKey(begin) \/ after(begin, end) # {}
  <2>1. (begin .. end - 1) \cap Cov(entries) # {}
    <3>1. CASE ContainsKey(begin)
      <4>1. begin \in Cov(entries)
        BY <3>1, ContainsExact
      <4> QED BY <4>1, NAssumption
    <3>2. CASE after(begin, end) # {}
      <4>1. PICK b \in DOMAIN entries : begin < b /\ b < end
        BY <3>2 DEF after
      <4>2. b \in Cov(entries)
        BY <1>1, <4>1, InCov
      <4> QED BY <1>1, <4>1, <4>2, NAssumption
    <3> QED BY <1>2, <3>1, <3>2
  <2> QED BY <1>2, <2>1 DEF InsertEmpty
<1>3. CASE ~ContainsKey(begin) /\ after(begin, end) = {}
  <2>1. \A b \in DOMAIN entries : b <= begin => entries[b] <= begin
    BY <1>1, <1>3, ContainsExact, NAssumption
  <2>2. \A b \in DOMAIN entries : b > begin => b >= end
    BY <1>1, <1>3, NAssumption DEF after
  <2>3. (begin .. end - 1) \cap Cov(entries) = {}
    <3>1. ASSUME NEW x \in begin .. end - 1 PROVE x \notin Cov(entries)
      <4>1. \A b \in DOMAIN entries : ~(b <= x /\ x < entries[b])
        BY <1>1, <2>1, <2>2, NAssumption
      <4> QED BY <4>1, InCov, NAssumption
    <3> QED BY <3>1
  <2>4. begin \in 0 .. N - 1
    BY NAssumption
  <2>5. InsertEmpty(begin, end).changed = TRUE
    BY <1>3 DEF InsertEmpty
  <2>6. CASE \E b \in before(begin) : entries[b] = begin
    <3>1. PICK b \in before(begin) : entries[b] = begin
      BY <2>6
    <3>2. before(begin) = {b} /\ b \in DOMAIN entries /\ b <= begin
      BY <3>1, BeforeLast
    <3>3. InsertEmpty(begin, end).entries = Put(entries, b, end)
      BY <1>3, <2>6, <3>2 DEF InsertEmpty
    <3>4. b \in 0 .. N - 1 /\ b < begin /\ b < end
      BY <3>1, <3>2, <1>1, NAssumption DEF Good
    <3>5. \A c \in DOMAIN entries : c < b => entries[c] <= b
      BY <3>2 DEF Good
    <3>6. \A c \in DOMAIN entries : c > b => c >= end
      BY <3>1, <3>2, <2>1, <2>2, <1>1, NAssumption DEF Good
    <3>7. entries[b] <= end
      BY <3>1, NAssumption
    <3>8. /\ Good(Put(entries, b, end))
          /\ Cov(Put(entries, b, end)) = Cov(entries) \cup (b .. end - 1)
      BY <3>4, <3>5, <3>6, <3>7, PutGood
    <3>9. (b .. begin - 1) \subseteq Cov(entries)
      <4>1. \A x \in b .. begin - 1 : x \in Cov(entries)
        BY <3>1, <3>2, <1>1, InCov, NAssumption
      <4> QED BY <4>1
    <3>10. b .. end - 1 = (b .. begin - 1) \cup (begin .. end - 1)
      BY <3>4, NAssumption
    <3> QED BY <2>3, <2>5, <3>3, <3>8, <3>9, <3>10
  <2>7. CASE ~\E b \in before(begin) : entries[b] = begin
    <3>1. InsertEmpty(begin, end).entries = Put(entries, begin, end)
      BY <1>3, <2>7 DEF InsertEmpty
    <3>2. \A b \in DOMAIN entries : b < begin => entries[b] <= begin
      BY <2>1, <1>1, NAssumption
    <3>3. begin \in DOMAIN entries => entries[begin] <= end
      BY <2>1, <1>1, NAssumption
    <3>4. /\ Good(Put(entries, begin, end))
          /\ Cov(Put(entries, begin, end)) = Cov(entries) \cup (begin .. end - 1)
      BY <2>2, <2>4, <3>2, <3>3, PutGood
    <3> QED BY <2>3, <2>5, <3>1, <3>4
  <2> QED BY <2>6, <2>7
<1> QED BY <1>2, <1>3

-----------------------------------------------------------------------------
(* The invariant and the refinement. *)

LEMMA EmptyGood == Good(<< >>) /\ Cov(<< >>) = {}
<1>1. DOMAIN << >> = {}
  OBVIOUS
<1>2. << >> = [b \in DOMAIN << >> |-> << >>[b]]
  OBVIOUS
<1> QED BY <1>1, <1>2 DEF Good, Cov

LEMMA CoveredIsCov == covered = Cov(entries)
BY DEF covered, Cov

LEMMA InitInv == Init => Inv
BY EmptyGood DEF Init, Inv

LEMMA NextInv == Inv /\ [Next]_vars => Inv'
<1> SUFFICES ASSUME Inv, [Next]_vars PROVE Inv'
  OBVIOUS
<1>1. CASE Clear
  BY <1>1, EmptyGood DEF Clear, Inv
<1>2. ASSUME NEW begin \in 0 .. N, NEW end \in 0 .. N, NEW requireEmpty \in BOOLEAN,
             InsertRange(begin, end, requireEmpty)
      PROVE  Inv'
  <2>1. Good(entries) /\ begin < end
    BY <1>2 DEF InsertRange, Inv
  <2>2. PICK done : done = IF requireEmpty THEN InsertEmpty(begin, end)
                                           ELSE InsertFilling(begin, end)
    OBVIOUS
  <2>3. entries' = done.entries /\ changed' = done.changed
    BY <1>2, <2>2 DEF InsertRange
  <2>4. Good(done.entries) /\ done.changed \in BOOLEAN
    BY <2>1, <2>2, InsertEmptyExact, InsertFillingExact
  <2> QED BY <2>3, <2>4 DEF Inv
<1>3. CASE UNCHANGED vars
  BY <1>3 DEF vars, Inv
<1> QED BY <1>1, <1>2, <1>3 DEF Next

\* The entries are always ranges of the key space, none empty, no two of them
\* overlapping (range_set.go, InsertRange and Clear).
THEOREM EntriesDisjoint == Spec => []Inv
<1> QED BY InitInv, NextInv, PTL DEF Spec

\* The one entry Contains reads decides it, whatever was inserted in whatever
\* order: a key is found exactly when some entry covers it.
THEOREM Lookups == Spec => []LookupExact
<1>1. Inv => LookupExact
  <2> SUFFICES ASSUME Inv PROVE LookupExact
    OBVIOUS
  <2>1. Good(entries)
    BY DEF Inv
  <2>2. \A key \in Points : ContainsKey(key) <=> key \in covered
    BY <2>1, ContainsExact, CoveredIsCov, NAssumption DEF Points
  <2>3. \A b \in DOMAIN entries : b < entries[b] /\ entries[b] <= N
    BY <2>1, NAssumption DEF Good
  <2> QED BY <2>1, <2>2, <2>3 DEF Good, LookupExact
<1> QED BY <1>1, EntriesDisjoint, PTL

\* The entries implement a set of points: an insertion is a test-and-set or a
\* union of points, and reports a change exactly when there is one.
THEOREM EntriesImplementPoints == Spec => ImplementsPointSet
<1>1. Init => Abstract!Init
  BY EmptyGood, CoveredIsCov DEF Init, Abstract!Init
<1>2. ASSUME Inv, Inv', [Next]_vars
      PROVE  [Abstract!Next]_<<covered, changed>>
  <2>1. CASE Clear
    <3>1. covered' = {} /\ changed' = changed
      BY <2>1, EmptyGood DEF Clear, covered, Cov
    <3> QED BY <3>1 DEF Abstract!Next, Abstract!Clear
  <2>2. ASSUME NEW begin \in 0 .. N, NEW end \in 0 .. N, NEW requireEmpty \in BOOLEAN,
               InsertRange(begin, end, requireEmpty)
        PROVE  Abstract!Next
    <3>1. Good(entries) /\ begin < end
      BY <1>2, <2>2 DEF InsertRange, Inv
    <3>2. PICK done : done = IF requireEmpty THEN InsertEmpty(begin, end)
                                             ELSE InsertFilling(begin, end)
      OBVIOUS
    <3>3. entries' = done.entries /\ changed' = done.changed
      BY <2>2, <3>2 DEF InsertRange
    <3>4. PICK S : S = begin .. end - 1
      OBVIOUS
    <3>5. S \in SUBSET Points /\ S # {}
      BY <3>1, <3>4, NAssumption DEF Points
    <3>6. covered = Cov(entries) /\ covered' = Cov(done.entries)
      BY <3>3 DEF covered, Cov
    <3>7. PICK C : C = covered
      OBVIOUS
    <3>8. CASE requireEmpty
      <4>1. changed' = (S \cap C = {}) /\ covered' = IF S \cap C = {} THEN C \cup S ELSE C
        BY <3>1, <3>2, <3>3, <3>4, <3>6, <3>7, <3>8, InsertEmptyExact
      <4>2. Abstract!Insert(S, requireEmpty)
        BY <3>5, <3>7, <3>8, <4>1 DEF Abstract!Insert
      <4> QED BY <3>5, <4>2 DEF Abstract!Next
    <3>9. CASE ~requireEmpty
      <4>1. changed' = ~(S \subseteq C) /\ covered' = C \cup S
        BY <3>1, <3>2, <3>3, <3>4, <3>6, <3>7, <3>9, InsertFillingExact
      <4>2. Abstract!Insert(S, requireEmpty)
        BY <3>5, <3>7, <3>9, <4>1 DEF Abstract!Insert
      <4> QED BY <3>5, <4>2 DEF Abstract!Next
    <3> QED BY <3>8, <3>9
  <2>3. CASE UNCHANGED vars
    BY <2>3 DEF vars, covered
  <2> QED BY <1>2, <2>1, <2>2, <2>3 DEF Next
<1> QED BY <1>1, <1>2, EntriesDisjoint, PTL DEF Spec, ImplementsPointSet, Abstract!Spec

-----------------------------------------------------------------------------
(* The search for missing ranges. *)

\* The states of the loop.
Lists == [gaps : Seq((0 .. N) \X (0 .. N)), at : 0 .. N]

LEMMA GapType ==
  ASSUME Good(entries), NEW acc \in Lists, NEW next \in DOMAIN entries
  PROVE  Gap(acc, next) \in Lists
<1>1. acc.gaps \in Seq((0 .. N) \X (0 .. N)) /\ acc.at \in 0 .. N
  BY DEF Lists
<1>2. next \in 0 .. N /\ entries[next] \in 0 .. N
  BY NAssumption DEF Good
<1>3. <<acc.at, next>> \in (0 .. N) \X (0 .. N)
  BY <1>1, <1>2
<1>4. Append(acc.gaps, <<acc.at, next>>) \in Seq((0 .. N) \X (0 .. N))
  BY <1>1, <1>3
<1> QED BY <1>1, <1>2, <1>4 DEF Gap, Lists

LEMMA GapWalkStep ==
  ASSUME Good(entries), NEW begin \in 0 .. N, NEW end \in 0 .. N, begin < end
  PROVE  /\ GapWalk(begin, end)[begin] = [gaps |-> << >>, at |-> StartOf(begin)]
         /\ \A p \in begin + 1 .. end :
              GapWalk(begin, end)[p] =
                IF p - 1 \in after(begin, end) THEN Gap(GapWalk(begin, end)[p - 1], p - 1)
                                               ELSE GapWalk(begin, end)[p - 1]
<1> DEFINE a == [gaps |-> << >>, at |-> StartOf(begin)]
           Step(acc, q) == IF q \in after(begin, end) THEN Gap(acc, q) ELSE acc
           G == [q \in begin .. end |-> [acc \in Lists |-> Step(acc, q)]]
           Eq(f) == f = [p \in begin .. end |-> IF p = begin THEN a ELSE Step(f[p - 1], p - 1)]
<1>1. a \in Lists
  BY StartExact DEF Lists
<1>2. \A acc \in Lists, q \in begin .. end : Step(acc, q) \in Lists
  BY GapType DEF after
<1>3. IsStep(G, begin, end, Lists)
  <2> HIDE DEF Step
  <2> QED BY <1>2 DEF IsStep
<1>4. begin \in Nat /\ end \in Nat /\ begin <= end
  BY NAssumption
<1>5. PICK f : IsWalk(f, begin, end, Lists, a, G)
  <2> HIDE DEF a, G
  <2> QED BY <1>1, <1>3, <1>4, WalkExists
<1>6. ASSUME NEW p \in begin + 1 .. end
      PROVE  f[p] = Step(f[p - 1], p - 1)
  <2>1. p - 1 \in begin .. end /\ f[p - 1] \in Lists
    BY <1>4, <1>5 DEF IsWalk
  <2>2. f[p] = G[p - 1][f[p - 1]]
    <3> HIDE DEF G, Step
    <3> QED BY <1>5 DEF IsWalk
  <2> HIDE DEF Step
  <2> QED BY <2>1, <2>2
<1>7. Eq(f)
  <2> HIDE DEF Step, a
  <2>1. f \in [begin .. end -> Lists] /\ f[begin] = a
    BY <1>5 DEF IsWalk
  <2> QED BY <1>4, <1>6, <2>1
<1>8. GapWalk(begin, end) = CHOOSE g : Eq(g)
  BY DEF GapWalk
<1>9. Eq(GapWalk(begin, end))
  <2> HIDE DEF Eq
  <2> QED BY <1>7, <1>8
<1> HIDE DEF a, Step
<1>10. /\ GapWalk(begin, end)[begin] = a
       /\ \A p \in begin + 1 .. end :
            GapWalk(begin, end)[p] = Step(GapWalk(begin, end)[p - 1], p - 1)
  BY <1>4, <1>9
<1> QED BY <1>10 DEF a, Step

\* <<x, y>> is a maximal run of uncovered points of [begin, end).
IsRun(begin, end, x, y) ==
  /\ x \in begin .. end /\ y \in begin .. end /\ x < y
  /\ \A z \in x .. y - 1 : z \notin Cov(entries)
  /\ x = begin \/ x - 1 \in Cov(entries)
  /\ y = end \/ y \in Cov(entries)

LEMMA RunsAreRuns ==
  ASSUME NEW begin \in 0 .. N, NEW end \in 0 .. N
  PROVE  /\ \A x, y : <<x, y>> \in Runs(begin, end) <=> IsRun(begin, end, x, y)
         /\ \A r \in Runs(begin, end) : r = <<r[1], r[2]>>
BY CoveredIsCov DEF Runs, IsRun

\* g is a list of maximal runs, in order; it has the run <<x, y>>; h is g with
\* that run; its runs all end before k; it has every run that begins before k.
Ordered(begin, end, g) ==
  /\ g \in Seq((0 .. N) \X (0 .. N))
  /\ \A i \in 1 .. Len(g) : IsRun(begin, end, g[i][1], g[i][2])
  /\ \A i \in 1 .. Len(g) - 1 : g[i][2] < g[i + 1][1]

HasGap(g, x, y) == \E i \in 1 .. Len(g) : g[i] = <<x, y>>

Extends(h, g, x, y) == h = Append(g, <<x, y>>)

EndsBelow(g, k) == \A i \in 1 .. Len(g) : g[i][2] < k

ListsTo(begin, end, g, k) ==
  \A x, y \in 0 .. N : IsRun(begin, end, x, y) /\ x < k => HasGap(g, x, y)

\* The state acc of the loop when the entries of the scan below p are visited:
\* the gaps are the maximal runs that begin before at, in order; the ranges
\* that begin before at have ended there and the others are yet to visit.
Listed(begin, end, p, acc) ==
  /\ acc.at \in 0 .. N /\ begin <= acc.at
  /\ acc.at = begin \/ acc.at - 1 \in Cov(entries)
  /\ \A b \in DOMAIN entries :
       /\ b < acc.at => entries[b] <= acc.at
       /\ b >= acc.at => b >= p
       /\ b >= p /\ b > begin => b >= acc.at
  /\ Ordered(begin, end, acc.gaps)
  /\ EndsBelow(acc.gaps, acc.at)
  /\ ListsTo(begin, end, acc.gaps, acc.at)

\* The points from at up to the next entry, or the end, are a maximal run, and
\* the only one that begins there.
LEMMA NextRun ==
  ASSUME Good(entries), NEW begin \in 0 .. N, NEW end \in 0 .. N,
         NEW k \in 0 .. N, begin <= k, k = begin \/ k - 1 \in Cov(entries),
         NEW v \in 0 .. N, k < v, v <= end, v = end \/ v \in DOMAIN entries,
         \A b \in DOMAIN entries : b < k => entries[b] <= k,
         \A b \in DOMAIN entries : b >= k => b >= v
  PROVE  /\ IsRun(begin, end, k, v)
         /\ \A x, y \in 0 .. N : IsRun(begin, end, x, y) /\ k <= x /\ x < v => x = k /\ y = v
<1>1. DOMAIN entries \subseteq Nat /\ \A b \in DOMAIN entries : entries[b] \in 0 .. N /\ b < entries[b]
  BY NAssumption DEF Good
<1>2. ASSUME NEW z \in k .. v - 1 PROVE z \notin Cov(entries)
  <2>1. \A b \in DOMAIN entries : ~(b <= z /\ z < entries[b])
    BY <1>1, NAssumption
  <2> QED BY <2>1, InCov, NAssumption
<1>3. v = end \/ v \in Cov(entries)
  BY <1>1, InCov
<1>4. IsRun(begin, end, k, v)
  BY <1>2, <1>3, NAssumption DEF IsRun
<1>5. ASSUME NEW x \in 0 .. N, NEW y \in 0 .. N, IsRun(begin, end, x, y), k <= x, x < v
      PROVE  x = k /\ y = v
  <2>1. x = k
    <3> SUFFICES ASSUME x # k PROVE FALSE
      OBVIOUS
    <3>1. x - 1 \in k .. v - 1 /\ x # begin
      BY <1>5, NAssumption
    <3> QED BY <3>1, <1>2, <1>5 DEF IsRun
  <2>2. ~(y < v)
    <3> SUFFICES ASSUME y < v PROVE FALSE
      OBVIOUS
    <3>1. x < y /\ (y = end \/ y \in Cov(entries))
      BY <1>5 DEF IsRun
    <3>2. y \in k .. v - 1 /\ y # end
      BY <3>1, <2>1, NAssumption
    <3> QED BY <3>1, <3>2, <1>2
  <2>3. ~(v < y)
    <3> SUFFICES ASSUME v < y PROVE FALSE
      OBVIOUS
    <3>1. v \in x .. y - 1
      BY <1>5, NAssumption
    <3>2. v \notin Cov(entries) /\ y <= end
      BY <3>1, <1>5, NAssumption DEF IsRun
    <3> QED BY <3>2, <1>3, NAssumption
  <2> QED BY <2>1, <2>2, <2>3, NAssumption
<1> QED BY <1>4, <1>5

\* Appending that run to the gaps keeps them exact and in order.
LEMMA GapAppended ==
  ASSUME NEW begin \in 0 .. N, NEW end \in 0 .. N,
         NEW g, Ordered(begin, end, g), NEW k \in 0 .. N, EndsBelow(g, k),
         NEW v \in 0 .. N, IsRun(begin, end, k, v), NEW h, Extends(h, g, k, v)
  PROVE  /\ Ordered(begin, end, h)
         /\ \A z \in 0 .. N : v < z => EndsBelow(h, z)
         /\ HasGap(h, k, v)
         /\ \A x, y : HasGap(g, x, y) => HasGap(h, x, y)
<1>0. /\ g \in Seq((0 .. N) \X (0 .. N))
      /\ \A i \in 1 .. Len(g) : IsRun(begin, end, g[i][1], g[i][2]) /\ g[i][2] < k
      /\ \A i \in 1 .. Len(g) - 1 : g[i][2] < g[i + 1][1]
  BY DEF Ordered, EndsBelow
<1>1. /\ h \in Seq((0 .. N) \X (0 .. N))
      /\ Len(h) = Len(g) + 1 /\ h[Len(g) + 1] = <<k, v>>
      /\ \A i \in 1 .. Len(g) : h[i] = g[i]
  <2>1. <<k, v>> \in (0 .. N) \X (0 .. N)
    OBVIOUS
  <2> QED BY <2>1, <1>0 DEF Extends
<1>2. k < v
  BY DEF IsRun
<1>3. \A i \in 1 .. Len(g) : g[i][2] \in 0 .. N /\ g[i][2] < k
  BY <1>0
<1>4. h[Len(g) + 1][1] = k /\ h[Len(g) + 1][2] = v
  BY <1>1
<1>5. Len(g) \in Nat
  BY <1>0
<1>6. ASSUME NEW i \in 1 .. Len(h)
      PROVE  IsRun(begin, end, h[i][1], h[i][2]) /\ h[i][2] <= v
  <2>1. CASE i \in 1 .. Len(g)
    <3>1. h[i] = g[i] /\ IsRun(begin, end, g[i][1], g[i][2])
      BY <2>1, <1>0, <1>1
    <3>2. g[i][2] \in 0 .. N /\ g[i][2] < k
      BY <2>1, <1>3
    <3>3. g[i][2] <= v
      BY <3>2, <1>2, NAssumption
    <3> QED BY <3>1, <3>3
  <2>2. CASE i = Len(g) + 1
    BY <2>2, <1>4, NAssumption
  <2> QED BY <2>1, <2>2, <1>1, <1>5
<1>7. ASSUME NEW i \in 1 .. Len(h) - 1
      PROVE  h[i][2] < h[i + 1][1]
  <2>1. CASE i \in 1 .. Len(g) - 1
    <3>1. \A n \in Nat : \A j \in 1 .. n - 1 : j \in 1 .. n /\ j + 1 \in 1 .. n
      OBVIOUS
    <3>2. i \in 1 .. Len(g) /\ i + 1 \in 1 .. Len(g)
      BY <2>1, <3>1, <1>5, Zenon
    <3> QED BY <2>1, <3>2, <1>0, <1>1
  <2>2. CASE i = Len(g)
    <3>1. i \in 1 .. Len(g) /\ i + 1 = Len(g) + 1
      BY <2>2, <1>1, <1>5
    <3> QED BY <3>1, <1>1, <1>3, <1>4
  <2> QED BY <2>1, <2>2, <1>1, <1>5
<1>8. Ordered(begin, end, h)
  BY <1>1, <1>6, <1>7 DEF Ordered
<1>9. \A z \in 0 .. N : v < z => EndsBelow(h, z)
  <2>1. \A i \in 1 .. Len(h) : h[i][2] \in 0 .. N /\ h[i][2] <= v
    BY <1>1, <1>6
  <2> QED BY <2>1, NAssumption DEF EndsBelow
<1>10. HasGap(h, k, v)
  <2>1. Len(g) + 1 \in 1 .. Len(h)
    BY <1>1, <1>5
  <2> QED BY <2>1, <1>1 DEF HasGap
<1>11. \A x, y : HasGap(g, x, y) => HasGap(h, x, y)
  <2>1. \A i \in 1 .. Len(g) : i \in 1 .. Len(h)
    BY <1>1, <1>5
  <2> QED BY <2>1, <1>1 DEF HasGap
<1> QED BY <1>8, <1>9, <1>10, <1>11

\* One turn of the loop.
LEMMA ListedTurn ==
  ASSUME Good(entries), NEW begin \in 0 .. N, NEW end \in 0 .. N, NEW p \in 0 .. N, NEW acc,
         begin < p, p < end, p \in DOMAIN entries, Listed(begin, end, p, acc)
  PROVE  Listed(begin, end, p + 1, Gap(acc, p))
<1>1. PICK nxt : nxt = Gap(acc, p)
  OBVIOUS
<1>2. PICK g : g = acc.gaps
  OBVIOUS
<1>3. PICK k : k = acc.at
  OBVIOUS
<1>4. PICK h : h = nxt.gaps
  OBVIOUS
<1>5. PICK z : z = entries[p]
  OBVIOUS
<1>6. nxt.at = z /\ h = IF k < p THEN Append(g, <<k, p>>) ELSE g
  BY <1>1, <1>2, <1>3, <1>4, <1>5 DEF Gap
<1>7. /\ k \in 0 .. N /\ begin <= k
      /\ k = begin \/ k - 1 \in Cov(entries)
      /\ \A b \in DOMAIN entries : b < k => entries[b] <= k
      /\ \A b \in DOMAIN entries : b >= k => b >= p
      /\ \A b \in DOMAIN entries : b >= p /\ b > begin => b >= k
  BY <1>3 DEF Listed
<1>8. Ordered(begin, end, g) /\ EndsBelow(g, k) /\ ListsTo(begin, end, g, k)
  BY <1>2, <1>3 DEF Listed
<1>9. DOMAIN entries \subseteq Nat /\ \A b \in DOMAIN entries : entries[b] \in 0 .. N /\ b < entries[b]
  BY NAssumption DEF Good
<1>10. z \in 0 .. N /\ p < z /\ k <= p
  BY <1>5, <1>7, <1>9, NAssumption
<1>11. \A x \in p .. z - 1 : x \in Cov(entries)
  BY <1>5, <1>9, <1>10, InCov, NAssumption
<1>12. ASSUME NEW x \in 0 .. N, NEW y \in 0 .. N, IsRun(begin, end, x, y), x < z
       PROVE  x < p
  <2>1. x \in x .. y - 1
    BY <1>12, NAssumption DEF IsRun
  <2>2. x \notin Cov(entries)
    BY <2>1, <1>12 DEF IsRun
  <2> QED BY <2>2, <1>10, <1>11, <1>12, NAssumption
<1>13. /\ z \in 0 .. N /\ begin <= z
       /\ z = begin \/ z - 1 \in Cov(entries)
  BY <1>10, <1>11, NAssumption
<1>14. ASSUME NEW b \in DOMAIN entries
       PROVE  /\ b < z => entries[b] <= z
              /\ b >= z => b >= p + 1
              /\ b >= p + 1 /\ b > begin => b >= z
  <2>1. b < p => entries[b] <= p
    BY DEF Good
  <2>2. p < b => z <= b
    BY <1>5 DEF Good
  <2> QED BY <2>1, <2>2, <1>5, <1>9, <1>10, NAssumption
<1>15. Ordered(begin, end, h) /\ EndsBelow(h, z) /\ ListsTo(begin, end, h, z)
  <2>1. CASE k < p
    <3>1. p <= end
      BY NAssumption
    <3>2. /\ IsRun(begin, end, k, p)
          /\ \A x, y \in 0 .. N : IsRun(begin, end, x, y) /\ k <= x /\ x < p => x = k /\ y = p
      BY <2>1, <3>1, <1>7, NextRun
    <3>3. Extends(h, g, k, p)
      BY <2>1, <1>6 DEF Extends
    <3>4. /\ Ordered(begin, end, h) /\ EndsBelow(h, z) /\ HasGap(h, k, p)
          /\ \A x, y : HasGap(g, x, y) => HasGap(h, x, y)
      BY <3>2, <3>3, <1>7, <1>8, <1>10, GapAppended
    <3>5. ASSUME NEW x \in 0 .. N, NEW y \in 0 .. N, IsRun(begin, end, x, y), x < z
          PROVE  HasGap(h, x, y)
      <4>1. x < p
        BY <3>5, <1>12
      <4>2. CASE x < k
        BY <4>2, <3>4, <3>5, <1>8 DEF ListsTo
      <4>3. CASE ~(x < k)
        <5>1. k <= x
          BY <4>3, <1>7, NAssumption
        <5>2. x = k /\ y = p
          BY <4>1, <5>1, <3>2, <3>5
        <5> QED BY <5>2, <3>4
      <4> QED BY <4>2, <4>3
    <3> QED BY <3>4, <3>5 DEF ListsTo
  <2>2. CASE ~(k < p)
    <3>1. h = g /\ k = p
      BY <2>2, <1>6, <1>7, <1>10, NAssumption
    <3>2. EndsBelow(g, z)
      <4>1. \A i \in 1 .. Len(g) : g[i][2] \in 0 .. N /\ g[i][2] < k
        BY <1>8 DEF Ordered, EndsBelow
      <4> QED BY <4>1, <3>1, <1>10, NAssumption DEF EndsBelow
    <3>3. ListsTo(begin, end, g, z)
      BY <3>1, <1>8, <1>12 DEF ListsTo
    <3> QED BY <3>1, <3>2, <3>3, <1>8
  <2> QED BY <2>1, <2>2
<1>16. Listed(begin, end, p + 1, nxt)
  BY <1>4, <1>6, <1>13, <1>14, <1>15 DEF Listed
<1> QED BY <1>1, <1>16

\* A point where no entry of the scan begins is passed without a turn.
LEMMA ListedSkip ==
  ASSUME Good(entries), NEW begin \in 0 .. N, NEW end \in 0 .. N, NEW p \in 0 .. N, NEW acc,
         \/ p = begin /\ \A b \in DOMAIN entries : b >= acc.at => b > begin
         \/ p \notin DOMAIN entries,
         Listed(begin, end, p, acc)
  PROVE  Listed(begin, end, p + 1, acc)
<1>1. PICK k : k = acc.at
  OBVIOUS
<1>2. DOMAIN entries \subseteq Nat /\ k \in Nat
  BY <1>1, NAssumption DEF Listed, Good
<1>3. \A b \in DOMAIN entries :
         (b >= k => b >= p + 1) /\ (b >= p + 1 /\ b > begin => b >= k)
  BY <1>1, <1>2, NAssumption DEF Listed
<1> QED BY <1>1, <1>3 DEF Listed

\* The loop ends with every run that begins before at listed.
LEMMA GapWalkListed ==
  ASSUME Good(entries), NEW begin \in 0 .. N, NEW end \in 0 .. N, begin < end
  PROVE  Listed(begin, end, end, GapWalk(begin, end)[end])
<1> DEFINE f == GapWalk(begin, end)
           S == {p \in begin .. end : Listed(begin, end, p, f[p])}
<1>1. begin \in Nat /\ end \in Nat /\ begin <= end
  BY NAssumption
<1>2. /\ StartOf(begin) \in 0 .. N /\ begin <= StartOf(begin)
      /\ (begin .. StartOf(begin) - 1) \subseteq Cov(entries)
      /\ \A b \in DOMAIN entries :
           /\ b < StartOf(begin) => entries[b] <= StartOf(begin)
           /\ b >= StartOf(begin) => b > begin
           /\ b > begin => b >= StartOf(begin)
  BY StartExact
<1>3. f[begin].gaps = << >> /\ f[begin].at = StartOf(begin)
  <2>1. f[begin] = [gaps |-> << >>, at |-> StartOf(begin)]
    BY GapWalkStep
  <2> HIDE DEF f
  <2> QED BY <2>1
<1>4. begin \in S
  <2> HIDE DEF f
  <2>1. PICK k : k = StartOf(begin)
    OBVIOUS
  <2>2. k = begin \/ k - 1 \in Cov(entries)
    BY <1>2, <2>1, NAssumption
  <2>3. PICK g : g = << >>
    OBVIOUS
  <2>4. g \in Seq((0 .. N) \X (0 .. N)) /\ Len(g) = 0
    BY <2>3
  <2>5. ASSUME NEW x \in 0 .. N, NEW y \in 0 .. N, IsRun(begin, end, x, y)
        PROVE  ~(x < k)
    <3>1. x \in x .. y - 1 /\ x \in begin .. end
      BY <2>5, NAssumption DEF IsRun
    <3>2. x \notin Cov(entries)
      BY <3>1, <2>5 DEF IsRun
    <3> QED BY <3>1, <3>2, <1>2, <2>1, NAssumption
  <2>6. \A b \in DOMAIN entries : b >= k => b >= begin
    BY <1>2, <2>1, NAssumption DEF Good
  <2>7. Ordered(begin, end, g) /\ EndsBelow(g, k) /\ ListsTo(begin, end, g, k)
    BY <2>4, <2>5 DEF Ordered, EndsBelow, ListsTo
  <2>8. Listed(begin, end, begin, f[begin])
    BY <1>2, <1>3, <2>1, <2>2, <2>3, <2>6, <2>7 DEF Listed
  <2> QED BY <1>1, <2>8
<1>5. ASSUME NEW p \in begin .. end, p \in S, p < end
      PROVE  p + 1 \in S
  <2>1. p \in 0 .. N /\ p + 1 \in begin + 1 .. end /\ p + 1 - 1 = p
    BY <1>1, <1>5, NAssumption
  <2>2. f[p + 1] = IF p \in after(begin, end) THEN Gap(f[p], p) ELSE f[p]
    <3> HIDE DEF f
    <3>1. \A q \in begin + 1 .. end :
            f[q] = IF q - 1 \in after(begin, end) THEN Gap(f[q - 1], q - 1) ELSE f[q - 1]
      BY GapWalkStep DEF f
    <3>2. PICK q \in begin + 1 .. end : q = p + 1 /\ q - 1 = p
      BY <2>1
    <3> QED BY <3>1, <3>2
  <2>3. Listed(begin, end, p, f[p])
    BY <1>5
  <2> HIDE DEF f
  <2>4. CASE p \in after(begin, end)
    <3>1. begin < p /\ p < end /\ p \in DOMAIN entries
      BY <2>4 DEF after
    <3>2. Listed(begin, end, p + 1, Gap(f[p], p))
      BY <3>1, <2>1, <2>3, ListedTurn
    <3> QED BY <3>2, <2>1, <2>2, <2>4, <1>1
  <2>5. CASE p \notin after(begin, end)
    <3>1. \/ p = begin /\ \A b \in DOMAIN entries : b >= f[p].at => b > begin
          \/ p \notin DOMAIN entries
      BY <2>5, <1>1, <1>2, <1>3, <1>5 DEF after
    <3>2. Listed(begin, end, p + 1, f[p])
      BY <3>1, <2>1, <2>3, ListedSkip
    <3> QED BY <3>2, <2>1, <2>2, <2>5, <1>1
  <2> QED BY <2>4, <2>5
<1>6. \A p \in begin .. end : p \in S
  <2> HIDE DEF S
  <2> QED BY <1>1, <1>4, <1>5, IntervalInduction
<1> QED BY <1>1, <1>6

\* The gaps a search returns are the maximal runs, in order.
LEMMA SearchExact ==
  ASSUME Good(entries), NEW begin \in 0 .. N, NEW end \in 0 .. N, begin < end,
         NEW h, h = MissingRanges(begin, end)
  PROVE  /\ Ordered(begin, end, h)
         /\ \A x, y \in 0 .. N : IsRun(begin, end, x, y) => HasGap(h, x, y)
<1>1. PICK acc : acc = GapWalk(begin, end)[end]
  OBVIOUS
<1>2. PICK g : g = acc.gaps
  OBVIOUS
<1>3. PICK k : k = acc.at
  OBVIOUS
<1>4. h = IF k < end THEN Append(g, <<k, end>>) ELSE g
  BY <1>1, <1>2, <1>3 DEF MissingRanges
<1>5. Listed(begin, end, end, acc)
  BY <1>1, GapWalkListed
<1>6. /\ k \in 0 .. N /\ begin <= k
      /\ k = begin \/ k - 1 \in Cov(entries)
      /\ \A b \in DOMAIN entries : b < k => entries[b] <= k
      /\ \A b \in DOMAIN entries : b >= k => b >= end
  BY <1>3, <1>5 DEF Listed
<1>7. Ordered(begin, end, g) /\ EndsBelow(g, k) /\ ListsTo(begin, end, g, k)
  BY <1>2, <1>3, <1>5 DEF Listed
<1>8. \A x, y \in 0 .. N : IsRun(begin, end, x, y) => x < end
  BY NAssumption DEF IsRun
<1>9. CASE k < end
  <2>1. /\ IsRun(begin, end, k, end)
        /\ \A x, y \in 0 .. N : IsRun(begin, end, x, y) /\ k <= x /\ x < end => x = k /\ y = end
    <3>1. end <= end
      BY NAssumption
    <3> QED BY <1>9, <1>6, <3>1, NextRun
  <2>2. Extends(h, g, k, end)
    BY <1>4, <1>9 DEF Extends
  <2>3. /\ Ordered(begin, end, h) /\ HasGap(h, k, end)
        /\ \A x, y : HasGap(g, x, y) => HasGap(h, x, y)
    BY <2>1, <2>2, <1>6, <1>7, GapAppended
  <2>4. ASSUME NEW x \in 0 .. N, NEW y \in 0 .. N, IsRun(begin, end, x, y)
        PROVE  HasGap(h, x, y)
    <3>1. CASE x < k
      BY <3>1, <2>3, <2>4, <1>7 DEF ListsTo
    <3>2. CASE ~(x < k)
      <4>1. k <= x /\ x < end
        BY <3>2, <2>4, <1>6, <1>8, NAssumption
      <4>2. x = k /\ y = end
        BY <4>1, <2>1, <2>4
      <4> QED BY <4>2, <2>3
    <3> QED BY <3>1, <3>2
  <2> QED BY <2>3, <2>4
<1>10. CASE ~(k < end)
  <2>1. h = g
    BY <1>4, <1>10
  <2>2. \A x \in 0 .. N : x < end => x < k
    BY <1>6, <1>10, NAssumption
  <2> QED BY <2>1, <2>2, <1>7, <1>8 DEF ListsTo
<1> QED BY <1>9, <1>10

\* A search of any part of the key space returns exactly the maximal runs of
\* uncovered points, each once and in order (range_set.go, MissingRanges).
THEOREM SearchesExact == Spec => []MissingExact
<1>1. Inv => MissingExact
  <2> SUFFICES ASSUME Inv, NEW begin \in 0 .. N, NEW end \in 0 .. N, begin < end,
                      NEW h, h = MissingRanges(begin, end)
               PROVE  /\ Range(h) = Runs(begin, end)
                      /\ \A i \in 1 .. Len(h) - 1 : h[i][2] < h[i + 1][1]
    BY DEF MissingExact
  <2>1. Good(entries)
    BY DEF Inv
  <2>2. /\ Ordered(begin, end, h)
        /\ \A x, y \in 0 .. N : IsRun(begin, end, x, y) => HasGap(h, x, y)
    BY <2>1, SearchExact
  <2>3. DOMAIN h = 1 .. Len(h) /\ \A i \in 1 .. Len(h) : h[i] = <<h[i][1], h[i][2]>>
    BY <2>2 DEF Ordered
  <2>4. ASSUME NEW r \in Range(h) PROVE r \in Runs(begin, end)
    <3>1. PICK i \in 1 .. Len(h) : r = h[i]
      BY <2>3, <2>4 DEF Range
    <3>2. r = <<h[i][1], h[i][2]>> /\ IsRun(begin, end, h[i][1], h[i][2])
      BY <3>1, <2>2, <2>3 DEF Ordered
    <3> QED BY <3>2, RunsAreRuns
  <2>5. ASSUME NEW r \in Runs(begin, end) PROVE r \in Range(h)
    <3>1. r = <<r[1], r[2]>> /\ IsRun(begin, end, r[1], r[2])
      BY <2>5, RunsAreRuns
    <3>2. r[1] \in 0 .. N /\ r[2] \in 0 .. N
      BY <3>1, NAssumption DEF IsRun
    <3>3. PICK i \in 1 .. Len(h) : h[i] = <<r[1], r[2]>>
      BY <3>1, <3>2, <2>2 DEF HasGap
    <3> QED BY <3>1, <3>3, <2>3 DEF Range
  <2> QED BY <2>2, <2>4, <2>5 DEF Ordered
<1> QED BY <1>1, EntriesDisjoint, PTL
=============================================================================
