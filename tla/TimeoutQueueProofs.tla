------------------------- MODULE TimeoutQueueProofs -------------------------
(***************************************************************************)
(* Why no timeout is lost or comes before its deadline, on the queue and   *)
(* with timers of the transactions' own, and why the queue resumes         *)
(* timeouts in the order of their arms: for any number of transactions,    *)
(* entries, shards and arms, and any slack and interval.                   *)
(***************************************************************************)
EXTENDS TimeoutQueue, WellFoundedInduction, TLAPS

-----------------------------------------------------------------------------
(* The queue: the inductive invariant, by concern. *)

\* The node of t is in the drainer's hand, popped and not yet looked at.
InHand(t) == d.pc = "popped" /\ d.hold = {t}

\* r is the entry of the present arm of t.
IsOf(r, t) == r.t = t /\ r.arm = tx[t].arm /\ r.seq = node[t].seq

InReady(t) == \E r \in root.ready : IsOf(r, t)
Handed(t) == d.pc = "fire" /\ \E r \in d.hold : IsOf(r, t)

\* There is one drainer, it holds one node or one entry at a time, and it will
\* leave every shard that it has entered.
Phased ==
  /\ root.running <=> d.pc # "idle"
  /\ root.again => root.running
  /\ d.pc = "popped" => \E t \in Txns : d.hold = {t} /\ node[t].at # "ready"
  /\ d.pc = "fire" => \E r \in Ready : d.hold = {r} /\ r.seq <= root.seq
  /\ d.pc \notin {"popped", "fire"} => d.hold = {}
  /\ \A s \in Shards : sh[s].running =>
       d.pc \notin {"idle", "end"} /\ (d.pc = "exit" => d.s <= s)

\* A request of a shard is behind its timer or behind a callback that the timer
\* started, and covers the whole heap unless a drainer will come by.
Asked ==
  \A s \in Shards :
    /\ sh[s].requested => sh[s].fired > 0 \/ (sh[s].on /\ sh[s].due = sh[s].reqAt)
    /\ DrainerFor(s) \/ \A t \in Txns : Shard[t] = s /\ node[t].at = "heap" =>
                          sh[s].requested /\ sh[s].reqAt <= node[t].wake

\* The physical wake is a lower bound of the wanted one.
Lower ==
  \A t \in Txns : node[t].at = "heap" /\ lk[t] # "eager" =>
    node[t].wake <= node[t].desiredWake

\* Outside its heap, an armed timeout is in somebody's hand.
Found ==
  \A t \in Txns : node[t].at # "heap" =>
    /\ lk[t] = "lazy" => InHand(t)
    /\ lk[t] = "free" /\ tx[t].armed => InHand(t) \/ InReady(t) \/ Handed(t)

\* Entries are not from the future, and that of the present arm has its node.
Matched ==
  \A r \in root.ready :
    /\ r.seq <= root.seq
    /\ r.arm <= tx[r.t].arm
    /\ IsOf(r, r.t) => node[r.t].at = "ready"

\* The shards that the present cohort has been through.
Done(s) == d.pc \in {"deliver", "fire"} \/ (d.pc \in {"scan", "popped"} /\ s < d.s)

\* What is left there of the arms up to the frontier was not due.
Settled ==
  \A t \in Txns :
    Done(Shard[t]) /\ node[t].at = "heap" /\ node[t].seq <= d.frontier =>
      d.now < node[t].wake

\* The order of the arms, as ArmsInOrder has it.
InOrder ==
  d.pc = "fire" =>
    \A r \in d.hold : \A t \in Txns \ {r.t} :
      ~(tx[t].armed /\ lk[t] = "free" /\ node[t].seq < r.seq /\ node[t].desiredWake <= d.now)

QueueInv ==
  /\ QueueOK
  /\ Phased
  /\ Asked
  /\ Lower
  /\ Found
  /\ Matched
  /\ Settled
  /\ InOrder

-----------------------------------------------------------------------------
(* The least element of a set of numbers. *)

\* The natural numbers are well ordered.
LEMMA LeastNat ==
  ASSUME NEW T, T \subseteq Nat, T # {}
  PROVE  \E m \in T : \A y \in T : m <= y
<1> DEFINE R == OpToRel(<, Nat)
<1>1. PICK m \in T : \A y \in T : ~(<<y, m>> \in R)
  <2> HIDE DEF R
  <2>1. IsWellFoundedOn(R, Nat)
    BY NatLessThanWellFounded DEF R
  <2> QED BY <2>1, WFMin
<1>2. \A y \in T : ~(y < m)
  BY <1>1, Zenon DEF OpToRel
<1>3. \A y \in T : m <= y
  <2> HIDE DEF R
  <2> QED BY <1>2
<1> HIDE DEF R
<1> QED BY <1>3

\* Min is the least element of a set of numbers that has one.
LEMMA MinLeast ==
  ASSUME NEW T, T \subseteq Nat, T # {}
  PROVE  Min(T) \in T /\ \A y \in T : Min(T) <= y
<1>1. \E m \in T : \A y \in T : m <= y
  BY LeastNat
<1> QED BY <1>1 DEF Min

\* The smaller of two numbers.
LEMMA MinOfTwo ==
  ASSUME NEW x \in Nat, NEW y \in Nat
  PROVE  /\ Min({x, y}) \in Nat
         /\ \A z \in Nat : z < x /\ z < y => z < Min({x, y})
<1>1. Min({x, y}) \in {x, y}
  BY MinLeast
<1> QED BY <1>1

\* The head of a heap is the least wake in it.
LEMMA HeadLeast ==
  ASSUME QueueOK, NEW s \in Shards, heap(s) # {}
  PROVE  /\ Head(s) \in Nat
         /\ \A t \in heap(s) : Head(s) <= node[t].wake
         /\ \E t \in heap(s) : Head(s) = node[t].wake
<1> DEFINE T == {node[t].wake : t \in heap(s)}
<1>1. T \subseteq Nat /\ T # {}
  BY DEF QueueOK, heap
<1>2. Min(T) \in T /\ \A y \in T : Min(T) <= y
  <2> HIDE DEF T
  <2> QED BY <1>1, MinLeast
<1>3. Head(s) = Min(T)
  BY DEF Head
<1>4. \A t \in heap(s) : node[t].wake \in T
  OBVIOUS
<1>5. \E t \in heap(s) : Min(T) = node[t].wake
  BY <1>2
<1> HIDE DEF T
<1> QED BY <1>1, <1>2, <1>3, <1>4, <1>5

-----------------------------------------------------------------------------
(* Types, and what several actions have in common. *)

TxRec == [armed : BOOLEAN, arm : Nat]
NodeRec == [at : {"none", "heap", "ready"}, wake : Nat, deadline : Nat,
            desiredWake : Nat, seq : Nat]
ShardRec == [running : BOOLEAN, requested : BOOLEAN, reqAt : Nat,
             on : BOOLEAN, due : Nat, fired : Nat]
RootRec == [running : BOOLEAN, again : BOOLEAN, seq : Nat, ready : SUBSET Ready,
            entering : Nat]
Pcs == {"idle", "now", "frontier", "scan", "popped", "deliver", "fire", "exit", "end"}
DrainRec == [pc : Pcs, now : Nat, frontier : Nat, s : Shards,
             hold : SUBSET (Txns \cup Ready)]

\* The type invariant, in these names.
LEMMA Types ==
  QueueOK <=> /\ now \in 0 .. MaxTime
             /\ tx \in [Txns -> TxRec]
             /\ lk \in [Txns -> {"free", "lazy", "eager", "entry"}]
             /\ node \in [Txns -> NodeRec]
             /\ sh \in [Shards -> ShardRec]
             /\ root \in RootRec
             /\ d \in DrainRec
             /\ d.frontier <= root.seq
             /\ \A t \in Txns : node[t].seq <= root.seq
BY DEF QueueOK, TxRec, NodeRec, ShardRec, RootRec, DrainRec, Pcs

\* Constants and fields.
LEMMA Fields ==
  ASSUME QueueOK
  PROVE  /\ NShards \in Nat \ {0} /\ Shards = 1 .. NShards
         /\ TimeoutSlack \in Nat /\ TimeoutInterval \in Nat \ {0} /\ MaxTime \in Nat
         /\ now \in Nat
         /\ \A t \in Txns :
              /\ Shard[t] \in Shards
              /\ tx[t].armed \in BOOLEAN /\ tx[t].arm \in Nat
              /\ node[t].at \in {"none", "heap", "ready"} /\ node[t].wake \in Nat
              /\ node[t].deadline \in Nat /\ node[t].desiredWake \in Nat
              /\ node[t].seq \in Nat
         /\ \A s \in Shards :
              /\ sh[s].reqAt \in Nat /\ sh[s].due \in Nat /\ sh[s].fired \in Nat
              /\ sh[s].running \in BOOLEAN /\ sh[s].requested \in BOOLEAN
         /\ root.running \in BOOLEAN /\ root.again \in BOOLEAN /\ root.seq \in Nat
         /\ root.ready \subseteq Ready /\ root.entering \in Nat
         /\ d.pc \in Pcs /\ d.now \in Nat /\ d.frontier \in Nat
         /\ d.s \in Shards
<1>1. NShards \in Nat \ {0} /\ Shards = 1 .. NShards /\ now \in Nat
  BY ConstantsAssumption DEF Shards, QueueOK
<1>2. /\ TimeoutSlack \in Nat /\ TimeoutInterval \in Nat \ {0} /\ MaxTime \in Nat
      /\ \A t \in Txns : Shard[t] \in Shards
  BY ConstantsAssumption DEF Shards
<1>3. \A t \in Txns :
              /\ tx[t].armed \in BOOLEAN /\ tx[t].arm \in Nat
              /\ node[t].at \in {"none", "heap", "ready"} /\ node[t].wake \in Nat
              /\ node[t].deadline \in Nat /\ node[t].desiredWake \in Nat
              /\ node[t].seq \in Nat
  BY Types DEF TxRec, NodeRec
<1>4. \A s \in Shards :
              /\ sh[s].reqAt \in Nat /\ sh[s].due \in Nat /\ sh[s].fired \in Nat
              /\ sh[s].running \in BOOLEAN /\ sh[s].requested \in BOOLEAN
  BY Types DEF ShardRec
<1>5. /\ root.running \in BOOLEAN /\ root.again \in BOOLEAN /\ root.seq \in Nat
      /\ root.ready \subseteq Ready /\ root.entering \in Nat
  BY Types DEF RootRec
<1>6. d.pc \in Pcs /\ d.now \in Nat /\ d.frontier \in Nat /\ d.s \in Shards
  BY Types DEF DrainRec
<1> QED BY <1>1, <1>2, <1>3, <1>4, <1>5, <1>6

\* A drainer that is not leaving yet will come by every shard.
LEMMA DrainerComes ==
  ASSUME root.running, d.pc \notin {"exit", "end"}, NEW s \in Shards
  PROVE  DrainerFor(s)
BY DEF DrainerFor

\* Every drainer keeps every request covered.
LEMMA AskedByDrainer ==
  ASSUME \A s \in Shards : DrainerFor(s),
         \A s \in Shards : sh[s].requested =>
           sh[s].fired > 0 \/ (sh[s].on /\ sh[s].due = sh[s].reqAt)
  PROVE  Asked
BY DEF Asked

\* A step that leaves the transactions, the nodes and the entries alone.
LEMMA QuietStep ==
  ASSUME QueueInv, UNCHANGED <<tx, lk, node>>,
         root'.ready = root.ready, root'.seq = root.seq, d'.hold = d.hold,
         d'.pc = "popped" <=> d.pc = "popped", d'.pc = "fire" <=> d.pc = "fire",
         d.pc = "fire" => d'.now = d.now,
         QueueOK', Phased', Asked', Settled'
  PROVE  QueueInv'
<1>1. Lower'
  BY DEF QueueInv, Lower
<1>2. Found'
  BY DEF QueueInv, Found, InHand, InReady, Handed, IsOf
<1>3. Matched'
  BY DEF QueueInv, Matched, IsOf
<1>4. InOrder'
  BY DEF QueueInv, InOrder
<1> QED BY <1>1, <1>2, <1>3, <1>4 DEF QueueInv

\* The clock and the callbacks.
LEMMA CallbackStep ==
  ASSUME QueueInv,
         \/ Tick
         \/ \E s \in Shards : TimerFires(s) \/ fire(s)
         \/ EnterRoot
  PROVE  QueueInv'
<1>0. QueueOK
  BY DEF QueueInv
<1>1. CASE Tick
  <2>1. now' \in 0 .. MaxTime /\ UNCHANGED <<tx, lk, node, sh, root, d>>
    BY <1>0, <1>1, Fields DEF Tick, qvars
  <2>2. QueueOK'
    BY <1>0, <2>1 DEF QueueOK
  <2>3. Phased' /\ Asked' /\ Settled'
    BY <2>1 DEF QueueInv, Phased, Asked, Settled, DrainerFor, Done
  <2> QED BY <2>1, <2>2, <2>3, QuietStep
<1>2. ASSUME NEW s \in Shards, TimerFires(s) PROVE QueueInv'
  <2> DEFINE q == [sh[s] EXCEPT !.on = FALSE, !.due = 0, !.fired = @ + 1]
  <2>1. sh' = [sh EXCEPT ![s] = q] /\ UNCHANGED <<now, tx, lk, node, root, d>>
    BY <1>0, <1>2, Types DEF TimerFires
  <2>2. /\ q \in ShardRec /\ q.fired > 0
        /\ q.running = sh[s].running
    <3> DEFINE n == sh[s].fired + 1
    <3>0. sh[s].fired \in Nat
      BY <1>0, Fields
    <3>1. n \in Nat /\ n > 0
      BY <3>0
    <3>2. q = [sh[s] EXCEPT !.on = FALSE, !.due = 0, !.fired = n]
      OBVIOUS
    <3> HIDE DEF n, q
    <3>3. PICK x \in ShardRec : x = sh[s]
      BY <1>0, Types
    <3>4. q.fired = n /\ q.running = x.running
      BY <3>2, <3>3 DEF ShardRec
    <3>5. n \in Nat
      BY <3>1
    <3>6. q = [x EXCEPT !.on = FALSE, !.due = 0, !.fired = n]
      BY <3>2, <3>3
    <3>7. q \in ShardRec
      BY <3>5, <3>6 DEF ShardRec
    <3> QED BY <3>1, <3>3, <3>4, <3>7
  <2> HIDE DEF q
  <2>3. /\ sh' \in [Shards -> ShardRec] /\ sh'[s] = q
        /\ \A o \in Shards : o # s => sh'[o] = sh[o]
    BY <1>0, <2>1, <2>2, Types
  <2>4. QueueOK'
    BY <1>0, <2>1, <2>3 DEF QueueOK, ShardRec
  <2>5. \A o \in Shards : DrainerFor(o)'
    BY <2>2, <2>3 DEF DrainerFor
  <2>6. Asked'
    BY <2>1, <2>2, <2>3, <2>5 DEF QueueInv, Asked
  <2>7. Phased'
    BY <2>1, <2>2, <2>3 DEF QueueInv, Phased
  <2>8. Settled'
    BY <2>1 DEF QueueInv, Settled, Done
  <2> QED BY <2>1, <2>4, <2>6, <2>7, <2>8, QuietStep
<1>3. ASSUME NEW s \in Shards, fire(s) PROVE QueueInv'
  <2> DEFINE q == [sh[s] EXCEPT !.fired = @ - 1, !.requested = FALSE]
             r == [root EXCEPT !.entering = @ + 1]
  <2>1. /\ sh' = [sh EXCEPT ![s] = q] /\ root' = r /\ UNCHANGED <<now, tx, lk, node, d>>
        /\ sh[s].fired > 0
    BY <1>0, <1>3, Types DEF fire
  <2>2. q \in ShardRec /\ ~q.requested /\ q.running = sh[s].running
    <3> DEFINE n == sh[s].fired - 1
    <3>1. n \in Nat
      BY <1>0, <2>1, Fields
    <3> HIDE DEF n
    <3>2. [sh[s] EXCEPT !.fired = n, !.requested = FALSE] \in ShardRec
      BY <1>0, <3>1, Types DEF ShardRec
    <3>3. /\ [sh[s] EXCEPT !.fired = n, !.requested = FALSE].requested = FALSE
          /\ [sh[s] EXCEPT !.fired = n, !.requested = FALSE].running = sh[s].running
      BY <1>0, Types DEF ShardRec
    <3> QED BY <3>2, <3>3 DEF n
  <2>3. /\ r \in RootRec /\ r.entering > 0 /\ r.ready = root.ready /\ r.seq = root.seq
        /\ r.running = root.running /\ r.again = root.again
    BY <1>0, Types DEF RootRec
  <2> HIDE DEF q, r
  <2>4. /\ sh' \in [Shards -> ShardRec] /\ sh'[s] = q
        /\ \A o \in Shards : o # s => sh'[o] = sh[o]
    BY <1>0, <2>1, <2>2, Types
  <2>5. QueueOK'
    BY <1>0, <2>1, <2>3, <2>4 DEF QueueOK, ShardRec, RootRec
  <2>6. \A o \in Shards : DrainerFor(o)'
    BY <2>1, <2>3 DEF DrainerFor
  <2>7. Asked'
    BY <2>2, <2>4, <2>6 DEF QueueInv, Asked
  <2>8. Phased'
    BY <2>1, <2>2, <2>3, <2>4 DEF QueueInv, Phased
  <2>9. Settled'
    BY <2>1 DEF QueueInv, Settled, Done
  <2> QED BY <2>1, <2>3, <2>5, <2>7, <2>8, <2>9, QuietStep
<1>4. CASE EnterRoot
  <2> DEFINE ag == root.again \/ root.running
             r == [root EXCEPT !.entering = @ - 1, !.running = TRUE, !.again = ag]
  <2>1. /\ root.entering > 0 /\ root' = r /\ UNCHANGED <<now, tx, lk, node, sh>>
        /\ d' = IF root.running THEN d ELSE [d EXCEPT !.pc = "now"]
    BY <1>4 DEF EnterRoot
  <2>2. /\ r \in RootRec /\ r.running = TRUE /\ r.again = ag
        /\ r.ready = root.ready /\ r.seq = root.seq
    <3> DEFINE n == root.entering - 1
    <3>1. n \in Nat /\ ag \in BOOLEAN
      BY <1>0, <2>1, Fields
    <3>2. r = [root EXCEPT !.entering = n, !.running = TRUE, !.again = ag]
      OBVIOUS
    <3> HIDE DEF n, ag, r
    <3> QED BY <1>0, <3>1, <3>2, Types DEF RootRec
  <2> HIDE DEF r
  <2>3. /\ d' \in DrainRec /\ d'.hold = d.hold /\ d'.now = d.now
        /\ d'.frontier = d.frontier /\ d'.s = d.s
        /\ root.running => d' = d
        /\ ~root.running => d'.pc = "now"
    BY <1>0, <2>1, Types DEF DrainRec, Pcs
  <2>4. QueueOK'
    BY <1>0, <2>1, <2>2, <2>3 DEF QueueOK, RootRec, DrainRec, Pcs
  <2>5. ~root.running => d.pc = "idle" /\ ~root.again /\ \A s \in Shards : ~sh[s].running
    BY DEF QueueInv, Phased
  <2>6. \A o \in Shards : DrainerFor(o)'
    <3>1. CASE root.running
      BY <2>1, <2>2, <3>1 DEF DrainerFor
    <3>2. CASE ~root.running
      BY <2>1, <2>2, <2>3, <3>2 DEF DrainerFor
    <3> QED BY <3>1, <3>2
  <2>7. Asked'
    BY <2>1, <2>6 DEF QueueInv, Asked
  <2>8. Phased'
    <3>1. CASE root.running
      BY <2>1, <2>2, <2>3, <3>1 DEF QueueInv, Phased
    <3>2. CASE ~root.running
      BY <2>1, <2>2, <2>3, <2>5, <3>2 DEF QueueInv, Phased
    <3> QED BY <3>1, <3>2
  <2>9. Settled'
    <3>1. CASE root.running
      BY <2>1, <2>3, <3>1 DEF QueueInv, Settled, Done
    <3>2. CASE ~root.running
      BY <2>1, <2>3, <3>2 DEF Settled, Done
    <3> QED BY <3>1, <3>2
  <2>10. /\ d'.pc = "popped" <=> d.pc = "popped"
         /\ d'.pc = "fire" <=> d.pc = "fire"
    BY <2>3, <2>5
  <2> QED BY <2>1, <2>2, <2>3, <2>4, <2>7, <2>8, <2>9, <2>10, QuietStep
<1> QED BY <1>1, <1>2, <1>3, <1>4

\* The drainer between its shards: a cohort begins, a shard is done, a cohort ends.
LEMMA RoundStep ==
  ASSUME QueueInv, ReadNow \/ ReadFrontier \/ ShardDone \/ CohortDone
  PROVE  QueueInv'
<1>0. QueueOK
  BY DEF QueueInv
<1>1. CASE ReadNow
  <2>1. /\ d.pc = "now" /\ UNCHANGED <<now, tx, lk, node, sh, root>>
        /\ d' \in DrainRec /\ d'.pc = "frontier" /\ d'.hold = d.hold
        /\ d'.frontier = d.frontier /\ d'.s = d.s
    BY <1>0, <1>1, Types, Fields DEF ReadNow, DrainRec, Pcs
  <2>2. QueueOK'
    BY <1>0, <2>1 DEF QueueOK, DrainRec, Pcs
  <2>3. Phased'
    BY <2>1 DEF QueueInv, Phased
  <2>4. root.running
    BY <2>1 DEF QueueInv, Phased
  <2>5. Asked'
    BY <2>1, <2>4 DEF QueueInv, Asked, DrainerFor
  <2>6. Settled'
    BY <2>1 DEF Settled, Done
  <2> QED BY <2>1, <2>2, <2>3, <2>5, <2>6, QuietStep
<1>2. CASE ReadFrontier
  <2>1. /\ d.pc = "frontier" /\ UNCHANGED <<now, tx, lk, node, sh, root>>
        /\ d' \in DrainRec /\ d'.pc = "scan" /\ d'.hold = d.hold
        /\ d'.frontier = root.seq /\ d'.s = 1
    <3>1. d \in DrainRec /\ root.seq \in Nat /\ 1 \in Shards
      BY <1>0, Types, Fields
    <3> QED BY <1>2, <3>1 DEF ReadFrontier, DrainRec, Pcs
  <2>2. QueueOK'
    <3>1. d'.frontier <= root.seq
      BY <1>0, <2>1, Fields
    <3> QED BY <1>0, <2>1, <3>1 DEF QueueOK, DrainRec, Pcs
  <2>3. Phased'
    BY <2>1 DEF QueueInv, Phased
  <2>4. root.running
    BY <2>1 DEF QueueInv, Phased
  <2>5. Asked'
    BY <2>1, <2>4 DEF QueueInv, Asked, DrainerFor
  <2>6. Settled'
    BY <1>0, <2>1, Fields DEF Settled, Done
  <2> QED BY <2>1, <2>2, <2>3, <2>5, <2>6, QuietStep
<1>3. CASE ShardDone
  <2> DEFINE q == [sh[d.s] EXCEPT !.running = TRUE]
  <2>1. /\ d.pc = "scan" /\ DueIn(d.s) = {} /\ UNCHANGED <<now, tx, lk, node, root>>
        /\ sh' = [sh EXCEPT ![d.s] = q]
    BY <1>0, <1>3, Types DEF ShardDone
  <2>2. /\ q \in ShardRec /\ q.requested = sh[d.s].requested /\ q.fired = sh[d.s].fired
        /\ q.on = sh[d.s].on /\ q.due = sh[d.s].due /\ q.reqAt = sh[d.s].reqAt
    <3>1. sh[d.s] \in ShardRec
      BY <1>0, Types, Fields
    <3> QED BY <3>1 DEF ShardRec
  <2> HIDE DEF q
  <2>3. /\ sh' \in [Shards -> ShardRec] /\ sh'[d.s] = q
        /\ \A o \in Shards : o # d.s => sh'[o] = sh[o]
    BY <1>0, <2>1, <2>2, Types, Fields
  <2>4. /\ d'.now = d.now /\ d'.frontier = d.frontier /\ d'.hold = d.hold
        /\ \/ d.s < NShards /\ d'.pc = "scan" /\ d'.s = d.s + 1
           \/ d.s = NShards /\ d'.pc \in {"exit", "deliver"} /\ d'.s = 1
        /\ d' \in DrainRec
    <3>1. CASE d.s < NShards
      <4> DEFINE n == d.s + 1
      <4>1. n \in Shards
        BY <1>0, <3>1, Fields
      <4>2. d' = [d EXCEPT !.s = n]
        BY <1>3, <3>1 DEF ShardDone
      <4>3. d.pc = "scan" /\ d \in DrainRec
        BY <1>0, <2>1, Types
      <4>4. n = d.s + 1
        OBVIOUS
      <4> HIDE DEF n
      <4> QED BY <3>1, <4>1, <4>2, <4>3, <4>4 DEF DrainRec
    <3>2. CASE ~(d.s < NShards)
      <4> DEFINE p == IF root.ready = {} THEN "exit" ELSE "deliver"
      <4>1. p \in {"exit", "deliver"} /\ 1 \in Shards /\ d.s = NShards
        BY <1>0, <3>2, Fields
      <4>2. d' = [d EXCEPT !.pc = p, !.s = 1]
        BY <1>3, <3>2 DEF ShardDone
      <4>3. d \in DrainRec
        BY <1>0, Types
      <4> HIDE DEF p
      <4> QED BY <4>1, <4>2, <4>3 DEF DrainRec, Pcs
    <3> QED BY <3>1, <3>2
  <2>5. QueueOK'
    BY <1>0, <2>1, <2>3, <2>4 DEF QueueOK, ShardRec, DrainRec, Pcs
  <2>6. root.running /\ d.hold = {}
    BY <2>1 DEF QueueInv, Phased
  <2>7. Phased'
    BY <1>0, <2>1, <2>3, <2>4, <2>6, Fields DEF QueueInv, Phased
  <2>8. \A s \in Shards : DrainerFor(s)'
    BY <1>0, <2>1, <2>4, <2>6, Fields DEF DrainerFor
  <2>9. Asked'
    BY <2>1, <2>2, <2>3, <2>8 DEF QueueInv, Asked
  <2>10. Settled'
    <3> SUFFICES ASSUME NEW t \in Txns, Done(Shard[t])', node[t].at = "heap",
                        node[t].seq <= d.frontier
                 PROVE  d.now < node[t].wake
      BY <2>1, <2>4 DEF Settled
    <3>1. Shard[t] \in Shards /\ Shard[t] <= d.s
      BY <1>0, <2>1, <2>4, Fields DEF Done
    <3>2. CASE Shard[t] < d.s
      BY <2>1, <3>2 DEF QueueInv, Settled, Done
    <3>3. CASE Shard[t] = d.s
      BY <1>0, <2>1, <3>3, Fields DEF DueIn, heap
    <3> QED BY <1>0, <3>1, <3>2, <3>3, Fields
  <2>11. d'.pc \notin {"popped", "fire"} /\ d.pc = "scan"
    BY <2>1, <2>4
  <2> QED BY <2>1, <2>4, <2>5, <2>7, <2>9, <2>10, <2>11, QuietStep
<1>4. CASE CohortDone
  <2>1. /\ d.pc = "deliver" /\ UNCHANGED <<now, tx, lk, node, sh, root>>
        /\ d' \in DrainRec /\ d'.pc = "now" /\ d'.hold = d.hold
        /\ d'.frontier = d.frontier /\ d'.s = d.s
    BY <1>0, <1>4, Types, Fields DEF CohortDone, DrainRec, Pcs
  <2>2. QueueOK'
    BY <1>0, <2>1 DEF QueueOK, DrainRec, Pcs
  <2>3. Phased'
    BY <2>1 DEF QueueInv, Phased
  <2>4. root.running
    BY <2>1 DEF QueueInv, Phased
  <2>5. Asked'
    BY <2>1, <2>4 DEF QueueInv, Asked, DrainerFor
  <2>6. Settled'
    BY <2>1 DEF Settled, Done
  <2> QED BY <2>1, <2>2, <2>3, <2>5, <2>6, QuietStep
<1> QED BY <1>1, <1>2, <1>3, <1>4

\* The drainer leaves a shard, and with it every heap a timer; then the root,
\* unless a callback left it a note.
LEMMA LeaveStep ==
  ASSUME QueueInv, LeaveShard \/ LeaveRoot
  PROVE  QueueInv'
<1>0. QueueOK
  BY DEF QueueInv
<1>1. CASE LeaveShard
  <2> DEFINE q == [(IF heap(d.s) = {} THEN sh[d.s] ELSE requestLocked(sh[d.s], Head(d.s)))
                    EXCEPT !.running = FALSE]
  <2>1. d.pc = "exit" /\ UNCHANGED <<now, tx, lk, node, root>> /\ sh' = [sh EXCEPT ![d.s] = q]
    BY <1>0, <1>1, Types DEF LeaveShard
  <2>2. /\ q \in ShardRec /\ ~q.running /\ q.fired = sh[d.s].fired
        /\ heap(d.s) = {} => /\ q.requested = sh[d.s].requested /\ q.reqAt = sh[d.s].reqAt
                             /\ q.on = sh[d.s].on /\ q.due = sh[d.s].due
        /\ heap(d.s) # {} => /\ q.requested /\ q.on /\ q.due = q.reqAt
                             /\ \A t \in heap(d.s) : q.reqAt <= node[t].wake
    <3>1. sh[d.s] \in ShardRec /\ d.s \in Shards
      BY <1>0, Types, Fields
    <3>2. CASE heap(d.s) = {}
      <4>1. q = [sh[d.s] EXCEPT !.running = FALSE]
        BY <3>2
      <4> HIDE DEF q
      <4> QED BY <3>1, <3>2, <4>1 DEF ShardRec
    <3>3. CASE heap(d.s) # {}
      <4> DEFINE h == Head(d.s)
      <4>1. h \in Nat /\ \A t \in heap(d.s) : h <= node[t].wake
        BY <1>0, <3>1, <3>3, HeadLeast
      <4>2. q = [sh[d.s] EXCEPT !.requested = TRUE, !.reqAt = h, !.on = TRUE, !.due = h,
                                !.running = FALSE]
        BY <3>3 DEF requestLocked
      <4> HIDE DEF q, h
      <4>3. q \in ShardRec /\ ~q.running /\ q.fired = sh[d.s].fired
            /\ q.requested /\ q.on /\ q.due = h /\ q.reqAt = h
        BY <3>1, <4>1, <4>2 DEF ShardRec
      <4> QED BY <3>3, <4>1, <4>3
    <3> QED BY <3>2, <3>3
  <2> HIDE DEF q
  <2>3. /\ sh' \in [Shards -> ShardRec] /\ sh'[d.s] = q
        /\ \A o \in Shards : o # d.s => sh'[o] = sh[o]
    BY <1>0, <2>1, <2>2, Types, Fields
  <2>4. /\ d'.now = d.now /\ d'.frontier = d.frontier /\ d'.hold = d.hold
        /\ \/ d.s < NShards /\ d'.pc = "exit" /\ d'.s = d.s + 1
           \/ d.s = NShards /\ d'.pc = "end" /\ d'.s = 1
        /\ d' \in DrainRec
    <3>1. CASE d.s < NShards
      <4> DEFINE n == d.s + 1
      <4>1. n \in Shards
        BY <1>0, <3>1, Fields
      <4>2. d' = [d EXCEPT !.s = n]
        BY <1>1, <3>1 DEF LeaveShard
      <4>3. d.pc = "exit" /\ d \in DrainRec
        BY <1>0, <2>1, Types
      <4>4. n = d.s + 1
        OBVIOUS
      <4> HIDE DEF n
      <4> QED BY <3>1, <4>1, <4>2, <4>3, <4>4 DEF DrainRec
    <3>2. CASE ~(d.s < NShards)
      <4>1. 1 \in Shards /\ d.s = NShards
        BY <1>0, <3>2, Fields
      <4>2. d' = [d EXCEPT !.pc = "end", !.s = 1]
        BY <1>1, <3>2 DEF LeaveShard
      <4>3. d \in DrainRec
        BY <1>0, Types
      <4> QED BY <4>1, <4>2, <4>3 DEF DrainRec, Pcs
    <3> QED BY <3>1, <3>2
  <2>5. QueueOK'
    BY <1>0, <2>1, <2>3, <2>4 DEF QueueOK, ShardRec, DrainRec, Pcs
  <2>6. root.running /\ d.hold = {}
    BY <2>1 DEF QueueInv, Phased
  <2>7. Phased'
    <3>1. \A s \in Shards : sh'[s].running => s # d.s /\ d.s <= s
      BY <2>1, <2>2, <2>3 DEF QueueInv, Phased
    <3>2. \A s \in Shards : sh'[s].running => d'.pc = "exit" /\ d'.s <= s
      BY <1>0, <2>4, <3>1, Fields
    <3>3. d.s \in Shards /\ root.again \in BOOLEAN
      BY <1>0, Fields
    <3> QED BY <2>1, <2>4, <2>6, <3>2 DEF QueueInv, Phased
  <2>8. \A s \in Shards : s # d.s /\ DrainerFor(s) => DrainerFor(s)'
    <3> SUFFICES ASSUME NEW s \in Shards, s # d.s, DrainerFor(s) PROVE DrainerFor(s)'
      OBVIOUS
    <3>1. \A o \in Shards : sh'[o].fired = sh[o].fired
      BY <2>2, <2>3
    <3>2. CASE root.again \/ root.entering > 0 \/ \E o \in Shards : sh[o].fired > 0
      BY <2>1, <3>1, <3>2 DEF DrainerFor
    <3>3. CASE root.running /\ d.pc # "end" /\ d.s <= s
      <4>1. d'.pc = "exit" /\ d'.s <= s
        BY <1>0, <2>4, <3>3, Fields
      <4> QED BY <2>1, <3>3, <4>1 DEF DrainerFor
    <3> QED BY <2>1, <3>2, <3>3 DEF DrainerFor
  <2>9. Asked'
    <3> SUFFICES ASSUME NEW s \in Shards
                 PROVE  /\ sh'[s].requested =>
                             sh'[s].fired > 0 \/ (sh'[s].on /\ sh'[s].due = sh'[s].reqAt)
                        /\ DrainerFor(s)' \/ \A t \in Txns : Shard[t] = s /\ node[t].at = "heap" =>
                              sh'[s].requested /\ sh'[s].reqAt <= node[t].wake
      BY <2>1 DEF Asked
    <3>1. CASE s = d.s
      <4>1. sh'[s].requested =>
              sh'[s].fired > 0 \/ (sh'[s].on /\ sh'[s].due = sh'[s].reqAt)
        BY <2>2, <2>3, <3>1 DEF QueueInv, Asked
      <4>2. \A t \in Txns : Shard[t] = s /\ node[t].at = "heap" =>
              sh'[s].requested /\ sh'[s].reqAt <= node[t].wake
        BY <2>2, <2>3, <3>1 DEF heap
      <4> QED BY <4>1, <4>2
    <3>2. CASE s # d.s
      BY <2>3, <2>8, <3>2 DEF QueueInv, Asked
    <3> QED BY <3>1, <3>2
  <2>10. Settled'
    BY <2>4 DEF Settled, Done
  <2>11. d'.pc \notin {"popped", "fire"}
    BY <2>4
  <2> QED BY <2>1, <2>4, <2>5, <2>7, <2>9, <2>10, <2>11, QuietStep
<1>2. CASE LeaveRoot
  <2> DEFINE p == IF root.again THEN "now" ELSE "idle"
  <2>1. /\ d.pc = "end" /\ UNCHANGED <<now, tx, lk, node, sh>>
        /\ root' = [root EXCEPT !.again = FALSE, !.running = root.again]
        /\ d' = [d EXCEPT !.pc = p, !.now = 0, !.frontier = 0]
    BY <1>2 DEF LeaveRoot
  <2>2. p \in {"now", "idle"} /\ (p = "now" <=> root.again)
    OBVIOUS
  <2> HIDE DEF p
  <2>3. /\ root' \in RootRec /\ root'.again = FALSE /\ root'.running = root.again
        /\ root'.ready = root.ready /\ root'.seq = root.seq /\ root'.entering = root.entering
    BY <1>0, <2>1, Types DEF RootRec
  <2>4. d' \in DrainRec /\ d'.pc = p /\ d'.frontier = 0 /\ d'.hold = d.hold
    BY <1>0, <2>1, <2>2, Types DEF DrainRec, Pcs
  <2>5. QueueOK'
    <3>1. d'.frontier <= root'.seq
      BY <1>0, <2>3, <2>4, Fields
    <3> QED BY <1>0, <2>1, <2>3, <2>4, <3>1 DEF QueueOK, RootRec, DrainRec, Pcs
  <2>6. d.hold = {} /\ \A s \in Shards : ~sh[s].running
    BY <2>1 DEF QueueInv, Phased
  <2>7. Phased'
    BY <2>1, <2>2, <2>3, <2>4, <2>6 DEF Phased
  <2>8. \A s \in Shards : DrainerFor(s) => DrainerFor(s)'
    <3> SUFFICES ASSUME NEW s \in Shards, DrainerFor(s) PROVE DrainerFor(s)'
      OBVIOUS
    <3>1. root.again \/ root.entering > 0 \/ \E q \in Shards : sh[q].fired > 0
      BY <2>1 DEF DrainerFor
    <3>2. CASE root.again
      BY <2>2, <2>3, <2>4, <3>2 DEF DrainerFor
    <3>3. CASE root.entering > 0 \/ \E q \in Shards : sh[q].fired > 0
      BY <2>1, <2>3, <3>3 DEF DrainerFor
    <3> QED BY <3>1, <3>2, <3>3
  <2>9. Asked'
    BY <2>1, <2>8 DEF QueueInv, Asked
  <2>10. Settled'
    BY <2>2, <2>4 DEF Settled, Done
  <2>11. d'.pc \notin {"popped", "fire"}
    BY <2>2, <2>4
  <2> QED BY <2>1, <2>3, <2>4, <2>5, <2>7, <2>9, <2>10, <2>11, QuietStep
<1> QED BY <1>1, <1>2

-----------------------------------------------------------------------------
(* The transactions. *)

\* The first section of an arm: a new arm, with the wake that it wants.
LEMMA ScheduleStep ==
  ASSUME QueueInv, NEW t \in Txns, NEW dl \in 1 .. MaxTime, schedule(t, dl)
  PROVE  QueueInv'
<1>0. QueueOK
  BY DEF QueueInv
<1>1. PICK w : w = Wake(dl)
  OBVIOUS
<1>2. PICK n : n = tx[t].arm + 1
  OBVIOUS
<1>3. PICK l : l = IF Lazy(node[t], w) THEN "lazy" ELSE "eager"
  OBVIOUS
<1>4. w \in Nat /\ n \in Nat /\ dl \in Nat
  <2>1. dl + TimeoutSlack \in Nat /\ now + TimeoutInterval \in Nat /\ n \in Nat /\ dl \in Nat
    <3>1. /\ TimeoutSlack \in Nat /\ TimeoutInterval \in Nat /\ MaxTime \in Nat
          /\ now \in Nat /\ tx[t].arm \in Nat
      BY <1>0, Fields
    <3> QED BY <1>2, <3>1
  <2> QED BY <1>1, <2>1, MinOfTwo DEF Wake
<1>5. /\ lk[t] = "free" /\ UNCHANGED <<now, sh, root, d>>
      /\ tx' = [tx EXCEPT ![t] = [armed |-> TRUE, arm |-> n]]
      /\ lk' = [lk EXCEPT ![t] = l]
  BY <1>1, <1>2, <1>3, <1>0, Types DEF schedule, Arm
<1>6. node' = [node EXCEPT ![t] = [node[t] EXCEPT !.deadline = dl, !.desiredWake = w]]
  BY <1>0, <1>1, Types DEF schedule, Arm
<1>7. /\ node' \in [Txns -> NodeRec]
      /\ \A o \in Txns : /\ node'[o].at = node[o].at /\ node'[o].wake = node[o].wake
                         /\ node'[o].seq = node[o].seq
                         /\ o # t => node'[o] = node[o]
      /\ node'[t].desiredWake = w
  BY <1>0, <1>4, <1>6, Types DEF NodeRec
<1>8. /\ tx' \in [Txns -> TxRec] /\ tx'[t].arm = n
      /\ \A o \in Txns : o # t => tx'[o] = tx[o]
  BY <1>0, <1>4, <1>5, Types DEF TxRec
<1>9. /\ lk' \in [Txns -> {"free", "lazy", "eager", "entry"}] /\ lk'[t] = l /\ l \in {"lazy", "eager"}
      /\ \A o \in Txns : o # t => lk'[o] = lk[o]
  BY <1>0, <1>3, <1>5, Types
<1>10. QueueOK'
  BY <1>0, <1>5, <1>7, <1>8, <1>9 DEF QueueOK, TxRec, NodeRec
<1>11. Phased'
  BY <1>5, <1>7 DEF QueueInv, Phased
<1>12. Asked'
  BY <1>5, <1>7 DEF QueueInv, Asked, DrainerFor
<1>13. Lower'
  <2> SUFFICES ASSUME NEW o \in Txns, node'[o].at = "heap", lk'[o] # "eager"
               PROVE  node'[o].wake <= node'[o].desiredWake
    BY DEF Lower
  <2>1. CASE o = t
    BY <1>0, <1>3, <1>4, <1>7, <1>9, <2>1, Fields DEF Lazy
  <2>2. CASE o # t
    BY <1>7, <1>9, <2>2 DEF QueueInv, Lower
  <2> QED BY <2>1, <2>2
<1>14. Found'
  <2> SUFFICES ASSUME NEW o \in Txns, node'[o].at # "heap"
               PROVE  /\ lk'[o] = "lazy" => InHand(o)'
                      /\ lk'[o] = "free" /\ tx'[o].armed =>
                           InHand(o)' \/ InReady(o)' \/ Handed(o)'
    BY DEF Found
  <2>1. CASE o = t
    BY <1>3, <1>7, <1>9, <2>1 DEF Lazy
  <2>2. CASE o # t
    BY <1>5, <1>7, <1>8, <1>9, <2>2 DEF QueueInv, Found, InHand, InReady, Handed, IsOf
  <2> QED BY <2>1, <2>2
<1>15. Matched'
  <2> SUFFICES ASSUME NEW r \in root.ready
               PROVE  /\ r.seq <= root.seq
                      /\ r.arm <= tx'[r.t].arm
                      /\ IsOf(r, r.t)' => node'[r.t].at = "ready"
    BY <1>5 DEF Matched
  <2>1. r.t \in Txns /\ r.arm \in Nat /\ r.seq <= root.seq /\ r.arm <= tx[r.t].arm
    BY <1>0, Fields DEF Ready, QueueInv, Matched
  <2>2. CASE r.t = t
    BY <1>0, <1>2, <1>8, <2>1, <2>2, Fields DEF IsOf
  <2>3. CASE r.t # t
    BY <1>7, <1>8, <2>1, <2>3 DEF QueueInv, Matched, IsOf
  <2> QED BY <2>2, <2>3
<1>16. Settled'
  BY <1>5, <1>7 DEF QueueInv, Settled, Done
<1>17. InOrder'
  BY <1>5, <1>7, <1>8, <1>9 DEF QueueInv, InOrder
<1> QED BY <1>10, <1>11, <1>12, <1>13, <1>14, <1>15, <1>16, <1>17 DEF QueueInv

\* What a new sequence number does for the entries and the order of the arms: it
\* is later than all that there is.
LEMMA NewSeq ==
  ASSUME QueueInv, NEW t \in Txns, UNCHANGED <<tx, d>>,
         lk' = [lk EXCEPT ![t] = "free"],
         root'.ready = root.ready, root'.seq = root.seq + 1,
         node' \in [Txns -> NodeRec], node'[t].seq = root.seq + 1,
         \A o \in Txns : o # t => node'[o] = node[o]
  PROVE  Matched' /\ Settled' /\ InOrder'
<1>0. QueueOK /\ lk'[t] = "free" /\ \A o \in Txns : o # t => lk'[o] = lk[o]
  BY Types DEF QueueInv
<1>1. Matched'
  <2> SUFFICES ASSUME NEW r \in root.ready
               PROVE  /\ r.seq <= root.seq + 1
                      /\ r.arm <= tx[r.t].arm
                      /\ IsOf(r, r.t)' => node'[r.t].at = "ready"
    BY DEF Matched
  <2>1. r.t \in Txns /\ r.seq \in Nat /\ r.seq <= root.seq /\ r.arm <= tx[r.t].arm
    BY <1>0, Fields DEF Ready, QueueInv, Matched
  <2>2. r.seq <= root.seq + 1 /\ r.seq # root.seq + 1
    BY <1>0, <2>1, Fields
  <2>3. CASE r.t = t
    BY <2>1, <2>2, <2>3 DEF IsOf
  <2>4. CASE r.t # t
    BY <2>1, <2>2, <2>4 DEF QueueInv, Matched, IsOf
  <2> QED BY <2>3, <2>4
<1>2. Settled'
  <2> SUFFICES ASSUME NEW o \in Txns, Done(Shard[o]), node'[o].at = "heap",
                      node'[o].seq <= d.frontier
               PROVE  d.now < node'[o].wake
    BY DEF Settled, Done
  <2>1. d.frontier <= root.seq
    BY <1>0 DEF QueueOK
  <2>2. o # t
    BY <1>0, <2>1, Fields
  <2> QED BY <2>2 DEF QueueInv, Settled
<1>3. InOrder'
  <2> SUFFICES ASSUME d.pc = "fire", NEW r \in d.hold, NEW o \in Txns \ {r.t},
                      tx[o].armed, lk'[o] = "free", node'[o].seq < r.seq,
                      node'[o].desiredWake <= d.now
               PROVE  FALSE
    BY DEF InOrder
  <2>1. r.seq <= root.seq /\ r.seq \in Nat
    BY DEF QueueInv, Phased, Ready
  <2>2. o # t
    BY <1>0, <2>1, Fields
  <2> QED BY <1>0, <2>2 DEF QueueInv, InOrder
<1> QED BY <1>1, <1>2, <1>3

\* The second section of a lazy arm, which takes no lock of the queue.
LEMMA LazyStep ==
  ASSUME QueueInv, NEW t \in Txns, ScheduleLazily(t)
  PROVE  QueueInv'
<1>0. QueueOK
  BY DEF QueueInv
<1>1. PICK n : n = root.seq + 1
  OBVIOUS
<1>2. n \in Nat /\ root.seq <= n /\ root.seq \in Nat
  BY <1>0, <1>1, Fields
<1>3. /\ lk[t] = "lazy" /\ UNCHANGED <<now, tx, sh, d>>
      /\ lk' = [lk EXCEPT ![t] = "free"]
      /\ root' = [root EXCEPT !.seq = n]
      /\ node' = [node EXCEPT ![t] = [node[t] EXCEPT !.seq = n]]
  BY <1>0, <1>1, Types DEF ScheduleLazily
<1>4. /\ root' \in RootRec /\ root'.seq = n /\ root'.ready = root.ready
      /\ root'.again = root.again /\ root'.running = root.running
      /\ root'.entering = root.entering
  BY <1>0, <1>2, <1>3, Types DEF RootRec
<1>5. /\ node' \in [Txns -> NodeRec] /\ node'[t].seq = n
      /\ \A o \in Txns : /\ node'[o].at = node[o].at /\ node'[o].wake = node[o].wake
                         /\ node'[o].desiredWake = node[o].desiredWake
                         /\ o # t => node'[o] = node[o]
  BY <1>0, <1>2, <1>3, Types DEF NodeRec
<1>6. lk' \in [Txns -> {"free", "lazy", "eager", "entry"}] /\ lk'[t] = "free"
      /\ \A o \in Txns : o # t => lk'[o] = lk[o]
  BY <1>0, <1>3, Types
<1>7. QueueOK'
  <2>1. d.frontier <= n /\ \A o \in Txns : node'[o].seq <= n
    <3>1. d.frontier <= root.seq /\ \A o \in Txns : node[o].seq <= root.seq
      BY <1>0, Types
    <3>2. d.frontier \in Nat /\ \A o \in Txns : node[o].seq \in Nat
      BY <1>0, Fields
    <3> QED BY <1>2, <1>5, <3>1, <3>2
  <2>2. d'.frontier <= root'.seq /\ \A o \in Txns : node'[o].seq <= root'.seq
    BY <1>3, <1>4, <2>1
  <2>3. node' \in [Txns -> NodeRec] /\ lk' \in [Txns -> {"free", "lazy", "eager", "entry"}]
    BY <1>5, <1>6
  <2> QED BY <1>0, <1>3, <1>4, <2>2, <2>3 DEF QueueOK, RootRec, NodeRec
<1>8. Phased'
  <2>1. d.pc = "fire" => \E r \in Ready : d.hold = {r} /\ r.seq <= n
    <3> SUFFICES ASSUME d.pc = "fire" PROVE \E r \in Ready : d.hold = {r} /\ r.seq <= n
      OBVIOUS
    <3>1. PICK r \in Ready : d.hold = {r} /\ r.seq <= root.seq
      BY DEF QueueInv, Phased
    <3>2. r.seq <= n
      BY <1>2, <3>1 DEF Ready
    <3> QED BY <3>1, <3>2
  <2> QED BY <1>3, <1>4, <1>5, <2>1 DEF QueueInv, Phased
<1>9. Asked'
  BY <1>3, <1>4, <1>5 DEF QueueInv, Asked, DrainerFor
<1>10. Lower'
  BY <1>3, <1>5, <1>6 DEF QueueInv, Lower
<1>11. Found'
  <2> SUFFICES ASSUME NEW o \in Txns, node'[o].at # "heap"
               PROVE  /\ lk'[o] = "lazy" => InHand(o)'
                      /\ lk'[o] = "free" /\ tx'[o].armed =>
                           InHand(o)' \/ InReady(o)' \/ Handed(o)'
    BY DEF Found
  <2>1. CASE o = t
    BY <1>3, <1>5, <1>6, <2>1 DEF QueueInv, Found, InHand
  <2>2. CASE o # t
    BY <1>3, <1>4, <1>5, <1>6, <2>2 DEF QueueInv, Found, InHand, InReady, Handed, IsOf
  <2> QED BY <2>1, <2>2
<1>12. Matched' /\ Settled' /\ InOrder'
  <2>1. root'.seq = root.seq + 1 /\ node'[t].seq = root.seq + 1
    BY <1>1, <1>4, <1>5
  <2> QED BY <1>3, <1>4, <1>5, <2>1, NewSeq
<1> QED BY <1>7, <1>8, <1>9, <1>10, <1>11, <1>12 DEF QueueInv

\* The second section of an eager arm, with the lock of the shard.
LEMMA EagerStep ==
  ASSUME QueueInv, NEW t \in Txns, ScheduleEagerly(t)
  PROVE  QueueInv'
<1>0. QueueOK
  BY DEF QueueInv
<1>1. PICK n : n = root.seq + 1
  OBVIOUS
<1>2. n \in Nat /\ root.seq <= n /\ root.seq \in Nat
  BY <1>0, <1>1, Fields
<1>3. PICK w : w = node[t].desiredWake
  OBVIOUS
<1>4. PICK s : s = Shard[t]
  OBVIOUS
<1>5. PICK q : q = IF MustRequest(sh[s], w) THEN requestLocked(sh[s], w) ELSE sh[s]
  OBVIOUS
<1>6. w \in Nat /\ s \in Shards
  BY <1>0, <1>3, <1>4, Fields
<1>7. /\ lk[t] = "eager" /\ UNCHANGED <<now, tx, d>>
      /\ lk' = [lk EXCEPT ![t] = "free"]
      /\ root' = [root EXCEPT !.seq = n]
      /\ node' = [node EXCEPT ![t] = [node[t] EXCEPT !.at = "heap", !.wake = w, !.seq = n]]
      /\ sh' = [sh EXCEPT ![s] = q]
  BY <1>0, <1>1, <1>3, <1>4, <1>5, Types DEF ScheduleEagerly, pushExact
<1>8. /\ root' \in RootRec /\ root'.seq = n /\ root'.ready = root.ready
      /\ root'.again = root.again /\ root'.running = root.running
      /\ root'.entering = root.entering
  BY <1>0, <1>2, <1>7, Types DEF RootRec
<1>9. /\ node' \in [Txns -> NodeRec] /\ node'[t].seq = n
      /\ node'[t].at = "heap" /\ node'[t].wake = w /\ node'[t].desiredWake = w
      /\ \A o \in Txns : o # t => node'[o] = node[o]
  BY <1>0, <1>2, <1>3, <1>6, <1>7, Types DEF NodeRec
<1>10. lk' \in [Txns -> {"free", "lazy", "eager", "entry"}] /\ lk'[t] = "free"
       /\ \A o \in Txns : o # t => lk'[o] = lk[o]
  BY <1>0, <1>7, Types
<1>11. /\ q \in ShardRec /\ q.running = sh[s].running /\ q.fired = sh[s].fired
       /\ MustRequest(sh[s], w) => q.requested /\ q.on /\ q.due = w /\ q.reqAt = w
       /\ ~MustRequest(sh[s], w) => q = sh[s]
  <2>1. sh[s] \in ShardRec
    BY <1>0, <1>6, Types
  <2>2. CASE MustRequest(sh[s], w)
    BY <1>5, <1>6, <2>1, <2>2 DEF requestLocked, ShardRec
  <2>3. CASE ~MustRequest(sh[s], w)
    BY <1>5, <2>1, <2>3
  <2> QED BY <2>2, <2>3
<1>12. /\ sh' \in [Shards -> ShardRec] /\ sh'[s] = q
       /\ \A o \in Shards : o # s => sh'[o] = sh[o]
  BY <1>0, <1>6, <1>7, <1>11, Types
<1>13. QueueOK'
  <2>1. d.frontier <= n /\ \A o \in Txns : node'[o].seq <= n
    <3>1. d.frontier <= root.seq /\ \A o \in Txns : node[o].seq <= root.seq
      BY <1>0 DEF QueueOK
    <3>2. d.frontier \in Nat /\ \A o \in Txns : node[o].seq \in Nat
      BY <1>0, Fields
    <3>3. d.frontier <= n
      BY <1>2, <3>1, <3>2
    <3>4. ASSUME NEW o \in Txns PROVE node'[o].seq <= n
      <4>1. CASE o = t
        BY <1>2, <1>9, <4>1
      <4>2. CASE o # t
        <5>1. node'[o].seq = node[o].seq
          BY <1>9, <4>2
        <5> QED BY <1>2, <3>1, <3>2, <5>1
      <4> QED BY <4>1, <4>2
    <3> QED BY <3>3, <3>4
  <2>2. /\ now \in 0 .. MaxTime /\ tx \in [Txns -> TxRec] /\ d \in DrainRec
    BY <1>0, Types
  <2>3. UNCHANGED <<now, tx, d>>
    BY <1>7
  <2>4. d'.frontier <= root'.seq /\ \A o \in Txns : node'[o].seq <= root'.seq
    BY <1>8, <2>1, <2>3
  <2>5. root' \in RootRec
    BY <1>8
  <2>6. node' \in [Txns -> NodeRec]
    BY <1>9
  <2>7. lk' \in [Txns -> {"free", "lazy", "eager", "entry"}]
    BY <1>10
  <2>8. sh' \in [Shards -> ShardRec]
    BY <1>12
  <2> QED BY <2>2, <2>3, <2>4, <2>5, <2>6, <2>7, <2>8
          DEF QueueOK, TxRec, RootRec, NodeRec, ShardRec, DrainRec, Pcs
<1>14. Phased'
  <2>1. d.pc = "fire" => \E r \in Ready : d.hold = {r} /\ r.seq <= n
    <3> SUFFICES ASSUME d.pc = "fire" PROVE \E r \in Ready : d.hold = {r} /\ r.seq <= n
      OBVIOUS
    <3>1. PICK r \in Ready : d.hold = {r} /\ r.seq <= root.seq
      BY DEF QueueInv, Phased
    <3>2. r.seq <= n
      BY <1>2, <3>1 DEF Ready
    <3> QED BY <3>1, <3>2
  <2>2. \A o \in Shards : sh'[o].running = sh[o].running
    BY <1>11, <1>12
  <2>3. \A o \in Txns : node[o].at # "ready" => node'[o].at # "ready"
    BY <1>9
  <2> QED BY <1>7, <1>8, <2>1, <2>2, <2>3 DEF QueueInv, Phased
<1>15. Asked'
  <2>1. \A o \in Shards : sh'[o].fired = sh[o].fired
    BY <1>11, <1>12
  <2>2. \A o \in Shards : DrainerFor(o) => DrainerFor(o)'
    BY <1>7, <1>8, <2>1 DEF DrainerFor
  <2>3. sh[s].running => DrainerFor(s)
    BY <1>6 DEF QueueInv, Phased, DrainerFor
  <2> SUFFICES ASSUME NEW o \in Shards
               PROVE  /\ sh'[o].requested =>
                           sh'[o].fired > 0 \/ (sh'[o].on /\ sh'[o].due = sh'[o].reqAt)
                      /\ DrainerFor(o)' \/ \A u \in Txns : Shard[u] = o /\ node'[u].at = "heap" =>
                            sh'[o].requested /\ sh'[o].reqAt <= node'[u].wake
    BY DEF Asked
  <2>4. CASE o # s
    BY <1>4, <1>9, <1>12, <2>2, <2>4 DEF QueueInv, Asked
  <2>5. CASE o = s
    <3>1. sh'[o].requested =>
            sh'[o].fired > 0 \/ (sh'[o].on /\ sh'[o].due = sh'[o].reqAt)
      BY <1>11, <1>12, <2>5 DEF QueueInv, Asked
    <3>2. ASSUME ~DrainerFor(s), NEW u \in Txns, Shard[u] = s, node'[u].at = "heap"
          PROVE  q.requested /\ q.reqAt <= node'[u].wake
      <4>1. u # t => /\ sh[s].requested /\ sh[s].reqAt <= node[u].wake
                     /\ node'[u].wake = node[u].wake
        BY <1>6, <1>9, <3>2 DEF QueueInv, Asked
      <4>2. sh[s].reqAt \in Nat /\ node[u].wake \in Nat /\ ~sh[s].running
        BY <1>0, <1>6, <2>3, <3>2, Fields
      <4>3. CASE MustRequest(sh[s], w)
        BY <1>6, <1>9, <1>11, <4>1, <4>2, <4>3 DEF MustRequest
      <4>4. CASE ~MustRequest(sh[s], w)
        BY <1>6, <1>9, <1>11, <4>1, <4>2, <4>4 DEF MustRequest
      <4> QED BY <4>3, <4>4
    <3> QED BY <1>12, <2>2, <2>5, <3>1, <3>2
  <2> QED BY <2>4, <2>5
<1>16. Lower'
  BY <1>6, <1>9, <1>10 DEF QueueInv, Lower
<1>17. Found'
  <2> SUFFICES ASSUME NEW o \in Txns, node'[o].at # "heap"
               PROVE  /\ lk'[o] = "lazy" => InHand(o)'
                      /\ lk'[o] = "free" /\ tx'[o].armed =>
                           InHand(o)' \/ InReady(o)' \/ Handed(o)'
    BY DEF Found
  <2>1. o # t
    BY <1>9
  <2> QED BY <1>7, <1>8, <1>9, <1>10, <2>1 DEF QueueInv, Found, InHand, InReady, Handed, IsOf
<1>18. Matched' /\ Settled' /\ InOrder'
  <2>1. root'.seq = root.seq + 1 /\ node'[t].seq = root.seq + 1
    BY <1>1, <1>8, <1>9
  <2> QED BY <1>7, <1>8, <1>9, <2>1, NewSeq
<1> QED BY <1>13, <1>14, <1>15, <1>16, <1>17, <1>18 DEF QueueInv

\* A disarm, which leaves the queue alone.
LEMMA DisarmStep ==
  ASSUME QueueInv, NEW t \in Txns, disarm(t)
  PROVE  QueueInv'
<1>0. QueueOK
  BY DEF QueueInv
<1>1. UNCHANGED <<now, lk, node, sh, root, d>>
  BY DEF disarm
<1>2. /\ tx' \in [Txns -> TxRec] /\ ~tx'[t].armed
      /\ \A o \in Txns : tx'[o].arm = tx[o].arm /\ (o # t => tx'[o] = tx[o])
  BY <1>0, Types DEF disarm, TxRec
<1>3. QueueOK'
  BY <1>0, <1>1, <1>2 DEF QueueOK, TxRec
<1>4. Phased' /\ Asked' /\ Lower' /\ Settled'
  BY <1>1 DEF QueueInv, Phased, Asked, Lower, Settled, DrainerFor, Done
<1>5. \A o \in Txns : \A r : IsOf(r, o) => IsOf(r, o)'
  BY <1>1, <1>2 DEF IsOf
<1>6. Found'
  <2> SUFFICES ASSUME NEW o \in Txns, node[o].at # "heap"
               PROVE  /\ lk[o] = "lazy" => InHand(o)'
                      /\ lk[o] = "free" /\ tx'[o].armed =>
                           InHand(o)' \/ InReady(o)' \/ Handed(o)'
    BY <1>1 DEF Found
  <2>1. /\ lk[o] = "lazy" => InHand(o)
        /\ lk[o] = "free" /\ tx'[o].armed => InHand(o) \/ InReady(o) \/ Handed(o)
    BY <1>2 DEF QueueInv, Found
  <2> QED BY <1>1, <1>5, <2>1 DEF InHand, InReady, Handed
<1>7. Matched'
  BY <1>0, <1>1, <1>2, Fields DEF QueueInv, Matched, IsOf, Ready
<1>8. InOrder'
  BY <1>1, <1>2 DEF QueueInv, InOrder
<1> QED BY <1>3, <1>4, <1>6, <1>7, <1>8 DEF QueueInv

-----------------------------------------------------------------------------
(* The drainer at work on a node or an entry. *)

\* While the drainer is at work, every shard will be visited again.
LEMMA AtWork ==
  ASSUME QueueInv, root'.running, d'.pc \notin {"exit", "end"},
         \A s \in Shards : /\ sh'[s].requested = sh[s].requested
                           /\ sh'[s].fired = sh[s].fired
                           /\ sh'[s].on = sh[s].on
                           /\ sh'[s].due = sh[s].due
                           /\ sh'[s].reqAt = sh[s].reqAt
  PROVE  Asked'
<1>1. \A s \in Shards : DrainerFor(s)'
  BY DEF DrainerFor
<1> QED BY <1>1 DEF QueueInv, Asked

\* The head of a heap leaves it.
LEMMA PopStep ==
  ASSUME QueueInv, NEW t \in Txns, Pop(t)
  PROVE  QueueInv'
<1>0. QueueOK
  BY DEF QueueInv
<1>1. PICK q : q = [sh[d.s] EXCEPT !.running = TRUE]
  OBVIOUS
<1>2. /\ d.pc = "scan" /\ node[t].at = "heap" /\ UNCHANGED <<now, tx, lk, root>>
      /\ node' = [node EXCEPT ![t] = [node[t] EXCEPT !.at = "none"]]
      /\ sh' = [sh EXCEPT ![d.s] = q]
      /\ d' = [d EXCEPT !.pc = "popped", !.hold = {t}]
  BY <1>0, <1>1, Types DEF Pop, DueIn, heap
<1>3. /\ q \in ShardRec /\ q.requested = sh[d.s].requested /\ q.fired = sh[d.s].fired
      /\ q.on = sh[d.s].on /\ q.due = sh[d.s].due /\ q.reqAt = sh[d.s].reqAt
  <2>1. sh[d.s] \in ShardRec
    BY <1>0, Types, Fields
  <2> QED BY <1>1, <2>1 DEF ShardRec
<1>4. /\ sh' \in [Shards -> ShardRec] /\ sh'[d.s] = q
      /\ \A o \in Shards : o # d.s => sh'[o] = sh[o]
  BY <1>0, <1>2, <1>3, Types, Fields
<1>5. /\ node' \in [Txns -> NodeRec] /\ node'[t].at = "none"
      /\ \A o \in Txns : /\ node'[o].wake = node[o].wake /\ node'[o].seq = node[o].seq
                         /\ node'[o].desiredWake = node[o].desiredWake
                         /\ o # t => node'[o] = node[o]
  BY <1>0, <1>2, Types DEF NodeRec
<1>6. /\ d' \in DrainRec /\ d'.pc = "popped" /\ d'.hold = {t} /\ d'.now = d.now
      /\ d'.frontier = d.frontier /\ d'.s = d.s
  BY <1>0, <1>2, Types DEF DrainRec, Pcs
<1>7. QueueOK'
  BY <1>0, <1>2, <1>4, <1>5, <1>6 DEF QueueOK, NodeRec, ShardRec, DrainRec, Pcs
<1>8. root.running /\ d.hold = {}
  BY <1>2 DEF QueueInv, Phased
<1>9. Phased'
  BY <1>2, <1>5, <1>6, <1>8 DEF Phased
<1>10. Asked'
  <2>1. \A s \in Shards : /\ sh'[s].requested = sh[s].requested
                          /\ sh'[s].fired = sh[s].fired
                          /\ sh'[s].on = sh[s].on
                          /\ sh'[s].due = sh[s].due
                          /\ sh'[s].reqAt = sh[s].reqAt
    BY <1>3, <1>4
  <2> QED BY <1>2, <1>6, <1>8, <2>1, AtWork
<1>11. Lower'
  BY <1>2, <1>5 DEF QueueInv, Lower
<1>12. Found'
  <2> SUFFICES ASSUME NEW o \in Txns, node'[o].at # "heap"
               PROVE  /\ lk'[o] = "lazy" => InHand(o)'
                      /\ lk'[o] = "free" /\ tx'[o].armed =>
                           InHand(o)' \/ InReady(o)' \/ Handed(o)'
    BY DEF Found
  <2>1. CASE o = t
    BY <1>6, <2>1 DEF InHand
  <2>2. CASE o # t
    BY <1>2, <1>5, <2>2 DEF QueueInv, Found, InHand, InReady, Handed, IsOf
  <2> QED BY <2>1, <2>2
<1>13. Matched'
  <2> SUFFICES ASSUME NEW r \in root.ready
               PROVE  /\ r.seq <= root.seq
                      /\ r.arm <= tx[r.t].arm
                      /\ IsOf(r, r.t)' => node'[r.t].at = "ready"
    BY <1>2 DEF Matched
  <2>1. /\ r.t \in Txns /\ r.seq <= root.seq /\ r.arm <= tx[r.t].arm
        /\ IsOf(r, r.t) => node[r.t].at = "ready"
    BY <1>0, Fields DEF Ready, QueueInv, Matched
  <2>2. IsOf(r, r.t)' => IsOf(r, r.t)
    BY <1>2, <1>5, <2>1 DEF IsOf
  <2> QED BY <1>2, <1>5, <2>1, <2>2
<1>14. Settled'
  BY <1>2, <1>5, <1>6 DEF QueueInv, Settled, Done
<1>15. InOrder'
  BY <1>6 DEF InOrder
<1> QED BY <1>7, <1>9, <1>10, <1>11, <1>12, <1>13, <1>14, <1>15 DEF QueueInv

\* The drainer looks at the node in its hand: nothing, a repaired lower bound, or
\* an entry.
LEMMA CollectStep ==
  ASSUME QueueInv, NEW t \in Txns, Collect(t)
  PROVE  QueueInv'
<1>0. QueueOK
  BY DEF QueueInv
<1>1. /\ d.pc = "popped" /\ t \in d.hold /\ lk[t] = "free" /\ UNCHANGED <<now, tx, lk, sh>>
      /\ d' = [d EXCEPT !.pc = "scan", !.hold = {}]
  BY DEF Collect
<1>2. /\ d' \in DrainRec /\ d'.pc = "scan" /\ d'.hold = {} /\ d'.now = d.now
      /\ d'.frontier = d.frontier /\ d'.s = d.s
  BY <1>0, <1>1, Types DEF DrainRec, Pcs
<1>3. d.hold = {t} /\ node[t].at # "ready" /\ root.running
  BY <1>1 DEF QueueInv, Phased
<1>4. Phased' /\ Asked' /\ InOrder'
  <2>1. root'.running = root.running /\ root'.again = root.again
    BY <1>0, Types DEF Collect, RootRec
  <2>2. Phased'
    BY <1>1, <1>2, <1>3, <2>1 DEF QueueInv, Phased
  <2>3. Asked'
    BY <1>1, <1>2, <1>3, <2>1, AtWork
  <2> QED BY <1>2, <2>2, <2>3 DEF InOrder
<1>5. \A o \in Txns : o # t /\ node[o].at # "heap" =>
        /\ lk[o] # "lazy"
        /\ lk[o] = "free" /\ tx[o].armed => InReady(o)
  BY <1>1, <1>3 DEF QueueInv, Found, InHand, Handed
<1>6. CASE UNCHANGED <<node, root>> /\ (node[t].at # "none" \/ ~tx[t].armed)
  <2>1. QueueOK'
    BY <1>0, <1>1, <1>2, <1>6 DEF QueueOK, DrainRec, Pcs
  <2>2. Lower' /\ Matched' /\ Settled'
    BY <1>1, <1>2, <1>6 DEF QueueInv, Lower, Matched, Settled, Done, IsOf
  <2>3. Found'
    <3> SUFFICES ASSUME NEW o \in Txns, node[o].at # "heap"
                 PROVE  /\ lk[o] = "lazy" => InHand(o)'
                        /\ lk[o] = "free" /\ tx[o].armed =>
                             InHand(o)' \/ InReady(o)' \/ Handed(o)'
      BY <1>1, <1>6 DEF Found
    <3>1. CASE o = t
      BY <1>0, <1>1, <1>3, <1>6, <3>1, Fields
    <3>2. CASE o # t
      BY <1>1, <1>5, <1>6, <3>2 DEF InReady, IsOf
    <3> QED BY <3>1, <3>2
  <2> QED BY <1>4, <2>1, <2>2, <2>3 DEF QueueInv
<1>7. CASE /\ node[t].at = "none" /\ node[t].desiredWake > d.now /\ UNCHANGED root
           /\ node' = [node EXCEPT ![t] = pushExact(node[t], node[t].desiredWake)]
  <2>1. node' = [node EXCEPT ![t] =
                   [node[t] EXCEPT !.at = "heap", !.wake = node[t].desiredWake]]
    BY <1>7 DEF pushExact
  <2>2. /\ node' \in [Txns -> NodeRec] /\ node'[t].at = "heap"
        /\ node'[t].wake = node[t].desiredWake
        /\ \A o \in Txns : /\ node'[o].seq = node[o].seq
                           /\ node'[o].desiredWake = node[o].desiredWake
                           /\ o # t => node'[o] = node[o]
    BY <1>0, <2>1, Types DEF NodeRec
  <2>3. QueueOK'
    BY <1>0, <1>1, <1>2, <1>7, <2>2 DEF QueueOK, DrainRec, Pcs, NodeRec
  <2>4. Lower'
    <3>1. node'[t].wake <= node'[t].desiredWake
      BY <1>0, <2>2, Fields
    <3> QED BY <1>1, <2>2, <3>1 DEF QueueInv, Lower
  <2>5. Settled'
    BY <1>0, <1>1, <1>2, <1>7, <2>2, Fields DEF QueueInv, Settled, Done
  <2>6. Found'
    <3> SUFFICES ASSUME NEW o \in Txns, o # t, node[o].at # "heap"
                 PROVE  /\ lk[o] # "lazy"
                        /\ lk[o] = "free" /\ tx[o].armed => InReady(o)'
      BY <1>1, <2>2 DEF Found
    <3> QED BY <1>1, <1>5, <1>7, <2>2 DEF InReady, IsOf
  <2>7. Matched'
    <3> SUFFICES ASSUME NEW r \in root.ready
                 PROVE  /\ r.seq <= root.seq
                        /\ r.arm <= tx[r.t].arm
                        /\ IsOf(r, r.t)' => node'[r.t].at = "ready"
      BY <1>1, <1>7 DEF Matched
    <3>1. /\ r.t \in Txns /\ r.seq <= root.seq /\ r.arm <= tx[r.t].arm
          /\ IsOf(r, r.t) => node[r.t].at = "ready"
      BY <1>0, Fields DEF Ready, QueueInv, Matched
    <3>2. IsOf(r, r.t)' => IsOf(r, r.t)
      BY <1>1, <2>2, <3>1 DEF IsOf
    <3> QED BY <1>7, <2>2, <3>1, <3>2
  <2> QED BY <1>4, <2>3, <2>4, <2>5, <2>6, <2>7 DEF QueueInv
<1>8. ASSUME NEW e, e = [t |-> t, arm |-> tx[t].arm, seq |-> node[t].seq],
             node' = [node EXCEPT ![t].at = "ready"],
             root' = [root EXCEPT !.ready = @ \cup {e}]
      PROVE  QueueInv'
  <2>1. node' = [node EXCEPT ![t] = [node[t] EXCEPT !.at = "ready"]]
    BY <1>0, <1>8, Types
  <2>2. /\ node' \in [Txns -> NodeRec] /\ node'[t].at = "ready"
        /\ \A o \in Txns : /\ node'[o].seq = node[o].seq
                           /\ o # t => node'[o] = node[o]
    BY <1>0, <2>1, Types DEF NodeRec
  <2>3. e \in Ready /\ e.t = t /\ e.arm = tx[t].arm /\ e.seq = node[t].seq
    BY <1>0, <1>8, Fields DEF Ready
  <2>4. PICK z : z = root.ready \cup {e}
    OBVIOUS
  <2>5. /\ root' \in RootRec /\ root'.seq = root.seq /\ root'.ready = z
        /\ root'.again = root.again /\ root'.running = root.running
        /\ root'.entering = root.entering
    <3>1. z \in SUBSET Ready
      BY <1>0, <2>3, <2>4, Fields
    <3>2. root' = [root EXCEPT !.ready = z]
      BY <1>8, <2>4
    <3> QED BY <1>0, <3>1, <3>2, Types DEF RootRec
  <2>6. QueueOK'
    BY <1>0, <1>1, <1>2, <2>2, <2>5 DEF QueueOK, DrainRec, Pcs, NodeRec, RootRec
  <2>7. Lower'
    BY <1>1, <2>2 DEF QueueInv, Lower
  <2>8. Settled'
    BY <1>1, <1>2, <2>2 DEF QueueInv, Settled, Done
  <2>9. Found'
    <3> SUFFICES ASSUME NEW o \in Txns, node'[o].at # "heap"
                 PROVE  /\ lk[o] # "lazy"
                        /\ lk[o] = "free" /\ tx[o].armed => InReady(o)'
      BY <1>1 DEF Found
    <3>1. CASE o = t
      BY <1>1, <2>2, <2>3, <2>4, <2>5, <3>1 DEF InReady, IsOf
    <3>2. CASE o # t
      BY <1>1, <1>5, <2>2, <2>4, <2>5, <3>2 DEF InReady, IsOf
    <3> QED BY <3>1, <3>2
  <2>10. Matched'
    <3> SUFFICES ASSUME NEW r \in z
                 PROVE  /\ r.seq <= root.seq
                        /\ r.arm <= tx[r.t].arm
                        /\ IsOf(r, r.t)' => node'[r.t].at = "ready"
      BY <1>1, <2>5 DEF Matched
    <3>1. CASE r = e
      BY <1>0, <2>2, <2>3, <3>1, Types, Fields
    <3>2. CASE r \in root.ready
      <4>1. /\ r.t \in Txns /\ r.seq <= root.seq /\ r.arm <= tx[r.t].arm
            /\ IsOf(r, r.t) => node[r.t].at = "ready"
        BY <1>0, <3>2, Fields DEF Ready, QueueInv, Matched
      <4>2. IsOf(r, r.t)' => IsOf(r, r.t)
        BY <1>1, <2>2, <4>1 DEF IsOf
      <4> QED BY <2>2, <4>1, <4>2
    <3> QED BY <2>4, <3>1, <3>2
  <2> QED BY <1>4, <2>6, <2>7, <2>8, <2>9, <2>10 DEF QueueInv
<1> QED
  <2>1. CASE node[t].at # "none" \/ ~tx[t].armed
    BY <1>6, <2>1 DEF Collect
  <2>2. CASE ~(node[t].at # "none" \/ ~tx[t].armed) /\ node[t].desiredWake > d.now
    <3>1. /\ node' = [node EXCEPT ![t] = pushExact(node[t], node[t].desiredWake)]
          /\ UNCHANGED root
      BY <1>0, <2>2, Types DEF Collect
    <3> QED BY <1>7, <2>2, <3>1
  <2>3. CASE ~(node[t].at # "none" \/ ~tx[t].armed) /\ ~(node[t].desiredWake > d.now)
    BY <1>8, <2>3 DEF Collect
  <2> QED BY <2>1, <2>2, <2>3

\* Two entries for one arm of one transaction are one entry.
LEMMA OneEntry ==
  ASSUME NEW t \in Txns, NEW r \in Ready, NEW q \in Ready, IsOf(r, t), IsOf(q, t)
  PROVE  r = q
BY DEF Ready, IsOf

\* One entry is taken from the ready ones: what the step does to its node m and
\* to the drainer's hand.
LEMMA DeliverStep ==
  ASSUME QueueInv, NEW r \in root.ready, NEW m \in NodeRec, NEW k \in Nat,
         NEW p \in {"deliver", "fire"}, NEW h \in SUBSET Ready,
         d.pc = "deliver", lk[r.t] = "free",
         UNCHANGED <<now, tx, lk, sh>>,
         root' = [root EXCEPT !.ready = @ \ {r}, !.seq = k],
         node' = [node EXCEPT ![r.t] = m],
         d' = [d EXCEPT !.pc = p, !.hold = h],
         root.seq <= k, m.seq <= k,
         p = "fire" => h = {r}, p = "deliver" => h = {},
         m.at = "heap" => m.wake <= m.desiredWake,
         m.at = "heap" /\ m.seq <= d.frontier => d.now < m.wake,
         m.at # "heap" =>
           /\ m.seq = node[r.t].seq /\ node[r.t].at # "heap"
           /\ \/ p = "fire" /\ IsOf(r, r.t)
              \/ ~IsOf(r, r.t)
              \/ ~tx[r.t].armed,
         m.at # "ready" => m.seq > root.seq \/ IsOf(r, r.t) \/ node[r.t].at # "ready",
         m.seq = node[r.t].seq \/ m.seq > root.seq,
         InOrder'
  PROVE  QueueInv'
<1>0. QueueOK /\ Matched
  BY DEF QueueInv
<1>1. /\ r \in Ready /\ r.t \in Txns /\ r.seq \in Nat /\ r.arm \in Nat
      /\ r.seq <= root.seq
  BY <1>0, Fields DEF Ready, Matched
<1>2. PICK z : z = root.ready \ {r}
  OBVIOUS
<1>3. /\ root' \in RootRec /\ root'.seq = k /\ root'.ready = z
      /\ root'.again = root.again /\ root'.running = root.running
      /\ root'.entering = root.entering
  <2>1. z \in SUBSET Ready
    BY <1>0, <1>2, Fields
  <2>2. root' = [root EXCEPT !.ready = z, !.seq = k]
    BY <1>2
  <2> QED BY <1>0, <2>1, <2>2, Types DEF RootRec
<1>4. /\ node' \in [Txns -> NodeRec] /\ node'[r.t] = m
      /\ \A o \in Txns : o # r.t => node'[o] = node[o]
  BY <1>0, <1>1, Types
<1>5. /\ d' \in DrainRec /\ d'.pc = p /\ d'.hold = h /\ d'.now = d.now
      /\ d'.frontier = d.frontier /\ d'.s = d.s
  BY <1>0, Types DEF DrainRec, Pcs
<1>6. QueueOK'
  <2>1. d'.frontier <= root'.seq
    <3>1. d.frontier <= root.seq /\ d.frontier \in Nat /\ root.seq \in Nat
      BY <1>0, Types, Fields
    <3> QED BY <1>3, <1>5, <3>1
  <2>2. \A o \in Txns : node'[o].seq <= root'.seq
    <3>1. \A o \in Txns : node[o].seq <= root.seq /\ node[o].seq \in Nat
      BY <1>0, Types, Fields
    <3>2. root.seq \in Nat
      BY <1>0, Fields
    <3> QED BY <1>3, <1>4, <3>1, <3>2
  <2>3. node' \in [Txns -> NodeRec]
    BY <1>4
  <2> QED BY <1>0, <1>3, <1>5, <2>1, <2>2, <2>3 DEF QueueOK, DrainRec, Pcs, NodeRec, RootRec
<1>7. root.running /\ d.hold = {}
  BY DEF QueueInv, Phased
<1>8. Phased'
  <2>1. p = "fire" => \E e \in Ready : h = {e} /\ e.seq <= k
    <3>1. r.seq <= k
      BY <1>0, <1>1, Fields
    <3> QED BY <1>1, <3>1
  <2> QED BY <1>3, <1>5, <1>7, <2>1 DEF QueueInv, Phased
<1>9. Asked'
  BY <1>3, <1>5, <1>7, AtWork
<1>10. Lower'
  BY <1>4 DEF QueueInv, Lower
<1>11. \A o \in Txns : node[o].at # "heap" =>
         /\ lk[o] # "lazy"
         /\ lk[o] = "free" /\ tx[o].armed => InReady(o)
  BY <1>7 DEF QueueInv, Found, InHand, Handed
<1>12. Found'
  <2> SUFFICES ASSUME NEW o \in Txns, node'[o].at # "heap"
               PROVE  /\ lk[o] # "lazy"
                      /\ lk[o] = "free" /\ tx[o].armed => InReady(o)' \/ Handed(o)'
    BY DEF Found
  <2>1. CASE o # r.t
    <3>1. InReady(o) => InReady(o)'
      BY <1>2, <1>3, <1>4, <2>1 DEF InReady, IsOf
    <3> QED BY <1>4, <1>11, <2>1, <3>1
  <2>2. CASE o = r.t /\ ~IsOf(r, r.t) /\ node[r.t].at # "heap"
    <3>1. \A e : IsOf(e, o) => e # r /\ IsOf(e, o)'
      BY <1>4, <2>2 DEF IsOf
    <3>2. InReady(o) => InReady(o)'
      BY <1>2, <1>3, <3>1 DEF InReady
    <3> QED BY <1>11, <2>2, <3>2
  <2>3. CASE o = r.t /\ p = "fire" /\ IsOf(r, r.t)
    <3>1. IsOf(r, o)'
      BY <1>4, <2>3 DEF IsOf
    <3> QED BY <1>5, <2>3, <3>1 DEF Handed
  <2>4. CASE o = r.t /\ ~tx[r.t].armed /\ node[r.t].at # "heap"
    BY <1>11, <2>4
  <2> QED BY <1>4, <2>1, <2>2, <2>3, <2>4
<1>13. Matched'
  <2> SUFFICES ASSUME NEW e \in z
               PROVE  /\ e.seq <= k
                      /\ e.arm <= tx[e.t].arm
                      /\ IsOf(e, e.t)' => node'[e.t].at = "ready"
    BY <1>3 DEF Matched
  <2>1. /\ e \in Ready /\ e # r /\ e.t \in Txns /\ e.seq \in Nat /\ e.seq <= root.seq
        /\ e.arm <= tx[e.t].arm
        /\ IsOf(e, e.t) => node[e.t].at = "ready"
    BY <1>0, <1>2, Fields DEF Ready, Matched
  <2>2. e.seq <= k
    BY <1>0, <2>1, Fields
  <2>3. CASE e.t # r.t
    BY <1>4, <2>1, <2>2, <2>3 DEF IsOf
  <2>4. CASE e.t = r.t
    <3> SUFFICES ASSUME IsOf(e, e.t)', m.at # "ready" PROVE FALSE
      BY <1>4, <2>1, <2>2, <2>4
    <3>1. e.seq = m.seq
      BY <1>4, <2>4 DEF IsOf
    <3>2. m.seq = node[r.t].seq
      BY <1>0, <2>1, <3>1, Fields
    <3>3. IsOf(e, r.t)
      BY <2>4, <3>1, <3>2 DEF IsOf
    <3>4. ~IsOf(r, r.t)
      BY <1>1, <2>1, <3>3, OneEntry
    <3> QED BY <1>0, <2>1, <2>4, <3>1, <3>3, <3>4, Fields
  <2> QED BY <2>3, <2>4
<1>14. Settled'
  <2> SUFFICES ASSUME NEW o \in Txns, node'[o].at = "heap", node'[o].seq <= d.frontier
               PROVE  d.now < node'[o].wake
    BY <1>5 DEF Settled
  <2>1. CASE o = r.t
    BY <1>4, <2>1
  <2>2. CASE o # r.t
    BY <1>4, <2>2 DEF QueueInv, Settled, Done
  <2> QED BY <2>1, <2>2
<1> QED BY <1>6, <1>8, <1>9, <1>10, <1>12, <1>13, <1>14 DEF QueueInv

\* One entry of the cohort: outdated, too new, too early, or handed over.
LEMMA DeliverReadyStep ==
  ASSUME QueueInv, NEW r, deliverReady(r)
  PROVE  QueueInv'
<1>0. QueueOK /\ Matched
  BY DEF QueueInv
<1>1. /\ d.pc = "deliver" /\ lk[r.t] = "free" /\ r \in root.ready
      /\ \A q \in root.ready : r.seq <= q.seq
      /\ UNCHANGED <<now, tx, lk, sh>>
  BY DEF deliverReady, First
<1>2. /\ r \in Ready /\ r.t \in Txns /\ r.seq \in Nat /\ r.arm \in Nat
      /\ r.seq <= root.seq /\ root.seq \in Nat
      /\ IsOf(r, r.t) => node[r.t].at = "ready"
  BY <1>0, <1>1, Fields DEF Ready, Matched
<1>3. PICK x : x = node[r.t]
  OBVIOUS
<1>4. /\ x \in NodeRec /\ x.seq <= root.seq /\ x.deadline \in Nat /\ x.desiredWake \in Nat
      /\ x.seq \in Nat
  <2>1. x.seq <= root.seq
    BY <1>0, <1>2, <1>3, Types
  <2>2. x \in NodeRec
    BY <1>0, <1>2, <1>3, Types
  <2> QED BY <2>1, <2>2 DEF NodeRec
<1>5. /\ d.frontier <= root.seq /\ d.frontier \in Nat /\ d.now \in Nat
      /\ TimeoutSlack \in Nat /\ TimeoutInterval \in Nat \ {0}
  BY <1>0, Types, Fields
<1>6. PICK n : n = [x EXCEPT !.at = "none"]
  OBVIOUS
<1>7. /\ n \in NodeRec /\ n.at = "none" /\ n.seq = x.seq /\ n.wake = x.wake
      /\ n.deadline = x.deadline /\ n.desiredWake = x.desiredWake
  BY <1>4, <1>6 DEF NodeRec
<1>8. PICK again : again = Min({n.deadline + TimeoutSlack, d.now + TimeoutInterval})
  OBVIOUS
<1>9. again \in Nat
  <2>1. n.deadline + TimeoutSlack \in Nat /\ d.now + TimeoutInterval \in Nat
    BY <1>4, <1>5, <1>7
  <2> QED BY <1>8, <2>1, MinOfTwo
<1>10. Current(r) => IsOf(r, r.t) /\ x.at = "ready" /\ x.seq = r.seq
  BY <1>3 DEF Current, IsOf
<1>11. ASSUME ~Current(r),
              root' = [root EXCEPT !.ready = @ \ {r}, !.seq = root.seq],
              node' = [node EXCEPT ![r.t] = x],
              d' = [d EXCEPT !.pc = "deliver", !.hold = {}]
       PROVE  QueueInv'
  <2>1. InOrder'
    BY <1>0, <1>11, Types DEF InOrder, DrainRec
  <2>2. x.at = "heap" => x.wake <= x.desiredWake
    BY <1>1, <1>2, <1>3 DEF QueueInv, Lower
  <2>3. x.at = "heap" /\ x.seq <= d.frontier => d.now < x.wake
    BY <1>1, <1>2, <1>3 DEF QueueInv, Settled, Done
  <2>4. x.at # "heap" => /\ x.seq = node[r.t].seq /\ node[r.t].at # "heap"
                         /\ ~IsOf(r, r.t) \/ ~tx[r.t].armed
    BY <1>2, <1>3, <1>11 DEF IsOf, Current
  <2>5. {} \in SUBSET Ready /\ root.seq <= root.seq
    BY <1>2
  <2> QED BY <1>1, <1>2, <1>3, <1>4, <1>11, <2>1, <2>2, <2>3, <2>4, <2>5, DeliverStep
<1>12. ASSUME Current(r), Late(r), NEW m,
              m = [n EXCEPT !.at = "heap", !.wake = n.desiredWake],
              root' = [root EXCEPT !.ready = @ \ {r}, !.seq = root.seq],
              node' = [node EXCEPT ![r.t] = m],
              d' = [d EXCEPT !.pc = "deliver", !.hold = {}]
       PROVE  QueueInv'
  <2>1. InOrder'
    BY <1>0, <1>12, Types DEF InOrder, DrainRec
  <2>2. /\ m \in NodeRec /\ m.at = "heap" /\ m.wake = x.desiredWake
        /\ m.desiredWake = x.desiredWake /\ m.seq = x.seq
    BY <1>4, <1>7, <1>12 DEF NodeRec
  <2>3. m.wake <= m.desiredWake /\ ~(m.seq <= d.frontier) /\ m.seq <= root.seq
    BY <1>2, <1>4, <1>5, <1>10, <1>12, <2>2 DEF Late
  <2>4. {} \in SUBSET Ready /\ root.seq <= root.seq /\ m.seq = node[r.t].seq
    BY <1>2, <1>3, <2>2
  <2> QED BY <1>1, <1>2, <1>10, <1>12, <2>1, <2>2, <2>3, <2>4, DeliverStep
<1>13. ASSUME Current(r), NEW m, NEW k, k = root.seq + 1,
              m = [n EXCEPT !.at = "heap", !.wake = again, !.desiredWake = again, !.seq = k],
              root' = [root EXCEPT !.ready = @ \ {r}, !.seq = k],
              node' = [node EXCEPT ![r.t] = m],
              d' = [d EXCEPT !.pc = "deliver", !.hold = {}]
       PROVE  QueueInv'
  <2>1. InOrder'
    BY <1>0, <1>13, Types DEF InOrder, DrainRec
  <2>2. k \in Nat /\ k > root.seq /\ root.seq <= k
    BY <1>2, <1>13
  <2>3. /\ m \in NodeRec /\ m.at = "heap" /\ m.wake = again
        /\ m.desiredWake = again /\ m.seq = k
    BY <1>7, <1>9, <1>13, <2>2 DEF NodeRec
  <2>4. m.wake <= m.desiredWake /\ ~(m.seq <= d.frontier) /\ m.seq <= k /\ m.seq > root.seq
    BY <1>5, <1>9, <2>2, <2>3, <1>2
  <2>5. {} \in SUBSET Ready
    OBVIOUS
  <2> QED BY <1>1, <1>2, <1>13, <2>1, <2>2, <2>3, <2>4, <2>5, DeliverStep
<1>14. ASSUME Current(r), ~Late(r),
              root' = [root EXCEPT !.ready = @ \ {r}, !.seq = root.seq],
              node' = [node EXCEPT ![r.t] = n],
              d' = [d EXCEPT !.pc = "fire", !.hold = {r}]
       PROVE  QueueInv'
  <2>1. d'.pc = "fire" /\ d'.hold = {r} /\ d'.now = d.now
    BY <1>0, <1>14, Types DEF DrainRec
  <2>2. InOrder'
    <3> SUFFICES ASSUME NEW o \in Txns \ {r.t}, tx[o].armed, lk[o] = "free",
                        node'[o].seq < r.seq, node'[o].desiredWake <= d.now
                 PROVE  FALSE
      BY <1>1, <2>1 DEF InOrder
    <3>1. node'[o] = node[o]
      BY <1>0, <1>14, Types
    <3>2. /\ node[o].wake \in Nat /\ node[o].desiredWake \in Nat /\ node[o].seq \in Nat
      BY <1>0, Fields
    <3>3. CASE node[o].at = "heap"
      <4>1. node[o].wake <= node[o].desiredWake
        BY <3>3 DEF QueueInv, Lower
      <4>2. node[o].seq <= d.frontier
        BY <1>2, <1>5, <1>14, <3>1, <3>2 DEF Late
      <4>3. d.now < node[o].wake
        BY <1>1, <3>3, <4>2 DEF QueueInv, Settled, Done
      <4> QED BY <1>5, <3>1, <3>2, <4>1, <4>3
    <3>4. CASE node[o].at # "heap"
      <4>1. InReady(o)
        BY <1>1, <3>4 DEF QueueInv, Found, InHand, Handed
      <4>2. r.seq <= node[o].seq
        BY <1>1, <4>1 DEF InReady, IsOf
      <4> QED BY <1>2, <3>1, <3>2, <4>2
    <3> QED BY <3>3, <3>4
  <2>3. {r} \in SUBSET Ready /\ root.seq <= root.seq /\ n.seq <= root.seq
    BY <1>2, <1>4, <1>7
  <2>4. n.seq = node[r.t].seq /\ node[r.t].at # "heap" /\ IsOf(r, r.t)
    BY <1>3, <1>7, <1>10, <1>14
  <2> QED BY <1>1, <1>2, <1>7, <1>14, <2>2, <2>3, <2>4, DeliverStep
<1> QED
  <2>1. CASE ~Current(r)
    <3>1. /\ root' = [root EXCEPT !.ready = @ \ {r}, !.seq = root.seq]
          /\ node' = [node EXCEPT ![r.t] = x]
          /\ d' = [d EXCEPT !.pc = "deliver", !.hold = {}]
      BY <1>3, <2>1 DEF deliverReady
    <3> QED BY <1>11, <2>1, <3>1
  <2>2. CASE Current(r) /\ Late(r)
    <3>1. /\ root' = [root EXCEPT !.ready = @ \ {r}, !.seq = root.seq]
          /\ node' = [node EXCEPT ![r.t] = [n EXCEPT !.at = "heap", !.wake = n.desiredWake]]
          /\ d' = [d EXCEPT !.pc = "deliver", !.hold = {}]
      BY <1>3, <1>6, <2>2 DEF deliverReady, pushExact
    <3> QED BY <1>12, <2>2, <3>1
  <2>3. CASE Current(r) /\ ~Late(r) /\ Early(r.t)
    <3>1. /\ root' = [root EXCEPT !.ready = @ \ {r}, !.seq = root.seq + 1]
          /\ node' = [node EXCEPT ![r.t] =
                        [n EXCEPT !.at = "heap", !.wake = again, !.desiredWake = again,
                                  !.seq = root.seq + 1]]
          /\ d' = [d EXCEPT !.pc = "deliver", !.hold = {}]
      BY <1>3, <1>6, <1>8, <2>3 DEF deliverReady, pushExact
    <3> QED BY <1>13, <2>3, <3>1
  <2>4. CASE Current(r) /\ ~Late(r) /\ ~Early(r.t)
    <3>1. /\ root' = [root EXCEPT !.ready = @ \ {r}, !.seq = root.seq]
          /\ node' = [node EXCEPT ![r.t] = n]
          /\ d' = [d EXCEPT !.pc = "fire", !.hold = {r}]
      BY <1>3, <1>6, <2>4 DEF deliverReady
    <3> QED BY <1>14, <2>4, <3>1
  <2> QED BY <2>1, <2>2, <2>3, <2>4

\* The timeout in the drainer's hand is fired, unless its arm is no longer that one.
LEMMA FireTimeoutStep ==
  ASSUME QueueInv, NEW r, fireTimeout(r)
  PROVE  QueueInv'
<1>0. QueueOK
  BY DEF QueueInv
<1>1. /\ d.pc = "fire" /\ r \in d.hold /\ UNCHANGED <<now, lk, node, sh, root>>
      /\ d' = [d EXCEPT !.pc = "deliver", !.hold = {}]
  BY DEF fireTimeout
<1>2. d.hold = {r} /\ r \in Ready /\ r.t \in Txns /\ root.running
  BY <1>1 DEF QueueInv, Phased, Ready
<1>3. PICK a : a = (tx[r.t].armed /\ tx[r.t].arm # r.arm)
  OBVIOUS
<1>4. a \in BOOLEAN
  BY <1>3
<1>5. tx' = [tx EXCEPT ![r.t] = [tx[r.t] EXCEPT !.armed = a]]
  BY <1>0, <1>3, Types DEF fireTimeout
<1>6. /\ tx' \in [Txns -> TxRec] /\ tx'[r.t].armed = a
      /\ \A o \in Txns : tx'[o].arm = tx[o].arm /\ (o # r.t => tx'[o] = tx[o])
  BY <1>0, <1>2, <1>4, <1>5, Types DEF TxRec
<1>7. /\ d' \in DrainRec /\ d'.pc = "deliver" /\ d'.hold = {} /\ d'.now = d.now
      /\ d'.frontier = d.frontier /\ d'.s = d.s
  BY <1>0, <1>1, Types DEF DrainRec, Pcs
<1>8. QueueOK'
  BY <1>0, <1>1, <1>6, <1>7 DEF QueueOK, DrainRec, Pcs, TxRec
<1>9. Phased'
  BY <1>1, <1>2, <1>7 DEF QueueInv, Phased
<1>10. Asked'
  BY <1>1, <1>2, <1>7, AtWork
<1>11. Lower' /\ Settled' /\ InOrder'
  BY <1>1, <1>7 DEF QueueInv, Lower, Settled, Done, InOrder
<1>12. Matched'
  BY <1>0, <1>1, <1>6, Fields DEF QueueInv, Matched, IsOf, Ready
<1>13. Found'
  <2> SUFFICES ASSUME NEW o \in Txns, node[o].at # "heap"
               PROVE  /\ lk[o] # "lazy"
                      /\ lk[o] = "free" /\ tx'[o].armed => InReady(o)'
    BY <1>1 DEF Found
  <2>1. /\ lk[o] # "lazy"
        /\ lk[o] = "free" /\ tx[o].armed => InReady(o) \/ Handed(o)
    BY <1>1 DEF QueueInv, Found, InHand
  <2>2. tx'[o].armed => tx[o].armed /\ ~Handed(o)
    <3>1. CASE o = r.t
      BY <1>2, <1>3, <1>6, <3>1 DEF Handed, IsOf
    <3>2. CASE o # r.t
      BY <1>2, <1>6, <3>2 DEF Handed, IsOf
    <3> QED BY <3>1, <3>2
  <2>3. InReady(o) => InReady(o)'
    BY <1>1, <1>6 DEF InReady, IsOf
  <2> QED BY <2>1, <2>2, <2>3
<1> QED BY <1>8, <1>9, <1>10, <1>11, <1>12, <1>13 DEF QueueInv

\* Who is being fired was due at the time of the cohort, unless armed again since.
Fired ==
  /\ d.now <= now
  /\ d.pc = "fire" => \A r \in d.hold :
       /\ r.arm <= tx[r.t].arm
       /\ r.arm = tx[r.t].arm => node[r.t].deadline <= d.now

\* Every step of the queue keeps the invariant.
LEMMA QueueStep ==
  ASSUME QueueInv, Queued \/ Tick
  PROVE  QueueInv'
<1>1. ASSUME NEW t \in Txns,
             (\E at \in 1 .. MaxTime : schedule(t, at)) \/ Scheduled(t) \/ disarm(t)
      PROVE  QueueInv'
  BY <1>1, ScheduleStep, LazyStep, EagerStep, DisarmStep DEF Scheduled
<1>2. CASE Tick \/ EnterRoot \/ \E s \in Shards : TimerFires(s) \/ fire(s)
  BY <1>2, CallbackStep
<1>3. CASE Drain
  <2>1. CASE ReadNow \/ ReadFrontier \/ ShardDone \/ CohortDone
    BY <2>1, RoundStep
  <2>2. CASE LeaveShard \/ LeaveRoot
    BY <2>2, LeaveStep
  <2>3. CASE \E t \in Txns : Pop(t) \/ Collect(t)
    BY <2>3, PopStep, CollectStep
  <2>4. CASE \E r \in root.ready \cup d.hold : deliverReady(r) \/ fireTimeout(r)
    BY <2>4, DeliverReadyStep, FireTimeoutStep
  <2> QED BY <1>3, <2>1, <2>2, <2>3, <2>4 DEF Drain
<1> QED BY <1>1, <1>2, <1>3 DEF Queued

\* An arm of t, on either path.
LEMMA ArmFacts ==
  ASSUME QueueOK, NEW t \in Txns, NEW dl \in 1 .. MaxTime, Arm(t, dl)
  PROVE  /\ lk[t] = "free" /\ dl \in Nat /\ dl > now
         /\ tx' \in [Txns -> TxRec]
         /\ tx'[t].armed = TRUE /\ tx'[t].arm = tx[t].arm + 1
         /\ \A o \in Txns : o # t => tx'[o] = tx[o]
<1>1. dl \in Nat
  BY Fields
<1>2. tx' = [tx EXCEPT ![t] = [armed |-> TRUE, arm |-> tx[t].arm + 1]]
  BY Types DEF Arm, TxRec
<1>3. tx \in [Txns -> TxRec] /\ tx[t].arm \in Nat
  BY Types, Fields
<1> QED BY <1>1, <1>2, <1>3 DEF Arm, TxRec

\* Every step of the queue leaves nobody to be fired before the deadline.
LEMMA FiredStep ==
  ASSUME QueueInv, Fired, Queued \/ Tick
  PROVE  Fired'
<1>0. QueueOK
  BY DEF QueueInv
<1>a. \A r \in d.hold : d.pc = "fire" => r.t \in Txns /\ r.arm \in Nat
  BY DEF QueueInv, Phased, Ready
<1>1. ASSUME NEW t \in Txns, NEW at \in 1 .. MaxTime, schedule(t, at)
      PROVE  Fired'
  <2>1. /\ tx'[t].arm = tx[t].arm + 1
        /\ \A o \in Txns : o # t => tx'[o] = tx[o]
    BY <1>0, <1>1, ArmFacts DEF schedule
  <2>2. UNCHANGED <<now, d>> /\ \A o \in Txns : o # t => node'[o] = node[o]
    BY <1>0, <1>1, Types DEF schedule
  <2>3. ASSUME d.pc = "fire", NEW r \in d.hold
        PROVE  /\ r.arm <= tx'[r.t].arm
               /\ r.arm = tx'[r.t].arm => node'[r.t].deadline <= d.now
    <3>1. r.t \in Txns /\ r.arm \in Nat /\ tx[t].arm \in Nat
      BY <1>0, <1>a, <2>3, Fields
    <3>2. r.arm <= tx[r.t].arm /\ (r.arm = tx[r.t].arm => node[r.t].deadline <= d.now)
      BY <2>3 DEF Fired
    <3> QED BY <2>1, <2>2, <3>1, <3>2
  <2> QED BY <2>2, <2>3 DEF Fired
<1>2. ASSUME NEW t \in Txns, Scheduled(t)
      PROVE  Fired'
  <2>1. \A o \in Txns : node'[o].deadline = node[o].deadline
    <3>1. node \in [Txns -> NodeRec]
      BY <1>0, Types
    <3>2. CASE ScheduleLazily(t)
      BY <3>1, <3>2 DEF ScheduleLazily, NodeRec
    <3>3. CASE ScheduleEagerly(t)
      BY <3>1, <3>3 DEF ScheduleEagerly, pushExact, NodeRec
    <3> QED BY <1>2, <3>2, <3>3 DEF Scheduled
  <2> QED BY <1>a, <1>2, <2>1 DEF Fired, Scheduled, ScheduleLazily, ScheduleEagerly
<1>3. ASSUME NEW t \in Txns, disarm(t)
      PROVE  Fired'
  <2>1. \A o \in Txns : tx'[o].arm = tx[o].arm
    BY <1>0, <1>3, Types DEF disarm, TxRec
  <2> QED BY <1>a, <1>3, <2>1 DEF Fired, disarm
<1>4. CASE Tick
  <2>1. now' = now + 1 /\ UNCHANGED <<tx, node, d>>
    BY <1>4 DEF Tick, qvars
  <2> QED BY <1>0, <2>1, Fields DEF Fired
<1>5. CASE EnterRoot \/ \E s \in Shards : TimerFires(s) \/ fire(s)
  <2>1. UNCHANGED <<now, tx, node>>
    BY <1>5 DEF EnterRoot, TimerFires, fire
  <2>2. d'.now = d.now /\ (d'.pc = "fire" => d.pc = "fire" /\ d'.hold = d.hold)
    BY <1>0, <1>5, Types DEF EnterRoot, TimerFires, fire, DrainRec
  <2> QED BY <2>1, <2>2 DEF Fired
<1>6. CASE Drain
  <2>1. CASE ReadNow \/ ReadFrontier \/ ShardDone \/ CohortDone \/ LeaveShard \/ LeaveRoot
    <3>1. d'.pc # "fire" /\ d'.now \in {d.now, now, 0} /\ now' = now
      BY <1>0, <2>1, Types DEF ReadNow, ReadFrontier, ShardDone, CohortDone, LeaveShard,
                               LeaveRoot, DrainRec
    <3> QED BY <1>0, <3>1, Fields DEF Fired
  <2>2. CASE \E t \in Txns : Pop(t) \/ Collect(t)
    <3>1. d'.pc # "fire" /\ d'.now = d.now /\ now' = now
      BY <1>0, <2>2, Types DEF Pop, Collect, DrainRec
    <3> QED BY <3>1 DEF Fired
  <2>3. ASSUME NEW r \in root.ready \cup d.hold, fireTimeout(r)
        PROVE  Fired'
    <3>1. d'.pc # "fire" /\ d'.now = d.now /\ now' = now
      BY <1>0, <2>3, Types DEF fireTimeout, DrainRec
    <3> QED BY <3>1 DEF Fired
  <2>4. ASSUME NEW r \in root.ready \cup d.hold, deliverReady(r)
        PROVE  Fired'
    <3>1. r \in root.ready /\ UNCHANGED <<now, tx>>
      BY <2>4 DEF deliverReady, First
    <3>2. r.t \in Txns /\ r.arm \in Nat /\ r.seq \in Nat
      BY <1>0, <3>1, Fields DEF Ready
    <3>3. d'.now = d.now
      BY <1>0, <2>4, Types DEF deliverReady, DrainRec
    <3>4. d'.pc = "fire" =>
            /\ d'.hold = {r} /\ Current(r) /\ ~Early(r.t)
            /\ node'[r.t].deadline = node[r.t].deadline
      <4>1. node \in [Txns -> NodeRec] /\ d \in DrainRec
        BY <1>0, Types
      <4>2. CASE ~Current(r) \/ Late(r) \/ Early(r.t)
        BY <2>4, <4>1, <4>2 DEF deliverReady, DrainRec
      <4>3. CASE Current(r) /\ ~Late(r) /\ ~Early(r.t)
        <5>1. /\ d' = [d EXCEPT !.pc = "fire", !.hold = {r}]
              /\ node' = [node EXCEPT ![r.t] = [node[r.t] EXCEPT !.at = "none"]]
          BY <2>4, <4>3 DEF deliverReady
        <5> QED BY <3>2, <4>1, <4>3, <5>1 DEF DrainRec, NodeRec
      <4> QED BY <4>2, <4>3
    <3>5. d'.pc = "fire" => /\ d.now \in Nat /\ node[r.t].deadline \in Nat
                            /\ r.arm = tx[r.t].arm /\ node[r.t].deadline <= d.now
      BY <1>0, <3>2, <3>4, Fields DEF Current, Early
    <3>6. ASSUME d'.pc = "fire", NEW o \in d'.hold
          PROVE  /\ o.arm <= tx'[o.t].arm
                 /\ o.arm = tx'[o.t].arm => node'[o.t].deadline <= d'.now
      <4>1. o = r
        BY <3>4, <3>6
      <4>2. r.arm <= tx'[r.t].arm
        BY <3>1, <3>2, <3>5, <3>6
      <4>3. node'[r.t].deadline <= d'.now
        BY <3>3, <3>4, <3>5, <3>6
      <4> QED BY <4>1, <4>2, <4>3
    <3>7. d'.now <= now'
      BY <1>0, <3>1, <3>3 DEF Fired
    <3> QED BY <3>6, <3>7 DEF Fired
  <2> QED BY <1>6, <2>1, <2>2, <2>3, <2>4 DEF Drain
<1> QED BY <1>1, <1>2, <1>3, <1>4, <1>5, <1>6 DEF Queued

-----------------------------------------------------------------------------
(* The timers: the inductive invariant, by concern. *)

\* Inside Transact a transaction has an entry or nothing, outside a timer or nothing.
Held ==
  \A t \in Txns :
    /\ tm[t].entry # None => tm[t].scoped
    /\ tm[t].made => ~tm[t].scoped
    /\ tm[t].on \/ tm[t].fired > 0 => tm[t].made
    /\ lk[t] \in {"free", "entry"}
    /\ lk[t] = "entry" => /\ tm[t].entry # None
                         /\ tm[t].read <= now /\ tm[t].read < tm[t].asked

\* No entry is in two hands.
Alone ==
  \A t, o \in Txns : tm[t].entry # None /\ tm[t].entry = tm[o].entry => t = o

\* A set timer, or a callback, is behind each nextFire; what an entry is armed for
\* is an arm of the transaction that has it, the present one with its deadline.
Owned ==
  \A e \in Entries :
    /\ ent[e].nextFire # 0 =>
         ent[e].fired > 0 \/ (ent[e].on /\ ent[e].due = ent[e].nextFire + ent[e].slip)
    /\ ent[e].tx # None =>
         /\ tm[ent[e].tx].entry = e
         /\ ent[e].arm <= tx[ent[e].tx].arm
         /\ ent[e].arm = tx[ent[e].tx].arm => ent[e].deadline = tm[ent[e].tx].asked

\* A callback of the present arm comes after its deadline.
Called ==
  \A c \in calls :
    /\ c.arm <= tx[c.t].arm
    /\ c.arm = tx[c.t].arm => tm[c.t].asked <= now

InCalls(t) == \E c \in calls : c.t = t /\ c.arm = tx[t].arm

\* The entry of t is armed for it, and its timer comes no later than asked.
ByEntry(t) ==
  /\ tm[t].entry # None
  /\ ent[tm[t].entry].tx = t /\ ent[tm[t].entry].arm = tx[t].arm
  /\ \/ InCalls(t)
     \/ ent[tm[t].entry].nextFire # 0 /\ ent[tm[t].entry].nextFire <= tm[t].asked

\* Or the timer that t made is.
ByTimer(t) ==
  /\ tm[t].made /\ tm[t].asked <= tm[t].deadline
  /\ OnTime(t, tm[t].deadline)
  /\ InCalls(t) \/ Rings(t, tm[t], 0)

Armed == \A t \in Txns : tx[t].armed /\ lk[t] = "free" => ByEntry(t) \/ ByTimer(t)

DesignInv ==
  /\ QueueOK
  /\ DesignOK
  /\ Held
  /\ Alone
  /\ Owned
  /\ Called
  /\ Armed

-----------------------------------------------------------------------------
(* The timers: types. *)

TmRec == [scoped : BOOLEAN, entry : Entries \cup {None}, made : BOOLEAN, deadline : Nat,
          on : BOOLEAN, due : Nat, fired : Nat, asked : Nat, read : Nat]
EntRec == [tx : Txns \cup {None}, arm : Nat, deadline : Nat, nextFire : Nat,
           on : BOOLEAN, due : Nat, fired : Nat, slip : Nat]
CallRec == [t : Txns, arm : Nat]

\* The types of the timers, in these names.
LEMMA DesignTypes ==
  DesignOK <=> tm \in [Txns -> TmRec] /\ ent \in [Entries -> EntRec] /\ calls \subseteq CallRec
BY DEF DesignOK, TmRec, EntRec, CallRec

\* Their fields.
LEMMA DesignFields ==
  ASSUME DesignOK
  PROVE  /\ \A t \in Txns :
              /\ tm[t] \in TmRec /\ tm[t].entry \in Entries \cup {None}
              /\ tm[t].deadline \in Nat /\ tm[t].due \in Nat /\ tm[t].fired \in Nat
              /\ tm[t].asked \in Nat /\ tm[t].read \in Nat
         /\ \A e \in Entries :
              /\ ent[e] \in EntRec /\ ent[e].tx \in Txns \cup {None}
              /\ ent[e].arm \in Nat /\ ent[e].deadline \in Nat /\ ent[e].nextFire \in Nat
              /\ ent[e].due \in Nat /\ ent[e].fired \in Nat /\ ent[e].slip \in Nat
         /\ \A c \in calls : c.t \in Txns /\ c.arm \in Nat
         /\ None \notin Entries /\ None \notin Txns
<1>1. tm \in [Txns -> TmRec] /\ ent \in [Entries -> EntRec] /\ calls \subseteq CallRec
  BY DesignTypes
<1>2. \A t \in Txns :
              /\ tm[t] \in TmRec /\ tm[t].entry \in Entries \cup {None}
              /\ tm[t].deadline \in Nat /\ tm[t].due \in Nat /\ tm[t].fired \in Nat
              /\ tm[t].asked \in Nat /\ tm[t].read \in Nat
  BY <1>1 DEF TmRec
<1>3. \A e \in Entries :
              /\ ent[e] \in EntRec /\ ent[e].tx \in Txns \cup {None}
              /\ ent[e].arm \in Nat /\ ent[e].deadline \in Nat /\ ent[e].nextFire \in Nat
              /\ ent[e].due \in Nat /\ ent[e].fired \in Nat /\ ent[e].slip \in Nat
  BY <1>1 DEF EntRec
<1>4. \A c \in calls : c.t \in Txns /\ c.arm \in Nat
  BY <1>1 DEF CallRec
<1> QED BY <1>2, <1>3, <1>4, ConstantsAssumption

\* A step of the timers keeps the types of what both paths have.
LEMMA DesignKeeps ==
  ASSUME QueueOK, UNCHANGED <<now, qvars>>, tx' \in [Txns -> TxRec],
         lk' \in [Txns -> {"free", "lazy", "eager", "entry"}]
  PROVE  QueueOK'
BY DEF QueueOK, TxRec, qvars

-----------------------------------------------------------------------------
(* The timers: arming. *)

\* An arm inside Transact has its entry, and waits for its lock.
LEMMA GetEntryStep ==
  ASSUME DesignInv, UNCHANGED qvars, NEW t \in Txns, NEW dl \in 1 .. MaxTime, NEW e \in Entries,
         GetEntry(t, dl, e)
  PROVE  DesignInv'
<1>0. QueueOK /\ DesignOK
  BY DEF DesignInv
<1>1. /\ lk[t] = "free" /\ dl \in Nat /\ dl > now
      /\ tx' \in [Txns -> TxRec] /\ tx'[t].arm = tx[t].arm + 1
      /\ \A o \in Txns : o # t => tx'[o] = tx[o]
  BY <1>0, ArmFacts DEF GetEntry
<1>2. /\ tm[t].scoped /\ ~tm[t].made /\ UNCHANGED <<now, ent, calls>>
      /\ tm[t].entry # None => e = tm[t].entry
      /\ tm[t].entry = None => \A o \in Txns : tm[o].entry # e
  BY DEF GetEntry, Pool
<1>3. tm' = [tm EXCEPT ![t] = [tm[t] EXCEPT !.entry = e, !.asked = dl, !.read = now]]
  BY <1>0, DesignTypes DEF GetEntry
<1>4. now \in Nat /\ \A o \in Txns : tx[o].arm \in Nat
  BY <1>0, Fields
<1>5. /\ tm' \in [Txns -> TmRec] /\ tm'[t].entry = e /\ tm'[t].asked = dl /\ tm'[t].read = now
      /\ tm'[t].scoped = tm[t].scoped /\ tm'[t].made = tm[t].made /\ tm'[t].on = tm[t].on
      /\ tm'[t].fired = tm[t].fired
      /\ \A o \in Txns : o # t => tm'[o] = tm[o]
  BY <1>0, <1>1, <1>3, <1>4, DesignTypes DEF TmRec
<1>6. /\ lk' \in [Txns -> {"free", "lazy", "eager", "entry"}] /\ lk'[t] = "entry"
      /\ \A o \in Txns : o # t => lk'[o] = lk[o]
  BY <1>0, Types DEF GetEntry
<1>7. QueueOK' /\ DesignOK'
  <2>1. QueueOK'
    BY <1>0, <1>1, <1>2, <1>6, DesignKeeps
  <2>2. DesignOK'
    BY <1>0, <1>2, <1>5, DesignTypes DEF DesignOK, TmRec
  <2> QED BY <2>1, <2>2
<1>8. e # None
  BY ConstantsAssumption
<1>9. Held'
  <2>1. ~tm[t].on /\ ~(tm[t].fired > 0)
    BY <1>2 DEF DesignInv, Held
  <2> SUFFICES ASSUME NEW o \in Txns
               PROVE  /\ tm'[o].entry # None => tm'[o].scoped
                      /\ tm'[o].made => ~tm'[o].scoped
                      /\ tm'[o].on \/ tm'[o].fired > 0 => tm'[o].made
                      /\ lk'[o] \in {"free", "entry"}
                      /\ lk'[o] = "entry" =>
                           /\ tm'[o].entry # None
                           /\ tm'[o].read <= now /\ tm'[o].read < tm'[o].asked
    BY <1>2 DEF Held
  <2>2. CASE o = t
    <3>1. tm'[t].scoped /\ ~tm'[t].made /\ ~tm'[t].on
      BY <1>2, <1>5, <2>1, Zenon
    <3>2. ~(tm'[t].fired > 0)
      BY <1>5, <2>1
    <3> QED BY <1>1, <1>4, <1>5, <1>6, <1>8, <2>2, <3>1, <3>2
  <2>3. CASE o # t
    BY <1>5, <1>6, <2>3 DEF DesignInv, Held
  <2> QED BY <2>2, <2>3
<1>10. Alone'
  BY <1>2, <1>5, <1>8 DEF DesignInv, Alone
<1>11. Owned'
  <2> SUFFICES ASSUME NEW x \in Entries, ent[x].tx # None
               PROVE  /\ tm'[ent[x].tx].entry = x
                      /\ ent[x].arm <= tx'[ent[x].tx].arm
                      /\ ent[x].arm = tx'[ent[x].tx].arm => ent[x].deadline = tm'[ent[x].tx].asked
    BY <1>2 DEF DesignInv, Owned
  <2>1. /\ tm[ent[x].tx].entry = x
        /\ ent[x].arm <= tx[ent[x].tx].arm
        /\ ent[x].arm = tx[ent[x].tx].arm => ent[x].deadline = tm[ent[x].tx].asked
    BY DEF DesignInv, Owned
  <2>2. ent[x].tx \in Txns /\ ent[x].arm \in Nat /\ x # None
    BY <1>0, DesignFields
  <2>3. CASE ent[x].tx = t
    BY <1>1, <1>2, <1>4, <1>5, <2>1, <2>2, <2>3
  <2>4. CASE ent[x].tx # t
    BY <1>1, <1>5, <2>1, <2>2, <2>4
  <2> QED BY <2>3, <2>4
<1>12. Called'
  <2> SUFFICES ASSUME NEW c \in calls
               PROVE  c.arm <= tx'[c.t].arm /\ (c.arm = tx'[c.t].arm => tm'[c.t].asked <= now)
    BY <1>2 DEF Called
  <2>1. c.t \in Txns /\ c.arm \in Nat
    BY <1>0, DesignFields
  <2>2. c.arm <= tx[c.t].arm /\ (c.arm = tx[c.t].arm => tm[c.t].asked <= now)
    BY DEF DesignInv, Called
  <2> QED BY <1>1, <1>4, <1>5, <2>1, <2>2
<1>13. Armed'
  <2> SUFFICES ASSUME NEW o \in Txns, tx'[o].armed, lk'[o] = "free"
               PROVE  ByEntry(o)' \/ ByTimer(o)'
    BY DEF Armed
  <2>1. o # t
    BY <1>6
  <2>2. tx'[o] = tx[o] /\ tm'[o] = tm[o] /\ lk'[o] = lk[o]
    BY <1>1, <1>5, <1>6, <2>1
  <2>3. ByEntry(o) \/ ByTimer(o)
    BY <2>2 DEF DesignInv, Armed
  <2> QED BY <1>2, <2>2, <2>3 DEF ByEntry, ByTimer, InCalls, OnTime, Rings
<1> QED BY <1>7, <1>9, <1>10, <1>11, <1>12, <1>13 DEF DesignInv

\* With the entry's lock it arms the entry, whose timer may be set already.
LEMMA ArmEntryStep ==
  ASSUME DesignInv, UNCHANGED qvars, NEW t \in Txns, ArmEntry(t)
  PROVE  DesignInv'
<1>0. QueueOK /\ DesignOK
  BY DEF DesignInv
<1>1. lk[t] = "entry" /\ UNCHANGED <<now, tx, tm, calls>>
  BY DEF ArmEntry
<1>2. PICK e \in Entries : e = tm[t].entry
  BY <1>0, <1>1, DesignFields DEF DesignInv, Held
<1>3. PICK m \in TmRec : m = tm[t]
  BY <1>0, DesignFields
<1>4. /\ m.read \in Nat /\ m.asked \in Nat /\ m.read <= now /\ m.read < m.asked /\ e = m.entry
      /\ now \in Nat /\ tx[t].arm \in Nat
  BY <1>0, <1>1, <1>2, <1>3, Fields, DesignFields DEF DesignInv, Held
<1>5. PICK slip \in Nat : slip = now - m.read
  BY <1>4
<1>6. PICK r : r = [ent[e] EXCEPT !.tx = t, !.arm = tx[t].arm, !.deadline = m.asked]
  OBVIOUS
<1>7. /\ ent[e] \in EntRec /\ r \in EntRec /\ r.tx = t /\ r.arm = tx[t].arm /\ r.deadline = m.asked
      /\ r.nextFire = ent[e].nextFire /\ r.fired = ent[e].fired /\ r.on = ent[e].on
      /\ r.due = ent[e].due /\ r.slip = ent[e].slip
  BY <1>0, <1>4, <1>6, DesignFields DEF EntRec
<1>8. ent' = [ent EXCEPT ![e] = IF MustReset(ent[e], m) THEN ResetEntry(r, m.asked, slip) ELSE r]
  BY <1>2, <1>3, <1>5, <1>6 DEF ArmEntry
<1>9. /\ ent' \in [Entries -> EntRec] /\ \A x \in Entries : x # e => ent'[x] = ent[x]
      /\ ent'[e].tx = t /\ ent'[e].arm = tx[t].arm /\ ent'[e].deadline = m.asked
      /\ ent'[e].fired = ent[e].fired
      /\ \/ /\ ent'[e].nextFire = m.asked /\ ent'[e].on = TRUE
            /\ ent'[e].due = m.asked + slip /\ ent'[e].slip = slip
         \/ /\ ~MustReset(ent[e], m)
            /\ ent'[e].nextFire = ent[e].nextFire /\ ent'[e].on = ent[e].on
            /\ ent'[e].due = ent[e].due /\ ent'[e].slip = ent[e].slip
  <2>1. ent \in [Entries -> EntRec]
    BY <1>0, DesignTypes
  <2>2. CASE MustReset(ent[e], m)
    <3>1. PICK q : q = ResetEntry(r, m.asked, slip)
      OBVIOUS
    <3>2. /\ q \in EntRec /\ q.tx = r.tx /\ q.arm = r.arm /\ q.deadline = r.deadline
          /\ q.fired = r.fired /\ q.nextFire = m.asked /\ q.on = TRUE
          /\ q.due = m.asked + slip /\ q.slip = slip
      <4>1. PICK due \in Nat : due = m.asked + slip
        BY <1>4, <1>5
      <4>2. q = [r EXCEPT !.nextFire = m.asked, !.on = TRUE, !.due = due, !.slip = slip]
        BY <3>1, <4>1 DEF ResetEntry
      <4> QED BY <1>4, <1>5, <1>7, <4>1, <4>2 DEF EntRec
    <3>3. ent' = [ent EXCEPT ![e] = q]
      BY <1>8, <2>2, <3>1
    <3> QED BY <1>7, <2>1, <3>2, <3>3
  <2>3. CASE ~MustReset(ent[e], m)
    <3>1. ent' = [ent EXCEPT ![e] = r]
      BY <1>8, <2>3
    <3> QED BY <1>7, <2>1, <2>3, <3>1
  <2> QED BY <2>2, <2>3
<1>10. /\ lk' \in [Txns -> {"free", "lazy", "eager", "entry"}] /\ lk'[t] = "free"
       /\ \A o \in Txns : o # t => lk'[o] = lk[o]
  BY <1>0, Types DEF ArmEntry
<1>11. QueueOK' /\ DesignOK'
  <2>1. QueueOK'
    BY <1>0, <1>1, <1>10, Types, DesignKeeps
  <2>2. DesignOK'
    BY <1>0, <1>1, <1>9, DesignTypes DEF DesignOK, EntRec
  <2> QED BY <2>1, <2>2
<1>12. Held' /\ Alone'
  BY <1>1, <1>10 DEF DesignInv, Held, Alone
<1>13. ~MustReset(ent[e], m) => ent[e].nextFire # 0 /\ ent[e].nextFire <= m.asked
  BY <1>0, <1>4, DesignFields DEF MustReset
<1>14. Owned'
  <2> SUFFICES ASSUME NEW x \in Entries
               PROVE  /\ ent'[x].nextFire # 0 =>
                           ent'[x].fired > 0 \/ (ent'[x].on /\ ent'[x].due = ent'[x].nextFire + ent'[x].slip)
                      /\ ent'[x].tx # None =>
                           /\ tm[ent'[x].tx].entry = x
                           /\ ent'[x].arm <= tx[ent'[x].tx].arm
                           /\ ent'[x].arm = tx[ent'[x].tx].arm => ent'[x].deadline = tm[ent'[x].tx].asked
    BY <1>1 DEF Owned
  <2>1. /\ ent[x].nextFire # 0 =>
              ent[x].fired > 0 \/ (ent[x].on /\ ent[x].due = ent[x].nextFire + ent[x].slip)
        /\ ent[x].tx # None =>
              /\ tm[ent[x].tx].entry = x
              /\ ent[x].arm <= tx[ent[x].tx].arm
              /\ ent[x].arm = tx[ent[x].tx].arm => ent[x].deadline = tm[ent[x].tx].asked
    BY DEF DesignInv, Owned
  <2>2. CASE x # e
    BY <1>9, <2>1, <2>2
  <2>3. CASE x = e
    BY <1>2, <1>3, <1>4, <1>9, <2>1, <2>3
  <2> QED BY <2>2, <2>3
<1>15. Called'
  BY <1>1 DEF DesignInv, Called
<1>16. Armed'
  <2> SUFFICES ASSUME NEW o \in Txns, tx[o].armed, lk'[o] = "free"
               PROVE  ByEntry(o)' \/ ByTimer(o)'
    BY <1>1 DEF Armed
  <2>1. CASE o = t
    <3>1. tm'[o].entry = e /\ tm'[o].asked = m.asked /\ tx'[o].arm = tx[t].arm /\ e # None
      BY <1>1, <1>2, <1>3, <2>1, ConstantsAssumption
    <3>2. ent'[e].nextFire # 0 /\ ent'[e].nextFire <= m.asked
      BY <1>4, <1>9, <1>13
    <3>3. ent'[tm'[o].entry].tx = o /\ ent'[tm'[o].entry].arm = tx'[o].arm
      BY <1>9, <2>1, <3>1
    <3>4. ent'[tm'[o].entry].nextFire # 0 /\ ent'[tm'[o].entry].nextFire <= tm'[o].asked
      BY <3>1, <3>2
    <3> QED BY <3>1, <3>3, <3>4 DEF ByEntry
  <2>2. CASE o # t
    <3>1. ByEntry(o) \/ ByTimer(o)
      BY <1>10, <2>2 DEF DesignInv, Armed
    <3>2. tm[o].entry # None => tm[o].entry \in Entries /\ tm[o].entry # e
      BY <1>0, <1>2, <2>2, DesignFields DEF DesignInv, Alone
    <3> QED BY <1>1, <1>9, <3>1, <3>2 DEF ByEntry, ByTimer, InCalls, OnTime, Rings
  <2> QED BY <2>1, <2>2
<1> QED BY <1>11, <1>12, <1>14, <1>15, <1>16 DEF DesignInv

\* Outside Transact the transaction's own timer is set.
LEMMA WeakTimerStep ==
  ASSUME DesignInv, UNCHANGED qvars, NEW t \in Txns, NEW dl \in 1 .. MaxTime,
         armDesignWeakTimer(t, dl)
  PROVE  DesignInv'
<1>0. QueueOK /\ DesignOK
  BY DEF DesignInv
<1>1. /\ lk[t] = "free" /\ dl \in Nat /\ dl > now
      /\ tx' \in [Txns -> TxRec] /\ tx'[t].arm = tx[t].arm + 1
      /\ \A o \in Txns : o # t => tx'[o] = tx[o]
  BY <1>0, ArmFacts DEF armDesignWeakTimer
<1>2. ~tm[t].scoped /\ tm[t].entry = None /\ UNCHANGED <<now, lk, ent, calls>>
  BY DEF armDesignWeakTimer, DesignInv, Held
<1>3. PICK m : m = [SetTimer(tm[t], dl) EXCEPT !.asked = dl]
  OBVIOUS
<1>4. tm' = [tm EXCEPT ![t] = m]
  BY <1>0, <1>3, DesignTypes DEF armDesignWeakTimer
<1>5. /\ m \in TmRec /\ m.made = TRUE /\ m.deadline = dl /\ m.on = TRUE /\ m.due = dl
      /\ m.asked = dl /\ m.scoped = tm[t].scoped /\ m.entry = tm[t].entry
  BY <1>0, <1>1, <1>3, DesignFields DEF SetTimer, TmRec
<1>6. /\ tm' \in [Txns -> TmRec] /\ tm'[t] = m
      /\ \A o \in Txns : o # t => tm'[o] = tm[o]
  BY <1>0, <1>4, <1>5, DesignTypes
<1>7. now \in Nat /\ \A o \in Txns : tx[o].arm \in Nat
  BY <1>0, Fields
<1>8. QueueOK' /\ DesignOK'
  <2>1. QueueOK'
    BY <1>0, <1>1, <1>2, Types, DesignKeeps
  <2>2. DesignOK'
    BY <1>0, <1>2, <1>6, DesignTypes DEF DesignOK, TmRec
  <2> QED BY <2>1, <2>2
<1>9. Held' /\ Alone'
  BY <1>1, <1>2, <1>5, <1>6 DEF DesignInv, Held, Alone
<1>10. Owned'
  <2> SUFFICES ASSUME NEW x \in Entries, ent[x].tx # None
               PROVE  /\ tm'[ent[x].tx].entry = x
                      /\ ent[x].arm <= tx'[ent[x].tx].arm
                      /\ ent[x].arm = tx'[ent[x].tx].arm => ent[x].deadline = tm'[ent[x].tx].asked
    BY <1>2 DEF DesignInv, Owned
  <2>1. /\ tm[ent[x].tx].entry = x
        /\ ent[x].arm <= tx[ent[x].tx].arm
        /\ ent[x].arm = tx[ent[x].tx].arm => ent[x].deadline = tm[ent[x].tx].asked
    BY DEF DesignInv, Owned
  <2>2. ent[x].tx \in Txns /\ x # None
    BY <1>0, DesignFields
  <2>3. ent[x].tx # t
    BY <1>2, <2>1, <2>2
  <2> QED BY <1>1, <1>6, <2>1, <2>2, <2>3
<1>11. Called'
  <2> SUFFICES ASSUME NEW c \in calls
               PROVE  c.arm <= tx'[c.t].arm /\ (c.arm = tx'[c.t].arm => tm'[c.t].asked <= now)
    BY <1>2 DEF Called
  <2>1. c.t \in Txns /\ c.arm \in Nat
    BY <1>0, DesignFields
  <2>2. c.arm <= tx[c.t].arm /\ (c.arm = tx[c.t].arm => tm[c.t].asked <= now)
    BY DEF DesignInv, Called
  <2> QED BY <1>1, <1>6, <1>7, <2>1, <2>2
<1>12. Armed'
  <2> SUFFICES ASSUME NEW o \in Txns, tx'[o].armed, lk[o] = "free"
               PROVE  ByEntry(o)' \/ ByTimer(o)'
    BY <1>2 DEF Armed
  <2>1. CASE o = t
    BY <1>1, <1>5, <1>6, <2>1 DEF ByTimer, OnTime, Rings
  <2>2. CASE o # t
    <3>1. tx'[o] = tx[o] /\ tm'[o] = tm[o]
      BY <1>1, <1>6, <2>2
    <3>2. ByEntry(o) \/ ByTimer(o)
      BY <3>1 DEF DesignInv, Armed
    <3> QED BY <1>2, <3>1, <3>2 DEF ByEntry, ByTimer, InCalls, OnTime, Rings
  <2> QED BY <2>1, <2>2
<1> QED BY <1>8, <1>9, <1>10, <1>11, <1>12 DEF DesignInv

-----------------------------------------------------------------------------
(* The timers: disarming, callbacks and the end of Transact. *)

\* The entry of t, if it has one, is stopped and no other changes.
LEMMA StopFacts ==
  ASSUME DesignOK, NEW t \in Txns, ent' = EntryStopped(t)
  PROVE  /\ ent' \in [Entries -> EntRec]
         /\ \A x \in Entries : x # tm[t].entry => ent'[x] = ent[x]
         /\ \A x \in Entries : x = tm[t].entry => ent'[x].tx = None /\ ent'[x].nextFire = 0
<1>1. \A x \in Entries : stopLocked(ent[x]) \in EntRec /\ stopLocked(ent[x]).tx = None
                           /\ stopLocked(ent[x]).nextFire = 0
  BY DesignFields DEF stopLocked, EntRec
<1> QED BY <1>1, DesignFields DEF EntryStopped

\* Stopping the entry of t leaves the others armed for whom they were.
LEMMA StopKeeps ==
  ASSUME DesignInv, NEW t \in Txns, ent' = EntryStopped(t),
         \A o \in Txns : /\ tx'[o].arm = tx[o].arm
                         /\ tm'[o].asked = tm[o].asked
                         /\ o # t => tm'[o].entry = tm[o].entry
  PROVE  Owned'
<1>0. DesignOK
  BY DEF DesignInv
<1> SUFFICES ASSUME NEW x \in Entries
             PROVE  /\ ent'[x].nextFire # 0 =>
                         ent'[x].fired > 0 \/ (ent'[x].on /\ ent'[x].due = ent'[x].nextFire + ent'[x].slip)
                    /\ ent'[x].tx # None =>
                         /\ tm'[ent'[x].tx].entry = x
                         /\ ent'[x].arm <= tx'[ent'[x].tx].arm
                         /\ ent'[x].arm = tx'[ent'[x].tx].arm => ent'[x].deadline = tm'[ent'[x].tx].asked
  BY DEF Owned
<1>1. CASE x = tm[t].entry
  BY <1>0, <1>1, StopFacts
<1>2. CASE x # tm[t].entry
  <2>1. ent'[x] = ent[x]
    BY <1>0, <1>2, StopFacts
  <2>2. /\ ent[x].nextFire # 0 =>
              ent[x].fired > 0 \/ (ent[x].on /\ ent[x].due = ent[x].nextFire + ent[x].slip)
        /\ ent[x].tx # None =>
              /\ tm[ent[x].tx].entry = x
              /\ ent[x].arm <= tx[ent[x].tx].arm
              /\ ent[x].arm = tx[ent[x].tx].arm => ent[x].deadline = tm[ent[x].tx].asked
    BY DEF DesignInv, Owned
  <2>3. ent[x].tx # None => ent[x].tx \in Txns /\ ent[x].tx # t
    BY <1>0, <1>2, <2>2, DesignFields
  <2> QED BY <2>1, <2>2, <2>3
<1> QED BY <1>1, <1>2

\* What t does not own and what is not called for it stays armed for the others.
LEMMA OthersArmed ==
  ASSUME DesignInv, NEW t \in Txns, NEW o \in Txns, o # t, UNCHANGED now,
         tx'[o] = tx[o], tm'[o] = tm[o], tx[o].armed, lk[o] = "free",
         \A x \in Entries : x # tm[t].entry => ent'[x] = ent[x],
         \A c \in calls : c.t # t => c \in calls'
  PROVE  ByEntry(o)' \/ ByTimer(o)'
<1>0. DesignOK
  BY DEF DesignInv
<1>1. ByEntry(o) \/ ByTimer(o)
  BY DEF DesignInv, Armed
<1>2. InCalls(o) => InCalls(o)'
  BY DEF InCalls
<1>3. tm[o].entry # None => ent'[tm[o].entry] = ent[tm[o].entry]
  BY <1>0, DesignFields DEF DesignInv, Alone
<1>4. ByEntry(o) => ByEntry(o)'
  BY <1>2, <1>3 DEF ByEntry
<1>5. ByTimer(o) => ByTimer(o)'
  BY <1>2 DEF ByTimer, OnTime, Rings
<1> QED BY <1>1, <1>4, <1>5

\* t is disarmed, its entry and its timer are stopped.
LEMMA OffStep ==
  ASSUME DesignInv, UNCHANGED <<now, lk, qvars>>, NEW t \in Txns, lk[t] = "free",
         tx' = [tx EXCEPT ![t].armed = FALSE],
         ent' = EntryStopped(t),
         tm' = [tm EXCEPT ![t].on = FALSE],
         calls' \subseteq calls,
         \A c \in calls : c.t # t => c \in calls'
  PROVE  DesignInv'
<1>0. QueueOK /\ DesignOK
  BY DEF DesignInv
<1>1. /\ tx' \in [Txns -> TxRec] /\ tx'[t].armed = FALSE
      /\ \A o \in Txns : tx'[o].arm = tx[o].arm /\ (o # t => tx'[o] = tx[o])
  BY <1>0, Types DEF TxRec
<1>2. /\ tm' \in [Txns -> TmRec] /\ tm'[t].on = FALSE /\ tm'[t].scoped = tm[t].scoped
      /\ tm'[t].made = tm[t].made /\ tm'[t].read = tm[t].read
      /\ \A o \in Txns : o # t => tm'[o] = tm[o]
      /\ \A o \in Txns : /\ tm'[o].asked = tm[o].asked /\ tm'[o].entry = tm[o].entry
                         /\ tm'[o].fired = tm[o].fired
  BY <1>0, DesignTypes DEF TmRec
<1>3. /\ ent' \in [Entries -> EntRec]
      /\ \A x \in Entries : x # tm[t].entry => ent'[x] = ent[x]
  BY <1>0, StopFacts
<1>4. QueueOK' /\ DesignOK'
  <2>1. QueueOK'
    BY <1>0, <1>1, Types, DesignKeeps
  <2>2. DesignOK'
    BY <1>0, <1>2, <1>3, DesignTypes DEF DesignOK, TmRec, EntRec
  <2> QED BY <2>1, <2>2
<1>5. Held'
  <2> SUFFICES ASSUME NEW o \in Txns
               PROVE  /\ tm'[o].entry # None => tm'[o].scoped
                      /\ tm'[o].made => ~tm'[o].scoped
                      /\ tm'[o].on \/ tm'[o].fired > 0 => tm'[o].made
                      /\ lk[o] \in {"free", "entry"}
                      /\ lk[o] = "entry" =>
                           /\ tm'[o].entry # None
                           /\ tm'[o].read <= now /\ tm'[o].read < tm'[o].asked
    BY DEF Held
  <2>1. CASE o = t
    <3>1. /\ tm[t].entry # None => tm[t].scoped
          /\ tm[t].made => ~tm[t].scoped
          /\ tm[t].fired > 0 => tm[t].made
      BY DEF DesignInv, Held
    <3>2. /\ tm'[t].entry # None => tm'[t].scoped
          /\ tm'[t].made => ~tm'[t].scoped
          /\ tm'[t].fired > 0 => tm'[t].made
          /\ ~tm'[t].on
      BY <1>2, <3>1, Zenon
    <3> QED BY <2>1, <3>2
  <2>2. CASE o # t
    BY <1>2, <2>2 DEF DesignInv, Held
  <2> QED BY <2>1, <2>2
<1>6. Alone'
  BY <1>2 DEF DesignInv, Alone
<1>7. Owned'
  BY <1>1, <1>2, StopKeeps
<1>8. Called'
  <2>1. \A c \in calls : c.t \in Txns
    BY <1>0, DesignFields
  <2> QED BY <1>1, <1>2, <2>1 DEF DesignInv, Called
<1>9. Armed'
  <2> SUFFICES ASSUME NEW o \in Txns, tx'[o].armed, lk[o] = "free"
               PROVE  ByEntry(o)' \/ ByTimer(o)'
    BY DEF Armed
  <2>1. o # t /\ tx'[o] = tx[o] /\ tm'[o] = tm[o]
    BY <1>1, <1>2
  <2> QED BY <1>3, <2>1, OthersArmed
<1> QED BY <1>4, <1>5, <1>6, <1>7, <1>8, <1>9 DEF DesignInv

\* A disarm, and a callback that ends in fireTimeout.
LEMMA DeliverCallStep ==
  ASSUME DesignInv, UNCHANGED qvars,
         \/ \E t \in Txns : disarmDesign(t)
         \/ \E c \in calls : DesignDeliver(c)
  PROVE  DesignInv'
<1>0. QueueOK /\ DesignOK
  BY DEF DesignInv
<1>1. ASSUME NEW t \in Txns, disarmDesign(t)
      PROVE  DesignInv'
  BY <1>1, OffStep DEF disarmDesign
<1>2. ASSUME NEW c \in calls, DesignDeliver(c)
      PROVE  DesignInv'
  <2>1. c.t \in Txns /\ lk[c.t] = "free" /\ UNCHANGED <<now, lk>> /\ calls' = calls \ {c}
    BY <1>0, <1>2, DesignFields DEF DesignDeliver
  <2>2. CASE tx[c.t].armed /\ tx[c.t].arm = c.arm
    <3>1. /\ tx' = [tx EXCEPT ![c.t].armed = FALSE]
          /\ ent' = EntryStopped(c.t)
          /\ tm' = [tm EXCEPT ![c.t].on = FALSE]
      BY <1>2, <2>2 DEF DesignDeliver
    <3>2. calls' \subseteq calls /\ \A b \in calls : b.t # c.t => b \in calls'
      BY <2>1
    <3> QED BY <2>1, <3>1, <3>2, OffStep
  <2>3. CASE ~(tx[c.t].armed /\ tx[c.t].arm = c.arm)
    <3>1. UNCHANGED <<tx, ent, tm>>
      BY <1>2, <2>3 DEF DesignDeliver
    <3>2. QueueOK'
      BY <1>0, <2>1, <3>1, Types, DesignKeeps
    <3>3. DesignOK'
      BY <1>0, <2>1, <3>1 DEF DesignOK
    <3>4. Held' /\ Alone' /\ Owned'
      BY <2>1, <3>1 DEF DesignInv, Held, Alone, Owned
    <3>5. Called'
      BY <2>1, <3>1 DEF DesignInv, Called
    <3>6. ASSUME NEW o \in Txns, tx[o].armed, InCalls(o)
          PROVE  InCalls(o)'
      BY <2>1, <2>3, <3>1, <3>6 DEF InCalls
    <3>7. Armed'
      <4> SUFFICES ASSUME NEW o \in Txns, tx[o].armed, lk[o] = "free"
                   PROVE  ByEntry(o)' \/ ByTimer(o)'
        BY <2>1, <3>1 DEF Armed
      <4>1. ByEntry(o) \/ ByTimer(o)
        BY DEF DesignInv, Armed
      <4>2. InCalls(o) => InCalls(o)'
        BY <3>6
      <4> QED BY <2>1, <3>1, <4>1, <4>2 DEF ByEntry, ByTimer, OnTime, Rings
    <3> QED BY <3>2, <3>3, <3>4, <3>5, <3>7 DEF DesignInv
  <2> QED BY <2>2, <2>3
<1> QED BY <1>1, <1>2

\* Time passes.
LEMMA DesignTick ==
  ASSUME DesignInv, Tick
  PROVE  DesignInv'
<1>0. QueueOK /\ DesignOK
  BY DEF DesignInv
<1>1. now < MaxTime /\ now' = now + 1 /\ UNCHANGED <<tx, lk, tm, ent, calls, node, sh, root, d>>
  BY DEF Tick, dvars, qvars
<1>2. now \in Nat /\ now \in 0 .. MaxTime /\ MaxTime \in Nat
  BY <1>0, Fields, Types
<1>3. QueueOK'
  BY <1>0, <1>1, <1>2 DEF QueueOK
<1>4. DesignOK'
  BY <1>0, <1>1 DEF DesignOK
<1>5. Held'
  BY <1>0, <1>1, <1>2, DesignFields DEF DesignInv, Held
<1>6. Alone' /\ Owned'
  BY <1>1 DEF DesignInv, Alone, Owned
<1>7. Called'
  BY <1>0, <1>1, <1>2, DesignFields DEF DesignInv, Called
<1>8. ASSUME NEW o \in Txns, NEW v \in Nat, OnTime(o, v)
      PROVE  OnTime(o, v)'
  BY <1>0, <1>1, <1>2, <1>8 DEF OnTime
<1>9. Armed'
  <2> SUFFICES ASSUME NEW o \in Txns, tx[o].armed, lk[o] = "free"
               PROVE  ByEntry(o)' \/ ByTimer(o)'
    BY <1>1 DEF Armed
  <2>1. ByEntry(o) \/ ByTimer(o)
    BY DEF DesignInv, Armed
  <2>2. ByEntry(o) => ByEntry(o)'
    BY <1>1 DEF ByEntry, InCalls
  <2>3. ByTimer(o) => ByTimer(o)'
    <3>1. tm[o].deadline \in Nat /\ tm[o].due \in Nat /\ tm[o].due - 0 = tm[o].due
      BY <1>0, DesignFields
    <3>2. Rings(o, tm[o], 0) => Rings(o, tm[o], 0)'
      BY <1>1, <1>8, <3>1 DEF Rings
    <3>3. OnTime(o, tm[o].deadline) => OnTime(o, tm[o].deadline)'
      BY <1>1, <1>8, <3>1
    <3>4. InCalls(o) => InCalls(o)'
      BY <1>1 DEF InCalls
    <3> QED BY <1>1, <3>2, <3>3, <3>4 DEF ByTimer
  <2> QED BY <2>1, <2>2, <2>3
<1> QED BY <1>3, <1>4, <1>5, <1>6, <1>7, <1>9 DEF DesignInv

\* A callback of an entry, or its timer, changes the entry's timer: it stays set,
\* is set for the deadline, or the timeout is called.
LEMMA EntryStep ==
  ASSUME DesignInv, UNCHANGED <<now, tx, lk, tm, qvars>>, NEW e \in Entries, NEW r \in EntRec,
         ent' = [ent EXCEPT ![e] = r],
         r.tx = ent[e].tx, r.arm = ent[e].arm, r.deadline = ent[e].deadline,
         r.nextFire # 0 => r.fired > 0 \/ (r.on /\ r.due = r.nextFire + r.slip),
         calls \subseteq calls', calls' \subseteq CallRec,
         \A c \in calls' : c \in calls \/ (c.t = r.tx /\ c.arm = r.arm /\ r.deadline <= now),
         \/ r.nextFire = ent[e].nextFire
         \/ r.nextFire # 0 /\ r.nextFire = r.deadline
         \/ r.tx # None => \E c \in calls' : c.t = r.tx /\ c.arm = r.arm
  PROVE  DesignInv'
<1>0. QueueOK /\ DesignOK
  BY DEF DesignInv
<1>1. /\ ent' \in [Entries -> EntRec] /\ ent'[e] = r
      /\ \A x \in Entries : x # e => ent'[x] = ent[x]
  BY <1>0, DesignTypes
<1>2. QueueOK' /\ DesignOK'
  <2>1. QueueOK'
    BY <1>0, Types, DesignKeeps
  <2>2. DesignOK'
    BY <1>0, <1>1 DEF DesignOK, CallRec, EntRec
  <2> QED BY <2>1, <2>2
<1>3. Held' /\ Alone'
  BY DEF DesignInv, Held, Alone
<1>4. ent[e].tx # None =>
        /\ tm[ent[e].tx].entry = e
        /\ ent[e].arm <= tx[ent[e].tx].arm
        /\ ent[e].arm = tx[ent[e].tx].arm => ent[e].deadline = tm[ent[e].tx].asked
  BY DEF DesignInv, Owned
<1>5. Owned'
  <2> SUFFICES ASSUME NEW x \in Entries
               PROVE  /\ ent'[x].nextFire # 0 =>
                           ent'[x].fired > 0 \/ (ent'[x].on /\ ent'[x].due = ent'[x].nextFire + ent'[x].slip)
                      /\ ent'[x].tx # None =>
                           /\ tm[ent'[x].tx].entry = x
                           /\ ent'[x].arm <= tx[ent'[x].tx].arm
                           /\ ent'[x].arm = tx[ent'[x].tx].arm => ent'[x].deadline = tm[ent'[x].tx].asked
    BY DEF Owned
  <2>1. CASE x # e
    <3>1. ent'[x] = ent[x]
      BY <1>1, <2>1
    <3> QED BY <3>1 DEF DesignInv, Owned
  <2>2. CASE x = e
    BY <1>1, <1>4, <2>2
  <2> QED BY <2>1, <2>2
<1>6. Called'
  <2> SUFFICES ASSUME NEW c \in calls'
               PROVE  c.arm <= tx[c.t].arm /\ (c.arm = tx[c.t].arm => tm[c.t].asked <= now)
    BY DEF Called
  <2>1. CASE c \in calls
    BY <2>1 DEF DesignInv, Called
  <2>2. CASE c \notin calls
    <3>1. c.t \in Txns
      BY DEF CallRec
    <3>2. ent[e].tx # None
      BY <2>2, <3>1, ConstantsAssumption
    <3> QED BY <1>4, <2>2, <3>2
  <2> QED BY <2>1, <2>2
<1>7. Armed'
  <2> SUFFICES ASSUME NEW o \in Txns, tx[o].armed, lk[o] = "free"
               PROVE  ByEntry(o)' \/ ByTimer(o)'
    BY DEF Armed
  <2>1. ByEntry(o) \/ ByTimer(o)
    BY DEF DesignInv, Armed
  <2>2. InCalls(o) => InCalls(o)'
    BY DEF InCalls
  <2>3. CASE ByTimer(o)
    BY <2>2, <2>3 DEF ByTimer, OnTime, Rings
  <2>4. CASE ByEntry(o) /\ tm[o].entry # e
    <3>1. ent'[tm[o].entry] = ent[tm[o].entry]
      BY <1>0, <1>1, <2>4, DesignFields DEF ByEntry
    <3> QED BY <2>2, <2>4, <3>1 DEF ByEntry
  <2>5. CASE ByEntry(o) /\ tm[o].entry = e
    <3>1. /\ tm[o].entry = e /\ e # None /\ ent[e].tx = o /\ ent[e].arm = tx[o].arm
          /\ InCalls(o) \/ (ent[e].nextFire # 0 /\ ent[e].nextFire <= tm[o].asked)
      BY <2>5, ConstantsAssumption DEF ByEntry
    <3>2. ent[e].deadline = tm[o].asked /\ tm[o].asked \in Nat
      BY <1>0, <1>4, <3>1, DesignFields
    <3>3. InCalls(o)' \/ (r.nextFire # 0 /\ r.nextFire <= tm[o].asked)
      <4>1. CASE InCalls(o)
        BY <2>2, <4>1
      <4>2. CASE ~InCalls(o) /\ r.nextFire = ent[e].nextFire
        BY <3>1, <4>2
      <4>3. CASE r.nextFire # 0 /\ r.nextFire = r.deadline
        BY <3>2, <4>3
      <4>4. CASE r.tx # None => \E c \in calls' : c.t = r.tx /\ c.arm = r.arm
        <5>1. \E c \in calls' : c.t = o /\ c.arm = tx[o].arm
          BY <3>1, <4>4, ConstantsAssumption
        <5> QED BY <5>1 DEF InCalls
      <4> QED BY <4>1, <4>2, <4>3, <4>4
    <3> QED BY <1>1, <3>1, <3>3 DEF ByEntry
  <2> QED BY <2>1, <2>3, <2>4, <2>5
<1> QED BY <1>2, <1>3, <1>5, <1>6, <1>7 DEF DesignInv

\* The timer of an entry fires, and its callback looks at the entry.
LEMMA EntryFiresStep ==
  ASSUME DesignInv, UNCHANGED qvars, NEW e \in Entries, EntryTimerFires(e) \/ fireEntry(e)
  PROVE  DesignInv'
<1>0. QueueOK /\ DesignOK
  BY DEF DesignInv
<1>1. ent[e] \in EntRec /\ calls \subseteq CallRec /\ now \in Nat /\ ent \in [Entries -> EntRec]
  BY <1>0, Fields, DesignTypes, DesignFields
<1>2. CASE EntryTimerFires(e)
  <2>1. UNCHANGED <<now, tx, lk, tm, calls>>
    BY <1>2 DEF EntryTimerFires
  <2>2. PICK r : r = Started(ent[e])
    OBVIOUS
  <2>3. ent' = [ent EXCEPT ![e] = r]
    BY <1>2, <2>2 DEF EntryTimerFires
  <2>4. /\ r \in EntRec /\ r.tx = ent[e].tx /\ r.arm = ent[e].arm /\ r.deadline = ent[e].deadline
        /\ r.nextFire = ent[e].nextFire /\ r.fired > 0
    <3>1. PICK n \in Nat : n = ent[e].fired + 1
      BY <1>0, DesignFields
    <3>2. n > 0
      BY <1>0, <3>1, DesignFields
    <3>3. r = [ent[e] EXCEPT !.on = FALSE, !.fired = n]
      BY <1>1, <2>2, <3>1 DEF Started
    <3> QED BY <1>1, <3>2, <3>3 DEF EntRec
  <2> QED BY <1>1, <2>1, <2>3, <2>4, EntryStep
<1>3. CASE fireEntry(e)
  <2>1. UNCHANGED <<now, tx, lk, tm>> /\ ent[e].fired > 0
    BY <1>3 DEF fireEntry
  <2>2. PICK q : q = [ent[e] EXCEPT !.fired = ent[e].fired - 1]
    OBVIOUS
  <2>3. /\ q \in EntRec /\ q.tx = ent[e].tx /\ q.arm = ent[e].arm /\ q.deadline = ent[e].deadline
        /\ q.deadline \in Nat /\ q.arm \in Nat /\ q.tx \in Txns \cup {None}
    BY <1>1, <2>1, <2>2 DEF EntRec
  <2>4. \/ /\ q.deadline > now /\ ent' = [ent EXCEPT ![e] = ResetEntry(q, q.deadline, 0)]
           /\ UNCHANGED calls
        \/ /\ q.tx = None \/ q.deadline <= now
           /\ ent' = [ent EXCEPT ![e] = [q EXCEPT !.nextFire = 0]]
           /\ calls' = calls \cup IF q.tx = None THEN {} ELSE {[t |-> q.tx, arm |-> q.arm]}
    BY <1>3, <2>2 DEF fireEntry
  <2>5. CASE /\ q.deadline > now /\ ent' = [ent EXCEPT ![e] = ResetEntry(q, q.deadline, 0)]
             /\ UNCHANGED calls
    <3>1. PICK r : r = [q EXCEPT !.nextFire = q.deadline, !.on = TRUE, !.due = q.deadline, !.slip = 0]
      OBVIOUS
    <3>2. ent' = [ent EXCEPT ![e] = r]
      <4>1. q.deadline + 0 = q.deadline
        BY <2>3
      <4>2. r = ResetEntry(q, q.deadline, 0)
        BY <3>1, <4>1 DEF ResetEntry
      <4> QED BY <2>5, <4>2
    <3>3. /\ r \in EntRec /\ r.tx = q.tx /\ r.arm = q.arm /\ r.deadline = q.deadline
          /\ r.nextFire = q.deadline /\ r.on /\ r.due = q.deadline /\ r.slip = 0
      BY <2>3, <3>1 DEF EntRec
    <3>4. r.nextFire # 0 /\ r.due = r.nextFire + r.slip
      BY <1>1, <2>3, <2>5, <3>3
    <3>5. UNCHANGED <<now, tx, lk, tm, qvars, calls>>
      BY <2>1, <2>5
    <3>6. /\ calls \subseteq calls' /\ calls' \subseteq CallRec
          /\ \A c \in calls' : c \in calls
      BY <1>1, <3>5
    <3>7. r.tx = ent[e].tx /\ r.arm = ent[e].arm /\ r.deadline = ent[e].deadline
      BY <2>3, <3>3
    <3> QED BY <3>2, <3>3, <3>4, <3>5, <3>6, <3>7, EntryStep
  <2>6. CASE /\ q.tx = None \/ q.deadline <= now
             /\ ent' = [ent EXCEPT ![e] = [q EXCEPT !.nextFire = 0]]
             /\ calls' = calls \cup IF q.tx = None THEN {} ELSE {[t |-> q.tx, arm |-> q.arm]}
    <3>1. PICK r : r = [q EXCEPT !.nextFire = 0]
      OBVIOUS
    <3>2. ent' = [ent EXCEPT ![e] = r]
      BY <2>6, <3>1
    <3>3. /\ r \in EntRec /\ r.tx = q.tx /\ r.arm = q.arm /\ r.deadline = q.deadline
          /\ r.nextFire = 0
      BY <2>3, <3>1 DEF EntRec
    <3>4. calls \subseteq calls' /\ calls' \subseteq CallRec
      BY <1>1, <2>3, <2>6 DEF CallRec
    <3>5. \A c \in calls' : c \in calls \/ (c.t = r.tx /\ c.arm = r.arm /\ r.deadline <= now)
      BY <2>6, <3>3
    <3>6. r.tx # None => \E c \in calls' : c.t = r.tx /\ c.arm = r.arm
      <4>1. ASSUME q.tx # None
            PROVE  [t |-> q.tx, arm |-> q.arm] \in calls'
        BY <2>6, <4>1
      <4> QED BY <3>3, <4>1
    <3> QED BY <2>1, <2>3, <3>2, <3>3, <3>4, <3>5, <3>6, EntryStep
  <2> QED BY <2>4, <2>5, <2>6
<1> QED BY <1>2, <1>3

\* The timer of t, or its callback, changes that timer: it rings yet, or the
\* timeout is called.
LEMMA TimerStep ==
  ASSUME DesignInv, UNCHANGED <<now, tx, lk, ent, qvars>>, NEW t \in Txns, NEW m \in TmRec,
         tm[t].made, tm' = [tm EXCEPT ![t] = m],
         m.made, ~m.scoped, m.entry = None, m.asked = tm[t].asked, m.deadline = tm[t].deadline,
         calls \subseteq calls', calls' \subseteq CallRec,
         \A c \in calls' : c \in calls \/ (c.t = t /\ c.arm = tx[t].arm /\ tm[t].asked <= now),
         tx[t].armed /\ lk[t] = "free" =>
           \/ \E c \in calls' : c.t = t /\ c.arm = tx[t].arm
           \/ InCalls(t)
           \/ m.fired > 0
           \/ m.on /\ (m.due <= m.deadline \/ m.due <= now)
  PROVE  DesignInv'
<1>0. QueueOK /\ DesignOK
  BY DEF DesignInv
<1>1. /\ tm' \in [Txns -> TmRec] /\ tm'[t] = m
      /\ \A o \in Txns : o # t => tm'[o] = tm[o]
  BY <1>0, DesignTypes
<1>2. tm[t].entry = None /\ lk[t] = "free"
  BY DEF DesignInv, Held
<1>3. QueueOK' /\ DesignOK'
  <2>1. QueueOK'
    BY <1>0, Types, DesignKeeps
  <2>2. DesignOK'
    BY <1>0, <1>1 DEF DesignOK, CallRec, TmRec
  <2> QED BY <2>1, <2>2
<1>4. Held'
  <2> SUFFICES ASSUME NEW o \in Txns
               PROVE  /\ tm'[o].entry # None => tm'[o].scoped
                      /\ tm'[o].made => ~tm'[o].scoped
                      /\ tm'[o].on \/ tm'[o].fired > 0 => tm'[o].made
                      /\ lk[o] \in {"free", "entry"}
                      /\ lk[o] = "entry" =>
                           /\ tm'[o].entry # None
                           /\ tm'[o].read <= now /\ tm'[o].read < tm'[o].asked
    BY DEF Held
  <2>1. CASE o = t
    BY <1>1, <1>2, <2>1
  <2>2. CASE o # t
    BY <1>1, <2>2 DEF DesignInv, Held
  <2> QED BY <2>1, <2>2
<1>5. \A o \in Txns : tm'[o].entry = tm[o].entry /\ tm'[o].asked = tm[o].asked
  BY <1>1, <1>2
<1>6. Alone'
  BY <1>5 DEF DesignInv, Alone
<1>7. Owned'
  <2>1. \A x \in Entries : ent[x].tx # None => ent[x].tx \in Txns
    BY <1>0, DesignFields
  <2> QED BY <1>5, <2>1 DEF DesignInv, Owned
<1>8. Called'
  <2> SUFFICES ASSUME NEW c \in calls'
               PROVE  c.arm <= tx[c.t].arm /\ (c.arm = tx[c.t].arm => tm'[c.t].asked <= now)
    BY DEF Called
  <2>1. c.t \in Txns
    BY DEF CallRec
  <2>2. CASE c \in calls
    BY <1>5, <2>1, <2>2 DEF DesignInv, Called
  <2>3. CASE c \notin calls
    <3>1. tx[t].arm \in Nat
      BY <1>0, Fields
    <3> QED BY <1>5, <2>3, <3>1
  <2> QED BY <2>2, <2>3
<1>9. Armed'
  <2> SUFFICES ASSUME NEW o \in Txns, tx[o].armed, lk[o] = "free"
               PROVE  ByEntry(o)' \/ ByTimer(o)'
    BY DEF Armed
  <2>1. ByEntry(o) \/ ByTimer(o)
    BY DEF DesignInv, Armed
  <2>2. InCalls(o) => InCalls(o)'
    BY DEF InCalls
  <2>3. CASE o # t
    <3>1. tm'[o] = tm[o]
      BY <1>1, <2>3
    <3> QED BY <2>1, <2>2, <3>1 DEF ByEntry, ByTimer, OnTime, Rings
  <2>4. CASE o = t
    <3>1. ByTimer(t)
      BY <1>2, <2>1, <2>4 DEF ByEntry
    <3>2. m.asked <= m.deadline /\ (m.deadline <= m.asked \/ m.deadline <= now)
      BY <3>1 DEF ByTimer, OnTime
    <3>3. /\ m.due \in Nat /\ m.deadline \in Nat /\ m.asked \in Nat
          /\ now \in Nat
      <4>1. m.due \in Nat /\ m.deadline \in Nat /\ m.asked \in Nat
        BY DEF TmRec
      <4>2. now \in Nat
        BY <1>0, Fields
      <4> QED BY <4>1, <4>2
    <3>4. \/ \E c \in calls' : c.t = t /\ c.arm = tx[t].arm
          \/ m.fired > 0
          \/ m.on /\ (m.due <= m.asked \/ m.due <= now)
      <4>1. CASE InCalls(t)
        BY <4>1 DEF InCalls
      <4>2. CASE ~InCalls(t)
        BY <2>4, <3>2, <3>3, <4>2
      <4> QED BY <4>1, <4>2
    <3>5. InCalls(t)' \/ Rings(t, tm[t], 0)'
      BY <1>1, <3>3, <3>4 DEF InCalls, Rings, OnTime
    <3> QED BY <1>1, <2>4, <3>2, <3>5 DEF ByTimer, OnTime
  <2> QED BY <2>3, <2>4
<1> QED BY <1>3, <1>4, <1>6, <1>7, <1>8, <1>9 DEF DesignInv

\* The transaction's own timer fires, and its callback looks at the deadline.
LEMMA TimerFiresStep ==
  ASSUME DesignInv, UNCHANGED qvars, NEW t \in Txns, OwnTimerFires(t) \/ fireDesignTimeout(t)
  PROVE  DesignInv'
<1>0. QueueOK /\ DesignOK
  BY DEF DesignInv
<1>1. tm[t] \in TmRec /\ calls \subseteq CallRec /\ now \in Nat /\ tm \in [Txns -> TmRec]
  BY <1>0, Fields, DesignTypes, DesignFields
<1>2. tm[t].made /\ ~tm[t].scoped /\ tm[t].entry = None
  BY DEF OwnTimerFires, fireDesignTimeout, DesignInv, Held
<1>3. CASE OwnTimerFires(t)
  <2>1. UNCHANGED <<now, tx, lk, ent, calls>>
    BY <1>3 DEF OwnTimerFires
  <2>2. PICK m : m = Started(tm[t])
    OBVIOUS
  <2>3. tm' = [tm EXCEPT ![t] = m]
    BY <1>3, <2>2 DEF OwnTimerFires
  <2>4. /\ m \in TmRec /\ m.entry = None /\ m.asked = tm[t].asked /\ m.deadline = tm[t].deadline
        /\ m.fired > 0 /\ m.made = tm[t].made /\ m.scoped = tm[t].scoped
    <3>1. PICK n \in Nat : n = tm[t].fired + 1
      BY <1>0, DesignFields
    <3>2. n > 0
      BY <1>0, <3>1, DesignFields
    <3>3. m = [tm[t] EXCEPT !.on = FALSE, !.fired = n]
      BY <1>1, <2>2, <3>1 DEF Started
    <3> QED BY <1>1, <1>2, <3>2, <3>3 DEF TmRec
  <2>5. m.made /\ ~m.scoped
    BY <1>2, <2>4, Zenon
  <2> QED BY <1>1, <1>2, <2>1, <2>3, <2>4, <2>5, TimerStep
<1>4. CASE fireDesignTimeout(t)
  <2>1. UNCHANGED <<now, tx, lk, ent>> /\ tm[t].fired > 0 /\ lk[t] = "free"
    BY <1>4 DEF fireDesignTimeout
  <2>2. PICK q : q = [tm[t] EXCEPT !.fired = tm[t].fired - 1]
    OBVIOUS
  <2>3. /\ q \in TmRec /\ q.entry = None /\ q.asked = tm[t].asked /\ q.deadline = tm[t].deadline
        /\ q.made = tm[t].made /\ q.scoped = tm[t].scoped /\ q.deadline \in Nat
        /\ q.on = tm[t].on /\ q.due = tm[t].due
    <3>1. PICK n \in Nat : n = tm[t].fired - 1
      BY <1>0, <2>1, DesignFields
    <3>2. q = [tm[t] EXCEPT !.fired = n]
      BY <2>2, <3>1
    <3> QED BY <1>1, <1>2, <3>2 DEF TmRec
  <2>4. q.made /\ ~q.scoped
    BY <1>2, <2>3, Zenon
  <2>5. \/ /\ tm' = [tm EXCEPT ![t] = SetTimer(q, q.deadline)]
           /\ UNCHANGED calls
        \/ /\ ~tx[t].armed \/ q.deadline <= now
           /\ tm' = [tm EXCEPT ![t] = q]
           /\ calls' = calls \cup IF tx[t].armed THEN {[t |-> t, arm |-> tx[t].arm]} ELSE {}
    BY <1>4, <2>2 DEF fireDesignTimeout
  <2>6. CASE /\ tm' = [tm EXCEPT ![t] = SetTimer(q, q.deadline)]
             /\ UNCHANGED calls
    <3>1. PICK m : m = SetTimer(q, q.deadline)
      OBVIOUS
    <3>2. /\ m \in TmRec /\ m.entry = None /\ m.asked = tm[t].asked /\ m.deadline = tm[t].deadline
          /\ m.made = TRUE /\ m.on = TRUE /\ m.due = m.deadline /\ m.scoped = q.scoped
      BY <2>3, <3>1 DEF SetTimer, TmRec
    <3>3. ~m.scoped
      BY <2>4, <3>2, Zenon
    <3>4. tm' = [tm EXCEPT ![t] = m] /\ m.due <= m.deadline
      BY <2>3, <2>6, <3>1, <3>2
    <3> QED BY <1>1, <1>2, <2>1, <2>6, <3>2, <3>3, <3>4, TimerStep
  <2>7. CASE /\ ~tx[t].armed \/ q.deadline <= now
             /\ tm' = [tm EXCEPT ![t] = q]
             /\ calls' = calls \cup IF tx[t].armed THEN {[t |-> t, arm |-> tx[t].arm]} ELSE {}
    <3>1. tx[t].arm \in Nat /\ tm[t].asked \in Nat
      BY <1>0, Fields, DesignFields
    <3>2. calls \subseteq calls' /\ calls' \subseteq CallRec
      BY <1>1, <2>7, <3>1 DEF CallRec
    <3>3. tx[t].armed => tm[t].asked <= now
      <4>1. ASSUME tx[t].armed
            PROVE  ByTimer(t)
        BY <1>2, <2>1, <4>1 DEF DesignInv, Armed, ByEntry
      <4> QED BY <1>1, <2>3, <2>7, <3>1, <4>1 DEF ByTimer
    <3>4. \A c \in calls' : c \in calls \/ (c.t = t /\ c.arm = tx[t].arm /\ tm[t].asked <= now)
      BY <2>7, <3>3
    <3>5. tx[t].armed => \E c \in calls' : c.t = t /\ c.arm = tx[t].arm
      <4>1. ASSUME tx[t].armed
            PROVE  [t |-> t, arm |-> tx[t].arm] \in calls'
        BY <2>7, <4>1
      <4> QED BY <4>1
    <3> QED BY <1>2, <2>1, <2>3, <2>4, <2>7, <3>2, <3>4, <3>5, TimerStep
  <2> QED BY <2>5, <2>6, <2>7
<1> QED BY <1>3, <1>4

\* The larger of two numbers.
LEMMA MaxOfTwo ==
  ASSUME NEW x \in Nat, NEW y \in Nat
  PROVE  Max({x, y}) \in {x, y} /\ Max({x, y}) >= x /\ Max({x, y}) >= y
<1>1. \E z \in {x, y} : \A w \in {x, y} : z >= w
  OBVIOUS
<1> QED BY <1>1 DEF Max

\* t gives its entry back; if it is armed yet, by a timer of its own.
LEMMA ReleasedStep ==
  ASSUME DesignInv, UNCHANGED <<now, lk, calls, qvars>>, NEW t \in Txns, NEW m \in TmRec,
         lk[t] = "free", ent' = EntryStopped(t), tm' = [tm EXCEPT ![t] = m],
         tx' \in [Txns -> TxRec],
         \A o \in Txns : tx'[o].arm = tx[o].arm /\ (o # t => tx'[o] = tx[o]),
         ~m.scoped, m.entry = None, m.asked = tm[t].asked, m.on \/ m.fired > 0 => m.made,
         tx'[t].armed => ByTimer(t)'
  PROVE  DesignInv'
<1>0. QueueOK /\ DesignOK
  BY DEF DesignInv
<1>1. /\ tm' \in [Txns -> TmRec] /\ tm'[t] = m
      /\ \A o \in Txns : o # t => tm'[o] = tm[o]
  BY <1>0, DesignTypes
<1>2. /\ ent' \in [Entries -> EntRec]
      /\ \A x \in Entries : x # tm[t].entry => ent'[x] = ent[x]
  BY <1>0, StopFacts
<1>3. QueueOK' /\ DesignOK'
  <2>1. QueueOK'
    BY <1>0, Types, DesignKeeps
  <2>2. DesignOK'
    BY <1>0, <1>1, <1>2 DEF DesignOK, TmRec, EntRec
  <2> QED BY <2>1, <2>2
<1>4. Held'
  <2> SUFFICES ASSUME NEW o \in Txns
               PROVE  /\ tm'[o].entry # None => tm'[o].scoped
                      /\ tm'[o].made => ~tm'[o].scoped
                      /\ tm'[o].on \/ tm'[o].fired > 0 => tm'[o].made
                      /\ lk[o] \in {"free", "entry"}
                      /\ lk[o] = "entry" =>
                           /\ tm'[o].entry # None
                           /\ tm'[o].read <= now /\ tm'[o].read < tm'[o].asked
    BY DEF Held
  <2>1. CASE o = t
    BY <1>1, <2>1
  <2>2. CASE o # t
    BY <1>1, <2>2 DEF DesignInv, Held
  <2> QED BY <2>1, <2>2
<1>5. Alone'
  BY <1>1 DEF DesignInv, Alone
<1>6. Owned'
  <2>1. \A o \in Txns : tm'[o].asked = tm[o].asked /\ (o # t => tm'[o].entry = tm[o].entry)
    BY <1>1
  <2> QED BY <2>1, StopKeeps
<1>7. Called'
  <2>1. \A c \in calls : c.t \in Txns
    BY <1>0, DesignFields
  <2> QED BY <1>1, <2>1 DEF DesignInv, Called
<1>8. Armed'
  <2> SUFFICES ASSUME NEW o \in Txns, tx'[o].armed, lk[o] = "free"
               PROVE  ByEntry(o)' \/ ByTimer(o)'
    BY DEF Armed
  <2>1. CASE o = t
    BY <2>1
  <2>2. CASE o # t
    <3>1. tx'[o] = tx[o] /\ tm'[o] = tm[o]
      BY <1>1, <2>2
    <3> QED BY <1>2, <2>2, <3>1, OthersArmed
  <2> QED BY <2>1, <2>2
<1> QED BY <1>3, <1>4, <1>5, <1>6, <1>7, <1>8 DEF DesignInv

\* Transact returns.
LEMMA ReleaseStep ==
  ASSUME DesignInv, UNCHANGED qvars, NEW t \in Txns, NEW inFlight \in BOOLEAN,
         releaseTransactTimeout(t, inFlight)
  PROVE  DesignInv'
<1>0. QueueOK /\ DesignOK
  BY DEF DesignInv
<1>1. /\ tm[t].scoped /\ lk[t] = "free" /\ ent' = EntryStopped(t) /\ UNCHANGED <<now, lk, calls>>
  BY DEF releaseTransactTimeout
<1>2. ~tm[t].made /\ ~tm[t].on /\ ~(tm[t].fired > 0)
  BY <1>1 DEF DesignInv, Held
<1>3. tx[t].armed => ByEntry(t)
  BY <1>1, <1>2 DEF DesignInv, Armed, ByTimer
<1>4. PICK m : m = [tm[t] EXCEPT !.scoped = FALSE, !.entry = None]
  OBVIOUS
<1>5. /\ m \in TmRec /\ m.scoped = FALSE /\ m.entry = None /\ m.asked = tm[t].asked
      /\ m.on = tm[t].on /\ m.fired = tm[t].fired /\ m.made = tm[t].made
  BY <1>0, <1>4, DesignFields DEF TmRec
<1>6. ~m.on /\ ~(m.fired > 0)
  <2>1. ~m.on
    BY <1>2, <1>5, Zenon
  <2>2. ~(m.fired > 0)
    BY <1>2, <1>5
  <2> QED BY <2>1, <2>2
<1>7. tx \in [Txns -> TxRec] /\ now \in Nat
  BY <1>0, Types, Fields
<1>8. \/ /\ inFlight /\ UNCHANGED tx
         /\ tm' = [tm EXCEPT ![t] = IF tm[t].entry # None /\ tx[t].armed
                                    THEN SetTimer(m, Max({ent[tm[t].entry].deadline, now}))
                                    ELSE m]
      \/ /\ ~inFlight /\ tm' = [tm EXCEPT ![t] = [m EXCEPT !.on = FALSE]]
         /\ tx' = [tx EXCEPT ![t].armed = FALSE]
  BY <1>4 DEF releaseTransactTimeout
<1>9. CASE inFlight /\ tm[t].entry # None /\ tx[t].armed
  <2>1. PICK e \in Entries : e = tm[t].entry
    BY <1>0, <1>9, DesignFields
  <2>2. ent[e].tx = t /\ ent[e].arm = tx[t].arm
    BY <1>3, <1>9, <2>1 DEF ByEntry
  <2>3. ent[e].deadline = tm[t].asked /\ tm[t].asked \in Nat
    BY <1>0, <2>2, DesignFields DEF DesignInv, Owned
  <2>4. PICK at \in Nat : at = Max({tm[t].asked, now}) /\ at \in {tm[t].asked, now} /\ at >= tm[t].asked
    BY <1>7, <2>3, MaxOfTwo
  <2>5. PICK w : w = SetTimer(m, at)
    OBVIOUS
  <2>6. /\ w \in TmRec /\ w.scoped = FALSE /\ w.entry = None /\ w.asked = tm[t].asked
        /\ w.made = TRUE /\ w.deadline = at /\ w.on = TRUE /\ w.due = at
    BY <1>5, <2>5 DEF SetTimer, TmRec
  <2>7. tm' = [tm EXCEPT ![t] = w] /\ UNCHANGED tx
    BY <1>8, <1>9, <2>1, <2>3, <2>4, <2>5
  <2>8. tm'[t] = w
    BY <1>0, <2>7, DesignTypes
  <2>9. at <= tm[t].asked \/ at <= now
    BY <1>7, <2>3, <2>4
  <2>10. at - 0 = at /\ tm[t].asked <= at
    BY <2>3, <2>4
  <2>11. ByTimer(t)'
    BY <1>1, <2>6, <2>8, <2>9, <2>10 DEF ByTimer, OnTime, Rings
  <2> QED BY <1>1, <1>7, <2>6, <2>7, <2>11, ReleasedStep
<1>10. CASE inFlight /\ ~(tm[t].entry # None /\ tx[t].armed)
  <2>1. tm' = [tm EXCEPT ![t] = m] /\ UNCHANGED tx
    BY <1>8, <1>10
  <2>2. ~tx[t].armed
    BY <1>3, <1>10 DEF ByEntry
  <2> QED BY <1>1, <1>5, <1>6, <1>7, <2>1, <2>2, ReleasedStep
<1>11. CASE ~inFlight
  <2>1. PICK w : w = [m EXCEPT !.on = FALSE]
    OBVIOUS
  <2>2. /\ w \in TmRec /\ w.scoped = FALSE /\ w.entry = None /\ w.asked = tm[t].asked
        /\ w.on = FALSE /\ w.fired = m.fired
    BY <1>5, <2>1 DEF TmRec
  <2>3. tm' = [tm EXCEPT ![t] = w] /\ tx' = [tx EXCEPT ![t].armed = FALSE]
    BY <1>8, <1>11, <2>1
  <2>4. /\ tx' \in [Txns -> TxRec] /\ tx'[t].armed = FALSE
        /\ \A o \in Txns : tx'[o].arm = tx[o].arm /\ (o # t => tx'[o] = tx[o])
    BY <1>7, <2>3 DEF TxRec
  <2>5. ~(w.fired > 0)
    BY <1>6, <2>2
  <2> QED BY <1>1, <2>2, <2>3, <2>4, <2>5, ReleasedStep
<1> QED BY <1>9, <1>10, <1>11

\* Every step of the timers keeps the invariant.
LEMMA DesignStep ==
  ASSUME DesignInv, UNCHANGED qvars, Designed
  PROVE  DesignInv'
<1>1. ASSUME NEW t \in Txns, NEW at \in 1 .. MaxTime,
             armDesignWeakTimer(t, at) \/ \E e \in Entries : GetEntry(t, at, e)
      PROVE  DesignInv'
  BY <1>1, WeakTimerStep, GetEntryStep
<1>2. ASSUME NEW t \in Txns, ArmEntry(t) \/ OwnTimerFires(t) \/ fireDesignTimeout(t)
      PROVE  DesignInv'
  BY <1>2, ArmEntryStep, TimerFiresStep
<1>3. ASSUME NEW t \in Txns, NEW inFlight \in BOOLEAN, releaseTransactTimeout(t, inFlight)
      PROVE  DesignInv'
  BY <1>3, ReleaseStep
<1>4. ASSUME NEW e \in Entries, EntryTimerFires(e) \/ fireEntry(e)
      PROVE  DesignInv'
  BY <1>4, EntryFiresStep
<1>5. CASE (\E t \in Txns : disarmDesign(t)) \/ \E c \in calls : DesignDeliver(c)
  BY <1>5, DeliverCallStep
<1> QED BY <1>1, <1>2, <1>3, <1>4, <1>5 DEF Designed

-----------------------------------------------------------------------------
(* The theorems. *)

\* On either path its own invariant, and what belongs to the other path is at rest.
PathInv ==
  /\ design \in BOOLEAN
  /\ ~design => QueueInv /\ Fired /\ DesignOK /\ calls = {}
  /\ design => DesignInv

\* It holds at the start, whichever path the process takes.
LEMMA PathInit == Init => PathInv
<1> SUFFICES ASSUME Init PROVE PathInv
  OBVIOUS
<1>1. 1 \in Shards /\ MaxTime \in Nat /\ design \in BOOLEAN
  BY ConstantsAssumption DEF Shards, Init
<1>2. QueueOK
  BY <1>1 DEF Init, QueueOK
<1>3. Phased /\ Asked /\ Lower
  BY DEF Init, Phased, Asked, Lower
<1>4. Found /\ Matched /\ Settled /\ InOrder /\ Fired
  BY DEF Init, Found, Matched, Settled, Done, InOrder, Fired
<1>5. PICK scoped \in SUBSET Txns :
        tm = [t \in Txns |-> [scoped |-> t \in scoped, entry |-> None, made |-> FALSE,
                              deadline |-> 0, on |-> FALSE, due |-> 0, fired |-> 0,
                              asked |-> 0, read |-> 0]]
  BY <1>1, Zenon DEF Init
<1>6. DesignOK
  <2>1. \A t \in Txns : (t \in scoped) \in BOOLEAN
    OBVIOUS
  <2>2. tm \in [Txns -> TmRec]
    BY <1>5, <2>1 DEF TmRec
  <2>3. ent \in [Entries -> EntRec]
    BY DEF Init, EntRec
  <2> QED BY <2>2, <2>3, DesignTypes DEF Init
<1>7. \A t \in Txns : /\ tm[t].entry = None /\ tm[t].made = FALSE /\ tm[t].on = FALSE
                      /\ tm[t].fired = 0
  BY <1>5
<1>8. Held /\ Alone
  BY <1>7 DEF Init, Held, Alone
<1>9. Owned /\ Called /\ Armed
  BY DEF Init, Owned, Called, Armed
<1> QED BY <1>1, <1>2, <1>3, <1>4, <1>6, <1>8, <1>9 DEF PathInv, QueueInv, DesignInv, Init

\* Every step keeps it, on the path that the process has taken.
LEMMA PathStep == PathInv /\ [Next]_vars => PathInv'
<1> SUFFICES ASSUME PathInv, [Next]_vars PROVE PathInv'
  OBVIOUS
<1>1. CASE UNCHANGED vars
  <2>1. UNCHANGED <<design, now, tx, lk, tm, ent, calls, node, sh, root, d>>
    BY <1>1 DEF vars, dvars, qvars
  <2>2. (QueueInv /\ Fired)' = (QueueInv /\ Fired)
    BY <2>1 DEF QueueInv, QueueOK, Phased, Asked, Lower, Found, Matched, Settled, InOrder,
                DrainerFor, InHand, InReady, Handed, IsOf, Done, Fired
  <2>3. DesignInv' = DesignInv
    BY <2>1 DEF DesignInv, QueueOK, DesignOK, Held, Alone, Owned, Called, Armed, ByEntry,
                ByTimer, InCalls, OnTime, Rings
  <2>4. DesignOK' = DesignOK
    BY <2>1 DEF DesignOK
  <2> QED BY <2>1, <2>2, <2>3, <2>4 DEF PathInv
<1>2. CASE Tick
  <2>1. UNCHANGED <<design, tm, ent, calls>>
    BY <1>2 DEF Tick, dvars
  <2>2. DesignOK => DesignOK'
    BY <2>1 DEF DesignOK
  <2>3. CASE design
    BY <1>2, <2>1, <2>3, DesignTick DEF PathInv
  <2>4. CASE ~design
    BY <1>2, <2>1, <2>2, <2>4, QueueStep, FiredStep DEF PathInv
  <2> QED BY <2>3, <2>4 DEF PathInv
<1>3. CASE ~design /\ Queued /\ UNCHANGED <<design, dvars>>
  <2>1. UNCHANGED <<design, tm, ent, calls>>
    BY <1>3 DEF dvars
  <2>2. DesignOK => DesignOK'
    BY <2>1 DEF DesignOK
  <2> QED BY <1>3, <2>1, <2>2, QueueStep, FiredStep DEF PathInv
<1>4. CASE design /\ Designed /\ UNCHANGED <<design, qvars>>
  BY <1>4, DesignStep DEF PathInv
<1> QED BY <1>1, <1>2, <1>3, <1>4 DEF Next

\* The inductive invariant holds on both paths (armTimeoutLocked).
THEOREM TimeoutInvariant == Spec => []PathInv
BY PathInit, PathStep, PTL DEF Spec

\* Every variable of the queue and of the timers keeps its type; no sequence number
\* is from the future.
THEOREM QueueTypeCorrect == Spec => []TypeOK
<1>1. PathInv => TypeOK
  BY DEF PathInv, QueueInv, DesignInv, TypeOK
<1> QED BY <1>1, TimeoutInvariant, PTL

\* On the queue (FDBGO_NET_DESIGN=0 or legacy, or a hooked queue) timeouts are
\* resumed in the order of their arms, across the shards (deliverReady): when one is
\* handed over, none that was armed before it and due at the time of the cohort is
\* still waiting.
THEOREM ArmsInOrderHolds == Spec => []ArmsInOrder
<1>1. PathInv => ArmsInOrder
  BY DEF PathInv, QueueInv, InOrder, ArmsInOrder
<1> QED BY <1>1, TimeoutInvariant, PTL

\* No timeout comes before its deadline: what the drainer of the queue
\* (deliverReady) or the callback of a timer (designTimerEntry.fire,
\* fireDesignTimeout) takes to fireTimeout is of an arm that is over, or whose
\* deadline has passed.
THEOREM NeverBeforeDeadlineHolds == Spec => []NeverBeforeDeadline
<1>1. PathInv => NeverBeforeDeadline
  <2> SUFFICES ASSUME PathInv PROVE NeverBeforeDeadline
    OBVIOUS
  <2>1. CASE design
    BY <2>1 DEF PathInv, DesignInv, Called, NeverBeforeDeadline
  <2>2. CASE ~design
    <3>1. QueueInv /\ Fired /\ calls = {}
      BY <2>2 DEF PathInv
    <3>2. ASSUME d.pc = "fire", NEW r \in d.hold, tx[r.t].arm = r.arm
          PROVE  node[r.t].deadline <= now
      <4>1. r.t \in Txns
        BY <3>1, <3>2 DEF QueueInv, Phased, Ready
      <4>2. node[r.t].deadline \in Nat /\ d.now \in Nat /\ now \in Nat
        BY <3>1, <4>1, Fields DEF QueueInv
      <4> QED BY <3>1, <3>2, <4>2 DEF Fired
    <3> QED BY <3>1, <3>2 DEF NeverBeforeDeadline
  <2> QED BY <2>1, <2>2 DEF PathInv
<1> QED BY <1>1, TimeoutInvariant, PTL

\* The queue: an armed timeout that nobody is working on is in its heap in time.
LEMMA QueueWakes ==
  ASSUME QueueInv, NEW t \in Txns, tx[t].armed, lk[t] = "free"
  PROVE  WithDrainer(t) \/ InHeap(t)
<1>0. QueueOK /\ Shard[t] \in Shards
  BY Fields DEF QueueInv
<1>1. CASE node[t].at # "heap"
  BY <1>1 DEF QueueInv, Found, InHand, InReady, Handed, IsOf, WithDrainer
<1>2. CASE node[t].at = "heap"
  <2>1. node[t].wake <= node[t].desiredWake
    BY <1>2 DEF QueueInv, Lower
  <2>2. ASSUME ~DrainerFor(Shard[t])
        PROVE  sh[Shard[t]].on /\ sh[Shard[t]].due <= Head(Shard[t])
    <3>1. /\ \A o \in Txns : Shard[o] = Shard[t] /\ node[o].at = "heap" =>
               sh[Shard[t]].requested /\ sh[Shard[t]].reqAt <= node[o].wake
          /\ sh[Shard[t]].requested =>
               sh[Shard[t]].fired > 0 \/ (sh[Shard[t]].on /\ sh[Shard[t]].due = sh[Shard[t]].reqAt)
      BY <1>0, <2>2 DEF QueueInv, Asked
    <3>2. ~(sh[Shard[t]].fired > 0)
      BY <1>0, <2>2 DEF DrainerFor
    <3>3. sh[Shard[t]].on /\ sh[Shard[t]].due = sh[Shard[t]].reqAt
      BY <1>2, <3>1, <3>2
    <3>4. PICK o \in heap(Shard[t]) : Head(Shard[t]) = node[o].wake
      <4>1. heap(Shard[t]) # {}
        BY <1>2 DEF heap
      <4> QED BY <1>0, <4>1, HeadLeast
    <3>5. sh[Shard[t]].reqAt <= node[o].wake
      BY <3>1, <3>4 DEF heap
    <3> QED BY <3>3, <3>4, <3>5
  <2> QED BY <1>2, <2>1, <2>2 DEF InHeap
<1> QED BY <1>1, <1>2

\* The timers: an armed timeout is called, or its entry or its timer comes in time.
LEMMA TimerWakes ==
  ASSUME DesignInv, NEW t \in Txns, tx[t].armed, lk[t] = "free"
  PROVE  OwnTimer(t)
<1>0. DesignOK
  BY DEF DesignInv
<1>1. ByEntry(t) \/ ByTimer(t)
  BY DEF DesignInv, Armed
<1>2. ASSUME InCalls(t)
      PROVE  [t |-> t, arm |-> tx[t].arm] \in calls
  <2>1. PICK c \in calls : c.t = t /\ c.arm = tx[t].arm
    BY <1>2 DEF InCalls
  <2>2. c \in CallRec
    BY <1>0, DesignTypes
  <2>3. c = [t |-> t, arm |-> tx[t].arm]
    BY <2>1, <2>2 DEF CallRec
  <2> QED BY <2>3
<1>3. CASE ByTimer(t)
  BY <1>2, <1>3 DEF ByTimer, OwnTimer
<1>4. CASE ByEntry(t) /\ ~InCalls(t)
  <2>1. PICK e \in Entries : e = tm[t].entry
    BY <1>0, <1>4, DesignFields DEF ByEntry
  <2>2. /\ ent[e].tx = t /\ ent[e].arm = tx[t].arm
        /\ ent[e].nextFire # 0 /\ ent[e].nextFire <= tm[t].asked
    BY <1>4, <2>1 DEF ByEntry
  <2>3. ent[e].deadline = tm[t].asked
    BY <1>0, <2>2, DesignFields DEF DesignInv, Owned
  <2>4. ent[e].fired > 0 \/ (ent[e].on /\ ent[e].due = ent[e].nextFire + ent[e].slip)
    BY <2>2 DEF DesignInv, Owned
  <2>5. ent[e].due \in Nat /\ ent[e].slip \in Nat /\ ent[e].nextFire \in Nat
    BY <1>0, DesignFields
  <2>6. Rings(t, ent[e], ent[e].slip)
    BY <2>2, <2>4, <2>5 DEF Rings, OnTime
  <2> QED BY <1>4, <2>1, <2>2, <2>3, <2>6 DEF OwnTimer, ByEntry
<1>5. CASE ByEntry(t) /\ InCalls(t)
  BY <1>2, <1>5 DEF OwnTimer
<1> QED BY <1>1, <1>3, <1>4, <1>5

\* No wake is lost.  By default (armDesignTimerLocked, fire, fireDesignTimeout,
\* releaseTransactTimeout) an armed timeout has a callback under way, or an entry or
\* a timer that is set for its present arm and in time.  On the queue (schedule,
\* fire, collect, and the exit of the drainer) the drainer has it, or it is in its
\* heap no later than it should wake, with a drainer on its way or the shard's timer
\* set for the head of the heap.
THEOREM NoLostWakeHolds == Spec => []NoLostWake
<1>1. PathInv => NoLostWake
  <2> SUFFICES ASSUME PathInv, NEW t \in Txns, tx[t].armed, lk[t] = "free"
               PROVE  IF design THEN OwnTimer(t) ELSE WithDrainer(t) \/ InHeap(t)
    BY DEF NoLostWake
  <2>1. CASE design
    BY <2>1, TimerWakes DEF PathInv
  <2>2. CASE ~design
    BY <2>2, QueueWakes DEF PathInv
  <2> QED BY <2>1, <2>2 DEF PathInv
<1> QED BY <1>1, TimeoutInvariant, PTL
=============================================================================
