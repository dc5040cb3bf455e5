--------------------------- MODULE GrvCacheProofs ---------------------------
(***************************************************************************)
(* Why the read-version cache may be shared without a lock: the proof that *)
(* its load / merge / compare-and-swap loops keep their promises for any   *)
(* number of goroutines, clusters, invalidations and versions.             *)
(***************************************************************************)
EXTENDS GrvCache, TLAPS

-----------------------------------------------------------------------------
(* The inductive invariant, by concern. *)

\* The proxies in use are those of the fence's epoch, or of one before it while
\* installProxySet is under way.
Handoff ==
  /\ dbEpoch <= fence.epoch
  /\ monitor \in {"idle", "pending"} => dbEpoch = fence.epoch
  /\ monitor = "pending" => fence.epoch < MaxEpoch

\* e was the entry before f, or is f: it is f if their pointers are equal, and
\* what may not go back did not.
Older(e, f) ==
  /\ e.id <= f.id
  /\ e.id = f.id => e = f
  /\ e.epoch <= f.epoch
  /\ e.epoch = f.epoch => e.floor <= f.floor /\ \A q \in Prios : e.rk[q] <= f.rk[q]

\* Tokens and loaded fences are past values of the fence word fe, the fences of
\* a swap no older than its token and the entry it replaces.
PubFenced(r, en, fe) ==
  /\ Older(r.cur, en)
  /\ r.tok.epoch <= fe.epoch /\ r.tok.gen <= fe.gen
  /\ r.obs.epoch <= fe.epoch /\ r.obs.gen <= fe.gen
  /\ r.pc = "cas" => r.tok.epoch <= r.obs.epoch /\ r.cur.epoch <= r.obs.epoch

InvFenced(r, en, fe) == Older(r.cur, en) /\ r.gen <= fe.gen

Fenced ==
  /\ entry.epoch <= fence.epoch
  /\ Older(Nil, entry)
  /\ \A p \in Pubs : PubFenced(pub[p], entry, fence)
  /\ \A i \in Invs : InvFenced(inv[i], entry, fence)
  /\ \A r \in Readers : rdr[r].e.epoch <= fence.epoch

\* v is no version, or one that cluster e has handed out according to c.
Issued(c, e, v) == v = 0 \/ (Start[e] <= v /\ v <= c[e])

EntryIssued(c, en) == Issued(c, en.epoch, en.version) /\ Issued(c, en.epoch, en.floor)

Answered(r) == r.pc \notin {"idle", "sent"}

\* Entries, stamps and replies hold versions of the cluster of their epoch.
Scoped ==
  /\ EntryIssued(cluster, entry)
  /\ Issued(cluster, stamp.epoch, stamp.version)
  /\ \A p \in Pubs :
       /\ EntryIssued(cluster, pub[p].cur)
       /\ Answered(pub[p]) => pub[p].v # 0 /\ Issued(cluster, pub[p].tok.epoch, pub[p].v)

\* What the commits of the current cluster have reported is in the floor.
Floored ==
  /\ \A e \in Epochs : e > fence.epoch => reported[e] = 0
  /\ reported[fence.epoch] # 0 =>
       entry.epoch = fence.epoch /\ reported[fence.epoch] <= entry.floor
  /\ \A r \in Readers :
       /\ rdr[r].pc = "loaded" /\ rdr[r].e.epoch = fence.epoch => rdr[r].need <= rdr[r].e.floor
       /\ rdr[r].pc = "served" => rdr[r].need <= rdr[r].e.version

\* What the replies of the current cluster have throttled is in the cooldowns.
Cooled ==
  /\ \A e \in Epochs, q \in Prios : e > fence.epoch => throttled[e][q] = 0
  /\ \A q \in Prios : throttled[fence.epoch][q] # 0 =>
       entry.epoch = fence.epoch /\ throttled[fence.epoch][q] <= entry.rk[q]
  /\ \A r \in Readers :
       /\ rdr[r].pc = "loaded" /\ rdr[r].e.epoch = fence.epoch /\ rdr[r].prio # Immediate
            => rdr[r].cool <= rdr[r].e.rk[rdr[r].prio]
       /\ rdr[r].prio = Immediate => rdr[r].cool = 0
       /\ rdr[r].pc = "served" /\ rdr[r].cool # 0
            => rdr[r].t - rdr[r].cool >= GrvCacheRKCooldown

\* A version in the entry was asked for after the last sentinel, and so was one
\* that a swap may still install.
Swept ==
  /\ retired.swept <= fence.gen
  /\ entry.version # 0 => retired.swept <= born
  /\ \A p \in Pubs :
       pub[p].pc = "cas" /\ pub[p].obs = pub[p].tok /\ pub[p].cur.id = entry.id
         => retired.swept <= pub[p].tok.gen
  /\ \A r \in Readers :
       rdr[r].pc = "served" \/ rdr[r].e.version # 0 => rdr[r].swept <= rdr[r].born

\* v is at least what cluster e had handed out by t, according to the history h
\* of the instants up to n.
Fresh(h, n, e, v, t) == t \in 1 .. n /\ h[e][t] <= v

\* An entry's version is as fresh as the entry says.
Dated(h, n, en) ==
  IF en.version = 0 THEN en.freshness = 0 ELSE Fresh(h, n, en.epoch, en.version, en.freshness)

Timely ==
  /\ \A e \in Epochs : \A s, t \in 1 .. now : s <= t => atTick[e][s] <= atTick[e][t]
  /\ \A e \in Epochs : \A t \in 1 .. now : atTick[e][t] <= cluster[e]
  /\ Dated(atTick, now, entry)
  /\ \A p \in Pubs :
       /\ pub[p].pc = "sent" => pub[p].at \in 1 .. now
       /\ pub[p].pc \in {"replied", "loaded", "cas"} =>
            Fresh(atTick, now, pub[p].tok.epoch, pub[p].v, pub[p].at)
  /\ \A r \in Readers :
       /\ rdr[r].pc = "loaded" => Dated(atTick, now, rdr[r].e)
       /\ rdr[r].pc = "served" =>
            /\ Fresh(atTick, now, rdr[r].e.epoch, rdr[r].e.version, rdr[r].e.freshness)
            /\ rdr[r].t - MaxVersionCacheLag <= rdr[r].e.freshness

-----------------------------------------------------------------------------
(* Types *)

\* The versions a cluster hands out are versions, and versions are positive.
LEMMA VersionFacts ==
  /\ \A e \in Epochs : Start[e] \in Nat \ {0} /\ Cap(e) \in Nat
  /\ \A e \in Epochs : \A v \in Start[e] .. Cap(e) : v \in Versions
  /\ \A v \in Versions : v \in Nat \ {0}
<1>1. \A e \in Epochs : Start[e] \in Nat \ {0} /\ Cap(e) \in Nat
  BY StartAssumption, BoundsAssumption DEF Cap
<1> QED
  BY <1>1 DEF Versions

\* The versions of a cluster stay within its bound, and a switch that is pending
\* has an epoch to go to.
Ranges ==
  /\ \A e \in Epochs : cluster[e] \in Start[e] .. Cap(e)
  /\ monitor = "pending" => fence.epoch < MaxEpoch

TypeInv == TypeOK /\ Ranges

LEMMA NilTypes ==
  /\ Nil \in Entries /\ NilStamp \in Stamps /\ NoFence \in Fence
  /\ IdlePub \in PubStates /\ IdleInv \in InvStates /\ IdleReader \in ReaderStates
<1>1. 0 \in Epochs /\ 0 \in Times /\ 0 \in 0 .. MaxGen
  BY BoundsAssumption DEF Epochs, Times
<1>2. Zeros \in [Prios -> Times]
  BY <1>1 DEF Zeros
<1>3. Nil \in Entries
  BY <1>1, <1>2 DEF Nil, Entries
<1>4. NilStamp \in Stamps /\ NoFence \in Fence
  BY <1>1 DEF NilStamp, Stamps, NoFence, Fence
<1>5. IdlePub \in PubStates
  BY <1>1, <1>3, <1>4 DEF IdlePub, PubStates, Pcs
<1> QED
  BY <1>1, <1>3, <1>4, <1>5 DEF IdleInv, InvStates, IdleReader, ReaderStates

\* What mergeReply makes of an entry is an entry.
LEMMA MergeType ==
  ASSUME NEW cur \in Entries, NEW obs \in Fence, NEW r \in PubStates, NEW n \in Nat
  PROVE  [mergeReply(cur, obs, r) EXCEPT !.id = n] \in Entries
<1> DEFINE base == MergeBase(cur, obs, r)
           rk   == MergedRK(base, obs, r)
           fl   == MergedFloor(cur, obs, r)
<1>1. base \in Entries
  BY NilTypes DEF MergeBase, Entries
<1>2. rk \in [Prios -> Times]
  BY <1>1, BoundsAssumption DEF MergedRK, Entries, PubStates, Larger, Times
<1>3. fl \in {0} \cup Versions
  BY <1>1, VersionFacts DEF MergedFloor, Entries, PubStates, Larger
<1>4. Smaller(base.anchor, r.at) \in Times /\ Larger(base.freshness, r.at) \in Times
  BY <1>1, BoundsAssumption DEF Entries, PubStates, Larger, Smaller, Times
<1>5. base.epoch \in Epochs /\ obs.epoch \in Epochs /\ r.v \in {0} \cup Versions /\ r.at \in Times
  BY <1>1 DEF Entries, PubStates, Fence
<1>6. mergeReply(cur, obs, r) =
        LET kept == IF Installs(cur, obs, r)
                THEN [base EXCEPT
                        !.version = r.v,
                        !.anchor = IF r.v = base.version THEN Smaller(base.anchor, r.at)
                                                         ELSE r.at,
                        !.freshness = Larger(base.freshness, r.at)]
                ELSE base
        IN [kept EXCEPT !.rk = rk, !.floor = fl,
                        !.epoch = IF SameEpoch(obs, r) THEN obs.epoch ELSE base.epoch]
  BY DEF mergeReply
<1> HIDE DEF base, rk, fl
<1> QED
  BY <1>1, <1>2, <1>3, <1>4, <1>5, <1>6 DEF Entries

\* Every atomic access keeps the variables in their types.
LEMMA TypeStep == TypeInv /\ [Next]_vars => TypeInv'
<1> SUFFICES ASSUME TypeInv, [Next]_vars PROVE TypeInv'
  OBVIOUS
<1> USE DEF TypeInv, TypeOK, Ranges
<1>n. \A n, m \in 0 .. MaxGen : Larger(n, m) \in 0 .. MaxGen
  BY DEF Larger
<1>v. \A v, w \in {0} \cup Versions : Larger(v, w) \in {0} \cup Versions
  BY DEF Larger
<1>t. now \in Times /\ \A s, t \in Times : Larger(s, t) \in Times
  BY DEF Larger, Times
<1>0. ASSUME NEW p \in Pubs, NEW rec \in PubStates, pub' = [pub EXCEPT ![p] = rec]
      PROVE  pub' \in [Pubs -> PubStates]
  BY <1>0
<1>1. ASSUME NEW p \in Pubs, NEW d \in BOOLEAN, Dispatch(p, d) PROVE TypeInv'
  <2>1. [IdlePub EXCEPT !.pc = "sent", !.durable = d, !.tok = fence, !.at = now] \in PubStates
    BY NilTypes, <1>t DEF PubStates, Pcs
  <2> QED
    BY <1>0, <1>1, <2>1 DEF Dispatch, Step, cacheVars, histVars
<1>2. ASSUME NEW p \in Pubs, Answer(p) PROVE TypeInv'
  <2>1. PICK v \in cluster[dbEpoch] .. Smaller(cluster[dbEpoch] + 1, Cap(dbEpoch)),
             thr \in SUBSET Prios :
          /\ Step(p, "sent", [pub[p] EXCEPT !.pc = "replied", !.tok.epoch = dbEpoch,
                                            !.v = v, !.rt = now, !.thr = thr])
          /\ cluster' = [cluster EXCEPT ![dbEpoch] = v]
          /\ UNCHANGED <<cacheVars, inv, rdr, now, atTick, born, histVars>>
    BY <1>2 DEF Answer
  <2>2. v \in Start[dbEpoch] .. Cap(dbEpoch) /\ v \in Versions
    <3>1. cluster[dbEpoch] \in Start[dbEpoch] .. Cap(dbEpoch) /\ Start[dbEpoch] \in Nat
            /\ Cap(dbEpoch) \in Nat
      BY VersionFacts
    <3>2. v \in Start[dbEpoch] .. Cap(dbEpoch)
      BY <3>1 DEF Smaller
    <3> QED
      BY <3>2, VersionFacts
  <2>3. pub[p] \in PubStates
    OBVIOUS
  <2>4. [pub[p] EXCEPT !.pc = "replied", !.tok.epoch = dbEpoch, !.v = v, !.rt = now,
                       !.thr = thr] \in PubStates
    BY <2>2, <2>3, <1>t DEF PubStates, Pcs, Fence
  <2> QED
    BY <1>0, <2>1, <2>2, <2>4 DEF Step, cacheVars, histVars
<1>3. ASSUME NEW p \in Pubs, Fail(p) PROVE TypeInv'
  BY <1>3, NilTypes DEF Fail, Step, cacheVars, histVars
<1>4. ASSUME NEW p \in Pubs, LoadEntry(p) PROVE TypeInv'
  <2>0. pub[p] \in PubStates
    OBVIOUS
  <2>1. [pub[p] EXCEPT !.pc = "loaded", !.cur = entry] \in PubStates
    BY <2>0 DEF PubStates, Pcs
  <2> QED
    BY <1>0, <1>4, <2>1 DEF LoadEntry, Step, cacheVars, histVars
<1>5. ASSUME NEW p \in Pubs, Published(p)
      PROVE  /\ pub' \in [Pubs -> PubStates]
             /\ reported' \in [Epochs -> {0} \cup Versions]
             /\ throttled' \in [Epochs -> [Prios -> Times]]
  <2>0. pub[p] \in PubStates
    OBVIOUS
  <2>1. [IdlePub EXCEPT !.pc = "applying", !.tok = pub[p].tok, !.v = pub[p].v] \in PubStates
    BY <2>0, NilTypes DEF PubStates, Pcs
  <2>2. pub' \in [Pubs -> PubStates]
    BY <1>5, <2>1, NilTypes DEF Published
  <2>3. pub[p].tok.epoch \in Epochs /\ pub[p].v \in {0} \cup Versions /\ pub[p].rt \in Times
    BY <2>0 DEF PubStates, Fence
  <2>4. reported' \in [Epochs -> {0} \cup Versions]
    BY <1>5, <2>3, <1>v DEF Published
  <2>5. throttled' \in [Epochs -> [Prios -> Times]]
    BY <1>5, <2>3, <1>t DEF Published
  <2> QED
    BY <2>2, <2>4, <2>5
<1>6. ASSUME NEW p \in Pubs, LoadFences(p) PROVE TypeInv'
  <2>0. pub[p] \in PubStates /\ fence \in Fence
    OBVIOUS
  <2>1. [pub[p] EXCEPT !.pc = "cas", !.obs = fence] \in PubStates
    BY <2>0 DEF PubStates, Pcs
  <2>2. pub' \in [Pubs -> PubStates] /\ reported' \in [Epochs -> {0} \cup Versions]
          /\ throttled' \in [Epochs -> [Prios -> Times]]
    BY <1>5, <1>6, <2>1 DEF LoadFences
  <2> QED
    BY <1>6, <2>2 DEF LoadFences, cacheVars
<1>7. ASSUME NEW p \in Pubs, CasEntry(p) PROVE TypeInv'
  <2>0. pub[p] \in PubStates
    OBVIOUS
  <2>1. pub[p].cur \in Entries /\ pub[p].obs \in Fence /\ pub[p].tok.gen \in 0 .. MaxGen
          /\ entry.id + 1 \in Nat
    BY <2>0 DEF PubStates, Fence, Entries
  <2>2. entry' \in Entries
    BY <1>7, <2>0, <2>1, MergeType DEF CasEntry
  <2>3. born' \in 0 .. MaxGen
    BY <1>7, <2>1 DEF CasEntry
  <2>4. Published(p)
    BY <1>7 DEF CasEntry
  <2> QED
    BY <1>5, <1>7, <2>2, <2>3, <2>4 DEF CasEntry
<1>8. ASSUME NEW p \in Pubs, CasEntryFails(p) PROVE TypeInv'
  <2>1. [pub[p] EXCEPT !.pc = "replied", !.cur = Nil, !.obs = NoFence] \in PubStates
    BY NilTypes DEF PubStates, Pcs
  <2> QED
    BY <1>0, <1>8, <2>1 DEF CasEntryFails, Step, cacheVars, histVars
<1>9. ASSUME NEW p \in Pubs, LoadStamp(p) PROVE TypeInv'
  <2>0. pub[p] \in PubStates /\ stamp \in Stamps
    OBVIOUS
  <2>1. [pub[p] EXCEPT !.pc = "stamping", !.scur = stamp] \in PubStates
    BY <2>0 DEF PubStates, Pcs
  <2> QED
    BY <1>0, <1>9, <2>1 DEF LoadStamp, Step, cacheVars, histVars
<1>10. ASSUME NEW p \in Pubs, CheckStampEpoch(p) PROVE TypeInv'
  <2>0. pub[p] \in PubStates
    OBVIOUS
  <2>1. [pub[p] EXCEPT !.pc = "stampcas"] \in PubStates
    BY <2>0 DEF PubStates, Pcs
  <2>2. pub' \in [Pubs -> PubStates]
    BY <1>10, <2>1, NilTypes DEF CheckStampEpoch
  <2> QED
    BY <1>10, <2>2 DEF CheckStampEpoch, cacheVars, histVars
<1>11. ASSUME NEW p \in Pubs, CasStamp(p) PROVE TypeInv'
  <2>0. pub[p] \in PubStates
    OBVIOUS
  <2>1. [pub[p] EXCEPT !.pc = "applying", !.scur = NilStamp] \in PubStates
    BY NilTypes DEF PubStates, Pcs
  <2>2. [id |-> stamp.id + 1, epoch |-> pub[p].tok.epoch, version |-> pub[p].v] \in Stamps
    BY <2>0 DEF PubStates, Fence, Stamps
  <2>3. pub' \in [Pubs -> PubStates] /\ stamp' \in Stamps
    BY <1>11, <2>1, <2>2, NilTypes DEF CasStamp
  <2> QED
    BY <1>11, <2>3 DEF CasStamp, histVars
<1>12. ASSUME NEW i \in Invs, BumpGen(i) PROVE TypeInv'
  <2>0. fence.gen \in 0 .. MaxGen /\ fence.gen < MaxGen
          /\ fence' = [fence EXCEPT !.gen = fence.gen + 1]
    BY <1>12 DEF BumpGen, Fence
  <2> DEFINE g == fence.gen + 1
  <2>a. g \in 0 .. MaxGen
    BY <2>0, BoundsAssumption
  <2>b. fence' = [fence EXCEPT !.gen = g]
    BY <2>0
  <2> HIDE DEF g
  <2>c. fence' \in Fence /\ fence'.epoch = fence.epoch
    BY <2>a, <2>b DEF Fence
  <2>1. fence.gen + 1 \in 0 .. MaxGen /\ fence' \in Fence /\ fence'.epoch = fence.epoch
    BY <2>a, <2>c DEF g
  <2>2. [IdleInv EXCEPT !.pc = "bumped", !.gen = fence.gen + 1] \in InvStates
    BY <2>1, NilTypes DEF InvStates
  <2>3. inv' \in [Invs -> InvStates]
    BY <1>12, <2>2 DEF BumpGen
  <2> QED
    BY <1>12, <2>1, <2>3 DEF BumpGen, histVars
<1>13. ASSUME NEW i \in Invs, NEW s \in BOOLEAN, InvalidateReturns(i, s)
       PROVE  inv' \in [Invs -> InvStates] /\ retired' \in [all : 0 .. MaxGen, swept : 0 .. MaxGen]
  <2>1. inv[i].gen \in 0 .. MaxGen
    BY DEF InvStates
  <2> QED
    BY <1>13, <1>n, <2>1, NilTypes DEF InvalidateReturns
<1>14. ASSUME NEW i \in Invs, InvLoad(i) PROVE TypeInv'
  <2>0. inv[i] \in InvStates
    OBVIOUS
  <2>1. [inv[i] EXCEPT !.pc = "loaded", !.cur = entry] \in InvStates
    BY <2>0 DEF InvStates
  <2>2. inv' \in [Invs -> InvStates] /\ retired' \in [all : 0 .. MaxGen, swept : 0 .. MaxGen]
    BY <1>13, <1>14, <2>1 DEF InvLoad
  <2> QED
    BY <1>14, <2>2 DEF InvLoad, cacheVars
<1>15. ASSUME NEW i \in Invs, InvCas(i) PROVE TypeInv'
  <2>1. [inv[i] EXCEPT !.pc = "bumped", !.cur = Nil] \in InvStates
    BY NilTypes DEF InvStates
  <2>2. inv' \in [Invs -> InvStates] /\ retired' \in [all : 0 .. MaxGen, swept : 0 .. MaxGen]
    BY <1>13, <1>15, <2>1 DEF InvCas
  <2>3. inv[i].cur \in Entries /\ 0 \in Times /\ entry.id + 1 \in Nat
    <3>1. inv[i].cur \in Entries
      BY DEF InvStates
    <3>2. 0 \in Times
      BY BoundsAssumption DEF Times
    <3>3. entry.id + 1 \in Nat
      BY DEF Entries
    <3> QED BY <3>1, <3>2, <3>3
  <2>4. [Sentinel(inv[i].cur) EXCEPT !.id = entry.id + 1] \in Entries
    <3>1. PICK c \in Entries : c = inv[i].cur
      BY <2>3
    <3>2. PICK n \in Nat : n = entry.id + 1
      BY <2>3
    <3>3. [[c EXCEPT !.version = 0, !.anchor = 0, !.freshness = 0] EXCEPT !.id = n] \in Entries
      BY <2>3 DEF Entries
    <3> QED BY <3>1, <3>2, <3>3 DEF Sentinel
  <2>5. entry' \in Entries
    BY <1>15, <2>4 DEF InvCas
  <2> QED
    BY <1>15, <2>2, <2>5 DEF InvCas
<1>16. ASSUME Adopt PROVE TypeInv'
  BY <1>16 DEF Adopt, histVars
<1>17. ASSUME BumpEpoch PROVE TypeInv'
  <2>1. fence' \in Fence
    BY <1>17, BoundsAssumption DEF BumpEpoch, Fence, Epochs
  <2> QED
    BY <1>17, <2>1 DEF BumpEpoch, histVars
<1>18. ASSUME ResetStamp PROVE TypeInv'
  <2>1. stamp' \in Stamps
    BY <1>18 DEF ResetStamp, Stamps, Fence
  <2> QED
    BY <1>18, <2>1 DEF ResetStamp, histVars
<1>19. ASSUME PublishProxies PROVE TypeInv'
  <2>1. dbEpoch' \in Epochs
    BY <1>19 DEF PublishProxies, Fence
  <2> QED
    BY <1>19, <2>1 DEF PublishProxies, histVars
<1>20. ASSUME NEW r \in Readers, ReadLoad(r) PROVE TypeInv'
  <2>1. PICK q \in Prios \cup {Immediate} :
          rdr' = [rdr EXCEPT ![r] =
                    [pc |-> "loaded", prio |-> q, e |-> entry, born |-> born,
                     need |-> reported[entry.epoch], all |-> retired.all,
                     swept |-> retired.swept,
                     cool |-> IF q = Immediate THEN 0 ELSE throttled[entry.epoch][q],
                     t |-> 0]]
    BY <1>20 DEF ReadLoad
  <2>2. entry.epoch \in Epochs /\ 0 \in Times
    BY BoundsAssumption DEF Entries, Times
  <2>3. (IF q = Immediate THEN 0 ELSE throttled[entry.epoch][q]) \in Times
    BY <2>2
  <2>4. rdr' \in [Readers -> ReaderStates]
    BY <2>1, <2>2, <2>3 DEF ReaderStates
  <2> QED
    BY <1>20, <2>4 DEF ReadLoad, cacheVars, histVars
<1>21. ASSUME NEW r \in Readers, ReadDecide(r) PROVE TypeInv'
  <2>0. rdr[r] \in ReaderStates
    OBVIOUS
  <2>1. [rdr[r] EXCEPT !.pc = "served", !.t = now] \in ReaderStates
    BY <2>0, <1>t DEF ReaderStates
  <2>2. rdr' \in [Readers -> ReaderStates]
    BY <1>21, <2>1, NilTypes DEF ReadDecide
  <2> QED
    BY <1>21, <2>2 DEF ReadDecide, cacheVars, histVars
<1>22. ASSUME Tick PROVE TypeInv'
  <2>1. now' \in 1 .. MaxNow
    BY <1>22, BoundsAssumption DEF Tick
  <2>2. \A e \in Epochs : cluster[e] \in {0} \cup Versions
    OBVIOUS
  <2>3. atTick' \in [Epochs -> [1 .. MaxNow -> {0} \cup Versions]]
    BY <1>22, <2>1, <2>2 DEF Tick
  <2> QED
    BY <1>22, <2>1, <2>3 DEF Tick, cacheVars, histVars
<1>23. ASSUME UNCHANGED vars PROVE TypeInv'
  BY <1>23 DEF vars, cacheVars, histVars
<1> QED
  BY <1>1, <1>2, <1>3, <1>4, <1>6, <1>7, <1>8, <1>9, <1>10, <1>11, <1>12, <1>14, <1>15,
     <1>16, <1>17, <1>18, <1>19, <1>20, <1>21, <1>22, <1>23
     DEF Next, PubNext, InvNext, Switch

\* The cache starts empty, at the first instant and at the first cluster's start.
LEMMA TypeInit == Init => TypeInv
<1> SUFFICES ASSUME Init PROVE TypeInv
  OBVIOUS
<1>1. 0 \in Epochs /\ 0 \in Times /\ 0 \in 0 .. MaxGen /\ 1 \in 1 .. MaxNow
  BY BoundsAssumption DEF Epochs, Times
<1>2. Zeros \in [Prios -> Times]
  BY <1>1 DEF Zeros
<1>3. Start \in [Epochs -> Versions] /\ \A e \in Epochs : Start[e] \in Start[e] .. Cap(e)
  <2>1. \A e \in Epochs : Start[e] \in Start[e] .. Cap(e)
    BY StartAssumption, BoundsAssumption DEF Cap
  <2> QED
    BY <2>1, StartAssumption, VersionFacts
<1>4. atTick \in [Epochs -> [1 .. MaxNow -> {0} \cup Versions]]
  BY <1>3 DEF Init
<1> QED
  BY <1>1, <1>2, <1>3, <1>4, NilTypes DEF Init, TypeInv, TypeOK, Ranges

\* The type invariant of the cache holds for any number of goroutines, clusters
\* and invalidations (grvCache, database, installProxySet).
THEOREM GrvTypeCorrect == Spec => []TypeInv
BY TypeInit, TypeStep, PTL DEF Spec

-----------------------------------------------------------------------------
(* Merging *)

\* The fields of mergeReply's result (mergeReply).
LEMMA MergeFields ==
  ASSUME NEW cur \in Entries, NEW obs \in Fence, NEW r \in PubStates
  PROVE  LET m    == mergeReply(cur, obs, r)
             base == MergeBase(cur, obs, r)
         IN  /\ m.epoch = IF SameEpoch(obs, r) THEN obs.epoch ELSE cur.epoch
             /\ m.floor = MergedFloor(cur, obs, r)
             /\ m.rk = MergedRK(base, obs, r)
             /\ m.version = IF Installs(cur, obs, r) THEN r.v ELSE base.version
             /\ m.freshness = IF Installs(cur, obs, r) THEN Larger(base.freshness, r.at)
                                                       ELSE base.freshness
             /\ m.anchor = IF Installs(cur, obs, r)
                             THEN IF r.v = base.version THEN Smaller(base.anchor, r.at)
                                                        ELSE r.at
                             ELSE base.anchor
<1> DEFINE base == MergeBase(cur, obs, r)
           rk   == MergedRK(base, obs, r)
           fl   == MergedFloor(cur, obs, r)
           in   == Installs(cur, obs, r)
           an   == IF r.v = base.version THEN Smaller(base.anchor, r.at) ELSE r.at
           fr   == Larger(base.freshness, r.at)
           ep   == IF SameEpoch(obs, r) THEN obs.epoch ELSE base.epoch
<1>1. base \in Entries
  BY NilTypes DEF MergeBase, Entries
<1>2. mergeReply(cur, obs, r) =
        [(IF in THEN [base EXCEPT !.version = r.v, !.anchor = an, !.freshness = fr] ELSE base)
           EXCEPT !.rk = rk, !.floor = fl, !.epoch = ep]
  BY DEF mergeReply
<1>3. ep = IF SameEpoch(obs, r) THEN obs.epoch ELSE cur.epoch
  BY DEF MergeBase
<1> HIDE DEF base, rk, fl, in, an, fr, ep
<1>4. LET m == mergeReply(cur, obs, r)
      IN  /\ m.epoch = ep /\ m.floor = fl /\ m.rk = rk
          /\ m.version = IF in THEN r.v ELSE base.version
          /\ m.freshness = IF in THEN fr ELSE base.freshness
          /\ m.anchor = IF in THEN an ELSE base.anchor
  BY <1>1, <1>2 DEF Entries
<1> QED
  BY <1>3, <1>4 DEF base, rk, fl, in, an, fr

\* The base of a merge is the entry it replaces or an empty one of its own epoch.
LEMMA MergeBases ==
  ASSUME NEW cur \in Entries, NEW obs \in Fence, NEW r \in PubStates
  PROVE  LET base == MergeBase(cur, obs, r)
         IN  IF SameEpoch(obs, r) /\ cur.epoch # obs.epoch
               THEN /\ base.version = 0 /\ base.anchor = 0 /\ base.freshness = 0
                    /\ base.floor = 0 /\ base.rk = Zeros
               ELSE base = cur
BY DEF MergeBase, Nil

\* g replaces f: no epoch, and within an epoch no floor and no cooldown, goes back.
Follows(f, g) ==
  /\ g.id = f.id + 1
  /\ f.epoch <= g.epoch
  /\ f.epoch = g.epoch => f.floor <= g.floor /\ \A q \in Prios : f.rk[q] <= g.rk[q]

LEMMA OlderFollows ==
  ASSUME NEW e \in Entries, NEW f \in Entries, NEW g \in Entries, Older(e, f),
         g = f \/ Follows(f, g)
  PROVE  Older(e, g)
<1>1. /\ e.id \in Nat /\ f.id \in Nat /\ g.id \in Nat
      /\ e.epoch \in Nat /\ f.epoch \in Nat /\ g.epoch \in Nat
      /\ e.floor \in Nat /\ f.floor \in Nat /\ g.floor \in Nat
      /\ \A q \in Prios : e.rk[q] \in Nat /\ f.rk[q] \in Nat /\ g.rk[q] \in Nat
  BY VersionFacts DEF Entries, Epochs, Times
<1> QED
  BY <1>1 DEF Older, Follows

\* A merge under fences no older than the entry it replaces follows it.
LEMMA MergeFollows ==
  ASSUME NEW cur \in Entries, NEW obs \in Fence, NEW r \in PubStates,
         cur.epoch <= obs.epoch
  PROVE  Follows(cur, [mergeReply(cur, obs, r) EXCEPT !.id = cur.id + 1])
<1> DEFINE m == mergeReply(cur, obs, r)
           n == [m EXCEPT !.id = cur.id + 1]
           base == MergeBase(cur, obs, r)
<1>1. cur.id + 1 \in Nat
  BY DEF Entries
<1>2. n \in Entries /\ [m EXCEPT !.id = 0] \in Entries
  BY <1>1, MergeType
<1>3. n.id = cur.id + 1 /\ n.epoch = m.epoch /\ n.floor = m.floor /\ n.rk = m.rk
  BY DEF mergeReply, MergeBase, Entries, Nil
<1>4. /\ m.epoch = IF SameEpoch(obs, r) THEN obs.epoch ELSE cur.epoch
      /\ m.floor = MergedFloor(cur, obs, r)
      /\ m.rk = MergedRK(base, obs, r)
  BY MergeFields
<1>5. IF SameEpoch(obs, r) /\ cur.epoch # obs.epoch THEN TRUE ELSE base = cur
  BY MergeBases
<1>6. /\ cur.epoch \in Nat /\ obs.epoch \in Nat /\ cur.floor \in Nat /\ r.v \in Nat
      /\ r.rt \in Nat /\ \A q \in Prios : cur.rk[q] \in Nat
  BY VersionFacts DEF Entries, Fence, PubStates, Epochs, Times
<1> HIDE DEF m, n, base
<1>7. base = cur => cur.floor <= m.floor /\ \A q \in Prios : cur.rk[q] <= m.rk[q]
  BY <1>4, <1>6 DEF MergedFloor, MergedRK, Larger, base
<1> QED
  BY <1>3, <1>4, <1>5, <1>6, <1>7 DEF Follows, m, n

-----------------------------------------------------------------------------
(* Fences and pointers *)

\* What is true of a goroutine between its accesses stays true while entries
\* follow one another and fences grow.
LEMMA FencedKept ==
  ASSUME NEW en \in Entries, NEW en2 \in Entries, NEW fe \in Fence, NEW fe2 \in Fence,
         en2 = en \/ Follows(en, en2), fe.epoch <= fe2.epoch, fe.gen <= fe2.gen
  PROVE  /\ \A r \in PubStates : PubFenced(r, en, fe) => PubFenced(r, en2, fe2)
         /\ \A r \in InvStates : InvFenced(r, en, fe) => InvFenced(r, en2, fe2)
<1>1. /\ fe.epoch \in Nat /\ fe2.epoch \in Nat /\ fe.gen \in Nat /\ fe2.gen \in Nat
  BY DEF Fence, Epochs
<1>2. ASSUME NEW r \in PubStates, PubFenced(r, en, fe) PROVE PubFenced(r, en2, fe2)
  <2>1. /\ r.tok.epoch \in Nat /\ r.tok.gen \in Nat /\ r.obs.epoch \in Nat /\ r.obs.gen \in Nat
        /\ r.cur \in Entries
    BY DEF PubStates, Fence, Epochs
  <2>2. Older(r.cur, en2)
    BY <1>2, <2>1, OlderFollows DEF PubFenced
  <2> QED
    BY <1>1, <1>2, <2>1, <2>2 DEF PubFenced
<1>3. ASSUME NEW r \in InvStates, InvFenced(r, en, fe) PROVE InvFenced(r, en2, fe2)
  <2>1. r.gen \in Nat /\ r.cur \in Entries
    BY DEF InvStates
  <2>2. Older(r.cur, en2)
    BY <1>3, <2>1, OlderFollows DEF InvFenced
  <2> QED
    BY <1>1, <1>3, <2>1, <2>2 DEF InvFenced
<1> QED
  BY <1>2, <1>3

\* A goroutine at rest holds nothing.
LEMMA IdleFenced ==
  ASSUME NEW en \in Entries, NEW fe \in Fence, Older(Nil, en)
  PROVE  PubFenced(IdlePub, en, fe) /\ InvFenced(IdleInv, en, fe)
BY BoundsAssumption DEF PubFenced, InvFenced, IdlePub, IdleInv, NoFence, Fence, Epochs

\* Every entry that is swapped in follows the one it replaces.
LEMMA EntryFollows ==
  TypeInv /\ Fenced /\ [Next]_vars => entry' = entry \/ Follows(entry, entry')
<1> SUFFICES ASSUME TypeInv, Fenced, [Next]_vars
             PROVE  entry' = entry \/ Follows(entry, entry')
  OBVIOUS
<1> USE DEF TypeInv, TypeOK
<1>1. ASSUME NEW p \in Pubs, CasEntry(p) PROVE Follows(entry, entry')
  <2>1. pub[p] \in PubStates
    OBVIOUS
  <2>2. pub[p].cur \in Entries /\ pub[p].obs \in Fence
    BY <2>1 DEF PubStates
  <2>3. pub[p].cur = entry /\ pub[p].cur.epoch <= pub[p].obs.epoch
    BY <1>1 DEF CasEntry, Fenced, PubFenced, Older
  <2>4. entry' = [mergeReply(pub[p].cur, pub[p].obs, pub[p]) EXCEPT !.id = entry.id + 1]
    BY <1>1 DEF CasEntry
  <2> HIDE DEF TypeInv
  <2> QED
    BY <2>1, <2>2, <2>3, <2>4, MergeFollows
<1>2. ASSUME NEW i \in Invs, InvCas(i) PROVE entry' = entry \/ Follows(entry, entry')
  <2>1. entry.id = inv[i].cur.id => inv[i].cur = entry
    BY DEF Fenced, InvFenced, Older
  <2>2. \A q \in Prios : entry.rk[q] \in Nat
    BY DEF Entries, Times
  <2>3. entry.floor \in Nat /\ entry.epoch \in Nat
    BY VersionFacts DEF Entries, Epochs
  <2>4. ASSUME entry.id = inv[i].cur.id PROVE Follows(entry, entry')
    <3>1. entry' = [Sentinel(entry) EXCEPT !.id = entry.id + 1]
      BY <1>2, <2>1, <2>4 DEF InvCas
    <3>2. entry'.id = entry.id + 1 /\ entry'.epoch = entry.epoch /\ entry'.floor = entry.floor
            /\ entry'.rk = entry.rk
      BY <3>1 DEF Sentinel, Entries
    <3> QED
      BY <2>2, <2>3, <3>2 DEF Follows
  <2> QED
    BY <1>2, <2>4 DEF InvCas
<1> QED
  BY <1>1, <1>2 DEF Next, PubNext, InvNext, Switch, vars, cacheVars, Dispatch, Answer, Fail,
     LoadEntry, LoadFences, CasEntryFails, LoadStamp, CheckStampEpoch, CasStamp, BumpGen,
     InvLoad, Adopt, BumpEpoch, ResetStamp, PublishProxies, ReadLoad, ReadDecide, Tick

\* The fence word never goes back.
LEMMA FenceGrows ==
  TypeInv /\ [Next]_vars => fence.epoch <= fence'.epoch /\ fence.gen <= fence'.gen
<1> SUFFICES ASSUME TypeInv, [Next]_vars
             PROVE  fence.epoch <= fence'.epoch /\ fence.gen <= fence'.gen
  OBVIOUS
<1>1. fence.epoch \in Nat /\ fence.gen \in Nat
  BY DEF TypeInv, TypeOK, Fence, Epochs
<1>2. ASSUME NEW i \in Invs, BumpGen(i) PROVE fence.epoch <= fence'.epoch /\ fence.gen <= fence'.gen
  BY <1>1, <1>2 DEF BumpGen, TypeInv, TypeOK, Fence
<1>3. ASSUME BumpEpoch PROVE fence.epoch <= fence'.epoch /\ fence.gen <= fence'.gen
  BY <1>1, <1>3 DEF BumpEpoch
<1>4. fence' = fence => fence.epoch <= fence'.epoch /\ fence.gen <= fence'.gen
  BY <1>1
<1> QED
  BY <1>2, <1>3, <1>4 DEF Next, PubNext, InvNext, Switch, vars, cacheVars, Dispatch, Answer,
     Fail, LoadEntry, LoadFences, CasEntry, CasEntryFails, LoadStamp, CheckStampEpoch, CasStamp,
     InvLoad, InvCas, Adopt, ResetStamp, PublishProxies, ReadLoad, ReadDecide, Tick

\* Handoff and Fenced are inductive.
LEMMA FencedStep == TypeInv /\ Handoff /\ Fenced /\ [Next]_vars => Handoff' /\ Fenced'
<1> SUFFICES ASSUME TypeInv, Handoff, Fenced, [Next]_vars PROVE Handoff' /\ Fenced'
  OBVIOUS
<1>t. TypeInv'
  BY TypeStep
<1>f. /\ fence \in Fence /\ fence' \in Fence /\ entry \in Entries /\ entry' \in Entries
      /\ \A p \in Pubs : pub[p] \in PubStates
      /\ \A i \in Invs : inv[i] \in InvStates
      /\ \A r \in Readers : rdr[r].e \in Entries
      /\ dbEpoch \in Nat /\ MaxEpoch \in Nat
  BY <1>t, BoundsAssumption DEF TypeInv, TypeOK, ReaderStates, Epochs
<1>e. fence.epoch \in Nat /\ fence'.epoch \in Nat /\ fence.gen \in Nat /\ fence'.gen \in Nat
      /\ entry.epoch \in Nat /\ entry'.epoch \in Nat
      /\ \A r \in Readers : rdr[r].e.epoch \in Nat
  BY <1>f DEF Fence, Entries, Epochs
<1>g. fence.epoch <= fence'.epoch /\ fence.gen <= fence'.gen
  BY FenceGrows
<1>o. entry' = entry \/ Follows(entry, entry')
  BY EntryFollows
<1>n. Older(Nil, entry')
  BY <1>f, <1>o, NilTypes, OlderFollows DEF Fenced
<1>p. \A p \in Pubs : PubFenced(pub[p], entry', fence')
  BY <1>f, <1>g, <1>o, FencedKept DEF Fenced
<1>i. \A i \in Invs : InvFenced(inv[i], entry', fence')
  BY <1>f, <1>g, <1>o, FencedKept DEF Fenced
<1>r. \A r \in Readers : rdr[r].e.epoch <= fence'.epoch
  BY <1>e, <1>g DEF Fenced
<1>z. PubFenced(IdlePub, entry', fence') /\ InvFenced(IdleInv, entry', fence')
  BY <1>f, <1>n, IdleFenced
<1>y. \A en \in Entries : Older(en, en)
  BY VersionFacts DEF Older, Entries, Epochs, Times
<1>s. entry' = entry => entry'.epoch <= fence'.epoch
  BY <1>e, <1>g DEF Fenced
<1>h. fence' = fence /\ dbEpoch' = dbEpoch /\ monitor' = monitor => Handoff'
  BY DEF Handoff
\* A step that changes one publisher and leaves the cache alone.
<1>q. ASSUME NEW p \in Pubs, NEW rec, pub' = [pub EXCEPT ![p] = rec],
             PubFenced(rec, entry', fence')
      PROVE  \A x \in Pubs : PubFenced(pub'[x], entry', fence')
  BY <1>p, <1>q DEF TypeInv, TypeOK
<1>k. ASSUME NEW p \in Pubs, NEW rec, pub' = [pub EXCEPT ![p] = rec],
             PubFenced(rec, entry', fence'), entry' = entry, inv' = inv, rdr' = rdr
      PROVE  Fenced'
  BY <1>i, <1>k, <1>n, <1>q, <1>r, <1>s DEF Fenced
<1>1. ASSUME NEW p \in Pubs, NEW d \in BOOLEAN, Dispatch(p, d) PROVE Handoff' /\ Fenced'
  <2> DEFINE rec == [IdlePub EXCEPT !.pc = "sent", !.durable = d, !.tok = fence, !.at = now]
  <2>1. rec.cur = Nil /\ rec.tok = fence /\ rec.obs = NoFence /\ rec.pc = "sent"
    BY DEF IdlePub
  <2>2. PubFenced(rec, entry', fence')
    BY <1>e, <1>g, <1>n, <2>1 DEF PubFenced, NoFence
  <2> QED
    BY <1>1, <1>h, <1>k, <2>2 DEF Dispatch, Step, cacheVars
<1>2. ASSUME NEW p \in Pubs, Answer(p) PROVE Handoff' /\ Fenced'
  <2>1. PICK v, thr :
          /\ Step(p, "sent", [pub[p] EXCEPT !.pc = "replied", !.tok.epoch = dbEpoch,
                                            !.v = v, !.rt = now, !.thr = thr])
          /\ UNCHANGED <<cacheVars, inv, rdr, now, atTick, born, histVars>>
    BY <1>2 DEF Answer
  <2> DEFINE rec == [pub[p] EXCEPT !.pc = "replied", !.tok.epoch = dbEpoch,
                                   !.v = v, !.rt = now, !.thr = thr]
  <2>2. rec.cur = pub[p].cur /\ rec.tok.epoch = dbEpoch /\ rec.tok.gen = pub[p].tok.gen
        /\ rec.obs = pub[p].obs /\ rec.pc = "replied"
    BY <1>f DEF PubStates, Fence
  <2>3. PubFenced(rec, entry', fence')
    <3>1. dbEpoch <= fence'.epoch
      BY <1>e, <1>f, <1>g DEF Handoff
    <3> HIDE DEF rec
    <3> QED
      BY <1>p, <2>2, <3>1 DEF PubFenced
  <2> QED
    BY <1>h, <1>k, <2>1, <2>3 DEF Step, cacheVars
<1>3. ASSUME NEW p \in Pubs, Fail(p) PROVE Handoff' /\ Fenced'
  BY <1>3, <1>h, <1>k, <1>z DEF Fail, Step, cacheVars
<1>4. ASSUME NEW p \in Pubs, LoadEntry(p) PROVE Handoff' /\ Fenced'
  <2> DEFINE rec == [pub[p] EXCEPT !.pc = "loaded", !.cur = entry]
  <2>1. rec.cur = entry /\ rec.tok = pub[p].tok /\ rec.obs = pub[p].obs /\ rec.pc = "loaded"
    BY <1>f DEF PubStates
  <2>2. entry' = entry
    BY <1>4 DEF LoadEntry, cacheVars
  <2>3. PubFenced(rec, entry', fence')
    <3> HIDE DEF rec
    <3> QED
      BY <1>f, <1>p, <1>y, <2>1, <2>2 DEF PubFenced
  <2> QED
    BY <1>4, <1>h, <1>k, <2>3 DEF LoadEntry, Step, cacheVars
\* What publishReplyAt returns to.
<1>5. ASSUME NEW p \in Pubs, Published(p)
      PROVE  \A x \in Pubs : PubFenced(pub'[x], entry', fence')
  <2> DEFINE rec == [IdlePub EXCEPT !.pc = "applying", !.tok = pub[p].tok, !.v = pub[p].v]
  <2>1. rec.cur = Nil /\ rec.tok = pub[p].tok /\ rec.obs = NoFence /\ rec.pc = "applying"
    BY DEF IdlePub
  <2>2. PubFenced(rec, entry', fence')
    <3> HIDE DEF rec
    <3> QED
      BY <1>e, <1>n, <1>p, <2>1 DEF PubFenced, NoFence
  <2> QED
    BY <1>5, <1>q, <1>z, <2>2 DEF Published
<1>6. ASSUME NEW p \in Pubs, LoadFences(p) PROVE Handoff' /\ Fenced'
  <2> DEFINE rec == [pub[p] EXCEPT !.pc = "cas", !.obs = fence]
  <2>1. rec.cur = pub[p].cur /\ rec.tok = pub[p].tok /\ rec.obs = fence /\ rec.pc = "cas"
    BY <1>f DEF PubStates
  <2>2. UNCHANGED <<cacheVars, inv, rdr>>
    BY <1>6 DEF LoadFences
  <2>3. PubFenced(rec, entry', fence')
    <3>1. pub[p].cur.epoch <= fence.epoch
      <4>1. pub[p].cur.epoch \in Nat
        BY <1>f DEF PubStates, Entries, Epochs
      <4> QED
        BY <1>e, <4>1 DEF Fenced, PubFenced, Older
    <3>2. pub[p].tok.epoch <= fence.epoch
      BY DEF Fenced, PubFenced
    <3>3. fence' = fence
      BY <2>2 DEF cacheVars
    <3> HIDE DEF rec
    <3> QED
      BY <1>e, <1>p, <2>1, <3>1, <3>2, <3>3 DEF PubFenced
  <2>4. \A x \in Pubs : PubFenced(pub'[x], entry', fence')
    BY <1>5, <1>6, <1>q, <2>3 DEF LoadFences
  <2> QED
    BY <1>h, <1>i, <1>n, <1>r, <1>s, <2>2, <2>4 DEF Fenced, cacheVars
<1>7. ASSUME NEW p \in Pubs, CasEntry(p) PROVE Handoff' /\ Fenced'
  <2>1. Published(p) /\ inv' = inv /\ rdr' = rdr /\ fence' = fence /\ dbEpoch' = dbEpoch
          /\ monitor' = monitor
    BY <1>7 DEF CasEntry
  <2>2. entry'.epoch <= fence'.epoch
    <3>1. entry' = [mergeReply(pub[p].cur, pub[p].obs, pub[p]) EXCEPT !.id = entry.id + 1]
            /\ pub[p].cur = entry
      BY <1>7 DEF CasEntry, Fenced, PubFenced, Older
    <3>2. entry'.epoch = mergeReply(pub[p].cur, pub[p].obs, pub[p]).epoch
      BY <3>1 DEF mergeReply, MergeBase, Entries, Nil
    <3>3. entry'.epoch \in {pub[p].obs.epoch, entry.epoch}
      BY <1>f, <3>1, <3>2, MergeFields DEF PubStates
    <3> QED
      BY <2>1, <3>3 DEF Fenced, PubFenced
  <2> QED
    BY <1>5, <1>h, <1>i, <1>n, <1>r, <2>1, <2>2 DEF Fenced
<1>8. ASSUME NEW p \in Pubs, CasEntryFails(p) PROVE Handoff' /\ Fenced'
  <2> DEFINE rec == [pub[p] EXCEPT !.pc = "replied", !.cur = Nil, !.obs = NoFence]
  <2>1. rec.cur = Nil /\ rec.tok = pub[p].tok /\ rec.obs = NoFence /\ rec.pc = "replied"
    BY <1>f DEF PubStates
  <2>2. PubFenced(rec, entry', fence')
    <3> HIDE DEF rec
    <3> QED
      BY <1>e, <1>n, <1>p, <2>1 DEF PubFenced, NoFence
  <2> QED
    BY <1>8, <1>h, <1>k, <2>2 DEF CasEntryFails, Step, cacheVars
<1>9. ASSUME NEW p \in Pubs, LoadStamp(p) PROVE Handoff' /\ Fenced'
  <2> DEFINE rec == [pub[p] EXCEPT !.pc = "stamping", !.scur = stamp]
  <2>1. rec.cur = pub[p].cur /\ rec.tok = pub[p].tok /\ rec.obs = pub[p].obs
          /\ rec.pc = "stamping"
    BY <1>f DEF PubStates
  <2>2. PubFenced(rec, entry', fence')
    <3> HIDE DEF rec
    <3> QED
      BY <1>p, <2>1 DEF PubFenced
  <2> QED
    BY <1>9, <1>h, <1>k, <2>2 DEF LoadStamp, Step, cacheVars
<1>10. ASSUME NEW p \in Pubs, CheckStampEpoch(p) PROVE Handoff' /\ Fenced'
  <2> DEFINE rec == [pub[p] EXCEPT !.pc = "stampcas"]
  <2>1. rec.cur = pub[p].cur /\ rec.tok = pub[p].tok /\ rec.obs = pub[p].obs
          /\ rec.pc = "stampcas"
    BY <1>f DEF PubStates
  <2>2. PubFenced(rec, entry', fence')
    <3> HIDE DEF rec
    <3> QED
      BY <1>p, <2>1 DEF PubFenced
  <2> QED
    BY <1>10, <1>h, <1>k, <1>z, <2>2 DEF CheckStampEpoch, cacheVars
<1>11. ASSUME NEW p \in Pubs, CasStamp(p) PROVE Handoff' /\ Fenced'
  <2> DEFINE rec == [pub[p] EXCEPT !.pc = "applying", !.scur = NilStamp]
  <2>1. rec.cur = pub[p].cur /\ rec.tok = pub[p].tok /\ rec.obs = pub[p].obs
          /\ rec.pc = "applying"
    BY <1>f DEF PubStates
  <2>2. PubFenced(rec, entry', fence')
    <3> HIDE DEF rec
    <3> QED
      BY <1>p, <2>1 DEF PubFenced
  <2> QED
    BY <1>11, <1>h, <1>k, <1>z, <2>2 DEF CasStamp
<1>12. ASSUME NEW i \in Invs, BumpGen(i) PROVE Handoff' /\ Fenced'
  <2>1. fence' = [fence EXCEPT !.gen = fence.gen + 1] /\ dbEpoch' = dbEpoch /\ monitor' = monitor
          /\ entry' = entry /\ pub' = pub /\ rdr' = rdr
          /\ inv' = [inv EXCEPT ![i] = [IdleInv EXCEPT !.pc = "bumped", !.gen = fence.gen + 1]]
    BY <1>12 DEF BumpGen
  <2>2. fence'.epoch = fence.epoch /\ fence'.gen = fence.gen + 1
    BY <1>f, <2>1 DEF Fence
  <2>3. InvFenced([IdleInv EXCEPT !.pc = "bumped", !.gen = fence.gen + 1], entry', fence')
    BY <1>e, <1>n, <2>2 DEF InvFenced, IdleInv
  <2>4. \A j \in Invs : InvFenced(inv'[j], entry', fence')
    BY <1>i, <2>1, <2>3 DEF TypeInv, TypeOK
  <2> QED
    BY <1>n, <1>p, <1>r, <1>s, <2>1, <2>2, <2>4 DEF Fenced, Handoff
\* The cache is left alone and one invalidator moves.
<1>13. ASSUME NEW i \in Invs, NEW rec, inv' = [inv EXCEPT ![i] = rec],
              InvFenced(rec, entry', fence'), entry'.epoch <= fence'.epoch, pub' = pub,
              rdr' = rdr
       PROVE  Fenced'
  <2>1. \A j \in Invs : InvFenced(inv'[j], entry', fence')
    BY <1>i, <1>13 DEF TypeInv, TypeOK
  <2> QED
    BY <1>13, <1>n, <1>p, <1>r, <2>1 DEF Fenced
<1>14. ASSUME NEW i \in Invs, InvLoad(i) PROVE Handoff' /\ Fenced'
  <2> DEFINE rec == [inv[i] EXCEPT !.pc = "loaded", !.cur = entry]
  <2>1. UNCHANGED <<cacheVars, pub, rdr>>
    BY <1>14 DEF InvLoad
  <2>2. rec.cur = entry /\ rec.gen = inv[i].gen
    BY <1>f DEF InvStates
  <2>3. InvFenced(rec, entry', fence')
    <3> HIDE DEF rec
    <3> QED
      BY <1>f, <1>i, <1>y, <2>1, <2>2 DEF InvFenced, cacheVars
  <2>4. inv' = [inv EXCEPT ![i] = IdleInv] \/ inv' = [inv EXCEPT ![i] = rec]
    BY <1>14 DEF InvLoad, InvalidateReturns
  <2> HIDE DEF rec
  <2> QED
    BY <1>13, <1>h, <1>s, <1>z, <2>1, <2>3, <2>4 DEF cacheVars
<1>15. ASSUME NEW i \in Invs, InvCas(i) PROVE Handoff' /\ Fenced'
  <2> DEFINE rec == [inv[i] EXCEPT !.pc = "bumped", !.cur = Nil]
  <2>1. pub' = pub /\ rdr' = rdr /\ fence' = fence /\ dbEpoch' = dbEpoch /\ monitor' = monitor
    BY <1>15 DEF InvCas
  <2>2. rec.cur = Nil /\ rec.gen = inv[i].gen
    BY <1>f DEF InvStates
  <2>3. InvFenced(rec, entry', fence')
    <3> HIDE DEF rec
    <3> QED
      BY <1>i, <1>n, <2>2 DEF InvFenced
  <2>4. inv' = [inv EXCEPT ![i] = IdleInv] \/ inv' = [inv EXCEPT ![i] = rec]
    BY <1>15 DEF InvCas, InvalidateReturns
  <2>5. entry'.epoch <= fence'.epoch
    <3>1. CASE entry.id = inv[i].cur.id
      <4>1. entry' = [Sentinel(inv[i].cur) EXCEPT !.id = entry.id + 1] /\ inv[i].cur = entry
        BY <1>15, <3>1 DEF InvCas, Fenced, InvFenced, Older
      <4>2. entry'.epoch = entry.epoch
        BY <1>f, <4>1 DEF Sentinel, Entries
      <4> QED
        BY <2>1, <4>2 DEF Fenced
    <3>2. CASE entry.id # inv[i].cur.id
      BY <1>15, <1>s, <3>2 DEF InvCas
    <3> QED
      BY <3>1, <3>2
  <2> HIDE DEF rec
  <2> QED
    BY <1>13, <1>h, <1>z, <2>1, <2>3, <2>4, <2>5
<1>16. ASSUME entry' = entry, pub' = pub, inv' = inv, rdr' = rdr PROVE Fenced'
  BY <1>16, <1>i, <1>n, <1>p, <1>r, <1>s DEF Fenced
<1>17. ASSUME Adopt PROVE Handoff' /\ Fenced'
  BY <1>16, <1>17 DEF Adopt, Handoff
<1>18. ASSUME BumpEpoch PROVE Handoff' /\ Fenced'
  BY <1>16, <1>18, <1>e, <1>f DEF BumpEpoch, Handoff
<1>19. ASSUME ResetStamp PROVE Handoff' /\ Fenced'
  BY <1>16, <1>19 DEF ResetStamp, Handoff
<1>20. ASSUME PublishProxies PROVE Handoff' /\ Fenced'
  BY <1>16, <1>20, <1>e DEF PublishProxies, Handoff
<1>21. ASSUME NEW r \in Readers, ReadLoad(r) \/ ReadDecide(r) PROVE Handoff' /\ Fenced'
  <2>1. UNCHANGED <<cacheVars, pub, inv>>
    BY <1>21 DEF ReadLoad, ReadDecide
  <2>2. rdr \in [Readers -> ReaderStates]
    BY DEF TypeInv, TypeOK
  <2>3. \A x \in Readers : rdr'[x].e \in {rdr[x].e, entry, Nil}
    <3>1. CASE ReadLoad(r)
      BY <2>2, <3>1 DEF ReadLoad
    <3>2. CASE ReadDecide(r)
      <4>1. [rdr[r] EXCEPT !.pc = "served", !.t = now].e = rdr[r].e
        BY <2>2 DEF ReaderStates
      <4>2. IdleReader.e = Nil
        BY DEF IdleReader
      <4>3. rdr' = [rdr EXCEPT ![r] = [rdr[r] EXCEPT !.pc = "served", !.t = now]]
              \/ rdr' = [rdr EXCEPT ![r] = IdleReader]
        BY <3>2 DEF ReadDecide
      <4> QED
        BY <2>2, <4>1, <4>2, <4>3
    <3> QED
      BY <1>21, <3>1, <3>2
  <2>4. \A x \in Readers : rdr'[x].e.epoch <= fence'.epoch
    BY <1>e, <1>r, <1>s, <2>1, <2>3 DEF cacheVars, Nil
  <2> QED
    BY <1>h, <1>i, <1>n, <1>p, <1>s, <2>1, <2>4 DEF Fenced, cacheVars
<1>22. ASSUME Tick PROVE Handoff' /\ Fenced'
  BY <1>16, <1>22, <1>h DEF Tick, cacheVars
<1>23. ASSUME UNCHANGED vars PROVE Handoff' /\ Fenced'
  BY <1>16, <1>23, <1>h DEF vars, cacheVars
<1> QED
  BY <1>1, <1>2, <1>3, <1>4, <1>6, <1>7, <1>8, <1>9, <1>10, <1>11, <1>12, <1>14, <1>15,
     <1>17, <1>18, <1>19, <1>20, <1>21, <1>22, <1>23
     DEF Next, PubNext, InvNext, Switch

-----------------------------------------------------------------------------
(* The floor *)

\* The entry that a successful swap publishes is the merge with the entry that
\* it replaces.
LEMMA SwapFields ==
  ASSUME TypeInv, Fenced, NEW p \in Pubs, CasEntry(p)
  PROVE  LET r    == pub[p]
             base == MergeBase(entry, r.obs, r)
             in   == Installs(entry, r.obs, r)
         IN  /\ r.cur = entry
             /\ entry'.epoch = IF SameEpoch(r.obs, r) THEN r.obs.epoch ELSE entry.epoch
             /\ entry'.floor = MergedFloor(entry, r.obs, r)
             /\ entry'.rk = MergedRK(base, r.obs, r)
             /\ entry'.version = IF in THEN r.v ELSE base.version
             /\ entry'.freshness = IF in THEN Larger(base.freshness, r.at) ELSE base.freshness
             /\ entry'.anchor = IF in THEN IF r.v = base.version
                                             THEN Smaller(base.anchor, r.at) ELSE r.at
                                      ELSE base.anchor
             /\ born' = IF in THEN r.tok.gen ELSE born
             /\ IF SameEpoch(r.obs, r) /\ entry.epoch # r.obs.epoch
                  THEN /\ base.version = 0 /\ base.anchor = 0 /\ base.freshness = 0
                       /\ base.floor = 0 /\ base.rk = Zeros
                  ELSE base = entry
<1> DEFINE r == pub[p]
           m == mergeReply(entry, r.obs, r)
<1>1. entry \in Entries /\ r \in PubStates /\ r.obs \in Fence
  BY DEF TypeInv, TypeOK, PubStates
<1>2. r.cur = entry /\ entry' = [m EXCEPT !.id = entry.id + 1]
        /\ born' = IF Installs(entry, r.obs, r) THEN r.tok.gen ELSE born
  BY DEF CasEntry, Fenced, PubFenced, Older
<1>3. /\ entry'.epoch = m.epoch /\ entry'.floor = m.floor /\ entry'.rk = m.rk
      /\ entry'.version = m.version /\ entry'.freshness = m.freshness
      /\ entry'.anchor = m.anchor
  BY <1>1, <1>2 DEF mergeReply, MergeBase, Entries, Nil
<1> HIDE DEF r, m
<1> QED
  BY <1>1, <1>2, <1>3, MergeFields, MergeBases DEF r, m

\* A step that is not one of these leaves the cache and the readers alone.
LEMMA QuietStep ==
  ASSUME [Next]_vars,
         ~\E p \in Pubs : LoadFences(p) \/ CasEntry(p),
         ~\E i \in Invs : BumpGen(i) \/ InvCas(i),
         ~BumpEpoch,
         ~\E r \in Readers : ReadLoad(r) \/ ReadDecide(r)
  PROVE  UNCHANGED <<fence, entry, rdr, born, reported, throttled>>
BY DEF Next, PubNext, InvNext, Switch, vars, cacheVars, histVars, Dispatch, Answer, Fail,
   LoadEntry, CasEntryFails, LoadStamp, CheckStampEpoch, CasStamp, InvLoad, Adopt, ResetStamp,
   PublishProxies, Tick

\* Floored is inductive: a commit reports its version only once the floor has it.
LEMMA FlooredStep ==
  TypeInv /\ Handoff /\ Fenced /\ Floored /\ [Next]_vars => Floored'
<1> SUFFICES ASSUME TypeInv, Handoff, Fenced, Floored, [Next]_vars PROVE Floored'
  OBVIOUS
<1>t. TypeInv'
  BY TypeStep
<1>f. /\ fence \in Fence /\ fence' \in Fence /\ entry \in Entries /\ entry' \in Entries
      /\ pub \in [Pubs -> PubStates] /\ inv \in [Invs -> InvStates]
      /\ rdr \in [Readers -> ReaderStates]
      /\ reported \in [Epochs -> {0} \cup Versions]
      /\ reported' \in [Epochs -> {0} \cup Versions]
  BY <1>t DEF TypeInv, TypeOK
<1>e. /\ fence.epoch \in Epochs /\ fence'.epoch \in Epochs /\ entry.epoch \in Epochs
      /\ entry.epoch \in Nat /\ fence.epoch \in Nat /\ fence'.epoch \in Nat
      /\ entry.floor \in Nat /\ entry'.floor \in Nat /\ entry'.epoch \in Nat
      /\ \A e \in Epochs : reported[e] \in Nat /\ reported'[e] \in Nat /\ e \in Nat
  <2>1. \A e \in Epochs : reported[e] \in Nat /\ reported'[e] \in Nat
    BY <1>f, VersionFacts
  <2>2. /\ entry.floor \in Nat /\ entry'.floor \in Nat
        /\ entry.epoch \in Epochs /\ entry'.epoch \in Epochs
    BY <1>f, VersionFacts DEF Entries
  <2> QED
    BY <1>f, <2>1, <2>2 DEF Fence, Epochs
<1>r. \A r \in Readers : /\ rdr[r].e.epoch \in Nat /\ rdr[r].need \in Nat
                         /\ rdr[r].e.floor \in Nat /\ rdr[r].e.version \in Nat
  <2>1. \A r \in Readers : rdr[r].e \in Entries /\ rdr[r].need \in {0} \cup Versions
    BY <1>f DEF ReaderStates
  <2> QED
    BY <2>1, VersionFacts DEF Entries, Epochs
<1>p. ASSUME NEW p \in Pubs
      PROVE  /\ pub[p].tok.epoch \in Epochs /\ pub[p].v \in Nat /\ pub[p].obs.epoch \in Nat
             /\ pub[p].tok.epoch <= fence.epoch /\ pub[p].obs.epoch <= fence.epoch
             /\ pub[p].cur \in Entries /\ pub[p].cur.epoch \in Nat /\ pub[p].cur.floor \in Nat
             /\ pub[p].obs \in Fence
  <2>1. pub[p] \in PubStates
    BY <1>f
  <2>2. pub[p].tok \in Fence /\ pub[p].obs \in Fence /\ pub[p].cur \in Entries
          /\ pub[p].v \in {0} \cup Versions
    BY <2>1 DEF PubStates
  <2>3. pub[p].tok.epoch \in Epochs /\ pub[p].obs.epoch \in Epochs
          /\ pub[p].cur.epoch \in Epochs /\ pub[p].cur.floor \in {0} \cup Versions
    BY <2>2 DEF Fence, Entries
  <2> QED
    BY <2>2, <2>3, VersionFacts DEF Fenced, PubFenced, Epochs
\* A return to the caller after which the floor of the current cluster is as
\* high as the version returned.
<1>a. ASSUME NEW p \in Pubs, Published(p), fence' = fence, rdr' = rdr,
             reported[fence.epoch] # 0 =>
               entry'.epoch = fence.epoch /\ reported[fence.epoch] <= entry'.floor,
             pub[p].durable /\ pub[p].tok.epoch = fence.epoch =>
               entry'.epoch = fence.epoch /\ pub[p].v <= entry'.floor
      PROVE  Floored'
  <2>1. \A e \in Epochs :
          reported'[e] = IF pub[p].durable /\ e = pub[p].tok.epoch
                           THEN Larger(reported[e], pub[p].v) ELSE reported[e]
    BY <1>a, <1>f, <1>p DEF Published
  <2>2. \A e \in Epochs : e > fence'.epoch => reported'[e] = 0
    BY <1>a, <1>e, <1>p, <2>1 DEF Floored
  <2>3. reported'[fence'.epoch] # 0 =>
          entry'.epoch = fence'.epoch /\ reported'[fence'.epoch] <= entry'.floor
    BY <1>a, <1>e, <1>p, <2>1 DEF Larger
  <2> QED
    BY <1>a, <2>2, <2>3 DEF Floored
<1>1. ASSUME NEW p \in Pubs, LoadFences(p) PROVE Floored'
  <2>1. UNCHANGED <<fence, entry, rdr>>
    BY <1>1 DEF LoadFences, cacheVars
  <2>2. CASE mergeReply(pub[p].cur, fence, pub[p]) = pub[p].cur
    <3>1. Published(p)
      BY <1>1, <2>2 DEF LoadFences
    <3>2. ASSUME pub[p].durable, pub[p].tok.epoch = fence.epoch
          PROVE  entry.epoch = fence.epoch /\ pub[p].v <= entry.floor
      <4>1. SameEpoch(fence, pub[p])
        BY <3>2 DEF SameEpoch
      <4>2. pub[p].cur.epoch = fence.epoch
              /\ pub[p].cur.floor = MergedFloor(pub[p].cur, fence, pub[p])
        BY <1>f, <1>p, <2>2, <4>1, MergeFields
      <4>3. MergeBase(pub[p].cur, fence, pub[p]) = pub[p].cur
        BY <4>2 DEF MergeBase
      <4>4. pub[p].v <= pub[p].cur.floor
        BY <1>p, <3>2, <4>1, <4>2, <4>3 DEF MergedFloor, Larger
      <4>5. Older(pub[p].cur, entry) /\ entry.epoch <= fence.epoch
        BY DEF Fenced, PubFenced
      <4> QED
        BY <1>e, <1>p, <4>2, <4>4, <4>5 DEF Older
    <3> QED
      BY <1>a, <2>1, <3>1, <3>2 DEF Floored
  <2>3. CASE mergeReply(pub[p].cur, fence, pub[p]) # pub[p].cur
    BY <1>1, <2>1, <2>3 DEF LoadFences, Floored
  <2> QED
    BY <2>2, <2>3
<1>2. ASSUME NEW p \in Pubs, CasEntry(p) PROVE Floored'
  <2> DEFINE r == pub[p]
             base == MergeBase(entry, r.obs, r)
  <2>1. Published(p) /\ fence' = fence /\ rdr' = rdr /\ r.pc = "cas"
    BY <1>2 DEF CasEntry
  <2>2. /\ entry'.epoch = IF SameEpoch(r.obs, r) THEN r.obs.epoch ELSE entry.epoch
        /\ entry'.floor = MergedFloor(entry, r.obs, r)
        /\ r.cur = entry
        /\ IF SameEpoch(r.obs, r) /\ entry.epoch # r.obs.epoch
             THEN base.floor = 0 ELSE base = entry
    BY <1>2, SwapFields
  <2>3. r.tok.epoch <= r.obs.epoch /\ entry.epoch <= r.obs.epoch
    BY <2>1, <2>2 DEF Fenced, PubFenced
  <2>4. entry'.floor = IF r.durable /\ SameEpoch(r.obs, r) THEN Larger(base.floor, r.v)
                                                           ELSE base.floor
    BY <2>2 DEF MergedFloor
  <2>5. base.floor \in Nat
    BY <1>e, <2>2
  <2> HIDE DEF base
  <2>6. reported[fence.epoch] # 0 =>
          entry'.epoch = fence.epoch /\ reported[fence.epoch] <= entry'.floor
    BY <1>e, <1>p, <2>2, <2>3, <2>4, <2>5 DEF Floored, Larger
  <2>7. r.durable /\ r.tok.epoch = fence.epoch =>
          entry'.epoch = fence.epoch /\ r.v <= entry'.floor
    BY <1>e, <1>p, <2>2, <2>3, <2>4, <2>5 DEF SameEpoch, Larger
  <2> QED
    BY <1>a, <2>1, <2>6, <2>7
<1>3. ASSUME NEW i \in Invs, BumpGen(i) PROVE Floored'
  <2>1. fence'.epoch = fence.epoch /\ UNCHANGED <<entry, rdr, reported>>
    BY <1>3, <1>f DEF BumpGen, histVars, Fence
  <2> QED
    BY <2>1 DEF Floored
<1>4. ASSUME NEW i \in Invs, InvCas(i) PROVE Floored'
  <2>1. UNCHANGED <<fence, rdr, reported>>
    BY <1>4 DEF InvCas
  <2>2. entry'.epoch = entry.epoch /\ entry'.floor = entry.floor
    <3>1. CASE entry.id = inv[i].cur.id
      <4>1. entry' = [Sentinel(entry) EXCEPT !.id = entry.id + 1]
        BY <1>4, <3>1 DEF InvCas, Fenced, InvFenced, Older
      <4> QED
        BY <1>f, <4>1 DEF Sentinel, Entries
    <3> QED
      BY <1>4, <3>1 DEF InvCas
  <2> QED
    BY <2>1, <2>2 DEF Floored
<1>5. ASSUME BumpEpoch PROVE Floored'
  <2>1. fence'.epoch = fence.epoch + 1 /\ UNCHANGED <<entry, rdr, reported>>
    BY <1>5 DEF BumpEpoch, histVars
  <2>2. \A r \in Readers : rdr[r].e.epoch <= fence.epoch
    BY DEF Fenced
  <2> QED
    BY <1>e, <1>r, <2>1, <2>2 DEF Floored
<1>6. ASSUME NEW r \in Readers, ReadLoad(r) PROVE Floored'
  <2>1. UNCHANGED <<fence, entry, reported>>
    BY <1>6 DEF ReadLoad, cacheVars, histVars
  <2>2. rdr'[r].pc = "loaded" /\ rdr'[r].e = entry /\ rdr'[r].need = reported[entry.epoch]
          /\ \A x \in Readers \ {r} : rdr'[x] = rdr[x]
    BY <1>6, <1>f DEF ReadLoad
  <2> QED
    BY <1>e, <2>1, <2>2 DEF Floored
<1>7. ASSUME NEW r \in Readers, ReadDecide(r) PROVE Floored'
  <2>1. UNCHANGED <<fence, entry, reported>>
    BY <1>7 DEF ReadDecide, cacheVars, histVars
  <2>2. \A x \in Readers \ {r} : rdr'[x] = rdr[x]
    BY <1>7, <1>f DEF ReadDecide
  <2>3. CASE tryCache(rdr[r].e, rdr[r].prio)
    <3>1. rdr'[r].pc = "served" /\ rdr'[r].e = rdr[r].e /\ rdr'[r].need = rdr[r].need
      BY <1>7, <1>f, <2>3 DEF ReadDecide, ReaderStates
    <3>2. rdr[r].pc = "loaded" /\ rdr[r].e.epoch = fence.epoch
            /\ rdr[r].e.version >= rdr[r].e.floor
      BY <1>7, <2>3 DEF ReadDecide, tryCache
    <3> QED
      BY <1>r, <2>1, <2>2, <3>1, <3>2 DEF Floored
  <2>4. CASE ~tryCache(rdr[r].e, rdr[r].prio)
    <3>1. rdr'[r].pc = "idle"
      BY <1>7, <1>f, <2>4 DEF ReadDecide, IdleReader
    <3> QED
      BY <2>1, <2>2, <3>1 DEF Floored
  <2> QED
    BY <2>3, <2>4
<1> QED
  <2>1. UNCHANGED <<fence, entry, rdr, reported>> => Floored'
    BY DEF Floored
  <2> QED
    BY <1>1, <1>2, <1>3, <1>4, <1>5, <1>6, <1>7, <2>1, QuietStep

-----------------------------------------------------------------------------
(* The cooldowns *)

\* Cooled is inductive: a throttle counts as applied only once the entry has it.
LEMMA CooledStep ==
  TypeInv /\ Handoff /\ Fenced /\ Cooled /\ [Next]_vars => Cooled'
<1> SUFFICES ASSUME TypeInv, Handoff, Fenced, Cooled, [Next]_vars PROVE Cooled'
  OBVIOUS
<1>t. TypeInv'
  BY TypeStep
<1>f. /\ fence \in Fence /\ fence' \in Fence /\ entry \in Entries /\ entry' \in Entries
      /\ pub \in [Pubs -> PubStates] /\ inv \in [Invs -> InvStates]
      /\ rdr \in [Readers -> ReaderStates] /\ now \in Nat
      /\ throttled \in [Epochs -> [Prios -> Times]]
      /\ throttled' \in [Epochs -> [Prios -> Times]]
  BY <1>t, BoundsAssumption DEF TypeInv, TypeOK
<1>e. /\ fence.epoch \in Epochs /\ fence'.epoch \in Epochs /\ entry.epoch \in Epochs
      /\ entry.epoch \in Nat /\ fence.epoch \in Nat /\ fence'.epoch \in Nat
      /\ entry'.epoch \in Nat
      /\ \A q \in Prios : entry.rk[q] \in Nat /\ entry'.rk[q] \in Nat
      /\ \A e \in Epochs, q \in Prios : throttled[e][q] \in Nat /\ throttled'[e][q] \in Nat
      /\ \A e \in Epochs : e \in Nat
  <2>1. \A e \in Epochs, q \in Prios : throttled[e][q] \in Nat /\ throttled'[e][q] \in Nat
    BY <1>f DEF Times
  <2>2. entry.epoch \in Epochs /\ entry'.epoch \in Epochs
          /\ \A q \in Prios : entry.rk[q] \in Nat /\ entry'.rk[q] \in Nat
    BY <1>f DEF Entries, Times
  <2> QED
    BY <1>f, <2>1, <2>2 DEF Fence, Epochs
<1>r. \A r \in Readers : /\ rdr[r].e.epoch \in Nat /\ rdr[r].cool \in Nat
                         /\ rdr[r].prio \in Prios \cup {Immediate}
                         /\ \A q \in Prios : rdr[r].e.rk[q] \in Nat
  <2>1. \A r \in Readers : rdr[r].e \in Entries /\ rdr[r].cool \in Times
                             /\ rdr[r].prio \in Prios \cup {Immediate}
    BY <1>f DEF ReaderStates
  <2> QED
    BY <2>1 DEF Entries, Epochs, Times
<1>p. ASSUME NEW p \in Pubs
      PROVE  /\ pub[p].tok.epoch \in Epochs /\ pub[p].rt \in Nat /\ pub[p].obs.epoch \in Nat
             /\ pub[p].tok.epoch <= fence.epoch /\ pub[p].obs.epoch <= fence.epoch
             /\ pub[p].cur \in Entries /\ pub[p].cur.epoch \in Nat
             /\ pub[p].obs \in Fence /\ pub[p].thr \subseteq Prios
             /\ \A q \in Prios : pub[p].cur.rk[q] \in Nat
  <2>1. pub[p] \in PubStates
    BY <1>f
  <2>2. pub[p].tok \in Fence /\ pub[p].obs \in Fence /\ pub[p].cur \in Entries
          /\ pub[p].rt \in Times /\ pub[p].thr \subseteq Prios
    BY <2>1 DEF PubStates
  <2>3. pub[p].tok.epoch \in Epochs /\ pub[p].obs.epoch \in Epochs
          /\ pub[p].cur.epoch \in Epochs /\ pub[p].cur.rk \in [Prios -> Times]
    BY <2>2 DEF Fence, Entries
  <2> QED
    BY <2>2, <2>3 DEF Fenced, PubFenced, Epochs, Times
\* A return after which the cooldowns of the current cluster have the throttles
\* of the reply.
<1>a. ASSUME NEW p \in Pubs, Published(p), fence' = fence, rdr' = rdr,
             \A q \in Prios : throttled[fence.epoch][q] # 0 =>
               entry'.epoch = fence.epoch /\ throttled[fence.epoch][q] <= entry'.rk[q],
             pub[p].tok.epoch = fence.epoch => \A q \in pub[p].thr :
               entry'.epoch = fence.epoch /\ pub[p].rt <= entry'.rk[q]
      PROVE  Cooled'
  <2>1. \A e \in Epochs, q \in Prios :
          throttled'[e][q] = IF e = pub[p].tok.epoch /\ q \in pub[p].thr
                               THEN Larger(throttled[e][q], pub[p].rt) ELSE throttled[e][q]
    BY <1>a, <1>f, <1>p DEF Published
  <2>2. \A e \in Epochs, q \in Prios : e > fence'.epoch => throttled'[e][q] = 0
    BY <1>a, <1>e, <1>p, <2>1 DEF Cooled
  <2>3. \A q \in Prios : throttled'[fence'.epoch][q] # 0 =>
          entry'.epoch = fence'.epoch /\ throttled'[fence'.epoch][q] <= entry'.rk[q]
    BY <1>a, <1>e, <1>p, <2>1 DEF Larger
  <2> QED
    BY <1>a, <2>2, <2>3 DEF Cooled
<1>1. ASSUME NEW p \in Pubs, LoadFences(p) PROVE Cooled'
  <2>1. UNCHANGED <<fence, entry, rdr>>
    BY <1>1 DEF LoadFences, cacheVars
  <2>2. CASE mergeReply(pub[p].cur, fence, pub[p]) = pub[p].cur
    <3>1. Published(p)
      BY <1>1, <2>2 DEF LoadFences
    <3>2. ASSUME pub[p].tok.epoch = fence.epoch, NEW q \in pub[p].thr
          PROVE  entry.epoch = fence.epoch /\ pub[p].rt <= entry.rk[q]
      <4>1. SameEpoch(fence, pub[p])
        BY <3>2 DEF SameEpoch
      <4>2. /\ pub[p].cur.epoch = fence.epoch
            /\ pub[p].cur.rk = MergedRK(MergeBase(pub[p].cur, fence, pub[p]), fence, pub[p])
        BY <1>f, <1>p, <2>2, <4>1, MergeFields
      <4>3. MergeBase(pub[p].cur, fence, pub[p]) = pub[p].cur
        BY <4>2 DEF MergeBase
      <4>4. pub[p].rt <= pub[p].cur.rk[q] /\ q \in Prios
        BY <1>p, <3>2, <4>1, <4>2, <4>3 DEF MergedRK, Larger
      <4>5. Older(pub[p].cur, entry) /\ entry.epoch <= fence.epoch
        BY DEF Fenced, PubFenced
      <4> QED
        BY <1>e, <1>p, <4>2, <4>4, <4>5 DEF Older
    <3> QED
      BY <1>a, <2>1, <3>1, <3>2 DEF Cooled
  <2>3. CASE mergeReply(pub[p].cur, fence, pub[p]) # pub[p].cur
    BY <1>1, <2>1, <2>3 DEF LoadFences, Cooled
  <2> QED
    BY <2>2, <2>3
<1>2. ASSUME NEW p \in Pubs, CasEntry(p) PROVE Cooled'
  <2> DEFINE r == pub[p]
             base == MergeBase(entry, r.obs, r)
  <2>1. Published(p) /\ fence' = fence /\ rdr' = rdr /\ r.pc = "cas"
    BY <1>2 DEF CasEntry
  <2>2. /\ entry'.epoch = IF SameEpoch(r.obs, r) THEN r.obs.epoch ELSE entry.epoch
        /\ entry'.rk = MergedRK(base, r.obs, r)
        /\ r.cur = entry
        /\ IF SameEpoch(r.obs, r) /\ entry.epoch # r.obs.epoch
             THEN base.rk = Zeros ELSE base = entry
    BY <1>2, SwapFields
  <2>3. r.tok.epoch <= r.obs.epoch /\ entry.epoch <= r.obs.epoch
    BY <2>1, <2>2 DEF Fenced, PubFenced
  <2>4. \A q \in Prios : entry'.rk[q] = IF SameEpoch(r.obs, r) /\ q \in r.thr
                                          THEN Larger(base.rk[q], r.rt) ELSE base.rk[q]
    BY <2>2 DEF MergedRK
  <2>5. \A q \in Prios : base.rk[q] \in Nat
    BY <1>e, <2>2 DEF Zeros
  <2> HIDE DEF base
  <2>6. \A q \in Prios : throttled[fence.epoch][q] # 0 =>
          entry'.epoch = fence.epoch /\ throttled[fence.epoch][q] <= entry'.rk[q]
    BY <1>e, <1>p, <2>2, <2>3, <2>4, <2>5 DEF Cooled, Larger
  <2>7. r.tok.epoch = fence.epoch => \A q \in r.thr :
          entry'.epoch = fence.epoch /\ r.rt <= entry'.rk[q]
    BY <1>e, <1>p, <2>2, <2>3, <2>4, <2>5 DEF SameEpoch, Larger
  <2> QED
    BY <1>a, <2>1, <2>6, <2>7
<1>3. ASSUME NEW i \in Invs, BumpGen(i) PROVE Cooled'
  <2>1. fence'.epoch = fence.epoch /\ UNCHANGED <<entry, rdr, throttled>>
    BY <1>3, <1>f DEF BumpGen, histVars, Fence
  <2> QED
    BY <2>1 DEF Cooled
<1>4. ASSUME NEW i \in Invs, InvCas(i) PROVE Cooled'
  <2>1. UNCHANGED <<fence, rdr, throttled>>
    BY <1>4 DEF InvCas
  <2>2. entry'.epoch = entry.epoch /\ entry'.rk = entry.rk
    <3>1. CASE entry.id = inv[i].cur.id
      <4>1. entry' = [Sentinel(entry) EXCEPT !.id = entry.id + 1]
        BY <1>4, <3>1 DEF InvCas, Fenced, InvFenced, Older
      <4> QED
        BY <1>f, <4>1 DEF Sentinel, Entries
    <3> QED
      BY <1>4, <3>1 DEF InvCas
  <2> QED
    BY <2>1, <2>2 DEF Cooled
<1>5. ASSUME BumpEpoch PROVE Cooled'
  <2>1. fence'.epoch = fence.epoch + 1 /\ UNCHANGED <<entry, rdr, throttled>>
    BY <1>5 DEF BumpEpoch, histVars
  <2>2. \A r \in Readers : rdr[r].e.epoch <= fence.epoch
    BY DEF Fenced
  <2> QED
    BY <1>e, <1>r, <2>1, <2>2 DEF Cooled
<1>6. ASSUME NEW r \in Readers, ReadLoad(r) PROVE Cooled'
  <2>1. UNCHANGED <<fence, entry, throttled>>
    BY <1>6 DEF ReadLoad, cacheVars, histVars
  <2>2. /\ rdr'[r].pc = "loaded" /\ rdr'[r].e = entry
        /\ rdr'[r].prio \in Prios \cup {Immediate}
        /\ rdr'[r].cool = IF rdr'[r].prio = Immediate THEN 0
                                                      ELSE throttled[entry.epoch][rdr'[r].prio]
        /\ \A x \in Readers \ {r} : rdr'[x] = rdr[x]
    BY <1>6, <1>f DEF ReadLoad
  <2> QED
    BY <1>e, <2>1, <2>2 DEF Cooled
<1>7. ASSUME NEW r \in Readers, ReadDecide(r) PROVE Cooled'
  <2>1. UNCHANGED <<fence, entry, throttled>>
    BY <1>7 DEF ReadDecide, cacheVars, histVars
  <2>2. \A x \in Readers \ {r} : rdr'[x] = rdr[x]
    BY <1>7, <1>f DEF ReadDecide
  <2>3. CASE tryCache(rdr[r].e, rdr[r].prio)
    <3>1. rdr'[r].pc = "served" /\ rdr'[r].e = rdr[r].e /\ rdr'[r].cool = rdr[r].cool
            /\ rdr'[r].prio = rdr[r].prio /\ rdr'[r].t = now
      BY <1>7, <1>f, <2>3 DEF ReadDecide, ReaderStates
    <3>2. rdr[r].pc = "loaded" /\ rdr[r].e.epoch = fence.epoch
            /\ (rdr[r].prio # Immediate => \/ rdr[r].e.rk[rdr[r].prio] = 0
                                           \/ now - rdr[r].e.rk[rdr[r].prio] >= GrvCacheRKCooldown)
      BY <1>7, <2>3 DEF ReadDecide, tryCache, CooledDown
    <3>3. rdr'[r].cool # 0 => rdr'[r].t - rdr'[r].cool >= GrvCacheRKCooldown
      <4>1. SUFFICES ASSUME rdr[r].cool # 0
                     PROVE  now - rdr[r].cool >= GrvCacheRKCooldown
        BY <3>1
      <4>2. rdr[r].prio # Immediate /\ rdr[r].cool <= rdr[r].e.rk[rdr[r].prio]
        BY <3>2, <4>1 DEF Cooled
      <4>3. rdr[r].prio \in Prios
        BY <1>r, <4>2
      <4>4. rdr[r].cool \in Nat /\ rdr[r].e.rk[rdr[r].prio] \in Nat
        BY <1>r, <4>3
      <4> QED
        BY <1>f, <3>2, <4>1, <4>2, <4>4, BoundsAssumption
    <3> QED
      BY <2>1, <2>2, <3>1, <3>3 DEF Cooled
  <2>4. CASE ~tryCache(rdr[r].e, rdr[r].prio)
    <3>1. rdr'[r].pc = "idle" /\ rdr'[r].cool = 0
      BY <1>7, <1>f, <2>4 DEF ReadDecide, IdleReader
    <3> QED
      BY <2>1, <2>2, <3>1 DEF Cooled
  <2> QED
    BY <2>3, <2>4
<1> QED
  <2>1. UNCHANGED <<fence, entry, rdr, throttled>> => Cooled'
    BY DEF Cooled
  <2> QED
    BY <1>1, <1>2, <1>3, <1>4, <1>5, <1>6, <1>7, <2>1, QuietStep

-----------------------------------------------------------------------------
(* Invalidation *)

\* A publisher that is about to swap was so before the step, or has just loaded
\* the fences.
LEMMA AboutToSwap ==
  ASSUME TypeInv, [Next]_vars, NEW x \in Pubs, pub'[x].pc = "cas"
  PROVE  \/ pub'[x] = pub[x]
         \/ /\ pub'[x].tok = pub[x].tok /\ pub'[x].obs = fence /\ pub'[x].cur = pub[x].cur
            /\ UNCHANGED <<fence, entry, retired>>
<1>1. pub \in [Pubs -> PubStates]
  BY DEF TypeInv, TypeOK
<1>2. ASSUME NEW p \in Pubs, NEW rec, pub' = [pub EXCEPT ![p] = rec], rec.pc # "cas"
      PROVE  pub'[x] = pub[x]
  BY <1>1, <1>2
<1>3. ASSUME NEW p \in Pubs, Published(p) PROVE pub'[x] = pub[x]
  <2>1. IdlePub.pc # "cas"
          /\ [IdlePub EXCEPT !.pc = "applying", !.tok = pub[p].tok, !.v = pub[p].v].pc # "cas"
    BY DEF IdlePub
  <2> QED
    BY <1>2, <1>3, <2>1 DEF Published
<1>4. ASSUME NEW p \in Pubs, LoadFences(p)
      PROVE  \/ pub'[x] = pub[x]
             \/ /\ pub'[x].tok = pub[x].tok /\ pub'[x].obs = fence /\ pub'[x].cur = pub[x].cur
                /\ UNCHANGED <<fence, entry, retired>>
  <2>1. UNCHANGED <<fence, entry, retired>>
    BY <1>4 DEF LoadFences, cacheVars
  <2>2. Published(p) \/ pub' = [pub EXCEPT ![p] = [pub[p] EXCEPT !.pc = "cas", !.obs = fence]]
    BY <1>4 DEF LoadFences
  <2>3. CASE Published(p)
    BY <1>3, <2>3
  <2>4. CASE pub' = [pub EXCEPT ![p] = [pub[p] EXCEPT !.pc = "cas", !.obs = fence]]
    BY <1>1, <2>1, <2>4 DEF PubStates
  <2> QED
    BY <2>2, <2>3, <2>4
<1>5. ASSUME NEW p \in Pubs, NEW d \in BOOLEAN, Dispatch(p, d) PROVE pub'[x] = pub[x]
  <2>1. [IdlePub EXCEPT !.pc = "sent", !.durable = d, !.tok = fence, !.at = now].pc = "sent"
    BY DEF IdlePub
  <2> QED
    BY <1>2, <1>5, <2>1 DEF Dispatch, Step
<1>6. ASSUME NEW p \in Pubs, Answer(p) PROVE pub'[x] = pub[x]
  <2>1. PICK v, thr : pub' = [pub EXCEPT ![p] =
                        [pub[p] EXCEPT !.pc = "replied", !.tok.epoch = dbEpoch, !.v = v,
                                       !.rt = now, !.thr = thr]]
    BY <1>6 DEF Answer, Step
  <2>2. [pub[p] EXCEPT !.pc = "replied", !.tok.epoch = dbEpoch, !.v = v, !.rt = now,
                       !.thr = thr].pc = "replied"
    BY <1>1 DEF PubStates
  <2> QED
    BY <1>2, <2>1, <2>2
<1>7. ASSUME NEW p \in Pubs, Fail(p) PROVE pub'[x] = pub[x]
  BY <1>2, <1>7 DEF Fail, Step, IdlePub
<1>8. ASSUME NEW p \in Pubs, LoadEntry(p) \/ CasEntryFails(p) \/ LoadStamp(p)
      PROVE pub'[x] = pub[x]
  <2>1. /\ [pub[p] EXCEPT !.pc = "loaded", !.cur = entry].pc = "loaded"
        /\ [pub[p] EXCEPT !.pc = "replied", !.cur = Nil, !.obs = NoFence].pc = "replied"
        /\ [pub[p] EXCEPT !.pc = "stamping", !.scur = stamp].pc = "stamping"
    BY <1>1 DEF PubStates
  <2> QED
    BY <1>2, <1>8, <2>1 DEF LoadEntry, CasEntryFails, LoadStamp, Step
<1>9. ASSUME NEW p \in Pubs, CheckStampEpoch(p) \/ CasStamp(p) PROVE pub'[x] = pub[x]
  <2>1. /\ [pub[p] EXCEPT !.pc = "stampcas"].pc = "stampcas"
        /\ [pub[p] EXCEPT !.pc = "applying", !.scur = NilStamp].pc = "applying"
        /\ IdlePub.pc = "idle"
    BY <1>1 DEF PubStates, IdlePub
  <2> QED
    BY <1>2, <1>9, <2>1 DEF CheckStampEpoch, CasStamp
<1>10. ASSUME NEW p \in Pubs, CasEntry(p) PROVE pub'[x] = pub[x]
  BY <1>3, <1>10 DEF CasEntry
<1> QED
  BY <1>4, <1>5, <1>6, <1>7, <1>8, <1>9, <1>10
     DEF Next, PubNext, InvNext, Switch, vars, BumpGen, InvLoad, InvCas, Adopt, BumpEpoch,
     ResetStamp, PublishProxies, ReadLoad, ReadDecide, Tick

\* Swept is inductive: a swap whose token predates a sentinel fails, because its
\* entry does.
LEMMA SweptStep == TypeInv /\ Fenced /\ Swept /\ [Next]_vars => Swept'
<1> SUFFICES ASSUME TypeInv, Fenced, Swept, [Next]_vars PROVE Swept'
  OBVIOUS
<1>t. TypeInv'
  BY TypeStep
<1>f. /\ fence \in Fence /\ fence' \in Fence /\ entry \in Entries /\ entry' \in Entries
      /\ pub \in [Pubs -> PubStates] /\ pub' \in [Pubs -> PubStates]
      /\ inv \in [Invs -> InvStates] /\ rdr \in [Readers -> ReaderStates]
      /\ retired \in [all : 0 .. MaxGen, swept : 0 .. MaxGen]
      /\ born \in Nat
  BY <1>t, BoundsAssumption DEF TypeInv, TypeOK
<1>e. /\ fence.gen \in Nat /\ fence'.gen \in Nat /\ retired.swept \in Nat
      /\ entry.id \in Nat /\ \A i \in Invs : inv[i].gen \in Nat
      /\ \A p \in Pubs : pub[p].cur.id \in Nat /\ pub[p].tok.gen \in Nat
                         /\ pub[p].cur.id <= entry.id
  <2>1. \A p \in Pubs : pub[p].cur \in Entries /\ pub[p].tok \in Fence
    BY <1>f DEF PubStates
  <2> QED
    BY <1>f, <2>1 DEF Fence, InvStates, Entries, Fenced, PubFenced, Older
<1>g. fence.gen <= fence'.gen
  BY FenceGrows
<1>o. entry' = entry \/ entry'.id = entry.id + 1
  BY EntryFollows DEF Follows
\* Swaps under way.
<1>p. ASSUME entry' # entry \/ UNCHANGED retired
      PROVE  \A p \in Pubs :
               pub'[p].pc = "cas" /\ pub'[p].obs = pub'[p].tok /\ pub'[p].cur.id = entry'.id
                 => retired'.swept <= pub'[p].tok.gen
  <2> SUFFICES ASSUME NEW p \in Pubs, pub'[p].pc = "cas", pub'[p].obs = pub'[p].tok,
                      pub'[p].cur.id = entry'.id
               PROVE  retired'.swept <= pub'[p].tok.gen
    OBVIOUS
  <2>1. pub'[p].cur = pub[p].cur /\ pub'[p].tok = pub[p].tok
    BY AboutToSwap
  <2>2. entry' = entry
    BY <1>e, <1>o, <2>1
  <2>3. CASE pub'[p] = pub[p]
    BY <1>p, <2>2, <2>3 DEF Swept
  <2>4. CASE pub'[p] # pub[p]
    <3>1. pub'[p].obs = fence
      BY <2>4, AboutToSwap
    <3> QED
      BY <1>p, <2>2, <3>1 DEF Swept
  <2> QED
    BY <2>3, <2>4
<1>1. ASSUME NEW p \in Pubs, CasEntry(p) PROVE Swept'
  <2> DEFINE r == pub[p]
             base == MergeBase(entry, r.obs, r)
             in   == Installs(entry, r.obs, r)
  <2>1. UNCHANGED <<fence, retired, rdr>> /\ r.pc = "cas" /\ r.cur.id = entry.id
    BY <1>1 DEF CasEntry
  <2>2. /\ entry'.version = IF in THEN r.v ELSE base.version
        /\ born' = IF in THEN r.tok.gen ELSE born
        /\ base.version = 0 \/ base = entry
    BY <1>1, SwapFields
  <2>3. in => retired.swept <= r.tok.gen
    BY <2>1 DEF Swept, Installs
  <2> HIDE DEF in, base
  <2>4. entry'.version # 0 => retired'.swept <= born'
    BY <2>1, <2>2, <2>3 DEF Swept
  <2> QED
    BY <1>p, <2>1, <2>4 DEF Swept
<1>2. ASSUME NEW i \in Invs, InvCas(i) PROVE Swept'
  <2>1. UNCHANGED <<fence, rdr, born>>
    BY <1>2 DEF InvCas
  <2>2. CASE entry.id = inv[i].cur.id
    <3>1. entry' = [Sentinel(inv[i].cur) EXCEPT !.id = entry.id + 1]
            /\ retired'.swept = Larger(retired.swept, inv[i].gen)
      BY <1>2, <2>2 DEF InvCas, InvalidateReturns
    <3>2. inv[i].cur \in Entries
      BY <1>f DEF InvStates
    <3>3. entry'.version = 0 /\ entry'.id = entry.id + 1
      BY <3>1, <3>2 DEF Sentinel, Entries
    <3>4. entry' # entry
      BY <1>e, <3>3
    <3>5. inv[i].gen <= fence.gen
      BY DEF Fenced, InvFenced
    <3>6. retired'.swept <= fence'.gen
      BY <1>e, <2>1, <3>1, <3>5 DEF Swept, Larger
    <3> QED
      BY <1>p, <2>1, <3>3, <3>4, <3>6 DEF Swept
  <2>3. CASE entry.id # inv[i].cur.id
    <3>1. UNCHANGED <<entry, retired>>
      BY <1>2, <2>3 DEF InvCas
    <3> QED
      BY <1>p, <2>1, <3>1 DEF Swept
  <2> QED
    BY <2>2, <2>3
<1>3. ASSUME NEW i \in Invs, InvLoad(i) PROVE Swept'
  <2>1. UNCHANGED <<fence, entry, rdr, born>>
    BY <1>3 DEF InvLoad, cacheVars
  <2>2. retired'.swept = retired.swept
    BY <1>3 DEF InvLoad, InvalidateReturns
  <2>3. pub' = pub
    BY <1>3 DEF InvLoad
  <2> QED
    BY <2>1, <2>2, <2>3 DEF Swept
<1>4. ASSUME NEW r \in Readers, ReadLoad(r) PROVE Swept'
  <2>1. UNCHANGED <<fence, entry, born, retired>>
    BY <1>4 DEF ReadLoad, cacheVars, histVars
  <2>2. rdr'[r].pc = "loaded" /\ rdr'[r].e = entry
          /\ rdr'[r].born = born /\ rdr'[r].swept = retired.swept
          /\ \A x \in Readers \ {r} : rdr'[x] = rdr[x]
    BY <1>4, <1>f DEF ReadLoad
  <2> QED
    BY <1>p, <2>1, <2>2 DEF Swept
<1>5. ASSUME NEW r \in Readers, ReadDecide(r) PROVE Swept'
  <2>1. UNCHANGED <<fence, entry, born, retired>>
    BY <1>5 DEF ReadDecide, cacheVars, histVars
  <2>2. \A x \in Readers \ {r} : rdr'[x] = rdr[x]
    BY <1>5, <1>f DEF ReadDecide
  <2>3. \/ /\ rdr'[r].born = rdr[r].born /\ rdr'[r].swept = rdr[r].swept
           /\ rdr[r].e.version # 0
        \/ rdr'[r].pc = "idle" /\ rdr'[r].e.version = 0
    <3>1. CASE tryCache(rdr[r].e, rdr[r].prio)
      BY <1>5, <1>f, <3>1 DEF ReadDecide, ReaderStates, tryCache
    <3>2. CASE ~tryCache(rdr[r].e, rdr[r].prio)
      BY <1>5, <1>f, <3>2 DEF ReadDecide, IdleReader, Nil
    <3> QED
      BY <3>1, <3>2
  <2> QED
    BY <1>p, <2>1, <2>2, <2>3 DEF Swept
<1>6. ASSUME UNCHANGED <<entry, rdr, born, retired>> PROVE Swept'
  BY <1>6, <1>p, <1>g, <1>e DEF Swept
<1> QED
  BY <1>1, <1>2, <1>3, <1>4, <1>5, <1>6 DEF Next, PubNext, InvNext, Switch, vars, cacheVars,
     histVars, Dispatch, Answer, Fail, LoadEntry, LoadFences, CasEntryFails, LoadStamp,
     CheckStampEpoch, CasStamp, BumpGen, Adopt, BumpEpoch, ResetStamp, PublishProxies, Tick

-----------------------------------------------------------------------------
(* Versions, clusters and instants *)

Replying == {"replied", "loaded", "cas"}

\* How a step may change a publisher: it is dispatched; it is answered with the
\* latest version of the proxies' cluster; or it goes on with the answer it has.
PubMoved(x) ==
  /\ pub'[x].cur \in {pub[x].cur, entry, Nil}
  /\ pub'[x].pc = "sent" => \/ pub[x].pc = "sent" /\ pub'[x].at = pub[x].at
                            \/ pub'[x].at = now /\ now' = now
  /\ Answered(pub'[x]) =>
       \/ /\ Answered(pub[x])
          /\ pub'[x].tok.epoch = pub[x].tok.epoch /\ pub'[x].v = pub[x].v
          /\ pub'[x].pc \in Replying => pub[x].pc \in Replying /\ pub'[x].at = pub[x].at
       \/ /\ pub[x].pc = "sent" /\ pub'[x].at = pub[x].at
          /\ pub'[x].tok.epoch = dbEpoch /\ pub'[x].v = cluster'[dbEpoch]
          /\ pub'[x].v \in cluster[dbEpoch] .. Cap(dbEpoch)
          /\ now' = now /\ atTick' = atTick

LEMMA PubMoves ==
  ASSUME TypeInv, [Next]_vars, NEW x \in Pubs
  PROVE  PubMoved(x)
<1> USE DEF PubMoved
<1>0. pub \in [Pubs -> PubStates]
  BY DEF TypeInv, TypeOK
<1>s. pub'[x] = pub[x] => PubMoved(x)
  OBVIOUS
<1>i. pub'[x] = IdlePub => PubMoved(x)
  BY DEF IdlePub, Answered
<1>1. ASSUME NEW p \in Pubs, NEW d \in BOOLEAN, Dispatch(p, d) PROVE PubMoved(x)
  <2>1. CASE x = p
    <3>1. pub'[x] = [IdlePub EXCEPT !.pc = "sent", !.durable = d, !.tok = fence, !.at = now]
            /\ now' = now
      BY <1>0, <1>1, <2>1 DEF Dispatch, Step
    <3>2. pub'[x].pc = "sent" /\ pub'[x].at = now /\ pub'[x].cur = Nil
      BY <3>1 DEF IdlePub
    <3> QED
      BY <3>1, <3>2 DEF Answered
  <2> QED
    BY <1>0, <1>1, <1>s, <2>1 DEF Dispatch, Step
<1>2. ASSUME NEW p \in Pubs, Answer(p) PROVE PubMoved(x)
  <2>1. PICK v \in cluster[dbEpoch] .. Smaller(cluster[dbEpoch] + 1, Cap(dbEpoch)),
             thr \in SUBSET Prios :
          /\ pub[p].pc = "sent"
          /\ pub' = [pub EXCEPT ![p] =
                       [pub[p] EXCEPT !.pc = "replied", !.tok.epoch = dbEpoch, !.v = v,
                                      !.rt = now, !.thr = thr]]
          /\ cluster' = [cluster EXCEPT ![dbEpoch] = v]
          /\ now' = now /\ atTick' = atTick
    BY <1>2 DEF Answer, Step
  <2>2. cluster[dbEpoch] \in Nat /\ Cap(dbEpoch) \in Nat /\ cluster'[dbEpoch] = v
    BY <2>1, VersionFacts DEF TypeInv, TypeOK
  <2>3. v \in cluster[dbEpoch] .. Cap(dbEpoch)
    BY <2>2 DEF Smaller
  <2>4. CASE x = p
    <3>1. pub'[x].pc = "replied" /\ pub'[x].cur = pub[x].cur /\ pub'[x].at = pub[x].at
            /\ pub'[x].tok.epoch = dbEpoch /\ pub'[x].v = v
      BY <1>0, <2>1, <2>4 DEF PubStates, Fence
    <3> QED
      BY <2>1, <2>2, <2>3, <2>4, <3>1
  <2> QED
    BY <1>0, <1>s, <2>1, <2>4
<1>3. ASSUME NEW p \in Pubs, Fail(p) PROVE PubMoved(x)
  BY <1>0, <1>3, <1>i, <1>s DEF Fail, Step
<1>4. ASSUME NEW p \in Pubs, LoadEntry(p) PROVE PubMoved(x)
  <2>1. CASE x = p
    <3>1. pub'[x] = [pub[x] EXCEPT !.pc = "loaded", !.cur = entry] /\ pub[x].pc = "replied"
      BY <1>0, <1>4, <2>1 DEF LoadEntry, Step
    <3>2. pub'[x].pc = "loaded" /\ pub'[x].cur = entry /\ pub'[x].at = pub[x].at
            /\ pub'[x].tok = pub[x].tok /\ pub'[x].v = pub[x].v
      BY <1>0, <3>1 DEF PubStates
    <3> QED
      BY <3>1, <3>2 DEF Answered, Replying
  <2> QED
    BY <1>0, <1>4, <1>s, <2>1 DEF LoadEntry, Step
<1>5. ASSUME NEW p \in Pubs, Published(p), pub[p].pc \in Replying PROVE PubMoved(x)
  <2>1. CASE x = p /\ ~pub[p].durable
    <3>1. pub'[x] = [IdlePub EXCEPT !.pc = "applying", !.tok = pub[p].tok, !.v = pub[p].v]
      BY <1>0, <1>5, <2>1 DEF Published
    <3>2. pub'[x].pc = "applying" /\ pub'[x].cur = Nil /\ pub'[x].tok = pub[x].tok
            /\ pub'[x].v = pub[x].v
      BY <2>1, <3>1 DEF IdlePub
    <3> QED
      BY <1>5, <2>1, <3>2 DEF Answered, Replying
  <2>2. CASE x = p /\ pub[p].durable
    BY <1>0, <1>5, <1>i, <2>2 DEF Published
  <2> QED
    BY <1>0, <1>5, <1>s, <2>1, <2>2 DEF Published
<1>6. ASSUME NEW p \in Pubs, LoadFences(p) PROVE PubMoved(x)
  <2>0. pub[p].pc = "loaded"
    BY <1>6 DEF LoadFences
  <2>1. CASE Published(p)
    BY <1>5, <2>0, <2>1 DEF Replying
  <2>2. CASE pub' = [pub EXCEPT ![p] = [pub[p] EXCEPT !.pc = "cas", !.obs = fence]]
    <3>1. CASE x = p
      <4>1. pub'[x].pc = "cas" /\ pub'[x].cur = pub[x].cur /\ pub'[x].at = pub[x].at
              /\ pub'[x].tok = pub[x].tok /\ pub'[x].v = pub[x].v
        BY <1>0, <2>2, <3>1 DEF PubStates
      <4> QED
        BY <2>0, <3>1, <4>1 DEF Answered, Replying
    <3> QED
      BY <1>0, <1>s, <2>2, <3>1
  <2> QED
    BY <1>6, <2>1, <2>2 DEF LoadFences
<1>7. ASSUME NEW p \in Pubs, CasEntry(p) PROVE PubMoved(x)
  BY <1>5, <1>7 DEF CasEntry, Replying
<1>8. ASSUME NEW p \in Pubs, CasEntryFails(p) PROVE PubMoved(x)
  <2>1. CASE x = p
    <3>1. pub'[x] = [pub[x] EXCEPT !.pc = "replied", !.cur = Nil, !.obs = NoFence]
            /\ pub[x].pc = "cas"
      BY <1>0, <1>8, <2>1 DEF CasEntryFails, Step
    <3>2. pub'[x].pc = "replied" /\ pub'[x].cur = Nil /\ pub'[x].at = pub[x].at
            /\ pub'[x].tok = pub[x].tok /\ pub'[x].v = pub[x].v
      BY <1>0, <3>1 DEF PubStates
    <3> QED
      BY <3>1, <3>2 DEF Answered, Replying
  <2> QED
    BY <1>0, <1>8, <1>s, <2>1 DEF CasEntryFails, Step
<1>9. ASSUME NEW p \in Pubs, LoadStamp(p) PROVE PubMoved(x)
  <2>1. CASE x = p
    <3>1. pub'[x] = [pub[x] EXCEPT !.pc = "stamping", !.scur = stamp] /\ pub[x].pc = "applying"
      BY <1>0, <1>9, <2>1 DEF LoadStamp, Step
    <3>2. pub'[x].pc = "stamping" /\ pub'[x].cur = pub[x].cur
            /\ pub'[x].tok = pub[x].tok /\ pub'[x].v = pub[x].v
      BY <1>0, <3>1 DEF PubStates
    <3> QED
      BY <3>1, <3>2 DEF Answered, Replying
  <2> QED
    BY <1>0, <1>9, <1>s, <2>1 DEF LoadStamp, Step
<1>10. ASSUME NEW p \in Pubs, CheckStampEpoch(p) \/ CasStamp(p) PROVE PubMoved(x)
  <2>1. /\ pub[p].pc \in {"stamping", "stampcas"}
        /\ \/ pub' = [pub EXCEPT ![p] = IdlePub]
           \/ pub' = [pub EXCEPT ![p] = [pub[p] EXCEPT !.pc = "stampcas"]]
           \/ pub' = [pub EXCEPT ![p] = [pub[p] EXCEPT !.pc = "applying", !.scur = NilStamp]]
    BY <1>10 DEF CheckStampEpoch, CasStamp
  <2>2. CASE x = p
    <3>1. \/ pub'[x] = IdlePub
          \/ /\ pub'[x].pc \in {"stampcas", "applying"} /\ pub'[x].cur = pub[x].cur
             /\ pub'[x].tok = pub[x].tok /\ pub'[x].v = pub[x].v
      BY <1>0, <2>1, <2>2 DEF PubStates
    <3> QED
      BY <1>i, <2>1, <2>2, <3>1 DEF Answered, Replying
  <2> QED
    BY <1>0, <1>s, <2>1, <2>2
<1> QED
  <2>1. pub' = pub => PubMoved(x)
    BY <1>s
  <2> HIDE DEF PubMoved
  <2> QED
    BY <1>1, <1>2, <1>3, <1>4, <1>6, <1>7, <1>8, <1>9, <1>10, <2>1
       DEF Next, PubNext, InvNext, Switch, vars, BumpGen, InvLoad, InvCas, Adopt, BumpEpoch,
       ResetStamp, PublishProxies, ReadLoad, ReadDecide, Tick

\* The versions a cluster hands out never go back.
LEMMA ClusterGrows ==
  ASSUME TypeInv, [Next]_vars, NEW e \in Epochs
  PROVE  cluster[e] \in Nat /\ cluster'[e] \in Nat /\ cluster[e] <= cluster'[e]
<1>1. TypeInv'
  BY TypeStep
<1>2. cluster[e] \in Nat /\ cluster'[e] \in Nat
  BY <1>1, VersionFacts DEF TypeInv, TypeOK
<1>3. ASSUME NEW p \in Pubs, Answer(p) PROVE cluster[e] <= cluster'[e]
  <2>1. PICK v \in cluster[dbEpoch] .. Smaller(cluster[dbEpoch] + 1, Cap(dbEpoch)) :
          cluster' = [cluster EXCEPT ![dbEpoch] = v]
    BY <1>3 DEF Answer
  <2>2. cluster[dbEpoch] \in Nat /\ Cap(dbEpoch) \in Nat
    BY VersionFacts DEF TypeInv, TypeOK
  <2>3. v >= cluster[dbEpoch]
    BY <2>2 DEF Smaller
  <2>4. cluster'[e] = IF e = dbEpoch THEN v ELSE cluster[e]
    BY <2>1 DEF TypeInv, TypeOK
  <2> QED
    BY <1>2, <2>3, <2>4
<1>4. cluster' = cluster => cluster[e] <= cluster'[e]
  BY <1>2
<1> QED
  BY <1>2, <1>3, <1>4 DEF Next, PubNext, InvNext, Switch, vars, cacheVars, Dispatch, Fail,
     LoadEntry, LoadFences, CasEntry, CasEntryFails, LoadStamp, CheckStampEpoch, CasStamp,
     BumpGen, InvLoad, InvCas, Adopt, BumpEpoch, ResetStamp, PublishProxies, ReadLoad,
     ReadDecide, Tick

\* What a cluster has handed out stays handed out.
LEMMA IssuedKept ==
  ASSUME TypeInv, [Next]_vars
  PROVE  /\ \A e \in Epochs : \A v \in Nat : Issued(cluster, e, v) => Issued(cluster', e, v)
         /\ \A en \in Entries : EntryIssued(cluster, en) => EntryIssued(cluster', en)
<1>1. ASSUME NEW e \in Epochs, NEW v \in Nat, Issued(cluster, e, v)
      PROVE  Issued(cluster', e, v)
  BY <1>1, ClusterGrows DEF Issued
<1>2. \A en \in Entries : en.epoch \in Epochs /\ en.version \in Nat /\ en.floor \in Nat
  BY VersionFacts DEF Entries
<1> QED
  BY <1>1, <1>2 DEF EntryIssued

\* The entry that a step leaves holds versions of its cluster if the entries and
\* the replies before the step did.
LEMMA EntryScoped ==
  ASSUME TypeInv, Fenced, Scoped, [Next]_vars
  PROVE  EntryIssued(cluster', entry')
<1>0. entry \in Entries /\ pub \in [Pubs -> PubStates] /\ inv \in [Invs -> InvStates]
  BY DEF TypeInv, TypeOK
<1>s. EntryIssued(cluster', entry)
  BY <1>0, IssuedKept DEF Scoped
<1>1. ASSUME NEW p \in Pubs, CasEntry(p) PROVE EntryIssued(cluster', entry')
  <2> DEFINE r == pub[p]
             base == MergeBase(entry, r.obs, r)
             in   == Installs(entry, r.obs, r)
             same == SameEpoch(r.obs, r)
  <2>1. /\ entry'.epoch = IF same THEN r.obs.epoch ELSE entry.epoch
        /\ entry'.floor = MergedFloor(entry, r.obs, r)
        /\ entry'.version = IF in THEN r.v ELSE base.version
        /\ IF same /\ entry.epoch # r.obs.epoch THEN base.version = 0 /\ base.floor = 0
                                                ELSE base = entry
    BY <1>1, SwapFields
  <2>2. cluster' = cluster /\ r.pc = "cas"
    BY <1>1 DEF CasEntry
  <2>3. Issued(cluster, r.tok.epoch, r.v)
    BY <2>2 DEF Scoped, Answered
  <2>4. in => same
    BY DEF Installs, SameEpoch
  <2>5. same => r.obs.epoch = r.tok.epoch
    BY DEF SameEpoch
  <2>6. entry'.floor = IF r.durable /\ same THEN Larger(base.floor, r.v) ELSE base.floor
    BY <2>1 DEF MergedFloor
  <2>7. Larger(base.floor, r.v) \in {base.floor, r.v}
    BY DEF Larger
  <2>8. EntryIssued(cluster, entry)
    BY DEF Scoped
  <2> HIDE DEF base, in, same, r
  <2> QED
    BY <2>1, <2>2, <2>3, <2>4, <2>5, <2>6, <2>7, <2>8 DEF EntryIssued, Issued
<1>2. ASSUME NEW i \in Invs, InvCas(i) PROVE EntryIssued(cluster', entry')
  <2>1. CASE entry.id = inv[i].cur.id
    <3>1. entry' = [Sentinel(entry) EXCEPT !.id = entry.id + 1]
      BY <1>2, <2>1 DEF InvCas, Fenced, InvFenced, Older
    <3>2. entry'.version = 0 /\ entry'.epoch = entry.epoch /\ entry'.floor = entry.floor
      BY <1>0, <3>1 DEF Sentinel, Entries
    <3> QED
      BY <1>s, <3>2 DEF EntryIssued, Issued
  <2> QED
    BY <1>2, <1>s, <2>1 DEF InvCas
<1> QED
  BY <1>1, <1>2, <1>s DEF Next, PubNext, InvNext, Switch, vars, cacheVars, Dispatch, Answer,
     Fail, LoadEntry, LoadFences, CasEntryFails, LoadStamp, CheckStampEpoch, CasStamp, BumpGen,
     InvLoad, Adopt, BumpEpoch, ResetStamp, PublishProxies, ReadLoad, ReadDecide, Tick

\* Scoped is inductive: no version crosses from one cluster to another.
LEMMA ScopedStep == TypeInv /\ Fenced /\ Scoped /\ [Next]_vars => Scoped'
<1> SUFFICES ASSUME TypeInv, Fenced, Scoped, [Next]_vars PROVE Scoped'
  OBVIOUS
<1>0. /\ entry \in Entries /\ stamp \in Stamps /\ pub \in [Pubs -> PubStates]
      /\ dbEpoch \in Epochs
  BY DEF TypeInv, TypeOK
<1>1. ASSUME NEW p \in Pubs
      PROVE  pub[p].cur \in Entries /\ pub[p].tok.epoch \in Epochs /\ pub[p].v \in Nat
  BY <1>0, VersionFacts DEF PubStates, Fence
<1>2. EntryIssued(cluster', entry) /\ EntryIssued(cluster', entry')
  BY <1>0, EntryScoped, IssuedKept DEF Scoped
<1>3. EntryIssued(cluster', Nil)
  BY DEF EntryIssued, Issued, Nil
<1>4. ASSUME NEW p \in Pubs PROVE EntryIssued(cluster', pub'[p].cur)
  BY <1>1, <1>2, <1>3, IssuedKept, PubMoves DEF PubMoved, Scoped
<1>5. ASSUME NEW p \in Pubs, Answered(pub'[p])
      PROVE  pub'[p].v # 0 /\ Issued(cluster', pub'[p].tok.epoch, pub'[p].v)
  <2>1. CASE Answered(pub[p]) /\ pub'[p].tok.epoch = pub[p].tok.epoch /\ pub'[p].v = pub[p].v
    BY <1>1, <2>1, IssuedKept DEF Scoped
  <2>2. CASE /\ pub'[p].tok.epoch = dbEpoch /\ pub'[p].v = cluster'[dbEpoch]
             /\ pub'[p].v \in cluster[dbEpoch] .. Cap(dbEpoch)
    <3>1. cluster[dbEpoch] \in Start[dbEpoch] .. Cap(dbEpoch)
            /\ Start[dbEpoch] \in Nat \ {0} /\ Cap(dbEpoch) \in Nat
      BY <1>0, VersionFacts DEF TypeInv, Ranges
    <3> QED
      BY <2>2, <3>1 DEF Issued
  <2> QED
    BY <1>5, <2>1, <2>2, PubMoves DEF PubMoved
<1>6. Issued(cluster', stamp'.epoch, stamp'.version)
  <2>1. stamp' = stamp => Issued(cluster', stamp'.epoch, stamp'.version)
    BY <1>0, IssuedKept, VersionFacts DEF Scoped, Stamps
  <2>2. ASSUME NEW p \in Pubs, CasStamp(p) PROVE Issued(cluster', stamp'.epoch, stamp'.version)
    <3>1. CASE stamp' = [id |-> stamp.id + 1, epoch |-> pub[p].tok.epoch, version |-> pub[p].v]
      <4>1. Answered(pub[p])
        BY <2>2 DEF CasStamp, Answered
      <4> QED
        BY <1>1, <3>1, <4>1, IssuedKept DEF Scoped
    <3> QED
      BY <2>1, <2>2, <3>1 DEF CasStamp
  <2>3. ResetStamp => Issued(cluster', stamp'.epoch, stamp'.version)
    BY DEF ResetStamp, Issued
  <2> QED
    BY <2>1, <2>2, <2>3 DEF Next, PubNext, InvNext, Switch, vars, cacheVars, Dispatch, Answer,
       Fail, LoadEntry, LoadFences, CasEntry, CasEntryFails, LoadStamp, CheckStampEpoch,
       BumpGen, InvLoad, InvCas, Adopt, BumpEpoch, PublishProxies, ReadLoad, ReadDecide, Tick
<1> QED
  BY <1>2, <1>4, <1>5, <1>6 DEF Scoped

\* The past of the clusters does not change.
LEMMA PastKept ==
  ASSUME TypeInv, [Next]_vars
  PROVE  /\ now \in Nat /\ now' \in Nat /\ now <= now'
         /\ \A e \in Epochs : \A t \in 1 .. now : atTick'[e][t] = atTick[e][t]
         /\ \/ UNCHANGED <<now, atTick>>
            \/ now' = now + 1 /\ \A e \in Epochs : atTick'[e][now'] = cluster[e]
<1>0. atTick \in [Epochs -> [1 .. MaxNow -> {0} \cup Versions]] /\ now \in 1 .. MaxNow
        /\ MaxNow \in Nat
  BY BoundsAssumption DEF TypeInv, TypeOK
<1>1. ASSUME Tick
      PROVE  /\ now' = now + 1
             /\ \A e \in Epochs : /\ atTick'[e][now'] = cluster[e]
                                  /\ \A t \in 1 .. now : atTick'[e][t] = atTick[e][t]
  <2>1. now' = now + 1 /\ now + 1 \in 1 .. MaxNow
          /\ atTick' = [e \in Epochs |-> [atTick[e] EXCEPT ![now + 1] = cluster[e]]]
    BY <1>0, <1>1 DEF Tick
  <2> QED
    BY <1>0, <2>1
<1>2. \/ UNCHANGED <<now, atTick>>
      \/ Tick
  BY DEF Next, PubNext, InvNext, Switch, vars, cacheVars, Dispatch, Answer, Fail,
     LoadEntry, LoadFences, CasEntry, CasEntryFails, LoadStamp, CheckStampEpoch, CasStamp,
     BumpGen, InvLoad, InvCas, Adopt, BumpEpoch, ResetStamp, PublishProxies, ReadLoad,
     ReadDecide
<1> QED
  BY <1>0, <1>1, <1>2

\* What was fresh or dated stays so.
LEMMA FreshKept ==
  ASSUME TypeInv, [Next]_vars
  PROVE  /\ \A e \in Epochs : \A v, t : Fresh(atTick, now, e, v, t) => Fresh(atTick', now', e, v, t)
         /\ \A en \in Entries : Dated(atTick, now, en) => Dated(atTick', now', en)
<1>1. ASSUME NEW e \in Epochs, NEW v, NEW t, Fresh(atTick, now, e, v, t)
      PROVE  Fresh(atTick', now', e, v, t)
  BY <1>1, PastKept DEF Fresh
<1>2. \A en \in Entries : en.epoch \in Epochs
  BY DEF Entries
<1> QED
  BY <1>1, <1>2 DEF Dated

\* The entry that a step leaves is as fresh as it says.
LEMMA EntryDated ==
  ASSUME TypeInv, Fenced, Scoped, Timely, [Next]_vars
  PROVE  Dated(atTick', now', entry')
<1>0. entry \in Entries /\ pub \in [Pubs -> PubStates] /\ inv \in [Invs -> InvStates]
  BY DEF TypeInv, TypeOK
<1>s. Dated(atTick', now', entry)
  BY <1>0, FreshKept DEF Timely
<1>1. ASSUME NEW p \in Pubs, CasEntry(p) PROVE Dated(atTick', now', entry')
  <2> DEFINE r == pub[p]
             base == MergeBase(entry, r.obs, r)
             in   == Installs(entry, r.obs, r)
             same == SameEpoch(r.obs, r)
  <2>1. /\ entry'.epoch = IF same THEN r.obs.epoch ELSE entry.epoch
        /\ entry'.version = IF in THEN r.v ELSE base.version
        /\ entry'.freshness = IF in THEN Larger(base.freshness, r.at) ELSE base.freshness
        /\ IF same /\ entry.epoch # r.obs.epoch
             THEN base.version = 0 /\ base.freshness = 0
             ELSE base = entry
    BY <1>1, SwapFields
  <2>2. UNCHANGED <<now, atTick>> /\ r.pc = "cas"
    BY <1>1 DEF CasEntry
  <2>3. r.v # 0 /\ Fresh(atTick, now, r.tok.epoch, r.v, r.at)
    BY <2>2 DEF Scoped, Answered, Timely
  <2>4. in => same /\ r.v >= base.version
    BY DEF Installs, SameEpoch
  <2>5. same => r.obs.epoch = r.tok.epoch
    BY DEF SameEpoch
  <2>6. Dated(atTick, now, entry)
    BY DEF Timely
  <2>7. /\ entry.epoch \in Epochs /\ r.tok.epoch \in Epochs /\ r.v \in Nat /\ r.at \in Nat
        /\ entry.version \in Nat /\ entry.freshness \in Nat
    BY <1>0, VersionFacts DEF Entries, PubStates, Fence, Times
  <2>8. \A e \in Epochs : \A t \in 1 .. now : atTick[e][t] \in Nat
    BY BoundsAssumption, VersionFacts DEF TypeInv, TypeOK
  <2> HIDE DEF base, in, same, r
  <2>9. CASE in
    <3>1. entry'.version = r.v /\ entry'.epoch = r.tok.epoch
            /\ entry'.freshness = Larger(base.freshness, r.at)
      BY <2>1, <2>4, <2>5, <2>9
    <3>2. CASE base.version = 0 /\ base.freshness = 0
      <4>1. entry'.freshness = r.at
        BY <2>3, <2>7, <3>1, <3>2 DEF Larger, Fresh
      <4> QED
        BY <2>2, <2>3, <3>1, <4>1 DEF Dated
    <3>3. CASE base = entry /\ entry.epoch = r.tok.epoch /\ entry.version # 0
      <4>1. Fresh(atTick, now, r.tok.epoch, r.v, entry.freshness)
        BY <2>4, <2>6, <2>7, <2>8, <2>9, <3>3 DEF Dated, Fresh
      <4>2. entry'.freshness \in {entry.freshness, r.at}
        BY <3>1, <3>3 DEF Larger
      <4> QED
        BY <2>2, <2>3, <3>1, <4>1, <4>2 DEF Dated
    <3> QED
      BY <2>1, <2>4, <2>5, <2>6, <2>9, <3>2, <3>3 DEF Dated
  <2>10. CASE ~in
    BY <2>1, <2>2, <2>6, <2>10 DEF Dated
  <2> QED
    BY <2>9, <2>10
<1>2. ASSUME NEW i \in Invs, InvCas(i) PROVE Dated(atTick', now', entry')
  <2>1. CASE entry.id = inv[i].cur.id
    <3>1. entry' = [Sentinel(entry) EXCEPT !.id = entry.id + 1]
      BY <1>2, <2>1 DEF InvCas, Fenced, InvFenced, Older
    <3>2. entry'.version = 0 /\ entry'.freshness = 0
      BY <1>0, <3>1 DEF Sentinel, Entries
    <3> QED
      BY <3>2 DEF Dated
  <2> QED
    BY <1>2, <1>s, <2>1 DEF InvCas
<1> QED
  BY <1>1, <1>2, <1>s DEF Next, PubNext, InvNext, Switch, vars, cacheVars, Dispatch, Answer,
     Fail, LoadEntry, LoadFences, CasEntryFails, LoadStamp, CheckStampEpoch, CasStamp, BumpGen,
     InvLoad, Adopt, BumpEpoch, ResetStamp, PublishProxies, ReadLoad, ReadDecide, Tick

\* How a step may change a reader.
LEMMA ReaderMoves ==
  ASSUME TypeInv, [Next]_vars, NEW x \in Readers
  PROVE  \/ rdr'[x] = rdr[x]
         \/ rdr'[x].pc = "loaded" /\ rdr'[x].e = entry
         \/ rdr'[x] = IdleReader
         \/ /\ rdr[x].pc = "loaded" /\ tryCache(rdr[x].e, rdr[x].prio)
            /\ rdr'[x].pc = "served" /\ rdr'[x].e = rdr[x].e /\ rdr'[x].t = now
<1>0. rdr \in [Readers -> ReaderStates]
  BY DEF TypeInv, TypeOK
<1>1. ASSUME NEW r \in Readers, ReadLoad(r)
      PROVE  rdr'[x] = rdr[x] \/ (rdr'[x].pc = "loaded" /\ rdr'[x].e = entry)
  BY <1>0, <1>1 DEF ReadLoad
<1>2. ASSUME NEW r \in Readers, ReadDecide(r)
      PROVE  \/ rdr'[x] = rdr[x]
             \/ rdr'[x] = IdleReader
             \/ /\ rdr[x].pc = "loaded" /\ tryCache(rdr[x].e, rdr[x].prio)
                /\ rdr'[x].pc = "served" /\ rdr'[x].e = rdr[x].e /\ rdr'[x].t = now
  <2>1. CASE x = r /\ tryCache(rdr[r].e, rdr[r].prio)
    BY <1>0, <1>2, <2>1 DEF ReadDecide, ReaderStates
  <2>2. CASE x # r \/ ~tryCache(rdr[r].e, rdr[r].prio)
    BY <1>0, <1>2, <2>2 DEF ReadDecide
  <2> QED
    BY <2>1, <2>2
<1> QED
  BY <1>1, <1>2 DEF Next, PubNext, InvNext, Switch, vars, cacheVars, Dispatch, Answer,
     Fail, LoadEntry, LoadFences, CasEntry, CasEntryFails, LoadStamp, CheckStampEpoch, CasStamp,
     BumpGen, InvLoad, InvCas, Adopt, BumpEpoch, ResetStamp, PublishProxies, Tick

\* Timely is inductive: a version never goes below what its cluster had handed
\* out at the instant the entry claims for it.
LEMMA TimelyStep == TypeInv /\ Fenced /\ Scoped /\ Timely /\ [Next]_vars => Timely'
<1> SUFFICES ASSUME TypeInv, Fenced, Scoped, Timely, [Next]_vars PROVE Timely'
  OBVIOUS
<1>0. /\ entry \in Entries /\ pub \in [Pubs -> PubStates] /\ rdr \in [Readers -> ReaderStates]
      /\ dbEpoch \in Epochs /\ now \in Nat /\ MaxVersionCacheLag \in Nat
  BY BoundsAssumption DEF TypeInv, TypeOK
<1>1. \A e \in Epochs : \A t \in 1 .. now : atTick[e][t] \in Nat
  BY BoundsAssumption, VersionFacts DEF TypeInv, TypeOK
<1>2. \A e \in Epochs : \A t \in 1 .. now' : atTick'[e][t] <= cluster'[e]
  <2> SUFFICES ASSUME NEW e \in Epochs, NEW t \in 1 .. now' PROVE atTick'[e][t] <= cluster'[e]
    OBVIOUS
  <2>1. CASE t \in 1 .. now
    BY <1>1, <2>1, PastKept, ClusterGrows DEF Timely
  <2>2. CASE now' = now + 1 /\ t = now'
    BY <2>2, PastKept, ClusterGrows
  <2> QED
    BY <2>1, <2>2, PastKept
<1>3. \A e \in Epochs : \A s, t \in 1 .. now' : s <= t => atTick'[e][s] <= atTick'[e][t]
  <2> SUFFICES ASSUME NEW e \in Epochs, NEW s \in 1 .. now', NEW t \in 1 .. now', s <= t
               PROVE  atTick'[e][s] <= atTick'[e][t]
    OBVIOUS
  <2>1. CASE t \in 1 .. now
    <3>1. s \in 1 .. now
      BY <1>0, <2>1
    <3> QED
      BY <2>1, <3>1, PastKept DEF Timely
  <2>2. CASE now' = now + 1 /\ t = now'
    <3>1. CASE s = t
      BY <2>2, <3>1, PastKept, ClusterGrows
    <3>2. CASE s \in 1 .. now
      BY <1>0, <2>2, <3>2, PastKept DEF Timely
    <3> QED
      BY <1>0, <2>2, <3>1, <3>2
  <2> QED
    BY <2>1, <2>2, PastKept
<1>4. ASSUME NEW p \in Pubs
      PROVE  /\ pub'[p].pc = "sent" => pub'[p].at \in 1 .. now'
             /\ pub'[p].pc \in Replying =>
                  Fresh(atTick', now', pub'[p].tok.epoch, pub'[p].v, pub'[p].at)
  <2>0. pub[p].tok.epoch \in Epochs /\ now \in 1 .. now
    BY <1>0 DEF PubStates, Fence, TypeInv, TypeOK
  <2>1. pub'[p].pc = "sent" => pub'[p].at \in 1 .. now'
    BY <1>0, <2>0, PubMoves, PastKept DEF PubMoved, Timely
  <2>2. ASSUME pub'[p].pc \in Replying
        PROVE  Fresh(atTick', now', pub'[p].tok.epoch, pub'[p].v, pub'[p].at)
    <3>1. CASE /\ pub[p].pc \in Replying /\ pub'[p].tok.epoch = pub[p].tok.epoch
               /\ pub'[p].v = pub[p].v /\ pub'[p].at = pub[p].at
      BY <2>0, <3>1, FreshKept DEF Timely, Replying
    <3>2. CASE /\ pub[p].pc = "sent" /\ pub'[p].at = pub[p].at
               /\ pub'[p].tok.epoch = dbEpoch /\ pub'[p].v = cluster'[dbEpoch]
               /\ now' = now /\ atTick' = atTick
      BY <1>0, <1>2, <3>2 DEF Fresh, Timely
    <3> QED
      BY <2>2, <3>1, <3>2, PubMoves DEF PubMoved, Answered, Replying
  <2> QED
    BY <2>1, <2>2
<1>5. ASSUME NEW r \in Readers
      PROVE  /\ rdr'[r].pc = "loaded" => Dated(atTick', now', rdr'[r].e)
             /\ rdr'[r].pc = "served" =>
                  /\ Fresh(atTick', now', rdr'[r].e.epoch, rdr'[r].e.version, rdr'[r].e.freshness)
                  /\ rdr'[r].t - MaxVersionCacheLag <= rdr'[r].e.freshness
  <2>0. rdr[r].e \in Entries /\ rdr[r].e.epoch \in Epochs /\ rdr[r].e.freshness \in Nat
    BY <1>0 DEF ReaderStates, Entries, Times
  <2>1. CASE rdr'[r] = rdr[r]
    BY <2>0, <2>1, FreshKept DEF Timely
  <2>2. CASE rdr'[r].pc = "loaded" /\ rdr'[r].e = entry
    BY <1>0, <2>2, FreshKept DEF Timely
  <2>3. CASE rdr'[r] = IdleReader
    BY <2>3 DEF IdleReader
  <2>4. CASE /\ rdr[r].pc = "loaded" /\ tryCache(rdr[r].e, rdr[r].prio)
             /\ rdr'[r].pc = "served" /\ rdr'[r].e = rdr[r].e /\ rdr'[r].t = now
    <3>1. rdr[r].e.version # 0 /\ now - rdr[r].e.freshness <= MaxVersionCacheLag
      BY <2>4 DEF tryCache
    <3>2. Fresh(atTick, now, rdr[r].e.epoch, rdr[r].e.version, rdr[r].e.freshness)
      BY <2>4, <3>1 DEF Timely, Dated
    <3>3. now - MaxVersionCacheLag <= rdr[r].e.freshness
      BY <1>0, <2>0, <3>1
    <3> QED
      BY <2>0, <2>4, <3>2, <3>3, FreshKept
  <2> QED
    BY <2>1, <2>2, <2>3, <2>4, ReaderMoves
<1>6. Dated(atTick', now', entry')
  BY EntryDated
<1> QED
  BY <1>2, <1>3, <1>4, <1>5, <1>6 DEF Timely, Replying

-----------------------------------------------------------------------------
(* The promises of the cache *)

GrvInv == TypeInv /\ Handoff /\ Fenced /\ Scoped /\ Floored /\ Cooled /\ Swept /\ Timely

LEMMA GrvInit == Init => GrvInv
<1> SUFFICES ASSUME Init PROVE GrvInv
  OBVIOUS
<1>0. 0 \in Epochs /\ \A e \in Epochs : e \in Nat
  BY BoundsAssumption DEF Epochs
<1>1. /\ fence = NoFence /\ entry = Nil /\ stamp = NilStamp /\ dbEpoch = 0 /\ monitor = "idle"
      /\ \A p \in Pubs : pub[p] = IdlePub
      /\ \A i \in Invs : inv[i] = IdleInv
      /\ \A r \in Readers : rdr[r] = IdleReader
      /\ \A e \in Epochs : reported[e] = 0 /\ throttled[e] = Zeros
      /\ retired = [all |-> 0, swept |-> 0] /\ now = 1 /\ cluster = Start
  BY DEF Init
<1>2. TypeInv
  BY TypeInit
<1>3. Handoff
  BY <1>1 DEF Handoff, NoFence
<1>4. Fenced
  <2>1. Older(Nil, Nil)
    BY DEF Older, Nil, Zeros
  <2> QED
    BY <1>1, <2>1 DEF Fenced, PubFenced, InvFenced, IdlePub, IdleInv, IdleReader, NoFence, Nil
<1>5. Scoped
  BY <1>1 DEF Scoped, EntryIssued, Issued, Answered, IdlePub, Nil, NilStamp
<1>6. Floored
  BY <1>0, <1>1 DEF Floored, NoFence, IdleReader
<1>7. Cooled
  BY <1>0, <1>1 DEF Cooled, NoFence, IdleReader, Zeros
<1>8. Swept
  BY <1>1 DEF Swept, NoFence, IdlePub, IdleReader, Nil
<1>9. Timely
  <2>1. \A e \in Epochs : atTick[e][1] = Start[e] /\ Start[e] \in Nat
    BY StartAssumption, BoundsAssumption DEF Init
  <2>2. Dated(atTick, now, entry)
    BY <1>1 DEF Dated, Nil
  <2> QED
    BY <1>1, <2>1, <2>2 DEF Timely, IdlePub, IdleReader
<1> QED
  BY <1>2, <1>3, <1>4, <1>5, <1>6, <1>7, <1>8, <1>9 DEF GrvInv

\* The conjunction of the parts is an invariant of the cache, for any number of
\* publishers, invalidators, readers, clusters and versions.
THEOREM GrvInvariant == Spec => []GrvInv
<1>1. GrvInv /\ [Next]_vars => GrvInv'
  BY TypeStep, FencedStep, ScopedStep, FlooredStep, CooledStep, SweptStep, TimelyStep DEF GrvInv
<1> QED
  BY <1>1, GrvInit, PTL DEF Spec

\* Read your committed writes: whatever tryCache serves is at or above every
\* commit of its cluster that had returned when it loaded the entry.
THEOREM ReadYourCommitsHolds == Spec => []ReadYourCommits
<1>1. GrvInv => ReadYourCommits
  <2> SUFFICES ASSUME GrvInv, NEW r \in Readers, Served(r)
               PROVE  rdr[r].e.version >= rdr[r].need
    BY DEF ReadYourCommits
  <2>1. rdr[r].e \in Entries /\ rdr[r].need \in {0} \cup Versions
    BY DEF GrvInv, TypeInv, TypeOK, ReaderStates
  <2>2. rdr[r].e.version \in Nat /\ rdr[r].need \in Nat
    BY <2>1, VersionFacts DEF Entries
  <2> QED
    BY <2>2 DEF GrvInv, Floored, Served
<1> QED
  BY <1>1, GrvInvariant, PTL

\* Once invalidate has swapped its sentinel in, no version asked for before the
\* call is served again.
THEOREM SweptStaysRetiredHolds == Spec => []SweptStaysRetired
<1>1. GrvInv => SweptStaysRetired
  <2> SUFFICES ASSUME GrvInv, NEW r \in Readers, Served(r)
               PROVE  rdr[r].born >= rdr[r].swept
    BY DEF SweptStaysRetired
  <2>1. rdr[r].born \in Nat /\ rdr[r].swept \in Nat
    BY DEF GrvInv, TypeInv, TypeOK, ReaderStates
  <2> QED
    BY <2>1 DEF GrvInv, Swept, Served
<1> QED
  BY <1>1, GrvInvariant, PTL

\* A version served at t is not below what its cluster had handed out
\* MaxVersionCacheLag before t.
THEOREM BoundedStalenessHolds == Spec => []BoundedStaleness
<1>1. GrvInv => BoundedStaleness
  <2> SUFFICES ASSUME GrvInv, NEW r \in Readers, Served(r)
               PROVE  rdr[r].e.version
                        >= atTick[rdr[r].e.epoch][Larger(1, rdr[r].t - MaxVersionCacheLag)]
    BY DEF BoundedStaleness
  <2> DEFINE e == rdr[r].e.epoch
             v == rdr[r].e.version
             f == rdr[r].e.freshness
             s == Larger(1, rdr[r].t - MaxVersionCacheLag)
  <2>1. rdr[r].e \in Entries /\ rdr[r].t \in Int /\ now \in 1 .. MaxNow
          /\ MaxVersionCacheLag \in Nat /\ MaxNow \in Nat
    BY BoundsAssumption DEF GrvInv, TypeInv, TypeOK, ReaderStates, Times
  <2>2. e \in Epochs /\ v \in Nat
    BY <2>1, VersionFacts DEF Entries
  <2>3. f \in 1 .. now /\ atTick[e][f] <= v /\ rdr[r].t - MaxVersionCacheLag <= f
    BY DEF GrvInv, Timely, Served, Fresh
  <2>4. s \in 1 .. now /\ s <= f
    BY <2>1, <2>3 DEF Larger
  <2>5. \A t \in 1 .. now : atTick[e][t] \in Nat
    BY <2>1, <2>2, VersionFacts DEF GrvInv, TypeInv, TypeOK
  <2>6. atTick[e][s] <= atTick[e][f]
    BY <2>2, <2>3, <2>4 DEF GrvInv, Timely
  <2> HIDE DEF e, v, f, s
  <2>7. v >= atTick[e][s]
    BY <2>2, <2>3, <2>4, <2>5, <2>6
  <2> QED
    BY <2>7 DEF e, v, s
<1> QED
  BY <1>1, GrvInvariant, PTL

\* No hit at a priority that a reply of the same cluster, applied before tryCache
\* began, throttled within the cooldown.
THEOREM ThrottleObeyedHolds == Spec => []ThrottleObeyed
<1>1. GrvInv => ThrottleObeyed
  BY DEF GrvInv, Cooled, ThrottleObeyed, Served
<1> QED
  BY <1>1, GrvInvariant, PTL

\* The cached version, the floor and the seen-version stamp are versions of the
\* cluster of their epoch.
THEOREM ClusterScopedHolds == Spec => []ClusterScoped
<1>1. GrvInv => ClusterScoped
  <2> SUFFICES ASSUME GrvInv PROVE ClusterScoped
    OBVIOUS
  <2>1. /\ entry.epoch \in Epochs /\ entry.version \in Nat /\ entry.floor \in Nat
        /\ stamp.epoch \in Epochs /\ stamp.version \in Nat
    BY VersionFacts DEF GrvInv, TypeInv, TypeOK, Entries, Stamps
  <2>2. \A e \in Epochs : Start[e] \in Nat /\ cluster[e] \in Nat
    BY VersionFacts DEF GrvInv, TypeInv, TypeOK
  <2> QED
    BY <2>1, <2>2 DEF GrvInv, Scoped, EntryIssued, Issued, ClusterScoped
<1> QED
  BY <1>1, GrvInvariant, PTL

-----------------------------------------------------------------------------
(* Refinement *)

\* What readers can see changes only when the entry or the epoch does.
LEMMA VisibleKept ==
  ASSUME entry' = entry, fence'.epoch = fence.epoch
  PROVE  UNCHANGED <<fence.epoch, Visible.version, Visible.anchor, Visible.floor>>
BY DEF Visible

\* A swap that is visible is one observation of the cluster; one that is not
\* leaves what readers can see alone.
LEMMA SwapObserves ==
  ASSUME GrvInv, NEW p \in Pubs, CasEntry(p)
  PROVE  \/ Register!Observe(pub[p].v, pub[p].at)
         \/ UNCHANGED Register!regVars
<1> DEFINE r == pub[p]
           base == MergeBase(entry, r.obs, r)
           in   == Installs(entry, r.obs, r)
           same == SameEpoch(r.obs, r)
<1>0. TypeInv /\ Fenced
  BY DEF GrvInv
<1>1. /\ r.cur = entry
      /\ entry'.epoch = IF same THEN r.obs.epoch ELSE entry.epoch
      /\ entry'.floor = MergedFloor(entry, r.obs, r)
      /\ entry'.version = IF in THEN r.v ELSE base.version
      /\ entry'.anchor = IF in THEN IF r.v = base.version
                                      THEN Smaller(base.anchor, r.at) ELSE r.at
                               ELSE base.anchor
      /\ IF same /\ entry.epoch # r.obs.epoch
           THEN base.version = 0 /\ base.anchor = 0 /\ base.floor = 0
           ELSE base = entry
  BY <1>0, SwapFields
<1>2. fence' = fence /\ r.pc = "cas"
  BY DEF CasEntry
<1>3. entry.epoch <= r.obs.epoch /\ r.obs.epoch <= fence.epoch
  BY <1>0, <1>1, <1>2 DEF Fenced, PubFenced
<1>4. entry'.floor = IF r.durable /\ same THEN Larger(base.floor, r.v) ELSE base.floor
  BY <1>1 DEF MergedFloor
<1>5. in => same /\ r.v >= entry'.floor /\ r.v >= base.version
  BY <1>1 DEF Installs, SameEpoch
<1>6. /\ entry.epoch \in Nat /\ r.obs.epoch \in Nat /\ fence.epoch \in Nat
      /\ r.v \in Nat /\ r.at \in Nat
      /\ entry.version \in Nat /\ entry.anchor \in Nat /\ entry.floor \in Nat
  <2>1. entry \in Entries /\ r \in PubStates /\ fence \in Fence
    BY <1>0 DEF TypeInv, TypeOK
  <2>2. r.obs \in Fence /\ r.v \in {0} \cup Versions /\ r.at \in Times
    BY <2>1 DEF PubStates
  <2>3. entry.epoch \in Epochs /\ r.obs.epoch \in Epochs /\ fence.epoch \in Epochs
    BY <2>1, <2>2 DEF Entries, Fence
  <2>4. entry.version \in Nat /\ entry.floor \in Nat /\ entry.anchor \in Times
    BY <2>1, VersionFacts DEF Entries
  <2> QED
    BY <2>2, <2>3, <2>4, VersionFacts DEF Epochs, Times
<1> HIDE DEF base, in, same, r
<1>7. CASE same /\ r.obs.epoch = fence.epoch
  <2>1. /\ base.version = Visible.version /\ base.anchor = Visible.anchor
        /\ base.floor = Visible.floor
    BY <1>1, <1>7 DEF Visible, Nil
  <2>2. Visible' = entry'
    BY <1>1, <1>2, <1>7 DEF Visible
  <2>3. base.anchor \in Nat /\ base.floor \in Nat /\ base.version \in Nat
    BY <1>1, <1>6
  <2>4. Visible'.floor \in {Visible.floor, IF r.v > Visible.floor THEN r.v ELSE Visible.floor}
    BY <1>4, <1>6, <2>1, <2>2, <2>3 DEF Larger
  <2>5. ASSUME in PROVE Register!Offer(r.v, r.at)
    <3>1. r.v >= Visible'.floor /\ r.v >= Visible.version /\ Visible'.version = r.v
      BY <1>1, <1>5, <2>1, <2>2, <2>5
    <3>2. Visible'.anchor = IF r.v = Visible.version /\ Visible.anchor < r.at
                              THEN Visible.anchor ELSE r.at
      BY <1>1, <1>6, <2>1, <2>2, <2>3, <2>5 DEF Smaller
    <3> QED
      BY <3>1, <3>2 DEF Register!Offer
  <2>6. ~in => Visible'.version = Visible.version /\ Visible'.anchor = Visible.anchor
    BY <1>1, <2>1, <2>2
  <2>7. Register!Observe(r.v, r.at)
    BY <1>2, <2>4, <2>5, <2>6 DEF Register!Observe
  <2> QED
    BY <2>7 DEF r
<1>8. CASE same /\ r.obs.epoch # fence.epoch
  <2>1. entry.epoch # fence.epoch /\ entry'.epoch # fence.epoch
    BY <1>1, <1>3, <1>6, <1>8
  <2>2. Visible = Nil /\ Visible' = Nil
    BY <1>2, <2>1 DEF Visible
  <2> QED
    BY <1>2, <2>2 DEF Register!regVars
<1>9. CASE ~same
  <2>1. entry'.epoch = entry.epoch /\ entry'.version = entry.version
          /\ entry'.anchor = entry.anchor /\ entry'.floor = entry.floor
    BY <1>1, <1>4, <1>5, <1>9
  <2>2. Visible'.version = Visible.version /\ Visible'.anchor = Visible.anchor
          /\ Visible'.floor = Visible.floor
    BY <1>2, <2>1 DEF Visible
  <2> QED
    BY <1>2, <2>2 DEF Register!regVars
<1> QED
  BY <1>7, <1>8, <1>9

\* What readers see of the cache is a version register: every step of the load /
\* merge / swap loops, the invalidations and the handoff is a step of the
\* register or invisible.
THEOREM ImplementsRegisterHolds == Spec => ImplementsRegister
<1>1. Init => Register!Init
  BY DEF Init, Register!Init, Visible, NoFence, Nil
<1>2. GrvInv /\ [Next]_vars => [Register!Next]_(Register!regVars)
  <2> SUFFICES ASSUME GrvInv, [Next]_vars PROVE [Register!Next]_(Register!regVars)
    OBVIOUS
  <2>0. TypeInv /\ Fenced /\ fence \in Fence /\ entry \in Entries
          /\ fence.epoch \in Nat /\ entry.epoch \in Nat
    BY DEF GrvInv, TypeInv, TypeOK, Fence, Entries, Epochs
  <2>s. entry' = entry /\ fence'.epoch = fence.epoch => UNCHANGED Register!regVars
    BY VisibleKept DEF Register!regVars
  <2>1. ASSUME NEW p \in Pubs, CasEntry(p) PROVE [Register!Next]_(Register!regVars)
    <3>1. pub[p] \in PubStates /\ pub[p].pc = "cas"
      BY <2>0, <2>1 DEF TypeInv, TypeOK, CasEntry
    <3>2. pub[p].v \in Versions
      BY <3>1 DEF PubStates, GrvInv, Scoped, Answered
    <3>3. pub[p].at \in 1 .. MaxNow
      <4>1. pub[p].at \in 1 .. now
        BY <3>1 DEF GrvInv, Timely, Fresh
      <4>2. now \in 1 .. MaxNow /\ MaxNow \in Nat
        BY <2>0, BoundsAssumption DEF TypeInv, TypeOK
      <4> QED
        BY <4>1, <4>2
    <3> QED
      BY <2>1, <3>2, <3>3, SwapObserves DEF Register!Next
  <2>2. ASSUME NEW i \in Invs, InvCas(i) PROVE [Register!Next]_(Register!regVars)
    <3>1. fence' = fence
      BY <2>2 DEF InvCas
    <3>2. CASE entry.id = inv[i].cur.id
      <4>1. entry' = [Sentinel(entry) EXCEPT !.id = entry.id + 1]
        BY <2>0, <2>2, <3>2 DEF InvCas, Fenced, InvFenced, Older
      <4>2. entry'.version = 0 /\ entry'.anchor = 0 /\ entry'.floor = entry.floor
              /\ entry'.epoch = entry.epoch
        BY <2>0, <4>1 DEF Sentinel, Entries
      <4>3. Visible'.version = 0 /\ Visible'.anchor = 0 /\ Visible'.floor = Visible.floor
        BY <3>1, <4>2 DEF Visible, Nil
      <4>4. Register!Withdraw
        BY <3>1, <4>3 DEF Register!Withdraw
      <4> QED
        BY <4>4 DEF Register!Next
    <3>3. CASE entry.id # inv[i].cur.id
      BY <2>2, <2>s, <3>1, <3>3 DEF InvCas
    <3> QED
      BY <3>2, <3>3
  <2>3. ASSUME BumpEpoch PROVE [Register!Next]_(Register!regVars)
    <3>1. fence'.epoch = fence.epoch + 1 /\ entry' = entry
      BY <2>3 DEF BumpEpoch
    <3>2. entry'.epoch # fence'.epoch
      BY <2>0, <3>1 DEF Fenced
    <3>3. Visible' = Nil
      BY <3>2 DEF Visible
    <3>4. Register!NewCluster
      BY <3>1, <3>3 DEF Register!NewCluster, Nil
    <3> QED
      BY <3>4 DEF Register!Next
  <2>4. ASSUME NEW i \in Invs, BumpGen(i) PROVE UNCHANGED Register!regVars
    <3>1. entry' = entry /\ fence'.epoch = fence.epoch
      BY <2>0, <2>4 DEF BumpGen, Fence
    <3> QED
      BY <2>s, <3>1
  <2>5. UNCHANGED <<entry, fence>> => UNCHANGED Register!regVars
    BY <2>s
  <2> QED
    BY <2>1, <2>2, <2>3, <2>4, <2>5 DEF Next, PubNext, InvNext, Switch, vars, cacheVars,
       Dispatch, Answer, Fail, LoadEntry, LoadFences, CasEntryFails, LoadStamp,
       CheckStampEpoch, CasStamp, InvLoad, Adopt, ResetStamp, PublishProxies, ReadLoad,
       ReadDecide, Tick
<1> QED
  BY <1>1, <1>2, GrvInvariant, PTL DEF Spec, ImplementsRegister, Register!Spec
=============================================================================
