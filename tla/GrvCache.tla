------------------------------ MODULE GrvCache ------------------------------
(***************************************************************************)
(* The shared read-version state of the native client: the cache entry     *)
(* (grv.go, grvCache), its fence word, the seen-version floor of           *)
(* SetReadVersion (minAcceptableReadVersion) and the proxy-set handoff     *)
(* that moves the handle to another cluster (topology.go,                  *)
(* installProxySet).                                                       *)
(*                                                                         *)
(* Four kinds of goroutine touch it.  A publisher dispatches a GRV or a    *)
(* commit, gets an answer and merges it: load the entry, load the fences,  *)
(* compare-and-swap, over again when the swap fails.  An invalidator bumps *)
(* the generation and then swaps in a sentinel.  A reader runs tryCache.   *)
(* The topology monitor adopts coordinators and installs their proxies.    *)
(* Every atomic access is one step.                                        *)
(*                                                                         *)
(* A pointer is modelled by the value it points to and an id that no other *)
(* published value has, 0 for nil: the swap compares ids.  lastProxyContact*)
(* only paces the background refresher, whose timing is left open here, so *)
(* it is not kept; nor is the publications counter of the tests.  Instants *)
(* are the values of one clock that starts at 1: 0 is the zero time.       *)
(***************************************************************************)
EXTENDS Integers

CONSTANTS
  Getters,       \* goroutines that dispatch GRVs: batchers and refreshers
  Committers,    \* goroutines that dispatch commits
  Invs,          \* goroutines that call InvalidateGRVCache
  Readers,       \* goroutines that call tryCache
  Prios,         \* the priorities that the ratekeeper throttles
  Immediate,     \* the priority that it does not (SYSTEM_IMMEDIATE)
  MaxEpoch,      \* bound: cluster switches
  MaxGen,        \* bound: invalidations and switches
  MaxNow,        \* bound: the clock
  Start,         \* Start[e]: the version of cluster e when the handle meets it
  MaxMint,       \* bound: versions one cluster hands out after its start
  MaxVersionCacheLag,
  GrvCacheRKCooldown

Pubs == Getters \cup Committers

Epochs == 0 .. MaxEpoch

ASSUME BoundsAssumption ==
  /\ MaxEpoch \in Nat /\ MaxGen \in Nat /\ MaxNow \in Nat \ {0} /\ MaxMint \in Nat
  /\ MaxVersionCacheLag \in Nat /\ GrvCacheRKCooldown \in Nat

ASSUME StartAssumption == Start \in [Epochs -> Nat \ {0}]

ASSUME PriosAssumption == Immediate \notin Prios

Cap(e) == Start[e] + MaxMint

Versions == UNION {Start[e] .. Cap(e) : e \in Epochs}

VARIABLES
  fence,      \* grvCache.fences: [epoch, gen], one word
  entry,      \* grvCache.entry
  stamp,      \* database.minAcceptableReadVersion
  dbEpoch,    \* database.dbInfo.Epoch: the epoch of the published proxies
  monitor,    \* the topology monitor: "idle", "pending", "bumped", "reset"
  pub,        \* the publishers
  inv,        \* the invalidators
  rdr,        \* the readers
  cluster,    \* external: the latest version each cluster handed out
  now,        \* the clock
  \* The rest is history, read by the properties only.
  atTick,     \* atTick[e][t]: the version of cluster e when the clock became t
  reported,   \* reported[e]: the highest commit of cluster e that has returned
  throttled,  \* throttled[e][q]: the latest throttle of q that a reply brought
  born,       \* the generation whose token installed the entry's version
  retired     \* the generation of the last invalidate to return (all), and of
              \* the last to return having swapped its sentinel in (swept)

cacheVars == <<fence, entry, stamp, dbEpoch, monitor>>
histVars  == <<reported, throttled, retired>>
vars == <<cacheVars, pub, inv, rdr, cluster, now, atTick, born, histVars>>

Fence == [epoch : Epochs, gen : 0 .. MaxGen]

Zeros == [q \in Prios |-> 0]

(* nil, and also the zero grvCacheEntry: every accessor treats them alike. *)
Nil == [id |-> 0, epoch |-> 0, version |-> 0, anchor |-> 0, freshness |-> 0,
        floor |-> 0, rk |-> Zeros]

NilStamp == [id |-> 0, epoch |-> 0, version |-> 0]

NoFence == [epoch |-> 0, gen |-> 0]

IdlePub == [pc |-> "idle", durable |-> FALSE, tok |-> NoFence, at |-> 0, v |-> 0,
            rt |-> 0, thr |-> {}, cur |-> Nil, obs |-> NoFence,
            scur |-> NilStamp]

IdleInv == [pc |-> "idle", gen |-> 0, cur |-> Nil]

IdleReader == [pc |-> "idle", prio |-> Immediate, e |-> Nil, born |-> 0, need |-> 0,
               all |-> 0, swept |-> 0, cool |-> 0, t |-> 0]

Smaller(a, b) == IF a < b THEN a ELSE b
Larger(a, b) == IF a < b THEN b ELSE a

Init ==
  /\ fence = NoFence
  /\ entry = Nil
  /\ stamp = NilStamp
  /\ dbEpoch = 0
  /\ monitor = "idle"
  /\ pub = [p \in Pubs |-> IdlePub]
  /\ inv = [i \in Invs |-> IdleInv]
  /\ rdr = [r \in Readers |-> IdleReader]
  /\ cluster = Start
  /\ now = 1
  /\ atTick = [e \in Epochs |-> [t \in 1 .. MaxNow |-> IF t = 1 THEN Start[e] ELSE 0]]
  /\ reported = [e \in Epochs |-> 0]
  /\ throttled = [e \in Epochs |-> Zeros]
  /\ born = 0
  /\ retired = [all |-> 0, swept |-> 0]

(***************************************************************************)
(* mergeReply: the entry that reply r makes of cur under the fences obs.   *)
(***************************************************************************)
SameEpoch(obs, r) == obs.epoch = r.tok.epoch

(* An entry of a previous epoch is no merge base for a current reply. *)
MergeBase(cur, obs, r) ==
  IF SameEpoch(obs, r) /\ cur.epoch # obs.epoch THEN [Nil EXCEPT !.id = cur.id] ELSE cur

\* Mutants: a commit raises the floor of whatever cluster is current; only one
\* that may install its version raises it.
MergedFloorAnyEpoch(cur, obs, r) ==
  LET floor == MergeBase(cur, obs, r).floor
  IN  IF r.durable THEN Larger(floor, r.v) ELSE floor
MergedFloorInstalled(cur, obs, r) ==
  LET floor == MergeBase(cur, obs, r).floor
  IN  IF r.durable /\ obs = r.tok THEN Larger(floor, r.v) ELSE floor

MergedFloor(cur, obs, r) ==
  LET floor == MergeBase(cur, obs, r).floor
  IN  IF r.durable /\ SameEpoch(obs, r) THEN Larger(floor, r.v) ELSE floor

\* Mutant: the token is compared by epoch only.
InstallsByEpoch(cur, obs, r) ==
  /\ SameEpoch(obs, r)
  /\ r.v >= MergedFloor(cur, obs, r)
  /\ r.v >= MergeBase(cur, obs, r).version

(* The token is current, and the version neither below the floor nor stale. *)
Installs(cur, obs, r) ==
  /\ obs = r.tok
  /\ r.v >= MergedFloor(cur, obs, r)
  /\ r.v >= MergeBase(cur, obs, r).version

MergedRK(base, obs, r) ==
  [q \in Prios |-> IF SameEpoch(obs, r) /\ q \in r.thr THEN Larger(base.rk[q], r.rt)
                                                      ELSE base.rk[q]]

mergeReply(cur, obs, r) ==
  LET base == MergeBase(cur, obs, r)
      kept == IF Installs(cur, obs, r)
                THEN [base EXCEPT
                        !.version = r.v,
                        !.anchor = IF r.v = base.version THEN Smaller(base.anchor, r.at)
                                                         ELSE r.at,
                        !.freshness = Larger(base.freshness, r.at)]
                ELSE base
  IN  [kept EXCEPT
         !.rk = MergedRK(base, obs, r),
         !.floor = MergedFloor(cur, obs, r),
         !.epoch = IF SameEpoch(obs, r) THEN obs.epoch ELSE base.epoch]

(***************************************************************************)
(* Publishers.                                                             *)
(***************************************************************************)
Step(p, from, rec) ==
  /\ pub[p].pc = from
  /\ pub' = [pub EXCEPT ![p] = rec]

(* token() and the request instant, captured before anything is sent. *)
Dispatch(p, durable) ==
  /\ p \in IF durable THEN Committers ELSE Getters
  /\ Step(p, "idle", [IdlePub EXCEPT !.pc = "sent", !.durable = durable,
                                     !.tok = fence, !.at = now])
  /\ UNCHANGED <<cacheVars, inv, rdr, cluster, now, atTick, born, histVars>>

(***************************************************************************)
(* The proxies answer.  The epoch is the one published with the proxies    *)
(* that were used, possibly after retries: withEpoch.  A commit is given a *)
(* version above all others of its cluster, a GRV the latest one, which    *)
(* other clients may have advanced meanwhile; a GRV reply may carry        *)
(* throttles.                                                              *)
(***************************************************************************)
Answer(p) ==
  \E v \in cluster[dbEpoch] .. Smaller(cluster[dbEpoch] + 1, Cap(dbEpoch)),
     thr \in SUBSET Prios :
    /\ pub[p].durable => v > cluster[dbEpoch] /\ thr = {}
    /\ Step(p, "sent", [pub[p] EXCEPT !.pc = "replied", !.tok.epoch = dbEpoch,
                                      !.v = v, !.rt = now, !.thr = thr])
    /\ cluster' = [cluster EXCEPT ![dbEpoch] = v]
    /\ UNCHANGED <<cacheVars, inv, rdr, now, atTick, born, histVars>>

(* The request fails: an error, a timeout, a cancelled caller. *)
Fail(p) ==
  /\ Step(p, "sent", IdlePub)
  /\ UNCHANGED <<cacheVars, inv, rdr, cluster, now, atTick, born, histVars>>

\* Mutant: the reply is dated when it is applied, not when it was asked for.
LoadEntryDated(p) ==
  /\ Step(p, "replied", [pub[p] EXCEPT !.pc = "loaded", !.cur = entry, !.at = now])
  /\ UNCHANGED <<cacheVars, inv, rdr, cluster, now, atTick, born, histVars>>

LoadEntry(p) ==
  /\ Step(p, "replied", [pub[p] EXCEPT !.pc = "loaded", !.cur = entry])
  /\ UNCHANGED <<cacheVars, inv, rdr, cluster, now, atTick, born, histVars>>

(* publishReplyAt returns: from update to the caller of Commit, or into
   applyGRVReply, which goes on to the seen-version floor. *)
Published(p) ==
  /\ pub' = [pub EXCEPT ![p] =
                IF pub[p].durable
                  THEN IdlePub
                  ELSE [IdlePub EXCEPT !.pc = "applying", !.tok = pub[p].tok,
                                       !.v = pub[p].v]]
  /\ reported' = IF pub[p].durable
                   THEN [reported EXCEPT ![pub[p].tok.epoch] = Larger(@, pub[p].v)]
                   ELSE reported
  /\ throttled' = [throttled EXCEPT ![pub[p].tok.epoch] =
                     [q \in Prios |-> IF q \in pub[p].thr THEN Larger(@[q], pub[p].rt)
                                                          ELSE @[q]]]

(* The fences are loaded, which decides the merge; nothing moved: return. *)
LoadFences(p) ==
  LET r == pub[p]
  IN  /\ r.pc = "loaded"
      /\ IF mergeReply(r.cur, fence, r) = r.cur
           THEN Published(p)
           ELSE /\ pub' = [pub EXCEPT ![p] = [r EXCEPT !.pc = "cas", !.obs = fence]]
                /\ UNCHANGED <<reported, throttled>>
      /\ UNCHANGED <<cacheVars, inv, rdr, cluster, now, atTick, born, retired>>

(* entry.CompareAndSwap(cur, &next) *)
CasEntry(p) ==
  LET r == pub[p]
  IN  /\ r.pc = "cas"
      /\ entry.id = r.cur.id
      /\ entry' = [mergeReply(r.cur, r.obs, r) EXCEPT !.id = entry.id + 1]
      /\ born' = IF Installs(r.cur, r.obs, r) THEN r.tok.gen ELSE born
      /\ Published(p)
      /\ UNCHANGED <<fence, stamp, dbEpoch, monitor, inv, rdr, cluster, now, atTick,
                     retired>>

CasEntryFails(p) ==
  /\ entry.id # pub[p].cur.id
  /\ Step(p, "cas", [pub[p] EXCEPT !.pc = "replied", !.cur = Nil,
                                   !.obs = NoFence])
  /\ UNCHANGED <<cacheVars, inv, rdr, cluster, now, atTick, born, histVars>>

(***************************************************************************)
(* updateMinAcceptable: load the stamp, then check the epoch, then swap.   *)
(***************************************************************************)
LoadStamp(p) ==
  /\ Step(p, "applying", [pub[p] EXCEPT !.pc = "stamping", !.scur = stamp])
  /\ UNCHANGED <<cacheVars, inv, rdr, cluster, now, atTick, born, histVars>>

CheckStampEpoch(p) ==
  LET r == pub[p]
      refused == r.tok.epoch # fence.epoch
      held == /\ r.scur.epoch = fence.epoch
              /\ r.scur.version # 0
              /\ r.v >= r.scur.version
  IN  /\ r.pc = "stamping"
      /\ pub' = [pub EXCEPT ![p] = IF refused \/ held THEN IdlePub
                                                     ELSE [r EXCEPT !.pc = "stampcas"]]
      /\ UNCHANGED <<cacheVars, inv, rdr, cluster, now, atTick, born, histVars>>

CasStamp(p) ==
  LET r == pub[p]
  IN  /\ r.pc = "stampcas"
      /\ IF stamp.id = r.scur.id
           THEN /\ stamp' = [id |-> stamp.id + 1, epoch |-> r.tok.epoch, version |-> r.v]
                /\ pub' = [pub EXCEPT ![p] = IdlePub]
           ELSE /\ pub' = [pub EXCEPT ![p] = [r EXCEPT !.pc = "applying", !.scur = NilStamp]]
                /\ UNCHANGED stamp
      /\ UNCHANGED <<fence, entry, dbEpoch, monitor, inv, rdr, cluster, now, atTick, born,
                     histVars>>

(***************************************************************************)
(* invalidate: bump the generation, then replace the entry by a sentinel   *)
(* that keeps its epoch, floor and cooldowns.                              *)
(***************************************************************************)
BumpGen(i) ==
  /\ inv[i].pc = "idle"
  /\ fence.gen < MaxGen
  /\ fence' = [fence EXCEPT !.gen = @ + 1]
  /\ inv' = [inv EXCEPT ![i] = [IdleInv EXCEPT !.pc = "bumped", !.gen = fence.gen + 1]]
  /\ UNCHANGED <<entry, stamp, dbEpoch, monitor, pub, rdr, cluster, now, atTick, born,
                 histVars>>

\* Mutants: a sentinel without the floor; one without the cooldowns.
SentinelNoFloor(cur) == [cur EXCEPT !.version = 0, !.anchor = 0, !.freshness = 0,
                                    !.floor = 0]
SentinelNoCooldown(cur) == [cur EXCEPT !.version = 0, !.anchor = 0, !.freshness = 0,
                                       !.rk = Zeros]

Sentinel(cur) == [cur EXCEPT !.version = 0, !.anchor = 0, !.freshness = 0]

InvalidateReturns(i, swept) ==
  /\ inv' = [inv EXCEPT ![i] = IdleInv]
  /\ retired' = [all |-> Larger(retired.all, inv[i].gen),
                 swept |-> IF swept THEN Larger(retired.swept, inv[i].gen)
                                    ELSE retired.swept]

InvLoad(i) ==
  /\ inv[i].pc = "bumped"
  /\ IF entry.id = 0
       THEN InvalidateReturns(i, FALSE)
       ELSE /\ inv' = [inv EXCEPT ![i].pc = "loaded", ![i].cur = entry]
            /\ UNCHANGED retired
  /\ UNCHANGED <<cacheVars, pub, rdr, cluster, now, atTick, born, reported, throttled>>

InvCas(i) ==
  /\ inv[i].pc = "loaded"
  /\ IF entry.id = inv[i].cur.id
       THEN /\ entry' = [Sentinel(inv[i].cur) EXCEPT !.id = entry.id + 1]
            /\ InvalidateReturns(i, TRUE)
       ELSE /\ inv' = [inv EXCEPT ![i].pc = "bumped", ![i].cur = Nil]
            /\ UNCHANGED <<entry, retired>>
  /\ UNCHANGED <<fence, stamp, dbEpoch, monitor, pub, rdr, cluster, now, atTick, born,
                 reported, throttled>>

(***************************************************************************)
(* The topology monitor.  onCoordinatorSetAdopted only marks the switch as *)
(* pending; installProxySet, alone under installMu, bumps both fences,     *)
(* stores an empty stamp at the new epoch and publishes the proxies.       *)
(***************************************************************************)
Adopt ==
  /\ monitor = "idle"
  /\ fence.epoch < MaxEpoch /\ fence.gen < MaxGen
  /\ monitor' = "pending"
  /\ UNCHANGED <<fence, entry, stamp, dbEpoch, pub, inv, rdr, cluster, now, atTick, born,
                 histVars>>

BumpEpoch ==
  /\ monitor = "pending"
  /\ fence.gen < MaxGen
  /\ fence' = [epoch |-> fence.epoch + 1, gen |-> fence.gen + 1]
  /\ monitor' = "bumped"
  /\ UNCHANGED <<entry, stamp, dbEpoch, pub, inv, rdr, cluster, now, atTick, born,
                 histVars>>

ResetStamp ==
  /\ monitor = "bumped"
  /\ stamp' = [id |-> stamp.id + 1, epoch |-> fence.epoch, version |-> 0]
  /\ monitor' = "reset"
  /\ UNCHANGED <<fence, entry, dbEpoch, pub, inv, rdr, cluster, now, atTick, born,
                 histVars>>

\* Mutant: they keep the epoch of the set they replace.
PublishProxiesBehind ==
  /\ monitor = "reset"
  /\ dbEpoch' = dbEpoch
  /\ monitor' = "idle"
  /\ UNCHANGED <<fence, entry, stamp, pub, inv, rdr, cluster, now, atTick, born, histVars>>

PublishProxies ==
  /\ monitor = "reset"
  /\ dbEpoch' = fence.epoch
  /\ monitor' = "idle"
  /\ UNCHANGED <<fence, entry, stamp, pub, inv, rdr, cluster, now, atTick, born, histVars>>

(***************************************************************************)
(* Readers.  tryCache loads the entry (currentEntry), then the epoch, and  *)
(* decides.  IMMEDIATE has no cooldown.                                    *)
(***************************************************************************)
ReadLoad(r) ==
  /\ rdr[r].pc # "loaded"
  /\ \E q \in Prios \cup {Immediate} :
       rdr' = [rdr EXCEPT ![r] =
                 [pc |-> "loaded", prio |-> q, e |-> entry, born |-> born,
                  need |-> reported[entry.epoch], all |-> retired.all,
                  swept |-> retired.swept,
                  cool |-> IF q = Immediate THEN 0 ELSE throttled[entry.epoch][q],
                  t |-> 0]]
  /\ UNCHANGED <<cacheVars, pub, inv, cluster, now, atTick, born, histVars>>

CooledDown(e, q) ==
  q # Immediate => e.rk[q] = 0 \/ now - e.rk[q] >= GrvCacheRKCooldown

tryCache(e, q) ==
  /\ e.epoch = fence.epoch
  /\ e.version # 0
  /\ e.version >= e.floor
  /\ now - e.freshness <= MaxVersionCacheLag
  /\ CooledDown(e, q)

ReadDecide(r) ==
  /\ rdr[r].pc = "loaded"
  /\ rdr' = [rdr EXCEPT ![r] = IF tryCache(@.e, @.prio)
                                 THEN [@ EXCEPT !.pc = "served", !.t = now]
                                 ELSE IdleReader]
  /\ UNCHANGED <<cacheVars, pub, inv, cluster, now, atTick, born, histVars>>

Tick ==
  /\ now < MaxNow
  /\ now' = now + 1
  /\ atTick' = [e \in Epochs |-> [atTick[e] EXCEPT ![now + 1] = cluster[e]]]
  /\ UNCHANGED <<cacheVars, pub, inv, rdr, cluster, born, histVars>>

PubNext(p) ==
  \/ \E d \in BOOLEAN : Dispatch(p, d)
  \/ Answer(p) \/ Fail(p)
  \/ LoadEntry(p) \/ LoadFences(p) \/ CasEntry(p) \/ CasEntryFails(p)
  \/ LoadStamp(p) \/ CheckStampEpoch(p) \/ CasStamp(p)

InvNext(i) == BumpGen(i) \/ InvLoad(i) \/ InvCas(i)

Switch == BumpEpoch \/ ResetStamp \/ PublishProxies

Next ==
  \/ \E p \in Pubs : PubNext(p)
  \/ \E i \in Invs : InvNext(i)
  \/ Adopt \/ Switch
  \/ \E r \in Readers : ReadLoad(r) \/ ReadDecide(r)
  \/ Tick

Spec == Init /\ [][Next]_vars

(***************************************************************************)
(* Fairness.  A goroutine between two atomic accesses is scheduled again;  *)
(* the background refresher dispatches GRVs for ever; and a proxy that is  *)
(* asked again and again answers: sendGRVRequest cycles through the        *)
(* proxies until one does.                                                 *)
(***************************************************************************)
RefreshSteps(p) ==
  \/ Dispatch(p, FALSE)
  \/ LoadEntry(p) \/ LoadFences(p) \/ CasEntry(p) \/ CasEntryFails(p)
  \/ LoadStamp(p) \/ CheckStampEpoch(p) \/ CasStamp(p)

Fairness ==
  /\ \A p \in Pubs : WF_vars(RefreshSteps(p))
  /\ \A p \in Getters : SF_vars(Answer(p))
  /\ \A i \in Invs : WF_vars(InvLoad(i) \/ InvCas(i))
  /\ WF_vars(Switch)

FairSpec == Spec /\ Fairness

----------------------------------------------------------------------------

Pcs == {"idle", "sent", "replied", "loaded", "cas", "applying", "stamping", "stampcas"}

Times == 0 .. MaxNow

Entries == [id : Nat, epoch : Epochs, version : {0} \cup Versions, anchor : Times,
            freshness : Times, floor : {0} \cup Versions, rk : [Prios -> Times]]

Stamps == [id : Nat, epoch : Epochs, version : {0} \cup Versions]

PubStates == [pc : Pcs, durable : BOOLEAN, tok : Fence, at : Times, v : {0} \cup Versions,
              rt : Times, thr : SUBSET Prios, cur : Entries, obs : Fence, scur : Stamps]

InvStates == [pc : {"idle", "bumped", "loaded"}, gen : 0 .. MaxGen, cur : Entries]

ReaderStates == [pc : {"idle", "loaded", "served"}, prio : Prios \cup {Immediate},
                 e : Entries, born : 0 .. MaxGen, need : {0} \cup Versions,
                 all : 0 .. MaxGen, swept : 0 .. MaxGen, cool : Times, t : Times]

(* Every variable has its type. *)
TypeOK ==
  /\ fence \in Fence
  /\ entry \in Entries
  /\ stamp \in Stamps
  /\ dbEpoch \in Epochs
  /\ monitor \in {"idle", "pending", "bumped", "reset"}
  /\ pub \in [Pubs -> PubStates]
  /\ inv \in [Invs -> InvStates]
  /\ rdr \in [Readers -> ReaderStates]
  /\ cluster \in [Epochs -> Versions]
  /\ now \in 1 .. MaxNow
  /\ atTick \in [Epochs -> [1 .. MaxNow -> {0} \cup Versions]]
  /\ reported \in [Epochs -> {0} \cup Versions]
  /\ throttled \in [Epochs -> [Prios -> Times]]
  /\ born \in 0 .. MaxGen
  /\ retired \in [all : 0 .. MaxGen, swept : 0 .. MaxGen]

Served(r) == rdr[r].pc = "served"

(***************************************************************************)
(* Read your committed writes: what tryCache serves is not below any       *)
(* commit of the same cluster whose Commit had returned when tryCache      *)
(* loaded the entry, whatever replies, invalidations and handoffs are      *)
(* interleaved (grvCacheEntry.floor).                                      *)
(***************************************************************************)
ReadYourCommits == \A r \in Readers : Served(r) => rdr[r].e.version >= rdr[r].need

(***************************************************************************)
(* The guarantee of invalidate, as its comment states it: no version       *)
(* obtained before the call is served after the call has returned.         *)
(***************************************************************************)
InvalidateGuarantee == \A r \in Readers : Served(r) => rdr[r].born >= rdr[r].all

(***************************************************************************)
(* The part of it that the loop in invalidate does establish: once the     *)
(* sentinel has been swapped in, no reply whose token predates the call is *)
(* served, however often a publisher lost its swap in between.             *)
(***************************************************************************)
SweptStaysRetired == \A r \in Readers : Served(r) => rdr[r].born >= rdr[r].swept

(***************************************************************************)
(* The staleness bound of the cache: a version served at t is not below    *)
(* what its cluster had handed out MaxVersionCacheLag before t, although   *)
(* freshness may come from another reply than the version (mergeReply).    *)
(***************************************************************************)
BoundedStaleness ==
  \A r \in Readers :
    Served(r) => rdr[r].e.version
                   >= atTick[rdr[r].e.epoch][Larger(1, rdr[r].t - MaxVersionCacheLag)]

(***************************************************************************)
(* The ratekeeper is obeyed: no hit at a priority for which a reply of the *)
(* same cluster, applied before tryCache began, brought a throttle within  *)
(* the cooldown, even when a later reply or an invalidation replaced the   *)
(* entry that carried the stamp (grvCacheEntry.rkDefault, rkBatch).        *)
(***************************************************************************)
ThrottleObeyed ==
  \A r \in Readers :
    Served(r) /\ rdr[r].cool # 0 => rdr[r].t - rdr[r].cool >= GrvCacheRKCooldown

(***************************************************************************)
(* Cluster scope: the cached version, the floor and the seen-version stamp *)
(* are numbers that the cluster of their epoch has handed out.  A floor    *)
(* from another cluster would refuse every reply of this one for good.     *)
(***************************************************************************)
ClusterScoped ==
  /\ entry.version \in {0} \cup Start[entry.epoch] .. cluster[entry.epoch]
  /\ entry.floor \in {0} \cup Start[entry.epoch] .. cluster[entry.epoch]
  /\ stamp.version \in {0} \cup Start[stamp.epoch] .. cluster[stamp.epoch]

(***************************************************************************)
(* No wedge: after every invalidation and handoff the refresher makes the  *)
(* cache servable again.                                                   *)
(***************************************************************************)
Rewarmed == []<>tryCache(entry, Immediate)

(***************************************************************************)
(* Refinement: what readers can see of the entry is a VersionRegister.  An *)
(* entry of another epoch is invisible, so the fence bump is the step at   *)
(* which the register changes clusters.                                    *)
(***************************************************************************)
Visible == IF entry.epoch = fence.epoch THEN entry ELSE Nil

Register == INSTANCE VersionRegister WITH
  Versions <- Versions, Instants <- 1 .. MaxNow, epoch <- fence.epoch,
  version <- Visible.version, anchor <- Visible.anchor, floor <- Visible.floor

ImplementsRegister == Register!Spec
=============================================================================
