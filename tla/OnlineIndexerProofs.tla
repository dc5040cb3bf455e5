------------------------- MODULE OnlineIndexerProofs -------------------------
(***************************************************************************)
(* Why the sessions of an online index build keep out of each other's way, *)
(* why the index agrees with the records all along, and why a build that   *)
(* reports success leaves it readable: for any records, builders, leases,  *)
(* queue limits and policies, whatever fails.  Every decision is taken on  *)
(* what one transaction read and is relied upon in a later step, so the    *)
(* argument is about what an open transaction may still believe of the     *)
(* store: it believes what it has read until a commit writes there, and    *)
(* then it can no longer commit.                                           *)
(***************************************************************************)
EXTENDS OnlineIndexer, TLAPS, WellFoundedInduction

-----------------------------------------------------------------------------
(* The inductive invariant, by concern. *)

Live(b) == heartbeatBlocksSession(hb[b])

\* No other heartbeat is live: what checkAdmission saw.
Alone(b) == \A c \in Builders : c # b => ~Live(c)

Sessions == {"build", "drain", "claim", "fragment", "publish", "mark"}

\* The fields of an indexer and of a transaction.
SessionShape(x) ==
    x = [pc |-> x.pc, fallback |-> x.fallback, calls |-> x.calls, queued |-> x.queued,
         after |-> x.after, claimed |-> x.claimed, walk |-> x.walk, result |-> x.result]

TxShape(t) ==
    \/ t = NoTx
    \/ /\ t = [open |-> TRUE, conflict |-> t.conflict, reads |-> t.reads,
               effect |-> t.effect, next |-> t.next]
       /\ t.conflict \in BOOLEAN

Shapes ==
    /\ now \in Nat
    /\ hb \in [Builders -> Int]
    /\ bs = [b \in Builders |-> bs[b]]
    /\ tx = [p \in Procs |-> tx[p]]
    /\ late = [b \in Builders |-> late[b]]
    /\ \A b \in Builders : SessionShape(bs[b]) /\ bs[b].fallback \in BOOLEAN
                           /\ bs[b].after \in Sessions \cup {None}
    /\ \A p \in Procs : TxShape(tx[p])

\* The stamp and the heartbeats are those of the build there is.
Stamped ==
    IF IsWriteOnly(state) THEN stamp \in {"BY_RECORDS", "MUTUAL_BY_RECORDS"}
    ELSE stamp = None /\ \A b \in Builders : hb[b] = -1

\* A live heartbeat is that of a session of the stamped method.
Methodical == \A b \in Builders : Live(b) => stamp = Method(b)

\* A transaction of a session: it renews its heartbeat, and its view of the state,
\* the stamp and, where it needs to be alone, of the other heartbeats still holds.
Renews(b, t) ==
    LET e == t.effect IN
    /\ e.beat = {b} /\ e.unbeat = {} /\ e.at \in Nat /\ e.at <= now
    /\ e.wipe = e.erase /\ e.stamp \in {None, Method(b)}
    /\ IF e.erase THEN IsWriteOnly(e.state) /\ e.stamp = Method(b) ELSE e.state = None
    /\ e.stamp # None /\ ~e.erase => ~buildsMutually(b)
    /\ {StateKey, StampKey} \subseteq t.reads
    /\ e.erase \/ ~buildsMutually(b) => BeatKeys \subseteq t.reads
    /\ ~t.conflict =>
          /\ e.erase \/ IsWriteOnly(state)
          /\ e.stamp = None => stamp = Method(b)
          /\ e.erase \/ ~buildsMutually(b) => Alone(b)

\* Any other transaction: of a writer, or one that publishes, claims or cleans up.
Leaves(p, t) ==
    LET e == t.effect IN
    /\ e.beat = {} /\ e.stamp = None
    /\ e.state \in {None, "DISABLED", "READABLE"}
    /\ e.state # None => e.erase
    /\ e.erase /\ e.state = None => StateKey \in t.reads /\ (~t.conflict => state = "READABLE")
    /\ p \in Builders => ~e.wipe
    /\ e.unbeat # {} => e.unbeat = {p} /\ p \in Builders /\ bs[p].pc = "cleanup" /\ ~e.erase

\* What the indexer will be when its transaction has committed.
Leads(b, t) ==
    /\ SessionShape(t.next)
    /\ t.next.fallback = bs[b].fallback
    /\ t.next.after \in Sessions \cup {None}
    /\ t.next.pc \in Sessions => bs[b].pc \in Sessions \/ t.effect.beat = {b}

Believed ==
    /\ \A w \in Writers : tx[w].open => Leaves(w, tx[w])
    /\ \A b \in Builders : tx[b].open =>
          /\ Renews(b, tx[b]) \/ Leaves(b, tx[b])
          /\ Leads(b, tx[b])

\* A cleanup that is still on its way belongs to an attempt that is over.
Over == \A b \in Builders : late[b] = "open" => bs[b].pc \notin Sessions

SessionInv ==
    /\ Shapes
    /\ Stamped
    /\ Methodical
    /\ Believed
    /\ Over
    /\ ExclusiveAlone

-----------------------------------------------------------------------------
(* What a commit writes, and what a transaction that did not read there may *)
(* go on to believe. *)

\* The keys a commit writes when it changes the state, the stamp or a heartbeat.
LEMMA Written ==
    ASSUME NEW e
    PROVE  /\ e.state # None => StateKey \in WriteSet(e)
           /\ e.stamp # None \/ e.erase => StampKey \in WriteSet(e)
           /\ \A b \in Builders :
                 b \in e.beat \/ b \in e.unbeat \/ e.erase => BeatKey(b) \in WriteSet(e)
BY DEF WriteSet, BeatKeys

\* The parts of the store that the sessions rest on, after a commit.
LEMMA Applied ==
    ASSUME NEW p, NEW e, Apply(p, e)
    PROVE  /\ e.state = None => state' = state
           /\ e.state # None => state' = e.state
           /\ e.stamp # None => stamp' = e.stamp
           /\ e.stamp = None /\ e.erase => stamp' = None
           /\ e.stamp = None /\ ~e.erase => stamp' = stamp
           /\ \A b \in Builders :
                 /\ b \in e.beat => hb'[b] = e.at
                 /\ b \notin e.beat /\ (e.erase \/ b \in e.unbeat) => hb'[b] = -1
                 /\ b \notin e.beat /\ ~e.erase /\ b \notin e.unbeat => hb'[b] = hb[b]
           /\ hb' = [b \in Builders |-> hb'[b]]
BY DEF Apply

\* A commit that writes nothing of what was read leaves it as it was read.
LEMMA ViewKept ==
    ASSUME NEW p, NEW e, Apply(p, e), NEW rd, rd \cap WriteSet(e) = {}
    PROVE  /\ StateKey \in rd => state' = state
           /\ StampKey \in rd => stamp' = stamp
           /\ BeatKeys \subseteq rd => \A c \in Builders : hb'[c] = hb[c]
<1>1. /\ StateKey \in rd => e.state = None
      /\ StampKey \in rd => e.stamp = None /\ ~e.erase
      /\ BeatKeys \subseteq rd =>
            \A c \in Builders : ~(c \in e.beat \/ c \in e.unbeat \/ e.erase)
    BY Written DEF BeatKeys
<1> QED BY <1>1, Applied

\* Time and the loss of a heartbeat make nobody live.
LEMMA LiveBefore ==
    ASSUME Shapes, NEW c \in Builders, now <= now', now' \in Nat,
           hb'[c] = hb[c] \/ hb'[c] = -1, Live(c)'
    PROVE  Live(c) /\ hb'[c] = hb[c]
<1>1. now \in Nat /\ hb[c] \in Int /\ Lease \in Nat
    BY ConstantsAssumption DEF Shapes
<1>2. hb'[c] >= 0 /\ now' - hb'[c] < Lease
    BY DEF Live, heartbeatBlocksSession
<1>3. hb'[c] = hb[c]
    BY <1>2
<1>4. hb[c] >= 0 /\ now - hb[c] < Lease
    BY <1>1, <1>2, <1>3
<1> QED BY <1>3, <1>4 DEF Live, heartbeatBlocksSession

\* The method is one of two.
LEMMA Methods ==
    ASSUME NEW b
    PROVE  /\ Method(b) = IF buildsMutually(b) THEN "MUTUAL_BY_RECORDS" ELSE "BY_RECORDS"
           /\ Method(b) # None
BY DEF Method, None

\* An indexer whose fallback is as it was has the method it had.
LEMMA MethodKept ==
    ASSUME NEW b, bs'[b].fallback = bs[b].fallback
    PROVE  Method(b)' = Method(b) /\ buildsMutually(b)' = buildsMutually(b)
BY DEF Method, buildsMutually

\* A commit that renews a heartbeat.
LEMMA RenewStore ==
    ASSUME SessionInv, NEW b \in Builders, NEW t, Renews(b, t), ~t.conflict,
           NEW p, Apply(p, t.effect), now' = now,
           \A c \in Builders : bs'[c].fallback = bs[c].fallback
    PROVE  Stamped' /\ Methodical' /\ ExclusiveAlone' /\ hb' \in [Builders -> Int]
<1>0. Shapes /\ now \in Nat
    BY DEF SessionInv, Shapes
<1>1. \A c \in Builders : Method(c)' = Method(c) /\ buildsMutually(c)' = buildsMutually(c)
    BY MethodKept
<1>2. PICK e : e = t.effect
    OBVIOUS
<1>3. /\ e.beat = {b} /\ e.unbeat = {} /\ e.at \in Nat
      /\ e.stamp \in {None, Method(b)}
      /\ IF e.erase THEN IsWriteOnly(e.state) /\ e.stamp = Method(b) ELSE e.state = None
      /\ e.stamp # None /\ ~e.erase => ~buildsMutually(b)
      /\ e.erase \/ IsWriteOnly(state)
      /\ e.stamp = None => stamp = Method(b)
      /\ e.erase \/ ~buildsMutually(b) => Alone(b)
    BY <1>2 DEF Renews
<1>4. Apply(p, e)
    BY <1>2
<1>5. hb'[b] = e.at /\ hb'[b] \in Int /\ hb' = [c \in Builders |-> hb'[c]]
    BY <1>3, <1>4, Applied
<1>6. \A c \in Builders : c # b => /\ hb'[c] \in Int
                                   /\ e.erase => hb'[c] = -1
                                   /\ ~e.erase => hb'[c] = hb[c]
    BY <1>0, <1>3, <1>4, Applied DEF Shapes
<1>7. IsWriteOnly(state')
    BY <1>3, <1>4, Applied, Methods DEF IsWriteOnly, None
<1>8. stamp' = Method(b)
    BY <1>3, <1>4, Applied, Methods
<1>9. hb' \in [Builders -> Int]
    BY <1>5, <1>6
<1>10. Stamped'
    BY <1>7, <1>8, Methods DEF Stamped
<1>11. \A c \in Builders : c # b /\ Live(c)' =>
          Live(c) /\ ~e.erase /\ buildsMutually(b) /\ e.stamp = None
    <2> SUFFICES ASSUME NEW c \in Builders, c # b, Live(c)'
                 PROVE  Live(c) /\ ~e.erase /\ buildsMutually(b) /\ e.stamp = None
        OBVIOUS
    <2>1. Live(c) /\ hb'[c] = hb[c]
        BY <1>0, <1>6, LiveBefore
    <2>2. ~Alone(b)
        BY <2>1 DEF Alone
    <2> QED BY <1>3, <2>1, <2>2
<1>12. Methodical'
    <2> SUFFICES ASSUME NEW c \in Builders, Live(c)' PROVE stamp' = Method(c)
        BY <1>1 DEF Methodical
    <2>1. CASE c = b
        BY <1>8, <2>1
    <2>2. CASE c # b
        BY <1>3, <1>8, <1>11, <2>2 DEF SessionInv, Methodical
    <2> QED BY <2>1, <2>2
<1>13. ExclusiveAlone'
    <2> SUFFICES ASSUME NEW c \in Builders, NEW o \in Builders, c # o, Live(c)', Live(o)'
                 PROVE  buildsMutually(c) /\ buildsMutually(o)
        BY <1>1 DEF ExclusiveAlone, Live
    <2>1. \A x \in Builders : x # b /\ Live(x)' => buildsMutually(x) /\ buildsMutually(b)
        <3> SUFFICES ASSUME NEW x \in Builders, x # b, Live(x)'
                     PROVE  buildsMutually(x) /\ buildsMutually(b)
            OBVIOUS
        <3>1. buildsMutually(b) /\ Live(x) /\ e.stamp = None
            BY <1>11
        <3>2. Method(x) = Method(b)
            BY <1>3, <3>1 DEF SessionInv, Methodical
        <3> QED BY <3>1, <3>2, Methods
    <2> QED BY <2>1
<1> QED BY <1>9, <1>10, <1>12, <1>13

\* Any other commit.
LEMMA LeaveStore ==
    ASSUME SessionInv, NEW e, NEW p, Apply(p, e), now' = now,
           e.beat = {}, e.stamp = None, e.state \in {None, "DISABLED", "READABLE"},
           e.state # None => e.erase,
           e.erase /\ e.state = None => state = "READABLE",
           \A c \in Builders : bs'[c].fallback = bs[c].fallback
    PROVE  Stamped' /\ Methodical' /\ ExclusiveAlone' /\ hb' \in [Builders -> Int]
<1>0. Shapes /\ now \in Nat
    BY DEF SessionInv, Shapes
<1>1. \A c \in Builders : Method(c)' = Method(c) /\ buildsMutually(c)' = buildsMutually(c)
    BY MethodKept
<1>2. \A c \in Builders : /\ hb'[c] = -1 \/ (hb'[c] = hb[c] /\ ~e.erase)
                          /\ hb'[c] \in Int
    BY <1>0, Applied DEF Shapes
<1>3. hb' \in [Builders -> Int]
    BY <1>2, Applied
<1>4. Stamped'
    <2>1. CASE e.erase
        <3>1. stamp' = None /\ \A c \in Builders : hb'[c] = -1
            BY <1>2, <2>1, Applied
        <3>2. ~IsWriteOnly(state')
            BY <2>1, Applied DEF IsWriteOnly, None
        <3> QED BY <3>1, <3>2 DEF Stamped
    <2>2. CASE ~e.erase
        <3>1. state' = state /\ stamp' = stamp
            BY <2>2, Applied
        <3> QED BY <1>2, <3>1 DEF SessionInv, Stamped
    <2> QED BY <2>1, <2>2
<1>5. \A c \in Builders : Live(c)' => Live(c) /\ stamp' = stamp
    <2> SUFFICES ASSUME NEW c \in Builders, Live(c)' PROVE Live(c) /\ stamp' = stamp
        OBVIOUS
    <2>1. Live(c) /\ hb'[c] = hb[c]
        BY <1>0, <1>2, LiveBefore
    <2>2. hb[c] # -1
        BY <2>1 DEF Live, heartbeatBlocksSession
    <2> QED BY <1>2, <2>1, <2>2, Applied
<1>6. Methodical'
    BY <1>1, <1>5 DEF SessionInv, Methodical
<1>7. ExclusiveAlone'
    BY <1>1, <1>5 DEF SessionInv, ExclusiveAlone, Live
<1> QED BY <1>3, <1>4, <1>6, <1>7

\* An open transaction keeps its beliefs as long as what it has read is not
\* written, or else it is in conflict.
LEMMA BeliefKept ==
    ASSUME SessionInv, NEW q \in Procs, tx[q].open, now <= now', now' \in Nat,
           tx'[q].open, tx'[q].effect = tx[q].effect, tx'[q].reads = tx[q].reads,
           tx'[q].next = tx[q].next,
           q \in Builders => bs'[q] = bs[q],
           \A c \in Builders : bs'[c].fallback = bs[c].fallback,
           ~tx'[q].conflict =>
              /\ ~tx[q].conflict
              /\ StateKey \in tx[q].reads => state' = state
              /\ StampKey \in tx[q].reads => stamp' = stamp
              /\ BeatKeys \subseteq tx[q].reads => \A c \in Builders : hb'[c] = hb[c]
    PROVE  /\ q \in Writers => Leaves(q, tx[q])'
           /\ q \in Builders => (Renews(q, tx[q]) \/ Leaves(q, tx[q]))' /\ Leads(q, tx[q])'
<1>0. Shapes
    BY DEF SessionInv
<1>1. Leaves(q, tx[q]) => Leaves(q, tx[q])'
    BY DEF Leaves
<1>2. q \in Builders /\ Leads(q, tx[q]) => Leads(q, tx[q])'
    BY DEF Leads
<1>3. ASSUME q \in Builders, Renews(q, tx[q]) PROVE Renews(q, tx[q])'
    <2>1. Method(q)' = Method(q) /\ buildsMutually(q)' = buildsMutually(q)
        BY <1>3, MethodKept
    <2>2. Alone(q) /\ (\A c \in Builders : hb'[c] = hb[c]) => Alone(q)'
        BY <1>0, LiveBefore DEF Alone
    <2>3. /\ tx[q].effect.at \in Nat /\ tx[q].effect.at <= now /\ now \in Nat
        BY <1>0, <1>3 DEF Renews, Shapes
    <2>4. tx[q].effect.at <= now'
        BY <2>3
    <2>5. ~tx'[q].conflict =>
             /\ tx[q].effect.erase \/ IsWriteOnly(state')
             /\ tx[q].effect.stamp = None => stamp' = Method(q)
             /\ tx[q].effect.erase \/ ~buildsMutually(q) => Alone(q)'
        BY <1>3, <2>2 DEF Renews
    <2> QED BY <1>3, <2>1, <2>3, <2>4, <2>5 DEF Renews
<1> QED BY <1>1, <1>2, <1>3 DEF SessionInv, Believed, Procs

\* What a commit does to the transactions of the others.
LEMMA OthersConflict ==
    ASSUME Shapes, NEW p, NEW e, NEW q \in Procs, q # p, NEW x, x = Conflicts(p, e)[q]
    PROVE  /\ TxShape(x) /\ x.open = tx[q].open
           /\ tx[q].open =>
                 /\ x.effect = tx[q].effect /\ x.reads = tx[q].reads /\ x.next = tx[q].next
                 /\ ~x.conflict => ~tx[q].conflict /\ tx[q].reads \cap WriteSet(e) = {}
<1>1. TxShape(tx[q])
    BY DEF Shapes
<1>2. x = IF tx[q].open /\ tx[q].reads \cap WriteSet(e) # {}
          THEN [tx[q] EXCEPT !.conflict = TRUE] ELSE tx[q]
    BY DEF Conflicts
<1>3. CASE tx[q].open /\ tx[q].reads \cap WriteSet(e) # {}
    <2>1. tx[q] = [open |-> TRUE, conflict |-> tx[q].conflict, reads |-> tx[q].reads,
                   effect |-> tx[q].effect, next |-> tx[q].next]
        BY <1>1, <1>3 DEF TxShape, NoTx
    <2>2. x = [open |-> TRUE, conflict |-> TRUE, reads |-> tx[q].reads,
               effect |-> tx[q].effect, next |-> tx[q].next]
        BY <1>2, <1>3, <2>1
    <2>3. tx[q].open = TRUE
        BY <2>1
    <2>4. /\ x.open = TRUE /\ x.conflict = TRUE /\ x.reads = tx[q].reads
          /\ x.effect = tx[q].effect /\ x.next = tx[q].next
        BY <2>2
    <2>5. TxShape(x)
        BY <2>2, <2>4 DEF TxShape
    <2> QED BY <2>3, <2>4, <2>5
<1>4. CASE ~(tx[q].open /\ tx[q].reads \cap WriteSet(e) # {})
    BY <1>1, <1>2, <1>4
<1> QED BY <1>3, <1>4

\* A commit, given what it leaves of the store and of its own process.
LEMMA CommitStep ==
    ASSUME SessionInv, NEW p, NEW e, Apply(p, e), now' = now,
           Stamped', Methodical', ExclusiveAlone', hb' \in [Builders -> Int],
           tx' = [q \in Procs |-> tx'[q]],
           \A q \in Procs : q # p => tx'[q] = Conflicts(p, e)[q],
           p \in Procs => tx'[p] = NoTx,
           late' = [c \in Builders |-> late'[c]],
           bs' = [c \in Builders |-> bs'[c]],
           \A c \in Builders :
              /\ SessionShape(bs'[c]) /\ bs'[c].fallback = bs[c].fallback
              /\ bs'[c].after \in Sessions \cup {None}
              /\ c # p => bs'[c] = bs[c]
              /\ late'[c] = "open" => /\ late[c] = "open"
                                      /\ bs'[c].pc \in Sessions => bs[c].pc \in Sessions
    PROVE  SessionInv'
<1>0. Shapes
    BY DEF SessionInv
<1>1. \A q \in Procs : TxShape(tx'[q])
    <2>1. \A q \in Procs : q # p => TxShape(tx'[q])
        BY <1>0, OthersConflict
    <2> QED BY <2>1 DEF TxShape
<1>2. Shapes'
    <2>1. now' \in Nat /\ \A c \in Builders : bs'[c].fallback \in BOOLEAN
        BY <1>0 DEF Shapes
    <2> QED BY <1>1, <2>1 DEF Shapes
<1>3. Over'
    BY DEF SessionInv, Over
<1>4. ASSUME NEW q \in Procs, tx'[q].open
      PROVE  /\ q \in Writers => Leaves(q, tx[q])'
             /\ q \in Builders => (Renews(q, tx[q]) \/ Leaves(q, tx[q]))' /\ Leads(q, tx[q])'
    <2>1. q # p
        BY <1>4 DEF NoTx
    <2>2. /\ tx[q].open /\ tx'[q].effect = tx[q].effect /\ tx'[q].reads = tx[q].reads
          /\ tx'[q].next = tx[q].next
          /\ ~tx'[q].conflict => ~tx[q].conflict /\ tx[q].reads \cap WriteSet(e) = {}
        BY <1>0, <1>4, <2>1, OthersConflict
    <2>3. ~tx'[q].conflict =>
             /\ ~tx[q].conflict
             /\ StateKey \in tx[q].reads => state' = state
             /\ StampKey \in tx[q].reads => stamp' = stamp
             /\ BeatKeys \subseteq tx[q].reads => \A c \in Builders : hb'[c] = hb[c]
        BY <2>2, ViewKept
    <2>4. now <= now' /\ now' \in Nat
        BY <1>0 DEF Shapes
    <2>5. /\ \A c \in Builders : bs'[c].fallback = bs[c].fallback
          /\ q \in Builders => bs'[q] = bs[q]
        BY <2>1
    <2> QED BY <1>4, <2>2, <2>3, <2>4, <2>5, BeliefKept
<1>5. Believed'
    BY <1>4 DEF Believed, Procs
<1> QED BY <1>2, <1>3, <1>5 DEF SessionInv

\* A step that leaves the store alone; p is the process whose transaction or
\* session changes.
LEMMA LocalStep ==
    ASSUME SessionInv, NEW p, UNCHANGED store, now <= now', now' \in Nat,
           tx' = [q \in Procs |-> tx'[q]],
           \A q \in Procs : TxShape(tx'[q]) /\ (q # p => tx'[q] = tx[q]),
           bs' = [c \in Builders |-> bs'[c]],
           \A c \in Builders : c # p => bs'[c] = bs[c],
           late' = [c \in Builders |-> late'[c]],
           p \in Builders =>
              /\ SessionShape(bs'[p]) /\ bs'[p].fallback \in BOOLEAN
              /\ bs'[p].after \in Sessions \cup {None}
              /\ bs'[p].fallback # bs[p].fallback => ~Live(p)
              /\ tx'[p].open => (Renews(p, tx[p]) \/ Leaves(p, tx[p]))' /\ Leads(p, tx[p])',
           p \in Writers /\ tx'[p].open => Leaves(p, tx[p])',
           Over'
    PROVE  SessionInv'
<1>0. Shapes
    BY DEF SessionInv
<1>1. Shapes'
    BY <1>0 DEF Shapes, store
<1>2. \A c \in Builders : Live(c)' => /\ Live(c) /\ bs'[c].fallback = bs[c].fallback
                                      /\ Method(c)' = Method(c)
                                      /\ buildsMutually(c)' = buildsMutually(c)
    <2> SUFFICES ASSUME NEW c \in Builders, Live(c)'
                 PROVE  Live(c) /\ bs'[c].fallback = bs[c].fallback
        BY MethodKept
    <2>1. hb'[c] = hb[c]
        BY DEF store
    <2>2. Live(c)
        BY <1>0, <2>1, LiveBefore
    <2> QED BY <2>2
<1>3. Stamped'
    BY DEF SessionInv, Stamped, store
<1>4. Methodical'
    BY <1>2 DEF SessionInv, Methodical, store
<1>5. ExclusiveAlone'
    BY <1>2 DEF SessionInv, ExclusiveAlone, Live
<1>6. ASSUME NEW q \in Procs, q # p, tx[q].open
      PROVE  /\ q \in Writers => Leaves(q, tx[q])'
             /\ q \in Builders => (Renews(q, tx[q]) \/ Leaves(q, tx[q]))' /\ Leads(q, tx[q])'
    <2>1. Leaves(q, tx[q]) => Leaves(q, tx[q])'
        BY <1>6 DEF Leaves, store
    <2>2. q \in Builders /\ Leads(q, tx[q]) => Leads(q, tx[q])'
        BY <1>6 DEF Leads
    <2>3. ASSUME q \in Builders, Renews(q, tx[q]) PROVE Renews(q, tx[q])'
        <3>1. Method(q)' = Method(q) /\ buildsMutually(q)' = buildsMutually(q)
            BY <1>6, <2>3, MethodKept
        <3>2. Alone(q) => Alone(q)'
            BY <1>2 DEF Alone
        <3>3. tx[q].effect.at \in Nat /\ tx[q].effect.at <= now /\ now \in Nat
            BY <1>0, <2>3 DEF Renews, Shapes
        <3>4. tx[q].effect.at <= now'
            BY <3>3
        <3>5. tx'[q] = tx[q] /\ state' = state /\ stamp' = stamp
            BY <1>6 DEF store
        <3> QED BY <2>3, <3>1, <3>2, <3>3, <3>4, <3>5 DEF Renews
    <2> QED BY <1>6, <2>1, <2>2, <2>3 DEF SessionInv, Believed, Procs
<1>7. Believed'
    BY <1>6 DEF Believed, Procs
<1> QED BY <1>1, <1>3, <1>4, <1>5, <1>7 DEF SessionInv

-----------------------------------------------------------------------------
(* The two ways to go on: a transaction begins, or an attempt moves without one. *)

LEMMA BeginStep ==
    ASSUME SessionInv, NEW p \in Procs, NEW rd, NEW e, NEW nx, Begin(p, rd, e, nx),
           NEW t, t = [open |-> TRUE, conflict |-> FALSE, reads |-> rd, effect |-> e,
                       next |-> nx],
           p \in Writers => Leaves(p, t),
           p \in Builders => (Renews(p, t) \/ Leaves(p, t)) /\ Leads(p, t)
    PROVE  SessionInv'
<1>0. Shapes
    BY DEF SessionInv
<1>1. UNCHANGED <<store, now, late, bs>> /\ tx' = [tx EXCEPT ![p] = t]
    BY DEF Begin
<1>2. t.open = TRUE /\ t.conflict = FALSE /\ t.reads = rd /\ t.effect = e /\ t.next = nx
    OBVIOUS
<1>3. TxShape(t)
    BY <1>2 DEF TxShape
<1>4. /\ tx' = [q \in Procs |-> tx'[q]] /\ tx'[p] = t
      /\ \A q \in Procs : TxShape(tx'[q]) /\ (q # p => tx'[q] = tx[q])
    BY <1>0, <1>1, <1>3 DEF Shapes
<1>5. UNCHANGED <<state, stamp, hb, now, bs>>
    BY <1>1 DEF store
<1>6. /\ Leaves(p, t) => Leaves(p, tx[p])'
      /\ Renews(p, t) => Renews(p, tx[p])'
      /\ Leads(p, t) => Leads(p, tx[p])'
    BY <1>4, <1>5 DEF Leaves, Renews, Leads, Method, buildsMutually, Alone, Live,
                      heartbeatBlocksSession
<1>7. Over' /\ now <= now' /\ now' \in Nat
    BY <1>0, <1>1 DEF SessionInv, Over, Shapes
<1>8. /\ bs' = [c \in Builders |-> bs'[c]] /\ late' = [c \in Builders |-> late'[c]]
      /\ \A c \in Builders : bs'[c] = bs[c]
      /\ p \in Builders => /\ SessionShape(bs'[p]) /\ bs'[p].fallback \in BOOLEAN
                           /\ bs'[p].after \in Sessions \cup {None}
    BY <1>0, <1>1 DEF Shapes
<1>9. UNCHANGED store
    BY <1>1
<1>10. p \in Builders =>
         /\ bs'[p].fallback # bs[p].fallback => ~Live(p)
         /\ tx'[p].open => (Renews(p, tx[p]) \/ Leaves(p, tx[p]))' /\ Leads(p, tx[p])'
    BY <1>6, <1>8
<1>11. p \in Writers /\ tx'[p].open => Leaves(p, tx[p])'
    BY <1>6
<1> QED BY <1>4, <1>7, <1>8, <1>9, <1>10, <1>11, LocalStep

LEMMA EndStep ==
    ASSUME SessionInv, NEW b \in Builders, NEW nx, End(b, nx), ~tx[b].open,
           SessionShape(nx), nx.fallback \in BOOLEAN, nx.after \in Sessions \cup {None},
           nx.fallback # bs[b].fallback => ~Live(b),
           nx.pc \in Sessions => bs[b].pc \in Sessions
    PROVE  SessionInv'
<1>0. Shapes
    BY DEF SessionInv
<1>1. UNCHANGED <<store, now, late, tx>> /\ bs' = [bs EXCEPT ![b] = nx]
    BY DEF End
<1>2. /\ bs' = [c \in Builders |-> bs'[c]] /\ bs'[b] = nx
      /\ \A c \in Builders : c # b => bs'[c] = bs[c]
    BY <1>0, <1>1 DEF Shapes
<1>3. /\ tx' = [q \in Procs |-> tx'[q]] /\ late' = [c \in Builders |-> late'[c]]
      /\ \A q \in Procs : TxShape(tx'[q]) /\ tx'[q] = tx[q]
      /\ now <= now' /\ now' \in Nat /\ UNCHANGED store
    BY <1>0, <1>1 DEF Shapes
<1>4. Over'
    BY <1>1, <1>2 DEF SessionInv, Over
<1>5. b \notin Writers /\ b \in Procs
    BY ConstantsAssumption DEF Procs
<1> QED BY <1>2, <1>3, <1>4, <1>5, LocalStep

-----------------------------------------------------------------------------
(* The sessions that follow. *)

\* An attempt that ends, in any way, keeps its fields and goes to its cleanup.
LEMMA EndingFields ==
    ASSUME Shapes, NEW b \in Builders, NEW r, NEW nx,
           nx = Ending(b, r) \/ nx = [Ending(b, r) EXCEPT !.fallback = TRUE]
    PROVE  /\ SessionShape(nx) /\ nx.pc = "cleanup" /\ nx.after = bs[b].after
           /\ nx = Ending(b, r) => nx.fallback = bs[b].fallback
           /\ nx = [Ending(b, r) EXCEPT !.fallback = TRUE] => nx.fallback = TRUE
<1>1. SessionShape(bs[b])
    BY DEF Shapes
<1>2. PICK x : x = Ending(b, r)
    OBVIOUS
<1>3. /\ SessionShape(x) /\ x.pc = "cleanup" /\ x.after = bs[b].after
      /\ x.fallback = bs[b].fallback
    <2>1. PICK s : s = bs[b]
        OBVIOUS
    <2>2. x = [s EXCEPT !.pc = "cleanup", !.result = r]
        BY <1>2, <2>1 DEF Ending
    <2>3. SessionShape(x) /\ x.pc = "cleanup" /\ x.after = s.after /\ x.fallback = s.fallback
        BY <1>1, <2>1, <2>2 DEF SessionShape
    <2> QED BY <2>1, <2>3
<1>4. PICK y : y = [x EXCEPT !.fallback = TRUE]
    OBVIOUS
<1>5. SessionShape(y) /\ y.pc = "cleanup" /\ y.after = bs[b].after /\ y.fallback = TRUE
    BY <1>2, <1>3, <1>4 DEF SessionShape
<1> QED BY <1>2, <1>3, <1>4, <1>5

\* An attempt that ends without a fallback.
LEMMA EndEnding ==
    ASSUME SessionInv, NEW b \in Builders, NEW r, ~tx[b].open, End(b, Ending(b, r))
    PROVE  SessionInv'
<1>0. Shapes
    BY DEF SessionInv
<1>1. PICK nx : nx = Ending(b, r)
    OBVIOUS
<1>2. /\ SessionShape(nx) /\ nx.pc = "cleanup" /\ nx.after = bs[b].after
      /\ nx.fallback = bs[b].fallback /\ End(b, nx)
    BY <1>0, <1>1, EndingFields
<1>3. bs[b].after \in Sessions \cup {None} /\ bs[b].fallback \in BOOLEAN
    BY <1>0 DEF Shapes
<1>4. nx.pc \notin Sessions
    BY <1>2 DEF Sessions
<1> QED BY <1>2, <1>3, <1>4, EndStep

\* A fallback to the records scan, which only an indexer without a live heartbeat
\* comes to: the stamp is not of its method.
LEMMA EndPartlyBuilt ==
    ASSUME SessionInv, NEW b \in Builders, NEW saved, ~tx[b].open, stamp # Method(b),
           End(b, PartlyBuilt(b, saved))
    PROVE  SessionInv'
<1>0. Shapes
    BY DEF SessionInv
<1>1. CASE saved # "BY_RECORDS"
    <2>1. End(b, Ending(b, "failed"))
        BY <1>1 DEF PartlyBuilt
    <2> QED BY <2>1, EndEnding
<1>2. CASE saved = "BY_RECORDS"
    <2>1. PICK nx : nx = [Ending(b, "retry") EXCEPT !.fallback = TRUE]
        OBVIOUS
    <2>2. End(b, nx)
        BY <1>2, <2>1 DEF PartlyBuilt
    <2>3. /\ SessionShape(nx) /\ nx.pc = "cleanup" /\ nx.after = bs[b].after
          /\ nx.fallback = TRUE
        BY <1>0, <2>1, EndingFields
    <2>4. bs[b].after \in Sessions \cup {None} /\ nx.pc \notin Sessions
        BY <1>0, <2>3 DEF Shapes, Sessions
    <2>5. ~Live(b)
        BY DEF SessionInv, Methodical
    <2> QED BY <2>2, <2>3, <2>4, <2>5, EndStep
<1> QED BY <1>1, <1>2

\* A session that is no longer valid ends.
LEMMA EndSessionError ==
    ASSUME SessionInv, NEW b \in Builders, ~tx[b].open, End(b, SessionError(b))
    PROVE  SessionInv'
<1>1. CASE state # ExpectedState(b)
    <2>1. PICK r : End(b, Ending(b, r))
        BY <1>1 DEF SessionError, UnexpectedState
    <2> QED BY <2>1, EndEnding
<1>2. CASE state = ExpectedState(b) /\ ~StampHolds(b)
    <2>1. End(b, PartlyBuilt(b, stamp)) /\ stamp # Method(b)
        BY <1>2 DEF SessionError, StampHolds
    <2> QED BY <2>1, EndPartlyBuilt
<1>3. CASE state = ExpectedState(b) /\ StampHolds(b)
    <2>1. End(b, Ending(b, "failed"))
        BY <1>3 DEF SessionError
    <2> QED BY <2>1, EndEnding
<1> QED BY <1>1, <1>2, <1>3

\* A session that goes on to a place of its own.
LEMMA ThenFields ==
    ASSUME Shapes, NEW b \in Builders, NEW pc \in Sessions, NEW nx, nx = Then(b, pc)
    PROVE  /\ SessionShape(nx) /\ nx.fallback = bs[b].fallback
           /\ nx.after \in Sessions \cup {None} /\ nx.pc \in Sessions
<1>1. SessionShape(bs[b]) /\ bs[b].after \in Sessions \cup {None}
    BY DEF Shapes
<1>2. CASE bs[b].queued
    <2>1. nx = [bs[b] EXCEPT !.pc = "drain", !.after = pc]
        BY <1>2 DEF Then
    <2> QED BY <1>1, <2>1 DEF SessionShape, Sessions
<1>3. CASE ~bs[b].queued
    <2>1. nx = [bs[b] EXCEPT !.pc = pc]
        BY <1>3 DEF Then
    <2> QED BY <1>1, <2>1 DEF SessionShape
<1> QED BY <1>2, <1>3

-----------------------------------------------------------------------------
(* Record writes. *)

LEMMA WriteEffect ==
    ASSUME NEW op, NEW k, NEW v, NEW e, e = [updateOneIndex(op) EXCEPT !.rec = {<<k, v>>}]
    PROVE  /\ e.beat = {} /\ e.stamp = None /\ e.unbeat = {}
           /\ \/ e.state = None /\ e.erase = FALSE
              \/ e.state = "DISABLED" /\ e.erase = TRUE
<1>1. PICK u : u = updateOneIndex(op)
    OBVIOUS
<1>2. \/ u = NoEffect \/ u = [NoEffect EXCEPT !.ops = <<op>>]
      \/ u = [NoEffect EXCEPT !.enq = <<op>>] \/ u = Disabling
    BY <1>1 DEF updateOneIndex, Enqueue, Queued, UpdateWhileWriteOnly
<1>3. e = [u EXCEPT !.rec = {<<k, v>>}]
    BY <1>1
<1>4. CASE u = NoEffect \/ u = [NoEffect EXCEPT !.ops = <<op>>]
           \/ u = [NoEffect EXCEPT !.enq = <<op>>]
    BY <1>3, <1>4 DEF NoEffect
<1>5. CASE u = Disabling
    BY <1>3, <1>5 DEF NoEffect, Disabling
<1> QED BY <1>2, <1>4, <1>5

LEMMA WriteStep ==
    ASSUME SessionInv, NEW w \in Writers, NEW k, NEW v, Write(w, k, v)
    PROVE  SessionInv'
<1>0. PICK op : op = <<k, records[k], v>>
    OBVIOUS
<1>1. PICK e : e = [updateOneIndex(op) EXCEPT !.rec = {<<k, v>>}]
    OBVIOUS
<1>2. PICK t : t = [open |-> TRUE, conflict |-> FALSE, reads |-> SaveReads(k),
                    effect |-> e, next |-> None]
    OBVIOUS
<1>3. Begin(w, SaveReads(k), e, None)
    BY <1>0, <1>1 DEF Write
<1>4. /\ e.beat = {} /\ e.stamp = None /\ e.unbeat = {}
      /\ \/ e.state = None /\ e.erase = FALSE
         \/ e.state = "DISABLED" /\ e.erase = TRUE
    BY <1>1, WriteEffect
<1>5. w \notin Builders /\ w \in Procs
    BY ConstantsAssumption DEF Procs
<1>6. t.effect = e
    BY <1>2
<1>7. Leaves(w, t)
    BY <1>4, <1>5, <1>6 DEF Leaves, None
<1> QED BY <1>2, <1>3, <1>5, <1>7, BeginStep

-----------------------------------------------------------------------------
(* The transactions of a session. *)

\* A renewal that changes nothing else of what the sessions rest on.
Renewal(e, b) ==
    /\ e.beat = {b} /\ e.unbeat = {} /\ e.at = now /\ e.state = None
    /\ e.wipe = FALSE /\ e.erase = FALSE

\* A transaction that validated its session.
LEMMA ValidatedStep ==
    ASSUME SessionInv, NEW b \in Builders, validateBuildSession(b),
           bs[b].pc \in Sessions,
           NEW e, Renewal(e, b), e.stamp = None,
           NEW rd, SessionReads(b) \subseteq rd,
           NEW nx, SessionShape(nx), nx.fallback = bs[b].fallback,
           nx.after \in Sessions \cup {None},
           Begin(b, rd, e, nx)
    PROVE  SessionInv'
<1>1. PICK t : t = [open |-> TRUE, conflict |-> FALSE, reads |-> rd, effect |-> e,
                    next |-> nx]
    OBVIOUS
<1>2. t.effect = e /\ t.reads = rd /\ t.next = nx /\ t.conflict = FALSE
    BY <1>1
<1>3. now \in Nat /\ now <= now
    BY DEF SessionInv, Shapes
<1>4. IsWriteOnly(state) /\ stamp = Method(b)
    <2>1. IsWriteOnly(state) /\ StampHolds(b)
        BY DEF validateBuildSession, ExpectedState, IsWriteOnly
    <2>2. stamp # None
        BY <2>1 DEF SessionInv, Stamped, None
    <2> QED BY <2>1, <2>2 DEF StampHolds
<1>5. ~buildsMutually(b) => Alone(b) /\ BeatKeys \subseteq rd
    BY DEF validateBuildSession, Admitted, Alone, Live, SessionReads
<1>6. {StateKey, StampKey} \subseteq rd
    BY DEF SessionReads
<1>7. Renews(b, t)
    BY <1>2, <1>3, <1>4, <1>5, <1>6 DEF Renews, Renewal
<1>8. Leads(b, t)
    BY <1>2 DEF Leads
<1>9. b \in Procs /\ b \notin Writers
    BY ConstantsAssumption DEF Procs
<1> QED BY <1>1, <1>7, <1>8, <1>9, BeginStep

\* A transaction that leaves the stamp and the heartbeats to others.
LEMMA LeavingStep ==
    ASSUME SessionInv, NEW b \in Builders, NEW e, NEW rd,
           e.beat = {}, e.stamp = None, e.state \in {None, "READABLE"}, ~e.wipe,
           e.state # None => e.erase,
           e.erase /\ e.state = None => StateKey \in rd /\ state = "READABLE",
           e.unbeat # {} => e.unbeat = {b} /\ bs[b].pc = "cleanup" /\ ~e.erase,
           NEW nx, SessionShape(nx), nx.fallback = bs[b].fallback,
           nx.after \in Sessions \cup {None},
           nx.pc \in Sessions => bs[b].pc \in Sessions,
           Begin(b, rd, e, nx)
    PROVE  SessionInv'
<1>1. PICK t : t = [open |-> TRUE, conflict |-> FALSE, reads |-> rd, effect |-> e,
                    next |-> nx]
    OBVIOUS
<1>2. t.effect = e /\ t.reads = rd /\ t.next = nx
    BY <1>1
<1>3. Leaves(b, t)
    BY <1>2 DEF Leaves
<1>4. Leads(b, t)
    BY <1>2 DEF Leads
<1>5. b \in Procs /\ b \notin Writers
    BY ConstantsAssumption DEF Procs
<1> QED BY <1>1, <1>3, <1>4, <1>5, BeginStep

\* A transaction that begins or continues a build.
LEMMA PrepareBegins ==
    ASSUME SessionInv, NEW b \in Builders, NEW e, NEW q, NEW rd, PrepareReads \subseteq rd,
           e.beat = {b}, e.unbeat = {}, e.at = now, e.wipe = e.erase,
           e.stamp \in {None, Method(b)},
           IF e.erase THEN IsWriteOnly(e.state) /\ e.stamp = Method(b)
                      ELSE e.state = None /\ IsWriteOnly(state),
           e.stamp = None => stamp = Method(b),
           e.stamp # None /\ ~e.erase => ~buildsMutually(b),
           e.erase \/ ~buildsMutually(b) => Admitted(b),
           Begin(b, rd, e, SessionOf(b, q))
    PROVE  SessionInv'
<1>0. Shapes
    BY DEF SessionInv
<1>1. PICK nx : nx = SessionOf(b, q)
    OBVIOUS
<1>2. PICK t : t = [open |-> TRUE, conflict |-> FALSE, reads |-> rd, effect |-> e,
                    next |-> nx]
    OBVIOUS
<1>3. t.effect = e /\ t.reads = rd /\ t.next = nx /\ t.conflict = FALSE
    BY <1>2
<1>4. now \in Nat /\ now <= now
    BY <1>0 DEF Shapes
<1>5. Admitted(b) => Alone(b)
    BY DEF Admitted, Alone, Live
<1>6. {StateKey, StampKey} \subseteq rd /\ BeatKeys \subseteq rd
    BY DEF PrepareReads
<1>7. Renews(b, t)
    BY <1>3, <1>4, <1>5, <1>6 DEF Renews
<1>8. /\ SessionShape(nx) /\ nx.fallback = bs[b].fallback
      /\ nx.after = bs[b].after
    <2>1. PICK s : s = bs[b]
        OBVIOUS
    <2>2. PICK pc : nx = [s EXCEPT !.pc = pc, !.queued = q]
        BY <1>1, <2>1 DEF SessionOf
    <2>3. SessionShape(s)
        BY <1>0, <2>1 DEF Shapes
    <2>4. SessionShape(nx) /\ nx.fallback = s.fallback /\ nx.after = s.after
        BY <2>2, <2>3 DEF SessionShape
    <2> QED BY <2>1, <2>4
<1>9. Leads(b, t)
    BY <1>0, <1>3, <1>8 DEF Leads, Shapes
<1>10. b \in Procs /\ b \notin Writers
    BY ConstantsAssumption DEF Procs
<1> QED BY <1>1, <1>2, <1>7, <1>9, <1>10, BeginStep

LEMMA PrepareStep ==
    ASSUME SessionInv, NEW b \in Builders, prepareIndexingState(b)
    PROVE  SessionInv'
<1>0. Shapes /\ bs[b].after \in Sessions \cup {None} /\ ~tx[b].open
    BY DEF SessionInv, Shapes, prepareIndexingState, At
<1>1. PICK continued : continued = (DesiredAction(b) = "CONTINUE")
    OBVIOUS
<1>2. CASE /\ state = "READABLE" /\ continued
           /\ Begin(b, PrepareReads, NoEffect, Ending(b, "ok"))
    <2>1. PICK nx : nx = Ending(b, "ok")
        OBVIOUS
    <2>2. /\ SessionShape(nx) /\ nx.pc = "cleanup" /\ nx.after = bs[b].after
          /\ nx.fallback = bs[b].fallback
        BY <1>0, <2>1, EndingFields
    <2>3. PICK e : e = NoEffect
        OBVIOUS
    <2>4. e.beat = {} /\ e.stamp = None /\ e.state = None /\ e.erase = FALSE
          /\ e.wipe = FALSE /\ e.unbeat = {}
        BY <2>3 DEF NoEffect
    <2>5. nx.pc \notin Sessions
        BY <2>2 DEF Sessions
    <2> QED BY <1>0, <1>2, <2>1, <2>2, <2>3, <2>4, <2>5, LeavingStep
<1>3. CASE End(b, Ending(b, "failed"))
    BY <1>0, <1>3, EndEnding
<1>4. CASE /\ ~continued
           /\ NeedsExclusion(b, continued) => Admitted(b)
           /\ Begin(b, PrepareReads, FreshStart(b),
                    SessionOf(b, FreshState(b) = "WRITE_ONLY_WITH_QUEUE"))
    <2>1. PICK e : e = FreshStart(b)
        OBVIOUS
    <2>2. /\ e.beat = {b} /\ e.unbeat = {} /\ e.at = now /\ e.wipe = TRUE /\ e.erase = TRUE
          /\ e.stamp = Method(b) /\ e.state = FreshState(b)
        BY <2>1 DEF FreshStart, Beat, NoEffect
    <2>3. IsWriteOnly(FreshState(b))
        BY DEF IsWriteOnly, FreshState
    <2>4. Admitted(b)
        BY <1>4 DEF NeedsExclusion
    <2>5. e.stamp # None
        BY <2>2, Methods
    <2> QED BY <1>4, <2>1, <2>2, <2>3, <2>4, <2>5, PrepareBegins
<1>5. CASE /\ continued /\ IsWriteOnly(state)
           /\ NeedsExclusion(b, continued) => Admitted(b)
           /\ ~MayTakeOver(b)
           /\ End(b, PartlyBuilt(b, IF stamp = None THEN "BY_RECORDS" ELSE stamp))
    <2>1. stamp # Method(b)
        BY <1>5 DEF MayTakeOver
    <2> QED BY <1>0, <1>5, <2>1, EndPartlyBuilt
<1>6. CASE /\ continued /\ IsWriteOnly(state)
           /\ NeedsExclusion(b, continued) => Admitted(b)
           /\ MayTakeOver(b)
           /\ Begin(b, PrepareReads \cup (IF stamp = Method(b) THEN {} ELSE RangeKeys(Keys)),
                    IF stamp = Method(b) THEN Beat(b)
                    ELSE [Beat(b) EXCEPT !.stamp = Method(b)],
                    SessionOf(b, state = "WRITE_ONLY_WITH_QUEUE"))
    <2>1. stamp # None /\ Method(b) # None
        BY <1>6, Methods DEF SessionInv, Stamped, None
    <2>2. ~buildsMutually(b) => Admitted(b)
        BY <1>6 DEF NeedsExclusion
    <2>3. stamp # Method(b) => ~buildsMutually(b)
        BY <1>6, <2>1 DEF MayTakeOver, buildsMutually
    <2>4. PICK e : e = IF stamp = Method(b) THEN Beat(b)
                       ELSE [Beat(b) EXCEPT !.stamp = Method(b)]
        OBVIOUS
    <2>5. /\ e.beat = {b} /\ e.unbeat = {} /\ e.at = now /\ e.wipe = FALSE /\ e.erase = FALSE
          /\ e.state = None
          /\ e.stamp = IF stamp = Method(b) THEN None ELSE Method(b)
        BY <2>4 DEF Beat, NoEffect
    <2>6. PICK rd : rd = PrepareReads \cup (IF stamp = Method(b) THEN {} ELSE RangeKeys(Keys))
        OBVIOUS
    <2>7. PrepareReads \subseteq rd
        BY <2>6
    <2>8. Begin(b, rd, e, SessionOf(b, state = "WRITE_ONLY_WITH_QUEUE"))
        BY <1>6, <2>4, <2>6
    <2>9. e.stamp \in {None, Method(b)} /\ (e.stamp = None => stamp = Method(b))
          /\ (e.stamp # None => ~buildsMutually(b))
        BY <2>1, <2>3, <2>5
    <2> QED BY <1>6, <2>2, <2>5, <2>7, <2>8, <2>9, PrepareBegins
<1> QED BY <1>1, <1>2, <1>3, <1>4, <1>5, <1>6 DEF prepareIndexingState

LEMMA BuildStep ==
    ASSUME SessionInv, NEW b \in Builders, buildRange(b)
    PROVE  SessionInv'
<1>0. Shapes /\ ~tx[b].open /\ bs[b].pc \in Sessions
    BY DEF SessionInv, buildRange, At, Sessions
<1>1. CASE End(b, SessionError(b))
    BY <1>0, <1>1, EndSessionError
<1>2. ASSUME validateBuildSession(b), NEW e, NEW rd, NEW pc \in Sessions,
             \/ e = Beat(b)
             \/ \E x, y : e = [Beat(b) EXCEPT !.built = x, !.ops = y],
             SessionReads(b) \subseteq rd, Begin(b, rd, e, Then(b, pc))
      PROVE  SessionInv'
    <2>1. PICK nx : nx = Then(b, pc)
        OBVIOUS
    <2>2. /\ SessionShape(nx) /\ nx.fallback = bs[b].fallback
          /\ nx.after \in Sessions \cup {None}
        BY <1>0, <2>1, ThenFields
    <2>3. Renewal(e, b) /\ e.stamp = None
        BY <1>2 DEF Renewal, Beat, NoEffect
    <2> QED BY <1>0, <1>2, <2>1, <2>2, <2>3, ValidatedStep
<1>3. CASE /\ validateBuildSession(b)
           /\ Begin(b, SessionReads(b) \cup RangeKeys(Keys), Beat(b), Then(b, "publish"))
    <2>1. "publish" \in Sessions
        BY DEF Sessions
    <2> QED BY <1>2, <1>3, <2>1
<1>4. CASE /\ validateBuildSession(b)
           /\ \E S, cut :
                 Begin(b, SessionReads(b) \cup RangeKeys(Keys) \cup ScanReads(S, cut),
                       Chunk(b, S, cut),
                       Then(b, IF cut = 0 /\ N \in S THEN "publish" ELSE "build"))
    <2>1. PICK S, cut :
             Begin(b, SessionReads(b) \cup RangeKeys(Keys) \cup ScanReads(S, cut),
                   Chunk(b, S, cut),
                   Then(b, IF cut = 0 /\ N \in S THEN "publish" ELSE "build"))
        BY <1>4
    <2>2. PICK pc : pc = IF cut = 0 /\ N \in S THEN "publish" ELSE "build"
        OBVIOUS
    <2>3. pc \in Sessions
        BY <2>2 DEF Sessions
    <2>4. PICK e : e = Chunk(b, S, cut)
        OBVIOUS
    <2>5. \E x, y : e = [Beat(b) EXCEPT !.built = x, !.ops = y]
        BY <2>4 DEF Chunk
    <2>6. PICK rd : rd = SessionReads(b) \cup RangeKeys(Keys) \cup ScanReads(S, cut)
        OBVIOUS
    <2>7. Begin(b, rd, e, Then(b, pc)) /\ SessionReads(b) \subseteq rd
        BY <2>1, <2>2, <2>4, <2>6
    <2> QED BY <1>2, <1>4, <2>3, <2>5, <2>7
<1> QED BY <1>1, <1>3, <1>4 DEF buildRange

LEMMA DrainStep ==
    ASSUME SessionInv, NEW b \in Builders, drainPendingIndexWrites(b)
    PROVE  SessionInv'
<1>0. Shapes /\ ~tx[b].open /\ bs[b].pc \in Sessions
    BY DEF SessionInv, drainPendingIndexWrites, At, Sessions
<1>1. CASE ~validateBuildSession(b)
    BY <1>0, <1>1, EndEnding DEF drainPendingIndexWrites
<1>2. CASE validateBuildSession(b)
    <2>1. PICK n \in 0 .. Len(queue), short \in BOOLEAN :
             Begin(b, SessionReads(b) \cup DrainReads(n, short),
                   [Beat(b) EXCEPT !.ops = Replay(n), !.deq = n],
                   IF short THEN bs[b] ELSE [bs[b] EXCEPT !.pc = bs[b].after])
        BY <1>2 DEF drainPendingIndexWrites
    <2>2. PICK e : e = [Beat(b) EXCEPT !.ops = Replay(n), !.deq = n]
        OBVIOUS
    <2>3. Renewal(e, b) /\ e.stamp = None
        BY <2>2 DEF Renewal, Beat, NoEffect
    <2>4. PICK s : s = bs[b]
        OBVIOUS
    <2>5. PICK nx : nx = IF short THEN s ELSE [s EXCEPT !.pc = s.after]
        OBVIOUS
    <2>6. SessionShape(s) /\ s.after \in Sessions \cup {None}
        BY <1>0, <2>4 DEF Shapes
    <2>7. SessionShape(nx) /\ nx.fallback = s.fallback /\ nx.after = s.after
        BY <2>5, <2>6 DEF SessionShape
    <2>8. Begin(b, SessionReads(b) \cup DrainReads(n, short), e, nx)
        BY <2>1, <2>2, <2>4, <2>5
    <2> QED BY <1>0, <1>2, <2>3, <2>4, <2>6, <2>7, <2>8, ValidatedStep
<1> QED BY <1>1, <1>2

LEMMA ClaimStep ==
    ASSUME SessionInv, NEW b \in Builders, claimNextRange(b)
    PROVE  SessionInv'
<1>0. Shapes /\ ~tx[b].open /\ bs[b].pc \in Sessions
    BY DEF SessionInv, claimNextRange, At, Sessions
<1>1. PICK s : s = bs[b]
    OBVIOUS
<1>2. SessionShape(s) /\ s.after \in Sessions \cup {None}
    BY <1>0, <1>1 DEF Shapes
<1>3. CASE End(b, UnexpectedState(b))
    <2>1. PICK r : End(b, Ending(b, r))
        BY <1>3 DEF UnexpectedState
    <2> QED BY <1>0, <2>1, EndEnding
<1>4. CASE End(b, SessionError(b))
    BY <1>0, <1>4, EndSessionError
<1>5. CASE End(b, Ending(b, "third iteration"))
    BY <1>0, <1>5, EndEnding
<1>6. CASE /\ validateBuildSession(b)
           /\ Begin(b, SessionReads(b) \cup RangeKeys(Keys), Beat(b),
                    [bs[b] EXCEPT !.pc = "publish"])
    <2>1. PICK nx : nx = [s EXCEPT !.pc = "publish"]
        OBVIOUS
    <2>2. SessionShape(nx) /\ nx.fallback = s.fallback /\ nx.after = s.after
        BY <1>2, <2>1 DEF SessionShape
    <2>3. PICK e : e = Beat(b)
        OBVIOUS
    <2>4. Renewal(e, b) /\ e.stamp = None
        BY <2>3 DEF Renewal, Beat, NoEffect
    <2>5. Begin(b, SessionReads(b) \cup RangeKeys(Keys), e, nx)
        BY <1>1, <1>6, <2>1, <2>3
    <2> QED BY <1>0, <1>1, <1>2, <1>6, <2>2, <2>4, <2>5, ValidatedStep
<1>7. CASE \E w, c : Begin(b, {StateKey} \cup RangeKeys(Keys), NoEffect,
                           [bs[b] EXCEPT !.pc = "fragment", !.walk = w, !.claimed = c])
    <2>1. PICK w, c : Begin(b, {StateKey} \cup RangeKeys(Keys), NoEffect,
                            [bs[b] EXCEPT !.pc = "fragment", !.walk = w, !.claimed = c])
        BY <1>7
    <2>2. PICK nx : nx = [s EXCEPT !.pc = "fragment", !.walk = w, !.claimed = c]
        OBVIOUS
    <2>3. SessionShape(nx) /\ nx.fallback = s.fallback /\ nx.after = s.after
        BY <1>2, <2>2 DEF SessionShape
    <2>4. PICK e : e = NoEffect
        OBVIOUS
    <2>5. e.beat = {} /\ e.stamp = None /\ e.state = None /\ e.erase = FALSE
          /\ e.wipe = FALSE /\ e.unbeat = {}
        BY <2>4 DEF NoEffect
    <2>6. Begin(b, {StateKey} \cup RangeKeys(Keys), e, nx)
        BY <1>1, <2>1, <2>2, <2>4
    <2> QED BY <1>0, <1>1, <1>2, <2>3, <2>5, <2>6, LeavingStep
<1> QED BY <1>3, <1>4, <1>5, <1>6, <1>7 DEF claimNextRange

LEMMA FragmentStep ==
    ASSUME SessionInv, NEW b \in Builders, buildClaimedRange(b)
    PROVE  SessionInv'
<1>0. Shapes /\ ~tx[b].open /\ bs[b].pc \in Sessions
    BY DEF SessionInv, buildClaimedRange, At, Sessions
<1>1. PICK s : s = bs[b]
    OBVIOUS
<1>2. SessionShape(s) /\ s.after \in Sessions \cup {None}
    BY <1>0, <1>1 DEF Shapes
<1>3. PICK drop : drop = [s EXCEPT !.pc = "claim", !.claimed = {}]
    OBVIOUS
<1>4. SessionShape(drop) /\ drop.fallback = s.fallback /\ drop.after = s.after
    BY <1>2, <1>3 DEF SessionShape
<1>5. CASE End(b, SessionError(b))
    BY <1>0, <1>5, EndSessionError
<1>6. ASSUME validateBuildSession(b), NEW e, NEW rd, NEW nx \in {s, drop},
             \/ e = Beat(b)
             \/ \E x, y : e = [Beat(b) EXCEPT !.built = x, !.ops = y],
             SessionReads(b) \subseteq rd, Begin(b, rd, e, nx)
      PROVE  SessionInv'
    <2>1. /\ SessionShape(nx) /\ nx.fallback = bs[b].fallback
          /\ nx.after \in Sessions \cup {None}
        BY <1>1, <1>2, <1>4
    <2>2. Renewal(e, b) /\ e.stamp = None
        BY <1>6 DEF Renewal, Beat, NoEffect
    <2> QED BY <1>0, <1>6, <2>1, <2>2, ValidatedStep
<1>7. CASE /\ validateBuildSession(b)
           /\ Begin(b, FragmentReads(b, s.claimed), Beat(b), drop)
    <2>1. SessionReads(b) \subseteq FragmentReads(b, s.claimed)
        BY DEF FragmentReads
    <2> QED BY <1>6, <1>7, <2>1
<1>8. CASE /\ validateBuildSession(b)
           /\ \E S, cut :
                 Begin(b, FragmentReads(b, s.claimed) \cup ScanReads(S, cut), Chunk(b, S, cut),
                       IF cut = 0 /\ Max(s.claimed) \in S THEN drop ELSE s)
    <2>1. PICK S, cut :
             Begin(b, FragmentReads(b, s.claimed) \cup ScanReads(S, cut), Chunk(b, S, cut),
                   IF cut = 0 /\ Max(s.claimed) \in S THEN drop ELSE s)
        BY <1>8
    <2>2. PICK nx : nx = IF cut = 0 /\ Max(s.claimed) \in S THEN drop ELSE s
        OBVIOUS
    <2>3. nx \in {s, drop}
        BY <2>2
    <2>4. PICK e : e = Chunk(b, S, cut)
        OBVIOUS
    <2>5. \E x, y : e = [Beat(b) EXCEPT !.built = x, !.ops = y]
        BY <2>4 DEF Chunk
    <2>6. PICK rd : rd = FragmentReads(b, s.claimed) \cup ScanReads(S, cut)
        OBVIOUS
    <2>7. Begin(b, rd, e, nx) /\ SessionReads(b) \subseteq rd
        BY <2>1, <2>2, <2>4, <2>6 DEF FragmentReads
    <2> QED BY <1>6, <1>8, <2>3, <2>5, <2>7
<1> QED BY <1>1, <1>3, <1>5, <1>7, <1>8 DEF buildClaimedRange

LEMMA PublishStep ==
    ASSUME SessionInv, NEW b \in Builders, publish(b) \/ markReadable(b)
    PROVE  SessionInv'
<1>0. Shapes /\ ~tx[b].open /\ bs[b].pc \in Sessions
    BY DEF SessionInv, publish, markReadable, At, Sessions
<1>1. bs[b].after \in Sessions \cup {None} /\ bs[b].fallback \in BOOLEAN
    BY <1>0 DEF Shapes
<1>2. CASE End(b, Then(b, "mark"))
    <2>1. PICK nx : nx = Then(b, "mark")
        OBVIOUS
    <2>2. "mark" \in Sessions
        BY DEF Sessions
    <2>3. /\ SessionShape(nx) /\ nx.fallback = bs[b].fallback
          /\ nx.after \in Sessions \cup {None}
        BY <1>0, <2>1, <2>2, ThenFields
    <2> QED BY <1>0, <1>1, <1>2, <2>1, <2>3, EndStep
<1>3. CASE End(b, Ending(b, "failed"))
    BY <1>0, <1>3, EndEnding
<1>4. ASSUME NEW rd, NEW e, NEW nx, nx = Ending(b, "ok"), Begin(b, rd, e, nx),
             \/ e = [NoEffect EXCEPT !.erase = TRUE] /\ StateKey \in rd /\ state = "READABLE"
             \/ e = MarkIndexReadable
      PROVE  SessionInv'
    <2>1. /\ SessionShape(nx) /\ nx.pc = "cleanup" /\ nx.after = bs[b].after
          /\ nx.fallback = bs[b].fallback
        BY <1>0, <1>4, EndingFields
    <2>2. nx.pc \notin Sessions
        BY <2>1 DEF Sessions
    <2>3. /\ e.beat = {} /\ e.stamp = None /\ e.erase = TRUE /\ e.wipe = FALSE
          /\ e.unbeat = {}
          /\ \/ e.state = None /\ StateKey \in rd /\ state = "READABLE"
             \/ e.state = "READABLE"
        BY <1>4 DEF NoEffect, MarkIndexReadable
    <2> QED BY <1>1, <1>4, <2>1, <2>2, <2>3, LeavingStep DEF None
<1> QED
    <2>1. CASE publish(b)
        BY <1>2, <2>1 DEF publish
    <2>2. CASE markReadable(b)
        BY <1>2, <1>3, <1>4, <2>2 DEF markReadable
    <2> QED BY <2>1, <2>2

\* After an attempt its indexer is idle, or prepares the next one.
LEMMA AfterFields ==
    ASSUME Shapes, NEW b \in Builders, NEW nx, nx = AfterAttempt(b)
    PROVE  /\ SessionShape(nx) /\ nx.fallback = bs[b].fallback /\ nx.after = None
           /\ nx.pc \in {"idle", "prepare"}
<1>1. CASE bs[b].result = "retry"
    <2>1. nx = [Idle(bs[b].fallback, bs[b].calls, None) EXCEPT !.pc = "prepare"]
        BY <1>1 DEF AfterAttempt
    <2> QED BY <2>1 DEF Idle, SessionShape
<1>2. CASE bs[b].result # "retry"
    <2>1. nx = Idle(bs[b].fallback, bs[b].calls, bs[b].result)
        BY <1>2 DEF AfterAttempt
    <2> QED BY <2>1 DEF Idle, SessionShape
<1> QED BY <1>1, <1>2

LEMMA CleanupStep ==
    ASSUME SessionInv, NEW b \in Builders, cleanupHeartbeat(b)
    PROVE  SessionInv'
<1>0. Shapes /\ bs[b].pc = "cleanup"
    BY DEF SessionInv, cleanupHeartbeat, At
<1>1. PICK nx : nx = AfterAttempt(b)
    OBVIOUS
<1>2. PICK e : e = [NoEffect EXCEPT !.unbeat = {b}]
    OBVIOUS
<1>3. Begin(b, CleanupReads(b), e, nx)
    BY <1>1, <1>2 DEF cleanupHeartbeat
<1>4. /\ SessionShape(nx) /\ nx.fallback = bs[b].fallback /\ nx.after = None
      /\ nx.pc \notin Sessions
    BY <1>0, <1>1, AfterFields DEF Sessions
<1>5. e.beat = {} /\ e.stamp = None /\ e.state = None /\ e.erase = FALSE
      /\ e.wipe = FALSE /\ e.unbeat = {b}
    BY <1>2 DEF NoEffect
<1> QED BY <1>0, <1>3, <1>4, <1>5, LeavingStep

LEMMA StartStep ==
    ASSUME SessionInv, NEW b \in Builders, StartBuild(b) \/ AttemptFails(b)
    PROVE  SessionInv'
<1>0. Shapes /\ bs[b].fallback \in BOOLEAN
    BY DEF SessionInv, Shapes
<1>1. CASE StartBuild(b)
    <2>1. PICK n : n = bs[b].calls + 1
        OBVIOUS
    <2>2. PICK nx : nx = [Idle(bs[b].fallback, n, None) EXCEPT !.pc = "prepare"]
        OBVIOUS
    <2>3. SessionShape(nx) /\ nx.fallback = bs[b].fallback /\ nx.after = None
          /\ nx.pc = "prepare"
        BY <2>2 DEF Idle, SessionShape
    <2>4. End(b, nx) /\ ~tx[b].open /\ nx.pc \notin Sessions
        BY <1>1, <2>1, <2>2, <2>3 DEF StartBuild, At, Sessions
    <2> QED BY <1>0, <2>3, <2>4, EndStep
<1>2. CASE AttemptFails(b)
    BY <1>2, EndEnding DEF AttemptFails
<1> QED BY <1>1, <1>2

-----------------------------------------------------------------------------
(* Commits. *)

\* The transactions and the late cleanups after a commit of p.
LEMMA AfterCommit ==
    ASSUME Shapes, NEW p, NEW e,
           \/ p \in Procs /\ tx' = [Conflicts(p, e) EXCEPT ![p] = NoTx]
           \/ p \notin Procs /\ tx' = Conflicts(p, e)
    PROVE  /\ tx' = [q \in Procs |-> tx'[q]]
           /\ \A q \in Procs : q # p => tx'[q] = Conflicts(p, e)[q]
           /\ p \in Procs => tx'[p] = NoTx
<1>1. PICK c : c = Conflicts(p, e)
    OBVIOUS
<1>2. c = [q \in Procs |-> c[q]]
    BY <1>1 DEF Conflicts
<1> QED BY <1>1, <1>2

LEMMA LateAfter ==
    ASSUME NEW e, late' = LateConflicts(e)
    PROVE  /\ late' = [c \in Builders |-> late'[c]]
           /\ \A c \in Builders :
                 late'[c] = "open" => late[c] = "open" /\ BeatKey(c) \notin WriteSet(e)
BY DEF LateConflicts

\* A transaction that may commit and changes something is not in conflict.
LEMMA NoConflict ==
    ASSUME NEW t, MayCommit(t), WriteSet(t.effect) # {}
    PROVE  ~t.conflict
BY DEF MayCommit

\* What a commit leaves of the store.
LEMMA CommitStore ==
    ASSUME SessionInv, NEW p \in Procs, MayCommit(tx[p]), Apply(p, tx[p].effect), now' = now,
           \A c \in Builders : bs'[c].fallback = bs[c].fallback
    PROVE  Stamped' /\ Methodical' /\ ExclusiveAlone' /\ hb' \in [Builders -> Int]
<1>1. PICK t : t = tx[p]
    OBVIOUS
<1>2. t.open
    BY <1>1 DEF MayCommit
<1>3. CASE p \in Builders /\ Renews(p, t)
    <2>1. BeatKey(p) \in WriteSet(t.effect)
        BY <1>3, Written DEF Renews
    <2>2. ~t.conflict
        BY <1>1, <2>1, NoConflict
    <2> QED BY <1>1, <1>3, <2>2, RenewStore
<1>4. CASE Leaves(p, t)
    <2>1. PICK e : e = t.effect
        OBVIOUS
    <2>2. /\ e.beat = {} /\ e.stamp = None /\ e.state \in {None, "DISABLED", "READABLE"}
          /\ e.state # None => e.erase
          /\ e.erase /\ e.state = None /\ ~t.conflict => state = "READABLE"
        BY <1>4, <2>1 DEF Leaves
    <2>3. e.erase => ~t.conflict
        BY <1>1, <2>1, NoConflict, Written
    <2>4. Apply(p, e)
        BY <1>1, <2>1
    <2> QED BY <2>2, <2>3, <2>4, LeaveStore
<1> QED BY <1>1, <1>2, <1>3, <1>4 DEF SessionInv, Believed, Procs

LEMMA SaveCommits ==
    ASSUME SessionInv, NEW w \in Writers, CommitSave(w)
    PROVE  SessionInv'
<1>0. Shapes /\ w \in Procs /\ w \notin Builders
    BY ConstantsAssumption DEF SessionInv, Procs
<1>1. PICK e : e = tx[w].effect
    OBVIOUS
<1>2. /\ MayCommit(tx[w]) /\ Apply(w, e) /\ now' = now /\ bs' = bs
      /\ tx' = [Conflicts(w, e) EXCEPT ![w] = NoTx] /\ late' = LateConflicts(e)
    BY <1>1 DEF CommitSave
<1>3. /\ bs' = [c \in Builders |-> bs'[c]]
      /\ \A c \in Builders :
            /\ SessionShape(bs'[c]) /\ bs'[c].fallback = bs[c].fallback
            /\ bs'[c].after \in Sessions \cup {None} /\ bs'[c] = bs[c]
    BY <1>0, <1>2 DEF Shapes
<1>4. Stamped' /\ Methodical' /\ ExclusiveAlone' /\ hb' \in [Builders -> Int]
    BY <1>0, <1>1, <1>2, <1>3, CommitStore
<1>5. /\ tx' = [q \in Procs |-> tx'[q]]
      /\ \A q \in Procs : q # w => tx'[q] = Conflicts(w, e)[q]
      /\ tx'[w] = NoTx
    BY <1>0, <1>2, AfterCommit
<1>6. /\ late' = [c \in Builders |-> late'[c]]
      /\ \A c \in Builders : late'[c] = "open" => late[c] = "open"
    BY <1>2, LateAfter
<1> QED BY <1>2, <1>3, <1>4, <1>5, <1>6, CommitStep

LEMMA BuildCommits ==
    ASSUME SessionInv, NEW b \in Builders, CommitBuild(b) \/ CommitUnknown(b)
    PROVE  SessionInv'
<1>0. Shapes /\ b \in Procs
    BY DEF SessionInv, Procs
<1>1. PICK e : e = tx[b].effect
    OBVIOUS
<1>2. /\ MayCommit(tx[b]) /\ Apply(b, e) /\ now' = now
      /\ tx' = [Conflicts(b, e) EXCEPT ![b] = NoTx] /\ late' = LateConflicts(e)
      /\ bs' = bs \/ bs' = [bs EXCEPT ![b] = tx[b].next]
    BY <1>1 DEF CommitBuild, CommitUnknown
<1>3. Leads(b, tx[b])
    BY <1>2 DEF SessionInv, Believed, MayCommit
<1>4. /\ bs' = [c \in Builders |-> bs'[c]]
      /\ \A c \in Builders : c # b => bs'[c] = bs[c]
      /\ bs'[b] = bs[b] \/ bs'[b] = tx[b].next
    BY <1>0, <1>2 DEF Shapes
<1>5. \A c \in Builders :
         /\ SessionShape(bs'[c]) /\ bs'[c].fallback = bs[c].fallback
         /\ bs'[c].after \in Sessions \cup {None}
    <2>1. \A c \in Builders : SessionShape(bs[c]) /\ bs[c].after \in Sessions \cup {None}
        BY <1>0 DEF Shapes
    <2> QED BY <1>3, <1>4, <2>1 DEF Leads
<1>6. Stamped' /\ Methodical' /\ ExclusiveAlone' /\ hb' \in [Builders -> Int]
    BY <1>0, <1>1, <1>2, <1>5, CommitStore
<1>7. /\ tx' = [q \in Procs |-> tx'[q]]
      /\ \A q \in Procs : q # b => tx'[q] = Conflicts(b, e)[q]
      /\ tx'[b] = NoTx
    BY <1>0, <1>2, AfterCommit
<1>8. /\ late' = [c \in Builders |-> late'[c]]
      /\ \A c \in Builders :
            late'[c] = "open" => late[c] = "open" /\ BeatKey(c) \notin WriteSet(e)
    BY <1>2, LateAfter
<1>9. \A c \in Builders : late'[c] = "open" /\ bs'[c].pc \in Sessions =>
         bs[c].pc \in Sessions
    <2> SUFFICES ASSUME late'[b] = "open", bs'[b].pc \in Sessions
                 PROVE  bs[b].pc \in Sessions
        BY <1>4
    <2>1. e.beat # {b}
        BY <1>8, Written
    <2> QED BY <1>1, <1>3, <1>4, <2>1 DEF Leads
<1> QED BY <1>2, <1>4, <1>5, <1>6, <1>7, <1>8, <1>9, CommitStep

\* The index is disabled by an application, or a cleanup lands late.
LEMMA OutsideCommits ==
    ASSUME SessionInv, MarkIndexDisabled \/ \E b \in Builders : LateCleanup(b)
    PROVE  SessionInv'
<1>0. Shapes /\ None \notin Procs /\ None \notin Builders
    BY ConstantsAssumption DEF SessionInv, Procs
<1>1. ASSUME NEW e, Apply(None, e), now' = now, bs' = bs, tx' = Conflicts(None, e),
             e.beat = {}, e.stamp = None,
             \/ e.state = None /\ e.erase = FALSE
             \/ e.state = "DISABLED" /\ e.erase = TRUE,
             late' = [c \in Builders |-> late'[c]],
             \A c \in Builders : late'[c] = "open" => late[c] = "open"
      PROVE  SessionInv'
    <2>1. /\ bs' = [c \in Builders |-> bs'[c]]
          /\ \A c \in Builders :
                /\ SessionShape(bs'[c]) /\ bs'[c].fallback = bs[c].fallback
                /\ bs'[c].after \in Sessions \cup {None} /\ bs'[c] = bs[c]
        BY <1>0, <1>1 DEF Shapes
    <2>2. /\ e.state # None => e.erase
          /\ e.erase /\ e.state = None => state = "READABLE"
          /\ e.state \in {None, "DISABLED", "READABLE"}
        BY <1>1 DEF None
    <2>3. Stamped' /\ Methodical' /\ ExclusiveAlone' /\ hb' \in [Builders -> Int]
        BY <1>1, <2>1, <2>2, LeaveStore
    <2>4. /\ tx' = [q \in Procs |-> tx'[q]]
          /\ \A q \in Procs : q # None => tx'[q] = Conflicts(None, e)[q]
        BY <1>0, <1>1, AfterCommit
    <2> QED BY <1>0, <1>1, <2>1, <2>3, <2>4, CommitStep
<1>2. CASE MarkIndexDisabled
    <2>1. PICK e : e = Disabling
        OBVIOUS
    <2>2. e.beat = {} /\ e.stamp = None /\ e.state = "DISABLED" /\ e.erase = TRUE
        BY <2>1 DEF Disabling, NoEffect
    <2>3. /\ late' = [c \in Builders |-> late'[c]]
          /\ \A c \in Builders : late'[c] = "open" => late[c] = "open"
        BY <1>2, LateAfter DEF MarkIndexDisabled
    <2> QED BY <1>1, <1>2, <2>1, <2>2, <2>3 DEF MarkIndexDisabled
<1>3. ASSUME NEW b \in Builders, LateCleanup(b) PROVE SessionInv'
    <2>1. PICK e : e = [NoEffect EXCEPT !.unbeat = {b}]
        OBVIOUS
    <2>2. e.beat = {} /\ e.stamp = None /\ e.state = None /\ e.erase = FALSE
        BY <2>1 DEF NoEffect
    <2>3. /\ Apply(None, e) /\ tx' = Conflicts(None, e) /\ now' = now /\ bs' = bs
          /\ late' = [late EXCEPT ![b] = None]
        BY <1>3, <2>1 DEF LateCleanup
    <2>4. /\ late' = [c \in Builders |-> late'[c]]
          /\ \A c \in Builders : late'[c] = "open" => late[c] = "open"
        BY <1>0, <2>3 DEF Shapes, None
    <2> QED BY <1>1, <2>2, <2>3, <2>4
<1> QED BY <1>2, <1>3

-----------------------------------------------------------------------------
(* Steps that leave the store alone. *)

LEMMA FaultStep ==
    ASSUME SessionInv, \/ Tick
                       \/ \E p \in Procs : Retry(p)
                       \/ \E b \in Builders : GiveUpCleanup(b) \/ LateCleanupRefused(b) \/ Crash(b)
    PROVE  SessionInv'
<1>0. Shapes /\ None \notin Procs /\ None \notin Builders /\ None \notin Writers
    BY ConstantsAssumption DEF SessionInv, Procs
<1>1. TxShape(NoTx) /\ NoTx.open = FALSE
    BY DEF TxShape, NoTx
<1>2. ASSUME Tick \/ \E b \in Builders : LateCleanupRefused(b) PROVE SessionInv'
    <2>1. /\ UNCHANGED <<store, tx, bs>> /\ now <= now' /\ now' \in Nat
          /\ late' = [c \in Builders |-> late'[c]]
          /\ \A c \in Builders : late'[c] = "open" => late[c] = "open"
        BY <1>0, <1>2 DEF Shapes, Tick, LateCleanupRefused, None
    <2>2. Over'
        BY <2>1 DEF SessionInv, Over
    <2>3. /\ tx' = [q \in Procs |-> tx'[q]] /\ bs' = [c \in Builders |-> bs'[c]]
          /\ \A q \in Procs : TxShape(tx'[q]) /\ tx'[q] = tx[q]
        BY <1>0, <2>1 DEF Shapes
    <2> QED BY <1>0, <2>1, <2>2, <2>3, LocalStep
<1>3. ASSUME NEW p \in Procs, Retry(p) PROVE SessionInv'
    <2>1. UNCHANGED <<store, now, late, bs>> /\ tx' = [tx EXCEPT ![p] = NoTx]
        BY <1>3 DEF Retry
    <2>2. /\ tx' = [q \in Procs |-> tx'[q]] /\ tx'[p] = NoTx
          /\ \A q \in Procs : TxShape(tx'[q]) /\ (q # p => tx'[q] = tx[q])
        BY <1>0, <1>1, <2>1 DEF Shapes
    <2>3. Over' /\ now <= now' /\ now' \in Nat
        BY <1>0, <2>1 DEF SessionInv, Over, Shapes
    <2>4. /\ bs' = [c \in Builders |-> bs'[c]] /\ late' = [c \in Builders |-> late'[c]]
          /\ \A c \in Builders :
                /\ bs'[c] = bs[c] /\ SessionShape(bs'[c])
                /\ bs'[c].fallback \in BOOLEAN /\ bs'[c].after \in Sessions \cup {None}
        BY <1>0, <2>1 DEF Shapes
    <2>5. UNCHANGED store /\ ~tx'[p].open
        BY <1>1, <2>1, <2>2
    <2> QED BY <2>2, <2>3, <2>4, <2>5, LocalStep
<1>4. ASSUME NEW b \in Builders, NEW nx, bs' = [bs EXCEPT ![b] = nx],
             tx' = [tx EXCEPT ![b] = NoTx], UNCHANGED <<store, now>>,
             late' = [c \in Builders |-> late'[c]],
             \A c \in Builders : c # b => late'[c] = late[c],
             SessionShape(nx), nx.fallback = bs[b].fallback,
             nx.after \in Sessions \cup {None}, nx.pc \notin Sessions
      PROVE  SessionInv'
    <2>1. b \in Procs /\ b \notin Writers
        BY ConstantsAssumption DEF Procs
    <2>2. /\ tx' = [q \in Procs |-> tx'[q]] /\ tx'[b] = NoTx
          /\ \A q \in Procs : TxShape(tx'[q]) /\ (q # b => tx'[q] = tx[q])
        BY <1>0, <1>1, <1>4, <2>1 DEF Shapes
    <2>3. /\ bs' = [c \in Builders |-> bs'[c]] /\ bs'[b] = nx
          /\ \A c \in Builders : c # b => bs'[c] = bs[c]
        BY <1>0, <1>4 DEF Shapes
    <2>4. Over'
        BY <1>4, <2>3 DEF SessionInv, Over
    <2>5. now <= now' /\ now' \in Nat /\ bs[b].fallback \in BOOLEAN
        BY <1>0, <1>4 DEF Shapes
    <2>6. UNCHANGED store /\ ~tx'[b].open
        BY <1>1, <1>4, <2>2
    <2> QED BY <1>4, <2>1, <2>2, <2>3, <2>4, <2>5, <2>6, LocalStep
<1>5. ASSUME NEW b \in Builders, GiveUpCleanup(b) PROVE SessionInv'
    <2>1. PICK nx : nx = AfterAttempt(b)
        OBVIOUS
    <2>2. /\ SessionShape(nx) /\ nx.fallback = bs[b].fallback /\ nx.after = None
          /\ nx.pc \notin Sessions
        BY <1>0, <2>1, AfterFields DEF Sessions
    <2>3. /\ bs' = [bs EXCEPT ![b] = nx] /\ tx' = [tx EXCEPT ![b] = NoTx]
          /\ UNCHANGED <<store, now>>
          /\ \E l : late' = [late EXCEPT ![b] = l]
        BY <1>5, <2>1 DEF GiveUpCleanup
    <2>4. /\ late' = [c \in Builders |-> late'[c]]
          /\ \A c \in Builders : c # b => late'[c] = late[c]
        BY <1>0, <2>3 DEF Shapes
    <2> QED BY <1>4, <2>2, <2>3, <2>4
<1>6. ASSUME NEW b \in Builders, Crash(b) PROVE SessionInv'
    <2>1. PICK s : s = bs[b]
        OBVIOUS
    <2>2. PICK nx : nx = [s EXCEPT !.pc = "dead", !.result = None]
        OBVIOUS
    <2>3. SessionShape(s) /\ s.after \in Sessions \cup {None}
        BY <1>0, <2>1 DEF Shapes
    <2>4. SessionShape(nx) /\ nx.fallback = s.fallback /\ nx.after = s.after /\ nx.pc = "dead"
        BY <2>2, <2>3 DEF SessionShape
    <2>5. bs' = [bs EXCEPT ![b] = nx]
        BY <1>0, <1>6, <2>1, <2>2 DEF Crash, Shapes
    <2>6. tx' = [tx EXCEPT ![b] = NoTx] /\ UNCHANGED <<store, now, late>>
        BY <1>6 DEF Crash
    <2>7. /\ late' = [c \in Builders |-> late'[c]]
          /\ \A c \in Builders : c # b => late'[c] = late[c]
        BY <1>0, <2>6 DEF Shapes
    <2>8. nx.pc \notin Sessions
        BY <2>4 DEF Sessions
    <2> QED BY <1>4, <2>1, <2>3, <2>4, <2>5, <2>6, <2>7, <2>8
<1> QED BY <1>2, <1>3, <1>5, <1>6

-----------------------------------------------------------------------------
(* The theorems. *)

LEMMA SessionInit == Init => SessionInv
<1> SUFFICES ASSUME Init PROVE SessionInv
    OBVIOUS
<1>1. \A b \in Builders : bs[b] = Idle(FALSE, 0, None)
    BY DEF Init
<1>2. \A b \in Builders : SessionShape(bs[b]) /\ bs[b].fallback = FALSE /\ bs[b].after = None
    BY <1>1 DEF Idle, SessionShape
<1>3. \A p \in Procs : TxShape(tx[p]) /\ tx[p] = NoTx /\ ~tx[p].open
    BY DEF Init, TxShape, NoTx
<1>4. Shapes
    <2>1. now \in Nat /\ hb \in [Builders -> Int]
        BY DEF Init
    <2>2. bs = [b \in Builders |-> bs[b]] /\ late = [b \in Builders |-> late[b]]
        BY DEF Init
    <2>3. tx = [p \in Procs |-> tx[p]]
        BY DEF Init
    <2>4. \A b \in Builders : /\ SessionShape(bs[b]) /\ bs[b].fallback \in BOOLEAN
                             /\ bs[b].after \in Sessions \cup {None}
        BY <1>2
    <2>5. \A p \in Procs : TxShape(tx[p])
        BY <1>3
    <2> QED BY <2>1, <2>2, <2>3, <2>4, <2>5 DEF Shapes
<1>5. \A b \in Builders : hb[b] = -1 /\ ~Live(b)
    BY DEF Init, Live, heartbeatBlocksSession
<1>6. Stamped
    BY <1>5 DEF Init, Stamped, IsWriteOnly
<1>7. Methodical /\ ExclusiveAlone
    BY <1>5 DEF Methodical, ExclusiveAlone, Live
<1>8. Believed
    BY <1>3 DEF Believed, Procs
<1>9. Over
    BY DEF Init, Over, None
<1> QED BY <1>4, <1>6, <1>7, <1>8, <1>9 DEF SessionInv

LEMMA SessionStep == SessionInv /\ [Next]_vars => SessionInv'
<1> SUFFICES ASSUME SessionInv, [Next]_vars PROVE SessionInv'
    OBVIOUS
<1>1. CASE UNCHANGED vars
    <2>1. UNCHANGED <<hb, now, bs, tx, late, stamp, state, built, queue>>
        BY <1>1 DEF vars, store
    <2>2. Shapes' /\ Over'
        BY <2>1 DEF SessionInv, Shapes, Over
    <2>3. \A b \in Builders : Live(b)' = Live(b) /\ Method(b)' = Method(b)
        BY <2>1 DEF Live, heartbeatBlocksSession, Method, buildsMutually
    <2>4. Stamped'
        BY <2>1, <2>3 DEF SessionInv, Stamped, IsWriteOnly
    <2>5. \A b \in Builders : /\ buildsMutually(b)' = buildsMutually(b)
                             /\ Alone(b)' = Alone(b)
        BY <2>1, <2>3 DEF Alone, buildsMutually
    <2>6. Methodical'
        BY <2>1, <2>3 DEF SessionInv, Methodical
    <2>7. ExclusiveAlone'
        BY <2>1 DEF SessionInv, ExclusiveAlone, heartbeatBlocksSession, buildsMutually
    <2>8. \A p \in Procs : tx'[p] = tx[p]
        BY <2>1
    <2>9. \A b \in Builders : \A t : Renews(b, t) => Renews(b, t)'
        BY <2>1, <2>3, <2>5 DEF Renews
    <2>10. \A p \in Procs : \A t : Leaves(p, t) => Leaves(p, t)'
        BY <2>1 DEF Leaves
    <2>11. \A b \in Builders : \A t : Leads(b, t) => Leads(b, t)'
        BY <2>1 DEF Leads
    <2>12. Believed'
        BY <2>1, <2>8, <2>9, <2>10, <2>11 DEF SessionInv, Believed, Procs
    <2> QED BY <2>2, <2>4, <2>6, <2>7, <2>12 DEF SessionInv
<1>2. CASE \/ \E w \in Writers, k \in Keys, v \in Vals : saveRecord(w, k, v)
           \/ \E w \in Writers, k \in Keys : deleteRecord(w, k)
    BY <1>2, WriteStep DEF saveRecord, deleteRecord
<1>3. CASE \E w \in Writers : CommitSave(w)
    BY <1>3, SaveCommits
<1>4. CASE Tick \/ \E p \in Procs : Retry(p)
    BY <1>4, FaultStep
<1>5. ASSUME NEW b \in Builders,
             \/ StartBuild(b) \/ Work(b) \/ CommitBuild(b) \/ CommitUnknown(b)
             \/ GiveUpCleanup(b) \/ LateCleanup(b) \/ LateCleanupRefused(b)
             \/ AttemptFails(b) \/ Crash(b)
      PROVE  SessionInv'
    <2>1. CASE StartBuild(b) \/ AttemptFails(b)
        BY <2>1, StartStep
    <2>2. CASE Work(b)
        BY <2>2, PrepareStep, BuildStep, DrainStep, ClaimStep, FragmentStep, PublishStep,
           CleanupStep DEF Work
    <2>3. CASE CommitBuild(b) \/ CommitUnknown(b)
        BY <2>3, BuildCommits
    <2>4. CASE GiveUpCleanup(b) \/ LateCleanupRefused(b) \/ Crash(b)
        BY <2>4, FaultStep
    <2>5. CASE LateCleanup(b)
        BY <2>5, OutsideCommits
    <2> QED BY <1>5, <2>1, <2>2, <2>3, <2>4, <2>5
<1>6. CASE MarkIndexDisabled
    BY <1>6, OutsideCommits
<1> QED BY <1>1, <1>2, <1>3, <1>4, <1>5, <1>6 DEF Next

\* The inductive invariant of the sessions holds (prepareIndexingState,
\* validateBuildSession, the heartbeats and the stamp).
THEOREM SessionInvariant == Spec => []SessionInv
BY SessionInit, SessionStep, PTL DEF Spec

\* Two heartbeats are live at once only when both sessions are mutual: the check of
\* the others' heartbeats (checkAdmission) is relied upon only by a commit that
\* would have conflicted with every later one.
THEOREM ExclusiveAloneHolds == Spec => []ExclusiveAlone
<1>1. SessionInv => ExclusiveAlone
    BY DEF SessionInv
<1> QED BY <1>1, SessionInvariant, PTL

\* A session never clears the index under a peer whose heartbeat is live
\* (ClearAndMarkIndexWriteOnly in prepareIndexingState).
THEOREM NoResetUnderLiveHolds == Spec => NoResetUnderLive
<1> DEFINE Reset == \A b \in Builders :
                       (CommitBuild(b) \/ CommitUnknown(b)) /\ tx[b].effect.wipe
                          => \A c \in Builders \ {b} : ~heartbeatBlocksSession(hb[c])
<1>1. SessionInv => Reset
    <2> SUFFICES ASSUME SessionInv, NEW b \in Builders, CommitBuild(b) \/ CommitUnknown(b),
                        tx[b].effect.wipe
                 PROVE  Alone(b)
        BY DEF Alone, Live
    <2>1. MayCommit(tx[b]) /\ tx[b].open
        BY DEF CommitBuild, CommitUnknown, MayCommit
    <2>2. Renews(b, tx[b])
        BY <2>1 DEF SessionInv, Believed, Leaves
    <2>3. tx[b].effect.erase /\ BeatKey(b) \in WriteSet(tx[b].effect)
        BY <2>2, Written DEF Renews
    <2>4. ~tx[b].conflict
        BY <2>1, <2>3, NoConflict
    <2> QED BY <2>2, <2>3, <2>4 DEF Renews
<1>2. SessionInv /\ [Next]_vars => [Reset]_vars
    BY <1>1
<1> QED BY <1>2, SessionInvariant, PTL DEF Spec, NoResetUnderLive

\* A commit of a transaction that takes the live heartbeat of a session changes the
\* index state.
LEMMA BeatLost ==
    ASSUME SessionInv, NEW b \in Builders, bs[b].pc \in Sessions, Live(b), hb'[b] = -1,
           NEW p \in Procs, MayCommit(tx[p]), Apply(p, tx[p].effect)
    PROVE  state' # state
<1>1. PICK t : t = tx[p]
    OBVIOUS
<1>2. PICK e : e = t.effect
    OBVIOUS
<1>3. Apply(p, e) /\ t.open /\ (e.erase => ~t.conflict)
    BY <1>1, <1>2, NoConflict, Written DEF MayCommit
<1>4. hb[b] # -1 /\ IsWriteOnly(state)
    BY DEF Live, heartbeatBlocksSession, SessionInv, Stamped
<1>5. CASE p \in Builders /\ Renews(p, t)
    <2>1. e.beat = {p} /\ e.unbeat = {} /\ e.at \in Nat /\ (e.erase /\ ~t.conflict => Alone(p))
        BY <1>2, <1>5 DEF Renews
    <2>2. b # p
        BY <1>3, <2>1, Applied
    <2>3. e.erase
        BY <1>3, <1>4, <2>1, <2>2, Applied
    <2> QED BY <1>3, <2>1, <2>2, <2>3 DEF Alone
<1>6. CASE Leaves(p, t)
    <2>1. /\ e.beat = {} /\ e.state \in {None, "DISABLED", "READABLE"}
          /\ e.erase /\ e.state = None /\ ~t.conflict => state = "READABLE"
          /\ e.unbeat # {} => e.unbeat = {p} /\ bs[p].pc = "cleanup"
        BY <1>2, <1>6 DEF Leaves
    <2>2. b \notin e.unbeat
        BY <2>1 DEF Sessions
    <2>3. e.erase
        BY <1>3, <1>4, <2>1, <2>2, Applied
    <2>4. e.state # None
        BY <1>3, <1>4, <2>1, <2>3 DEF IsWriteOnly
    <2> QED BY <1>3, <1>4, <2>1, <2>4, Applied DEF IsWriteOnly
<1> QED BY <1>1, <1>3, <1>5, <1>6 DEF SessionInv, Believed, Procs

\* The transactions of a session touch the store only when they commit.
LEMMA WorkKeepsStore ==
    ASSUME NEW b \in Builders, Work(b)
    PROVE  UNCHANGED store /\ UNCHANGED <<now, late, writes, useQueue>>
<1>1. CASE prepareIndexingState(b)
    BY <1>1 DEF prepareIndexingState, Begin, End
<1>2. CASE buildRange(b) \/ drainPendingIndexWrites(b)
    BY <1>2 DEF buildRange, drainPendingIndexWrites, Begin, End
<1>3. CASE claimNextRange(b)
    BY <1>3 DEF claimNextRange, Begin, End
<1>4. CASE buildClaimedRange(b)
    BY <1>4 DEF buildClaimedRange, Begin, End
<1>5. CASE publish(b) \/ markReadable(b) \/ cleanupHeartbeat(b)
    BY <1>5 DEF publish, markReadable, cleanupHeartbeat, Begin, End
<1> QED BY <1>1, <1>2, <1>3, <1>4, <1>5 DEF Work

\* A live heartbeat of a session that is building is removed only by a change of the
\* index state: not by a peer, and not by a cleanup of the indexer's own earlier
\* attempt that lands late (cleanupHeartbeat).
THEOREM BeatSurvivesHolds == Spec => BeatSurvives
<1> DEFINE Keeps == \A b \in Builders :
                       InSession(b) /\ heartbeatBlocksSession(hb[b]) /\ hb'[b] = -1
                          => state' # state
<1>1. SessionInv /\ [Next]_vars => [Keeps]_vars
    <2> SUFFICES ASSUME SessionInv, Next, NEW b \in Builders, bs[b].pc \in Sessions, Live(b),
                        hb'[b] = -1
                 PROVE  state' # state
        BY DEF Live, InSession, Sessions
    <2>1. hb[b] # -1 /\ IsWriteOnly(state)
        BY DEF Live, heartbeatBlocksSession, SessionInv, Stamped
    <2>2. CASE \E w \in Writers : CommitSave(w)
        BY <2>2, BeatLost DEF CommitSave, Procs
    <2>3. CASE \E c \in Builders : CommitBuild(c) \/ CommitUnknown(c)
        BY <2>3, BeatLost DEF CommitBuild, CommitUnknown, Procs
    <2>4. CASE MarkIndexDisabled
        <3>1. PICK e : e = Disabling
            OBVIOUS
        <3>2. e.state = "DISABLED" /\ Apply(None, e)
            BY <2>4, <3>1 DEF Disabling, NoEffect, MarkIndexDisabled
        <3> QED BY <2>1, <3>2, Applied DEF IsWriteOnly, None
    <2>5. ASSUME NEW c \in Builders, LateCleanup(c) PROVE FALSE
        <3>1. PICK e : e = [NoEffect EXCEPT !.unbeat = {c}]
            OBVIOUS
        <3>2. /\ e.unbeat = {c} /\ e.beat = {} /\ e.erase = FALSE /\ Apply(None, e)
              /\ late[c] = "open"
            BY <2>5, <3>1 DEF NoEffect, LateCleanup
        <3>3. b = c
            BY <2>1, <3>2, Applied
        <3> QED BY <3>2, <3>3 DEF SessionInv, Over
    <2>6. CASE UNCHANGED store
        BY <2>1, <2>6 DEF store
    <2>7. CASE \/ \E w \in Writers, k \in Keys, v \in Vals : saveRecord(w, k, v)
               \/ \E w \in Writers, k \in Keys : deleteRecord(w, k)
               \/ \E p \in Procs : Retry(p)
               \/ Tick
        BY <2>6, <2>7 DEF saveRecord, deleteRecord, Write, Begin, Retry, Tick
    <2>8. ASSUME NEW c \in Builders,
                 \/ StartBuild(c) \/ AttemptFails(c) \/ Crash(c) \/ GiveUpCleanup(c)
                 \/ LateCleanupRefused(c) \/ Work(c)
          PROVE  state' # state
        <3>1. CASE Work(c)
            BY <2>6, <3>1, WorkKeepsStore
        <3>2. CASE StartBuild(c) \/ AttemptFails(c) \/ Crash(c)
            BY <2>6, <3>2 DEF StartBuild, AttemptFails, Crash, End
        <3>3. CASE GiveUpCleanup(c) \/ LateCleanupRefused(c)
            BY <2>6, <3>3 DEF GiveUpCleanup, LateCleanupRefused
        <3> QED BY <2>8, <3>1, <3>2, <3>3
    <2> QED BY <2>2, <2>3, <2>4, <2>5, <2>7, <2>8 DEF Next
<1> QED BY <1>1, SessionInvariant, PTL DEF Spec, BeatSurvives

-----------------------------------------------------------------------------
(* The data: what the index says of the records. *)

\* An index update, and the values of record k whose entries it may change.
Op == Keys \X (Vals \cup {None}) \X (Vals \cup {None})

Touches(op, k, v) == op[1] = k /\ op[2] # op[3] /\ (v = op[2] \/ v = op[3])

Touched(ops, k, v) == \E i \in 1 .. Len(ops) : Touches(ops[i], k, v)

\* The last update of the queue that touches an entry leaves it as the record is.
Pending ==
    \A k \in Keys, v \in Vals : \A i \in 1 .. Len(queue) :
        Touches(queue[i], k, v) /\ (\A j \in i + 1 .. Len(queue) : ~Touches(queue[j], k, v))
            => (queue[i][3] = v <=> records[k] = v)

\* The entry of v for record k is right, or the queue still has to set it.
Exact(k, v) == Touched(queue, k, v) \/ index[k][v] = Contribution(k, v)

\* As much can be said of a record the build has not reached.
Early(k, v) ==
    Touched(queue, k, v) \/ IF Idempotent THEN index[k][v] <= Contribution(k, v)
                                          ELSE index[k][v] = 0

DataTypes ==
    /\ records \in [Keys -> Vals \cup {None}]
    /\ index \in [Keys -> [Vals -> Int]]
    /\ Idempotent => \A k \in Keys, v \in Vals : index[k][v] >= 0
    /\ built \subseteq Keys
    /\ state \in {"DISABLED", "WRITE_ONLY", "WRITE_ONLY_WITH_QUEUE", "READABLE"}
    /\ queue \in Seq(Op)

Agreement ==
    /\ state = "READABLE" => \A k \in Keys, v \in Vals : Exact(k, v)
    /\ IsWriteOnly(state) => \A k \in Keys, v \in Vals :
          IF k \in built THEN Exact(k, v) ELSE Early(k, v)
    /\ state = "DISABLED" => built = {}
    /\ queue # << >> => state = "WRITE_ONLY_WITH_QUEUE"
    /\ state = "WRITE_ONLY_WITH_QUEUE" => Idempotent

StoreInv == DataTypes /\ Pending /\ Agreement

\* The effects of a transaction on the data: none, none that clears, all of it.
Quiet(e) ==
    /\ e.rec = {} /\ e.ops = << >> /\ e.built = {} /\ e.enq = << >> /\ e.deq = 0
    /\ e.state = None /\ ~e.wipe /\ ~e.forget /\ ~e.erase

Plain(e) == e.state = None /\ ~e.wipe /\ ~e.forget /\ ~e.erase

Clears(e) == e.wipe /\ e.forget /\ e.erase /\ e.ops = << >> /\ e.enq = << >> /\ e.built = {}

\* What a transaction that writes believes, as long as nothing it has read is
\* written: a write of a record,
Saves(t) ==
    \E k \in Keys, new \in Vals \cup {None} :
        /\ t.effect.rec = {<<k, new>>} /\ t.effect.built = {} /\ t.effect.deq = 0
        /\ {RecKey(k), StateKey} \subseteq t.reads
        /\ \/ Clears(t.effect) /\ t.effect.state = "DISABLED"
           \/ /\ Plain(t.effect) /\ state = "DISABLED"
              /\ t.effect.ops = << >> /\ t.effect.enq = << >>
           \/ /\ Plain(t.effect) /\ state = "WRITE_ONLY_WITH_QUEUE"
              /\ t.effect.ops = << >> /\ t.effect.enq = << <<k, records[k], new>> >>
           \/ /\ Plain(t.effect) /\ state \in {"WRITE_ONLY", "READABLE"}
              /\ t.effect.enq = << >>
              /\ ~Idempotent /\ state = "WRITE_ONLY" => RangeKey(k) \in t.reads
              /\ t.effect.ops = IF ~Idempotent /\ state = "WRITE_ONLY" /\ k \notin built
                                THEN << >> ELSE << <<k, records[k], new>> >>

\* a chunk of a build, whose updates are those of the records it scanned,
ScannedIn(ops, k) == \E i \in 1 .. Len(ops) : ops[i][1] = k

Indexes(t) ==
    /\ Plain(t.effect) /\ t.effect.rec = {} /\ t.effect.enq = << >> /\ t.effect.deq = 0
    /\ IsWriteOnly(state) /\ StateKey \in t.reads
    /\ t.effect.built \subseteq Keys /\ t.effect.built \cap built = {}
    /\ RangeKeys(t.effect.built) \subseteq t.reads
    /\ t.effect.ops \in Seq(Op)
    /\ \A i, j \in 1 .. Len(t.effect.ops) :
          t.effect.ops[i][1] = t.effect.ops[j][1] => i = j
    /\ \A i \in 1 .. Len(t.effect.ops) : \E k \in t.effect.built :
          /\ records[k] # None /\ RecKey(k) \in t.reads
          /\ t.effect.ops[i] = <<k, None, records[k]>>
    /\ \A k \in t.effect.built : ~ScannedIn(t.effect.ops, k) =>
          IF Idempotent THEN \A v \in Vals : Exact(k, v)
                        ELSE records[k] = None /\ RecKey(k) \in t.reads

\* a drain of the head of the queue,
Drains(t) ==
    /\ Plain(t.effect) /\ t.effect.rec = {} /\ t.effect.enq = << >> /\ t.effect.built = {}
    /\ IsWriteOnly(state) /\ {StateKey, QueueKey} \subseteq t.reads
    /\ t.effect.deq \in 0 .. Len(queue) /\ t.effect.ops = SubSeq(queue, 1, t.effect.deq)

\* a fresh start, a publication, or what is left to clear after one.
Restarts(t) ==
    /\ Clears(t.effect) /\ t.effect.rec = {} /\ t.effect.deq = 0
    /\ IsWriteOnly(t.effect.state)
    /\ t.effect.state = "WRITE_ONLY_WITH_QUEUE" => Idempotent

Publishes(t) ==
    /\ t.effect = MarkIndexReadable /\ MarkReads \subseteq t.reads
    /\ IsWriteOnly(state) /\ built = Keys /\ queue = << >>

Tidies(t) ==
    /\ t.effect = [NoEffect EXCEPT !.erase = TRUE]
    /\ StateKey \in t.reads /\ state = "READABLE"

Belief(t) ==
    \/ Quiet(t.effect)
    \/ /\ WriteSet(t.effect) # {}
       /\ ~t.conflict => \/ Saves(t) \/ Indexes(t) \/ Drains(t)
                         \/ Restarts(t) \/ Publishes(t) \/ Tidies(t)

Beliefs == \A p \in Procs : tx[p].open => Belief(tx[p])

\* What an indexer has claimed are keys.
Claims ==
    \A b \in Builders : /\ bs[b].claimed \subseteq Keys
                        /\ tx[b].open => tx[b].next.claimed \subseteq Keys

DataInv == StoreInv /\ Beliefs /\ Claims

-----------------------------------------------------------------------------
(* Recursion along an interval. *)

\* The natural numbers are well ordered.
LEMMA LeastNat ==
  ASSUME NEW T, T \subseteq Nat, T # {}
  PROVE  \E m \in T : \A y \in T : m <= y
<1> DEFINE R == OpToRel(<, Nat)
<1>1. PICK m \in T : \A y \in T : ~(<<y, m>> \in R)
  <2> HIDE DEF R
  <2>1. IsWellFoundedOn(R, Nat)
    BY NatLessThanWellFounded DEF R
  <2> QED BY <2>1, WFMin
<1>2. \A y \in T : ~(y < m)
  BY <1>1, Zenon DEF OpToRel
<1>3. \A y \in T : m <= y
  <2> HIDE DEF R
  <2> QED BY <1>2
<1> HIDE DEF R
<1> QED BY <1>3

\* A set of points of an interval that has its first point, and with a point
\* the next one, is the whole interval.
LEMMA IntervalInduction ==
  ASSUME NEW lo \in Nat, NEW hi \in Nat, lo <= hi,
         NEW S, lo \in S,
         \A p \in lo .. hi : p \in S /\ p < hi => p + 1 \in S
  PROVE  \A p \in lo .. hi : p \in S
<1> DEFINE T == {p \in lo .. hi : p \notin S}
<1>1. SUFFICES ASSUME T # {} PROVE FALSE
  OBVIOUS
<1>2. PICK m \in T : \A y \in T : m <= y
  <2>1. T \subseteq Nat
    OBVIOUS
  <2> HIDE DEF T
  <2> QED BY <1>1, <2>1, LeastNat
<1>3. m \in lo .. hi /\ m # lo /\ m \notin S
  BY <1>2
<1>4. m - 1 \in lo .. hi /\ m - 1 < hi /\ m - 1 + 1 = m
  BY <1>3
<1>5. m - 1 \in S
  BY <1>2, <1>4
<1> QED BY <1>3, <1>4, <1>5

\* G gives each point of an interval a step of A, and f takes them from a on.
IsStep(G, lo, hi, A) == G \in [lo .. hi -> [A -> A]]

IsWalk(f, lo, hi, A, a, G) ==
  /\ f \in [lo .. hi -> A]
  /\ f[lo] = a
  /\ \A p \in lo + 1 .. hi : f[p] = G[p - 1][f[p - 1]]

\* A step function can be iterated along an interval.
LEMMA WalkExists ==
  ASSUME NEW lo \in Nat, NEW hi \in Nat, lo <= hi,
         NEW A, NEW a \in A, NEW G, IsStep(G, lo, hi, A)
  PROVE  \E f : IsWalk(f, lo, hi, A, a, G)
<1> USE DEF IsStep
<1> DEFINE Follows(m, f) == f[lo] = a /\ \A p \in lo + 1 .. m : f[p] = G[p - 1][f[p - 1]]
           S == {m \in lo .. hi : \E f \in [lo .. m -> A] : Follows(m, f)}
<1>1. lo \in S
  <2> DEFINE f == [x \in lo .. lo |-> a]
  <2>1. f \in [lo .. lo -> A] /\ f[lo] = a
    OBVIOUS
  <2>2. lo + 1 .. lo = {}
    OBVIOUS
  <2> HIDE DEF f
  <2> QED BY <2>1, <2>2
<1>2. ASSUME NEW m \in lo .. hi, m \in S, m < hi
      PROVE  m + 1 \in S
  <2>1. PICK f \in [lo .. m -> A] : Follows(m, f)
    BY <1>2
  <2> DEFINE z == G[m][f[m]]
             g == [x \in lo .. m + 1 |-> IF x = m + 1 THEN z ELSE f[x]]
  <2>2. z \in A
    OBVIOUS
  <2>3. g \in [lo .. m + 1 -> A] /\ g[lo] = a
    <3> HIDE DEF z
    <3> QED BY <2>1, <2>2
  <2>4. ASSUME NEW p \in lo + 1 .. m + 1
        PROVE  g[p] = G[p - 1][g[p - 1]]
    <3>1. g[p - 1] = f[p - 1]
      OBVIOUS
    <3>2. CASE p = m + 1
      BY <3>1, <3>2
    <3>3. CASE p \in lo + 1 .. m
      BY <2>1, <3>1, <3>3
    <3> QED BY <3>2, <3>3
  <2> HIDE DEF g
  <2>5. m + 1 \in lo .. hi
    BY <1>2
  <2> QED BY <2>3, <2>4, <2>5
<1>3. \A p \in lo .. hi : p \in S
  <2> HIDE DEF S
  <2> QED BY <1>1, <1>2, IntervalInduction
<1>4. hi \in S
  BY <1>3
<1> QED BY <1>4 DEF IsWalk


-----------------------------------------------------------------------------
(* Sequences of index updates. *)

Index == [Keys -> [Vals -> Int]]

\* What an update makes of the value x of the entry of v for record k.
After(x, op, k, v) ==
    IF ~Touches(op, k, v) THEN x
    ELSE IF v = op[3] THEN IF Idempotent THEN 1 ELSE x + 1
                      ELSE IF Idempotent THEN 0 ELSE x - 1

LEMMA UpdateEntry ==
    ASSUME NEW ix \in Index, NEW op \in Op
    PROVE  /\ Update(ix, op) \in Index
           /\ \A k \in Keys, v \in Vals : Update(ix, op)[k][v] = After(ix[k][v], op, k, v)
<1>1. PICK key \in Keys, old \in Vals \cup {None}, new \in Vals \cup {None} : op = <<key, old, new>>
    BY DEF Op
<1>2. op[1] = key /\ op[2] = old /\ op[3] = new
    BY <1>1
<1>3. PICK row : row = ix[key]
    OBVIOUS
<1>4. row \in [Vals -> Int] /\ None \notin Vals
    BY <1>3, ConstantsAssumption DEF Index
<1>5. PICK fresh : fresh = [v \in Vals |->
                              CASE v = old /\ v # new -> IF Idempotent THEN 0 ELSE row[v] - 1
                                [] v = new /\ v # old -> IF Idempotent THEN 1 ELSE row[v] + 1
                                [] OTHER -> row[v]]
    OBVIOUS
<1>6. Update(ix, op) = [ix EXCEPT ![key] = fresh]
    BY <1>2, <1>3, <1>5 DEF Update
<1>7. \A v \in Vals : fresh[v] = After(row[v], op, key, v)
    BY <1>2, <1>5 DEF After, Touches
<1>8. fresh \in [Vals -> Int]
    BY <1>4, <1>5
<1>9. Update(ix, op) \in Index
    BY <1>6, <1>8 DEF Index
<1>10. ASSUME NEW k \in Keys, NEW v \in Vals
       PROVE  Update(ix, op)[k][v] = After(ix[k][v], op, k, v)
    <2>1. CASE k = key
        BY <2>1, <1>3, <1>6, <1>7 DEF Index
    <2>2. CASE k # key
        <3>1. Update(ix, op)[k] = ix[k]
            BY <2>2, <1>6 DEF Index
        <3> QED BY <2>2, <3>1, <1>2 DEF After, Touches
    <2> QED BY <2>1, <2>2
<1> QED BY <1>9, <1>10

\* f follows the index through the updates ops, from ix on.
Replays(f, ix, ops) ==
    /\ f \in [0 .. Len(ops) -> Index]
    /\ f[0] = ix
    /\ \A i \in 1 .. Len(ops) : f[i] = Update(f[i - 1], ops[i])
    /\ f[Len(ops)] = UpdateAll(ix, ops)

LEMMA UpdateAllReplays ==
    ASSUME NEW ix \in Index, NEW ops \in Seq(Op)
    PROVE  \E f : Replays(f, ix, ops)
<1>1. PICK n \in Nat : n = Len(ops)
    OBVIOUS
<1>2. \A i \in 1 .. n : ops[i] \in Op
    BY <1>1
<1> DEFINE Step(x, q) == IF q < n THEN Update(x, ops[q + 1]) ELSE x
           G == [q \in 0 .. n |-> [x \in Index |-> Step(x, q)]]
           Eq(f) == f = [i \in 0 .. n |-> IF i = 0 THEN ix ELSE Update(f[i - 1], ops[i])]
<1>3. \A x \in Index, q \in 0 .. n : Step(x, q) \in Index
    BY <1>2, UpdateEntry
<1>4. IsStep(G, 0, n, Index)
    <2> HIDE DEF Step
    <2> QED BY <1>3 DEF IsStep
<1>5. PICK f : IsWalk(f, 0, n, Index, ix, G)
    <2> HIDE DEF G
    <2> QED BY <1>4, WalkExists
<1>6. f \in [0 .. n -> Index] /\ f[0] = ix /\ \A p \in 0 + 1 .. n : f[p] = G[p - 1][f[p - 1]]
    <2> HIDE DEF G
    <2> QED BY <1>5 DEF IsWalk
<1>7. ASSUME NEW i \in 1 .. n PROVE f[i] = Update(f[i - 1], ops[i])
    <2>1. i - 1 \in 0 .. n /\ i - 1 < n /\ i - 1 + 1 = i /\ i \in 0 + 1 .. n
        OBVIOUS
    <2>2. f[i - 1] \in Index /\ f[i] = G[i - 1][f[i - 1]]
        <3> HIDE DEF G
        <3> QED BY <1>6, <2>1
    <2>3. f[i] = Step(f[i - 1], i - 1)
        <3> HIDE DEF Step
        <3> QED BY <2>1, <2>2
    <2> QED BY <2>1, <2>3
<1>8. Eq(f)
    BY <1>6, <1>7
<1>9. UpdateAll(ix, ops) = (CHOOSE g : Eq(g))[n]
    BY <1>1 DEF UpdateAll
<1>10. PICK g : g = (CHOOSE h : Eq(h))
    OBVIOUS
<1>11. Eq(g)
    <2> HIDE DEF Eq
    <2> QED BY <1>8, <1>10
<1>12. \A i \in 0 .. n : g[i] = f[i]
    <2> DEFINE S == {i \in 0 .. n : g[i] = f[i]}
    <2>1. 0 \in S
        BY <1>6, <1>11
    <2>2. ASSUME NEW i \in 0 .. n, i \in S, i < n PROVE i + 1 \in S
        <3>1. i + 1 \in 0 .. n /\ i + 1 \in 1 .. n /\ i + 1 # 0 /\ i + 1 - 1 = i
            BY <2>2
        <3>2. g[i + 1] = Update(g[i], ops[i + 1])
            BY <1>11, <3>1
        <3>3. f[i + 1] = Update(f[i], ops[i + 1])
            BY <1>7, <3>1
        <3> QED BY <2>2, <3>1, <3>2, <3>3
    <2>3. \A i \in 0 .. n : i \in S
        <3> HIDE DEF S
        <3> QED BY <2>1, <2>2, IntervalInduction
    <2> QED BY <2>3
<1>13. UpdateAll(ix, ops) = f[n]
    BY <1>9, <1>10, <1>12
<1> QED BY <1>1, <1>6, <1>7, <1>13 DEF Replays

\* Updates that do not touch an entry leave it alone.
LEMMA ReplayKeeps ==
    ASSUME NEW ix, NEW ops \in Seq(Op), NEW f, Replays(f, ix, ops), NEW k \in Keys, NEW v \in Vals,
           NEW i \in 0 .. Len(ops),
           \A j \in i + 1 .. Len(ops) : ~Touches(ops[j], k, v)
    PROVE  UpdateAll(ix, ops)[k][v] = f[i][k][v]
<1>1. PICK n \in Nat : n = Len(ops)
    OBVIOUS
<1>2. /\ f \in [0 .. n -> Index] /\ UpdateAll(ix, ops) = f[n]
      /\ \A j \in 1 .. n : f[j] = Update(f[j - 1], ops[j])
    BY <1>1 DEF Replays
<1>3. \A j \in 1 .. n : ops[j] \in Op
    BY <1>1
<1> DEFINE S == {j \in i .. n : f[j][k][v] = f[i][k][v]}
<1>4. i \in Nat /\ i <= n /\ i \in S
    BY <1>1
<1>5. ASSUME NEW j \in i .. n, j \in S, j < n PROVE j + 1 \in S
    <2>1. j + 1 \in 1 .. n /\ j + 1 - 1 = j /\ j \in 0 .. n /\ j + 1 \in i + 1 .. n /\ j + 1 \in i .. n
        BY <1>1, <1>4, <1>5
    <2>2. f[j + 1] = Update(f[j], ops[j + 1])
        BY <1>2, <2>1
    <2>3. f[j] \in Index /\ ops[j + 1] \in Op /\ ~Touches(ops[j + 1], k, v)
        BY <1>1, <1>2, <1>3, <2>1
    <2>4. f[j + 1][k][v] = After(f[j][k][v], ops[j + 1], k, v)
        BY <2>2, <2>3, UpdateEntry
    <2>5. f[j + 1][k][v] = f[j][k][v]
        BY <2>3, <2>4 DEF After
    <2> QED BY <1>5, <2>1, <2>5
<1>6. \A j \in i .. n : j \in S
    <2> HIDE DEF S
    <2> QED BY <1>4, <1>5, IntervalInduction
<1>7. n \in i .. n
    BY <1>4
<1>8. n \in S
    BY <1>6, <1>7
<1> QED BY <1>2, <1>8

LEMMA UpdateAllType ==
    ASSUME NEW ix \in Index, NEW ops \in Seq(Op)
    PROVE  UpdateAll(ix, ops) \in Index
<1>1. PICK f : Replays(f, ix, ops)
    BY UpdateAllReplays
<1>2. Len(ops) \in 0 .. Len(ops)
    OBVIOUS
<1> QED BY <1>1, <1>2 DEF Replays

LEMMA UpdateAllKeeps ==
    ASSUME NEW ix \in Index, NEW ops \in Seq(Op), NEW k \in Keys, NEW v \in Vals,
           ~Touched(ops, k, v)
    PROVE  UpdateAll(ix, ops)[k][v] = ix[k][v]
<1>1. PICK f : Replays(f, ix, ops)
    BY UpdateAllReplays
<1>2. 0 \in 0 .. Len(ops) /\ \A j \in 0 + 1 .. Len(ops) : ~Touches(ops[j], k, v)
    BY DEF Touched
<1>3. f[0] = ix
    BY <1>1 DEF Replays
<1> QED BY <1>1, <1>2, <1>3, ReplayKeeps

\* What the update at i does to an entry no later one touches.
LEMMA ReplayLast ==
    ASSUME NEW ix \in Index, NEW ops \in Seq(Op), NEW f, Replays(f, ix, ops),
           NEW k \in Keys, NEW v \in Vals, NEW i \in 1 .. Len(ops),
           \A j \in i + 1 .. Len(ops) : ~Touches(ops[j], k, v)
    PROVE  UpdateAll(ix, ops)[k][v] = After(f[i - 1][k][v], ops[i], k, v)
<1>1. i \in 0 .. Len(ops) /\ i - 1 \in 0 .. Len(ops)
    OBVIOUS
<1>2. UpdateAll(ix, ops)[k][v] = f[i][k][v]
    BY <1>1, ReplayKeeps
<1>3. f[i] = Update(f[i - 1], ops[i]) /\ f[i - 1] \in Index /\ ops[i] \in Op
    BY <1>1 DEF Replays
<1>4. f[i][k][v] = After(f[i - 1][k][v], ops[i], k, v)
    BY <1>3, UpdateEntry
<1> QED BY <1>2, <1>4

\* In a VALUE index the last update that touches an entry decides it.
LEMMA LastDecides ==
    ASSUME Idempotent, NEW ix \in Index, NEW ops \in Seq(Op),
           NEW k \in Keys, NEW v \in Vals, NEW i \in 1 .. Len(ops), Touches(ops[i], k, v),
           \A j \in i + 1 .. Len(ops) : ~Touches(ops[j], k, v)
    PROVE  UpdateAll(ix, ops)[k][v] = IF ops[i][3] = v THEN 1 ELSE 0
<1>1. PICK f : Replays(f, ix, ops)
    BY UpdateAllReplays
<1>2. UpdateAll(ix, ops)[k][v] = After(f[i - 1][k][v], ops[i], k, v)
    BY <1>1, ReplayLast
<1> QED BY <1>2 DEF After

\* An update that is alone with an entry, in an index of either kind.
LEMMA OnlyOneDecides ==
    ASSUME NEW ix \in Index, NEW ops \in Seq(Op),
           NEW k \in Keys, NEW v \in Vals, NEW i \in 1 .. Len(ops),
           \A j \in 1 .. Len(ops) : j # i => ~Touches(ops[j], k, v)
    PROVE  UpdateAll(ix, ops)[k][v] = After(ix[k][v], ops[i], k, v)
<1>1. PICK f : Replays(f, ix, ops)
    BY UpdateAllReplays
<1>2. PICK n \in Nat : n = Len(ops)
    OBVIOUS
<1>3. \A j \in i + 1 .. n : j \in 1 .. n /\ j # i
    BY <1>2
<1>4. UpdateAll(ix, ops)[k][v] = After(f[i - 1][k][v], ops[i], k, v)
    BY <1>1, <1>2, <1>3, ReplayLast
<1>5. /\ f \in [0 .. n -> Index] /\ f[0] = ix
      /\ \A j \in 1 .. n : f[j] = Update(f[j - 1], ops[j])
    BY <1>1, <1>2 DEF Replays
<1> DEFINE S == {j \in 0 .. i - 1 : f[j][k][v] = ix[k][v]}
<1>6. 0 \in S /\ i - 1 \in Nat /\ 0 <= i - 1
    BY <1>2, <1>5
<1>7. ASSUME NEW j \in 0 .. i - 1, j \in S, j < i - 1 PROVE j + 1 \in S
    <2>1. j + 1 \in 1 .. n /\ j + 1 - 1 = j /\ j \in 0 .. n /\ j + 1 # i /\ j + 1 \in 0 .. i - 1
        BY <1>2, <1>7
    <2>2. f[j + 1] = Update(f[j], ops[j + 1])
        BY <1>5, <2>1
    <2>3. f[j] \in Index /\ ops[j + 1] \in Op /\ ~Touches(ops[j + 1], k, v)
        BY <1>2, <1>5, <2>1
    <2>4. PICK x, o : x = f[j] /\ o = ops[j + 1]
        OBVIOUS
    <2>5. Update(x, o)[k][v] = After(x[k][v], o, k, v)
        <3>1. x \in Index /\ o \in Op
            BY <2>3, <2>4
        <3> HIDE DEF S
        <3> QED BY ONLY <3>1, UpdateEntry
    <2>6. f[j + 1][k][v] = f[j][k][v]
        BY <2>2, <2>3, <2>4, <2>5 DEF After
    <2> QED BY <1>7, <2>1, <2>6
<1>8. \A j \in 0 .. i - 1 : j \in S
    <2> HIDE DEF S
    <2> QED BY <1>6, <1>7, IntervalInduction
<1>9. i - 1 \in 0 .. i - 1
    BY <1>6
<1>10. f[i - 1][k][v] = ix[k][v]
    BY <1>8, <1>9
<1> QED BY <1>4, <1>10

LEMMA OneUpdate ==
    ASSUME NEW ix \in Index, NEW op \in Op, NEW k \in Keys, NEW v \in Vals
    PROVE  UpdateAll(ix, <<op>>)[k][v] = After(ix[k][v], op, k, v)
<1>1. PICK ops : ops = <<op>>
    OBVIOUS
<1>2. ops \in Seq(Op) /\ Len(ops) = 1 /\ ops[1] = op
    BY <1>1
<1>3. 1 \in 1 .. Len(ops) /\ \A j \in 1 .. Len(ops) : j = 1
    BY <1>2
<1>4. UpdateAll(ix, ops)[k][v] = After(ix[k][v], ops[1], k, v)
    BY <1>2, <1>3, OnlyOneDecides
<1> QED BY <1>1, <1>2, <1>4

LEMMA NoUpdate ==
    ASSUME NEW ix \in Index
    PROVE  UpdateAll(ix, << >>) = ix
<1>1. PICK ops : ops = << >>
    OBVIOUS
<1>2. ops \in Seq(Op) /\ Len(ops) = 0
    BY <1>1
<1>3. PICK f : Replays(f, ix, ops)
    BY <1>2, UpdateAllReplays
<1>4. UpdateAll(ix, ops) = ix
    BY <1>2, <1>3 DEF Replays
<1> QED BY <1>1, <1>4

\* Of the updates that touch an entry one is the last.
LEMMA LastToucher ==
    ASSUME NEW ops \in Seq(Op), NEW k, NEW v, Touched(ops, k, v)
    PROVE  \E i \in 1 .. Len(ops) : /\ Touches(ops[i], k, v)
                                    /\ \A j \in i + 1 .. Len(ops) : ~Touches(ops[j], k, v)
<1>1. PICK n \in Nat : n = Len(ops)
    OBVIOUS
<1> DEFINE T == {x \in 0 .. n : n - x \in 1 .. n /\ Touches(ops[n - x], k, v)}
<1>2. PICK i \in 1 .. n : Touches(ops[i], k, v)
    BY <1>1 DEF Touched
<1>3. n - i \in 0 .. n /\ n - (n - i) = i
    OBVIOUS
<1>4. T \subseteq Nat /\ n - i \in T
    BY <1>2, <1>3
<1>5. PICK m \in T : \A y \in T : m <= y
    <2> HIDE DEF T
    <2> QED BY <1>4, LeastNat
<1>6. n - m \in 1 .. n /\ Touches(ops[n - m], k, v) /\ m \in 0 .. n
    BY <1>5
<1>7. ASSUME NEW j \in n - m + 1 .. n PROVE ~Touches(ops[j], k, v)
    <2>1. j \in 1 .. n /\ n - j \in 0 .. n /\ n - (n - j) = j /\ ~(m <= n - j)
        BY <1>6
    <2>2. n - j \notin T
        <3> HIDE DEF T
        <3> QED BY <1>5, <2>1
    <2> QED BY <2>1, <2>2
<1> QED BY <1>1, <1>6, <1>7

\* The update at i is the one that decides an entry of a VALUE index.
Decides(i, ix, ops, k, v) ==
    /\ Touches(ops[i], k, v) /\ \A j \in i + 1 .. Len(ops) : ~Touches(ops[j], k, v)
    /\ UpdateAll(ix, ops)[k][v] = IF ops[i][3] = v THEN 1 ELSE 0

LEMMA UpdateAllSets ==
    ASSUME Idempotent, NEW ix \in Index, NEW ops \in Seq(Op), NEW k \in Keys, NEW v \in Vals,
           Touched(ops, k, v)
    PROVE  \E i \in 1 .. Len(ops) : Decides(i, ix, ops, k, v)
<1>1. PICK i \in 1 .. Len(ops) : /\ Touches(ops[i], k, v)
                                 /\ \A j \in i + 1 .. Len(ops) : ~Touches(ops[j], k, v)
    BY LastToucher
<1>2. UpdateAll(ix, ops)[k][v] = IF ops[i][3] = v THEN 1 ELSE 0
    BY <1>1, LastDecides
<1> QED BY <1>1, <1>2 DEF Decides

\* A VALUE index never has a negative entry.
LEMMA UpdateAllNonNegative ==
    ASSUME Idempotent, NEW ix \in Index, NEW ops \in Seq(Op), NEW k \in Keys, NEW v \in Vals,
           ix[k][v] >= 0
    PROVE  UpdateAll(ix, ops)[k][v] >= 0
<1>1. CASE Touched(ops, k, v)
    <2>1. PICK i \in 1 .. Len(ops) : Decides(i, ix, ops, k, v)
        BY <1>1, UpdateAllSets
    <2> QED BY <2>1 DEF Decides
<1>2. CASE ~Touched(ops, k, v)
    BY <1>2, UpdateAllKeeps
<1> QED BY <1>1, <1>2

-----------------------------------------------------------------------------
(* The scan of a chunk, and the first missing range. *)

\* s is r with op at its end.
Appended(s, r, op) ==
    /\ s \in Seq(Op) /\ Len(s) = Len(r) + 1 /\ s[Len(r) + 1] = op
    /\ \A i \in 1 .. Len(r) : s[i] = r[i]

LEMMA AppendedOp ==
    ASSUME NEW r \in Seq(Op), NEW op \in Op
    PROVE  Appended(Append(r, op), r, op)
BY DEF Appended

\* ops are the updates of a scan of S up to the key j.
Scanned(S, j, ops) ==
    /\ ops \in Seq(Op)
    /\ \A i \in 1 .. Len(ops) : \E k \in Present(S) : k <= j /\ ops[i] = <<k, None, records[k]>>
    /\ \A i, m \in 1 .. Len(ops) : ops[i][1] = ops[m][1] => i = m
    /\ \A k \in Present(S) : k <= j => ScannedIn(ops, k)

\* The scan passes a key without a record,
LEMMA ScanSkips ==
    ASSUME NEW S, S \subseteq Keys, NEW j \in 0 .. N, j < N, NEW r, Scanned(S, j, r),
           j + 1 \notin Present(S)
    PROVE  Scanned(S, j + 1, r)
<1>1. \A k \in Present(S) : k \in Nat /\ (k <= j + 1 <=> k <= j)
    BY ConstantsAssumption DEF Present, Keys
<1>2. j <= j + 1
    OBVIOUS
<1>3. \A i \in 1 .. Len(r) : \E k \in Present(S) : k <= j + 1 /\ r[i] = <<k, None, records[k]>>
    BY <1>1 DEF Scanned
<1>4. \A k \in Present(S) : k <= j + 1 => ScannedIn(r, k)
    BY <1>1 DEF Scanned
<1> QED BY <1>3, <1>4 DEF Scanned

\* and takes one with a record.
LEMMA ScanTakes ==
    ASSUME DataTypes, NEW S, S \subseteq Keys, NEW j \in 0 .. N, NEW r, Scanned(S, j, r),
           j + 1 \in Present(S),
           NEW op, op = <<j + 1, None, records[j + 1]>>, NEW s, Appended(s, r, op)
    PROVE  Scanned(S, j + 1, s)
<1>1. PICK n \in Nat : n = Len(r)
    BY DEF Scanned
<1>2. s \in Seq(Op) /\ Len(s) = n + 1 /\ s[n + 1] = op /\ \A i \in 1 .. n : s[i] = r[i]
    BY <1>1 DEF Appended
<1>3. \A k \in Present(S) : k \in Nat /\ (k <= j + 1 <=> k <= j \/ k = j + 1)
    BY ConstantsAssumption DEF Present, Keys
<1>4. op[1] = j + 1
    OBVIOUS
<1>5. \A i \in 1 .. n : \E k \in Present(S) : k <= j /\ r[i] = <<k, None, records[k]>>
    BY <1>1 DEF Scanned
<1>6. \A i \in 1 .. n : s[i][1] # j + 1
    <2> TAKE i \in 1 .. n
    <2>1. PICK k \in Present(S) : k <= j /\ r[i] = <<k, None, records[k]>>
        BY <1>5
    <2>2. s[i][1] = k
        BY <1>2, <2>1
    <2> QED BY <1>3, <2>1, <2>2
<1>7. ASSUME NEW i \in 1 .. n + 1
      PROVE  \E k \in Present(S) : k <= j + 1 /\ s[i] = <<k, None, records[k]>>
    <2>1. CASE i \in 1 .. n
        <3>1. PICK k \in Present(S) : k <= j /\ r[i] = <<k, None, records[k]>>
            BY <1>5, <2>1
        <3> QED BY <1>2, <1>3, <2>1, <3>1
    <2>2. CASE i = n + 1
        BY <1>2, <1>3, <2>2
    <2> QED BY <2>1, <2>2
<1>8. ASSUME NEW i \in 1 .. n + 1, NEW m \in 1 .. n + 1, s[i][1] = s[m][1] PROVE i = m
    <2>1. (i \in 1 .. n \/ i = n + 1) /\ (m \in 1 .. n \/ m = n + 1)
        OBVIOUS
    <2>2. \A x, y \in 1 .. n : r[x][1] = r[y][1] => x = y
        BY <1>1 DEF Scanned
    <2>3. CASE i \in 1 .. n /\ m \in 1 .. n
        BY <1>2, <1>8, <2>2, <2>3
    <2>4. CASE i = n + 1 /\ m = n + 1
        BY <2>4
    <2>5. CASE i \in 1 .. n /\ m = n + 1
        BY <1>2, <1>4, <1>6, <1>8, <2>5
    <2>6. CASE m \in 1 .. n /\ i = n + 1
        BY <1>2, <1>4, <1>6, <1>8, <2>6
    <2> QED BY <2>1, <2>3, <2>4, <2>5, <2>6
<1>9. ASSUME NEW k \in Present(S), k <= j + 1 PROVE ScannedIn(s, k)
    <2>1. CASE k = j + 1
        <3>1. n + 1 \in 1 .. Len(s) /\ s[n + 1][1] = k
            BY <1>2, <1>4, <2>1
        <3> QED BY <3>1 DEF ScannedIn
    <2>2. CASE k <= j
        <3>1. PICK i \in 1 .. n : r[i][1] = k
            BY <1>1, <2>2 DEF Scanned, ScannedIn
        <3>2. i \in 1 .. Len(s) /\ s[i][1] = k
            BY <1>2, <3>1
        <3> QED BY <3>2 DEF ScannedIn
    <2> QED BY <1>3, <1>9, <2>1, <2>2
<1> QED BY <1>2, <1>7, <1>8, <1>9 DEF Scanned

\* The updates of a chunk are those of its records, one each.
LEMMA ScanOpsScanned ==
    ASSUME DataTypes, NEW S, S \subseteq Keys
    PROVE  Scanned(S, N, ScanOps(S))
<1>0. N \in Nat /\ N > 0
    BY ConstantsAssumption
<1>1. PICK n \in Nat : n = N
    BY <1>0
<1> DEFINE Rec(q) == <<q, None, records[q]>>
           Take(x, i) == IF i \in Present(S) THEN Append(x, Rec(i)) ELSE x
           Step(x, q) == Take(x, q + 1)
           G == [q \in 0 .. n |-> [x \in Seq(Op) |-> Step(x, q)]]
           Eq(f) == f = [i \in 0 .. n |-> IF i = 0 THEN << >> ELSE Take(f[i - 1], i)]
<1>2. \A k \in Present(S) : Rec(k) \in Op
    BY DEF DataTypes, Op, Present
<1>3. \A x \in Seq(Op), q \in 0 .. n : Step(x, q) \in Seq(Op)
    <2> HIDE DEF Rec
    <2> QED BY <1>2
<1>4. IsStep(G, 0, n, Seq(Op))
    <2> HIDE DEF Step
    <2> QED BY <1>3 DEF IsStep
<1>5. << >> \in Seq(Op) /\ 0 <= n
    OBVIOUS
<1>6. PICK f : IsWalk(f, 0, n, Seq(Op), << >>, G)
    <2> HIDE DEF G
    <2> QED BY <1>4, <1>5, WalkExists
<1>7. f \in [0 .. n -> Seq(Op)] /\ f[0] = << >> /\ \A p \in 0 + 1 .. n : f[p] = G[p - 1][f[p - 1]]
    <2> HIDE DEF G
    <2> QED BY <1>6 DEF IsWalk
<1>8. ASSUME NEW i \in 1 .. n PROVE f[i] = Step(f[i - 1], i - 1)
    <2>1. i - 1 \in 0 .. n /\ i \in 0 + 1 .. n
        OBVIOUS
    <2>2. f[i - 1] \in Seq(Op) /\ f[i] = G[i - 1][f[i - 1]]
        <3> HIDE DEF G
        <3> QED BY <1>7, <2>1
    <2> HIDE DEF Step
    <2> QED BY <2>1, <2>2
<1>9. ASSUME NEW i \in 1 .. n
      PROVE  f[i] = Take(f[i - 1], i)
    <2>1. i - 1 + 1 = i
        OBVIOUS
    <2> HIDE DEF Take
    <2> QED BY <1>8, <2>1
<1>10. Eq(f)
    <2> HIDE DEF Take, G, Step
    <2> QED BY <1>7, <1>9
<1>11. ScanOps(S) = (CHOOSE g : Eq(g))[n]
    BY <1>1 DEF ScanOps
<1>12. PICK g : g = (CHOOSE h : Eq(h))
    OBVIOUS
<1>13. Eq(g)
    <2> HIDE DEF Eq
    <2> QED BY <1>10, <1>12
<1>14. g[0] = << >> /\ \A i \in 1 .. n :
                           g[i] = Take(g[i - 1], i)
    <2> HIDE DEF Take
    <2>1. \A i \in 1 .. n : i \in 0 .. n /\ i # 0
        OBVIOUS
    <2> QED BY <1>13, <2>1
<1> DEFINE P == {i \in 0 .. n : Scanned(S, i, g[i])}
<1> HIDE DEF Eq, G, Step, Rec, Take
<1>15. 0 \in P
    <2>1. \A k \in Present(S) : ~(k <= 0)
        BY <1>0 DEF Present, Keys
    <2>2. PICK r : r = g[0]
        OBVIOUS
    <2>3. r \in Seq(Op) /\ Len(r) = 0
        BY <1>14, <2>2
    <2>4. Scanned(S, 0, r)
        BY <2>1, <2>3 DEF Scanned
    <2> QED BY <2>2, <2>4
<1>16. ASSUME NEW i \in 0 .. n, i \in P, i < n PROVE i + 1 \in P
    <2>1. i + 1 \in 1 .. n /\ i + 1 - 1 = i /\ i \in 0 .. N /\ i < N /\ i + 1 \in 0 .. n
        BY <1>1, <1>16
    <2>2. Scanned(S, i, g[i]) /\ g[i] \in Seq(Op)
        BY <1>16 DEF Scanned
    <2>3. g[i + 1] = IF i + 1 \in Present(S) THEN Append(g[i], Rec(i + 1)) ELSE g[i]
        BY <1>14, <2>1 DEF Take
    <2>4. CASE i + 1 \in Present(S)
        <3>1. PICK op : op = Rec(i + 1)
            OBVIOUS
        <3>2. op \in Op /\ op = <<i + 1, None, records[i + 1]>>
            BY <1>2, <2>4, <3>1 DEF Rec
        <3>3. Appended(g[i + 1], g[i], op)
            BY <2>2, <2>3, <2>4, <3>1, <3>2, AppendedOp
        <3>4. Scanned(S, i + 1, g[i + 1])
            BY <2>1, <2>2, <2>4, <3>2, <3>3, ScanTakes
        <3> QED BY <2>1, <3>4
    <2>5. CASE i + 1 \notin Present(S)
        <3>1. Scanned(S, i + 1, g[i + 1])
            BY <2>1, <2>2, <2>3, <2>5, ScanSkips
        <3> QED BY <2>1, <3>1
    <2> QED BY <2>4, <2>5
<1>17. \A i \in 0 .. n : i \in P
    <2> HIDE DEF P
    <2> QED BY <1>5, <1>15, <1>16, IntervalInduction
<1>18. Scanned(S, n, g[n])
    BY <1>17
<1> QED BY <1>1, <1>11, <1>12, <1>18

\* A first missing range is missing.
LEMMA FirstMissingIsMissing ==
    ASSUME DataTypes, NEW S, S \subseteq Keys, ~(S \subseteq built)
    PROVE  FirstMissing(S) \subseteq S /\ FirstMissing(S) \cap built = {}
<1>0. \A k \in Keys : k \in Nat
    BY ConstantsAssumption DEF Keys
<1>1. S \ built \subseteq Nat /\ S \ built # {}
    BY <1>0
<1>2. PICK T : T = S \ built
    OBVIOUS
<1>3. PICK m \in T : \A y \in T : m <= y
    BY <1>1, <1>2, LeastNat
<1>4. PICK lo : lo = Min(T)
    OBVIOUS
<1>5. lo \in T /\ \A y \in T : lo <= y
    BY <1>3, <1>4 DEF Min
<1>6. FirstMissing(S) = {k \in S : lo <= k /\ (lo .. k) \cap built = {}}
    BY <1>2, <1>4 DEF FirstMissing
<1>7. \A k \in S : lo <= k => k \in lo .. k
    BY <1>1, <1>2, <1>5, ConstantsAssumption DEF Keys
<1> QED BY <1>6, <1>7

-----------------------------------------------------------------------------
(* What a commit does to the data. *)

\* s is r without its first n entries.
Cut(s, r, n) ==
    s \in Seq(Op) /\ Len(s) = Len(r) - n /\ \A i \in 1 .. Len(s) : s[i] = r[i + n]

LEMMA QueueRest ==
    ASSUME NEW r \in Seq(Op), NEW n \in 0 .. Len(r)
    PROVE  Cut(SubSeq(r, n + 1, Len(r)), r, n)
<1>1. PICK m \in Nat : m = Len(r)
    OBVIOUS
<1>2. PICK s : s = SubSeq(r, n + 1, m)
    OBVIOUS
<1>3. Len(s) = m - n /\ \A i \in 1 .. m - n : s[i] = r[i + n]
    BY <1>1, <1>2
<1>4. s \in Seq(Op)
    BY <1>1, <1>2
<1> QED BY <1>1, <1>2, <1>3, <1>4 DEF Cut

LEMMA QueueWhole ==
    ASSUME NEW r \in Seq(Op)
    PROVE  SubSeq(r, 1, Len(r)) = r
OBVIOUS

LEMMA QueueGrown ==
    ASSUME NEW r \in Seq(Op), NEW op \in Op
    PROVE  Appended(r \o <<op>>, r, op)
<1>1. PICK s : s = r \o <<op>>
    OBVIOUS
<1>2. s \in Seq(Op) /\ Len(s) = Len(r) + 1
    BY <1>1
<1>3. s[Len(r) + 1] = op /\ \A i \in 1 .. Len(r) : s[i] = r[i]
    BY <1>1
<1> QED BY <1>1, <1>2, <1>3 DEF Appended

LEMMA TouchedAppended ==
    ASSUME NEW r \in Seq(Op), NEW op, NEW s, Appended(s, r, op), NEW k, NEW v
    PROVE  Touched(s, k, v) <=> Touched(r, k, v) \/ Touches(op, k, v)
<1>1. PICK n \in Nat : n = Len(r)
    OBVIOUS
<1>2. Len(s) = n + 1 /\ s[n + 1] = op /\ \A i \in 1 .. n : s[i] = r[i]
    BY <1>1 DEF Appended
<1>3. \A i : i \in 1 .. n + 1 <=> i \in 1 .. n \/ i = n + 1
    OBVIOUS
<1> QED BY <1>1, <1>2, <1>3 DEF Touched

\* The effect writes new for record k.
WritesRecord(e, k, new) == e.rec = {<<k, new>>}

\* The data after a commit, by the parts of its effect.
LEMMA AppliedRecords ==
    ASSUME DataTypes, NEW p, NEW e, Apply(p, e)
    PROVE  /\ e.rec = {} => records' = records
           /\ \A k \in Keys : \A new :
                 WritesRecord(e, k, new) => records' = [records EXCEPT ![k] = new]
<1>1. records' = [k \in Keys |-> IF \E r \in e.rec : r[1] = k
                                 THEN (CHOOSE r \in e.rec : r[1] = k)[2] ELSE records[k]]
    BY DEF Apply
<1>2. records \in [Keys -> Vals \cup {None}]
    BY DEF DataTypes
<1>3. ASSUME e.rec = {} PROVE records' = records
    BY <1>1, <1>2, <1>3
<1>4. ASSUME NEW k \in Keys, NEW new, WritesRecord(e, k, new)
      PROVE  records' = [records EXCEPT ![k] = new]
    <2>1. PICK x : x = <<k, new>>
        OBVIOUS
    <2>2. x[1] = k /\ x[2] = new /\ e.rec = {x}
        BY <1>4, <2>1 DEF WritesRecord
    <2>3. \A r \in e.rec : r = x
        BY <2>2
    <2>4. ASSUME NEW j \in Keys PROVE records'[j] = IF j = k THEN new ELSE records[j]
        <3>1. CASE j = k
            <4>1. (CHOOSE r \in e.rec : r[1] = j) = x
                BY <2>2, <3>1
            <4>2. \E r \in e.rec : r[1] = j
                BY <2>2, <3>1
            <4> QED BY <1>1, <2>2, <3>1, <4>1, <4>2
        <3>2. CASE j # k
            BY <1>1, <2>2, <3>2
        <3> QED BY <3>1, <3>2
    <2> QED BY <1>1, <1>2, <2>4
<1> QED BY <1>3, <1>4

LEMMA AppliedIndex ==
    ASSUME DataTypes, NEW p, NEW e, Apply(p, e)
    PROVE  /\ ~e.wipe => index' = UpdateAll(index, e.ops)
           /\ ~e.wipe /\ e.ops = << >> => index' = index
           /\ e.wipe /\ e.ops = << >> => index' = EmptyIndex
           /\ ~e.forget => built' = built \cup e.built
           /\ e.forget /\ e.built = {} => built' = {}
           /\ e.state = None => state' = state
           /\ e.state # None => state' = e.state
<1>1. index' = UpdateAll(IF e.wipe THEN EmptyIndex ELSE index, e.ops)
    BY DEF Apply
<1>2. index \in Index /\ EmptyIndex \in Index
    BY DEF DataTypes, Index, EmptyIndex
<1>3. UpdateAll(index, << >>) = index /\ UpdateAll(EmptyIndex, << >>) = EmptyIndex
    BY <1>2, NoUpdate
<1>4. ~e.wipe => index' = UpdateAll(index, e.ops)
    BY <1>1
<1>5. e.wipe => index' = UpdateAll(EmptyIndex, e.ops)
    BY <1>1
<1>6. built' = (IF e.forget THEN {} ELSE built) \cup e.built
    BY DEF Apply
<1>7. state' = IF e.state = None THEN state ELSE e.state
    BY DEF Apply
<1>8. ~e.wipe /\ e.ops = << >> => index' = index
    BY <1>3, <1>4
<1>9. e.wipe /\ e.ops = << >> => index' = EmptyIndex
    BY <1>3, <1>5
<1> QED BY <1>4, <1>6, <1>7, <1>8, <1>9

LEMMA AppliedQueue ==
    ASSUME DataTypes, NEW p, NEW e, Apply(p, e)
    PROVE  /\ e.erase /\ e.enq = << >> => queue' = << >>
           /\ ~e.erase /\ e.deq = 0 /\ e.enq = << >> => queue' = queue
           /\ ~e.erase /\ e.deq = 0 => \A op \in Op : e.enq = <<op>> => Appended(queue', queue, op)
           /\ ~e.erase /\ e.enq = << >> /\ e.deq \in 0 .. Len(queue) => Cut(queue', queue, e.deq)
<1>0. queue \in Seq(Op)
    BY DEF DataTypes
<1>1. queue' = (IF e.erase THEN << >> ELSE SubSeq(queue, e.deq + 1, Len(queue))) \o e.enq
    BY DEF Apply
<1>2. CASE e.erase /\ e.enq = << >>
    BY <1>1, <1>2
<1>3. ~e.erase /\ e.deq = 0 => queue' = queue \o e.enq
    <2>1. SubSeq(queue, 1, Len(queue)) = queue
        BY <1>0, QueueWhole
    <2>2. 0 + 1 = 1
        OBVIOUS
    <2> QED BY <1>1, <2>1, <2>2
<1>4. queue \o << >> = queue
    BY <1>0
<1>5. \A op \in Op : Appended(queue \o <<op>>, queue, op)
    BY <1>0, QueueGrown
<1>6. ASSUME ~e.erase, e.enq = << >>, e.deq \in 0 .. Len(queue)
      PROVE  Cut(queue', queue, e.deq)
    <2>1. PICK s : s = SubSeq(queue, e.deq + 1, Len(queue))
        OBVIOUS
    <2>2. Cut(s, queue, e.deq)
        BY <1>0, <1>6, <2>1, QueueRest
    <2>3. s \in Seq(Op)
        BY <2>2 DEF Cut
    <2>4. queue' = s
        BY <1>1, <1>6, <2>1, <2>3
    <2> QED BY <2>2, <2>4
<1>7. ~e.erase /\ e.deq = 0 => \A op \in Op : e.enq = <<op>> => Appended(queue', queue, op)
    BY <1>3, <1>5
<1>8. ~e.erase /\ e.deq = 0 /\ e.enq = << >> => queue' = queue
    BY <1>3, <1>4
<1> QED BY <1>2, <1>6, <1>7, <1>8

\* A commit keeps every entry of a VALUE index under construction that is right.
ExactKept == \A k \in Keys, v \in Vals : Exact(k, v) => Exact(k, v)'

LEMMA NothingPending ==
    ASSUME queue = << >>
    PROVE  Pending /\ \A k, v : ~Touched(queue, k, v)
<1>1. Len(queue) = 0
    OBVIOUS
<1> QED BY <1>1 DEF Pending, Touched

LEMMA NothingPendingAfter ==
    ASSUME queue' = << >>
    PROVE  Pending' /\ \A k, v : ~Touched(queue', k, v)
<1>1. Len(queue') = 0
    OBVIOUS
<1> QED BY <1>1 DEF Pending, Touched

\* Only a build with a queue has anything in it.
LEMMA QueueEmpty ==
    ASSUME StoreInv, state # "WRITE_ONLY_WITH_QUEUE" \/ ~Idempotent
    PROVE  queue = << >> /\ \A k, v : ~Touched(queue, k, v)
<1>1. queue = << >>
    BY DEF StoreInv, Agreement
<1> QED BY <1>1, NothingPending

\* An index that has been cleared.
LEMMA ClearedStore ==
    ASSUME records' \in [Keys -> Vals \cup {None}], index' = EmptyIndex, built' = {},
           queue' = << >>, state' \in {"DISABLED", "WRITE_ONLY", "WRITE_ONLY_WITH_QUEUE"},
           state' = "WRITE_ONLY_WITH_QUEUE" => Idempotent
    PROVE  StoreInv'
<1>1. index' \in [Keys -> [Vals -> Int]] /\ \A k \in Keys, v \in Vals : index'[k][v] = 0
    BY DEF EmptyIndex
<1>2. DataTypes'
    <2>1. queue' \in Seq(Op)
        OBVIOUS
    <2>2. \A k \in Keys, v \in Vals : index'[k][v] >= 0
        BY <1>1
    <2> QED BY <1>1, <2>1, <2>2 DEF DataTypes
<1>3. Pending'
    BY NothingPendingAfter
<1>4. \A k \in Keys, v \in Vals : Early(k, v)'
    BY <1>1 DEF Early, Contribution
<1>5. Agreement'
    BY <1>4 DEF Agreement, IsWriteOnly
<1> QED BY <1>2, <1>3, <1>5 DEF StoreInv

\* A write of new for record k, whose update of the index is op.
Wrote(k, new, op) ==
    /\ k \in Keys /\ new \in Vals \cup {None}
    /\ records' = [records EXCEPT ![k] = new] /\ op = <<k, records[k], new>>

\* What a record contributes after a write that does not touch the entry, or does.
LEMMA ContributionAfter ==
    ASSUME DataTypes, NEW k, NEW new, NEW op, Wrote(k, new, op),
           NEW j \in Keys, NEW v \in Vals
    PROVE  /\ ~Touches(op, j, v) => /\ Contribution(j, v)' = Contribution(j, v)
                                    /\ records'[j] = v <=> records[j] = v
           /\ Touches(op, j, v) => /\ j = k /\ records'[j] = new
                                   /\ Contribution(j, v)' = IF v = new THEN 1 ELSE 0
                                   /\ Contribution(j, v) = IF v = new THEN 0 ELSE 1
<1>0. /\ k \in Keys /\ new \in Vals \cup {None}
      /\ records' = [records EXCEPT ![k] = new] /\ op = <<k, records[k], new>>
    BY DEF Wrote
<1>1. PICK old : old = records[k]
    OBVIOUS
<1>2. op[1] = k /\ op[2] = old /\ op[3] = new
    BY <1>0, <1>1
<1>3. records'[j] = IF j = k THEN new ELSE records[j]
    BY <1>0 DEF DataTypes
<1>4. Touches(op, j, v) <=> j = k /\ old # new /\ (v = old \/ v = new)
    BY <1>2 DEF Touches
<1>5. ~Touches(op, j, v) => (records'[j] = v <=> records[j] = v)
    BY <1>1, <1>3, <1>4
<1>6. Touches(op, j, v) => j = k /\ records'[j] = new /\ (records[j] = v <=> v # new)
    BY <1>1, <1>3, <1>4
<1> QED BY <1>5, <1>6 DEF Contribution

LEMMA WriteOp ==
    ASSUME DataTypes, NEW k \in Keys, NEW new \in Vals \cup {None}
    PROVE  <<k, records[k], new>> \in Op
BY DEF DataTypes, Op

\* A write whose update goes to the end of the queue.
LEMMA QueuedWrite ==
    ASSUME StoreInv, NEW k \in Keys, NEW new \in Vals \cup {None},
           state = "WRITE_ONLY_WITH_QUEUE",
           records' = [records EXCEPT ![k] = new],
           NEW op, op = <<k, records[k], new>>, Appended(queue', queue, op),
           index' = index, built' = built, state' = state
    PROVE  StoreInv' /\ ExactKept
<1>0. DataTypes /\ Pending /\ Agreement /\ Idempotent /\ queue \in Seq(Op)
    BY DEF StoreInv, Agreement, DataTypes
<1>1. records' \in [Keys -> Vals \cup {None}]
    BY <1>0 DEF DataTypes
<1>2. queue' \in Seq(Op)
    BY DEF Appended
<1>3. DataTypes'
    BY <1>0, <1>1, <1>2 DEF DataTypes
<1>4. \A j \in Keys, v \in Vals :
         /\ ~Touches(op, j, v) => /\ Contribution(j, v)' = Contribution(j, v)
                                  /\ records'[j] = v <=> records[j] = v
         /\ Touches(op, j, v) => j = k /\ records'[j] = new
    <2>1. Wrote(k, new, op)
        BY DEF Wrote
    <2> QED BY ONLY <1>0, <2>1, ContributionAfter
<1>5. \A j, v : Touched(queue', j, v) <=> Touched(queue, j, v) \/ Touches(op, j, v)
    BY <1>0, TouchedAppended
<1>6. Pending'
    <2> SUFFICES ASSUME NEW j \in Keys, NEW v \in Vals, NEW i \in 1 .. Len(queue'),
                        Touches(queue'[i], j, v),
                        \A m \in i + 1 .. Len(queue') : ~Touches(queue'[m], j, v)
                 PROVE  queue'[i][3] = v <=> records'[j] = v
        BY DEF Pending
    <2>1. PICK n \in Nat : n = Len(queue)
        BY <1>0
    <2>2. Len(queue') = n + 1 /\ queue'[n + 1] = op /\ \A m \in 1 .. n : queue'[m] = queue[m]
        BY <2>1 DEF Appended
    <2>3. CASE i = n + 1
        <3>1. Touches(op, j, v) /\ op[3] = new /\ queue'[i] = op
            BY <2>2, <2>3
        <3> QED BY <1>4, <3>1
    <2>4. CASE i \in 1 .. n
        <3>1. queue'[i] = queue[i] /\ n + 1 \in i + 1 .. Len(queue')
            BY <2>2, <2>4
        <3>2. ~Touches(op, j, v)
            BY <2>2, <3>1
        <3>3. \A m \in i + 1 .. n : ~Touches(queue[m], j, v)
            <4> TAKE m \in i + 1 .. n
            <4>1. m \in i + 1 .. Len(queue') /\ m \in 1 .. n
                BY <2>2, <2>4
            <4> QED BY <2>2, <4>1
        <3>4. queue[i][3] = v <=> records[j] = v
            BY <1>0, <2>1, <2>4, <3>1, <3>3 DEF Pending
        <3> QED BY <1>4, <3>1, <3>2, <3>4
    <2> QED BY <2>2, <2>3, <2>4
<1>7. \A j \in Keys, v \in Vals : /\ Exact(j, v) => Exact(j, v)'
                                  /\ Early(j, v) => Early(j, v)'
    BY <1>4, <1>5 DEF Exact, Early
<1>8. Agreement'
    <2>1. IsWriteOnly(state) /\ IsWriteOnly(state') /\ state' = "WRITE_ONLY_WITH_QUEUE"
        BY DEF IsWriteOnly
    <2>2. \A j \in Keys, v \in Vals : IF j \in built THEN Exact(j, v) ELSE Early(j, v)
        BY <1>0, <2>1 DEF Agreement
    <2>3. \A j \in Keys, v \in Vals : IF j \in built' THEN Exact(j, v)' ELSE Early(j, v)'
        BY <1>7, <2>2
    <2> QED BY <1>0, <2>1, <2>3 DEF Agreement
<1> QED BY <1>3, <1>6, <1>7, <1>8 DEF StoreInv, ExactKept

\* A write of an index without a queue that leaves the index alone: there is
\* none, or the build has yet to count the record.
LEMMA SilentWrite ==
    ASSUME StoreInv, NEW k \in Keys, NEW new \in Vals \cup {None},
           \/ state = "DISABLED"
           \/ state = "WRITE_ONLY" /\ ~Idempotent /\ k \notin built,
           records' = [records EXCEPT ![k] = new],
           queue' = queue, index' = index, built' = built, state' = state
    PROVE  StoreInv'
<1>0. DataTypes /\ Agreement /\ queue = << >> /\ \A j, v : ~Touched(queue, j, v)
    BY QueueEmpty DEF StoreInv
<1>1. records' \in [Keys -> Vals \cup {None}] /\ \A j \in Keys : j # k => records'[j] = records[j]
    BY <1>0 DEF DataTypes
<1>2. DataTypes'
    BY <1>0, <1>1 DEF DataTypes
<1>3. Pending'
    BY <1>0, NothingPendingAfter
<1>4. CASE state = "DISABLED"
    <2>1. Agreement'
        BY <1>0, <1>4 DEF Agreement, IsWriteOnly
    <2> QED BY <1>2, <1>3, <2>1 DEF StoreInv
<1>5. CASE state = "WRITE_ONLY" /\ ~Idempotent /\ k \notin built
    <2>1. \A j \in Keys, v \in Vals : IF j \in built THEN Exact(j, v) ELSE Early(j, v)
        BY <1>0, <1>5 DEF Agreement, IsWriteOnly
    <2>2. \A j \in Keys, v \in Vals : IF j \in built' THEN Exact(j, v)' ELSE Early(j, v)'
        BY <1>1, <1>5, <2>1 DEF Exact, Early, Contribution
    <2>3. Agreement'
        BY <1>0, <1>5, <2>2 DEF Agreement, IsWriteOnly
    <2> QED BY <1>2, <1>3, <2>3 DEF StoreInv
<1> QED BY <1>4, <1>5

\* A write that updates the index itself.
LEMMA DirectWrite ==
    ASSUME StoreInv, NEW k \in Keys, NEW new \in Vals \cup {None},
           state \in {"WRITE_ONLY", "READABLE"},
           Idempotent \/ state = "READABLE" \/ k \in built,
           records' = [records EXCEPT ![k] = new],
           NEW op, op = <<k, records[k], new>>, index' = UpdateAll(index, <<op>>),
           queue' = queue, built' = built, state' = state
    PROVE  StoreInv' /\ ExactKept
<1>0. /\ DataTypes /\ Agreement /\ queue = << >> /\ index \in Index
      /\ \A j, v : ~Touched(queue, j, v) /\ ~Touched(queue', j, v)
    BY QueueEmpty DEF StoreInv, DataTypes, Index
<1>1. records' \in [Keys -> Vals \cup {None}]
    BY <1>0 DEF DataTypes
<1>2. op \in Op /\ op[3] = new
    BY <1>0, WriteOp
<1>3. index' \in Index
    <2>1. <<op>> \in Seq(Op)
        BY <1>2
    <2> QED BY <1>0, <2>1, UpdateAllType
<1>4. \A j \in Keys, v \in Vals : index'[j][v] = After(index[j][v], op, j, v)
    BY <1>0, <1>2, OneUpdate
<1>5. \A j \in Keys, v \in Vals : Idempotent => index'[j][v] >= 0
    <2> TAKE j \in Keys, v \in Vals
    <2>1. PICK x \in Int : x = index[j][v]
        BY <1>0 DEF Index
    <2>2. Idempotent => x >= 0
        BY <1>0, <2>1 DEF DataTypes
    <2>3. index'[j][v] = After(x, op, j, v)
        BY <1>4, <2>1
    <2> QED BY <2>2, <2>3 DEF After
<1>6. DataTypes'
    BY <1>0, <1>1, <1>3, <1>5 DEF DataTypes, Index
<1>7. Pending'
    BY <1>0, NothingPendingAfter
<1>8. ASSUME NEW j \in Keys, NEW v \in Vals
      PROVE  /\ Exact(j, v) => Exact(j, v)'
             /\ Early(j, v) /\ (Idempotent \/ j # k) => Early(j, v)'
    <2>1. PICK x \in Int : x = index[j][v]
        BY <1>0 DEF Index
    <2>2. /\ ~Touches(op, j, v) => Contribution(j, v)' = Contribution(j, v)
          /\ Touches(op, j, v) => /\ j = k
                                  /\ Contribution(j, v)' = IF v = new THEN 1 ELSE 0
                                  /\ Contribution(j, v) = IF v = new THEN 0 ELSE 1
        <3>1. Wrote(k, new, op)
            BY DEF Wrote
        <3> QED BY ONLY <1>0, <3>1, ContributionAfter
    <2>3. index'[j][v] = IF ~Touches(op, j, v) THEN x
                         ELSE IF v = new THEN IF Idempotent THEN 1 ELSE x + 1
                                         ELSE IF Idempotent THEN 0 ELSE x - 1
        BY <1>2, <1>4, <2>1 DEF After
    <2>4. Exact(j, v) => x = Contribution(j, v)
        BY <1>0, <2>1 DEF Exact
    <2>5. Exact(j, v) => index'[j][v] = Contribution(j, v)'
        BY <2>2, <2>3, <2>4
    <2>6. Early(j, v) => IF Idempotent THEN x <= Contribution(j, v) ELSE x = 0
        BY <1>0, <2>1 DEF Early
    <2>7. Early(j, v) /\ (Idempotent \/ j # k)
             => IF Idempotent THEN index'[j][v] <= Contribution(j, v)' ELSE index'[j][v] = 0
        BY <2>2, <2>3, <2>6
    <2> QED BY <2>5, <2>7 DEF Exact, Early
<1>9. Agreement'
    <2>1. CASE state = "READABLE"
        <3>1. \A j \in Keys, v \in Vals : Exact(j, v)'
            BY <1>0, <1>8, <2>1 DEF Agreement
        <3> QED BY <1>0, <2>1, <3>1 DEF Agreement, IsWriteOnly
    <2>2. CASE state = "WRITE_ONLY"
        <3>1. \A j \in Keys, v \in Vals : IF j \in built THEN Exact(j, v) ELSE Early(j, v)
            BY <1>0, <2>2 DEF Agreement, IsWriteOnly
        <3>2. \A j \in Keys, v \in Vals : IF j \in built' THEN Exact(j, v)' ELSE Early(j, v)'
            BY <1>8, <2>2, <3>1
        <3> QED BY <1>0, <2>2, <3>2 DEF Agreement, IsWriteOnly
    <2> QED BY <2>1, <2>2
<1> QED BY <1>6, <1>7, <1>8, <1>9 DEF StoreInv, ExactKept

\* A chunk of a build: ops are the updates of the records of S it has scanned.
IndexedChunk(S, ops) ==
    /\ S \subseteq Keys /\ S \cap built = {} /\ ops \in Seq(Op)
    /\ \A i, j \in 1 .. Len(ops) : ops[i][1] = ops[j][1] => i = j
    /\ \A i \in 1 .. Len(ops) : \E k \in S :
          records[k] # None /\ ops[i] = <<k, None, records[k]>>
    /\ \A k \in S : ~ScannedIn(ops, k) =>
          IF Idempotent THEN \A v \in Vals : Exact(k, v) ELSE records[k] = None

LEMMA ScannedEntry ==
    ASSUME StoreInv, IsWriteOnly(state), NEW S, NEW ops, IndexedChunk(S, ops),
           NEW k \in S, NEW v \in Vals, ScannedIn(ops, k),
           index' = UpdateAll(index, ops), records' = records, queue' = queue
    PROVE  Exact(k, v)'
<1>0. DataTypes /\ Agreement /\ index \in Index /\ ops \in Seq(Op) /\ k \in Keys /\ k \notin built
    BY DEF StoreInv, DataTypes, Index, IndexedChunk
<1>1. PICK i \in 1 .. Len(ops) : ops[i][1] = k
    BY DEF ScannedIn
<1>2. PICK key \in S : records[key] # None /\ ops[i] = <<key, None, records[key]>>
    BY DEF IndexedChunk
<1>3. PICK new : new = records[k]
    OBVIOUS
<1>4. key = k
    BY <1>1, <1>2
<1>5. new # None /\ ops[i][2] = None /\ ops[i][3] = new /\ v # None
    BY <1>2, <1>3, <1>4, ConstantsAssumption
<1>6. \A j \in 1 .. Len(ops) : j # i => ~Touches(ops[j], k, v)
    BY <1>1 DEF Touches, IndexedChunk
<1>7. index'[k][v] = After(index[k][v], ops[i], k, v)
    BY <1>0, <1>1, <1>6, OnlyOneDecides
<1>8. PICK x \in Int : x = index[k][v]
    BY <1>0 DEF Index
<1>9. Touches(ops[i], k, v) <=> v = new
    BY <1>1, <1>5 DEF Touches
<1>10. index'[k][v] = IF v = new THEN IF Idempotent THEN 1 ELSE x + 1 ELSE x
    BY <1>5, <1>7, <1>8, <1>9 DEF After
<1>11. Early(k, v)
    BY <1>0 DEF Agreement
<1>12. Contribution(k, v)' = IF v = new THEN 1 ELSE 0
    BY <1>3 DEF Contribution
<1>13. Contribution(k, v) = IF v = new THEN 1 ELSE 0
    BY <1>3 DEF Contribution
<1>14. CASE Touched(queue, k, v)
    BY <1>14 DEF Exact
<1>15. CASE ~Touched(queue, k, v)
    <2>1. IF Idempotent THEN x <= Contribution(k, v) ELSE x = 0
        BY <1>8, <1>11, <1>15 DEF Early
    <2>2. Idempotent => x >= 0
        BY <1>0, <1>8 DEF DataTypes
    <2>3. index'[k][v] = Contribution(k, v)'
        BY <1>10, <1>12, <1>13, <2>1, <2>2
    <2> QED BY <2>3 DEF Exact
<1> QED BY <1>14, <1>15

LEMMA ChunkCommit ==
    ASSUME StoreInv, IsWriteOnly(state), NEW S, NEW ops, IndexedChunk(S, ops),
           index' = UpdateAll(index, ops), built' = built \cup S,
           records' = records, queue' = queue, state' = state
    PROVE  StoreInv' /\ ExactKept
<1>0. /\ DataTypes /\ Pending /\ Agreement /\ index \in Index /\ ops \in Seq(Op)
      /\ S \subseteq Keys /\ S \cap built = {}
    BY DEF StoreInv, DataTypes, Index, IndexedChunk
<1>1. index' \in Index
    BY <1>0, UpdateAllType
<1>2. \A k \in Keys, v \in Vals : Idempotent => index'[k][v] >= 0
    BY <1>0, UpdateAllNonNegative DEF DataTypes
<1>3. DataTypes'
    BY <1>0, <1>1, <1>2 DEF DataTypes, Index
<1>4. Pending'
    BY <1>0 DEF Pending
<1>5. \A k \in Keys, v \in Vals : ~ScannedIn(ops, k) => index'[k][v] = index[k][v]
    <2> TAKE k \in Keys, v \in Vals
    <2>1. ~ScannedIn(ops, k) => ~Touched(ops, k, v)
        BY DEF ScannedIn, Touched, Touches
    <2> QED BY <1>0, <2>1, UpdateAllKeeps
<1>6. \A k \in Keys : k \notin S => ~ScannedIn(ops, k)
    <2> SUFFICES ASSUME NEW k \in Keys, ScannedIn(ops, k) PROVE k \in S
        OBVIOUS
    <2>1. PICK i \in 1 .. Len(ops) : ops[i][1] = k
        BY DEF ScannedIn
    <2>2. PICK key \in S : ops[i] = <<key, None, records[key]>>
        BY DEF IndexedChunk
    <2> QED BY <2>1, <2>2
<1>7. \A k \in Keys, v \in Vals : Contribution(k, v)' = Contribution(k, v)
    BY DEF Contribution
<1>8. \A k \in Keys, v \in Vals : k \notin S => /\ Exact(k, v) => Exact(k, v)'
                                                /\ Early(k, v) => Early(k, v)'
    BY <1>5, <1>6, <1>7 DEF Exact, Early
<1>9. ASSUME NEW k \in S, NEW v \in Vals PROVE Exact(k, v)'
    <2>0. k \in Keys /\ k \notin built
        BY <1>0
    <2>1. CASE ScannedIn(ops, k)
        BY <2>1, ScannedEntry
    <2>2. CASE ~ScannedIn(ops, k) /\ Idempotent
        <3>1. Exact(k, v)
            BY <2>2 DEF IndexedChunk
        <3> QED BY <1>5, <1>7, <2>0, <2>2, <3>1 DEF Exact
    <2>3. CASE ~ScannedIn(ops, k) /\ ~Idempotent
        <3>1. records[k] = None /\ v # None
            BY <2>3, ConstantsAssumption DEF IndexedChunk
        <3>2. Early(k, v) /\ ~Touched(queue, k, v)
            BY <1>0, <2>0, <2>3, QueueEmpty DEF Agreement
        <3>3. index[k][v] = 0 /\ Contribution(k, v) = 0
            BY <2>3, <3>1, <3>2 DEF Early, Contribution
        <3> QED BY <1>5, <1>7, <2>0, <2>3, <3>3 DEF Exact
    <2> QED BY <2>1, <2>2, <2>3
<1>10. Agreement'
    <2>1. \A k \in Keys, v \in Vals : IF k \in built THEN Exact(k, v) ELSE Early(k, v)
        BY <1>0 DEF Agreement
    <2>2. \A k \in Keys, v \in Vals : IF k \in built' THEN Exact(k, v)' ELSE Early(k, v)'
        BY <1>0, <1>8, <1>9, <2>1
    <2> QED BY <1>0, <2>2 DEF Agreement, IsWriteOnly
<1>11. ExactKept
    BY <1>8, <1>9 DEF ExactKept
<1> QED BY <1>3, <1>4, <1>10, <1>11 DEF StoreInv

\* The head of a queue, and what it leaves.
LEMMA HeadOf ==
    ASSUME NEW r \in Seq(Op), NEW n \in 0 .. Len(r), NEW s, s = SubSeq(r, 1, n)
    PROVE  s \in Seq(Op) /\ Len(s) = n /\ \A i \in 1 .. n : s[i] = r[i]
OBVIOUS

\* An entry the head of the queue sets is right once the rest does not touch it.
LEMMA DrainedEntry ==
    ASSUME StoreInv, Idempotent, NEW n \in 0 .. Len(queue), NEW ops, ops = SubSeq(queue, 1, n),
           index' = UpdateAll(index, ops), Cut(queue', queue, n), records' = records,
           NEW k \in Keys, NEW v \in Vals, ~Touched(queue', k, v)
    PROVE  /\ Touched(ops, k, v) => index'[k][v] = Contribution(k, v)
           /\ ~Touched(ops, k, v) => ~Touched(queue, k, v) /\ index'[k][v] = index[k][v]
<1>0. DataTypes /\ Pending /\ index \in Index /\ queue \in Seq(Op)
    BY DEF StoreInv, DataTypes, Index
<1>1. PICK m \in Nat : m = Len(queue)
    BY <1>0
<1>2. ops \in Seq(Op) /\ Len(ops) = n /\ \A i \in 1 .. n : ops[i] = queue[i]
    BY <1>0, HeadOf
<1>3. Len(queue') = m - n /\ \A i \in 1 .. m - n : queue'[i] = queue[i + n]
    BY <1>1 DEF Cut
<1>4. \A i \in n + 1 .. m : ~Touches(queue[i], k, v)
    <2> TAKE i \in n + 1 .. m
    <2>1. i - n \in 1 .. m - n /\ i - n + n = i
        BY <1>1
    <2>2. ~Touches(queue'[i - n], k, v)
        BY <1>3, <2>1 DEF Touched
    <2> QED BY <1>3, <2>1, <2>2
<1>5. CASE Touched(ops, k, v)
    <2>0. PICK i \in 1 .. Len(ops) : Decides(i, index, ops, k, v)
        BY <1>0, <1>2, <1>5, UpdateAllSets
    <2>1. i \in 1 .. n /\ Touches(ops[i], k, v) /\ \A j \in i + 1 .. n : ~Touches(ops[j], k, v)
        BY <1>2, <2>0 DEF Decides
    <2>2. index'[k][v] = IF ops[i][3] = v THEN 1 ELSE 0
        BY <2>0 DEF Decides
    <2>3. i \in 1 .. m /\ Touches(queue[i], k, v) /\ ops[i] = queue[i]
        BY <1>1, <1>2, <2>1
    <2>4. \A j \in i + 1 .. m : ~Touches(queue[j], k, v)
        <3> TAKE j \in i + 1 .. m
        <3>1. CASE j \in n + 1 .. m
            BY <1>4, <3>1
        <3>2. CASE j \in i + 1 .. n
            <4>1. j \in 1 .. n
                BY <3>2
            <4> QED BY <1>2, <2>1, <3>2, <4>1
        <3> QED BY <1>1, <3>1, <3>2
    <2>5. queue[i][3] = v <=> records[k] = v
        BY <1>0, <1>1, <2>3, <2>4 DEF Pending
    <2> QED BY <1>5, <2>2, <2>3, <2>5 DEF Contribution
<1>6. CASE ~Touched(ops, k, v)
    <2>1. index'[k][v] = index[k][v]
        BY <1>0, <1>2, <1>6, UpdateAllKeeps
    <2>2. \A i \in 1 .. m : ~Touches(queue[i], k, v)
        <3> TAKE i \in 1 .. m
        <3>1. CASE i \in n + 1 .. m
            BY <1>4, <3>1
        <3>2. CASE i \in 1 .. n
            BY <1>2, <1>6, <3>2 DEF Touched
        <3> QED BY <1>1, <3>1, <3>2
    <2>3. ~Touched(queue, k, v)
        BY <1>1, <2>2 DEF Touched
    <2> QED BY <1>6, <2>1, <2>3
<1> QED BY <1>5, <1>6

LEMMA DrainCommit ==
    ASSUME StoreInv, IsWriteOnly(state), Idempotent,
           NEW n \in 0 .. Len(queue), NEW ops, ops = SubSeq(queue, 1, n),
           index' = UpdateAll(index, ops), Cut(queue', queue, n),
           records' = records, built' = built, state' = state
    PROVE  StoreInv' /\ ExactKept
<1>0. DataTypes /\ Pending /\ Agreement /\ index \in Index /\ queue \in Seq(Op)
    BY DEF StoreInv, DataTypes, Index
<1>1. PICK m \in Nat : m = Len(queue)
    BY <1>0
<1>2. ops \in Seq(Op)
    BY <1>0, HeadOf
<1>3. queue' \in Seq(Op) /\ Len(queue') = m - n /\ \A i \in 1 .. m - n : queue'[i] = queue[i + n]
    BY <1>1 DEF Cut
<1>4. index' \in Index
    BY <1>0, <1>2, UpdateAllType
<1>5. \A k \in Keys, v \in Vals : Idempotent => index'[k][v] >= 0
    BY <1>0, <1>2, UpdateAllNonNegative DEF DataTypes
<1>6. DataTypes'
    BY <1>0, <1>3, <1>4, <1>5 DEF DataTypes, Index
<1>7. Pending'
    <2> SUFFICES ASSUME NEW k \in Keys, NEW v \in Vals, NEW i \in 1 .. Len(queue'),
                        Touches(queue'[i], k, v),
                        \A j \in i + 1 .. Len(queue') : ~Touches(queue'[j], k, v)
                 PROVE  queue'[i][3] = v <=> records'[k] = v
        BY DEF Pending
    <2>1. i \in 1 .. m - n /\ i + n \in 1 .. m /\ queue'[i] = queue[i + n]
        BY <1>1, <1>3
    <2>2. \A j \in i + n + 1 .. m : ~Touches(queue[j], k, v)
        <3> TAKE j \in i + n + 1 .. m
        <3>1. j - n \in i + 1 .. m - n /\ j - n \in 1 .. m - n /\ j - n + n = j
            BY <1>1, <2>1
        <3> QED BY <1>3, <3>1
    <2>3. queue[i + n][3] = v <=> records[k] = v
        BY <1>0, <1>1, <2>1, <2>2 DEF Pending
    <2> QED BY <2>1, <2>3
<1>8. \A k \in Keys, v \in Vals : Contribution(k, v)' = Contribution(k, v)
    BY DEF Contribution
<1>9. ASSUME NEW k \in Keys, NEW v \in Vals
      PROVE  (Exact(k, v) => Exact(k, v)') /\ (Early(k, v) => Early(k, v)')
    <2>1. CASE Touched(queue', k, v)
        BY <2>1 DEF Exact, Early
    <2>2. CASE ~Touched(queue', k, v) /\ Touched(ops, k, v)
        <3>1. index'[k][v] = Contribution(k, v)'
            BY <1>8, <2>2, DrainedEntry
        <3>2. Contribution(k, v)' \in Int
            BY DEF Contribution
        <3> QED BY <3>1, <3>2 DEF Exact, Early
    <2>3. CASE ~Touched(queue', k, v) /\ ~Touched(ops, k, v)
        <3>1. index'[k][v] = index[k][v] /\ ~Touched(queue, k, v)
            BY <2>3, DrainedEntry
        <3> QED BY <1>8, <2>3, <3>1 DEF Exact, Early
    <2> QED BY <2>1, <2>2, <2>3
<1>10. Agreement'
    <2>1. \A k \in Keys, v \in Vals : IF k \in built THEN Exact(k, v) ELSE Early(k, v)
        BY <1>0 DEF Agreement
    <2>2. \A k \in Keys, v \in Vals : IF k \in built' THEN Exact(k, v)' ELSE Early(k, v)'
        BY <1>9, <2>1
    <2>3. queue' # << >> => queue # << >>
        <3> SUFFICES ASSUME queue = << >> PROVE queue' = << >>
            OBVIOUS
        <3>1. m = 0 /\ n = 0
            BY <1>1
        <3> QED BY <1>3, <3>1
    <2> QED BY <1>0, <2>2, <2>3 DEF Agreement, IsWriteOnly
<1> QED BY <1>6, <1>7, <1>9, <1>10 DEF StoreInv, ExactKept

\* Every transaction that may commit keeps what the index says of the records, and
\* one that does not change the state keeps what is right of a VALUE index.
Kept(e) == StoreInv' /\ (Idempotent /\ IsWriteOnly(state) /\ e.state = None => ExactKept)

LEMMA SameStore ==
    ASSUME StoreInv, UNCHANGED <<records, index, built, state, queue>>
    PROVE  StoreInv' /\ ExactKept
<1>1. \A k \in Keys, v \in Vals : Contribution(k, v)' = Contribution(k, v)
    BY DEF Contribution
<1>2. \A k \in Keys, v \in Vals : (Exact(k, v)' <=> Exact(k, v)) /\ (Early(k, v)' <=> Early(k, v))
    BY <1>1 DEF Exact, Early
<1>3. DataTypes' /\ Pending'
    BY DEF StoreInv, DataTypes, Pending
<1>4. Agreement'
    BY <1>2 DEF StoreInv, Agreement
<1> QED BY <1>2, <1>3, <1>4 DEF StoreInv, ExactKept

LEMMA QuietCommit ==
    ASSUME StoreInv, NEW p, NEW e, Apply(p, e), Quiet(e)
    PROVE  Kept(e)
<1>1. /\ e.rec = {} /\ e.ops = << >> /\ e.built = {} /\ e.enq = << >> /\ e.deq = 0
      /\ e.state = None /\ ~e.wipe /\ ~e.forget /\ ~e.erase
    BY DEF Quiet
<1>2. DataTypes
    BY DEF StoreInv
<1>3. records' = records /\ index' = index /\ built' = built /\ state' = state
    BY <1>1, <1>2, AppliedRecords, AppliedIndex
<1>4. queue' = queue
    BY <1>1, <1>2, AppliedQueue
<1> QED BY <1>3, <1>4, SameStore DEF Kept

LEMMA ClearsCommit ==
    ASSUME StoreInv, NEW p, NEW e, Apply(p, e), Clears(e),
           \/ e.rec = {} \/ \E k \in Keys, new \in Vals \cup {None} : e.rec = {<<k, new>>},
           e.state \in {"DISABLED", "WRITE_ONLY", "WRITE_ONLY_WITH_QUEUE"},
           e.state = "WRITE_ONLY_WITH_QUEUE" => Idempotent
    PROVE  Kept(e)
<1>1. e.wipe /\ e.forget /\ e.erase /\ e.ops = << >> /\ e.enq = << >> /\ e.built = {}
    BY DEF Clears
<1>2. DataTypes /\ e.state # None
    BY DEF StoreInv, None
<1>3. index' = EmptyIndex /\ built' = {} /\ state' = e.state
    BY <1>1, <1>2, AppliedIndex
<1>4. queue' = << >>
    BY <1>1, <1>2, AppliedQueue
<1>5. records' \in [Keys -> Vals \cup {None}]
    <2>1. CASE e.rec = {}
        BY <1>2, <2>1, AppliedRecords DEF DataTypes
    <2>2. CASE \E k \in Keys, new \in Vals \cup {None} : e.rec = {<<k, new>>}
        <3>1. PICK k \in Keys, new \in Vals \cup {None} : e.rec = {<<k, new>>}
            BY <2>2
        <3>2. records' = [records EXCEPT ![k] = new]
            <4>1. WritesRecord(e, k, new)
                BY <3>1 DEF WritesRecord
            <4> QED BY <1>2, <4>1, AppliedRecords
        <3> QED BY <1>2, <3>2 DEF DataTypes
    <2> QED BY <2>1, <2>2
<1> QED BY <1>2, <1>3, <1>4, <1>5, ClearedStore DEF Kept

LEMMA SavesCommit ==
    ASSUME StoreInv, NEW p, NEW t, Apply(p, t.effect), Saves(t)
    PROVE  Kept(t.effect)
<1>1. PICK e : e = t.effect
    OBVIOUS
<1>2. PICK k \in Keys, new \in Vals \cup {None} :
        /\ e.rec = {<<k, new>>} /\ e.built = {} /\ e.deq = 0
        /\ \/ Clears(e) /\ e.state = "DISABLED"
           \/ Plain(e) /\ state = "DISABLED" /\ e.ops = << >> /\ e.enq = << >>
           \/ /\ Plain(e) /\ state = "WRITE_ONLY_WITH_QUEUE"
              /\ e.ops = << >> /\ e.enq = << <<k, records[k], new>> >>
           \/ /\ Plain(e) /\ state \in {"WRITE_ONLY", "READABLE"} /\ e.enq = << >>
              /\ e.ops = IF ~Idempotent /\ state = "WRITE_ONLY" /\ k \notin built
                         THEN << >> ELSE << <<k, records[k], new>> >>
    BY <1>1 DEF Saves
<1>3. PICK op : op = <<k, records[k], new>>
    OBVIOUS
<1>4. DataTypes /\ op \in Op /\ Apply(p, e)
    BY <1>1, <1>3, WriteOp DEF StoreInv
<1>5. records' = [records EXCEPT ![k] = new]
    <2>1. WritesRecord(e, k, new)
        BY <1>2 DEF WritesRecord
    <2> QED BY <1>4, <2>1, AppliedRecords
<1>6. CASE Clears(e) /\ e.state = "DISABLED"
    BY <1>1, <1>2, <1>4, <1>6, ClearsCommit
<1>7. CASE Plain(e) /\ state = "DISABLED" /\ e.ops = << >> /\ e.enq = << >>
    <2>1. index' = index /\ built' = built /\ state' = state
        BY <1>2, <1>4, <1>7, AppliedIndex DEF Plain
    <2>2. queue' = queue
        BY <1>2, <1>4, <1>7, AppliedQueue DEF Plain
    <2>3. StoreInv'
        BY <1>5, <1>7, <2>1, <2>2, SilentWrite
    <2> QED BY <1>7, <2>3 DEF Kept, IsWriteOnly
<1>8. CASE Plain(e) /\ state = "WRITE_ONLY_WITH_QUEUE" /\ e.ops = << >> /\ e.enq = <<op>>
    <2>1. index' = index /\ built' = built /\ state' = state
        BY <1>2, <1>4, <1>8, AppliedIndex DEF Plain
    <2>2. Appended(queue', queue, op)
        BY <1>2, <1>4, <1>8, AppliedQueue DEF Plain
    <2>3. StoreInv' /\ ExactKept
        BY <1>3, <1>5, <1>8, <2>1, <2>2, QueuedWrite
    <2> QED BY <1>1, <2>3 DEF Kept
<1>9. CASE /\ Plain(e) /\ state = "WRITE_ONLY" /\ e.enq = << >>
           /\ ~Idempotent /\ k \notin built /\ e.ops = << >>
    <2>1. index' = index /\ built' = built /\ state' = state
        BY <1>2, <1>4, <1>9, AppliedIndex DEF Plain
    <2>2. queue' = queue
        BY <1>2, <1>4, <1>9, AppliedQueue DEF Plain
    <2>3. StoreInv'
        BY <1>5, <1>9, <2>1, <2>2, SilentWrite
    <2> QED BY <1>9, <2>3 DEF Kept
<1>10. CASE /\ Plain(e) /\ state \in {"WRITE_ONLY", "READABLE"} /\ e.enq = << >>
            /\ Idempotent \/ state = "READABLE" \/ k \in built
            /\ e.ops = <<op>>
    <2>1. index' = UpdateAll(index, e.ops) /\ built' = built /\ state' = state
        BY <1>2, <1>4, <1>10, AppliedIndex DEF Plain
    <2>2. queue' = queue
        BY <1>2, <1>4, <1>10, AppliedQueue DEF Plain
    <2>3. index' = UpdateAll(index, <<op>>)
        BY <1>10, <2>1
    <2>4. StoreInv' /\ ExactKept
        BY <1>3, <1>5, <1>10, <2>1, <2>2, <2>3, DirectWrite
    <2> QED BY <1>1, <2>4 DEF Kept
<1> QED BY <1>2, <1>3, <1>6, <1>7, <1>8, <1>9, <1>10

LEMMA IndexesCommit ==
    ASSUME StoreInv, NEW p, NEW t, Apply(p, t.effect), Indexes(t)
    PROVE  Kept(t.effect)
<1>1. PICK e, S, ops : e = t.effect /\ S = e.built /\ ops = e.ops
    OBVIOUS
<1>2. DataTypes /\ Apply(p, e)
    BY <1>1 DEF StoreInv
<1>3. Plain(e) /\ e.rec = {} /\ e.enq = << >> /\ e.deq = 0 /\ IsWriteOnly(state)
    BY <1>1 DEF Indexes
<1>4. IndexedChunk(S, ops)
    <2>1. /\ S \subseteq Keys /\ S \cap built = {} /\ ops \in Seq(Op)
          /\ \A i, j \in 1 .. Len(ops) : ops[i][1] = ops[j][1] => i = j
        BY <1>1 DEF Indexes
    <2>2. \A i \in 1 .. Len(ops) : \E k \in S :
             records[k] # None /\ ops[i] = <<k, None, records[k]>>
        BY <1>1 DEF Indexes
    <2>3. \A k \in S : ~ScannedIn(ops, k) =>
             IF Idempotent THEN \A v \in Vals : Exact(k, v) ELSE records[k] = None
        BY <1>1 DEF Indexes
    <2> QED BY <2>1, <2>2, <2>3 DEF IndexedChunk
<1>5. index' = UpdateAll(index, ops) /\ built' = built \cup S /\ state' = state
    BY <1>1, <1>2, <1>3, AppliedIndex DEF Plain
<1>6. queue' = queue
    BY <1>2, <1>3, AppliedQueue DEF Plain
<1>7. records' = records
    BY <1>2, <1>3, AppliedRecords
<1>8. StoreInv' /\ ExactKept
    BY <1>3, <1>4, <1>5, <1>6, <1>7, ChunkCommit
<1> QED BY <1>8 DEF Kept

LEMMA DrainsCommit ==
    ASSUME StoreInv, NEW p, NEW t, Apply(p, t.effect), Drains(t)
    PROVE  Kept(t.effect)
<1>1. PICK e, n, ops : e = t.effect /\ n = e.deq /\ ops = e.ops
    OBVIOUS
<1>2. DataTypes /\ Apply(p, e) /\ queue \in Seq(Op)
    BY <1>1 DEF StoreInv, DataTypes
<1>3. /\ Plain(e) /\ e.rec = {} /\ e.enq = << >> /\ e.built = {} /\ IsWriteOnly(state)
      /\ n \in 0 .. Len(queue) /\ ops = SubSeq(queue, 1, n)
    BY <1>1 DEF Drains
<1>4. index' = UpdateAll(index, ops) /\ built' = built /\ state' = state
    BY <1>1, <1>2, <1>3, AppliedIndex DEF Plain
<1>5. Cut(queue', queue, n)
    BY <1>1, <1>2, <1>3, AppliedQueue DEF Plain
<1>6. records' = records
    BY <1>2, <1>3, AppliedRecords
<1>7. CASE Idempotent
    <2>1. StoreInv' /\ ExactKept
        BY <1>3, <1>4, <1>5, <1>6, <1>7, DrainCommit
    <2> QED BY <2>1 DEF Kept
<1>8. CASE ~Idempotent
    <2>1. queue = << >>
        BY <1>8, QueueEmpty
    <2>2. n = 0 /\ Len(queue) = 0
        BY <1>3, <2>1
    <2>3. ops = << >> /\ queue' = queue
        BY <1>3, <1>5, <2>1, <2>2 DEF Cut
    <2>4. index' = index
        BY <1>1, <1>2, <1>3, <2>3, AppliedIndex DEF Plain
    <2> QED BY <1>4, <1>6, <2>3, <2>4, SameStore DEF Kept
<1> QED BY <1>7, <1>8

LEMMA PublishesCommit ==
    ASSUME StoreInv, NEW p, NEW t, Apply(p, t.effect), Publishes(t)
    PROVE  Kept(t.effect)
<1>1. PICK e : e = t.effect
    OBVIOUS
<1>2. DataTypes /\ Agreement /\ Apply(p, e)
    BY <1>1 DEF StoreInv
<1>3. /\ e.rec = {} /\ e.ops = << >> /\ e.built = {} /\ e.state = "READABLE" /\ ~e.wipe
      /\ e.forget /\ e.erase /\ e.enq = << >>
      /\ IsWriteOnly(state) /\ built = Keys /\ queue = << >> /\ e.state # None
    BY <1>1 DEF Publishes, MarkIndexReadable, NoEffect, None
<1>4. index' = index /\ built' = {} /\ state' = "READABLE"
    BY <1>2, <1>3, AppliedIndex
<1>5. queue' = queue
    BY <1>2, <1>3, AppliedQueue
<1>6. records' = records
    BY <1>2, <1>3, AppliedRecords
<1>7. \A k \in Keys, v \in Vals : Exact(k, v)
    BY <1>2, <1>3 DEF Agreement
<1>8. \A k \in Keys, v \in Vals : Exact(k, v)'
    BY <1>4, <1>5, <1>6, <1>7 DEF Exact, Contribution
<1>9. DataTypes'
    BY <1>2, <1>4, <1>5, <1>6 DEF DataTypes
<1>10. Pending'
    BY <1>3, <1>5, NothingPendingAfter
<1>11. Agreement'
    BY <1>3, <1>4, <1>5, <1>8 DEF Agreement, IsWriteOnly
<1> QED BY <1>1, <1>3, <1>9, <1>10, <1>11 DEF Kept, StoreInv

LEMMA TidiesCommit ==
    ASSUME StoreInv, NEW p, NEW t, Apply(p, t.effect), Tidies(t)
    PROVE  Kept(t.effect)
<1>1. PICK e : e = t.effect
    OBVIOUS
<1>2. DataTypes /\ Apply(p, e)
    BY <1>1 DEF StoreInv
<1>3. /\ e.rec = {} /\ e.ops = << >> /\ e.built = {} /\ e.state = None /\ ~e.wipe
      /\ ~e.forget /\ e.erase /\ e.enq = << >> /\ state = "READABLE"
    BY <1>1 DEF Tidies, NoEffect
<1>4. index' = index /\ built' = built /\ state' = state
    BY <1>2, <1>3, AppliedIndex
<1>5. queue = << >>
    BY <1>3, QueueEmpty
<1>6. queue' = queue
    BY <1>2, <1>3, <1>5, AppliedQueue
<1>7. records' = records
    BY <1>2, <1>3, AppliedRecords
<1> QED BY <1>4, <1>6, <1>7, SameStore DEF Kept

\* A transaction whose belief holds, or a MarkIndexDisabled.
Sound(t) ==
    \/ Quiet(t.effect) \/ Saves(t) \/ Indexes(t) \/ Drains(t) \/ Restarts(t)
    \/ Publishes(t) \/ Tidies(t) \/ t.effect = Disabling

LEMMA DataCommit ==
    ASSUME StoreInv, NEW p, NEW t, Apply(p, t.effect), Sound(t)
    PROVE  Kept(t.effect)
<1>1. CASE Restarts(t)
    <2>1. /\ Clears(t.effect) /\ t.effect.rec = {}
          /\ t.effect.state \in {"DISABLED", "WRITE_ONLY", "WRITE_ONLY_WITH_QUEUE"}
          /\ t.effect.state = "WRITE_ONLY_WITH_QUEUE" => Idempotent
        BY <1>1 DEF Restarts, IsWriteOnly
    <2> QED BY <2>1, ClearsCommit
<1>2. CASE t.effect = Disabling
    <2>1. Clears(t.effect) /\ t.effect.rec = {} /\ t.effect.state = "DISABLED"
        BY <1>2 DEF Disabling, NoEffect, Clears
    <2> QED BY <2>1, ClearsCommit
<1> QED BY <1>1, <1>2, QuietCommit, SavesCommit, IndexesCommit, DrainsCommit,
           PublishesCommit, TidiesCommit DEF Sound

-----------------------------------------------------------------------------
(* What the other transactions go on to believe. *)

\* A commit leaves alone what a transaction has read.
View(rd) ==
    /\ StateKey \in rd => state' = state
    /\ \A k \in Keys : RecKey(k) \in rd => records'[k] = records[k]
    /\ \A k \in Keys : RangeKey(k) \in rd => (k \in built' <=> k \in built)
    /\ QueueKey \in rd => queue' = queue \/ \E op \in Op : Appended(queue', queue, op)
    /\ QueueKey \in rd /\ TailKey \in rd => queue' = queue

\* What an effect does to the queue: it takes from its head, or adds one entry.
QueueShape(e) == e.deq \in Nat /\ (e.enq = << >> \/ \E op \in Op : e.enq = <<op>>)

LEMMA SoundShape ==
    ASSUME StoreInv, NEW t, Sound(t)
    PROVE  QueueShape(t.effect)
<1>1. PICK e : e = t.effect
    OBVIOUS
<1>2. CASE Saves(t)
    <2>1. PICK k \in Keys, new \in Vals \cup {None} :
             e.deq = 0 /\ (e.enq = << >> \/ e.enq = << <<k, records[k], new>> >>)
        BY <1>1, <1>2 DEF Saves, Clears
    <2>2. <<k, records[k], new>> \in Op
        BY WriteOp DEF StoreInv
    <2> QED BY <1>1, <2>1, <2>2 DEF QueueShape
<1>3. CASE Drains(t)
    <2>1. queue \in Seq(Op)
        BY DEF StoreInv, DataTypes
    <2>2. e.deq \in 0 .. Len(queue) /\ e.enq = << >>
        BY <1>1, <1>3 DEF Drains
    <2> QED BY <1>1, <2>1, <2>2 DEF QueueShape
<1>4. CASE Quiet(e) \/ Indexes(t) \/ Restarts(t)
    BY <1>1, <1>4 DEF Quiet, Indexes, Restarts, Clears, QueueShape
<1>5. CASE Publishes(t) \/ Tidies(t) \/ e = Disabling
    <2>1. e.deq = 0 /\ e.enq = << >>
        BY <1>1, <1>5 DEF Publishes, Tidies, MarkIndexReadable, Disabling, NoEffect
    <2> QED BY <1>1, <2>1 DEF QueueShape
<1> QED BY <1>1, <1>2, <1>3, <1>4, <1>5 DEF Sound

LEMMA DataWritten ==
    ASSUME NEW e
    PROVE  /\ \A r \in e.rec : RecKey(r[1]) \in WriteSet(e)
           /\ e.forget => \A k \in Keys : RangeKey(k) \in WriteSet(e)
           /\ ~e.forget => \A k \in e.built : RangeKey(k) \in WriteSet(e)
           /\ e.enq # << >> \/ e.erase => TailKey \in WriteSet(e)
           /\ e.deq > 0 \/ e.erase => QueueKey \in WriteSet(e)
BY DEF WriteSet, RecKeys, RangeKeys

LEMMA DataView ==
    ASSUME DataTypes, NEW p, NEW e, Apply(p, e), QueueShape(e), NEW rd, rd \cap WriteSet(e) = {}
    PROVE  View(rd) /\ (StateKey \in rd => e.state = None)
<1>1. StateKey \in rd => state' = state /\ e.state = None
    BY Written, ViewKept
<1>2. ASSUME NEW k \in Keys, RecKey(k) \in rd PROVE records'[k] = records[k]
    <2>1. ~\E r \in e.rec : r[1] = k
        BY <1>2, DataWritten
    <2> QED BY <2>1 DEF Apply
<1>3. ASSUME NEW k \in Keys, RangeKey(k) \in rd PROVE k \in built' <=> k \in built
    <2>1. ~e.forget /\ k \notin e.built
        BY <1>3, DataWritten
    <2>2. built' = built \cup e.built
        BY <2>1, AppliedIndex
    <2> QED BY <2>1, <2>2
<1>4. ASSUME QueueKey \in rd
      PROVE  /\ queue' = queue \/ \E op \in Op : Appended(queue', queue, op)
             /\ TailKey \in rd => queue' = queue
    <2>1. ~(e.deq > 0) /\ ~e.erase
        BY <1>4, DataWritten
    <2>2. e.deq = 0
        BY <2>1 DEF QueueShape
    <2>3. CASE e.enq = << >>
        <3>1. queue' = queue
            BY <2>1, <2>2, <2>3, AppliedQueue
        <3> QED BY <3>1
    <2>4. CASE e.enq # << >>
        <3>1. PICK op \in Op : e.enq = <<op>>
            BY <2>4 DEF QueueShape
        <3>2. Appended(queue', queue, op)
            BY <2>1, <2>2, <3>1, AppliedQueue
        <3>3. TailKey \notin rd
            BY <2>4, DataWritten
        <3> QED BY <3>2, <3>3
    <2> QED BY <2>3, <2>4
<1> QED BY <1>1, <1>2, <1>3, <1>4 DEF View

LEMMA SavesStill ==
    ASSUME NEW t, View(t.reads), Saves(t)
    PROVE  Saves(t)'
<1>1. PICK e, rd : e = t.effect /\ rd = t.reads
    OBVIOUS
<1>2. PICK k \in Keys, new \in Vals \cup {None} :
        /\ e.rec = {<<k, new>>} /\ e.built = {} /\ e.deq = 0
        /\ {RecKey(k), StateKey} \subseteq rd
        /\ \/ Clears(e) /\ e.state = "DISABLED"
           \/ Plain(e) /\ state = "DISABLED" /\ e.ops = << >> /\ e.enq = << >>
           \/ /\ Plain(e) /\ state = "WRITE_ONLY_WITH_QUEUE"
              /\ e.ops = << >> /\ e.enq = << <<k, records[k], new>> >>
           \/ /\ Plain(e) /\ state \in {"WRITE_ONLY", "READABLE"}
              /\ e.enq = << >>
              /\ ~Idempotent /\ state = "WRITE_ONLY" => RangeKey(k) \in rd
              /\ e.ops = IF ~Idempotent /\ state = "WRITE_ONLY" /\ k \notin built
                         THEN << >> ELSE << <<k, records[k], new>> >>
    BY <1>1 DEF Saves
<1>3. /\ state' = state /\ records'[k] = records[k]
      /\ RangeKey(k) \in rd => (k \in built' <=> k \in built)
    BY <1>1, <1>2 DEF View
<1>4. \/ Clears(e) /\ e.state = "DISABLED"
      \/ Plain(e) /\ state' = "DISABLED" /\ e.ops = << >> /\ e.enq = << >>
      \/ /\ Plain(e) /\ state' = "WRITE_ONLY_WITH_QUEUE"
         /\ e.ops = << >> /\ e.enq = << <<k, records'[k], new>> >>
      \/ /\ Plain(e) /\ state' \in {"WRITE_ONLY", "READABLE"}
         /\ e.enq = << >>
         /\ ~Idempotent /\ state' = "WRITE_ONLY" => RangeKey(k) \in rd
         /\ e.ops = IF ~Idempotent /\ state' = "WRITE_ONLY" /\ k \notin built'
                    THEN << >> ELSE << <<k, records'[k], new>> >>
    BY <1>2, <1>3
<1> QED BY <1>1, <1>2, <1>4 DEF Saves, Clears, Plain

LEMMA IndexesStill ==
    ASSUME NEW t, View(t.reads), Indexes(t), Idempotent => ExactKept
    PROVE  Indexes(t)'
<1>1. PICK e, rd, S, ops : e = t.effect /\ rd = t.reads /\ S = e.built /\ ops = e.ops
    OBVIOUS
<1>2. /\ Plain(e) /\ e.rec = {} /\ e.enq = << >> /\ e.deq = 0
      /\ IsWriteOnly(state) /\ StateKey \in rd
      /\ S \subseteq Keys /\ S \cap built = {}
      /\ RangeKeys(S) \subseteq rd
      /\ ops \in Seq(Op)
      /\ \A i, j \in 1 .. Len(ops) : ops[i][1] = ops[j][1] => i = j
    BY <1>1 DEF Indexes
<1>3. \A i \in 1 .. Len(ops) : \E k \in S :
         /\ records[k] # None /\ RecKey(k) \in rd
         /\ ops[i] = <<k, None, records[k]>>
    BY <1>1 DEF Indexes
<1>4. \A k \in S : ~ScannedIn(ops, k) =>
         IF Idempotent THEN \A v \in Vals : Exact(k, v)
                       ELSE records[k] = None /\ RecKey(k) \in rd
    BY <1>1 DEF Indexes
<1>5. IsWriteOnly(state)'
    BY <1>1, <1>2 DEF View, IsWriteOnly
<1>6. S \cap built' = {}
    BY <1>1, <1>2 DEF View, RangeKeys
<1>7. \A k \in S : RecKey(k) \in rd => records'[k] = records[k]
    BY <1>1, <1>2 DEF View
<1>8. \A i \in 1 .. Len(ops) : \E k \in S :
         /\ records'[k] # None /\ RecKey(k) \in rd
         /\ ops[i] = <<k, None, records'[k]>>
    BY <1>3, <1>7
<1>9. \A k \in S : ~ScannedIn(ops, k) =>
         IF Idempotent THEN \A v \in Vals : Exact(k, v)'
                       ELSE records'[k] = None /\ RecKey(k) \in rd
    BY <1>2, <1>4, <1>7 DEF ExactKept
<1> QED BY <1>1, <1>2, <1>5, <1>6, <1>8, <1>9 DEF Indexes, Plain, ScannedIn

LEMMA DrainsStill ==
    ASSUME StoreInv, NEW t, View(t.reads), Drains(t)
    PROVE  Drains(t)'
<1>1. PICK e, rd, n : e = t.effect /\ rd = t.reads /\ n = e.deq
    OBVIOUS
<1>2. /\ Plain(e) /\ e.rec = {} /\ e.enq = << >> /\ e.built = {}
      /\ IsWriteOnly(state) /\ {StateKey, QueueKey} \subseteq rd
      /\ n \in 0 .. Len(queue) /\ e.ops = SubSeq(queue, 1, n)
    BY <1>1 DEF Drains
<1>3. IsWriteOnly(state)' /\ (queue' = queue \/ \E op \in Op : Appended(queue', queue, op))
    BY <1>1, <1>2 DEF View, IsWriteOnly
<1>4. n \in 0 .. Len(queue') /\ SubSeq(queue', 1, n) = SubSeq(queue, 1, n)
    <2>1. CASE queue' = queue
        BY <1>2, <2>1
    <2>2. CASE \E op \in Op : Appended(queue', queue, op)
        <3>1. PICK op \in Op : Appended(queue', queue, op)
            BY <2>2
        <3>2. PICK m \in Nat : m = Len(queue)
            BY DEF StoreInv, DataTypes
        <3>3. /\ Len(queue') = m + 1 /\ queue' \in Seq(Op) /\ queue \in Seq(Op)
              /\ \A i \in 1 .. m : queue'[i] = queue[i]
            BY <3>1, <3>2 DEF Appended, StoreInv, DataTypes
        <3>4. n \in 0 .. m /\ n \in 0 .. Len(queue')
            BY <1>2, <3>2, <3>3
        <3>5. SubSeq(queue', 1, n) = SubSeq(queue, 1, n)
            BY <3>2, <3>3, <3>4
        <3> QED BY <3>4, <3>5
    <2> QED BY <1>3, <2>1, <2>2
<1> QED BY <1>1, <1>2, <1>3, <1>4 DEF Drains, Plain

LEMMA PublishesStill ==
    ASSUME DataTypes', NEW t, View(t.reads), Publishes(t)
    PROVE  Publishes(t)'
<1>1. PICK e, rd : e = t.effect /\ rd = t.reads
    OBVIOUS
<1>2. /\ e = MarkIndexReadable /\ MarkReads \subseteq rd
      /\ IsWriteOnly(state) /\ built = Keys /\ queue = << >>
    BY <1>1 DEF Publishes
<1>3. StateKey \in rd /\ QueueKey \in rd /\ TailKey \in rd /\ \A k \in Keys : RangeKey(k) \in rd
    BY <1>2 DEF MarkReads, RangeKeys
<1>4. IsWriteOnly(state)' /\ queue' = << >> /\ \A k \in Keys : k \in built'
    BY <1>1, <1>2, <1>3 DEF View, IsWriteOnly
<1>5. built' = Keys
    BY <1>4 DEF DataTypes
<1> QED BY <1>1, <1>2, <1>4, <1>5 DEF Publishes

\* A transaction of which a commit leaves alone what it has read is as sound as before.
LEMMA BelievesStill ==
    ASSUME StoreInv, DataTypes', NEW t, View(t.reads),
           Idempotent /\ IsWriteOnly(state) /\ StateKey \in t.reads => ExactKept,
           \/ Saves(t) \/ Indexes(t) \/ Drains(t) \/ Restarts(t) \/ Publishes(t) \/ Tidies(t)
    PROVE  (\/ Saves(t) \/ Indexes(t) \/ Drains(t) \/ Restarts(t) \/ Publishes(t) \/ Tidies(t))'
<1>1. CASE Indexes(t)
    <2>1. IsWriteOnly(state) /\ StateKey \in t.reads
        BY <1>1 DEF Indexes
    <2> QED BY <1>1, <2>1, IndexesStill
<1>2. CASE Restarts(t)
    BY <1>2 DEF Restarts, Clears, IsWriteOnly
<1>3. CASE Tidies(t)
    BY <1>3 DEF Tidies, View
<1> QED BY <1>1, <1>2, <1>3, SavesStill, DrainsStill, PublishesStill

-----------------------------------------------------------------------------
(* The steps. *)

\* A belief is kept by a commit that leaves alone what the transaction has read, and
\* by the conflict mark of one that does not.
LEMMA BeliefAfter ==
    ASSUME StoreInv, DataTypes', NEW t, NEW x, Belief(t),
           x.effect = t.effect, x.reads = t.reads,
           ~x.conflict => /\ ~t.conflict /\ View(t.reads)
                          /\ Idempotent /\ IsWriteOnly(state) /\ StateKey \in t.reads => ExactKept
    PROVE  Belief(x)'
<1>1. CASE Quiet(t.effect)
    BY <1>1 DEF Belief, Quiet
<1>2. CASE ~Quiet(t.effect)
    <2>1. WriteSet(t.effect) # {}
        BY <1>2 DEF Belief
    <2>2. WriteSet(x.effect)' # {}
        BY <2>1 DEF WriteSet
    <2>3. ASSUME ~x.conflict
          PROVE  (\/ Saves(x) \/ Indexes(x) \/ Drains(x)
                  \/ Restarts(x) \/ Publishes(x) \/ Tidies(x))'
        <3>1. \/ Saves(t) \/ Indexes(t) \/ Drains(t) \/ Restarts(t) \/ Publishes(t) \/ Tidies(t)
            BY <1>2, <2>3 DEF Belief
        <3>2. \/ Saves(x) \/ Indexes(x) \/ Drains(x) \/ Restarts(x) \/ Publishes(x) \/ Tidies(x)
            <4>1. CASE Saves(t)
                BY <4>1 DEF Saves
            <4>2. CASE Indexes(t)
                BY <4>2 DEF Indexes
            <4>3. CASE Drains(t)
                BY <4>3 DEF Drains
            <4>4. CASE Restarts(t) \/ Publishes(t) \/ Tidies(t)
                BY <4>4 DEF Restarts, Publishes, Tidies
            <4> QED BY <3>1, <4>1, <4>2, <4>3, <4>4
        <3>3. View(x.reads) /\ (Idempotent /\ IsWriteOnly(state) /\ StateKey \in x.reads => ExactKept)
            BY <2>3
        <3> QED BY <3>2, <3>3, BelievesStill
    <2> QED BY <2>2, <2>3 DEF Belief
<1> QED BY <1>1, <1>2

\* A commit.
LEMMA CommitKeepsData ==
    ASSUME SessionInv, DataInv, NEW p, NEW t, Sound(t), Apply(p, t.effect),
           \A q \in Procs : q # p => tx'[q] = Conflicts(p, t.effect)[q],
           p \in Procs => tx'[p] = NoTx,
           \A b \in Builders : bs'[b].claimed \subseteq Keys
    PROVE  DataInv'
<1>0. Shapes /\ StoreInv /\ Beliefs /\ Claims
    BY DEF SessionInv, DataInv
<1>1. Kept(t.effect)
    BY <1>0, DataCommit
<1>2. StoreInv' /\ DataTypes' /\ DataTypes
    BY <1>0, <1>1 DEF Kept, StoreInv
<1>3. QueueShape(t.effect)
    BY <1>0, SoundShape
<1>4. NoTx.open = FALSE
    BY DEF NoTx
<1>5. ASSUME NEW q \in Procs, tx'[q].open
      PROVE  Belief(tx[q])' /\ tx[q].open /\ tx'[q].next = tx[q].next
    <2>1. q # p
        BY <1>4, <1>5
    <2>2. PICK x, y : x = tx'[q] /\ y = tx[q]
        OBVIOUS
    <2>3. /\ x.open = y.open
          /\ y.open => /\ x.effect = y.effect /\ x.reads = y.reads /\ x.next = y.next
                       /\ ~x.conflict => ~y.conflict /\ y.reads \cap WriteSet(t.effect) = {}
        BY <1>0, <2>1, <2>2, OthersConflict
    <2>4. y.open /\ Belief(y)
        BY <1>0, <1>5, <2>2, <2>3 DEF Beliefs
    <2>5. ASSUME ~x.conflict
          PROVE  /\ ~y.conflict /\ View(y.reads)
                 /\ Idempotent /\ IsWriteOnly(state) /\ StateKey \in y.reads => ExactKept
        <3>1. ~y.conflict /\ y.reads \cap WriteSet(t.effect) = {}
            BY <2>3, <2>4, <2>5
        <3>2. View(y.reads) /\ (StateKey \in y.reads => t.effect.state = None)
            BY <1>2, <1>3, <3>1, DataView
        <3> QED BY <1>1, <3>1, <3>2 DEF Kept
    <2>6. Belief(x)'
        BY <1>0, <1>2, <2>3, <2>4, <2>5, BeliefAfter
    <2> QED BY <2>2, <2>3, <2>4, <2>6
<1>6. Beliefs'
    BY <1>5 DEF Beliefs
<1>7. Claims'
    BY <1>0, <1>5 DEF Claims, Procs
<1> QED BY <1>2, <1>6, <1>7 DEF DataInv

\* A step outside the store, after which the transaction of p, if it is open, is x.
LEMMA LocalKeepsData ==
    ASSUME SessionInv, DataInv, UNCHANGED store, NEW p, NEW x,
           \A q \in Procs : q # p => tx'[q] = tx[q],
           p \in Procs => tx'[p] = x,
           p \in Procs /\ x.open => Belief(x),
           p \in Builders /\ x.open => x.next.claimed \subseteq Keys,
           \A b \in Builders : bs'[b].claimed \subseteq Keys
    PROVE  DataInv'
<1>0. StoreInv /\ Beliefs /\ Claims /\ UNCHANGED <<records, index, built, state, queue>>
    BY DEF DataInv, store
<1>1. StoreInv' /\ ExactKept
    BY <1>0, SameStore
<1>2. DataTypes'
    BY <1>1 DEF StoreInv
<1>3. ASSUME NEW y, Belief(y) PROVE Belief(y)'
    <2>1. View(y.reads)
        BY <1>0 DEF View
    <2> QED BY <1>0, <1>1, <1>2, <1>3, <2>1, BeliefAfter
<1>4. ASSUME NEW q \in Procs, tx'[q].open PROVE Belief(tx[q])'
    <2>1. PICK y : y = tx'[q]
        OBVIOUS
    <2>2. Belief(y)
        BY <1>0, <1>4, <2>1 DEF Beliefs
    <2> QED BY <1>3, <2>1, <2>2
<1>5. Beliefs'
    BY <1>4 DEF Beliefs
<1>6. Claims'
    BY <1>0 DEF Claims, Procs
<1> QED BY <1>1, <1>5, <1>6 DEF DataInv

\* A transaction begins.
LEMMA BeginKeepsData ==
    ASSUME SessionInv, DataInv, NEW p \in Procs, NEW rd, NEW e, NEW nx, Begin(p, rd, e, nx),
           NEW t, t = [open |-> TRUE, conflict |-> FALSE, reads |-> rd, effect |-> e, next |-> nx],
           Belief(t), p \in Builders => nx.claimed \subseteq Keys
    PROVE  DataInv'
<1>0. Shapes /\ Claims
    BY DEF SessionInv, DataInv
<1>1. UNCHANGED store /\ bs' = bs /\ tx' = [tx EXCEPT ![p] = t]
    BY DEF Begin
<1>2. tx'[p] = t /\ \A q \in Procs : q # p => tx'[q] = tx[q]
    BY <1>0, <1>1 DEF Shapes
<1>3. t.next = nx
    OBVIOUS
<1>4. \A b \in Builders : bs'[b].claimed \subseteq Keys
    BY <1>0, <1>1 DEF Claims
<1>5. p \in Builders => t.next.claimed \subseteq Keys
    BY <1>3
<1> QED BY <1>1, <1>2, <1>4, <1>5, LocalKeepsData

\* A session goes on without one.
LEMMA EndKeepsData ==
    ASSUME SessionInv, DataInv, NEW b \in Builders, NEW nx, End(b, nx), nx.claimed \subseteq Keys
    PROVE  DataInv'
<1>0. Shapes /\ Claims /\ Beliefs
    BY DEF SessionInv, DataInv
<1>1. UNCHANGED <<store, tx>> /\ bs' = [bs EXCEPT ![b] = nx]
    BY DEF End
<1>2. \A c \in Builders : bs'[c] = IF c = b THEN nx ELSE bs[c]
    BY <1>0, <1>1 DEF Shapes
<1>3. \A c \in Builders : bs'[c].claimed \subseteq Keys
    BY <1>0, <1>2 DEF Claims
<1>4. b \in Procs /\ \A q \in Procs : tx'[q] = tx[q]
    BY <1>1 DEF Procs
<1>5. tx[b].open => Belief(tx[b]) /\ tx[b].next.claimed \subseteq Keys
    BY <1>0, <1>4 DEF Beliefs, Claims
<1>6. PICK x : x = tx[b]
    OBVIOUS
<1> QED BY <1>1, <1>3, <1>4, <1>5, <1>6, LocalKeepsData

\* What may commit is sound.
LEMMA MayCommitSound ==
    ASSUME Beliefs, NEW p \in Procs, MayCommit(tx[p])
    PROVE  Sound(tx[p])
<1>1. Belief(tx[p])
    BY DEF Beliefs, MayCommit
<1> QED BY <1>1 DEF Belief, Sound, MayCommit

LEMMA CommitsKeepData ==
    ASSUME SessionInv, DataInv,
           \/ \E w \in Writers : CommitSave(w)
           \/ \E b \in Builders : CommitBuild(b) \/ CommitUnknown(b)
    PROVE  DataInv'
<1>0. Shapes /\ Claims /\ Beliefs
    BY DEF SessionInv, DataInv
<1>1. PICK p \in Procs : /\ MayCommit(tx[p]) /\ Apply(p, tx[p].effect)
                         /\ tx' = [Conflicts(p, tx[p].effect) EXCEPT ![p] = NoTx]
                         /\ bs' = bs \/ (p \in Builders /\ bs' = [bs EXCEPT ![p] = tx[p].next])
    BY DEF CommitSave, CommitBuild, CommitUnknown, Procs
<1>2. PICK t : t = tx[p]
    OBVIOUS
<1>3. Sound(t) /\ t.open
    BY <1>0, <1>1, <1>2, MayCommitSound DEF MayCommit
<1>4. /\ \A q \in Procs : q # p => tx'[q] = Conflicts(p, t.effect)[q]
      /\ tx'[p] = NoTx
    BY <1>0, <1>1, <1>2, AfterCommit
<1>5. \A c \in Builders : bs'[c].claimed \subseteq Keys
    <2>1. CASE bs' = bs
        BY <1>0, <2>1 DEF Claims
    <2>2. CASE p \in Builders /\ bs' = [bs EXCEPT ![p] = t.next]
        <3>1. \A c \in Builders : bs'[c] = IF c = p THEN t.next ELSE bs[c]
            BY <1>0, <2>2 DEF Shapes
        <3>2. t.next.claimed \subseteq Keys
            BY <1>0, <1>2, <1>3, <2>2 DEF Claims
        <3> QED BY <1>0, <3>1, <3>2 DEF Claims
    <2> QED BY <1>1, <1>2, <2>1, <2>2
<1> QED BY <1>1, <1>2, <1>3, <1>4, <1>5, CommitKeepsData

LEMMA OutsideKeepsData ==
    ASSUME SessionInv, DataInv, MarkIndexDisabled \/ \E b \in Builders : LateCleanup(b)
    PROVE  DataInv'
<1>0. Shapes /\ Claims /\ None \notin Procs
    BY ConstantsAssumption DEF SessionInv, DataInv, Procs
<1>1. ASSUME NEW e, Apply(None, e), tx' = Conflicts(None, e), bs' = bs,
             e = Disabling \/ Quiet(e)
      PROVE  DataInv'
    <2>1. PICK t : t = [effect |-> e]
        OBVIOUS
    <2>2. t.effect = e
        BY <2>1
    <2>3. Sound(t) /\ Apply(None, t.effect)
        BY <1>1, <2>2 DEF Sound
    <2>4. \A q \in Procs : q # None => tx'[q] = Conflicts(None, t.effect)[q]
        BY <1>1, <2>2
    <2>5. \A c \in Builders : bs'[c].claimed \subseteq Keys
        BY <1>0, <1>1 DEF Claims
    <2> QED BY <1>0, <2>3, <2>4, <2>5, CommitKeepsData
<1>2. CASE MarkIndexDisabled
    <2>1. Apply(None, Disabling) /\ tx' = Conflicts(None, Disabling) /\ bs' = bs
        BY <1>2 DEF MarkIndexDisabled
    <2> QED BY <1>1, <2>1
<1>3. CASE \E b \in Builders : LateCleanup(b)
    <2>1. PICK b \in Builders : LateCleanup(b)
        BY <1>3
    <2>2. PICK e : e = [NoEffect EXCEPT !.unbeat = {b}]
        OBVIOUS
    <2>3. Apply(None, e) /\ tx' = Conflicts(None, e) /\ bs' = bs
        BY <2>1, <2>2 DEF LateCleanup
    <2>4. Quiet(e)
        BY <2>2 DEF Quiet, NoEffect
    <2> QED BY <1>1, <2>3, <2>4
<1> QED BY <1>2, <1>3

\* The steps that end a transaction without a commit, and those of the clock.
LEMMA FaultKeepsData ==
    ASSUME SessionInv, DataInv,
           \/ Tick \/ \E p \in Procs : Retry(p)
           \/ \E b \in Builders : GiveUpCleanup(b) \/ LateCleanupRefused(b) \/ Crash(b)
    PROVE  DataInv'
<1>0. Shapes /\ Claims /\ None \notin Procs /\ None \notin Builders /\ NoTx.open = FALSE
    BY ConstantsAssumption DEF SessionInv, DataInv, Procs, NoTx
<1>1. \A c \in Builders : bs[c].claimed \subseteq Keys
    BY <1>0 DEF Claims
<1>2. CASE Tick \/ \E b \in Builders : LateCleanupRefused(b)
    <2>1. UNCHANGED <<store, tx, bs>>
        BY <1>2 DEF Tick, LateCleanupRefused
    <2>2. \A c \in Builders : bs'[c].claimed \subseteq Keys
        BY <1>1, <2>1
    <2> QED BY <1>0, <2>1, <2>2, LocalKeepsData
<1>3. CASE \E p \in Procs : Retry(p)
    <2>1. PICK p \in Procs : Retry(p)
        BY <1>3
    <2>2. UNCHANGED <<store, bs>> /\ tx' = [tx EXCEPT ![p] = NoTx]
        BY <2>1 DEF Retry
    <2>3. tx'[p] = NoTx /\ \A q \in Procs : q # p => tx'[q] = tx[q]
        BY <1>0, <2>2 DEF Shapes
    <2>4. \A c \in Builders : bs'[c].claimed \subseteq Keys
        BY <1>1, <2>2
    <2> QED BY <1>0, <2>2, <2>3, <2>4, LocalKeepsData
<1>4. CASE \E b \in Builders : GiveUpCleanup(b) \/ Crash(b)
    <2>1. PICK b \in Builders : GiveUpCleanup(b) \/ Crash(b)
        BY <1>4
    <2>2. UNCHANGED store /\ tx' = [tx EXCEPT ![b] = NoTx] /\ b \in Procs
        BY <2>1 DEF GiveUpCleanup, Crash, Procs
    <2>3. tx'[b] = NoTx /\ \A q \in Procs : q # b => tx'[q] = tx[q]
        BY <1>0, <2>2 DEF Shapes
    <2>4. \A c \in Builders : bs'[c].claimed \subseteq Keys
        <3>1. CASE GiveUpCleanup(b)
            <4>1. PICK nx : nx = AfterAttempt(b)
                OBVIOUS
            <4>2. \A c \in Builders : bs'[c] = IF c = b THEN nx ELSE bs[c]
                BY <1>0, <3>1, <4>1 DEF GiveUpCleanup, Shapes
            <4>3. nx.claimed = {}
                BY <4>1 DEF AfterAttempt, Idle
            <4> QED BY <1>1, <4>2, <4>3
        <3>2. CASE Crash(b)
            <4>1. PICK s : s = bs[b]
                OBVIOUS
            <4>2. PICK nx : nx = [s EXCEPT !.pc = "dead", !.result = None]
                OBVIOUS
            <4>3. \A c \in Builders : bs'[c] = IF c = b THEN nx ELSE bs[c]
                BY <1>0, <3>2, <4>1, <4>2 DEF Crash, Shapes, SessionShape
            <4>4. SessionShape(s) /\ s.claimed \subseteq Keys
                BY <1>0, <1>1, <4>1 DEF Shapes
            <4>5. nx.claimed = s.claimed
                BY <4>2, <4>4 DEF SessionShape
            <4> QED BY <1>1, <4>3, <4>4, <4>5
        <3> QED BY <2>1, <3>1, <3>2
    <2> QED BY <1>0, <2>2, <2>3, <2>4, LocalKeepsData
<1> QED BY <1>2, <1>3, <1>4

\* What a session has claimed, along its steps.
LEMMA EndingClaims ==
    ASSUME Shapes, NEW b \in Builders
    PROVE  /\ \A r : Ending(b, r).claimed = bs[b].claimed
           /\ \A saved : PartlyBuilt(b, saved).claimed = bs[b].claimed
           /\ UnexpectedState(b).claimed = bs[b].claimed
           /\ SessionError(b).claimed = bs[b].claimed
<1>1. PICK s : s = bs[b]
    OBVIOUS
<1>2. SessionShape(s)
    BY <1>1 DEF Shapes
<1>3. ASSUME NEW r PROVE Ending(b, r).claimed = s.claimed
    <2>1. Ending(b, r) = [s EXCEPT !.pc = "cleanup", !.result = r]
        BY <1>1 DEF Ending
    <2> QED BY <1>2, <2>1 DEF SessionShape
<1>4. [Ending(b, "retry") EXCEPT !.fallback = TRUE].claimed = s.claimed
    <2>1. Ending(b, "retry") = [s EXCEPT !.pc = "cleanup", !.result = "retry"]
        BY <1>1 DEF Ending
    <2>2. PICK x : x = Ending(b, "retry")
        OBVIOUS
    <2>3. SessionShape(x) /\ x.claimed = s.claimed
        BY <1>2, <2>1, <2>2 DEF SessionShape
    <2> QED BY <2>2, <2>3 DEF SessionShape
<1>5. \A saved : PartlyBuilt(b, saved).claimed = s.claimed
    BY <1>3, <1>4 DEF PartlyBuilt
<1>6. UnexpectedState(b).claimed = s.claimed
    BY <1>3 DEF UnexpectedState
<1>7. SessionError(b).claimed = s.claimed
    BY <1>3, <1>5, <1>6 DEF SessionError
<1> QED BY <1>1, <1>3, <1>5, <1>6, <1>7

LEMMA SessionClaims ==
    ASSUME Shapes, NEW b \in Builders
    PROVE  /\ \A pc : Then(b, pc).claimed = bs[b].claimed
           /\ \A q : SessionOf(b, q).claimed = bs[b].claimed
           /\ \A pc : [bs[b] EXCEPT !.pc = pc].claimed = bs[b].claimed
           /\ AfterAttempt(b).claimed = {}
<1>1. PICK s : s = bs[b]
    OBVIOUS
<1>2. SessionShape(s)
    BY <1>1 DEF Shapes
<1>3. ASSUME NEW pc PROVE [s EXCEPT !.pc = pc].claimed = s.claimed
    BY <1>2 DEF SessionShape
<1>4. ASSUME NEW pc PROVE [s EXCEPT !.pc = "drain", !.after = pc].claimed = s.claimed
    BY <1>2 DEF SessionShape
<1>5. ASSUME NEW pc PROVE Then(b, pc).claimed = s.claimed
    <2>1. Then(b, pc) = IF s.queued THEN [s EXCEPT !.pc = "drain", !.after = pc]
                                    ELSE [s EXCEPT !.pc = pc]
        BY <1>1 DEF Then
    <2> QED BY <1>3, <1>4, <2>1
<1>6. ASSUME NEW q PROVE SessionOf(b, q).claimed = s.claimed
    <2>1. PICK pc : SessionOf(b, q) = [s EXCEPT !.pc = pc, !.queued = q]
        BY <1>1 DEF SessionOf
    <2> QED BY <1>2, <2>1 DEF SessionShape
<1>7. AfterAttempt(b).claimed = {}
    BY DEF AfterAttempt, Idle
<1> QED BY <1>1, <1>3, <1>5, <1>6, <1>7

\* A record write begins.
LEMMA WriteBelieves ==
    ASSUME StoreInv, NEW k \in Keys, NEW new \in Vals \cup {None},
           NEW e, e = [updateOneIndex(<<k, records[k], new>>) EXCEPT !.rec = {<<k, new>>}],
           NEW t, t.effect = e, t.reads = SaveReads(k)
    PROVE  Belief(t)
<1>1. PICK op : op = <<k, records[k], new>>
    OBVIOUS
<1>2. PICK u : u = updateOneIndex(op)
    OBVIOUS
<1>3. e = [u EXCEPT !.rec = {<<k, new>>}]
    BY <1>1, <1>2
<1>4. /\ {RecKey(k), StateKey} \subseteq t.reads
      /\ ~Idempotent /\ state = "WRITE_ONLY" => RangeKey(k) \in t.reads
    BY DEF SaveReads
<1>5. state \in {"DISABLED", "WRITE_ONLY", "WRITE_ONLY_WITH_QUEUE", "READABLE"}
    BY DEF StoreInv, DataTypes
<1>6. ASSUME u \in {NoEffect, [NoEffect EXCEPT !.ops = <<op>>], [NoEffect EXCEPT !.enq = <<op>>]}
      PROVE  /\ e.rec = {<<k, new>>} /\ e.built = {} /\ e.deq = 0 /\ Plain(e)
             /\ e.ops = u.ops /\ e.enq = u.enq
    <2>1. PICK r : r = {<<k, new>>}
        OBVIOUS
    <2>2. CASE u = NoEffect
        BY <1>3, <2>1, <2>2 DEF NoEffect, Plain
    <2>3. CASE u = [NoEffect EXCEPT !.ops = <<op>>]
        BY <1>3, <2>1, <2>3 DEF NoEffect, Plain
    <2>4. CASE u = [NoEffect EXCEPT !.enq = <<op>>]
        BY <1>3, <2>1, <2>4 DEF NoEffect, Plain
    <2> QED BY <1>6, <2>2, <2>3, <2>4
<1>7. CASE state = "DISABLED"
    <2>1. u = NoEffect
        BY <1>2, <1>7 DEF updateOneIndex
    <2>2. u.ops = << >> /\ u.enq = << >>
        BY <2>1 DEF NoEffect
    <2>3. Saves(t) /\ <<k, new>> \in e.rec
        BY <1>4, <1>6, <1>7, <2>1, <2>2 DEF Saves
    <2> QED BY <2>3, DataWritten DEF Belief
<1>8. CASE state = "WRITE_ONLY_WITH_QUEUE"
    <2>1. u = Disabling \/ u = [NoEffect EXCEPT !.enq = <<op>>]
        BY <1>2, <1>8 DEF updateOneIndex, Enqueue, Queued
    <2>2. CASE u = Disabling
        <3>1. /\ e.rec = {<<k, new>>} /\ e.built = {} /\ e.deq = 0 /\ Clears(e)
              /\ e.state = "DISABLED"
            BY <1>3, <2>2 DEF Disabling, NoEffect, Clears
        <3>2. Saves(t) /\ <<k, new>> \in e.rec
            BY <1>4, <3>1 DEF Saves
        <3> QED BY <3>2, DataWritten DEF Belief
    <2>3. CASE u = [NoEffect EXCEPT !.enq = <<op>>]
        <3>1. u.ops = << >> /\ u.enq = <<op>>
            BY <2>3 DEF NoEffect
        <3>2. /\ e.rec = {<<k, new>>} /\ e.built = {} /\ e.deq = 0 /\ Plain(e)
              /\ e.ops = << >> /\ e.enq = << <<k, records[k], new>> >>
            BY <1>1, <1>6, <2>3, <3>1
        <3>3. Saves(t) /\ <<k, new>> \in e.rec
            BY <1>4, <1>8, <3>2 DEF Saves
        <3> QED BY <3>3, DataWritten DEF Belief
    <2> QED BY <2>1, <2>2, <2>3
<1>9. CASE state \in {"WRITE_ONLY", "READABLE"}
    <2>1. u = IF ~Idempotent /\ state = "WRITE_ONLY" /\ k \notin built
              THEN NoEffect ELSE [NoEffect EXCEPT !.ops = <<op>>]
        <3>1. op[1] = k
            BY <1>1
        <3> QED BY <1>2, <1>9, <3>1 DEF updateOneIndex, UpdateWhileWriteOnly
    <2>2. /\ u \in {NoEffect, [NoEffect EXCEPT !.ops = <<op>>]} /\ u.enq = << >>
          /\ u.ops = IF ~Idempotent /\ state = "WRITE_ONLY" /\ k \notin built
                     THEN << >> ELSE <<op>>
        BY <2>1 DEF NoEffect
    <2>3. Saves(t) /\ <<k, new>> \in e.rec
        BY <1>1, <1>4, <1>6, <1>9, <2>2 DEF Saves
    <2> QED BY <2>3, DataWritten DEF Belief
<1> QED BY <1>5, <1>7, <1>8, <1>9

LEMMA WriteKeepsData ==
    ASSUME SessionInv, DataInv, NEW w \in Writers, NEW k \in Keys, NEW new \in Vals \cup {None},
           Write(w, k, new)
    PROVE  DataInv'
<1>1. PICK e : e = [updateOneIndex(<<k, records[k], new>>) EXCEPT !.rec = {<<k, new>>}]
    OBVIOUS
<1>2. PICK t : t = [open |-> TRUE, conflict |-> FALSE, reads |-> SaveReads(k),
                    effect |-> e, next |-> None]
    OBVIOUS
<1>3. Begin(w, SaveReads(k), e, None) /\ w \in Procs /\ w \notin Builders
    BY <1>1, ConstantsAssumption DEF Write, Procs
<1>4. t.effect = e /\ t.reads = SaveReads(k) /\ StoreInv
    BY <1>2 DEF DataInv
<1>5. Belief(t)
    BY <1>1, <1>4, WriteBelieves
<1> QED BY <1>2, <1>3, <1>5, BeginKeepsData

\* An effect that leaves the data alone.
LEMMA QuietKeepsData ==
    ASSUME SessionInv, DataInv, NEW b \in Builders, NEW rd, NEW e, NEW nx, Begin(b, rd, e, nx),
           Quiet(e), nx.claimed \subseteq Keys
    PROVE  DataInv'
<1>1. PICK t : t = [open |-> TRUE, conflict |-> FALSE, reads |-> rd, effect |-> e, next |-> nx]
    OBVIOUS
<1>2. Belief(t)
    BY <1>1 DEF Belief
<1>3. b \in Procs
    BY DEF Procs
<1> QED BY <1>1, <1>2, <1>3, BeginKeepsData

LEMMA QuietEffects ==
    ASSUME NEW b
    PROVE  /\ Quiet(NoEffect) /\ Quiet(Beat(b)) /\ Quiet([NoEffect EXCEPT !.unbeat = {b}])
           /\ \A m : Quiet([Beat(b) EXCEPT !.stamp = m])
<1>1. Quiet(NoEffect) /\ Quiet(Beat(b)) /\ Quiet([NoEffect EXCEPT !.unbeat = {b}])
    BY DEF Quiet, NoEffect, Beat
<1>2. ASSUME NEW m PROVE Quiet([Beat(b) EXCEPT !.stamp = m])
    BY DEF Quiet, NoEffect, Beat
<1> QED BY <1>1, <1>2

\* A session in order has an index under construction.
LEMMA Validated ==
    ASSUME NEW b, validateBuildSession(b)
    PROVE  IsWriteOnly(state)
BY DEF validateBuildSession, ExpectedState, IsWriteOnly

\* A chunk begins.
LEMMA ChunkBelieves ==
    ASSUME StoreInv, NEW b \in Builders, IsWriteOnly(state),
           NEW S, S \subseteq Keys, S \cap built = {}, NEW cut,
           NEW t, t.effect = Chunk(b, S, cut), StateKey \in t.reads, RangeKeys(S) \subseteq t.reads,
           ScanReads(S, cut) \subseteq t.reads
    PROVE  Belief(t)
<1>1. PICK U, ops, rd : U = UpTo(S, cut) /\ ops = ScanOps(U) /\ rd = t.reads
    OBVIOUS
<1>2. U \subseteq S /\ U \subseteq Keys /\ U \cap built = {}
    BY <1>1 DEF UpTo
<1>3. PICK e : e = t.effect
    OBVIOUS
<1>4. /\ e.built = U /\ e.ops = ops /\ e.rec = {} /\ e.enq = << >> /\ e.deq = 0
      /\ Plain(e) /\ e.beat = {b}
    BY <1>1, <1>3 DEF Chunk, Beat, NoEffect, Plain
<1>5. Scanned(U, N, ops) /\ DataTypes /\ Agreement
    BY <1>1, <1>2, ScanOpsScanned DEF StoreInv
<1>6. \A k \in U : RangeKey(k) \in rd /\ (~Idempotent => RecKey(k) \in rd)
    BY <1>1, <1>2 DEF RangeKeys, RecKeys, ScanReads
<1>7. \A k \in Present(U) : k \in U /\ records[k] # None /\ RecKey(k) \in rd
    BY <1>1, <1>6 DEF Present, ScanReads, RecKeys
<1>8. \A i \in 1 .. Len(ops) : \E k \in U :
         records[k] # None /\ RecKey(k) \in rd /\ ops[i] = <<k, None, records[k]>>
    BY <1>5, <1>7 DEF Scanned
<1>9. ASSUME NEW k \in U, ~ScannedIn(ops, k)
      PROVE  IF Idempotent THEN \A v \in Vals : Exact(k, v)
                           ELSE records[k] = None /\ RecKey(k) \in rd
    <2>1. k \in Keys /\ k <= N /\ k \notin built
        BY <1>2, ConstantsAssumption DEF Keys
    <2>2. records[k] = None
        BY <1>5, <1>9, <2>1 DEF Scanned, Present
    <2>3. ASSUME Idempotent, NEW v \in Vals PROVE Exact(k, v)
        <3>1. Early(k, v) /\ index[k][v] \in Int /\ index[k][v] >= 0
            BY <1>5, <2>1, <2>3 DEF Agreement, DataTypes
        <3>2. Contribution(k, v) = 0
            BY <2>2, ConstantsAssumption DEF Contribution
        <3> QED BY <2>3, <3>1, <3>2 DEF Early, Exact
    <2> QED BY <1>6, <2>2, <2>3
<1>10. RangeKeys(U) \subseteq rd
    BY <1>6 DEF RangeKeys
<1>11. /\ ops \in Seq(Op) /\ \A i, j \in 1 .. Len(ops) : ops[i][1] = ops[j][1] => i = j
    BY <1>5 DEF Scanned
<1>12. Indexes(t)
    BY <1>1, <1>2, <1>3, <1>4, <1>8, <1>9, <1>10, <1>11 DEF Indexes
<1>13. BeatKey(b) \in WriteSet(t.effect)
    BY <1>3, <1>4, Written
<1> QED BY <1>12, <1>13 DEF Belief

LEMMA ChunkKeepsData ==
    ASSUME SessionInv, DataInv, NEW b \in Builders, validateBuildSession(b),
           NEW claim, claim \subseteq Keys, ~(claim \subseteq built),
           NEW S, S = FirstMissing(claim), NEW cut,
           NEW rd, StateKey \in rd, RangeKeys(claim) \subseteq rd, ScanReads(S, cut) \subseteq rd,
           NEW nx, nx.claimed \subseteq Keys, Begin(b, rd, Chunk(b, S, cut), nx)
    PROVE  DataInv'
<1>0. StoreInv /\ IsWriteOnly(state) /\ b \in Procs /\ DataTypes
    BY Validated DEF DataInv, StoreInv, Procs
<1>1. S \subseteq claim /\ S \cap built = {}
    BY <1>0, FirstMissingIsMissing
<1>2. S \subseteq Keys /\ RangeKeys(S) \subseteq rd
    BY <1>1 DEF RangeKeys
<1>3. PICK e : e = Chunk(b, S, cut)
    OBVIOUS
<1>4. PICK t : t = [open |-> TRUE, conflict |-> FALSE, reads |-> rd, effect |-> e, next |-> nx]
    OBVIOUS
<1>5. t.effect = Chunk(b, S, cut) /\ t.reads = rd
    BY <1>3, <1>4
<1>6. Belief(t)
    BY <1>0, <1>1, <1>2, <1>5, ChunkBelieves
<1>7. Begin(b, rd, e, nx)
    BY <1>3
<1> QED BY <1>0, <1>4, <1>6, <1>7, BeginKeepsData

LEMMA BuildKeepsData ==
    ASSUME SessionInv, DataInv, NEW b \in Builders, buildRange(b)
    PROVE  DataInv'
<1>0. Shapes /\ DataTypes /\ bs[b].claimed \subseteq Keys
    BY DEF SessionInv, DataInv, StoreInv, Claims
<1>1. CASE End(b, SessionError(b))
    BY <1>0, <1>1, EndingClaims, EndKeepsData
<1>2. CASE \E rd : Begin(b, rd, Beat(b), Then(b, "publish"))
    BY <1>0, <1>2, SessionClaims, QuietEffects, QuietKeepsData
<1>3. ASSUME validateBuildSession(b), built # Keys, NEW S, S = FirstMissing(Keys), NEW cut,
             Begin(b, SessionReads(b) \cup RangeKeys(Keys) \cup ScanReads(S, cut),
                   Chunk(b, S, cut),
                   Then(b, IF cut = 0 /\ N \in S THEN "publish" ELSE "build"))
      PROVE  DataInv'
    <2>1. PICK rd : rd = SessionReads(b) \cup RangeKeys(Keys) \cup ScanReads(S, cut)
        OBVIOUS
    <2>2. StateKey \in rd /\ RangeKeys(Keys) \subseteq rd /\ ScanReads(S, cut) \subseteq rd
        BY <2>1 DEF SessionReads
    <2>3. PICK nx : nx = Then(b, IF cut = 0 /\ N \in S THEN "publish" ELSE "build")
        OBVIOUS
    <2>4. nx.claimed \subseteq Keys
        BY <1>0, <2>3, SessionClaims
    <2>5. Keys \subseteq Keys /\ ~(Keys \subseteq built)
        BY <1>0, <1>3 DEF DataTypes
    <2>6. Begin(b, rd, Chunk(b, S, cut), nx)
        BY <1>3, <2>1, <2>3
    <2> QED BY <1>3, <2>2, <2>4, <2>5, <2>6, ChunkKeepsData
<1> QED BY <1>1, <1>2, <1>3 DEF buildRange

LEMMA DrainKeepsData ==
    ASSUME SessionInv, DataInv, NEW b \in Builders, drainPendingIndexWrites(b)
    PROVE  DataInv'
<1>0. Shapes /\ bs[b].claimed \subseteq Keys /\ b \in Procs
    BY DEF SessionInv, DataInv, Claims, Procs
<1>1. CASE ~validateBuildSession(b)
    <2>1. End(b, Ending(b, "failed"))
        BY <1>1 DEF drainPendingIndexWrites
    <2> QED BY <1>0, <2>1, EndingClaims, EndKeepsData
<1>2. CASE validateBuildSession(b)
    <2>1. PICK n \in 0 .. Len(queue), short \in BOOLEAN :
             Begin(b, SessionReads(b) \cup DrainReads(n, short),
                   [Beat(b) EXCEPT !.ops = Replay(n), !.deq = n],
                   IF short THEN bs[b] ELSE [bs[b] EXCEPT !.pc = bs[b].after])
        BY <1>2 DEF drainPendingIndexWrites
    <2>2. PICK rd : rd = SessionReads(b) \cup DrainReads(n, short)
        OBVIOUS
    <2>3. PICK ops : ops = SubSeq(queue, 1, n)
        OBVIOUS
    <2>4. PICK e : e = [Beat(b) EXCEPT !.ops = ops, !.deq = n]
        OBVIOUS
    <2>5. PICK nx : nx = IF short THEN bs[b] ELSE [bs[b] EXCEPT !.pc = bs[b].after]
        OBVIOUS
    <2>6. Begin(b, rd, e, nx)
        BY <2>1, <2>2, <2>3, <2>4, <2>5 DEF Replay
    <2>7. nx.claimed \subseteq Keys
        BY <1>0, <2>5, SessionClaims
    <2>8. /\ e.rec = {} /\ e.enq = << >> /\ e.built = {} /\ e.deq = n /\ e.ops = ops
          /\ Plain(e) /\ e.beat = {b}
        BY <2>4 DEF Beat, NoEffect, Plain
    <2>9. {StateKey, QueueKey} \subseteq rd /\ IsWriteOnly(state)
        BY <1>2, <2>2, Validated DEF SessionReads, DrainReads
    <2>10. PICK t : t = [open |-> TRUE, conflict |-> FALSE, reads |-> rd, effect |-> e, next |-> nx]
        OBVIOUS
    <2>11. t.effect = e /\ t.reads = rd
        BY <2>10
    <2>12. Drains(t)
        BY <2>3, <2>8, <2>9, <2>11 DEF Drains
    <2>13. BeatKey(b) \in WriteSet(t.effect)
        BY <2>8, <2>11, Written
    <2>14. Belief(t)
        BY <2>12, <2>13 DEF Belief
    <2> QED BY <1>0, <2>6, <2>7, <2>10, <2>14, BeginKeepsData
<1> QED BY <1>1, <1>2

LEMMA ClaimKeepsData ==
    ASSUME SessionInv, DataInv, NEW b \in Builders, claimNextRange(b)
    PROVE  DataInv'
<1>0. Shapes /\ bs[b].claimed \subseteq Keys
    BY DEF SessionInv, DataInv, Claims
<1>1. CASE \/ End(b, UnexpectedState(b)) \/ End(b, SessionError(b))
           \/ End(b, Ending(b, "third iteration"))
    BY <1>0, <1>1, EndingClaims, EndKeepsData
<1>2. CASE \E rd : Begin(b, rd, Beat(b), [bs[b] EXCEPT !.pc = "publish"])
    BY <1>0, <1>2, SessionClaims, QuietEffects, QuietKeepsData
<1>3. ASSUME NEW rd, NEW w,
             Begin(b, rd, NoEffect, [bs[b] EXCEPT !.pc = "fragment", !.walk = w,
                                                  !.claimed = ClaimAt(w)])
      PROVE  DataInv'
    <2>1. PICK s, c : s = bs[b] /\ c = ClaimAt(w)
        OBVIOUS
    <2>2. PICK nx : nx = [s EXCEPT !.pc = "fragment", !.walk = w, !.claimed = c]
        OBVIOUS
    <2>3. SessionShape(s)
        BY <1>0, <2>1 DEF Shapes
    <2>4. nx.claimed = c
        BY <2>2, <2>3 DEF SessionShape
    <2>5. \A F : FirstMissing(F) \subseteq F
        BY DEF FirstMissing
    <2>6. Fragment(w.cur) \subseteq Keys
        BY DEF Fragment
    <2>7. c \subseteq Keys
        BY <2>1, <2>5, <2>6 DEF ClaimAt
    <2>8. Begin(b, rd, NoEffect, nx)
        BY <1>3, <2>1, <2>2
    <2> QED BY <2>4, <2>7, <2>8, QuietEffects, QuietKeepsData
<1> QED BY <1>1, <1>2, <1>3 DEF claimNextRange

LEMMA FragmentKeepsData ==
    ASSUME SessionInv, DataInv, NEW b \in Builders, buildClaimedRange(b)
    PROVE  DataInv'
<1>0. Shapes /\ bs[b].claimed \subseteq Keys
    BY DEF SessionInv, DataInv, Claims
<1>1. PICK s : s = bs[b]
    OBVIOUS
<1>2. PICK claim : claim = s.claimed
    OBVIOUS
<1>3. PICK drop : drop = [s EXCEPT !.pc = "claim", !.claimed = {}]
    OBVIOUS
<1>4. SessionShape(s) /\ claim \subseteq Keys
    BY <1>0, <1>1, <1>2 DEF Shapes
<1>5. drop.claimed = {}
    BY <1>3, <1>4 DEF SessionShape
<1>6. CASE End(b, SessionError(b))
    BY <1>0, <1>6, EndingClaims, EndKeepsData
<1>7. CASE \E rd : Begin(b, rd, Beat(b), drop)
    BY <1>5, <1>7, QuietEffects, QuietKeepsData
<1>8. ASSUME validateBuildSession(b), ~(claim \subseteq built),
             NEW S, S = FirstMissing(claim), NEW cut, NEW nx, nx \in {drop, s},
             Begin(b, FragmentReads(b, claim) \cup ScanReads(S, cut), Chunk(b, S, cut), nx)
      PROVE  DataInv'
    <2>1. PICK rd : rd = FragmentReads(b, claim) \cup ScanReads(S, cut)
        OBVIOUS
    <2>2. StateKey \in rd /\ RangeKeys(claim) \subseteq rd /\ ScanReads(S, cut) \subseteq rd
        BY <2>1 DEF FragmentReads, SessionReads
    <2>3. nx.claimed \subseteq Keys
        BY <1>2, <1>4, <1>5, <1>8
    <2>4. Begin(b, rd, Chunk(b, S, cut), nx)
        BY <1>8, <2>1
    <2> QED BY <1>4, <1>8, <2>2, <2>3, <2>4, ChunkKeepsData
<1>9. \/ End(b, SessionError(b))
      \/ \E rd : Begin(b, rd, Beat(b), drop)
      \/ /\ validateBuildSession(b) /\ ~(claim \subseteq built)
         /\ \E cut, nx : /\ nx \in {drop, s}
                         /\ Begin(b, FragmentReads(b, claim) \cup ScanReads(FirstMissing(claim), cut),
                                  Chunk(b, FirstMissing(claim), cut), nx)
    BY <1>1, <1>2, <1>3 DEF buildClaimedRange
<1>10. CASE /\ validateBuildSession(b) /\ ~(claim \subseteq built)
            /\ \E cut, nx : /\ nx \in {drop, s}
                            /\ Begin(b, FragmentReads(b, claim)
                                           \cup ScanReads(FirstMissing(claim), cut),
                                     Chunk(b, FirstMissing(claim), cut), nx)
    <2>1. PICK S : S = FirstMissing(claim)
        OBVIOUS
    <2>2. PICK cut, nx : /\ nx \in {drop, s}
                         /\ Begin(b, FragmentReads(b, claim) \cup ScanReads(S, cut),
                                  Chunk(b, S, cut), nx)
        BY <1>10, <2>1
    <2> QED BY <1>8, <1>10, <2>1, <2>2
<1> QED BY <1>6, <1>7, <1>9, <1>10

LEMMA PrepareKeepsData ==
    ASSUME SessionInv, DataInv, NEW b \in Builders, prepareIndexingState(b)
    PROVE  DataInv'
<1>0. Shapes /\ bs[b].claimed \subseteq Keys /\ b \in Procs
    BY DEF SessionInv, DataInv, Claims, Procs
<1>1. CASE Begin(b, PrepareReads, NoEffect, Ending(b, "ok"))
    BY <1>0, <1>1, EndingClaims, QuietEffects, QuietKeepsData
<1>2. CASE \/ End(b, Ending(b, "failed"))
           \/ End(b, PartlyBuilt(b, IF stamp = None THEN "BY_RECORDS" ELSE stamp))
    BY <1>0, <1>2, EndingClaims, EndKeepsData
<1>3. CASE Begin(b, PrepareReads, FreshStart(b),
                 SessionOf(b, FreshState(b) = "WRITE_ONLY_WITH_QUEUE"))
    <2>1. PICK e, nx : e = FreshStart(b) /\ nx = SessionOf(b, FreshState(b) = "WRITE_ONLY_WITH_QUEUE")
        OBVIOUS
    <2>2. PICK t : t = [open |-> TRUE, conflict |-> FALSE, reads |-> PrepareReads,
                        effect |-> e, next |-> nx]
        OBVIOUS
    <2>3. /\ e.rec = {} /\ e.deq = 0 /\ Clears(e) /\ e.state = FreshState(b)
        BY <2>1 DEF FreshStart, Beat, NoEffect, Clears
    <2>4. IsWriteOnly(e.state) /\ (e.state = "WRITE_ONLY_WITH_QUEUE" => Idempotent) /\ e.state # None
        BY <2>3 DEF FreshState, IsWriteOnly, None
    <2>5. Restarts(t) /\ t.effect = e
        BY <2>2, <2>3, <2>4 DEF Restarts
    <2>6. Belief(t)
        BY <2>4, <2>5, Written DEF Belief
    <2>7. nx.claimed \subseteq Keys
        BY <1>0, <2>1, SessionClaims
    <2> QED BY <1>0, <1>3, <2>1, <2>2, <2>6, <2>7, BeginKeepsData
<1>4. CASE \E rd : Begin(b, rd, IF stamp = Method(b) THEN Beat(b)
                                ELSE [Beat(b) EXCEPT !.stamp = Method(b)],
                         SessionOf(b, state = "WRITE_ONLY_WITH_QUEUE"))
    <2>1. PICK e : e = IF stamp = Method(b) THEN Beat(b) ELSE [Beat(b) EXCEPT !.stamp = Method(b)]
        OBVIOUS
    <2>2. Quiet(e)
        BY <2>1, QuietEffects
    <2> QED BY <1>0, <1>4, <2>1, <2>2, SessionClaims, QuietKeepsData
<1> QED BY <1>1, <1>2, <1>3, <1>4 DEF prepareIndexingState

LEMMA PublishKeepsData ==
    ASSUME SessionInv, DataInv, NEW b \in Builders,
           publish(b) \/ markReadable(b) \/ cleanupHeartbeat(b)
    PROVE  DataInv'
<1>0. Shapes /\ bs[b].claimed \subseteq Keys /\ b \in Procs /\ StoreInv
    BY DEF SessionInv, DataInv, Claims, Procs
<1>1. CASE End(b, Then(b, "mark"))
    BY <1>0, <1>1, SessionClaims, EndKeepsData
<1>2. CASE End(b, Ending(b, "failed"))
    BY <1>0, <1>2, EndingClaims, EndKeepsData
<1>3. CASE Begin(b, CleanupReads(b), [NoEffect EXCEPT !.unbeat = {b}], AfterAttempt(b))
    BY <1>0, <1>3, SessionClaims, QuietEffects, QuietKeepsData
<1>4. PICK nx : nx = Ending(b, "ok")
    OBVIOUS
<1>5. nx.claimed \subseteq Keys
    BY <1>0, <1>4, EndingClaims
<1>6. CASE /\ state = "READABLE"
           /\ Begin(b, {StateKey}, [NoEffect EXCEPT !.erase = TRUE], nx)
    <2>1. PICK e : e = [NoEffect EXCEPT !.erase = TRUE]
        OBVIOUS
    <2>2. PICK t : t = [open |-> TRUE, conflict |-> FALSE, reads |-> {StateKey},
                        effect |-> e, next |-> nx]
        OBVIOUS
    <2>3. Tidies(t) /\ t.effect = e /\ e.erase
        BY <1>6, <2>1, <2>2 DEF Tidies, NoEffect
    <2>4. Belief(t)
        BY <2>3, Written DEF Belief
    <2> QED BY <1>0, <1>5, <1>6, <2>1, <2>2, <2>4, BeginKeepsData
<1>7. CASE /\ state # "READABLE" /\ IndexBuilt /\ queue = << >>
           /\ Begin(b, MarkReads, MarkIndexReadable, nx)
    <2>1. PICK e, rd : e = MarkIndexReadable /\ rd = MarkReads
        OBVIOUS
    <2>2. PICK t : t = [open |-> TRUE, conflict |-> FALSE, reads |-> rd, effect |-> e, next |-> nx]
        OBVIOUS
    <2>3. 1 \in Keys
        BY ConstantsAssumption DEF Keys
    <2>4. IsWriteOnly(state)
        BY <1>0, <1>7, <2>3 DEF StoreInv, DataTypes, Agreement, IndexBuilt, IsWriteOnly
    <2>5. e.state # None
        BY <2>1 DEF MarkIndexReadable, NoEffect, None
    <2>6. t.effect = e /\ t.reads = rd
        BY <2>2
    <2>7. Publishes(t)
        BY <1>7, <2>1, <2>4, <2>6 DEF Publishes, IndexBuilt
    <2>8. Belief(t)
        BY <2>5, <2>6, <2>7, Written DEF Belief
    <2> QED BY <1>0, <1>5, <1>7, <2>1, <2>2, <2>8, BeginKeepsData
<1> QED BY <1>1, <1>2, <1>3, <1>4, <1>6, <1>7 DEF publish, markReadable, cleanupHeartbeat

LEMMA StartKeepsData ==
    ASSUME SessionInv, DataInv, NEW b \in Builders, StartBuild(b) \/ AttemptFails(b)
    PROVE  DataInv'
<1>0. Shapes /\ bs[b].claimed \subseteq Keys
    BY DEF SessionInv, DataInv, Claims
<1>1. CASE AttemptFails(b)
    <2>1. End(b, Ending(b, "failed"))
        BY <1>1 DEF AttemptFails
    <2> QED BY <1>0, <2>1, EndingClaims, EndKeepsData
<1>2. CASE StartBuild(b)
    <2>1. PICK nx : nx = [Idle(bs[b].fallback, bs[b].calls + 1, None) EXCEPT !.pc = "prepare"]
        OBVIOUS
    <2>2. nx.claimed = {}
        BY <2>1 DEF Idle
    <2>3. End(b, nx)
        BY <1>2, <2>1 DEF StartBuild
    <2> QED BY <2>2, <2>3, EndKeepsData
<1> QED BY <1>1, <1>2

LEMMA DataInit == Init => DataInv
<1> SUFFICES ASSUME Init PROVE DataInv
    OBVIOUS
<1>1. /\ records \in [Keys -> Vals \cup {None}] /\ index = EmptyIndex /\ built = {}
      /\ state = "DISABLED" /\ queue = << >>
    BY ConstantsAssumption DEF Init
<1>2. index \in [Keys -> [Vals -> Int]] /\ \A k \in Keys, v \in Vals : index[k][v] >= 0
    BY <1>1 DEF EmptyIndex
<1>3. DataTypes
    <2>1. queue \in Seq(Op)
        BY <1>1
    <2> QED BY <1>1, <1>2, <2>1 DEF DataTypes
<1>4. Pending
    BY <1>1, NothingPending
<1>5. Agreement
    BY <1>1 DEF Agreement, IsWriteOnly
<1>6. \A p \in Procs : ~tx[p].open
    BY DEF Init, NoTx
<1>7. \A b \in Builders : bs[b].claimed = {}
    BY DEF Init, Idle
<1>8. Beliefs /\ Claims
    BY <1>6, <1>7 DEF Beliefs, Claims, Procs
<1> QED BY <1>3, <1>4, <1>5, <1>8 DEF DataInv, StoreInv

LEMMA DataStep == SessionInv /\ DataInv /\ [Next]_vars => DataInv'
<1> SUFFICES ASSUME SessionInv, DataInv, [Next]_vars PROVE DataInv'
    OBVIOUS
<1>1. CASE UNCHANGED vars
    <2>1. UNCHANGED <<store, tx, bs>> /\ None \notin Procs /\ None \notin Builders
        BY <1>1, ConstantsAssumption DEF vars, Procs
    <2>2. \A b \in Builders : bs'[b].claimed \subseteq Keys
        BY <2>1 DEF DataInv, Claims
    <2> QED BY <2>1, <2>2, LocalKeepsData
<1>2. CASE \/ \E w \in Writers, k \in Keys, v \in Vals : saveRecord(w, k, v)
           \/ \E w \in Writers, k \in Keys : deleteRecord(w, k)
    BY <1>2, WriteKeepsData DEF saveRecord, deleteRecord
<1>3. CASE \E w \in Writers : CommitSave(w)
    BY <1>3, CommitsKeepData
<1>4. CASE Tick \/ \E p \in Procs : Retry(p)
    BY <1>4, FaultKeepsData
<1>5. ASSUME NEW b \in Builders,
             \/ StartBuild(b) \/ Work(b) \/ CommitBuild(b) \/ CommitUnknown(b)
             \/ GiveUpCleanup(b) \/ LateCleanup(b) \/ LateCleanupRefused(b)
             \/ AttemptFails(b) \/ Crash(b)
      PROVE  DataInv'
    <2>1. CASE StartBuild(b) \/ AttemptFails(b)
        BY <2>1, StartKeepsData
    <2>2. CASE Work(b)
        BY <2>2, PrepareKeepsData, BuildKeepsData, DrainKeepsData, ClaimKeepsData,
           FragmentKeepsData, PublishKeepsData DEF Work
    <2>3. CASE CommitBuild(b) \/ CommitUnknown(b)
        BY <2>3, CommitsKeepData
    <2>4. CASE GiveUpCleanup(b) \/ LateCleanupRefused(b) \/ Crash(b)
        BY <2>4, FaultKeepsData
    <2>5. CASE LateCleanup(b)
        BY <2>5, OutsideKeepsData
    <2> QED BY <1>5, <2>1, <2>2, <2>3, <2>4, <2>5
<1>6. CASE MarkIndexDisabled
    BY <1>6, OutsideKeepsData
<1> QED BY <1>1, <1>2, <1>3, <1>4, <1>5, <1>6 DEF Next

\* What an open transaction goes on to believe of records, range set, queue and state
\* is enough for every commit to leave the index as right as it was (saveRecord,
\* buildRange, buildClaimedRange, drainPendingIndexWrites, MarkIndexReadable).
THEOREM DataInvariant == Spec => []DataInv
BY SessionInvariant, DataInit, DataStep, PTL DEF Spec

\* An index that says it is readable agrees with the records, for any number of keys,
\* values, writers and builders, VALUE or COUNT, with a queue or without, mutual or
\* not, whatever crashed, was retried or was taken over on the way.
THEOREM ReadableAgreesHolds == Spec => []ReadableAgrees
<1>1. DataInv => ReadableAgrees
    <2> SUFFICES ASSUME DataInv, state = "READABLE", NEW k \in Keys, NEW v \in Vals
                 PROVE  index[k][v] = Contribution(k, v)
        BY DEF ReadableAgrees
    <2>1. StoreInv
        BY DEF DataInv
    <2>2. ~Touched(queue, k, v)
        BY <2>1, QueueEmpty
    <2> QED BY <2>1, <2>2 DEF StoreInv, Agreement, Exact
<1> QED BY <1>1, DataInvariant, PTL

\* What the range set calls built is exactly indexed once the queue is replayed, and
\* nothing else is counted or is in the index wrongly: a build may stop after any
\* commit and be continued by another indexer.
THEOREM BuiltAgreesHolds == Spec => []BuiltAgrees
<1>1. DataInv => BuiltAgrees
    <2> SUFFICES ASSUME DataInv, IsWriteOnly(state), NEW k \in Keys, NEW v \in Vals
                 PROVE  LET x == UpdateAll(index, queue)[k][v] IN
                        /\ k \in built => x = Contribution(k, v)
                        /\ k \notin built => IF Idempotent THEN x <= Contribution(k, v) ELSE x = 0
        BY DEF BuiltAgrees
    <2>1. StoreInv /\ Pending /\ Agreement /\ index \in Index /\ queue \in Seq(Op)
        BY DEF DataInv, StoreInv, DataTypes, Index
    <2>2. PICK x : x = UpdateAll(index, queue)[k][v]
        OBVIOUS
    <2>3. CASE Touched(queue, k, v)
        <3>1. Idempotent
            BY <2>1, <2>3, QueueEmpty
        <3>2. PICK i \in 1 .. Len(queue) : Decides(i, index, queue, k, v)
            BY <2>1, <2>3, <3>1, UpdateAllSets
        <3>3. queue[i][3] = v <=> records[k] = v
            BY <2>1, <3>2 DEF Pending, Decides
        <3>4. x = Contribution(k, v) /\ Contribution(k, v) \in Int
            BY <2>2, <3>2, <3>3 DEF Decides, Contribution
        <3> QED BY <2>2, <3>1, <3>4
    <2>4. CASE ~Touched(queue, k, v)
        <3>1. x = index[k][v]
            BY <2>1, <2>2, <2>4, UpdateAllKeeps
        <3> QED BY <2>1, <2>2, <2>4, <3>1 DEF Agreement, Exact, Early
    <2> QED BY <2>3, <2>4
<1> QED BY <1>1, DataInvariant, PTL

-----------------------------------------------------------------------------
(* Success. *)

\* Nothing resets a readable index: no policy rebuilds it, nobody disables it.
NothingResets == (\A b \in Builders : IfReadable[b] = "CONTINUE") /\ "disable" \notin Faults

\* A transaction that would take an index out of its state has seen that it is not
\* readable, and one that will report success finds or makes it readable.
Guarded(t) ==
    ~t.conflict /\ t.effect.state \notin {None, "READABLE"}
        => StateKey \in t.reads /\ state # "READABLE"

Promises(t) == t.next.result = "ok" => state = "READABLE" \/ t.effect.state = "READABLE"

SuccessInv ==
    /\ \A p \in Procs : tx[p].open => Guarded(tx[p])
    /\ \A b \in Builders : tx[b].open => Promises(tx[b])
    /\ SuccessIsReadable

\* How an attempt that goes on, or ends, may end.
LEMMA EndingResults ==
    ASSUME Shapes, NEW b \in Builders
    PROVE  /\ \A r : Ending(b, r).result = r
           /\ \A saved : PartlyBuilt(b, saved).result # "ok"
           /\ UnexpectedState(b).result = "ok" => state = "READABLE"
           /\ SessionError(b).result = "ok" => state = "READABLE"
<1>1. PICK s : s = bs[b]
    OBVIOUS
<1>2. SessionShape(s)
    BY <1>1 DEF Shapes
<1>3. ASSUME NEW r PROVE Ending(b, r).result = r
    <2>1. Ending(b, r) = [s EXCEPT !.pc = "cleanup", !.result = r]
        BY <1>1 DEF Ending
    <2> QED BY <1>2, <2>1 DEF SessionShape
<1>4. [Ending(b, "retry") EXCEPT !.fallback = TRUE].result = "retry"
    <2>1. Ending(b, "retry") = [s EXCEPT !.pc = "cleanup", !.result = "retry"]
        BY <1>1 DEF Ending
    <2>2. PICK x : x = Ending(b, "retry")
        OBVIOUS
    <2>3. SessionShape(x) /\ x.result = "retry"
        BY <1>2, <2>1, <2>2 DEF SessionShape
    <2> QED BY <2>2, <2>3 DEF SessionShape
<1>5. \A saved : PartlyBuilt(b, saved).result # "ok"
    BY <1>3, <1>4 DEF PartlyBuilt
<1>6. UnexpectedState(b).result = "ok" => state = "READABLE"
    BY <1>3 DEF UnexpectedState
<1>7. SessionError(b).result = "ok" => state = "READABLE"
    BY <1>3, <1>5, <1>6 DEF SessionError
<1> QED BY <1>3, <1>5, <1>6, <1>7

LEMMA SessionResults ==
    ASSUME Shapes, NEW b \in Builders
    PROVE  /\ \A pc : Then(b, pc).result = bs[b].result
           /\ \A q : SessionOf(b, q).result = bs[b].result
           /\ \A pc : [bs[b] EXCEPT !.pc = pc].result = bs[b].result
           /\ AfterAttempt(b).result = "ok" => bs[b].result = "ok"
<1>1. PICK s : s = bs[b]
    OBVIOUS
<1>2. SessionShape(s)
    BY <1>1 DEF Shapes
<1>3. ASSUME NEW pc PROVE [s EXCEPT !.pc = pc].result = s.result
    BY <1>2 DEF SessionShape
<1>4. ASSUME NEW pc PROVE [s EXCEPT !.pc = "drain", !.after = pc].result = s.result
    BY <1>2 DEF SessionShape
<1>5. ASSUME NEW pc PROVE Then(b, pc).result = s.result
    <2>1. Then(b, pc) = IF s.queued THEN [s EXCEPT !.pc = "drain", !.after = pc]
                                    ELSE [s EXCEPT !.pc = pc]
        BY <1>1 DEF Then
    <2> QED BY <1>3, <1>4, <2>1
<1>6. ASSUME NEW q PROVE SessionOf(b, q).result = s.result
    <2>1. PICK pc : SessionOf(b, q) = [s EXCEPT !.pc = pc, !.queued = q]
        BY <1>1 DEF SessionOf
    <2> QED BY <1>2, <2>1 DEF SessionShape
<1>7. AfterAttempt(b).result = "ok" => bs[b].result = "ok"
    BY DEF AfterAttempt, Idle, None
<1> QED BY <1>1, <1>3, <1>5, <1>6, <1>7

\* A commit that leaves a readable index readable.
LEMMA CommitSucceeds ==
    ASSUME SessionInv, SuccessInv, NEW p, NEW e, Apply(p, e),
           state = "READABLE" => e.state \in {None, "READABLE"},
           \A q \in Procs : q # p => tx'[q] = Conflicts(p, e)[q],
           p \in Procs => tx'[p] = NoTx,
           \A b \in Builders : bs'[b].result = "ok" => state' = "READABLE"
    PROVE  SuccessInv'
<1>0. Shapes /\ NoTx.open = FALSE
    BY DEF SessionInv, NoTx
<1>1. state = "READABLE" => state' = "READABLE"
    BY Applied
<1>2. ASSUME NEW q \in Procs, tx'[q].open
      PROVE  Guarded(tx[q])' /\ (q \in Builders => Promises(tx[q])')
    <2>1. q # p
        BY <1>0, <1>2
    <2>2. PICK x, y : x = tx'[q] /\ y = tx[q]
        OBVIOUS
    <2>3. /\ x.open = y.open
          /\ y.open => /\ x.effect = y.effect /\ x.reads = y.reads /\ x.next = y.next
                       /\ ~x.conflict => ~y.conflict /\ y.reads \cap WriteSet(e) = {}
        BY <1>0, <2>1, <2>2, OthersConflict
    <2>4. y.open /\ Guarded(y) /\ (q \in Builders => Promises(y))
        BY <1>2, <2>2, <2>3 DEF SuccessInv
    <2>5. ~x.conflict /\ StateKey \in y.reads => state' = state
        BY <2>3, <2>4, ViewKept
    <2>6. Guarded(x)'
        BY <2>3, <2>4, <2>5 DEF Guarded
    <2>7. q \in Builders => Promises(x)'
        BY <1>1, <2>3, <2>4 DEF Promises
    <2> QED BY <2>2, <2>6, <2>7
<1>3. \A b \in Builders : b \in Procs
    BY DEF Procs
<1> QED BY <1>2, <1>3 DEF SuccessInv, SuccessIsReadable

\* A step outside the store, after which the transaction of p, if it is open, is x.
LEMMA LocalSucceeds ==
    ASSUME SuccessInv, UNCHANGED store, NEW p, NEW x,
           \A q \in Procs : q # p => tx'[q] = tx[q],
           p \in Procs => tx'[p] = x,
           p \in Procs /\ x.open => Guarded(x),
           p \in Builders /\ x.open => Promises(x),
           \A b \in Builders : bs'[b].result = "ok" => state = "READABLE"
    PROVE  SuccessInv'
<1>0. state' = state
    BY DEF store
<1>1. ASSUME NEW q \in Procs, tx'[q].open
      PROVE  Guarded(tx[q])' /\ (q \in Builders => Promises(tx[q])')
    <2>1. PICK y : y = tx'[q]
        OBVIOUS
    <2>2. Guarded(y) /\ (q \in Builders => Promises(y))
        BY <1>1, <2>1 DEF SuccessInv
    <2>3. Guarded(y)' /\ (q \in Builders => Promises(y)')
        BY <1>0, <2>2 DEF Guarded, Promises
    <2> QED BY <2>1, <2>3
<1>2. \A b \in Builders : b \in Procs
    BY DEF Procs
<1> QED BY <1>0, <1>1, <1>2 DEF SuccessInv, SuccessIsReadable

LEMMA BeginSucceeds ==
    ASSUME SessionInv, SuccessInv, NEW p \in Procs, NEW rd, NEW e, NEW nx, Begin(p, rd, e, nx),
           e.state \in {None, "READABLE"} \/ (StateKey \in rd /\ state # "READABLE"),
           p \in Builders /\ nx.result = "ok" => state = "READABLE" \/ e.state = "READABLE"
    PROVE  SuccessInv'
<1>0. Shapes
    BY DEF SessionInv
<1>1. PICK t : t = [open |-> TRUE, conflict |-> FALSE, reads |-> rd, effect |-> e, next |-> nx]
    OBVIOUS
<1>2. UNCHANGED store /\ bs' = bs /\ tx' = [tx EXCEPT ![p] = t]
    BY <1>1 DEF Begin
<1>3. tx'[p] = t /\ \A q \in Procs : q # p => tx'[q] = tx[q]
    BY <1>0, <1>2 DEF Shapes
<1>4. t.next = nx /\ t.effect = e /\ t.reads = rd
    BY <1>1
<1>5. Guarded(t) /\ (p \in Builders => Promises(t))
    BY <1>4 DEF Guarded, Promises
<1>6. \A b \in Builders : bs'[b].result = "ok" => state = "READABLE"
    BY <1>2 DEF SuccessInv, SuccessIsReadable
<1> QED BY <1>2, <1>3, <1>5, <1>6, LocalSucceeds

LEMMA EndSucceeds ==
    ASSUME SessionInv, SuccessInv, NEW b \in Builders, NEW nx, End(b, nx),
           nx.result = "ok" => state = "READABLE"
    PROVE  SuccessInv'
<1>0. Shapes
    BY DEF SessionInv
<1>1. UNCHANGED <<store, tx>> /\ bs' = [bs EXCEPT ![b] = nx]
    BY DEF End
<1>2. \A c \in Builders : bs'[c] = IF c = b THEN nx ELSE bs[c]
    BY <1>0, <1>1 DEF Shapes
<1>3. \A c \in Builders : bs'[c].result = "ok" => state = "READABLE"
    BY <1>2 DEF SuccessInv, SuccessIsReadable
<1>4. b \in Procs /\ \A q \in Procs : tx'[q] = tx[q]
    BY <1>1 DEF Procs
<1>5. PICK x : x = tx[b]
    OBVIOUS
<1>6. x.open => Guarded(x) /\ Promises(x)
    BY <1>4, <1>5 DEF SuccessInv
<1> QED BY <1>1, <1>3, <1>4, <1>5, <1>6, LocalSucceeds

LEMMA WriteSucceeds ==
    ASSUME SessionInv, SuccessInv, NEW w \in Writers, NEW k, NEW new, Write(w, k, new)
    PROVE  SuccessInv'
<1>1. PICK op : op = <<k, records[k], new>>
    OBVIOUS
<1>2. PICK u : u = updateOneIndex(op)
    OBVIOUS
<1>3. PICK e : e = [u EXCEPT !.rec = {<<k, new>>}]
    OBVIOUS
<1>4. Begin(w, SaveReads(k), e, None) /\ w \in Procs /\ w \notin Builders
    BY <1>1, <1>2, <1>3, ConstantsAssumption DEF Write, Procs
<1>5. \/ u = NoEffect \/ u = [NoEffect EXCEPT !.ops = <<op>>]
      \/ u = [NoEffect EXCEPT !.enq = <<op>>]
      \/ u = Disabling /\ state = "WRITE_ONLY_WITH_QUEUE"
    BY <1>2 DEF updateOneIndex, Enqueue, Queued, UpdateWhileWriteOnly
<1>6. state # "READABLE" \/ e.state = None
    <2>1. PICK r : r = {<<k, new>>}
        OBVIOUS
    <2>2. PICK q : q = <<op>>
        OBVIOUS
    <2>3. e = [u EXCEPT !.rec = r]
        BY <1>3, <2>1
    <2>4. CASE u = NoEffect
        BY <2>3, <2>4 DEF NoEffect
    <2>5. CASE u = [NoEffect EXCEPT !.ops = q]
        BY <2>3, <2>5 DEF NoEffect
    <2>6. CASE u = [NoEffect EXCEPT !.enq = q]
        BY <2>3, <2>6 DEF NoEffect
    <2> QED BY <1>5, <2>2, <2>4, <2>5, <2>6
<1>7. StateKey \in SaveReads(k)
    BY DEF SaveReads
<1>8. e.state \in {None, "READABLE"} \/ (StateKey \in SaveReads(k) /\ state # "READABLE")
    BY <1>6, <1>7
<1> QED BY <1>4, <1>8, BeginSucceeds

LEMMA PrepareSucceeds ==
    ASSUME NothingResets, SessionInv, SuccessInv, NEW b \in Builders, prepareIndexingState(b)
    PROVE  SuccessInv'
<1>0. Shapes /\ b \in Procs /\ (bs[b].result = "ok" => state = "READABLE")
    BY DEF SessionInv, Procs, SuccessInv, SuccessIsReadable
<1>1. CASE state = "READABLE" /\ Begin(b, PrepareReads, NoEffect, Ending(b, "ok"))
    <2>1. NoEffect.state = None
        BY DEF NoEffect
    <2> QED BY <1>0, <1>1, <2>1, BeginSucceeds
<1>2. CASE \/ End(b, Ending(b, "failed"))
           \/ End(b, PartlyBuilt(b, IF stamp = None THEN "BY_RECORDS" ELSE stamp))
    BY <1>0, <1>2, EndingResults, EndSucceeds
<1>3. CASE /\ DesiredAction(b) # "CONTINUE"
           /\ Begin(b, PrepareReads, FreshStart(b),
                    SessionOf(b, FreshState(b) = "WRITE_ONLY_WITH_QUEUE"))
    <2>1. state # "READABLE"
        BY <1>3 DEF NothingResets, DesiredAction, IsWriteOnly
    <2>2. StateKey \in PrepareReads
        BY DEF PrepareReads
    <2>3. PICK e, nx : e = FreshStart(b) /\ nx = SessionOf(b, FreshState(b) = "WRITE_ONLY_WITH_QUEUE")
        OBVIOUS
    <2>4. nx.result = "ok" => state = "READABLE"
        BY <1>0, <2>3, SessionResults
    <2> QED BY <1>0, <1>3, <2>1, <2>2, <2>3, <2>4, BeginSucceeds
<1>4. CASE \E rd : Begin(b, rd, IF stamp = Method(b) THEN Beat(b)
                                ELSE [Beat(b) EXCEPT !.stamp = Method(b)],
                         SessionOf(b, state = "WRITE_ONLY_WITH_QUEUE"))
    <2>1. PICK e, nx : /\ e = IF stamp = Method(b) THEN Beat(b)
                              ELSE [Beat(b) EXCEPT !.stamp = Method(b)]
                       /\ nx = SessionOf(b, state = "WRITE_ONLY_WITH_QUEUE")
        OBVIOUS
    <2>2. e.state = None
        BY <2>1 DEF Beat, NoEffect
    <2>3. nx.result = "ok" => state = "READABLE"
        BY <1>0, <2>1, SessionResults
    <2>4. PICK rd : Begin(b, rd, e, nx)
        BY <1>4, <2>1
    <2> QED BY <1>0, <2>2, <2>3, <2>4, BeginSucceeds
<1> QED BY <1>1, <1>2, <1>3, <1>4 DEF prepareIndexingState

\* A transaction of a session that leaves the state alone and the result open.
LEMMA WorkSucceeds ==
    ASSUME SessionInv, SuccessInv, NEW b \in Builders,
           \/ buildRange(b) \/ drainPendingIndexWrites(b) \/ claimNextRange(b)
           \/ buildClaimedRange(b)
    PROVE  SuccessInv'
<1>0. Shapes /\ b \in Procs /\ (bs[b].result = "ok" => state = "READABLE")
    BY DEF SessionInv, Procs, SuccessInv, SuccessIsReadable
<1>1. ASSUME NEW rd, NEW e, NEW nx, Begin(b, rd, e, nx), e.state = None,
             nx.result = bs[b].result
      PROVE  SuccessInv'
    BY <1>0, <1>1, BeginSucceeds
<1>2. PICK s : s = bs[b]
    OBVIOUS
<1>3. SessionShape(s)
    BY <1>0, <1>2 DEF Shapes
<1>4. CASE \/ End(b, SessionError(b)) \/ End(b, UnexpectedState(b))
           \/ End(b, Ending(b, "failed")) \/ End(b, Ending(b, "third iteration"))
    BY <1>0, <1>4, EndingResults, EndSucceeds
<1>5. NoEffect.state = None /\ Beat(b).state = None
    BY DEF Beat, NoEffect
<1>6. \A S, cut : Chunk(b, S, cut).state = None
    BY DEF Chunk, Beat, NoEffect
<1>7. CASE buildRange(b)
    <2>1. CASE \E rd : Begin(b, rd, Beat(b), Then(b, "publish"))
        BY <1>0, <1>1, <1>5, <2>1, SessionResults
    <2>2. CASE \E rd, S, cut, pc : Begin(b, rd, Chunk(b, S, cut), Then(b, pc))
        BY <1>0, <1>1, <1>6, <2>2, SessionResults
    <2> QED BY <1>4, <1>7, <2>1, <2>2 DEF buildRange
<1>8. CASE drainPendingIndexWrites(b)
    <2>1. CASE End(b, Ending(b, "failed"))
        BY <1>4, <2>1
    <2>2. ASSUME NEW rd, NEW ops, NEW n, NEW nx, nx \in {s, [s EXCEPT !.pc = s.after]},
                 Begin(b, rd, [Beat(b) EXCEPT !.ops = ops, !.deq = n], nx)
          PROVE  SuccessInv'
        <3>1. nx.result = s.result
            BY <1>3, <2>2 DEF SessionShape
        <3>2. PICK e : e = [Beat(b) EXCEPT !.ops = ops, !.deq = n]
            OBVIOUS
        <3>3. e.state = None
            BY <3>2 DEF Beat, NoEffect
        <3> QED BY <1>1, <1>2, <2>2, <3>1, <3>2, <3>3
    <2> QED BY <1>2, <1>8, <2>1, <2>2 DEF drainPendingIndexWrites
<1>9. CASE claimNextRange(b)
    <2>1. CASE \E rd : Begin(b, rd, Beat(b), [s EXCEPT !.pc = "publish"])
        <3>1. PICK nx : nx = [s EXCEPT !.pc = "publish"]
            OBVIOUS
        <3>2. nx.result = s.result
            BY <1>3, <3>1 DEF SessionShape
        <3> QED BY <1>1, <1>2, <1>5, <2>1, <3>1, <3>2
    <2>2. ASSUME NEW rd, NEW w, NEW c,
                 Begin(b, rd, NoEffect, [s EXCEPT !.pc = "fragment", !.walk = w, !.claimed = c])
          PROVE  SuccessInv'
        <3>1. PICK nx : nx = [s EXCEPT !.pc = "fragment", !.walk = w, !.claimed = c]
            OBVIOUS
        <3>2. nx.result = s.result
            BY <1>3, <3>1 DEF SessionShape
        <3> QED BY <1>1, <1>2, <1>5, <2>2, <3>1, <3>2
    <2> QED BY <1>2, <1>4, <1>9, <2>1, <2>2 DEF claimNextRange
<1>10. CASE buildClaimedRange(b)
    <2>1. PICK drop : drop = [s EXCEPT !.pc = "claim", !.claimed = {}]
        OBVIOUS
    <2>2. drop.result = s.result
        BY <1>3, <2>1 DEF SessionShape
    <2>3. \/ End(b, SessionError(b))
          \/ \E rd : Begin(b, rd, Beat(b), drop)
          \/ \E rd, S, cut, nx : nx \in {drop, s} /\ Begin(b, rd, Chunk(b, S, cut), nx)
        BY <1>2, <1>10, <2>1 DEF buildClaimedRange
    <2> QED BY <1>1, <1>2, <1>4, <1>5, <1>6, <2>2, <2>3
<1> QED BY <1>7, <1>8, <1>9, <1>10

LEMMA PublishSucceeds ==
    ASSUME SessionInv, SuccessInv, NEW b \in Builders,
           publish(b) \/ markReadable(b) \/ cleanupHeartbeat(b)
    PROVE  SuccessInv'
<1>0. Shapes /\ b \in Procs /\ (bs[b].result = "ok" => state = "READABLE")
    BY DEF SessionInv, Procs, SuccessInv, SuccessIsReadable
<1>1. CASE End(b, Then(b, "mark"))
    BY <1>0, <1>1, SessionResults, EndSucceeds
<1>2. CASE End(b, Ending(b, "failed"))
    BY <1>0, <1>2, EndingResults, EndSucceeds
<1>3. CASE Begin(b, CleanupReads(b), [NoEffect EXCEPT !.unbeat = {b}], AfterAttempt(b))
    <2>1. PICK e : e = [NoEffect EXCEPT !.unbeat = {b}]
        OBVIOUS
    <2>2. e.state = None
        BY <2>1 DEF NoEffect
    <2> QED BY <1>0, <1>3, <2>1, <2>2, SessionResults, BeginSucceeds
<1>4. CASE /\ state = "READABLE"
           /\ Begin(b, {StateKey}, [NoEffect EXCEPT !.erase = TRUE], Ending(b, "ok"))
    <2>1. PICK e : e = [NoEffect EXCEPT !.erase = TRUE]
        OBVIOUS
    <2>2. e.state = None
        BY <2>1 DEF NoEffect
    <2> QED BY <1>0, <1>4, <2>1, <2>2, BeginSucceeds
<1>5. CASE Begin(b, MarkReads, MarkIndexReadable, Ending(b, "ok"))
    <2>1. MarkIndexReadable.state = "READABLE"
        BY DEF MarkIndexReadable, NoEffect
    <2> QED BY <1>0, <1>5, <2>1, BeginSucceeds
<1> QED BY <1>1, <1>2, <1>3, <1>4, <1>5 DEF publish, markReadable, cleanupHeartbeat

LEMMA StartSucceeds ==
    ASSUME SessionInv, SuccessInv, NEW b \in Builders, StartBuild(b) \/ AttemptFails(b)
    PROVE  SuccessInv'
<1>0. Shapes
    BY DEF SessionInv
<1>1. CASE AttemptFails(b)
    <2>1. End(b, Ending(b, "failed"))
        BY <1>1 DEF AttemptFails
    <2> QED BY <1>0, <2>1, EndingResults, EndSucceeds
<1>2. CASE StartBuild(b)
    <2>1. PICK nx : nx = [Idle(bs[b].fallback, bs[b].calls + 1, None) EXCEPT !.pc = "prepare"]
        OBVIOUS
    <2>2. nx.result # "ok"
        BY <2>1 DEF Idle, None
    <2>3. End(b, nx)
        BY <1>2, <2>1 DEF StartBuild
    <2> QED BY <2>2, <2>3, EndSucceeds
<1> QED BY <1>1, <1>2

LEMMA CommitsSucceed ==
    ASSUME SessionInv, SuccessInv,
           \/ \E w \in Writers : CommitSave(w)
           \/ \E b \in Builders : CommitBuild(b) \/ CommitUnknown(b)
    PROVE  SuccessInv'
<1>0. Shapes
    BY DEF SessionInv
<1>1. PICK p \in Procs : /\ MayCommit(tx[p]) /\ Apply(p, tx[p].effect)
                         /\ tx' = [Conflicts(p, tx[p].effect) EXCEPT ![p] = NoTx]
                         /\ bs' = bs \/ (p \in Builders /\ bs' = [bs EXCEPT ![p] = tx[p].next])
    BY DEF CommitSave, CommitBuild, CommitUnknown, Procs
<1>2. PICK t : t = tx[p]
    OBVIOUS
<1>3. t.open /\ Guarded(t) /\ (p \in Builders => Promises(t))
    BY <1>1, <1>2 DEF MayCommit, SuccessInv
<1>4. ASSUME state = "READABLE" PROVE t.effect.state \in {None, "READABLE"}
    <2> SUFFICES ASSUME t.effect.state \notin {None, "READABLE"} PROVE FALSE
        OBVIOUS
    <2>1. WriteSet(t.effect) # {}
        BY Written
    <2>2. ~t.conflict
        BY <1>1, <1>2, <2>1, NoConflict
    <2> QED BY <1>3, <1>4, <2>2 DEF Guarded
<1>5. /\ \A q \in Procs : q # p => tx'[q] = Conflicts(p, t.effect)[q]
      /\ tx'[p] = NoTx
    BY <1>0, <1>1, <1>2, AfterCommit
<1>6. /\ state = "READABLE" => state' = "READABLE"
      /\ t.effect.state = "READABLE" => state' = "READABLE"
    <2>1. Apply(p, t.effect) /\ "READABLE" # None
        BY <1>1, <1>2 DEF None
    <2> QED BY <1>4, <2>1, Applied
<1>7. ASSUME NEW c \in Builders, bs'[c].result = "ok" PROVE state' = "READABLE"
    <2>1. \A a \in Builders : bs[a].result = "ok" => state = "READABLE"
        BY DEF SuccessInv, SuccessIsReadable
    <2>2. CASE bs' = bs
        BY <1>6, <1>7, <2>1, <2>2
    <2>3. CASE p \in Builders /\ bs' = [bs EXCEPT ![p] = t.next]
        <3>1. bs'[c] = IF c = p THEN t.next ELSE bs[c]
            BY <1>0, <2>3 DEF Shapes
        <3>2. t.next.result = "ok" => state = "READABLE" \/ t.effect.state = "READABLE"
            BY <1>3, <2>3 DEF Promises
        <3> QED BY <1>6, <1>7, <2>1, <3>1, <3>2
    <2> QED BY <1>1, <1>2, <2>2, <2>3
<1> QED BY <1>1, <1>2, <1>4, <1>5, <1>7, CommitSucceeds

\* A cleanup that lands late, the clock, and the steps that give a transaction up.
LEMMA FaultSucceeds ==
    ASSUME SessionInv, SuccessInv,
           \/ Tick \/ \E p \in Procs : Retry(p)
           \/ \E b \in Builders : GiveUpCleanup(b) \/ LateCleanupRefused(b) \/ Crash(b)
                                  \/ LateCleanup(b)
    PROVE  SuccessInv'
<1>0. Shapes /\ None \notin Procs /\ None \notin Builders /\ NoTx.open = FALSE
    BY ConstantsAssumption DEF SessionInv, Procs, NoTx
<1>1. \A c \in Builders : bs[c].result = "ok" => state = "READABLE"
    BY DEF SuccessInv, SuccessIsReadable
<1>2. CASE Tick \/ \E b \in Builders : LateCleanupRefused(b)
    <2>1. UNCHANGED <<store, tx, bs>>
        BY <1>2 DEF Tick, LateCleanupRefused
    <2>2. \A c \in Builders : bs'[c].result = "ok" => state = "READABLE"
        BY <1>1, <2>1
    <2> QED BY <1>0, <2>1, <2>2, LocalSucceeds
<1>3. CASE \E p \in Procs : Retry(p)
    <2>1. PICK p \in Procs : Retry(p)
        BY <1>3
    <2>2. UNCHANGED <<store, bs>> /\ tx' = [tx EXCEPT ![p] = NoTx]
        BY <2>1 DEF Retry
    <2>3. tx'[p] = NoTx /\ \A q \in Procs : q # p => tx'[q] = tx[q]
        BY <1>0, <2>2 DEF Shapes
    <2>4. \A c \in Builders : bs'[c].result = "ok" => state = "READABLE"
        BY <1>1, <2>2
    <2> QED BY <1>0, <2>2, <2>3, <2>4, LocalSucceeds
<1>4. CASE \E b \in Builders : GiveUpCleanup(b) \/ Crash(b)
    <2>1. PICK b \in Builders : GiveUpCleanup(b) \/ Crash(b)
        BY <1>4
    <2>2. UNCHANGED store /\ tx' = [tx EXCEPT ![b] = NoTx] /\ b \in Procs
        BY <2>1 DEF GiveUpCleanup, Crash, Procs
    <2>3. tx'[b] = NoTx /\ \A q \in Procs : q # b => tx'[q] = tx[q]
        BY <1>0, <2>2 DEF Shapes
    <2>4. \A c \in Builders : bs'[c].result = "ok" => state = "READABLE"
        <3>1. CASE GiveUpCleanup(b)
            <4>1. PICK nx : nx = AfterAttempt(b)
                OBVIOUS
            <4>2. \A c \in Builders : bs'[c] = IF c = b THEN nx ELSE bs[c]
                BY <1>0, <3>1, <4>1 DEF GiveUpCleanup, Shapes
            <4>3. nx.result = "ok" => bs[b].result = "ok"
                BY <1>0, <4>1, SessionResults
            <4> QED BY <1>1, <4>2, <4>3
        <3>2. CASE Crash(b)
            <4>1. PICK s : s = bs[b]
                OBVIOUS
            <4>2. PICK nx : nx = [s EXCEPT !.pc = "dead", !.result = None]
                OBVIOUS
            <4>3. \A c \in Builders : bs'[c] = IF c = b THEN nx ELSE bs[c]
                BY <1>0, <3>2, <4>1, <4>2 DEF Crash, Shapes, SessionShape
            <4>4. SessionShape(s)
                BY <1>0, <4>1 DEF Shapes
            <4>5. nx.result = None /\ None # "ok"
                BY <4>2, <4>4 DEF SessionShape, None
            <4> QED BY <1>1, <4>3, <4>5
        <3> QED BY <2>1, <3>1, <3>2
    <2> QED BY <1>0, <2>2, <2>3, <2>4, LocalSucceeds
<1>5. CASE \E b \in Builders : LateCleanup(b)
    <2>1. PICK b \in Builders : LateCleanup(b)
        BY <1>5
    <2>2. PICK e : e = [NoEffect EXCEPT !.unbeat = {b}]
        OBVIOUS
    <2>3. Apply(None, e) /\ tx' = Conflicts(None, e) /\ bs' = bs
        BY <2>1, <2>2 DEF LateCleanup
    <2>4. e.state = None
        BY <2>2 DEF NoEffect
    <2>5. state' = state
        BY <2>3, <2>4, Applied
    <2>6. \A c \in Builders : bs'[c].result = "ok" => state' = "READABLE"
        BY <1>1, <2>3, <2>5
    <2> QED BY <1>0, <2>3, <2>4, <2>6, CommitSucceeds
<1> QED BY <1>2, <1>3, <1>4, <1>5

LEMMA SuccessInit == Init => SuccessInv
<1> SUFFICES ASSUME Init PROVE SuccessInv
    OBVIOUS
<1>1. \A p \in Procs : ~tx[p].open
    BY DEF Init, NoTx
<1>2. \A b \in Builders : bs[b].result # "ok" /\ b \in Procs
    BY DEF Init, Idle, None, Procs
<1> QED BY <1>1, <1>2 DEF SuccessInv, SuccessIsReadable

LEMMA SuccessStep == NothingResets /\ SessionInv /\ SuccessInv /\ [Next]_vars => SuccessInv'
<1> SUFFICES ASSUME NothingResets, SessionInv, SuccessInv, [Next]_vars PROVE SuccessInv'
    OBVIOUS
<1>1. CASE UNCHANGED vars
    <2>1. UNCHANGED <<store, tx, bs>> /\ None \notin Procs /\ None \notin Builders
        BY <1>1, ConstantsAssumption DEF vars, Procs
    <2>2. \A b \in Builders : bs'[b].result = "ok" => state = "READABLE"
        BY <2>1 DEF SuccessInv, SuccessIsReadable
    <2> QED BY <2>1, <2>2, LocalSucceeds
<1>2. CASE \/ \E w \in Writers, k \in Keys, v \in Vals : saveRecord(w, k, v)
           \/ \E w \in Writers, k \in Keys : deleteRecord(w, k)
    BY <1>2, WriteSucceeds DEF saveRecord, deleteRecord
<1>3. CASE \E w \in Writers : CommitSave(w)
    BY <1>3, CommitsSucceed
<1>4. CASE Tick \/ \E p \in Procs : Retry(p)
    BY <1>4, FaultSucceeds
<1>5. ASSUME NEW b \in Builders,
             \/ StartBuild(b) \/ Work(b) \/ CommitBuild(b) \/ CommitUnknown(b)
             \/ GiveUpCleanup(b) \/ LateCleanup(b) \/ LateCleanupRefused(b)
             \/ AttemptFails(b) \/ Crash(b)
      PROVE  SuccessInv'
    <2>1. CASE StartBuild(b) \/ AttemptFails(b)
        BY <2>1, StartSucceeds
    <2>2. CASE Work(b)
        BY <2>2, PrepareSucceeds, WorkSucceeds, PublishSucceeds DEF Work
    <2>3. CASE CommitBuild(b) \/ CommitUnknown(b)
        BY <2>3, CommitsSucceed
    <2>4. CASE GiveUpCleanup(b) \/ LateCleanupRefused(b) \/ Crash(b) \/ LateCleanup(b)
        BY <2>4, FaultSucceeds
    <2> QED BY <1>5, <2>1, <2>2, <2>3, <2>4
<1>6. ~MarkIndexDisabled
    BY DEF NothingResets, MarkIndexDisabled
<1> QED BY <1>1, <1>2, <1>3, <1>4, <1>5, <1>6 DEF Next

\* Where no policy rebuilds a readable index and nobody disables it, a call of
\* BuildIndex that reports success leaves the index readable for good: also one that
\* ends because its peers published it, one whose publication has an unknown result
\* and one that meets a rebuild or a full queue that began before the publication.
THEOREM SuccessIsReadableHolds == NothingResets => (Spec => []SuccessIsReadable)
<1> SUFFICES ASSUME NothingResets PROVE Spec => []SuccessIsReadable
    OBVIOUS
<1>1. SessionInv /\ SuccessInv /\ [Next]_vars => SuccessInv'
    BY SuccessStep
<1>2. SuccessInv => SuccessIsReadable
    BY DEF SuccessInv
<1> QED BY <1>1, <1>2, SuccessInit, SessionInvariant, PTL DEF Spec

-----------------------------------------------------------------------------
(* Types. *)

\* What the invariants above leave open of the types.
Clocked ==
    /\ now \in 0 .. MaxTime
    /\ \A b \in Builders : hb[b] <= now /\ hb[b] >= -1
    /\ late \in [Builders -> {None, "open", "conflict"}]
    /\ useQueue \in UseQueue /\ writes \in Nat

\* A commit beats, if at all, at a time that has been.
LEMMA CommitClocked ==
    ASSUME SessionInv, Clocked, NEW p, NEW e, Apply(p, e), now' = now,
           \/ e.beat = {}
           \/ e.at \in Nat /\ e.at <= now
    PROVE  \A b \in Builders : hb'[b] <= now' /\ hb'[b] >= -1
<1> TAKE b \in Builders
<1>1. hb[b] \in Int /\ now \in Nat /\ hb[b] <= now /\ hb[b] >= -1
    BY DEF SessionInv, Shapes, Clocked
<1>2. hb'[b] = e.at \/ hb'[b] = -1 \/ hb'[b] = hb[b]
    BY Applied
<1>3. e.beat = {} => hb'[b] = -1 \/ hb'[b] = hb[b]
    BY Applied
<1> QED BY <1>1, <1>2, <1>3

LEMMA LateTypes ==
    ASSUME Clocked, NEW e
    PROVE  LateConflicts(e) \in [Builders -> {None, "open", "conflict"}]
BY DEF Clocked, LateConflicts

LEMMA ClockedStep == SessionInv /\ Clocked /\ [Next]_vars => Clocked'
<1> SUFFICES ASSUME SessionInv, Clocked, [Next]_vars PROVE Clocked'
    OBVIOUS
<1>0. /\ MaxTime \in Nat /\ Shapes
      /\ late \in [Builders -> {None, "open", "conflict"}]
    BY ConstantsAssumption DEF SessionInv, Clocked
<1>1. CASE UNCHANGED <<hb, now, late, writes, useQueue>>
    BY <1>1 DEF Clocked
<1>2. CASE Tick
    <2>1. now' = now + 1 /\ now < MaxTime /\ UNCHANGED <<hb, late, writes, useQueue>>
        BY <1>2 DEF Tick, store
    <2>2. \A b \in Builders : hb[b] \in Int /\ now \in Nat
        BY <1>0 DEF Shapes
    <2>3. \A b \in Builders : hb'[b] <= now' /\ hb'[b] >= -1
        BY <2>1, <2>2 DEF Clocked
    <2>4. now' \in 0 .. MaxTime
        BY <1>0, <2>1 DEF Clocked
    <2> QED BY <2>1, <2>3, <2>4 DEF Clocked
<1>3. CASE \/ \E w \in Writers : CommitSave(w)
           \/ \E b \in Builders : CommitBuild(b) \/ CommitUnknown(b)
    <2>1. PICK p \in Procs : /\ MayCommit(tx[p]) /\ Apply(p, tx[p].effect)
                             /\ late' = LateConflicts(tx[p].effect)
                             /\ writes' \in {writes, writes + 1}
                             /\ UNCHANGED <<now, useQueue>>
        BY <1>3 DEF CommitSave, CommitBuild, CommitUnknown, Procs
    <2>2. PICK t : t = tx[p]
        OBVIOUS
    <2>3. Leaves(p, t) \/ (p \in Builders /\ Renews(p, t))
        BY <2>1, <2>2 DEF MayCommit, SessionInv, Believed, Procs
    <2>4. t.effect.beat = {} \/ (t.effect.at \in Nat /\ t.effect.at <= now)
        BY <2>3 DEF Leaves, Renews
    <2>5. \A b \in Builders : hb'[b] <= now' /\ hb'[b] >= -1
        BY <2>1, <2>2, <2>4, CommitClocked
    <2>6. late' \in [Builders -> {None, "open", "conflict"}]
        BY <2>1, LateTypes
    <2>7. writes' \in Nat
        BY <2>1 DEF Clocked
    <2> QED BY <2>1, <2>5, <2>6, <2>7 DEF Clocked
<1>4. CASE MarkIndexDisabled \/ \E b \in Builders : LateCleanup(b)
    <2>1. PICK e : /\ Apply(None, e) /\ e.beat = {} /\ writes' \in {writes, writes + 1}
                   /\ UNCHANGED <<now, useQueue>>
                   /\ \/ late' = LateConflicts(e)
                      \/ \E b \in Builders : late' = [late EXCEPT ![b] = None]
        <3>1. CASE MarkIndexDisabled
            <4>1. Disabling.beat = {}
                BY DEF Disabling, NoEffect
            <4> QED BY <3>1, <4>1 DEF MarkIndexDisabled
        <3>2. CASE \E b \in Builders : LateCleanup(b)
            <4>1. PICK b \in Builders : LateCleanup(b)
                BY <3>2
            <4>2. PICK e : e = [NoEffect EXCEPT !.unbeat = {b}]
                OBVIOUS
            <4>3. e.beat = {}
                BY <4>2 DEF NoEffect
            <4> QED BY <4>1, <4>2, <4>3 DEF LateCleanup
        <3> QED BY <1>4, <3>1, <3>2
    <2>2. \A b \in Builders : hb'[b] <= now' /\ hb'[b] >= -1
        BY <2>1, CommitClocked
    <2>3. late' \in [Builders -> {None, "open", "conflict"}]
        BY <1>0, <2>1, LateTypes
    <2>4. writes' \in Nat
        BY <2>1 DEF Clocked
    <2> QED BY <2>1, <2>2, <2>3, <2>4 DEF Clocked
<1>5. CASE \E b \in Builders : GiveUpCleanup(b) \/ LateCleanupRefused(b)
    <2>1. PICK b \in Builders, v \in {None, "open", "conflict"} :
              late' = [late EXCEPT ![b] = v] /\ UNCHANGED <<hb, now, writes, useQueue>>
        BY <1>5 DEF GiveUpCleanup, LateCleanupRefused, store
    <2>2. late' \in [Builders -> {None, "open", "conflict"}]
        BY <1>0, <2>1
    <2> QED BY <2>1, <2>2 DEF Clocked
<1>6. CASE \/ \E w \in Writers, k \in Keys, v \in Vals : saveRecord(w, k, v)
           \/ \E w \in Writers, k \in Keys : deleteRecord(w, k)
           \/ \E p \in Procs : Retry(p)
    BY <1>1, <1>6 DEF saveRecord, deleteRecord, Write, Begin, Retry, store
<1>7. CASE \E b \in Builders : StartBuild(b) \/ AttemptFails(b) \/ Crash(b)
    BY <1>1, <1>7 DEF StartBuild, AttemptFails, End, Crash, store
<1>8. CASE \E b \in Builders : Work(b)
    <2>1. UNCHANGED store /\ UNCHANGED <<now, late, writes, useQueue>>
        BY <1>8, WorkKeepsStore
    <2> QED BY <1>1, <2>1 DEF store
<1>9. CASE UNCHANGED vars
    BY <1>1, <1>9 DEF vars, store
<1> QED BY <1>2, <1>3, <1>4, <1>5, <1>6, <1>7, <1>8, <1>9 DEF Next

\* The store, the heartbeats, the clock and the cleanups on their way keep their
\* types, and no heartbeat is from the future (saveRecord, the build transactions,
\* cleanupHeartbeat).
THEOREM IndexerTypeCorrect == Spec => []TypeOK
<1>1. Init => Clocked
    BY ConstantsAssumption DEF Init, Clocked
<1>2. SessionInv /\ DataInv /\ Clocked => TypeOK
    <2> SUFFICES ASSUME SessionInv, DataInv, Clocked PROVE TypeOK
        OBVIOUS
    <2>1. DataTypes /\ Shapes
        BY DEF DataInv, StoreInv, SessionInv
    <2>2. stamp \in {None, "BY_RECORDS", "MUTUAL_BY_RECORDS"}
        BY DEF SessionInv, Stamped
    <2>3. hb \in [Builders -> Int] /\ now \in Nat
        BY <2>1 DEF Shapes
    <2>4. \A b \in Builders : hb[b] \in -1 .. now
        BY <2>3 DEF Clocked
    <2>5. hb \in [Builders -> -1 .. now]
        BY <2>3, <2>4
    <2> QED BY <2>1, <2>2, <2>5 DEF DataTypes, Clocked, TypeOK, Op
<1> QED BY <1>1, <1>2, ClockedStep, SessionInvariant, DataInvariant, PTL DEF Spec
=============================================================================
