---------------------------- MODULE TimeoutQueue ----------------------------
(***************************************************************************)
(* How a transaction's timeout is delivered, on either path that           *)
(* armTimeoutLocked takes under the transaction's lock (readErrMu).        *)
(*                                                                         *)
(* By default (design) each transaction has a timer of its own             *)
(* (timeout_design.go): inside Transact an entry from a pool, whose timer  *)
(* an arm may leave set to an earlier time, and otherwise one that the     *)
(* transaction makes.  Nothing orders these timers.                        *)
(*                                                                         *)
(* With FDBGO_NET_DESIGN=0 or legacy, or a test's hooks in the queue, the  *)
(* arms share a queue (timeout_queue.go).  The node of a transaction sits  *)
(* in the heap of a shard under a physical wake, which is only a lower     *)
(* bound: an arm that wants a later wake leaves the heap alone and takes   *)
(* no lock of the queue.  Each shard has a runtime timer; its callback     *)
(* makes itself the one drainer, or asks the present drainer to go round   *)
(* again.  The drainer collects what is due from all shards, orders it by  *)
(* the sequence numbers of the arms and delivers it in that order.         *)
(*                                                                         *)
(* One action is one critical section: of a transaction's lock, of an      *)
(* entry's, of a shard's, of the root's, or of two of them together.  A    *)
(* heap is the set of its nodes.  Transactions stay reachable: the weak    *)
(* pointers and the collector are left out.                                *)
(***************************************************************************)
EXTENDS Integers, FiniteSets, FiniteSetsExt, Functions

CONSTANTS
  Designs,          \* the paths there may be: TRUE for timers, FALSE for the queue
  Txns,             \* transactions, each with its node
  Entries,          \* bound: the designTimerEntry objects, one per transaction is enough
  None,             \* no transaction, no entry
  NShards,
  Shard,            \* Shard[t]: the shard of t's node
  TimeoutSlack, TimeoutInterval,
  MaxTime,          \* bound: the clock
  MaxArms           \* bound: arms of all transactions

ASSUME ConstantsAssumption ==
  /\ NShards \in Nat \ {0}
  /\ Shard \in [Txns -> 1 .. NShards]
  /\ TimeoutSlack \in Nat /\ TimeoutInterval \in Nat \ {0}
  /\ MaxTime \in Nat /\ MaxArms \in Nat
  /\ IsFiniteSet(Txns)
  /\ Designs \subseteq BOOLEAN
  /\ None \notin Txns /\ None \notin Entries

Shards == 1 .. NShards

VARIABLES
  design,   \* designTimeout, and the queue is an unmodified one
  now,      \* monoNow
  tx,       \* tx[t]: timeoutArmed, timeoutArm
  lk,       \* lk[t]: where an arm of t is that holds readErrMu over two sections
  tm,       \* tm[t]: transactScoped, designEntry, designTimer; what its last arm asked for
  ent,      \* ent[e]: an entry with its timer, and how late that was set
  calls,    \* the callbacks of these timers on their way to fireTimeout
  node,     \* node[t]: t's timeoutNode
  sh,       \* sh[s]: a shard with its timer and the callbacks that it started
  root,     \* the root, with the callbacks that are about to enter it
  d         \* where the drainer is, and the cohort it works on

dvars == <<tm, ent, calls>>
qvars == <<node, sh, root, d>>
vars == <<design, now, tx, lk, dvars, qvars>>

Ready == [t : Txns, arm : Nat, seq : Nat]

\* transactScoped only matters to the timers.
Init ==
  /\ design \in Designs
  /\ \E scoped \in IF design THEN SUBSET Txns ELSE {{}} :
       tm = [t \in Txns |-> [scoped |-> t \in scoped, entry |-> None, made |-> FALSE,
                            deadline |-> 0, on |-> FALSE, due |-> 0, fired |-> 0,
                            asked |-> 0, read |-> 0]]
  /\ ent = [e \in Entries |-> [tx |-> None, arm |-> 0, deadline |-> 0, nextFire |-> 0,
                               on |-> FALSE, due |-> 0, fired |-> 0, slip |-> 0]]
  /\ calls = {}
  /\ now = 0
  /\ tx = [t \in Txns |-> [armed |-> FALSE, arm |-> 0]]
  /\ lk = [t \in Txns |-> "free"]
  /\ node = [t \in Txns |-> [at |-> "none", wake |-> 0, deadline |-> 0, desiredWake |-> 0, seq |-> 0]]
  /\ sh = [s \in Shards |-> [running |-> FALSE, requested |-> FALSE, reqAt |-> 0,
                             on |-> FALSE, due |-> 0, fired |-> 0]]
  /\ root = [running |-> FALSE, again |-> FALSE, seq |-> 0, ready |-> {}, entering |-> 0]
  /\ d = [pc |-> "idle", now |-> 0, frontier |-> 0, s |-> 1, hold |-> {}]

heap(s) == {t \in Txns : Shard[t] = s /\ node[t].at = "heap"}

\* The wake at the head of the heap of shard s; there is one.
Head(s) == Min({node[t].wake : t \in heap(s)})

\* The shard q after requestLocked(wake).
requestLocked(q, wake) ==
  [q EXCEPT !.requested = TRUE, !.reqAt = wake, !.on = TRUE, !.due = wake]

pushExact(n, wake) == [n EXCEPT !.at = "heap", !.wake = wake]

\* When to look at a deadline again.
Wake(deadline) == Min({deadline + TimeoutSlack, now + TimeoutInterval})

Tick ==
  /\ now < MaxTime
  /\ now' = now + 1
  /\ UNCHANGED <<design, tx, lk, dvars, qvars>>

\* The arms there were, for the bound.
Arms == FoldFunction(LAMBDA a, n : a.arm + n, 0, tx)

\* armTimeoutLocked, up to the choice of the path; the deadline is ahead.
Arm(t, deadline) ==
  /\ lk[t] = "free" /\ Arms < MaxArms
  /\ deadline > now /\ deadline + TimeoutSlack <= MaxTime
  /\ tx' = [tx EXCEPT ![t] = [armed |-> TRUE, arm |-> @.arm + 1]]

(***************************************************************************)
(* The queue: arming (schedule), with readErrMu held throughout.           *)
(***************************************************************************)
\* The lower bound in the heap will do.
Lazy(n, wake) == n.at = "heap" /\ wake >= n.wake

schedule(t, deadline) ==
  /\ Arm(t, deadline)
  /\ node' = [node EXCEPT ![t].deadline = deadline, ![t].desiredWake = Wake(deadline)]
  /\ lk' = [lk EXCEPT ![t] = IF Lazy(node[t], Wake(deadline)) THEN "lazy" ELSE "eager"]
  /\ UNCHANGED <<now, sh, root, d>>

\* No lock of the queue: the drainer may have popped the node by now.
ScheduleLazily(t) ==
  /\ lk[t] = "lazy"
  /\ root' = [root EXCEPT !.seq = @ + 1]
  /\ node' = [node EXCEPT ![t].seq = root.seq + 1]
  /\ lk' = [lk EXCEPT ![t] = "free"]
  /\ UNCHANGED <<now, tx, sh, d>>

\* A drainer asks for the timer itself when it leaves the shard.
MustRequest(q, wake) == ~q.running /\ (~q.requested \/ wake < q.reqAt)

ScheduleEagerly(t) ==
  /\ lk[t] = "eager"
  /\ LET w == node[t].desiredWake
         s == Shard[t]
     IN /\ node' = [node EXCEPT ![t] = [pushExact(@, w) EXCEPT !.seq = root.seq + 1]]
        /\ sh' = [sh EXCEPT ![s] = IF MustRequest(@, w) THEN requestLocked(@, w) ELSE @]
  /\ root' = [root EXCEPT !.seq = @ + 1]
  /\ lk' = [lk EXCEPT ![t] = "free"]
  /\ UNCHANGED <<now, tx, d>>

\* disarmTimeoutLocked: the node stays where it is.
disarm(t) ==
  /\ lk[t] = "free" /\ tx[t].armed
  /\ tx' = [tx EXCEPT ![t].armed = FALSE]
  /\ UNCHANGED <<now, lk, node, sh, root, d>>

(***************************************************************************)
(* The timers and their callbacks.                                         *)
(***************************************************************************)
TimerFires(s) ==
  /\ sh[s].on /\ sh[s].due <= now
  /\ sh' = [sh EXCEPT ![s].on = FALSE, ![s].due = 0, ![s].fired = @ + 1]
  /\ UNCHANGED <<now, tx, lk, node, root, d>>

\* timeoutQueue.fire, which then calls root.fire.
fire(s) ==
  /\ sh[s].fired > 0
  /\ sh' = [sh EXCEPT ![s].fired = @ - 1, ![s].requested = FALSE]
  /\ root' = [root EXCEPT !.entering = @ + 1]
  /\ UNCHANGED <<now, tx, lk, node, d>>

\* One callback becomes the drainer, the others leave it a note.
EnterRoot ==
  /\ root.entering > 0
  /\ root' = [root EXCEPT !.entering = @ - 1, !.running = TRUE, !.again = @ \/ root.running]
  /\ d' = IF root.running THEN d ELSE [d EXCEPT !.pc = "now"]
  /\ UNCHANGED <<now, tx, lk, node, sh>>

(***************************************************************************)
(* The drainer: a cohort begins with the time and a frontier of arms.      *)
(***************************************************************************)
ReadNow ==
  /\ d.pc = "now"
  /\ d' = [d EXCEPT !.pc = "frontier", !.now = now]
  /\ UNCHANGED <<now, tx, lk, node, sh, root>>

ReadFrontier ==
  /\ d.pc = "frontier"
  /\ d' = [d EXCEPT !.pc = "scan", !.frontier = root.seq, !.s = 1]
  /\ UNCHANGED <<now, tx, lk, node, sh, root>>

DueIn(s) == {t \in heap(s) : node[t].wake <= d.now}

\* collect: the head of the heap leaves it, and both locks are given up.
Pop(t) ==
  /\ d.pc = "scan" /\ t \in DueIn(d.s) /\ node[t].wake = Head(d.s)
  /\ node' = [node EXCEPT ![t].at = "none"]
  /\ sh' = [sh EXCEPT ![d.s].running = TRUE]
  /\ d' = [d EXCEPT !.pc = "popped", !.hold = {t}]
  /\ UNCHANGED <<now, tx, lk, root>>

\* collect, with the transaction's lock: the arm may be a newer one.  A wake
\* that came too early for it only repairs the lower bound.
Collect(t) ==
  /\ d.pc = "popped" /\ t \in d.hold /\ lk[t] = "free"
  /\ IF node[t].at # "none" \/ ~tx[t].armed
     THEN UNCHANGED <<node, root>>
     ELSE IF node[t].desiredWake > d.now
     THEN node' = [node EXCEPT ![t] = pushExact(@, @.desiredWake)] /\ UNCHANGED root
     ELSE /\ node' = [node EXCEPT ![t].at = "ready"]
          /\ root' = [root EXCEPT !.ready = @ \cup {[t |-> t, arm |-> tx[t].arm, seq |-> node[t].seq]}]
  /\ d' = [d EXCEPT !.pc = "scan", !.hold = {}]
  /\ UNCHANGED <<now, tx, lk, sh>>

\* collect finds nothing due: on to the next shard, the cohort or the exit.
ShardDone ==
  /\ d.pc = "scan" /\ DueIn(d.s) = {}
  /\ sh' = [sh EXCEPT ![d.s].running = TRUE]
  /\ d' = IF d.s < NShards THEN [d EXCEPT !.s = @ + 1]
          ELSE [d EXCEPT !.pc = IF root.ready = {} THEN "exit" ELSE "deliver", !.s = 1]
  /\ UNCHANGED <<now, tx, lk, node, root>>

First(r) == r \in root.ready /\ \A q \in root.ready : r.seq <= q.seq

\* The ready entry is still that of the node's present arm.
Current(r) ==
  LET t == r.t IN
    /\ node[t].at = "ready" /\ node[t].seq = r.seq
    /\ tx[t].armed /\ tx[t].arm = r.arm

\* Mutant: an arm that came while the cohort was collected is delivered with it.
NeverLate(r) == FALSE

Late(r) == r.seq > d.frontier

\* Mutant: whoever is popped is fired.
NeverEarly(t) == FALSE

\* The deadline was further away than one interval.
Early(t) == d.now < node[t].deadline

\* deliverReady, one entry of the cohort.
deliverReady(r) ==
  /\ d.pc = "deliver" /\ First(r) /\ lk[r.t] = "free"
  /\ LET n == [node[r.t] EXCEPT !.at = "none"]
         again == Min({n.deadline + TimeoutSlack, d.now + TimeoutInterval})
         Left(seq, m, pc, hold) ==
           /\ root' = [root EXCEPT !.ready = @ \ {r}, !.seq = seq]
           /\ node' = [node EXCEPT ![r.t] = m]
           /\ d' = [d EXCEPT !.pc = pc, !.hold = hold]
     IN CASE ~Current(r) -> Left(root.seq, node[r.t], "deliver", {})
          [] Current(r) /\ Late(r) ->
               Left(root.seq, pushExact(n, n.desiredWake), "deliver", {})
          [] Current(r) /\ ~Late(r) /\ Early(r.t) ->
               Left(root.seq + 1,
                    [pushExact(n, again) EXCEPT !.desiredWake = again, !.seq = root.seq + 1],
                    "deliver", {})
          [] OTHER -> Left(root.seq, n, "fire", {r})
  /\ UNCHANGED <<now, tx, lk, sh>>

\* fireTimeout, called without the locks.
fireTimeout(r) ==
  /\ d.pc = "fire" /\ r \in d.hold /\ lk[r.t] = "free"
  /\ tx' = [tx EXCEPT ![r.t].armed = @ /\ tx[r.t].arm # r.arm]
  /\ d' = [d EXCEPT !.pc = "deliver", !.hold = {}]
  /\ UNCHANGED <<now, lk, node, sh, root>>

CohortDone ==
  /\ d.pc = "deliver" /\ root.ready = {}
  /\ d' = [d EXCEPT !.pc = "now"]
  /\ UNCHANGED <<now, tx, lk, node, sh, root>>

\* The drainer leaves the shards one by one.
LeaveShard ==
  /\ d.pc = "exit"
  /\ sh' = [sh EXCEPT ![d.s] =
       [(IF heap(d.s) = {} THEN @ ELSE requestLocked(@, Head(d.s))) EXCEPT !.running = FALSE]]
  /\ d' = IF d.s < NShards THEN [d EXCEPT !.s = @ + 1] ELSE [d EXCEPT !.pc = "end", !.s = 1]
  /\ UNCHANGED <<now, tx, lk, node, root>>

LeaveRoot ==
  /\ d.pc = "end"
  /\ root' = [root EXCEPT !.again = FALSE, !.running = root.again]
  /\ d' = [d EXCEPT !.pc = IF root.again THEN "now" ELSE "idle", !.now = 0, !.frontier = 0]
  /\ UNCHANGED <<now, tx, lk, node, sh>>

Drain ==
  \/ ReadNow \/ ReadFrontier \/ ShardDone \/ CohortDone \/ LeaveShard \/ LeaveRoot
  \/ \E t \in Txns : Pop(t) \/ Collect(t)
  \/ \E r \in root.ready \cup d.hold : deliverReady(r) \/ fireTimeout(r)

(***************************************************************************)
(* The transaction's own timer (armDesignTimerLocked and what follows).    *)
(* Each arm sets designArm, which therefore is timeoutArm, and an entry    *)
(* without a timer has nextFire 0.                                         *)
(***************************************************************************)
\* The entries that designTimerPool may hand out.
Pool == {e \in Entries : \A t \in Txns : tm[t].entry # e}

\* Inside Transact the timer is a pooled entry's.  The time is read before the
\* entry's lock is there.
GetEntry(t, deadline, e) ==
  /\ Arm(t, deadline)
  /\ tm[t].scoped /\ ~tm[t].made
  /\ IF tm[t].entry = None THEN e \in Pool ELSE e = tm[t].entry
  /\ tm' = [tm EXCEPT ![t] = [@ EXCEPT !.entry = e, !.asked = deadline, !.read = now]]
  /\ lk' = [lk EXCEPT ![t] = "entry"]
  /\ UNCHANGED <<now, ent, calls>>

\* Mutant: a timer that is set stays as it is, whatever the arm asks for.
ResetIfSpent(r, m) == r.nextFire <= m.read

\* The timer of the entry r does not come in time for what m asks for.
MustReset(r, m) == r.nextFire <= m.read \/ m.asked < r.nextFire

\* The entry r with its timer set for the time at, slip too late: a delay that
\* was computed before the wait for the entry's lock.
ResetEntry(r, at, slip) ==
  [r EXCEPT !.nextFire = at, !.on = TRUE, !.due = at + slip, !.slip = slip]

ArmEntry(t) ==
  /\ lk[t] = "entry"
  /\ LET m == tm[t]
         r == [ent[m.entry] EXCEPT !.tx = t, !.arm = tx[t].arm, !.deadline = m.asked]
     IN ent' = [ent EXCEPT ![m.entry] =
                  IF MustReset(ent[m.entry], m) THEN ResetEntry(r, m.asked, now - m.read) ELSE r]
  /\ lk' = [lk EXCEPT ![t] = "free"]
  /\ UNCHANGED <<now, tx, tm, calls>>

\* The transaction's timer m, made if need be and set for the time at.
SetTimer(m, at) == [m EXCEPT !.made = TRUE, !.deadline = at, !.on = TRUE, !.due = at]

armDesignWeakTimer(t, deadline) ==
  /\ Arm(t, deadline)
  /\ ~tm[t].scoped \/ tm[t].made
  /\ tm' = [tm EXCEPT ![t] = [SetTimer(@, deadline) EXCEPT !.asked = deadline]]
  /\ UNCHANGED <<now, lk, ent, calls>>

stopLocked(r) == [r EXCEPT !.tx = None, !.nextFire = 0, !.on = FALSE]

\* The entries after that of t, if it has one, was stopped.
EntryStopped(t) ==
  [e \in Entries |-> IF e = tm[t].entry THEN stopLocked(ent[e]) ELSE ent[e]]

\* disarmTimeoutLocked with stopDesignTimerLocked; nothing is set when it is not armed.
disarmDesign(t) ==
  /\ lk[t] = "free" /\ tx[t].armed
  /\ tx' = [tx EXCEPT ![t].armed = FALSE]
  /\ ent' = EntryStopped(t)
  /\ tm' = [tm EXCEPT ![t].on = FALSE]
  /\ UNCHANGED <<now, lk, calls>>

\* The timer of r has started its callback.
Started(r) == [r EXCEPT !.on = FALSE, !.fired = @ + 1]

EntryTimerFires(e) ==
  /\ ent[e].on /\ ent[e].due <= now
  /\ ent' = [ent EXCEPT ![e] = Started(@)]
  /\ UNCHANGED <<now, tx, lk, tm, calls>>

OwnTimerFires(t) ==
  /\ tm[t].on /\ tm[t].due <= now
  /\ tm' = [tm EXCEPT ![t] = Started(@)]
  /\ UNCHANGED <<now, tx, lk, ent, calls>>

\* designTimerEntry.fire, under the entry's lock: the entry may be pooled, armed
\* again, or another transaction's by now.
fireEntry(e) ==
  /\ ent[e].fired > 0
  /\ LET r == [ent[e] EXCEPT !.fired = @ - 1] IN
       \/ /\ r.tx # None /\ r.deadline > now
          /\ ent' = [ent EXCEPT ![e] = ResetEntry(r, r.deadline, 0)]
          /\ UNCHANGED calls
       \/ /\ r.tx = None \/ r.deadline <= now
          /\ ent' = [ent EXCEPT ![e] = [r EXCEPT !.nextFire = 0]]
          /\ calls' = calls \cup IF r.tx = None THEN {} ELSE {[t |-> r.tx, arm |-> r.arm]}
  /\ UNCHANGED <<now, tx, lk, tm>>

fireDesignTimeout(t) ==
  /\ tm[t].fired > 0 /\ lk[t] = "free"
  /\ LET m == [tm[t] EXCEPT !.fired = @ - 1] IN
       \/ /\ tx[t].armed /\ m.deadline > now
          /\ tm' = [tm EXCEPT ![t] = SetTimer(m, m.deadline)]
          /\ UNCHANGED calls
       \/ /\ ~tx[t].armed \/ m.deadline <= now
          /\ tm' = [tm EXCEPT ![t] = m]
          /\ calls' = calls \cup IF tx[t].armed THEN {[t |-> t, arm |-> tx[t].arm]} ELSE {}
  /\ UNCHANGED <<now, tx, lk, ent>>

\* fireTimeout of the callback c.  The cause it records disarms and stops.
DesignDeliver(c) ==
  /\ lk[c.t] = "free"
  /\ calls' = calls \ {c}
  /\ IF tx[c.t].armed /\ tx[c.t].arm = c.arm
     THEN /\ tx' = [tx EXCEPT ![c.t].armed = FALSE]
          /\ ent' = EntryStopped(c.t)
          /\ tm' = [tm EXCEPT ![c.t].on = FALSE]
     ELSE UNCHANGED <<tx, ent, tm>>
  /\ UNCHANGED <<now, lk>>

\* releaseTransactTimeout, when Transact returns: the entry goes back to the pool.
\* With operations in flight the armed timeout moves to a timer of the
\* transaction's own, otherwise it is off.
releaseTransactTimeout(t, inFlight) ==
  /\ tm[t].scoped /\ lk[t] = "free"
  /\ ent' = EntryStopped(t)
  /\ LET m == [tm[t] EXCEPT !.scoped = FALSE, !.entry = None]
         moves == tm[t].entry # None /\ tx[t].armed
     IN \/ /\ inFlight
           /\ tm' = [tm EXCEPT ![t] = IF moves THEN SetTimer(m, Max({ent[tm[t].entry].deadline, now}))
                                                ELSE m]
           /\ UNCHANGED tx
        \/ /\ ~inFlight
           /\ tm' = [tm EXCEPT ![t] = [m EXCEPT !.on = FALSE]]
           /\ tx' = [tx EXCEPT ![t].armed = FALSE]
  /\ UNCHANGED <<now, lk, calls>>

(***************************************************************************)
(* The specification.                                                      *)
(***************************************************************************)
Scheduled(t) == ScheduleLazily(t) \/ ScheduleEagerly(t)

Queued ==
  \/ \E t \in Txns : (\E at \in 1 .. MaxTime : schedule(t, at)) \/ Scheduled(t) \/ disarm(t)
  \/ \E s \in Shards : TimerFires(s) \/ fire(s)
  \/ EnterRoot \/ Drain

Designed ==
  \/ \E t \in Txns : \E at \in 1 .. MaxTime :
       armDesignWeakTimer(t, at) \/ \E e \in Entries : GetEntry(t, at, e)
  \/ \E t \in Txns : ArmEntry(t) \/ disarmDesign(t) \/ OwnTimerFires(t) \/ fireDesignTimeout(t)
  \/ \E t \in Txns : \E inFlight \in BOOLEAN : releaseTransactTimeout(t, inFlight)
  \/ \E e \in Entries : EntryTimerFires(e) \/ fireEntry(e)
  \/ \E c \in calls : DesignDeliver(c)

\* designArmLocked: the path is the same for every arm.
Next ==
  \/ Tick
  \/ ~design /\ Queued /\ UNCHANGED <<design, dvars>>
  \/ design /\ Designed /\ UNCHANGED <<design, qvars>>

Spec == Init /\ [][Next]_vars

(***************************************************************************)
(* Properties.                                                             *)
(***************************************************************************)
\* The variables of the queue and those that both paths have.
QueueOK ==
  /\ now \in 0 .. MaxTime
  /\ tx \in [Txns -> [armed : BOOLEAN, arm : Nat]]
  /\ lk \in [Txns -> {"free", "lazy", "eager", "entry"}]
  /\ node \in [Txns -> [at : {"none", "heap", "ready"}, wake : Nat, deadline : Nat,
                        desiredWake : Nat, seq : Nat]]
  /\ sh \in [Shards -> [running : BOOLEAN, requested : BOOLEAN, reqAt : Nat,
                        on : BOOLEAN, due : Nat, fired : Nat]]
  /\ root \in [running : BOOLEAN, again : BOOLEAN, seq : Nat,
               ready : SUBSET Ready, entering : Nat]
  /\ d \in [pc : {"idle", "now", "frontier", "scan", "popped", "deliver", "fire",
                  "exit", "end"},
            now : Nat, frontier : Nat, s : Shards, hold : SUBSET (Txns \cup Ready)]
  /\ d.frontier <= root.seq
  /\ \A t \in Txns : node[t].seq <= root.seq

\* The variables of the timers.
DesignOK ==
  /\ tm \in [Txns -> [scoped : BOOLEAN, entry : Entries \cup {None}, made : BOOLEAN,
                      deadline : Nat, on : BOOLEAN, due : Nat, fired : Nat,
                      asked : Nat, read : Nat]]
  /\ ent \in [Entries -> [tx : Txns \cup {None}, arm : Nat, deadline : Nat, nextFire : Nat,
                          on : BOOLEAN, due : Nat, fired : Nat, slip : Nat]]
  /\ calls \subseteq [t : Txns, arm : Nat]

\* Every variable has its type.
TypeOK == design \in BOOLEAN /\ QueueOK /\ DesignOK

\* A drainer that has yet to leave shard s, or one that is bound to come.
DrainerFor(s) ==
  \/ root.again \/ root.entering > 0
  \/ \E q \in Shards : sh[q].fired > 0
  \/ root.running /\ d.pc # "end" /\ (d.pc = "exit" => d.s <= s)

\* On the queue: t is in its heap no later than it should wake, with a drainer
\* on its way or the shard's timer set to the head of the heap or sooner.
InHeap(t) ==
  /\ node[t].at = "heap" /\ node[t].wake <= node[t].desiredWake
  /\ \/ DrainerFor(Shard[t])
     \/ sh[Shard[t]].on /\ sh[Shard[t]].due <= Head(Shard[t])

\* Or the drainer has it, as it is armed now.
WithDrainer(t) ==
  \/ d.pc = "popped" /\ d.hold = {t}
  \/ \E r \in root.ready \cup (IF d.pc = "fire" THEN d.hold ELSE {}) :
       r.t = t /\ r.arm = tx[t].arm /\ r.seq = node[t].seq

\* The time v is none too late for what t asked for.
OnTime(t, v) == v <= tm[t].asked \/ v <= now

\* The timer r is set for t in time, but for slip, or its callback is started.
Rings(t, r, slip) == r.fired > 0 \/ (r.on /\ OnTime(t, r.due - slip))

\* With timers: a callback goes to fireTimeout, or the entry or the timer that t
\* has is set for its present arm.
OwnTimer(t) ==
  \/ [t |-> t, arm |-> tx[t].arm] \in calls
  \/ /\ tm[t].entry # None
     /\ LET r == ent[tm[t].entry] IN
          /\ r.tx = t /\ r.arm = tx[t].arm /\ r.deadline = tm[t].asked
          /\ Rings(t, r, r.slip)
  \/ tm[t].made /\ OnTime(t, tm[t].deadline) /\ Rings(t, tm[t], 0)

(***************************************************************************)
(* No wake is lost: an armed timeout will be looked at in time.  On the    *)
(* default path its own timer is set or has fired: entries left set to an  *)
(* earlier time, pooled and taken by another transaction while a callback  *)
(* of theirs is about to run, and given up when Transact returns with      *)
(* reads in flight, all keep it.  On the queue lazy arms, callbacks that   *)
(* come while the drainer leaves the shards, and timers that are set again *)
(* under a started callback keep it.                                       *)
(***************************************************************************)
NoLostWake ==
  \A t \in Txns : tx[t].armed /\ lk[t] = "free" =>
    IF design THEN OwnTimer(t) ELSE WithDrainer(t) \/ InHeap(t)

(***************************************************************************)
(* On the queue, timeouts are resumed in the order of their arms, across   *)
(* shards: when one is handed over, no timeout with an earlier sequence    *)
(* number that was due at the time of the cohort is still waiting          *)
(* ("logical resumptions are ordered globally", timeout_queue.go).  The    *)
(* timers of the default path have no such order.                          *)
(***************************************************************************)
ArmsInOrder ==
  ~design /\ d.pc = "fire" =>
    \A r \in d.hold : \A t \in Txns \ {r.t} :
      ~(tx[t].armed /\ lk[t] = "free" /\ node[t].seq < r.seq /\ node[t].desiredWake <= d.now)

(***************************************************************************)
(* No timeout comes before its deadline, on either path: a delivery that   *)
(* fireTimeout would accept is of an arm whose deadline has passed.  The   *)
(* wakes of the queue and the timers come early for arms that moved their  *)
(* deadline; a callback may find its entry armed for another transaction,  *)
(* or its own transaction armed again after it looked at the deadline.     *)
(***************************************************************************)
NeverBeforeDeadline ==
  /\ ~design /\ d.pc = "fire" =>
       \A r \in d.hold : tx[r.t].armed /\ tx[r.t].arm = r.arm => node[r.t].deadline <= now
  /\ \A c \in calls : tx[c.t].armed /\ tx[c.t].arm = c.arm => tm[c.t].asked <= now
=============================================================================
