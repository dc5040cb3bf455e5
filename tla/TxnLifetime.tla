---------------------------- MODULE TxnLifetime ----------------------------
(***************************************************************************)
(* The lifetime of one native transaction handle that several goroutines   *)
(* share (transaction_lifetime.go, read_incarnation.go, native_commit.go,  *)
(* versionstamp.go and the callers in transaction.go).                     *)
(*                                                                         *)
(* A handle lives through incarnations.  An operation captures the current *)
(* one and holds a lease on it while it touches the state that a reset     *)
(* owns.  Reset, a retrying OnError and the publication of a commit turn   *)
(* the handle over: they retire the incarnation, close admission, wake its *)
(* users, wait until the last lease is gone, rebuild the state and open    *)
(* admission to the successor.  Cancel and TIMEOUT end an incarnation      *)
(* without turning over.  A commit is driven by a worker that outlives the *)
(* caller's wait.                                                          *)
(*                                                                         *)
(* One action is one critical section of readErrMu; tx holds what that     *)
(* mutex guards.  An incarnation is named by its generation: readLife is   *)
(* nil only between a turnover and the next capture, so there is never a   *)
(* second one in a generation.                                             *)
(***************************************************************************)
EXTENDS Integers, FiniteSets

CONSTANTS
  Threads,      \* the goroutines that use the handle
  None,         \* no goroutine
  MaxOps,       \* bound: calls per goroutine
  Ops,          \* Ops[t]: the calls goroutine t makes, a subset of Calls
  Timeout,      \* whether TIMEOUT is set
  FinalCommit   \* the goroutines whose commit is made by Database.Transact

Calls == {"set", "read", "watch", "commit", "onerror", "cancel", "reset"}

ASSUME ConstantsAssumption ==
  /\ IsFiniteSet(Threads) /\ None \notin Threads
  /\ MaxOps \in Nat \ {0}
  /\ Ops \in [Threads -> SUBSET Calls]
  /\ Timeout \in BOOLEAN /\ FinalCommit \subseteq Threads

\* One worker for each commit a goroutine can start.
Natives == Threads \X (1 .. MaxOps)

\* Only a call can turn the handle over, and only once.
Gens == 0 .. Cardinality(Threads) * MaxOps

Nil == -1

Causes == {"none", "cancel", "failed", "timeout", "turnover"}

VARIABLES
  tx,          \* the fields of Transaction that readErrMu guards
  th,          \* the goroutines
  turn,        \* the owner of resetMu and how far its turnover is
  delivered,   \* incarnations whose context is cancelled
  state,       \* the fields that only a lease or a turnover may touch
  clock,       \* the deadline of TIMEOUT and the timer deliveries under way
  ghost        \* what the properties remember

vars == <<tx, th, turn, delivered, state, clock, ghost>>

Idle == [pc |-> "idle", op |-> "none", inc |-> Nil, gen |-> Nil, lease |-> FALSE, k |-> 0]

Returned(r) == [Idle EXCEPT !.k = r.k]

NoCommit == [pc |-> "none", inc |-> Nil, reg |-> FALSE, sel |-> "none",
             stamp |-> "none", ships |-> {}]

NoTurn == [pc |-> "free", by |-> "none", who |-> None, k |-> 0, exp |-> Nil, old |-> Nil]

NotRetired == [by |-> "none", exp |-> Nil, cause |-> "none"]

Init ==
  /\ tx = [readLife |-> Nil, readGen |-> 0, readReady |-> "nil", closed |-> {},
           cause |-> [g \in Gens |-> "none"], users |-> [g \in Gens |-> 0],
           issued |-> [g \in Gens |-> 0], drained |-> [g \in Gens |-> "none"],
           armed |-> Timeout, arm |-> IF Timeout THEN 1 ELSE 0, needsArm |-> FALSE,
           nat |-> [n \in Natives |-> NoCommit], committedVersion |-> Nil]
  /\ th = [t \in Threads |-> Idle]
  /\ turn = NoTurn
  /\ delivered = {}
  /\ state = [status |-> "active", writes |-> {}, reads |-> {}, watches |-> {},
              hasCommitted |-> FALSE]
  /\ clock = [expired |-> FALSE, popped |-> {}]
  /\ ghost = [retired |-> [g \in Gens |-> NotRetired], early |-> FALSE]

(***************************************************************************)
(* Incarnations, causes and the timeout.  s is a value of tx.              *)
(***************************************************************************)
readIncarnationLocked(s) == IF s.readLife = Nil THEN [s EXCEPT !.readLife = s.readGen] ELSE s

disarmTimeoutLocked(s) == [s EXCEPT !.armed = FALSE, !.needsArm = FALSE]

\* Failing incarnation g decides its unfinished commits and versionstamps.
Retired(c, g) ==
  [c EXCEPT !.sel = IF c.inc = g /\ c.reg /\ c.sel = "none" THEN "cause" ELSE @,
            !.stamp = IF c.inc = g /\ c.stamp = "pending" THEN "retired" ELSE @]

recordCauseLocked(s, g, why) ==
  IF s.cause[g] # "none" THEN s
  ELSE [(IF g = s.readLife THEN disarmTimeoutLocked(s) ELSE s) EXCEPT
          !.cause[g] = why,
          !.nat = [n \in Natives |-> Retired(s.nat[n], g)]]

\* An expired deadline fails the incarnation at once, creating it if need be.
armTimeoutLocked(s) ==
  LET r == [s EXCEPT !.needsArm = FALSE] IN
  CASE s.readReady # "nil" -> r
    [] s.readReady = "nil" /\ ~Timeout -> disarmTimeoutLocked(r)
    [] s.readReady = "nil" /\ Timeout /\ s.cause[s.readGen] # "none" -> r
    [] s.readReady = "nil" /\ Timeout /\ s.cause[s.readGen] = "none" ->
         IF clock.expired THEN recordCauseLocked(readIncarnationLocked(r), s.readGen, "timeout")
         ELSE [r EXCEPT !.arm = @ + 1, !.armed = TRUE]

ArmIfNeeded(s) == IF s.needsArm THEN armTimeoutLocked(s) ELSE s

(***************************************************************************)
(* Admission and release.                                                  *)
(***************************************************************************)
Holds(t) == th[t].lease

\* The calls that capture an incarnation before they are admitted to it.
Captures(op) == op \in {"read", "watch", "commit", "onerror"}

\* Reads count among those that Commit waits for.
Issued(op) == op \in {"read", "watch"}

Goto(t, pc) == th' = [th EXCEPT ![t].pc = pc]

\* opContextWithLease: the capture.  Reset goes straight to its turnover and
\* the calls without a context straight to admission.
Call(t, op) ==
  /\ th[t].pc = "idle" /\ th[t].k < MaxOps /\ op \in Ops[t]
  /\ tx' = IF ~Captures(op) THEN tx
           ELSE LET s == readIncarnationLocked(tx)
                IN IF tx.readReady = "nil" THEN ArmIfNeeded(s) ELSE s
  /\ th' = [th EXCEPT ![t] =
              [pc |-> IF op = "reset" THEN "lock" ELSE "admit", op |-> op,
               inc |-> IF Captures(op) THEN tx.readGen ELSE Nil,
               gen |-> Nil, lease |-> FALSE, k |-> @.k + 1]]
  /\ UNCHANGED <<turn, delivered, state, clock, ghost>>

\* The incarnation a call may be admitted to: the captured one or the current one.
Wanted(t) == IF th[t].inc = Nil THEN tx.readGen ELSE th[t].inc

Superseded(t) == Captures(th[t].op) /\ tx.readLife # th[t].inc

WithLease(s, g, op) ==
  [s EXCEPT !.users[g] = @ + 1, !.issued[g] = IF Issued(op) THEN @ + 1 ELSE @]

\* enterReadStateInto and admitState: one turn of the loop.
Admit(t) ==
  /\ th[t].pc = "admit" /\ ~Superseded(t) /\ tx.readReady = "nil"
  /\ tx' = WithLease(ArmIfNeeded(readIncarnationLocked(tx)), tx.readGen, th[t].op)
  /\ th' = [th EXCEPT ![t].pc = "held", ![t].inc = Wanted(t), ![t].lease = TRUE]
  /\ UNCHANGED <<turn, delivered, state, clock, ghost>>

\* A call without a lease: a read or commit fails, OnError still cleans up.
Refused(t) ==
  th' = [th EXCEPT ![t] = IF @.op = "onerror" THEN [@ EXCEPT !.pc = "fail"]
                          ELSE Returned(@)]

AdmitRefused(t) ==
  /\ th[t].pc = "admit" /\ Superseded(t)
  /\ Refused(t)
  /\ UNCHANGED <<tx, turn, delivered, state, clock, ghost>>

observeReadReadyLocked(s) == [s EXCEPT !.readReady = "observed"]

\* During a turnover a call waits for the channel of the generation to come.
AdmitWaits(t) ==
  /\ th[t].pc = "admit" /\ ~Superseded(t) /\ tx.readReady # "nil"
  /\ tx' = observeReadReadyLocked(tx)
  /\ th' = [th EXCEPT ![t].pc = "wait", ![t].gen = tx.readGen]
  /\ UNCHANGED <<turn, delivered, state, clock, ghost>>

\* A turnover has one channel, named here by the generation it leads to.
ReadyClosed(t) ==
  /\ th[t].pc = "wait" /\ th[t].gen \in tx.closed
  /\ th' = [th EXCEPT ![t].pc = "admit", ![t].gen = Nil]
  /\ UNCHANGED <<tx, turn, delivered, state, clock, ghost>>

\* executionLease.release: the last lease wakes a waiting turnover.
WithoutLease(s, g, op) ==
  [s EXCEPT !.users[g] = @ - 1,
            !.issued[g] = IF Issued(op) THEN @ - 1 ELSE @,
            !.drained[g] = IF s.users[g] = 1 /\ @ = "open" THEN "closed" ELSE @]

Release(t, pc) ==
  /\ tx' = WithoutLease(tx, th[t].inc, th[t].op)
  /\ th' = [th EXCEPT ![t] = IF pc = "idle" THEN Returned(@)
                             ELSE [@ EXCEPT !.pc = pc, !.lease = FALSE]]

\* The caller's own context ends a wait: for admission, for a reply, for the
\* reads before a commit, or OnError's, which marks the handle errored if the
\* backoff had begun.
CallerDone(t) ==
  /\ Captures(th[t].op)
  /\ \/ th[t].pc = "wait" /\ Refused(t) /\ UNCHANGED <<tx, state>>
     \/ th[t].pc = "held" /\ Issued(th[t].op) /\ Release(t, "idle") /\ UNCHANGED state
     \/ th[t].pc = "barrier" /\ Release(t, "idle") /\ UNCHANGED state
     \/ /\ th[t].pc = "backoff" /\ Goto(t, "fail") /\ UNCHANGED tx
        /\ state' \in {state, [state EXCEPT !.status = "errored"]}
  /\ UNCHANGED <<turn, delivered, clock, ghost>>

(***************************************************************************)
(* Set, reads and watches.                                                 *)
(***************************************************************************)
Set(t) ==
  /\ th[t].pc = "held" /\ th[t].op = "set"
  /\ state' = [state EXCEPT !.writes = @ \cup {th[t].inc}]
  /\ Release(t, "idle")
  /\ UNCHANGED <<turn, delivered, clock, ghost>>

\* A reply's read conflict joins only the incarnation that issued the read.
AdmitsReadConflict(g) == tx.cause[g] = "none" /\ tx.readLife = g

ReadReply(t) ==
  /\ th[t].pc = "held" /\ Issued(th[t].op)
  /\ state' = IF ~AdmitsReadConflict(th[t].inc) THEN state
              ELSE [state EXCEPT !.reads = @ \cup {th[t].inc},
                                 !.watches = IF th[t].op = "watch" THEN @ \cup {th[t].inc}
                                             ELSE @]
  /\ Release(t, "idle")
  /\ UNCHANGED <<turn, delivered, clock, ghost>>

\* A read in flight ends when the incarnation's context is cancelled.
ReadInterrupted(t) ==
  /\ th[t].pc = "held" /\ Issued(th[t].op) /\ th[t].inc \in delivered
  /\ Release(t, "idle")
  /\ UNCHANGED <<turn, delivered, state, clock, ghost>>

cancelWatches == state' = [state EXCEPT !.watches = {}]

(***************************************************************************)
(* Cancel and the timeout.                                                 *)
(***************************************************************************)
CancelState(t) ==
  /\ th[t].pc = "held" /\ th[t].op = "cancel"
  /\ state' = [state EXCEPT !.status = "cancelled"]
  /\ Goto(t, "record")
  /\ UNCHANGED <<tx, turn, delivered, clock, ghost>>

\* failCapturedIncarnation, up to the unlock.
CancelRecord(t) ==
  /\ th[t].pc = "record"
  /\ tx' = recordCauseLocked(tx, th[t].inc, "cancel")
  /\ Goto(t, "cancelled")
  /\ UNCHANGED <<turn, delivered, state, clock, ghost>>

CancelWatches(t) ==
  /\ th[t].pc = "cancelled"
  /\ delivered' = delivered \cup {th[t].inc}
  /\ cancelWatches
  /\ Goto(t, "leave")
  /\ UNCHANGED <<tx, turn, clock, ghost>>

\* The deferred release.
CancelReturns(t) ==
  /\ th[t].pc = "leave" /\ th[t].op = "cancel"
  /\ Release(t, "idle")
  /\ UNCHANGED <<turn, delivered, state, clock, ghost>>

Expire ==
  /\ Timeout /\ ~clock.expired
  /\ clock' = [clock EXCEPT !.expired = TRUE]
  /\ UNCHANGED <<tx, th, turn, delivered, state, ghost>>

\* The timer queue takes the armed number and calls fireTimeout with it later.
PopTimeout ==
  /\ clock.expired /\ tx.armed /\ tx.arm \notin clock.popped
  /\ clock' = [clock EXCEPT !.popped = @ \cup {tx.arm}]
  /\ UNCHANGED <<tx, th, turn, delivered, state, ghost>>

\* Mutant: a delivery is checked against the armed flag alone.
ArmAny(a) == tx.armed

ArmCurrent(a) == tx.armed /\ tx.arm = a

fireTimeout(a) ==
  /\ a \in clock.popped
  /\ tx' = IF ~ArmCurrent(a) THEN tx
           ELSE recordCauseLocked([readIncarnationLocked(tx) EXCEPT !.armed = FALSE],
                                  tx.readGen, "timeout")
  /\ clock' = [clock EXCEPT !.popped = @ \ {a}]
  /\ ghost' = [ghost EXCEPT !.early = @ \/ (tx' # tx /\ ~clock.expired)]
  /\ UNCHANGED <<th, turn, delivered, state>>

\* Whoever records a timeout cancels the context after it unlocks.
DeliverTimeout(g) ==
  /\ tx.cause[g] = "timeout" /\ g \notin delivered
  /\ delivered' = delivered \cup {g}
  /\ UNCHANGED <<tx, th, turn, state, clock, ghost>>

(***************************************************************************)
(* Commit.                                                                 *)
(***************************************************************************)
Native(t) == <<t, th[t].k>>

\* finishNativeLocked: a success or a failure, not an interruption, decides
\* the versionstamp.
finishNativeLocked(c, outcome) ==
  [c EXCEPT !.stamp = IF @ # "pending" \/ outcome = "interrupted" THEN @ ELSE outcome]

EntryError(t) == tx.cause[th[t].inc] # "none" \/ state.status # "active"

\* admitCommit: the commit's versionstamp is promised before its worker starts.
admitCommit(t) ==
  /\ th[t].pc = "held" /\ th[t].op = "commit" /\ ~EntryError(t)
  /\ tx' = [tx EXCEPT !.nat[Native(t)] = [@ EXCEPT !.inc = th[t].inc, !.stamp = "pending"]]
  /\ Goto(t, "admitted")
  /\ UNCHANGED <<turn, delivered, state, clock, ghost>>

\* The Commit of package fdb, and not that of Database.Transact, gives its lease
\* up until a goroutine of its own resolves it.
PrepareCommit(t) ==
  /\ th[t].pc = "admitted" /\ t \notin FinalCommit
  /\ Release(t, "prepared")
  /\ UNCHANGED <<turn, delivered, state, clock, ghost>>

\* enterReadState with wait = false: a claim on the same incarnation or none.
Reclaims(t) == tx.readLife = th[t].inc /\ tx.readReady = "nil"

\* PendingCommit.Resolve: without a new lease only the entry error is left.
Resolve(t) ==
  /\ th[t].pc = "prepared"
  /\ \/ /\ Reclaims(t)
        /\ tx' = WithLease(ArmIfNeeded(tx), th[t].inc, "commit")
        /\ th' = [th EXCEPT ![t].pc = "resolved", ![t].lease = TRUE]
     \/ /\ ~Reclaims(t) /\ EntryError(t)
        /\ tx' = tx
        /\ th' = [th EXCEPT ![t] = Returned(@)]
  /\ UNCHANGED <<turn, delivered, state, clock, ghost>>

\* commitAdmitted looks for an entry error again.
commitAdmitted(t) ==
  /\ th[t].pc \in {"admitted", "resolved"} /\ ~EntryError(t)
  /\ Goto(t, "barrier")
  /\ UNCHANGED <<tx, turn, delivered, state, clock, ghost>>

\* An entry error, an incarnation that failed during the wait for the reads, or
\* one that failed before the worker could be registered.
CommitFails(t) ==
  /\ \/ th[t].pc = "held" /\ th[t].op = "commit" /\ EntryError(t)
     \/ th[t].pc \in {"admitted", "resolved"} /\ EntryError(t)
     \/ th[t].pc = "barrier" /\ tx.issued[th[t].inc] # 0 /\ th[t].inc \in delivered
     \/ th[t].pc = "barrier" /\ tx.issued[th[t].inc] = 0 /\ tx.cause[th[t].inc] # "none"
     \/ th[t].pc = "snapshot" /\ state.writes # {} /\ tx.cause[th[t].inc] # "none"
  /\ Release(t, "idle")
  /\ UNCHANGED <<turn, delivered, state, clock, ghost>>

\* A failed read, a poisoned or illegal mutation, or a size limit: the handle
\* is left to OnError or Reset.  The later checks mark it errored and fail the
\* promised stamp with the commit.
CommitRejected(t) ==
  /\ th[t].pc = "snapshot"
  /\ \E late \in BOOLEAN :
       /\ LET s == WithoutLease(tx, th[t].inc, "commit") IN
          tx' = IF late THEN [s EXCEPT !.nat[Native(t)] = finishNativeLocked(@, "failed")] ELSE s
       /\ state' \in {[state EXCEPT !.status = "errored"]} \cup (IF late THEN {} ELSE {state})
  /\ th' = [th EXCEPT ![t] = Returned(@)]
  /\ UNCHANGED <<turn, delivered, clock, ghost>>

waitIssuedReads(t) ==
  /\ th[t].pc = "barrier" /\ tx.issued[th[t].inc] = 0 /\ tx.cause[th[t].inc] = "none"
  /\ Goto(t, "snapshot")
  /\ UNCHANGED <<tx, turn, delivered, state, clock, ghost>>

\* finishNoWrite, then the turnover on the caller's own goroutine, whose
\* refusal does not change the answer.
CommitReadOnly(t) ==
  /\ th[t].pc = "snapshot" /\ state.writes = {}
  /\ LET s == WithoutLease(tx, th[t].inc, "commit") IN
     tx' = [s EXCEPT !.nat[Native(t)].stamp = IF @ = "pending" THEN "nowrite" ELSE @]
  /\ th' = [th EXCEPT ![t].pc = "lock", ![t].lease = FALSE]
  /\ UNCHANGED <<turn, delivered, state, clock, ghost>>

\* The worker is registered only with an incarnation that has not failed.
Registers(t) == tx.cause[th[t].inc] = "none"

\* The commit ships what the handle holds and gives up its lease.
startNativeCommit(t) ==
  /\ th[t].pc = "snapshot" /\ state.writes # {} /\ Registers(t)
  /\ LET s == WithoutLease(tx, th[t].inc, "commit") IN
     tx' = [s EXCEPT !.nat[Native(t)] =
              [@ EXCEPT !.pc = "io", !.reg = TRUE, !.ships = state.writes \cup state.reads]]
  /\ th' = [th EXCEPT ![t].pc = "await", ![t].lease = FALSE]
  /\ UNCHANGED <<turn, delivered, state, clock, ghost>>

\* Mutant: only the worker closes done.
DoneDelivered(n) == tx.nat[n].pc = "delivered"

\* nativeCommit.done: a cause closes it at once, the worker's own result only
\* after it has been published.
Done(n) == tx.nat[n].sel = "cause" \/ tx.nat[n].pc = "delivered"

CommitReturns(t) ==
  /\ th[t].pc = "await" /\ Done(Native(t))
  /\ th' = [th EXCEPT ![t] = Returned(@)]
  /\ UNCHANGED <<tx, turn, delivered, state, clock, ghost>>

(***************************************************************************)
(* The native worker.                                                      *)
(***************************************************************************)
Own(n) == tx.readLife = tx.nat[n].inc

\* run, after the I/O: decide the stamp, select the result and leave the
\* registry.  A success goes on to publish.
Answered(c, outcome) ==
  LET d == finishNativeLocked(c, outcome)
  IN [d EXCEPT !.sel = IF d.sel = "none" THEN outcome ELSE d.sel,
               !.reg = FALSE,
               !.pc = IF outcome = "committed" THEN "lock" ELSE "delivered"]

\* One critical section with the store of the version.
NativeIo(n, outcome) ==
  /\ tx.nat[n].pc = "io"
  /\ tx' = [tx EXCEPT
              !.committedVersion =
                 IF outcome = "committed" /\ Own(n) THEN tx.nat[n].inc ELSE @,
              !.nat[n] = Answered(@, outcome)]
  /\ UNCHANGED <<th, turn, delivered, state, clock, ghost>>

(***************************************************************************)
(* Turnover.                                                               *)
(***************************************************************************)
LockThread(t) ==
  /\ th[t].pc = "lock" /\ turn.pc = "free"
  /\ turn' = [NoTurn EXCEPT !.pc = "claim", !.by = th[t].op, !.who = t, !.exp = th[t].inc]
  /\ Goto(t, "turnover")
  /\ UNCHANGED <<tx, delivered, state, clock, ghost>>

LockNative(n) ==
  /\ tx.nat[n].pc = "lock" /\ turn.pc = "free"
  /\ turn' = [NoTurn EXCEPT !.pc = "claim", !.by = "commit", !.who = n[1], !.k = n[2],
                            !.exp = tx.nat[n].inc]
  /\ tx' = [tx EXCEPT !.nat[n].pc = "turnover"]
  /\ UNCHANGED <<th, delivered, state, clock, ghost>>

\* Mutant: the claim looks at the cause of the incarnation that is current.
MayClaimAny == turn.exp = Nil \/ tx.cause[tx.readGen] = "none"

\* A conditional turnover claims its own incarnation, and only a clean one.
MayClaim ==
  turn.exp = Nil \/ (tx.readGen = turn.exp /\ tx.cause[turn.exp] = "none")

\* The end of a call that turned over or tried to: the worker delivers, a
\* refused OnError cleans up, the others return.
TurnoverEnds(s, refused) ==
  IF turn.k # 0
  THEN /\ tx' = [s EXCEPT !.nat[<<turn.who, turn.k>>].pc = "delivered"]
       /\ th' = th
  ELSE /\ tx' = s
       /\ th' = [th EXCEPT ![turn.who] =
                   IF refused /\ turn.by = "onerror" THEN [@ EXCEPT !.pc = "fail"]
                   ELSE Returned(@)]

TurnoverRefused ==
  /\ turn.pc = "claim" /\ ~MayClaim
  /\ TurnoverEnds(readIncarnationLocked(tx), TRUE)
  /\ turn' = NoTurn
  /\ UNCHANGED <<delivered, state, clock, ghost>>

\* turnoverLocked, up to the unlock.  A registered worker is stopped: it leaves
\* the registry, and its request may still succeed.
turnoverLocked ==
  /\ turn.pc = "claim" /\ MayClaim
  /\ LET old == tx.readGen
         s   == recordCauseLocked(readIncarnationLocked(tx), old, "turnover")
     IN /\ tx' = [disarmTimeoutLocked(s) EXCEPT
                    !.readReady = "unobserved", !.readLife = Nil, !.readGen = old + 1,
                    !.drained[old] = IF s.users[old] = 0 THEN "none" ELSE "open",
                    !.nat = [n \in Natives |-> [s.nat[n] EXCEPT
                                                  !.reg = @ /\ s.nat[n].inc # old]]]
        /\ turn' = [turn EXCEPT !.pc = "cancel", !.old = old]
        /\ ghost' = [ghost EXCEPT !.retired[old] =
                                     [by |-> turn.by, exp |-> turn.exp, cause |-> s.cause[old]]]
  /\ UNCHANGED <<th, delivered, state, clock>>

\* Mutant: the turnover waits first.
CancelOldLater ==
  /\ turn.pc = "cancel"
  /\ turn' = [turn EXCEPT !.pc = "drain"]
  /\ UNCHANGED <<tx, th, delivered, state, clock, ghost>>

\* old.cancel: the users of the old incarnation are woken before they are
\* waited for.
CancelOld ==
  /\ turn.pc = "cancel"
  /\ delivered' = delivered \cup {turn.old}
  /\ turn' = [turn EXCEPT !.pc = "drain"]
  /\ UNCHANGED <<tx, th, state, clock, ghost>>

\* Mutant: the turnover does not wait for the leases.
DrainedAlways == TRUE

Drained == tx.drained[turn.old] # "open"

\* resetFields and publishCommit: the rebuilding of the state that turnover
\* owns.  Only a user's Reset restarts the TIMEOUT budget.
Rebuild ==
  /\ turn.pc = "drain" /\ Drained
  /\ state' = [status |-> "active", writes |-> {}, reads |-> {}, watches |-> {},
               hasCommitted |-> turn.by = "commit"]
  /\ tx' = IF turn.by = "commit" THEN [tx EXCEPT !.committedVersion = turn.old] ELSE tx
  /\ clock' = IF turn.by = "reset" THEN [clock EXCEPT !.expired = FALSE] ELSE clock
  /\ turn' = [turn EXCEPT !.pc = "finish"]
  /\ UNCHANGED <<th, delivered, ghost>>

\* Database.Transact sets the flag for as long as its call of Commit lasts.
transactFinalCommit ==
  \E t \in FinalCommit : th[t].pc # "idle" /\ th[t].op = "commit"

\* turnoverToken.finish: open admission, arm the successor, wake the waiters.
\* A final commit leaves the successor, if none was captured, and its timer to
\* be made by the next call.
Opened(s) ==
  LET final == transactFinalCommit
      c == IF s.readLife # Nil \/ (Timeout /\ ~final) THEN readIncarnationLocked(s) ELSE s
      o == [c EXCEPT !.readReady = "nil",
                     !.closed = IF s.readReady = "observed" THEN @ \cup {s.readGen} ELSE @]
  IN IF ~final \/ o.readLife # Nil THEN armTimeoutLocked(o)
     ELSE [o EXCEPT !.needsArm = Timeout]

Finish ==
  /\ turn.pc = "finish"
  /\ TurnoverEnds(Opened(tx), FALSE)
  /\ turn' = NoTurn
  /\ UNCHANGED <<delivered, state, clock, ghost>>

(***************************************************************************)
(* OnError.  The lease is given up while the retry is logged, by user code *)
(* that may use the handle, and again before the turnover.                 *)
(***************************************************************************)
OnErrorTerminal(t) ==
  /\ th[t].pc = "held" /\ th[t].op = "onerror"
  /\ state' = IF tx.cause[th[t].inc] \in {"none", "timeout"}
              THEN [state EXCEPT !.status = "errored"] ELSE state
  /\ Goto(t, "fail")
  /\ UNCHANGED <<tx, turn, delivered, clock, ghost>>

OnErrorRetry(t) ==
  /\ th[t].pc = "held" /\ th[t].op = "onerror" /\ tx.cause[th[t].inc] = "none"
  /\ Release(t, "log")
  /\ UNCHANGED <<turn, delivered, state, clock, ghost>>

OnErrorReenter(t) ==
  /\ th[t].pc = "log" /\ Reclaims(t)
  /\ tx' = WithLease(ArmIfNeeded(tx), th[t].inc, "onerror")
  /\ th' = [th EXCEPT ![t].lease = TRUE,
                      ![t].pc = IF tx'.cause[th[t].inc] = "none" THEN "backoff" ELSE "fail"]
  /\ UNCHANGED <<turn, delivered, state, clock, ghost>>

OnErrorTurnedOver(t) ==
  /\ th[t].pc = "log" /\ ~Reclaims(t)
  /\ Goto(t, "fail")
  /\ UNCHANGED <<tx, turn, delivered, state, clock, ghost>>

OnErrorSlept(t) ==
  /\ th[t].pc = "backoff"
  /\ Release(t, "lock")
  /\ UNCHANGED <<turn, delivered, state, clock, ghost>>

OnErrorInterrupted(t) ==
  /\ th[t].pc = "backoff" /\ th[t].inc \in delivered
  /\ state' = [state EXCEPT !.status = "errored"]
  /\ Goto(t, "fail")
  /\ UNCHANGED <<tx, turn, delivered, clock, ghost>>

\* The deferred cleanup of a terminal OnError.
FailRecord(t) ==
  /\ th[t].pc = "fail"
  /\ tx' = recordCauseLocked(tx, th[t].inc, "failed")
  /\ Goto(t, "failed")
  /\ UNCHANGED <<turn, delivered, state, clock, ghost>>

FailDeliver(t) ==
  /\ th[t].pc = "failed"
  /\ delivered' = delivered \cup {th[t].inc}
  /\ Goto(t, "cleanup")
  /\ UNCHANGED <<tx, turn, state, clock, ghost>>

\* Without its lease the cleanup must reclaim one, on its own incarnation.
CleanupEnter(t) ==
  /\ th[t].pc = "cleanup" /\ ~Holds(t)
  /\ IF Reclaims(t)
     THEN /\ tx' = WithLease(ArmIfNeeded(tx), th[t].inc, "onerror")
          /\ th' = [th EXCEPT ![t].lease = TRUE]
     ELSE /\ tx' = tx
          /\ th' = [th EXCEPT ![t] = Returned(@)]
  /\ UNCHANGED <<turn, delivered, state, clock, ghost>>

CleanupWatches(t) ==
  /\ th[t].pc = "cleanup" /\ Holds(t)
  /\ cancelWatches
  /\ Goto(t, "leave")
  /\ UNCHANGED <<tx, turn, delivered, clock, ghost>>

OnErrorReturns(t) ==
  /\ th[t].pc = "leave" /\ th[t].op = "onerror"
  /\ Release(t, "idle")
  /\ UNCHANGED <<turn, delivered, state, clock, ghost>>

(***************************************************************************)
(* The specification.  Steps that wait for nothing but the handle itself   *)
(* are weakly fair: a goroutine that can run does.  Replies, callers'      *)
(* contexts and the clock are not fair at all.                             *)
(***************************************************************************)
Step(t) ==
  \/ Admit(t) \/ AdmitRefused(t) \/ AdmitWaits(t) \/ ReadyClosed(t)
  \/ Set(t) \/ ReadInterrupted(t)
  \/ CancelState(t) \/ CancelRecord(t) \/ CancelWatches(t) \/ CancelReturns(t)
  \/ admitCommit(t) \/ PrepareCommit(t) \/ Resolve(t) \/ commitAdmitted(t)
  \/ CommitFails(t) \/ waitIssuedReads(t) \/ CommitReadOnly(t)
  \/ startNativeCommit(t) \/ CommitReturns(t) \/ LockThread(t)
  \/ OnErrorRetry(t) \/ OnErrorTerminal(t) \/ OnErrorReenter(t) \/ OnErrorTurnedOver(t)
  \/ OnErrorSlept(t) \/ OnErrorInterrupted(t) \/ FailRecord(t) \/ FailDeliver(t)
  \/ CleanupEnter(t) \/ CleanupWatches(t) \/ OnErrorReturns(t)

Turnover == TurnoverRefused \/ turnoverLocked \/ CancelOld \/ Rebuild \/ Finish

Outcomes == {"committed", "failed", "interrupted"}

Outside ==
  \/ \E t \in Threads : (\E op \in Ops[t] : Call(t, op)) \/ ReadReply(t) \/ CallerDone(t)
                          \/ CommitRejected(t)
  \/ \E n \in Natives, o \in Outcomes : NativeIo(n, o)
  \/ Expire \/ PopTimeout

\* Every call was made and has returned.
Quiet ==
  /\ \A t \in Threads : th[t].pc = "idle" /\ th[t].k = MaxOps
  /\ UNCHANGED vars

Next ==
  \/ \E t \in Threads : Step(t)
  \/ Turnover
  \/ \E n \in Natives : LockNative(n)
  \/ \E a \in clock.popped : fireTimeout(a)
  \/ \E g \in Gens : DeliverTimeout(g)
  \/ Outside
  \/ Quiet

Spec == Init /\ [][Next]_vars

FairSpec ==
  /\ Spec
  /\ \A t \in Threads : WF_vars(Step(t))
  /\ WF_vars(Turnover)
  /\ \A n \in Natives : WF_vars(LockNative(n))
  /\ \A g \in Gens : WF_vars(DeliverTimeout(g))

-----------------------------------------------------------------------------
CommitRecords ==
  [pc : {"none", "io", "lock", "turnover", "delivered"}, inc : Gens \cup {Nil}, reg : BOOLEAN,
   sel : {"none", "cause"} \cup Outcomes,
   stamp : {"none", "pending", "retired", "nowrite"} \cup Outcomes, ships : SUBSET Gens]

TxStates ==
  [readLife : Gens \cup {Nil}, readGen : Gens, readReady : {"nil", "unobserved", "observed"},
   closed : SUBSET Gens, cause : [Gens -> Causes], users : [Gens -> Int],
   issued : [Gens -> Int], drained : [Gens -> {"none", "open", "closed"}],
   armed : BOOLEAN, arm : Nat, needsArm : BOOLEAN, nat : [Natives -> CommitRecords],
   committedVersion : Gens \cup {Nil}]

ThreadStates ==
  [pc : {"idle", "admit", "wait", "held", "record", "cancelled", "leave", "admitted",
         "prepared", "resolved", "barrier", "snapshot", "await", "lock", "turnover",
         "log", "backoff", "fail", "failed", "cleanup"},
   op : Calls \cup {"none"}, inc : Gens \cup {Nil}, gen : Gens \cup {Nil},
   lease : BOOLEAN, k : 0 .. MaxOps]

TurnStates ==
  [pc : {"free", "claim", "cancel", "drain", "finish"}, by : Calls \cup {"none"},
   who : Threads \cup {None}, k : 0 .. MaxOps, exp : Gens \cup {Nil}, old : Gens \cup {Nil}]

StateFields ==
  [status : {"active", "cancelled", "errored"}, writes : SUBSET Gens, reads : SUBSET Gens,
   watches : SUBSET Gens, hasCommitted : BOOLEAN]

Ghosts ==
  [retired : [Gens -> [by : Calls \cup {"none"}, exp : Gens \cup {Nil}, cause : Causes]],
   early : BOOLEAN]

\* The types.  The counts of leases are never negative, so that no lease is
\* released twice or on an incarnation that does not count it.
TypeOK ==
  /\ tx \in TxStates
  /\ \A g \in Gens : tx.users[g] \in Nat /\ tx.issued[g] \in 0 .. tx.users[g]
  /\ th \in [Threads -> ThreadStates]
  /\ turn \in TurnStates
  /\ delivered \subseteq Gens
  /\ state \in StateFields
  /\ clock \in [expired : BOOLEAN, popped : SUBSET Nat]
  /\ ghost \in Ghosts

\* What the handle holds was put there by its current incarnation, and a commit
\* ships nothing else: no call leaks into a successor (self-conflicts, which
\* OnError carries over on purpose, are not counted).
OneIncarnation ==
  /\ turn.pc \in {"free", "claim"} =>
       state.writes \cup state.reads \cup state.watches \subseteq {tx.readGen}
  /\ \A n \in Natives : tx.nat[n].ships \subseteq {tx.nat[n].inc}

\* A commit or a retry that retires an incarnation retires its own, and not one
\* that Cancel, a timeout or a terminal OnError had already ended.
StaleNeverRetires ==
  \A g \in Gens : LET r == ghost.retired[g] IN
    r.by \in {"commit", "onerror"} => r.exp = g /\ r.cause = "turnover"

\* No incarnation is timed out by a delivery that belongs to an earlier budget.
NoEarlyTimeout == ~ghost.early

\* A turnover ends although replies never come: the users it waits for were
\* told to leave.
TurnoverFinishes == turn.pc # "free" ~> turn.pc = "free"

\* The caller of a commit whose incarnation failed is let go, whether or not
\* the commit is ever answered.
FailedCommitReturns ==
  \A t \in Threads :
    (th[t].pc = "await" /\ tx.cause[th[t].inc] # "none") ~> th[t].pc # "await"

=============================================================================
