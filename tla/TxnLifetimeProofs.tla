------------------------- MODULE TxnLifetimeProofs -------------------------
(***************************************************************************)
(* Why a handle can be shared by goroutines while it is reset under them:  *)
(* the proof that leases keep incarnations apart, that only the owner of   *)
(* an incarnation retires it, and that no timer delivery ends a budget it  *)
(* does not belong to, for any number of goroutines and calls.             *)
(***************************************************************************)
EXTENDS TxnLifetime, FiniteSetTheorems, TLAPS

-----------------------------------------------------------------------------
(* The inductive invariant, by concern. *)

\* A turnover is under way between its claim and its end.
Turning == turn.pc \in {"cancel", "drain", "finish"}

\* The incarnation that leases are held on: the one a turnover is retiring, else
\* the one in use.
Current == IF Turning THEN turn.old ELSE tx.readGen

Leased == {"held", "record", "cancelled", "leave", "admitted", "resolved", "barrier",
           "snapshot", "backoff"}

\* Between the admission of a commit and its worker.
Admitted == {"admitted", "prepared", "resolved", "barrier", "snapshot"}

Cleaning == {"fail", "failed", "cleanup"}

\* What the place of a goroutine says about its call and its lease.
Shape(r) ==
  /\ r.pc \in Leased => r.lease
  /\ r.lease => r.pc \in Leased \cup Cleaning /\ r.inc # Nil
  /\ r.pc # "idle" => r.k # 0
  /\ Captures(r.op) => r.inc # Nil
  /\ r.pc \in {"admit", "wait"} /\ ~Captures(r.op) => r.inc = Nil
  /\ r.pc \in Admitted \cup {"await"} => r.op = "commit"
  /\ r.pc \in {"log", "backoff"} \cup Cleaning => r.op = "onerror"
  /\ r.pc \in {"lock", "turnover"} => r.op \in {"reset", "commit", "onerror"}

Shaped == \A t \in Threads : Shape(th[t])

\* A worker exists only for a commit that was started, and works for the
\* incarnation of its caller.
Worked ==
  /\ \A n \in Natives :
       /\ n[2] > th[n[1]].k => tx.nat[n].pc = "none"
       /\ n[2] = th[n[1]].k /\ th[n[1]].pc \notin {"idle", "await"} => tx.nat[n].pc = "none"
       /\ n[2] = th[n[1]].k /\ th[n[1]].pc \in Admitted
            => tx.nat[n].inc = th[n[1]].inc
       /\ tx.nat[n].pc = "none" => tx.nat[n].ships = {}
       /\ tx.nat[n].pc # "none" => tx.nat[n].inc # Nil

\* The owner of resetMu is the goroutine or the worker that turn names.
Owned ==
  /\ turn.pc # "free" => turn.who \in Threads /\ turn.by \in {"reset", "commit", "onerror"}
  /\ turn.pc # "free" /\ turn.by # "reset" => turn.exp # Nil
  /\ turn.pc # "free" /\ turn.k = 0 => th[turn.who].pc = "turnover" /\ th[turn.who].op = turn.by
  /\ turn.pc # "free" /\ turn.k # 0 => tx.nat[<<turn.who, turn.k>>].pc = "turnover"
  /\ \A t \in Threads : th[t].pc = "turnover" => turn.pc # "free" /\ turn.who = t /\ turn.k = 0
  /\ \A n \in Natives : tx.nat[n].pc = "turnover" =>
                           turn.pc # "free" /\ turn.who = n[1] /\ turn.k = n[2]

\* Call n has not turned the handle over and may still do so.
MayTurn(n) ==
  \/ n[2] > th[n[1]].k
  \/ n[2] = th[n[1]].k /\ th[n[1]].pc \notin {"idle", "await", "turnover"}
  \/ n[2] = th[n[1]].k /\ th[n[1]].pc = "turnover" /\ turn.pc = "claim"
  \/ tx.nat[n].pc \in {"io", "lock"}
  \/ tx.nat[n].pc = "turnover" /\ turn.pc = "claim"

Open == {n \in Natives : MayTurn(n)}

\* Generations do not run out.
Budget == tx.readGen + Cardinality(Open) <= Cardinality(Natives)

\* Admission is closed while a turnover is under way.
Phased ==
  /\ Turning <=> tx.readReady # "nil"
  /\ Turning => turn.old \in Gens /\ tx.readGen = turn.old + 1
  /\ tx.readLife \in {Nil, tx.readGen}

\* The goroutines that hold a lease on g, and those among them that read.
Users(g) == {t \in Threads : th[t].lease /\ th[t].inc = g}
Issuers(g) == {t \in Users(g) : Issued(th[t].op)}

\* Leases are held on one incarnation, they are counted, and a turnover that is
\* not waiting has none to wait for.
Counted ==
  /\ \A g \in Gens : tx.users[g] = Cardinality(Users(g)) /\ tx.issued[g] = Cardinality(Issuers(g))
  /\ \A t \in Threads : th[t].lease => th[t].inc = Current /\ turn.pc # "finish"
  /\ turn.pc \in {"cancel", "drain"} /\ tx.drained[turn.old] # "open" => tx.users[turn.old] = 0

\* What the handle and its commits hold belongs to one incarnation.
Contained ==
  /\ state.writes \cup state.reads \cup state.watches \subseteq {Current}
  /\ turn.pc = "finish" => state.writes \cup state.reads \cup state.watches = {}
  /\ \A n \in Natives : tx.nat[n].ships \subseteq {tx.nat[n].inc}

\* A delivery of the current arming was taken after the deadline, and nothing is
\* armed while the deadline may move.
Timed ==
  /\ Turning => ~tx.armed
  /\ \A a \in clock.popped : a <= tx.arm
  /\ tx.armed /\ tx.arm \in clock.popped => clock.expired

-----------------------------------------------------------------------------
(* Operations on the fields that readErrMu guards *)

\* u is s after steps that touch neither the leases nor the generation: at most
\* the current incarnation is made, a cause recorded, or the timer set.
Frame(s, u) ==
  /\ u \in TxStates
  /\ u.readGen = s.readGen /\ (u.readReady = "nil" <=> s.readReady = "nil")
  /\ u.users = s.users /\ u.issued = s.issued /\ u.drained = s.drained
  /\ u.readLife \in {s.readLife, s.readGen}
  /\ u.arm >= s.arm
  /\ u.armed => (u.arm > s.arm /\ s.readReady = "nil") \/ (u.arm = s.arm /\ s.armed)

\* The workers have made no progress.
SameWork(s, u) ==
  \A n \in Natives : /\ u.nat[n].pc = s.nat[n].pc
                     /\ u.nat[n].inc = s.nat[n].inc
                     /\ u.nat[n].ships = s.nat[n].ships

Same(s, u) == Frame(s, u) /\ SameWork(s, u)

\* Generations are numbers, and nil is none of them.
LEMMA GensNat == \A g \in Gens : g \in Nat /\ g # Nil
BY DEF Gens, Nil

LEMMA SameTrans ==
  ASSUME NEW s \in TxStates, NEW u \in TxStates, NEW v \in TxStates, Same(s, u), Same(u, v)
  PROVE  Same(s, v)
BY DEF Same, Frame, SameWork, TxStates

LEMMA SameRefl == \A s \in TxStates : Same(s, s)
BY DEF Same, Frame, SameWork, TxStates

LEMMA SameFields ==
  ASSUME NEW s \in TxStates, NEW u \in TxStates,
         u.readGen = s.readGen, u.readReady = s.readReady, u.users = s.users,
         u.issued = s.issued, u.drained = s.drained, u.readLife \in {s.readLife, s.readGen},
         u.arm = s.arm, u.armed => s.armed
  PROVE  Frame(s, u)
<1>1. s.arm \in Nat
  BY DEF TxStates
<1> QED
  BY <1>1 DEF Frame

\* A step of worker n is a step of no other worker.
LEMMA WorkerFrame ==
  ASSUME NEW s \in TxStates, NEW n \in Natives, NEW c \in CommitRecords
  PROVE  LET u == [s EXCEPT !.nat[n] = c]
         IN  /\ Frame(s, u) /\ u.cause = s.cause /\ u.readLife = s.readLife
             /\ u.readReady = s.readReady
             /\ \A m \in Natives : u.nat[m] = IF m = n THEN c ELSE s.nat[m]
<1> DEFINE nt == [s.nat EXCEPT ![n] = c]
           u == [s EXCEPT !.nat = nt]
<1>1. nt \in [Natives -> CommitRecords] /\ \A m \in Natives : nt[m] = IF m = n THEN c ELSE s.nat[m]
  BY DEF TxStates
<1>2. [s EXCEPT !.nat[n] = c] = u
  BY DEF TxStates
<1> HIDE DEF nt
<1>3. u \in TxStates
  BY <1>1 DEF TxStates
<1>4. u.readGen = s.readGen /\ u.readReady = s.readReady /\ u.users = s.users
        /\ u.issued = s.issued /\ u.drained = s.drained /\ u.readLife = s.readLife
        /\ u.arm = s.arm /\ u.armed = s.armed /\ u.nat = nt /\ u.cause = s.cause
  BY DEF TxStates
<1> HIDE DEF u
<1>5. Frame(s, u)
  BY <1>3, <1>4, SameFields
<1> QED
  BY <1>1, <1>2, <1>4, <1>5

\* readIncarnationLocked and disarmTimeoutLocked.
LEMMA SameSimple ==
  ASSUME NEW s \in TxStates
  PROVE  Same(s, readIncarnationLocked(s)) /\ Same(s, disarmTimeoutLocked(s))
<1> DEFINE i == [s EXCEPT !.readLife = s.readGen]
           d == [s EXCEPT !.armed = FALSE, !.needsArm = FALSE]
<1>1. i \in TxStates /\ SameWork(s, i) /\ d \in TxStates /\ SameWork(s, d)
  BY DEF SameWork, TxStates
<1>2. i.readGen = s.readGen /\ i.readReady = s.readReady /\ i.users = s.users
        /\ i.issued = s.issued /\ i.drained = s.drained /\ i.readLife = s.readGen
        /\ i.arm = s.arm /\ i.armed = s.armed
  BY DEF TxStates
<1>3. d.readGen = s.readGen /\ d.readReady = s.readReady /\ d.users = s.users
        /\ d.issued = s.issued /\ d.drained = s.drained /\ d.readLife = s.readLife
        /\ d.arm = s.arm /\ ~d.armed
  BY DEF TxStates
<1> HIDE DEF i, d
<1>4. Same(s, i) /\ Same(s, d)
  BY <1>1, <1>2, <1>3, SameFields DEF Same
<1> QED
  BY <1>4, SameRefl DEF readIncarnationLocked, disarmTimeoutLocked, i, d

\* Failing an incarnation decides commits and stamps, and starts or moves none.
LEMMA RetiredFields ==
  ASSUME NEW c \in CommitRecords, NEW g \in Gens
  PROVE  /\ Retired(c, g) \in CommitRecords
         /\ Retired(c, g).pc = c.pc /\ Retired(c, g).inc = c.inc
         /\ Retired(c, g).ships = c.ships /\ Retired(c, g).reg = c.reg
BY DEF Retired, CommitRecords

LEMMA SameCause ==
  ASSUME NEW s \in TxStates, NEW g \in Gens, NEW why \in Causes
  PROVE  Same(s, recordCauseLocked(s, g, why))
<1> DEFINE d == IF g = s.readLife THEN disarmTimeoutLocked(s) ELSE s
           nt == [n \in Natives |-> Retired(s.nat[n], g)]
           ca == [d.cause EXCEPT ![g] = why]
           u == [d EXCEPT !.cause = ca, !.nat = nt]
<1>1. d \in TxStates /\ Same(s, d)
  BY SameSimple, SameRefl DEF Same, Frame, SameWork
<1>2. \A n \in Natives : s.nat[n] \in CommitRecords
  BY DEF TxStates
<1>3. /\ nt \in [Natives -> CommitRecords]
      /\ \A n \in Natives : /\ nt[n].pc = s.nat[n].pc
                            /\ nt[n].inc = s.nat[n].inc
                            /\ nt[n].ships = s.nat[n].ships
  BY <1>2, RetiredFields
<1>c. ca \in [Gens -> Causes]
  BY <1>1 DEF TxStates
<1>6. recordCauseLocked(s, g, why) = IF s.cause[g] # "none" THEN s ELSE u
  BY <1>1 DEF recordCauseLocked, TxStates
<1> HIDE DEF d, nt, ca
<1>4. u \in TxStates
  BY <1>1, <1>3, <1>c DEF TxStates
<1>5. u.readGen = d.readGen /\ u.readReady = d.readReady /\ u.users = d.users
        /\ u.issued = d.issued /\ u.drained = d.drained /\ u.readLife = d.readLife
        /\ u.nat = nt /\ u.arm = d.arm /\ u.armed = d.armed
  BY <1>1 DEF TxStates
<1> HIDE DEF u
<1>7. Same(s, u)
  BY <1>1, <1>3, <1>4, <1>5 DEF Same, Frame, SameWork
<1> QED
  BY <1>6, <1>7, SameRefl

LEMMA SameArm ==
  ASSUME NEW s \in TxStates, Timeout \in BOOLEAN
  PROVE  Same(s, armTimeoutLocked(s)) /\ Same(s, ArmIfNeeded(s))
<1> DEFINE r == [s EXCEPT !.needsArm = FALSE]
           i == readIncarnationLocked(r)
           f == recordCauseLocked(i, s.readGen, "timeout")
           m == r.arm + 1
           a == [r EXCEPT !.arm = m, !.armed = TRUE]
<1>1. r \in TxStates /\ Same(s, r) /\ r.readReady = s.readReady
  <2>1. r \in TxStates /\ SameWork(s, r)
    BY DEF SameWork, TxStates
  <2>2. r.readGen = s.readGen /\ r.readReady = s.readReady /\ r.users = s.users
          /\ r.issued = s.issued /\ r.drained = s.drained /\ r.readLife = s.readLife
          /\ r.arm = s.arm /\ r.armed = s.armed
    BY DEF TxStates
  <2> HIDE DEF r
  <2> QED
    BY <2>1, <2>2, SameFields DEF Same
<1>m. m \in Nat /\ m > r.arm
  BY <1>1 DEF TxStates
<1>2. a \in TxStates /\ (s.readReady = "nil" => Same(r, a))
  <2> HIDE DEF r, m
  <2>1. a \in TxStates /\ SameWork(r, a)
    BY <1>1, <1>m DEF SameWork, TxStates
  <2>2. a.readGen = r.readGen /\ a.readReady = r.readReady /\ a.users = r.users
          /\ a.issued = r.issued /\ a.drained = r.drained /\ a.readLife = r.readLife
          /\ a.arm = m /\ a.arm > r.arm /\ r.arm \in Nat
    BY <1>1, <1>m DEF TxStates
  <2> HIDE DEF a
  <2> QED
    BY <1>1, <1>m, <2>1, <2>2 DEF Same, Frame
<1>3. i \in TxStates /\ Same(r, i)
  BY <1>1, SameSimple DEF Same, Frame, SameWork
<1>4. s.readGen \in Gens /\ "timeout" \in Causes
  BY DEF TxStates, Causes
<1>5. f \in TxStates /\ Same(i, f)
  BY <1>3, <1>4, SameCause DEF Same, Frame, SameWork
<1>6. disarmTimeoutLocked(r) \in TxStates /\ Same(r, disarmTimeoutLocked(r))
  BY <1>1, SameSimple DEF Same, Frame, SameWork
<1>7. armTimeoutLocked(s) \in {r, disarmTimeoutLocked(r), f} \/
        (armTimeoutLocked(s) = a /\ s.readReady = "nil")
  BY DEF armTimeoutLocked
<1> HIDE DEF r, i, f, a
<1>8. Same(s, armTimeoutLocked(s))
  BY <1>1, <1>2, <1>3, <1>5, <1>6, <1>7, SameTrans
<1> QED
  BY <1>8, SameRefl DEF ArmIfNeeded

\* Leases: the counts change by one, for one incarnation, and nothing else does.
LEMMA LeaseFields ==
  ASSUME NEW s \in TxStates, NEW g \in Gens, NEW op
  PROVE  /\ WithLease(s, g, op) \in TxStates
         /\ LET u == WithLease(s, g, op)
            IN  /\ u.users = [s.users EXCEPT ![g] = @ + 1]
                /\ u.issued = [s.issued EXCEPT ![g] = IF Issued(op) THEN @ + 1 ELSE @]
                /\ u.drained = s.drained /\ u.readGen = s.readGen /\ u.readReady = s.readReady
                /\ u.readLife = s.readLife /\ u.nat = s.nat /\ u.cause = s.cause
                /\ u.armed = s.armed /\ u.arm = s.arm
         /\ WithoutLease(s, g, op) \in TxStates
         /\ LET u == WithoutLease(s, g, op)
            IN  /\ u.users = [s.users EXCEPT ![g] = @ - 1]
                /\ u.issued = [s.issued EXCEPT ![g] = IF Issued(op) THEN @ - 1 ELSE @]
                /\ u.drained = [s.drained EXCEPT ![g] =
                                  IF s.users[g] = 1 /\ @ = "open" THEN "closed" ELSE @]
                /\ u.readGen = s.readGen /\ u.readReady = s.readReady
                /\ u.readLife = s.readLife /\ u.nat = s.nat /\ u.cause = s.cause
                /\ u.armed = s.armed /\ u.arm = s.arm
<1>1. s.users \in [Gens -> Int] /\ s.issued \in [Gens -> Int]
        /\ s.drained \in [Gens -> {"none", "open", "closed"}]
  BY DEF TxStates
<1> DEFINE p == [s.users EXCEPT ![g] = @ + 1]
           q == [s.issued EXCEPT ![g] = IF Issued(op) THEN @ + 1 ELSE @]
           m == [s.users EXCEPT ![g] = @ - 1]
           o == [s.issued EXCEPT ![g] = IF Issued(op) THEN @ - 1 ELSE @]
           d == [s.drained EXCEPT ![g] = IF s.users[g] = 1 /\ @ = "open" THEN "closed" ELSE @]
<1>2. p \in [Gens -> Int] /\ q \in [Gens -> Int] /\ m \in [Gens -> Int] /\ o \in [Gens -> Int]
        /\ d \in [Gens -> {"none", "open", "closed"}]
  BY <1>1
<1>3. WithLease(s, g, op) = [s EXCEPT !.users = p, !.issued = q]
  BY DEF WithLease, TxStates
<1>4. WithoutLease(s, g, op) = [s EXCEPT !.users = m, !.issued = o, !.drained = d]
  BY DEF WithoutLease, TxStates
<1> HIDE DEF p, q, m, o, d
<1>5. [s EXCEPT !.users = p, !.issued = q] \in TxStates
        /\ [s EXCEPT !.users = m, !.issued = o, !.drained = d] \in TxStates
  BY <1>2 DEF TxStates
<1>6. PICK u : u = [s EXCEPT !.users = p, !.issued = q]
  OBVIOUS
<1>7. /\ u.users = p /\ u.issued = q
      /\ u.drained = s.drained /\ u.readGen = s.readGen /\ u.readReady = s.readReady
      /\ u.readLife = s.readLife /\ u.nat = s.nat /\ u.cause = s.cause
      /\ u.armed = s.armed /\ u.arm = s.arm
  BY <1>6 DEF TxStates
<1>8. PICK v : v = [s EXCEPT !.users = m, !.issued = o, !.drained = d]
  OBVIOUS
<1>9. /\ v.users = m /\ v.issued = o /\ v.drained = d
      /\ v.readGen = s.readGen /\ v.readReady = s.readReady
      /\ v.readLife = s.readLife /\ v.nat = s.nat /\ v.cause = s.cause
      /\ v.armed = s.armed /\ v.arm = s.arm
  BY <1>8 DEF TxStates
<1>10. WithLease(s, g, op) = u /\ WithoutLease(s, g, op) = v
  BY <1>3, <1>4, <1>6, <1>8
<1>11. u \in TxStates /\ v \in TxStates
  BY <1>5, <1>6, <1>8
<1> QED
  BY <1>7, <1>9, <1>10, <1>11 DEF p, q, m, o, d

-----------------------------------------------------------------------------
(* What a step may do to the goroutines *)

TypeInv ==
  /\ tx \in TxStates
  /\ th \in [Threads -> ThreadStates] /\ Shaped
  /\ turn \in TurnStates
  /\ delivered \subseteq Gens
  /\ state \in StateFields
  /\ clock \in [expired : BOOLEAN, popped : SUBSET Nat]
  /\ ghost \in Ghosts

Moves(t, r) == r \in ThreadStates /\ Shape(r) /\ th' = [th EXCEPT ![t] = r]

\* No goroutine moves.
Stays == th' = th /\ turn' = turn /\ Same(tx, tx')

\* A goroutine goes on, its lease untouched.
Walks(t) ==
  \E r \in ThreadStates :
    /\ Moves(t, r) /\ turn' = turn /\ Same(tx, tx')
    /\ r.k = th[t].k /\ r.lease = th[t].lease
    /\ th[t].pc \notin {"idle", "turnover"} /\ r.pc \notin {"await", "turnover"}
    /\ th[t].lease => r.inc = th[t].inc /\ r.op = th[t].op
    /\ th[t].pc = "await" => r.pc = "idle"
    /\ r.pc \in Admitted => th[t].pc \in {"admitted", "resolved", "barrier"}

\* A goroutine makes a call.
Begins(t) ==
  \E r \in ThreadStates :
    /\ Moves(t, r) /\ turn' = turn /\ Same(tx, tx')
    /\ th[t].pc = "idle" /\ r.pc \in {"admit", "lock"}
    /\ r.k = th[t].k + 1 /\ ~r.lease

\* A goroutine takes a lease, on the current incarnation, while admission is open.
Enters(t) ==
  \E r \in ThreadStates, s \in TxStates :
    /\ Moves(t, r) /\ turn' = turn
    /\ tx.readReady = "nil" /\ Same(tx, s) /\ tx' = WithLease(s, tx.readGen, th[t].op)
    /\ ~th[t].lease /\ r.lease
    /\ r.inc = tx.readGen /\ r.op = th[t].op /\ r.k = th[t].k
    /\ th[t].pc \notin {"idle", "await", "turnover"}
    /\ r.pc \notin {"idle", "await", "turnover"}
    /\ r.pc \in Admitted => th[t].pc = "prepared" /\ th[t].inc = r.inc

\* A goroutine gives its lease up.
Leaves(t) ==
  \E r \in ThreadStates :
    /\ Moves(t, r) /\ turn' = turn
    /\ Same(WithoutLease(tx, th[t].inc, th[t].op), tx')
    /\ th[t].lease /\ ~r.lease
    /\ r.k = th[t].k /\ r.pc \in {"idle", "log", "lock", "prepared"}
    /\ r.pc = "prepared" => th[t].pc = "admitted" /\ r.inc = th[t].inc

\* Steps to another place of the code.
LEMMA GotoWalks ==
  ASSUME TypeInv, NEW t \in Threads, NEW pc, Goto(t, pc), turn' = turn, Same(tx, tx'),
         th[t].pc \notin {"idle", "turnover", "await"},
         [th[t] EXCEPT !.pc = pc] \in ThreadStates, Shape([th[t] EXCEPT !.pc = pc]),
         pc \notin {"await", "turnover"},
         pc \in Admitted => th[t].pc \in {"admitted", "resolved", "barrier"}
  PROVE  Walks(t)
<1> DEFINE r == [th[t] EXCEPT !.pc = pc]
<1>1. th[t] \in ThreadStates
  BY DEF TypeInv
<1>2. r.pc = pc /\ r.k = th[t].k /\ r.lease = th[t].lease /\ r.inc = th[t].inc
        /\ r.op = th[t].op
  BY <1>1 DEF ThreadStates
<1>3. th' = [th EXCEPT ![t] = r]
  BY DEF Goto, TypeInv
<1> HIDE DEF r
<1> QED
  BY <1>2, <1>3 DEF Walks, Moves, r

\* A call that ends returns to its caller with nothing.
LEMMA ReturnedShape ==
  ASSUME NEW r \in ThreadStates
  PROVE  /\ Returned(r) \in ThreadStates /\ Shape(Returned(r))
         /\ Returned(r).pc = "idle" /\ Returned(r).k = r.k /\ ~Returned(r).lease
<1>1. PICK v : v = Returned(r)
  OBVIOUS
<1>2. r.k \in 0 .. MaxOps
  BY DEF ThreadStates
<1>3. v = [pc |-> "idle", op |-> "none", inc |-> Nil, gen |-> Nil, lease |-> FALSE, k |-> r.k]
  BY <1>1 DEF Returned, Idle
<1>4. /\ v.pc = "idle" /\ v.op = "none" /\ v.inc = Nil /\ v.gen = Nil
      /\ v.lease = FALSE /\ v.k = r.k
  BY <1>3
<1>5. v \in ThreadStates
  BY <1>2, <1>3 DEF ThreadStates
<1>6. Shape(v)
  BY <1>4 DEF Shape, Leased, Cleaning, Admitted, Captures
<1> QED BY <1>1, <1>4, <1>5, <1>6

\* A goroutine that is not at rest knows its call, and a call without a lease
\* that ends leaves none behind.
LEMMA ReturnWalks ==
  ASSUME TypeInv, NEW t \in Threads, th' = [th EXCEPT ![t] = Returned(th[t])],
         turn' = turn, Same(tx, tx'), th[t].pc \notin {"idle", "turnover"}, ~th[t].lease
  PROVE  Walks(t)
<1>1. th[t] \in ThreadStates
  BY DEF TypeInv
<1>2. th[t].lease = FALSE /\ Returned(th[t]).lease = FALSE
  BY <1>1, ReturnedShape DEF ThreadStates
<1> QED
  BY <1>1, <1>2, ReturnedShape DEF Walks, Moves, Admitted

\* A call that is not admitted.
LEMMA RefusedWalks ==
  ASSUME TypeInv, NEW t \in Threads, Refused(t), turn' = turn, tx' = tx,
         th[t].pc \in {"admit", "wait"}
  PROVE  Walks(t)
<1>0. th[t] \in ThreadStates /\ Shape(th[t]) /\ th \in [Threads -> ThreadStates]
        /\ Same(tx, tx')
  BY SameRefl DEF TypeInv, Shaped
<1>1. ~th[t].lease
  BY <1>0 DEF Shape, Leased, Cleaning, Admitted
<1>2. CASE th[t].op = "onerror"
  <2>1. Goto(t, "fail")
    BY <1>0, <1>2 DEF Refused, Goto
  <2>2. [th[t] EXCEPT !.pc = "fail"] \in ThreadStates /\ Shape([th[t] EXCEPT !.pc = "fail"])
    BY <1>0, <1>2 DEF ThreadStates, Shape, Leased, Cleaning, Admitted
  <2> QED
    BY <1>0, <2>1, <2>2, GotoWalks DEF Admitted
<1>3. CASE th[t].op # "onerror"
  BY <1>0, <1>1, <1>3, ReturnWalks DEF Refused
<1> QED
  BY <1>2, <1>3

\* The steps that leave the lease of their goroutine alone.
LEMMA WalkSteps ==
  ASSUME TypeInv, NEW t \in Threads,
         \/ AdmitRefused(t) \/ AdmitWaits(t) \/ ReadyClosed(t)
         \/ CancelState(t) \/ CancelRecord(t) \/ CancelWatches(t)
         \/ commitAdmitted(t) \/ waitIssuedReads(t) \/ CommitReturns(t)
         \/ OnErrorTerminal(t) \/ OnErrorTurnedOver(t) \/ OnErrorInterrupted(t)
         \/ FailRecord(t) \/ FailDeliver(t) \/ CleanupWatches(t)
  PROVE  Walks(t)
<1>0. th[t] \in ThreadStates /\ Shape(th[t]) /\ th \in [Threads -> ThreadStates]
        /\ tx \in TxStates /\ Same(tx, tx)
  BY SameRefl DEF TypeInv, Shaped
<1>1. ASSUME AdmitRefused(t) PROVE Walks(t)
  BY <1>1, RefusedWalks DEF AdmitRefused
<1>2. ASSUME AdmitWaits(t) PROVE Walks(t)
  <2> DEFINE r == [th[t] EXCEPT !.pc = "wait", !.gen = tx.readGen]
  <2>1. tx' = [tx EXCEPT !.readReady = "observed"] /\ tx.readReady # "nil"
          /\ turn' = turn /\ th[t].pc = "admit" /\ th' = [th EXCEPT ![t] = r]
    BY <1>0, <1>2 DEF AdmitWaits, observeReadReadyLocked
  <2>2. Same(tx, tx')
    BY <1>0, <2>1 DEF Same, Frame, SameWork, TxStates
  <2>3. r \in ThreadStates /\ Shape(r) /\ r.pc = "wait" /\ r.k = th[t].k
          /\ r.lease = th[t].lease /\ r.inc = th[t].inc /\ r.op = th[t].op
    BY <1>0, <2>1 DEF ThreadStates, TxStates, Shape, Leased, Cleaning, Admitted
  <2> HIDE DEF r
  <2> QED
    BY <2>1, <2>2, <2>3 DEF Walks, Moves, Admitted
<1>3. ASSUME ReadyClosed(t) PROVE Walks(t)
  <2> DEFINE r == [th[t] EXCEPT !.pc = "admit", !.gen = Nil]
  <2>1. tx' = tx /\ turn' = turn /\ th[t].pc = "wait" /\ th' = [th EXCEPT ![t] = r]
    BY <1>0, <1>3 DEF ReadyClosed
  <2>3. r \in ThreadStates /\ Shape(r) /\ r.pc = "admit" /\ r.k = th[t].k
          /\ r.lease = th[t].lease /\ r.inc = th[t].inc /\ r.op = th[t].op
    BY <1>0, <2>1 DEF ThreadStates, Shape, Leased, Cleaning, Admitted
  <2> HIDE DEF r
  <2> QED
    BY <1>0, <2>1, <2>3 DEF Walks, Moves, Admitted
<1>4. ASSUME CancelState(t) PROVE Walks(t)
  <2>1. th[t].pc = "held" /\ th[t].op = "cancel" /\ Goto(t, "record") /\ turn' = turn /\ tx' = tx
    BY <1>4 DEF CancelState
  <2>3. Same(tx, tx')
    BY <1>0, <2>1
  <2>4. [th[t] EXCEPT !.pc = "record"] \in ThreadStates /\ Shape([th[t] EXCEPT !.pc = "record"])
    BY <1>0, <2>1 DEF ThreadStates, Shape, Leased, Cleaning, Admitted
  <2> QED
    BY <2>1, <2>3, <2>4, GotoWalks DEF Admitted
<1>5. ASSUME CancelRecord(t) PROVE Walks(t)
  <2>1. th[t].pc = "record" /\ Goto(t, "cancelled") /\ turn' = turn
          /\ tx' = recordCauseLocked(tx, th[t].inc, "cancel")
    BY <1>5 DEF CancelRecord
  <2>2. th[t].inc \in Gens /\ "cancel" \in Causes
    BY <1>0, <2>1 DEF ThreadStates, Shape, Leased, Cleaning, Admitted, Captures, Causes
  <2>3. Same(tx, tx')
    BY <1>0, <2>1, <2>2, SameCause
  <2>4. [th[t] EXCEPT !.pc = "cancelled"] \in ThreadStates /\ Shape([th[t] EXCEPT !.pc = "cancelled"])
    BY <1>0, <2>1 DEF ThreadStates, Shape, Leased, Cleaning, Admitted
  <2> QED
    BY <2>1, <2>3, <2>4, GotoWalks DEF Admitted
<1>6. ASSUME CancelWatches(t) PROVE Walks(t)
  <2>1. th[t].pc = "cancelled" /\ Goto(t, "leave") /\ turn' = turn /\ tx' = tx
    BY <1>6 DEF CancelWatches
  <2>3. Same(tx, tx')
    BY <1>0, <2>1
  <2>4. [th[t] EXCEPT !.pc = "leave"] \in ThreadStates /\ Shape([th[t] EXCEPT !.pc = "leave"])
    BY <1>0, <2>1 DEF ThreadStates, Shape, Leased, Cleaning, Admitted
  <2> QED
    BY <2>1, <2>3, <2>4, GotoWalks DEF Admitted
<1>7. ASSUME waitIssuedReads(t) PROVE Walks(t)
  <2>1. th[t].pc = "barrier" /\ Goto(t, "snapshot") /\ turn' = turn /\ tx' = tx
    BY <1>7 DEF waitIssuedReads
  <2>3. Same(tx, tx')
    BY <1>0, <2>1
  <2>4. [th[t] EXCEPT !.pc = "snapshot"] \in ThreadStates /\ Shape([th[t] EXCEPT !.pc = "snapshot"])
    BY <1>0, <2>1 DEF ThreadStates, Shape, Leased, Cleaning, Admitted
  <2> QED
    BY <2>1, <2>3, <2>4, GotoWalks
<1>8. ASSUME OnErrorTerminal(t) PROVE Walks(t)
  <2>1. th[t].pc = "held" /\ th[t].op = "onerror" /\ Goto(t, "fail") /\ turn' = turn /\ tx' = tx
    BY <1>8 DEF OnErrorTerminal
  <2>3. Same(tx, tx')
    BY <1>0, <2>1
  <2>4. [th[t] EXCEPT !.pc = "fail"] \in ThreadStates /\ Shape([th[t] EXCEPT !.pc = "fail"])
    BY <1>0, <2>1 DEF ThreadStates, Shape, Leased, Cleaning, Admitted
  <2> QED
    BY <2>1, <2>3, <2>4, GotoWalks DEF Admitted
<1>9. ASSUME OnErrorTurnedOver(t) PROVE Walks(t)
  <2>1. th[t].pc = "log" /\ Goto(t, "fail") /\ turn' = turn /\ tx' = tx
    BY <1>9 DEF OnErrorTurnedOver
  <2>3. Same(tx, tx')
    BY <1>0, <2>1
  <2>4. [th[t] EXCEPT !.pc = "fail"] \in ThreadStates /\ Shape([th[t] EXCEPT !.pc = "fail"])
    BY <1>0, <2>1 DEF ThreadStates, Shape, Leased, Cleaning, Admitted
  <2> QED
    BY <2>1, <2>3, <2>4, GotoWalks DEF Admitted
<1>10. ASSUME OnErrorInterrupted(t) PROVE Walks(t)
  <2>1. th[t].pc = "backoff" /\ Goto(t, "fail") /\ turn' = turn /\ tx' = tx
    BY <1>10 DEF OnErrorInterrupted
  <2>3. Same(tx, tx')
    BY <1>0, <2>1
  <2>4. [th[t] EXCEPT !.pc = "fail"] \in ThreadStates /\ Shape([th[t] EXCEPT !.pc = "fail"])
    BY <1>0, <2>1 DEF ThreadStates, Shape, Leased, Cleaning, Admitted
  <2> QED
    BY <2>1, <2>3, <2>4, GotoWalks DEF Admitted
<1>11. ASSUME FailRecord(t) PROVE Walks(t)
  <2>1. th[t].pc = "fail" /\ Goto(t, "failed") /\ turn' = turn
          /\ tx' = recordCauseLocked(tx, th[t].inc, "failed")
    BY <1>11 DEF FailRecord
  <2>2. th[t].inc \in Gens /\ "failed" \in Causes
    BY <1>0, <2>1 DEF ThreadStates, Shape, Leased, Cleaning, Admitted, Captures, Causes
  <2>3. Same(tx, tx')
    BY <1>0, <2>1, <2>2, SameCause
  <2>4. [th[t] EXCEPT !.pc = "failed"] \in ThreadStates /\ Shape([th[t] EXCEPT !.pc = "failed"])
    BY <1>0, <2>1 DEF ThreadStates, Shape, Leased, Cleaning, Admitted
  <2> QED
    BY <2>1, <2>3, <2>4, GotoWalks DEF Admitted
<1>12. ASSUME FailDeliver(t) PROVE Walks(t)
  <2>1. th[t].pc = "failed" /\ Goto(t, "cleanup") /\ turn' = turn /\ tx' = tx
    BY <1>12 DEF FailDeliver
  <2>3. Same(tx, tx')
    BY <1>0, <2>1
  <2>4. [th[t] EXCEPT !.pc = "cleanup"] \in ThreadStates /\ Shape([th[t] EXCEPT !.pc = "cleanup"])
    BY <1>0, <2>1 DEF ThreadStates, Shape, Leased, Cleaning, Admitted
  <2> QED
    BY <2>1, <2>3, <2>4, GotoWalks DEF Admitted
<1>13. ASSUME CleanupWatches(t) PROVE Walks(t)
  <2>1. th[t].pc = "cleanup" /\ th[t].lease /\ Goto(t, "leave") /\ turn' = turn /\ tx' = tx
    BY <1>13 DEF CleanupWatches, Holds
  <2>3. Same(tx, tx')
    BY <1>0, <2>1
  <2>4. [th[t] EXCEPT !.pc = "leave"] \in ThreadStates /\ Shape([th[t] EXCEPT !.pc = "leave"])
    BY <1>0, <2>1 DEF ThreadStates, Shape, Leased, Cleaning, Admitted
  <2> QED
    BY <2>1, <2>3, <2>4, GotoWalks DEF Admitted
<1>14. ASSUME CommitReturns(t) PROVE Walks(t)
  <2>1. th[t].pc = "await" /\ th' = [th EXCEPT ![t] = Returned(th[t])] /\ turn' = turn /\ tx' = tx
    BY <1>0, <1>14 DEF CommitReturns
  <2>2. ~th[t].lease
    BY <1>0, <2>1 DEF Shape, Leased, Cleaning, Admitted
  <2> QED
    BY <1>0, <2>1, <2>2, ReturnWalks
<1>15. ASSUME commitAdmitted(t) PROVE Walks(t)
  <2>1. th[t].pc \in {"admitted", "resolved"} /\ Goto(t, "barrier") /\ turn' = turn /\ tx' = tx
    BY <1>15 DEF commitAdmitted
  <2>3. Same(tx, tx')
    BY <1>0, <2>1
  <2>4. [th[t] EXCEPT !.pc = "barrier"] \in ThreadStates /\ Shape([th[t] EXCEPT !.pc = "barrier"])
    BY <1>0, <2>1 DEF ThreadStates, Shape, Leased, Cleaning, Admitted
  <2> QED
    BY <2>1, <2>3, <2>4, GotoWalks
<1> QED
  BY <1>1, <1>2, <1>3, <1>4, <1>5, <1>6, <1>7, <1>8, <1>9, <1>10, <1>11, <1>12, <1>13, <1>14,
     <1>15

\* opContextWithLease begins a call.
LEMMA CallSteps ==
  ASSUME TypeInv, NEW t \in Threads, NEW op \in Ops[t], Call(t, op)
  PROVE  Begins(t)
<1>0. th[t] \in ThreadStates /\ th \in [Threads -> ThreadStates] /\ tx \in TxStates
        /\ tx.readGen \in Gens /\ Timeout \in BOOLEAN /\ op \in Calls /\ MaxOps \in Nat
        /\ tx.readGen # Nil /\ th[t].k \in Nat
  <2>1. th[t] \in ThreadStates /\ th \in [Threads -> ThreadStates] /\ tx \in TxStates
          /\ Timeout \in BOOLEAN /\ op \in Calls /\ MaxOps \in Nat
    BY ConstantsAssumption DEF TypeInv
  <2> QED
    BY <2>1, GensNat DEF TxStates, ThreadStates
<1> DEFINE s == readIncarnationLocked(tx)
           r == [pc |-> IF op = "reset" THEN "lock" ELSE "admit", op |-> op,
                 inc |-> IF Captures(op) THEN tx.readGen ELSE Nil,
                 gen |-> Nil, lease |-> FALSE, k |-> th[t].k + 1]
<1>1. s \in TxStates /\ Same(tx, s)
  BY <1>0, SameSimple DEF Same, Frame, SameWork
<1>2. ArmIfNeeded(s) \in TxStates /\ Same(tx, ArmIfNeeded(s))
  BY <1>0, <1>1, SameArm, SameTrans DEF Same, Frame, SameWork
<1>3. th[t].pc = "idle" /\ th[t].k < MaxOps /\ th' = [th EXCEPT ![t] = r] /\ turn' = turn
        /\ tx' \in {tx, s, ArmIfNeeded(s)}
  BY <1>0 DEF Call
<1>4. Same(tx, tx')
  BY <1>0, <1>1, <1>2, <1>3, SameRefl
<1>5. r \in ThreadStates /\ Shape(r) /\ r.pc \in {"admit", "lock"} /\ r.k = th[t].k + 1 /\ ~r.lease
  BY <1>0, <1>3 DEF ThreadStates, Shape, Leased, Cleaning, Admitted, Captures, Calls
<1> HIDE DEF r
<1> QED
  BY <1>3, <1>4, <1>5 DEF Begins, Moves

\* admitState and enterReadState hand out leases on the current incarnation only.
LEMMA EnterSteps ==
  ASSUME TypeInv, Phased, NEW t \in Threads,
         Admit(t) \/ Resolve(t) \/ OnErrorReenter(t) \/ CleanupEnter(t)
  PROVE  Enters(t) \/ Walks(t)
<1>0. /\ th[t] \in ThreadStates /\ th \in [Threads -> ThreadStates] /\ tx \in TxStates
      /\ Shape(th[t]) /\ tx.readGen \in Gens /\ Timeout \in BOOLEAN /\ Same(tx, tx)
  BY ConstantsAssumption, SameRefl DEF TypeInv, TxStates, Shaped
<1> DEFINE i == readIncarnationLocked(tx)
           s == ArmIfNeeded(i)
           u == ArmIfNeeded(tx)
<1>1. i \in TxStates /\ Same(tx, i)
  BY <1>0, SameSimple DEF Same, Frame, SameWork
<1>2. s \in TxStates /\ Same(tx, s) /\ u \in TxStates /\ Same(tx, u)
  BY <1>0, <1>1, SameArm, SameTrans DEF Same, Frame, SameWork
<1> HIDE DEF i, s, u
<1>3. CASE Admit(t)
  <2> DEFINE r == [th[t] EXCEPT !.pc = "held", !.inc = tx.readGen, !.lease = TRUE]
  <2>1. Wanted(t) = tx.readGen
    BY <1>0, <1>3 DEF Admit, Wanted, Superseded, Phased, Shape
  <2>2. /\ th[t].pc = "admit" /\ tx.readReady = "nil" /\ turn' = turn
        /\ tx' = WithLease(s, tx.readGen, th[t].op) /\ th' = [th EXCEPT ![t] = r]
    BY <1>0, <1>3, <2>1 DEF Admit, s, i
  <2>3. ~th[t].lease
    BY <1>0, <2>2 DEF Shape, Leased, Cleaning, Admitted
  <2>4. r \in ThreadStates /\ Shape(r) /\ r.lease /\ r.inc = tx.readGen /\ r.op = th[t].op
          /\ r.k = th[t].k /\ r.pc = "held"
    BY <1>0, <2>2, GensNat DEF ThreadStates, Shape, Leased, Cleaning, Admitted
  <2> HIDE DEF r
  <2> QED
    BY <1>2, <2>2, <2>3, <2>4 DEF Enters, Moves, Admitted
<1>4. ASSUME th[t].pc \in {"log", "cleanup"}, Reclaims(t)
      PROVE  th[t].op = "onerror" /\ th[t].inc = tx.readGen /\ tx.readReady = "nil"
  BY <1>0, <1>4 DEF Reclaims, Phased, Shape, Cleaning, Admitted, Captures
<1>5. CASE OnErrorReenter(t)
  <2> DEFINE pc == IF tx'.cause[th[t].inc] = "none" THEN "backoff" ELSE "fail"
             r == [th[t] EXCEPT !.pc = pc, !.lease = TRUE]
  <2>1. pc \in {"backoff", "fail"}
    OBVIOUS
  <2>2. /\ th[t].pc = "log" /\ Reclaims(t) /\ turn' = turn
        /\ tx' = WithLease(u, th[t].inc, "onerror") /\ th' = [th EXCEPT ![t] = r]
    BY <1>0, <1>5 DEF OnErrorReenter, u
  <2> HIDE DEF pc
  <2>3. ~th[t].lease
    BY <1>0, <2>2 DEF Shape, Leased, Cleaning, Admitted
  <2>4. r \in ThreadStates /\ Shape(r) /\ r.lease /\ r.inc = th[t].inc /\ r.op = th[t].op
          /\ r.k = th[t].k /\ r.pc \in {"backoff", "fail"}
    BY <1>0, <1>4, <2>1, <2>2 DEF ThreadStates, Shape, Leased, Cleaning, Admitted, Captures
  <2> HIDE DEF r
  <2> QED
    BY <1>2, <1>4, <2>2, <2>3, <2>4 DEF Enters, Moves, Admitted
<1>6. CASE CleanupEnter(t) /\ Reclaims(t)
  <2> DEFINE r == [th[t] EXCEPT !.lease = TRUE]
  <2>2. /\ th[t].pc = "cleanup" /\ Reclaims(t) /\ turn' = turn /\ ~th[t].lease
        /\ tx' = WithLease(u, th[t].inc, "onerror") /\ th' = [th EXCEPT ![t] = r]
    BY <1>0, <1>6 DEF CleanupEnter, Holds, u
  <2>4. r \in ThreadStates /\ Shape(r) /\ r.lease /\ r.inc = th[t].inc /\ r.op = th[t].op
          /\ r.k = th[t].k /\ r.pc = "cleanup"
    BY <1>0, <1>4, <2>2 DEF ThreadStates, Shape, Leased, Cleaning, Admitted, Captures
  <2> HIDE DEF r
  <2> QED
    BY <1>2, <1>4, <2>2, <2>4 DEF Enters, Moves, Admitted
<1>7. CASE CleanupEnter(t) /\ ~Reclaims(t)
  <2>1. th[t].pc = "cleanup" /\ ~th[t].lease /\ turn' = turn /\ tx' = tx
          /\ th' = [th EXCEPT ![t] = Returned(th[t])]
    BY <1>0, <1>7 DEF CleanupEnter, Holds
  <2> QED
    BY <1>0, <2>1, ReturnWalks
<1>8. CASE Resolve(t) /\ Reclaims(t)
  <2> DEFINE r == [th[t] EXCEPT !.pc = "resolved", !.lease = TRUE]
  <2>1. th[t].pc = "prepared" /\ ~th[t].lease /\ th[t].op = "commit" /\ th[t].inc = tx.readGen
          /\ tx.readReady = "nil" /\ th[t].inc # Nil
    BY <1>0, <1>8 DEF Resolve, Reclaims, Phased, Shape, Leased, Cleaning, Admitted, Captures
  <2>2. turn' = turn /\ tx' = WithLease(u, th[t].inc, "commit") /\ th' = [th EXCEPT ![t] = r]
    BY <1>0, <1>8 DEF Resolve, u
  <2>4. r \in ThreadStates /\ Shape(r) /\ r.lease /\ r.inc = th[t].inc /\ r.op = th[t].op
          /\ r.k = th[t].k /\ r.pc = "resolved"
    BY <1>0, <2>1 DEF ThreadStates, Shape, Leased, Cleaning, Admitted, Captures
  <2> HIDE DEF r
  <2> QED
    BY <1>2, <2>1, <2>2, <2>4 DEF Enters, Moves
<1>9. CASE Resolve(t) /\ ~Reclaims(t)
  <2>1. th[t].pc = "prepared" /\ turn' = turn /\ tx' = tx
          /\ th' = [th EXCEPT ![t] = Returned(th[t])]
    BY <1>0, <1>9 DEF Resolve
  <2>2. ~th[t].lease
    BY <1>0, <2>1 DEF Shape, Leased, Cleaning, Admitted
  <2> QED
    BY <1>0, <2>1, <2>2, ReturnWalks
<1> QED
  BY <1>3, <1>5, <1>6, <1>7, <1>8, <1>9

\* executionLease.release.
LEMMA ReleaseLeaves ==
  ASSUME TypeInv, NEW t \in Threads, NEW pc \in {"idle", "log", "lock", "prepared"}, Release(t, pc),
         turn' = turn, th[t].lease,
         pc \in {"log", "lock"} => th[t].op = "onerror",
         pc = "prepared" => th[t].pc = "admitted"
  PROVE  Leaves(t)
<1>0. /\ th[t] \in ThreadStates /\ th \in [Threads -> ThreadStates] /\ tx \in TxStates
      /\ Shape(th[t]) /\ th[t].inc \in Gens
  BY DEF TypeInv, Shaped, Shape, ThreadStates
<1> DEFINE r == IF pc = "idle" THEN Returned(th[t])
                ELSE [th[t] EXCEPT !.pc = pc, !.lease = FALSE]
<1>1. WithoutLease(tx, th[t].inc, th[t].op) \in TxStates
  BY <1>0, LeaseFields
<1>2. tx' = WithoutLease(tx, th[t].inc, th[t].op) /\ th' = [th EXCEPT ![t] = r]
  BY <1>0 DEF Release
<1>3. r \in ThreadStates /\ Shape(r) /\ ~r.lease /\ r.k = th[t].k
        /\ r.pc \in {"idle", "log", "lock", "prepared"}
        /\ (r.pc = "prepared" => th[t].pc = "admitted" /\ r.inc = th[t].inc)
  <2>1. CASE pc = "idle"
    BY <1>0, <2>1, ReturnedShape
  <2>2. CASE pc \in {"log", "lock"}
    BY <1>0, <2>2 DEF ThreadStates, Shape, Leased, Cleaning, Admitted, Captures
  <2>3. CASE pc = "prepared"
    BY <1>0, <2>3 DEF ThreadStates, Shape, Leased, Cleaning, Admitted, Captures
  <2> QED
    BY <2>1, <2>2, <2>3
<1> HIDE DEF r
<1> QED
  BY <1>1, <1>2, <1>3, SameRefl DEF Leaves, Moves

\* Every call that gives a lease up gives it up once.
LEMMA LeaveSteps ==
  ASSUME TypeInv, NEW t \in Threads,
         \/ CallerDone(t) \/ Set(t) \/ ReadReply(t) \/ ReadInterrupted(t)
         \/ CancelReturns(t) \/ PrepareCommit(t) \/ CommitFails(t) \/ CommitRejected(t)
         \/ CommitReadOnly(t)
         \/ OnErrorRetry(t) \/ OnErrorSlept(t) \/ OnErrorReturns(t)
  PROVE  Leaves(t) \/ Walks(t)
<1>0. /\ th[t] \in ThreadStates /\ th \in [Threads -> ThreadStates] /\ tx \in TxStates
      /\ Shape(th[t]) /\ (th[t].pc \in Leased => th[t].lease)
  BY DEF TypeInv, Shaped, Shape
<1>1. CASE CallerDone(t) /\ th[t].pc = "wait"
  BY <1>1, RefusedWalks DEF CallerDone
<1>2. CASE CallerDone(t) /\ th[t].pc \in {"held", "barrier"}
  BY <1>0, <1>2, ReleaseLeaves DEF CallerDone, Leased
<1>10. CASE CallerDone(t) /\ th[t].pc = "backoff"
  <2>1. Goto(t, "fail") /\ turn' = turn /\ tx' = tx
    BY <1>10 DEF CallerDone
  <2>2. Same(tx, tx')
    BY <1>0, <2>1, SameRefl
  <2>3. [th[t] EXCEPT !.pc = "fail"] \in ThreadStates /\ Shape([th[t] EXCEPT !.pc = "fail"])
    BY <1>0, <1>10 DEF ThreadStates, Shape, Leased, Cleaning, Admitted
  <2> QED
    BY <1>10, <2>1, <2>2, <2>3, GotoWalks DEF Admitted
<1>11. CASE PrepareCommit(t)
  BY <1>0, <1>11, ReleaseLeaves DEF PrepareCommit, Leased
<1>3. CASE Set(t) \/ ReadReply(t) \/ ReadInterrupted(t)
  BY <1>0, <1>3, ReleaseLeaves DEF Set, ReadReply, ReadInterrupted, Leased
<1>4. CASE CancelReturns(t) \/ CommitFails(t) \/ OnErrorReturns(t)
  BY <1>0, <1>4, ReleaseLeaves DEF CancelReturns, CommitFails, OnErrorReturns, Leased
<1>5. CASE OnErrorRetry(t) \/ OnErrorSlept(t)
  BY <1>0, <1>5, ReleaseLeaves DEF OnErrorRetry, OnErrorSlept, Leased, Shape, Cleaning, Admitted
<1> DEFINE s == WithoutLease(tx, th[t].inc, "commit")
           n == Native(t)
<1>6. ASSUME th[t].pc = "snapshot"
      PROVE  /\ th[t].lease /\ th[t].op = "commit" /\ th[t].inc \in Gens
             /\ s \in TxStates /\ n \in Natives /\ s.nat[n] \in CommitRecords
             /\ s = WithoutLease(tx, th[t].inc, th[t].op)
  <2>1. th[t].lease /\ th[t].op = "commit" /\ th[t].inc \in Gens /\ th[t].k \in 1 .. MaxOps
    BY <1>0, <1>6, ConstantsAssumption DEF Shape, Leased, ThreadStates, Admitted
  <2>2. s \in TxStates
    BY <1>0, <2>1, LeaseFields
  <2>3. n \in Natives
    BY <2>1 DEF Native, Natives
  <2> HIDE DEF s, n
  <2>4. s.nat[n] \in CommitRecords
    BY <2>2, <2>3 DEF TxStates
  <2> QED
    BY <2>1, <2>2, <2>3, <2>4 DEF s
\* A decided stamp is no other change of the worker.
<1>7. ASSUME NEW c \in CommitRecords, th[t].pc = "snapshot", c.pc = s.nat[n].pc,
             c.inc = s.nat[n].inc, c.ships = s.nat[n].ships
      PROVE  Same(s, [s EXCEPT !.nat[n] = c])
  <2>1. s \in TxStates /\ n \in Natives
    BY <1>6, <1>7
  <2> HIDE DEF s, n
  <2> QED
    BY <1>7, <2>1, WorkerFrame DEF Same, SameWork
<1>8. CASE CommitRejected(t)
  <2>1. /\ th[t].pc = "snapshot" /\ turn' = turn /\ th' = [th EXCEPT ![t] = Returned(th[t])]
        /\ tx' \in {s, [s EXCEPT !.nat[n] = finishNativeLocked(s.nat[n], "failed")]}
    BY <1>0, <1>8 DEF CommitRejected
  <2>2. s \in TxStates /\ s.nat[n] \in CommitRecords /\ th[t].lease
          /\ s = WithoutLease(tx, th[t].inc, th[t].op)
    BY <1>6, <2>1
  <2> HIDE DEF s, n
  <2>3. Same(s, tx')
    <3> DEFINE c == finishNativeLocked(s.nat[n], "failed")
    <3>1. c \in CommitRecords /\ c.pc = s.nat[n].pc /\ c.inc = s.nat[n].inc
            /\ c.ships = s.nat[n].ships
      BY <2>2 DEF finishNativeLocked, CommitRecords, Outcomes
    <3> HIDE DEF c
    <3>2. Same(s, [s EXCEPT !.nat[n] = c])
      BY <1>7, <2>1, <3>1
    <3> QED
      BY <2>1, <2>2, <3>2, SameRefl DEF c
  <2> QED
    BY <1>0, <2>1, <2>2, <2>3, ReturnedShape DEF Leaves, Moves
<1>9. CASE CommitReadOnly(t)
  <2> DEFINE c == [s.nat[n] EXCEPT !.stamp = IF @ = "pending" THEN "nowrite" ELSE @]
             r == [th[t] EXCEPT !.pc = "lock", !.lease = FALSE]
  <2>0. th[t].pc = "snapshot"
    BY <1>9 DEF CommitReadOnly
  <2>2. s \in TxStates /\ s.nat[n] \in CommitRecords /\ th[t].lease /\ n \in Natives
          /\ s = WithoutLease(tx, th[t].inc, th[t].op) /\ th[t].op = "commit"
    BY <1>6, <2>0
  <2>1. turn' = turn /\ th' = [th EXCEPT ![t] = r] /\ tx' = [s EXCEPT !.nat[n] = c]
    <3>1. tx' = [s EXCEPT !.nat[n].stamp = IF @ = "pending" THEN "nowrite" ELSE @]
      BY <1>9 DEF CommitReadOnly
    <3>2. turn' = turn /\ th' = [th EXCEPT ![t] = r]
      BY <1>0, <1>9 DEF CommitReadOnly
    <3> HIDE DEF s, n
    <3> QED
      BY <2>2, <3>1, <3>2 DEF TxStates
  <2> HIDE DEF s, n
  <2>3. c \in CommitRecords /\ c.pc = s.nat[n].pc /\ c.inc = s.nat[n].inc
            /\ c.ships = s.nat[n].ships
    BY <2>2 DEF CommitRecords
  <2>4. r \in ThreadStates /\ Shape(r) /\ ~r.lease /\ r.k = th[t].k /\ r.pc = "lock"
    BY <1>0, <2>0, <2>2 DEF ThreadStates, Shape, Leased, Cleaning, Admitted, Captures
  <2> HIDE DEF c, r
  <2>5. Same(s, tx')
    BY <1>7, <2>0, <2>1, <2>3
  <2> QED
    BY <2>1, <2>2, <2>4, <2>5 DEF Leaves, Moves
<1>12. CallerDone(t) => th[t].pc \in {"wait", "held", "barrier", "backoff"}
  BY DEF CallerDone
<1> QED
  BY <1>1, <1>2, <1>3, <1>4, <1>5, <1>8, <1>9, <1>10, <1>11, <1>12

\* Nothing but a timer moves, or nothing at all.
LEMMA StaySteps ==
  ASSUME TypeInv,
         \/ Expire \/ PopTimeout \/ (\E a \in clock.popped : fireTimeout(a))
         \/ (\E g \in Gens : DeliverTimeout(g)) \/ Quiet \/ UNCHANGED vars
  PROVE  Stays
<1>0. tx \in TxStates /\ tx.readGen \in Gens /\ "timeout" \in Causes /\ Same(tx, tx)
  BY SameRefl DEF TypeInv, TxStates, Causes
<1>1. CASE Expire \/ PopTimeout \/ (\E g \in Gens : DeliverTimeout(g)) \/ Quiet \/ UNCHANGED vars
  BY <1>0, <1>1 DEF Expire, PopTimeout, DeliverTimeout, Quiet, vars, Stays
<1>2. ASSUME NEW a \in clock.popped, fireTimeout(a) PROVE Stays
  <2> DEFINE i == readIncarnationLocked(tx)
             u == [i EXCEPT !.armed = FALSE]
             f == recordCauseLocked(u, tx.readGen, "timeout")
  <2>1. i \in TxStates /\ Same(tx, i)
    BY <1>0, SameSimple DEF Same, Frame
  <2>2. th' = th /\ turn' = turn /\ tx' \in {tx, f}
    BY <1>2 DEF fireTimeout
  <2> HIDE DEF i
  <2>3. u \in TxStates /\ SameWork(i, u)
    BY <2>1 DEF SameWork, TxStates
  <2>4. u.readGen = i.readGen /\ u.readReady = i.readReady /\ u.users = i.users
          /\ u.issued = i.issued /\ u.drained = i.drained /\ u.readLife = i.readLife
          /\ u.arm = i.arm /\ ~u.armed
    BY <2>1 DEF TxStates
  <2> HIDE DEF u
  <2>5. Same(i, u)
    BY <2>1, <2>3, <2>4, SameFields DEF Same
  <2>6. Same(u, f) /\ f \in TxStates
    BY <1>0, <2>3, SameCause DEF Same, Frame
  <2> HIDE DEF f
  <2>7. Same(tx, f)
    BY <1>0, <2>1, <2>3, <2>5, <2>6, SameTrans
  <2> QED
    BY <1>0, <2>2, <2>7 DEF Stays
<1> QED
  BY <1>1, <1>2

\* Worker m is now c, and the others have made no progress.
Works(m, c) ==
  \A n \in Natives : LET b == IF n = m THEN c ELSE tx.nat[n]
                     IN  /\ tx'.nat[n].pc = b.pc
                         /\ tx'.nat[n].inc = b.inc
                         /\ tx'.nat[n].ships = b.ships

\* A commit is admitted, with its lease.
Admits(t) ==
  \E r \in ThreadStates, c \in CommitRecords :
    /\ Moves(t, r) /\ turn' = turn /\ Frame(tx, tx')
    /\ Native(t) \in Natives /\ Works(Native(t), c)
    /\ th[t].pc = "held" /\ r.pc = "admitted" /\ r.k = th[t].k
    /\ r.lease = th[t].lease /\ r.inc = th[t].inc /\ r.op = th[t].op
    /\ c.pc = tx.nat[Native(t)].pc /\ c.inc = th[t].inc /\ c.ships = tx.nat[Native(t)].ships

\* A commit hands its request to a worker and gives its lease up.
Starts(t) ==
  \E r \in ThreadStates, c \in CommitRecords :
    /\ Moves(t, r) /\ turn' = turn
    /\ Frame(WithoutLease(tx, th[t].inc, th[t].op), tx')
    /\ Native(t) \in Natives /\ Works(Native(t), c)
    /\ th[t].pc = "snapshot" /\ r.pc = "await" /\ ~r.lease /\ r.k = th[t].k
    /\ c.pc = "io" /\ c.inc = tx.nat[Native(t)].inc
    /\ c.ships = state.writes \cup state.reads

\* A worker has its answer.
Answers(n) ==
  \E c \in CommitRecords :
    /\ th' = th /\ turn' = turn /\ Frame(tx, tx') /\ Works(n, c)
    /\ tx.nat[n].pc = "io" /\ c.pc \in {"lock", "delivered"}
    /\ c.inc = tx.nat[n].inc /\ c.ships = tx.nat[n].ships

\* A goroutine or a worker locks resetMu.
Locks(t) ==
  \E r \in ThreadStates :
    /\ Moves(t, r) /\ tx' = tx
    /\ th[t].pc = "lock" /\ r.pc = "turnover" /\ r.k = th[t].k
    /\ r.lease = th[t].lease /\ r.inc = th[t].inc /\ r.op = th[t].op
    /\ turn.pc = "free" /\ turn' \in TurnStates
    /\ turn'.pc = "claim" /\ turn'.by = th[t].op /\ turn'.who = t /\ turn'.k = 0
    /\ turn'.exp = th[t].inc

LocksFor(n) ==
  \E c \in CommitRecords :
    /\ th' = th /\ Frame(tx, tx') /\ Works(n, c)
    /\ tx.nat[n].pc = "lock" /\ c.pc = "turnover"
    /\ c.inc = tx.nat[n].inc /\ c.ships = tx.nat[n].ships
    /\ turn.pc = "free" /\ turn' \in TurnStates
    /\ turn'.pc = "claim" /\ turn'.by = "commit" /\ turn'.who = n[1] /\ turn'.k = n[2]
    /\ turn'.exp = tx.nat[n].inc

\* The owner of resetMu unlocks it and goes on.
Unlocks ==
  /\ turn.pc # "free" /\ turn' = NoTurn
  /\ \/ /\ turn.k = 0 /\ SameWork(tx, tx')
        /\ \E r \in ThreadStates :
             /\ Moves(turn.who, r) /\ r.pc \in {"idle", "fail"} /\ ~r.lease
             /\ r.k = th[turn.who].k /\ (r.pc = "fail" => turn.pc = "claim")
     \/ /\ turn.k # 0 /\ th' = th
        /\ \E c \in CommitRecords :
             /\ Works(<<turn.who, turn.k>>, c)
             /\ c.pc = "delivered" /\ c.inc = tx.nat[<<turn.who, turn.k>>].inc
             /\ c.ships = tx.nat[<<turn.who, turn.k>>].ships

\* The incarnation is retired, or the state rebuilt for its successor.
Claims ==
  /\ th' = th /\ turn.pc = "claim" /\ turn' = [turn EXCEPT !.pc = "cancel", !.old = tx.readGen]
  /\ SameWork(tx, tx')
  /\ tx'.readReady # "nil" /\ tx'.readLife = Nil /\ tx'.readGen = tx.readGen + 1
  /\ tx'.users = tx.users /\ tx'.issued = tx.issued
  /\ tx'.drained[tx.readGen] # "open" => tx.users[tx.readGen] = 0
  /\ ~tx'.armed /\ tx'.arm >= tx.arm

Passes ==
  /\ th' = th /\ Same(tx, tx')
  /\ \/ turn.pc = "cancel" /\ turn' = [turn EXCEPT !.pc = "drain"]
     \/ turn.pc = "drain" /\ Drained /\ turn' = [turn EXCEPT !.pc = "finish"]

LEMMA AdmitsStep ==
  ASSUME TypeInv, NEW t \in Threads, admitCommit(t)
  PROVE  Admits(t)
<1>0. /\ th[t] \in ThreadStates /\ th \in [Threads -> ThreadStates] /\ tx \in TxStates
      /\ Shape(th[t]) /\ th[t].pc = "held" /\ th[t].op = "commit"
  BY DEF TypeInv, Shaped, admitCommit
<1> DEFINE n == Native(t)
           c == [tx.nat[n] EXCEPT !.inc = th[t].inc, !.stamp = "pending"]
           r == [th[t] EXCEPT !.pc = "admitted"]
<1>1. n \in Natives /\ th[t].inc \in Gens
  BY <1>0, ConstantsAssumption DEF Shape, Leased, ThreadStates, Native, Natives
<1>2. turn' = turn /\ th' = [th EXCEPT ![t] = r] /\ tx' = [tx EXCEPT !.nat[n] = c]
  BY <1>0 DEF admitCommit, Goto, TxStates
<1>3. r \in ThreadStates /\ Shape(r) /\ r.pc = "admitted" /\ r.k = th[t].k
        /\ r.lease = th[t].lease /\ r.inc = th[t].inc /\ r.op = th[t].op
  BY <1>0 DEF ThreadStates, Shape, Leased, Cleaning, Admitted
<1> HIDE DEF n, r
<1>4. tx.nat[n] \in CommitRecords
  BY <1>0, <1>1 DEF TxStates
<1>5. c \in CommitRecords /\ c.pc = tx.nat[n].pc /\ c.inc = th[t].inc /\ c.ships = tx.nat[n].ships
  BY <1>1, <1>4 DEF CommitRecords
<1> HIDE DEF c
<1>6. Frame(tx, tx') /\ \A m \in Natives : tx'.nat[m] = IF m = n THEN c ELSE tx.nat[m]
  BY <1>0, <1>1, <1>2, <1>5, WorkerFrame
<1>7. Works(n, c)
  BY <1>6 DEF Works
<1> QED
  BY <1>0, <1>1, <1>2, <1>3, <1>5, <1>6, <1>7 DEF Admits, Moves, n

LEMMA StartsStep ==
  ASSUME TypeInv, NEW t \in Threads, startNativeCommit(t)
  PROVE  Starts(t)
<1>0. /\ th[t] \in ThreadStates /\ th \in [Threads -> ThreadStates] /\ tx \in TxStates
      /\ Shape(th[t]) /\ th[t].pc = "snapshot" /\ state \in StateFields
  BY DEF TypeInv, Shaped, startNativeCommit
<1>1. th[t].op = "commit" /\ th[t].inc \in Gens
  BY <1>0 DEF Shape, Leased, ThreadStates, Admitted
<1> DEFINE n == Native(t)
           s == WithoutLease(tx, th[t].inc, "commit")
           c == [s.nat[n] EXCEPT !.pc = "io", !.reg = TRUE, !.ships = state.writes \cup state.reads]
           r == [th[t] EXCEPT !.pc = "await", !.lease = FALSE]
<1>2. s \in TxStates /\ s.nat = tx.nat /\ n \in Natives
  <2>0. s \in TxStates
    BY <1>0, <1>1, LeaseFields
  <2>3. s.nat = tx.nat
    BY <1>0 DEF WithoutLease, TxStates
  <2>1. th[t].k \in 1 .. MaxOps
    BY <1>0, ConstantsAssumption DEF Shape, ThreadStates
  <2>2. n \in Natives
    BY <2>1 DEF Native, Natives
  <2> QED
    BY <2>0, <2>2, <2>3
<1>3. turn' = turn /\ th' = [th EXCEPT ![t] = r] /\ tx' = [s EXCEPT !.nat[n] = c]
  <2>1. tx' = [s EXCEPT !.nat[n] = [@ EXCEPT !.pc = "io", !.reg = TRUE,
                                             !.ships = state.writes \cup state.reads]]
    BY DEF startNativeCommit
  <2>2. turn' = turn /\ th' = [th EXCEPT ![t] = r]
    BY <1>0 DEF startNativeCommit
  <2> HIDE DEF s, n
  <2> QED
    BY <1>2, <2>1, <2>2 DEF TxStates
<1>4. r \in ThreadStates /\ Shape(r) /\ r.pc = "await" /\ ~r.lease /\ r.k = th[t].k
  BY <1>0, <1>1 DEF ThreadStates, Shape, Leased, Cleaning, Admitted, Captures
<1> HIDE DEF n, r, s
<1>5. s.nat[n] \in CommitRecords
  BY <1>2 DEF TxStates
<1>6. c \in CommitRecords /\ c.pc = "io" /\ c.inc = tx.nat[n].inc
        /\ c.ships = state.writes \cup state.reads
  BY <1>0, <1>2, <1>5 DEF CommitRecords, StateFields
<1> HIDE DEF c
<1>7. Frame(s, tx') /\ \A m \in Natives : tx'.nat[m] = IF m = n THEN c ELSE s.nat[m]
  BY <1>2, <1>3, <1>6, WorkerFrame
<1>8. Works(n, c)
  BY <1>2, <1>7 DEF Works
<1> QED
  BY <1>0, <1>1, <1>2, <1>3, <1>4, <1>6, <1>7, <1>8 DEF Starts, Moves, n, s

LEMMA AnswersStep ==
  ASSUME TypeInv, NEW n \in Natives, NEW o \in Outcomes, NativeIo(n, o)
  PROVE  Answers(n)
<1>0. tx \in TxStates /\ tx.nat[n] \in CommitRecords /\ tx.nat[n].pc = "io"
  BY DEF TypeInv, NativeIo, TxStates
<1> DEFINE v == IF o = "committed" /\ Own(n) THEN tx.nat[n].inc ELSE tx.committedVersion
           u == [tx EXCEPT !.committedVersion = v]
           c == Answered(tx.nat[n], o)
<1>1. th' = th /\ turn' = turn /\ tx' = [u EXCEPT !.nat[n] = c]
  <2>1. th' = th /\ turn' = turn /\ tx' = [tx EXCEPT !.committedVersion = v, !.nat[n] = c]
    BY DEF NativeIo
  <2> HIDE DEF v, c
  <2> QED
    BY <1>0, <2>1 DEF TxStates
<1>3. v \in Gens \cup {Nil}
  BY <1>0 DEF CommitRecords, TxStates
<1> HIDE DEF v
<1>4. c \in CommitRecords /\ c.inc = tx.nat[n].inc /\ c.ships = tx.nat[n].ships
        /\ c.pc \in {"lock", "delivered"}
  <2> DEFINE d == finishNativeLocked(tx.nat[n], o)
  <2>1. d \in CommitRecords /\ d.inc = tx.nat[n].inc /\ d.ships = tx.nat[n].ships
    BY <1>0 DEF finishNativeLocked, CommitRecords
  <2> DEFINE sel == IF d.sel = "none" THEN o ELSE d.sel
             pc == IF o = "committed" THEN "lock" ELSE "delivered"
  <2>2. sel \in {"none", "cause"} \cup Outcomes /\ pc \in {"lock", "delivered"}
    BY <2>1 DEF CommitRecords
  <2>3. c = [d EXCEPT !.sel = sel, !.reg = FALSE, !.pc = pc]
    BY DEF Answered
  <2> HIDE DEF d, c, sel, pc
  <2> QED
    BY <2>1, <2>2, <2>3 DEF CommitRecords
<1>5. u \in TxStates /\ u.nat = tx.nat
  BY <1>0, <1>3 DEF TxStates
<1>6. u.readGen = tx.readGen /\ u.readReady = tx.readReady /\ u.users = tx.users
        /\ u.issued = tx.issued /\ u.drained = tx.drained /\ u.readLife = tx.readLife
        /\ u.arm = tx.arm /\ u.armed = tx.armed
  BY <1>0 DEF TxStates
<1> HIDE DEF u, c
<1>7. Frame(u, tx') /\ \A m \in Natives : tx'.nat[m] = IF m = n THEN c ELSE u.nat[m]
  BY <1>1, <1>4, <1>5, WorkerFrame
<1>8. Works(n, c)
  BY <1>5, <1>7 DEF Works
<1>9. Frame(tx, tx')
  BY <1>6, <1>7 DEF Frame
<1> QED
  BY <1>0, <1>1, <1>4, <1>8, <1>9 DEF Answers

LEMMA LocksStep ==
  ASSUME TypeInv, NEW t \in Threads, LockThread(t)
  PROVE  Locks(t)
<1>0. /\ th[t] \in ThreadStates /\ th \in [Threads -> ThreadStates] /\ tx' = tx
      /\ Shape(th[t]) /\ th[t].pc = "lock" /\ turn.pc = "free"
  BY DEF TypeInv, Shaped, LockThread
<1> DEFINE r == [th[t] EXCEPT !.pc = "turnover"]
           v == [NoTurn EXCEPT !.pc = "claim", !.by = th[t].op, !.who = t, !.exp = th[t].inc]
<1>1. th' = [th EXCEPT ![t] = r] /\ turn' = v
  BY <1>0 DEF LockThread, Goto
<1>2. r \in ThreadStates /\ Shape(r) /\ r.pc = "turnover" /\ r.k = th[t].k
        /\ r.lease = th[t].lease /\ r.inc = th[t].inc /\ r.op = th[t].op
  BY <1>0 DEF ThreadStates, Shape, Leased, Cleaning, Admitted
<1>3. v \in TurnStates /\ v.pc = "claim" /\ v.by = th[t].op /\ v.who = t /\ v.k = 0
        /\ v.exp = th[t].inc
  <2>1. 0 \in 0 .. MaxOps /\ th[t].op \in Calls \cup {"none"} /\ th[t].inc \in Gens \cup {Nil}
    BY <1>0, ConstantsAssumption DEF ThreadStates
  <2> QED
    BY <2>1 DEF TurnStates, NoTurn
<1> HIDE DEF r, v
<1> QED
  BY <1>0, <1>1, <1>2, <1>3 DEF Locks, Moves

LEMMA LocksForStep ==
  ASSUME TypeInv, NEW n \in Natives, LockNative(n)
  PROVE  LocksFor(n)
<1>0. /\ tx \in TxStates /\ tx.nat[n] \in CommitRecords /\ tx.nat[n].pc = "lock"
      /\ turn.pc = "free" /\ th' = th /\ n[1] \in Threads /\ n[2] \in 1 .. MaxOps
  BY DEF TypeInv, LockNative, TxStates, Natives
<1> DEFINE c == [tx.nat[n] EXCEPT !.pc = "turnover"]
           v == [NoTurn EXCEPT !.pc = "claim", !.by = "commit", !.who = n[1], !.k = n[2],
                               !.exp = tx.nat[n].inc]
<1>1. tx' = [tx EXCEPT !.nat[n] = c] /\ turn' = v
  BY <1>0 DEF LockNative, TxStates
<1>2. c \in CommitRecords /\ c.pc = "turnover" /\ c.inc = tx.nat[n].inc
        /\ c.ships = tx.nat[n].ships
  BY <1>0 DEF CommitRecords
<1>3. v \in TurnStates /\ v.pc = "claim" /\ v.by = "commit" /\ v.who = n[1] /\ v.k = n[2]
        /\ v.exp = tx.nat[n].inc
  <2>1. n[2] \in 0 .. MaxOps /\ tx.nat[n].inc \in Gens \cup {Nil} /\ "commit" \in Calls
    BY <1>0, ConstantsAssumption DEF CommitRecords, Calls
  <2> QED
    BY <1>0, <2>1 DEF TurnStates, NoTurn
<1> HIDE DEF c, v
<1>4. Frame(tx, tx') /\ \A m \in Natives : tx'.nat[m] = IF m = n THEN c ELSE tx.nat[m]
  BY <1>0, <1>1, <1>2, WorkerFrame
<1>5. Works(n, c)
  BY <1>4 DEF Works
<1> QED
  BY <1>0, <1>1, <1>2, <1>3, <1>4, <1>5 DEF LocksFor

\* However a turnover ends, its owner goes on without a lease.
LEMMA UnlocksStep ==
  ASSUME TypeInv, Owned, turn.pc # "free", turn' = NoTurn,
         NEW s \in TxStates, SameWork(tx, s), NEW refused \in BOOLEAN,
         refused => turn.pc = "claim", TurnoverEnds(s, refused)
  PROVE  Unlocks /\ Frame(s, tx')
<1>0. /\ turn.who \in Threads /\ th[turn.who] \in ThreadStates /\ Shape(th[turn.who])
      /\ th \in [Threads -> ThreadStates] /\ turn.k \in 0 .. MaxOps /\ Same(s, s)
  BY SameRefl DEF TypeInv, Shaped, Owned, TurnStates
<1>1. CASE turn.k = 0
  <2> DEFINE w == th[turn.who]
             r == IF refused /\ turn.by = "onerror" THEN [w EXCEPT !.pc = "fail"] ELSE Returned(w)
  <2>1. tx' = s /\ th' = [th EXCEPT ![turn.who] = r]
    BY <1>1 DEF TurnoverEnds
  <2>2. w.pc = "turnover" /\ w.op = turn.by /\ ~w.lease
    BY <1>0, <1>1 DEF Owned, Shape, Leased, Cleaning, Admitted
  <2>3. /\ r \in ThreadStates /\ Shape(r) /\ r.pc \in {"idle", "fail"} /\ ~r.lease
        /\ r.k = w.k /\ (r.pc = "fail" => turn.pc = "claim")
    <3>1. CASE refused /\ turn.by = "onerror"
      BY <1>0, <2>2, <3>1 DEF ThreadStates, Shape, Leased, Cleaning, Admitted, Captures
    <3>2. CASE ~(refused /\ turn.by = "onerror")
      BY <1>0, <3>2, ReturnedShape
    <3> QED
      BY <3>1, <3>2
  <2> HIDE DEF r
  <2> QED
    BY <1>0, <1>1, <2>1, <2>3 DEF Unlocks, Moves, Same
<1>2. CASE turn.k # 0
  <2> DEFINE n == <<turn.who, turn.k>>
             c == [s.nat[n] EXCEPT !.pc = "delivered"]
  <2>1. n \in Natives /\ s.nat[n] \in CommitRecords /\ tx.nat[n] \in CommitRecords
    BY <1>0, <1>2, ConstantsAssumption DEF Natives, TxStates, TypeInv
  <2>2. th' = th /\ tx' = [s EXCEPT !.nat[n] = c]
    BY <1>2, <2>1 DEF TurnoverEnds, TxStates
  <2> HIDE DEF n
  <2>3. c \in CommitRecords /\ c.pc = "delivered" /\ c.inc = tx.nat[n].inc
          /\ c.ships = tx.nat[n].ships
    BY <2>1 DEF CommitRecords, SameWork
  <2> HIDE DEF c
  <2>4. Frame(s, tx') /\ \A m \in Natives : tx'.nat[m] = IF m = n THEN c ELSE s.nat[m]
    BY <2>1, <2>2, <2>3, WorkerFrame
  <2>5. Works(n, c)
    BY <2>4 DEF Works, SameWork
  <2> QED
    BY <1>2, <2>2, <2>3, <2>4, <2>5 DEF Unlocks, n
<1> QED
  BY <1>1, <1>2

LEMMA RefusedStep ==
  ASSUME TypeInv, Owned, TurnoverRefused
  PROVE  turn.pc = "claim" /\ Unlocks /\ Frame(tx, tx')
<1> DEFINE s == readIncarnationLocked(tx)
<1>1. tx \in TxStates /\ s \in TxStates /\ Same(tx, s)
  BY SameSimple DEF TypeInv, Same, Frame
<1>2. turn.pc = "claim" /\ TurnoverEnds(s, TRUE) /\ turn' = NoTurn
  BY DEF TurnoverRefused
<1> HIDE DEF s
<1>3. Unlocks /\ Frame(s, tx')
  BY <1>1, <1>2, UnlocksStep DEF Same
<1>4. Frame(tx, tx')
  <2>1. tx.arm \in Nat /\ s.arm \in Nat /\ tx'.arm \in Nat
    BY <1>1, <1>3 DEF TxStates, Frame
  <2> QED
    BY <1>1, <1>3, <2>1 DEF Frame, Same
<1> QED
  BY <1>2, <1>3, <1>4

\* turnoverToken.finish opens admission.
LEMMA FinishStep ==
  ASSUME TypeInv, Owned, Finish
  PROVE  /\ turn.pc = "finish" /\ Unlocks
         /\ tx' \in TxStates /\ tx'.readReady = "nil" /\ tx'.readGen = tx.readGen
         /\ tx'.users = tx.users /\ tx'.issued = tx.issued /\ tx'.drained = tx.drained
         /\ tx'.readLife \in {tx.readLife, tx.readGen}
         /\ tx'.arm >= tx.arm /\ (tx'.armed => tx'.arm > tx.arm \/ tx.armed)
<1> DEFINE final == transactFinalCommit
           c == IF tx.readLife # Nil \/ (Timeout /\ ~final) THEN readIncarnationLocked(tx) ELSE tx
           cl == IF tx.readReady = "observed" THEN c.closed \cup {tx.readGen} ELSE c.closed
           o == [c EXCEPT !.readReady = "nil", !.closed = cl]
           s == Opened(tx)
<1>0. tx \in TxStates /\ Timeout \in BOOLEAN
  BY ConstantsAssumption DEF TypeInv
<1>1. c \in TxStates /\ Same(tx, c)
  BY <1>0, SameSimple, SameRefl DEF Same, Frame
<1>2. s \in {armTimeoutLocked(o), [o EXCEPT !.needsArm = Timeout]}
  BY DEF Opened
<1>3. cl \in SUBSET Gens
  BY <1>0, <1>1 DEF TxStates
<1> HIDE DEF c, cl
<1>4. o \in TxStates
  BY <1>1, <1>3 DEF TxStates
<1>5. /\ o.readReady = "nil" /\ o.readGen = c.readGen /\ o.users = c.users /\ o.issued = c.issued
      /\ o.drained = c.drained /\ o.readLife = c.readLife /\ o.arm = c.arm /\ o.armed = c.armed
      /\ o.nat = c.nat
  BY <1>1 DEF TxStates
<1> HIDE DEF o
<1> DEFINE p == [o EXCEPT !.needsArm = Timeout]
<1>6. p \in TxStates /\ Same(o, p)
  <2>1. p \in TxStates /\ SameWork(o, p)
    BY <1>0, <1>4 DEF TxStates, SameWork
  <2>2. p.readGen = o.readGen /\ p.readReady = o.readReady /\ p.users = o.users
          /\ p.issued = o.issued /\ p.drained = o.drained /\ p.readLife = o.readLife
          /\ p.arm = o.arm /\ p.armed = o.armed
    BY <1>4 DEF TxStates
  <2> HIDE DEF p
  <2> QED
    BY <1>4, <2>1, <2>2, SameFields DEF Same
<1>7. Same(o, s) /\ s \in TxStates
  <2>1. Same(o, armTimeoutLocked(o))
    BY <1>0, <1>4, SameArm
  <2> HIDE DEF s, p
  <2>2. Same(o, s)
    BY <1>2, <1>6, <2>1 DEF p
  <2> QED
    BY <2>2 DEF Same, Frame
<1>8. turn.pc = "finish" /\ TurnoverEnds(s, FALSE) /\ turn' = NoTurn
  BY DEF Finish
<1> HIDE DEF s, p
<1>9. SameWork(tx, s)
  BY <1>1, <1>5, <1>7 DEF Same, SameWork
<1>10. Unlocks /\ Frame(s, tx')
  BY <1>7, <1>8, <1>9, UnlocksStep
<1>11. tx.arm \in Nat /\ c.arm \in Nat /\ o.arm \in Nat /\ s.arm \in Nat /\ tx'.arm \in Nat
  BY <1>0, <1>1, <1>4, <1>7, <1>10 DEF TxStates, Frame
<1>12. /\ Frame(tx, c) /\ Frame(o, s)
  BY <1>1, <1>7 DEF Same
<1>13. tx'.arm >= tx.arm /\ (tx'.armed => tx'.arm > tx.arm \/ tx.armed)
  BY <1>5, <1>10, <1>11, <1>12 DEF Frame
<1>14. /\ tx' \in TxStates /\ tx'.readReady = "nil" /\ tx'.readGen = tx.readGen
       /\ tx'.users = tx.users /\ tx'.issued = tx.issued /\ tx'.drained = tx.drained
       /\ tx'.readLife \in {tx.readLife, tx.readGen}
  BY <1>5, <1>10, <1>12 DEF Frame
<1> QED
  BY <1>8, <1>10, <1>13, <1>14

LEMMA PassesStep ==
  ASSUME TypeInv, CancelOld \/ Rebuild
  PROVE  Passes
<1>0. tx \in TxStates /\ Same(tx, tx) /\ turn \in TurnStates
  BY SameRefl DEF TypeInv
<1>1. CASE CancelOld
  BY <1>0, <1>1 DEF CancelOld, Passes
<1>2. CASE Rebuild
  <2> DEFINE u == [tx EXCEPT !.committedVersion = turn.old]
  <2>1. u \in TxStates /\ SameWork(tx, u)
    BY <1>0 DEF TxStates, TurnStates, SameWork
  <2>2. u.readGen = tx.readGen /\ u.readReady = tx.readReady /\ u.users = tx.users
          /\ u.issued = tx.issued /\ u.drained = tx.drained /\ u.readLife = tx.readLife
          /\ u.arm = tx.arm /\ u.armed = tx.armed
    BY <1>0 DEF TxStates
  <2>3. tx' \in {tx, u} /\ th' = th /\ turn.pc = "drain" /\ Drained
          /\ turn' = [turn EXCEPT !.pc = "finish"]
    BY <1>2 DEF Rebuild
  <2> HIDE DEF u
  <2>4. Same(tx, u)
    BY <1>0, <2>1, <2>2, SameFields DEF Same
  <2> QED
    BY <1>0, <2>3, <2>4 DEF Passes
<1> QED
  BY <1>1, <1>2

LEMMA ClaimsStep ==
  ASSUME TypeInv, turnoverLocked, tx.readGen + 1 \in Gens
  PROVE  Claims /\ tx' \in TxStates
<1> DEFINE old == tx.readGen
           i == readIncarnationLocked(tx)
           s == recordCauseLocked(i, old, "turnover")
           e == disarmTimeoutLocked(s)
           dr == [s.drained EXCEPT ![old] = IF s.users[old] = 0 THEN "none" ELSE "open"]
           nt == [n \in Natives |-> [s.nat[n] EXCEPT !.reg = s.nat[n].reg /\ s.nat[n].inc # old]]
           u == [e EXCEPT !.readReady = "unobserved", !.readLife = Nil, !.readGen = old + 1,
                          !.drained = dr, !.nat = nt]
<1>0. tx \in TxStates /\ old \in Gens /\ "turnover" \in Causes /\ turn \in TurnStates
  BY DEF TypeInv, TxStates, Causes
<1>1. i \in TxStates /\ Same(tx, i)
  BY <1>0, SameSimple DEF Same, Frame
<1>2. s \in TxStates /\ Same(i, s)
  BY <1>0, <1>1, SameCause DEF Same, Frame
<1>3. e \in TxStates /\ Same(s, e) /\ ~e.armed
  <2>1. e \in TxStates /\ Same(s, e)
    BY <1>2, SameSimple DEF Same, Frame
  <2> HIDE DEF s
  <2> QED
    BY <1>2, <2>1 DEF disarmTimeoutLocked, TxStates
<1>4. Same(tx, s)
  BY <1>0, <1>1, <1>2, SameTrans
<1>5. th' = th /\ turn.pc = "claim" /\ turn' = [turn EXCEPT !.pc = "cancel", !.old = tx.readGen]
  BY DEF turnoverLocked
<1>6. tx' = [e EXCEPT !.readReady = "unobserved", !.readLife = Nil, !.readGen = old + 1,
               !.drained[old] = IF s.users[old] = 0 THEN "none" ELSE "open", !.nat = nt]
  BY DEF turnoverLocked
<1> HIDE DEF old, i
<1>7. e.drained = s.drained
  BY <1>3 DEF Same, Frame
<1> HIDE DEF s
<1>8. nt \in [Natives -> CommitRecords] /\ \A n \in Natives :
         nt[n].pc = s.nat[n].pc /\ nt[n].inc = s.nat[n].inc /\ nt[n].ships = s.nat[n].ships
  <2>1. \A n \in Natives : s.nat[n] \in CommitRecords
    BY <1>2 DEF TxStates
  <2>2. ASSUME NEW c \in CommitRecords, NEW b \in BOOLEAN
        PROVE  /\ [c EXCEPT !.reg = b] \in CommitRecords /\ [c EXCEPT !.reg = b].pc = c.pc
               /\ [c EXCEPT !.reg = b].inc = c.inc /\ [c EXCEPT !.reg = b].ships = c.ships
    BY DEF CommitRecords
  <2>3. \A n \in Natives : (s.nat[n].reg /\ s.nat[n].inc # old) \in BOOLEAN
    OBVIOUS
  <2> QED
    BY <2>1, <2>2, <2>3
<1>9. dr \in [Gens -> {"none", "open", "closed"}] /\ (dr[old] # "open" => s.users[old] = 0)
  BY <1>0, <1>2 DEF TxStates
<1>10. tx' = u
  BY <1>3, <1>6, <1>7 DEF TxStates
<1> HIDE DEF e, dr, nt
<1>11. u \in TxStates
  BY <1>0, <1>3, <1>8, <1>9 DEF TxStates, old
<1>12. u.readReady = "unobserved" /\ u.readLife = Nil /\ u.readGen = old + 1
         /\ u.users = e.users /\ u.issued = e.issued /\ u.drained = dr /\ u.nat = nt
         /\ u.armed = e.armed /\ u.arm = e.arm
  BY <1>3 DEF TxStates
<1> HIDE DEF u
<1>13. tx'.arm >= tx.arm
  <2>1. tx.arm \in Nat /\ s.arm \in Nat /\ e.arm \in Nat
    BY <1>0, <1>2, <1>3 DEF TxStates
  <2>2. s.arm >= tx.arm /\ e.arm >= s.arm
    BY <1>3, <1>4 DEF Same, Frame
  <2> QED
    BY <1>10, <1>12, <2>1, <2>2
<1>14. SameWork(tx, tx')
  BY <1>4, <1>8, <1>10, <1>12 DEF Same, SameWork
<1>15. tx'.users = tx.users /\ tx'.issued = tx.issued /\ s.users = tx.users
  BY <1>3, <1>4, <1>10, <1>12 DEF Same, Frame
<1> QED
  BY <1>3, <1>5, <1>9, <1>10, <1>11, <1>12, <1>13, <1>14, <1>15 DEF Claims, old

\* Every step, as one of these.
Abandons == turn.pc = "claim" /\ Unlocks /\ Frame(tx, tx')

Opens ==
  /\ turn.pc = "finish" /\ Unlocks
  /\ tx' \in TxStates /\ tx'.readReady = "nil" /\ tx'.readGen = tx.readGen
  /\ tx'.users = tx.users /\ tx'.issued = tx.issued /\ tx'.drained = tx.drained
  /\ tx'.readLife \in {tx.readLife, tx.readGen}
  /\ tx'.arm >= tx.arm /\ (tx'.armed => tx'.arm > tx.arm \/ tx.armed)

Does ==
  \/ Stays
  \/ \E t \in Threads : \/ Walks(t) \/ Begins(t) \/ Enters(t) \/ Leaves(t)
                        \/ Admits(t) \/ Starts(t) \/ Locks(t)
  \/ \E n \in Natives : Answers(n) \/ LocksFor(n)
  \/ Abandons \/ (Claims /\ tx' \in TxStates) \/ Passes \/ Opens

\* The inductive invariant.
LifeInv ==
  /\ TypeInv /\ Worked /\ Owned /\ Budget
  /\ Phased /\ Counted /\ Contained /\ Timed
  /\ StaleNeverRetires /\ NoEarlyTimeout

LEMMA NativeParts ==
  /\ \A n \in Natives : n = <<n[1], n[2]>> /\ n[1] \in Threads /\ n[2] \in Nat /\ n[2] # 0
  /\ \A t \in Threads, k \in 0 .. MaxOps : k # 0 => <<t, k>> \in Natives
BY ConstantsAssumption DEF Natives

LEMMA NativesFinite ==
  /\ IsFiniteSet(Natives) /\ IsFiniteSet(Open)
  /\ Cardinality(Natives) = Cardinality(Threads) * MaxOps
  /\ Cardinality(Open) \in Nat /\ Cardinality(Natives) \in Nat
<1>1. IsFiniteSet(1 .. MaxOps) /\ Cardinality(1 .. MaxOps) = MaxOps
  BY FS_Interval, ConstantsAssumption
<1>2. IsFiniteSet(Natives) /\ Cardinality(Natives) = Cardinality(Threads) * Cardinality(1 .. MaxOps)
  BY <1>1, FS_Product, ConstantsAssumption DEF Natives
<1>3. IsFiniteSet(Open)
  BY <1>2, FS_Subset DEF Open
<1> QED
  BY <1>1, <1>2, <1>3, FS_CardinalityType

\* The call that holds resetMu before its claim.
Claimant == <<turn.who, IF turn.k = 0 THEN th[turn.who].k ELSE turn.k>>

LEMMA ClaimantOpen ==
  ASSUME TypeInv, Owned, turn.pc = "claim"
  PROVE  Claimant \in Open
<1>1. turn.who \in Threads /\ th[turn.who] \in ThreadStates /\ Shape(th[turn.who])
        /\ turn.k \in 0 .. MaxOps
  BY DEF TypeInv, Shaped, Owned, TurnStates
<1>2. CASE turn.k = 0
  <2>1. th[turn.who].pc = "turnover" /\ th[turn.who].k \in 0 .. MaxOps /\ th[turn.who].k # 0
    BY <1>1, <1>2 DEF Owned, Shape, ThreadStates
  <2>2. Claimant = <<turn.who, th[turn.who].k>>
    BY <1>2 DEF Claimant
  <2>3. Claimant \in Natives /\ Claimant[1] = turn.who /\ Claimant[2] = th[turn.who].k
    BY <1>1, <2>1, <2>2, NativeParts
  <2> QED
    BY <2>1, <2>3 DEF Open, MayTurn
<1>3. CASE turn.k # 0
  <2>2. Claimant = <<turn.who, turn.k>>
    BY <1>3 DEF Claimant
  <2>3. Claimant \in Natives
    BY <1>1, <1>3, <2>2, NativeParts
  <2>4. tx.nat[Claimant].pc = "turnover"
    BY <1>3, <2>2 DEF Owned
  <2> QED
    BY <2>3, <2>4 DEF Open, MayTurn
<1> QED
  BY <1>2, <1>3

\* A turnover finds a generation to go to.
LEMMA Room ==
  ASSUME TypeInv, Owned, Budget, turn.pc = "claim"
  PROVE  tx.readGen + 1 \in Gens
<1>1. Cardinality(Open) # 0
  BY NativesFinite, ClaimantOpen, FS_EmptySet
<1>2. tx.readGen \in Nat
  BY GensNat DEF TypeInv, TxStates
<1>3. tx.readGen + 1 <= Cardinality(Natives)
  BY <1>1, <1>2, NativesFinite DEF Budget
<1> QED
  BY <1>2, <1>3, NativesFinite DEF Gens

LEMMA Steps ==
  ASSUME TypeInv, Owned, Budget, Phased, [Next]_vars
  PROVE  Does
<1>1. ASSUME NEW t \in Threads, Step(t) PROVE Does
  <2>1. CASE Admit(t) \/ Resolve(t) \/ OnErrorReenter(t) \/ CleanupEnter(t)
    BY <2>1, EnterSteps DEF Does
  <2>2. CASE \/ AdmitRefused(t) \/ AdmitWaits(t) \/ ReadyClosed(t)
             \/ CancelState(t) \/ CancelRecord(t) \/ CancelWatches(t)
             \/ commitAdmitted(t) \/ waitIssuedReads(t) \/ CommitReturns(t)
             \/ OnErrorTerminal(t) \/ OnErrorTurnedOver(t) \/ OnErrorInterrupted(t)
             \/ FailRecord(t) \/ FailDeliver(t) \/ CleanupWatches(t)
    BY <2>2, WalkSteps DEF Does
  <2>3. CASE \/ Set(t) \/ ReadInterrupted(t) \/ CancelReturns(t) \/ CommitFails(t)
             \/ PrepareCommit(t) \/ CommitReadOnly(t)
             \/ OnErrorRetry(t) \/ OnErrorSlept(t) \/ OnErrorReturns(t)
    BY <2>3, LeaveSteps DEF Does
  <2>4. CASE admitCommit(t)
    BY <2>4, AdmitsStep DEF Does
  <2>5. CASE startNativeCommit(t)
    BY <2>5, StartsStep DEF Does
  <2>6. CASE LockThread(t)
    BY <2>6, LocksStep DEF Does
  <2> QED
    BY <1>1, <2>1, <2>2, <2>3, <2>4, <2>5, <2>6 DEF Step
<1>2. CASE Turnover
  <2>1. CASE TurnoverRefused
    BY <2>1, RefusedStep DEF Does, Abandons
  <2>2. CASE turnoverLocked
    <3>1. turn.pc = "claim"
      BY <2>2 DEF turnoverLocked
    <3> QED
      BY <2>2, <3>1, Room, ClaimsStep DEF Does
  <2>3. CASE CancelOld \/ Rebuild
    BY <2>3, PassesStep DEF Does
  <2>4. CASE Finish
    BY <2>4, FinishStep DEF Does, Opens
  <2> QED
    BY <1>2, <2>1, <2>2, <2>3, <2>4 DEF Turnover
<1>3. ASSUME NEW n \in Natives, LockNative(n) PROVE Does
  BY <1>3, LocksForStep DEF Does
<1>4. CASE \/ (\E a \in clock.popped : fireTimeout(a)) \/ (\E g \in Gens : DeliverTimeout(g))
           \/ Quiet \/ UNCHANGED vars \/ Expire \/ PopTimeout
  BY <1>4, StaySteps DEF Does
<1>5. CASE Outside
  <2>1. ASSUME NEW t \in Threads, NEW op \in Ops[t], Call(t, op) PROVE Does
    BY <2>1, CallSteps DEF Does
  <2>2. ASSUME NEW t \in Threads, ReadReply(t) \/ CallerDone(t) \/ CommitRejected(t) PROVE Does
    BY <2>2, LeaveSteps DEF Does
  <2>3. ASSUME NEW n \in Natives, NEW o \in Outcomes, NativeIo(n, o) PROVE Does
    BY <2>3, AnswersStep DEF Does
  <2> QED
    BY <1>4, <1>5, <2>1, <2>2, <2>3 DEF Outside
<1> QED
  BY <1>1, <1>2, <1>3, <1>4, <1>5 DEF Next

\* The handle, the goroutines and the turnover keep their types.
LEMMA TypesKept ==
  ASSUME TypeInv, Owned, Does
  PROVE  tx' \in TxStates /\ th' \in [Threads -> ThreadStates] /\ Shaped' /\ turn' \in TurnStates
<1>0. /\ th \in [Threads -> ThreadStates] /\ turn \in TurnStates /\ Shaped
      /\ tx \in TxStates /\ tx.readGen \in Gens
  BY DEF TypeInv, TxStates
<1>1. ASSUME NEW t \in Threads, NEW r, Moves(t, r)
      PROVE  th' \in [Threads -> ThreadStates] /\ Shaped'
  BY <1>0, <1>1 DEF Moves, Shaped
<1>2. th' = th => th' \in [Threads -> ThreadStates] /\ Shaped'
  BY <1>0 DEF Shaped
<1>3. NoTurn \in TurnStates
  <2>1. 0 \in 0 .. MaxOps
    BY ConstantsAssumption
  <2> QED
    BY <2>1 DEF NoTurn, TurnStates
<1>4. CASE Stays
  BY <1>0, <1>2, <1>4 DEF Stays, Same, Frame
<1>5. ASSUME NEW t \in Threads, Walks(t) \/ Begins(t) \/ Leaves(t) \/ Admits(t) \/ Starts(t)
      PROVE  tx' \in TxStates /\ th' \in [Threads -> ThreadStates] /\ Shaped' /\ turn' \in TurnStates
  BY <1>0, <1>1, <1>5 DEF Walks, Begins, Leaves, Admits, Starts, Same, Frame
<1>6. ASSUME NEW t \in Threads, Enters(t)
      PROVE  tx' \in TxStates /\ th' \in [Threads -> ThreadStates] /\ Shaped' /\ turn' \in TurnStates
  <2>1. PICK r \in ThreadStates, s \in TxStates : /\ Moves(t, r) /\ turn' = turn
                                                 /\ tx' = WithLease(s, tx.readGen, th[t].op)
    BY <1>6 DEF Enters
  <2>2. tx' \in TxStates
    BY <1>0, <2>1, LeaseFields
  <2> QED
    BY <1>0, <1>1, <2>1, <2>2
<1>7. ASSUME NEW t \in Threads, Locks(t)
      PROVE  tx' \in TxStates /\ th' \in [Threads -> ThreadStates] /\ Shaped' /\ turn' \in TurnStates
  BY <1>0, <1>1, <1>7 DEF Locks
<1>8. ASSUME NEW n \in Natives, Answers(n) \/ LocksFor(n)
      PROVE  tx' \in TxStates /\ th' \in [Threads -> ThreadStates] /\ Shaped' /\ turn' \in TurnStates
  BY <1>0, <1>2, <1>8 DEF Answers, LocksFor, Frame
<1>9. ASSUME Abandons \/ Opens
      PROVE  tx' \in TxStates /\ th' \in [Threads -> ThreadStates] /\ Shaped' /\ turn' \in TurnStates
  <2>1. Unlocks /\ turn.who \in Threads /\ tx' \in TxStates
    BY <1>9 DEF Abandons, Opens, Owned, Frame
  <2>2. turn' \in TurnStates
    BY <1>3, <2>1 DEF Unlocks
  <2> QED
    BY <1>1, <1>2, <2>1, <2>2 DEF Unlocks
<1>10. ASSUME Claims, tx' \in TxStates
      PROVE  th' \in [Threads -> ThreadStates] /\ Shaped' /\ turn' \in TurnStates
  BY <1>0, <1>2, <1>10 DEF Claims, TurnStates
<1>11. ASSUME Passes
      PROVE  tx' \in TxStates /\ th' \in [Threads -> ThreadStates] /\ Shaped' /\ turn' \in TurnStates
  BY <1>0, <1>2, <1>11 DEF Passes, TurnStates, Same, Frame
<1> QED
  BY <1>4, <1>5, <1>6, <1>7, <1>8, <1>9, <1>10, <1>11 DEF Does

LEMMA Moved ==
  ASSUME TypeInv, NEW t \in Threads, NEW r, Moves(t, r)
  PROVE  /\ r \in ThreadStates /\ Shape(r) /\ th[t] \in ThreadStates /\ Shape(th[t])
         /\ th'[t] = r /\ \A x \in Threads : x # t => th'[x] = th[x]
BY DEF Moves, TypeInv, Shaped

LEMMA NativeIs ==
  /\ \A t \in Threads, n \in Natives : n = Native(t) <=> n[1] = t /\ n[2] = th[t].k
  /\ \A t \in Threads, k \in 0 .. MaxOps, n \in Natives : n = <<t, k>> <=> n[1] = t /\ n[2] = k
BY NativeParts DEF Native

\* One worker per commit, working for the incarnation of its caller.
LEMMA WorkedStep ==
  ASSUME TypeInv, Worked, Owned, Does
  PROVE  Worked'
<1>0. /\ th \in [Threads -> ThreadStates] /\ Shaped /\ turn \in TurnStates
      /\ \A t \in Threads : th[t].k \in Nat
  BY ConstantsAssumption DEF TypeInv, ThreadStates
<1>n. \A n \in Natives : n[1] \in Threads /\ n[2] \in Nat
  BY NativeParts
<1>1. CASE Stays
  BY <1>1, <1>n DEF Stays, Worked, Same, SameWork
<1>2. ASSUME NEW t \in Threads, Walks(t) PROVE Worked'
  <2>1. PICK r \in ThreadStates :
          /\ Moves(t, r) /\ SameWork(tx, tx') /\ r.k = th[t].k
          /\ th[t].pc \notin {"idle", "turnover"} /\ r.pc \notin {"await", "turnover"}
          /\ (th[t].lease => r.inc = th[t].inc)
          /\ (th[t].pc = "await" => r.pc = "idle")
          /\ (r.pc \in Admitted => th[t].pc \in {"admitted", "resolved", "barrier"})
    BY <1>2 DEF Walks, Same
  <2>2. th[t].pc \in {"admitted", "resolved", "barrier"} => r.inc = th[t].inc
    BY <2>1, <1>0 DEF Shaped, Shape, Leased
  <2>3. th'[t] = r /\ \A x \in Threads : x # t => th'[x] = th[x]
    BY <2>1, Moved
  <2> QED
    BY <1>n, <2>1, <2>2, <2>3 DEF Worked, SameWork, Admitted
<1>3. ASSUME NEW t \in Threads, Begins(t) PROVE Worked'
  <2>1. PICK r \in ThreadStates :
          /\ Moves(t, r) /\ SameWork(tx, tx') /\ r.k = th[t].k + 1
          /\ r.pc \in {"admit", "lock"}
    BY <1>3 DEF Begins, Same
  <2>3. th'[t] = r /\ \A x \in Threads : x # t => th'[x] = th[x]
    BY <2>1, Moved
  <2> QED
    BY <1>0, <1>n, <2>1, <2>3 DEF Worked, SameWork, Admitted
<1>4. ASSUME NEW t \in Threads, Enters(t) PROVE Worked'
  <2>1. PICK r \in ThreadStates, s \in TxStates :
          /\ Moves(t, r) /\ SameWork(tx, s) /\ tx' = WithLease(s, tx.readGen, th[t].op)
          /\ r.k = th[t].k /\ th[t].pc \notin {"idle", "await", "turnover"}
          /\ r.pc \notin {"idle", "await", "turnover"}
          /\ (r.pc \in Admitted => th[t].pc = "prepared" /\ th[t].inc = r.inc)
    BY <1>4 DEF Enters, Same
  <2>2. tx'.nat = s.nat
    BY <2>1 DEF WithLease, TxStates
  <2>3. th'[t] = r /\ \A x \in Threads : x # t => th'[x] = th[x]
    BY <2>1, Moved
  <2> QED
    BY <1>n, <2>1, <2>2, <2>3 DEF Worked, SameWork, Admitted
<1>5. ASSUME NEW t \in Threads, Leaves(t) PROVE Worked'
  <2> DEFINE s == WithoutLease(tx, th[t].inc, th[t].op)
  <2>1. PICK r \in ThreadStates :
          /\ Moves(t, r) /\ SameWork(s, tx') /\ th[t].lease
          /\ r.k = th[t].k /\ r.pc \in {"idle", "log", "lock", "prepared"}
          /\ (r.pc = "prepared" => th[t].pc = "admitted" /\ r.inc = th[t].inc)
    BY <1>5 DEF Leaves, Same
  <2>2. s.nat = tx.nat
    BY DEF WithoutLease, TxStates, TypeInv
  <2>3. th'[t] = r /\ \A x \in Threads : x # t => th'[x] = th[x]
    BY <2>1, Moved
  <2>4. th[t].pc \notin {"idle", "await"}
    BY <1>0, <2>1 DEF Shaped, Shape, Leased, Cleaning, Admitted
  <2> HIDE DEF s
  <2> QED
    BY <1>n, <2>1, <2>2, <2>3, <2>4 DEF Worked, SameWork, Admitted
<1>6. ASSUME NEW t \in Threads, Admits(t) PROVE Worked'
  <2>1. PICK r \in ThreadStates, c \in CommitRecords :
          /\ Moves(t, r) /\ Works(Native(t), c) /\ th[t].pc = "held" /\ r.pc = "admitted"
          /\ r.k = th[t].k /\ r.inc = th[t].inc /\ Native(t) \in Natives
          /\ c.pc = tx.nat[Native(t)].pc /\ c.inc = th[t].inc
          /\ c.ships = tx.nat[Native(t)].ships
    BY <1>6 DEF Admits
  <2>2. th'[t] = r /\ \A x \in Threads : x # t => th'[x] = th[x]
    BY <2>1, Moved
  <2>3. th[t].inc # Nil
    BY <1>0, <2>1 DEF Shaped, Shape, Leased
  <2> QED
    BY <1>n, <2>1, <2>2, <2>3, NativeIs DEF Worked, Works
<1>7. ASSUME NEW t \in Threads, Starts(t) PROVE Worked'
  <2>1. PICK r \in ThreadStates, c \in CommitRecords :
          /\ Moves(t, r) /\ Works(Native(t), c) /\ th[t].pc = "snapshot" /\ r.pc = "await"
          /\ r.k = th[t].k /\ Native(t) \in Natives
          /\ c.pc = "io" /\ c.inc = tx.nat[Native(t)].inc
    BY <1>7 DEF Starts
  <2>2. th'[t] = r /\ \A x \in Threads : x # t => th'[x] = th[x]
    BY <2>1, Moved
  <2>3. th[t].inc # Nil
    BY <1>0, <2>1 DEF Shaped, Shape, Leased
  <2>4. c.inc # Nil
    BY <2>1, <2>3, NativeIs DEF Worked, Admitted
  <2> QED
    BY <1>n, <2>1, <2>2, <2>4, NativeIs DEF Worked, Works, Admitted
<1>8. ASSUME NEW t \in Threads, Locks(t) PROVE Worked'
  <2>1. PICK r \in ThreadStates :
          /\ Moves(t, r) /\ tx' = tx /\ th[t].pc = "lock" /\ r.pc = "turnover" /\ r.k = th[t].k
    BY <1>8 DEF Locks
  <2>2. th'[t] = r /\ \A x \in Threads : x # t => th'[x] = th[x]
    BY <2>1, Moved
  <2> QED
    BY <1>n, <2>1, <2>2 DEF Worked, Admitted
<1>9. ASSUME NEW m \in Natives, Answers(m) \/ LocksFor(m) PROVE Worked'
  <2>1. PICK c \in CommitRecords :
          /\ th' = th /\ Works(m, c) /\ tx.nat[m].pc # "none" /\ c.pc # "none"
          /\ c.inc = tx.nat[m].inc
    BY <1>9 DEF Answers, LocksFor
  <2> QED
    BY <1>n, <2>1 DEF Worked, Works
<1>10. CASE Unlocks
  <2>0. turn.who \in Threads /\ turn.k \in 0 .. MaxOps
    BY <1>0, <1>10 DEF Unlocks, Owned, TurnStates
  <2>1. CASE turn.k = 0
    <3>1. PICK r \in ThreadStates :
            /\ Moves(turn.who, r) /\ r.pc \in {"idle", "fail"} /\ r.k = th[turn.who].k
            /\ SameWork(tx, tx')
      BY <1>10, <2>1 DEF Unlocks
    <3>2. th'[turn.who] = r /\ \A x \in Threads : x # turn.who => th'[x] = th[x]
      BY <2>0, <3>1, Moved
    <3>3. th[turn.who].pc = "turnover"
      BY <1>10, <2>1 DEF Unlocks, Owned
    <3> QED
      BY <1>n, <2>0, <3>1, <3>2, <3>3 DEF Worked, SameWork, Admitted
  <2>2. CASE turn.k # 0
    <3>1. PICK c \in CommitRecords :
            /\ th' = th /\ Works(<<turn.who, turn.k>>, c)
            /\ c.pc = "delivered" /\ c.inc = tx.nat[<<turn.who, turn.k>>].inc
      BY <1>10, <2>2 DEF Unlocks
    <3>2. tx.nat[<<turn.who, turn.k>>].pc = "turnover"
      BY <1>10, <2>2 DEF Unlocks, Owned
    <3> DEFINE m == <<turn.who, turn.k>>
    <3>3. m \in Natives
      BY <2>0, <2>2, NativeParts
    <3> HIDE DEF m
    <3>4. th' = th /\ Works(m, c) /\ c.pc = "delivered" /\ c.inc = tx.nat[m].inc
            /\ tx.nat[m].pc = "turnover"
      BY <3>1, <3>2 DEF m
    <3> QED
      BY <1>n, <3>3, <3>4 DEF Worked, Works
  <2> QED
    BY <2>1, <2>2
<1>11. CASE Claims \/ Passes
  BY <1>11, <1>n DEF Claims, Passes, Worked, Same, SameWork
<1> QED
  BY <1>1, <1>2, <1>3, <1>4, <1>5, <1>6, <1>7, <1>8, <1>9, <1>10, <1>11 DEF Does, Abandons, Opens

\* resetMu has one owner.
LEMMA OwnedStep ==
  ASSUME TypeInv, Worked, Owned, Does
  PROVE  Owned'
<1>0. /\ th \in [Threads -> ThreadStates] /\ Shaped /\ turn \in TurnStates
  BY DEF TypeInv
<1>n. \A n \in Natives : n[1] \in Threads /\ n[2] \in Nat /\ n[2] # 0
  BY NativeParts
<1>m. turn.pc # "free" /\ turn.k # 0 => <<turn.who, turn.k>> \in Natives
  BY <1>0, NativeParts DEF TurnStates, Owned
<1>1. CASE Stays
  BY <1>1, <1>n, <1>m DEF Stays, Owned, Same, SameWork
<1>2. ASSUME NEW t \in Threads, NEW r \in ThreadStates, Moves(t, r), turn' = turn,
             th[t].pc # "turnover", r.pc # "turnover",
             \A n \in Natives : \/ tx'.nat[n].pc = tx.nat[n].pc
                                \/ tx'.nat[n].pc # "turnover" /\ tx.nat[n].pc # "turnover"
      PROVE  Owned'
  <2>1. th'[t] = r /\ \A x \in Threads : x # t => th'[x] = th[x]
    BY <1>2, Moved
  <2> QED
    BY <1>2, <1>n, <1>m, <2>1 DEF Owned
<1>3. ASSUME NEW t \in Threads, Walks(t) \/ Begins(t) PROVE Owned'
  BY <1>2, <1>3 DEF Walks, Begins, Same, SameWork
<1>4. ASSUME NEW t \in Threads, Enters(t) PROVE Owned'
  <2>1. PICK r \in ThreadStates, s \in TxStates :
          /\ Moves(t, r) /\ SameWork(tx, s) /\ tx' = WithLease(s, tx.readGen, th[t].op)
          /\ turn' = turn /\ th[t].pc # "turnover" /\ r.pc # "turnover"
    BY <1>4 DEF Enters, Same
  <2>2. tx'.nat = s.nat
    BY <2>1 DEF WithLease, TxStates
  <2> QED
    BY <1>2, <2>1, <2>2 DEF SameWork
<1>5. ASSUME NEW t \in Threads, Leaves(t) PROVE Owned'
  <2> DEFINE s == WithoutLease(tx, th[t].inc, th[t].op)
  <2>1. PICK r \in ThreadStates :
          /\ Moves(t, r) /\ SameWork(s, tx') /\ th[t].lease /\ turn' = turn
          /\ r.pc \in {"idle", "log", "lock", "prepared"}
    BY <1>5 DEF Leaves, Same
  <2>2. s.nat = tx.nat
    BY DEF WithoutLease, TxStates, TypeInv
  <2>4. th[t].pc # "turnover"
    BY <1>0, <2>1 DEF Shaped, Shape, Leased, Cleaning, Admitted
  <2> HIDE DEF s
  <2> QED
    BY <1>2, <2>1, <2>2, <2>4 DEF SameWork
<1>6. ASSUME NEW t \in Threads, Admits(t) PROVE Owned'
  <2>1. PICK r \in ThreadStates, c \in CommitRecords :
          /\ Moves(t, r) /\ Works(Native(t), c) /\ th[t].pc = "held" /\ r.pc = "admitted"
          /\ turn' = turn /\ c.pc = tx.nat[Native(t)].pc
    BY <1>6 DEF Admits
  <2>2. \A n \in Natives : tx'.nat[n].pc = tx.nat[n].pc
    BY <2>1 DEF Works
  <2> QED
    BY <1>2, <2>1, <2>2
<1>7. ASSUME NEW t \in Threads, Starts(t) PROVE Owned'
  <2>1. PICK r \in ThreadStates, c \in CommitRecords :
          /\ Moves(t, r) /\ Works(Native(t), c) /\ th[t].pc = "snapshot" /\ r.pc = "await"
          /\ turn' = turn /\ c.pc = "io" /\ Native(t) \in Natives
    BY <1>7 DEF Starts
  <2>2. tx.nat[Native(t)].pc = "none"
    BY <2>1, NativeIs DEF Worked
  <2>3. \A n \in Natives : \/ tx'.nat[n].pc = tx.nat[n].pc
                           \/ tx'.nat[n].pc # "turnover" /\ tx.nat[n].pc # "turnover"
    BY <2>1, <2>2 DEF Works
  <2> QED
    BY <1>2, <2>1, <2>3
<1>8. ASSUME NEW t \in Threads, Locks(t) PROVE Owned'
  <2>1. PICK r \in ThreadStates :
          /\ Moves(t, r) /\ tx' = tx /\ th[t].pc = "lock" /\ r.pc = "turnover"
          /\ r.op = th[t].op /\ turn.pc = "free" /\ turn'.pc = "claim"
          /\ turn'.by = th[t].op /\ turn'.who = t /\ turn'.k = 0 /\ turn'.exp = th[t].inc
    BY <1>8 DEF Locks
  <2>2. th'[t] = r /\ \A x \in Threads : x # t => th'[x] = th[x]
    BY <2>1, Moved
  <2>3. th[t].op \in {"reset", "commit", "onerror"} /\ (th[t].op # "reset" => th[t].inc # Nil)
    BY <1>0, <2>1 DEF Shaped, Shape, Captures
  <2> QED
    BY <1>n, <2>1, <2>2, <2>3 DEF Owned
<1>9. ASSUME NEW m \in Natives, Answers(m) PROVE Owned'
  <2>1. PICK c \in CommitRecords :
          /\ th' = th /\ turn' = turn /\ Works(m, c)
          /\ tx.nat[m].pc = "io" /\ c.pc \in {"lock", "delivered"}
    BY <1>9 DEF Answers
  <2> QED
    BY <1>n, <1>m, <2>1 DEF Owned, Works
<1>10. ASSUME NEW m \in Natives, LocksFor(m) PROVE Owned'
  <2>1. PICK c \in CommitRecords :
          /\ th' = th /\ Works(m, c) /\ tx.nat[m].pc = "lock" /\ c.pc = "turnover"
          /\ turn.pc = "free" /\ turn'.pc = "claim" /\ turn'.by = "commit"
          /\ turn'.who = m[1] /\ turn'.k = m[2] /\ turn'.exp = tx.nat[m].inc
    BY <1>10 DEF LocksFor
  <2>2. m = <<m[1], m[2]>>
    BY NativeParts
  <2>3. turn'.exp # Nil
    BY <2>1 DEF Worked
  <2>4. \A n \in Natives : tx'.nat[n].pc = IF n = m THEN "turnover" ELSE tx.nat[n].pc
    BY <2>1 DEF Works
  <2>5. <<turn'.who, turn'.k>> = m
    BY <2>1, <2>2
  <2> QED
    BY <1>n, <2>1, <2>3, <2>4, <2>5 DEF Owned
<1>11. CASE Unlocks
  <2>0. turn.who \in Threads /\ turn.k \in 0 .. MaxOps /\ turn'.pc = "free"
    BY <1>0, <1>11 DEF Unlocks, Owned, TurnStates, NoTurn
  <2>1. CASE turn.k = 0
    <3>1. PICK r \in ThreadStates :
            /\ Moves(turn.who, r) /\ r.pc \in {"idle", "fail"} /\ SameWork(tx, tx')
      BY <1>11, <2>1 DEF Unlocks
    <3>2. th'[turn.who] = r /\ \A x \in Threads : x # turn.who => th'[x] = th[x]
      BY <2>0, <3>1, Moved
    <3> QED
      BY <1>n, <2>0, <2>1, <3>1, <3>2 DEF Owned, SameWork
  <2>2. CASE turn.k # 0
    <3> DEFINE m == <<turn.who, turn.k>>
    <3>1. PICK c \in CommitRecords : th' = th /\ Works(m, c) /\ c.pc = "delivered"
      BY <1>11, <2>2 DEF Unlocks
    <3>2. \A n \in Natives : n = m <=> n[1] = turn.who /\ n[2] = turn.k
      BY <2>0, NativeIs
    <3> HIDE DEF m
    <3> QED
      BY <1>n, <2>0, <2>2, <3>1, <3>2 DEF Owned, Works
  <2> QED
    BY <2>1, <2>2
<1>12. CASE Claims \/ Passes
  <2>1. th' = th /\ SameWork(tx, tx')
    BY <1>12 DEF Claims, Passes, Same
  <2>2. turn.pc # "free" /\ turn'.pc # "free" /\ turn'.who = turn.who /\ turn'.by = turn.by
          /\ turn'.k = turn.k /\ turn'.exp = turn.exp
    BY <1>0, <1>12 DEF Claims, Passes, TurnStates
  <2> QED
    BY <1>n, <1>m, <2>1, <2>2 DEF Owned, SameWork
<1> QED
  BY <1>1, <1>3, <1>4, <1>5, <1>6, <1>7, <1>8, <1>9, <1>10, <1>11, <1>12 DEF Does, Abandons, Opens

\* All steps but the claim and the end of a turnover.
Within ==
  \/ Stays
  \/ \E t \in Threads : \/ Walks(t) \/ Begins(t) \/ Enters(t) \/ Leaves(t)
                        \/ Admits(t) \/ Starts(t) \/ Locks(t)
  \/ \E n \in Natives : Answers(n) \/ LocksFor(n)
  \/ Abandons \/ Passes

KeepsGen ==
  /\ tx'.readGen = tx.readGen /\ (tx'.readReady = "nil" <=> tx.readReady = "nil")
  /\ tx'.readLife \in {tx.readLife, tx.readGen}
  /\ tx'.arm >= tx.arm
  /\ tx'.armed => (tx'.arm > tx.arm /\ tx.readReady = "nil") \/ (tx'.arm = tx.arm /\ tx.armed)

LEMMA WithinKeepsGen ==
  ASSUME TypeInv, Within
  PROVE  KeepsGen
<1>0. tx \in TxStates /\ th \in [Threads -> ThreadStates] /\ tx.readGen \in Gens /\ Shaped
        /\ Frame(tx, tx)
  BY SameRefl DEF TypeInv, TxStates, Same
<1>1. Frame(tx, tx') => KeepsGen
  BY DEF Frame, KeepsGen
<1>2. CASE Stays \/ Abandons \/ Passes
  BY <1>1, <1>2 DEF Stays, Abandons, Passes, Same
<1>3. ASSUME NEW t \in Threads, Walks(t) \/ Begins(t) \/ Admits(t) \/ Locks(t) PROVE KeepsGen
  BY <1>0, <1>1, <1>3 DEF Walks, Begins, Admits, Locks, Same
<1>4. ASSUME NEW n \in Natives, Answers(n) \/ LocksFor(n) PROVE KeepsGen
  BY <1>1, <1>4 DEF Answers, LocksFor
<1>5. ASSUME NEW t \in Threads, Enters(t) PROVE KeepsGen
  <2>1. PICK s \in TxStates : Frame(tx, s) /\ tx' = WithLease(s, tx.readGen, th[t].op)
    BY <1>5 DEF Enters, Same
  <2>2. tx'.readGen = s.readGen /\ tx'.readReady = s.readReady /\ tx'.readLife = s.readLife
          /\ tx'.arm = s.arm /\ tx'.armed = s.armed
    BY <2>1 DEF WithLease, TxStates
  <2> QED
    BY <2>1, <2>2 DEF Frame, KeepsGen
<1>6. ASSUME NEW t \in Threads, Leaves(t) \/ Starts(t) PROVE KeepsGen
  <2> DEFINE s == WithoutLease(tx, th[t].inc, th[t].op)
  <2>1. Frame(s, tx')
    BY <1>6 DEF Leaves, Starts, Same
  <2>2. tx.readGen = s.readGen /\ tx.readReady = s.readReady /\ tx.readLife = s.readLife
          /\ tx.arm = s.arm /\ tx.armed = s.armed
    BY <1>0 DEF WithoutLease, TxStates
  <2> HIDE DEF s
  <2> QED
    BY <2>1, <2>2 DEF Frame, KeepsGen
<1> QED
  BY <1>2, <1>3, <1>4, <1>5, <1>6 DEF Within

\* The generations that are left are enough for the calls that are left.
LEMMA BudgetStep ==
  ASSUME TypeInv, Worked, Owned, Budget, Does
  PROVE  Budget'
<1>0. /\ th \in [Threads -> ThreadStates] /\ Shaped /\ turn \in TurnStates
      /\ \A t \in Threads : th[t].k \in Nat
  BY ConstantsAssumption DEF TypeInv, ThreadStates
<1>n. \A n \in Natives : n[1] \in Threads /\ n[2] \in Nat /\ n[2] # 0
  BY NativeParts
<1>g. tx.readGen \in Nat
  BY GensNat DEF TypeInv, TxStates
<1>a. ASSUME tx'.readGen = tx.readGen, \A n \in Natives : MayTurn(n)' => MayTurn(n)
      PROVE  Budget'
  <2>1. Open' \subseteq Open
    BY <1>a DEF Open
  <2>2. Cardinality(Open') <= Cardinality(Open) /\ Cardinality(Open') \in Nat
    BY <2>1, NativesFinite, FS_Subset, FS_CardinalityType
  <2> QED
    BY <1>a, <1>g, <2>2, NativesFinite DEF Budget
\* A step of one goroutine towards its end.
<1>b. ASSUME NEW t \in Threads, NEW r \in ThreadStates, Moves(t, r), turn' = turn,
             tx'.readGen = tx.readGen,
             \/ r.k = th[t].k + 1
             \/ r.k = th[t].k /\ (r.pc \notin {"idle", "await", "turnover"} =>
                                    th[t].pc \notin {"idle", "await", "turnover"}),
             r.pc # "turnover",
             \A n \in Natives : \/ tx'.nat[n].pc = tx.nat[n].pc
                                \/ n = Native(t) /\ th[t].pc = "snapshot"
      PROVE  Budget'
  <2>1. th'[t] = r /\ \A x \in Threads : x # t => th'[x] = th[x]
    BY <1>b, Moved
  <2>2. ASSUME NEW n \in Natives, MayTurn(n)' PROVE MayTurn(n)
    <3>1. CASE n[1] # t
      BY <1>b, <1>n, <2>1, <2>2, <3>1, NativeIs DEF MayTurn
    <3>2. CASE n[1] = t /\ n[2] > th[t].k
      BY <3>2 DEF MayTurn
    <3>3. CASE n[1] = t /\ n[2] = th[t].k /\ th[t].pc = "snapshot"
      BY <3>3 DEF MayTurn
    <3>4. CASE n[1] = t /\ ~(n[2] > th[t].k) /\ ~(n[2] = th[t].k /\ th[t].pc = "snapshot")
      <4>1. tx'.nat[n].pc = tx.nat[n].pc
        BY <1>b, <3>4, NativeIs
      <4> QED
        BY <1>0, <1>b, <1>n, <2>1, <2>2, <3>4, <4>1 DEF MayTurn
    <3> QED
      BY <3>1, <3>2, <3>3, <3>4
  <2> QED
    BY <1>a, <1>b, <2>2
<1>1. CASE Stays
  <2>1. tx'.readGen = tx.readGen
    BY <1>1 DEF Stays, Same, Frame
  <2>2. \A n \in Natives : MayTurn(n)' => MayTurn(n)
    BY <1>1, <1>n DEF Stays, Same, SameWork, MayTurn
  <2> QED
    BY <1>a, <2>1, <2>2
<1>k. ASSUME Within PROVE tx'.readGen = tx.readGen
  BY <1>k, WithinKeepsGen DEF KeepsGen
<1>2. ASSUME NEW t \in Threads, Walks(t) PROVE Budget'
  <2>1. tx'.readGen = tx.readGen
    BY <1>2, <1>k DEF Within
  <2>2. PICK r \in ThreadStates :
          /\ Moves(t, r) /\ turn' = turn /\ SameWork(tx, tx') /\ r.k = th[t].k
          /\ th[t].pc \notin {"idle", "turnover"} /\ r.pc \notin {"await", "turnover"}
          /\ (th[t].pc = "await" => r.pc = "idle")
    BY <1>2 DEF Walks, Same
  <2> QED
    BY <1>b, <2>1, <2>2 DEF SameWork
<1>3. ASSUME NEW t \in Threads, Begins(t) PROVE Budget'
  <2>1. tx'.readGen = tx.readGen
    BY <1>3, <1>k DEF Within
  <2> QED
    BY <1>3, <1>b, <2>1 DEF Begins, Same, SameWork
<1>4. ASSUME NEW t \in Threads, Enters(t) PROVE Budget'
  <2>0. tx'.readGen = tx.readGen
    BY <1>4, <1>k DEF Within
  <2>1. PICK r \in ThreadStates, s \in TxStates :
          /\ Moves(t, r) /\ SameWork(tx, s) /\ tx' = WithLease(s, tx.readGen, th[t].op)
          /\ turn' = turn /\ r.k = th[t].k /\ th[t].pc \notin {"idle", "await", "turnover"}
          /\ r.pc # "turnover"
    BY <1>4 DEF Enters, Same
  <2>2. tx'.nat = s.nat
    BY <2>1 DEF WithLease, TxStates
  <2> QED
    BY <1>b, <2>0, <2>1, <2>2 DEF SameWork
<1>5. ASSUME NEW t \in Threads, Leaves(t) PROVE Budget'
  <2> DEFINE s == WithoutLease(tx, th[t].inc, th[t].op)
  <2>0. tx'.readGen = tx.readGen
    BY <1>5, <1>k DEF Within
  <2>1. PICK r \in ThreadStates :
          /\ Moves(t, r) /\ SameWork(s, tx') /\ th[t].lease /\ turn' = turn
          /\ r.k = th[t].k /\ r.pc \in {"idle", "log", "lock", "prepared"}
          /\ (r.pc = "prepared" => th[t].pc = "admitted" /\ r.inc = th[t].inc)
    BY <1>5 DEF Leaves, Same
  <2>2. s.nat = tx.nat
    BY DEF WithoutLease, TxStates, TypeInv
  <2>4. th[t].pc \notin {"idle", "await", "turnover"}
    BY <1>0, <2>1 DEF Shaped, Shape, Leased, Cleaning, Admitted
  <2> HIDE DEF s
  <2> QED
    BY <1>b, <2>0, <2>1, <2>2, <2>4 DEF SameWork
<1>6. ASSUME NEW t \in Threads, Admits(t) PROVE Budget'
  <2>0. tx'.readGen = tx.readGen
    BY <1>6, <1>k DEF Within
  <2>1. PICK r \in ThreadStates, c \in CommitRecords :
          /\ Moves(t, r) /\ Works(Native(t), c) /\ th[t].pc = "held" /\ r.pc = "admitted"
          /\ turn' = turn /\ c.pc = tx.nat[Native(t)].pc /\ r.k = th[t].k
    BY <1>6 DEF Admits
  <2>2. \A n \in Natives : tx'.nat[n].pc = tx.nat[n].pc
    BY <2>1 DEF Works
  <2> QED
    BY <1>b, <2>0, <2>1, <2>2
<1>7. ASSUME NEW t \in Threads, Starts(t) PROVE Budget'
  <2>0. tx'.readGen = tx.readGen
    BY <1>7, <1>k DEF Within
  <2>1. PICK r \in ThreadStates, c \in CommitRecords :
          /\ Moves(t, r) /\ Works(Native(t), c) /\ th[t].pc = "snapshot" /\ r.pc = "await"
          /\ turn' = turn /\ r.k = th[t].k
    BY <1>7 DEF Starts
  <2>2. \A n \in Natives : n # Native(t) => tx'.nat[n].pc = tx.nat[n].pc
    BY <2>1 DEF Works
  <2> QED
    BY <1>b, <2>0, <2>1, <2>2
<1>8. ASSUME NEW t \in Threads, Locks(t) PROVE Budget'
  <2>1. PICK r \in ThreadStates :
          /\ Moves(t, r) /\ tx' = tx /\ th[t].pc = "lock" /\ r.pc = "turnover"
          /\ r.k = th[t].k /\ turn.pc = "free"
    BY <1>8 DEF Locks
  <2>2. th'[t] = r /\ \A x \in Threads : x # t => th'[x] = th[x]
    BY <2>1, Moved
  <2>3. \A n \in Natives : MayTurn(n)' => MayTurn(n)
    BY <1>n, <2>1, <2>2 DEF MayTurn, Owned
  <2> QED
    BY <1>a, <2>1, <2>3
<1>9. ASSUME NEW m \in Natives, Answers(m) PROVE Budget'
  <2>0. tx'.readGen = tx.readGen
    BY <1>9, <1>k DEF Within
  <2>1. PICK c \in CommitRecords :
          /\ th' = th /\ turn' = turn /\ Works(m, c)
          /\ tx.nat[m].pc = "io" /\ c.pc \in {"lock", "delivered"}
    BY <1>9 DEF Answers
  <2>2. \A n \in Natives : MayTurn(n)' => MayTurn(n)
    BY <1>n, <2>1 DEF MayTurn, Works
  <2> QED
    BY <1>a, <2>0, <2>2
<1>10. ASSUME NEW m \in Natives, LocksFor(m) PROVE Budget'
  <2>0. tx'.readGen = tx.readGen
    BY <1>10, <1>k DEF Within
  <2>1. PICK c \in CommitRecords :
          /\ th' = th /\ Works(m, c) /\ tx.nat[m].pc = "lock" /\ c.pc = "turnover"
          /\ turn.pc = "free"
    BY <1>10 DEF LocksFor
  <2>2. \A n \in Natives : MayTurn(n)' => MayTurn(n)
    BY <1>n, <2>1 DEF MayTurn, Works, Owned
  <2> QED
    BY <1>a, <2>0, <2>2
<1>11. CASE Abandons \/ Opens
  <2>0. turn.who \in Threads /\ turn.k \in 0 .. MaxOps /\ turn'.pc = "free" /\ turn.pc # "free"
          /\ Unlocks /\ tx'.readGen = tx.readGen
    BY <1>0, <1>11, <1>k DEF Unlocks, Owned, TurnStates, NoTurn, Abandons, Opens, Within
  <2>1. CASE turn.k = 0
    <3>1. PICK r \in ThreadStates :
            /\ Moves(turn.who, r) /\ r.pc \in {"idle", "fail"} /\ SameWork(tx, tx')
            /\ r.k = th[turn.who].k /\ (r.pc = "fail" => turn.pc = "claim")
      BY <2>0, <2>1 DEF Unlocks
    <3>2. th'[turn.who] = r /\ \A x \in Threads : x # turn.who => th'[x] = th[x]
      BY <2>0, <3>1, Moved
    <3>3. th[turn.who].pc = "turnover"
      BY <2>0, <2>1 DEF Owned
    <3>4. \A n \in Natives : MayTurn(n)' => MayTurn(n)
      BY <1>n, <2>0, <3>1, <3>2, <3>3 DEF SameWork, MayTurn
    <3> QED
      BY <1>a, <2>0, <3>4
  <2>2. CASE turn.k # 0
    <3> DEFINE m == <<turn.who, turn.k>>
    <3>1. PICK c \in CommitRecords : th' = th /\ Works(m, c) /\ c.pc = "delivered"
      BY <2>0, <2>2 DEF Unlocks
    <3> HIDE DEF m
    <3>2. \A n \in Natives : MayTurn(n)' => MayTurn(n)
      BY <1>n, <2>0, <3>1 DEF Works, MayTurn
    <3> QED
      BY <1>a, <2>0, <3>2
  <2> QED
    BY <2>1, <2>2
<1>12. CASE Passes
  <2>1. tx'.readGen = tx.readGen
    BY <1>12, <1>k DEF Within
  <2>2. th' = th /\ SameWork(tx, tx') /\ turn'.pc \in {"drain", "finish"}
    BY <1>0, <1>12 DEF Passes, Same, TurnStates
  <2>3. \A n \in Natives : MayTurn(n)' => MayTurn(n)
    BY <1>n, <2>2 DEF SameWork, MayTurn
  <2> QED
    BY <1>a, <2>1, <2>3
<1>13. CASE Claims
  <2>1. th' = th /\ turn.pc = "claim" /\ turn'.pc = "cancel" /\ SameWork(tx, tx')
          /\ tx'.readGen = tx.readGen + 1
    BY <1>0, <1>13 DEF Claims, TurnStates
  <2>0. PICK m \in Open : m = Claimant
    BY <2>1, ClaimantOpen
  <2>3. \A n \in Natives : MayTurn(n)' => MayTurn(n)
    BY <1>n, <2>1 DEF SameWork, MayTurn
  <2>4. ~MayTurn(m)'
    <3>0. turn.who \in Threads /\ turn.k \in 0 .. MaxOps /\ m \in Natives
      BY <1>0, <2>1 DEF Owned, TurnStates, Open
    <3>1. m[1] = turn.who /\ m[2] = IF turn.k = 0 THEN th[turn.who].k ELSE turn.k
      BY <2>0 DEF Claimant
    <3>2. CASE turn.k = 0
      <4>1. th[turn.who].pc = "turnover" /\ tx.nat[m].pc = "none"
        BY <2>1, <3>0, <3>1, <3>2 DEF Owned, Worked
      <4> QED
        BY <1>0, <2>1, <3>0, <3>1, <3>2, <4>1 DEF MayTurn, SameWork
    <3>3. CASE turn.k # 0
      <4>1. tx.nat[m].pc = "turnover"
        BY <2>0, <2>1, <3>3 DEF Owned, Claimant
      <4>2. ~(m[2] > th[turn.who].k)
              /\ (m[2] = th[turn.who].k => th[turn.who].pc \in {"idle", "await"})
        BY <3>0, <3>1, <4>1 DEF Worked
      <4> QED
        BY <2>1, <3>0, <3>1, <3>3, <4>1, <4>2 DEF MayTurn, SameWork
    <3> QED
      BY <3>2, <3>3
  <2>5. Open' \subseteq Open \ {m}
    BY <2>3, <2>4 DEF Open
  <2>6. Cardinality(Open \ {m}) = Cardinality(Open) - 1 /\ IsFiniteSet(Open \ {m})
    BY NativesFinite, FS_RemoveElement
  <2>7. Cardinality(Open') <= Cardinality(Open) - 1 /\ Cardinality(Open') \in Nat
    BY <2>5, <2>6, FS_Subset, FS_CardinalityType
  <2> QED
    BY <1>g, <2>1, <2>7, NativesFinite DEF Budget
<1> QED
  BY <1>1, <1>2, <1>3, <1>4, <1>5, <1>6, <1>7, <1>8, <1>9, <1>10, <1>11, <1>12, <1>13 DEF Does

\* Between the claim and the end of a turnover, and only there, the handle is
\* turning.
LEMMA WithinTurns ==
  ASSUME TypeInv, Phased, Within
  PROVE  /\ Turning' <=> Turning
         /\ Turning => turn'.old = turn.old
         /\ Current' = Current
<1>0. turn \in TurnStates
  BY DEF TypeInv
<1>1. (Turning' <=> Turning) /\ (Turning => turn'.old = turn.old)
  <2>1. ASSUME turn' = turn PROVE (Turning' <=> Turning) /\ (Turning => turn'.old = turn.old)
    BY <2>1 DEF Turning
  <2>2. CASE Stays
    BY <2>1, <2>2 DEF Stays
  <2>3. ASSUME NEW t \in Threads,
               Walks(t) \/ Begins(t) \/ Enters(t) \/ Leaves(t) \/ Admits(t) \/ Starts(t)
        PROVE  (Turning' <=> Turning) /\ (Turning => turn'.old = turn.old)
    BY <2>1, <2>3 DEF Walks, Begins, Enters, Leaves, Admits, Starts
  <2>4. ASSUME NEW n \in Natives, Answers(n)
        PROVE  (Turning' <=> Turning) /\ (Turning => turn'.old = turn.old)
    BY <2>1, <2>4 DEF Answers
  <2>5. CASE Abandons \/ (\E t \in Threads : Locks(t)) \/ (\E n \in Natives : LocksFor(n))
    <3>1. turn.pc \in {"free", "claim"} /\ turn'.pc \in {"free", "claim"}
      BY <2>5 DEF Abandons, Unlocks, NoTurn, Locks, LocksFor
    <3> QED
      BY <3>1 DEF Turning
  <2>6. CASE Passes
    <3>1. turn.pc \in {"cancel", "drain"} /\ turn'.pc \in {"drain", "finish"}
            /\ turn'.old = turn.old
      BY <1>0, <2>6 DEF Passes, TurnStates
    <3> QED
      BY <3>1 DEF Turning
  <2> QED
    BY <2>2, <2>3, <2>4, <2>5, <2>6 DEF Within
<1>2. tx'.readGen = tx.readGen
  BY WithinKeepsGen DEF KeepsGen
<1> QED
  BY <1>1, <1>2 DEF Current

\* Admission is closed exactly while a turnover is under way.
LEMMA PhasedStep ==
  ASSUME TypeInv, Phased, Does
  PROVE  Phased'
<1>0. turn \in TurnStates /\ tx.readGen \in Gens
  BY DEF TypeInv, TxStates
<1>1. CASE Within
  BY <1>1, WithinTurns, WithinKeepsGen DEF Phased, KeepsGen
<1>2. CASE Claims
  <2>1. turn'.pc = "cancel" /\ turn'.old = tx.readGen
    BY <1>0, <1>2 DEF Claims, TurnStates
  <2>2. tx'.readReady # "nil" /\ tx'.readLife = Nil /\ tx'.readGen = tx.readGen + 1
    BY <1>2 DEF Claims
  <2> QED
    BY <1>0, <2>1, <2>2 DEF Phased, Turning
<1>3. CASE Opens
  <2>1. turn'.pc = "free"
    BY <1>3 DEF Opens, Unlocks, NoTurn
  <2> QED
    BY <1>3, <2>1 DEF Opens, Phased, Turning
<1> QED
  BY <1>1, <1>2, <1>3 DEF Does, Within

\* Timer deliveries of the current arming.
LEMMA TimedStep ==
  ASSUME TypeInv, TypeInv', Phased, Timed, [Next]_vars, Does
  PROVE  Timed' /\ (ghost'.early => ghost.early)
<1>0. /\ tx.arm \in Nat /\ tx'.arm \in Nat /\ clock.popped \in SUBSET Nat /\ turn \in TurnStates
      /\ clock \in [expired : BOOLEAN, popped : SUBSET Nat] /\ ghost \in Ghosts
  BY DEF TypeInv, TxStates
<1>1. ASSUME clock' = clock, Within PROVE Timed'
  BY <1>0, <1>1, WithinTurns, WithinKeepsGen DEF Timed, Phased, KeepsGen
<1>2. CASE /\ clock' = clock /\ ghost'.early = ghost.early
           /\ \/ \E t \in Threads : Step(t) \/ ReadReply(t) \/ CallerDone(t) \/ CommitRejected(t)
                                      \/ \E op \in Ops[t] : Call(t, op)
              \/ \E n \in Natives : LockNative(n) \/ \E o \in Outcomes : NativeIo(n, o)
              \/ Turnover \/ (\E g \in Gens : DeliverTimeout(g)) \/ Quiet \/ UNCHANGED vars
  <2>1. CASE Within
    BY <1>1, <1>2, <2>1
  <2>2. CASE Claims
    <3>1. ~tx'.armed /\ tx'.arm >= tx.arm
      BY <2>2 DEF Claims
    <3> QED
      BY <1>0, <1>2, <3>1 DEF Timed
  <2>3. CASE Opens
    <3>1. Turning /\ ~Turning' /\ tx'.arm >= tx.arm /\ (tx'.armed => tx'.arm > tx.arm \/ tx.armed)
      BY <2>3 DEF Opens, Turning, Unlocks, NoTurn
    <3> QED
      BY <1>0, <1>2, <3>1 DEF Timed
  <2> QED
    BY <1>2, <2>1, <2>2, <2>3 DEF Does, Within
<1>3. CASE Expire \/ PopTimeout
  <2>1. tx' = tx /\ turn' = turn /\ ghost' = ghost /\ clock'.expired
          /\ clock'.popped \subseteq clock.popped \cup {tx.arm}
    BY <1>0, <1>3 DEF Expire, PopTimeout
  <2> QED
    BY <1>0, <2>1 DEF Timed, Turning
<1>4. ASSUME NEW a \in clock.popped, fireTimeout(a) PROVE Timed' /\ (ghost'.early => ghost.early)
  <2>1. clock'.popped \subseteq clock.popped /\ clock'.expired = clock.expired
    BY <1>0, <1>4 DEF fireTimeout
  <2>2. Stays
    BY <1>4, StaySteps
  <2>3. KeepsGen /\ (Turning' <=> Turning)
    BY <2>2, WithinTurns, WithinKeepsGen DEF Within
  <2>4. Timed'
    BY <1>0, <2>1, <2>3 DEF Timed, Phased, KeepsGen
  <2>5. tx' # tx => clock.expired
    BY <1>4 DEF fireTimeout, ArmCurrent, Timed
  <2>6. ghost'.early = (ghost.early \/ (tx' # tx /\ ~clock.expired))
    BY <1>0, <1>4 DEF fireTimeout, Ghosts
  <2> QED
    BY <2>4, <2>5, <2>6
<1>5. CASE Rebuild
  <2>1. turn'.pc = "finish" /\ turn.pc = "drain"
    BY <1>0, <1>5 DEF Rebuild, TurnStates
  <2>2. Within
    BY <1>5, PassesStep DEF Within
  <2>3. KeepsGen /\ Turning /\ Turning'
    BY <2>1, <2>2, WithinKeepsGen DEF Turning
  <2>4. clock'.popped = clock.popped /\ ghost' = ghost
    BY <1>0, <1>5 DEF Rebuild
  <2>5. ~tx'.armed
    BY <2>3 DEF Timed, KeepsGen, Phased
  <2> QED
    BY <1>0, <2>3, <2>4, <2>5 DEF Timed, KeepsGen
<1>6. CASE turnoverLocked
  <2>1. ghost'.early = ghost.early /\ clock' = clock
    BY <1>0, <1>6 DEF turnoverLocked, Ghosts
  <2> QED
    BY <1>2, <1>6, <2>1 DEF Turnover
<1>7. ASSUME NEW t \in Threads, Step(t)
      PROVE  Timed' /\ (ghost'.early => ghost.early)
  <2>1. clock' = clock /\ ghost' = ghost
    BY <1>7 DEF Step, Admit, AdmitRefused, AdmitWaits, ReadyClosed, Set, ReadInterrupted,
      CancelState, CancelRecord, CancelWatches, CancelReturns, admitCommit, PrepareCommit,
      Resolve, commitAdmitted, CommitFails, waitIssuedReads, CommitReadOnly, startNativeCommit, CommitReturns, LockThread,
      OnErrorRetry, OnErrorTerminal, OnErrorReenter, OnErrorTurnedOver, OnErrorSlept,
      OnErrorInterrupted, FailRecord, FailDeliver, CleanupEnter, CleanupWatches, OnErrorReturns
  <2> QED
    BY <1>2, <1>7, <2>1
<1>8. CASE TurnoverRefused \/ CancelOld \/ Finish
  BY <1>2, <1>8 DEF Turnover, TurnoverRefused, CancelOld, Finish
<1>9. ASSUME NEW n \in Natives, LockNative(n) \/ \E o \in Outcomes : NativeIo(n, o)
      PROVE  Timed' /\ (ghost'.early => ghost.early)
  BY <1>2, <1>9 DEF LockNative, NativeIo
<1>10. ASSUME NEW t \in Threads, ReadReply(t) \/ CallerDone(t) \/ CommitRejected(t)
                                  \/ \E op \in Ops[t] : Call(t, op)
       PROVE  Timed' /\ (ghost'.early => ghost.early)
  BY <1>2, <1>10 DEF ReadReply, CallerDone, CommitRejected, Call
<1>11. CASE (\E g \in Gens : DeliverTimeout(g)) \/ Quiet \/ UNCHANGED vars
  BY <1>2, <1>11 DEF DeliverTimeout, Quiet, vars
<1> QED
  BY <1>3, <1>4, <1>5, <1>6, <1>7, <1>8, <1>9, <1>10, <1>11 DEF Next, Turnover, Outside

LEMMA UsersFinite ==
  \A g : /\ IsFiniteSet(Users(g)) /\ IsFiniteSet(Issuers(g))
         /\ Cardinality(Users(g)) \in Nat /\ Cardinality(Issuers(g)) \in 0 .. Cardinality(Users(g))
<1> SUFFICES ASSUME NEW g
             PROVE  /\ IsFiniteSet(Users(g)) /\ IsFiniteSet(Issuers(g))
                    /\ Cardinality(Users(g)) \in Nat
                    /\ Cardinality(Issuers(g)) \in 0 .. Cardinality(Users(g))
  OBVIOUS
<1>1. IsFiniteSet(Users(g))
  BY ConstantsAssumption, FS_Subset DEF Users
<1>2. IsFiniteSet(Issuers(g)) /\ Cardinality(Issuers(g)) <= Cardinality(Users(g))
  BY <1>1, FS_Subset DEF Issuers
<1> QED
  BY <1>1, <1>2, FS_CardinalityType

Counts ==
  \A g \in Gens : tx.users[g] = Cardinality(Users(g)) /\ tx.issued[g] = Cardinality(Issuers(g))

\* A step that hands no lease out and takes none back.
LEMMA CountsKept ==
  ASSUME Counts, tx'.users = tx.users, tx'.issued = tx.issued,
         \A t \in Threads : /\ th'[t].lease <=> th[t].lease
                            /\ th[t].lease => th'[t].inc = th[t].inc /\ th'[t].op = th[t].op
  PROVE  Counts'
<1>1. ASSUME NEW g \in Gens PROVE Users(g)' = Users(g) /\ Issuers(g)' = Issuers(g)
  BY DEF Users, Issuers
<1> QED
  BY <1>1 DEF Counts

\* Taking a lease counts it.
LEMMA CountsEnter ==
  ASSUME TypeInv, Counts, NEW t \in Threads, Enters(t)
  PROVE  Counts' /\ tx'.users[tx.readGen] # 0
<1>1. PICK r \in ThreadStates, s \in TxStates :
        /\ Moves(t, r) /\ Frame(tx, s) /\ tx' = WithLease(s, tx.readGen, th[t].op)
        /\ ~th[t].lease /\ r.lease /\ r.inc = tx.readGen /\ r.op = th[t].op
  BY DEF Enters, Same
<1>2. th'[t] = r /\ \A x \in Threads : x # t => th'[x] = th[x]
  BY <1>1, Moved
<1> DEFINE q == tx.readGen
<1>3. q \in Gens /\ tx.users \in [Gens -> Int] /\ tx.issued \in [Gens -> Int]
  BY DEF TypeInv, TxStates
<1>4. /\ tx'.users = [tx.users EXCEPT ![q] = @ + 1]
      /\ tx'.issued = [tx.issued EXCEPT ![q] = IF Issued(th[t].op) THEN @ + 1 ELSE @]
  <2>1. s.users = tx.users /\ s.issued = tx.issued
    BY <1>1 DEF Frame
  <2> QED
    BY <1>1, <2>1 DEF WithLease, TxStates
<1> SUFFICES ASSUME NEW g \in Gens
             PROVE  /\ tx'.users[g] = Cardinality(Users(g)') /\ tx'.issued[g] = Cardinality(Issuers(g)')
                    /\ g = q => tx'.users[g] # 0
  BY <1>3 DEF Counts
<1> HIDE DEF q
<1>5. IsFiniteSet(Users(g)) /\ IsFiniteSet(Issuers(g)) /\ Cardinality(Users(g)) \in Nat
        /\ Cardinality(Issuers(g)) \in Nat
  BY UsersFinite
<1>6. tx.users[g] = Cardinality(Users(g)) /\ tx.issued[g] = Cardinality(Issuers(g))
  BY DEF Counts
<1>7. CASE g # q
  <2>1. Users(g)' = Users(g) /\ Issuers(g)' = Issuers(g)
    BY <1>1, <1>2, <1>7 DEF Users, Issuers, q
  <2> QED
    BY <1>3, <1>4, <1>6, <1>7, <2>1
<1>8. CASE g = q
  <2>1. Users(g)' = Users(g) \cup {t} /\ t \notin Users(g) /\ t \notin Issuers(g)
    BY <1>1, <1>2, <1>8 DEF Users, Issuers, q
  <2>2. Cardinality(Users(g)') = Cardinality(Users(g)) + 1
    BY <1>5, <2>1, FS_AddElement
  <2>3. Issuers(g)' = IF Issued(th[t].op) THEN Issuers(g) \cup {t} ELSE Issuers(g)
    BY <1>1, <1>2, <1>8, <2>1 DEF Users, Issuers, q
  <2>4. Cardinality(Issuers(g) \cup {t}) = Cardinality(Issuers(g)) + 1
    BY <1>5, <2>1, FS_AddElement
  <2> QED
    BY <1>3, <1>4, <1>5, <1>6, <1>8, <2>2, <2>3, <2>4
<1> QED
  BY <1>7, <1>8

\* Giving a lease up uncounts it, and wakes the turnover only with the last.
LEMMA CountsLeave ==
  ASSUME TypeInv, Counts, NEW t \in Threads, Leaves(t) \/ Starts(t)
  PROVE  /\ Counts' /\ th[t].lease /\ ~th'[t].lease /\ th[t].inc \in Gens
         /\ \A x \in Threads : x # t => th'[x] = th[x]
         /\ tx.users[th[t].inc] # 0
         /\ tx'.drained[th[t].inc] # "open" /\ tx.drained[th[t].inc] = "open" =>
              tx'.users[th[t].inc] = 0
<1> DEFINE q == th[t].inc
           s == WithoutLease(tx, q, th[t].op)
<1>0. th \in [Threads -> ThreadStates] /\ Shaped /\ tx \in TxStates
  BY DEF TypeInv
<1>1. PICK r \in ThreadStates : Moves(t, r) /\ Frame(s, tx') /\ ~r.lease
  BY DEF Leaves, Starts, Same
<1>2. th'[t] = r /\ \A x \in Threads : x # t => th'[x] = th[x]
  BY <1>1, Moved
<1>3. th[t].lease
  BY <1>0 DEF Leaves, Starts, Shaped, Shape, Leased
<1>4. q \in Gens /\ tx.users \in [Gens -> Int] /\ tx.issued \in [Gens -> Int]
  BY <1>0, <1>3 DEF TxStates, ThreadStates, Shaped, Shape
<1>5. /\ tx'.users = [tx.users EXCEPT ![q] = @ - 1]
      /\ tx'.issued = [tx.issued EXCEPT ![q] = IF Issued(th[t].op) THEN @ - 1 ELSE @]
      /\ tx'.drained = [tx.drained EXCEPT ![q] =
                          IF tx.users[q] = 1 /\ @ = "open" THEN "closed" ELSE @]
  <2>1. tx'.users = s.users /\ tx'.issued = s.issued /\ tx'.drained = s.drained
    BY <1>1 DEF Frame
  <2> QED
    BY <1>0, <1>4, <2>1 DEF WithoutLease, TxStates
<1> HIDE DEF s
<1>6. ASSUME NEW g \in Gens
      PROVE  /\ tx'.users[g] = Cardinality(Users(g)') /\ tx'.issued[g] = Cardinality(Issuers(g)')
             /\ g = q => tx.users[g] # 0
  <2>5. IsFiniteSet(Users(g)) /\ IsFiniteSet(Issuers(g)) /\ Cardinality(Users(g)) \in Nat
          /\ Cardinality(Issuers(g)) \in Nat
    BY UsersFinite
  <2>6. tx.users[g] = Cardinality(Users(g)) /\ tx.issued[g] = Cardinality(Issuers(g))
    BY DEF Counts
  <2>7. CASE g # q
    <3>1. Users(g)' = Users(g) /\ Issuers(g)' = Issuers(g)
      BY <1>1, <1>2, <2>7 DEF Users, Issuers
    <3> QED
      BY <1>4, <1>5, <2>6, <2>7, <3>1
  <2>8. CASE g = q
    <3>1. Users(g)' = Users(g) \ {t} /\ t \in Users(g)
      BY <1>1, <1>2, <1>3, <2>8 DEF Users
    <3>2. Cardinality(Users(g)') = Cardinality(Users(g)) - 1
      BY <2>5, <3>1, FS_RemoveElement
    <3>3. Issuers(g)' = IF Issued(th[t].op) THEN Issuers(g) \ {t} ELSE Issuers(g)
      BY <1>1, <1>2, <3>1 DEF Users, Issuers
    <3>4. Issued(th[t].op) => Cardinality(Issuers(g) \ {t}) = Cardinality(Issuers(g)) - 1
      <4>1. Issued(th[t].op) => t \in Issuers(g)
        BY <3>1 DEF Issuers
      <4> QED
        BY <2>5, <4>1, FS_RemoveElement
    <3>5. Cardinality(Users(g)) # 0
      BY <2>5, <3>1, FS_EmptySet
    <3> QED
      BY <1>4, <1>5, <2>5, <2>6, <2>8, <3>2, <3>3, <3>4, <3>5
  <2> QED
    BY <2>7, <2>8
<1>7. Counts' /\ tx.users[q] # 0
  BY <1>4, <1>6 DEF Counts
<1>8. tx'.drained[q] # "open" /\ tx.drained[q] = "open" => tx'.users[q] = 0
  BY <1>0, <1>4, <1>5 DEF TxStates
<1> QED
  BY <1>1, <1>2, <1>3, <1>4, <1>7, <1>8

\* Leases are counted, and held on the current incarnation only.
LEMMA CountedStep ==
  ASSUME TypeInv, Owned, Phased, Counted, Does
  PROVE  Counted'
<1>0. /\ th \in [Threads -> ThreadStates] /\ Shaped /\ turn \in TurnStates /\ tx \in TxStates
      /\ Counts
  BY DEF TypeInv, Counted, Counts
<1>h. ASSUME \A t \in Threads : /\ th'[t].lease <=> th[t].lease
                                /\ th[t].lease => th'[t].inc = th[t].inc /\ th'[t].op = th[t].op,
             tx'.users = tx.users, tx'.issued = tx.issued,
             Current' = Current, turn'.pc # "finish" \/ turn'.pc = turn.pc,
             turn'.pc \in {"cancel", "drain"} =>
               /\ turn'.old \in Gens
               /\ tx'.drained[turn'.old] # "open" => tx.users[turn'.old] = 0
      PROVE  Counted'
  <2>1. Counts'
    BY <1>0, <1>h, CountsKept
  <2> QED
    BY <1>h, <2>1 DEF Counted, Counts
\* The same with turn and drained unchanged as well.
<1>s. ASSUME \A t \in Threads : /\ th'[t].lease <=> th[t].lease
                                /\ th[t].lease => th'[t].inc = th[t].inc /\ th'[t].op = th[t].op,
             Frame(tx, tx'), Current' = Current,
             turn' = turn \/ turn'.pc \in {"free", "claim"}
      PROVE  Counted'
  <2>1. tx'.users = tx.users /\ tx'.issued = tx.issued /\ tx'.drained = tx.drained
    BY <1>s DEF Frame
  <2>2. turn'.pc \in {"cancel", "drain"} => turn' = turn /\ Turning
    BY <1>s DEF Turning
  <2>3. turn'.pc \in {"cancel", "drain"} =>
               /\ turn'.old \in Gens
               /\ tx'.drained[turn'.old] # "open" => tx.users[turn'.old] = 0
    BY <2>1, <2>2 DEF Phased, Counted
  <2> QED
    BY <1>h, <1>s, <2>1, <2>3
<1>c. Within => Current' = Current
  BY WithinTurns
<1>1. CASE Stays
  <2>1. Current' = Current /\ th' = th /\ Frame(tx, tx') /\ turn' = turn
    BY <1>1, <1>c DEF Within, Stays, Same
  <2> QED
    BY <1>s, <2>1
<1>2. ASSUME NEW t \in Threads, Walks(t) \/ Begins(t) \/ Admits(t) \/ Locks(t) PROVE Counted'
  <2>0. Current' = Current
    BY <1>2, <1>c DEF Within
  <2>1. turn' = turn \/ turn'.pc \in {"free", "claim"}
    BY <1>2 DEF Walks, Begins, Admits, Locks
  <2>2. Frame(tx, tx')
    BY <1>0, <1>2, SameRefl DEF Walks, Begins, Admits, Locks, Same
  <2>3. PICK r \in ThreadStates : /\ Moves(t, r) /\ (r.lease <=> th[t].lease)
                                  /\ (th[t].lease => r.inc = th[t].inc /\ r.op = th[t].op)
    <3>1. th[t].pc = "idle" => ~th[t].lease
      BY <1>0 DEF Shaped, Shape, Leased, Cleaning, Admitted
    <3> QED
      BY <1>2, <3>1 DEF Walks, Begins, Admits, Locks
  <2>4. th'[t] = r /\ \A x \in Threads : x # t => th'[x] = th[x]
    BY <2>3, Moved
  <2> QED
    BY <1>s, <2>0, <2>1, <2>2, <2>3, <2>4
<1>3. ASSUME NEW t \in Threads, Enters(t) PROVE Counted'
  <2>0. Current' = Current
    BY <1>3, <1>c DEF Within
  <2>1. Counts'
    BY <1>0, <1>3, CountsEnter
  <2>2. tx.readReady = "nil" /\ turn' = turn
    BY <1>3 DEF Enters
  <2>3. ~Turning /\ Current = tx.readGen
    BY <2>2 DEF Phased, Current
  <2>4. PICK r \in ThreadStates : Moves(t, r) /\ r.inc = tx.readGen
    BY <1>3 DEF Enters
  <2>5. th'[t] = r /\ \A x \in Threads : x # t => th'[x] = th[x]
    BY <2>4, Moved
  <2>6. turn'.pc \notin {"cancel", "drain", "finish"}
    BY <2>2, <2>3 DEF Turning
  <2> QED
    BY <2>0, <2>1, <2>3, <2>4, <2>5, <2>6 DEF Counted, Counts
<1>4. ASSUME NEW t \in Threads, Leaves(t) \/ Starts(t) PROVE Counted'
  <2>0. Current' = Current /\ turn' = turn
    BY <1>4, <1>c DEF Within, Leaves, Starts
  <2>1. /\ Counts' /\ th[t].lease /\ ~th'[t].lease
        /\ \A x \in Threads : x # t => th'[x] = th[x]
        /\ tx.users[th[t].inc] # 0
        /\ tx'.drained[th[t].inc] # "open" /\ tx.drained[th[t].inc] = "open" =>
             tx'.users[th[t].inc] = 0
    BY <1>0, <1>4, CountsLeave
  <2>2. turn.pc \in {"cancel", "drain"} => turn.old = th[t].inc
    BY <2>1 DEF Counted, Current, Turning
  <2>3. \A x \in Threads : th'[x].lease => th'[x].inc = Current' /\ turn'.pc # "finish"
    BY <2>0, <2>1 DEF Counted
  <2>4. turn'.pc \in {"cancel", "drain"} /\ tx'.drained[turn'.old] # "open" =>
          tx'.users[turn'.old] = 0
    BY <2>0, <2>1, <2>2 DEF Counted
  <2> QED
    BY <2>1, <2>3, <2>4 DEF Counted, Counts
<1>5. ASSUME NEW n \in Natives, Answers(n) \/ LocksFor(n) PROVE Counted'
  <2>1. Current' = Current /\ th' = th /\ Frame(tx, tx')
          /\ (turn' = turn \/ turn'.pc \in {"free", "claim"})
    BY <1>5, <1>c DEF Within, Answers, LocksFor
  <2> QED
    BY <1>s, <2>1
<1>6. ASSUME Unlocks
      PROVE  \A t \in Threads : /\ th'[t].lease <=> th[t].lease
                                /\ th[t].lease => th'[t].inc = th[t].inc /\ th'[t].op = th[t].op
  <2>1. CASE turn.k # 0
    BY <1>6, <2>1 DEF Unlocks
  <2>2. CASE turn.k = 0
    <3>1. PICK r \in ThreadStates : Moves(turn.who, r) /\ ~r.lease
      BY <1>6, <2>2 DEF Unlocks
    <3>2. turn.who \in Threads /\ th[turn.who].pc = "turnover"
      BY <1>6, <2>2 DEF Unlocks, Owned
    <3>3. ~th[turn.who].lease
      BY <1>0, <3>2 DEF Shaped, Shape, Leased, Cleaning, Admitted
    <3>4. th'[turn.who] = r /\ \A x \in Threads : x # turn.who => th'[x] = th[x]
      BY <3>1, <3>2, Moved
    <3> QED
      BY <3>1, <3>3, <3>4
  <2> QED
    BY <2>1, <2>2
<1>7. CASE Abandons
  <2>1. Current' = Current /\ Frame(tx, tx') /\ turn'.pc = "free" /\ Unlocks
    BY <1>7, <1>c DEF Within, Abandons, Unlocks, NoTurn
  <2> QED
    BY <1>6, <1>s, <2>1
<1>8. CASE Opens
  <2>1. tx'.users = tx.users /\ tx'.issued = tx.issued /\ turn'.pc = "free" /\ Unlocks
          /\ turn.pc = "finish"
    BY <1>8 DEF Opens, Unlocks, NoTurn
  <2>2. Counts'
    BY <1>0, <1>6, <2>1, CountsKept
  <2>3. \A t \in Threads : ~th'[t].lease
    BY <1>6, <2>1 DEF Counted
  <2> QED
    BY <2>1, <2>2, <2>3 DEF Counted, Counts
<1>9. CASE Claims
  <2>1. /\ th' = th /\ turn.pc = "claim" /\ turn'.pc = "cancel" /\ turn'.old = tx.readGen
        /\ tx'.users = tx.users /\ tx'.issued = tx.issued
        /\ tx'.drained[tx.readGen] # "open" => tx.users[tx.readGen] = 0
    BY <1>0, <1>9 DEF Claims, TurnStates
  <2>2. Current' = Current /\ tx.readGen \in Gens
    BY <1>0, <2>1 DEF Current, Turning, TxStates
  <2> QED
    BY <1>h, <2>1, <2>2
<1>10. CASE Passes
  <2>0. Current' = Current /\ th' = th /\ turn'.old = turn.old /\ Frame(tx, tx')
    BY <1>0, <1>10, <1>c DEF Within, Passes, TurnStates, Same
  <2>1. tx'.users = tx.users /\ tx'.issued = tx.issued /\ tx'.drained = tx.drained
    BY <2>0 DEF Frame
  <2>2. CASE turn.pc = "cancel"
    <3>1. turn'.pc = "drain" /\ turn.old \in Gens
      BY <1>0, <1>10, <2>2 DEF Passes, TurnStates, Phased, Turning
    <3> QED
      BY <1>h, <2>0, <2>1, <2>2, <3>1 DEF Counted
  <2>3. CASE turn.pc = "drain"
    <3>1. turn'.pc = "finish" /\ turn.old \in Gens /\ tx.drained[turn.old] # "open"
      BY <1>0, <1>10, <2>3 DEF Passes, TurnStates, Phased, Turning, Drained
    <3>2. Cardinality(Users(turn.old)) = 0
      BY <2>3, <3>1 DEF Counted
    <3>3. Users(turn.old) = {}
      BY <3>2, UsersFinite, FS_EmptySet
    <3>4. \A t \in Threads : ~th[t].lease
      BY <2>3, <3>3 DEF Counted, Current, Turning, Users
    <3>5. Counts'
      BY <1>0, <2>0, <2>1, CountsKept
    <3> QED
      BY <2>0, <3>1, <3>4, <3>5 DEF Counted, Counts
  <2> QED
    BY <1>10, <2>2, <2>3 DEF Passes
<1> QED
  BY <1>1, <1>2, <1>3, <1>4, <1>5, <1>7, <1>8, <1>9, <1>10 DEF Does

-----------------------------------------------------------------------------
(* What the handle holds, and what the history remembers *)

Held == state.writes \cup state.reads \cup state.watches

\* Only the holder of a lease adds to what the handle holds, and adds nothing
\* but its own incarnation.
HeldGoesOn ==
  /\ state' \in StateFields /\ delivered' \subseteq Gens /\ ghost' \in Ghosts
  /\ clock' \in [expired : BOOLEAN, popped : SUBSET Nat]
  /\ Held' \subseteq Held \cup {Current}
  /\ turn.pc = "finish" => Held' \subseteq Held
  /\ turn'.pc = "finish" => turn.pc = "finish" \/ Held' = {}
  /\ StaleNeverRetires'

LEMMA HeldStep ==
  ASSUME TypeInv, Owned, Phased, Counted, StaleNeverRetires, [Next]_vars
  PROVE  HeldGoesOn
<1>0. /\ th \in [Threads -> ThreadStates] /\ Shaped /\ turn \in TurnStates /\ tx \in TxStates
      /\ state \in StateFields /\ delivered \subseteq Gens /\ ghost \in Ghosts
      /\ clock \in [expired : BOOLEAN, popped : SUBSET Nat]
  BY DEF TypeInv
<1>k. ASSUME state' = state, clock' = clock, ghost' = ghost, delivered' \subseteq Gens,
             turn' = turn \/ turn'.pc # "finish"
      PROVE  HeldGoesOn
  BY <1>0, <1>k DEF HeldGoesOn, Held, StaleNeverRetires
<1>s. ASSUME clock' = clock, ghost' = ghost, delivered' \subseteq Gens, turn' = turn,
             state' \in StateFields, Held' \subseteq Held
      PROVE  HeldGoesOn
  BY <1>0, <1>s DEF HeldGoesOn, StaleNeverRetires
<1>l. ASSUME NEW t \in Threads, th[t].pc = "held"
      PROVE  th[t].inc \in Gens /\ th[t].inc = Current /\ turn.pc # "finish"
  BY <1>0, <1>l DEF Shaped, Shape, Leased, ThreadStates, Counted
<1>e. /\ "active" \in {"active", "cancelled", "errored"} /\ "errored" \in {"active", "cancelled", "errored"}
      /\ \A x \in {"active", "cancelled", "errored"} :
           /\ [state EXCEPT !.status = x] \in StateFields
           /\ [state EXCEPT !.status = x].writes = state.writes
           /\ [state EXCEPT !.status = x].reads = state.reads
           /\ [state EXCEPT !.status = x].watches = state.watches
  BY <1>0 DEF StateFields
<1>1. ASSUME NEW t \in Threads, Set(t) PROVE HeldGoesOn
  <2>1. /\ th[t].pc = "held" /\ clock' = clock /\ ghost' = ghost /\ delivered' = delivered
        /\ turn' = turn /\ state' = [state EXCEPT !.writes = @ \cup {th[t].inc}]
    BY <1>1 DEF Set
  <2>2. th[t].inc \in Gens /\ th[t].inc = Current /\ turn.pc # "finish"
    BY <1>l, <2>1
  <2>3. state' \in StateFields /\ state'.writes = state.writes \cup {th[t].inc}
          /\ state'.reads = state.reads /\ state'.watches = state.watches
    BY <1>0, <2>1, <2>2 DEF StateFields
  <2> QED
    BY <1>0, <2>1, <2>2, <2>3 DEF HeldGoesOn, Held, StaleNeverRetires
<1>2. ASSUME NEW t \in Threads, ReadReply(t) PROVE HeldGoesOn
  <2> DEFINE w == IF th[t].op = "watch" THEN state.watches \cup {th[t].inc} ELSE state.watches
             rd == state.reads \cup {th[t].inc}
  <2>1. /\ th[t].pc = "held" /\ clock' = clock /\ ghost' = ghost /\ delivered' = delivered
        /\ turn' = turn /\ state' \in {state, [state EXCEPT !.reads = rd, !.watches = w]}
    BY <1>2 DEF ReadReply
  <2>2. th[t].inc \in Gens /\ th[t].inc = Current /\ turn.pc # "finish"
    BY <1>l, <2>1
  <2>3. rd \in SUBSET Gens /\ w \in SUBSET Gens /\ rd \subseteq state.reads \cup {Current}
          /\ w \subseteq state.watches \cup {Current}
    BY <1>0, <2>2 DEF StateFields
  <2> HIDE DEF w, rd
  <2>4. state' \in StateFields /\ state'.writes = state.writes
          /\ state'.reads \in {state.reads, rd} /\ state'.watches \in {state.watches, w}
    BY <1>0, <2>1, <2>3 DEF StateFields
  <2> QED
    BY <1>0, <2>1, <2>2, <2>3, <2>4 DEF HeldGoesOn, Held, StaleNeverRetires
<1>3. ASSUME NEW t \in Threads, CancelState(t) \/ OnErrorTerminal(t) \/ OnErrorInterrupted(t)
                                 \/ CommitRejected(t) \/ CallerDone(t)
      PROVE HeldGoesOn
  <2>1. /\ clock' = clock /\ ghost' = ghost /\ delivered' = delivered /\ turn' = turn
        /\ state' \in {state, [state EXCEPT !.status = "cancelled"], [state EXCEPT !.status = "errored"]}
    BY <1>3 DEF CancelState, OnErrorTerminal, OnErrorInterrupted, CommitRejected, CallerDone
  <2>2. state' \in StateFields /\ state'.writes = state.writes /\ state'.reads = state.reads
          /\ state'.watches = state.watches
    BY <1>0, <1>e, <2>1
  <2> QED
    BY <1>0, <1>s, <2>1, <2>2 DEF Held
<1>4. ASSUME NEW t \in Threads, CancelWatches(t) \/ CleanupWatches(t) PROVE HeldGoesOn
  <2>1. /\ clock' = clock /\ ghost' = ghost /\ turn' = turn /\ state' = [state EXCEPT !.watches = {}]
        /\ (delivered' = delivered \/ (delivered' = delivered \cup {th[t].inc} /\ th[t].pc = "cancelled"))
    BY <1>4 DEF CancelWatches, CleanupWatches, cancelWatches
  <2>2. state' \in StateFields /\ state'.writes = state.writes /\ state'.reads = state.reads
          /\ state'.watches = {}
    BY <1>0, <2>1 DEF StateFields
  <2>3. th[t].pc = "cancelled" => th[t].inc \in Gens
    BY <1>0 DEF Shaped, Shape, Leased, ThreadStates
  <2>4. delivered' \subseteq Gens
    BY <1>0, <2>1, <2>3
  <2>5. Held' \subseteq Held
    BY <2>2 DEF Held
  <2> QED
    BY <1>s, <2>1, <2>2, <2>4, <2>5
<1>5. ASSUME NEW t \in Threads, FailDeliver(t) PROVE HeldGoesOn
  <2>1. th[t].inc \in Gens
    BY <1>0, <1>5 DEF FailDeliver, Shaped, Shape, Cleaning, Admitted, Captures, ThreadStates
  <2> QED
    BY <1>0, <1>5, <1>k, <2>1 DEF FailDeliver
<1>6. ASSUME NEW t \in Threads,
             \/ Admit(t) \/ AdmitRefused(t) \/ AdmitWaits(t) \/ ReadyClosed(t) \/ ReadInterrupted(t)
             \/ CancelRecord(t) \/ CancelReturns(t) \/ admitCommit(t) \/ PrepareCommit(t)
             \/ Resolve(t) \/ commitAdmitted(t) \/ CommitFails(t) \/ waitIssuedReads(t)
             \/ CommitReadOnly(t) \/ startNativeCommit(t) \/ CommitReturns(t)
      PROVE  HeldGoesOn
  BY <1>0, <1>k, <1>6 DEF Admit, AdmitRefused, AdmitWaits, ReadyClosed, ReadInterrupted,
    CancelRecord, CancelReturns, admitCommit, PrepareCommit, Resolve, commitAdmitted,
    CommitFails, waitIssuedReads, CommitReadOnly, startNativeCommit, CommitReturns
<1>7. ASSUME NEW t \in Threads,
             \/ OnErrorRetry(t) \/ OnErrorReenter(t) \/ OnErrorTurnedOver(t) \/ OnErrorSlept(t)
             \/ FailRecord(t) \/ CleanupEnter(t) \/ OnErrorReturns(t)
             \/ \E op \in Ops[t] : Call(t, op)
      PROVE  HeldGoesOn
  BY <1>0, <1>k, <1>7 DEF OnErrorRetry, OnErrorReenter, OnErrorTurnedOver, OnErrorSlept,
    FailRecord, CleanupEnter, OnErrorReturns, Call
<1>8. ASSUME NEW t \in Threads, LockThread(t) PROVE HeldGoesOn
  BY <1>0, <1>k, <1>8 DEF LockThread, NoTurn
<1>9. ASSUME NEW n \in Natives, LockNative(n) \/ \E o \in Outcomes : NativeIo(n, o) PROVE HeldGoesOn
  <2>1. state' = state /\ clock' = clock /\ ghost' = ghost /\ delivered' = delivered
          /\ (turn' = turn \/ turn'.pc = "claim")
    BY <1>9 DEF LockNative, NativeIo, NoTurn
  <2> QED
    BY <1>0, <1>k, <2>1
<1>10. CASE TurnoverRefused \/ Finish
  <2>1. state' = state /\ clock' = clock /\ ghost' = ghost /\ delivered' = delivered
          /\ turn' = NoTurn
    BY <1>10, Zenon DEF TurnoverRefused, Finish
  <2>2. turn'.pc = "free"
    BY <2>1 DEF NoTurn
  <2> QED
    BY <1>0, <1>k, <2>1, <2>2
<1>11. CASE CancelOld
  <2>1. turn.old \in Gens
    BY <1>11 DEF CancelOld, Phased, Turning
  <2>2. turn'.pc = "drain" /\ delivered' = delivered \cup {turn.old}
          /\ state' = state /\ clock' = clock /\ ghost' = ghost
    BY <1>0, <1>11 DEF CancelOld, TurnStates
  <2> QED
    BY <1>0, <1>k, <2>1, <2>2
<1>12. CASE Rebuild
  <2>1. /\ state' = [status |-> "active", writes |-> {}, reads |-> {}, watches |-> {},
                     hasCommitted |-> turn.by = "commit"]
        /\ delivered' = delivered /\ ghost' = ghost
        /\ clock' \in {clock, [clock EXCEPT !.expired = FALSE]}
    BY <1>12 DEF Rebuild
  <2>2. state' \in StateFields /\ state'.writes = {} /\ state'.reads = {} /\ state'.watches = {}
    BY <2>1 DEF StateFields
  <2>3. clock' \in [expired : BOOLEAN, popped : SUBSET Nat]
    BY <1>0, <2>1
  <2> QED
    BY <1>0, <2>1, <2>2, <2>3 DEF HeldGoesOn, Held, StaleNeverRetires
<1>13. CASE turnoverLocked
  <2> DEFINE old == tx.readGen
             i == readIncarnationLocked(tx)
             s == recordCauseLocked(i, old, "turnover")
             q == [by |-> turn.by, exp |-> turn.exp, cause |-> s.cause[old]]
  <2>1. old \in Gens /\ "turnover" \in Causes /\ i \in TxStates /\ i.cause = tx.cause
    BY <1>0, SameSimple DEF TxStates, Causes, Same, Frame, readIncarnationLocked
  <2>2. s \in TxStates
    BY <2>1, SameCause DEF Same, Frame
  <2>3. tx.cause[old] = "none" => s.cause[old] = "turnover"
    BY <2>1 DEF recordCauseLocked, disarmTimeoutLocked, TxStates
  <2>4. /\ turn.pc = "claim" /\ MayClaim /\ delivered' = delivered /\ state' = state /\ clock' = clock
        /\ ghost' = [ghost EXCEPT !.retired[old] = q]
        /\ turn' = [turn EXCEPT !.pc = "cancel", !.old = old]
    BY <1>13 DEF turnoverLocked
  <2> HIDE DEF s
  <2>5. q \in [by : Calls \cup {"none"}, exp : Gens \cup {Nil}, cause : Causes]
    BY <1>0, <2>1, <2>2 DEF TurnStates, TxStates
  <2>6. turn.by \in {"commit", "onerror"} => turn.exp = old /\ s.cause[old] = "turnover"
    BY <2>3, <2>4 DEF MayClaim, Owned
  <2>7. q.by = turn.by /\ q.exp = turn.exp /\ q.cause = s.cause[old]
    OBVIOUS
  <2>8. turn'.pc = "cancel"
    BY <1>0, <2>4 DEF TurnStates
  <2> HIDE DEF q, old
  <2>9. ghost' \in Ghosts /\ \A g \in Gens : ghost'.retired[g] = IF g = old THEN q ELSE ghost.retired[g]
    BY <1>0, <2>1, <2>4, <2>5 DEF Ghosts
  <2>10. StaleNeverRetires'
    BY <2>6, <2>7, <2>9 DEF StaleNeverRetires
  <2> QED
    BY <1>0, <2>4, <2>8, <2>9, <2>10 DEF HeldGoesOn, Held
<1>14. CASE Expire \/ PopTimeout
  <2>1. delivered' = delivered /\ state' = state /\ ghost' = ghost /\ turn' = turn
    BY <1>14 DEF Expire, PopTimeout
  <2>2. tx.arm \in Nat
    BY <1>0 DEF TxStates
  <2>3. clock' \in [expired : BOOLEAN, popped : SUBSET Nat]
    BY <1>0, <1>14, <2>2 DEF Expire, PopTimeout
  <2> QED
    BY <1>0, <2>1, <2>3 DEF HeldGoesOn, Held, StaleNeverRetires
<1>15. ASSUME NEW a \in clock.popped, fireTimeout(a) PROVE HeldGoesOn
  <2>1. delivered' = delivered /\ state' = state /\ turn' = turn
          /\ clock' = [clock EXCEPT !.popped = @ \ {a}]
          /\ ghost' = [ghost EXCEPT !.early = @ \/ (tx' # tx /\ ~clock.expired)]
    BY <1>15 DEF fireTimeout
  <2>2. clock' \in [expired : BOOLEAN, popped : SUBSET Nat]
    BY <1>0, <2>1
  <2> DEFINE e == ghost.early \/ (tx' # tx /\ ~clock.expired)
  <2>3. e \in BOOLEAN /\ ghost' = [ghost EXCEPT !.early = e]
    BY <2>1
  <2> HIDE DEF e
  <2>4. ghost' \in Ghosts /\ ghost'.retired = ghost.retired
    BY <1>0, <2>3 DEF Ghosts
  <2> QED
    BY <1>0, <2>1, <2>2, <2>4 DEF HeldGoesOn, Held, StaleNeverRetires
<1>16. CASE (\E g \in Gens : DeliverTimeout(g)) \/ Quiet \/ UNCHANGED vars
  BY <1>0, <1>k, <1>16 DEF DeliverTimeout, Quiet, vars
<1>17. ASSUME NEW t \in Threads, Step(t) PROVE HeldGoesOn
  BY <1>1, <1>3, <1>4, <1>5, <1>6, <1>7, <1>8, <1>17 DEF Step
<1>18. CASE Outside
  BY <1>2, <1>3, <1>7, <1>9, <1>14, <1>18 DEF Outside
<1> QED
  BY <1>9, <1>10, <1>11, <1>12, <1>13, <1>15, <1>16, <1>17, <1>18 DEF Next, Turnover

\* What a commit ships is what its own incarnation put there.
LEMMA ContainedStep ==
  ASSUME TypeInv, Worked, Owned, Phased, Counted, Contained, Does, HeldGoesOn
  PROVE  Contained'
<1>0. /\ th \in [Threads -> ThreadStates] /\ Shaped /\ turn \in TurnStates /\ tx \in TxStates
  BY DEF TypeInv
<1>1. Held' \subseteq {Current'} /\ (turn'.pc = "finish" => Held' = {})
  <2>1. CASE Within
    BY <2>1, WithinTurns DEF HeldGoesOn, Contained, Held
  <2>2. CASE Claims
    <3>1. turn.pc = "claim" /\ turn'.pc = "cancel" /\ turn'.old = tx.readGen
      BY <1>0, <2>2 DEF Claims, TurnStates
    <3>2. Current' = Current
      BY <3>1 DEF Current, Turning
    <3> QED
      BY <3>1, <3>2 DEF HeldGoesOn, Contained, Held
  <2>3. CASE Opens
    <3>1. turn.pc = "finish"
      BY <2>3 DEF Opens
    <3> QED
      BY <3>1 DEF HeldGoesOn, Contained, Held
  <2> QED
    BY <2>1, <2>2, <2>3 DEF Does, Within
<1>s. ASSUME SameWork(tx, tx') PROVE \A n \in Natives : tx'.nat[n].ships \subseteq {tx'.nat[n].inc}
  BY <1>s DEF SameWork, Contained
<1>w. ASSUME NEW m, NEW c, Works(m, c), c.ships \subseteq {c.inc}
      PROVE  \A n \in Natives : tx'.nat[n].ships \subseteq {tx'.nat[n].inc}
  BY <1>w DEF Works, Contained
<1>2. ASSUME NEW t \in Threads, Enters(t)
      PROVE  \A n \in Natives : tx'.nat[n].ships \subseteq {tx'.nat[n].inc}
  <2>1. PICK s \in TxStates : SameWork(tx, s) /\ tx' = WithLease(s, tx.readGen, th[t].op)
    BY <1>2 DEF Enters, Same
  <2>2. tx'.nat = s.nat
    BY <2>1 DEF WithLease, TxStates
  <2> QED
    BY <1>s, <2>1, <2>2 DEF SameWork
<1>3. ASSUME NEW t \in Threads, Leaves(t)
      PROVE  \A n \in Natives : tx'.nat[n].ships \subseteq {tx'.nat[n].inc}
  <2> DEFINE s == WithoutLease(tx, th[t].inc, th[t].op)
  <2>1. SameWork(s, tx')
    BY <1>3 DEF Leaves, Same
  <2>2. s.nat = tx.nat
    BY <1>0 DEF WithoutLease, TxStates
  <2> HIDE DEF s
  <2> QED
    BY <1>s, <2>1, <2>2 DEF SameWork
<1>4. ASSUME NEW t \in Threads, Admits(t)
      PROVE  \A n \in Natives : tx'.nat[n].ships \subseteq {tx'.nat[n].inc}
  <2>1. PICK c \in CommitRecords : /\ Works(Native(t), c) /\ th[t].pc = "held"
                                   /\ Native(t) \in Natives
                                   /\ c.ships = tx.nat[Native(t)].ships
    BY <1>4 DEF Admits
  <2>2. tx.nat[Native(t)].ships = {}
    BY <2>1, NativeIs DEF Worked
  <2> QED
    BY <1>w, <2>1, <2>2
<1>5. ASSUME NEW t \in Threads, Starts(t)
      PROVE  \A n \in Natives : tx'.nat[n].ships \subseteq {tx'.nat[n].inc}
  <2>1. PICK c \in CommitRecords : /\ Works(Native(t), c) /\ th[t].pc = "snapshot"
                                   /\ Native(t) \in Natives /\ c.inc = tx.nat[Native(t)].inc
                                   /\ c.ships = state.writes \cup state.reads
    BY <1>5 DEF Starts
  <2>2. c.inc = th[t].inc
    BY <2>1, NativeIs DEF Worked, Admitted
  <2>3. th[t].inc = Current
    BY <1>0, <2>1 DEF Shaped, Shape, Leased, Counted
  <2>4. c.ships \subseteq {c.inc}
    BY <2>1, <2>2, <2>3 DEF Contained
  <2> QED
    BY <1>w, <2>1, <2>4
<1>6. ASSUME NEW m \in Natives, Answers(m) \/ LocksFor(m)
      PROVE  \A n \in Natives : tx'.nat[n].ships \subseteq {tx'.nat[n].inc}
  BY <1>6, <1>w DEF Answers, LocksFor, Contained
<1>7. ASSUME Unlocks
      PROVE  \A n \in Natives : tx'.nat[n].ships \subseteq {tx'.nat[n].inc}
  <2> DEFINE m == <<turn.who, turn.k>>
  <2>1. turn.k # 0 => m \in Natives
    BY <1>0, <1>7, NativeParts DEF TurnStates, Owned, Unlocks
  <2>2. CASE turn.k = 0
    BY <1>7, <1>s, <2>2 DEF Unlocks
  <2>3. CASE turn.k # 0
    <3>1. PICK c \in CommitRecords : Works(m, c) /\ c.inc = tx.nat[m].inc /\ c.ships = tx.nat[m].ships
      BY <1>7, <2>3 DEF Unlocks
    <3>2. c.ships \subseteq {c.inc}
      BY <2>1, <2>3, <3>1 DEF Contained
    <3> HIDE DEF m
    <3> QED
      BY <1>w, <3>1, <3>2
  <2> QED
    BY <2>2, <2>3
<1>8. CASE Stays \/ Claims \/ Passes
  BY <1>1, <1>8, <1>s DEF Stays, Claims, Passes, Same, Contained, Held
<1>9. ASSUME NEW t \in Threads, Walks(t) \/ Begins(t) \/ Locks(t)
      PROVE  \A n \in Natives : tx'.nat[n].ships \subseteq {tx'.nat[n].inc}
  BY <1>9, <1>s DEF Walks, Begins, Locks, Same, SameWork
<1>10. ASSUME \A n \in Natives : tx'.nat[n].ships \subseteq {tx'.nat[n].inc}
       PROVE  Contained'
  BY <1>1, <1>10 DEF Contained, Held
<1> QED
  BY <1>2, <1>3, <1>4, <1>5, <1>6, <1>7, <1>8, <1>9, <1>10 DEF Does, Abandons, Opens

-----------------------------------------------------------------------------
(* The theorems *)

LEMMA LifeInit == Init => LifeInv
<1> SUFFICES ASSUME Init PROVE LifeInv
  OBVIOUS
<1>0. 0 \in Gens /\ MaxOps \in Nat /\ 0 \in 0 .. MaxOps /\ Timeout \in BOOLEAN /\ Gens \subseteq Nat
  <2>1. Cardinality(Threads) * MaxOps \in Nat
    BY NativesFinite
  <2>2. MaxOps \in Nat /\ 0 \in 0 .. MaxOps
    BY ConstantsAssumption
  <2> QED
    BY <2>1, <2>2, ConstantsAssumption DEF Gens
<1>1. /\ tx.readLife = Nil /\ tx.readGen = 0 /\ tx.readReady = "nil" /\ tx.closed = {}
      /\ tx.cause = [g \in Gens |-> "none"] /\ tx.users = [g \in Gens |-> 0]
      /\ tx.issued = [g \in Gens |-> 0] /\ tx.drained = [g \in Gens |-> "none"]
      /\ tx.armed = Timeout /\ tx.arm = (IF Timeout THEN 1 ELSE 0) /\ tx.needsArm = FALSE
      /\ tx.nat = [n \in Natives |-> NoCommit] /\ tx.committedVersion = Nil
  BY DEF Init
<1>2. NoCommit \in CommitRecords
  BY DEF NoCommit, CommitRecords
<1>3. tx \in TxStates
  <2> DEFINE ca == [g \in Gens |-> "none"]
             z == [g \in Gens |-> 0]
             nt == [n \in Natives |-> NoCommit]
             a == IF Timeout THEN 1 ELSE 0
  <2>1. ca \in [Gens -> Causes] /\ ca \in [Gens -> {"none", "open", "closed"}]
          /\ z \in [Gens -> Int] /\ a \in Nat
    BY DEF Causes
  <2>2. nt \in [Natives -> CommitRecords]
    BY <1>2
  <2>3. tx = [readLife |-> Nil, readGen |-> 0, readReady |-> "nil", closed |-> {},
              cause |-> ca, users |-> z, issued |-> z, drained |-> ca,
              armed |-> Timeout, arm |-> a, needsArm |-> FALSE,
              nat |-> nt, committedVersion |-> Nil]
    BY DEF Init
  <2> HIDE DEF ca, z, nt, a
  <2> QED
    BY <1>0, <2>1, <2>2, <2>3 DEF TxStates
<1>4. th = [t \in Threads |-> Idle] /\ Idle \in ThreadStates /\ Shape(Idle)
        /\ Idle.pc = "idle" /\ Idle.k = 0 /\ Idle.lease = FALSE
  BY <1>0 DEF Init, Idle, ThreadStates, Shape, Leased, Cleaning, Admitted, Captures
<1>5. turn = NoTurn /\ NoTurn \in TurnStates /\ turn.pc = "free"
  BY <1>0 DEF Init, NoTurn, TurnStates
<1>6. /\ delivered = {} /\ state \in StateFields
      /\ state.writes = {} /\ state.reads = {} /\ state.watches = {}
  BY DEF Init, StateFields
<1>7. clock \in [expired : BOOLEAN, popped : SUBSET Nat] /\ clock.popped = {}
  BY DEF Init
<1>8. /\ ghost \in Ghosts /\ ghost.early = FALSE
      /\ \A g \in Gens : ghost.retired[g].by = "none"
  BY DEF Init, Ghosts, NotRetired, Causes
<1>9. TypeInv
  BY <1>3, <1>4, <1>5, <1>6, <1>7, <1>8 DEF TypeInv, Shaped
<1>10. Worked
  <2>1. \A n \in Natives : tx.nat[n].pc = "none" /\ tx.nat[n].ships = {} /\ n[1] \in Threads
    BY <1>1, NativeParts DEF NoCommit
  <2> QED
    BY <1>4, <2>1 DEF Worked, Admitted
<1>11. Owned
  <2>1. \A n \in Natives : tx.nat[n].pc = "none"
    BY <1>1 DEF NoCommit
  <2> QED
    BY <1>4, <1>5, <2>1 DEF Owned
<1>12. Budget
  <2>1. Open \in SUBSET Natives
    BY DEF Open
  <2>2. Cardinality(Open) <= Cardinality(Natives)
    BY <2>1, NativesFinite, FS_Subset
  <2> QED
    BY <1>1, <2>2, NativesFinite DEF Budget
<1>13. Phased
  BY <1>1, <1>5 DEF Phased, Turning
<1>14. Counted
  <2>1. \A g : Users(g) = {} /\ Issuers(g) = {}
    BY <1>4 DEF Users, Issuers
  <2>2. \A g : Cardinality(Users(g)) = 0 /\ Cardinality(Issuers(g)) = 0
    BY <2>1, FS_EmptySet
  <2> QED
    BY <1>1, <1>4, <1>5, <2>2 DEF Counted
<1>15. Contained
  <2>1. \A n \in Natives : tx.nat[n].ships = {}
    BY <1>1 DEF NoCommit
  <2> QED
    BY <1>5, <1>6, <2>1 DEF Contained
<1>16. Timed /\ StaleNeverRetires /\ NoEarlyTimeout
  BY <1>5, <1>7, <1>8 DEF Timed, Turning, StaleNeverRetires, NoEarlyTimeout
<1> QED
  BY <1>9, <1>10, <1>11, <1>12, <1>13, <1>14, <1>15, <1>16 DEF LifeInv

LEMMA LifeStep ==
  ASSUME LifeInv, [Next]_vars
  PROVE  LifeInv'
<1>0. /\ TypeInv /\ Worked /\ Owned /\ Budget /\ Phased /\ Counted /\ Contained /\ Timed
      /\ StaleNeverRetires /\ NoEarlyTimeout
  BY DEF LifeInv
<1>1. Does
  BY <1>0, Steps
<1>2. HeldGoesOn
  BY <1>0, HeldStep
<1>3. TypeInv'
  BY <1>0, <1>1, <1>2, TypesKept DEF HeldGoesOn, TypeInv
<1>4. Worked' /\ Owned' /\ Budget'
  BY <1>0, <1>1, WorkedStep, OwnedStep, BudgetStep
<1>5. Phased' /\ Counted' /\ Contained'
  BY <1>0, <1>1, <1>2, PhasedStep, CountedStep, ContainedStep
<1>6. Timed' /\ NoEarlyTimeout'
  BY <1>0, <1>1, <1>3, TimedStep DEF NoEarlyTimeout
<1> QED
  BY <1>2, <1>3, <1>4, <1>5, <1>6 DEF LifeInv, HeldGoesOn

\* The inductive invariant holds of the handle, however its goroutines, its
\* workers and its timer interleave.
THEOREM LifeInvariant == Spec => []LifeInv
<1>1. LifeInv /\ [Next]_vars => LifeInv'
  BY LifeStep
<1> QED
  BY <1>1, LifeInit, PTL DEF Spec

\* The types of the handle's fields, with no lease count below zero: no release
\* of an executionLease is counted twice or on another incarnation, and the
\* reads a commit waits for are among the users of its incarnation.
THEOREM LifeTypeCorrect == Spec => []TypeOK
<1>1. LifeInv => TypeOK
  <2> SUFFICES ASSUME LifeInv PROVE TypeOK
    OBVIOUS
  <2>1. \A g \in Gens : tx.users[g] \in Nat /\ tx.issued[g] \in 0 .. tx.users[g]
    BY UsersFinite DEF LifeInv, Counted
  <2> QED
    BY <2>1 DEF LifeInv, TypeInv, TypeOK
<1> QED
  BY <1>1, LifeInvariant, PTL

\* What the handle holds was put there by its current incarnation, and a commit
\* ships nothing else: a turnover waits for every executionLease before
\* resetFields, so no call leaks into a successor.
THEOREM OneIncarnationHolds == Spec => []OneIncarnation
<1>1. LifeInv => OneIncarnation
  BY DEF LifeInv, Contained, OneIncarnation, Current, Turning
<1> QED
  BY <1>1, LifeInvariant, PTL

\* A commit or a retry that retires an incarnation (turnoverLocked) retires its
\* own, and one that nothing had ended before.
THEOREM StaleNeverRetiresHolds == Spec => []StaleNeverRetires
<1>1. LifeInv => StaleNeverRetires
  BY DEF LifeInv
<1> QED
  BY <1>1, LifeInvariant, PTL

\* fireTimeout ends no incarnation before its deadline, whichever delivery the
\* timer queue makes late.
THEOREM NoEarlyTimeoutHolds == Spec => []NoEarlyTimeout
<1>1. LifeInv => NoEarlyTimeout
  BY DEF LifeInv
<1> QED
  BY <1>1, LifeInvariant, PTL
=============================================================================
