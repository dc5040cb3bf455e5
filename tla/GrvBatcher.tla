----------------------------- MODULE GrvBatcher -----------------------------
(***************************************************************************)
(* One batcher of read-version requests (grv.go, grvBatcher) with the      *)
(* timer behind its batch window (grv_window.go).                          *)
(*                                                                         *)
(* A caller queues its request with a reply channel from a pool.  The      *)
(* request leaves at once when requests come one at a time or when the     *)
(* batch is full; else it waits for the window that the first request of   *)
(* the batch opened.  A detached batch is flushed by a goroutine of its    *)
(* own, or by the caller when it is the only one in it: one RPC, whose     *)
(* answer is sent to every request in order.  A panic on the way fails the *)
(* rest.  The database may be closed, and the timer may fail, at any time. *)
(*                                                                         *)
(* One action is one critical section of b.mu, one send, or one receive.   *)
(* Deadlines are kept as the time that is left.  Both kinds of timer are   *)
(* covered: a timerfd with its worker, which Close ends, and a runtime     *)
(* timer, whose callbacks may still be on their way when it is stopped.    *)
(* The storage of a batch, its spans and its tags are left out.            *)
(***************************************************************************)
EXTENDS Integers, Sequences, FiniteSets, Functions

CONSTANTS
  Callers,           \* goroutines that ask for a read version
  MaxCalls,          \* bound: requests of all callers
  GrvMaxBatchSize,
  GrvBatchTimeout,   \* the longest batch window
  Chans,             \* reply channels
  Faults,            \* what may go wrong in this instance
  None               \* no caller, no channel

ASSUME ConstantsAssumption ==
  /\ None \notin Callers /\ None \notin Chans
  /\ GrvMaxBatchSize \in Nat \ {0, 1}
  /\ GrvBatchTimeout \in Nat
  /\ MaxCalls \in Nat \ {0}
  /\ Faults \subseteq {"cancel", "panic", "close", "timer"}

Requests == [ch : Chans, of : Callers, k : Nat]

VARIABLES
  b,         \* the fields of grvBatcher that b.mu guards
  timer,     \* the timer of b.window: armed and running, and expiries under way
  flights,   \* the batches that were detached and are being flushed
  buf,       \* buf[c]: what reply channel c holds, the set of requests it answers
  pool,      \* the reply channels in grvReplyPool
  cl,        \* the callers
  closed     \* whether Close has begun

vars == <<b, timer, flights, buf, pool, cl, closed>>

Idle(k) == [pc |-> "idle", ch |-> None, k |-> k]

Init ==
  /\ b = [pending |-> <<>>, inFlight |-> 0, batchTime |-> 0, overlapped |-> FALSE,
          pendingIdle |-> FALSE, window |-> FALSE, windowArmed |-> FALSE, windowLeft |-> 0]
  /\ timer = [on |-> FALSE, left |-> 0, expiring |-> 0, dead |-> FALSE]
  /\ flights = {}
  /\ buf = [c \in Chans |-> {}]
  /\ pool = {}
  /\ cl = [c \in Callers |-> Idle(0)]
  /\ closed = FALSE

(***************************************************************************)
(* Detaching.  s is a value of b.                                          *)
(***************************************************************************)
\* detachLocked: the batch leaves, its window closes.
detachLocked(s) ==
  [s EXCEPT !.pending = <<>>, !.inFlight = @ + 1, !.windowArmed = FALSE, !.windowLeft = 0,
            !.overlapped = Len(s.pending) > 1 \/ ~s.pendingIdle]

TakesOff(reqs, by) ==
  flights' = flights \cup {[reqs |-> reqs, by |-> by, pc |-> "rpc", sent |-> 0, ok |-> FALSE]}

Detach(s, by) ==
  /\ b' = detachLocked(s)
  /\ timer' = IF s.windowArmed THEN [timer EXCEPT !.on = FALSE, !.left = 0] ELSE timer
  /\ TakesOff(s.pending, by)

\* A detached batch of one is flushed by its caller, any other by a goroutine.
Flusher(s, c) == IF Len(s.pending) = 1 THEN c ELSE None

Queued(req) ==
  [b EXCEPT !.pending = Append(@, req),
            !.overlapped = @ \/ b.inFlight > 0,
            !.pendingIdle = IF b.pending = <<>> THEN b.inFlight = 0 ELSE @]

Full(s) == Len(s.pending) = GrvMaxBatchSize

\* The serial fast path: nothing is in flight and nothing has overlapped.
Serial(s) == s.inFlight = 0 /\ ~s.overlapped

\* Mutant: the time that creating the timer took is taken off twice.
ArmedTwice(left, took) == IF left > took THEN left - took ELSE 0

\* The timer is armed with what is left of the window.
Armed(left, took) == left

(***************************************************************************)
(* admit.  The first request of a batch opens the window: creating the     *)
(* timer takes time, and fails once Close has begun, as does arming one    *)
(* that Close has ended.  (A timer that failed by itself still takes the   *)
(* call; its worker then sends the batch.)                                 *)
(***************************************************************************)
OpenWindow(s) ==
  \E took \in 0 .. (IF b.window THEN 0 ELSE b.batchTime) :
    LET left == b.batchTime - took IN
      /\ b.window \/ ~closed
      /\ b' = [s EXCEPT !.window = TRUE, !.windowArmed = TRUE, !.windowLeft = left]
      /\ timer' = [timer EXCEPT !.on = TRUE, !.left = Armed(left, took)]
      /\ UNCHANGED flights

admit(req) ==
  LET s    == Queued(req)
      Send == Detach(s, Flusher(s, req.of))
  IN \/ Full(s) /\ Send
     \/ ~Full(s) /\ Len(s.pending) > 1 /\ b' = s /\ UNCHANGED <<timer, flights>>
     \/ Len(s.pending) = 1 /\ Serial(s) /\ Send
     \/ Len(s.pending) = 1 /\ ~Serial(s) /\ (OpenWindow(s) \/ (closed /\ Send))

(***************************************************************************)
(* A caller.                                                               *)
(***************************************************************************)
\* Somebody still has the channel; the collector takes the others.
Referenced(ch) ==
  \/ ch \in pool
  \/ \E c \in Callers : cl[c].ch = ch
  \/ \E f \in flights : \E i \in DOMAIN f.reqs : f.reqs[i].ch = ch
  \/ \E i \in DOMAIN b.pending : b.pending[i].ch = ch

\* The requests that were made, for the bound.
Calls == FoldFunction(LAMBDA k, n : k + n, 0, [c \in Callers |-> cl[c].k])

\* The slow path: a channel of the pool, or a new one, goes with the request.
getReadVersion(c, ch) ==
  /\ cl[c].pc = "idle" /\ Calls < MaxCalls
  /\ IF pool = {}
     THEN ~Referenced(ch) /\ buf' = [buf EXCEPT ![ch] = {}]
     ELSE ch \in pool /\ UNCHANGED buf
  /\ pool' = pool \ {ch}
  /\ LET k == cl[c].k + 1 IN
       /\ admit([ch |-> ch, of |-> c, k |-> k])
       /\ cl' = [cl EXCEPT ![c] = [ch |-> ch, k |-> k, pc |->
            IF \E f \in flights' : f.by = c THEN "inline" ELSE "wait"]]
  /\ UNCHANGED closed

\* A caller that flushed its own request looks at its channel after that.
Receive(c) ==
  /\ cl[c].pc \in {"wait", "inline"}
  /\ \A f \in flights : f.by # c
  /\ buf[cl[c].ch] # {}
  /\ buf' = [buf EXCEPT ![cl[c].ch] = {}]
  /\ pool' = pool \cup {cl[c].ch}
  /\ cl' = [cl EXCEPT ![c] = Idle(@.k)]
  /\ UNCHANGED <<b, timer, flights, closed>>

\* Mutant: a channel whose answer has come goes back to the pool with it.
Pooled(ch) == IF buf[ch] = {} THEN pool ELSE pool \cup {ch}

\* Who gives up leaves its channel to the flush, which will still send on it.
Abandoned(ch) == pool

\* The caller's context ends first.
GiveUp(c) ==
  /\ "cancel" \in Faults
  /\ cl[c].pc = "wait"
  /\ pool' = Abandoned(cl[c].ch)
  /\ cl' = [cl EXCEPT ![c] = Idle(@.k)]
  /\ UNCHANGED <<b, timer, flights, buf, closed>>

(***************************************************************************)
(* A flush.                                                                *)
(***************************************************************************)
Becomes(f, g) == flights' = (flights \ {f}) \cup {g}

\* Mutant: the batch is retired with its last answer, and not after a panic.
FinishedLate(f) == b.inFlight

finishBatch(f) == b.inFlight - 1

\* The RPC ends, or something panics before the first answer; either way the
\* batch is retired before anyone hears of it.
Retire(f) ==
  /\ f.pc = "rpc"
  /\ \E ok \in BOOLEAN : Becomes(f, [f EXCEPT !.pc = "send", !.ok = ok])
  /\ b' = [b EXCEPT !.inFlight = finishBatch(f)]
  /\ UNCHANGED <<timer, buf, pool, cl, closed>>

\* Mutant: after a panic nobody else is answered.
RestDropped(f, panic) == IF panic THEN Len(f.reqs) ELSE f.sent + 1

\* recoverFlush goes on at the publication frontier.
Published(f, panic) == f.sent + 1

\* One turn of the loop of publishReply, or of recoverFlush after a panic; a
\* channel has room for one answer.
Publish(f) ==
  /\ f.pc = "send" /\ f.sent < Len(f.reqs)
  /\ LET ch == f.reqs[f.sent + 1].ch IN
       buf[ch] = {} /\ buf' = [buf EXCEPT ![ch] = {f.reqs[i] : i \in DOMAIN f.reqs}]
  /\ \E panic \in {FALSE, f.ok /\ "panic" \in Faults} :
       Becomes(f, [f EXCEPT !.sent = Published(f, panic), !.ok = @ /\ ~panic])
  /\ UNCHANGED <<b, timer, pool, cl, closed>>

\* After a success observeLatency moves the window's length.
FlushEnds(f) ==
  /\ f.pc = "send" /\ f.sent = Len(f.reqs)
  /\ flights' = flights \ {f}
  /\ \E w \in 0 .. GrvBatchTimeout :
       /\ f.ok \/ w = b.batchTime
       /\ b' = [b EXCEPT !.batchTime = w]
  /\ UNCHANGED <<timer, buf, pool, cl, closed>>

flush(f) == Retire(f) \/ Publish(f) \/ FlushEnds(f)

(***************************************************************************)
(* The window.                                                             *)
(***************************************************************************)
Down(n) == IF n = 0 THEN 0 ELSE n - 1

Tick ==
  /\ b.windowLeft > 0 \/ timer.left > 0
  /\ b' = [b EXCEPT !.windowLeft = Down(@)]
  /\ timer' = [timer EXCEPT !.left = Down(@)]
  /\ UNCHANGED <<flights, buf, pool, cl, closed>>

\* The timer runs out: its worker, or its callback, is on its way to b.mu.
Fire ==
  /\ timer.on /\ timer.left = 0
  /\ timer' = [timer EXCEPT !.on = FALSE, !.expiring = @ + 1]
  /\ UNCHANGED <<b, flights, buf, pool, cl, closed>>

Due == b.windowArmed /\ b.windowLeft = 0

\* expiredBatch: an expiry that is late or superseded detaches nothing.
expiredBatch ==
  /\ timer.expiring > 0
  /\ IF Due
     THEN /\ b' = detachLocked(b)
          /\ timer' = [timer EXCEPT !.on = FALSE, !.left = 0, !.expiring = @ - 1]
          /\ TakesOff(b.pending, None)
     ELSE /\ timer' = [timer EXCEPT !.expiring = @ - 1]
          /\ UNCHANGED <<b, flights>>
  /\ UNCHANGED <<buf, pool, cl, closed>>

\* Close cancels db.ctx, whose hook ends the timer.
Close ==
  /\ "close" \in Faults /\ ~closed
  /\ closed' = TRUE
  /\ timer' = [timer EXCEPT !.dead = b.window]
  /\ UNCHANGED <<b, flights, buf, pool, cl>>

\* The worker's wait ends with an error although nobody closed the timer.
TimerFails ==
  /\ "timer" \in Faults /\ b.window /\ ~timer.dead
  /\ timer' = [timer EXCEPT !.dead = TRUE]
  /\ UNCHANGED <<b, flights, buf, pool, cl, closed>>

\* Whatever is pending was queued in this window.
Swept == b.pending # <<>>

\* retireWindow: what the dead timer's window holds is sent, and the window
\* dropped; the next one makes a new timer.
retireWindow ==
  /\ timer.dead
  /\ IF Swept
     THEN /\ b' = [detachLocked(b) EXCEPT !.window = FALSE]
          /\ TakesOff(b.pending, None)
     ELSE b' = [b EXCEPT !.window = FALSE] /\ UNCHANGED flights
  /\ timer' = [timer EXCEPT !.on = FALSE, !.left = 0, !.dead = FALSE]
  /\ UNCHANGED <<buf, pool, cl, closed>>

(***************************************************************************)
(* The specification.                                                      *)
(***************************************************************************)
\* Nothing more happens once every caller has made its calls.
Quiet == Calls = MaxCalls /\ (\A c \in Callers : cl[c].pc = "idle") /\ flights = {} /\ UNCHANGED vars

Next ==
  \/ \E c \in Callers : (\E ch \in Chans : getReadVersion(c, ch)) \/ Receive(c) \/ GiveUp(c)
  \/ \E f \in flights : flush(f)
  \/ Tick \/ Fire \/ expiredBatch \/ Close \/ TimerFails \/ retireWindow
  \/ Quiet

Spec == Init /\ [][Next]_vars

(***************************************************************************)
(* Time passes, goroutines run, timers fire and every RPC ends: by its     *)
(* answer, by its caller's context or by Close.  A flush is known by the   *)
(* caller of its first request.  No caller need ask, give up or Close.     *)
(***************************************************************************)
FairSpec ==
  /\ Spec
  /\ WF_vars(Tick) /\ WF_vars(Fire) /\ WF_vars(expiredBatch) /\ WF_vars(retireWindow)
  /\ \A c \in Callers :
       /\ WF_vars(Receive(c))
       /\ WF_vars(\E f \in flights : f.reqs[1].of = c /\ flush(f))

(***************************************************************************)
(* Properties.                                                             *)
(***************************************************************************)
\* Every variable has its type.
TypeOK ==
  /\ b \in [pending : Seq(Requests), inFlight : Nat, batchTime : 0 .. GrvBatchTimeout,
            overlapped : BOOLEAN, pendingIdle : BOOLEAN, window : BOOLEAN,
            windowArmed : BOOLEAN, windowLeft : 0 .. GrvBatchTimeout]
  /\ timer \in [on : BOOLEAN, left : 0 .. GrvBatchTimeout, expiring : Nat, dead : BOOLEAN]
  /\ \A f \in flights : f \in [reqs : Seq(Requests), by : Callers \cup {None},
                               pc : {"rpc", "send"}, sent : Nat, ok : BOOLEAN]
  /\ buf \in [Chans -> SUBSET Requests]
  /\ pool \subseteq Chans
  /\ cl \in [Callers -> [pc : {"idle", "wait", "inline"}, ch : Chans \cup {None}, k : Nat]]
  /\ closed \in BOOLEAN

(***************************************************************************)
(* inFlight, on which the serial fast path rests, counts the batches whose *)
(* RPC is out, and no batch exceeds the limit: whichever way flushes end,  *)
(* overlap and panic, each is retired once (flushWithin, finishBatch).     *)
(***************************************************************************)
InFlightCounts ==
  /\ b.inFlight = Cardinality({f \in flights : f.pc = "rpc"})
  /\ \A f \in flights : Len(f.reqs) \in 1 .. GrvMaxBatchSize

(***************************************************************************)
(* An answer in the channel of a waiting caller is of a batch that has the *)
(* caller's present request: never of one that it, or an earlier owner of  *)
(* the pooled channel, gave up (getReadVersion, grvReplyPool).             *)
(***************************************************************************)
OwnReply ==
  \A c \in Callers :
    cl[c].pc # "idle" /\ buf[cl[c].ch] # {} =>
      [ch |-> cl[c].ch, of |-> c, k |-> cl[c].k] \in buf[cl[c].ch]

(***************************************************************************)
(* A request that waits for a window has a timer that will find the window *)
(* due, or a worker that will sweep it: no expiry comes before its window's*)
(* deadline with nothing behind it (admit, expiredBatch, retireWindow).    *)
(***************************************************************************)
NoStranded ==
  b.pending # <<>> =>
    /\ b.window /\ b.windowArmed
    /\ timer.dead \/ (timer.on /\ timer.left >= b.windowLeft)
         \/ (timer.expiring > 0 /\ b.windowLeft = 0)

(***************************************************************************)
(* Every request is answered, unless its caller gives up: also when the    *)
(* window's timer fails or the database is closed while it waits.          *)
(***************************************************************************)
EveryoneAnswered == \A c \in Callers : cl[c].pc # "idle" ~> cl[c].pc = "idle"

=============================================================================
