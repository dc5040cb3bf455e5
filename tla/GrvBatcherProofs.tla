-------------------------- MODULE GrvBatcherProofs --------------------------
(***************************************************************************)
(* Why no request for a read version is lost, answered twice or answered   *)
(* with somebody else's batch, for any number of callers, channels and     *)
(* calls, and any batch size and window.                                   *)
(*                                                                         *)
(* A request is queued once, leaves the queue with its batch, and has its  *)
(* answer once; the invariant says where it is (Placed), that it is in one *)
(* place only (Distinct, Made), and who may still use its channel          *)
(* (Channels).  The parts take the queue p, the flights fl, the buffers    *)
(* bf, the pool pl and the callers c as arguments, so that a call that     *)
(* queues its request and sends the batch is two steps of the argument.    *)
(***************************************************************************)
EXTENDS GrvBatcher, FiniteSetTheorems, TLAPS

Flight == [reqs : Seq(Requests), by : Callers \cup {None}, pc : {"rpc", "send"},
           sent : Nat, ok : BOOLEAN]

\* The requests of a batch, and those whose answer was not sent yet.
Reqs(s) == {s[i] : i \in 1 .. Len(s)}
Unsent(f) == {f.reqs[i] : i \in f.sent + 1 .. Len(f.reqs)}

\* A request that will still be answered on its channel.
IsLive(r, p, fl) == r \in Reqs(p) \/ \E f \in fl : r \in Unsent(f)

\* The shape of the queue and of the batches.
Placed(p, fl) ==
  /\ p \in Seq(Requests) /\ Len(p) <= GrvMaxBatchSize
  /\ IsFiniteSet(fl)
  /\ \A f \in fl : f \in Flight /\ Len(f.reqs) \in 1 .. GrvMaxBatchSize /\ f.sent <= Len(f.reqs)

\* A request is in one place only.
NoRepeats(s) == \A i, j \in 1 .. Len(s) : s[i] = s[j] => i = j

Distinct(p, fl) ==
  /\ NoRepeats(p)
  /\ \A f \in fl : NoRepeats(f.reqs) /\ \A r \in Reqs(p) : r \notin Reqs(f.reqs)
  /\ \A f, g \in fl : f # g => \A r \in Reqs(f.reqs) : r \notin Reqs(g.reqs)

\* Requests are numbered by their callers.
Made(p, fl, c) ==
  /\ \A r \in Reqs(p) : r.k <= c[r.of].k
  /\ \A f \in fl : \A r \in Reqs(f.reqs) : r.k <= c[r.of].k

\* The present request of caller x.
Own(x, c) == [ch |-> c[x].ch, of |-> x, k |-> c[x].k]

\* Who may use a channel: the pool, or one caller, or the one request that will
\* be answered on it, which is that caller's unless it gave up.
Channels(p, fl, bf, pl, c) ==
  /\ \A ch \in pl : bf[ch] = {} /\ \A x \in Callers : c[x].ch # ch
  /\ \A r \in Requests : IsLive(r, p, fl) => bf[r.ch] = {} /\ r.ch \notin pl
  /\ \A r, q \in Requests :
       IsLive(r, p, fl) /\ IsLive(q, p, fl) /\ r.ch = q.ch => r = q
  /\ \A r \in Requests, x \in Callers :
       IsLive(r, p, fl) /\ c[x].ch = r.ch => r = Own(x, c)
  /\ \A x, y \in Callers : c[x].ch \in Chans /\ c[x].ch = c[y].ch => x = y
  /\ \A x \in Callers : c[x].ch \in Chans /\ bf[c[x].ch] # {} => Own(x, c) \in bf[c[x].ch]

\* A caller has a channel while it waits.
Holding(c) == \A x \in Callers : c[x].pc # "idle" <=> c[x].ch \in Chans

Rpcs(fl) == {f \in fl : f.pc = "rpc"}

\* The fields of b beside the queue.
Counted == b.inFlight = Cardinality(Rpcs(flights))
Windowed == Len(b.pending) < GrvMaxBatchSize /\ (b.windowArmed => b.pending # <<>>)

Requested(p, fl, bf, pl, c) ==
  /\ Placed(p, fl)
  /\ Distinct(p, fl)
  /\ Made(p, fl, c)
  /\ Channels(p, fl, bf, pl, c)

BatchInv ==
  /\ TypeOK
  /\ Requested(b.pending, flights, buf, pool, cl)
  /\ Holding(cl)
  /\ Counted
  /\ Windowed
  /\ NoStranded

-----------------------------------------------------------------------------
(* The queue, the flights and the channels. *)

\* What appending a request does to a queue.
LEMMA AppendReqs ==
  ASSUME NEW p \in Seq(Requests), NEW q \in Requests
  PROVE  /\ Append(p, q) \in Seq(Requests)
         /\ Len(Append(p, q)) = Len(p) + 1
         /\ Len(p) \in Nat
         /\ \A i \in 1 .. Len(p) : Append(p, q)[i] = p[i]
         /\ Append(p, q)[Len(p) + 1] = q
         /\ Reqs(Append(p, q)) = Reqs(p) \cup {q}
<1>1. /\ Append(p, q) \in Seq(Requests)
      /\ Len(Append(p, q)) = Len(p) + 1
      /\ Len(p) \in Nat
      /\ \A i \in 1 .. Len(p) : Append(p, q)[i] = p[i]
      /\ Append(p, q)[Len(p) + 1] = q
  OBVIOUS
<1>2. Reqs(Append(p, q)) = Reqs(p) \cup {q}
  <2> DEFINE s == Append(p, q)
  <2>1. /\ Len(s) = Len(p) + 1 /\ Len(p) \in Nat
        /\ \A i \in 1 .. Len(p) : s[i] = p[i]
        /\ s[Len(p) + 1] = q
    BY <1>1
  <2> HIDE DEF s
  <2>2. ASSUME NEW r \in Reqs(s) PROVE r \in Reqs(p) \cup {q}
    <3>1. PICK i \in 1 .. Len(s) : r = s[i]
      BY DEF Reqs
    <3>2. i \in 1 .. Len(p) \/ i = Len(p) + 1
      BY <2>1
    <3> QED BY <2>1, <3>1, <3>2 DEF Reqs
  <2>3. ASSUME NEW r \in Reqs(p) PROVE r \in Reqs(s)
    <3>1. PICK i \in 1 .. Len(p) : r = p[i]
      BY DEF Reqs
    <3>2. i \in 1 .. Len(s) /\ r = s[i]
      BY <2>1, <3>1
    <3> QED BY <3>2 DEF Reqs
  <2>4. q \in Reqs(s)
    <3>1. Len(p) + 1 \in 1 .. Len(s)
      BY <2>1
    <3> QED BY <2>1, <3>1 DEF Reqs
  <2> QED BY <2>2, <2>3, <2>4 DEF s
<1> QED BY <1>1, <1>2

\* The requests of a sequence of requests are requests.
LEMMA ReqsType ==
  ASSUME NEW s \in Seq(Requests)
  PROVE  Reqs(s) \subseteq Requests /\ Len(s) \in Nat
BY DEF Reqs

\* Every request has a channel, a caller and a number.
LEMMA RequestFields ==
  ASSUME NEW r \in Requests
  PROVE  r.ch \in Chans /\ r.of \in Callers /\ r.k \in Nat
BY DEF Requests

\* What is not sent yet is of the batch.
LEMMA UnsentOfBatch ==
  ASSUME NEW f \in Flight
  PROVE  Unsent(f) \subseteq Reqs(f.reqs)
<1>1. f.sent \in Nat /\ Len(f.reqs) \in Nat
  BY ReqsType DEF Flight
<1> QED BY <1>1 DEF Unsent, Reqs

Caller == [pc : {"idle", "wait", "inline"}, ch : Chans \cup {None}, k : Nat]

\* A new request of caller x on a channel that nobody else will use is queued.
LEMMA QueueStep ==
  ASSUME NEW p, NEW fl, NEW bf, NEW pl, NEW c \in [Callers -> Caller],
         Requested(p, fl, bf, pl, c), Len(p) < GrvMaxBatchSize,
         NEW x \in Callers, NEW ch \in Chans, NEW bf2, NEW pl2, NEW c2, NEW q,
         pl2 = pl \ {ch},
         bf2[ch] = {}, \A o \in Chans : o # ch => bf2[o] = bf[o],
         pl \subseteq Chans,
         \A r \in Requests : IsLive(r, p, fl) => r.ch # ch,
         \A y \in Callers : c[y].ch # ch,
         q = [ch |-> ch, of |-> x, k |-> c[x].k + 1],
         c2 \in [Callers -> Caller], c2[x].ch = ch, c2[x].k = c[x].k + 1,
         \A y \in Callers : y # x => c2[y] = c[y]
  PROVE  Requested(Append(p, q), fl, bf2, pl2, c2)
<1>1. q \in Requests /\ q.ch = ch /\ q.of = x /\ q.k = c[x].k + 1 /\ c[x].k \in Nat
  BY DEF Requests, Caller
<1>2. p \in Seq(Requests) /\ Len(p) \in Nat
  BY DEF Requested, Placed
<1>3. /\ Append(p, q) \in Seq(Requests)
      /\ Len(Append(p, q)) = Len(p) + 1
      /\ \A i \in 1 .. Len(p) : Append(p, q)[i] = p[i]
      /\ Append(p, q)[Len(p) + 1] = q
      /\ Reqs(Append(p, q)) = Reqs(p) \cup {q}
  BY <1>1, <1>2, AppendReqs
<1> DEFINE s == Append(p, q)
<1> HIDE DEF s
<1>4. Placed(s, fl)
  BY <1>2, <1>3, ConstantsAssumption DEF Requested, Placed, s
<1>5. \A r \in Reqs(p) : r # q
  <2> SUFFICES ASSUME NEW r \in Reqs(p), r = q PROVE FALSE
    OBVIOUS
  <2>1. r.k <= c[r.of].k
    BY DEF Requested, Made
  <2> QED BY <1>1, <2>1
<1>6. \A f \in fl : q \notin Reqs(f.reqs)
  <2> SUFFICES ASSUME NEW f \in fl, q \in Reqs(f.reqs) PROVE FALSE
    OBVIOUS
  <2>1. q.k <= c[q.of].k
    BY DEF Requested, Made
  <2> QED BY <1>1, <2>1
<1>7. Distinct(s, fl)
  <2>1. NoRepeats(s)
    <3> SUFFICES ASSUME NEW i \in 1 .. Len(s), NEW j \in 1 .. Len(s), s[i] = s[j]
                 PROVE  i = j
      BY DEF NoRepeats
    <3>1. /\ i \in 1 .. Len(p) \/ i = Len(p) + 1
          /\ j \in 1 .. Len(p) \/ j = Len(p) + 1
      BY <1>2, <1>3 DEF s
    <3>2. \A n \in 1 .. Len(p) : p[n] \in Reqs(p)
      BY DEF Reqs
    <3>3. CASE i \in 1 .. Len(p) /\ j \in 1 .. Len(p)
      BY <1>3, <3>3 DEF s, Requested, Distinct, NoRepeats
    <3> QED BY <1>3, <1>5, <3>1, <3>2, <3>3 DEF s
  <2>2. \A f \in fl : \A r \in Reqs(s) : r \notin Reqs(f.reqs)
    BY <1>3, <1>6 DEF s, Requested, Distinct
  <2> QED BY <2>1, <2>2 DEF Requested, Distinct
<1>8. Made(s, fl, c2)
  <2>1. ASSUME NEW r \in Requests, r.k <= c[r.of].k PROVE r.k <= c2[r.of].k
    <3>1. r.of \in Callers /\ r.k \in Nat
      BY RequestFields
    <3> QED BY <1>1, <2>1, <3>1
  <2>2. \A r \in Reqs(s) : r.k <= c2[r.of].k
    <3> SUFFICES ASSUME NEW r \in Reqs(s) PROVE r.k <= c2[r.of].k
      OBVIOUS
    <3>1. CASE r \in Reqs(p)
      BY <1>2, <2>1, <3>1, ReqsType DEF Requested, Made
    <3>2. CASE r = q
      BY <1>1, <3>2
    <3> QED BY <1>3, <3>1, <3>2 DEF s
  <2>3. \A f \in fl : \A r \in Reqs(f.reqs) : r.k <= c2[r.of].k
    <3> SUFFICES ASSUME NEW f \in fl, NEW r \in Reqs(f.reqs) PROVE r.k <= c2[r.of].k
      OBVIOUS
    <3>1. r \in Requests
      BY ReqsType DEF Requested, Placed, Flight
    <3> QED BY <2>1, <3>1 DEF Requested, Made
  <2> QED BY <2>2, <2>3 DEF Made
<1>9. \A r \in Requests : IsLive(r, s, fl) <=> IsLive(r, p, fl) \/ r = q
  BY <1>1, <1>3 DEF s, IsLive
<1>10. \A y \in Callers : y # x => Own(y, c2) = Own(y, c) /\ c2[y].ch = c[y].ch
  BY DEF Own
<1>11. Own(x, c2) = q
  BY DEF Own
<1>12. Channels(s, fl, bf2, pl2, c2)
  <2> USE RequestFields
  <2>1. \A o \in pl2 : bf2[o] = {} /\ \A y \in Callers : c2[y].ch # o
    BY <1>10 DEF Requested, Channels
  <2>2. \A r \in Requests : IsLive(r, s, fl) => bf2[r.ch] = {} /\ r.ch \notin pl2
    BY <1>1, <1>9 DEF Requested, Channels
  <2>3. \A r, o \in Requests :
          IsLive(r, s, fl) /\ IsLive(o, s, fl) /\ r.ch = o.ch => r = o
    BY <1>1, <1>9 DEF Requested, Channels
  <2>4. \A r \in Requests, y \in Callers :
          IsLive(r, s, fl) /\ c2[y].ch = r.ch => r = Own(y, c2)
    <3> SUFFICES ASSUME NEW r \in Requests, NEW y \in Callers,
                        IsLive(r, s, fl), c2[y].ch = r.ch
                 PROVE  r = Own(y, c2)
      OBVIOUS
    <3>1. CASE r = q
      BY <1>1, <1>10, <1>11, <3>1
    <3>2. CASE IsLive(r, p, fl)
      BY <1>10, <3>2 DEF Requested, Channels
    <3> QED BY <1>9, <3>1, <3>2
  <2>5. \A y, z \in Callers : c2[y].ch \in Chans /\ c2[y].ch = c2[z].ch => y = z
    BY <1>10 DEF Requested, Channels
  <2>6. \A y \in Callers :
          c2[y].ch \in Chans /\ bf2[c2[y].ch] # {} => Own(y, c2) \in bf2[c2[y].ch]
    BY <1>10 DEF Requested, Channels
  <2> QED BY <2>1, <2>2, <2>3, <2>4, <2>5, <2>6 DEF Channels
<1> QED BY <1>4, <1>7, <1>8, <1>12 DEF Requested, s

\* The queue takes off as a batch.
LEMMA TakeOffStep ==
  ASSUME NEW p, NEW fl, NEW bf, NEW pl, NEW c, Requested(p, fl, bf, pl, c),
         p # <<>>, NEW f \in Flight, f.reqs = p, f.sent = 0, f.pc = "rpc"
  PROVE  /\ Requested(<<>>, fl \cup {f}, bf, pl, c)
         /\ Cardinality(Rpcs(fl \cup {f})) = Cardinality(Rpcs(fl)) + 1
<1> DEFINE gl == fl \cup {f}
<1>1. p \in Seq(Requests) /\ Len(p) \in 1 .. GrvMaxBatchSize /\ IsFiniteSet(fl)
  <2>1. Len(p) # 0
    BY DEF Requested, Placed
  <2> QED BY <2>1 DEF Requested, Placed
<1>2. p[1] \in Reqs(p)
  BY <1>1 DEF Reqs
<1>3. f \notin fl
  BY <1>2 DEF Requested, Distinct
<1>4. <<>> \in Seq(Requests) /\ Len(<<>>) = 0 /\ Reqs(<<>>) = {}
  BY DEF Reqs
<1>5. IsFiniteSet(gl)
  BY <1>1, FS_AddElement
<1>6. Placed(<<>>, gl)
  BY <1>1, <1>4, <1>5, ConstantsAssumption DEF Requested, Placed
<1>7. NoRepeats(<<>>)
  BY <1>4 DEF NoRepeats
<1>8. Distinct(<<>>, gl)
  BY <1>3, <1>4, <1>7 DEF Requested, Distinct
<1>9. Made(<<>>, gl, c)
  BY <1>4 DEF Requested, Made
<1>10. Unsent(f) = Reqs(p)
  BY DEF Unsent, Reqs
<1>11. \A r : IsLive(r, <<>>, gl) <=> IsLive(r, p, fl)
  BY <1>4, <1>10 DEF IsLive
<1> HIDE DEF gl
<1>12. Channels(<<>>, gl, bf, pl, c)
  BY <1>11 DEF Requested, Channels
<1>13. Cardinality(Rpcs(gl)) = Cardinality(Rpcs(fl)) + 1
  <2>1. Rpcs(gl) = Rpcs(fl) \cup {f}
    BY DEF Rpcs, gl
  <2>2. f \notin Rpcs(fl) /\ Rpcs(fl) \subseteq fl
    BY <1>3 DEF Rpcs
  <2>3. IsFiniteSet(Rpcs(fl))
    BY <1>1, <2>2, FS_Subset
  <2> QED BY <2>1, <2>2, <2>3, FS_AddElement
<1> QED BY <1>6, <1>8, <1>9, <1>12, <1>13 DEF Requested, gl

\* A batch keeps its requests while it is flushed.
LEMMA SameBatch ==
  ASSUME NEW p, NEW fl, NEW c, Placed(p, fl), Distinct(p, fl), Made(p, fl, c),
         NEW f \in fl, NEW g \in Flight, g.reqs = f.reqs, g.sent <= Len(f.reqs)
  PROVE  LET gl == (fl \ {f}) \cup {g}
         IN  Placed(p, gl) /\ Distinct(p, gl) /\ Made(p, gl, c)
<1> DEFINE gl == (fl \ {f}) \cup {g}
<1>1. IsFiniteSet(gl)
  BY FS_RemoveElement, FS_AddElement DEF Placed
<1>2. Placed(p, gl)
  BY <1>1 DEF Placed
<1>3. Distinct(p, gl)
  BY DEF Distinct
<1>4. Made(p, gl, c)
  BY DEF Made
<1> QED BY <1>2, <1>3, <1>4

\* The RPC of a batch ends.
LEMMA RetireStep ==
  ASSUME NEW p, NEW fl, NEW bf, NEW pl, NEW c, Requested(p, fl, bf, pl, c),
         NEW f \in fl, f.pc = "rpc",
         NEW g \in Flight, g.reqs = f.reqs, g.sent = f.sent, g.pc = "send"
  PROVE  LET gl == (fl \ {f}) \cup {g}
         IN  /\ Requested(p, gl, bf, pl, c)
             /\ Cardinality(Rpcs(gl)) \in Nat
             /\ Cardinality(Rpcs(fl)) = Cardinality(Rpcs(gl)) + 1
<1> DEFINE gl == (fl \ {f}) \cup {g}
<1>1. Placed(p, gl) /\ Distinct(p, gl) /\ Made(p, gl, c)
  <2>1. g.sent <= Len(f.reqs)
    BY DEF Requested, Placed
  <2> QED BY <2>1, SameBatch DEF Requested
<1>2. Unsent(g) = Unsent(f)
  BY DEF Unsent
<1>3. \A r : IsLive(r, p, gl) <=> IsLive(r, p, fl)
  BY <1>2 DEF IsLive
<1>4. Channels(p, gl, bf, pl, c)
  <2> HIDE DEF gl
  <2> QED BY <1>3 DEF Requested, Channels
<1>5. Rpcs(gl) = Rpcs(fl) \ {f} /\ f \in Rpcs(fl) /\ Rpcs(fl) \subseteq fl
  BY DEF Rpcs
<1>6. IsFiniteSet(Rpcs(fl))
  BY <1>5, FS_Subset DEF Requested, Placed
<1>7. Cardinality(Rpcs(gl)) = Cardinality(Rpcs(fl)) - 1 /\ IsFiniteSet(Rpcs(gl))
  BY <1>5, <1>6, FS_RemoveElement
<1>8. Cardinality(Rpcs(gl)) \in Nat /\ Cardinality(Rpcs(fl)) \in Nat
  BY <1>6, <1>7, FS_CardinalityType
<1>9. Cardinality(Rpcs(fl)) = Cardinality(Rpcs(gl)) + 1
  BY <1>7, <1>8
<1> HIDE DEF gl
<1>10. Requested(p, gl, bf, pl, c)
  BY <1>1, <1>4 DEF Requested
<1> QED BY <1>8, <1>9, <1>10 DEF gl

\* The answer of the next request of a batch is sent.
LEMMA SendStep ==
  ASSUME NEW p, NEW fl, NEW bf, NEW pl, NEW c, Requested(p, fl, bf, pl, c),
         NEW f \in fl, f.pc = "send", f.sent < Len(f.reqs),
         NEW g \in Flight, g.reqs = f.reqs, g.sent = f.sent + 1, g.pc = "send",
         NEW ch, ch = f.reqs[f.sent + 1].ch,
         NEW bf2, bf2[ch] = Reqs(f.reqs), pl \subseteq Chans,
         \A o \in Chans : o # ch => bf2[o] = bf[o],
         NEW gl, gl = (fl \ {f}) \cup {g}
  PROVE  Requested(p, gl, bf2, pl, c) /\ Rpcs(gl) = Rpcs(fl)
<1> DEFINE n == f.sent + 1
           q == f.reqs[n]
<1>0. /\ f \in Flight /\ f.sent \in Nat /\ Len(f.reqs) \in Nat
      /\ f.reqs \in Seq(Requests) /\ p \in Seq(Requests)
  BY DEF Requested, Placed, Flight
<1>1. Placed(p, gl) /\ Distinct(p, gl) /\ Made(p, gl, c)
  <2>1. g.sent <= Len(f.reqs)
    BY <1>0
  <2> QED BY <2>1, SameBatch DEF Requested
<1>2. n \in 1 .. Len(f.reqs) /\ q \in Reqs(f.reqs) /\ q \in Unsent(f) /\ q \in Requests
  <2>1. n \in 1 .. Len(f.reqs) /\ n \in f.sent + 1 .. Len(f.reqs)
    BY <1>0
  <2> QED BY <1>0, <2>1, ReqsType DEF Reqs, Unsent
<1>3. Unsent(g) = Unsent(f) \ {q}
  <2>1. ASSUME NEW r \in Unsent(g) PROVE r \in Unsent(f) /\ r # q
    <3>1. PICK i \in g.sent + 1 .. Len(g.reqs) : r = g.reqs[i]
      BY DEF Unsent
    <3>2. i \in f.sent + 1 .. Len(f.reqs) /\ i \in 1 .. Len(f.reqs) /\ i # n
      BY <1>0, <3>1
    <3>3. NoRepeats(f.reqs)
      BY DEF Requested, Distinct
    <3> QED BY <1>2, <3>1, <3>2, <3>3 DEF NoRepeats, Unsent
  <2>2. ASSUME NEW r \in Unsent(f), r # q PROVE r \in Unsent(g)
    <3>1. PICK i \in f.sent + 1 .. Len(f.reqs) : r = f.reqs[i]
      BY DEF Unsent
    <3>2. i \in g.sent + 1 .. Len(g.reqs)
      BY <1>0, <2>2, <3>1
    <3> QED BY <3>1, <3>2 DEF Unsent
  <2> QED BY <2>1, <2>2
<1>4. \A r : IsLive(r, p, gl) <=> IsLive(r, p, fl) /\ r # q
  <2>1. q \notin Reqs(p) /\ \A h \in fl : h # f => q \notin Unsent(h)
    <3>1. ASSUME NEW h \in fl, h # f PROVE q \notin Unsent(h)
      <4>1. h \in Flight
        BY DEF Requested, Placed
      <4> QED BY <1>2, <3>1, <4>1, UnsentOfBatch DEF Requested, Distinct
    <3> QED BY <1>2, <3>1 DEF Requested, Distinct
  <2> HIDE DEF q
  <2> QED BY <1>2, <1>3, <2>1 DEF IsLive
<1>5. IsLive(q, p, fl)
  BY <1>2 DEF IsLive
<1> HIDE DEF q
<1>6. bf2[q.ch] = Reqs(f.reqs) /\ \A o \in Chans : o # q.ch => bf2[o] = bf[o]
  BY DEF q
<1>7. Channels(p, gl, bf2, pl, c)
  <2> USE RequestFields
  <2>0. q.ch \notin pl /\ q.ch \in Chans
    BY <1>2, <1>5 DEF Requested, Channels
  <2>1. \A o \in pl : bf2[o] = {} /\ \A y \in Callers : c[y].ch # o
    BY <1>6, <2>0 DEF Requested, Channels
  <2>2. \A r \in Requests : IsLive(r, p, gl) => bf2[r.ch] = {} /\ r.ch \notin pl
    BY <1>2, <1>4, <1>5, <1>6 DEF Requested, Channels
  <2>3. \A r, o \in Requests :
          IsLive(r, p, gl) /\ IsLive(o, p, gl) /\ r.ch = o.ch => r = o
    BY <1>4 DEF Requested, Channels
  <2>4. \A r \in Requests, y \in Callers :
          IsLive(r, p, gl) /\ c[y].ch = r.ch => r = Own(y, c)
    BY <1>4 DEF Requested, Channels
  <2>5. \A y, z \in Callers : c[y].ch \in Chans /\ c[y].ch = c[z].ch => y = z
    BY DEF Requested, Channels
  <2>6. \A y \in Callers :
          c[y].ch \in Chans /\ bf2[c[y].ch] # {} => Own(y, c) \in bf2[c[y].ch]
    <3> SUFFICES ASSUME NEW y \in Callers, c[y].ch \in Chans, bf2[c[y].ch] # {}
                 PROVE  Own(y, c) \in bf2[c[y].ch]
      OBVIOUS
    <3>1. CASE c[y].ch = q.ch
      <4>1. q = Own(y, c)
        BY <1>2, <1>5, <3>1 DEF Requested, Channels
      <4> QED BY <1>2, <1>6, <3>1, <4>1
    <3>2. CASE c[y].ch # q.ch
      BY <1>6, <3>2 DEF Requested, Channels
    <3> QED BY <3>1, <3>2
  <2> QED BY <2>1, <2>2, <2>3, <2>4, <2>5, <2>6 DEF Channels
<1>8. Rpcs(gl) = Rpcs(fl)
  BY DEF Rpcs
<1>9. Requested(p, gl, bf2, pl, c)
  BY <1>1, <1>7 DEF Requested
<1> QED BY <1>8, <1>9

\* A flush that has sent every answer ends.
LEMMA EndStep ==
  ASSUME NEW p, NEW fl, NEW bf, NEW pl, NEW c, Requested(p, fl, bf, pl, c),
         NEW f \in fl, f.pc = "send", f.sent = Len(f.reqs)
  PROVE  /\ Requested(p, fl \ {f}, bf, pl, c)
         /\ Rpcs(fl \ {f}) = Rpcs(fl)
<1> DEFINE gl == fl \ {f}
<1>1. Placed(p, gl) /\ Distinct(p, gl) /\ Made(p, gl, c)
  BY FS_RemoveElement DEF Requested, Placed, Distinct, Made
<1>2. Unsent(f) = {}
  <2>1. Len(f.reqs) \in Nat
    BY DEF Requested, Placed, Flight
  <2> QED BY <2>1 DEF Unsent
<1>3. \A r : IsLive(r, p, gl) <=> IsLive(r, p, fl)
  BY <1>2 DEF IsLive
<1>4. Rpcs(gl) = Rpcs(fl)
  BY DEF Rpcs
<1> HIDE DEF gl
<1>5. Channels(p, gl, bf, pl, c)
  BY <1>3 DEF Requested, Channels
<1>6. Requested(p, gl, bf, pl, c)
  BY <1>1, <1>5 DEF Requested
<1> QED BY <1>4, <1>6 DEF gl

\* A caller leaves its channel, which goes to the pool only once its answer was
\* taken out of it.
LEMMA LeaveStep ==
  ASSUME NEW p, NEW fl, NEW bf, NEW pl, NEW c \in [Callers -> Caller],
         Requested(p, fl, bf, pl, c), pl \subseteq Chans,
         NEW x \in Callers, c[x].ch \in Chans, NEW c2 \in [Callers -> Caller],
         c2[x].ch = None, c2[x].k = c[x].k,
         \A y \in Callers : y # x => c2[y] = c[y],
         NEW bf2, NEW pl2,
         \/ bf2 = bf /\ pl2 = pl
         \/ /\ bf[c[x].ch] # {} /\ bf2[c[x].ch] = {} /\ pl2 = pl \cup {c[x].ch}
            /\ \A o \in Chans : o # c[x].ch => bf2[o] = bf[o]
  PROVE  Requested(p, fl, bf2, pl2, c2)
<1>0. None \notin Chans
  BY ConstantsAssumption
<1>1. Made(p, fl, c2)
  <2>1. \A y \in Callers : c2[y].k = c[y].k
    OBVIOUS
  <2>2. \A r \in Reqs(p) : r.of \in Callers
    BY ReqsType, RequestFields DEF Requested, Placed
  <2>3. \A f \in fl : \A r \in Reqs(f.reqs) : r.of \in Callers
    BY ReqsType, RequestFields DEF Requested, Placed, Flight
  <2> QED BY <2>1, <2>2, <2>3 DEF Requested, Made
<1>2. \A y \in Callers : y # x => Own(y, c2) = Own(y, c) /\ c2[y].ch = c[y].ch
  BY DEF Own
<1>3. Channels(p, fl, bf2, pl2, c2)
  <2> USE RequestFields
  <2> DEFINE ch == c[x].ch
  <2>0. \A y \in Callers : y # x => c[y].ch # ch
    BY DEF Requested, Channels
  <2>1. \A o \in pl2 : bf2[o] = {} /\ \A y \in Callers : c2[y].ch # o
    BY <1>0, <1>2, <2>0 DEF Requested, Channels
  <2>2. \A r \in Requests : IsLive(r, p, fl) => bf2[r.ch] = {} /\ r.ch \notin pl2
    BY DEF Requested, Channels
  <2>3. \A r, o \in Requests :
          IsLive(r, p, fl) /\ IsLive(o, p, fl) /\ r.ch = o.ch => r = o
    BY DEF Requested, Channels
  <2>4. \A r \in Requests, y \in Callers :
          IsLive(r, p, fl) /\ c2[y].ch = r.ch => r = Own(y, c2)
    BY <1>0, <1>2 DEF Requested, Channels
  <2>5. \A y, z \in Callers : c2[y].ch \in Chans /\ c2[y].ch = c2[z].ch => y = z
    BY <1>0, <1>2 DEF Requested, Channels
  <2>6. \A y \in Callers :
          c2[y].ch \in Chans /\ bf2[c2[y].ch] # {} => Own(y, c2) \in bf2[c2[y].ch]
    BY <1>0, <1>2, <2>0 DEF Requested, Channels
  <2> QED BY <2>1, <2>2, <2>3, <2>4, <2>5, <2>6 DEF Channels
<1> QED BY <1>1, <1>3 DEF Requested

-----------------------------------------------------------------------------
(* The batcher and its timer. *)

Batcher == [pending : Seq(Requests), inFlight : Nat, batchTime : 0 .. GrvBatchTimeout,
            overlapped : BOOLEAN, pendingIdle : BOOLEAN, window : BOOLEAN,
            windowArmed : BOOLEAN, windowLeft : 0 .. GrvBatchTimeout]

Timer == [on : BOOLEAN, left : 0 .. GrvBatchTimeout, expiring : Nat, dead : BOOLEAN]

\* The type invariant, in the names used here.
LEMMA Types ==
  TypeOK <=> /\ b \in Batcher /\ timer \in Timer
             /\ \A f \in flights : f \in Flight
             /\ buf \in [Chans -> SUBSET Requests]
             /\ pool \subseteq Chans
             /\ cl \in [Callers -> Caller]
             /\ closed \in BOOLEAN
BY DEF TypeOK, Batcher, Timer, Flight, Caller

\* The queue of b holds the request, the window is what it was.
LEMMA QueuedFields ==
  ASSUME NEW q \in Requests, b \in Batcher, NEW s, s = Queued(q)
  PROVE  /\ s \in Batcher /\ s.pending = Append(b.pending, q)
         /\ s.inFlight = b.inFlight /\ s.window = b.window
         /\ s.windowArmed = b.windowArmed /\ s.windowLeft = b.windowLeft
         /\ s.batchTime = b.batchTime
<1>1. Append(b.pending, q) \in Seq(Requests)
  BY DEF Batcher
<1>2. /\ (b.overlapped \/ b.inFlight > 0) \in BOOLEAN
      /\ (IF b.pending = <<>> THEN b.inFlight = 0 ELSE b.pendingIdle) \in BOOLEAN
  BY DEF Batcher
<1> DEFINE o == b.overlapped \/ b.inFlight > 0
           i == IF b.pending = <<>> THEN b.inFlight = 0 ELSE b.pendingIdle
           p == Append(b.pending, q)
<1>3. s = [b EXCEPT !.pending = p, !.overlapped = o, !.pendingIdle = i]
  BY DEF Queued
<1>4. p \in Seq(Requests) /\ o \in BOOLEAN /\ i \in BOOLEAN
  BY <1>1, <1>2
<1> HIDE DEF o, i, p
<1>5. /\ s \in Batcher /\ s.pending = p
      /\ s.inFlight = b.inFlight /\ s.window = b.window
      /\ s.windowArmed = b.windowArmed /\ s.windowLeft = b.windowLeft
      /\ s.batchTime = b.batchTime
  BY <1>3, <1>4 DEF Batcher
<1> QED BY <1>5 DEF p

\* A detached batcher has no queue and no window.
LEMMA DetachFields ==
  ASSUME NEW s \in Batcher, NEW m, m = detachLocked(s)
  PROVE  /\ m \in Batcher /\ m.pending = <<>> /\ m.inFlight = s.inFlight + 1
         /\ ~m.windowArmed
<1> DEFINE o == Len(s.pending) > 1 \/ ~s.pendingIdle
<1>1. o \in BOOLEAN /\ <<>> \in Seq(Requests) /\ 0 \in 0 .. GrvBatchTimeout
  BY ConstantsAssumption
<1> DEFINE e == <<>>
           n == s.inFlight + 1
<1>2. n \in Nat /\ e \in Seq(Requests)
  BY <1>1 DEF Batcher
<1>3. m = [s EXCEPT !.pending = e, !.inFlight = n, !.windowArmed = FALSE,
                    !.windowLeft = 0, !.overlapped = o]
  BY DEF detachLocked
<1> HIDE DEF o, e, n
<1>4. m \in Batcher /\ m.pending = e /\ m.inFlight = n /\ m.windowArmed = FALSE
  BY <1>1, <1>2, <1>3 DEF Batcher
<1> QED BY <1>4 DEF e, n

\* What of the invariant is about the batcher, its timer and the flights.
Rest == Counted /\ Windowed /\ NoStranded

\* The queue of s takes off: with what queued it, or because its time has come.
LEMMA TakesOffStep ==
  ASSUME BatchInv, NEW s \in Batcher, NEW bf, NEW pl, NEW c,
         Requested(s.pending, flights, bf, pl, c), s.pending # <<>>,
         s.inFlight = b.inFlight,
         b' \in Batcher, b'.pending = <<>>, b'.inFlight = s.inFlight + 1,
         ~b'.windowArmed,
         NEW by \in Callers \cup {None}, TakesOff(s.pending, by)
  PROVE  /\ Requested(b'.pending, flights', bf, pl, c)
         /\ Rest'
         /\ \A f \in flights' : f \in Flight
<1> DEFINE f == [reqs |-> s.pending, by |-> by, pc |-> "rpc", sent |-> 0, ok |-> FALSE]
<1>1. f \in Flight /\ f.reqs = s.pending /\ f.sent = 0 /\ f.pc = "rpc"
  BY DEF Flight, Batcher
<1>2. flights' = flights \cup {f}
  BY DEF TakesOff
<1> HIDE DEF f
<1>3. /\ Requested(<<>>, flights', bf, pl, c)
      /\ Cardinality(Rpcs(flights')) = Cardinality(Rpcs(flights)) + 1
  BY <1>1, <1>2, TakeOffStep
<1>4. b.inFlight = Cardinality(Rpcs(flights))
  BY DEF BatchInv, Counted
<1>5. Counted'
  BY <1>3, <1>4 DEF Counted, Rpcs
<1>6. Len(<<>>) = 0 /\ 0 < GrvMaxBatchSize
  BY ConstantsAssumption
<1>7. Windowed' /\ NoStranded'
  BY <1>6 DEF Windowed, NoStranded
<1>8. \A g \in flights' : g \in Flight
  BY <1>1, <1>2, Types DEF BatchInv
<1> QED BY <1>3, <1>5, <1>7, <1>8 DEF Rest

\* A request is admitted: it takes off with its batch, joins a window or opens
\* one.
LEMMA AdmitStep ==
  ASSUME BatchInv, NEW q \in Requests, NEW bf, NEW pl, NEW c,
         Requested(Append(b.pending, q), flights, bf, pl, c), admit(q)
  PROVE  /\ Requested(b'.pending, flights', bf, pl, c)
         /\ Rest'
         /\ \A f \in flights' : f \in Flight
         /\ b' \in Batcher /\ timer' \in Timer
<1> DEFINE s == Queued(q)
<1>0. b \in Batcher /\ timer \in Timer /\ (\A f \in flights : f \in Flight)
  BY Types DEF BatchInv
<1>1. /\ s \in Batcher /\ s.pending = Append(b.pending, q)
      /\ s.inFlight = b.inFlight /\ s.window = b.window
      /\ s.windowArmed = b.windowArmed /\ s.windowLeft = b.windowLeft
      /\ s.batchTime = b.batchTime
  BY <1>0, QueuedFields
<1>2. Len(s.pending) = Len(b.pending) + 1 /\ Len(b.pending) \in Nat /\ s.pending # <<>>
  BY <1>0, <1>1, AppendReqs DEF Batcher
<1>3. CASE Detach(s, Flusher(s, q.of))
  <2>1. q.of \in Callers
    BY RequestFields
  <2>2. Flusher(s, q.of) \in Callers \cup {None}
    BY <2>1 DEF Flusher
  <2>3. TakesOff(s.pending, Flusher(s, q.of)) /\ b' = detachLocked(s)
    BY <1>3 DEF Detach
  <2>4. /\ b' \in Batcher /\ b'.pending = <<>> /\ b'.inFlight = s.inFlight + 1
        /\ ~b'.windowArmed
    BY <1>1, <2>3, DetachFields
  <2>5. timer' \in Timer
    <3>1. 0 \in 0 .. GrvBatchTimeout
      BY ConstantsAssumption
    <3>2. timer' = timer \/ timer' = [timer EXCEPT !.on = FALSE, !.left = 0]
      BY <1>3 DEF Detach
    <3> QED BY <1>0, <3>1, <3>2 DEF Timer
  <2> HIDE DEF s
  <2> QED BY <1>1, <1>2, <2>2, <2>3, <2>4, <2>5, TakesOffStep
<1>4. CASE ~Full(s) /\ Len(s.pending) > 1 /\ b' = s /\ UNCHANGED <<timer, flights>>
  <2> HIDE DEF s
  <2>1. Len(s.pending) < GrvMaxBatchSize
    BY <1>1, <1>2, <1>4, ConstantsAssumption DEF BatchInv, Windowed, Full
  <2>2. b.pending # <<>>
    BY <1>2, <1>4
  <2>3. Counted' /\ Windowed' /\ NoStranded'
    BY <1>1, <1>2, <1>4, <2>1, <2>2 DEF BatchInv, Counted, Rpcs, Windowed, NoStranded
  <2> QED BY <1>0, <1>1, <1>4, <2>3 DEF Rest
<1>5. CASE Len(s.pending) = 1 /\ OpenWindow(s)
  <2>1. PICK took \in 0 .. (IF b.window THEN 0 ELSE b.batchTime) :
          /\ b' = [s EXCEPT !.window = TRUE, !.windowArmed = TRUE,
                            !.windowLeft = b.batchTime - took]
          /\ timer' = [timer EXCEPT !.on = TRUE, !.left = Armed(b.batchTime - took, took)]
          /\ flights' = flights
    BY <1>5 DEF OpenWindow
  <2> DEFINE left == b.batchTime - took
  <2>2. left \in 0 .. GrvBatchTimeout
    BY <1>0, ConstantsAssumption DEF Batcher
  <2>3. timer' = [timer EXCEPT !.on = TRUE, !.left = left]
    BY <2>1 DEF Armed
  <2>4. b' = [s EXCEPT !.window = TRUE, !.windowArmed = TRUE, !.windowLeft = left]
    BY <2>1
  <2> HIDE DEF left, s
  <2>5. /\ b' \in Batcher /\ b'.pending = s.pending /\ b'.inFlight = b.inFlight
        /\ b'.window /\ b'.windowArmed /\ b'.windowLeft = left
    BY <1>1, <2>2, <2>4 DEF Batcher
  <2>6. timer' \in Timer /\ timer'.on /\ timer'.left = left
    BY <1>0, <2>2, <2>3 DEF Timer
  <2>7. NoStranded'
    BY <2>2, <2>5, <2>6 DEF NoStranded
  <2>8. Counted' /\ Windowed'
    <3>1. Len(b'.pending) < GrvMaxBatchSize /\ b'.pending # <<>>
      <4>1. Len(s.pending) = 1 /\ 1 < GrvMaxBatchSize
        BY <1>5, ConstantsAssumption
      <4> QED BY <1>2, <2>5, <4>1
    <3>2. b'.inFlight = Cardinality(Rpcs(flights))
      BY <2>5 DEF BatchInv, Counted
    <3>3. Counted'
      BY <2>1, <3>2 DEF Counted, Rpcs
    <3> QED BY <3>1, <3>3 DEF Windowed
  <2> QED BY <1>0, <1>1, <2>1, <2>5, <2>6, <2>7, <2>8 DEF Rest
<1> QED BY <1>3, <1>4, <1>5 DEF admit

\* A call of getReadVersion.
LEMMA CallStep ==
  ASSUME BatchInv, NEW x \in Callers, NEW ch \in Chans, getReadVersion(x, ch)
  PROVE  BatchInv'
<1> DEFINE k == cl[x].k + 1
           q == [ch |-> ch, of |-> x, k |-> k]
           pc == IF \E f \in flights' : f.by = x THEN "inline" ELSE "wait"
           w == [ch |-> ch, k |-> k, pc |-> pc]
<1>0. /\ b \in Batcher /\ timer \in Timer /\ cl \in [Callers -> Caller]
      /\ buf \in [Chans -> SUBSET Requests] /\ pool \subseteq Chans
      /\ closed \in BOOLEAN /\ (\A f \in flights : f \in Flight)
  BY Types DEF BatchInv
<1>1. /\ cl[x].pc = "idle" /\ pool' = pool \ {ch} /\ admit(q) /\ closed' = closed
      /\ cl' = [cl EXCEPT ![x] = w]
      /\ IF pool = {} THEN ~Referenced(ch) /\ buf' = [buf EXCEPT ![ch] = {}]
         ELSE ch \in pool /\ buf' = buf
  BY DEF getReadVersion
<1>2. q \in Requests /\ k \in Nat /\ cl[x].k \in Nat
  BY <1>0 DEF Requests, Caller
<1>3. w \in Caller /\ w.ch = ch /\ w.k = k /\ w.pc # "idle"
  <2>1. pc \in {"inline", "wait"}
    OBVIOUS
  <2> HIDE DEF pc
  <2> QED BY <1>2, <2>1 DEF Caller
<1> HIDE DEF w
<1>4. /\ cl' \in [Callers -> Caller] /\ cl'[x] = w
      /\ \A y \in Callers : y # x => cl'[y] = cl[y]
  BY <1>0, <1>1, <1>3
<1>5. /\ buf' \in [Chans -> SUBSET Requests] /\ pool' \subseteq Chans
      /\ buf'[ch] = {} /\ \A o \in Chans : o # ch => buf'[o] = buf[o]
  BY <1>0, <1>1 DEF BatchInv, Requested, Channels
<1>6. /\ \A r \in Requests : IsLive(r, b.pending, flights) => r.ch # ch
      /\ \A y \in Callers : cl[y].ch # ch
  <2>1. CASE pool = {}
    <3>1. ~Referenced(ch)
      BY <1>1, <2>1
    <3>2. ASSUME NEW r \in Requests, IsLive(r, b.pending, flights), r.ch = ch PROVE FALSE
      <4>1. CASE r \in Reqs(b.pending)
        <5>1. PICK i \in 1 .. Len(b.pending) : r = b.pending[i]
          BY <4>1 DEF Reqs
        <5>2. i \in DOMAIN b.pending
          BY <1>0, <5>1 DEF Batcher
        <5> QED BY <3>1, <3>2, <5>1, <5>2 DEF Referenced
      <4>2. ASSUME NEW f \in flights, r \in Unsent(f) PROVE FALSE
        <5>1. f \in Flight /\ f.reqs \in Seq(Requests)
          BY <1>0 DEF Flight
        <5>2. PICK i \in 1 .. Len(f.reqs) : r = f.reqs[i]
          BY <4>2, <5>1, UnsentOfBatch DEF Reqs
        <5>3. i \in DOMAIN f.reqs
          BY <5>1, <5>2
        <5> QED BY <3>1, <3>2, <5>2, <5>3 DEF Referenced
      <4> QED BY <3>2, <4>1, <4>2 DEF IsLive
    <3> QED BY <3>1, <3>2 DEF Referenced
  <2>2. CASE pool # {}
    BY <1>1, <2>2 DEF BatchInv, Requested, Channels
  <2> QED BY <2>1, <2>2
<1>7. Requested(Append(b.pending, q), flights, buf', pool', cl')
  <2>1. Requested(b.pending, flights, buf, pool, cl) /\ Len(b.pending) < GrvMaxBatchSize
    BY DEF BatchInv, Windowed
  <2>2. cl'[x].ch = ch /\ cl'[x].k = cl[x].k + 1
    BY <1>3, <1>4
  <2> HIDE DEF k, q
  <2>3. q = [ch |-> ch, of |-> x, k |-> cl[x].k + 1]
    BY DEF q, k
  <2>4. pool' = pool \ {ch}
    BY <1>1
  <2> QED BY <1>0, <1>4, <1>5, <1>6, <2>1, <2>2, <2>3, <2>4, QueueStep
<1> HIDE DEF q
<1>8. /\ Requested(b'.pending, flights', buf', pool', cl')
      /\ Rest'
      /\ \A f \in flights' : f \in Flight
      /\ b' \in Batcher /\ timer' \in Timer
  BY <1>1, <1>2, <1>7, AdmitStep
<1>9. TypeOK'
  BY <1>0, <1>1, <1>4, <1>5, <1>8 DEF TypeOK, Batcher, Timer, Flight, Caller
<1>10. Holding(cl')
  <2> SUFFICES ASSUME NEW y \in Callers PROVE cl'[y].pc # "idle" <=> cl'[y].ch \in Chans
    BY DEF Holding
  <2> QED BY <1>3, <1>4 DEF BatchInv, Holding
<1> QED BY <1>8, <1>9, <1>10 DEF BatchInv, Rest, Requested, Placed, Distinct, Made,
           Channels, Holding, IsLive, Own

\* A caller takes its answer, and its channel goes back to the pool.
LEMMA ReceiveStep ==
  ASSUME BatchInv, NEW x \in Callers, Receive(x) \/ GiveUp(x)
  PROVE  BatchInv'
<1> DEFINE ch == cl[x].ch
<1>0. /\ b \in Batcher /\ timer \in Timer /\ cl \in [Callers -> Caller]
      /\ buf \in [Chans -> SUBSET Requests] /\ pool \subseteq Chans
      /\ closed \in BOOLEAN /\ (\A f \in flights : f \in Flight)
  BY Types DEF BatchInv
<1>1. cl[x].pc # "idle" /\ cl' = [cl EXCEPT ![x] = Idle(@.k)]
  BY DEF Receive, GiveUp
<1>2. UNCHANGED <<b, timer, flights, closed>>
  BY DEF Receive, GiveUp
<1>3. ch \in Chans /\ cl[x].k \in Nat
  BY <1>0, <1>1 DEF BatchInv, Holding, Caller
<1>4. Idle(cl[x].k) \in Caller /\ Idle(cl[x].k).ch = None /\ Idle(cl[x].k).k = cl[x].k
      /\ Idle(cl[x].k).pc = "idle"
  BY <1>3 DEF Idle, Caller
<1>5. /\ cl' \in [Callers -> Caller] /\ cl'[x] = Idle(cl[x].k)
      /\ \A y \in Callers : y # x => cl'[y] = cl[y]
  BY <1>0, <1>1, <1>4
<1>6. \/ buf' = buf /\ pool' = pool
      \/ /\ buf[ch] # {} /\ buf'[ch] = {} /\ pool' = pool \cup {ch}
         /\ buf' = [buf EXCEPT ![ch] = {}]
         /\ \A o \in Chans : o # ch => buf'[o] = buf[o]
  <2>1. CASE GiveUp(x)
    BY <2>1 DEF GiveUp, Abandoned
  <2>2. CASE Receive(x)
    <3>1. buf[ch] # {} /\ buf' = [buf EXCEPT ![ch] = {}] /\ pool' = pool \cup {ch}
      BY <2>2 DEF Receive
    <3> QED BY <1>0, <1>3, <3>1
  <2> QED BY <2>1, <2>2
<1>7. Requested(b.pending, flights, buf', pool', cl')
  <2>1. Requested(b.pending, flights, buf, pool, cl)
    BY DEF BatchInv
  <2>2. cl'[x].ch = None /\ cl'[x].k = cl[x].k
    BY <1>4, <1>5
  <2> QED BY <1>0, <1>3, <1>5, <1>6, <2>1, <2>2, LeaveStep
<1>8. Requested(b'.pending, flights', buf', pool', cl')
  BY <1>2, <1>7
<1>9. buf' \in [Chans -> SUBSET Requests] /\ pool' \subseteq Chans
  BY <1>0, <1>3, <1>6
<1>10. TypeOK'
  BY <1>0, <1>2, <1>5, <1>9 DEF TypeOK, Batcher, Timer, Flight, Caller
<1>11. Holding(cl')
  BY <1>4, <1>5, ConstantsAssumption DEF BatchInv, Holding
<1>12. Counted' /\ Windowed' /\ NoStranded'
  BY <1>2 DEF BatchInv, Counted, Rpcs, Windowed, NoStranded
<1> QED BY <1>8, <1>10, <1>11, <1>12 DEF BatchInv, Requested, Placed, Distinct, Made,
           Channels, Holding, IsLive, Own

\* A step that touches neither queue nor flights nor callers nor channels.
LEMMA ElsewhereStep ==
  ASSUME BatchInv, b' \in Batcher, timer' \in Timer, closed' \in BOOLEAN,
         UNCHANGED <<flights, buf, pool, cl>>,
         b'.pending = b.pending, b'.inFlight = b.inFlight,
         b'.windowArmed = b.windowArmed, NoStranded'
  PROVE  BatchInv'
<1>1. TypeOK'
  <2>1. /\ cl \in [Callers -> Caller]
        /\ buf \in [Chans -> SUBSET Requests] /\ pool \subseteq Chans
        /\ (\A f \in flights : f \in Flight)
    BY Types DEF BatchInv
  <2> QED BY <2>1 DEF TypeOK, Batcher, Timer, Flight, Caller
<1>2. Requested(b.pending, flights, buf, pool, cl) /\ Holding(cl)
  BY DEF BatchInv
<1>3. Requested(b'.pending, flights', buf', pool', cl') /\ Holding(cl')
  BY <1>2
<1>4. Counted' /\ Windowed'
  BY DEF BatchInv, Counted, Rpcs, Windowed
<1> QED BY <1>1, <1>3, <1>4 DEF BatchInv, Requested, Placed, Distinct, Made,
           Channels, Holding, IsLive, Own

\* One step of a flush.
LEMMA FlushStep ==
  ASSUME BatchInv, NEW f \in flights, flush(f)
  PROVE  BatchInv'
<1>0. /\ b \in Batcher /\ timer \in Timer /\ cl \in [Callers -> Caller]
      /\ buf \in [Chans -> SUBSET Requests] /\ pool \subseteq Chans
      /\ closed \in BOOLEAN /\ (\A g \in flights : g \in Flight)
  BY Types DEF BatchInv
<1>1. Requested(b.pending, flights, buf, pool, cl) /\ Holding(cl)
  BY DEF BatchInv
<1>2. b.inFlight = Cardinality(Rpcs(flights))
  BY DEF BatchInv, Counted
<1>3. /\ f \in Flight /\ f.reqs \in Seq(Requests) /\ f.sent \in Nat /\ f.ok \in BOOLEAN
      /\ Len(f.reqs) \in Nat /\ f.by \in Callers \cup {None}
  BY <1>0 DEF Flight
<1>4. ASSUME b' \in Batcher, buf' \in [Chans -> SUBSET Requests],
             UNCHANGED <<timer, pool, cl, closed>>,
             Requested(b.pending, flights', buf', pool, cl),
             b'.inFlight = Cardinality(Rpcs(flights')),
             b'.pending = b.pending, b'.window = b.window,
             b'.windowArmed = b.windowArmed, b'.windowLeft = b.windowLeft
      PROVE  BatchInv'
  <2>1. \A g \in flights' : g \in Flight
    BY <1>4 DEF Requested, Placed
  <2>2. TypeOK'
    BY <1>0, <1>4, <2>1 DEF TypeOK, Batcher, Timer, Flight, Caller
  <2>3. Requested(b'.pending, flights', buf', pool', cl') /\ Holding(cl')
    BY <1>1, <1>4
  <2>4. Counted' /\ Windowed' /\ NoStranded'
    BY <1>4 DEF BatchInv, Counted, Rpcs, Windowed, NoStranded
  <2> QED BY <2>2, <2>3, <2>4 DEF BatchInv, Requested, Placed, Distinct, Made,
             Channels, Holding, IsLive, Own
<1>5. CASE Retire(f)
  <2>1. PICK ok \in BOOLEAN :
          flights' = (flights \ {f}) \cup {[f EXCEPT !.pc = "send", !.ok = ok]}
    BY <1>5 DEF Retire, Becomes
  <2> DEFINE g == [f EXCEPT !.pc = "send", !.ok = ok]
  <2>2. g \in Flight /\ g.reqs = f.reqs /\ g.sent = f.sent /\ g.pc = "send"
    BY <1>3 DEF Flight
  <2> HIDE DEF g
  <2>3. flights' = (flights \ {f}) \cup {g} /\ f.pc = "rpc"
    BY <1>5, <2>1 DEF g, Retire
  <2>4. /\ Requested(b.pending, flights', buf, pool, cl)
        /\ Cardinality(Rpcs(flights')) \in Nat
        /\ Cardinality(Rpcs(flights)) = Cardinality(Rpcs(flights')) + 1
    BY <1>1, <2>2, <2>3, RetireStep
  <2> DEFINE n == Cardinality(Rpcs(flights'))
  <2>5. n \in Nat /\ b.inFlight - 1 = n
    BY <1>2, <2>4
  <2>6. b' = [b EXCEPT !.inFlight = n] /\ UNCHANGED <<timer, buf, pool, cl, closed>>
    BY <1>5, <2>5 DEF Retire, finishBatch
  <2> HIDE DEF n
  <2>7. /\ b' \in Batcher /\ b'.inFlight = n
        /\ b'.pending = b.pending /\ b'.window = b.window
        /\ b'.windowArmed = b.windowArmed /\ b'.windowLeft = b.windowLeft
    BY <1>0, <2>5, <2>6 DEF Batcher
  <2> QED BY <1>0, <1>4, <2>4, <2>6, <2>7 DEF n
<1>6. CASE Publish(f)
  <2> DEFINE q == f.reqs[f.sent + 1]
             R == {f.reqs[i] : i \in DOMAIN f.reqs}
  <2>1. /\ f.pc = "send" /\ f.sent < Len(f.reqs)
        /\ buf' = [buf EXCEPT ![q.ch] = R]
        /\ UNCHANGED <<b, timer, pool, cl, closed>>
    BY <1>6 DEF Publish
  <2>2. PICK panic \in {FALSE, f.ok /\ "panic" \in Faults} :
          flights' = (flights \ {f}) \cup
                       {[f EXCEPT !.sent = Published(f, panic), !.ok = @ /\ ~panic]}
    BY <1>6 DEF Publish, Becomes
  <2> DEFINE ok == f.ok /\ ~panic
             g == [f EXCEPT !.sent = f.sent + 1, !.ok = ok]
  <2>3. ok \in BOOLEAN
    BY Zenon
  <2> HIDE DEF ok
  <2>a. f.pc = "send" /\ f.sent < Len(f.reqs)
    BY <2>1
  <2>4. g \in Flight /\ g.reqs = f.reqs /\ g.sent = f.sent + 1 /\ g.pc = "send"
    <3> DEFINE n == f.sent + 1
    <3>1. n \in Nat
      BY <1>3
    <3> HIDE DEF n
    <3>2. [f EXCEPT !.sent = n, !.ok = ok] \in Flight
      BY <1>3, <2>3, <3>1 DEF Flight
    <3>3. /\ [f EXCEPT !.sent = n, !.ok = ok].reqs = f.reqs
          /\ [f EXCEPT !.sent = n, !.ok = ok].sent = n
          /\ [f EXCEPT !.sent = n, !.ok = ok].pc = f.pc
      BY <1>3 DEF Flight
    <3> QED BY <2>a, <3>2, <3>3 DEF n
  <2>5. flights' = (flights \ {f}) \cup {g}
    BY <2>2 DEF g, ok, Published
  <2> HIDE DEF g
  <2>6. R = Reqs(f.reqs) /\ R \subseteq Requests
    BY <1>3, ReqsType DEF Reqs
  <2>7. q \in Requests /\ q.ch \in Chans
    BY <1>3, <2>1, RequestFields
  <2>8. /\ buf' \in [Chans -> SUBSET Requests] /\ buf'[q.ch] = Reqs(f.reqs)
        /\ \A o \in Chans : o # q.ch => buf'[o] = buf[o]
    <3> HIDE DEF q, R
    <3> QED BY <1>0, <2>1, <2>6, <2>7
  <2>9. Requested(b.pending, flights', buf', pool, cl) /\ Rpcs(flights') = Rpcs(flights)
    <3>1. pool \subseteq Chans
      BY <1>0
    <3> DEFINE ch == f.reqs[f.sent + 1].ch
    <3>2. buf'[ch] = Reqs(f.reqs) /\ \A o \in Chans : o # ch => buf'[o] = buf[o]
      BY <2>8
    <3> HIDE DEF q, R
    <3> QED BY <1>1, <2>a, <2>4, <2>5, <3>1, <3>2, SendStep
  <2> QED BY <1>0, <1>2, <1>4, <2>1, <2>8, <2>9
<1>7. CASE FlushEnds(f)
  <2>1. /\ f.pc = "send" /\ f.sent = Len(f.reqs) /\ flights' = flights \ {f}
        /\ UNCHANGED <<timer, buf, pool, cl, closed>>
    BY <1>7 DEF FlushEnds
  <2>2. PICK w \in 0 .. GrvBatchTimeout : b' = [b EXCEPT !.batchTime = w]
    BY <1>7 DEF FlushEnds
  <2>3. /\ b' \in Batcher /\ b'.inFlight = b.inFlight
        /\ b'.pending = b.pending /\ b'.window = b.window
        /\ b'.windowArmed = b.windowArmed /\ b'.windowLeft = b.windowLeft
    BY <1>0, <2>2 DEF Batcher
  <2>4. Requested(b.pending, flights', buf, pool, cl) /\ Rpcs(flights') = Rpcs(flights)
    BY <1>1, <2>1, EndStep
  <2> QED BY <1>0, <1>2, <1>4, <2>1, <2>3, <2>4
<1> QED BY <1>5, <1>6, <1>7 DEF flush

\* A due window, or the window of a dead timer, sends its queue.
LEMMA SweepStep ==
  ASSUME BatchInv, b.pending # <<>>, b' \in Batcher, timer' \in Timer,
         b'.pending = <<>>, b'.inFlight = b.inFlight + 1, ~b'.windowArmed,
         TakesOff(b.pending, None), UNCHANGED <<buf, pool, cl, closed>>
  PROVE  BatchInv'
<1>0. /\ b \in Batcher /\ cl \in [Callers -> Caller]
      /\ buf \in [Chans -> SUBSET Requests] /\ pool \subseteq Chans
      /\ closed \in BOOLEAN
  BY Types DEF BatchInv
<1>1. Requested(b.pending, flights, buf, pool, cl) /\ Holding(cl)
  BY DEF BatchInv
<1>2. /\ Requested(b'.pending, flights', buf, pool, cl)
      /\ Rest'
      /\ \A f \in flights' : f \in Flight
  BY <1>0, <1>1, TakesOffStep
<1>3. TypeOK'
  BY <1>0, <1>2 DEF TypeOK, Batcher, Timer, Flight, Caller
<1>4. Requested(b'.pending, flights', buf', pool', cl') /\ Holding(cl')
  BY <1>1, <1>2
<1> QED BY <1>2, <1>3, <1>4 DEF BatchInv, Rest, Requested, Placed, Distinct, Made,
           Channels, Holding, IsLive, Own

\* The timer and its window.
LEMMA WindowStep ==
  ASSUME BatchInv,
         Tick \/ Fire \/ expiredBatch \/ Close \/ TimerFails \/ retireWindow
  PROVE  BatchInv'
<1>0. b \in Batcher /\ timer \in Timer /\ closed \in BOOLEAN
  BY Types DEF BatchInv
<1>a. /\ b.pending \in Seq(Requests) /\ b.inFlight \in Nat
      /\ b.windowLeft \in 0 .. GrvBatchTimeout /\ GrvBatchTimeout \in Nat
      /\ timer.left \in 0 .. GrvBatchTimeout /\ timer.expiring \in Nat
  BY <1>0, ConstantsAssumption DEF Batcher, Timer
<1>b. \A n \in 0 .. GrvBatchTimeout : Down(n) \in 0 .. GrvBatchTimeout
  BY ConstantsAssumption DEF Down
<1>c. 0 \in 0 .. GrvBatchTimeout
  BY <1>a
<1>1. CASE Tick
  <2> DEFINE l == Down(b.windowLeft)
             m == Down(timer.left)
  <2>1. /\ b' = [b EXCEPT !.windowLeft = l] /\ timer' = [timer EXCEPT !.left = m]
        /\ UNCHANGED <<flights, buf, pool, cl, closed>>
    BY <1>1 DEF Tick
  <2>2. l \in 0 .. GrvBatchTimeout /\ m \in 0 .. GrvBatchTimeout
    BY <1>a, <1>b
  <2>3. timer.left >= b.windowLeft => m >= l
    BY <1>a DEF Down
  <2>4. b.windowLeft = 0 => l = 0
    BY DEF Down
  <2> HIDE DEF l, m
  <2>5. /\ b' \in Batcher /\ b'.pending = b.pending /\ b'.inFlight = b.inFlight
        /\ b'.windowArmed = b.windowArmed /\ b'.window = b.window /\ b'.windowLeft = l
    BY <1>0, <2>1, <2>2 DEF Batcher
  <2>6. /\ timer' \in Timer /\ timer'.on = timer.on /\ timer'.left = m
        /\ timer'.expiring = timer.expiring /\ timer'.dead = timer.dead
    BY <1>0, <2>1, <2>2 DEF Timer
  <2>7. NoStranded'
    BY <2>3, <2>4, <2>5, <2>6 DEF BatchInv, NoStranded
  <2> QED BY <1>0, <2>1, <2>5, <2>6, <2>7, ElsewhereStep
<1>2. CASE Fire
  <2> DEFINE n == timer.expiring + 1
  <2>1. /\ timer.on /\ timer.left = 0
        /\ timer' = [timer EXCEPT !.on = FALSE, !.expiring = n]
        /\ UNCHANGED <<b, flights, buf, pool, cl, closed>>
    BY <1>2 DEF Fire
  <2>2. n \in Nat /\ n > 0
    BY <1>a
  <2> HIDE DEF n
  <2>3. timer' \in Timer /\ timer'.expiring = n /\ timer'.dead = timer.dead
    BY <1>0, <2>1, <2>2 DEF Timer
  <2>4. timer.left >= b.windowLeft => b.windowLeft = 0
    BY <1>a, <2>1
  <2>5. NoStranded'
    BY <1>a, <2>1, <2>2, <2>3, <2>4 DEF BatchInv, NoStranded
  <2> QED BY <1>0, <2>1, <2>3, <2>5, ElsewhereStep
<1>3. CASE expiredBatch
  <2>1. timer.expiring > 0 /\ UNCHANGED <<buf, pool, cl, closed>>
    BY <1>3 DEF expiredBatch
  <2> DEFINE n == timer.expiring - 1
  <2>2. n \in Nat
    BY <1>a, <2>1
  <2>3. CASE Due
    <3>1. /\ b' = detachLocked(b) /\ TakesOff(b.pending, None)
          /\ timer' = [timer EXCEPT !.on = FALSE, !.left = 0, !.expiring = n]
      BY <1>3, <2>3 DEF expiredBatch
    <3>2. b.pending # <<>>
      BY <2>3 DEF Due, BatchInv, Windowed
    <3> HIDE DEF n
    <3>3. timer' \in Timer
      BY <1>0, <1>c, <2>2, <3>1 DEF Timer
    <3>4. /\ b' \in Batcher /\ b'.pending = <<>> /\ b'.inFlight = b.inFlight + 1
          /\ ~b'.windowArmed
      BY <1>0, <3>1, DetachFields
    <3> QED BY <2>1, <3>1, <3>2, <3>3, <3>4, SweepStep
  <2>4. CASE ~Due
    <3>1. timer' = [timer EXCEPT !.expiring = n] /\ UNCHANGED <<b, flights>>
      BY <1>3, <2>4 DEF expiredBatch
    <3> HIDE DEF n
    <3>2. /\ timer' \in Timer /\ timer'.on = timer.on /\ timer'.left = timer.left
          /\ timer'.dead = timer.dead
      BY <1>0, <2>2, <3>1 DEF Timer
    <3>3. NoStranded'
      BY <2>4, <3>1, <3>2 DEF Due, BatchInv, NoStranded
    <3> QED BY <1>0, <2>1, <3>1, <3>2, <3>3, ElsewhereStep
  <2> QED BY <2>3, <2>4
<1>4. CASE Close \/ TimerFails
  <2>1. /\ UNCHANGED <<b, flights, buf, pool, cl>> /\ closed' \in BOOLEAN
        /\ timer' = [timer EXCEPT !.dead = b.window] \/ timer' = [timer EXCEPT !.dead = TRUE]
    BY <1>0, <1>4 DEF Close, TimerFails
  <2>2. timer' \in Timer /\ (b.window => timer'.dead)
    BY <1>0, <2>1 DEF Timer, Batcher
  <2>3. NoStranded'
    BY <2>1, <2>2 DEF BatchInv, NoStranded
  <2> QED BY <1>0, <2>1, <2>2, <2>3, ElsewhereStep
<1>5. CASE retireWindow
  <2>1. /\ timer' = [timer EXCEPT !.on = FALSE, !.left = 0, !.dead = FALSE]
        /\ UNCHANGED <<buf, pool, cl, closed>>
    BY <1>5 DEF retireWindow
  <2>2. timer' \in Timer
    BY <1>0, <1>c, <2>1 DEF Timer
  <2>3. CASE b.pending # <<>>
    <3> DEFINE m == detachLocked(b)
    <3>1. b' = [m EXCEPT !.window = FALSE] /\ TakesOff(b.pending, None)
      BY <1>5, <2>3 DEF retireWindow, Swept
    <3>2. m \in Batcher /\ m.pending = <<>> /\ m.inFlight = b.inFlight + 1 /\ ~m.windowArmed
      BY <1>0, DetachFields
    <3> HIDE DEF m
    <3>3. /\ b' \in Batcher /\ b'.pending = m.pending /\ b'.inFlight = m.inFlight
          /\ b'.windowArmed = m.windowArmed
      BY <3>1, <3>2 DEF Batcher
    <3> QED BY <2>1, <2>2, <2>3, <3>1, <3>2, <3>3, SweepStep
  <2>4. CASE b.pending = <<>>
    <3>1. b' = [b EXCEPT !.window = FALSE] /\ flights' = flights
      BY <1>5, <2>4 DEF retireWindow, Swept
    <3>2. /\ b' \in Batcher /\ b'.pending = b.pending /\ b'.inFlight = b.inFlight
          /\ b'.windowArmed = b.windowArmed
      BY <1>0, <3>1 DEF Batcher
    <3>3. NoStranded'
      BY <2>4, <3>2 DEF NoStranded
    <3> QED BY <1>0, <2>1, <2>2, <3>1, <3>2, <3>3, ElsewhereStep
  <2> QED BY <2>3, <2>4
<1> QED BY <1>1, <1>2, <1>3, <1>4, <1>5

-----------------------------------------------------------------------------
(* The theorems. *)

LEMMA BatchInit == Init => BatchInv
<1> SUFFICES ASSUME Init PROVE BatchInv
  OBVIOUS
<1>1. TypeOK
  <2>0. 0 \in 0 .. GrvBatchTimeout /\ <<>> \in Seq(Requests)
    BY ConstantsAssumption
  <2>1. b \in Batcher
    BY <2>0 DEF Init, Batcher
  <2>2. timer \in Timer
    BY <2>0 DEF Init, Timer
  <2>3. cl \in [Callers -> Caller]
    BY DEF Init, Idle, Caller
  <2> QED BY <2>1, <2>2, <2>3, Types DEF Init
<1>2. b.pending = <<>> /\ b.inFlight = 0 /\ ~b.windowArmed
  BY DEF Init
<1>3. <<>> \in Seq(Requests) /\ Len(<<>>) = 0 /\ Reqs(<<>>) = {}
  BY DEF Reqs
<1>4. IsFiniteSet({}) /\ Cardinality({}) = 0
  BY FS_EmptySet
<1>5. Counted
  BY <1>2, <1>4 DEF Init, Counted, Rpcs
<1>6. Windowed /\ NoStranded
  BY <1>2, <1>3, ConstantsAssumption DEF Windowed, NoStranded
<1>7. \A x \in Callers : cl[x].pc = "idle" /\ cl[x].ch = None
  BY DEF Init, Idle
<1>8. Holding(cl)
  BY <1>7, ConstantsAssumption DEF Holding
<1>9. Placed(<<>>, {}) /\ Distinct(<<>>, {}) /\ Made(<<>>, {}, cl)
  BY <1>3, <1>4, ConstantsAssumption DEF Placed, Distinct, NoRepeats, Made
<1>10. \A r : ~IsLive(r, <<>>, {})
  BY <1>3 DEF IsLive
<1>11. Channels(<<>>, {}, buf, {}, cl)
  BY <1>7, <1>10, ConstantsAssumption DEF Channels
<1>12. flights = {} /\ pool = {}
  BY DEF Init
<1> QED BY <1>1, <1>2, <1>5, <1>6, <1>8, <1>9, <1>11, <1>12 DEF BatchInv, Requested

LEMMA BatchStep == BatchInv /\ [Next]_vars => BatchInv'
<1> SUFFICES ASSUME BatchInv, [Next]_vars PROVE BatchInv'
  OBVIOUS
<1>1. ASSUME NEW x \in Callers, NEW ch \in Chans, getReadVersion(x, ch) PROVE BatchInv'
  BY <1>1, CallStep
<1>2. ASSUME NEW x \in Callers, Receive(x) \/ GiveUp(x) PROVE BatchInv'
  BY <1>2, ReceiveStep
<1>3. ASSUME NEW f \in flights, flush(f) PROVE BatchInv'
  BY <1>3, FlushStep
<1>4. CASE Tick \/ Fire \/ expiredBatch \/ Close \/ TimerFails \/ retireWindow
  BY <1>4, WindowStep
<1>5. CASE Quiet \/ UNCHANGED vars
  <2>1. UNCHANGED vars
    BY <1>5 DEF Quiet
  <2>2. b \in Batcher /\ timer \in Timer /\ closed \in BOOLEAN
    BY Types DEF BatchInv
  <2>3. NoStranded'
    BY <2>1 DEF BatchInv, NoStranded, vars
  <2> QED BY <2>1, <2>2, <2>3, ElsewhereStep DEF vars
<1> QED BY <1>1, <1>2, <1>3, <1>4, <1>5 DEF Next

THEOREM BatchInvariant == Spec => []BatchInv
BY BatchInit, BatchStep, PTL DEF Spec

\* The batcher keeps its types: also when every flush panics and the database
\* is closed under it, no count falls below zero and no window is longer than
\* the batch timeout.
THEOREM BatchTypeCorrect == Spec => []TypeOK
<1>1. BatchInv => TypeOK
  BY DEF BatchInv
<1> QED BY <1>1, BatchInvariant, PTL

\* The in-flight count that the serial fast path trusts is the number of
\* batches whose RPC is out, and no batch is empty or above the limit.
THEOREM InFlightCountsHolds == Spec => []InFlightCounts
<1>1. BatchInv => InFlightCounts
  BY DEF BatchInv, Counted, Rpcs, Requested, Placed, InFlightCounts
<1> QED BY <1>1, BatchInvariant, PTL

\* A reply channel from the pool never brings its owner the answer of a batch
\* that the owner's present request is not in.
THEOREM OwnReplyHolds == Spec => []OwnReply
<1>1. BatchInv => OwnReply
  BY DEF BatchInv, Requested, Channels, Holding, Own, OwnReply
<1> QED BY <1>1, BatchInvariant, PTL

\* A request that waits for its window has a timer, an expiry under way or a
\* worker that will send it.
THEOREM NoStrandedHolds == Spec => []NoStranded
<1>1. BatchInv => NoStranded
  BY DEF BatchInv
<1> QED BY <1>1, BatchInvariant, PTL
=============================================================================
