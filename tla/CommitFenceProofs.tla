------------------------- MODULE CommitFenceProofs -------------------------
(***************************************************************************)
(* Why a commit that was answered 1021 stays as it is: the proof that the  *)
(* client's fence is sound, for any number of handles, keys, attempts and  *)
(* faults.                                                                 *)
(*                                                                         *)
(* The argument: an attempt's request under way is the one its handle      *)
(* captured; the fence key is one of its read conflicts; and a dummy that  *)
(* committed wrote that key above the read version of the request, so the  *)
(* resolver will refuse it.                                                *)
(***************************************************************************)
EXTENDS CommitFence, TLAPS

-----------------------------------------------------------------------------
(* Types *)

\* A captured request and a dummy of it are requests (captureCommitVectors,
\* commitDummyTransaction).
LEMMA RequestTypes ==
    /\ \A a \in Attempts, v \in Nat, R, W \in SUBSET AllKeys :
           ShippedRequest(a, v, R, W) \in Requests
    /\ \A r \in Requests, k \in AllKeys, v \in Nat : Dummy(r, k, v) \in Requests
    /\ \A a \in Attempts : NoRequest(a) \in Requests
<1>1. ASSUME NEW a \in Attempts PROVE a \in AllKeys
  BY DEF AllKeys, selfConflictKey
<1> QED
  BY <1>1, SMT DEF ShippedRequest, maybeMakeSelfConflicting, selfConflictKey,
         Dummy, NoRequest, Requests

\* A handle starts an attempt in a well-formed state (resetFields).
LEMMA FreshType ==
    ASSUME NEW t \in Txns, NEW n \in 1 .. MaxAttempts, NEW C \in SUBSET AllKeys
    PROVE  Fresh(t, n, C) \in Client
<1>1. NoRequest(<<t, n>>) \in Requests
  BY RequestTypes DEF Attempts
<1> QED
  BY <1>1, SMT DEF Fresh, Client, Phases, MaybeCommitted

\* Handing a request to commitNative keeps the handle well formed.
LEMMA Dispatching ==
    ASSUME NEW c \in Client, NEW r \in Requests
    PROVE  /\ [c EXCEPT !.phase = "dispatch", !.req = r, !.sending = r] \in Client
           /\ [c EXCEPT !.phase = "dispatch", !.sending = r] \in Client
<1> DEFINE P == "dispatch"
<1>1. P \in Phases
  BY DEF Phases
<1> HIDE DEF P
<1>2. /\ [c EXCEPT !.phase = P, !.req = r, !.sending = r] \in Client
      /\ [c EXCEPT !.phase = P, !.sending = r] \in Client
  BY <1>1, Zenon DEF Client
<1> QED
  BY <1>2 DEF P

\* Every step of the commit path keeps the variables in their types; the retry
\* limit of OnError keeps the attempts within theirs.
LEMMA TypeStep == TypeOK /\ [Next]_vars => TypeOK'
<1> SUFFICES ASSUME TypeOK, [Next]_vars PROVE TypeOK'
  OBVIOUS
<1> USE DEF TypeOK, cluster
<1>a. \A t \in Txns : Attempt(t) \in Attempts
  BY DEF Attempt, Attempts, Client
<1>1. ASSUME NEW t \in Txns, NEW R \in SUBSET Keys, NEW W \in SUBSET Keys,
             NEW v \in 0 .. version, Commit(t, R, W, v)
      PROVE  TypeOK'
  <2> DEFINE r == ShippedRequest(Attempt(t), v, R \cup client[t].carried, W)
  <2>1. r \in Requests
    <3>0. client[t].carried \in SUBSET AllKeys
      BY DEF Client
    <3>1. R \cup client[t].carried \in SUBSET AllKeys /\ W \in SUBSET AllKeys
      BY <3>0, Zenon DEF AllKeys
    <3>2. v \in Nat
      OBVIOUS
    <3> HIDE DEF TypeOK
    <3> QED
      BY <3>1, <3>2, <1>a, RequestTypes, Zenon
  <2> HIDE DEF r
  <2> DEFINE c == [client[t] EXCEPT !.phase = "dispatch", !.req = r, !.sending = r]
  <2>0. client[t] \in Client
    OBVIOUS
  <2>2. c \in Client
    BY <2>0, <2>1, Dispatching
  <2>3. client' = [client EXCEPT ![t] = c]
    BY <1>1 DEF Commit, r
  <2> HIDE DEF c
  <2> QED
    BY <1>1, <2>2, <2>3 DEF Commit
<1>2. ASSUME NEW t \in Txns, Send(t) PROVE TypeOK'
  BY <1>2 DEF Send, Client, Phases
<1>3. ASSUME NEW t \in Txns, SendFails(t) PROVE TypeOK'
  <2>1. net' \in SUBSET Requests
    BY <1>3 DEF SendFails, Client
  <2>2. unknownResult(t, "unknown") \in Client
    BY DEF unknownResult, Client, Phases, MaybeCommitted
  <2>3. faults' \in 0 .. MaxFaults
    BY <1>3, BoundsAssumption DEF SendFails
  <2> QED
    BY <1>3, <2>1, <2>2, <2>3 DEF SendFails
<1>4. ASSUME NEW t \in Txns, NEW code \in MaybeCommitted, LoseReply(t, code)
      PROVE  TypeOK'
  <2>1. unknownResult(t, code) \in Client
    BY DEF unknownResult, Client, Phases
  <2>2. faults' \in 0 .. MaxFaults
    BY <1>4, BoundsAssumption DEF LoseReply
  <2> QED
    BY <1>4, <2>1, <2>2 DEF LoseReply
<1>5. ASSUME NEW t \in Txns, ReceiveOwn(t) PROVE TypeOK'
  BY <1>5, <1>a DEF ReceiveOwn, Return, Client, Phases, parseCommitOutcome, Verdicts,
      Outcomes, NoReply
<1>6. ASSUME NEW t \in Txns, Abandon(t) PROVE TypeOK'
  BY <1>6, <1>a DEF Abandon, Return, Client, Phases, Verdicts
<1>7. ASSUME NEW t \in Txns, NEW k \in AllKeys, NEW v \in 0 .. version, Fence(t, k, v)
      PROVE  TypeOK'
  <2> DEFINE d == Dummy(client[t].req, k, v)
  <2>1. d \in Requests
    BY RequestTypes DEF Client
  <2> HIDE DEF d
  <2> DEFINE c == [client[t] EXCEPT !.phase = "dispatch", !.sending = d]
  <2>0. client[t] \in Client
    OBVIOUS
  <2>2. c \in Client
    BY <2>0, <2>1, Dispatching
  <2>3. client' = [client EXCEPT ![t] = c]
    BY <1>7 DEF Fence, d, dummyReadVersion
  <2>4. faults' \in 0 .. MaxFaults
    BY <1>7, BoundsAssumption DEF Fence
  <2> HIDE DEF c
  <2> QED
    BY <1>7, <2>2, <2>3, <2>4 DEF Fence
<1>8. ASSUME NEW t \in Txns, ReceiveFence(t) PROVE TypeOK'
  <2>1. PICK o \in Outcomes : FenceHolds(t, o) \/ FenceRetries(t, o) \/ FenceFails(t, o)
    BY <1>8 DEF ReceiveFence
  <2>2. CASE FenceHolds(t, o)
    BY <2>2, <1>a DEF FenceHolds, FenceReply, Return, Client, Phases, Verdicts,
        MaybeCommitted
  <2>3. CASE FenceRetries(t, o)
    BY <2>3 DEF FenceRetries, FenceReply, Client, Phases
  <2>4. CASE FenceFails(t, o)
    BY <2>4, <1>a DEF FenceFails, FenceReply, Return, Client, Phases, Verdicts
  <2> QED
    BY <2>1, <2>2, <2>3, <2>4
<1>9. ASSUME NEW t \in Txns, OnError(t) PROVE TypeOK'
  <2> DEFINE f == Fresh(t, client[t].attempt + 1, selfConflicts(verdict[Attempt(t)], client[t].req))
  <2>1. client[t].attempt + 1 \in 1 .. MaxAttempts
    BY <1>9, BoundsAssumption DEF OnError, RetryLeft, Client
  <2>2. selfConflicts(verdict[Attempt(t)], client[t].req) \in SUBSET AllKeys
    BY DEF Requests, Client, selfConflicts
  <2>3. f \in Client
    BY <2>1, <2>2, FreshType
  <2> HIDE DEF f
  <2>4. client' = [client EXCEPT ![t] = f]
    BY <1>9 DEF OnError, f
  <2> QED
    BY <1>9, <2>3, <2>4 DEF OnError
<1>10. ASSUME NEW r \in net, Deliver(r) PROVE TypeOK'
  <2>1. ASSUME NEW o \in Outcomes, Answer(r, o)
        PROVE  /\ net' \in SUBSET Requests
               /\ reply' \in [Txns -> Outcomes \cup {NoReply}]
               /\ UNCHANGED <<tenant, client, verdict>>
    BY <2>1 DEF Answer
  <2>2. CASE TenantGone(r)
    BY <2>1, <2>2 DEF TenantGone, Outcomes
  <2>3. ASSUME NEW o \in {"retryable", "denied"}, ProxyRefuses(r, o) PROVE TypeOK'
    <3>1. faults' \in 0 .. MaxFaults
      BY <2>3, BoundsAssumption DEF ProxyRefuses
    <3> QED
      BY <2>1, <2>3, <3>1 DEF ProxyRefuses, Outcomes
  <2>4. ASSUME NEW o \in {"conflict", "conflictReport"}, ResolverRefuses(r, o) PROVE TypeOK'
    BY <2>1, <2>4 DEF ResolverRefuses, Outcomes
  <2>5. CASE Commits(r)
    <3>1. version' \in Nat /\ lastWrite' \in [AllKeys -> Nat] /\ commitAt' \in [Attempts -> Nat]
      BY <2>5 DEF Commits, Requests
    <3> QED
      BY <2>1, <2>5, <3>1 DEF Commits, Outcomes
  <2> QED
    BY <1>10, <2>2, <2>3, <2>4, <2>5 DEF Deliver
<1>11. ASSUME NEW r \in net, Drop(r) PROVE TypeOK'
  BY <1>11 DEF Drop
<1>12. CASE DeleteTenant
  BY <1>12 DEF DeleteTenant
<1>13. CASE UNCHANGED vars
  BY <1>13 DEF vars
<1>14. ASSUME NEW t \in Txns, NEW o \in {"retryable", "denied"},
              NotSent(t, o) \/ DummyNotSent(t, o)
       PROVE  TypeOK'
  <2>1. faults' \in 0 .. MaxFaults
    BY <1>14, BoundsAssumption DEF NotSent, DummyNotSent, FailsUnsent
  <2> QED
    BY <1>14, <1>a, <2>1 DEF NotSent, DummyNotSent, FailsUnsent, Return, Client, Phases,
        Verdicts
<1> QED
  BY <1>1, <1>2, <1>3, <1>4, <1>5, <1>6, <1>7, <1>8, <1>9, <1>10, <1>11, <1>12, <1>13,
      <1>14 DEF Next

\* The first state is well formed.
LEMMA TypeInit == Init => TypeOK
<1> SUFFICES ASSUME Init PROVE TypeOK
  OBVIOUS
<1>1. client \in [Txns -> Client]
  BY FreshType, BoundsAssumption DEF Init
<1> QED
  BY <1>1, BoundsAssumption DEF Init, TypeOK, Verdicts, Outcomes

\* The variables always have their types: in particular no handle makes more
\* attempts than its retry limit allows.
THEOREM FenceTypeCorrect == Spec => []TypeOK
<1> QED
  BY TypeInit, TypeStep, PTL DEF Spec

-----------------------------------------------------------------------------
(* The inductive invariant *)

\* The resolver, or the missing tenant, will refuse the request.
Doomed(r) == tenant = "gone" \/ Conflicts(r)

\* No version is ahead of the cluster's.
Bounded ==
    /\ \A k \in AllKeys : lastWrite[k] <= version
    /\ \A a \in Attempts : commitAt[a] <= version
    /\ \A r \in net : r.kind = "own" => r.rv <= version
    /\ \A t \in Txns : client[t].req.rv <= version

\* A handle works on its captured request, or on a dummy that writes one of
\* the keys that request read.
Captured ==
    \A t \in Txns :
        /\ client[t].req.by = Attempt(t)
        /\ client[t].sending.by = Attempt(t)
        /\ client[t].req.kind = "own"
        /\ client[t].phase \in {"dispatch", "wait"} /\ client[t].sending.kind = "own"
               => client[t].sending = client[t].req
        /\ client[t].sending.kind = "dummy"
               => \E k \in client[t].req.reads : k \in client[t].sending.writes

\* What is under way of a handle's current attempt is its captured request,
\* sent once.
UnderWay ==
    \A r \in net, t \in Txns, n \in 1 .. MaxAttempts :
        r.kind = "own" /\ r.by = <<t, n>> =>
            /\ n <= client[t].attempt
            /\ n = client[t].attempt =>
                   /\ r = client[t].req
                   /\ client[t].phase # "active"
                   /\ client[t].phase = "dispatch" => client[t].sending.kind = "dummy"

\* An answer tells the truth about the request it answers, and the answer that
\* a dummy committed comes with a request that is doomed.
RepliedTo(t) ==
    /\ client[t].phase = "wait"
    /\ client[t].sending.kind = "own" =>
           /\ client[t].sending \notin net
           /\ reply[t] = "committed" => commitAt[Attempt(t)] # 0
           /\ reply[t] # "committed" => commitAt[Attempt(t)] = 0
    /\ client[t].sending.kind = "dummy" /\ reply[t] \in {"committed", "tenantGone"}
           => (client[t].req \in net => Doomed(client[t].req))

Replied == \A t \in Txns : reply[t] # NoReply => RepliedTo(t)

\* Attempts are answered in order, and retried only after a final answer.
ChronicleOf(t, n) ==
    /\ n < client[t].attempt => verdict[<<t, n>>] \in Final
    /\ n > client[t].attempt => verdict[<<t, n>>] = "open" /\ commitAt[<<t, n>>] = 0
    /\ n = client[t].attempt /\ client[t].phase # "answered" => verdict[<<t, n>>] = "open"

Chronicle == \A t \in Txns, n \in 1 .. MaxAttempts : ChronicleOf(t, n)

\* A request of an attempt that was answered for good cannot commit.
FinalDoomed ==
    \A r \in net : r.kind = "own" /\ verdict[r.by] \in Final => Doomed(r)

\* A request not yet processed has not committed.
Unapplied ==
    /\ \A r \in net : r.kind = "own" => commitAt[r.by] = 0
    /\ \A t \in Txns :
           \/ client[t].phase = "active"
           \/ client[t].phase = "dispatch" /\ client[t].sending.kind = "own"
           => commitAt[Attempt(t)] = 0

FenceInv ==
    /\ TypeOK
    /\ Bounded
    /\ Captured
    /\ UnderWay
    /\ Replied
    /\ Chronicle
    /\ FinalDoomed
    /\ Unapplied
    /\ DefiniteAnswers
    /\ AttemptsInOrder

\* A step of one handle that moves no attempt and answers at most its current
\* one keeps the order of the answers.
LEMMA ChronicleKept ==
    ASSUME NEW t \in Txns, TypeOK, Chronicle, commitAt' = commitAt,
           \A u \in Txns : /\ client'[u].attempt = client[u].attempt
                           /\ u # t => client'[u] = client[u]
                           /\ client[u].phase = "answered" => client'[u].phase = "answered",
           \A u \in Txns, n \in 1 .. MaxAttempts :
              <<u, n>> # Attempt(t) => verdict'[<<u, n>>] = verdict[<<u, n>>],
           verdict' = verdict \/ client'[t].phase = "answered"
    PROVE  Chronicle'
<1> SUFFICES ASSUME NEW u \in Txns, NEW n \in 1 .. MaxAttempts PROVE ChronicleOf(u, n)'
  BY Zenon DEF Chronicle
<1>1. ChronicleOf(u, n)
  BY Zenon DEF Chronicle
<1>0. client[u].attempt \in Nat /\ client[t].attempt \in Nat /\ n \in Nat
  BY BoundsAssumption DEF TypeOK, Client
<1>2. CASE u # t \/ n # client[t].attempt
  <2>1. verdict'[<<u, n>>] = verdict[<<u, n>>]
    BY <1>2 DEF Attempt
  <2> QED
    BY <1>0, <1>1, <1>2, <2>1 DEF ChronicleOf
<1>3. CASE u = t /\ n = client[t].attempt
  BY <1>0, <1>1, <1>3 DEF ChronicleOf
<1> QED
  BY <1>2, <1>3

\* Every step of a handle or of the cluster keeps the invariant.  Only two
\* steps are delicate: a dummy that commits dooms the request it fences
\* (Replied), and a request that commits was not answered for good
\* (FinalDoomed).
LEMMA FenceStep == FenceInv /\ [Next]_vars => FenceInv'
<1> SUFFICES ASSUME FenceInv, [Next]_vars PROVE FenceInv'
  OBVIOUS
<1> USE DEF cluster
<1>t. TypeOK /\ TypeOK'
  BY TypeStep DEF FenceInv
<1>1. ASSUME NEW t \in Txns, NEW R \in SUBSET Keys, NEW W \in SUBSET Keys, NEW v \in 0 ..
             version, Commit(t, R, W, v)
      PROVE  FenceInv'
  <2>1. Bounded'
    BY <1>t, <1>1 DEF FenceInv, Bounded, Commit, ShippedRequest
  <2>2. Captured'
    BY <1>t, <1>1 DEF FenceInv, TypeOK, Client, Attempt, Captured, Commit, ShippedRequest
  <2>3. UnderWay'
    BY <1>t, <1>1 DEF FenceInv, UnderWay, Commit, ShippedRequest
  <2>4. Replied'
    BY <1>t, <1>1 DEF FenceInv, TypeOK, Client, Attempt, Replied, RepliedTo, Doomed,
        Conflicts, Commit, ShippedRequest
  <2>5. Chronicle'
    <3>1. \A u \in Txns : /\ client'[u].attempt = client[u].attempt
                          /\ u # t => client'[u] = client[u]
                          /\ client[u].phase = "answered" => client'[u].phase = "answered"
      BY <1>t, <1>1 DEF TypeOK, Client, Commit
    <3>2. \A u \in Txns, n \in 1 .. MaxAttempts :
              <<u, n>> # Attempt(t) => verdict'[<<u, n>>] = verdict[<<u, n>>]
      BY <1>t, <1>1 DEF TypeOK, Attempts, Commit
    <3>3. commitAt' = commitAt
      BY <1>1 DEF Commit
    <3>4. verdict' = verdict
      BY <1>t, <1>1 DEF TypeOK, Client, Commit
    <3> QED
      BY <1>t, <3>1, <3>2, <3>3, <3>4, ChronicleKept DEF FenceInv
  <2>6. FinalDoomed'
    BY <1>t, <1>1 DEF FenceInv, FinalDoomed, Doomed, Conflicts, Commit, ShippedRequest
  <2>7. Unapplied'
    BY <1>t, <1>1 DEF FenceInv, TypeOK, Client, Attempt, Unapplied, Commit, ShippedRequest
  <2>8. DefiniteAnswers'
    BY <1>t, <1>1 DEF FenceInv, DefiniteAnswers, Commit, ShippedRequest
  <2>9. AttemptsInOrder'
    BY <1>t, <1>1 DEF FenceInv, AttemptsInOrder, Commit, ShippedRequest
  <2> QED
    BY <1>t, <2>1, <2>2, <2>3, <2>4, <2>5, <2>6, <2>7, <2>8, <2>9 DEF FenceInv
<1>2. ASSUME NEW t \in Txns, Send(t) PROVE FenceInv'
  <2>1. Bounded'
    BY <1>t, <1>2 DEF FenceInv, TypeOK, Client, Requests, Attempt, Attempts, Bounded,
        Captured, Send
  <2>2. Captured'
    BY <1>t, <1>2 DEF FenceInv, TypeOK, Client, Attempt, Captured, Send
  <2>3. UnderWay'
    BY <1>t, <1>2 DEF FenceInv, TypeOK, Client, Requests, Attempt, Attempts, UnderWay,
        Captured, Send
  <2>4. Replied'
    BY <1>t, <1>2 DEF FenceInv, TypeOK, Client, Requests, Attempt, Attempts, Replied,
        RepliedTo, Doomed, Conflicts, Captured, UnderWay, Unapplied, Bounded, Send
  <2>5. Chronicle'
    <3>1. \A u \in Txns : /\ client'[u].attempt = client[u].attempt
                          /\ u # t => client'[u] = client[u]
                          /\ client[u].phase = "answered" => client'[u].phase = "answered"
      BY <1>t, <1>2 DEF TypeOK, Client, Send
    <3>2. \A u \in Txns, n \in 1 .. MaxAttempts :
              <<u, n>> # Attempt(t) => verdict'[<<u, n>>] = verdict[<<u, n>>]
      BY <1>t, <1>2 DEF TypeOK, Attempts, Send
    <3>3. commitAt' = commitAt
      BY <1>2 DEF Send
    <3>4. verdict' = verdict
      BY <1>t, <1>2 DEF TypeOK, Client, Send
    <3> QED
      BY <1>t, <3>1, <3>2, <3>3, <3>4, ChronicleKept DEF FenceInv
  <2>6. FinalDoomed'
    BY <1>t, <1>2 DEF FenceInv, TypeOK, Client, Requests, Attempt, Attempts,
        FinalDoomed, Doomed, Conflicts, Chronicle, ChronicleOf, Captured, UnderWay,
        Replied, RepliedTo, Final, Verdicts, MaybeCommitted, Bounded, Send
  <2>7. Unapplied'
    BY <1>t, <1>2 DEF FenceInv, TypeOK, Client, Requests, Attempt, Attempts, Unapplied,
        Chronicle, ChronicleOf, UnderWay, Captured, Send
  <2>8. DefiniteAnswers'
    BY <1>t, <1>2 DEF FenceInv, DefiniteAnswers, Send
  <2>9. AttemptsInOrder'
    BY <1>t, <1>2 DEF FenceInv, AttemptsInOrder, Send
  <2> QED
    BY <1>t, <2>1, <2>2, <2>3, <2>4, <2>5, <2>6, <2>7, <2>8, <2>9 DEF FenceInv
<1>3. ASSUME NEW t \in Txns, SendFails(t) PROVE FenceInv'
  <2>1. Bounded'
    BY <1>t, <1>3 DEF FenceInv, TypeOK, Client, Requests, Attempt, Attempts, Bounded,
        Captured, SendFails, unknownResult
  <2>2. Captured'
    BY <1>t, <1>3 DEF FenceInv, TypeOK, Client, Attempt, Captured, SendFails, unknownResult
  <2>3. UnderWay'
    BY <1>t, <1>3 DEF FenceInv, TypeOK, Client, Requests, Attempt, Attempts, UnderWay,
        Captured, SendFails, unknownResult
  <2>4. Replied'
    BY <1>t, <1>3 DEF FenceInv, TypeOK, Client, Requests, Attempt, Attempts, Replied,
        RepliedTo, Doomed, Conflicts, Captured, UnderWay, Unapplied, Bounded, SendFails,
        unknownResult
  <2>5. Chronicle'
    <3>1. \A u \in Txns : /\ client'[u].attempt = client[u].attempt
                          /\ u # t => client'[u] = client[u]
                          /\ client[u].phase = "answered" => client'[u].phase = "answered"
      BY <1>t, <1>3 DEF TypeOK, Client, SendFails, unknownResult
    <3>2. \A u \in Txns, n \in 1 .. MaxAttempts :
              <<u, n>> # Attempt(t) => verdict'[<<u, n>>] = verdict[<<u, n>>]
      BY <1>t, <1>3 DEF TypeOK, Attempts, SendFails, unknownResult
    <3>3. commitAt' = commitAt
      BY <1>3 DEF SendFails, unknownResult
    <3>4. verdict' = verdict
      BY <1>t, <1>3 DEF TypeOK, Client, SendFails, unknownResult
    <3> QED
      BY <1>t, <3>1, <3>2, <3>3, <3>4, ChronicleKept DEF FenceInv
  <2>6. FinalDoomed'
    BY <1>t, <1>3 DEF FenceInv, TypeOK, Client, Requests, Attempt, Attempts,
        FinalDoomed, Doomed, Conflicts, Chronicle, ChronicleOf, Captured, UnderWay,
        Replied, RepliedTo, Final, Verdicts, MaybeCommitted, Bounded, SendFails,
        unknownResult
  <2>7. Unapplied'
    BY <1>t, <1>3 DEF FenceInv, TypeOK, Client, Requests, Attempt, Attempts, Unapplied,
        Chronicle, ChronicleOf, UnderWay, Captured, SendFails, unknownResult
  <2>8. DefiniteAnswers'
    BY <1>t, <1>3 DEF FenceInv, DefiniteAnswers, SendFails, unknownResult
  <2>9. AttemptsInOrder'
    BY <1>t, <1>3 DEF FenceInv, AttemptsInOrder, SendFails, unknownResult
  <2> QED
    BY <1>t, <2>1, <2>2, <2>3, <2>4, <2>5, <2>6, <2>7, <2>8, <2>9 DEF FenceInv
<1>4. ASSUME NEW t \in Txns, NEW code \in MaybeCommitted, LoseReply(t, code) PROVE FenceInv'
  <2>1. Bounded'
    BY <1>t, <1>4 DEF FenceInv, Bounded, LoseReply, unknownResult
  <2>2. Captured'
    BY <1>t, <1>4 DEF FenceInv, TypeOK, Client, Attempt, Captured, LoseReply, unknownResult
  <2>3. UnderWay'
    BY <1>t, <1>4 DEF FenceInv, UnderWay, LoseReply, unknownResult
  <2>4. Replied'
    BY <1>t, <1>4 DEF FenceInv, TypeOK, Client, Attempt, Replied, RepliedTo, Doomed,
        Conflicts, LoseReply, unknownResult
  <2>5. Chronicle'
    <3>1. \A u \in Txns : /\ client'[u].attempt = client[u].attempt
                          /\ u # t => client'[u] = client[u]
                          /\ client[u].phase = "answered" => client'[u].phase = "answered"
      BY <1>t, <1>4 DEF TypeOK, Client, LoseReply, unknownResult
    <3>2. \A u \in Txns, n \in 1 .. MaxAttempts :
              <<u, n>> # Attempt(t) => verdict'[<<u, n>>] = verdict[<<u, n>>]
      BY <1>t, <1>4 DEF TypeOK, Attempts, LoseReply, unknownResult
    <3>3. commitAt' = commitAt
      BY <1>4 DEF LoseReply, unknownResult
    <3>4. verdict' = verdict
      BY <1>t, <1>4 DEF TypeOK, Client, LoseReply, unknownResult
    <3> QED
      BY <1>t, <3>1, <3>2, <3>3, <3>4, ChronicleKept DEF FenceInv
  <2>6. FinalDoomed'
    BY <1>t, <1>4 DEF FenceInv, FinalDoomed, Doomed, Conflicts, LoseReply, unknownResult
  <2>7. Unapplied'
    BY <1>t, <1>4 DEF FenceInv, TypeOK, Client, Attempt, Unapplied, LoseReply, unknownResult
  <2>8. DefiniteAnswers'
    BY <1>t, <1>4 DEF FenceInv, DefiniteAnswers, LoseReply, unknownResult
  <2>9. AttemptsInOrder'
    BY <1>t, <1>4 DEF FenceInv, AttemptsInOrder, LoseReply, unknownResult
  <2> QED
    BY <1>t, <2>1, <2>2, <2>3, <2>4, <2>5, <2>6, <2>7, <2>8, <2>9 DEF FenceInv
<1>5. ASSUME NEW t \in Txns, ReceiveOwn(t) PROVE FenceInv'
  <2>1. Bounded'
    BY <1>t, <1>5 DEF FenceInv, Bounded, ReceiveOwn, Return, parseCommitOutcome
  <2>2. Captured'
    BY <1>t, <1>5 DEF FenceInv, TypeOK, Client, Attempt, Captured, ReceiveOwn, Return,
        parseCommitOutcome
  <2>3. UnderWay'
    BY <1>t, <1>5 DEF FenceInv, UnderWay, ReceiveOwn, Return, parseCommitOutcome
  <2>4. Replied'
    BY <1>t, <1>5 DEF FenceInv, TypeOK, Client, Attempt, Replied, RepliedTo, Doomed,
        Conflicts, ReceiveOwn, Return, parseCommitOutcome
  <2>5. Chronicle'
    <3>1. \A u \in Txns : /\ client'[u].attempt = client[u].attempt
                          /\ u # t => client'[u] = client[u]
                          /\ client[u].phase = "answered" => client'[u].phase = "answered"
      BY <1>t, <1>5 DEF TypeOK, Client, ReceiveOwn, Return
    <3>2. \A u \in Txns, n \in 1 .. MaxAttempts :
              <<u, n>> # Attempt(t) => verdict'[<<u, n>>] = verdict[<<u, n>>]
      BY <1>t, <1>5 DEF TypeOK, Attempts, ReceiveOwn, Return
    <3>3. commitAt' = commitAt
      BY <1>5 DEF ReceiveOwn, Return
    <3>4. client'[t].phase = "answered"
      BY <1>t, <1>5 DEF TypeOK, Client, ReceiveOwn, Return
    <3> QED
      BY <1>t, <3>1, <3>2, <3>3, <3>4, ChronicleKept DEF FenceInv
  <2>6. FinalDoomed'
    <3> SUFFICES ASSUME NEW q \in net, q.kind = "own", verdict'[q.by] \in Final
                 PROVE  Doomed(q)
      BY <1>5 DEF FinalDoomed, Doomed, Conflicts, ReceiveOwn, ReceiveOwn
    <3>1. CASE q.by = Attempt(t)
      <4>1. q = client[t].req
        BY <1>t, <3>1 DEF FenceInv, TypeOK, Client, Attempt, UnderWay
      <4> QED
        BY <1>5, <4>1 DEF FenceInv, Captured, Replied, RepliedTo, ReceiveOwn
    <3>2. CASE q.by # Attempt(t)
      <4>1. verdict[q.by] \in Final
        BY <1>t, <1>5, <3>2 DEF TypeOK, Requests, ReceiveOwn, Return
      <4> QED
        BY <4>1 DEF FenceInv, FinalDoomed
    <3> QED
      BY <3>1, <3>2
  <2>7. Unapplied'
    BY <1>t, <1>5 DEF FenceInv, TypeOK, Client, Attempt, Unapplied, ReceiveOwn, Return,
        parseCommitOutcome
  <2>8. DefiniteAnswers'
    BY <1>t, <1>5 DEF FenceInv, TypeOK, Client, Requests, Attempt, Attempts,
        DefiniteAnswers, Replied, RepliedTo, Chronicle, ChronicleOf, Unapplied,
        UnderWay, FinalDoomed, ReceiveOwn, Return, parseCommitOutcome
  <2>9. AttemptsInOrder'
    BY <1>t, <1>5 DEF FenceInv, AttemptsInOrder, ReceiveOwn, Return, parseCommitOutcome
  <2> QED
    BY <1>t, <2>1, <2>2, <2>3, <2>4, <2>5, <2>6, <2>7, <2>8, <2>9 DEF FenceInv
<1>6. ASSUME NEW t \in Txns, Abandon(t) PROVE FenceInv'
  <2>1. Bounded'
    BY <1>t, <1>6 DEF FenceInv, Bounded, Abandon, Return
  <2>2. Captured'
    BY <1>t, <1>6 DEF FenceInv, TypeOK, Client, Attempt, Captured, Abandon, Return
  <2>3. UnderWay'
    BY <1>t, <1>6 DEF FenceInv, UnderWay, Abandon, Return
  <2>4. Replied'
    BY <1>t, <1>6 DEF FenceInv, TypeOK, Client, Attempt, Replied, RepliedTo, Doomed,
        Conflicts, Abandon, Return
  <2>5. Chronicle'
    <3>1. \A u \in Txns : /\ client'[u].attempt = client[u].attempt
                          /\ u # t => client'[u] = client[u]
                          /\ client[u].phase = "answered" => client'[u].phase = "answered"
      BY <1>t, <1>6 DEF TypeOK, Client, Abandon, Return
    <3>2. \A u \in Txns, n \in 1 .. MaxAttempts :
              <<u, n>> # Attempt(t) => verdict'[<<u, n>>] = verdict[<<u, n>>]
      BY <1>t, <1>6 DEF TypeOK, Attempts, Abandon, Return
    <3>3. commitAt' = commitAt
      BY <1>6 DEF Abandon, Return
    <3>4. client'[t].phase = "answered"
      BY <1>t, <1>6 DEF TypeOK, Client, Abandon, Return
    <3> QED
      BY <1>t, <3>1, <3>2, <3>3, <3>4, ChronicleKept DEF FenceInv
  <2>6. FinalDoomed'
    BY <1>t, <1>6 DEF FenceInv, TypeOK, Client, Requests, Attempt, Attempts,
        FinalDoomed, Doomed, Conflicts, Chronicle, ChronicleOf, Captured, UnderWay,
        Replied, RepliedTo, Final, Verdicts, MaybeCommitted, Bounded, Abandon, Return
  <2>7. Unapplied'
    BY <1>t, <1>6 DEF FenceInv, TypeOK, Client, Attempt, Unapplied, Abandon, Return
  <2>8. DefiniteAnswers'
    BY <1>t, <1>6 DEF FenceInv, DefiniteAnswers, Abandon, Return
  <2>9. AttemptsInOrder'
    BY <1>t, <1>6 DEF FenceInv, AttemptsInOrder, Abandon, Return
  <2> QED
    BY <1>t, <2>1, <2>2, <2>3, <2>4, <2>5, <2>6, <2>7, <2>8, <2>9 DEF FenceInv
<1>7. ASSUME NEW t \in Txns, NEW k \in AllKeys, NEW v \in 0 .. version, Fence(t, k, v)
      PROVE  FenceInv'
  <2>1. Bounded'
    BY <1>t, <1>7 DEF FenceInv, Bounded, Fence, Dummy, intersectConflictRanges
  <2>2. Captured'
    BY <1>t, <1>7 DEF FenceInv, TypeOK, Client, Attempt, Captured, Fence, Dummy,
        intersectConflictRanges
  <2>3. UnderWay'
    BY <1>t, <1>7 DEF FenceInv, UnderWay, Fence, Dummy, intersectConflictRanges
  <2>4. Replied'
    BY <1>t, <1>7 DEF FenceInv, TypeOK, Client, Attempt, Replied, RepliedTo, Doomed,
        Conflicts, Fence, Dummy, intersectConflictRanges
  <2>5. Chronicle'
    <3>1. \A u \in Txns : /\ client'[u].attempt = client[u].attempt
                          /\ u # t => client'[u] = client[u]
                          /\ client[u].phase = "answered" => client'[u].phase = "answered"
      BY <1>t, <1>7 DEF TypeOK, Client, Fence
    <3>2. \A u \in Txns, n \in 1 .. MaxAttempts :
              <<u, n>> # Attempt(t) => verdict'[<<u, n>>] = verdict[<<u, n>>]
      BY <1>t, <1>7 DEF TypeOK, Attempts, Fence
    <3>3. commitAt' = commitAt
      BY <1>7 DEF Fence
    <3>4. verdict' = verdict
      BY <1>t, <1>7 DEF TypeOK, Client, Fence
    <3> QED
      BY <1>t, <3>1, <3>2, <3>3, <3>4, ChronicleKept DEF FenceInv
  <2>6. FinalDoomed'
    BY <1>t, <1>7 DEF FenceInv, FinalDoomed, Doomed, Conflicts, Fence, Dummy,
        intersectConflictRanges
  <2>7. Unapplied'
    BY <1>t, <1>7 DEF FenceInv, TypeOK, Client, Attempt, Unapplied, Fence, Dummy,
        intersectConflictRanges
  <2>8. DefiniteAnswers'
    BY <1>t, <1>7 DEF FenceInv, DefiniteAnswers, Fence, Dummy, intersectConflictRanges
  <2>9. AttemptsInOrder'
    BY <1>t, <1>7 DEF FenceInv, AttemptsInOrder, Fence, Dummy, intersectConflictRanges
  <2> QED
    BY <1>t, <2>1, <2>2, <2>3, <2>4, <2>5, <2>6, <2>7, <2>8, <2>9 DEF FenceInv
<1>8. ASSUME NEW t \in Txns, NEW o \in Outcomes, FenceHolds(t, o) PROVE FenceInv'
  <2>1. Bounded'
    BY <1>t, <1>8 DEF FenceInv, Bounded, FenceHolds, FenceReply, Return,
        parseCommitOutcome, fenced
  <2>2. Captured'
    BY <1>t, <1>8 DEF FenceInv, TypeOK, Client, Attempt, Captured, FenceHolds,
        FenceReply, Return, parseCommitOutcome, fenced
  <2>3. UnderWay'
    BY <1>t, <1>8 DEF FenceInv, UnderWay, FenceHolds, FenceReply, Return,
        parseCommitOutcome, fenced
  <2>4. Replied'
    BY <1>t, <1>8 DEF FenceInv, TypeOK, Client, Attempt, Replied, RepliedTo, Doomed,
        Conflicts, FenceHolds, FenceReply, Return, parseCommitOutcome, fenced
  <2>5. Chronicle'
    <3>1. \A u \in Txns : /\ client'[u].attempt = client[u].attempt
                          /\ u # t => client'[u] = client[u]
                          /\ client[u].phase = "answered" => client'[u].phase = "answered"
      BY <1>t, <1>8 DEF TypeOK, Client, FenceHolds, FenceReply, Return
    <3>2. \A u \in Txns, n \in 1 .. MaxAttempts :
              <<u, n>> # Attempt(t) => verdict'[<<u, n>>] = verdict[<<u, n>>]
      BY <1>t, <1>8 DEF TypeOK, Attempts, FenceHolds, FenceReply, Return
    <3>3. commitAt' = commitAt
      BY <1>8 DEF FenceHolds, FenceReply, Return
    <3>4. client'[t].phase = "answered"
      BY <1>t, <1>8 DEF TypeOK, Client, FenceHolds, FenceReply, Return
    <3> QED
      BY <1>t, <3>1, <3>2, <3>3, <3>4, ChronicleKept DEF FenceInv
  <2>6. FinalDoomed'
    <3> SUFFICES ASSUME NEW q \in net, q.kind = "own", verdict'[q.by] \in Final
                 PROVE  Doomed(q)
      BY <1>8 DEF FinalDoomed, Doomed, Conflicts, FenceHolds, FenceReply
    <3>1. CASE q.by = Attempt(t)
      <4>1. q = client[t].req
        BY <1>t, <3>1 DEF FenceInv, TypeOK, Client, Attempt, UnderWay
      <4> QED
        BY <1>8, <4>1 DEF FenceInv, Captured, Replied, RepliedTo, FenceReply,
            fenced, parseCommitOutcome, FenceHolds
    <3>2. CASE q.by # Attempt(t)
      <4>1. verdict[q.by] \in Final
        BY <1>t, <1>8, <3>2 DEF TypeOK, Requests, FenceHolds, Return
      <4> QED
        BY <4>1 DEF FenceInv, FinalDoomed
    <3> QED
      BY <3>1, <3>2
  <2>7. Unapplied'
    BY <1>t, <1>8 DEF FenceInv, TypeOK, Client, Attempt, Unapplied, FenceHolds,
        FenceReply, Return, parseCommitOutcome, fenced
  <2>8. DefiniteAnswers'
    <3>1. client[t].code \in MaybeCommitted /\ Attempt(t) \in Attempts
      BY <1>t DEF TypeOK, Client, Attempt, Attempts
    <3>2. verdict' = [verdict EXCEPT ![Attempt(t)] = client[t].code] /\ commitAt' = commitAt
      BY <1>8 DEF FenceHolds, FenceReply, Return
    <3> QED
      BY <1>t, <3>1, <3>2 DEF FenceInv, TypeOK, DefiniteAnswers, MaybeCommitted
  <2>9. AttemptsInOrder'
    BY <1>t, <1>8 DEF FenceInv, AttemptsInOrder, FenceHolds, FenceReply, Return,
        parseCommitOutcome, fenced
  <2> QED
    BY <1>t, <2>1, <2>2, <2>3, <2>4, <2>5, <2>6, <2>7, <2>8, <2>9 DEF FenceInv
<1>9. ASSUME NEW t \in Txns, NEW o \in Outcomes, FenceRetries(t, o) PROVE FenceInv'
  <2>1. Bounded'
    BY <1>t, <1>9 DEF FenceInv, Bounded, FenceRetries, FenceReply
  <2>2. Captured'
    BY <1>t, <1>9 DEF FenceInv, TypeOK, Client, Attempt, Captured, FenceRetries, FenceReply
  <2>3. UnderWay'
    BY <1>t, <1>9 DEF FenceInv, UnderWay, FenceRetries, FenceReply
  <2>4. Replied'
    BY <1>t, <1>9 DEF FenceInv, TypeOK, Client, Attempt, Replied, RepliedTo, Doomed,
        Conflicts, FenceRetries, FenceReply
  <2>5. Chronicle'
    <3>1. \A u \in Txns : /\ client'[u].attempt = client[u].attempt
                          /\ u # t => client'[u] = client[u]
                          /\ client[u].phase = "answered" => client'[u].phase = "answered"
      BY <1>t, <1>9 DEF TypeOK, Client, FenceRetries, FenceReply
    <3>2. \A u \in Txns, n \in 1 .. MaxAttempts :
              <<u, n>> # Attempt(t) => verdict'[<<u, n>>] = verdict[<<u, n>>]
      BY <1>t, <1>9 DEF TypeOK, Attempts, FenceRetries, FenceReply
    <3>3. commitAt' = commitAt
      BY <1>9 DEF FenceRetries, FenceReply
    <3>4. verdict' = verdict
      BY <1>t, <1>9 DEF TypeOK, Client, FenceRetries, FenceReply
    <3> QED
      BY <1>t, <3>1, <3>2, <3>3, <3>4, ChronicleKept DEF FenceInv
  <2>6. FinalDoomed'
    BY <1>t, <1>9 DEF FenceInv, FinalDoomed, Doomed, Conflicts, FenceRetries, FenceReply
  <2>7. Unapplied'
    BY <1>t, <1>9 DEF FenceInv, TypeOK, Client, Attempt, Unapplied, FenceRetries, FenceReply
  <2>8. DefiniteAnswers'
    BY <1>t, <1>9 DEF FenceInv, DefiniteAnswers, FenceRetries, FenceReply
  <2>9. AttemptsInOrder'
    BY <1>t, <1>9 DEF FenceInv, AttemptsInOrder, FenceRetries, FenceReply
  <2> QED
    BY <1>t, <2>1, <2>2, <2>3, <2>4, <2>5, <2>6, <2>7, <2>8, <2>9 DEF FenceInv
<1>10. ASSUME NEW t \in Txns, NEW o \in Outcomes, FenceFails(t, o) PROVE FenceInv'
  <2>1. Bounded'
    BY <1>t, <1>10 DEF FenceInv, Bounded, FenceFails, FenceReply, Return
  <2>2. Captured'
    BY <1>t, <1>10 DEF FenceInv, TypeOK, Client, Attempt, Captured, FenceFails,
        FenceReply, Return
  <2>3. UnderWay'
    BY <1>t, <1>10 DEF FenceInv, UnderWay, FenceFails, FenceReply, Return
  <2>4. Replied'
    BY <1>t, <1>10 DEF FenceInv, TypeOK, Client, Attempt, Replied, RepliedTo, Doomed,
        Conflicts, FenceFails, FenceReply, Return
  <2>5. Chronicle'
    <3>1. \A u \in Txns : /\ client'[u].attempt = client[u].attempt
                          /\ u # t => client'[u] = client[u]
                          /\ client[u].phase = "answered" => client'[u].phase = "answered"
      BY <1>t, <1>10 DEF TypeOK, Client, FenceFails, FenceReply, Return
    <3>2. \A u \in Txns, n \in 1 .. MaxAttempts :
              <<u, n>> # Attempt(t) => verdict'[<<u, n>>] = verdict[<<u, n>>]
      BY <1>t, <1>10 DEF TypeOK, Attempts, FenceFails, FenceReply, Return
    <3>3. commitAt' = commitAt
      BY <1>10 DEF FenceFails, FenceReply, Return
    <3>4. client'[t].phase = "answered"
      BY <1>t, <1>10 DEF TypeOK, Client, FenceFails, FenceReply, Return
    <3> QED
      BY <1>t, <3>1, <3>2, <3>3, <3>4, ChronicleKept DEF FenceInv
  <2>6. FinalDoomed'
    BY <1>t, <1>10 DEF FenceInv, TypeOK, Client, Requests, Attempt, Attempts,
        FinalDoomed, Doomed, Conflicts, Chronicle, ChronicleOf, Captured, UnderWay,
        Replied, RepliedTo, Final, Verdicts, MaybeCommitted, Bounded, FenceFails,
        FenceReply, Return
  <2>7. Unapplied'
    BY <1>t, <1>10 DEF FenceInv, TypeOK, Client, Attempt, Unapplied, FenceFails,
        FenceReply, Return
  <2>8. DefiniteAnswers'
    BY <1>t, <1>10 DEF FenceInv, DefiniteAnswers, FenceFails, FenceReply, Return
  <2>9. AttemptsInOrder'
    BY <1>t, <1>10 DEF FenceInv, AttemptsInOrder, FenceFails, FenceReply, Return
  <2> QED
    BY <1>t, <2>1, <2>2, <2>3, <2>4, <2>5, <2>6, <2>7, <2>8, <2>9 DEF FenceInv
<1>11. ASSUME NEW t \in Txns, OnError(t) PROVE FenceInv'
  <2>1. Bounded'
    BY <1>t, <1>11 DEF FenceInv, TypeOK, Bounded, OnError, Fresh, NoRequest, RetryLeft,
        onErrorRetryable
  <2>2. Captured'
    BY <1>t, <1>11 DEF FenceInv, TypeOK, Client, Attempt, Captured, OnError, Fresh,
        NoRequest, RetryLeft, onErrorRetryable
  <2>3. UnderWay'
    BY <1>t, <1>11 DEF FenceInv, TypeOK, Client, UnderWay, OnError, Fresh, NoRequest,
        RetryLeft, onErrorRetryable
  <2>4. Replied'
    BY <1>t, <1>11 DEF FenceInv, TypeOK, Client, Attempt, Replied, RepliedTo, Doomed,
        Conflicts, OnError, Fresh, NoRequest, RetryLeft, onErrorRetryable
  <2>5. Chronicle'
    <3> SUFFICES ASSUME NEW u \in Txns, NEW n \in 1 .. MaxAttempts PROVE ChronicleOf(u, n)'
      BY Zenon DEF Chronicle
    <3>1. ChronicleOf(u, n)
      BY Zenon DEF FenceInv, Chronicle
    <3>2. verdict' = verdict /\ commitAt' = commitAt
      BY <1>11 DEF OnError
    <3>3. client[u].attempt \in Nat /\ n \in Nat
      BY <1>t, BoundsAssumption DEF TypeOK, Client
    <3>4. CASE u # t
      <4>1. client'[u] = client[u]
        BY <1>t, <1>11, <3>4 DEF TypeOK, OnError
      <4> QED
        BY <3>1, <3>2, <4>1 DEF ChronicleOf
    <3>5. CASE u = t
      <4>1. client'[t].attempt = client[t].attempt + 1 /\ client'[t].phase = "active"
        BY <1>t, <1>11 DEF TypeOK, OnError, Fresh
      <4>2. verdict[Attempt(t)] \in Final
        BY <1>11 DEF OnError, onErrorRetryable, Final, Verdicts, MaybeCommitted
      <4> QED
        BY <3>1, <3>2, <3>3, <3>5, <4>1, <4>2 DEF ChronicleOf, Attempt
    <3> QED
      BY <3>4, <3>5
  <2>6. FinalDoomed'
    BY <1>t, <1>11 DEF FenceInv, FinalDoomed, Doomed, Conflicts, OnError, Fresh,
        NoRequest, RetryLeft, onErrorRetryable
  <2>7. Unapplied'
    BY <1>t, <1>11 DEF FenceInv, TypeOK, Client, Requests, Attempt, Attempts, Unapplied,
        Chronicle, ChronicleOf, UnderWay, Captured, OnError, Fresh, NoRequest,
        RetryLeft, onErrorRetryable
  <2>8. DefiniteAnswers'
    BY <1>t, <1>11 DEF FenceInv, DefiniteAnswers, OnError, Fresh, NoRequest, RetryLeft,
        onErrorRetryable
  <2>9. AttemptsInOrder'
    BY <1>t, <1>11 DEF FenceInv, AttemptsInOrder, OnError, Fresh, NoRequest, RetryLeft,
        onErrorRetryable
  <2> QED
    BY <1>t, <2>1, <2>2, <2>3, <2>4, <2>5, <2>6, <2>7, <2>8, <2>9 DEF FenceInv
<1>12. ASSUME NEW r \in net, TenantGone(r) PROVE FenceInv'
  <2>1. Bounded'
    BY <1>t, <1>12 DEF FenceInv, Bounded, TenantGone, Answer, Awaited
  <2>2. Captured'
    BY <1>t, <1>12 DEF FenceInv, TypeOK, Client, Attempt, Captured, TenantGone, Answer,
        Awaited
  <2>3. UnderWay'
    BY <1>t, <1>12 DEF FenceInv, UnderWay, TenantGone, Answer, Awaited
  <2>4. Replied'
    <3>1. ASSUME NEW u \in Txns, reply'[u] # NoReply, Awaited(u, r)
          PROVE  RepliedTo(u)'
      BY <1>t, <1>12, <3>1 DEF FenceInv, TypeOK, Client, Requests, Attempt, Attempts,
          RepliedTo, Captured, Unapplied, Bounded, Doomed, Conflicts, TenantGone,
          Answer, Awaited
    <3>2. ASSUME NEW u \in Txns, reply'[u] # NoReply, ~Awaited(u, r)
          PROVE  RepliedTo(u)'
      BY <1>t, <1>12, <3>2 DEF FenceInv, TypeOK, Client, Requests, Attempt, Attempts,
          Replied, RepliedTo, Captured, UnderWay, Doomed, Conflicts, TenantGone,
          Answer
    <3> QED
      BY <3>1, <3>2 DEF Replied
  <2>5. Chronicle'
    BY <1>t, <1>12 DEF FenceInv, Chronicle, ChronicleOf, TenantGone, Answer, Awaited
  <2>6. FinalDoomed'
    BY <1>t, <1>12 DEF FenceInv, FinalDoomed, Doomed, Conflicts, TenantGone, Answer, Awaited
  <2>7. Unapplied'
    BY <1>t, <1>12 DEF FenceInv, TypeOK, Client, Attempt, Unapplied, TenantGone, Answer,
        Awaited
  <2>8. DefiniteAnswers'
    BY <1>t, <1>12 DEF FenceInv, DefiniteAnswers, TenantGone, Answer, Awaited
  <2>9. AttemptsInOrder'
    BY <1>t, <1>12 DEF FenceInv, AttemptsInOrder, TenantGone, Answer, Awaited
  <2> QED
    BY <1>t, <2>1, <2>2, <2>3, <2>4, <2>5, <2>6, <2>7, <2>8, <2>9 DEF FenceInv
<1>13. ASSUME NEW r \in net, NEW o \in {"retryable", "denied"}, ProxyRefuses(r, o)
       PROVE  FenceInv'
  <2>1. Bounded'
    BY <1>t, <1>13 DEF FenceInv, Bounded, ProxyRefuses, Answer, Awaited
  <2>2. Captured'
    BY <1>t, <1>13 DEF FenceInv, TypeOK, Client, Attempt, Captured, ProxyRefuses,
        Answer, Awaited
  <2>3. UnderWay'
    BY <1>t, <1>13 DEF FenceInv, UnderWay, ProxyRefuses, Answer, Awaited
  <2>4. Replied'
    <3>1. ASSUME NEW u \in Txns, reply'[u] # NoReply, Awaited(u, r)
          PROVE  RepliedTo(u)'
      BY <1>t, <1>13, <3>1 DEF FenceInv, TypeOK, Client, Requests, Attempt, Attempts,
          RepliedTo, Captured, Unapplied, Bounded, Doomed, Conflicts, ProxyRefuses,
          Answer, Awaited
    <3>2. ASSUME NEW u \in Txns, reply'[u] # NoReply, ~Awaited(u, r)
          PROVE  RepliedTo(u)'
      BY <1>t, <1>13, <3>2 DEF FenceInv, TypeOK, Client, Requests, Attempt, Attempts,
          Replied, RepliedTo, Captured, UnderWay, Doomed, Conflicts, ProxyRefuses,
          Answer
    <3> QED
      BY <3>1, <3>2 DEF Replied
  <2>5. Chronicle'
    BY <1>t, <1>13 DEF FenceInv, Chronicle, ChronicleOf, ProxyRefuses, Answer, Awaited
  <2>6. FinalDoomed'
    BY <1>t, <1>13 DEF FenceInv, FinalDoomed, Doomed, Conflicts, ProxyRefuses, Answer,
        Awaited
  <2>7. Unapplied'
    BY <1>t, <1>13 DEF FenceInv, TypeOK, Client, Attempt, Unapplied, ProxyRefuses,
        Answer, Awaited
  <2>8. DefiniteAnswers'
    BY <1>t, <1>13 DEF FenceInv, DefiniteAnswers, ProxyRefuses, Answer, Awaited
  <2>9. AttemptsInOrder'
    BY <1>t, <1>13 DEF FenceInv, AttemptsInOrder, ProxyRefuses, Answer, Awaited
  <2> QED
    BY <1>t, <2>1, <2>2, <2>3, <2>4, <2>5, <2>6, <2>7, <2>8, <2>9 DEF FenceInv
<1>14. ASSUME NEW r \in net, NEW o \in {"conflict", "conflictReport"}, ResolverRefuses(r, o)
       PROVE  FenceInv'
  <2>1. Bounded'
    BY <1>t, <1>14 DEF FenceInv, Bounded, ResolverRefuses, Answer, Awaited
  <2>2. Captured'
    BY <1>t, <1>14 DEF FenceInv, TypeOK, Client, Attempt, Captured, ResolverRefuses,
        Answer, Awaited
  <2>3. UnderWay'
    BY <1>t, <1>14 DEF FenceInv, UnderWay, ResolverRefuses, Answer, Awaited
  <2>4. Replied'
    <3>1. ASSUME NEW u \in Txns, reply'[u] # NoReply, Awaited(u, r)
          PROVE  RepliedTo(u)'
      BY <1>t, <1>14, <3>1 DEF FenceInv, TypeOK, Client, Requests, Attempt, Attempts,
          RepliedTo, Captured, Unapplied, Bounded, Doomed, Conflicts, ResolverRefuses,
          Answer, Awaited
    <3>2. ASSUME NEW u \in Txns, reply'[u] # NoReply, ~Awaited(u, r)
          PROVE  RepliedTo(u)'
      BY <1>t, <1>14, <3>2 DEF FenceInv, TypeOK, Client, Requests, Attempt, Attempts,
          Replied, RepliedTo, Captured, UnderWay, Doomed, Conflicts, ResolverRefuses,
          Answer
    <3> QED
      BY <3>1, <3>2 DEF Replied
  <2>5. Chronicle'
    BY <1>t, <1>14 DEF FenceInv, Chronicle, ChronicleOf, ResolverRefuses, Answer, Awaited
  <2>6. FinalDoomed'
    BY <1>t, <1>14 DEF FenceInv, FinalDoomed, Doomed, Conflicts, ResolverRefuses,
        Answer, Awaited
  <2>7. Unapplied'
    BY <1>t, <1>14 DEF FenceInv, TypeOK, Client, Attempt, Unapplied, ResolverRefuses,
        Answer, Awaited
  <2>8. DefiniteAnswers'
    BY <1>t, <1>14 DEF FenceInv, DefiniteAnswers, ResolverRefuses, Answer, Awaited
  <2>9. AttemptsInOrder'
    BY <1>t, <1>14 DEF FenceInv, AttemptsInOrder, ResolverRefuses, Answer, Awaited
  <2> QED
    BY <1>t, <2>1, <2>2, <2>3, <2>4, <2>5, <2>6, <2>7, <2>8, <2>9 DEF FenceInv
<1>15. ASSUME NEW r \in net, Commits(r) PROVE FenceInv'
  <2>d. \A q \in Requests : Doomed(q) => Doomed(q)'
    BY <1>t, <1>15 DEF FenceInv, TypeOK, Client, Requests, Attempt, Attempts, Doomed,
        Conflicts, Bounded, Commits, Answer
  <2>b. r.kind = "own" => verdict[r.by] \notin Final
    BY <1>15 DEF FenceInv, FinalDoomed, Doomed, Commits
  <2>c. r.kind = "own" => \E u \in Txns : r.by = Attempt(u) /\ r = client[u].req
    <3> SUFFICES ASSUME r.kind = "own" PROVE \E u \in Txns : r.by = Attempt(u) /\ r = client[u].req
      OBVIOUS
    <3>1. PICK u \in Txns, n \in 1 .. MaxAttempts : r.by = <<u, n>>
      BY <1>t DEF TypeOK, Requests, Attempts
    <3>2. ChronicleOf(u, n)
      BY Zenon DEF FenceInv, Chronicle
    <3>3. /\ n <= client[u].attempt
          /\ n = client[u].attempt => r = client[u].req
      BY <3>1 DEF FenceInv, UnderWay
    <3>4. client[u].attempt \in Nat /\ n \in Nat
      BY <1>t, BoundsAssumption DEF TypeOK, Client
    <3> QED
      BY <2>b, <3>1, <3>2, <3>3, <3>4 DEF ChronicleOf, Attempt
  <2>1. Bounded'
    BY <1>t, <1>15 DEF FenceInv, TypeOK, Client, Requests, Attempt, Attempts, Bounded,
        Commits, Answer, Awaited
  <2>2. Captured'
    BY <1>t, <1>15 DEF FenceInv, TypeOK, Client, Attempt, Captured, Commits, Answer, Awaited
  <2>3. UnderWay'
    BY <1>t, <1>15 DEF FenceInv, UnderWay, Commits, Answer, Awaited
  <2>4. Replied'
    <3>1. ASSUME NEW u \in Txns, reply'[u] # NoReply, Awaited(u, r)
          PROVE  RepliedTo(u)'
      BY <1>t, <1>15, <3>1 DEF FenceInv, TypeOK, Client, Requests, Attempt, Attempts,
          RepliedTo, Captured, Unapplied, Bounded, Doomed, Conflicts, Commits, Answer,
          Awaited
    <3>2. ASSUME NEW u \in Txns, reply'[u] # NoReply, ~Awaited(u, r)
          PROVE  RepliedTo(u)'
      BY <1>t, <1>15, <3>2, <2>d DEF FenceInv, TypeOK, Client, Requests, Attempt,
          Attempts, Replied, RepliedTo, Captured, UnderWay, Doomed, Commits, Answer
    <3> QED
      BY <3>1, <3>2 DEF Replied
  <2>5. Chronicle'
    <3> SUFFICES ASSUME NEW u \in Txns, NEW n \in 1 .. MaxAttempts PROVE ChronicleOf(u, n)'
      BY Zenon DEF Chronicle
    <3>1. ChronicleOf(u, n)
      BY Zenon DEF FenceInv, Chronicle
    <3>2. client[u].attempt \in Nat /\ n \in Nat /\ <<u, n>> \in Attempts
      BY <1>t, BoundsAssumption DEF TypeOK, Client, Attempts
    <3>3. n > client[u].attempt => commitAt'[<<u, n>>] = commitAt[<<u, n>>]
      <4>1. r.kind = "own" /\ r.by = <<u, n>> => n <= client[u].attempt
        BY Zenon DEF FenceInv, UnderWay
      <4> QED
        BY <1>t, <1>15, <3>2, <4>1 DEF TypeOK, Requests, Commits
    <3> QED
      BY <1>15, <3>1, <3>2, <3>3 DEF ChronicleOf, Commits, Answer
  <2>6. FinalDoomed'
    BY <1>t, <1>15, <2>d DEF FenceInv, TypeOK, Client, Requests, Attempt, Attempts,
        FinalDoomed, Commits, Answer
  <2>7. Unapplied'
    <3>1. \A q \in net' : q.kind = "own" => commitAt'[q.by] = 0
      BY <1>t, <1>15, <2>c DEF FenceInv, TypeOK, Client, Requests, Attempt, Attempts,
          UnderWay, Unapplied, Commits, Answer
    <3>2. \A u \in Txns :
           \/ client[u].phase = "active"
           \/ client[u].phase = "dispatch" /\ client[u].sending.kind = "own"
           => commitAt'[Attempt(u)] = 0
      BY <1>t, <1>15 DEF FenceInv, TypeOK, Client, Requests, Attempt, Attempts,
          UnderWay, Unapplied, Commits, Answer
    <3> QED
      BY <1>15, <3>1, <3>2 DEF Unapplied, Commits, Answer, Attempt
  <2>8. DefiniteAnswers'
    BY <1>t, <1>15, <2>b DEF FenceInv, TypeOK, Client, Requests, Attempt, Attempts,
        DefiniteAnswers, Commits, Answer, Final, Verdicts
  <2>9. AttemptsInOrder'
    <3> SUFFICES ASSUME NEW u \in Txns, NEW m \in 1 .. MaxAttempts, NEW n \in 1 .. MaxAttempts,
                        m < n, commitAt'[<<u, m>>] # 0, commitAt'[<<u, n>>] # 0
                 PROVE  commitAt'[<<u, m>>] < commitAt'[<<u, n>>]
      BY DEF AttemptsInOrder
    <3>1. /\ <<u, m>> \in Attempts /\ <<u, n>> \in Attempts
          /\ m \in Nat /\ n \in Nat /\ client[u].attempt \in Nat
      BY <1>t, BoundsAssumption DEF TypeOK, Client, Attempts
    <3>2. \A a \in Attempts : commitAt'[a] = IF r.kind = "own" /\ r.by = a THEN version + 1 ELSE commitAt[a]
      BY <1>t, <1>15 DEF TypeOK, Requests, Commits
    <3>3. commitAt[<<u, m>>] <= version /\ commitAt[<<u, n>>] <= version
      BY <3>1 DEF FenceInv, Bounded
    <3>4. ~ (r.kind = "own" /\ r.by = <<u, m>>)
      <4> SUFFICES ASSUME r.kind = "own", r.by = <<u, m>> PROVE FALSE
        OBVIOUS
      <4>1. m = client[u].attempt
        BY <2>c, <3>1 DEF Attempt
      <4>2. ChronicleOf(u, n)'
        BY <2>5, Zenon DEF Chronicle
      <4> QED
        BY <1>15, <3>1, <4>1, <4>2 DEF ChronicleOf, Commits, Answer
    <3>5. CASE r.kind = "own" /\ r.by = <<u, n>>
      BY <1>t, <3>1, <3>2, <3>3, <3>4, <3>5 DEF TypeOK
    <3>6. CASE ~ (r.kind = "own" /\ r.by = <<u, n>>)
      <4>1. commitAt[<<u, m>>] < commitAt[<<u, n>>]
        BY <3>1, <3>2, <3>4, <3>6 DEF FenceInv, AttemptsInOrder
      <4> QED
        BY <3>1, <3>2, <3>4, <3>6, <4>1
    <3> QED
      BY <3>5, <3>6
  <2> QED
    BY <1>t, <2>1, <2>2, <2>3, <2>4, <2>5, <2>6, <2>7, <2>8, <2>9 DEF FenceInv
<1>16. ASSUME NEW r \in net, Drop(r) PROVE FenceInv'
  <2>1. Bounded'
    BY <1>t, <1>16 DEF FenceInv, Bounded, Drop
  <2>2. Captured'
    BY <1>t, <1>16 DEF FenceInv, TypeOK, Client, Attempt, Captured, Drop
  <2>3. UnderWay'
    BY <1>t, <1>16 DEF FenceInv, UnderWay, Drop
  <2>4. Replied'
    BY <1>t, <1>16 DEF FenceInv, TypeOK, Client, Attempt, Replied, RepliedTo, Doomed,
        Conflicts, Drop
  <2>5. Chronicle'
    BY <1>t, <1>16 DEF FenceInv, Chronicle, ChronicleOf, Drop
  <2>6. FinalDoomed'
    BY <1>t, <1>16 DEF FenceInv, FinalDoomed, Doomed, Conflicts, Drop
  <2>7. Unapplied'
    BY <1>t, <1>16 DEF FenceInv, TypeOK, Client, Attempt, Unapplied, Drop
  <2>8. DefiniteAnswers'
    BY <1>t, <1>16 DEF FenceInv, DefiniteAnswers, Drop
  <2>9. AttemptsInOrder'
    BY <1>t, <1>16 DEF FenceInv, AttemptsInOrder, Drop
  <2> QED
    BY <1>t, <2>1, <2>2, <2>3, <2>4, <2>5, <2>6, <2>7, <2>8, <2>9 DEF FenceInv
<1>17. ASSUME DeleteTenant PROVE FenceInv'
  <2>1. Bounded'
    BY <1>t, <1>17 DEF FenceInv, Bounded, DeleteTenant
  <2>2. Captured'
    BY <1>t, <1>17 DEF FenceInv, TypeOK, Client, Attempt, Captured, DeleteTenant
  <2>3. UnderWay'
    BY <1>t, <1>17 DEF FenceInv, UnderWay, DeleteTenant
  <2>4. Replied'
    BY <1>t, <1>17 DEF FenceInv, TypeOK, Client, Attempt, Replied, RepliedTo, Doomed,
        Conflicts, DeleteTenant
  <2>5. Chronicle'
    BY <1>t, <1>17 DEF FenceInv, Chronicle, ChronicleOf, DeleteTenant
  <2>6. FinalDoomed'
    BY <1>t, <1>17 DEF FenceInv, FinalDoomed, Doomed, Conflicts, DeleteTenant
  <2>7. Unapplied'
    BY <1>t, <1>17 DEF FenceInv, TypeOK, Client, Attempt, Unapplied, DeleteTenant
  <2>8. DefiniteAnswers'
    BY <1>t, <1>17 DEF FenceInv, DefiniteAnswers, DeleteTenant
  <2>9. AttemptsInOrder'
    BY <1>t, <1>17 DEF FenceInv, AttemptsInOrder, DeleteTenant
  <2> QED
    BY <1>t, <2>1, <2>2, <2>3, <2>4, <2>5, <2>6, <2>7, <2>8, <2>9 DEF FenceInv
<1>18. ASSUME UNCHANGED vars PROVE FenceInv'
  <2>1. Bounded'
    BY <1>t, <1>18 DEF FenceInv, Bounded, vars, Conflicts
  <2>2. Captured'
    BY <1>t, <1>18 DEF FenceInv, TypeOK, Client, Attempt, Captured, vars, Conflicts
  <2>3. UnderWay'
    BY <1>t, <1>18 DEF FenceInv, UnderWay, vars, Conflicts
  <2>4. Replied'
    BY <1>t, <1>18 DEF FenceInv, TypeOK, Client, Attempt, Replied, RepliedTo, Doomed,
        Conflicts, vars
  <2>5. Chronicle'
    BY <1>t, <1>18 DEF FenceInv, Chronicle, ChronicleOf, vars, Conflicts
  <2>6. FinalDoomed'
    BY <1>t, <1>18 DEF FenceInv, FinalDoomed, Doomed, Conflicts, vars
  <2>7. Unapplied'
    BY <1>t, <1>18 DEF FenceInv, TypeOK, Client, Attempt, Unapplied, vars, Conflicts
  <2>8. DefiniteAnswers'
    BY <1>t, <1>18 DEF FenceInv, DefiniteAnswers, vars, Conflicts
  <2>9. AttemptsInOrder'
    BY <1>t, <1>18 DEF FenceInv, AttemptsInOrder, vars, Conflicts
  <2> QED
    BY <1>t, <2>1, <2>2, <2>3, <2>4, <2>5, <2>6, <2>7, <2>8, <2>9 DEF FenceInv
<1>19. ASSUME NEW t \in Txns, NEW o \in {"retryable", "denied"}, NotSent(t, o) PROVE FenceInv'
  <2>1. Bounded'
    BY <1>t, <1>19 DEF FenceInv, Bounded, NotSent, FailsUnsent, Return
  <2>2. Captured'
    BY <1>t, <1>19 DEF FenceInv, TypeOK, Client, Attempt, Captured, NotSent, FailsUnsent, Return
  <2>3. UnderWay'
    BY <1>t, <1>19 DEF FenceInv, UnderWay, NotSent, FailsUnsent, Return
  <2>4. Replied'
    BY <1>t, <1>19 DEF FenceInv, TypeOK, Client, Attempt, Replied, RepliedTo, Doomed,
        Conflicts, NotSent, FailsUnsent, Return
  <2>5. Chronicle'
    <3>1. \A u \in Txns : /\ client'[u].attempt = client[u].attempt
                          /\ u # t => client'[u] = client[u]
                          /\ client[u].phase = "answered" => client'[u].phase = "answered"
      BY <1>t, <1>19 DEF TypeOK, Client, NotSent, FailsUnsent, Return
    <3>2. \A u \in Txns, n \in 1 .. MaxAttempts :
              <<u, n>> # Attempt(t) => verdict'[<<u, n>>] = verdict[<<u, n>>]
      BY <1>t, <1>19 DEF TypeOK, Attempts, NotSent, FailsUnsent, Return
    <3>3. commitAt' = commitAt
      BY <1>19 DEF NotSent, FailsUnsent, Return
    <3>4. client'[t].phase = "answered"
      BY <1>t, <1>19 DEF TypeOK, Client, NotSent, FailsUnsent, Return
    <3> QED
      BY <1>t, <3>1, <3>2, <3>3, <3>4, ChronicleKept DEF FenceInv
  <2>6. FinalDoomed'
    <3> SUFFICES ASSUME NEW q \in net, q.kind = "own", verdict'[q.by] \in Final
                 PROVE  Doomed(q)
      BY <1>19 DEF FinalDoomed, Doomed, Conflicts, NotSent, FailsUnsent
    <3>1. q.by # Attempt(t)
      BY <1>t, <1>19 DEF FenceInv, TypeOK, Client, Attempt, UnderWay, NotSent, FailsUnsent
    <3>2. verdict[q.by] \in Final
      BY <1>t, <1>19, <3>1 DEF TypeOK, Requests, NotSent, FailsUnsent, Return
    <3> QED
      BY <3>2 DEF FenceInv, FinalDoomed
  <2>7. Unapplied'
    BY <1>t, <1>19 DEF FenceInv, TypeOK, Client, Attempt, Unapplied, NotSent, FailsUnsent, Return
  <2>8. DefiniteAnswers'
    BY <1>t, <1>19 DEF FenceInv, TypeOK, Client, Attempt, Attempts, Unapplied, DefiniteAnswers, NotSent, FailsUnsent, Return
  <2>9. AttemptsInOrder'
    BY <1>t, <1>19 DEF FenceInv, AttemptsInOrder, NotSent, FailsUnsent, Return
  <2> QED
    BY <1>t, <2>1, <2>2, <2>3, <2>4, <2>5, <2>6, <2>7, <2>8, <2>9 DEF FenceInv
<1>20. ASSUME NEW t \in Txns, FailsUnsent(t, "dummy"), UNCHANGED verdict,
              client' = [client EXCEPT ![t].phase = "fence"]
       PROVE FenceInv'
  <2>1. Bounded'
    BY <1>t, <1>20 DEF FenceInv, Bounded, FailsUnsent
  <2>2. Captured'
    BY <1>t, <1>20 DEF FenceInv, TypeOK, Client, Attempt, Captured, FailsUnsent
  <2>3. UnderWay'
    BY <1>t, <1>20 DEF FenceInv, UnderWay, FailsUnsent
  <2>4. Replied'
    BY <1>t, <1>20 DEF FenceInv, TypeOK, Client, Attempt, Replied, RepliedTo, Doomed,
        Conflicts, FailsUnsent
  <2>5. Chronicle'
    <3>1. \A u \in Txns : /\ client'[u].attempt = client[u].attempt
                          /\ u # t => client'[u] = client[u]
                          /\ client[u].phase = "answered" => client'[u].phase = "answered"
      BY <1>t, <1>20 DEF TypeOK, Client, FailsUnsent
    <3>2. \A u \in Txns, n \in 1 .. MaxAttempts :
              <<u, n>> # Attempt(t) => verdict'[<<u, n>>] = verdict[<<u, n>>]
      BY <1>t, <1>20 DEF TypeOK, Attempts, FailsUnsent
    <3>3. commitAt' = commitAt
      BY <1>20 DEF FailsUnsent
    <3>4. verdict' = verdict
      BY <1>t, <1>20 DEF TypeOK, Client, FailsUnsent
    <3> QED
      BY <1>t, <3>1, <3>2, <3>3, <3>4, ChronicleKept DEF FenceInv
  <2>6. FinalDoomed'
    BY <1>t, <1>20 DEF FenceInv, FinalDoomed, Doomed, Conflicts, FailsUnsent
  <2>7. Unapplied'
    BY <1>t, <1>20 DEF FenceInv, TypeOK, Client, Attempt, Unapplied, FailsUnsent
  <2>8. DefiniteAnswers'
    BY <1>t, <1>20 DEF FenceInv, DefiniteAnswers, FailsUnsent
  <2>9. AttemptsInOrder'
    BY <1>t, <1>20 DEF FenceInv, AttemptsInOrder, FailsUnsent
  <2> QED
    BY <1>t, <2>1, <2>2, <2>3, <2>4, <2>5, <2>6, <2>7, <2>8, <2>9 DEF FenceInv
<1>21. ASSUME NEW t \in Txns, FailsUnsent(t, "dummy"), Return(t, "fenceFailed")
       PROVE FenceInv'
  <2>1. Bounded'
    BY <1>t, <1>21 DEF FenceInv, Bounded, FailsUnsent, Return
  <2>2. Captured'
    BY <1>t, <1>21 DEF FenceInv, TypeOK, Client, Attempt, Captured, FailsUnsent, Return
  <2>3. UnderWay'
    BY <1>t, <1>21 DEF FenceInv, UnderWay, FailsUnsent, Return
  <2>4. Replied'
    BY <1>t, <1>21 DEF FenceInv, TypeOK, Client, Attempt, Replied, RepliedTo, Doomed,
        Conflicts, FailsUnsent, Return
  <2>5. Chronicle'
    <3>1. \A u \in Txns : /\ client'[u].attempt = client[u].attempt
                          /\ u # t => client'[u] = client[u]
                          /\ client[u].phase = "answered" => client'[u].phase = "answered"
      BY <1>t, <1>21 DEF TypeOK, Client, FailsUnsent, Return
    <3>2. \A u \in Txns, n \in 1 .. MaxAttempts :
              <<u, n>> # Attempt(t) => verdict'[<<u, n>>] = verdict[<<u, n>>]
      BY <1>t, <1>21 DEF TypeOK, Attempts, FailsUnsent, Return
    <3>3. commitAt' = commitAt
      BY <1>21 DEF FailsUnsent, Return
    <3>4. client'[t].phase = "answered"
      BY <1>t, <1>21 DEF TypeOK, Client, FailsUnsent, Return
    <3> QED
      BY <1>t, <3>1, <3>2, <3>3, <3>4, ChronicleKept DEF FenceInv
  <2>6. FinalDoomed'
    BY <1>t, <1>21 DEF FenceInv, TypeOK, Client, Requests, Attempt, Attempts,
        FinalDoomed, Doomed, Conflicts, Chronicle, ChronicleOf, Captured, UnderWay,
        Replied, RepliedTo, Final, Verdicts, MaybeCommitted, Bounded,
        FailsUnsent, Return
  <2>7. Unapplied'
    BY <1>t, <1>21 DEF FenceInv, TypeOK, Client, Attempt, Unapplied, FailsUnsent, Return
  <2>8. DefiniteAnswers'
    BY <1>t, <1>21 DEF FenceInv, DefiniteAnswers, FailsUnsent, Return
  <2>9. AttemptsInOrder'
    BY <1>t, <1>21 DEF FenceInv, AttemptsInOrder, FailsUnsent, Return
  <2> QED
    BY <1>t, <2>1, <2>2, <2>3, <2>4, <2>5, <2>6, <2>7, <2>8, <2>9 DEF FenceInv
<1> QED
  BY <1>1, <1>2, <1>3, <1>4, <1>5, <1>6, <1>7, <1>8, <1>9, <1>10, <1>11, <1>12, <1>13,
      <1>14, <1>15, <1>16, <1>17, <1>18, <1>19, <1>20, <1>21
      DEF Next, ReceiveFence, Deliver, DummyNotSent

\* The invariant holds when every handle is new and nothing is under way.
LEMMA FenceInit == Init => FenceInv
<1> SUFFICES ASSUME Init PROVE FenceInv
  OBVIOUS
<1>1. TypeOK
  BY TypeInit
<1>2. \A t \in Txns : client[t] = Fresh(t, 1, {}) /\ Attempt(t) = <<t, 1>>
  BY DEF Init, Fresh, Attempt
<1>3. Bounded
  BY <1>1, <1>2 DEF Init, Bounded, Fresh, NoRequest
<1>4. Captured
  BY <1>1, <1>2 DEF Init, Captured, Fresh, NoRequest
<1>5. UnderWay /\ FinalDoomed
  BY DEF Init, UnderWay, FinalDoomed
<1>6. Replied
  BY DEF Init, Replied
<1>7. Chronicle
  BY <1>1, <1>2, BoundsAssumption DEF Init, Chronicle, ChronicleOf, Fresh, Attempts
<1>8. Unapplied /\ DefiniteAnswers /\ AttemptsInOrder
  BY <1>1, <1>2, BoundsAssumption DEF Init, Unapplied, DefiniteAnswers, AttemptsInOrder,
      Attempts
<1> QED
  BY <1>1, <1>3, <1>4, <1>5, <1>6, <1>7, <1>8 DEF FenceInv

-----------------------------------------------------------------------------
(* The theorems *)

\* The inductive invariant of the commit path holds in every reachable state.
THEOREM FenceInvariance == Spec => []FenceInv
<1> QED
  BY FenceInit, FenceStep, PTL DEF Spec

\* Commit never reports success of an attempt that did not commit, nor a
\* definite failure of one that did (commitNative, parseCommitOutcome).
THEOREM DefiniteAnswersHolds == Spec => []DefiniteAnswers
<1>1. FenceInv => DefiniteAnswers
  BY DEF FenceInv
<1> QED
  BY <1>1, FenceInvariance, PTL

\* A retry is never overtaken by the attempt it retries (commitDummyTransaction
\* before OnError).
THEOREM AttemptsInOrderHolds == Spec => []AttemptsInOrder
<1>1. FenceInv => AttemptsInOrder
  BY DEF FenceInv
<1> QED
  BY <1>1, FenceInvariance, PTL

\* The fence is sound: after commit_unknown_result, or any other answer but a
\* context error or the fence's own, the attempt is never applied
\* (unknownResult, commitDummyTransaction).
THEOREM AnswerIsFinalHolds == Spec => AnswerIsFinal
<1>1. FenceInv /\ [Next]_vars
          => [\A a \in Attempts : verdict[a] \in Final => commitAt'[a] = commitAt[a]]_vars
  <2> SUFFICES ASSUME FenceInv, Next, NEW a \in Attempts, verdict[a] \in Final
               PROVE  commitAt'[a] = commitAt[a]
    OBVIOUS
  <2>1. ASSUME NEW r \in net, Commits(r) PROVE commitAt'[a] = commitAt[a]
    <3>1. r.kind = "own" => r.by # a
      BY <2>1 DEF FenceInv, FinalDoomed, Doomed, Commits
    <3>2. r.kind \in {"own", "dummy"} /\ commitAt \in [Attempts -> Nat]
      BY DEF FenceInv, TypeOK, Requests
    <3> QED
      BY <2>1, <3>1, <3>2 DEF Commits
  <2>2. ASSUME ~ \E r \in net : Commits(r) PROVE commitAt' = commitAt
    BY <2>2 DEF Next, cluster, Commit, Send, SendFails, LoseReply, ReceiveOwn, Abandon,
        Fence,
           ReceiveFence, FenceHolds, FenceRetries, FenceFails, FenceReply, OnError, Deliver,
           TenantGone, ProxyRefuses, ResolverRefuses, Drop, DeleteTenant, NotSent,
           DummyNotSent, FailsUnsent
  <2> QED
    BY <2>1, <2>2
<1> QED
  BY <1>1, FenceInvariance, PTL DEF Spec, AnswerIsFinal

=============================================================================
