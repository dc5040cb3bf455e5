---------------------------- MODULE CommitFence ----------------------------
(***************************************************************************)
(* The commit path of the native client (pkg/fdbgo/client): a handle ships *)
(* its mutations and conflict ranges once, and when it cannot learn what   *)
(* became of them it commits an empty "dummy" transaction on a key that    *)
(* the lost request both read and wrote before it says                     *)
(* commit_unknown_result (1021).  The dummy is the fence: once it has      *)
(* committed, the resolver refuses the lost request whenever it arrives.   *)
(*                                                                         *)
(* The network may delay, drop or reorder requests, a proxy may die while  *)
(* answering, and the tenant may be deleted.  The cluster (proxies,        *)
(* resolver, log) is not in the repository: Deliver, Drop and DeleteTenant *)
(* say what the client relies on.                                          *)
(***************************************************************************)
EXTENDS Integers, FiniteSets

CONSTANTS
    Txns,        \* the transaction handles of one client
    Keys,        \* the user keys
    MaxAttempts, \* attempts of a handle: its retry limit plus one
    MaxFaults    \* bound: lost answers, refusals and stale read versions

ASSUME BoundsAssumption == MaxAttempts \in Nat \ {0} /\ MaxFaults \in Nat

VARIABLES
    version,   \* the cluster's last commit version
    lastWrite, \* key -> version of the last commit whose writes cover it
    tenant,    \* "live", or "gone" once it is deleted
    net,       \* the commit requests sent and not yet processed
    reply,     \* handle -> the proxy's answer to the request it waits on
    client,    \* handle -> the state of its commit
    verdict,   \* attempt -> what its Commit returned
    commitAt,  \* attempt -> the version it committed at, 0 if it did not
    faults     \* faults still allowed

vars == <<version, lastWrite, tenant, net, reply, client, verdict,
          commitAt, faults>>

-----------------------------------------------------------------------------
(* Requests *)

Attempts == Txns \X (1 .. MaxAttempts)

\* The random key under \xff/SC/ that makes one attempt conflict with itself.
selfConflictKey(a) == a

AllKeys == Keys \cup {selfConflictKey(a) : a \in Attempts}

\* A CommitTransactionRequest: the attempt's own mutations, or its dummy.  Two
\* dummies of one attempt with the same key and read version are the same
\* request: which of them is processed makes no difference.
Requests == [by : Attempts, kind : {"own", "dummy"}, rv : Nat,
             reads : SUBSET AllKeys, writes : SUBSET AllKeys]

\* The commit ships read and write conflicts that share a key: its own if the
\* two sets meet, else the attempt's self-conflict key added to both.
maybeMakeSelfConflicting(a, R, W) ==
    IF R \cap W = {} THEN {selfConflictKey(a)} ELSE {}

ShippedRequest(a, v, R, W) ==
    LET sc == maybeMakeSelfConflicting(a, R, W)
    IN  [by |-> a, kind |-> "own", rv |-> v, reads |-> R \cup sc, writes |-> W \cup sc]

\* A fault for the mutation runs: the fence key is any key the lost request
\* wrote, read or not.
anyWrittenKey(r) == r.writes

\* The dummy may be fenced on any key present in both conflict sets; the code
\* takes the first in key order, which the abstract keys do not have.
intersectConflictRanges(r) == r.reads \cap r.writes

Dummy(r, k, v) ==
    [by |-> r.by, kind |-> "dummy", rv |-> v, reads |-> {k}, writes |-> {k}]

-----------------------------------------------------------------------------
(* Answers *)

\* What a proxy answers: committed at a version; a conflict, as an error or as
\* a CommitID of invalidVersion when conflicting keys are reported; refused
\* with a code OnError retries (locked, throttled, too old), or with another;
\* or the tenant is gone.
Outcomes == {"committed", "conflict", "conflictReport", "retryable", "denied", "tenantGone"}

NoReply == "none"

\* The codes of the maybe-committed class: commit_unknown_result and
\* cluster_version_changed.
MaybeCommitted == {"unknown", "clusterChanged"}

\* "context": the client was closed or its owner dropped; "fenceFailed": the
\* error of a dummy that could not commit.
Verdicts == {"open", "committed", "conflict", "retryable", "denied",
             "tenantGone", "context", "fenceFailed"} \cup MaybeCommitted

\* A fault for the mutation runs: any decodable CommitID is a success.
parseAnyCommitID(o) == IF o = "conflictReport" THEN "committed" ELSE o

parseCommitOutcome(o) == IF o = "conflictReport" THEN "conflict" ELSE o

\* A fault for the mutation runs: a commit cut off by its context is retried.
retryableContext(v) == v \in {"conflict", "retryable", "context"} \cup MaybeCommitted

onErrorRetryable(v) == v \in {"conflict", "retryable"} \cup MaybeCommitted

\* The verdicts after which the code lets the caller go on as if the attempt
\* were over.  A context error and a failed fence promise nothing.
Final == Verdicts \ {"open", "context", "fenceFailed"}

-----------------------------------------------------------------------------
(* The handle.  carried: the read conflicts OnError put back after a maybe   *)
(* committed attempt; req: the attempt's captured commitInput; sending: the  *)
(* request commitNative works on, the attempt's own or a dummy's; code: the  *)
(* maybe-committed code to report once the fence holds.                      *)

Phases == {"active", "dispatch", "wait", "fence", "answered"}

Client == [phase : Phases, attempt : 1 .. MaxAttempts, carried : SUBSET AllKeys,
           code : MaybeCommitted, req : Requests, sending : Requests]

NoRequest(a) == [by |-> a, kind |-> "own", rv |-> 0, reads |-> {}, writes |-> {}]

Fresh(t, n, carried) ==
    [phase |-> "active", attempt |-> n, carried |-> carried, code |-> "unknown",
     req |-> NoRequest(<<t, n>>), sending |-> NoRequest(<<t, n>>)]

Attempt(t) == <<t, client[t].attempt>>

Init ==
    /\ version = 0
    /\ lastWrite = [k \in AllKeys |-> 0]
    /\ tenant = "live"
    /\ net = {}
    /\ reply = [t \in Txns |-> NoReply]
    /\ client = [t \in Txns |-> Fresh(t, 1, {})]
    /\ verdict = [a \in Attempts |-> "open"]
    /\ commitAt = [a \in Attempts |-> 0]
    /\ faults = MaxFaults

cluster == <<version, lastWrite, tenant, net, commitAt>>

\* The handle's Commit returns v for its current attempt.
Return(t, v) ==
    /\ client' = [client EXCEPT ![t].phase = "answered"]
    /\ verdict' = [verdict EXCEPT ![Attempt(t)] = v]

-----------------------------------------------------------------------------
(* Commit *)

\* Transaction.Commit of an attempt that read R and wrote W: the vectors are
\* captured and the native worker gets a read version, possibly a risky one.
Commit(t, R, W, v) ==
    LET c == client[t]
        r == ShippedRequest(Attempt(t), v, R \cup c.carried, W)
    IN  /\ c.phase = "active"
        /\ client' = [client EXCEPT ![t] = [c EXCEPT !.phase = "dispatch", !.req = r, !.sending = r]]
        /\ UNCHANGED <<cluster, reply, verdict, faults>>

\* A Commit, the attempt's or its dummy's, fails before anything is sent: a read
\* failed, a mutation is illegal, the transaction is too large or read-only, or
\* no read version can be had.
FailsUnsent(t, kind) ==
    /\ client[t].phase = "dispatch"
    /\ client[t].sending.kind = kind
    /\ faults > 0
    /\ faults' = faults - 1
    /\ UNCHANGED <<cluster, reply>>

NotSent(t, o) ==
    /\ FailsUnsent(t, "own")
    /\ Return(t, o)

\* commitNative, for the attempt or for its dummy: the frame is sent.
Send(t) ==
    /\ client[t].phase = "dispatch"
    /\ net' = net \cup {client[t].sending}
    /\ client' = [client EXCEPT ![t].phase = "wait"]
    /\ UNCHANGED <<version, lastWrite, tenant, commitAt, reply, verdict, faults>>

\* What commitNative does with an outcome it cannot know: an attempt remembers
\* the code and starts its fence; a dummy's 1021 or 1039 is retried by the
\* fence's own loop.
unknownResult(t, code) ==
    IF client[t].sending.kind = "dummy"
    THEN [client[t] EXCEPT !.phase = "fence"]
    ELSE [client[t] EXCEPT !.phase = "fence", !.code = code]

\* No proxy is known, the dial fails or the send does; of the last the frame
\* may still reach the proxy.
SendFails(t) ==
    /\ client[t].phase = "dispatch"
    /\ faults > 0
    /\ net' \in {net, net \cup {client[t].sending}}
    /\ client' = [client EXCEPT ![t] = unknownResult(t, "unknown")]
    /\ faults' = faults - 1
    /\ UNCHANGED <<version, lastWrite, tenant, commitAt, reply, verdict>>

\* The connection breaks, the proxies change, the reply cannot be decoded, or
\* the proxy answers that the request may have been delivered.  The request,
\* if it was not processed, is still under way.
LoseReply(t, code) ==
    /\ client[t].phase = "wait"
    /\ faults > 0
    /\ client' = [client EXCEPT ![t] = unknownResult(t, code)]
    /\ reply' = [reply EXCEPT ![t] = NoReply]
    /\ faults' = faults - 1
    /\ UNCHANGED <<cluster, verdict>>

\* The reply of the attempt's own request is what Commit returns.
ReceiveOwn(t) ==
    /\ client[t].phase = "wait"
    /\ reply[t] # NoReply
    /\ client[t].sending.kind = "own"
    /\ Return(t, parseCommitOutcome(reply[t]))
    /\ reply' = [reply EXCEPT ![t] = NoReply]
    /\ UNCHANGED <<cluster, faults>>

\* The context ends: db.Close, or the handle and its owner are gone.  What was
\* sent stays under way.
Abandon(t) ==
    /\ client[t].phase \in {"dispatch", "wait", "fence"}
    /\ Return(t, "context")
    /\ reply' = [reply EXCEPT ![t] = NoReply]
    /\ UNCHANGED <<cluster, faults>>

-----------------------------------------------------------------------------
(* commitDummyTransaction *)

\* A fault for the mutation runs: the dummy is made once, outside the loop, and
\* keeps the read version of its first try.
dummyReadVersionKept(t, v) ==
    IF client[t].sending.kind = "dummy" THEN client[t].sending.rv ELSE v

\* Each try is a new transaction with a read version of its own; a risky read
\* version may be older than the last commit.
dummyReadVersion(t, v) == v

\* The next try of the fence.
Fence(t, k, v) ==
    LET c == client[t]
    IN  /\ c.phase = "fence"
        /\ k \in intersectConflictRanges(c.req)
        /\ v = version \/ faults > 0
        /\ faults' = IF v = version THEN faults ELSE faults - 1
        /\ client' = [client EXCEPT ![t] =
                         [c EXCEPT !.phase = "dispatch",
                                   !.sending = Dummy(c.req, k, dummyReadVersion(t, v))]]
        /\ UNCHANGED <<cluster, reply, verdict>>

\* The dummy committed, or its tenant is gone.
fenced(o) == o \in {"committed", "tenantGone"}

\* The dummy's reply is read.
FenceReply(t, o) ==
    /\ client[t].phase = "wait"
    /\ reply[t] # NoReply
    /\ client[t].sending.kind = "dummy"
    /\ o = parseCommitOutcome(reply[t])
    /\ reply' = [reply EXCEPT ![t] = NoReply]
    /\ UNCHANGED <<cluster, faults>>

FenceHolds(t, o) ==
    /\ FenceReply(t, o)
    /\ fenced(o)
    /\ Return(t, client[t].code)

FenceRetries(t, o) ==
    /\ FenceReply(t, o)
    /\ ~fenced(o) /\ onErrorRetryable(o)
    /\ client' = [client EXCEPT ![t].phase = "fence"]
    /\ UNCHANGED verdict

FenceFails(t, o) ==
    /\ FenceReply(t, o)
    /\ ~fenced(o) /\ ~onErrorRetryable(o)
    /\ Return(t, "fenceFailed")

\* The dummy's Commit fails before its request is sent.
DummyNotSent(t, o) ==
    /\ FailsUnsent(t, "dummy")
    /\ \/ /\ onErrorRetryable(o)
          /\ client' = [client EXCEPT ![t].phase = "fence"]
          /\ UNCHANGED verdict
       \/ /\ ~onErrorRetryable(o)
          /\ Return(t, "fenceFailed")

ReceiveFence(t) ==
    \E o \in Outcomes : FenceHolds(t, o) \/ FenceRetries(t, o) \/ FenceFails(t, o)

-----------------------------------------------------------------------------
(* OnError *)

RetryLeft(t) == client[t].attempt < MaxAttempts

\* A maybe-committed attempt leaves its write conflicts to the next attempt as
\* read conflicts; another retryable verdict leaves nothing.
selfConflicts(v, r) == IF v \in MaybeCommitted THEN r.writes ELSE {}

OnError(t) ==
    LET c == client[t]
        v == verdict[Attempt(t)]
    IN  /\ c.phase = "answered"
        /\ onErrorRetryable(v)
        /\ RetryLeft(t)
        /\ client' = [client EXCEPT ![t] = Fresh(t, c.attempt + 1, selfConflicts(v, c.req))]
        /\ UNCHANGED <<cluster, reply, verdict, faults>>

-----------------------------------------------------------------------------
(* The cluster (external) *)

Awaited(t, r) == client[t].phase = "wait" /\ client[t].sending = r

\* The request leaves the network; a handle that waits on it has its answer.
Answer(r, o) ==
    /\ r \in net
    /\ net' = net \ {r}
    /\ reply' = [t \in Txns |-> IF Awaited(t, r) THEN o ELSE reply[t]]
    /\ UNCHANGED <<tenant, client, verdict>>

Conflicts(r) == \E k \in r.reads : lastWrite[k] > r.rv

TenantGone(r) ==
    /\ tenant = "gone"
    /\ Answer(r, "tenantGone")
    /\ UNCHANGED <<version, lastWrite, commitAt, faults>>

ProxyRefuses(r, o) ==
    /\ tenant = "live"
    /\ faults > 0
    /\ Answer(r, o)
    /\ faults' = faults - 1
    /\ UNCHANGED <<version, lastWrite, commitAt>>

\* A resolver saw a later write of a key the request read.
ResolverRefuses(r, o) ==
    /\ tenant = "live"
    /\ Conflicts(r)
    /\ Answer(r, o)
    /\ UNCHANGED <<version, lastWrite, commitAt, faults>>

Commits(r) ==
    /\ tenant = "live"
    /\ ~Conflicts(r)
    /\ version' = version + 1
    /\ lastWrite' = [k \in AllKeys |-> IF k \in r.writes THEN version + 1 ELSE lastWrite[k]]
    /\ commitAt' = IF r.kind = "dummy" THEN commitAt ELSE [commitAt EXCEPT ![r.by] = version + 1]
    /\ Answer(r, "committed")
    /\ UNCHANGED faults

\* A proxy and the resolvers process a request.
Deliver(r) ==
    \/ TenantGone(r)
    \/ \E o \in {"retryable", "denied"} : ProxyRefuses(r, o)
    \/ \E o \in {"conflict", "conflictReport"} : ResolverRefuses(r, o)
    \/ Commits(r)

\* A request nobody waits on any more is lost with its connection.
Drop(r) ==
    /\ r \in net
    /\ \A t \in Txns : ~Awaited(t, r)
    /\ net' = net \ {r}
    /\ UNCHANGED <<version, lastWrite, tenant, commitAt, reply, client, verdict, faults>>

DeleteTenant ==
    /\ tenant = "live"
    /\ tenant' = "gone"
    /\ UNCHANGED <<version, lastWrite, net, commitAt, reply, client, verdict, faults>>

-----------------------------------------------------------------------------
Progress(t) ==
    \/ Send(t)
    \/ ReceiveOwn(t)
    \/ ReceiveFence(t)
    \/ \E k \in AllKeys : Fence(t, k, version)

Processing == \E r \in net : Deliver(r)

Next ==
    \/ \E t \in Txns :
          \/ \E R, W \in SUBSET Keys, v \in 0 .. version : Commit(t, R, W, v)
          \/ \E o \in {"retryable", "denied"} : NotSent(t, o) \/ DummyNotSent(t, o)
          \/ Send(t)
          \/ SendFails(t)
          \/ \E code \in MaybeCommitted : LoseReply(t, code)
          \/ ReceiveOwn(t)
          \/ Abandon(t)
          \/ \E k \in AllKeys, v \in 0 .. version : Fence(t, k, v)
          \/ ReceiveFence(t)
          \/ OnError(t)
    \/ \E r \in net : Deliver(r) \/ Drop(r)
    \/ DeleteTenant

Spec == Init /\ [][Next]_vars

\* Goroutines that can run do run, and the cluster processes what it is sent.
Fairness == WF_vars(Processing) /\ \A t \in Txns : WF_vars(Progress(t))

FairSpec == Spec /\ Fairness

-----------------------------------------------------------------------------
(* Properties *)

\* Every variable has its type; in particular OnError grants no handle more
\* attempts than its retry limit.
TypeOK ==
    /\ version \in Nat
    /\ lastWrite \in [AllKeys -> Nat]
    /\ tenant \in {"live", "gone"}
    /\ net \in SUBSET Requests
    /\ reply \in [Txns -> Outcomes \cup {NoReply}]
    /\ client \in [Txns -> Client]
    /\ verdict \in [Attempts -> Verdicts]
    /\ commitAt \in [Attempts -> Nat]
    /\ faults \in 0 .. MaxFaults

\* What Commit returned is final: after success, a definite failure or
\* commit_unknown_result, the attempt's mutations are never applied later, so
\* a caller may look at the database to see what became of them.
AnswerIsFinal ==
    [][\A a \in Attempts : verdict[a] \in Final => commitAt'[a] = commitAt[a]]_vars

\* Commit says committed only of an attempt that is, and not_committed or a
\* refusal only of one that is not.
DefiniteAnswers ==
    \A a \in Attempts :
        /\ verdict[a] = "committed" => commitAt[a] # 0
        /\ verdict[a] \in {"conflict", "retryable", "denied", "tenantGone"} => commitAt[a] = 0

\* The attempts of one handle take effect in the order they were made: a late
\* attempt never overwrites what its own retry committed.
AttemptsInOrder ==
    \A t \in Txns : \A m, n \in 1 .. MaxAttempts :
        m < n /\ commitAt[<<t, m>>] # 0 /\ commitAt[<<t, n>>] # 0
            => commitAt[<<t, m>>] < commitAt[<<t, n>>]

\* Every Commit returns once the faults are over, however many requests and
\* dummies are still under way: the fence does not retry for ever.
CommitReturns ==
    \A t \in Txns : client[t].phase = "dispatch" ~> client[t].phase = "answered"

=============================================================================
