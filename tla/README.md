# TLA+ verification of fdb-go

fdb-go is a pure-Go stack for FoundationDB: a native client that speaks the
cluster's wire protocol (`pkg/fdbgo`), a record layer and a relational layer
on top of it (`pkg/recordlayer`, `pkg/relational`), and an in-memory
multi-version database (`pkg/simfdb`) that stands in for the cluster in
deterministic simulation (`pkg/dst`).

This project models the parts of it that decide something concurrently: the
simulator's serializable commit; in the native client a commit whose outcome is
unknown, the shared read version, the batching of read versions, the lifetime of
a handle that several goroutines use, and the delivery of its timeouts, by the
timers of the default setting and by the queue of the legacy one; in the
record layer an index that is built while the store is written. Safety is
proved for all of these, for every value of the constants. The simulator with a
clock is serializable only for transactions whose snapshot was pinned no higher
than the last commit, and the theorem says so (sections 4 and 6). Liveness is
checked by TLC on small instances.

## 1. Inventory

| Component | State | Operations | What is hard | What makes it correct |
|---|---|---|---|---|
| simulator, `pkg/simfdb` | versioned store, last version, recent write conflicts, one record per handle | get, range, set, clear, atomic, conflict ranges, read versions, Commit, OnError, Cancel, Reset, Close | handles interleave; injected faults on both branches of 1021; versions from a clock | serializability, serial history, retries isolated, MVCC window, durable reports |
| simulation environment, `pkg/dst` | clock, seeded randomness, fault sites | Advance, Set, draw | a clock that jumps between two calls | it never goes back |
| native commit path, `client/commitpath.go`, `native_commit.go`, `commit_input.go` | captured vectors, reply promise, dummy transaction | Commit, commitNative, commitDummyTransaction, OnError | lost answers, late requests, retried fences, context errors | an answer is true and stays true; the fence ends |
| native transaction lifetime, `client/transaction_lifetime.go`, `read_incarnation.go`, `native_commit.go`, `versionstamp.go` | incarnation, execution leases, commits under way, timer arming | enter, release, turnover, Reset, OnError, Commit, Cancel, watch, timeout | a stale completion or timer meets its successor; waiting for leases whose owners wait for a network | one incarnation at a time; nothing retires a successor; turnovers end |
| timeout timers, the default, `client/timeout_design.go` | a timer per transaction, or a pooled entry inside `Transact` | arm, disarm, fire, release | entries left set to an earlier time; callbacks of an entry that has another owner; `Transact` returning with reads in flight | no wake is lost; none comes early |
| timeout queue, only with `FDBGO_NET_DESIGN=0` or `legacy`, or test hooks, `client/timeout_queue.go` | per-shard heap and timer, drainer, sequence of arms | schedule, disarm, fire, drain | lock-free lazy arms; callbacks while the drainer leaves | no wake is lost; none comes early; arms resume in order |
| read version cache, `client/grv.go`, `topology.go` | entry (version, floor, freshness, cooldowns), one word of two fences, seen-version stamp | publishReply, tryCache, invalidate, installProxySet | CAS loops between goroutines; replies of an earlier epoch | read your commits, bounded staleness, nothing of another cluster |
| read version batcher, `client/grv.go`, `grv_window.go` | queue, in-flight count, window and timer, pooled reply channels | getReadVersion, flush, expiry, Close | a timer that fails or expires early; panics; callers that give up | everyone is answered, with an answer of his own batch |
| read path and read-your-writes, `client/ryw*.go`, `readpath.go` | write map, read cache, conflict maps | get, getRange, getKey | merge of own writes with shards | same result as the simulator (differential tests) |
| cluster discovery, `client/coordinator.go`, `topology.go`, `failure_monitor.go` | proxies, coordinators, epochs | poll, switch, mark failed | a switch between a dispatch and its reply | proxy and epoch come from one load |
| transport, `pkg/fdbgo/transport` | connections, outbox, reply promises | dial, send, reply, teardown | send against teardown | a promise is resolved exactly once |
| record store, `pkg/recordlayer/store*.go`, `index_state.go` | records, header, index states, state cache | open, save, delete, mark index, commit hooks | cached state against the metadata version | a write goes to an index as its state says |
| online indexer, `online_indexer*.go`, `indexing_*.go` | range set, stamp, heartbeats, pending write queue, index state | prepare, build range, claim, drain, mark readable, clean up | sessions beside live writers and peers; leases; late cleanups; crashes | every record is indexed once when the index is readable; exclusive sessions are alone |
| range set, `range_set.go` | entries begin to end | insert, contains, missing ranges, clear | boundaries | it is a set of points |
| indexes, cursors, planner, r-tree | data in one transaction | scan, maintain, plan | size of the data, not concurrency | results equal a reference |
| relational layer, SQL driver | sessions, catalog, plan cache | statements, autocommit | retry of a statement after 1021 | a statement is applied as often as reported |
| commands, tools, otel layer | applications of the above | | | |

A handle calls the client (or the simulator, which has the same interface). It
asks the batcher, or the cache in front of it, for a read version; its commit is
driven by a worker that may outlive the caller's wait; requests travel over the transport to proxies, and
answers come back through reply promises. Commits and GRV replies
feed the cache. A timeout is armed on a timer of the transaction, or in the
shared queue under the legacy setting. The record layer and
SQL sessions drive the retry loop: run, `Commit`, `OnError`, again. The indexer
and the writers of its store meet only in the database.

## 2. Modules

| Module | Role |
|---|---|
| `SimFDB`, `MCSimFDB` | the simulator: handles, store, commit, faults, clock |
| `SimFDBProofs` | its type correctness and its safety theorems |
| `CommitFence`, `MCCommitFence`, `CommitFenceProofs` | the native commit path, its network and cluster |
| `GrvCache`, `MCGrvCache`, `GrvCacheProofs` | the shared read-version state, access by access |
| `VersionRegister` | what that cache promises, as one atomic register; `GrvCache` implements it |
| `GrvBatcher`, `MCGrvBatcher`, `GrvBatcherProofs` | a batcher of read-version requests and its timer |
| `TxnLifetime`, `MCTxnLifetime`, `TxnLifetimeProofs` | a shared handle and its incarnations |
| `TimeoutQueue`, `MCTimeoutQueue`, `TimeoutQueueProofs` | the delivery of timeouts: the default timers and the legacy queue |
| `OnlineIndexer`, `MCOnlineIndexer`, `OnlineIndexerProofs` | an index built beside writers |
| `RangeSet`, `MCRangeSet`, `RangeSetProofs` | the entries in which a build records what it has built |
| `PointSet` | what a range set promises; `RangeSet` implements it |

A component's module says in its head what an action is (which lock, which
atomic access, which transaction) and how its data is abstracted. The mutants
named in `PROJECT.json` stand next to the definitions they change.

### SimFDB

One action per method that takes `db.mu`. A handle belongs to one goroutine, so
its calls are atomic to each other; calls of different handles interleave.
`ensureReadVersion` takes the lock on its own before the call that needs it:
`GetReadVersion` followed by the call is that interleaving.

State: `store` (per key, its versions, `mvccStore`), `lastVersion`,
`recentWrites`, `closed`, `clock` (`dst.SimClock`), and `tx` (per handle the
fields of `simTxn`: buffer, read version, conflict sets, committed version,
cancelled, retries). The variables `observed`, `owed`, `unguarded` and `log`, and
the field `ahead` of a handle, record history for the properties; no action
reads them to decide anything. `SetReadVersion` takes any version at any time, as
the code does: `ahead` says that a pin was moved or put above the last commit.

Data. Keys are integers, a conflict range is the set of keys it covers, and the
buffer of a key is the composition of its mutations with the class
`ryw_conflict.go` gives it (none, independent, dependent, cleared). Values are integers
modulo `ValueMod`, so `Add` wraps as it does at its operand width. Commit is
the whole of `Commit` and `SimDB.commit`: early returns, size check, too-old
check, conflict loop, fault, version, mutations, history, `postCommitReset`.

### CommitFence

`Commit` captures what an attempt read and wrote and ships it once, with a
random self-conflict key on both sides if the two sets do not meet. When no
proxy is known, the dial or send fails, the connection breaks, the proxies
change, or the reply cannot be decoded, the outcome is unknown; `commitNative`
then commits a dummy transaction on a key of both sets (`Fence`, `Send`,
`ReceiveFence`) until one commits or the tenant is gone, and only then returns
1021 (or 1039). `NotSent` and `DummyNotSent` are failures before anything is
sent; `Abandon` is the end of the worker's context. `OnError` starts the next
attempt and carries the write conflicts of a maybe-committed one over as read
conflicts.

`W = {}` in `Commit` is a mutation that asked for no write conflict. A
transaction without mutations and write conflicts returns before the commit
path and is not an attempt here. A captured read version may be any one that
the cluster has handed out.

The cluster is external: `Commits`, `ResolverRefuses`, `ProxyRefuses`,
`TenantGone`, `Drop` and `DeleteTenant` say what the client relies on. A request
stays in `net` until it is processed or dropped, long after its answer was
given up, and requests are processed in any order. Two dummies of an attempt
with one key and one read version are one element of `net`; which of them is
processed makes no difference.

After `makeSelfConflicting` the early return of `commitDummyTransaction` for no write conflicts, and the
fallback of `intersectConflictRanges` for disjoint sets, cannot be reached from
`Commit` and are not modelled.

### GrvCache and VersionRegister

Every atomic load, store and compare-and-swap of `grvCache`, of the seen-version
stamp and of the proxy-set handoff is a step. A pointer is its value and an id
no other published value has, so a swap compares ids and ABA is excluded as it
is by Go's pointers. Publishers (GRVs and commits) dispatch with a token of the
fence word, are answered by a version of the cluster of that epoch, load,
merge and swap, over again when the swap fails, and then raise the stamp.
Invalidators bump the generation and swap a sentinel in, which keeps floor and
cooldowns. The monitor adopts coordinators, bumps both fences, resets entry and
stamp and publishes the proxies. A reader loads the entry and decides at a later
instant. `reported`, `throttled`, `atTick`, `born` and `retired` are history.

`VersionRegister` is what remains for a reader: version, its anchor and the
floor of the present cluster, with three atomic steps (observe, withdraw, change
clusters). The mapping shows an entry only if its epoch is that of the fence.

Left out: the contact time that paces the refresher, tag throttles, the
publications counter used by tests, and the wrap of the 32-bit generation (a
publisher would have to sleep through 2^32 invalidations).

### GrvBatcher

One action per critical section of `b.mu`, per send of an answer and per receive.
The queue, the in-flight count, the window and its deadline are `b`; the timer
may be a timerfd with a worker or a runtime timer, fail, expire early or late,
and be stopped while expiries are under way. A flush is one RPC and then one
send per request; a panic fails the rest. A channel that its caller gave up is
not pooled. Left out: the reuse of batch storage, spans, tags, and the
variants by request flags, each of which is a batcher of its own.

### TxnLifetime

One action is one critical section of `readErrMu`; `tx` is what it guards.
Operations capture an incarnation (`Admit`), hold a lease, and let go. Reset, a
retrying OnError and a completed commit own `resetMu` (`turn`) and turn the
handle over: claim, cancel the old incarnation, drain its leases, rebuild, open.
A commit's worker (`nat`) goes on after its caller was let go; it registers,
ships, is answered or fails, and publishes only into its own incarnation. The
public `Commit` is split as in the code: `PrepareCommit` gives the lease of the
admission back, and `Resolve` claims one anew or finds its incarnation gone; the
commit of `Database.Transact` keeps its lease throughout (`commitAdmitted`). A
caller may end in each wait, the backoff of OnError included (`CallerDone`).
Cancel, TIMEOUT and terminal errors fail an incarnation. `DeliverTimeout` is
what the timers or the queue hand over, of any arming that was popped. `state` is what
leases protect; `ghost` is history.

Left out: deferred reads and their error (`CommitRejected` stands for a commit
refused because of one), the self-conflicts that OnError carries over on
purpose, SetTimeout on a running transaction, the weak pointer and collection of
an abandoned handle, the dummy of `CommitFence`, and the reuse of
versionstamp completions.

### TimeoutQueue

`armTimeoutLocked` has two paths, and a process takes one of them throughout
(`design`, from `designTimeout` and `production`). One action per critical
section of a transaction's lock, an entry's, a shard's, the root's, or two of
them together; `lk` says where an arm is between two of them.

`Designed` is the default. Inside `Transact` (`scoped`) an arm takes an entry
from the pool, reads the time, and then locks the entry: `GetEntry`, `ArmEntry`.
It leaves the timer as it is if that comes in time (`MustReset`). Elsewhere the
transaction's own timer is set (`armDesignWeakTimer`). A timer that is due starts
a callback, which may run much later (`fired`), look at an entry that was pooled
or has a new owner, set its timer again, or go on to `fireTimeout` (`calls`).
`releaseTransactTimeout` gives the entry back and, with operations in flight,
moves the timeout to a timer of its own. A delay that was computed before the
wait for the entry's lock makes the timer that much late; `slip` records it, and
`NoLostWake` allows for it.

`Queued` is the shared queue. A heap is the set of its nodes. `Drain` is the
drainer: take the time and the frontier, pop what is due from every shard,
deliver by sequence number, leave the shards one by one and set their timers, go
round again if asked.

Left out: weak pointers and the collector, and the seams for tests. Whether
operations are in flight when `Transact` returns is a free choice.

### OnlineIndexer

Every operation is one optimistic transaction of the record store, in two
steps: the snapshot, which works out reads, effect and what the indexer does
next, and the commit, which is refused if a commit in between wrote what it
reads. Writers save and delete; the index's state decides whether an update is
applied, skipped, checked against the range set or queued (and a full queue
disables the index). An indexer prepares (policy, stamp, admission by the
heartbeats of others), builds ranges or claims and builds fragments, drains the
queue, publishes, and removes its heartbeat. Transactions are retried, commits
answered unknown and repeated, cleanups given up and applied late, attempts
fail, indexers crash, and the application may disable the index at any time.

Left out: several targets and source indexes, typed-record presets, unique
indexes and READABLE_UNIQUE_PENDING, blocked stamps and policies for them, the
actions MARK_READABLE and ERROR and `IfDisabled` other than rebuild, merges and
throttling, skewed clocks, legacy heartbeat keys, attempt limits, range deletes
in the queue, and updates across record types. Fragment boundaries are a
constant instead of the shard map; the range set is a set of keys here; a COUNT
is kept per record, finer than the stored sum.

### RangeSet and PointSet

`RangeSet` has the entries and sees them only through the two scans of the
code: the last entry at or before a key, and those that begin inside a range.
The two loops over such a scan, `FillWalk` and `GapWalk`, are recursive functions
of the point up to which the scan has come, so that they can be reasoned about.
`PointSet` is a set of points to which intervals are added, test-and-set or not.

## 3. Runs

| Run | Instance | Shows |
|---|---|---|
| `sim_serializable` | 2 handles, one without read-your-writes; 2 keys; limited ranges, atomics, clears; 2 versions, discarded 1021, 1 retry; no clock | `TypeOK`, `SerializableReads`, `SerialHistory`, `RetryIsolated` |
| `sim_clock` | 1 handle, all point calls, a clock up to 2, window 0, a retry limit, both branches of 1021 | `WindowRespected`, `CommittedIsDurable` |
| `sim_clock_ssi` | 2 handles, 1 key, a clock of one tick | the code does not do what a comment says (section 6) |
| `fence` | 1 handle, 2 keys, 2 attempts, 2 faults, fairness | `DefiniteAnswers`, `AttemptsInOrder`, `AnswerIsFinal`, `CommitReturns` |
| `grv_cache` | a getter, a committer, an invalidator, a reader; 1 throttled priority, 2 instants; a handoff to a cluster with lower versions; fairness | `SweptStaysRetired`, `BoundedStaleness`, `ThrottleObeyed`, refinement `ImplementsRegister`, `ReadYourCommits`, `ClusterScoped`, `Rewarmed` |
| `grv_invalidate_empty` | a getter, an invalidator, a reader, an empty cache | the code does not do what a comment says (section 6) |
| `life` | 3 goroutines with different calls, one makes the commit of `Database.Transact`; TIMEOUT set; fairness | `OneIncarnation`, `StaleNeverRetires`, `NoEarlyTimeout`, `TurnoverFinishes`, `FailedCommitReturns` |
| `batch` | 2 callers, 3 calls, batches of 2, window of 2; timer failure, close, giving up, panic; fairness | `InFlightCounts`, `NoStranded`, `OwnReply`, `EveryoneAnswered` |
| `queue` | both paths; 2 transactions, inside `Transact` or not, with 2 pooled entries, or in 2 shards; 3 arms, 2 ticks | `NoLostWake`, `NeverBeforeDeadline`; on the queue `ArmsInOrder` |
| `range_set` | all inserts and clears over 7 points | `LookupExact`, `MissingExact`, refinement `ImplementsPointSet` |
| `index_sessions` | VALUE index with and without a queue of 1; an exclusive indexer that rebuilds and a mutual one that may fall back; writer; disable, failure, unknown commits, late cleanups | `ReadableAgrees`, `ExclusiveAlone`, `NoResetUnderLive`, `BeatSurvives` |
| `index_live` | COUNT index, 3 keys in 2 fragments, 2 mutual indexers that may crash, a writer, fairness | `BuiltAgrees`, `SuccessIsReadable`, `BuildEnds`, `SurvivorFinishes` |

Bounds. Every constant `Max...` bounds a counter that is unbounded in the code;
the theorems hold for all their values. A lost update needs two handles, a key and two
commits; write skew two keys; a window of zero versions is passed by one commit. The fence fails, if it does,
with one lost request, one dummy that is refused and one that commits: two
faults and two attempts allow that. A stale swap
needs a publisher and an invalidator or a second publisher between its load and
its swap; `MCBound` keeps two replies under way at a time, and one once a
throttle came or an invalidation met a moving clock; a handoff meets neither a
throttle nor a later instant, and readers of the two priorities are told apart
likewise. The bound can only take behaviours away from `Rewarmed`. A lease can be missed by a turnover with two goroutines; the third is
there so that a stale completion meets a successor in use. A stale reply
needs a channel that two calls share, hence three calls of two callers on two
channels. A wake is lost, if at all, between a lazy arm or a callback and a drainer
that leaves the shard; order across shards needs two. An entry that changes hands
needs two transactions, an arm that finds the timer set two arms of one, and a
timer that is too late for it two ticks. Seven points have room for
three ranges with gaps around and between them. A heartbeat race needs two
indexers and one tick of a lease of one.

Some cases are outside these instances and rest on the theorems: in
`index_live` there is no queue, no unknown commit and no VALUE index, in
`index_sessions` no crash and no COUNT index. Some are in no run and no theorem:
two handles that fence one key at a time (`fence` has one, and liveness is not
proved), answers to causal-read-risky requests, whose watches a late cleanup
of an old incarnation resolves (`transaction.go:2576`), and whether the future
of a versionstamp agrees with its commit.

Symmetry is used for the pooled entries of `queue`, which are only compared.

Deadlock is checked except where a system may stop: a handle whose attempts are
used up (`fence`), arms used up (`queue`), calls used up (`index_`).

Fairness.
- `fence`: weak fairness on a handle's own steps (`Progress`) and on
  `Processing`: goroutines run, the backoff is finite, the cluster processes
  what it is sent. Faults, context errors and refusals have none; `MaxFaults`
  ends them, so `CommitReturns` is what the unlimited loop of
  `commitDummyTransaction` promises once faults are over.
- `grv_cache`: weak fairness on the steps of goroutines and on the
  refresher's dispatch, strong on the answer to a GRV, because
  `sendGRVRequest` goes round the proxies until one answers.
- `life`: weak fairness on the handle's own steps only. Replies, callers and the
  clock have none: a turnover must end although the network never answers.
- `batch`: time passes, timers fire, goroutines run and each RPC ends, by its
  answer, its context or `Close`. Nobody has to ask, give up or close.
- `index_live`: weak fairness, per indexer, on its work, its commit and its
  retry together. Writers, calls, the clock and crashes have none.

## 4. Proofs

The theorems hold for every set of goroutines, handles, keys and builders, every
bound and every set of faults, under the named assumptions of the modules
(`ConstantsAssumption`, `BoundsAssumption`, `StartAssumption`,
`PriosAssumption`), which TLC evaluates on the runs. Each invariance proof is
one step per action of the inductive invariants below. An invariant
was checked by TLC on the run's instance before it was proved.

`SimFDBProofs`. `TypeOK` is inductive; lemmas give the type of what each operator
returns (`TypeCorrect`). `Inv` adds to the types that no stored version, write record
or log entry is above `lastVersion` (`VersionsBounded`), that the composed
mutations of a buffered key agree with its class (`BuffersGood`: an independent
or cleared key does not depend on the stored value), and that what a retry owes
is still among its read conflicts (`OwedGuarded`). A commit at a version above
all others leaves every older snapshot alone, which gives `SerialHistory`;
`RetryIsolated` follows from the conflict loop over the promoted ranges,
`WindowRespected` from the too-old check. `SerializableReads` is proved for
every clock and every use of `SetReadVersion`, of the commits whose snapshot was
pinned once and not above the last commit of that moment (`~ahead`); without a
clock and without `SetReadVersion` these are all commits. `SnapshotInv`: the read
version of such a handle is never above `lastVersion` (`SnapshotPinned`), every
stored version is announced in `recentWrites` or was written without a conflict
range (`VersionsAnnounced`), and what the handle learned is among its read
conflicts and still true of its snapshot (`ObservedGuarded`). For the others it
is false: a read version taken from the clock can equal the version of a later
commit, which the conflict loop (`conflict.go:186`) then takes for one that was
seen. That is the run `sim_clock_ssi`.
`CommittedIsDurable` says of every step that it keeps a handle's report, takes it
away, or reports a commit that the same step applied and answered (`Reports`).

`CommitFenceProofs`. `FenceInv` is needed because `AnswerIsFinal` says nothing about
requests under way. Its core: a handle works on its captured request or on a
dummy that writes one of its read keys (`Captured`); what is under way of an
attempt is that request, sent once (`UnderWay`); when a dummy is answered
"committed" the captured request, if still under way, is doomed (`Replied`),
because the dummy wrote a key it read at a version above its read version
(`Bounded`); so a request whose attempt has a final answer is doomed
(`FinalDoomed`), and stays doomed, since versions of keys only grow and the
tenant does not come back. A doomed request does not commit, which is
`AnswerIsFinal`; `AttemptsInOrder` follows because a retry starts only after a
final answer (`Chronicle`).

`GrvCacheProofs`. The properties speak of what a reader was served; a swap that
is about to happen is decided by values loaded long before. `Older` says what a
loaded entry tells about the present one: equal ids, equal entries; within an
epoch floor and cooldowns never fall. `Fenced` says that tokens and loaded fences
are past values of the one fence word, and that at a swap they are in order.
From these: the floor holds what the commits of the current cluster reported
(`Floored`, hence `ReadYourCommits`), the cooldowns what its replies throttled
(`Cooled`, hence `ThrottleObeyed`), versions belong to the cluster of their epoch
(`Scoped`, hence `ClusterScoped`), a swap that can still succeed was asked
for after the last sentinel (`Swept`, hence `SweptStaysRetired`), and an entry's
version is as fresh as it says, although the two may come from different
replies (`Timely`, hence `BoundedStaleness`). `Handoff` orders the monitor's
steps. `ImplementsRegisterHolds` maps every step to one of `VersionRegister` or to a stutter.

`TxnLifetimeProofs`. Leases are counted by their holders and all are on one
incarnation, the one in use or the one being retired (`Counted`), so a turnover
that has drained finds nobody inside, and what the handle holds is of that
incarnation (`Contained`, hence `OneIncarnation`). `Owned` says who is inside `resetMu`,
`Phased` that admission is closed exactly meanwhile; with `Worked`, a worker is of
its caller's incarnation, a claim is of the incarnation that is current
(`StaleNeverRetires`). `Timed`: a popped delivery of the present arming was
taken after the deadline (`NoEarlyTimeout`). `Budget` counts the
calls that may still turn the handle over, so that the generations of the types
are enough. `Shaped` ties a goroutine's place to its lease.

`GrvBatcherProofs`. A request is in one place: in the queue, or unsent in one
batch (`Placed`, `Distinct`, `Made`). A channel is used by the pool, by one caller
or by the one request to be answered on it, which is that caller's unless it
gave up (`Channels`): hence `OwnReply`. `Counted` gives `InFlightCounts`;
`NoStranded` is inductive with `Windowed`: an armed window has a queue, and a full
queue leaves at once.

`TimeoutQueueProofs`. `PathInv` is the invariant of the path that is taken.
On the queue (`QueueInv`): a request of a shard is behind its timer or a started
callback, and covers the heap unless a drainer is bound to come by (`Asked`); a
node's physical wake is a lower bound of the wanted one (`Lower`); out of its
heap, an armed timeout is in the drainer's hand, in the ready set or handed over
(`Found`, `Matched`). For `ArmsInOrder`, what a cohort left in a shard it has been
through was not due or came later (`Settled`). `Phased` has the single drainer.
What it fires was due at the time of its cohort or has been armed again
(`Fired`). With timers (`DesignInv`): an entry is in one hand (`Alone`), inside
`Transact` only (`Held`); behind its `nextFire` there is a set timer or a started
callback, and it is armed for its owner, for the present arm with the deadline
asked for (`Owned`); a callback of the present arm comes after that deadline
(`Called`, hence `NeverBeforeDeadline`); and an armed transaction is in `calls`, or
`nextFire`, or its own timer, is no later than asked (`Armed`). The two together
are `NoLostWake`.

`OnlineIndexerProofs`. What a session relies on was read in one transaction and
is used in the next, so the invariant is about what open transactions may still
believe: a transaction that renews a heartbeat has state, stamp and, where
it must be alone, all heartbeats among its reads, and believes what it read
until a commit conflicts with it (`Renews`); any other neither beats nor
changes the state, except to end the build, and removes only its own
heartbeat, from outside a session (`Leaves`). A live heartbeat is of a session of the
stamped method (`Methodical`), stamp and heartbeats are of the build there is
(`Stamped`), and a cleanup on its way belongs to an attempt that is over
(`Over`). Hence `ExclusiveAlone`, `NoResetUnderLive` and `BeatSurvives`.

The data of the index has an invariant of its own, `DataInv`, because
`BuiltAgrees` and `ReadableAgrees` say nothing of transactions under way. Its part
on the store (`StoreInv`): the last queued update that touches an entry leaves it
as the record is (`Pending`); where the index is readable or the range set says
built, an entry is right unless a queued update will still set it (`Exact`);
elsewhere it is not too large (VALUE) or zero (COUNT) (`Early`); a queue that is
not empty belongs to the state that has one. Its part on open transactions
(`Beliefs`): each is one of six kinds, and as long as it can still commit, what
it read is still so. A write of a record (`Saves`) has the record, the state and,
for a COUNT under construction, the range of its record; a chunk (`Indexes`) the
range it will call built and every record it scanned; a drain (`Drains`) the head of the
queue; `Publishes`, `Restarts` and `Tidies` the state they leave. A record of an
idempotent chunk that was not scanned is right already. `DataCommit` shows that a commit of each
kind restores `StoreInv`, `BelievesStill` that it leaves alone the beliefs of
every transaction it does not conflict with. What a replay of any length does to
one entry is decided by the last update that touches it (`UpdateAllSets`,
`UpdateAllKeeps`).

`SuccessIsReadableHolds` has the hypothesis `NothingResets`: no policy rebuilds a
readable index and the application does not disable it. Without it the property
is not meant: the next build, or the application, takes the index back. It is the
instance of `index_live`. `SuccessInv`: a transaction that would take the index out of
its state has read it and saw that it is not readable (`Guarded`), so it cannot commit after a
publication; one that will report success finds the index readable or makes it so
(`Promises`).

`IndexerTypeCorrect` follows from both invariants; `Clocked` adds that heartbeats are
of times that have been.

`RangeSetProofs`. The invariant is that entries are not empty and do not overlap
(`EntriesDisjoint`). Each loop has an invariant along the points its scan has
passed: after the walk of `InsertRange` the covered points are the old ones and
those of the range it has passed (`Filled`), after that of `MissingRanges` the
list has exactly the maximal gaps that end before the cursor (`Listed`). Hence
`Lookups`, `SearchesExact` and the refinement of `PointSet`
(`EntriesImplementPoints`).

Induction. The library's induction theorems take an operator. Here a set takes its
place: that of the points of an interval at which the claim holds.
`IntervalInduction` says that it is the whole interval if it has the first point
and with a point the next (from the well-order of the naturals, `WFMin`), and
`WalkExists` that a step function can be iterated along an interval, which gives
the recursive functions their values.

Only model-checked.
- Liveness (`CommitReturns`, `Rewarmed`, `TurnoverFinishes`,
  `FailedCommitReturns`, `EveryoneAnswered`, `BuildEnds`, `SurvivorFinishes`):
  fairness and `ENABLED` are out of the prover's reach.

Every invariant and action property of the passing runs, and both refinements, are
theorems. No module declares a RECURSIVE operator.

## 5. What is left out

- Versionstamped mutations, watches, key selectors, the `Transact` loop, tenants
  and size accounting beyond "too large" in the simulator.
- In the commit path: the read-only fast path, the versionstamp promise, the
  conflicting-key report's contents, operand buffers, metrics and spans.
- In the other modules, what section 2 says of each.
- The remaining components, with the reason for each, in `PROJECT.json`: the
  read path, transport, wire codec, planner, relational layer, r-tree and tools.

## 6. Where the code and its comments disagree

`grv_invalidate_empty`: `invalidate` returns at once when it loads a nil entry.
A GRV that had loaded nil and the old generation before the bump still
swaps its version in and it is served, although the comment at `grv.go:504`
says that no version obtained before the call is served afterwards. Once the
cache was ever filled the sentinel makes that swap fail: `SweptStaysRetired`.

`sim_clock_ssi`: the comments at `conflict.go:119` and `conflict.go:181-184` say
that a commit is resolved under serializable snapshot isolation and that commit
versions are larger than the read versions of before. With a logical clock ahead of the
last commit a reader is pinned at the clock, and a commit of another handle may
then take that very version: the conflict loop skips it, and the reader commits on
a value that was overwritten after it read it.

## 7. Plan

1. `SimTransact` (`simfdb.go`): the retry loop over `SimFDB`, and an abstract
   serializable store that `SimFDB` without a clock implements.
2. `StoreStateCache` (`store_state_cache.go`): cached headers against the
   metadata version stamp.
3. `Connection` (`transport/conn.go`): reply promises against teardown.
4. Builds that `OnlineIndexer` leaves out: from a source index, of unique indexes,
   of several targets; then the data invariant extended to them.
