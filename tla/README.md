# Warden: a TLA+ verification project

Warden is a filtering DNS server for a home or small office network: a daemon
that answers queries under per-device profiles, an operator interface (CLI, TUI,
a Unix-socket IPC and a REST API) that edits the policy tree on disk, and an
optional cluster that copies policy to other nodes. This project models the
parts of it whose correctness depends on what happens between two steps: the
crash-safe policy transaction, the pipeline that brings a configuration write
into the running daemon, the query path with its cache under a reload, the
decision that allows or blocks a name, the list manager with its cache directory,
the lock-free circuit breaker in front of an upstream, and the way a primary's
policy reaches a node of the cluster. Paths below are relative to the repository's
`src/`.

## Modules

| module | models | checked by | proved in |
|---|---|---|---|
| `PolicyTransaction` | `config/policy_transaction.rs`, `config/atomic_write/anonymous.rs` | `policy_*` | `PolicyTransactionProofs` |
| `AtomicPolicy` | the promise of a policy transaction (abstract specification) | `RefinesAtomic` in `policy_safety`, `policy_two` | `PolicyTransactionProofs` |
| `ReloadPipeline` | `ipc/reload_coalescer.rs`, the reload paths of `ipc/socket_server.rs`, `api/handlers.rs`, `api/operator_rule_jobs.rs`, `signal_loop` and teardown in `cli/commands/start.rs` | `reload` | `ReloadPipelineProofs` |
| `CircuitBreaker` | `upstream/circuit.rs` | `breaker` | `AnswerPathProofs` |
| `QueryPath` | `dns/handler.rs`, `dns/cache.rs`, `upstream/reloadable.rs`, `tracking/prefetch_worker.rs`, `install_runtime_reload` in `cli/commands/start.rs` | `query_path` | `QueryPathProofs` |
| `OperatorRules` | `filter/operator_rules/compiler.rs`, `decision.rs` | `operator_rules` | `OperatorRulesProofs` |
| `CnameWalk` | `filter/cname.rs` | `cname_walk` | `AnswerPathProofs` |
| `ListController` | the controller and refresh worker of `lists/manager.rs`, `lists/cancellation.rs` | `list_controller` | `ListControllerProofs` |
| `ListCache` | the cache directory of `lists/manager.rs` | `list_cache*` | `ListCacheProofs` |
| `ClusterReplication` | `cluster/publication.rs`, `publisher.rs`, `publication_proof.rs`, `state.rs`, `poll.rs`, `artifact_apply.rs`, `ledger.rs`, `acknowledgement.rs`, the operator batch of `operator_rules/service.rs` | `cluster` | `ClusterReplicationProofs` |
| `MC*` | instances for TLC | | |

How they fit together. `QueryPath` treats two things as one test: whether a policy
refuses a name (`BlocksTarget`) and whether it refuses anything a response holds
(`BlocksAny`). `OperatorRules` is how the first test is made, `CnameWalk` how the
second one is. `ReloadPipeline` ends where `handle_reload` captures the tree;
`QueryPath` takes up its installation of upstream, filter and cache, and
`ListController` the rebind or replacement of the list manager. `ListCache` is
what happens between `WorkerCommits` and `WorkerPublishes` of `ListController`.
`ClusterReplication` takes a policy transaction for what `AtomicPolicy` says of it,
on the primary and on the node: it takes place at once or not at all, and the next
recovery decides an interrupted one.

## Inventory of the system

**Policy transaction** (`config/policy_transaction.rs`, about 5000 lines of
code). State: the members of the policy tree; a hidden *fence* directory with one
journal while a transaction is open; hidden staging names next to each member; an
*undo* directory per finished request; a receipt ledger in the data directory.
Operations: prepare, commit, recover, rollback, finalize, lookup, completion of a
receipt, expiry. Every caller holds the tree's exclusive write lock and runs
recovery first, so the concurrency is with editors that take no lock and with
crashes. Correct when: a journal left on disk can always be decoded and finished;
a change is all or nothing, decided once, and undone at most once; a foreign edit
is never overwritten; no hidden file is leaked; pending records get decided.

**Reload pipeline.** State: a counter, uid slot, notify permit and liveness flag
in the coalescer; a reload channel of capacity one and an activation queue of
32; a pending SIGHUP; the signal loop and the published policy. Five kinds of
caller write the tree and ask for a reload through four routes. Correct when no
acknowledged write misses a reload, no wakeup is lost, activation answers are
true, and every job waiting on an answer gets one, shutdown included.

**Circuit breaker.** State: failure count, state word and opening time, three
atomics written by every query task. Correct when a half-open circuit always has
an owner, the count cannot creep to a wrap-around, and the circuit of a healthy
upstream closes again whatever mix the races left.

**Upstream resolver, generations, transports** (`upstream/`). An `ArcSwap` of an
immutable generation and an atomic with its id, written one after the other;
queries hold the generation they started with. Hard: an answer of an old
generation arriving after a swap.

**DNS handler and cache** (`dns/`). One cache for all profiles, entries stamped
with the upstream generation, single-flight fetches, serve-stale, prefetch. Hard:
insertion after an invalidation, an entry another profile fetched, a failed
fetch that falls back on an expired entry. Correct when a client is never handed what
its own policy blocks, and no answer of a replaced upstream outlives the reload.

**Filter engine, profiles, schedules** (`filter/`, `profiles/`). An immutable
policy snapshot; an index of operator rules closed over ancestors when it is
compiled; tiers of precedence; the walk along a response's CNAME records;
schedule windows. Correct when index and walk decide what matching every rule and
following every record would.

**List manager** (`lists/`). A controller task that lends the manager to one
refresh worker at a time, a command channel, cancellation, rebinds in two phases,
a retirement, a cycle counter; a cache directory with manifests, bodies and a
rollback journal. Hard: requests that meet a refresh in flight, a cancellation
that races the commit, a crash in the middle of several manifests. Correct when a
cancelled refresh changed nothing, callers are answered with what is newer than
their question, and a crash leaves one corpus that was admitted as a whole.

**handle_reload** (`cli/commands/start.rs`, about 1000 lines). Gates, then the
installation of filter, profiles, upstream, lists, ACL, tokens, audit record.
Property: a rejected reload changes nothing.

**Cluster** (`cluster/`, 35 000 lines). On the primary a publication store (epochs,
a clock watermark, a record per artifact, immutable files), the advertised artifact
and what each node acknowledged; on a node a ledger of what it owns, an ownership
intent, its own policy transaction; besides that corpora, membership, pairing and
managed restart. A batch of the operator writes three stores one after the other
(reservation, policy tree, publication); a node writes three (intent, tree, ledger).
Hard: a stop between any two of them, a save by hand in between, artifacts collected
while they are fetched. Correct when only real policies are published, epochs reach
a node in order, what was promised can be fetched, the reported convergence is true,
and nodes do converge.

**Operator rules** (`operator_rules/`, `api/operator_rule_jobs.rs`). A supervisor
with plans and jobs; commit is a policy transaction, activation goes through the
reload pipeline.

**Locks, lease, tree I/O** (`config/write_lock.rs`, `runtime_lease.rs`,
`tree_io.rs`); **migration and relocation** (`config/migration*`,
`relocate_receipt.rs`); **security layer** (`security/`, shared windows and
bounded maps); **tracking** (`tracking/`, log ring, prefetch pool, query log).

**Loader, schema, validator, DNSSEC, protocol, REST surface, CLI, TUI, OUI.**
Text, cryptography, I/O and user interface: not modelled.

How they interact: an operator command (IPC, REST, CLI, job) plans a change, runs
it as a policy transaction under the write lock, and asks for a reload; the signal
loop captures the tree under the read lock, validates it, and publishes immutable
snapshots that query tasks load; query tasks go through security, filter, cache
and, on a miss, the breaker. The cluster publisher reads the same tree, and nodes
apply what they poll through the same transaction.

## PolicyTransaction

A member is a content (a model value) and an inode number; inode numbers are
handed out lowest-free-first, so that they are reused as early as a file system
could. `fwd` and `rbk` are the hidden forward stage and rollback copy of each
member, `jr` the journal in the fence, `undo` and `receipts` the two stores that
outlive it. `fence` is `none`, `stage` (under its temporary name), `bare`
(published, no journal yet) or `journal`.

The caller is one process: the write lock admits one, and the program counter is
a step between two durable effects of the code: each `write_journal`, link,
rename, unlink and ledger write is an action, in the code's order. `mem` is the
in-memory journal, which differs from `jr` after a failed write: `commit()` goes
on with it into its error path. `run` tells which entry point is executing the
shared helpers, because `commit()` answers an error with a DurabilityUncertain
receipt while recovery and rollback return it.

- `Crash`: the process dies at any step, or an operation other than `commit()`
  fails on I/O; the lock is released, the copy is lost.
- `IoError` and the failing branch of `WriteJournal`: an operation of `commit()`
  fails and its error path runs (`CleanStaging`, `FailJournal`, `FailReceipt`).
- `Edit`: an editor saves a member under a new inode, at any step in `EditPoints`.
- `Age`: a settled receipt passes its retention and may be expired by `Admit`.

Properties. `JournalsDecode`: any journal, record and undo a crash can leave pass
`decode` and `validate_journal_receipt`. `OnlyEditsConflict`: recovery answers
RecoveryConflict only when somebody did edit a member, so reused inodes and the
program's own stages are never mistaken for drift. `NoOrphans`: without a fence
no hidden staging name is left. `EditsSurvive`: no step but the editor's own
changes a member saved by hand since the transaction captured the tree.
`RefinesAtomic`: the whole implements `AtomicPolicy`, where commit and rollback
are single steps on the whole tree against the tree the plan was made for; the
mapping reads the policy off the journal's phase while a fence is up.
`FenceClears` and `PendingResolves`: recovery terminates and decides, unless a
member was edited, when it refuses by design until the operator resolves it.

## ReloadPipeline

The configuration tree is a version number; a caller writes, then asks. `request()`
and the worker are split at each access of a shared cell (`CheckAlive`,
`AddPending`, `StoreUid`, `NotifyWorker`; `Wake`, `Drain`, `TakeUid`,
`WorkerSend`). REST handlers wait for room in the channel, mutation handlers use
`try_send` and count a full channel as success, jobs queue an activation and wait
without a timeout. `signal_loop` takes any ready source, `CapturePolicy` is the
moment `handle_reload` reads the tree, `FinishReload` its three ways to return.
After the loop, `RetireActivations` and `DropReceiver` are the teardown.

## CircuitBreaker

Each load, store, fetch_add and compare_exchange is an action; a clock reading is
kept as its age, saturating at the probe interval, which is all `should_probe`
can tell apart. The model interleaves atomics sequentially consistently; the two
relaxed loads of `record_success` may return older values, which is the same as
taking them earlier. Lookups are assumed to run to completion: no caller in the
repository wraps one in a timeout or a select, the transports bound themselves.

## QueryPath

A response is the generation that produced it and the set of names and addresses
it carries; a profile is what a request holds from its start: rules that deny or
allow a name, whether the lists apply, a rewrite. `listed` is what the installed
lists block; it is read afresh at each evaluation, while `since` remembers, for
the properties only, what was listed during the whole request.

`Arrive`, `AnswerLocally`, `Decide`, `RewriteName`, `Probe`,
`Recheck`, `Miss`, `Join`, `FetchOk`, `FetchErr`, `Check`, `Drop`, `Failed` and
`Send` are the awaits and shared accesses of `handle_inner` and
`fetch_with_keyed_state` in their order. `Join` makes the first query of a key the
leader, and everyone who waits gets the leader's result, an error too: that is what
moka's `try_get_with` guarantees, taken as given here.
`Check` is the comparison with `current_generation` after the insertion, `Drop`
the invalidation it leads to. `Tick` and the `Task*` actions are the prefetch
worker and its tasks. `InstallStore`, `InstallPublish` and `InstallClear` are the
three steps of a reload: the generation, its id, the clearing of the cache.
`InstallLists` is a store of other lists, `Age` the end of a TTL.

`OldAnswersDoomed`: once the cache has been cleared, an entry of a replaced
upstream is in it only while somebody is about to remove it, although insertion
and check are two steps and another query may hit the entry in between.
`ServedIsUnblocked`: hit, prefetched, stale, rewritten or fetched for somebody
else, nothing is sent that the client's own policy blocked throughout the request.

## OperatorRules

Names are points of a tree (`Up[d]` is a name and its suffixes), a rule is known
by its token. `Index` and `Close` are the two passes of `compile()`: the exact
rules and apex wildcards go into an index of one slot per tier, and each entry is
then completed with the best slot of its ancestors, so that a lookup reads only
the nearest entry. `Lookup`, `Scan`, `Decide` are `lookup` over the index and the
advanced rules, with its early end, and the reduction with the inherited grant,
block-all and the lists' match.

`LookupFindsBest` compares the winner with matching each rule against the name;
`VerdictByTiers` compares the verdict with the order of the tiers, grants
included.

## CnameWalk

The input is any set of CNAME records, several of one owner and loops included.
`Start` is the part of `walk_response_with_rewrite` before its loop, `Hop` one
turn: malformed target, loop, depth, refusal, next record.
`AllowedLeadsNowhereBad`: when the walk allows, every name reachable from the
question is allowed and well formed, there is no loop and no ambiguity, and the
chain is within the depth. `RefusedForCause`: what it says against a response is
true of it.

## ListController

The controller, the worker on its own thread, and clients with a reserved permit
of the channel. `Take` is a command received in the loop, joined to the refresh in
flight or queued (`accept_while_active`); `Dispatch` starts the next queued work;
`Deadline` is the periodic refresh; `Prepared`, `RebindDecided`, `RebindCommitted`
and `AcceptInRebind` are the awaits of `run_policy_rebind`; `BeginRetiring` and
`Joined`, `Completed`, `WasCancelled`, `WorkerLost` the ends of a refresh. The
worker's `begin_commit` and the controller's cancellation meet in one
compare-exchange (`phase`). `RejectReload` advances the cycle counter without a
refresh, `WorkerPanics` and `RebindPanics` are panics.

`CancelledLeavesCorpus`, `CompletedIsNotCancelled`: the compare-exchange decides
once. `RebindBarrier`: no refresh publishes between preparation and commit of a
rebind. `RetiredIsQuiet`, `NobodyStranded`, `Retires`, `Settles`: retirement ends,
leaves no worker behind and no caller without an answer. `AnsweredAfterwards`,
`ForgetsComeFirst`: a refresh is answered with a snapshot newer than the request,
and never one begun before a forget that was already acknowledged.

## ListCache

`disk` is the directory as the process sees it; `maybe` says for each entry what a
power loss may leave: everything it was since the directory was last synced. Every
operation may fail, with or without its effect, and the process may be replaced
(`Restart`) or the machine stop (`Crash`) anywhere. `StartCycle`, `Stage`,
`Revalidate`, `KeepBody`, `Admit` stage bodies; `WriteJournal`, `WriteManifest`,
`RemoveJournal`, `Confirm` are `commit_cache_admissions_transaction`; `Recover`,
`Restore`, `RestoreSynced`, `RestoreUnlinks`, `RestoreEnds` its recovery;
`Collect`, `Discard`, `Cleanup` and forgetting reclaim bodies.

`CorpusIsWhole`: after recovery from any stop the manifests select one corpus that
was admitted as a whole. `ReclaimsOnlyDead`: a cycle reclaims no body that a
recovery could still select. Its one exception is stated in it: `Discard` runs over
the bodies the cycle staged and spares the one its manifest selects, but a manifest
that cannot be read counts as selecting nothing, so with a failed read the selected
body goes too. In the failing branch of `Discard` any manifests may be unreadable,
any of the bodies may stay (the identity check or the removal fails), and the
directory may be left unsynced. `CorpusIsWhole` speaks of the manifests and holds in
any case.

## ClusterReplication

One primary and one node. A policy tree is its revision, with a `stamp` that changes
with every write, which is what a preparation proof compares; an artifact is its
epoch and revision, and the files of the store are the manifests and objects by
name. Revisions may share objects.

`Reserve`, `Allocate`, `WriteFiles`, `RecordIntent`, `Prepare`, `Commit` and
`Finalize` are the durable writes of an operator batch under the write lock:
recovery and collection, the epoch spent, the files, the record bound to its
request, the transaction, the commit of the record. `BatchRecovers` and `BatchStuck`
are its error paths, `Access` the recovery before any use of the service, `JobFails`
an error that leaves what was written. `Capture`, `PreparePolicy`, (`Allocate`,
`WriteFiles`,) `RecordCapture`, `Collect`, `PublishActive` and `InstallPolicy` are a
reload: the tree is captured before the lock is taken, published unless the newest
committed artifact is the same policy, and advertised after the resolver runs it.
`Start` recovers transaction and intents and goes on as a reload; `Save` is a save by
someone who does not use the service.

`Look`, `Ask`, `Heartbeat`, `DeliverManifest`, `DeliverObject`, `Unavailable`,
`Begin`, `PrepareApply`, `CommitApply`, `Complete` and `Activate` are a poll of the
node: it looks at its resolver without a lock, settles its own intent under the lock
and says what it owns and whether the resolver it saw runs it, then fetches, applies,
writes its ledger and asks for a reload, waiting for room in the channel. The node's
reload is `NodeCapture` and, any time later, `NodeSwap` or `NodeReloadFails`; polls go
on in between, so a swap may install a tree that is older than the ledger. `stale`
remembers, for the properties only, which statement of the node (the poll under way,
the acknowledgement the primary holds) is about a resolver that was replaced by one of
another revision. `NodeRestart`, `PollFails`, `ReloadFails` and `Crash` are the rest.
Both clocks may read any time at any step: the store keeps its watermark, and the node
refuses a manifest whose availability has passed by its own clock.

`NodeNeverAhead`: what is advertised is what the node owns or newer; otherwise the
node would refuse it for good. `PublishedWasPolicy`: only policies the primary's tree
has had are committed or reach a node. `PromiseKept`: a delivered manifest stays
complete as long as the node was told. `ConvergedTruthful`: when convergence is
reported the node owns and has on disk what is advertised, and its resolver runs it,
or did when it was acknowledged: a reload that captured an older tree may have
replaced it since, and then, unless something failed, another reload is asked for or
has captured the right tree. `Converges`: under the fairness below the node ends up
with the advertised artifact on disk and in its resolver for good, and without faults
and saves by hand that is the tree on the primary's disk.

What the model shows about the limits of the design, and `Converges` excepts: an
intent without a receipt whose tree was saved by hand before its transaction began
can never be retired, so the service and the next start keep failing until somebody
steps in (`BatchStuck`, `Stuck`); and an advertised artifact may be collected when
reloads keep failing while two newer ones are committed and its availability passes.
A reload that meets an undecided intent for its own policy is refused and comes back
with the next request.

## Runs

| run | instance | shows |
|---|---|---|
| `policy_safety` | 3 members (one created, one deleted, one replaced), 1 request, 3 faults, 1 edit at any step but between check and rename of a restore, fair; 263 000 states | no orphans, edits survive, only edits conflict, the refinement, `FenceClears`, `PendingResolves` |
| `policy_two` | 2 members, 2 overlapping requests, ledger of 2, 1 fault; 3.3 million states | journals decode, stale plans are refused, expiry order is safe |
| `policy_ledger` | as `policy_safety`, one property | contradicts a comment, see below |
| `reload` | 2 IPC clients, REST, mutation handler, 2 jobs, SIGHUP, 2 writes, fair; 16 500 states | no write or wakeup lost, true answers, everything accepted attempted, every job answered |
| `breaker` | 2 queries, threshold 1, interval 2, fair; 23 000 states | ownership, bound, `Recovers`, `Trips` |
| `query_path` | 2 queries, 1 prefetch task, 3 names, 1 address, 3 profiles, 2 generations; 4.6 million states | the cache under reloads and other profiles |
| `operator_rules` | com, a.com, x.a.com, b.com; every 3 out of 18 rules; 1.4 million states | index and verdict against their reference definitions |
| `cname_walk` | every set of at most 3 records over 4 names, depths 0, 1, 3 with a cap of 2; 2.3 million states | the walk against reachability |
| `list_controller` | 3 requests of every kind that matters, 2 shards, 1 deadline, 1 rejected reload, 1 panic, fair; 520 000 states | the controller's nine properties |
| `list_cache` | 2 sources, 2 contents, 2 cycles, 2 faults, 2 stops, 1 forget; 2.3 million states | the corpus under crashes |
| `cluster` | 1 request that may be retried until it has a receipt, 2 policies that share an object, clocks 0..1, 2 faults or stops of either side, 1 save by hand, fair; 1.1 million states | replication under stops, retries, saves and clock jumps |
| `list_cache_uncertain` | 1 cycle, no failing operation, 1 stop | contradicts a comment, see below |

Why the bounds are enough. Three members give each operation and an order among
them; members do not interact except through phases. Three faults let recovery
itself be interrupted twice, and more faults only repeat recovery from states
already reached. Two requests give each order of plan, commit, rollback and
expiry. In the pipeline two IPC clients are what it takes to put one request on
each side of a drain, two versions what it takes to have a write during a reload
of the previous one. Two queries are a probe and a late answer, a leader and a
follower, or a fetch and a hit of what it inserted; two generations one reload,
and an entry of generation one is as old as any. The three profiles are one that
takes the lists, one whose allow rule grants an alias and an address that are listed,
and one that rewrites to a name it denies. Three
rules are an ancestor, a descendant and an advanced rule that competes. The cap
of two makes chains that reach, meet and exceed it. Two cycles and two stops are a
replaced corpus and a crash during the recovery of a crash. In the cluster, two
faults are a stop and another one during what repairs it, two policies what it takes
to publish a third artifact of the first one's policy, and an availability of one
with clocks of two readings lets promises run out, the clock go back and the node's
clock run ahead. No batch
reserves after epoch `LastBatch`; `MaxEpoch` is only the size of the table, and no
run of this instance reaches it. All that the passing runs check except liveness is
also proved for all sizes (below).

Deadlock is checked for the transaction, the breaker, the query path and the
operator rules. In the other runs the system rightly stops: in the pipeline with
all writes made and served or the daemon torn down, in the walk when it has its
verdict, in the controller when it has retired, in the cache when the bounds are
spent, in the cluster when the primary cannot start because of a stuck intent. That nobody waits who should not is what the liveness properties say.

## Fairness

`ReloadPipeline`: weak fairness for every task that is ready (tokio polls them);
strong fairness for the senders waiting on the channel (waiters are served in
order) and for each branch of `select!` (chosen at random among the ready ones).
No write, signal or shutdown is ever forced. `PolicyTransaction`: the process that
holds the lock runs, and after a crash somebody calls an entry point again
(`recover_policy_transaction_before_load` at boot, any later command). Faults are
bounded; the two liveness properties make no claim once a member was edited.
`CircuitBreaker`: tasks are polled, transports time out, time passes, and clients
keep asking: without traffic the breaker takes no step. `ListController`: the controller and the worker run (downloads
carry a total and a read timeout, `lists/http_client.rs`), a caller that has its
permit pushes its command, and the reload that prepared a rebind decides it.
`ClusterReplication`: an operation that holds the lock goes on to its end, the reload
loop takes what it was asked for, the daemon is started again after it stopped, and
the node polls on its interval and reloads when asked, a reload ending when it was not
rejected (rejections are faults, hence bounded); nobody has to use the service,
to save or to fail. Strong fairness of `Accepted` is an assumption on the node's clock
that the code does not enforce: a node whose clock is ahead of the primary's by more
than the availability at every poll refuses every manifest (`poll.rs:684`) and never
converges; the property is for clocks that are not wrong for ever. `QueryPath`, `OperatorRules`, `CnameWalk`
and `ListCache` have no liveness property and assume no fairness.

## What is proved

For every value of the constants (members, requests, clients, jobs, queries,
names, rules, shards, thresholds, bounds), from the named assumptions on them only:

- `PolicyTypes`: `TypeOK` of the transaction, by an invariant that also says that
  the in-memory journal is a journal exactly at the steps that use it.
- `StagesNotOrphaned`: `NoOrphans`. It is not inductive: the step that takes the
  fence down must know that nothing is linked. The strengthening has four parts:
  *Owned* (each linked staging name is recorded by the journal on disk), *Synced*
  (copy and disk agree at the steps that rely on it), *CopyOwns* (after a failed
  write the copy, which the error path saves, still records every name) and
  *Progress* (which names can still be linked at which step).
- `JournalsAlwaysDecode`: `JournalsDecode`. Recovery reads what is on disk, so the
  invariant says of the journal on disk, of each retained undo and of the in-memory
  copy that they pass `decode` (`Sound`) and agree with the record; and of each step
  which phases the copy may have (*Phased*), which stages it has journaled (*Staged*)
  and what the ledger holds (*Records*). The error path of `commit()` is why the copy
  matters: a failed write leaves disk and copy apart, and the copy is written later.
- `OnlyEditsMakeConflicts`: `OnlyEditsConflict`. Every check that could refuse must
  pass while nobody saves: each unsaved member stands where the journal's phase has
  it, and a copy that is journaled as linked is there until it was put back
  (*MemberFits*); what the loops of promotion and restore have reached (*Working*);
  each pending record is backed by a journal (*Backed*).
- `TransactionIsAtomic`: `RefinesAtomic`, and `SavesSurvive`: `EditsSurvive`. Every
  step is shown to be a step of `AtomicPolicy` or a stutter. A journal write either
  keeps what its phase decides or takes exactly one abstract decision (*Advances*), in
  the error path too, where the copy may be one decision ahead of the disk; an open
  journal was captured against the tree its plan was made for, and no member saved
  since looks like either image of the journal (*Decisions*, *Deciding*). That last
  part is not a fact about the code alone, so the theorems assume it of each save
  (`TellingSaves`): it is of a content the open transaction has neither as before nor
  as after image of that member, and not of the member between the last look at it and
  its restore. Without the assumption both properties are false: a look compares
  content and inode, so a member saved twice, the second time with its old content
  under its old, reused inode number, passes for untouched and is replaced; and a save
  between the look and the restore is lost (see below).
- `FreshSaveIsAtomic`: the assumption is not needed when there is at most one save, of
  a content that no plan and no tree has, at any step but a restore. This is the
  setting of `policy_safety`, for any number of members, requests and faults. Until
  the save nothing on disk, planned or retained has its content (*Unsaved*), which
  follows from the steps of `AtomicPolicy`.
- `PipelineInvariant`, `ReloadNotLost`, `WakeupNotLost`, `ActivationAnswersTrue`:
  `NoLostReload` needs `NoLostWakeup`, that requests which are counted but not yet
  answered are carried already (`Counted`), that versions only flow forward
  (`Versions`), and that the job being served is not also queued (`Served`).
- `HalfOpenHasOwner`, `FailureCountBounded`: inductive together with the types;
  the owner leaves only by a store of Closed or Open or on seeing Closed, and each
  query above twice the threshold is a distinct element still to cap the count.
- `OldAnswersGo`, `NothingBlockedIsServed`: the first is inductive
  with the types and the fact that a fetch under way carries a generation
  (`Stamped`); a lemma frames the steps that leave the published id alone. The
  second needs that each step past a check carries what the check cleared
  (`Cleared`), relative to `since`, which only shrinks, and that what is blocked
  under some lists is blocked under longer ones.
- `LookupIsBest`, `VerdictIsByTiers`: the invariant of the two compile passes says
  which tokens each slot stands for so far. Passes go by token, so an entry may be
  closed before its ancestor is; the argument is that an ancestor's own slots are
  complete when the closing pass begins, whether or not it has been closed.
- `AllowedIsClean`: the records of the names passed lead to names passed or to the
  target at hand, and there are as many names passed as hops (`WalkInv`); when the
  walk runs out of records, the names passed are all that is reachable.
- `RefusalHasCause`: `RefusedForCause`. The names passed form one chain from the
  question to the name at hand (*Led*), so what the walk refuses is reachable, and the
  verdict says what that name or record is (*Seen*). It uses the assumption that a
  response has finitely many records.
- `CacheInvariant`, `CorpusStaysWhole`, `OnlyDeadReclaimed`: `CorpusIsWhole` and
  `ReclaimsOnlyDead`. The invariant speaks of every journal a power loss may leave at
  once: whichever it is, its recovery ends in a corpus a reader may find (*Whole*), and
  a recovery by the journal that is there does not disturb what a crash would recover
  by another (*Undoable*); a body of the running cycle that a recovery may select is
  selected already or was gone before (*Kept*). A discard without a failed operation
  removes only what no manifest selects (`DiscardCalm`); what a failing one may remove
  besides is the exception `ReclaimsOnlyDead` names (`DiscardCases`, `Excepted`).
- `ControllerInvariant` and the seven results that rest on it: it relates the phase
  to what the worker has done, the refresh in flight to the requests it will answer,
  and each request's stage to the one place that holds it.
- `InductiveInvariant` of `ClusterReplicationProofs` and four results that rest on it:
  `NeverAhead`, `OnlyPoliciesPublished`, `PromisesKept`, `ConvergenceTruthful`. Its
  parts: what the holder of the lock relies on from one write to the next (`JobInv`);
  epochs are given out once and every file a record names is there (`StoreInv`); at
  most one transaction is undecided and whatever is committed or followed was the
  tree (`WasInv`); promises are records (`PromiseInv`); whatever the node follows or
  the primary advertises was published, and it or something newer still is
  (`OrderInv`), which holds because collection always keeps the newest committed
  record; what the node says it runs, or was recorded as saying, is what its resolver
  runs, or is marked stale (`SaidInv`); it is of the artifact it owns, or of an older
  one (`NodeInv`); and as long as nothing failed a
  resolver that is behind the ledger has a reload asked for, about to be asked for or
  under way with the right capture (`RepairInv`). The last part is what makes
  `ConvergenceTruthful` more than a statement about the past, and the reason the apply
  waits for room in the channel.

Only model-checked: liveness (`FenceClears`, `PendingResolves`, `AcceptedIsAttempted`,
`ActivationAnswered`, `Recovers`, `Trips`, `Retires`, `Settles`, `Converges`), because
temporal reasoning with fairness is outside the prover's reach.

## Where the code and its comments disagree

Two runs show a behaviour that a comment rules out:

1. `policy_ledger`: a rollback that dies before its ledger write leaves a Committed
   record beside a RolledBack undo, which reconciliation, promised by its comment,
   does not visit because the record is not pending.
2. `list_cache_uncertain`: the cleanup at start reclaims bodies as soon as the
   rollback journal is not visible, not when its removal is durable. After a
   process that stopped between the two, a power loss brings the journal back, and
   its recovery restores manifests whose bodies are gone. The comment at the commit
   point says "Do not reclaim an old selected body before it is durable".

Other disagreements met while modelling, without a run of their own:

- `config/policy_transaction.rs:3303`: a restore checks its target, writes and syncs
  the journal, then renames; a save in between is overwritten, while the comment
  promises a check "immediately before its rename". `EditPoints` of the runs leaves
  this one step out.
- `config/policy_transaction.rs:1282`: when the write of the Committing journal
  fails, the error path writes the same in-memory phase, so the uncertain answer
  does change whether the decision is durable.
- `ipc/reload_coalescer.rs:189`: counter and uid slot are drained in two steps; a
  batch can carry the uid of a request of the next one.
- `upstream/circuit.rs:132`, `:174`: a late failure turns HalfOpen into Open under a
  running probe, and a second probe can start; a delayed query can probe right after
  a failed probe re-armed the timer.
- `lists/manager.rs:8315`: a retirement or panic during a rebind drops the receiver
  without the sink that an ordinary retirement leaves; a command pushed then is
  stranded until its client's own timeout.
- `lists/manager.rs:6427`: `stage_cache_body` marks the body of an imported local
  list as its own even when the file existed before, so a discard may remove a body
  that an earlier generation selected.
- `lists/manager.rs:7102`: `discard_unselected_staged_body` takes a manifest it
  cannot read for one that selects nothing (line 6226) and removes the body that was
  just selected, against its name; `ReclaimsOnlyDead` excepts it.
- `cluster/poll.rs:3`: "A successful cycle requires the current resolver to match the
  owned artifact"; the resolver is compared when the cycle begins, and a reload that
  captured an older tree may replace it before the cycle ends or right after
  (`cli/commands/start.rs:3524`, `:3949`). The primary goes on reporting convergence
  until the next poll; the reload the apply asked for puts it right.
- `cli/commands/start.rs:3485`: "Every call emits exactly one audit record"; the
  error returns of the policy rebind (lines 4060, 4105, 4164) and of the old
  controller's retirement (line 4419) leave `handle_reload` without one.

Further hazards, covered by no property: a foreign program that removes a
transaction's own hidden stage and has its inode number reused
(`config/policy_transaction.rs:2868`); a reload request that reads `worker_alive`
while the worker leaves at shutdown (`ipc/reload_coalescer.rs:138`), answered as
queued although the daemon stops; the order of the configuration sequencer and the
reload channel in the mutation handlers (`ipc/socket_server.rs:3040`), where only
their non-blocking send is modelled.

## Not modelled

Most of the repository's lines are the terminal interface, tests, the command line,
parsing, rendering and I/O, where there is no state between steps to go wrong; the
modules follow the shared state instead. Of the modelled components, what is left
out: the repair path and migration-only receipts of the transaction, its byte
budgets, and a foreign removal of a member or of a hidden stage (indistinguishable
from the transaction's own deletion); the gates of `handle_reload` and what it
installs besides upstream, lists and cache; local zones, the listeners and DNSSEC in
the query path; list matching, regular expressions, safe search and schedules in the
filter; downloads, parsing, imported lists, legacy caches and the bodies of removed
sources in the list manager; in the cluster enrollment and pairing, membership and
roles, corpora, managed restart, receipts that were pruned, edits on the node (its
`verify_live` refuses them), and an answer that arrives after its request timed out.
An undo of a batch during recovery counts as its abort. Entirely left out: the operator rule
supervisor, the write lock and the runtime lease, migration and relocation, the
security windows, text, wire formats, cryptography and user interface.

## Plan

In this order:

1. `ReloadInstall`: the gates of `handle_reload` and the order in which it installs;
   abstract specification: one swap, or nothing. Composed with the capture of
   `ReloadPipeline` and the installation steps of `QueryPath`.
2. The rest of the cluster: corpora beside the artifacts of `ClusterReplication`,
   membership and epochs of the primary, enrollment with its retries.
3. `OperatorRuleJobs`: supervisor, plan cache and restart, composed with
   `AtomicPolicy` and the activation half of `ReloadPipeline`.
4. `WriteLock` and the runtime lease, which `PolicyTransaction` takes as given.
5. `SecurityWindows` (atomic window, bounded map), `LogRing`, the in-flight set of
   the prefetch worker, `ScheduleWindow` against a reference definition.

Theorems to add: each module above with its invariant when it is written. For the
modules that exist, what the liveness properties rest on and a proof can state: that
each step of a recovery shrinks what is left to do.
