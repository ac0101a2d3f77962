# HornDB in TLA+

HornDB is an RDF store with OWL 2 RL reasoning, written in Rust. This directory
holds TLA+ models of the parts of it where several threads, crashes and I/O
errors meet, and of the incremental reasoner that has to stay right through them;
the TLC runs that check them on small instances; and TLAPS proofs, for every value
of the constants, of the safety properties these runs check: of the memory tier and its
abstract specification, the dictionary sweep, crash recovery, the incremental closure and
the circuit's tick, its input log and change feed, and SPARQL Update with what a query
sees after it.

Run everything from this directory:

    tlc -workers 2 -config MemoryTier.cfg MCMemoryTier      # and the other .cfg files
    tlapm StoreGcProofs.tla                                 # and the other *Proofs and *Facts

Source paths below are relative to `src/crates/`.

## 1. Inventory

| Component | State | Operations | Interacts with |
|---|---|---|---|
| memory tier (`storage/src/memory_tier.rs`, `partition.rs`, `cold.rs`, `visibility.rs`) | live `TierSnapshot` behind one pointer, pin table, writer lock | insert, apply, retract, `snapshot`, `repin`, drop, `compact`, `demote`, `promote`, `rebalance` | called by the store; readers keep their own `Arc` |
| store write path and dictionary sweep (`storage/src/store.rs`, `dictionary.rs`) | dictionary (forward and reverse map), logged length, tier | intern, probe, logged write, `compact` and `gc_dictionary` | tier, log |
| write-ahead log, checkpoint, recovery (`storage/src/wal.rs`, `store.rs`) | `wal.<gen>`, `dict.<gen>`, `MANIFEST`, dirty flag, sync policy | append, sync, checkpoint, generation switch, open, replay | file system; circuit records share the log |
| partition columns, cold file, dictionary base file | sorted runs, varint and mmap layouts | encode, decode, merge, gallop | tier, store |
| bulk loaders, snapshot export/import | parser threads, interned but uninstalled ids | load, dump | store |
| incremental circuit (`incremental/src/circuit.rs`, `operator.rs`, `closure_plan.rs`) | asserted and derived base, extent, rule weights, owners, join traces | `tick` | input log, change feed, wiring |
| incremental transitive closure (`closure/src/closure/incremental.rs`) | asserted edges, closed relation | insert and delete edges | one closure plan of the circuit |
| circuit input log and checkpoints (`incremental/src/circuit.rs`, `delta_log.rs`, `checkpoint.rs`) | pending inputs, logical clock, input and tick records in the store's log, checkpoint cadence | `append`, `tick`, `checkpoint`, `recover` | store's log, feed |
| change feed (`incremental/src/change_feed.rs`) | bounded channel per subscriber, `Block` or `DisconnectSlow` | subscribe, publish, drain | circuit, consumers |
| engine wiring (`sparql/src/exec/circuit.rs`, `exec/horn.rs`) | circuit, default graph and derived graph kept in step | attach, feed, drain or resync, inverse tick on failure | circuit, feed, store |
| SPARQL Update (`sparql/src/update.rs`) | operations to come, journal | preflight, apply, journal, rollback | write funnel |
| closure backend, OWL 2 RL engine, worst-case optimal joins | matrices, rule sets, tries | fixpoints and joins on a frozen snapshot | store snapshots |
| SPARQL front end and server | plans, HTTP state, checkpoint scheduler | parse, plan, execute, `checkpoint` on a timer | store, wiring |
| configuration, metrics, SIMD, ML boundary, Python bindings, harness, hardware extensions | no state of their own that the above depend on | | |

What makes each one hard, and what correctness means for it:

* **Memory tier.** Readers take no lock for the time they read. `snapshot()`
  clones the pointer under one lock and registers the pin under another;
  `demote()` compacts in one critical section and encodes in a second one; a
  cold file keeps no stamps. Correct: a reader sees one committed state for as
  long as it holds it, maintenance is invisible, no quad is live twice, and
  nothing a pinned reader sees is reclaimed.
* **Write path and sweep.** Interning happens before any lock that the sweep
  also takes. Correct: one index per term, every visible or pinned id resolves
  to the term it had, and no index is freed that the log has not recorded.
* **Log and recovery.** A checkpoint is a chain of file operations, each of
  which may fail or be the last one; other threads intern meanwhile; replay
  has to arrive at the same versions and dictionary indices as the live store.
  Correct: the store can always be opened, keeps what it acknowledged, and
  holds exactly the contents of its version.
* **Circuit.** Extent, weights, traces, owners and closed relation are kept by
  deltas, never recomputed; rules and closure share derived rows; a derived row
  may be asserted as well; support may be cyclic. Correct: after every tick they
  are what a recount gives, and what is present is what the asserted rows entail.
* **Input log.** A tick folds inputs in, publishes, writes its marker and may
  checkpoint; a crash between any two of these, in recovery too, must neither lose
  an input nor apply it twice.
* **Change feed.** Publishing runs inside the tick. A slow consumer must not see a
  gap, and neither a slow nor a vanished one may hold the tick up for ever.
* **Wiring and updates.** The circuit ticks before the store commits; the
  subscription overflows; bulk loads bypass the circuit; an operation of a
  request turns out to be illegal after earlier ones were committed. Correct: circuit, default
  graph and derived graph agree again when the request is over.

`PROJECT.json` lists every component with its status and every hazard at its
source line with the properties that cover it, or why none does.

## 2. Modules

| Module | Models | Extends |
|---|---|---|
| `VersionedSet` | what the tier promises: a set behind a commit clock, readers that keep what they opened | |
| `MemoryTier` | the tier, and the refinement mapping to `VersionedSet` | |
| `StoreGc` | write path and dictionary sweep over the tier | `MemoryTier` |
| `DurableStore` | log, checkpoint, crashes, recovery | |
| `IncrementalClosure` | the transitive closure of one predicate, edge by edge | |
| `Circuit` | one tick, as an operator on a circuit | `IncrementalClosure` |
| `CircuitInvariants` | what has to hold of a circuit between ticks, and the entailment it is measured against | `Circuit` |
| `ChangeFeed` | publishing to bounded channels | |
| `CircuitDriver` | a circuit with its input log, checkpoints, crashes, recovery and subscribers | `CircuitInvariants`, `ChangeFeed` |
| `UpdateEngine` | SPARQL Update over a store with a circuit attached | `CircuitInvariants` |
| `MC*` | instances for TLC | the module they are named after |
| `RecursionFacts`, `FoldFacts` | what recursive functions, `FoldLeft` and `FoldSet` compute, for any step | |
| `StoreGcProofs` | the tier's invariants, the effect of its batches, its refinement of `VersionedSet`; then dictionary, sweep and pinned views | `StoreGc` |
| `DurableStoreProofs` | every crash and recovery of the durable store | `DurableStore` |
| `CircuitProofs` | the closure, edge by edge; a tick adds the sum of its records to the asserted base, keeps every derived row with an owner, and publishes what happened to the rows | `CircuitInvariants` |
| `CircuitExactness` | a tick keeps plan, extent, weights and traces exact, fails no assertion, and brings nothing that is not entailed | `CircuitProofs` |
| `CircuitDriverProofs` | the change feed; the input log across crashes; what a tick publishes; the circuit across crashes and replays | `CircuitDriver`, `CircuitExactness` |
| `UpdateEngineProofs` | undone requests; the asserted base beside the default graph; the derived graph beside the circuit; the circuit's counts, and what a query sees | `UpdateEngine`, `CircuitExactness` |

### MemoryTier

A row is a quad with a lifetime `[begin, end)`; `end = UNSET_END` is a live row,
and the same constant bounds the clock. A snapshot has a version, its rows, the
partitions that exist and those of them that are cold.

| Code | Model |
|---|---|
| `insert_at`, `apply_at`, `retract_quad_batch` | `InsertBatch`, `ApplyBatch`, `RetractBatch`: one step under the writer lock |
| `snapshot()` | `SnapshotClone`, then `SnapshotPin`: two locks, two steps |
| `repin`, `Drop for PinnedSnapshot` | `Repin`, `DropPin` |
| `compact()` | `CompactStart` (lock, horizon), `CompactSwap` (rebuild, swap, unlock) |
| `demote()` | a whole `compact()`, then `DemoteSwap` or `DemoteRefused` in a second critical section |
| `promote()` | `Promote` |

Choices a reader should know:

* A partition's runs are merged lazily in the code; the model deduplicates at
  once (`SortDedup`). Scans through unmerged runs deduplicate too, so what is
  live does not depend on when the merge happens.
* A cold file holds bare rows and one version. Its rows keep that version as
  their `begin`, which is what decoding gives them back, and `View` reads a
  cold partition whole, as the code does.
* A batch with no net effect is no step: it installs nothing.
* `exposed` is a history variable: the readers whose pointer was cloned but
  whose pin was not yet registered when some compaction read its horizon. It
  guards no action and says for whom `PinnedRowsRetained` is promised.

### StoreGc

Each quad has one term of its own, and the tier's quad `i` is the one whose term
has dictionary index `i`. `slot` is the reverse map; the forward map holds
exactly the terms of the slots in use, since both change under one lock.
`ProbeHit`, `ProbeMiss`, `InternMiss` and `InternFull` are the steps of `intern`
and `probe`; `WriteCommit` and `WriteFail` are `logged()`; `TierCompactStart`,
`TierCompactSwap`, `GcLog`, `GcSize`, `GcMark`, `GcRecheck` and `GcSweep` are
`Store::compact` with `gc_dictionary`. The snapshot `gc_dictionary` pins while it
marks is folded into `GcMark`. Demotion, promotion, pins and repins run beside
them. `opened` remembers what the ids of a view meant when it was opened;
`overlapped` remembers that some write was in flight during a `compact()`. A store
without a log is this module with the log's steps always succeeding.

### DurableStore

The dictionary, the tier reduced to its version and visible rows, the log's mutex
with the step its holder is at, and the files: records of each `wal.<gen>` with
how many are on stable storage, `dict.<gen>`, and what `MANIFEST` names now and
durably.

| Code | Model |
|---|---|
| `insert_quads`, `apply_quads` | `Intern`, `AppendWrite`, `AppendSync` or `AppendNoSync`, `Install` |
| `compact()` on a durable store | `SweepWrite`, the same sync, `Install` with the sweep |
| `sync_wal` | `SyncWal` |
| `checkpoint`, `commit_generation` | `CkDict`, `CkWal`, `CkWalSync`, `CkManifest`, `CkDirSync`, `CkReopen` |
| I/O errors | `AppendWriteFails`, `AppendSyncFails`, `CkFails` |
| crash (environment) | `Kill` keeps every written byte; `PowerLoss` keeps the synced records, a prefix of the rest, perhaps a torn frame, and either `MANIFEST` if the directory was not synced |
| `Store::open`, `replay`, `Wal::open` | `OpenSweep`, `OpenReplay`, `OpenFails` |

The file system is external and modelled by how the code uses it. A sweep runs on
a quiet store here, because its races are the subject of `StoreGc`. Cold placement
is not durable and is left out. The circuit's input and tick records, which share
the log, are in `CircuitDriver`. `hist`, `acked`, `durable` and `forced` record
what was promised; `fault` records that an I/O error left its mark on the files
(`"marked"`), until a completed checkpoint writes new ones or a crash meets it
(`"lost"`).

### IncrementalClosure and Circuit

`IncrementalClosure` has `insert_edge` and both deletion algorithms, the default
one (over-delete along the base edges, then re-derive) and the recompute of the
affected region. Forward and backward adjacency maps are two indexes of one
relation and become one set of pairs; a worklist becomes as many rounds as there
are nodes.

`Circuit` is the whole of `tick()` as one operator from a circuit and records to a
circuit, since a tick has the circuit to itself. The record `circuit` holds what the
struct holds:

| Code | Model |
|---|---|
| `asserted_base`, `derived_base` | `asserted`, `derived`: integer multiplicities, also negative ones for inputs retracted too often |
| `RowExtent`, `weights`, `RowAttr` | `extent`, `weights`, `attr` (the owning rule) |
| `closure_support`, closure plan | `support`, `closure` |
| join traces, rebuilt when cold | `trace`, `warm` |
| the tick's net derived records | `pending`, by triple and kind |
| `closure_retract_pass`, `closure_insertion_pass` | `ClosureRetractPass`, `ClosureInsertionPass` |
| the insertion fixpoint, the R1/R2 fixpoint, net publish | `InsertionFixpoint`, `TwoPhaseFixpoint`, `NetTransitions` |
| the recompute fallback | `RecomputeFallback`, `ResyncIncrementalState` |
| `assert!` and `debug_assert!` | a false one makes `sound` false for good |

A rule is given by its ground instances, with two or three body atoms, so joins
and traces keep their arithmetic (the bilinear delta of each join, with the
cross term) and lose only the matching of variables. There is one closure plan.
`MaxRounds` bounds a fixpoint and the rounds of the fallback's recomputation; needing
more is an assertion failure, which `TickAssertionsHold` would report. `Listed` and `Tabulated` are the identity: they
make TLC store a value rather than the expression it came from.

### ChangeFeed

A record is its position in the stream, modulo `Period`, which is more than a
channel and its consumer can be apart. `StartRecord` copies the senders,
`Deliver` and `FailToDeliver` are one send each, without the lock, and the last send
of a record reaps who could not be reached. A `Block` send to a full channel is not
enabled until the consumer reads or goes; `Consume` and `CloseReceiver` are the
consumers' own steps.

### CircuitDriver

| Code | Model |
|---|---|
| `append`, `log_input` | `AppendInput`, synced on return or not according to the policy |
| `tick()` | `BeginTick` (merge, closures, rules), the feed's steps, `EndTick` (marker), `MaybeCheckpoint` or `SkipCheckpoint` |
| `checkpoint()` | `Checkpoint`: what is pending is ticked first |
| crash (environment), reopening, attaching | `Crash(n)`: the synced records and any part of the others are left |
| `recover()` | `ReplayTick` per closed batch, each with all of a tick's steps, then `FinishRecovery` |
| `subscribe` | `NewSubscriber`, never during a tick, which borrows the circuit |

Abstractions: an append is one step and a checkpoint atomic, since `DurableStore` is
about how the store does both. The checkpoint stands for the asserted base at
that moment; that the driver restores this base from the rows it committed
(`Restored`) is the driver's duty and external. `issued`, `grouping` and `resealed`
are history.

### UpdateEngine

An operation is the quads it deletes and adds, a CLEAR or DROP of the default graph, the
named one or all, a CREATE, or a pattern update that binds a reserved graph. One
named graph stands for all of them. `BeginRequest`, `ApplyOp`, `RejectOp`, `FailOp`,
`UndoRequest` and `FailUndo` are the request loop with its journal; `CommitQuads` and
`Rollback` are the write funnel with a commit that succeeds or fails; `BulkLoad`
writes below the funnel; `Reopen` kills the process, at any moment, and attaches a new circuit to
the rows it finds. The engine has the store to itself during an update, so an
operation is one step; a crash is possible between operations. `bulk`, `rolledBack` and
`unshadowed` are history, and are what a property excuses:

* `bulk`: default rows the circuit was never told of;
* `rolledBack`: a failed commit was undone by an inverse tick, after which the
  derived rows may differ from the mirrored ones until the next resync;
* `unshadowed`: the asserted copy of a rule-owned row was retracted, see the
  disagreement `engine_self_support` below.

## 3. Runs

| Run (`.cfg`) | Result | Instance and why it is enough |
|---|---|---|
| `tier` (`MemoryTier`) | passes, 358 thousand states | 2 quads in one partition, so that a dead row of one keeps the other from going cold; 2 readers, so that one can share the other's pin; 1 janitor; versions 0..3: insert, retract, re-insert with maintenance anywhere between |
| `pin_race` (`MemoryTier_pin_race`) | violation | 1 quad, 1 reader, 1 janitor |
| `gc` (`StoreGc`) | passes, 705 thousand states | 1 term and 2 indices, so that a swept term comes back under another one and the dictionary fills up; 2 writers racing on one term; 2 readers; versions 0..4 |
| `gc_inflight` (`StoreGc_inflight`) | violation | the same with 1 reader |
| `durable_crashes` (`DurableStore_crashes`) | passes, 1.0 million states | 2 terms, 2 writers, both sync policies, a checkpoint, 2 crashes: the second one may hit the recovery from the first |
| `durable_faults` (`DurableStore_faults`) | passes, 2.1 million states | 1 term, 1 writer, every I/O call may fail, 2 generations, 1 crash: a fault, a checkpoint that clears it, and a crash fit in |
| `disk_full` (`DurableStore_disk_full`) | violation | failing appends only |
| `forced_sync` (`DurableStore_forced_sync`) | violation | no faults, 2 crashes: a kill, then a power cut |
| `engine` (`UpdateEngine`) | passes, 70 thousand states | 12 operations, requests of 1 or 2 of them, 1 fault (failed commit or restart); the edge c-a from the start, a-c assertable beside the path a-b-c, so that there are cycles and second paths: deleted edges that survive, pairs that come back, pairs that come back because another did; two rules in a cycle, a third of three atoms for the same head, and the closure for it too, so that every pair of owners occurs; a feed of 5 records, which some ticks overflow and some do not |
| `engine_self_support` (`UpdateEngine_self_support`) | violation | one symmetric predicate |
| `driver` (`CircuitDriver`) | passes, 154 thousand states | 4 events (inputs, subscriptions, crashes) in any mix: two inputs, a crash and a crash in its recovery; or an input, both subscribers and a crash. Channels of 1 record, so that every second record meets a full one. Both sync policies, with the incremental path and with the fallback |
| `slow_recovery` (`CircuitDriver_slow_recovery`) | violation | no subscribers, the interval may run out in recovery |

Ticks, publishing, checkpoints and reading are not counted by any bound: between two
events the driver may tick, checkpoint or wait. Inputs include a retraction of an
edge that is not there, so multiplicities go negative. In `driver`'s instance no input is a
rule head, so that no tick can unshadow a row and `PresentIsEntailed` is promised;
`engine` has those. `MaxRounds` is the number of triples of the instance in `engine`
and `driver`, the bound from which the proofs promise that no fixpoint exceeds it.

`gc` follows behaviours in which a write overlaps a `compact()` without readers
(constraint `ReadersOnlyWhenQuiet`): `OneIndexPerTerm` is promised there and needs
none, the properties of readers are not promised there. `durable_faults` does not
follow a store reopened from marked files (constraint `UntilLost`), for which
nothing is promised. Symmetry is over model values that no definition singles out, and
is only combined with invariants and step properties, never with liveness.

What is checked:

* `LifetimesDisjoint`, `ColdNeedsNoStamps`, `PinnedRowsRetained`, `BatchEffect`:
  the tier's own bookkeeping, and what a batch means computed independently from
  visible sets. `ImplementsVersionedSet`: every step of the tier is a step of
  `VersionedSet` or invisible to it.
* `OneIndexPerTerm` under every interleaving; `LiveRowsResolve`,
  `PinnedViewKeepsMeaning`, `SweptIndicesLogged` where no write overlapped a
  `compact()`.
* `OpenNeverFails`, `AckedSurvives`, `ContentsMatchHistory`, and `OneIndexPerTerm`
  across replay.
* Of a circuit, in `engine` and in `driver`: `TickAssertionsHold`; that extent,
  weights and traces are what a recount gives (`IncrementalStateExact`); that every
  derived row has an owner and every owner its row (`DerivedRowsOwned`); that the
  closed relation is the closure of the asserted edges and both deletion
  algorithms agree (`ClosureExact`). `CircuitExact` has these of `driver`,
  where multiplicities are not only 0 and 1.
* `AssertedIsDefaultGraph`, `MirrorIsDerivedBase`, `QueriesSeeEntailed`,
  `FailedRequestUndone`: after any mix of updates, undone requests, failed commits,
  bulk loads and restarts. The reference for queries, `Entailed`, is a least
  fixpoint computed from the asserted rows alone.
* `PresentIsEntailed` and `NetRecordsExact`: the same reference across crashes, and
  what a subscriber can conclude from a tick's records.
* `InputsAccounted`, `CrashLosesNothing`, `GroupingKept`, `TimesIncrease`: each input
  is in the base, pending, or about to be replayed, once; the log and the checkpoint
  would give all of them back at every moment; ticks replay in the groups they ran in.
* `SubscriberStream`: the stream from the subscription on, without a gap or a
  duplicate, also for a subscriber that has been dropped, which gets a prefix.
* `TickEnds` and `RecoveryEnds`: liveness.

Only `CircuitDriver` assumes fairness, of steps the code runs on its own once a call
has started: the tick's sends, its marker, its look at the cadence, and
`recover()`'s loop; and of the `Block` consumers, whose reading on is what the policy
relies on. `RecoverOn` names `ReplayTick` or `FinishRecovery` by their effect on
`phase`, of which `recovering` always has one enabled, so the fairness is the same and
TLC need not compute a tick to see it. Nothing obliges the driver to call
again, a `DisconnectSlow` consumer to read, or a crash to happen; crashes are finitely
many because of `MaxEvents`. `RecoveryEnds` depends on that bound: a process that crashes
in every recovery never ends one. The other modules are about safety and assume no fairness.
Deadlock is checked except in the runs with I/O faults, where an unopenable store
stops for good.

Every property of a passing run has a mutant in `PROJECT.json`: an operator beside
the one it replaces, with a plausible bug, under which TLC finds the property
violated.

### Disagreements between comments and code

Six runs state what a comment says and end in a counterexample.

* `pin_race`: `snapshot()` says its pin keeps compaction from reclaiming rows it
  sees. A `compact()` whose horizon is read between the clone and the pin does
  reclaim them from the live snapshot. The reader's own `Arc` still has them; the
  dictionary sweep, which marks from live rows, no longer protects their terms.
* `gc_inflight`: `Store::compact` says that `Store` writes are not exposed to the
  sweep. A write interns before it takes the log's lock, so the sweep can free
  the id it found, and the row it then installs resolves to nothing.
* `disk_full`: `SyncPolicy::EveryBatch` says a batch whose write returned `Ok`
  survives a power loss. A failed append leaves its torn frame in the file, and
  batches acknowledged after it are cut off, or make the open fail.
* `forced_sync`: `sync_wal` says it forces the log to stable storage. A new handle
  starts clean, although the file may hold records a killed predecessor never
  synced, and so skips the `fsync`.
* `engine_self_support`: `circuit.rs` says a retracted row whose rule weight may be
  cyclic becomes an overdelete candidate. Not if a rule owns the row already: the
  asserted copy goes, presence does not change, and nothing looks at the weight.
  With one symmetric predicate, two triples asserted and then deleted stay derived,
  each the other's only support, until a restart.
* `slow_recovery`: `checkpoint()` says no un-ticked input may cross a checkpoint
  boundary. `recover()` holds the later batches in a local variable while each
  `tick()` it runs may find a checkpoint due, which truncates the log under them.

Seen while modelling, without a run:

* The tick marker has the last sequence number of its batch, but the reader ignores
  it (`wal.rs`). A replayed tick writes its marker at the end of the log, behind
  the un-ticked tail, so a second crash finds the tail closed and ticks it as
  part of a group it never ran in. No input is lost. `GroupingKept` holds until then
  (`resealed`).
* `tick()` may checkpoint before it returns, hence before the driver can commit that
  tick's outcome to the store's rows; rows also cannot represent a multiplicity
  other than 0 and 1. `Restored` assumes a driver that copes with both.
* The wiring calls ticks exactly invertible (`exec/circuit.rs`). Membership in the
  asserted base is; which of closure and rules owns a derived row, and hence what a
  self-supported row does, need not be. `MirrorIsDerivedBase` is stated up
  to a failed commit (`rolledBack`).
* `update.rs` calls a single operation all-or-nothing and keeps no journal for it.
  `CLEAR ALL` and `DROP ALL` are several commits, so a failure in between keeps the
  first of them; so does a crash between the operations of a longer request.
* A `Block` subscriber that ticks and drains on one thread waits for itself once
  its channel is full. `TickEnds` assumes consumers on threads of their own.

## 4. Proofs

The theorems hold for every value of the constants that the named assumptions allow:
every set of quads, terms, readers, writers, janitors, subscribers, triples, rules and
operations, and every bound. Sets are assumed finite only where the code counts or
lists them (`IsFiniteSet` of readers, nodes, facts, rules and rule instances), bounds to be natural
numbers, and the `Free`, `NoPartition` and `NoRule` values to be no member of the
sets they extend.

| Theorem | States | of the module |
|---|---|---|
| `TypeCorrect` | `[]TypeOK` | `MemoryTier` |
| `InvHolds` | `[]TierInv`, inductive | |
| `LifetimesAlwaysDisjoint` | `[]LifetimesDisjoint` | |
| `ColdFilesNeedNoStamps` | `[]ColdNeedsNoStamps` | |
| `PinsRetainRows` | `[]PinnedRowsRetained` | |
| `BatchesDoWhatIsAsked` | `BatchEffect`, an action property | |
| `TierImplementsVersionedSet` | `ImplementsVersionedSet`, the refinement | |
| `StoreRunsTheTier` | `StoreSpec => Spec`: the tier's theorems hold of the store | `StoreGc` |
| `StoreInvHolds` | `[]StoreInv`, inductive | |
| `StoreTypeCorrect` | `[]StoreTypeOK` | |
| `TermsKeepOneIndex` | `[]OneIndexPerTerm` | |
| `VisibleTermsResolve` | `[]LiveRowsResolve` | |
| `PinnedViewsKeepTheirTerms` | `[]PinnedViewKeepsMeaning` | |
| `SweepsFreeOnlyLogged` | `[]SweptIndicesLogged` | |
| `DurableInvHolds` | `[](Shape /\ Safe)`, inductive | `DurableStore` |
| `DurableTypeCorrect` | `[]TypeOK` | |
| `TermsKeepOneSlot` | `[]OneIndexPerTerm` | |
| `StoreAlwaysOpens` | `[]OpenNeverFails` | |
| `AcknowledgedSurvives` | `[]AckedSurvives` | |
| `RecoveredContentsExact` | `[]ContentsMatchHistory` | |
| `InsertEdgeClosed`, `DeleteBySupportClosed`, `DeleteByRecomputeClosed` | an edge inserted, or deleted by either algorithm, leaves the transitive closure of the edges there are | `IncrementalClosure` |
| `TickMoves` | a tick keeps `WellFormed`, and its records add up to what it did to the derived rows | `Circuit` |
| `TickPlan`, `PlanHoldsExact` | a tick keeps the plan the closure of the asserted edges: `ClosurePlanExact` | |
| `TickExact` | a tick that fails no assertion keeps extent, weights, traces and owners exact | |
| `TickHeld` | the invariant between ticks, `Held`, is kept by every tick | |
| `TickSound` | no assertion of a tick fails, if `EnoughRounds` | |
| `TickSupported` | what is present stays entailed, if the tick does not unshadow a row | |
| `SubscribersHearTheStream` | `[]SubscriberStream` | `CircuitDriver` |
| `DriverTypeCorrect` | `[]TypeOK` | |
| `LoggedTimesIncrease` | `[]TimesIncrease` | |
| `EveryInputAccounted` | `[]InputsAccounted`, if `~SlowRecovery` | |
| `CrashesLoseNothing` | `[]CrashLosesNothing`, if `~SlowRecovery` | |
| `ReplaysKeepGrouping` | `[]GroupingKept`, if `~SlowRecovery` | |
| `NetRecordsTellTheRows` | `NetRecordsExact`, an action property | |
| `SoundTicksExact` | `[](TickAssertionsHold => CircuitExact)`, the exact plan at every moment, and nothing entailed is missing | |
| `DriverAssertionsHold` | `[]TickAssertionsHold`, if `EnoughRounds` | |
| `CircuitStaysExact` | `[]CircuitExact`, if `EnoughRounds` | |
| `PresentStaysEntailed` | `[]PresentIsEntailed`, if `EnoughRounds` and no tick of the unified path unshadows a row | |
| `FailedRequestsUndone` | `FailedRequestUndone`, an action property | `UpdateEngine` |
| `AssertedFollowsDefaultGraph` | `[]AssertedIsDefaultGraph` | |
| `DerivedGraphFollowsCircuit` | `[]MirrorIsDerivedBase` | |
| `UpdateTypeCorrect` | `[]TypeOK` | |
| `EngineClosureExact` | `[]ClosureExact` | |
| `SoundTicksAnswer` | `[](TickAssertionsHold => IncrementalStateExact /\ DerivedRowsOwned /\ QueriesSeeEntailed)` | |
| `NoTickAssertionFails` | `[]TickAssertionsHold`, if `EnoughRounds` | |
| `EngineCountsExact` | `[]IncrementalStateExact`, if `EnoughRounds` | |
| `EngineRowsOwned` | `[]DerivedRowsOwned`, if `EnoughRounds` | |
| `QueriesAnswered` | `[]QueriesSeeEntailed`, if `EnoughRounds` | |

`EnoughRounds` stands for `MaxRounds >= Cardinality(Triple)`. The code asserts that each
fixpoint ends within `MAX_FIXPOINT_ROUNDS` (4096) rounds, and the fallback's recomputation
within `MAX_ROUNDS` (4096), and this is the bound that the proofs find enough whatever the
rules are: every round but the last brings or takes at least one row of the extent, or
adds one to the recomputed rows. A chain of more rules than that many rounds does fail the
assertion, in the code as in the model, so some hypothesis is needed. The theorems
without it say what is true anyway: everything that is stated under `EnoughRounds` holds as long as
no assertion has failed, and the plan is exact even then.

### Induction over data

Replay is a fold over a log, a tick is rounds of recursive functions. TLA+ defines a
recursive function by CHOOSE, so nothing is known of it until a function with that
equation is shown to exist, and the library's theorems that do so take an operator as a
parameter, which the provers cannot instantiate. `RecursionFacts` and `FoldFacts`
take the step of the recursion as a CONSTANT operator instead and prove what is
needed without second-order parameters: existence and uniqueness of a function whose
keys descend, and from these the equations of `FoldLeft` and `FoldSet` (nothing, one element
more, a concatenation, an invariant set). What they take from arithmetic and from finite sets,
that a set of naturals closed under the step is everything (`Inductive`) and that a set has one
element more than what is left without one (`Counted`), are hypotheses of theirs; each module
that instantiates them proves both from the library's theorems on well-founded relations and on
cardinality, so that these theorems need not be carried along by every instance. A module
instantiates them once per recursion: `ReplayTerm` and `ReplayRecord` in
`DurableStoreProofs`, `Replayed`, `Inputs`, `AllOf` and `Without` in `CircuitDriverProofs`,
`NetDelta`, `Records`, the closure's rounds and a tick's in `CircuitProofs`, the sum of a
row's weights and the rounds of `Entailed` in `CircuitExactness`.

### The tier

The first part of `StoreGcProofs` is about `MemoryTier` alone and cites nothing of the
store. Already `TypeCorrect` is not inductive: that a pin count stays a natural number
needs `PinsCounted`, which says that the count at a version is the number of
readers pinned there. `PinnedRowsRetained` is not inductive either. `TierInv` adds

* `RowsSane`: no row of the live snapshot begins, or has ended, after its version,
  and a cold partition has only live rows;
* `HeldSane`: a reader's snapshot is not ahead of the tier, and the rows of its cold
  partitions are visible at its version;
* `Protected`: a quad that a non-exposed reader sees has a row in the live snapshot
  that ends after the reader's version;
* `HorizonBelow`: the horizon of a running compaction is above neither the current
  version nor the version of any non-exposed reader.

The argument: when a compaction reads its horizon, every reader that has cloned
but not pinned becomes exposed, and every pinned one is counted, so the horizon is
at most its version (`StartHorizon`); reclaiming rows that end at or before the
horizon then leaves each protected row. A batch is reduced to one description of
what it may do to rows (`BatchRows`), shown of each of the three kinds of batch and
then used for all of them. `BatchEffect` and the refinement come from the same
invariant: what is visible of a snapshot whose rows are sane is its live rows, maintenance
keeps these, and a batch changes them by its sets.

### The write path and the sweep

`StoreInv` is `TierInv`, types, one index per term, and, as long as no write was in
flight during a `compact()`: nobody writes while somebody compacts (`Apart`), held and
stored ids resolve, the log is level with the dictionary from `compact()`'s record to its
sweep (`SweepLogged`), what is stored when the sweep runs was stored when it marked
(`MarksCover`), and each id that a protected view shows still means what it meant
(`ViewsKeepMeaning`). The last rests on the tier's `Protected`: the tier keeps a row of
what the view shows, the row is marked, and the sweep leaves its slot. Without the
condition on writes the run `gc_inflight` refutes it; `OneIndexPerTerm` has no condition.

### The durable store

What a crash leaves is a prefix of a file that nobody chose, so the invariant speaks of
all of them. It has two halves:

* `Shape` holds under every fault. Every prefix of every file that has no torn frame
  inside replays to a well-typed state whose dictionary, version and rows stay within
  the store's bounds (`Bounds`), and the files are as far as the step a checkpoint is at
  says (`Progress`). Type correctness and `OneIndexPerTerm` follow, also for
  stores that reopened damaged files.
* `Safe` holds until a store reopens files that a failed call had marked. A running
  store holds what was committed at its version, and will still when the batch that has
  the lock is installed (`Live`, `Coming`). If no call has failed, its log has no torn
  frame, and each prefix that a crash may leave (`Exposed`: anything from the synced
  length on) replays to a state of the history that is no older than what is durable
  (`FileGood`); the whole file replays to `Coming`, under a dictionary that agrees with the live
  one up to the slots freed since (`Agree`). The manifest names this file, durably,
  except in the two steps of a checkpoint that switch it (`LoggedControl`). While no
  store is up the same is said of the file the manifest names (`OnDisk`).

The proof's weight is in five places. A batch's record, appended, keeps `FileGood`, as
its terms are those interned since the last record (`BatchSafe`, `SpeltAgrees`). A
sweep frees slots that no row uses, so older prefixes keep their meaning. A checkpoint's
chunks over the dictionary it saved replay to the live rows even if other threads
intern meanwhile (`ChunksReplay`, `CheckpointGood`). What survives a power cut, a torn
frame at its end included, is a prefix that was already exposed (`SurvivorGood`). And
versions only grow in replay (`RepForward`), so a longer prefix is not older.

The constants' bounds are assumed to be natural numbers (`DurableAssumption`); no
other theorem needs that many.

### A tick

`WellFormed` says that a circuit has its types and that each derived row is there once,
if the closure or a rule owns it, and not otherwise. `Tells` compares two circuits:
for each triple, what the pending records add up to has moved by as much as the derived row
has. `Moves` is both. It is shown of each part of a tick by itself, the closure's two
passes, a round, what each phase makes of a round, the net transitions, the recompute
fallback, and composed along the rounds (`MovesOn`). It does not need the deltas to be exact:
which rows a pass brings or takes may depend on any weights or extent, but rows, owners and
records have to move together. The cases that are not immediate: rows that lose their closure
support while a rule owns them, rows that get a second owner, and a row that is renamed from
one rule to another (`NetTransitionsMove`, `ClosureWithdrawMoves`, `RecomputeRulesMove`). A
tick starts with nothing pending, so `TickMoves` follows; `NetRecordsTellTheRows` and
`DerivedGraphFollowsCircuit` take it along `CircuitFormed` and `MirrorInv`, where a sum
of +1 or -1 is an appearance or a disappearance since a row is there once.

### The counts of a tick

`Held`, the invariant between two ticks, is `WellFormed`, `PlanHolds`, and, while no assertion
has failed, `Exact` and `Filled`:

* `PlanHolds`: the plan's closed relation is the closure of its base, which is the asserted
  edges; the closed pairs nobody asserts are support rows, and there are no others. It
  needs no other part of a circuit, since closures run on the asserted base. That both deletion
  algorithms end with the closure is `DeleteBySupportClosed` and
  `DeleteByRecomputeClosed`: a pair that some path of remaining edges connects is
  either not over-deleted or re-derived within as many rounds as there are nodes.
* `Exact`: each weight is the number of rule instances whose body is in the extent, each
  trace the product of its two rows, the extent 1 where either base has the row and 0
  elsewhere, and a rule that owns a row derives it.
* `Filled`: a row with a derivation is in the extent.

`Exact` is the hard one, as it is false inside a tick, and false in different ways.
Weights and traces are always exact against the *extent* (`Recounted`): the bilinear delta
of a join, cross terms included, is the change of the join, for bodies of two and three atoms,
also when a row occurs in a body twice (`JoinIsShift`, `Products`). What is not is
the extent against the *bases*: the merge and the closure passes change the bases first,
and `Noted` says that the delta handed to the next round is precisely the
difference. A round adds its delta to the extent, so after it `Noted` holds with
the delta that the round's transitions yield. The insertion fixpoint, overdeletion and
rederivation are each a loop over such rounds whose deltas have one sign, with an invariant
of their own (`GrowStates`, `ShrinkStates`, `RegrowStates`): overdeletion removes all that
may have lost its last derivation, rederivation gives back what still has one, and the tick reports
the net of the two (`TwoPhaseEnds`). At the end of the last loop the delta is
empty and `Noted` is the exactness of the extent. If a fixpoint is
cut off by `MaxRounds` it is not, but then the assertion has failed; this is why `TickExact` has
`sound` as its condition, and no other. `RunRulesExact`, `RecomputeRulesExact` and
`RecomputeFallbackExact` put the regimes together. The fallback counts afresh and is exact
without a condition (`ReplacedExact`); it is `Filled` if its last round added no row, which
the code asserts of it.

`TickSound` goes the other way along the same loops: the sign of each delta, weights that do
not fall below zero, which follows from `Recounted` as they count something, and
the measure that bounds the rounds, the size of the extent. For the fallback the measure
is the size of the recomputed rows (`RecomputedDerives`): from no rows at all nothing derives
(`ClosedEnds`), and from one row on, a round that is not the last adds a row, so that round
number |Triple| adds none. The assertion on net records
needs that a row's pending records come to -1, 0 or 1, hence `TickMoves`.

What is entailed is present by `Filled` and `PlanHolds` (`EntailedPresent`): the present
rows contain the asserted ones and the closure, and are closed under the rules, and
`Entailed` is the least such set. That nothing else is present cannot be read off
a circuit: a cycle of rules may support itself, with exact weights. It is an invariant
(`TickSupported`) whose proof is about overdeletion: each row that rests, through whatever
cycle, on a row that went is cut (`CutCloses`), since it was `Rooted` and the rows that
are left derive from those that did not go; and what comes back has a derivation from rooted
rows. The exception is the one `engine_self_support` shows: when a tick takes the
asserted copy of a row that a rule owns, nothing is cut (`Unshadows`).

### The change feed

`FeedInv` says of the record being published that it has been through the subscribers'
list but for the targets still to come (`TargetsLast`), that who failed is not among
these (`FailedPassed`), that the queue of a consumer that has gone is empty, and that
between ticks nothing is half published. The stream of each subscriber is then what it
read, what its queue holds and, for those whose turn is over, the current record.

### The input log

`LogInv` has types, what the driver's memory may hold in each phase (`LogControl`), which
part of the log is unsynced (`LogSync`: only inputs, the last of those pending), the accounts, and
that replaying the log gives the groups that were ticked (`Grouped`). Ticks enter only by
what `CircuitProofs` says: a tick's base is the old one plus the sum of its records,
whatever rules and closure do, in the incremental path and in the fallback. Accounts add
multiplicities, so the proof is arithmetic on sums over concatenated logs. The hypothesis
`~SlowRecovery` says that no checkpoint falls due inside a recovery. It is needed: with
`SlowRecovery` the run `slow_recovery` finds an input lost.

### SPARQL Update

`JournalInv`: while a journalled request runs, the journal has the state at the start of
every quad in it, and every other quad is as it was; nothing is assumed of the circuit,
since a commit changes rows as the batch says or not at all. `BaseInv`: the base counts
each row of the default graph that the circuit was told of once. This needs that the flips
fed to a tick are exactly those rows that change, that a failed commit's inverse tick
takes them back, and that the engine does not feed retractions of bulk-loaded rows.
`MirrorInv`: the circuit is well formed and, until a commit fails, the derived graph
holds its derived rows. A commit that netted the tick's records moves the graph as
the tick moved the rows; one that overflowed sets it by difference, whatever it held, which is
why an overflow also ends `rolledBack`.

`EngineInv` and, in the driver, `CircuitHeld` take `Held` along the ticks of a behaviour,
through inverse ticks, attaches, crashes and replays; publishing changes nothing of it.
`EngineInv` also says that, unless a tick has unshadowed a row since the last attach, what is
present is entailed (`Rooting`). For `QueriesSeeEntailed` (`QueriesRead`) the invariants of all
three layers meet: the visible rows are the default graph's and the derived graph's; by
`BaseInv` the former are the asserted base and the bulk loads; by `MirrorInv` the latter are
the derived rows, until a commit fails; and by `EngineInv` base and derived rows together
are what the base entails.

### Where TLC was asked first

TLC finds `TierInv`, `StoreInv`, `FeedInv`, `LogInv`, `CircuitFormed`, `CircuitHeld`,
`JournalInv`, `BaseInv`, `MirrorInv`, `EngineInv`, `Shape` and `Safe` to be invariants of the
instances `tier`, `gc`, `driver`, `engine`, `durable_crashes` and `durable_faults` of section 3.

### Only model-checked

* `TickEnds`, `RecoveryEnds`: liveness and `ENABLED` are out of the prover's reach.
* The six disagreements of section 3, which are counterexamples.

## 5. Plan

Every safety property that a run checks is stated by a theorem. What is left, in this order:

1. **Placement**: `rebalance()` over `MemoryTier`; the checkpoint scheduler of the
   server.
2. **Rules**: generated rules as ground instances of their tables, so that the circuit's
   instances are those of OWL 2 RL.

### Not modelled

* Byte layouts (partition columns, cold and dictionary files), snapshot export,
  SIMD kernels, the matrix kernels of the closure backend: data conversion and
  arithmetic over large inputs, which the state machines here use by contract.
* The OWL 2 RL engine's generated rules, the join planner and the worst-case optimal
  joins: sequential algorithms over a frozen snapshot. They would be operator
  modules checked against a reference, without actions.
* SPARQL parsing, planning and expression evaluation, the HTTP layer, configuration,
  metrics, bindings, test drivers and benchmarks: translation and input/output.
* Of modelled parts: `rebalance()` and its access counters; bulk parsing; `LOAD` and
  the source checks of `ADD`, `MOVE` and `COPY`; more than one named graph; plans
  registered with a circuit that has already ticked; edge transactions of the
  incremental closure; the durable feed slot, which advances in a commit of its own.
