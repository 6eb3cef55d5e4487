# Formal models of noy-db

noy-db is a document database for the browser and Node: records are encrypted
on the client and kept in any key/value store; devices converge by pushing to
and pulling from a shared, untrusted remote store. This directory holds TLA+
models of its protocols, TLC configurations that check them on small instances,
and TLAPS proofs of what should hold for any instance. Paths below are relative
to `src/packages/` and `engine.ts` is `hub/src/with-sync/engine.ts`.

## 1. Inventory

| Component | State it keeps | Operations | Interacts with | Hard behaviour |
|---|---|---|---|---|
| **SyncEngine** (`hub/src/with-sync/engine.ts`) | `dirty` array, its saved copy `_sync/meta`, online flag, auto-sync timer | `trackChange`, `removeDirty`, `push`, `pushFiltered`, `pull`, `sync`, `ensureLoaded`, `persistMeta`, conflict resolution | local store, remote store, Collection (cache invalidation), scheduler | every operation awaits between reading and writing; compare-and-swap conflicts; lost answers; restart from a saved log |
| **Collection write path** (`hub/src/kernel/collection.ts`) | decrypted cache, set of known delete markers | `put`, `delete`, `forget` split in prepare / commit / tail, `_invalidateCacheEntry` | local store, `onDirty` hook | mints versions from the cache, not from the store |
| **Envelope rules** (`hub/src/kernel/enclave/record-keys/tombstone.ts`) | none | live records, delete markers, tombstones | everything that compares versions | versions alone do not order deletes and erasures |
| **Noydb wiring** (`hub/src/kernel/noydb.ts`) | engines per vault | `openVault`, `onDirty` fan-out, `sync` | Collection to SyncEngine | the fan-out is not awaited |
| **SyncScheduler** (`hub/src/kernel/sync-policy.ts`) | state `idle/pending/pushing/pulling/error`, timers, pull sequence | `notifyChange`, `executePush`, `executePull`, `start`, `stop`, unload hooks | calls push and pull | overlapping runs overwrite one state variable; timers that are never armed again |
| **Stores** (`hub/src/kernel/memory-store.ts` and the `to-*` packages) | slots of envelopes | `get`, `put` with an expected version, `delete`, `list`, `loadAll` | all of the above | compare-and-swap is the only cross-device synchronisation |
| **Transactions** (`hub/src/with-commit/tx/transaction.ts`) | staged operations, snapshots | pre-flight, per-op or atomic execution, best-effort revert | Collection, stores, ledger | re-read versions, partial failure, revert over newer writes |
| **Ledger and sequences** (`hub/src/with-commit/history/ledger/store.ts`, `.../sequence/index.ts`) | hash chain with cached head; counters | append and next, by a compare-and-swap retry loop | stores | concurrent appenders, crash between entry and delta |
| **Write queue, schema fence** (`hub/src/kernel/write-queue.ts`, `hub/src/with-shape/schema-update/`) | depth, waiters, one error; fence record | enter, settle, flush; announce, drain, cut over, abort, overlay | Collection, registration, stores | one error for all waiters; a fence document several instances write without compare-and-swap |
| **Tab coordination** (`hub/src/with-sync/tab-coordination.ts`, `tab-write-relay.ts`) | role, lock, channel | elect, heartbeat, relay a write | browser locks and channels | lock grants that arrive after a channel closed |
| Keyring, custody, policy, guards, periods, tiers, forget index, blobs, links, derivations, views, indexes, query, cache, fork, pod, cargo, adapters, bindings, CLI | see `PROJECT.json` | sequential computations over records, or I/O behind the store contract | | no protocol of their own, or cryptographic data |

What makes each protocol correct:

* SyncEngine: no record is left different from the remote with nobody knowing
  (no silent divergence); a write to the remote supersedes what it replaces; an
  erasure is final; an entry leaves the dirty log only when its record was
  settled; repeated sync converges and empties the log.
* Collection: cache and marker set agree with the store whoever wrote it;
  versions minted from them supersede the record they land on.
* Dirty log: one entry per record; a walk visits each entry once, exactly the
  completed ones leave.
* Scheduler: a notified write is eventually offered to a push; the shown state is
  never stuck at busy; after stop nothing starts.
* Ledger, sequence: the chain never forks and has no gaps, a returned append is
  complete; no number is handed out twice, numbers follow real time.
* Transactions: all or nothing, a checked write replaces what was read, and a revert
  touches nothing but what the commit wrote.
* Schema fence: while records are rewritten, who acknowledged the drain has nothing left
  from before it; an instance behind the records is refused; the barrier is left.

`PROJECT.json` lists every component with its status and every hazard with the
source line where it bites and the properties that cover it.

## 2. Modules

| Module | Models |
|---|---|
| `Envelope` | the three kinds of envelope a slot can hold, their constructors, the version a cache remembers, the compare-and-swap of a store |
| `SyncEngine` | several devices, each with its store, Collection views, dirty log and engine, and the shared remote; EXTENDS `Envelope` |
| `DirtyMap` | abstract specification: what a dirty log promises to a push, to a pull and over a restart |
| `DirtyLog` | the array inside one engine: load, track, filter, save, index walk, splice, restart; implements `DirtyMap` |
| `SyncScheduler` | when an engine pushes and pulls: policies, timers, page hooks, phased start, stop |
| `CasCounter` | abstract specification: an atomic counter that may burn numbers |
| `SequenceStore` | `next` and `seedTo` of several callers over one compare-and-swap row; implements `CasCounter` |
| `AppendOnlyLog` | abstract specification: a log that only grows, one entry at a time |
| `LedgerStore` | the hash chain of a vault, appended to and purged by several instances; implements `AppendOnlyLog` |
| `TxCommit` | `db.transaction` next to plain puts: drain, pre-flight, replay or batch, revert |
| `SchemaFence` | a schema cutover: write queue, write gate, watchers, drain barrier, rewrite, and the other writers of the fence |
| `MC...` | instances for TLC: symmetry sets, policies, batches |
| `..._proofs` | theorems about the module of that name; `SyncEngineCopies_proofs` goes on where `SyncEngine_proofs` ends |

`SyncEngine` and `DirtyLog` meet in `DirtyMap`. `SyncEngine` treats a device's log
as a function from ids to versions; `DirtyLog` shows that the array with its
index arithmetic behaves like that function (`ImplementsMap`), and
`SyncEngine` shows that its pulls and pushes use the function only in the ways
the array supports (`ImplementsDirtyMap`). `SyncScheduler` decides when those pushes
and pulls begin; it needs of the log only which writes are in it.

### SyncEngine: state and actions

| Variable | In the code |
|---|---|
| `remote`, `local[d]` | slots of the remote store and of a device's store |
| `cached[d]`, `markerIds[d]` | version in `Collection.cache`, the set `Collection.markerIds` |
| `dirty[d]`, `meta[d]` | version in the record's dirty entry (0: none) and in the saved log |
| `app[d]` | where the one application call in progress stands |
| `task[d]` | where the push, pull or sync in progress stands, its snapshot, record in hand, completed ids |
| `strategy[d]` | the `conflict` option |
| `unmarked` | history: records whose pending mark a crash lost |
| `setBack` | history: records whose remote copy a put has set back (section 4) |
| `ops`, `faults` | consumed bounds |

An application call is three steps: `PreparePut/Delete/Forget` (version minted),
`CommitCall` (store write), `FinishCall` (cache, `onDirty`, `trackChange`). A push
is `PushStart`, then per record `PushRecord` (take the entry), `PushRead`
(`local.get`), `PushPut` (the compare-and-swap put), on refusal `PushResolve`
(`remote.get` and the decision), `PushForce` (the unconditional put of the
winner), `ApplyRemote` and `InvalidateCacheEntry`; then `PushFinish` (splice) and
`SaveMeta`. A pull is `PullStart` (`loadAll`), per record `PullRecord` (`local.get`
and the decision), `ApplyRemote`, `InvalidateCacheEntry` or `ReassertTombstone`,
then `PullFinish` and `SaveMeta`; `sync()` is a pull that continues as a push. An
awaited store call takes effect in one step with the continuation it resumes.
`RemoteFails` makes a remote call throw, `AnswerLost` lets a put land and then
throw, `Crash` restarts a device from its store and its saved log.

Four constants name environments in which the code is known to fail:

| Constant | When TRUE | Passing runs |
|---|---|---|
| `DevicesOverlap` | two devices sync at the same time | TRUE |
| `ResolveWindow` | another device may write the remote inside the remote.get-to-put window of a conflict | FALSE |
| `AppDuringSync` | the application writes while its own engine syncs | FALSE; TRUE in run `lost_write` |
| `RecreateErased` | the application puts an id it holds a tombstone of | TRUE in `sync_safety`; the re-created record restarts at version 1, which is why `NoSilentDivergence` sets `setBack` records apart |

The passing runs and the theorems say what is guaranteed outside of those windows;
section 4 says what happens inside them. The theorems need `AppDuringSync` and, for
`SupersedesRemote`, `ResolveWindow` FALSE, and neither of the others.

### DirtyLog: state and actions

`dirty`, `meta` are sequences of entries; `saved` tells whether `_sync/meta`
exists; `loading` holds the calls awaiting it; `run[p]` is a push's loop index,
record in hand, completed indices. `TrackChange` replaces or appends,
`RemoveDirty` is the filter of `removeDirty` and of pull, `PushNext`,
`PushCompleted`, `PushFailed`, `PushFinish` are the loop, `LoadStart` and
`EnsureLoaded` the two halves of `ensureLoaded`. The answer of the remote is a free
choice. `only` is the subset of records `pushFiltered` or `push({collections})`
lets through. A filter runs only while no push does: that is the order inside
`sync()`; the outside caller `removeDirty` during a push is left out with the
satellite fan-out. `Overlap` (pushes may overlap) is the environment of the violation
run; a second member of `Loads` (two calls race to load the log) is one no run uses
and the theorems allow or exclude by name.

### SyncScheduler: state and actions

`state`, `started`, the timers `debounce` and `pullTimer` (the push interval is armed
while a scheduler of that policy is started) and `recent` (less than `minIntervalMs`
since the last success) are the scheduler's own; `loaded`, `dirty`, `saving` are what
it sees of the log; `pushes`, `pulls` are the calls in flight, `walks` the phased
starts with the phase each awaits, `readiness` the marks of the collections. `owed` is
history: the writes notified since start that no push has been begun for.
`executePush` and `executePull` are split at their await: `DebounceFires`,
`PushIntervalFires` and `FireUnloadPush` begin a push, `PushResolves` and `PushThrows`
end it; `PullTriggered` stands for every way a pull is asked for, `PullResolves` and
`PullThrows` tell the walk that waits, which goes on in `PhaseEnds`. A pull saves the
state it found and restores part of it (`AfterPull`), which is where a state could stay
busy.

### SequenceStore and LedgerStore

A call of `next` or `seedTo` is `Begin`, `Read` (`get`, with the seed's early return),
`Put` (accepted), `Conflict` or `Refused` (retry, or contention error at the last
attempt), `AnswerLost` (applied, then thrown or sent again by the retrying
middleware) and `StoreFails`. `row` has the store's version and value; `burned` counts
the numbers a lost answer took. `seen` of a call is the row it read, `floor` the
greatest number returned before it began.

An append is `Begin` (on the cached head) or `Load` and `CacheHead`, then `PutEntry` or
`Conflict` (cache dropped, `Retry`), `PutDelta` when it has a delta, and `Finish` (the
cache moves). The two puts are `Claim` and `WriteDelta`, under any order of instances;
`cache[s]` may be stale or `Unknown`. A hash is the chain itself, so that two entries
have one hash only if they have one past. `PurgeStart` lists the index, `PurgeOne`
deletes one delta, `PurgeEnd` returns. `AnswerLost`, `StoreFails` and `Crash` are the
faults; after a crash the instance's cache is unknown and its calls have failed.

### TxCommit: state and actions

`store` and `cache` hold per record the envelope's version and writer, `job[a]` a commit
or a plain put at its place: the batch, the index, what the body read (`seen`), the
pre-flight's snapshot (`prior`), the revert plan. A plain put is `Put` (mints from the
cache, registers in the gate), `PutStore`, `PutReturns` or `PutThrows`. A commit is `Body`,
`Drain` and `Drained` (the writes in flight on its keys), `Preflight`, then `Execute`
with a put of its own per op, or `Prepare`, `Batch`, `Finalize`; on an error `Revert` and
`Uncache`, newest first. A put called after the drain is not waited for: that is the
code, and the properties speak of earlier ones. `txAtomic` chooses the store.

### SchemaFence: state and actions

`fence`, `docs` and `record` are what the store holds: the fence document, the presence
documents, and the generation whose shape the record has. The rest is memory: `client[c]`
the instance's generation, its watcher (`check`: idle, waiting for a flush, flushed) and
the queue's kept error; `write[w]` a put before, in or behind the queue; `cut[a]` the
place of `runCutover`; `back[k]` a fence document somebody has read and will put back.

A put is `Put`, the gate (`assertWritable`), then `Track`, the queue, then `Lands` or
`WriteFails`; between the first two the code awaits the fence's answer, the prior record
and the hooks, so anything may happen there, whatever the write. `Settle` wakes whoever
waits for the queue. A watcher is `Beat`, `Check`, `Acknowledge`, and `Silent` when its
document goes stale; it runs in `Watched`, since it starts with the registration that
decides on the cutover. A cutover is `RunCutover`, `SetDraining`, `Flush`, then polls
(`Poll`, `ReadDoc` document by document) until `Quorum` or `TimesOut`, then
`SetMigrating`, `Rewrite` (or `RewriteFails`), `SetComplete`, `SetNormal`. Two more
operations put the fence, each a read and a put an await apart, from any instance: `Abort`,
`AbortSets`, and a registration's overlay of the schema hash
(`persisted-schemas/register.ts:135`), `Register`, `OverlaySets`, which puts generation
and state back as it read them.

Four parts are history, which the code does not record: `fence.seq` numbers the fence's
changes, so that `Overtaken(a)` says that another writer has changed it since a's cutover last
moved it; `acked.seq` and `counted` tell an acknowledgement this drain asked for from an older one;
`late` marks a write that entered the queue while the fence was up; `crossed` remembers
that a writer of the fence, or a rewrite, went on over a change it had not read, or that an abort
came over rewritten records. No guard reads them.

## 3. Properties and runs

| Run | Checks |
|---|---|
| `sync_safety` | all safety properties of `SyncEngine`, two overlapping devices, one fault of any kind, any pair of `version` and `remote-wins` |
| `sync_converges` | convergence, empty logs, and refinement of `DirtyMap` under fairness, two `local-wins` devices (the strategy where both insist) |
| `dirty_log_single` | the array implements the map while one push at a time runs |
| `scheduler` | five policies with overlapping pushes and pulls, stop and a second start |
| `sequence` | three racing calls implement the counter, with lost answers and failures |
| `ledger` | three appends of two instances and a purge implement the log, with two faults |
| `tx` | one commit, per-op or atomic, beside two plain puts and two faults |
| `cutover` | a cutover and its retry beside another instance's watcher and two writes, and an abort or an overlay at any time |
| `lost_write`, `erasure_pushed_over` | two statements of the code's docs and tests that `SyncEngine` violates |
| `overlapping_pushes` | an entry that leaves the array unsent |
| `cutover_old_client` | a migrated record overwritten by an instance the barrier does not count |

Sync. `NoSilentDivergence`: a record at rest with no pending entry either equals the
remote's copy or differs in a way the next pull acts on, unless a put has set the
remote's copy back (`setBack`): replaced it with something a pull of it would not act on,
or put a live record or a marker over a tombstone. `SetBackOverErasure`, in the proofs, says
that only the second happens, as long as no mark of the record was lost and no other
device writes inside a resolution. `SupersedesRemote`: a
push replaces the remote's slot only with something newer, an erasure, or the
delete of a tie. `ErasureTerminal`: only the device's own put replaces a
tombstone in its store. `OwnWritesSupersede`, `ViewsCoherent`: the version counter
continues across deletes, because cache and marker set follow every writer.
`DirtyVersionMatches`: the compare-and-swap's expectation is derived from the
version push will find. `EventuallyConverged`, `EventuallyCaughtUp`: the liveness
of repeated sync. `UniqueEntries`, `IndicesStable`, `ImplementsMap`: the array.
A crash between a record's store write and the save of its dirty entry loses
the mark (`trackChange` is not awaited); `unmarked` records this, and the
properties about pending writes exclude such records rather than hide them.

Scheduler. `BusyIsTrue`: a state shown as busy has a call in flight, though pulls
overwrite the state of pushes and the reverse; a stuck "pushing" would silence every
later push. `EveryWriteOffered`: a write notified to a debounced or interval scheduler
gets a push that begins later. `PullingNeverTerminal`: a collection does not stay at
"pulling". `QuietAfterStop`: no walk, timer or hook starts anything after `stop`.

Sequence and ledger. `RealTimeOrder`: numbers follow real time. `GapsAreLostAnswers`: a
number nobody got is one whose put was applied and its answer lost. `LosesOnlyToOthers`:
an attempt is lost only to a put that was applied. `ChainVerifies` is what `verify`
computes. `ReturnedIsComplete`: entry and delta of a returned append are there, unless
purged. `OncePerCall`: a retry duplicates only after a lost answer. `PurgeIsComplete`: no
delta of an append that returned before the purge survives it.

Transactions. `CommitRespectsEarlierPuts`: of a put called before the drain and an op
with `expectedVersion` neither overwrites the other unseen, on either path.
`AbortedLeavesNothing`, `RevertStaysInside`: the revert is complete and touches only what
the commit wrote. `CommitEnds`: the drain cannot wait for who waits for it.

Cutover. All three hold next to any number of other writers of the fence, and say
where those end them. `QuietWhileMigrating`: during the rewrite, with the fence as the
cutover put it, the migrator and whoever has acknowledged this drain have nothing in
their queues but writes that passed the gate before the drain and entered after it.
`BehindIsRefused`: the gate refuses an instance whose generation is below the record's,
through retries, timeouts and failed rewrites, unless `crossed`. `CutoverSettles`: the
barrier is left without its deadline, unless the cutover is overtaken.

### Bounds

`SyncEngine`: two devices, one record, two bodies (equal bodies at equal
versions must be distinguishable from different ones), three application
calls and one fault (two calls and no crash under fairness). Records do not
interact in the engine except through the order in which a task visits them;
three calls are enough for create, conflicting edit or erase, and a follow-up.
Re-creation after an erasure is among the calls (1.3 million states). A run of five
calls without faults and without re-creation (3.4 million states) passes offline.
`DirtyLog`: three ids, four writes and one restart, so that an entry can be replaced,
removed and appended again during one walk; ids are symmetric. Five writes pass offline.
`SyncScheduler`: two phases, two writes, two starts, two pushes and two pulls in flight:
the second of each is what overwrites the state of the first, and the second start
meets what the first left behind (36,957 states).
`SequenceStore`: three calls, two attempts each, two faults: a call can lose to two
others and give up (204,743 states).
`LedgerStore`: two instances, three appends of which one is about the record the purge
forgets, two attempts, two faults, so that a crash can follow a lost answer; stores and
the other calls are symmetric (2.1 million states, under two minutes).
`TxCommit`: two records, batches of two ops (both checked, one checked, the same record
twice), two puts, two faults: a finalizer's error and one more (206,114 states).
`SchemaFence`: one admin, one more instance with a watcher, two writes (one may hold up
the flush another waits for), two cutovers, so that a retry meets what the first left, one
abort or overlay, one fault (343,866 states). The admin's own watcher is left out: its
barrier does not count its own document. The violation run adds an old instance. The
invariants also pass, offline, with two admins (2.8 million states) and with two calls that
write the fence (738 thousand).

### Fairness

A call or a task that has begun goes on (weak fairness of its steps): the
continuation of a resolved promise always runs. In `SyncEngine` `sync()` is started
again and again whenever it can be (strong fairness of `PullStart(d, TRUE)`): the
interval timer of `startAutoSync` fires for ever; strong, because a timer that
fires while another sync runs finds it possible only now and then. Nothing is
assumed of failures except their bound, nor of single pushes or pulls.
In `SyncScheduler` an armed timer fires and a call of the engine ends, one way or
the other; a walk's continuation is strongly fair only because the bound on pulls in
flight may hold it back for a while. Writes, `start`, `stop`, page hooks and triggered
pulls need not happen. In `SequenceStore` and `TxCommit` the steps of a begun call are
weakly fair, its faults are not. In `SchemaFence` a queued write settles, a watcher beats
and checks (its interval), a begun cutover goes on; that the deadline passes, a write held
by a hook is queued, a fence document is put back or a tab falls silent is never assumed.

## 4. Findings

Four statements of the repository are violated; `PROJECT.json` has the quoted lines.

| Run | In short |
|---|---|
| `lost_write` | a write during its record's push leaves the log unsent (`engine.ts:419`) |
| `overlapping_pushes` | so does one tracked while two pushes overlap (`engine.ts:419`) |
| `erasure_pushed_over` | a tombstone keeps its version, so an offline edit is pushed over it (`engine.ts:339`) |
| `cutover_old_client` | an instance without a presence document is not waited for (`vault.ts:778`) |

The models know of more, which no run reports: behaviours of the code that a property
or a constant sets apart.

* Sync: a conflict's winner overwrites a write that came between its two remote calls
  (`engine.ts:389`, `ResolveWindow`); a pull overwrites a forget that lands between
  its read and its write (542, `AppDuringSync`); two calls that load the log overwrite
  each other's entry (1114, a second member of `Loads`).
* Sync, an erasure that loses against a re-creation: a tombstone is put unconditionally,
  at its own version (332), so it can lower the remote's version, and a live record can
  then be put over it. Three devices and five calls end in copies that differ for good:
  d1 and d2 hold version 1; d1 edits to version 3 and pushes; d3, which has not pulled,
  forgets its version 1 and pushes the tombstone over version 3; d2's pending version 2
  passes the compare-and-swap over it. d1 holds version 3 with nothing pending, the
  remote version 2, and no pull of d1 acts on a lower version. Deletes in place of the
  erasure do not do this. `setBack` marks such records.
* Scheduler: a push that leaves entries behind shows "pending" with nothing armed under
  the on-change policy (`sync-policy.ts:497`); after a restart the saved entries wait
  for a call that loads the log (486). `EveryWriteOffered` is about neither.
* Ledger: the class comment says that append reads the adapter fresh; it reads a cached
  head, and only the compare-and-swap keeps the chain whole. A purge misses the delta of
  an append that is between its two puts (`store.ts:400`).
* Transactions: a put called after the drain can carry the version of the batch and
  replace it, and so can two overlapping plain puts of a record (`collection.ts:2071`,
  `Overlap`); a revert overwrites a put that lands between the commit's write and the
  revert; two commits at once are not ordered (`alone` in the properties).
* Cutover, the fence document: `register.ts:124-136` says of its overlay that re-reading
  "narrows (does not eliminate)" the window in which it rolls a cutover back, and
  `store-coordination-provider.ts:74` accepts the same. In the model such a put, or that of an
  abort, takes down the fence of a cutover in progress (a watcher that reads "normal"
  never acknowledges, and only the deadline ends it), puts a fence up again after the
  cutover has ended, or lowers the generation, so that the gate admits instances
  behind the records. Two admins do the same to each other. `Overtaken` and `crossed` mark
  these. An abort, read and put with nothing in between, also opens the gate at the old
  generation when a rewrite has begun; the record is then transformed again by the retry.
* Cutover, the barrier: a write that has passed the gate and is not yet in the queue is
  seen by no flush (`collection.ts:1570-1589`, `late`); after an abort or a timeout the next
  drain of the same generation takes the earlier one's acknowledgements for its own
  (`fence-watcher.ts:69`, `counted`).

## 5. Proofs

Each safety theorem follows from one inductive invariant, proved with one lemma per
action.

`SyncEngine_proofs`, for any devices, ids, bodies, strategies and bounds:

* `TypeCorrect`: `Spec => []TypeOK`. The invariant `TypeInv` adds `RecordInHand`, that a
  task in a record step has a record with the fields that step reads;
  without it `ApplyRemote` could store `Nil`.
* `ErasureIsTerminal`: if no application call runs during its own engine's sync,
  `Spec => ErasureTerminal`. The invariant `ErasureInv` says of every task between
  its decision and its write that the slot still is as the decision saw it: a
  body about to be put is the slot's, a conflict being resolved is not over a
  tombstone, and nothing but a tombstone is about to be applied over one. The
  hypothesis keeps the application from changing the slot in between; without it a
  forget between a pull's read and its write is undone (section 4).

`SyncEngineCopies_proofs` relates the copies of a record that a device keeps, and the
remote's. Each invariant is built on the one before, and TLC checked the conjunction
before it was proved:

| Invariant | Says | Theorems |
|---|---|---|
| `ShapeInv` | what a task at each place holds in hand, and that its snapshot, its list and its completed ids belong to its phase; no envelope has version 0 | `EngineUsesDirtyMap` (`ImplementsDirtyMap`), in every environment |
| `CallInv` | a call in progress has minted above the slot it will write, and every record but the one in a call or being refreshed has coherent views | `ViewsAgree`, `MintedVersionsSupersede` |
| `LogInv` | a dirty entry names the stored version, or the task in progress is about to remove or renew it; a push's expectation is that entry's | `EntriesNameStoredVersions` (`DirtyVersionMatches`) |
| `ForceInv` | between `remote.get` and the put of a conflict's winner the winner supersedes the slot, and one device at a time is there | `PushesSupersede` (`SupersedesRemote`), `SetBackIsReCreation` |
| `CopiesInv` | every copy of a record that is not set back, stored, in a snapshot, in hand or just completed, is *settled*: it equals the remote's, or a pull acts on the difference | `DivergenceIsSeen` (`NoSilentDivergence`) |

The heart of the last is that whatever a put brings forward (`Forward`) keeps every
settled copy settled, in all devices' snapshots and hands at once: the other devices
need not be looked at one by one. All of them but the first assume that no application
call runs during its own engine's sync (`~AppDuringSync`), without which TLC violates
them; `ForceInv` also that no device writes the record inside another's resolution
(`~ResolveWindow`). `DivergenceIsSeen` needs no such thing of the resolution: an
overwritten write is lost, but its author's next pull sees that.

`DirtyLog_proofs`, for any records, pushes, loads and bounds:

* `TypeCorrect` and `EntriesUnique`, without any assumption on the environment. The
  inductive invariant `LogInv` adds that a push holds a record exactly while it
  awaits an answer.
* `IndicesStay` and `ArrayImplementsMap`, under `OneAtATime` (pushes do not overlap,
  one call loads the log; section 4 says why both halves are needed).
  The invariant `WalkInv` adds that at most one push walks, that the others
  are as new, that the index has passed every completed position and is at most one
  past the end, and that nothing walks before the log is loaded. The
  refinement has one lemma per action: the array's step is the map's
  step of the matching name, or a stutter. Its core is `KeptGives`: removing
  positions yields an array in which every kept entry stands at its rank, proved
  from the pigeonhole facts of the library because a rank is injective.

`SyncScheduler_proofs`, for any policies, phases and bounds: `TypeCorrect`,
`BusyIsHonest`, `StopIsQuiet`. `BusyIsTrue` is inductive once the slots are known to be
well formed: a push's end always leaves the state it set, or finds a pull's, and a pull
restores nothing but "pending". `BusyInv` adds that no timer is armed while stopped, from
which `StopIsQuiet` follows step by step.

`SequenceStore_proofs`, for any calls, seeds, attempts and faults: `TypeCorrect`,
`NumbersFollowTime`, `ContentionIsProgress`, `GapsAreBurned`, `SequenceIsCounter`. `SeqInv` relates a call
to the row: what it has seen is the row of an earlier version, an equal version means an
equal row, and the value never falls; so an accepted put builds on the value it saw, and
the number it returns is above everything returned before the call began.
`GapsAreBurned` counts: an accepted put adds one number to those below the value, which is
returned or burned, and a seed covers what it skips.

`LedgerStore_proofs`, for any stores, calls and faults: `TypeCorrect`,
`ChainAlwaysVerifies`, `ReturnedAppendsAreComplete`, `PurgesAreComplete`, `ChainIsLog`,
`AppendsLandOnce`. `LedgerInv` has a part for each thing a stale instance can hold: a
head, cached or in a call, is the head of a prefix of the chain (`HeadInv`); an entry
claimed and not yet finished stands where the call thinks (`ClaimInv`); a delta row
belongs to the entry of its index (`DeltaInv`); what a purge still owes lies ahead of
its walk (`PurgeInv`). A put that finds its slot free therefore builds on the whole
chain. `OnceInv` counts a call's entries against its lost answers.

`SchemaFence_proofs`, for any instances of either release, any number of admins, aborts,
overlays and writes and any bounds: `TypeCorrect`, `BarrierHolds`, `GateHolds`, without a
hypothesis on who writes the fence. `FenceInv` has a part for each thing that can be
out of date. `SeqInv`: nobody remembers a change of the fence still to come, so whoever
remembers the present one has missed none, and a change leaves every memory behind
(`MovedKeeps`). `MarkOf`: an acknowledgement of the present drain speaks of a queue that
holds late writes only, and no other write enters under a raised fence (`LateKeeps`).
`PhaseOf`, `QuietOf`: a cutover that is not overtaken finds the fence where it put it, and
whoever it counted still so. `BackOf`: an overlay that has missed no change puts back what is
there. `GateInv`: the record is ahead of the generation only behind a raised fence, which
with `CountInv` gives `BehindIsRefused`.

`TxCommit_proofs`, for any records, batches, commits, puts and faults: `CommitTypes`,
`RevertsOwnRecords` and `AbortsLeaveNothing`. `LocalInv` is about one job at a time: where
it stands decides what its batch, its revert plan and its envelopes are, so a step of
one job leaves the other jobs' parts alone. `CleanInv` says that the envelopes of a commit
no other commit disturbs lie on records of its revert plan only, and that no snapshot
holds one; a revert that has walked its plan has therefore left nothing.
`EarlierPutsRespected` assumes `OneCommit`: one transaction, and puts of one record that do
not overlap (`~Overlap`). `CourseInv` keeps what the pre-flight found true of the ops it
passed, `WaitInv` follows the puts of before the drain until none is at work on the
batch, and `VersionInv` says that versions tell envelopes apart: what the body read is in
the store or older by version, and a put at work mints the store's next version. The
last needs both halves of
`OneCommit`: a put mints from the cache, which is a step behind the store, and so two
puts, or a put and the commit it was called during, can store two envelopes of one
version; a check of a later commit, which compares versions, then cannot tell them
apart (`collection.ts:2071`). TLC checks the other three with two commits as well
(4.5 million states, offline).

The proofs use the named assumptions of the modules only: which constants are distinct,
bounds are naturals, switches are Booleans.

Every invariant, every action property and every refinement the passing runs check is
stated by a theorem. Only model-checked is liveness, since the prover handles neither
fairness nor ENABLED: `EventuallyConverged`, `EventuallyCaughtUp`, `EveryWriteOffered`,
`PullingNeverTerminal`, `CallsEnd`, `CommitEnds`, `CutoverSettles`.

## 6. What is abstracted

* Payloads are model values; encryption, the decrypt await of
  `_invalidateCacheEntry`, `mergeAuthority.verify` (always accepts) and timestamps
  are left out. `advancePastRemote` is a restamp.
* In `SyncEngine` one application call at a time per device; local store calls do not
  fail; saves of the log are coalesced and do not reorder.
* Eager collections only; one engine per vault; built-in strategies only.
* Left out of push and pull: `merged` and `deferred` resolutions,
  partial-sync filters (in `DirtyLog` as `only`), period scope, the
  reserved-lookup loop, the `delete` branch of push that no caller reaches.
* A restart hydrates the collection in the step that restarts the device.
* Scheduler: `forcePush` and `forcePull` (nothing calls them), the phase counter, status
  timestamps; readiness of collections no phase names.
* Sequence, ledger: stores without compare-and-swap (refused, or last-writer-wins);
  `peek`, `reconstruct`, `entries`; backoff delays.
* Transactions: a delete is the write of a marker; amendments, changeset invariants
  beyond a refusal, nested derivation writes, dry runs, several vaults, a second commit.
* Fence: an error nobody waits for is dropped with the busy period; the strategies that
  call for a cutover, mesh providers other than the store's, several collections per cutover;
  a second check of a watcher, or a second poller of a barrier, beside one that waits; the two
  store calls of a heartbeat's put. The schema hash is left out, its writer is not:
  `setFence` re-reads the document only for that field, and overwrites generation and state.

### Not modelled

Tab coordination is next in the plan. The rest of `PROJECT.json`'s `not_modelled`
components are, in three groups: computations over records at rest (query, indexes,
search, reduce, schema strategies, validation, CLI and bindings), which have no
interleaving to check; cryptographic state (keyring, custody, enclave, attestation),
whose content is what the abstraction leaves out; and I/O behind the store contract
(the `to-*` packages, transports, archives, pods), of which `Envelope` and `SyncEngine`
keep what a caller may rely on. They make up most of the repository's lines.

## 7. Plan

1. `TabCoordination`: locks granted after a channel closed, relayed writes.
2. In `SyncEngine`: `removeDirty`, two concurrent calls on one device, an asynchronous
   local store with saves of the log that reorder (`engine.ts:1135`).
3. In `TxCommit`: a second commit, derivation writes.
4. Runs with `AppDuringSync = TRUE`: without faults, `SupersedesRemote` and
   `ImplementsDirtyMap` hold (1.6 million states); `NoSilentDivergence`,
   `DirtyVersionMatches`, `ViewsCoherent` and `OwnWritesSupersede` do not, by the races
   of section 4. State which order of calls they need.

Proofs: `EarlierPutsRespected` for several commits, with a hypothesis on their puts in
place of `OneCommit`; what stays true of `SyncEngine` when the application writes during a
sync (point 4), record by record instead of device by device; the invariants the liveness
properties rest on, as facts about what is enabled where.
