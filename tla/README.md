# TLA+ models of the dingo-poc store node

This directory holds TLA+ models of the store node in `src/`: the write
path of a region from RPC to braft to the storage engine, the read path,
region lifecycle in the replicated engine, the region directory with its
durable mirror and key encoding, the in-memory engine, and the
coordinator load client. Every action is translated from the
C++ source. `PROJECT.json` maps each definition to the lines it models
and lists the runs, mutants, findings and hazards.

## 1. Inventory of the system

| Component | Source | State it keeps | Operations |
|---|---|---|---|
| Store RPC service | `server/store_service.cc` | none of its own; a `Context` per request owning the RPC `done` closure | AddRegion, ChangeRegion, DestroyRegion, KvGet, KvBatchGet, KvPut, KvBatchPut, KvPutIfAbsent, KvBatchPutIfAbsent, each with a `Validate*Request` |
| Storage facade | `engine/storage.cc` | none | KvGet (reads the keys one by one through a reader), KvPut / KvPutIfAbsent (build a datum, call `AsyncWrite` with a callback that puts an error into the response) |
| Replicated engine | `engine/raft_kv_engine.cc` | `RaftNodeManager`: region id -> `RaftNode` | Recover, AddRegion, ChangeRegion, DestroyRegion, Write (sync), AsyncWrite, NewReader |
| Consensus node wrapper | `raft/raft_node.cc` | a `braft::Node` and its state machine | Init (fixed options: 3 fixed peers, `snapshot_interval_s = 100000`, one `local://prefix` path for every region), Commit (propose with a `StoreClosure`), Destroy (empty) |
| Region state machine, StoreClosure | not in `src/` (spec §4.5) | the data column family | on_apply (apply entry, run its closure), leader start/stop |
| braft | external library | log, commit index, leadership | propose, commit, step-down (fails pending closures), replay on restart |
| Region directory | `meta/store_meta_manager.cc` (`StoreRegionMeta`) | map region id -> Region under a `shared_mutex` | IsExist, AddRegion, DeleteRegion, GetRegion, GetAllRegion, TransformToKv*, TransformFromKv, ParseRegionId, GenKey |
| Meta manager | `meta/store_meta_manager.cc` (`StoreMetaManager`) | the directory + `MetaReader` / `MetaWriter` | Init, Recover (prefix scan + TransformFromKv), AddRegion, DeleteRegion |
| Meta reader | `meta/meta_reader.cc` | none | Get, Scan(prefix) |
| Node identity | `StoreServerMeta` | the Store descriptor | Init and setters, read-only afterwards |
| MemEngine | `engine/mem_engine.cc` | `std::map` under a `shared_mutex` | KvGet (returns a Slice into the map), KvPut |
| Meta state machine | `raft/meta_state_machine.h` | - | declarations only |
| Coordinator client | `client/coordinator_client.cc` | a quit flag, the sender bthreads | main (start senders, spin until quit, join), sender (loop: channel init, Hello with timeout, sleep) |
| Tests | `test/test_rocks_engine.cc` | - | all commented out |

### How they interact

* **Write path.** An RPC thread runs `StoreServiceImpl::KvPut`: it validates
  (region known to the `StoreMetaManager`, key non-empty), creates a
  `Context` to which it *releases* `done`, and calls `Storage::KvPut`, which
  calls `RaftKvEngine::AsyncWrite`. With no `RaftNode` for the region the
  handler gets `ERAFT_NOTNODE` and a second `ClosureGuard` runs `done`.
  Otherwise `RaftNode::Commit` hands the entry to braft with a
  `StoreClosure`. A braft thread later applies the committed entry
  (`StoreStateMachine::on_apply`) and runs the closure, which calls the
  write callback and runs `done`; or braft fails the closure (not leader,
  leadership lost, shutdown).
* **Sync write.** `RaftKvEngine::Write` commits, *then* sets sync mode on the
  `Context`, then blocks in `Cond()->IncreaseWait()`; the closure is
  expected to call `DecreaseSignal` when the Context is in sync mode.
* **Reads** bypass braft: `Storage::KvGet` reads the data column family
  directly, one key at a time, without a snapshot.
* **Region lifecycle** goes through the directory (`StoreMetaManager`) and
  the engine (`RaftKvEngine`) separately; the directory is mirrored into
  the meta column family and reloaded at start-up, and
  `RaftKvEngine::Recover` starts one `RaftNode` per recovered region.

### What is hard

* Threads: RPC threads, braft's apply / closure threads, the sync writer
  blocked on a condition; the Context is shared by them with no lock.
* Failure: leadership loss between propose and commit; a process crash
  between two steps of a call; restart with a durable engine but no
  snapshot.
* Ordering: replay order after restart, the order of sync-mode set vs.
  closure run, map update vs. meta write.

### Properties that make each component correct

* Write path: the RPC is answered exactly once; an answer without error
  means the entry is committed; only committed entries are visible; after
  a restart the engine returns to the committed state without going back
  in time; every accepted write is eventually answered; a sync writer is
  eventually woken.
* Directory: between calls the map and the meta records agree (on which
  regions exist, and on their descriptors); add never overwrites; restart
  restores the map.
* Engine lifecycle: one live RaftNode per hosted region; destroy then add
  gives an empty region (spec Scenario D); change on a missing region
  fails cleanly.
* Key encoding: `ParseRegionId(GenKey(id)) = id`, and a malformed key never
  crashes the load.

## 2. Plan

Modules, in order of importance (done ones marked):

1. **WritePath** (done): the write path of one region, with braft
   abstracted, a crash and replay. `MCWritePath` instantiates it.
2. **RegionMeta** (done): the directory plus its meta mirror, with
   concurrent calls, a crash and recovery. `MCRegionMeta` instantiates it.
3. **RegionLifecycle** (done): `RaftKvEngine` AddRegion / ChangeRegion /
   DestroyRegion / Recover, and writes that hold a RaftNode across them.
   `MCRegionLifecycle` instantiates it.
4. **ReadPath** (done): batch puts and reads (KvGet, KvBatchGet through
   `Storage::KvGet`).
5. **KVAbstract** (done): the store as clients see it. A write is
   rejected without effect, or takes effect as one unit between its call
   and its answer; each key read returns the key's current value.
   ReadPath implements it: `KVSpec == KV!ASpec`, with
   `KV == INSTANCE KVAbstract WITH kv <- data, ...`. A refinement of
   WritePath (with step-down and crash) onto it is next; the replay
   finding means it can hold only for behaviours without a crash.
6. **RegionKey** (done): `GenKey` and `ParseRegionId` as operators over
   keys given as sequences of characters, with a RECURSIVE `%lu`
   formatting and `std::stoull` at a reduced id width. RegionMeta's
   Recover uses them.
7. **MemEngine** (done): the Slice returned after the lock is released,
   with the read of a replaced buffer modelled as a nondeterministic
   outcome.
8. **CoordinatorClient** (done): the load client's main and sender
   bthreads, with failing channel inits and RPCs and a quit signal.
9. A composition of RegionMeta with RegionLifecycle through StoreControl.
   StoreControl is not in the repository, so this is modelled from the
   spec only if the spec says how the two are ordered.

## 3. Modules and runs

All runs are listed in `PROJECT.json` with their properties. Each
property of a passing run has a mutant: a plausible bug in a mapped
definition, defined just before it under a comment "Mutant: ...", under
which TLC finds that property violated.

### WritePath (`WritePath.tla`, `MCWritePath.tla`)

**State.**

* Per request: `pc` and the Context (`status`, `syncMode`, `writeCb`,
  `cond`).
* The RPC answer: `respErr` and `doneRuns`.
* The request's `closure` inside braft.
* Per region: the braft `log`, `commitIndex`, `appliedIndex`, `leader`,
  the `node` registered in the RaftNodeManager, and the data column
  family `kv`.
* History: `appliedHW`, the highest index ever applied.

**Actions.**

* `KvPut` and `KvPutIfAbsent` model the whole handler, through `Handle`,
  `Valid`, `AsyncWrite` and `Commit`.
* `WriteCommit`, `EnableSyncMode` and `IncreaseWait` are the three steps
  of `RaftKvEngine::Write`.
* braft and state machine steps: `RaftCommit`, `StepDown`,
  `BecomeLeader`, `ReplicateForeign`, `Apply` and `RunFailed`.
* `Crash`.

`StoreClosure::Run` (`RunClosure`) and `on_apply` (`ApplyEntry`, `Apply`)
are not in `src/`. They are modelled from spec §4.5 and §9.

**Runs.** One async RPC writer, one sync writer, one key, two values; log
≤ 2, one re-election, one crash.

* `writepath` (MCWritePath.cfg, about 170k states) passes:
  `DoneAtMostOnce`, `AckImpliesCommitted` and `ReplayConverges` hold. Under fairness, `AsyncWriteAnswered` holds: an
  accepted RPC write is answered even if the leader steps down before
  commit or the node crashes.
* `writepath_sync_wakeup` is a **violation** of `SyncWriteReturns`.
  1. The closure runs before `EnableSyncMode`. In the trace the node
     was never leader, so braft fails the proposal at once
     (`raft_kv_engine.cc:123`).
  2. The closure finds an async Context with no callback and signals
     nothing.
  3. The writer then waits forever in `IncreaseWait`.
* `writepath_replay` is a **violation** of `ReplayNeverRollsBack`.
  1. Put v1, then put v2; both are applied.
  2. The node crashes.
  3. The replay of entry 1 puts v1 back into the engine, so readers see
     v1 after having seen v2.

**Fairness.**

* Weak fairness is assumed for the sync writer's steps, braft's closure
  thread (`RunFailed`), `Apply` and `RaftCommit`.
* braft runs the apply and closure threads as long as the node lives.
  `RaftCommit` assumes a live quorum, since the spec treats consensus as
  correct.
* Elections and crashes are not assumed to happen fairly; they are
  bounded.

**Bounds.**

* One key and two values are the smallest domain in which two writes to
  one key can be told apart: overwrite, put-if-absent and rollback.
* Two log entries allow the request's own entry plus one competitor: the
  other writer's entry or a foreign leader's.
* One election lets both a step-down and a re-election happen.
* `CHECK_DEADLOCK FALSE`: with a finite set of requests the node becomes
  idle once they are served.

### RegionMeta (`RegionMeta.tla`, `MCRegionMeta.tla`)

**State.**

* `regions`: the map.
* `durable`: the meta column family records, decoded.
* Per thread: `pc` and `arg`.
* `up` and `crashes`.

**Actions.**

* `AddRegion`: the IsExist check.
* `AddInsert`: `regions_.insert` under the unique lock.
* `AddPut`: `meta_writer_->Put`.
* `DeleteRegion`: the erase.
* `DeleteDurable`: `meta_writer_->Delete`.
* `Crash`.
* `Recover`: `StoreMetaManager::Recover`.
  * `MetaScan` is `MetaReader::Scan`: every record whose key starts with
    the prefix.
  * `TransformFromKv` then does `insert_or_assign` of each record under
    `ParseRegionId` of its key. A key that fails to parse lands under 0
    or a wrapped id. If the parse throws `out_of_range`, the process
    never comes up.
  * If the scan fails, Recover returns false, the process does not come
    up, and it is started again. This uses one of the `MaxCrashes`
    restarts.

**Runs.** Region ids 2 and 10 (one and two digits), prefix `r`, 4-bit
ids, two descriptors. `regionmeta` allows two crashes or failed scans,
so a failed scan can follow a crash.

* `regionmeta` (two threads, about 33k states) passes `TypeOK` and
  `RecoverRestoresDirectory`.
  * `RecoverRestoresDirectory`: every successful start-up rebuilds exactly
    the directory the meta column family records. This checks the whole
    round trip: `GenKey`, the scan, `ParseRegionId` and the load. A scan
    failure read as "no records" would break it.
* `regionmeta_race` (two threads, one id, two descriptors) is a
  **violation** of `DirectoryMirrored`: between calls, the records
  should equal the map (spec §3, "durably mirrored 1:1").
  `StoreMetaManager::AddRegion` persists its argument even when the map
  ignored it, and neither AddRegion nor DeleteRegion updates the map and
  the record under one lock.
  * TLC's trace: two threads add region 10, with d1 and d2. The map keeps
    d1, the record ends as d2, and a restart would serve d2.
  * With one descriptor, the same property fails another way: a
    DeleteRegion between AddRegion's insert and its write leaves a record
    for a deleted region.

### RegionKey (`RegionKey.tla`, `MCRegionKey.tla`)

These are pure operators, with no state of their own.

* `Decimal` and `GenKey` are `StringPrintf("%s_%lu")`.
* `Stoull` is `strtoull`, as `std::stoull` uses it:
  * skip blanks;
  * accept one sign;
  * read the longest run of digits;
  * no digit: `invalid_argument`;
  * a magnitude above `2^Width - 1`: `out_of_range`;
  * `-` negates modulo `2^Width`.
* `ParseRegionId`:
  * returns 0 for a key no longer than the prefix;
  * skips `prefix_.size() + 1` characters, without checking what they
    are;
  * maps `invalid_argument` to 0;
  * lets `out_of_range` escape (`Abort`).

The width is 4 bits instead of 64, so a three-digit key reaches the
overflow. The control is the same at any width.

* `regionkey_malformed` is a **violation** of `ParseNeverAborts`.
  * `MCRegionKey` holds one key per state: every key made of the prefix
    `r` and at most three of `_ 1 9 - <blank> x`. This is what
    `MetaReader::Scan` of the prefix range can return.
  * The spec says a malformed key is logged and skipped, and "must never
    crash the load".
  * TLC finds `r-19`. Its suffix `19` exceeds the width, `stoull` throws
    `out_of_range`, and nothing catches it before `main`. The 64-bit
    equivalent is any key whose number exceeds 2^64 - 1.
  * Other malformed keys are not skipped either. They are loaded as
    region 0, or under a wrapped id when the number has a `-` sign.

### RegionLifecycle (`RegionLifecycle.tla`, `MCRegionLifecycle.tla`)

One region. Each RaftNode created for it is an *incarnation*, numbered
by a generation.

**State.**

* `registry`: the RaftNodeManager entry, the generation registered or 0.
* Per incarnation: the braft state `nstate` (unborn / running / stopped),
  the apply position `applied`, and `born` (created by AddRegion or by
  Recover).
* The shared log and `commitIndex`, and the data column family `data`.
* Per writer: `wpc`, the node it holds (`wnode`), its entry (`widx`),
  its `closure` and its answer (`wresp`).
* Per admin thread: `apc`, and the node its destroy holds (`agen`).
* `aborted`, `up` and `crashes`.
* `retired`: an auxiliary set of the incarnations whose DestroyRegion
  has returned. It is filled in the step that returns.

**Actions.**

* `AddRegion`, through `NewNode`: `RaftNode::Init` (refused while
  another incarnation runs, or failing), then `AddNode`.
* `DestroyRegion`: GetNode, then Shutdown, which fails the node's
  unapplied closures.
* `DestroyJoin`: Join, then `DeleteNode(region_id)`. braft's Join
  waits for the node's own threads. It does not wait for the bthreads
  that run the closures Shutdown failed, so the model gives it no guard.
* `ChangeRegion`: the null dereference when no node is registered.
* `AsyncWriteGetNode` and `AsyncWriteCommit`: the two halves of
  `AsyncWrite`. A stopped node fails the task.
* `RaftCommit`, `Apply`, `RunFailed`, `Crash`, and `Recover`
  (`RaftKvEngine::Recover` re-adding the region).

**Runs.** One key, one value, three incarnations, one crash.

* `lifecycle` (two writers, two admin threads, about 626k states)
  passes. With two writers, the same shutdown can leave one entry
  applied and the other failed.
  * `WriteAnswered`: a KvPut that holds a node that is then destroyed is
    still answered. Shutdown fails the closures of the entries it has
    not applied. A write that reaches the node after Shutdown is failed
    by braft. With the fairness below, every one of those closures runs.
    The mutant `CommitDropsOnStopped` drops the task instead.
  * `DestroyHaltsNode` (action property): once DestroyRegion has
    returned, the destroyed incarnation never appends or applies another
    entry. Writers that fetched the node before the destroy still hold
    it and still commit to it. Only `node->Shutdown` (line 93) stops
    it: the mutant `DestroySkipsShutdown` (Join and DeleteNode only)
    lets such a writer append, and the node apply, after the return.
* `lifecycle_leak` is a **violation** of `RunningNodeRegistered`.
  1. A1 shuts down node 1 and is joining.
  2. A2 adds node 2, which braft accepts because node 1 is shut down.
  3. A1's `DeleteNode(region_id)` removes node 2's registration.
  4. Node 2 now runs, but no write or destroy can reach it.
* `lifecycle_readd` is a **violation** of `FreshRegionEmpty` (spec
  Scenario D). Put, destroy, then add: the new node has the old data.
  The data column family is shared and never cleared, and the log path
  (`local://prefix`) is the same for every node and region.

**Fairness.** Weak fairness is assumed for the apply and closure
threads, `RaftCommit`, the writer's commit step, and Join. Join of a
shut-down node ends once braft's own threads have stopped, which the
model does not track.

**Bounds.** Three incarnations are enough for a first node, a node added
during the destroy's join, and one more after a restart.

### ReadPath (`ReadPath.tla`)

**State.** The log, `applied`, `data`, and per request the handler's
step and answer. A reader also has `rkeys`, the values collected so far
(`rres`).

**Actions.**

* The four write handlers (`KvPut`, `KvBatchPut`, `KvPutIfAbsent`,
  `KvBatchPutIfAbsent`), through `Handle` and validation (`ValidKVs`).
* `Apply`: one entry as a unit, then its closure.
* `KvGet` and `KvBatchGet`, through `StartRead` and validation.
* `StorageKvGet`: one iteration of `Storage::KvGet`'s loop, reading the
  column family as it is at that step.

**Runs.** Two writers (any of the four handlers, with any batch over two
keys and an empty key), one reader (a single get or a two-key batch get),
two values.

* `readpath` (about 79k states) passes `KVSpec`: ReadPath refines
  KVAbstract (`KVAbstract.tla`) under the mapping in `KV`.
  * The store is the data column family.
  * A write is pending from its handler to its answer, and its request is
    its log entry.
  * A reader's keys, values and answer are the handler's.

  So every write takes effect as one unit between its call and its
  answer, a rejected request never takes effect, and every key read
  returns the key's current value. Reads bypass consensus, so this holds
  only because the answer is sent after on_apply.
### CoordinatorClient (`CoordinatorClient.tla`)

The load client holds no state shared with the store. Its own
concurrency is what can go wrong: main and `thread_num` sender bthreads
share one quit flag.

**State.**

* `asked`: `brpc::IsAskedToQuit()`.
* `spc`: each sender's place in its loop: the loop test, channel init,
  the Hello call, the sleep after a failure or a success, or exited.
* `late`: an auxiliary count, per sender, of the Hellos it sent after
  quit was asked. `Call` bumps it in the step that sends. It stops at
  `LateCap` = 2, which is all the property tells apart.
* `mpc`, `mi`: main's place (start loop, spin, join loop, returned 0,
  returned -1) and its loop index.

**Actions.**

* `AskToQuit`: the signal, at any time.
* `Top`: the loop test; exits once quit is asked.
* `ChannelInit`: `channel.Init` succeeds, or fails and the sender sleeps.
* `Call`: `stub.Hello`; success, or `cntl.Failed()` (timeout, refused,
  error). A call never outlasts `timeout_ms`, so it is one step.
* `Sleep`: `bthread_usleep`, then back to the loop test.
* `StartThread`: `bthread_start_background` for the next index. A failure
  returns -1 from main, with the started senders still running.
* `Spin`: main's busy loop ends once quit is asked.
* `Join`: `bthread_join` of sender i blocks until it has exited; after the
  last, main returns 0.

Once main returns (`~Running`) the process ends and no thread steps.

**Fairness.** Weak fairness of main and of each sender. bthread workers
run every ready bthread, `bthread_usleep` returns, and every Hello
returns within its timeout. Channel init and Hello may fail at every
attempt: a coordinator that never answers is allowed. The signal is not
assumed.

**Run.** `coordinator` (three senders, about 3.8k states) passes:

* `BoundedCallsAfterQuit`: once quit is asked, a sender sends at most
  one more Hello.
* `ClientTerminates`: once quit is asked, main returns.

Both hold because every path of the loop body, including both failure
paths, ends at the loop test. The mutant `SleepRetriesCall` (an inner
retry of a failed Hello without the quit test) breaks both. With a
coordinator that is down, that retry loops forever, and main blocks in
`bthread_join`.

`CHECK_DEADLOCK FALSE`: main returning ends the process, which is a
final state.

### MemEngine (`MemEngine.tla`, `MCMemEngine.tla`)

Nothing in the repository constructs a MemEngine. It is a raw-engine
backend of the kind spec section 4.1 describes, whose reads and writes
"must be linearizable per key".

**State.**

* `store`: `store_`.
* `buf`: for each key, which buffer holds its value. A new id is used
  each time a put overwrites the key.
* Per reader:
  * `rpc`: the step the reader is at.
  * `rkey`: the key it asked for.
  * `slice`: the Slice it holds, as a buffer id and the bytes in it.
  * `seen`: every value the key held between the call and the read.
  * `rres`: the value the reader read.
* `alive`: whether the process is still running.

**Actions.** Each lock's critical section is one step.

* `KvGet`: `find` under the shared lock. It returns `Slice()` for a
  missing key, or a Slice into the value.
* `KvPut`: assignment under the unique lock. Overwriting a key frees or
  rewrites the old buffer.
* `ReadSlice`: the caller reads the Slice after the lock is gone.
  * If the buffer is unchanged, the reader gets the bytes KvGet saw.
  * If a put replaced the buffer, the read is undefined behaviour. The
    model lets it return the old bytes, the new value, bytes no put
    wrote (`Torn`), or crash the process.

**Run.** `memengine_dangling` (one reader, one key, two puts) is a
**violation** of `KvGetLinearizable`. TLC finds the trace
put v1, KvGet, put v1 again, read `Torn`. The second put assigns a new
string, which frees or rewrites the buffer the Slice points into.

### Defects seen while modelling, without a run

* `MemEngine::Init` (mem_engine.cc:23) has no return statement, which is
  undefined behaviour for a `bool` function. Nothing calls it.

* `RaftKvEngine::ChangeRegion` (raft_kv_engine.cc:84) calls `ChangePeers`
  on `GetNode(region_id)` without a null check. A ChangeRegion for a
  region this node does not host, or one racing DestroyRegion, crashes
  the process. RegionLifecycle models it (`aborted`). It is one step from
  any state without a node, so no run is spent on it.
* `Storage::KvGet` (storage.cc:34) reads a KvBatchGet's keys one at a
  time with no snapshot (`GetSnapshot` returns nullptr). A batch get can
  therefore return some keys before one KvBatchPut and some after it.
  The spec makes batch writes atomic but says nothing on batch reads.
  ReadPath reaches this trace: the batch get reads k1, the batch put of
  k1 and k2 is applied, then the batch get reads k2. It satisfies
  `KVSpec`, whose reads are per key.
* `tids.resize(FLAGS_thread_num)` (coordinator_client.cc:84) turns a
  negative flag into a huge `size_t`, so the client aborts with
  `length_error` before starting any sender.
* `RaftNode::Init` (raft_node.cc:37-48) ignores the peers it is given,
  which in the spec are the region's replica set. It also uses one
  storage path for every region.

## 4. What is not modelled, and why

* braft's election and replication protocol is abstracted. Spec §1
  treats it as a correct building block.
* Snapshots: the code never takes one within the model's horizon
  (`snapshot_interval_s = 100000`).
* Wire formats, logging and protobuf serialization: no property depends
  on them. Region descriptors and values are model values. Duplicate
  keys inside one batch request are not modelled: a batch is a function
  from keys to values.
* The AddRegion / ChangeRegion / DestroyRegion RPC handlers delegate to
  StoreControl, which is not in the repository. The engine calls they
  end in are modelled. How StoreControl orders the directory (RegionMeta)
  and the engine (RegionLifecycle) is unknown, so the two are checked
  separately.
* StoreServerMeta, the meta state machine (a header only) and the
  commented-out tests: see the `PROJECT.json`
  components.
* Still planned (section 2): the refinement of WritePath onto KVAbstract
  and the StoreControl composition.
