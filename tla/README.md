# The SGLang runtime in TLA+

This directory models the parts of the runtime under `src/python/sglang/srt` in
which several actors share state, checks the models with TLC and proves the most
important properties with TLAPS. Paths below are relative to that directory
unless they begin with `docs/`, which stands for `src/docs/`.

## The system, and what is modelled

A server is a *tokenizer manager* process (one asyncio loop that owns the HTTP
requests), one or more *scheduler* processes (each runs an event loop that builds
batches, launches forward passes and owns the KV memory of its GPU) and ZMQ
sockets between them. With prefill/decode disaggregation, prefill and decode
servers are different machines, and the KV cache of a prompt is written by RDMA
from the one into pages of the other.

| Group | Modules | Code |
| --- | --- | --- |
| LoRA adapters: registry, usage counters, load and unload handlers, generate calls, the scheduler's loaded set | `LoRARegistry`, `MCLoRARegistry`; proofs in `LoRARegistryInv`, `LoRARegistryProofs` | `lora/lora_registry.py`, `managers/tokenizer_control_mixin.py`, `managers/tokenizer_manager.py`, `lora/lora_manager.py` |
| KV memory: radix prefix cache, page allocator, request rows | `RadixTree` (tree operations), `KVCache` (the scheduler's use of them), `PagePool` (what is promised), `KVCachePool` (refinement), `MCKVCache`; proofs in `RadixTreeProofs`, `KVCacheInv`, `KVCacheInserts`, `KVCacheAlloc`, `KVCacheProofs` | `mem_cache/radix_cache.py`, `mem_cache/allocation.py`, `mem_cache/allocator/`, `managers/schedule_batch.py`, `managers/scheduler.py` |
| Reader-writer lock | `RWLock`; proofs in `TokenizerSyncProofs` | `utils/aio_rwlock.py` |
| Pause, continue and weight updates | `SchedulerLoop`, `WeightVersions`, `WeightUpdate` (composes them with `RWLock`), `MCWeightUpdate` | `managers/tokenizer_manager.py`, `managers/tokenizer_control_mixin.py`, `managers/scheduler.py`, `managers/scheduler_components/weight_updater.py`, `utils/weight_versions.py` |
| Fan-out of control requests | `Communicator`; proofs in `TokenizerSyncProofs` | `managers/communicator.py` |
| KV transfer between prefill and decode ranks | `KVChannels`, `PrefillTransfer`, `DecodeTransfer`, `KVTransfer` (composes them), `MCKVTransfer` | `disaggregation/prefill.py`, `disaggregation/decode.py`, `disaggregation/common/conn.py`, `disaggregation/mooncake/conn.py` |

`PROJECT.json` maps every definition to the lines it models, lists the runs, the
theorems, the hazards and, for every property of a passing run, a *mutant*: a
variant of one definition, written just before it (`UnloadAtOnce` before
`WaitForUnload`, `ReleaseReaderSilent` before `ReleaseReader`), with which the
property fails. No specification uses these variants; they show that the
property depends on that piece of code.

### How steps are cut

* **asyncio code** (LoRA, lock, weight updates, communicator). One thread runs all
  coroutines, so a step is the code between two points at which a coroutine really
  suspends. An `await` of a lock that is free does not suspend. The header of each
  module says where its suspension points are.
* **Scheduler.** One iteration polls the socket, handles each message, then runs a
  batch. Handlers are one step each. In the overlapped loop the results of a batch
  are processed one iteration later, with the next batch already in flight.
* **Threads** (KV transfer). The threads of a rank share dictionaries without a
  lock. A step ends wherever another thread's access can matter: between "room in
  request_status" and `check_status`, for instance (`CheckRoom` and `ReadStatus`,
  `RecvAbort` and `ReadActive`), between the test and the marking of a room on ABORT, or
  between the counting of the last response and `update_status` (`CountResponse` and
  `MarkSuccess`).
* **Schedulers of a tensor-parallel group** run in lockstep and agree on a poll by a
  MIN all-reduce; `AllReduce` is that minimum.

### State and actions

**LoRARegistry.** `registry`, `lru`, `counters`/`counted` are `_registry`, its
order, and `_counters`; `backend` is `lora_manager.lora_refs`. `lora_update_lock` is
the FIFO of an `asyncio.Lock`. Updates are `SendLoad`, `LoadReply`, `UnloadLocked`,
`WaitForUnload`, `UnloadReply`; calls are `Start`, `Reload`, `Acquire`, `Increment`
(one task of the gather of a batched acquire), `Dispatch`, `EndRequest`, `Release`,
`Fail`. A uuid is a name with a load number.

**KVCache.** A node of the tree is named by its whole token path, which a split does
not change. `Admit`, `Extend`, `Decode`, `CacheUnfinished`, `Finish`, `Retract`,
`Abort`, `CheckDecodeMem` and `FlushCache` are what the scheduler does to the KV
memory; `Refuse` is a match whose request is then not admitted, which may still
split a node. Which requests are batched, in which order, and which leaf is evicted
first are left open. `content` is a ghost: the token path whose KV a page holds.

**RWLock.** `readers`, `writer_active` and `waiting_writers` are the three counters,
`woken` the waiters with a pending wake-up. `CancelWait` is `task.cancel()` in
`Condition.wait`; `Renotify` says whether the installed CPython passes the wake-up
of a cancelled wait on to another waiter (newer releases do).

**WeightUpdate.** Each request and each trainer is a task. A request passes
`is_pause_cond`, takes the reader side of `model_update_lock`, is sent, and keeps the
lock until its final output. A trainer makes the calls of its program: pause in one
of three modes, update from disk or tensors, continue. The scheduler's state is that
of `SchedulerLoop`; `out` records which version made each token, and `spans` what
`weight_versions.py` reports. `weight_version` is the version in force: an update may
name none, the same again or an earlier one (`RecordVersionChange`). `chunked_req` is the
request whose prompt is prefilled in part; an abort marks it in `chunked_abort`
(`_pending_chunked_abort_req`), and the next iteration ends it unless a retract has
moved it back to the queue.

**Communicator.** The list and the event that a call creates are named by the call;
`pipe` holds requests and replies of each scheduler, in order.

**KVTransfer.** One bootstrap room. `request_status` is `prefill_status` and
`decode_status`, one per rank; `transfer_infos`, `outstanding`, `ack_target`, `armed`,
`acks` and `held` are the dictionaries of the managers. `use` numbers the requests
that use the room, and names the pages each was given; `release` says why they were
given up: `committed` (the request decodes), `failed` (released at once), `drained`
(every prefill rank acknowledged the abort) or `timeout`. On the prefill side `sender` is
the queue that the request is in. An abort there acts by queue: a bootstrapping or
in-flight request fails and is cleared by the next poll (`AbortSender`), a waiting one is
dropped and leaves its room as it is (`AbortWaiting`), one between two chunks fails without
`clear()` (`AbortChunked`).

`Dispatch` is the router (`sglang_router/mini_lb.py` draws the room at random from 2^63).
`Settled` and `Clean` are assumptions on the environment, not code: a room is used again
only when nothing of its last use is under way, and no rank has an entry of it left. They
stand for how unlikely it is that a room is drawn twice; the findings below say what
happens without them.

## The runs

Each is `tlc -config <cfg> <module>`.

| Run | Expect | Question |
| --- | --- | --- |
| `lora_single` | pass | Two calls for one adapter each, one control coroutine, two names of which one is pinned, one adapter allowed. No request loses its adapter (`InUseIsLoaded`), counters are exact (`CounterExact`), registry and scheduler agree between updates (`EventuallyConsistent`), the limit holds (`LoadedBound`), every queued update completes (`UpdatesComplete`). |
| `lora_faults` | pass | Batches, failing tokenization, disconnects, failing unloads: each registered adapter keeps its counter and names stay unique (`RegistryCounted`). |
| `lora_list_race` | violation | A batched acquire against an unload (finding 1). |
| `kv_tokens` | pass | Two requests that share a prompt and may diverge after it, three pages of one token. `OneOwner`, `NoLeak`, `ReadsOwnTokens`, `LocksExact`, `AccountingExact`, `FailsOnlyWhenFull`, and the refinement `PoolSpec`. |
| `kv_paged` | pass | The same with pages of two tokens, for the properties in which rounding to pages matters. |
| `rwlock` | pass | Five tasks, seven acquisitions, cancellations at any time. |
| `weight_update` | pass | Four set-ups (`PassSetups`): retract beside an unpaused update from disk, overlapped loop; abort and then in place, normal loop, chunked prompts, clients that disconnect; retract, overlapped loop, chunked prompts, clients that disconnect; a flushing update without a pause, chunked prompts. |
| `update_retract_flush` | violation | Retract, then an update that flushes (finding 2). |
| `pause_twice` | violation | Pause in place, then pause by abort (finding 3). |
| `communicator` | pass | Three calls, up to two schedulers, either mode, a fan-out that changes, cancelled callers. |
| `kv_transfer` | pass | Three set-ups (`PassSetups`): two prefill ranks with aborts and timeouts of the decode side; one rank and three chunks, with aborts on either side, timeouts, lost messages, failing writes and failing nodes; the same with one chunk and the room used twice. |
| `kv_transfer_failure` | violation | Two prefill ranks, one of which fails (finding 4). |

What the properties say is in the comment above each definition. Three things
deserve a word here.

* `PoolSpec` is an abstract specification: a page is free, cached under a path or
  owned by one request, and a held path stays cached with all its prefixes. `KVCache`
  implements it under the mapping in `KVCachePool`, so lock counts, splits and rows
  may be forgotten by whoever reasons about a scheduler.
* `WeightUpdate` states `SpansTruthful` and `UpdatesIdle` for clients that are still
  connected. A disconnected request lets go of the reader lock before the scheduler
  has aborted it.
* `Communicator` states `OneInFlight` and `OwnReplies` until a caller in queueing
  mode is cancelled (see the findings without a run). `KVTransfer` holds
  `DrainedIsQuiet` and `CommitComplete` for one decode rank and for a room that is
  used again only when nothing of its last use is left.

### Bounds

* LoRA: `MaxLoads = 2` uuids for a name allow a load, an eviction and a reload. With
  `MaxLoadedLoras = 1` every second load evicts; the pinned name makes eviction
  impossible at times. A bound on uuids is a guard of starting a load (`MayLoad`).
* KV: three pages are one fewer than two requests need together, so eviction,
  retraction and failed allocations happen; two tokens give every split and
  divergence of short paths; `MaxLen` lets a request pass a page boundary in decode.
  Pages and requests are symmetric; tokens are not declared so.
* Lock: five tasks give two waiting writers beside two waiting readers and a holder,
  seven acquisitions let tasks come back.
* Weight updates: two requests, `MaxTokens = 2`, so a version change can fall before,
  between and after the tokens, and change back to an earlier one. Trainers have fixed
  programs, hence no bound on calls. A prompt has at most two chunks: a middle one, which
  makes no token, and the last.
* Communicator: three calls are one in flight, one queued and one that arrives.
* KV transfer: with three chunks a request can be aborted between two chunks while the
  first is queued or written; with one the first chunk is the last. The room's second use
  meets the threads that the first one ended. Each fault may happen any number of times.

Runs say `CHECK_DEADLOCK FALSE` where the system may stop: requests, calls,
acquisitions or uses are finite in number. In `lora_single` a handler can always
begin another unload, and deadlock is checked.

### Fairness

* LoRA: weak fairness of every coroutine and of the scheduler (asyncio runs each ready
  task; a dispatched request ends by `max_new_tokens`). Nothing obliges a client to
  begin a call.
* Lock: weak fairness of `Continue`: woken tasks run and holders leave their critical
  section. Nobody must ask for the lock or cancel.
* Weight updates: weak fairness of the scheduler loop, each request and each trainer.
* Communicator: weak fairness of calls and of replies.
* KV transfer: weak fairness of each side as a whole (its threads, its scheduler and, on
  the prefill side, the bootstrap timeout): some step of a side is taken if the side can
  go on, which is less than the operating system gives each thread. Strong fairness of
  `PopTransferred` and `ResolveDeferredReleases` with every timeout expired. Each pass of the decode
  scheduler runs both after it has handled the aborts of that pass, so an abort that
  keeps disabling them for a moment cannot keep them from being taken. `process_decode_queue`
  skips `pop_transferred` while retracted requests wait to resume; the model assumes
  that they do resume. Timeouts are assumed to expire in the end, which is the only
  thing that ends a transfer whose messages are lost.

## What is proved

TLAPS checks all proofs; the constants are arbitrary but for the named assumptions in
the modules that declare them.

**KV memory** (`KVCacheProofs`). For every number of requests, pages and tokens, every
page size and every length:

* `OneOwnerAlways`, `ReadsOwnTokensAlways` and `LocksExactAlways`, from `KVInvariant`.
  None of the three is inductive alone: whether an insertion hands a page on once
  depends on what the row shares with the tree, and that the shared part is still there
  depends on the locks. The inductive invariant `KVInv` therefore has the shape of the
  tree (`Shape`: prefix-closed, nodes where paths branch), exact lock counts (`Locks`),
  disjoint ownership (`Apart`), the contents of the cached pages (`Filled`) and, for each
  request, how its row, lengths, locked node and stage fit together (`ReqInv`).
* `ImplementsPagePool` (`PoolSpec`): `KVCache` implements `PagePool` under the mapping of
  `KVCachePool`. The initial states correspond, and every action, from a state with
  `KVInv`, is one of `PagePool`'s or changes none of its variables. The lemmas by which an
  action keeps `KVInv` also say what it does to the owners of pages; the refinement is
  read off them.
* `NoPageLost` (`NoLeak`). Every page is free, cached or owned: a step of `PagePool` keeps
  that (`CoveredStep`), so the refinement carries it to `KVCache`.
* `AccountingExactAlways` (`AccountingExact`): `evictable_size_`, `protected_size_` and
  `evictable_leaves` are what the lock counts say. `Account` states it as the cardinality
  of the cached pages whose node is unlocked or locked, and needs no sum over nodes: a
  split moves no page between the two sets, a lock or unlock moves those on one path.
* `AllocFailsOnlyWhenFull` (`FailsOnlyWhenFull`, an action property): an allocation fails
  only with nothing left to evict. When the eviction stops short it has removed every node
  it can reach from `evictable_leaves`; an unlocked node that is left would have an
  unlocked leaf below it (`EvictsAll`, which needs `Locks` and `Account`). The other half is
  arithmetic: the tokens that `alloc_for_extend` and `alloc_for_decode` hand to
  `evict_from_tree_cache` cover the pages that the batch lacks (`ExtendNeed`, `DecodeNeed`),
  so an allocation cannot fail without the eviction having stopped short.

`RadixTreeProofs` has the lemmas on the tree operations (match, split, insert, lock,
evict), on the accounting and on numbers of pages. `KVCacheInv` has the invariant, the
actions that leave rows alone, and what allocating and settling pages means for `PagePool`;
`KVCacheInserts` has `CacheUnfinished`, `Finish`, `Retract` and the accounting of every
action; `KVCacheAlloc` has `Extend`, `Decode` and the failing allocations. Three facts about
finite sets and numbers (`Counts`, `GreatestExists`, `SetSizes`) are hypotheses of these
lemmas or conjuncts of `KVInv`, so that the library's theorems are in scope only where they are needed:
`KVCacheProofs` derives them from the library, and no theorem has them as a hypothesis.

**LoRA, in every environment** (`LoRARegistryInv`). `TypeCorrect` (`TypeOK`) and
`RegisteredIsCounted` (`RegistryCounted`) for any number of adapters, calls and control
coroutines, with tokenization errors, clients that go away, batches and unloads that fail.
`BaseInv` adds that only the holder of `lora_update_lock` is in an update, and that the
adapter it unloads has left the registry (`Exclusive`).

`RegistryMatchesScheduler` (`EventuallyConsistent`) assumes `Orderly`: no client goes away
and no unload fails in the scheduler. Without it the property is false (see the findings
without a run). `Synced` follows `backend` through an update: one message or one reply is
under way, that of the update (`InStep`), and at each of its points `backend` is the
registry with or without the adapter (`Mirrored`). `LoadedIsBounded` (`LoadedBound`) assumes
`PinnedFit` as well, that the pinned adapters fit `--max-loaded-loras`: `validate_new_adapter`
(`lora/lora_manager.py:312`) keeps them below `--max-loras-per-batch`, which is at most
that. `Within` adds that the least-recently-used order is total on the registry, so the
eviction loop always finds an adapter.

**LoRA, without faults** (`LoRARegistryProofs`). `SafeUnload` (`InUseIsLoaded`) and
`ExactCounting` (`CounterExact`), under `Quiet`: each call names one adapter, tokenization
succeeds, no client goes away, and a request ends by an output without a 5xx abort or by
an `AbortReq` echo with one. Outside `Quiet` they are false (finding 1 and the findings
without a run). The invariant `IInv` adds to the mutual exclusion of updates that one
message or reply is under way (`Serial`), what is known of its adapter (`Updating`), and
that registered adapters are counted and counted ones are loaded (`Counting`).

**Lock** (`TokenizerSyncProofs`). For any number of tasks: `MutualExclusion` (`Exclusive`),
`CountersExact` (`CountsExact`), `WritersFirst` (`ReadersYield`, an action property),
and, if a cancelled wait passes its wake-up on, `WakeupsKept` (`NoLostWakeup`). The
first three follow from `LockInv`. `NoLostWakeup` is not inductive: after the only
signalled waiter goes back to sleep nobody may be left; `WakeInv` adds `Signalled`, a
free lock has signalled every writer that waits, which decides that case.

**Communicator** (`TokenizerSyncProofs`). For any number of calls and schedulers, either
mode and any changes of the fan-out: `OneRequestInFlight` (`OneInFlight`),
`CallsReturnOwnReplies` (`OwnReplies`) and `ServedInArrivalOrder` (`ArrivalOrder`, an action
property). `IInv` says of the event that is set as the current one that each scheduler has
either answered into its list or has yet to answer (`InFlight`), of the events that are
done that their lists are whole and nothing of them is in a pipe (`Complete`), and who
holds the lock in queueing mode (`Turns`).

Only model-checked:

* liveness: fairness and `ENABLED` are beyond the prover;
* `TypeOK` of `KVCache`, which bounds the lengths by the model's `MaxLen` (the proofs use the
  types in `KVInv` instead);
* weight updates and KV transfer, which compose several modules in a few fixed set-ups.
  `ComputeSpans` is a fold, so what it computes for every list of events is out of reach as
  well; `SpansTruthful` checks it against the history `out` in every reachable state.

## Findings

1. `lora_list_race`: `LoRARegistry.acquire` with a list looks all adapters up under the
   lock and increments their counters later, in `asyncio.gather`. An unload between the
   two finds a zero counter, and `wait_for_unload` returns although the batch is about
   to use the adapter (`lora/lora_registry.py:157`, docstring at line 188).
2. `update_retract_flush`: after a pause with retract the requests are in
   `waiting_queue`, `is_fully_idle` is false and the flush of an update fails its
   assertion, which ends the scheduler. `managers/io_struct.py:1748` says that the cache
   can be flushed in this mode.
3. `pause_twice`: `pause_generation(abort)` after a pause in place polls for a lock that
   the paused scheduler's requests keep; it holds `is_pause_cond` while it polls, so
   `continue_generation` cannot end the pause (`managers/tokenizer_manager.py:2011`,
   against `managers/io_struct.py:1736`).
4. `kv_transfer_failure`: when one prefill rank reports a failed write, the decode side
   releases the pages at once (`disaggregation/decode.py:2383`); another prefill rank
   may still write into them. The comment above says that writing has stopped.

### Findings without a run

Each is reproduced by the module's cfg with the changes named here, the property alone,
and `CHECK_DEADLOCK FALSE`.

* **A request is released twice.** `_wait_one_response` releases the adapter of a 5xx
  abort that `_handle_batch_output` has released (`managers/tokenizer_manager.py:1689`).
  `LoRASingle.cfg` with `Ends = {"output", "output5xx"}` and `PinnedNames = {}`:
  `InUseIsLoaded` fails.
* **A failed tokenization keeps the adapter.** `_release_req_states_on_failure`
  (`managers/tokenizer_manager.py:3473`) does not release it, and an unload then waits for
  ever. `LoRASingle.cfg` with `Calls = {c1}` and `TokenizeFails = TRUE`: `UpdatesComplete`
  fails.
* **Parallel sampling releases once too often**, for the request that caches the common
  prefix (`_handle_batch_request`). `LoRASingle.cfg` with `Paths <- MCSame`, `Kinds =
  {"parallel"}`, `MaxBatch = 2`, `Calls = {c1}`: `CounterExact` fails.
* **A disconnect while an adapter is reloaded** leaves it loaded but unregistered
  (`managers/tokenizer_control_mixin.py:636`). `LoRASingle.cfg` with `Disconnects = TRUE`:
  `EventuallyConsistent` fails.
* **A lost wake-up.** Without the re-notification of newer CPython releases, a cancelled
  wait can leave the lock free with tasks asleep. `RWLock.cfg` with `Renotify = FALSE`,
  four tasks and `MaxAcquires = 4`: `WaitersServed` fails.
* **A flush without a pause** can fail its assertion
  (`managers/scheduler_components/weight_updater.py:108`): requests that were answered may
  still be in the batch. `UpdateRetractFlush.cfg` with `Setups <- FlushSetups`:
  `FlushSucceeds` fails.
* **Spans after a pause in place.** A batch launched before the update is processed after
  it, and its token is attributed to the new weights
  (`docs/docs/advanced_features/sglang_for_rl.mdx:583`). `UpdateRetractFlush.cfg` with
  `Setups <- InPlaceSetups`: `SpansTruthful` fails.
* **An update after a pause meets a running request.** A generate call that has passed the
  pause gate waits for the reader lock behind an unpaused update. That update ends, and
  before the call is resumed a trainer pauses in mode abort: the lock is free, so the pause
  returns at once. The call then takes the lock and sends its request, and the trainer's
  update, which takes no lock while generation is paused
  (`managers/tokenizer_control_mixin.py:529`), reaches the scheduler beside it. The flow is
  documented as one in which no inference is active
  (`docs/docs/advanced_features/sglang_for_rl.mdx:601`). `UpdateRetractFlush.cfg` with
  `Setups <- AbortSetups` and `PROPERTY UpdatesIdle`: it fails.
* **A cancelled caller of the communicator** leaves its request in flight and the next
  caller sends another (`managers/communicator.py:22`: "Only one request is in-flight at
  any time in either mode."). `Communicator.cfg` with `OneInFlight` without its guard
  `Undisturbed`.
* **A second decode rank's metadata revives a failed room.** `update_status` takes the
  maximum and `Failed` is 0, so metadata that comes after another rank's ABORT makes the
  room active after it was acknowledged (`disaggregation/common/conn.py:399`: "True once
  every prefill rank that could still write these pages has acked."). `KVTransferFailure.cfg`
  with `Decodes = {d1, d2}` and `Setups <- TwoDecodesSetups`: `DrainedIsQuiet` fails.
* **A KeyError ends a thread.** "room in request_status" and `check_status` are two reads
  without a lock, and `clear()` may come between them, in the transfer worker
  (`disaggregation/mooncake/conn.py:1735`) and in the bootstrap thread (line 2091); the
  decode thread has the same pair at lines 2255 and 2257. `kv_transfer` reaches all three.
  A dead bootstrap or decode thread is made up for by timeouts (`SendersConclude`,
  `PagesReleased`); a dead worker serves no later chunk. `KVTransfer.cfg` with the last
  disjunct of `SendersConclude` removed: it fails, in the room's second use, when the
  decode side gives up by a node failure, which sends no ABORT.
* **An entry comes back after `clear()`**, and `update_status` guards only against `Failed`
  (`disaggregation/common/conn.py:367`). On the decode side `update_status(Success)` after a
  node failure has cleared the room leaves a room that has succeeded, and the next request
  that uses it decodes without KV: `KVTransferFailure.cfg` with `Setups <- SettledSetups`,
  `CommitComplete` fails. On the prefill side late metadata brings the old pages back, and
  the next request is written there: the same with `reuse |-> "clean"` and `Clean` without
  its first conjunct.
* **A late acknowledgement counts for the next request of the room**
  (`disaggregation/common/conn.py:265`: "a stale/late ack for a reused bootstrap_room is
  dropped"). `KVTransferFailure.cfg` with `Setups <- LateReuseSetups`: `DrainedIsQuiet`
  fails. It needs a router that uses a room again at once.

## Not modelled

* **Within the modelled parts.** LoRA: weights, the memory pool and kernels. KV memory:
  speculative over-allocation, bigram keys, hit counts, priorities, KV events, the
  deferral of a free group, hybrid SWA and Mamba pools; the free list is a set. Weight
  updates: the draft worker, prompts of more than two chunks, what `abort_request` does to
  the grammar, dLLM and encoder queues and, with disaggregation, to the transfer queues
  (the latter are in `KVTransfer`), the truncation of version events on a retraction with
  `input_embeds`, `update_weight_version` without new weights, two paused updates from
  disk at once (they overwrite each other's future; no document says that they may be
  made). KV transfer: preallocation and the bootstrap server, staging buffers, dummy
  ranks, optimistic prefill, the metadata gate, the socket error of `send_metadata`,
  pipeline-parallel consensus, re-bootstrap, and the nixl, mori, ascend and fake
  backends; the end of a chunk in the worker (the count, the acknowledgement and the teardown
  with its status test) is one step, and so is the abort of a request on all ranks.
* **HiCache** gives each node a second, host-side lifetime with threads of its own; **SWA,
  Mamba and unified caches** have lock counts and tombstones for each component; **sessions**
  keep rows across requests. Each needs a model as large as `KVCache`, and its proof does
  not carry over.
* **Pipeline parallelism** and the **model gateway** (Rust) are protocols of their own; of
  the routers only the dispatch of a request to both sides is modelled.
* **Admission budgets and scheduling policy** choose among steps that the models allow in
  any order. The **data-parallel controller** chooses a worker; stale load reports make
  that choice unbalanced, never wrong.
* **DP attention**, **EPLB**, **kernels**, **model execution**, **model loading**,
  **multimodal processing** are numeric code or I/O; the **detokenizer**, **parsers** and
  **entry points** are string handling; **grammar compilation** touches none of the
  modelled state.
