# A TLA+ development for UniPrefill

UniPrefill accelerates the prefill of long prompts by dropping, in a few decoder
layers, the tokens that matter least; it is implemented inside a fork of vLLM
0.16.0. This directory holds TLA+ modules that model the parts of that system
where correctness is hard to test, the TLC runs that check them on small
instances, and TLAPS proofs for any instance. Paths below are relative to
`src/vllm-releases-v0.16.0/vllm/` unless they start with `src/`.

## 1. Inventory

| Component | State | Operations | Hard because |
|---|---|---|---|
| Free block queue (`v1/core/kv_cache_utils.py`, `FreeKVCacheBlockQueue`) | links through the blocks, a counter | `popleft`, `popleft_n`, `remove`, `append`, `append_n` | relinking in any order, boundary nodes |
| Block pool (`v1/core/block_pool.py`) | `ref_cnt` and `block_hash` of every block, hash map, free queue | `get_new_blocks`, `touch`, `free_blocks`, `cache_full_blocks`, eviction, `reset_prefix_cache` | three views of one fact; duplicates; lazy eviction |
| KV cache manager (`v1/core/kv_cache_manager.py`, `single_type_kv_cache_manager.py`, `kv_cache_coordinator.py`) | `req_to_blocks`, `num_cached_block` | `get_computed_blocks`, `allocate_slots`, `free` | sharing, capacity check before the change, caching before computing |
| Scheduler (`v1/core/sched/scheduler.py`, `request_queue.py`, `request.py`) | waiting and running queues, per-request counts | `schedule`, `update_from_output`, `finish_requests`, `reset_prefix_cache` | preemption in the middle of a step, budget, priorities |
| Async scheduler (`v1/core/sched/async_scheduler.py`, `step_with_batch_queue` of `v1/engine/core.py`) | steps in flight, output placeholders | schedule ahead of outputs, apply an output | late output of a preempted or aborted request |
| Encoder cache (`v1/core/encoder_cache_manager.py`) | images cached, referenced, reclaimable; slot counters; the runner's tensors | `check_and_update_cache`, `can_allocate`, `allocate`, `free`, `get_freed_mm_hashes` | two counters, lazy eviction, sharing; manager and runner apart by a step |
| Token drop (`model_executor/models/llama.py`, `v1/worker/gpu_model_runner.py`, `v1/attention/backends/flash_attn.py`, `forward_context.py`) | `_token_drop_per_req`, the attention metadata of a step, the KV in every layer | `_update_metadata_after_drop`, per-layer lengths and slot mappings of decode steps, record saving | layers disagree about how many tokens there are; the scheduler does not know |
| Top-p selection (`model_executor/layers/fused_top_p_selection_tp_pd.py`, `src/native_imp.py`) | none between steps | score, all-reduce, cut, expand, broadcast, scatter | ties, padding, equal masks on all ranks |
| Message queue (`distributed/device_communicators/shm_broadcast.py`) | a ring in shared memory, flags, sockets | `enqueue`, `dequeue`, timeouts | no locks: the order of loads, stores and fences |
| Multiprocess executor (`v1/executor/multiproc_executor.py`) | message queues, futures | `collective_rpc`, worker loop, monitor, `shutdown` | answers carry no call number; workers die; bounded queues both ways |
| Data parallel coordinator (`v1/engine/coordinator.py`, `core.py`, `core_client.py`) | wave number and running flag in three kinds of processes | request, wake-up, dummy pass, all-reduce, pause | three views of one fact, messages over independent sockets |
| Gemma3, Qwen3-Next (`gemma3.py`, `qwen3_next.py`, `triton_attn.py`) | as token drop | the same protocol with other layer kinds | sliding windows (in `TokenDrop`), linear attention (not modelled) |
| KV connectors, API server, model and CUDA code | upstream vLLM | | not modelled |

How they interact: a front end sends a request to an engine (with data parallelism
the coordinator wakes the paused ones). The engine loop takes requests, aborts and
resets between steps. The scheduler asks the manager for the cached prefix of a
request and for slots, the encoder cache for images; the manager calls the pool, the
pool its queue. The scheduler's output, which says how many tokens of which requests
to compute, goes through `collective_rpc` and the message queue to the workers. The
runner builds the attention metadata (lengths, slots through the block tables), the
model rewrites it after every layer that drops, and the attention backends read both
that metadata and the runner's per-layer overrides. The only state that UniPrefill
keeps between steps is `_token_drop_per_req`, in the runner. After the step
`update_from_output` appends the sampled token, stops and frees.

What makes the parts correct:

* queue: it is a queue, also when blocks leave from the middle;
* pool: a block is free iff nobody references it, and the cache map, the hashes on
  the blocks and the contents agree;
* manager: every computed position of a running request has that request's own KV
  in its slot; allocation does not fail half way; a held block is never evicted;
* scheduler: no request is lost, order and budget are exact, the runner's copy of the
  requests follows, every request finishes, and what the manager relies on is kept;
* async scheduler: each client gets its text once and in order, whatever is in flight;
* encoder cache: the runner has every output that a step reads, the counters are
  exact, and nobody waits for ever for room;
* token drop: each layer reads and writes exactly the tokens of the request that
  reached it, however its prefill, its decode steps and other requests are batched;
* top-p: the blocks kept hold more than p of the mass, and all ranks keep the same;
* message queue: a broadcast queue, with progress;
* executor: an answer belongs to its call, every call returns, a death is noticed;
* coordinator: engines meet in the same collectives, requests are served, engines rest.

`PROJECT.json` lists the hazards, each at its line, with the properties that would
catch it.

## 2. Modules

| Module | Models | Notes |
|---|---|---|
| `FreeQueue` | what the queue promises | abstract: one sequence |
| `FreeBlockQueue` | the doubly linked list | refines `FreeQueue` (`QueueRefined`) |
| `FreeBlockQueueProofs` | the list is intact and is a queue | theorems |
| `BlockPool` | the pool as a value, its methods as operators | no variables, so that a handler which calls several methods is one action |
| `KVCacheManager` | manager, scheduler protocol, GPU contents | extends `BlockPool` |
| `KVCacheManagerProofs` | what the methods of the pool preserve; bookkeeping: free queue, counts, cache map; and what it is for: contents, capacity, eviction | theorems |
| `Scheduler` | engine loop and scheduler | composes `KVCacheManager` (`INSTANCE`), implements its client (`ManagerSpec`) |
| `SchedulerProofs` | queues, order, budget, runner; composition with the manager | theorems, uses those of `KVCacheManagerProofs` by `INSTANCE` |
| `AsyncScheduler` | several steps in flight | blocks counted, not named |
| `AsyncSchedulerProofs` | no token is lost, repeated or misplaced | theorems |
| `EncoderCacheManager` | encoder cache, its client, the runner's tensors | KV counted in tokens |
| `TokenDrop` | token dropping in model, runner and backend, with full and sliding layers | independent of the pool |
| `TokenDropProofs` | when dropping is right, for any layers, batches and selections | theorems |
| `TopPSelection` | which tokens are dropped, over the ranks | justifies the choice left open in `TokenDrop` |
| `TopPSelectionProofs` | the nucleus, the reference, and agreement of the ranks | theorems |
| `BroadcastQueue` | what the message queue promises | abstract |
| `ShmBroadcast` | ring, flags, store buffers, sockets | refines `BroadcastQueue` (`IsBroadcastQueue`) |
| `MultiprocExecutor` | remote calls and their failures | uses the queue as `BroadcastQueue` specifies it |
| `MultiprocExecutorProofs` | answers belong to their calls | theorems |
| `DPCoordinator` | request waves | |
| `DPCoordinatorProofs` | engines meet, pauses are known | theorems |
| `MC...` | instances | prompts, streams, configurations |

Several modules have a variable `config`, chosen in `Init` from the constant
`Configs` and never changed: it is how the engine was started, so that one run covers
several configurations. Operators with the comment "A fault" are the plausible bugs
that `PROJECT.json` names as mutants; no specification uses them.

### FreeBlockQueue

`nextFree` and `prevFree` are the links, with the fake head and tail as two extra
nodes; `numFree` is `num_free_blocks`. `taken` is what the pool knows: it removes
only blocks that are free and appends only blocks that it has taken. Each method is
an action with the method's checks as guards; `call` is history, the blocks the last
call returned or was given in their order. The refinement maps the abstract queue to
the walk from the head, and `call` to itself, so that results and order count.

### BlockPool and KVCacheManager

A pool is a record of `ref`, `hash`, `cached` and `free`. `cached[h]` is the
sequence of blocks under a hash in insertion order, as the inner dict of
`BlockHashToBlockMap` has them; `get_one_block` returns the first.

The tokens of a request are fixed beforehand: `Stream[r]` is the prompt and what
will be sampled. Equal prefixes of streams are equal KV, so a block hash *is* the
prefix of the stream up to the end of the block (hash collisions are excluded), and
the KV at a position is the prefix that ends there. `content` is the GPU memory.
Actions: `ScheduleWaiting` (prefix lookup, hits touched, slots allocated, full
blocks registered: all of `allocate_slots`), `ScheduleRunning`, `Preempt`, `Finish`
(stop or abort, between steps), `Execute` (the model runs the step that was built;
counts advance; complete requests get a token), `Reset`. The scheduler's budget and
queue order are abstracted to a choice of request and number of tokens, so what
holds here holds for any order. `Settled` says that `update_from_output` frees all
stopped requests before the next `schedule()`. One full-attention group; no
lookahead, no connector; FCFS-style preemption, whose victims are not yet scheduled
in the step.

### Scheduler

`phase` is where the one thread of `EngineCore.step` is: `idle`, the `running` and
the `waiting` loop of `schedule()`, `execute`, `update`, and `reset` for a
`reset_prefix_cache` that preempts the running requests. An iteration of a loop is an
action: `ScheduleRunning` or `PreemptVictim` (the inner loop, which under PRIORITY may
take back a request scheduled before in the same step: `TakeBack`), `EndRunning`
(the waiting loop is skipped if anything was preempted), `ScheduleWaiting`,
`EndWaiting`. `Execute` also advances the runner's copy of the requests
(`RunnerState`: `_update_states` for new and finished ids). `FinishStopped` and
`EndUpdate` are `update_from_output`; `Abort` is possible between steps and, by
`_process_aborts_queue`, between the model's run and its output. The heap of the
priority queue is the sequence it would be popped in. All block operations are those
of `KVCacheManager`, instantiated with the same variables.

The code chooses `num_new_tokens` once per iteration, before the inner loop preempts, and
schedules that number even if a victim taken back has meanwhile enlarged the budget.
`NewTokens` is the choice, `numNewTokens` keeps it from the first `PreemptVictim` of an
iteration to its end, and `NumNewTokens` is the number either way.

`ManagerSpec` says that under FCFS each step is a step of `KVCacheManager` or leaves
its variables alone, so that what is proved there (section 4) holds of this
scheduler. Under PRIORITY it is not such a client; see the second finding.
`config.skipReading` are requests that do not read the prefix cache
(`skip_reading_prefix_cache`, as for prompt logprobs).

### AsyncScheduler

`step_with_batch_queue`: the loop schedules a step, sends it and puts it into
`batchQueue`; it returns if the queue is not full, and otherwise waits for the oldest
step and applies its output. A token is its position in the text, so the output of a
request must be `PromptLen + 1, PromptLen + 2, ...`. `Batch` is what a step will
return: for each request nothing, no token, or a position computed from what the
scheduler believed. With async scheduling `placeholders` and `discard` follow
`_update_after_schedule` and `_update_request_with_output`; `SureToStop` is the check
that the last token is already on its way. `Sampled` passes over the requests that
finished meanwhile, `Accepted` those whose token a reset has made void; a request that
was preempted meanwhile keeps its token, and may stop by it.

### EncoderCacheManager

`cache` is the manager (`cached`, `freeable`, both slot counters, `freed`), its
methods are operators on it. Its client is as in the source:
`_try_schedule_encoder_inputs` (`TrySchedule`) in both loops, the release of the
references of a request that gets no blocks, `_free_encoder_inputs` after a step,
`free` at a finish or abort, `reset_encoder_cache`. `encoderCache` are the tensors of
the runner, which drops the freed hashes before it computes the scheduled ones.
Prefix hits may have any length in `PrefixHits`, so that a request may start in the
middle of an image; KV is a number of tokens.

### TokenDrop

Requests have private slots, numbered through their own block table (prefix caching
off). `kv[r][l][s]` is the token whose KV is in slot `s` of layer `l`. A `Step`
chooses a batch in any order, the number of tokens of each request, and what top-p
selection drops in every drop layer; sink tokens and last tokens are never dropped,
as `expand_block_mask_kernel` guarantees (checked in `TopPSelection`). From that
follow, as in the code:

* `Hidden`: the tokens that enter every layer (`should_drop`, `topselectionvarlen`);
* `MetaSeqLen`, `MetaSlot`: metadata after `_update_metadata_after_drop`;
* `Overridden`, `LenAtLayer`, `SeqUsed`: the runner's per-layer lengths from the
  records of earlier steps;
* `ReadLen`, `KVWrites`: what FlashAttention reads and `do_kv_cache_update` stores,
  with the override for single-token requests and the branch in which the decode
  slot mapping replaces the whole mapping;
* `NewRecord`, `SaveRecords`: `per_layer_seq_lens`, saved if any layer dropped;
* `Window`, `TakenBack`, `Reuses`: a sliding layer reads the last tokens only, and the
  manager takes back, by the scheduler's count, the blocks the window has left. The
  runner's block table still names them, so whether others have written them by the
  time of the step is a free choice.

`gemma3.py` follows the same protocol as `llama.py`, with a further threshold of 1024
tokens that only makes drops rarer; `config.sliding` says which layers slide. In
`qwen3_next.py` the list of drop layers is empty.

`alive` and `sampled` are history: the tokens that reached each layer, and the token
whose logits were sampled. CUDA-graph padding of a step is not modelled:
`hidden_states.shape[0]` is taken to be the number of real tokens.

### TopPSelection

One action per kernel launch or collective of `topselectionvarlen`, on every rank:
`Score`, `AllReduce`, `Select`, `ExpandMask`, `BroadcastMask`, `BroadcastLengths`,
`Scatter`. `PaddedLen` is `triton.next_power_of_2`, by doubling. `Position` is the place
of a block in the sorted, padded row, `WithinP` the cut; masks are sets. Scores are
integers and p a fraction, so float rounding, the bfloat16 path and the GEMM itself are
abstracted. The broadcasts have source 0, a global rank; the model has one tensor
parallel group, whose first rank it is.
`NativeTopP` is the cut of `src/native_imp.py`.

### ShmBroadcast

Every load and store of `acquire_write` and `acquire_read` is a step. A process's
stores wait in its `buffer` and reach `memory` in order (`TSO`) or in any order that
keeps the stores to one cell in turn; `memory_fence` waits for the buffer to empty. A
message too big for a slot sets the overflow byte and goes over the socket; remote
readers get everything over theirs. `sent` and `received` are the state of
`BroadcastQueue`: a message counts as sent when the writer marks its slot. A reader
frees the slot of a big message before it takes the message from the socket, so the
capacity of the queue is the ring and one more.

### MultiprocExecutor

`CollectiveRpc` puts a call into the broadcast ring (or waits for a slot), the
workers take it, compute, and put an answer into their own ring, through an output
thread with async scheduling. `execute_model` and `sample_tokens` of a step are one
call, answered by the output rank and left in `futures`; a utility call waits for all
ranks, and first drains the futures made before it. A worker may die; the monitor
notices, sets `isFailed` and starts the shutdown, which releases the waits. A call may
fail on a worker, which answers with an error.

### DPCoordinator

Each front end has its view (`feWave`, `feRunning`), and so have the coordinator and
each engine. Every socket is a queue of its own; messages of different sockets
overtake each other. An engine in a wave runs a forward pass, dummy if it has no
request, and an all-reduce every `SyncEvery` steps; both are collectives that need all
engines. A request of an old wave makes the engine tell the coordinator, which wakes
the others. A front end that takes the engines for paused tells it too; there the
engine to exclude comes as the identity of its socket, the index of no engine, so that
all are woken. Which engine a request goes to is a free choice, for any load
balancing.

## 3. Runs

| Run | Instance | States | Shows |
|---|---|---|---|
| `free_block_queue` | 4 blocks | 457 | list is linked, counter exact, refines the queue |
| `kv_cache` | 2 requests, 3 usable blocks of 2 slots, equal first blocks | 218 378 | contents correct, writes do not conflict, no failure after the capacity check; free queue, counts, map, eviction order; no eviction of held blocks |
| `token_drop` | prompts 5 and 4, 2 decode steps, 4 layers, 2 drop layers; also with a sliding layer (window 2) before the drops; and below the threshold with chunks, preemption and sliding layers | 5 533 | every layer reads its own tokens; records count them; last token sampled |
| `scheduler` | 3 requests, 6 usable blocks of 1 slot, 1 reset; FCFS with prefix cache, PRIORITY without and with two budgets | 173 806 | queues, order and budget exact, runner in step, client of the manager, every request finishes |
| `async_scheduler` | 3 requests, 5 blocks; async with 2 steps in flight, pipeline of 2, one step with resets | 80 661 | output exact, placeholders exact, blocks held, every request finishes |
| `encoder_cache` | 3 requests with 2 or 3 of 3 images, cache of 4 for 6 embeddings, 1 reset, both values of `disable_chunked_mm_input` | 33 418 | counters exact, outputs there when read, every request finishes |
| `top_p` | 2 requests of length 1, 3 or 5, blocks of 2, p = 3/4; one rank with scores 0, 1, 3, two ranks with 0, 1 | 124 926 | nucleus kept, native cut covered, ranks agree |
| `shm_broadcast` | 2 local readers, 1 remote, ring of 2, 4 messages of either size | 616 052 | refines the broadcast queue; all messages arrive |
| `rpc` | 2 workers, 5 calls; a death; rings of 1 with and without an output thread | 53 427 | answers belong to their calls, calls return, a death is noticed |
| `dp` | 2 engines, 2 front ends, 2 requests of 2 passes, all-reduce every 2 | 308 577 | same collectives, pause known, requests served, engines rest |
| `token_drop_mixed` | prompts 4 and 2 | violation | finding 1 |
| `scheduler_priority_cached` | 2 requests, PRIORITY with prefix cache | violation | finding 2 |

The type invariant of a module is a conjunct of one of the invariants its run checks
(`Linked`, `RecordCounts`, `BudgetExact`, `BlocksHeld`, `SlotsExact`,
`ResultConsistent`, `AnswersOwnCall`); that of `KVCacheManager` is proved.

**Bounds.** *kv_cache*: the requests need more blocks than there are, so preemption,
eviction and reuse all happen, a partly filled shared block is possible because the
streams part inside the second block, and two blocks under one hash arise when both
requests compute the first block in one step. *free_block_queue*: four nodes are
enough for a removal between two neighbours with a node left over. *token_drop*: sink
and last are one token each, so that a prompt of five has three droppable tokens for
two drop layers, and the layers before, between and after the drop layers are all
there; a window of two is shorter than every prompt, so blocks are taken back. *scheduler*: two requests at full length do not fit the blocks, so a running
request preempts others or itself; the budgets (2 and 3) are smaller than the prompts,
so prefills are chunked; PRIORITY has a long prefill threshold with the one budget, and
with the other two requests may share a step that leaves the second only one token, which
it keeps when the first is then taken back for it. *async_scheduler*:
one request ends by each of `max_tokens`, EOS and model length, and all three do not
fit. *encoder_cache*: the cache cannot hold all images, one request has two images
that fill more than what is left beside the third, one has the same image twice, and
hits of 0, 1 and 3 tokens start before, inside and after an image. *top_p*: lengths
give one, two and three blocks (padded to one, two and four) with a last block that is
partly padding; zero scores and ties are included. *shm_broadcast*: the ring of two
goes round twice. *rpc*: enough calls to fill both rings and still have one blocked.
*dp*: two requests are enough for one to be sent while the wave of the other ends, and
two front ends for their views to differ.

**Deadlock** is checked except for `TokenDrop`, where all requests may be finished or
have reached `MaxLen`. The steps in which nothing is left to do (`WaitForWork`, `Wait`,
`Spin`, `Done`) are explicit, and enabled only then or, for processes that poll,
always.

**Fairness.** `run_busy_loop` never stops while the process lives, so the engine loop
is weakly fair in `Scheduler`, `AsyncScheduler` and `EncoderCacheManager` (in two of
them the enabling condition is spelled out, as `Busy`, because TLC computes it faster);
clients owe nothing, so adding, aborting and resetting are not fair, and resets are
bounded by `MaxResets` (a client that resets for ever does starve everybody). In
`ShmBroadcast` the writer, each reader and each socket are weakly fair, as processes
that poll are; a store buffer drains only because of a fence (`Drain`), which is what
`memory_fence` is for. In `MultiprocExecutor` the engine, the workers that live, their
output threads and the monitor are weakly fair: threads run, and a call of a worker
returns. In `DPCoordinator` each front end's task, the coordinator and each engine are
weakly fair, and so is a collective that all engines have entered; the input of an
engine is strongly fair, since the engine empties its input queue before every step,
so that input which is there again and again is taken.

**Abstract specifications.** `QueueRefined` and `IsBroadcastQueue` show that the linked
list and the shared-memory ring implement `FreeQueue` and `BroadcastQueue`.
`MultiprocExecutor` is then written with the promise of the ring only. `ManagerSpec`
shows that the FCFS scheduler stays within the client that `KVCacheManager` assumes.

### Findings

1. *Short decode beside a long prefill* (`token_drop_mixed`). In a dropping step a
   decode request gets length 1, hence slot 0, in the layers after the drop. A request
   that has a record, or is batched with one that has, is repaired by the runner's
   override; a request that never dropped, batched with the first long prefill, is
   not. It overwrites its first token's KV and attends to the newest token alone.
   `src/README.md`: "Prefill-decode co-processing".
2. *PRIORITY victim already scheduled* (`scheduler_priority_cached`). The victim is
   taken out of the step and its blocks are freed, but the hashes that
   `allocate_slots` registered for the tokens it was about to compute stay in the
   prefix cache; a later hit reads KV that no step has computed.

### Limits

Outside the instances of the passing runs these behave otherwise. Each can be seen by
changing the named constant.

| Where | Change | What TLC then shows |
|---|---|---|
| `TokenDrop`, chunked prefill (`llama.py:149`) | `MCConfigs` with `Config(1, TRUE, FALSE, {})` | slots after a drop are indices among the tokens of the step, so a second chunk starts at slot 0 again: `AttentionReadsItsTokens` fails |
| `TokenDrop`, preemption (`gpu_model_runner.py:908`) | `Config(1, FALSE, TRUE, {})` | the record survives preemption, and on recomputation the decode slot mapping, one entry per request, replaces the whole mapping: `AttentionReadsItsTokens` fails |
| `TokenDrop`, sliding layer after a drop (`single_type_kv_cache_manager.py:367`) | `Config(1, FALSE, FALSE, {3})` | the manager takes blocks back by the uncompacted count, while the layer's tokens are in the compacted slots: `AttentionReadsItsTokens` fails (`src/README.md:19`: "works on full-attention, linear/full hybrids, and sliding-window/full hybrids") |
| `Scheduler`, size of the pool (`kv_cache_utils.py:625`) | `NumGpuBlocks = 3` and `BlockSize = 2` | the start-up check does not count the null block; a request that needs every block preempts itself for ever: `EventuallyFinished` fails |
| `AsyncScheduler`, reset while steps are in flight (`scheduler.py:1770`) | `Config(TRUE, 2, 1)` or `Config(FALSE, 2, 1)` | one flag stands for any number of tokens in flight: `OutputExact` fails |
| `AsyncScheduler`, three stages | `Config(FALSE, 3, 0)` | a request preempted and resumed while its older step is in flight gets a token twice: `OutputExact` fails |
| `TopPSelection` against `native_imp.py:72` | `CoversNative` with equality | the kernel may keep one block more |
| `ShmBroadcast`, weaker memory (`shm_broadcast.py:492`) | `TSO = FALSE` | the written flag may overtake the message: `IsBroadcastQueue` fails |
| `ShmBroadcast`, timeout of a local reader (`shm_broadcast.py:629`) | `RecvTimeouts = {l1}` | the slot of a big message is freed before the socket is read; after a timeout the next message is taken for it: `IsBroadcastQueue` fails |
| `MultiprocExecutor`, timeouts (`multiproc_executor.py:356`) | `TimeoutCalls = {"utility"}` | a late answer is taken for that of the next call: `AnswersOwnCall` fails |
| `MultiprocExecutor`, failing utility (`multiproc_executor.py:357`) | `FailingCalls = {"utility"}` | answers of the other ranks are left in the queues: `AnswersOwnCall` fails |
| `MultiprocExecutor`, death with a full ring (`multiproc_executor.py:337`) | `Config(1, 2, FALSE, 1)` | the engine waits for a slot that the dead worker will not free, without a way out: `CallsReturn` fails |

By reading only: the masks are broadcast from global rank 0
(`fused_top_p_selection_tp_pd.py:559`), which is not a member of a second tensor parallel
group; `TopPSelection` has one group, that of rank 0. With PRIORITY, images allocated for a victim taken back stay cached
in the manager although no step computes them (`scheduler.py:447-464`); with
`disable_chunked_mm_input` an item that starts exactly at the computed tokens is split
all the same (`scheduler.py:1150`); `EncoderDecoderCacheManager` frees the same input at
every step, so its counter grows.

## 4. Proofs

What follows is proved for every value of the constants that satisfies the named
assumptions, which TLC evaluates on the instances of the runs. Each component has one
inductive invariant `IInv`; TLC has checked every one of them before it was proved.

| Component | Assumptions | Theorems |
|---|---|---|
| KV cache manager | `PoolAssumption`, `ManagerAssumption` | `TypeCorrect`, `FreeQueueIsExact`, `RefCountsAreOwners`, `CacheMapIsExact`; `ContentsAreCorrect`, `WritesAgree`, `AllocationIsSafe`, `HeldBlocksStay`, `CacheIsPrefixClosed` |
| Free block queue | `NumBlocksAssumption` | `ListIsLinked`, `ListIsAQueue` |
| Scheduler | `SchedulerAssumption`, `KVAssumption`; the last two theorems are about FCFS without requests that skip the prefix cache | `QueuesAreExact`, `ServedInOrder`, `BudgetIsExact`, `ResumedOnlyAfterPause`, `RunnerStaysInSync`; `SchedulerIsAClient`, `FCFSKeepsContents` |
| Async scheduler | `AsyncAssumption`; `Supported` | `OutputIsExact`, `PlaceholdersAreExact`, `BlocksAreHeld` |
| Executor | `ExecutorAssumption`; `Dependable` | `AnswersBelong` |
| Data parallel coordinator | `DPAssumption` | `CollectivesMatch`, `PausesAreKnown` |
| Token drop | `DropAssumption`; `Supported` | `AttentionAlwaysRight`, `RecordsAlwaysCount`, `SampledAlwaysLast` |
| Top-p selection | `SelectionAssumption` | `NucleusAlwaysKept`, `NativeAlwaysCovered`, `ResultAlwaysConsistent` |

### KV cache manager

*Bookkeeping*. `FreeQueueExact`,
`RefCountsOwners` and `CacheMapExact` follow from `Invariance`, `Spec => []IInv`. None
is inductive alone: that a freed block returns to the queue exactly once needs the
reference counts; that counts are owners needs that a request never holds a block
twice, hence that new blocks, which come from the queue, are unreferenced, and that
hits, which come from the cache map, are distinct; that needs the map to be exact, and
exactness is preserved by `cache_full_blocks` only because the blocks it registers
carry no hash yet, that is, because the blocks of a request beyond `num_cached_block`
are unhashed and only the request's own. `IInv` has these as named conjuncts, together
with the length of the block list in terms of the counts, which the capacity
arithmetic needs. The module first proves what each method of the pool preserves and
returns, from the exactness of the pool and the condition its caller guarantees, with
lemmas about `Keep` (the subsequence helper) by cardinality of index sets; then it
argues action by action.

*Contents* (the second half of the module). `KVContentsCorrect` says that the slots of a running
request hold its own KV. The hard case is a hit: `allocate_slots` registers the full
blocks of a step before the step is computed, so that a second request may hit a block
that nobody has written. `CachedContents` therefore says that a block with a hash has
in each slot what the hash stands for *or gets it in this step*, and `HashMatches` that
a block in a list has the hash of its place or none, so that all who write a block in
one step write the same (`NoConflictingWrites`, an invariant of its own). The proof
relies on the client of `KVCacheManager`, in which no scheduled request is preempted;
that FCFS is such a client is proved for the scheduler (`SchedulerIsAClient`), that
PRIORITY is not is finding 2.

*Allocation and eviction*. `AllocationNeverRaises`: the capacity check counts hits that
are still in the free queue, which `touch` takes out before new blocks are popped; the
proof is that the number of distinct free hits is what the check subtracts.
`InUseNotEvicted` is an action property, proved from the bookkeeping. `NoStrandedBlock`
(the parent of a cached block is cached, so that the lookup may stop at the first miss)
is about the *order* of the queue: `free` appends the blocks of a request in reverse.
`Anchored` says that the parent of a cached block in the queue is held by somebody or
comes behind it, so that the block is evicted first; for a held block the parent is in
the list of the holder, with the hash of its place (`CachedPrefix`). Both survive
touching, popping from the front, and several owners freeing shared blocks in any order.

### Free block queue

`Linked` speaks of the walk from the head, and a method changes links in the middle of
that walk, so it is not inductive. `IInv` says that there is a sequence of blocks along
which both links of every node lead (`Chained`); each method yields another one, built
by removing an index or appending. The walk is then determined (`WalkIsChain`): a
recursive function is beyond the induction theorems, but a least place where walk and
sequence part (`LeastElement`) leads to a contradiction. `ListIsAQueue` shows the refinement `QueueRefined`: the
initial list is the initial queue, each method is the abstract method on the walk with
the same result, and the rest stutters.

### Scheduler

`IInv` holds for both policies and has seven parts. `Queues` gives every request the one
queue of its status; that each is in it once is injectivity, in `Types`. `Order` is
the order of arrival under FCFS: it survives preemption because the victim is the last
of the running list, older than all that wait, and goes to the front of the queue.
`Step` says that in the running loop exactly the requests before `reqIndex` are
scheduled, also after a victim before `reqIndex` has been taken out and the index moved
back. `Paused` says that a request of the step before waits only if this step has
preempted, and then the waiting loop is not entered: hence `ResumedAfterPause`, the
assertion of `_make_cached_request_data`. `Runner` relates the requests the runner has a
state for to the statuses: it is one message behind, so that a finished request is in
`finishedReqIds` or unknown to it, and a new request has no state until the step that
starts it. `Unstopped` is what `Settled` of the manager's client needs.

*The budget*. `BudgetExact` has a sum over the requests, a fold of the community
modules, hence a recursive function on sets. That the recursion has a solution at all
(`SumExists`), what type it has (`SumType`) and that it changes by as much as the one
number that changes (`SumChange`) are proved by considering a set of least cardinality
for which the claim fails, which does without the induction theorems. The number kept in
`numNewTokens` must fit the budget when it is scheduled at last: `Step` says that it is at
most the budget, which preemption only enlarges, and at most what the request has left.

*Composition*. `SchedulerIsAClient` maps every step under FCFS to a step of the manager
with its client, or a stutter: the victim is never scheduled yet, the counts that are
scheduled are within what is left, and a reset meets no running request.
`SchedulerProofs` instantiates `KVCacheManagerProofs` with the scheduler's own variables
(`KVP`); `SameManager` shows that the two instances make the same steps. So
`ContentsAreCorrect` carries over: `FCFSKeepsContents`. For PRIORITY the hypothesis
fails, and so does the conclusion (run `scheduler_priority_cached`).

### Async scheduler

The theorems hold under `Supported`: every configuration has one step at a time, or two
in flight and no `reset_prefix_cache`. Section 3, *Limits*, shows that `OutputExact`
fails without either: a reset discards tokens by one flag, and with three steps in flight
a request may be resumed before its older step is collected. Requests, lengths, blocks
and budgets are arbitrary, and preemption and aborts may happen at any time.

A token is the position that the scheduler believed in when it built the step, so
`OutputExact` is not inductive: it needs that what is in flight still fits when it comes
back. `RequestOK` says so for each request: the tokens in the queue are the next
positions of the text, the placeholders count them (with async scheduling), and
`num_computed_tokens` of a running request is one short of the text including them. The
hard case is a request preempted with a token in flight. Nothing is computed of it any
more and the token still comes, so if it were scheduled again first, the same position
would be sampled twice. The last conjunct of `RequestOK` excludes that: a step that
preempts admits nobody from the waiting queue (`preempting`), it has room for one step
only, since a token is in flight already, and with it the queue is full, so the older
step is collected before `schedule()` runs again. `Step` bounds what is scheduled by the
last token there is or will be, and, by `SureToStop`, schedules nothing behind a token
that is sure to be the last; this gives the bound in `PlaceholdersExact`. In a pipeline
without async scheduling a request with a token in flight is not scheduled at all, since
all that is known of its text is computed (`RequestOK`). For `BlocksHeld`, the blocks held cover what the step being built will compute
(`Held`), and the pool is not overdrawn because `FreeBlocks` is a sum over the requests
of which a step changes one summand upwards, by no more than what is free (`SumChange`,
`AllocatedHeld`), and the others downwards (`SumLeq`).

### Executor

`AnswersBelong` holds under `Dependable`: no call has a deadline and only steps fail on a
worker. Both are needed; section 3, *Limits*, shows what happens without them. Failing
steps, deaths of workers, the monitor and the shutdown are included. Nothing in an answer
says which call it is for, so the argument is about all queues at once: the answers of a
worker on their way are those of the calls that it has run and nobody has taken its
answer for, in the order of the calls (`InTurn`); the calls without a result are those
being answered, then the futures, oldest first (`Pending`); so the front of the queue
asked is the answer of the oldest call, which is the one waited for
(`AnswerOfTheCall`). After a shutdown the engine gives up calls whose answers may still
be about to come. Then the queue it waited on is empty and nobody fills it any more, or
it was the last call (`Over`); that is the second half of `Answers`.

### Data parallel coordinator

`SameCollective` rests on the step counters, which advance in lockstep although every
engine counts for itself (`InLockstep`). `PauseIsKnown` rests on what the messages on
their way have still to say: none is ahead of the pauses (`NoWaveAhead`), a pause that
the coordinator does not know is being reported to it (`PauseReported`), it takes the
engines for running only if one is or is being woken (`RunningForAReason`), and a front
end has its view or is being sent it (`ViewsFollow`).

### Token drop

The theorems hold under `Supported`: each configuration either computes prompts whole,
each longer than `attention_sink + last_q`, without preemption and with no sliding layer
behind the first drop layer (`WholePrompts`), or never has enough tokens in a step to
drop (`NeverDrops`, where chunks, preemption and sliding layers are all allowed). None
of these is for the proof's sake: section 3, *Limits* and finding 1, shows what the code
does without each. The run `token_drop` satisfies `Supported`, as TLC confirms.

Under `WholePrompts` a request that waits has no record and its first step computes the
whole prompt and drops; afterwards it has a record and computes one token per step
(`WholeFacts`). So a step never meets the faulty case of the metadata, a decode without
record in a step that drops. `SlotsInOrder` is the heart of the matter: in every layer
a token is stored at the place it has in the order of all tokens that have reached the
layer, earlier tokens keep their places, and the length read is their number. It is the
same claim for three different computations of the code: positions before the first
drop, indices among the tokens left in a prefill, and `_seqused - 1` in a decode. The
last of these needs that the record gives every layer its number of tokens:
`NewRecordFacts` shows that the length recorded by the last drop before a layer is that
layer's (`LastDrop`), and `SeqUsedNext` that the excess over the first entry counts the
decodes since. `StoredNow` adds that writes of a step never meet, and `TakenFacts` that
the blocks a window has left are below what the next query reads.

### Top-p selection

`IInv` has, per rank, what each kernel has left: the sums over the ranks after the
`all_reduce` (`ScoresOf`), the blocks kept (`KeptBlocks`), the token masks and their
lengths (`MaskOf`), and that ranks agree from the broadcast on (`Agree`); between the two
broadcasts a rank has the mask of rank 0 and lengths of its own, which is why `MaskOf`
speaks of the lengths of rank 0 only there. The substance is `TopPIsNucleus`: what the
kernel keeps of a sorted, padded row is `Nucleus`, the blocks with a score before which
at most p of the mass lies, a definition without places or padding. Padding has no mass,
but it may come before blocks of score 0, so the row of a short request is not that of
the request alone; what is kept is nevertheless the same (`PaddingIrrelevant`). That
`next_power_of_2` covers the longest row is `NextPower`. `NucleusFacts` and `NativeFacts` then give the properties,
from how the mass grows along the order of the blocks. What one would do by induction
along a sorted row is done with a minimal set for which the claim fails (`MinimalSet`),
as are the facts about sums, which are folds over sets.

### Only model-checked

Liveness under fairness (`EventuallyFinished`, `CallsReturn`, `EngineInformed`,
`AllReceived` and the others) is out of the prover's reach. `AnswersOwnCall` without
`Dependable` is false and not claimed; the same holds of the properties of `TokenDrop`
and `AsyncScheduler` without `Supported`.

Not proved, although safety, are the three invariants of `EncoderCacheManager` and the
refinement `IsBroadcastQueue`. What a step does to the encoder cache is a fold over the
features of a request, or over several requests, with the whole cache as the
accumulator; each invariant needs an induction along such a fold with an invariant of
its own for the accumulator (references already given to items of the step that are not
allocated yet, evictions in between). The induction theorems cannot be instantiated
with it, so each would have to be unrolled by a minimal counterexample.
`IsBroadcastQueue` needs an invariant over the contents of store buffers, which are
sequences of writes of different kinds, against ring, flags and sockets.

## 5. Plan

1. Proofs: `SlotsExact`, `EncoderOutputsThere` and `RunnerKeepsCached` of
   `EncoderCacheManager`; `IsBroadcastQueue` of `ShmBroadcast` (under TSO).
2. `TokenDrop` with shared blocks: prefix caching on top of compacted layers; then
   the linear-attention layers of Qwen3-Next.
3. Sliding-window manager and hybrid coordinator (null blocks, skipped blocks).
4. KV connectors: loads that complete asynchronously, or fail.

## 6. Not modelled

Most of the repository is model definitions, kernels, quantisation, entry points and
examples of upstream vLLM: code without a state of its own that outlives a call, whose
correctness is numeric or is that of a translation of formats. It is out of a model
checker's reach and is not modelled. Within the components above are left out:
connectors, LoRA limits, speculative decoding, structured output and streaming
sessions in the scheduler; float rounding in top-p selection; CUDA graphs; elastic
scaling and load statistics of data parallelism; start-up handshakes of processes and
sockets; several nodes in the executor; encoder-decoder models and external encoder
caches.
