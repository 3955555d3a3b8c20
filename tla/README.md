# A model of eLLM's cache scheduling and serving core

eLLM is a vLLM derivative in which a sequence may drop the KV cache of its
oldest tokens and recompute it, layer group by layer group, while it decodes.
This directory models what decides who holds which cache block and when its
content is right (block map, block managers, scheduler, worker streams), which
LoRA adapter is in which slot when a batch runs, and what keeps requests and
worker processes from being forgotten (asynchronous engine, executor, local
worker processes). The modules are checked by TLC on small instances. With TLAPS
every safety property but two, those about the contents of the worker's caches, is
proved for every instance: of the block map, of the scheduler over the eLLM manager
and over the default one, of LoRA batching, of the asynchronous engine (with the
service it promises) and of the executor. Section 4 has the hypotheses.

## 1. Inventory

| part | state | operations | talks to |
|---|---|---|---|
| `TokenLayerKVMap` (`core/ellm_cache.py`) | a pool of blocks per layer group (free list, reference counts), entries of sequences, temporary entries, lengths, evicted prefixes | allocate, append a token (new block or copy-on-write), fork, evict a prefix, begin/end recompute, build/lease plans, free | called by the block manager, and by the metadata builder for leases |
| `ELLMBlockSpaceManager` (`core/ellm_block_manager.py`) | the map, CPU pools, records of swapped sequences | capacity questions, allocate, append, evict to a cache ratio, fork, swap in/out, free | called by the scheduler |
| default block manager (`core/block_manager_v1.py`) | two allocators with reference counts, block tables | the same, without eviction | called by the scheduler when `store_cache_layers` is 1.0 |
| `Scheduler` (`core/scheduler.py`) | waiting, running and swapped queues, cache layers and sequence limit of the iteration | add, abort, `schedule()` (prefills, running with preemption, swapped, metadata), fork, free | called by the engine and the output processor |
| output processor (`engine/output_processor/single_step.py`) | sequences of a group | append samples, fork, finish, drop beams | calls the scheduler |
| sequences (`sequence.py`) | status, stage, tokens, computed tokens | status and stage changes | read by all |
| cache-ratio policy (`core/ellm_policy.py`) | none | choose batch size and cached layers | called by the scheduler |
| worker (`worker/worker.py`, `cache_engine.py`) | GPU and CPU caches, CUDA streams and events | swap, copy, execute | gets block mappings from the scheduler |
| partial-recompute metadata (`worker/ellm_metadata.py`) | none | turn plans into attention metadata, hold leases | reads the map |
| asynchronous engine (`engine/async_llm_engine.py`) | request tracker, a stream per request, background loop | add, abort, iterate, time out, report failures | owns the engine; called by API servers |
| executor (`executor/distributed_gpu_executor.py`, `multiproc_gpu_executor.py`) | whether the workers' loop runs | call a method on all workers, execute the model, stop the loop, shut down | called by the engine's thread |
| local workers (`executor/multiproc_worker_utils.py`) | task queues, futures, result handler, monitor, processes | dispatch, collect, detect deaths, terminate | used by the executor |
| LoRA manager (`lora/worker_manager.py`, `lora/models.py`) | LRU caches of registered and active adapters, slots, row indices of the last batch | make a batch's adapters active, set the mapping, add, remove | called by the model runner and the engine; the scheduler limits a batch to `max_loras` |
| manager v2, prefix caching | block tables, caches, evictors | as upstream | cannot be built by this scheduler |

What is hard: a call that runs out of blocks in the third layer group after two
groups have granted some; blocks shared by forks and written by one of them;
plans whose temporary blocks are already free again; leases that overlap;
capacity promised by one call and used by the next; records of swapped sequences
that must still fit when they return; transfers on three streams that share
blocks; groups whose sequences are in different states; a wakeup, an abort, an
output and a timeout of one request in any order around the awaits of the event
loop; adapters that evict each other from two caches; a worker that dies with a
task queued, running or answered; and exceptions, which stop the engine wherever
they happen. `PROJECT.json` lists these hazards with the lines where they bite.

What makes each part correct:

* the map: counts and free lists are exact, every sequence holds exactly its
  window, the block a token is written to is private, an exception changes
  nothing, a lease keeps its table, a plan's targets are nobody else's;
* the managers: a capacity question that says yes is kept, blocks are neither
  lost nor used twice, records match the sequences;
* the scheduler: its view of a sequence (status and length) and the map's agree
  in every state, the batch keeps to its limit, every request ends;
* the worker: when a layer group runs, and between steps, every slot that will be
  read holds the token that belongs there, whatever order the streams allow;
* the LoRA manager: a batch that the scheduler lets through always gets its slots,
  and each row reads the slot of its own adapter;
* the asynchronous engine: each client gets its outputs in order, once, and then
  its end; a request whose client was cancelled, failed or aborted leaves the engine;
* executor and workers: all workers meet in the model's loop unless it ended on one
  by itself, whoever waits for a task gets an answer, and when one worker is gone
  all are.

## 2. Modules

| module | role |
|---|---|
| `TokenLayerKVMap` | the map as a value, every method an operator from a map to the set of its outcomes (new map, exception) |
| `KVMapMachine` | the map as a state machine: all methods in any order, and leases |
| `ELLMBlockManager` | the manager as a value, every method an operator |
| `ELLMScheduler` | the scheduler and output processor as a state machine over a manager |
| `ELLMWorker` | the worker's streams and cache contents, composed with the scheduler |
| `BlockManagerV1` | the default manager under the scheduler's calls, with cache contents |
| `Lists` | `get_seqs` with a condition: the members of a list that a set has |
| `LoRAManager` | the worker's adapters as a value, every method an operator |
| `LoRABatching` | `curr_loras` of the scheduler, that manager, and adapters added and removed between steps |
| `RequestService` | abstract: what `generate()` promises to a client |
| `AsyncEngine` | event loop, request tracker and clients; implements `RequestService` |
| `MultiprocWorkers` | threads and processes of `multiproc_worker_utils.py` |
| `DistributedExecutor` | the executor and the model's loop, composed with `MultiprocWorkers` |
| `TokenLayerKVMap_proofs` | each method of the map: that it keeps the map in order; which blocks it shares, parts and leaves alone |
| `KVMapMachine_proofs` | the theorems about the map |
| `DistributedExecutor_proofs` | the result handler; types, and the meeting in the model's loop |
| `AsyncEngine_proofs` | invariants of the asynchronous engine, and its refinement of `RequestService` |
| `LoRABatching_proofs` | the adapter limit, the slots and the rows |
| `ELLMScheduler_proofs` | what each call of the eLLM manager does to the sequences it names, and to the others; the theorems about scheduler and output processor |
| `BlockManagerV1_proofs` | what each call of the default manager does to counts, tables and contents; the theorems about it |
| `Folding_proofs` | lists, folds over finite sets and loops over lists, for the modules before |
| `MC...` | constants and symmetry of the instances |

`KVMapMachine` calls the map more freely than the code does (any method, any
order, plans leased to an executor that runs meanwhile); `ELLMScheduler` reaches
the same operators through the manager, only as the scheduler does. Both share
`TokenLayerKVMap`, so what is proved of its operators holds in both uses.

### The map

`m.cells[g]` is the pool of layer group `g` with its table of entries, keyed by
kind (`"kept"` for `_entries`, `"temp"` for `_temporary_entries`, `"copy"` for
the local dictionary of `append_token`), sequence and logical block. `m.length`
and `m.evicted` are `_sequence_lengths` and `_evicted_prefix_blocks`. Loops over
layer groups that stop at the first failure are kept: `Grants` is what such a
loop may hold when it stops, `Taken` the map with it, `RolledBack` the map after
the `except` clause. Blocks are interchangeable, so the free deque is a set.

In `KVMapMachine` the caller follows one rule, `Executing`: a sequence in a
leased plan is not appended to, evicted, freed or allocated until the lease is
released. The docstring of `build_layer_group_plans` states the same division
(synchronous plans are snapshots, asynchronous execution must lease), and an
engine does not schedule a sequence whose step has not finished.

### The manager and the scheduler

`ELLMScheduler` cuts `schedule()` at its loops. `phase` says which loop the
engine is in, `batch` the groups scheduled so far, `trying` the group whose
preemption loop is under way, `preempted` whether swap-in is skipped. One action
handles one group in one loop, with every call the code makes for it. Adding and
aborting happen between iterations, which is where the engine loop does them.

Reading choices:

* queues are sets: any group may come next, which covers every policy order;
* a loop over the waiting or swapped queue stops where the manager or the
  sequence budget puts the next group off; for the token budget, the prompt delay
  and the LoRA limit it may also stop anywhere as long as something else runs
  (`MayStop`), as none of them keeps out a request that is alone. A prompt over
  the prompt limit is ignored as one that can never be allocated is;
* the samples of a step are nondeterministic: any child, any end, any beam
  dropped. Without beam search all children are born of the prompt's step, as
  the sampler gives `best_of` samples there and one later. With beam search
  children may come later, as many as `SeqsOf` has names for;
* `length` of a finished sequence is forgotten (0): nothing reads it again;
* `stage` is the set `prefill`; finished sequences keep the stage they ended
  with unless they were aborted or ignored, and then their group is over;
* what `select_ellm_policy` returns is any batch size with any of
  `PolicyLayers`, or half of the layers with at most one active request, as in
  the code (`PolicyChoices`);
* an exception out of `schedule()` or output processing ends the engine: `fault`
  names the call and no action follows. Which faults cannot happen is a
  property;
* the branch of `_schedule_swapped` for the answer `NEVER` has no action: that
  `can_swap_in` cannot give it is part of `RecordsMatch`.

### The worker

`ELLMWorker` extends every step of the scheduler with what it hands over
(`rows`: the block pairs to swap out, swap in and copy, computed from the map
before and after) and adds the worker's operations: for each layer group a
swap-out, a swap-in, the copies and the model. An operation is done when it has
run on its stream; `Needs` lists what it follows on its stream or waits for by
an event, so all other orders are explored. A slot holds a token, named by the
sequence that sampled it and its position. `Launch` takes any free blocks for
the temporary ones of the recompute plans. The scheduler goes on when nothing is
pending: at the end of a step the sampler reads the tokens from the compute
stream, which has waited for the swap-ins, and `swap_out_event` is synchronized.
The kernels are external: they write and read the slots of the tables they get.

`spoiled` collects the sequences that two known defects have touched (section
5): a group that decodes while its remaining sequence is still in its prefill,
and a swap-out that a plan of the same step overwrites. `KVKept` and `ReadsRight`
leave those sequences, and forks of them, out by name.

### The default manager

`BlockManagerV1` is again a value with outcomes, here with the state machine of
the scheduler's calls around it, without the scheduler's order: groups are
admitted, run, preempted and swapped in one at a time, under the manager's
answers alone, so that capacity questions are asked in more states than
`schedule()` asks them. `data` is what kernels and copies leave in the blocks.
`Scheduled` is the end of `schedule()` for one group: the metadata, with its
assertion that a group in its prefill has one sequence, and `cache_layers`. The
stage of a group is that of its first sequence (`IsPrefill`), in the assertion as in
what the model then computes (`Positions`).

### LoRA adapters

A manager in `LoRAManager` has the two LRU caches as sequences, the least recently
used first, the slots, and the rows and indices of the last batch. A batch is sorted
by adapter, so rows are a bag of adapters. `LoRABatching` goes through the loops of
`schedule()` for `curr_loras` alone: memory and budget answer at will, so that any
group may be put off, preempted or swapped in; then the worker makes the batch's
adapters active in any order (it goes through a set of requests) and sets the
mapping. `add_lora` and `remove_lora` come between steps, as engine calls do.
`disturbed` records that one of them has moved adapters since the indices were
computed; `RowsGetTheirAdapter` leaves that case out (section 5).

### The asynchronous engine

An action of `AsyncEngine` is what one task of the event loop does between two
awaits: `add_request` before and after the await of the tokenizer, a turn of the
loop, a step up to the execution and after it, the done-callback. `State` is what
the tracker's methods change together. The engine behind it holds groups and
makes one numbered output for each group that it schedules.

A client ends early in two ways. `Cancel` is a cancellation that arrives where
`process_request` waits; it is caught there and the request is aborted. `Leave` is a
consumer that drops the generator, or is cancelled in an await of its own, between two
outputs: the generator ends with `GeneratorExit`, which `process_request` does not
catch. The client is then `"left"`, its request stays in the tracker and the engine and
runs on, and only an `abort()` by another task, with its id, ends it early (section 5).

`RequestService` knows per client only whether its request is open, how many outputs it got, and
why it ended; `Service` in `AsyncEngine` maps the one to the other for clients
whose id nobody else uses, and `ServicePromise` is checked as a property. A client
that left is `"gone"` in the service, like one that was cancelled.

### Executor and workers

`MultiprocWorkers` has an action for each step of a thread or process up to its
next access to something shared: the two halves of `_enqueue_task`, a worker's
loop, the result handler's loop and its loop over the waiters, the monitor's
`wait`, kill loop and sentinel, `close()` from another thread. A worker may die
at any moment. `DistributedExecutor` drives it as the engine's thread does. A
broadcast is external, a meeting of the driver with all remote workers: it fails when
one of them is gone, and waits for one that lives and does not come (whether and when
`torch.distributed` gives up such a wait is not modelled).

A worker leaves the model's loop in three ways: when it is told to (`LeaveLoop`), after
a step without groups, which `SwapOnlySteps` admits, and when the loop's method raises
(`LoopRaises`, at any time). In the last case `_run_worker_process` sends the exception
as a result and takes the next task, while `parallel_worker_tasks` stays set.
`LeftLoop` says that one of the last two has happened on a worker. The driver's own
step may raise before it meets anyone (`DriverRaises`), and leaves the workers in the
loop.

## 3. Runs

| run | instance | question |
|---|---|---|
| `KVMap` | 2 sequences, 2 groups of 4 blocks of 2 tokens, lengths to 5, 2 leases | does the map keep its promises under every order of calls? |
| `Worker` | a request of 2 sequences and one of 1, 2 groups of 4 GPU and 2 CPU blocks, lengths to 6, layers 2 or 4 of 4, preemption mode `swap` | do scheduler, manager, map and streams agree, and is every cache content right? |
| `Iteration` | a beam request and one with two samples, 1 group of 3 GPU and 4 CPU blocks, watermark 1, a prompt that never fits, limit of 3 sequences, default preemption | the same agreement with recompute, and does every request end? |
| `AsyncEngine` | 2 clients with ids of their own, 2 outputs each, aborts, cancellations, clients that leave, failures, timeouts, invalid parameters | is every client served as promised? |
| `Executor` | 2 remote workers, the model's loop and a method call in any order, deaths at any moment, exceptions in the loop, in methods and in the driver, shutdown | does everyone who waits get an answer? |
| `BlockManagerV1` | a beam request of 2 sequences and a plain one, 5 GPU and 4 CPU blocks of 2 tokens, lengths to 10, watermark 1 | is the default manager exact, and the content right? |
| `LoRA` | 3 requests with one of 3 adapters or none, a fourth adapter and one that cannot be loaded added and removed by hand, 2 slots, 3 places in CPU memory | does every batch get its adapters, and every row its own? |
| `AbortSwapped`, `RatioGrows`, `RecomputeRaces`, `SwapOnlyStep`, `AdmitsTooMuch` | as small as shows it | the findings of section 5 |

Bounds. `MaxTokens` stops a sequence as `max_tokens` does; `MaxLeases`,
`MaxOutputs`, the pools and the requests bound the rest. They are the smallest at
which the cases of interest happen together: two logical blocks and a half per
sequence, so that there is a prefix to evict, a full tail and a partial one;
pools that hold two sequences but not their growth, so that every loop runs dry
in the first or in a later step, with some groups short and others not; forks
that share blocks and are swapped out and back in together; two layer groups, so
that a failure in the second must undo the first and a layer may run while
another group's blocks are still under way. Two clients are enough for one to
fail, abort or arrive while the other is served; two outputs for one to be in the
stream while the next is made. Two workers are enough for one to die before and
one after a step of the kill loop, the close loop and the loop of `get()` calls.
Three adapters of requests for two slots and three places make both caches evict,
the fourth makes an adapter of a request leave CPU memory, and three requests are
one to be preempted, one to make room for, and one that is scheduled already.
Between them the runs fire every action. Symmetry is over block numbers, and in
`KVMap` over sequences; no run with a liveness property uses it.

Only `KVMap` checks for deadlock; the other systems stop when all requests have
ended, after an exception, or when everything is shut down.

Assumptions of instances, each a statement about the environment: `EngineYields`
(a step schedules something whenever there are requests; section 5 says when
the scheduler does not), `ControlAnytime = FALSE` (methods are called on all
workers only while the loop does not run, as `LLMEngine` does, which stops the
loop first), `SwapOnlySteps = FALSE` in `Executor` (the run `SwapOnlyStep` shows
what happens otherwise), one submitting thread per executor. `NoZombies` and
`HeldAreTold` speak of the first background task only, since a second one
starts with an empty tracker.

Fairness:

* `Iteration`: weak fairness of `Schedule \/ Iterate`. `schedule()` and output
  processing are one thread's straight-line code, and `LLM._run_engine`
  (`entrypoints/llm.py`) steps the engine as long as it has unfinished requests.
  Nothing is assumed of new requests, aborts or samples.
* `AsyncEngine`: a task of the event loop that may go on does, which includes that a
  client reads on as long as it is there; an iteration ends by itself or by its
  timeout. Nothing is assumed of cancellations, departures, aborts or new calls, nor
  of which step fails.
* `Executor`: threads and processes that live go on. Nothing is assumed of
  deaths and exceptions, nor that a worker leaves the model's loop before it is told to.

## 4. Proofs

The assumptions of a proof are those that the modules name: sizes are positive,
pools, sequences, clients and workers finite, each task belongs to one worker,
the sentinels are none of the values. A theorem has further hypotheses only where
this section says so.

### The map (`KVMapMachine_proofs`)

Every property of the run `KVMap`, for every number of sequences, blocks, groups,
tokens and leases: `TypeCorrect`, `BlocksConserved` (`RefsExact`), `NoUncachedGap`
(`RetainedWindow`), `ExceptionSafety` (`RaisesUnchanged`), `GroupsShareAlike`
(`GroupsInStep`), `LeasesKept` (`LeasesHold`), `PlansSound` (`PlanSound`),
`TailsPrivate` (`TailExclusive`).

`RefsExact` is not inductive alone: freeing is exact only if the counts are
those of the table; extending is exact only if the new key is not in the table,
which is `RetainedWindow` of the other methods; and `RetainedWindow` needs that
the newest block is never evicted. `IInv` is their conjunction with the type.
`TokenLayerKVMap_proofs` proves for one pool that `Added` and `Dropped` keep it
exact and undo each other, then for every method that each outcome is in order
and each raise returns the old map; the machine's proof has one step per action
that cites the method's lemma.

The other four need to know which entries name one block. `GroupsInStep` speaks of
kept entries; that it is kept needs that a temporary block is nobody else's
(`TempsAlone`), and both together are `Sharing`. A lease stays current because no
method touches the entries of a sequence that is not its argument, except to
share them (`LeaseInv`). A plan is sound because its targets are taken from free
blocks while the table says that they are in none. A tail is private because an
append either takes a new block, or leaves the copied one with its own sequence
and frees the reference. The second part of `TokenLayerKVMap_proofs` has what each method does to the
entries; where a method loops over groups (append, recompute) it is a lemma per
group and one about the whole.

### Scheduler and manager (`ELLMScheduler_proofs`)

For every number of requests, sequences, blocks, groups and tokens: `TypesKept`
(`TypeOK`), `MapStaysInOrder` (`MapInOrder`), `SidesStayAgreed` (`SidesAgree`),
`RecordsStayRight` (`RecordsMatch`), `WritesAlone` (`NoSharedWriteSlot`),
`SwapsRestore` (`SwapRestores`), `NoCpuBlockLost` (`CpuBlocksAccounted`) and
`BudgetKept` (`WithinLimit`). Assumed is only that there are finitely many requests,
that a sequence id is given once, to one request, as `seq_counter` does, and that
the sequence budget lets the longest request run. `ChecksSuffice`
(`CheckedCallsSucceed`) has one hypothesis more, that a block has more than one slot.

That the map has for each sequence the tokens the scheduler believes in is not
inductive: a request moves from queue to queue as a whole, so a sequence in
another queue than the rest of its request would be left behind. `Settled` adds
that unfinished sequences of a request are in one queue (`Mates`), that its first
sequence is the first there is (`FirstComes`), what the map has in each state, with
one token less outside the batch (`InLine`), that a sequence of the batch is alone in
its last block (`Alone`), and that no copy in the making survives a call. It holds
while the engine runs: a call that raised half-way may leave another picture, and
what remains then is a map in order and records that can be restored
(`RecordsKept`). These say that a record has fewer evicted blocks than the
sequence has blocks, without which `swap_in` could not allocate.

A call of the manager is a loop over the sequences of a request that stops at the
first exception. The first part of the module proves for each call, by induction over
the list, what it leaves in the map for the sequences it names, and that it leaves the
length and the private tail of all others (`Moved`). With that, `SettledStep` reduces
each action of the scheduler to the one request it handles. The step with most to
show is the output of a step: children are born of a sequence that may end in the
same step, get its blocks by `fork`, and only then is the parent freed
(`OutputMap`). `SwapRestores` is an action property: what `_schedule_swapped` gives
back is read off the record (`SwappedKeeps`), and no other action makes a swapped
sequence a running one (`OthersReturnNone`).

`ChecksSuffice` relates what the manager was asked before a loop of calls to what
the loop takes. The sum that `can_allocate` and `can_swap_in` compute is the size of a
set of dots, one for each block that a place of the list takes (`SumIs`); the loop's
invariant is that the dots of the places still to come are no more than the free
blocks, in every group, and a call of the map takes as many blocks as its place
has dots (`AllocateCount`). For the swapped sequences the sizes are those of the
records, which is why `RecordsKept` gives their domains. Before `append_slots` the
manager counts sequences that begin a block or must copy a shared one. In the loop a copy
for one sequence may leave another alone in a block they shared, so the count of
those still to come can only shrink (`SharedBefore`, `AppendFits`). The
hypothesis is needed: `can_append_slots` finds a sequence that begins a block by
`get_len() % block_size == 1` (`src/vllm/core/ellm_block_manager.py:95`), which is never
true with blocks of one slot, and with `BlockSize = 1` the run `Worker` does reach an
append that raises. The sizes that `--block-size` offers are 8, 16 and 32
(`src/vllm/engine/arg_utils.py:270`).

### The default manager (`BlockManagerV1_proofs`)

For every number of requests, sequences, blocks, tokens and layers, every block size
and watermark, without a sliding window (`Window = 0`): `TypesRight` (`TypeOK`);
`ReferencesExact` (`RefsExact`) and `ContentsRight` (`KVIntact`) when only beam search
has groups of several sequences (`Exactly`); and `ChecksSufficient`
(`CheckedCallsSucceed`) for models of any number of layers: `append_slots`, `swap_in` and
`swap_out` have the blocks they were promised, nothing is freed twice, and the only
promise that may be broken is that of `can_allocate`, in a model of more layers than
the 4 that a new group counts (`src/vllm/sequence.py:439`), the finding `OkMeansNow`.

None of the hypotheses is there for the proof's sake:

* with `Window = 2` and `BlockSize = 1` TLC violates `RefsExact`, `KVIntact` and
  `CheckedCallsSucceed` (section 5). `TypeOK` has not failed there, and is proved
  only without a window;
* with `Beam = {}` in the run `BlockManagerV1` TLC violates `RefsExact` and `KVIntact`:
  a request whose other sequences have finished is recomputed, with references for
  the finished ones, and decoded when the remaining one is not the first. When the
  remaining one is the first, the assertion ends the engine, which is a fault of its own
  and none of those that `CheckedCallsSucceed` speaks of.

The exception in `CheckedCallsSucceed` is no hypothesis but part of what is proved, and
it is needed: with `FreshLayers < NumLayers` the run `AdmitsTooMuch` reaches an
`allocate` that raises. The run `BlockManagerV1` has as many layers as a new group
counts, so that there it is checked that no `allocate` raises.

The inductive invariant `Inductive` has four parts. The counts (`Counted`): the
reference count of a block is at least the number of tables that have it, and equal
when `Exactly`; the free blocks are those with count 0; and no table has a block
twice, without which a `free` of a table would not be one reference for each block.
The groups (`Grouped`): the live sequences of a request are in one place, and one that
waits is alone, as otherwise a preemption or a swap would move some of them and leave
the others with blocks of the wrong device. The records (`Recorded`). And what each
sequence has (`Sound`): its table is on the device of its status, with as many blocks
as its tokens need. Between steps these hold all but the newest token (`Kept`); for a
sequence of the batch there is a place for that one too, in a block that no other
table has (`Prepared`), which is what makes the write of one sequence harmless to
all others. `IInv` adds that a group of the batch whose stage is PREFILL is its first
sequence alone (`Started`), so that the stage read off the first sequence is right for
those that are computed, and what is left when `allocate` raised.

Each call is a function or a loop over a list. One lemma per call says what it leaves
for the sequences it names and that all others keep tables and contents
(`Untouched`); `GroupStep` then reduces an action to the one request it handles. Three
steps have the most to show. `append_slots` goes through the sequences of a group,
and a copy on write for one may leave a block that two shared to the other alone:
what a sequence lacks can only shrink while the others get their slots (`Lacking`), so
that one free block for each is enough. A swap moves a block that several tables have
once, and counts one reference for each occurrence; with no block twice in a table the
occurrences are the tables that move, and these are all tables that have the block,
or the rest of its count goes to those that stay (`SwapIs`). At the output of a step
children get the blocks of a parent that may end in the same step, by one `fork` after
the other, before the parent's own are freed (`OutputsIs`).

### Executor and workers (`DistributedExecutor_proofs`)

`NobodyForgotten` (`NoneForgotten`), for every number of workers and calls,
wherever workers die and whenever the engine is shut down. That nobody waits once
the handler has ended does not follow from the handler alone: a task submitted
after its loop would be lost. The invariant adds that the queues are closed in
order (`ShutInOrder`), that the sentinel is sent, and the loop over the waiters
begins, only when all are closed (`SentinelIsLast`), and that whoever waits is in
the handler's table and not yet told (`WaitersKnown`).

`TypesKept` (`TypeOK`), and `LoopIsReached` (`LoopReached`), without hypotheses: when
the driver broadcasts, a worker that lives and whose queue is open is in the loop or has
only control calls before it, or the loop's method has raised on it, or (when there are
steps without groups) returned. So the order in which the executor starts the loop,
stops it, waits for it and calls methods never leaves a worker out. The invariant
relates what the executor remembers (`looping`) to each living worker's queue
(`LoopOrLeft`): the task of the loop is running or queued, and all before it is control
calls that end by themselves, or its result is there (`LeftLoop`). That holds because a
result that was sent stays until the next loop (`EndsKept`, which needs that nobody in
the handler's table has a result, `Unanswered`), and because this run of the loop has
not been told to end while the executor remembers it (`Untold`).

### Asynchronous engine (`AsyncEngine_proofs`)

For any number of clients, outputs and ids, equal ids included: `TypesKept`
(`TypeOK`), `OutputsArrive` (`NoOutputLost`), `NothingIsLeft` (`NoZombies`),
`FailureIsTold` (`HeldAreTold`), and `ServiceKept` (`ServicePromise`), the refinement of
`RequestService`: the initial state maps to one of the service, and each step to
one of its steps or to none.

The invariant says for each client with an id of its own (`Good`) where its stream
is, from the call to the end: not yet known, in the tracker's queue, registered,
in the engine, finished, or closed; what is in its queue in that place
(`QueueForm`: consecutive outputs, then at most one end); and that the tracker's
queue, its table and the engine's groups agree. Of a client that left between outputs
it says that its request is out of the tracker's queue (it got an output), and nothing
of its stream, which nobody reads. Clients who share an id are only typed. One proof attempt ended in a counterexample: after the background task is
replaced, a request of a second client with an id in use may be refused in the
middle of a step, and the step then ends with outputs made and not yet handed to
anyone, so `NoOutputLost`, like `NoZombies` and `HeldAreTold`, speaks of the first
background task (`loops = 1`).

### LoRA (`LoRABatching_proofs`)

For every number of requests, adapters, slots and places: `BatchesFit` (`BatchFits`),
`SlotsStay` (`SlotsAgree`), `BatchesRun` (`StepsSucceed`), `RowsServed`
(`RowsGetTheirAdapter`).

That `curr_loras` covers the batch is not invariant: a preemption takes out of it an
adapter that the batch may have. The invariant says instead that the running groups
together fit, and that `curr_loras` is right where a group may still join
(`CurrRight`), which a preemption rules out for the rest of the step.

That the batch's adapters all stay until the model runs is about recency. While
they are made active one after another, whatever was used after one of them is one
of them (`Latest`), in both caches; so the oldest entry of a full cache can only be
one of them if the cache holds nothing else, and then the batch would need more
adapters than there are places (`HeadIsOld`). A free slot exists whenever the cache
of active adapters is not full, by counting: used slots and active adapters are in
one-to-one correspondence (`SlotsUsed`). The indices that `set_lora_mapping` keeps
for a batch with the same rows are right because all adapters of these rows were
active when the batch began, and making an active adapter active moves no slot.

### Folds and induction

`ProcessOutputs`, `ApplyLoras` and others fold over finite sets. The induction
theorems of the library take an operator, which the installed provers cannot
instantiate; `Folding_proofs` states induction over *sets* of numbers and of subsets
instead (`NatSetInduction`, `SubsetInduction`), which well-founded orderings
of the library give, and derives that a fold over a finite set exists
(`FoldDefined`) and that what holds at first and is kept by each step holds at the
end (`FoldKeeps`). The same is stated of the recursive functions that stand for
loops over lists: such a function exists (`LoopDefined`), and an invariant of its steps
holds of every value (`LoopKeeps`).

### Only model-checked

* `EveryoneAnswered`, `RequestsEnd` and the other liveness properties: out of
  the prover's reach.
* `KVKept` and `ReadsRight` of the worker, which add streams and contents to the whole
  of scheduler, manager and map. They hold up to the two known defects only
  (`spoiled`), which an inductive invariant would have to follow through both.

## 5. Findings

Each has a run whose property states what the repository says.

* `AbortFreesSequence`: aborting a swapped-out request leaves its CPU blocks
  taken for ever.
* `SelectedRatioApplies`: a cache ratio above an earlier one raises out of
  `schedule()`, for instance when a second request joins a first.
* `SwapOutFinishesFirst`: the model does not wait for a swap-out whose freed
  blocks are taken by the recompute plans of the same step, as these are not among
  `total_block_ids`; the CPU copy is spoiled.
* `TasksMeanLoop`: a step with blocks to swap but no groups ends the loop on the
  remote workers, while the executor keeps `parallel_worker_tasks`; the next
  broadcast finds nobody.
* `OkMeansNow`: the default manager scales the blocks of a prompt by
  `int(cache_layers / flatten_layers)`, which is 0 for a new request of a model
  with more than four layers: everything is admitted and `allocate` raises.

Met while modelling, without a run of their own (no text of the repository that
the run could contradict, or visible in a run's states):

* past the sliding window, a forked sequence of the default manager returns to a
  table entry that a copy on write has replaced, and writes over its parent's tokens
  (`block_manager_v1.py:433`). `BlockManagerV1` models the window and the run has
  none; with `Window = 2` and `BlockSize = 1` `KVIntact` fails after five steps.
* `swap_out` frees a block once for each entry of the table
  (`block_manager_v1.py:576`), and past the sliding window a block has several entries
  in one table and one reference: with such a window a swap raises `Double free!`.
  `_free_block_table` takes one window of the table for this very reason (the comment at
  `block_manager_v1.py:590-594`).
* `set_lora_mapping` (`lora/models.py:552`) keeps the indices of the last batch for
  one with the same rows. When `remove_lora` takes a running request's adapter out
  of its slot, `add_lora` puts another one there, and the next batch has the same
  rows, these read the weights of the other adapter. `RowsGetTheirAdapter`
  without `~disturbed` fails so.
* a group with an adapter that needs two victims raises `KeyError`, as its adapter
  is taken out of `curr_loras` once for each (`scheduler.py:467`,
  `fault = "curr_loras"`).
* an adapter that cannot be loaded raises out of the step when it comes with a
  request (`worker_manager.py:265`), and the engine's other requests with it;
  `add_lora` passes the exception to its caller only.
* `can_swap_in` of the eLLM manager does not count the token that `schedule()`
  appends right after; the append then raises (`fault = "append after swap-in"`).
  The default manager counts it.
* preemption mode `recompute` fails an assertion for groups of several sequences.
* a request of which all but one sequence have finished is preempted by
  recompute. If the oldest finished, its prompt is later scheduled as a decode
  (`spoiled`); if the oldest goes on, the assertion that a prefill has one
  sequence stops the engine (`fault = "prefill of several sequences"`). In the
  default manager the same group is allocated with references for the finished
  sequences too (`block_manager_v1.py:326`), which no one returns.
* two ways in which requests wait for ever, named in `RequestsEnd`: swapped forks
  that no longer share enough to fit (`CannotReturn`), and a request of several
  sequences for which the policy always chooses a batch of one (`TooWide`).
* plan building raises `RuntimeError` when the batch's temporary blocks are not
  there (`fault = "plans"`); nothing checks before.
* a step that schedules nothing puts the background loop to sleep although
  requests wait (`EngineYields`).
* a consumer that drops `generate()`'s generator between two outputs, or is cancelled
  while it handles one, ends it by `GeneratorExit`, and `process_request`
  (`async_llm_engine.py:779`) aborts only for an `Exception` or a `CancelledError`: the
  request runs to its end for nobody, unless somebody calls `abort()`.
  `entrypoints/api_server.py:54-64` hands the generator to a `StreamingResponse`, which
  may be cancelled while it sends. `NoZombies` without `"left"` fails so.
* an exception in `start_worker_execution_loop` is sent as a result of its task, which
  nobody reads while `parallel_worker_tasks` is set; the worker is alive but out of the
  loop (`multiproc_worker_utils.py:223-230`), and the driver's next broadcast, or the one
  that is to stop the loop, waits for it. `EngineReturns` without `Deserted`, and
  `LoopReached` without `LeftLoop`, fail so.
* requests in the tracker's queue, not yet registered, are never told when the
  background task dies.
* a second thread that submits a task while the result handler tells the waiters
  changes the size of the dictionary it iterates, and the handler dies.

## 6. Not modelled

* Manager v2 and prefix caching: this scheduler passes `flatten_layers`, which
  `BlockSpaceManagerV2` does not take, and v1's caching allocators are built
  without the `flatten_layers` they need.
* Chunked prefill: `_schedule_chunked_prefill` never sets `cache_layers`, which
  `schedule()` reads.
* Speculative decoding: the eLLM manager refuses lookahead slots.
* The ranking of `select_ellm_policy`: it depends on measured times; its range of
  answers is modelled.
* Model execution, kernels, tokenisation, API servers, quantization, model files:
  numerical code, text and I/O, the great majority of the source lines.
* LoRA weights, packed modules and long contexts, the dummy adapters of the warm-up,
  and the manager without LRU caches, which the model runner does not use.
  Adapters are modelled apart from the KV cache: `ELLMScheduler` has only the
  early stop of the loops.
* Sliding windows: modelled in `BlockManagerV1`, and none in the runs (section 5).
* Ray, CPU and Neuron executors: start-up and remote calls of external runtimes.

What would come next: the policy as a function against a reference definition.
