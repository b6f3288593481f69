# A TLA+ development of the Dual Predict Scheduler

The repository is a fork of vLLM 0.4 (by way of vLLM-ltr) that ranks requests
by a predicted output length. Its own contribution, the schedule type
`dual<T>`, scores requests with two predictors at once: a small model on the
CPU that runs in a thread of its own and returns its scores whenever they are
ready, and the same model on the GPU, called synchronously. A router decides
per scheduler tick which of the two gets the unscored requests. Requests
without a score are withheld from the scheduler.

What is hard about this is concurrency: the scheduler's thread and the CPU
predictor's thread share the scores, the set of requests in flight and a flag,
partly under a lock and partly not; around them an asyncio front end adds,
aborts and fails requests between any two awaits. The second source of trouble is
the memory below: blocks that are shared, copied, swapped and cached while a
ranked schedule reclaims them by estimate. Paths below are relative to `src/`.

## Inventory

| Component | State | Operations | Interacts with |
|---|---|---|---|
| CPU streaming predictor, `vllm/model_executor/openvino_predictor.py` | `_stream_queue`, `_stream_in_flight`, `_stream_worker_active`, `_executor` | `submit_streaming`, `_stream_worker_loop`, `shutdown`, `has_pending_stream`, `stream_stats` | called by the scheduler's thread; its worker thread writes `SequenceGroup.aux_model_score` |
| Legacy asynchronous API, same file | `_pending_future`, `_pending_seq_groups` | `submit_async`, `poll_results`, `is_busy` | scheduler ticks of `opt-cpu-warmup` |
| GPU predictor (AUXLLM), `vllm/engine/aux_llm_engine.py` | an LLM engine of its own | `obtain_aux_scores` | called synchronously by the tick; asserts that a request is still unscored |
| Composite and router, `vllm/model_executor/dual_aux_model.py`, `dual_predictor_router.py` | LUTs, token-count cache | `route_batch`, `is_pending_cpu_score` | reads `_stream_in_flight` without the lock |
| Scheduler, `vllm/core/scheduler.py` | `waiting`, `running`, `swapped`, `serve_start_time`, starvation counters | `add_seq_group`, `abort_seq_group`, `_get_*_ordered_requests` (one per schedule type), `_general_schedule`, `reserve_free_blocks`, `free_finished_seq_groups`; upstream's default and chunked-prefill schedules | predictors, block manager, engine |
| MLFQ and SRTF baselines, `vllm/core/mlfq_scheduler.py` | queues per priority | `schedule` | block manager |
| Block managers, `vllm/core/block_manager_v1.py`, `block_manager_v2.py`, `vllm/core/block/`, `evictor.py` | block tables, free lists, reference counts, hash tables | allocate, append (copy on write), fork, swap in and out, free | scheduler, output processors |
| Asynchronous engine, `vllm/engine/async_llm_engine.py` | `RequestTracker` (streams, new and finished requests, event), background task, recorded error | `generate`, `abort`, `engine_step`, `run_engine_loop`, `_error_callback` | servers; the LLM engine |
| LLM engine and output processors, `vllm/engine/` | scheduler, sequences | `add_request`, `abort_request`, `step`; forks, stop strings | scheduler, executors |
| Executors, workers, models, kernels, LoRA, speculative decoding, distributed, configuration, entry points, tracing, training, benchmarks | – | – | not control state of the scheduling problem, see *Not modelled* |

How they interact in one tick of `dual<T>` (`scheduler.py:1641-1814`): the tick
reads the score of each waiting request and whether the CPU predictor has it in
flight; the router sends all remaining ones either to `submit_streaming` (which
returns at once) or, after one more look at their scores, to AUXLLM (which does
not return until it has scored them); then a gate drops whatever is still
unscored and `_general_schedule` starts some of the rest. All the while the
worker thread pulls chunks, computes, removes each request from the in-flight
set and stores its score.

What makes the parts correct:

- *CPU predictor*: the in-flight set is exact, nothing is computed twice at a
  time, a queued request always has a worker that will look at the queue, one
  worker per flag, failures release their requests, a shutdown is final.
- *Dual tick*: nothing unscored is admitted; no request is with both predictors
  at once; no request is withheld without somebody owing it a score; AUXLLM's
  assertion holds; every request is eventually scored.
- *Asynchronous engine*: every output has a stream, streams and engine agree on
  who is being served, a stream ends once, every call ends, a dead engine
  leaves nobody waiting.
- *Blocks*: reference counts equal the number of sequences that hold a block, a
  block is free or in use and never both, no sequence writes a block another one
  uses, the checks made before a method suffice for all of it.
- *General schedule*: its estimates suffice, no assertion of it fails, swaps and
  copies leave every group with its own tokens, a tick that is given requests
  executes one.
- *Warm-up types*: only scored requests are ranked, the warm-up is drained first,
  nobody is withheld for ever, also when a finished batch is overwritten unread.
- *Starvation control*: every request that is offered runs in the end.
- *MLFQ*: levels and status lists agree, memory is taken from the bottom.
- *Prefix cache, manager v2*: counts, hashes and pools are exact, a request reads
  what was computed for its own words, one check up front covers an append.

## Modules

| Module | Models | Notes |
|---|---|---|
| `Lists` | Python's filtering of lists | by what the comprehension returns, without recursion, so that proofs can use it |
| `ScoreService` | the contract of an asynchronous predictor | no queue, chunk or thread; `owed`, `score`, `open` |
| `StreamPredictor` | `submit_streaming`, `_stream_worker_loop`, `shutdown` | two actors; refines `ScoreService` |
| `FuturePredictor` | `submit_async`, `poll_results`, `is_busy` | EXTENDS `StreamPredictor`: same class, executor and scores |
| `DualScheduler` | the dual tick, arrivals, aborts, AUXLLM | EXTENDS `StreamPredictor` and runs its worker between any two reads |
| `WarmupStages` | `opt-cpu-warmup`, `opt-cpu-async-warmup`, `opt-cpu-async-merged` | EXTENDS `FuturePredictor`; which predictor is used depends on `kind` |
| `StarvationControl` | the counters `idle`, `runs`, `pri` | the suffix `-starv<N>-period<M>` |
| `AsyncEngine` | `generate`, `RequestTracker`, `AsyncStream`, `run_engine_loop`, failures | steps end at the awaits where a task can be suspended |
| `BlockManagerV1` | the block manager over the uncached allocators | state and methods; a method that raises records why and ends the run |
| `SequenceGroups` | sequences of a group, the output processor's forks and frees | EXTENDS `BlockManagerV1`; shared by the schedules |
| `DefaultSchedule` | the default schedule's passes, preemption, swaps | EXTENDS `SequenceGroups` |
| `ChunkedSchedule` | the chunked-prefill schedule, with its budgets and queues | EXTENDS `DefaultSchedule`, whose appends, preemptions and swaps it uses |
| `GeneralSchedule` | `_general_schedule`, `reserve_free_blocks`, the worker's block moves | EXTENDS `SequenceGroups` |
| `MLFQ` | the multi-level feedback queue | memory and time left open |
| `PrefixCache` | the cached allocator, the LRU evictor, the caching branches of the manager v1 | with the contents of the pages |
| `BlockManagerV2` | naive and prefix-caching allocators, copy-on-write tracker, block tables, the manager's checks | one device |
| `ListLemmas`, `StreamPredictorProofs`, `DualScheduleProofs`, `VariantsProofs`, `BlockLemmas`, `ScheduleProofs`, `FrontEndAndTableProofs`, `PrefixCacheProofs` | – | lemmas and theorems |
| `MCDualSchedule`, `MCAsyncEngine`, `MCSchedules`, `MCVariants`, `MCParts` | – | instances for TLC |

`MCVariants`, `MCParts` and `MCDualSchedule` put modules side by side that replace one another or
reach one another by calls only (the dual schedule, the warm-up types, MLFQ and
starvation control; the streaming predictor, the prefix cache and the manager v2;
the scoring and the scheduling half of a dual tick).
The initial state says which one runs; the others stand still in one of their
states. So one run explores the sum of their state spaces, not the product. In
`MCVariants` the dual schedule has scheduler state of its own over the same
predictor as the warm-up types. `MCSchedules` instantiates `ChunkedSchedule`, whose
variable `chunked` chooses between the default and the chunked schedule.

### StreamPredictor

`queue`, `inFlight`, `active` are the three attributes guarded by
`_stream_lock`; `up` says that `_executor` is not `None`; `tasks` counts loops
handed to the executor and not yet started; `caller` and `worker` are program
counters; `chunk` holds what the worker pulled and has not released; `landing`
is the request between line 557 (released) and 559 (score stored); `score`
records who scored a request. Each action is one critical section or one
unlocked step that the other thread can observe. The critical section of
`submit_streaming` (461-475) is `Enqueue`; the unlocked hand-over to the executor
(479-486) is `Spawn` or `SpawnFails`. The executor has one thread
(`max_workers=1`), so `StartLoop` needs `worker = "off"`. A spawn that fails is
modelled as one that leaves nothing in the executor. `shutdown` and its clearing
of the state (392-409) are one action of the caller's thread; the worker only
ever sees the second half. Scores are abstracted to the predictor that computed
them; a request keeps its score once it has one, whoever overwrites it.

### DualScheduler

A tick is a sequence of small steps with a program counter `tick`, the requests
the current pass still has to look at (`todo`), and those it has selected
(`picked`): `ReadScore` and `ReadPending` are the two separate reads of line
1704-1705, `RouteToCpu`/`RouteToGpu` the router's all-or-nothing answer (either
may come: the LUTs are data), `Refilter` the second look (1749), `GpuForward` and
`GpuStore` the synchronous model and its stores (`aux_llm_engine.py:398-410`),
`GpuAssertFails` the assertion at 409, `Gate` the gate (1791), `Schedule` the
effect of `_general_schedule` on the queues: some of the offered waiting requests
start. (`reserve_free_blocks` preempts by swapping only, so a running group does
not return to `waiting`; `running` stands for `running` and `swapped`.) Reads of
the scores by the first stage are one step because nothing has been given to the
CPU predictor at that time. Requests arrive, are aborted and finish between
ticks, which is when the engine does it. `free_finished_seq_groups` also empties
all queues when a benchmark's time bound is reached; to the model that is a
series of aborts.

### AsyncEngine

One event loop, so a step is what one task does between two awaits at which it
can be suspended: the tokenizer in `add_request`, the model in `step_async`, an
empty stream, the event, and the task switch of `asyncio.wait_for`. `EngineStep`
is `engine_step` up to the model (drain the tracker, add, abort, schedule):
`add_request_async` and `abort_request` are awaited without suspension for
prompts that are already tokenized and an engine in the same process. The
`EngineStepReturns` delivers the outputs of a step; `OutputWithoutStream` delivers some of them and
ends the loop at the first that has no stream. The LLM engine is the set of its unfinished requests; whether a schedule type
withholds unscored ones is the constant `Gated`. A scheduler that can run
something is assumed to run something. Two variables never change and say which
world a behaviour lives in: `idOf`, the ids the clients chose (their own or
colliding ones), and `reliable`, that no step fails. What holds for different ids
or without failures only is stated under these conditions, and one run has all
four worlds.

### BlockManagerV1, SequenceGroups, DefaultSchedule

`table`, `ref` and `free` are the manager's `block_tables`, the blocks'
`ref_count` and the two free lists. A free list is the set of its blocks: which
block the allocator pops is data. Every method is one update of the three
(`Account`): the blocks that leave the free list, what is added to counts, and
how often each block is freed; freeing a block whose count is exhausted raises,
as `UncachedBlockAllocator.free` does. `_append_slots` is a loop over the
sequences of a group in which each iteration depends on the one before (the first
copies a shared block, the last then writes in place), so each iteration is a
step (`AppendSlot`), with `pending` for the sequences still to be visited.

All unfinished sequences of a group have the same length and the same status
(they start as one sequence, fork with equal lengths and gain one token per
step), so `tokens` and `phase` are kept per group; `ended` counts the finished
sequences that stay in it. `stage` and the phases of the groups say where in
`_schedule_default` the tick is: prefills only while nothing is swapped, the
running pass only without prefills, the swapped pass only without preemptions.
`running` groups are `ready` until a pass gives them slots (`decoding`,
`prefilling`). `_schedule_running` handles every group of its queue before the
model runs. Budgets, LoRA limits and the order of the queues are left open: any
group a pass could reach comes next. A group that comes back from the CPU is
`returning` until its slots are appended; the assertion that it has one new token
follows (`Returned`). `Sampled` leaves open which candidates stop
and which beams win, and keeps how many there can be; a sequence is stopped at
`max_model_len`, which bounds the model (`MaxLen`).

### ChunkedSchedule

`_schedule_chunked_prefill` runs the three passes in one tick and charges them to
one budget, so the budget (`spent`, `chunk`) and the order of the queues matter
here: `arrived` is the order `fcfs` sorts by, `queue` is `waiting`, and the
preempted join it at the front when the tick ends (`ExecuteChunked`), after the
prefill pass has passed them over. Each pass goes on as long as the code's loop
does, so a tick has no choice but the interleaving of its parts; arrivals, aborts
and samples are open. `computed` and `decode` are `_num_computed_tokens` and the
stage of the sequences; `Cut` is what remains of the budget, which a group of several
sequences can drive below zero. Assertions that fail are recorded in `raised`.
`passed_delay`, LoRA limits and lookahead slots are left out. `ScheduleNext` is
`_schedule`: `chunked`, which never changes, says which of the two schedules runs.

### GeneralSchedule

One tick is a sequence of steps along `_general_schedule`, with `stage` as its
program counter: the loop over the ordered requests selects groups into `pinned`
while the two budgets last, cutting prompts to what is left (`take`) and adding up
what they will need (`need`); `reserve_free_blocks` swaps out running groups from
the end of `rest`, then puts selected groups back, and if nothing had to be swapped
out swaps further groups in proactively, as long as there is room; the last loop
executes the selected groups (allocate, append) one sequence at a time. `budget` is
the `SchedulingBudget`. The order is data: any group
may come next, and any waiting one may be withheld, as the gate of the dual tick
does. `swapOut`, `swapIn` and `copies` are what the tick hands the worker, and
`kv` is whose tokens each block then holds after `execute_model` has swapped out,
swapped in and copied, in this order (`worker.py:205-220`). `uncharged` remembers
the groups swapped in at line 2541 whose charge went to another request. The
reservation in `Required` follows the estimates of lines 2426-2500.

### FuturePredictor and WarmupStages

`future` is `_pending_future` with what has become of its batch, `pending` is
`_pending_seq_groups`. `submit_async` is refused while the future is being
computed, but not when it is done and unread: that one is overwritten. `kind`
chooses the ordering function. `era` is what `is_warmup_era` will say of a request
(its `arrival_time` is taken before it is tokenized, so it may reach the scheduler
after the clock has run out), and `clock` is `serve_start_time` against `warmup_end`.
`opt-cpu-warmup` polls, submits what has no score, and offers what has one;
`async-warmup` streams instead and drains the warm-up era first come, first served
before it ranks (`Drain`); `async-merged` offers both together. Reads of a
score and of the in-flight mark are steps of their own, between which the worker
runs. Preemption by recomputation may return a running request to `waiting`.

### StarvationControl

One action, a tick: promote whoever has been idle for `Starv` ticks, demote whose
runs are used up, sort by priority with an arbitrary order within one, run the
first `Slots`, and update the counters as the end of `_general_schedule` does.
All requests are offered on every tick; that is the worst case for each of them.

### MLFQ

`levels` are the priority queues, `place` the status list a group is in. A tick
takes a prefix of the levels whose sequences fit `max_num_seqs` (`Selectable`),
evicts the last of the others and then puts back the last of the selected
(`Evictions`, for any amount of memory), may swap in one group from behind the
selection (`Room`), and ends with the count at line 787. `TickOutOfSpace` is the `RuntimeError` of `_swap_out` (1140),
for any tick with a running group, since the memory is not counted. After the step the
executed groups return to their level or one below it. An abort before the first
tick reads an attribute that does not exist (`everTicked`).

### PrefixCache

A hash is what it hashes: the words up to the end of the page. `gpu` and `cpu`
are the two `CachedBlockAllocator`s with their evictors; allocation, promotion of
a full page (`UpdateHash`), copy on write and `access_all_blocks_in_seq` are
functions on their state; the loops over the pages of a prompt or a table
(`AllocateAll`, `FreeAll`) and the search of the evictor (`LeastRecent`) are recursive
functions of the number of rounds. A tick schedules some sequences (`job`), `moves` is what
it hands the worker, and `kv` what each slot of each page then holds: the words
up to the one it was computed for. A prompt whose pages are marked as computed is
not computed again. `swaps` says how a preemption is made, for the whole run.

### BlockManagerV2

`refs`, `freeIds`, `cached` and `unused` are the allocator's state, `blocks` the
block tables with the tokens in each block; `caching` chooses the allocator for
the whole run. `allocate`, `append_token_ids` with lookahead slots, `fork` and
`free` are one action each, composed of functions on the allocator's state that
may fail in the middle (`failure`). The loops of the code over chunks and blocks
are recursive functions of the number of rounds (`Allocated`, `Extended`, `Filled`,
`Freed`), so that an induction over the rounds can be stated. The manager's checks
(`can_allocate`, `can_append_slots`) guard the actions. The code counts the touched blocks of
all running sequences of a group before it appends to the first of them; here each append
is checked for its own sequence, which admits every step of a group that passed the check of the code,
since no sequence takes more than was counted for it. An append is of one
unseen token and the lookahead slots; several unseen tokens at once are not modelled.

## Runs

All bounds are in the `.cfg` files. `CHECK_DEADLOCK FALSE` is used where the
system may stop: everybody has been served, the predictor has been shut down, or
the engine has died; that nobody is left behind when it stops is what the
liveness properties say.

| Run | Result | What it shows |
|---|---|---|
| `parts` | pass | *Predictor*: `InFlightExact`, `NoDuplicateWork`, `ShutdownIsFinal` under every interleaving, with failing spawns and chunks and a shutdown at any time, and it refines `ScoreService`. *Prefix cache*: `PoolsMatch`, `KVOfOwnWords` (without swaps). *Manager v2*: `CountsAndPoolsExact`, `SharedBlocksAgree`, `WorstCaseSuffices` over both allocators |
| `dual` | pass | *Scoring*: `SchedulableIsScored`, `NoDoubleDispatch`, `NothingForgotten` for two requests, with failing spawns (proved for any number). *Scheduling*: `PoolExact`, `TickAsserts`, `EstimatesSuffice`, `KVIntact`, `NoEmptyTick` for three groups, one of which may have two sequences |
| `dual_assert` | violated | finding 1 |
| `engine` | pass | calls with ids of their own or colliding ones, each of which may be refused, cancelled or aborted, steps that fail, late callbacks and restarts: `StreamsEndOnce`, `DeadEngineClosesStreams` always, `StreamsMatchEngine` and `EveryCallEnds` for different ids and steps that do not fail |
| `engine_gated` | violated | finding 2 |
| `blocks` | pass | `PoolExact`, `ChecksSuffice`, `WritesArePrivate` for greedy and beam-search groups without a window, under both the default and the chunked schedule; `ComputedIsHeld` under the chunked one |
| `chunked_empty` | violated | finding 6 |
| `general_budget` | violated | finding 3 |
| `general_room` | violated | finding 7; it starts between two ticks, from a state the comment in `MCDualSchedule` tells how to reach |
| `variants` | pass | *Dual schedule and warm-up types*: `OneLoop`, `NoLostWakeup`, and no request is withheld for ever (`NobodyWithheld`): through warm-up, routing and failing chunks, the dual schedule has it scored (`EventuallyScored`, unless AUXLLM's assertion ends the engine), the others offer it (`EventuallyOffered`), or it leaves. *Warm-up types*: `StageAssertHolds`, `DrainBeforeRanked`. *MLFQ*: `QueuesAgree`, `ExecutesInOrder`. *Starvation control*: `EventuallyRuns` |
| `mlfq_count` | violated | finding 4 |
| `prefix_swap` | violated | finding 5 |

Why the bounds are enough. The races of predictor and tick are between one
caller and one worker over one request, so two requests show each of them and a
third, in `parts`, separates "this request" from "the rest of its chunk" (for the tick,
whose other half shares the run, the proofs cover any number); chunks of two give full and partial chunks and a queue that refills while
a chunk is computed. In `AsyncEngine` the interactions are between a call, the
loop and one other call: a batch with one ended and one running request, a
request that is new while the other runs, two requests of one id; each produces
at most two outputs, one that is not the last and one that is. In `blocks`,
three groups of up to two beams, four sequences in all, compete for four GPU and
three CPU blocks, so that groups are preempted both ways, swapped in again, or find
no CPU space; under a budget of three tokens and three sequences a group that is
computed again is cut, and both kinds of preemption hit groups in the middle of a
prompt; a prompt of seven tokens is refused. In
the
scheduling half of `dual`, three groups with prompts of one or three blocks share five blocks under a budget of
three tokens and two sequences: prompts are cut, running groups are swapped out
for better ranked ones, selected ones are put back, and one comes back
proactively. `variants` needs two requests (one of the warm-up era, one not),
three groups on two levels of which one has two sequences, and three rivals for
one slot with `Starv = 4`, `Period = 2`. `parts` has three pages for two sequences of
up to two pages, so that pages are shared, promoted onto each other, evicted and
reused, and three blocks for two tables of up to two blocks; the two sequences of the
prefix cache are interchangeable and checked up to symmetry, as are the sequences and
groups of `blocks` and `dual` that the `.cfg` files declare so. Every property of a
passing run is shown to depend on the code by a mutant of one definition in the
same module (an operator next to what it mutates, e.g. `ExitKeepsFlag`), under
which TLC finds it violated.

### Fairness

`DualFairness` (ticks, warm-up) and `StagesFairness` (the same, and the predictor's
thread, under either kind of schedule): the driver calls `schedule()` again while
requests are unfinished (`entrypoints/llm.py:232`), the executor's thread is scheduled
and a call of the model returns or raises, warm-up is a finite time, and a request's
chunk does not fail for ever (strong fairness of `Forward`; for `WarmupStages` of
chunks without a prompt that always raises). `WarmupStages` leaves the budgets open,
so it also assumes that a request which is offered again and again is started and
one that is started again and again finishes; what it then shows is that the
ordering functions withhold nobody.
`AsyncEngine`: an event loop runs every task that can run, the
model returns, the predictor scores what it was given; nothing is assumed of
clients. Starvation control: ticks go on; which of the requests of one priority
come first is the adversary's choice.

### Findings

1. `AuxAssertHolds`: the worker removes a request from the in-flight set before
   it stores the score. A tick between the two takes it for a request nobody is
   working on and routes it to the GPU; if the CPU's score lands before AUXLLM's,
   the assertion at `aux_llm_engine.py:409` fails and the exception ends the
   engine's loop. The in-flight filter was added against exactly this race.
2. `SleepsOnlyWhenIdle`: `engine_step` reports outputs, not requests in progress;
   a gated request whose score lands while the loop sleeps waits for the next
   request to arrive.
3. `BatchWithinBudget`: `reserve_free_blocks` charges a proactively swapped-in group
   to the variable of an earlier loop, which is charged already; a group in the
   middle of its prompt then runs the whole rest of it beyond
   `max_num_batched_tokens`.
4. `CountAssertionHolds`: a group MLFQ swaps in proactively is taken out of no
   priority queue, and the count its tick ends with fails.
5. `KVIsOwn`: a half full page keeps the hash of its prompt while words are
   appended to it in place; `swap_in` finds the page of another request under that
   hash and copies over it.
6. `ChunkSizeAtLeastOne`: with chunked prefill, a group is preempted by recomputation
   and joins the queue behind the prompt its tick admits next, or before one that
   arrived earlier; two cut prompts are then in the running queue, the first takes
   the whole budget, and the assertion that there is a token for the second fails.
7. `RoomForSwappedIn`: after a proactive swap-in the slots of the group are counted by
   the status its sequences no longer have, as none. If more sequences come back in
   one tick than the watermark leaves room for, the assertion that the last of them
   can append a slot fails. `TickAsserts` says when it holds: with at most
   `Watermark + 2` such sequences.

### Behaviour the models show without a run of its own

- *Predictor.* After a failed spawn only the flag is reset
  (`openvino_predictor.py:483` speaks of a retry): the requests stay in flight, the
  tick does not submit them again, and nothing retries until another request
  arrives. A prompt on which the tokenizer always raises takes its chunk with it
  each time: with `Poison = {r1}` TLC finds `EventuallyOffered` violated.
- *Clock.* With T = 0 the clock is never started (`add_seq_group` asks for
  `warmup_seconds > 0`) and the tick of the dual and merged types returns the empty
  list for ever (`Warmup = FALSE`).
- *Asynchronous engine.* When a step fails, `propagate_exception` walks the
  registered streams only; a call that has not been picked up is never told
  (`EveryCallEnds` without `reliable`). The duplicate check of `add_request` does
  not see such calls either, so two requests of one id can be in the engine. A
  call between the end of a failed task and its callback starts a second loop.
- *Blocks.* `allocate` counts all sequences of a group but gives tables to the
  waiting ones only (`block_manager_v1.py:305`): with several samples, a group with a
  finished sequence that is preempted by recomputation leaks its blocks
  (`FreeListExact`). With a sliding window, swaps free a block once per occurrence
  in a table (525), and past the window a table repeats blocks; after a second
  turn, the entry a sequence reuses (409) may be one it gave up by a copy on write.
  A beam group that swaps itself out because it was alone and short of blocks does
  not meet `can_swap_in` (471) again however much is freed, and no prompt is
  admitted while it is swapped. A group with several sequences has as many new
  tokens when it comes back, and the swapped pass asserts that it has one (746; also
  2312 and `mlfq_scheduler.py:708`): TLC reaches `raised = "NotOneToken"` in `blocks`
  and in `dual`, where the models stop.
- *Chunked prefill.* As in finding 6, a cut prompt takes the whole budget before a
  decoding group with two sequences, which is not cut, and the assertion at
  `scheduler.py:2602` fails: with four sequences, seven GPU blocks, prompts of three
  and `MaxLen = 8` TLC reaches `raised = "OverBudget"`. The swapped pass does not cut (726): a group with several samples
  that was swapped out in the middle of a prompt whose rest exceeds the budget never
  comes back, nor does anybody behind it. After a group that overdraws the budget a
  prompt is given a negative chunk (2934), which hides the overdraft from the
  assertion; the model records `NegativeChunk` and stops.
- *General schedule.* `NoEmptyTick` speaks of ticks that leave nothing
  unselected out, and names two requests for whose sake a tick may be empty. One is a head of the
  order with a `best_of` beyond `max_num_seqs`. The other is a last group that is put back
  although nobody else is on the GPU, for want of the watermark and a slot for every sequence of a
  batch: what the code makes sure of at start (`raise_if_cache_size_invalid`, `worker.py` 337:
  one sequence of `max_model_len`) does not exclude it. In the instance of `dual` with
  `NumGpu = 4` instead of 5, TLC finds a lone group of two samples, three blocks and two slots that
  is put back for want of one block; such a tick is repeated as long as nobody aborts the group.
- *MLFQ.* `push_front` on the way back reverses the order within a level;
  `prevent_starvation` (called at 919, after the return at 794) is dead code, and its
  helper would leave `seq_group` (530) to the loop before; an abort before the first
  tick raises `AttributeError` (266) where the docstring (235) says "do nothing".
- *Starvation control.* If a promotion outlasts the time the others need to starve
  (three rivals for one slot with `Starv = 1`, `Period = 1`, or with 2 and 2),
  everybody is promoted, nobody is, and one may never run. The parser wants
  `-starv5-period10`; the comment at 1223 has it without the hyphen.
- *Prefix caching of manager v2.* When a full block turns out to be a duplicate, its
  id is freed under a hash it was never registered for
  (`prefix_caching_block.py:267`); the model stops at the assertion this leads to. No
  caller uses that allocator yet.
- *Evictor.* The last use of a page is the last tick that scheduled one of its
  holders; a page whose holder waits for its turn is older than the docstring of the
  LRU evictor suggests. Nor does the evictor give up the least recently used page first, as its
  docstring says (53-54): it looks for it at the head of its table
  (`evictor.py:73-78`), which is in the order in which pages were given up and not in that
  of their last use, as the comment at 71-72 has it. In `PrefixCache` with two sequences and
  three pages of one word: one sequence computes its page and stands still while the
  prompt of two pages of the other is computed, and is aborted or preempted after the other has
  finished; its page is the older one, yet behind those of the other, one of which goes
  first. So the order of eviction does not keep prefixes whole either: with three sequences
  and four pages, the first page of a long prefix, shared by a second sequence that runs
  later, is younger than the pages behind it; when these come into the table on either
  side of it (they are freed in the order of a Python set), the second page is evicted first and the third stays
  cached without it, where nobody can use it.
## Proofs

`StreamPredictorProofs` proves, for every set of requests, every chunk size and
both values of the failure constants (assumption `ConstAssumption` only: the
chunk size is a positive number, the two flags are Booleans), the type invariant
and all safety properties of the predictor, and that it implements `ScoreService`.

The argument: `IInv` strengthens the checked invariants until they carry each
other. Neither `InFlightExact` nor `NoDuplicateWork` is inductive without the
other: enqueueing what is not in flight avoids duplicates only because in flight
means exactly "queued or computed", and releasing a request keeps the set exact
only because the request occurs once. `PcShape` says which program counter goes
with which chunk and landing; `QueueKeepsFlag` says that a non-empty queue keeps
the flag up (if spawns do not fail), and together with `OneLoop` gives
`NoLostWakeup`. `ListLemmas` holds what is needed about sequences: concatenation,
cutting off a prefix, and that `Filtered` has the elements it should, without
repetition. For the refinement, every action maps to a step of the contract or a
stutter (`StepImplements`): only enqueueing, failing, storing and shutting down
change what is owed; moving a request from queue to chunk to landing does not.

The first half of `DualScheduleProofs` proves the scoring half of `dual` for every number of
requests. `SchedulableIsScored` would follow from the gate alone if
scores could vanish between gate and schedule; they cannot, and that every write
of a score is a score is part of the invariant. `NoDoubleDispatch` and
`NothingForgotten` need to know where a request can be between its arrival and its
score. `DInv` puts the tick on top of `IInv`: which lists each stage has
(`TickShape`); that the CPU predictor has nothing before the warm-up is over
(`ColdCpu`); that what the filter has picked does not come back to the predictor
before it is routed (`PickedOffCpu`); that the gate has picked scored requests only
(`GateIsScored`); and that a waiting request is covered by a score, owed one by the
predictor, or in the hand of the tick (`Accounted`). Its preservation has one lemma per group of actions
(`BeginKeepsDInv`, `FilterKeepsDInv`, `RouteToCpuKeepsDInv`, ...); the worker's steps
(`PredictorKeepsDInv`) use only what they do to the in-flight set and the scores.

`VariantsProofs` proves `StageAssertHolds` and `DrainBeforeRanked` (assumptions of
`StreamPredictor` and `WarmupStages` only). The assertion looks at everything that
runs, so the invariant has to say what each earlier stage let start: while the
warm-up lasts, no request that has called is of a later era (`Eras`), so the first
stage starts requests of the warm-up only; the drain does so by its filter; and
what has passed the gate keeps its score. `RunsKnown` collects that, and `TickFits` says
what a stage of the tick knows of its lists: a tick of `async-warmup` is at its gate
only with nothing of the warm-up queued, and no step between the gate and the
schedule queues anything. `EnvironmentKeeps` is the lemma for arrivals, aborts and the
clock, `TickKeeps` the one for the stages.

Its second half proves `QueuesAgree` and `ExecutesInOrder` of MLFQ for any number of
requests and levels, any batch size, and whatever memory a tick finds (assumption
`MlfqAssumption` only). `MlfqInv` speaks of each level by itself: its requests are
different and have its priority, and the levels together hold what is unfinished and
does not execute. That is inductive; that the levels as one list repeat nobody, which
`QueuesAgree` says, follows from it. `FlattenFacts` in `ListLemmas` says what
the concatenation of lists contains and in which order. It speaks of a recursive function,
and is proved by induction as the choice of the least list at which it would fail
(`LeastOfSome`). `TickFacts` reduces a tick to the three lists it splits the queue in
(`Split`): the selected requests, the rest, and the running ones of the rest, of which
`EvictionFacts` says who executes, who is put back and who loses memory.

The first part of `FrontEndAndTableProofs` proves the safety properties of `engine` for any number of calls.
`EInv` carries `StreamsEndOnce` and `DeadEngineClosesStreams`, with ids that collide and
steps that fail: `StopsLast` says that an open stream holds outputs only and a closed one
ends with its only "stop"; `Heard` that a consumer at a closed stream has something
left to read, which needs `Unknown` (a call the tracker has not seen has no stream
anybody could have closed). Every step that writes to streams closes them in the
same breath (`ClosingWithItems`, `ClosingOnly`); the rest is `TidyKeeps`. For `StreamsMatchEngine`,
`Agree` adds that a registered stream knows its id and that a loop, once started, does
not stop; `GoneFacts` and `LastFacts` show that with different ids `abort_seq_group` removes
the one request meant, and that the last stream of an id is its only one.

`BlockLemmas` and `ScheduleProofs` prove the properties of `blocks` for any number of
groups, sequences and blocks, any block size, watermark and budget, under the default
and the chunked schedule. The assumption `GreedyOrBeam` says that there is no sliding
window and that a request is greedy or uses beam search; without it the pools are not
exact (see *Blocks* above). The instance of `blocks` satisfies it.

`BlockLemmas` is about the methods of the block manager, one lemma each (`AllocateExact`,
`AppendSlotsExact`, `ForkAndFreeExact`, `MoveExact`): if the pools were exact, and the
blocks that the method takes are free and enough, then it does not raise, the pools are
exact again, and the tables are what they should be. All rest on `AccountExact`: it is
enough that for each block the change of its count is the change of the number of its
holders (`Balanced`), so that what is left to prove of a method is how many tables gain
and lose a block. `ScheduleInv` is the inductive invariant over them. The pools alone are
not inductive: that a method finds its blocks needs `PendingInv` (the free blocks are
enough for the sequences of the one group that is being appended to), and for that a
table may lack at most one block (`GroupInv`), be on the device its phase says, and
belong to a sequence of one group only. `WritesArePrivate` is carried from the append of
one sequence over those of the others and the later ones of the tick (`Written`). For the
chunked schedule, `ChunkInv` relates what is computed, what is scheduled and how long
a group is, and `QueuesInv` the queues and places to the phases; the assertion on
`num_curr_seqs` at the end of its tick and the one on the sum of a chunk follow. Most steps
concern one group: `ConcernsKeepsBase` and `TouchesKeepsTidy` reduce them to that group. TLC
found `ScheduleInv` invariant on the instance of `blocks`.

The second half of `DualScheduleProofs` proves `GeneralTypeOK`, `PoolExact`, `TickAsserts`,
`EstimatesSuffice`, `KVIntact` and `NoEmptyTick` of the ranked schedule, for any number of groups, sequences and
blocks, any block size, watermark and budgets, and requests of every kind. All assume
`NoWindow`. `TickAsserts` needs `LargeEnough`: the GPU has blocks for the watermark and
for a slot of each of the `max_num_seqs` sequences, without which a tick that has taken
everything back may still need blocks for the slots it charged put-back groups for.
`EstimatesSuffice` needs `NoneTooWide`: no request has a `best_of` beyond
`max_num_seqs`, or the first group that is swapped in might find no group selected
(`UnboundLocalError`). The code checks neither; deployments have thousands of blocks
against 256 sequences. The instance of `dual` satisfies all three. `NoEmptyTick` needs
`NoWindow` only: what no size may exclude is in the property.

The inductive invariant `GeneralInv` speaks of sums. What a selected group will still
take from the free blocks (`Takes`) changes with its phase: a prompt's blocks, then
nothing; the blocks and slots of a group on the CPU, then its slots; `Taking` is that
function and `Total` its sum over a set of groups. A sum by recursion would be out of reach of the
proof system, so `Total` is the cardinality of the pairs below a function (`Units`),
and `TotalAdd`, `TotalRemove`, `TotalUnion` and `TotalSame` follow from those of finite
sets. `RoomInv` then relates the sums to `need`: from below, what the charged groups
take is at most `need` plus the free blocks less the watermark, through every estimate,
swap-out, put-back and swap-in, so that with `need <= 0` everybody finds room; from above,
`need` is at most what the charged groups ask for as a whole (`Wanting`) and one slot per
sequence, so that it is used up when nobody is left to give anything back
(`AllGivenBack`). Groups that come back proactively were never charged: `RoomInv` bounds
what they take by the size of `Lent`, and `need <= -2` after the first of them is the
slack that `TickAsserts` names. `ExecuteInv` is what remains of this when the groups
execute one by one; since charged groups come before the others (`PinnedInv`), the
watermark protects them, and only the last ones can run short. There is one lemma per
action (`SelectStep`, `PutBackStep`, ...) on top of one per
method (`SwapOutKeepsBase`, `AppendSlotKeepsBase`, ...); the latter rest on `BlockLemmas`.
TLC found the conjuncts of `GeneralInv` invariant before they were proved.

`KVIntact` speaks of the contents of the cache when the model runs, but a schedule
changes tables long before: swaps and copies are only noted, and the worker does them
at the end, out of the GPU first, then into it, then the copies. The invariant `KVInv`
on top of `GeneralInv` therefore speaks of what a block will hold when all that is
noted is done (`Later`), which every action of a tick keeps for the blocks of a table:
`Held` says that the blocks that a group's computed tokens (`Done`) fill will hold
them. Three things carry it. `PairsInv`: nothing noted has two sources for one target,
and the targets cannot be given away again in the same tick, so that noting one more
pair disturbs no other (`AddedPairs`). `Aligned`: the sequences of a group share a
block only at the same place, so that copying a shared block for one of them leaves the
others what they had (`AppendSlotKeeps`). `TakeInv`: only what the tick has selected is
given tokens, never more than it has left, so that a group's computed tokens always
lie within its table when the model writes (`ModelKeeps`).

For `NoEmptyTick` the invariant `Occupied` says at each stage who is still there when
somebody is left over, or that one of the two exceptions of the property (`Excused`) applies: a selected
group until it executes, then an executing one. Two steps could break it. The selection: the first group
of any order fits an untouched budget unless it is `TooWide` (`FirstIsSelected`). `PutBack`: once
the running groups of the rest are swapped out and one selected group is left, every GPU block is
free or that group's (`AllButOneGivenBack`), so the upper bound of `RoomInv` leaves nothing to be
freed unless the group's blocks and `max_num_seqs` slots do not fit beside the watermark
(`OneIsTooLarge`). A group that is put back is the last of the rest from then on, and a swap does
not change how many blocks it has (`SizeKept`), so that the exception still holds of it when the model
runs (`LastIsTooLarge`). Nothing is assumed of the sizes; the `NumGpu = 4` above is an instance of
the second exception.

The second part of `FrontEndAndTableProofs` proves `V2TypeOK`, `CountsAndPoolsExact`, `SharedBlocksAgree` and
`WorstCaseSuffices` of the manager v2, for any number of blocks and tables, any block
size, prompt and lookahead, with and without prefix caching (assumption `V2Assumption`
only). The invariant `Consistent` sees the allocator and nothing of the tables but who
holds a block (`Held`), under which hash (`Names`) and after which words (`Contents`).
Counts are holders (`Counted`), and a block nobody holds is free or unused (`Pooled`);
that does not last without what the hashes mean: each leads to one block (`Keyed`), the
block is unused under it when nobody holds it (`Kept`), and whoever holds it has that
hash (`Named`). `Agreed` is `SharedBlocksAgree` for all blocks that are shared. There is
a lemma for each operation of the allocator (`GiveBackKeeps`, `TakeKeeps`, `ShareKeeps`,
`RegisterKeeps`), and `RelabelKeeps` for what a write does to hashes and words: it is
harmless where the writer is the only holder, which copy on write has made sure of.
On top of these `PromoteKeeps` and `WriteKeeps` follow one write through copy,
append and promotion. Each of the code's loops is a recursive function, proved about by
induction over its rounds. For `WorstCaseSuffices` every
step counts how much it takes from `Spare`, the blocks that are left; what remains is
arithmetic on the number of pieces: the blocks missing for an append and the one that is
copied are no more than `Touched` (`MissingTouched`). `Consistent` says nothing once a
call has failed, and neither do the properties, `WorstCaseSuffices` apart.

`PrefixCacheProofs` proves `PoolsMatch` of the prefix cache of the
manager v1, for any number of pages on either device, any number of conversations, any
page size and prompts, with preemption by swapping or by recomputation (assumption
`PrefixAssumption` only). An allocator is `Sound` when the dictionary has exactly the
pages in use under their hashes, the evictor the others, each once, and no two pages have
the same hash; it `Serves` the sequences on its device when the counts are the numbers of
those that have the page in their table. There is a lemma for each call (`TakePage`,
`GivePage`, `UpdatePage`), which says what it takes of what is available; that
`LeastRecent` is a page of the evictor follows from an induction over the rounds of its
search. What the counts need besides is that the pages of one table are different, or an
allocation would give a sequence a page it has. That rests on hashes: the page at place i of a
table has a number for a hash, or words that end there at the latest (`PlacedIn`), and so
none of the pages before the last has the hash that a full last page is looked up under
(`EarlierPages`). The numbers come from `default_hash_ctr`; that one is
left for each allocation is counting (`NewHashFacts`): both devices together have twice
`Page` pages, and there is one number more. `ServesMoved` then follows a change to one table through the counts, and
`AppendFirst`, `AppendPromoted` and `AppendCopied` are the three branches of `append_slots`.
`Fits` says how long a table is in each state of its sequence, so that an append never
skips a page.

`PrefixCacheProofs` also proves `KVOfOwnWords` of the prefix cache: without swaps a sequence
finds the keys and values of its own words in its pages, under the same assumption. The
counts of `PoolInv` say nothing of contents, so `KVInv` stands beside it. What a slot
should hold is told by the hash of its page only up to the end of the words that the page
was hashed for: a sequence that appends to a half full page writes beyond them. Hence
`PlaceFits`: at place i of a table the hash is a number, with words up to within the
place, or words of the sequence that end there, and they fill the place once the
sequence has gone on to the next. `SharersHashed` is why two sequences may write to one
page: a shared page has words for a hash, and one of the two has nothing in it
beyond them (`Tight`). So sequences that share a page agree on every slot both of them use
(`WordsAgree`), and whichever of them the model writes last leaves what the others need.
What has been computed is in its slot (`ResultsHeld`), or, between the append and the model step,
in a page that is going to be copied there (`SlotsAwait`, `CopiesFit`). A copy can arrive at a page
that a third sequence has found by its hash in the meantime; then the page is full, and the
copy brings all but the word that the step itself writes. Last, what a new sequence is
given without computing it: a page marked as computed, or one that waits in the evictor,
is full of the words of its hash (`CachedHeld`). `KVExecute` is the step of the model,
where all of these meet: the pages that are marked in that very step are full by
`MarkedEnds`, and `StepHolds` shows for every slot whether it is written, copied to or
left alone that it holds its word. The invariant needs that prompts and decodes do not
mix in a tick and that nothing is swapped (`OneWay`), which is so without swaps; with them the
property is false, see the comment at `KVOfOwnWords`. TLC found the parts of `KVInv` invariant
before they were proved.

Only model-checked: all liveness (out of the proof system's reach under
fairness) and starvation control.

## Not modelled

The router's LUTs: a pure lookup; `DualScheduler` lets the router decide either
way, which covers every table. The order within a ranking (scores, policies):
data, left open in every schedule but the chunked one. `multi_step` output
processing: an upstream feature of speculative decoding. Tensors,
kernels, models and their loaders, workers and executors: data, or calls that
return or fail, which is how the models above see them. Tokenizers, configuration,
entry points and servers: conversions at the boundary. LoRA, speculative decoding,
distributed execution and Ray: upstream features the dual schedule types do not
use. Tracing and metrics: they change no scheduling state, except that
`TRACE_EVENTS=1` starts the warm-up clock also for T = 0. Benchmarks and training:
not part of the running system.
