# TLA+ models of ajvLLM and ajLLM

Two Python packages live in the repository.

- **ajvLLM** (`ajvllm/`) is an inference engine: a paged KV cache with prefix
  caching, a continuous-batching scheduler with preemption, speculative
  decoding, and an HTTP service around one engine.
- **ajLLM** (`ajllm/`) trains small language models: pretraining, SFT, DPO and
  GRPO, with its own FSDP, tensor and expert parallelism.

The models start from the inference side, where requests compete for pages,
tokens of a batch and places in queues, and where long sequences of legal calls
decide what happens. Of the training side they cover the loops with their
checkpoints and restarts, the collectives of sharded and of tensor and expert
parallel training, the rollouts of GRPO, the tiled kernels and what the datasets
make of a chat.

Paths are relative to `src/ajvllm/src/ajvllm` unless they say otherwise.

## 1. Inventory

| component | state | operations | what makes it correct |
|---|---|---|---|
| block pool `memory/blocks.py` | reference counts, ordered free list, key of each block, prefix index | allocate, retain, release, publish, clear_prefixes | counts are the number of holders; free = count 0; index and keys are inverse; uncached blocks are reused before cached ones |
| KV cache manager `memory/manager.py`, `storage.py` | per request: blocks, committed tokens, hashes, salt | attach, reserve (copy-on-write), commit, fork, trim, release, clear | a request reads what it wrote, whoever shares its pages; a published page holds what its key names; salts never mix |
| scheduler `scheduling/scheduler.py` | waiting and running queues, token budget, rotation marks, switch age and cooldown | schedule, add, remove | limits of the batch; every selected item has its pages; the FIFO head is not bypassed; nobody starves |
| engine `engine/core.py` | the requests, undelivered outputs, closed | add_request, cancel_request, set_token_budget, step, close | what is counted as computed is what the cache holds; failures end exactly the batch; finite work drains |
| speculative decoder `speculative/` | KV of both models, a generator per seeded request | execute, verify | both models hold the KV of what was emitted; no draw is used twice; the target's distribution is kept |
| sampler `sampling/`, `kernels/sampling.py` | an LRU of token histories, by the address of the request | sample, distributions, release | penalties are of the request's own tokens; tiles draw what the sorted definition draws |
| model execution `execution/`, `attention/`, `kernels/` | none that outlives a forward | build, execute, attention | batching is invisible: each row attends to its own request, each logit goes to its request |
| serving loop `serving/service.py` | command queue, reserved ids, streams and their queues, closing/failure, the loop's position | submit, cancel, close, events, _command, _publish, _run | one terminal item per reader; capacity is respected; disconnects release work; nobody waits for ever |
| HTTP `serving/http.py` | none of its own | generate, delete, health | maps service errors; cleans up after every client |
| decode graphs `runtime/graphs.py` | captured graphs per size and context, refused keys | execute, capture | a replay does what the model would; captures stay in the reserve |
| memory budget `runtime/budget.py` | measured sizes | probe, record, resolve | the pool fits in the target |
| trainers `ajllm/training/*_trainer.py` | step, epoch, position in the epoch, optimizer, RNG | train, save, resume | an interrupted run trains on what an uninterrupted one would |
| checkpoints `ajllm/training/checkpoint.py` | the files of a directory | save, load | what loads is one consistent step |
| FSDP `ajllm/training/parallel/fsdp.py` | shards, prefetches in flight | gather, scatter, prefetch, full_state_dict | current weights in every layer; each gradient averaged once; no rank waits alone |
| TP, EP `ajllm/training/parallel/` | groups of ranks, slices, experts | dispatch, combine, synchronize, clip | tokens come home; each contribution counts once; ranks agree on every collective |
| rollouts `ajllm/utils/vllm_util.py` | a vLLM process, its weights and cache | start, sync, generate, stop | rollouts come from the policy they are credited to |
| datasets `ajllm/datasets/` | files | encode, prompt | labels are the completions the model is to learn |
| training kernels `ajllm/modeling/` | tensors | forward, backward | a tiled kernel is the equation it replaces |
| tokenizers, evaluation, plots, benchmarks | - | - | not modelled |

**How they interact.** HTTP tasks put commands into the serving loop's queue and
read per-request output queues. The loop alone calls the engine, and steps it in
one executor thread. A step asks the scheduler for a batch; the scheduler
attaches, reserves and releases pages in the KV cache manager while it chooses;
the runner writes and commits the batch; the engine appends the samples, ends
requests and gives their pages back. The draft model's KV storage sits behind
the same block tables as the target's. In training the ranks of a job meet in
collectives only, which match by operation and size; GRPO's trainer and the vLLM
server share a weight transfer group and talk over HTTP.

**What is hard.** Preemption frees pages that a prefix lookup may hand out in
the same step; a decode can preempt a request chosen earlier in the step;
copy-on-write and drafts reserve pages that may have to be undone; id reuse after
cancellation, error or zero-token completion; in the service every await is a
place where a client can vanish, a stream can end, an id can change hands, the
service can close or fail. Every rank of a parallel job must reach the same
collectives, whatever its tokens chose; a request to the vLLM server may fail
after the server acted on it. `PROJECT.json` lists each hazard at its line.

## 2. Modules

    SharedProofs -- KVTablesProofs --+-- BlockManagerProofs --- BlockManager
         |                |          |-- KVCacheProofs --- KVCacheManager
         |                |          |                          |
         |                |          |              (refines) KVStore
         |    BlockPool --- KVTables '-- EngineProofs
         |                     |               |
    FairShares --- Scheduler --'---------- Engine
       |
    FairRotation                          EngineService --- EngineServiceProofs

    TrainingPlan --- Training ------.
                                    TrainingProofs --- SharedProofs
    Collectives --+-- FullySharded  |
    ShardLayout --+-- ModelParallel |
         '--------------------------'

    RolloutSync --- RolloutSyncProofs

    OnlineSoftmax --- PackedForward, FlashAttention, TrainingKernels

    SpeculativeDecoding  TokenHistories  DecodeGraphs  SamplingKernels  TrainingExamples

`BlockPool`, `KVTables`, `FairShares` and `Scheduler` hold operators on records
and no variables, so that one definition of an operation serves the module that
studies it alone and every module that composes it: `Engine` runs the same
`Reserved`, `Attached` and `Allocated` that `KVCacheManager` and `BlockManager`
check by themselves. Operators that a comment calls a mutation are plausible
mistakes; nothing uses them, they exist to show that a property can fail.

- **BlockPool / BlockManager** (`memory/blocks.py`). The free list is a
  sequence; a release puts an uncached block in front and a cached one at the
  end, as the `OrderedDict` does. `holds` is a ghost: which user holds which
  block, as the block tables do in the code.
- **KVTables / KVCacheManager** (`memory/manager.py`, `storage.py`, the runner's
  use of them). `KVTables` has attach, reserve, fork, commit, trim and release
  as functions on a record. `Lists`, which most modules extend, has the for loop of the
  code, pass by pass (`Loop`), and the list comprehension with a condition (`Kept`).
  `KVCacheManager` adds the page contents and the
  runner: a batch reserves, writes slots, and then commits or raises in between.
  A prefix key is the sequence of (salt, tokens) it hashes, so distinct chains
  never collide: the digest is taken to be injective. Reserve may raise while
  copying storages. A forward computes up to `MaxSlice` tokens of a request, which the theorems
  leave open and the runs set to two, more than a block in the chains and across the end of one
  in the other instance. **KVStore** is the promise: each request owns a private
  sequence of tokens. The refinement reads the store through the block tables.
- **FairShares / FairRotation** (`scheduler.py:12-39, 200-203, 222`). The chunk
  division and the rotation, and a driver in which candidates come and go.
- **Scheduler** (`scheduler.py`, all of `schedule()`). Its phases are functions
  from record to record, applied in the code's order: decodes with growth and
  preemption, running prefills, the short-request switch, admission, drafts,
  release of failed admissions. `Scheduled` is a set, since the order in which
  equally placed candidates are visited is the only freedom.
- **Engine** (`engine/core.py`). A step is cut in two, `Schedule` and
  `Execute`/`ExecuteFails`, where the runner takes over; nothing else runs
  between. Sampled tokens are free choices, so acceptance of drafts, stop tokens
  and length limits all occur. `ExecuteFails` is a forward that raises. When a sampler
  raises, the runner has already committed, and perhaps published, part of the batch (`step.py:21-27`);
  all of the batch ends with an error in either case, so the pages are given back all the
  same, some of them published as they are by an `Execute` and a `CancelRequest` after it.
- **EngineService** (`serving/service.py`, its clients in `http.py`). One action
  per stretch of code between two awaits. Client tasks are `Generators` (submit,
  read, clean up) and `Deleters`; the engine is reduced to how many steps an id
  still needs. `asyncio.Queue` is modelled by what it does: a full queue blocks
  putters, each get wakes the oldest, a woken putter looks again when it runs,
  and others may have taken the room. `PuttersRan` and `Settled` say how far a
  ready task can lag behind the loop, given that ready callbacks run in order;
  between tasks that are ready at the same time every order is allowed. A task
  is cancelled at most once: a second cancellation during its cleanup is left
  out. Statistics, validation and the CUDA profile are left out.

- **TrainingPlan** (`ajllm/training/samplers.py` and the loops of the trainers
  without interruptions). What a sampler yields from a start index, and the plan:
  the updates an uninterrupted job makes. A batch is named by its epoch and the
  place of its first sample in that epoch's order, which the seed and the epoch
  determine; an update by its batches and its learning-rate step.
- **Training** (`pretrainer.py`, also for SFT; `dpo_trainer.py`,
  `grpo_trainer.py`, `checkpoint.py` of `ajllm/training`). A job is the sequence
  of updates its model went through, `model`; `completed` is its length. The
  ranks of a job meet in every gradient synchronization, so an update is one
  action of all of them (`UpdateWindow`; `MakeRollout` and `UpdateRollout` for
  GRPO), with its log entry and the decision to save. A save is rank by rank:
  `WriteMain` is rank 0's temporary file and rename, `OpenOptimizer` and
  `CloseOptimizer` an optimizer file written in place, `LeaveBarrier` the end.
  `Crash` forgets the memory and keeps the files as they are at that moment.
  `Launch` starts a job again from any set of files that loads, with any of the
  `Targets` as `max_steps`, or from nothing when nothing loads. The model in a
  file is the history it stands for, so that a mixed set of files shows. Left
  out: losses, the loss scaler, validation, checkpoints from before the training
  state was saved, and the refusal of another topology.

- **Collectives** is external: of `torch.distributed` only that a rank's calls on
  a group are carried out in order and together with those of the other members,
  matched by operation and size. **ShardLayout** has the cuts as operators.
- **FullySharded** (`fsdp.py` under the update loop of `pretrainer.py`). Each rank
  works through the instructions of its forward and backward passes at its own
  pace; `CarryOut` is the only action of all ranks. A weight is the pair of the
  layer it belongs to and the number of updates it has had, so that a stale prefetch or
  a gather of the wrong layer shows. `Paths` are the layers a forward pass may
  run. With `SameRoutes` every rank takes the same path in a micro-batch.
- **ModelParallel** (`tensor_parallel.py`, `expert_parallel.py`,
  `tensor_expert_parallel.py`, the groups of `common.py`). One update of a block,
  stage by stage; a value is the set of contributions in it, so that a sum over
  the wrong group, a missing division or a token at another's place shows. The
  reductions of the q, k and v projections' input gradients, which follow each other on one group,
  are one stage, and so are those of gate and up; the weights of a layer's attention and of its
  feed-forward network are one class of gradients each. The way back of the tokens' gradients is seen through
  `GradientsCountOnce` only.
- **RolloutSync** (`vllm_util.py`, the vLLM half of `grpo_trainer.py`). Each HTTP
  request succeeds, fails before the server acted or fails after it did; the
  server may exit at any time; the transfer runs while its request waits on
  another thread.
- **SpeculativeDecoding** (`speculative/decoder.py`, `sampling.py`). Token by
  token what each model writes at which position. A draw of a seeded request is
  numbered, so that one that is used twice shows.
- **TokenHistories** (`sampling/sampler.py`). The dictionary keyed by `id(request)`,
  with objects that die, addresses that are used again and weak-reference
  callbacks.
- **DecodeGraphs** (`runtime/graphs.py`). Static inputs, capture, replay; memory is
  an estimate per capture and a retained amount that may be smaller or larger.
- **SamplingKernels**, **PackedForward**, **FlashAttention**, **TrainingKernels**
  and **OnlineSoftmax** are algorithms next to reference definitions: one action
  that computes nothing, one state per input. Weights are integers and powers of
  two stand for exp, so that rescaling is exact; rounding is not modelled.
  Values are symbolic where a kernel is linear in them.
- **TrainingExamples** (`datasets/`, the padding of `grpo_trainer.py`). A token is
  the piece of text it stands for; merges across pieces are left out. A rollout
  prompt longer than `max_prompt_length` keeps its end (`rlaif.py:62`), so only one that
  fits begins the serialization of the conversation; of a longer one the property says that
  it still stands immediately before the rest of the answer. The line break behind `<|im_end|>`
  is a token of its own and a target (`sft.py:182`), although the docstring
  (`sft.py:33`) names only the completion "through `<|im_end|>`".
- **MC modules**. `MCComponents` puts the components that run on their own side
  by side: `part` names the one a behaviour is about, and the variables of the
  others keep an idle value, and the properties of the parts are restated under
  it. `MCKVCacheManager` runs the cache of the configuration or, in variables of its
  own, a second instance with other constants. The MC modules give the constants
  small values.

## 3. Runs

| run | instance | shows |
|---|---|---|
| `kv` | 3 blocks; either 2 requests, 2 storages, blocks of 2, or chains of one-token blocks with 2 salts | exact ownership, private writes, refinement of `KVStore`; published pages hold their key's tokens; in chains too (`MCChainsExact`), where salts are isolated |
| `engine_pressure` | 3 ids, 4 pages | preemption, recomputation, prefix hits, failures, id reuse |
| `engine_switch` | drafts of 2, unchunked prefill, scaled switch thresholds, fairness | lookahead pages, partial acceptance, head-of-line blocking, completion on arrival; the workload drains although short requests displace long ones |
| `service` | 2 generators, 1 deleter, 2 ids, queues of 2 and 1 | streams and engine agree, one terminal item, reservations, disconnects, readers served |
| `training` | 3 trainers, 2 ranks, 2 crashes | windowed trainers follow the plan through crashes; files that load are one step; a complete checkpoint is never lost; rollouts stay whole; training completes |
| `components` | the parts and bounds listed at the top of `MCComponents` | block pool invariants; fair shares without starvation; current weights and single gradients; no stranded rank; tokens come home; rollouts from the credited policy; drafting, histories, graphs, kernels and examples agree with what they stand for |

Six runs end in a violation; each is something the code does and the
repository's own text says it does not.

- `service_hang`: when the service fails while tasks wait for room in a full
  command queue, the final drain wakes them, they put their command into a queue
  nobody reads and wait for ever (with more of them than queued commands, some
  are never woken). docs/serving.md:80 promises otherwise.
- `service_reuse`: the stream is compared before that wait, the command names
  only the id. A late cleanup can cancel a new request with the same id;
  docs/serving.md:74 promises otherwise.
- `service_reservation`: a rejected submit gives its reservation back twice, the
  second time perhaps that of another submit of the same id, whose client can
  then no longer cancel (docs/serving.md:73).
- `grpo_resume`: the GRPO trainer gives the sampler the batch to start at and
  then skips as many batches again (`grpo_trainer.py:415-418`), so a job resumed
  in mid-epoch leaves batches out or ends with `StopIteration`.
  docs/parallel_training.md:151 promises otherwise. `WindowsFollowThePlan` is the
  same property for the other trainers, which hold it.
- `fsdp_topk`: with more than one expert per token a rank skips the experts none
  of its tokens chose (`moe.py:105-109`), and with them their gathers. Gathers of
  different experts have the same size and pair: a rank computes with another
  expert's weights, or waits for ever. docs/parallel_training.md:21 lists MoE
  under FSDP and nothing rejects the combination. With one expert per token all
  experts are one grouped weight and every rank gathers it.
- `fsdp_clip`: `clip_gradients` sums the squares of local gradients over the ranks;
  replicated parameters (norm gains, the embedding) are counted once per rank, so
  the norm is not the "global gradient norm" of its docstring (`pretrainer.py:68`).
  The tensor and expert parallel wrappers exclude what they replicate, which
  `GradientsCountOnce` checks.

Smaller things the models show in passing: a request preempted in a step can
be admitted again in that step when its prefix is still cached, though
`scheduler.py:55` speaks of later steps; and the DPO trainer starts
`logged_steps` at the step it resumes from while the sum it divides starts at 0
(`dpo_trainer.py:217-231`), so its first mean after a restart is too small
(`MeansMatchLog` leaves that trainer out). A pause request that timed out after the server
obeyed is never resumed (`vllm_util.py:289, 317`), and a failed `update_weights`
can leave the NCCL send waiting; the trainer ends in both cases. A chat that goes
on after its last answer can be accepted by the guard at `sft.py:93` although
the shifted labels are empty; its loss is 0. `_vllm_rollouts` does not pass top_k
and top_p on to the server, the torch rollouts apply them. The loop of the
torch rollouts (`grpo_trainer.py:218-236`) ends when this rank's rows have ended, so sharded models
could make different numbers of forward passes; the configurations in the
repository do not combine the two.

**Bounds.** Tokens are two model values and a stop token; prefixes matter only as
equal or different. Pools have 4 to 5 pages for up to three requests, so that
every request outgrows the pool together with another and preemption, eviction
and self-preemption all occur. `MaxArrivals` ends a behaviour after 3 or 4
submissions with fewer ids, so ids are reused. The switch thresholds of the
code (`SwitchAge` 8, `SwitchCooldown` 32, `SwitchFactor` 4) are constants scaled to 1, 2
and 1: they only delay the switch. In `service` a command queue of two blocks
putters when two commands wait, and an output queue of one overflows at the
second unread output; three outputs after one silent step leave room for every
way to stop early. In `training` five samples in batches of two, with two batches to a window,
make the last batch and the last window of an epoch partial; two epochs, so that
a job resumes in the first and in a later one and at the boundary; a save at every
step, a log entry every third; a target that ends a job early and can be
extended, and one beyond the plan. Two crashes let a restarted job be
killed again, while it overwrites files of the first attempt. Symmetry is used only in runs without liveness, over request
ids, which no definition orders. In `components` two ranks and two updates let a
prefetch outlive its pass; a grid of two by two has every kind of group with
members in and out of it; two rollouts of two updates let a cache or a weight of the
one before survive; two drafts allow acceptance of none, one and all; a limit
of one history is one less than the batch; lengths that do and do not divide by
the tiles reach first, whole, cut and empty tiles.

**Fairness.** The engine runs assume that whoever drives it keeps calling step
while something is unfinished and that a runner call returns or raises. It is
written out as formulas (`[]<>~CanSchedule \/ []<><<Schedule>>_vars`) because
TLC evaluates ENABLED of the large scheduling action far too slowly; the guards
are those of the actions. The service runs assume that the event loop runs ready
tasks and the executor returns. Nothing is assumed of clients: none of them need
read, leave, submit or close, and `ReadersAreServed` asks only that something is put
into the queue of a reader who waits. In
`Training` a running job keeps running until it is killed, crashes are bounded,
and an operator who launches again and again does not for ever avoid the
documented way (the latest complete checkpoint, the largest target):
`SF_vars(LaunchLatest)`, an assumption on people and not on the code. In
`FairRotation` steps are repeated for
ever and the arrival and departure of candidates is free; in `MCComponents`, where
other parts have no such steps, this is written as the set of runs in which rounds
begin and end again and again (`[]<>(steps = 0)`, `[]<>(steps = 1)`).

## 4. Proofs

Every theorem holds for all values of the constants. The assumptions are the named
ones of the modules: the number and the size of blocks are positive naturals; None
is not a prefix key (nor, in the engine, one of the keys its salts and tokens make); the requests are a finite set; a prompt is a non-empty sequence of
tokens (`Engine.add_request` refuses others); the pool holds one request of
`MaxModelLen` tokens (the budget refuses to start otherwise); where prompts are not cut, every token
budget holds one of `MaxModelLen` (`EngineConfig`, `set_token_budget`); and what `Training`
and `EngineService` say of their sizes.

**Loops.** The code's loops over block lists are `Loop` in the models. Their effect is
proved by induction over the passes: `LeastNatural` in `SharedProofs` is the
well-foundedness of the naturals for a set in place of a predicate, `Induction` follows, and
`PassesExist` and `PassesStay` say that a loop whose i-th pass takes the values in `S[i - 1]`
to values in `S[i]` ends in `S[n]`. `RetainedAllOK`, `ReleasedAllOK`, `PublishedUpToOK` and
`CommitAll` give the sets for their loops.

**Block pool.** `KVTablesProofs` has one lemma per operation on the record of the pool
(`AllocatedOK`, `RetainedOK`, `ReleasedOK`, `PublishedOK`, `ClearedOK`): `PoolOK` is
preserved and the effect on counts and keys is what a caller relies on. `PoolOK` is: types, a free list
without duplicates that holds exactly the blocks of count 0, keys inverse to the
index, uncached blocks before cached ones, an exact shared counter. None of its parts is
inductive alone: that a release keeps the free list free of duplicates needs that
a held block is not in it, which needs exact counts, and that allocation evicts the
right key needs the index to be inverse to the keys. `BlockManagerProofs` adds
"each count is the number of holders" and proves `TypeCorrect`, `FreeListExact`,
`ReferencesExact`, `IndexExact`, `RecycleOrder` and the action property
`EvictionUnderPressure`.

**Block tables.** The rest of `KVTablesProofs` does the same for attach, reserve, an undone
reserve, fork, commit, trim, release and clear (`AttachedOK` ... `ClearedTablesOK`), of the
invariant `TablesOK`: `PoolOK`; a count is the number of tables a block is in; a table has
a block once and covers its tokens, and a published block in it is full and has the key of
the table's own prefix (`TableOK`); two tables share a block only at the same place, with the
same salt and only where both have tokens (`Sharing`). The last clause of `Sharing`,
that *two tables which share a block that is not full are equally long*, makes the rest
inductive: a block that one request fills and publishes must not be a partly filled one of
another, whose tokens the key would not name. It is preserved because a partly filled block becomes
shared in a fork only, at equal length, and is copied before either grows.

**KV cache.** `KVCacheProofs` adds the tensors and the forward in flight. Its `IInv` is
`TablesOK` together with

- `BatchOK`: the requests of the forward in flight are live and each once, and the block
  positions they write are in their own tables alone (`Own`), which is what copy-on-write
  has to bring about before the write;
- `SlotsOK`: for every request and model, the slots of its committed tokens and of
  the tokens in flight hold the prefixes they were computed from;
- `PrefixesOK`: every indexed block holds, in every model's tensor, the prefix of its key;
- `RestUnwritten`: whatever nobody may read is `Unwritten`. The model replaces unreadable
  slots by `Unwritten`, so `CacheWrites`, which compares contents, has to know that a block
  it finds unchanged was not cleaned by the same step.

From it follow

- `CacheOwnership`: counts, tables and free list agree after any sequence of calls,
  reservations and forwards that raised included;
- `PublishedBlocks`: a hit reads what its key names, in the draft's tensor as in the
  target's;
- `CacheIsolation`: requests with different salts have no block in common;
- `CacheWrites`: a forward changes no block that is indexed or in two tables;
- `CacheRefinement`: `Spec => ImplementsKVStore`. `Private` is the abstract store of given
  tables; under the invariant `Gathered`, which reads the tensors through the tables, equals
  it (`GatheredIs`). Attach is then a `Start` (with the length of its hit), fork a `Copy`,
  release a `Drop`, a commit of any accepted prefixes an `Extend`; all else stutters
  (`Invisible`), clearing, trimming, copying, evicting, failing and the forward itself.

There is one lemma per action (`AttachStep` ... `CommitBatchStep`) and `NextState`, which says once
what a step has to establish of the next state.

**Training.** `TrainingProofs` proves, for every world size, plan, interval, set of targets
and number of crashes:

- `OptimizersMatch`: while a job runs, every rank's optimizer has seen as many
  updates as the model. The invariant `Matching` adds what the files hold: a whole
  optimizer file of a step has that step's count, whoever wrote it and in whichever
  attempt, and so has the main file; only then does a set that loads agree.
- `RolloutsWhole`: every GRPO update is weighed against the policy that made its
  rollout, and no rollout is abandoned half-way. The invariant `Rollouts` says the
  same of every saved model and that files are only written when the last rollout
  is used up (`RolloutPlaces`), which is why a restart cannot divide one.
  `RoundWhole` is its lemma about one more round.

- `MeansMatch`: a log entry averages over as many losses as it divides by, after a
  restart too, for the trainers other than DPO.
- `WindowsAreFollowed`: the pretraining, SFT and DPO trainers
  apply exactly the updates of the uninterrupted plan. The property speaks of the
  updates made so far and is not inductive: to know that the next window is the plan's,
  one has to know where the job stands. The invariant `Windows` says so. `Follows` is
  the property; `Placed` says that after `w` windows of an epoch the sampler's iterator
  stands at `w * Accumulation` batches of it (`PlaceOf`, `IteratorAt`); `SavedInPlace`
  says the same of what every main file would restore, without which a restart
  forgets the place. `WindowIsPlanned` is the step from the place to the next window:
  full in the middle of an epoch and cut at its end, the last batch too. It rests on
  `SharedProofs`, which has what is needed of ceilings and remainders (`OneStepMore`,
  `QuotientAndRemainder`, `CoveringParts`), since the provers know nothing of products of variables.

**Shares.** `SharedProofs` proves `ChunksAreFair` of `fair_chunks`, for all demands and
budgets. What holds between two rounds (`BetweenRounds`) is that the candidates still
active all have the same count, the level, and the others what they asked for, at most
the level (`Level`); that a round in which the budget runs out leaves a fair division
(`Fair`); and that k rounds have used k tokens unless it is over, so that budget + 1
passes are enough. `Dealing` is the same within a round, turn by turn.

**Scheduler and engine.** `EngineProofs` takes the lemmas of `KVTablesProofs` through
every phase of `schedule()` and both halves of `step()`, for every pool, workload,
sequence of calls and setting (chunked or whole prompts, drafts or none, switching or not):

- `EngineIsSound`: `EngineInv`, the inductive invariant. Between two calls the scheduler is
  `Quiet`; while a batch is out, `BatchOut` holds of it.
- `PagesAreForRunning`, `ProgressIsCached` and `BatchesAreReady` are the properties of the runs, read off
  `EngineInv`.
- `HeadsAreNotBypassed` and `StepsHaveWork` are the action properties of the runs, over the
  same invariant.

None of the three invariants is inductive. A commit keeps a request's counter in step with its cache
only because the pages its slice was given are still its own when it runs, which is what
`BatchReady` says of a batch that is out; but while the batch is being chosen a later decode may
preempt and a later lookup may share. So the proof follows three relations through all the loops:
`Steady` (every request waits without pages or runs with its computed tokens cached,
at least one token being left; `guests` are the waiting requests a lookup has given pages to, and
`given` the tokens a request has been handed by the runner and not yet taken over, between
`ExecutedAll` and `SampledAll`), `ItemsOK` (every entry continues a running request that owns
the pages up to the end of its slice and drafts, `Own`) and `Onward` (nobody who ran stops
running except by preemption in this step, and everyone who waits keeps his place in the queue
until he is chosen, `Patient`). `OwnAfterRelease`, `OwnAfterTrim` and `OwnAfterAttach`
are why others' steps leave a request its pages. Each loop has a lemma that names its passes
(`DecodePasses`, `DraftPasses`, `PrefillPasses`, ...), one about a single pass (`DecodeOne`, ...) and one about the
loop; the budgets are sums (`Used`) that a pass raises by at most what it was offered, which
is where `ChunksAreFair` and `WholePromptsOK` come in. `ScheduledOK` is schedule() as a whole,
`StepDoneOK` the second half of a step.

That nobody is passed over needs more than the order of the queue. The candidates of the prefill
phase are the requests that run already, in rotation, then the first m who wait; who is preempted
in this step goes back in front, so that order has to be followed through every eviction. In chunked
mode m is bounded by what is left of the budget, so that `fair_chunks` has a token for each of
them (`EveryoneIsServed`); were one of them to get none, those behind him would be admitted before
him. With whole prompts the loop stops at the first that does not fit. Either way who is served is a
beginning of the candidates (`PositiveAfter`), and since the loop ends with the first who gets no pages
(`blocked`), who is chosen is one too: `InTurn` says so between two passes and `NobodyPassed` of
the batch. `OthersAdmitNobody` has the steps other than schedule().

That a step has work rests on the pool and the budgets being large enough for one request.
Whoever is the first to ask for pages may evict everyone not yet chosen, which is everyone else
(`OthersEvicted`), and then has a pool to himself that holds a full context (`PoolOfOne`, from
`PoolFitsContext`): so the first of a batch never gives up (`WithRoomOK`). It remains that
somebody asks. A running request that is not prefilling does, in the decode phase, while a budget is left;
without one everybody who runs is prefilling (`AllFilling`), nobody has been preempted yet and the
budget of the phase is the whole one (`WholeBudget`; `BudgetOK` is what `EngineConfig` and
`set_token_budget` accept). Then there is a candidate, who runs or finds nobody running
(`SomebodyFirst`), and a first one to get tokens: in chunked mode all get some when one of them
waits, and at least one does when all run; with whole prompts the first candidate fits. `MayBegin`
says this of the shares and `Underway` follows it through the loop. `ScheduledOK` carries both results
through the displacement of a long request, which leaves every request in one of the queues.

**Layouts.** `TrainingProofs` proves of every size and number of ranks:
padded flat shards restore the parameter (`FlatShardsRestoreParameter`), gathered slices
restore the weight (`SlicesRestoreParameter`), also when gate and up are cut as one tensor
(`GateUpIsRestored`); each expert has one owner (`EveryExpertHasOneOwner`); the grid
places every rank in the groups of its coordinates (`GridPlacesEveryRank`); the
exported channel order keeps rotated pairs (`RopeOrderKeepsPairs`).

**Rollouts.** `RolloutSyncProofs` proves `RolloutsAreAttributed`, for positive sizes (`Parameters`).
That a batch is credited to its policy follows from what the server held when it
answered, so `Attributed` follows the server through the phases: `Started` (no second
handshake), `Transferring` and `Installed` (from which point on the server holds the
policy's weights, or the trainer knows of an error), `CacheIsFresh` (no prefix of older
weights after the reset) and `Credited` (every completion of the rollout
in use came from the behaviour policy, in the order of the prompts). `SortingRestoresOrder` is the lemma about answers
that arrive in any order.

**Service.** `EngineServiceProofs` proves of the service, for every number of clients, ids, places
in the queues and steps of the engine, and every interleaving: `StreamsAgree`, `ReadersEnd`,
`WorkReserved` and `GoneRelease`. The invariant has layers, each resting on those before:

- `Shape` and `Protocol`: a queued command belongs to a task that has begun and
  still has that id; only a closing service has a close command.
- `OutputsOfEngine` with `StreamsMatchEngine`: the outputs the loop still has to publish
  are at most one per request, a final one of a request the engine no longer has, any
  other of one it has. Publishing one keeps the equation between streams and engine
  only because of this.
- `Opening`: a stream's reader is past its submission and has that id (`StreamsOfReaders`), a client with
  an add in the queue has neither stream nor items (`NotYetOpen`), it has one add
  (`SubmitsOnce`), an open stream holds no terminal item and a closed one ends with it
  (`LastIsTerminal`, `EndedWhenClosed`). That an add never overwrites an open stream
  is where this needs the equation above.
- `ReservedForWork`: streams, work and queued adds hold reservations, and no two adds
  the same. It is false when a prompt can be turned down, because the reservation
  is then given back twice: `WorkReserved` and `GoneRelease` assume `AllValid`, and
  `service_reservation` is the counterexample without it.
- `GoneClients`: a client that is gone has no add in the queue and, if its stream is still
  open, the engine has stopped working for it; a client's cancel is always behind its
  add, which is what lets `submit` cancel before it knows whether it was accepted.

`TaskMoves` and `StreamMoves` say once what every step of a client between two awaits may do;
`CommandEffect`, `CommandCases`, `Published` and `StopEffect` do the same for the loop. Each
layer then has one lemma with one case per kind of step.

**Only model-checked.** Of the engine, that a finite workload drains. Of `components`, everything but the block pool, the
rollouts and the layouts that `TrainingProofs` states; the kernels use RECURSIVE
operators, with which the prover's SMT translation cannot work. `StaysRecoverable`,
`CleanupSparesOthers` (which fails) and all liveness: the provers here reach neither fairness
nor ENABLED. `MCChainsExact` adds no claim to the theorems, which hold for its constants too; it
checks the model where prefixes are chains.

## 5. Plan

Done, most important first: block pool, KV cache and its refinement, with their proofs;
fair shares; scheduler and engine; service and its proofs; training loops with
checkpoints and restarts and their proofs; rollouts and the transfer of
weights; FSDP; tensor and expert parallel groups and the dispatch of tokens;
speculative decoding; token histories; decode graphs; packing, masks and kernels.

Left, in this order:

1. Sets of files of two attempts at the same step (`checkpoint.py:82`) and a
   `max_steps` that cuts a rollout short (`grpo_trainer.py:426`): the two hazards without a property
   that the training model is closest to.
2. The memory budget (`runtime/budget.py`) as an algorithm over measured sizes, and the
   first-layer cache.
3. GRPO's advantages and clipped loss, over exact numbers.
4. A proof of `SharesAreFair` over the rounds of `FairRotation`.

## 6. Not modelled

- Rounding: every kernel is compared over exact numbers, so what bf16 or fp32
  lose is not seen; nor are matrix products, quantization, CUDA capture and streams.
- Start-up: weight loading, configuration files, `workflows/`, the construction of models and groups.
- Tokenizers: merges across pieces of text.
- Losses (DPO, GRPO, the auxiliary loss of MoE), rewards, DPO pairs, validation, the loss scaler.
  `GRPOTrainer` makes its updates in eval mode (`grpo_trainer.py:339`), in which MoE
  keeps its auxiliary loss at zero although `docs/grpo.md:32` has it added; that is
  arithmetic the models do not see.
- Plots, benchmarks, metrics, logging, timestamps and statistics; health reports.
- Cancellation of the loop task itself, because nothing in the repository does it.

Type invariants are checked for the block pool alone; elsewhere `Shape` or `TablesOK` is a part of a proved
invariant, or the properties would fail on an ill-typed state.
