# A TLA+ model of the CritiCuRL training loop

CritiCuRL trains a multimodal reasoner with a curriculum over *critical steps*.
Each epoch has two stages: the offline stage rolls every step-truncated variant
of every sample out several times and picks the steps at which the success rate
falls most (the *key steps*); the online stage trains on the variants truncated
before those steps, the most critical step of every sample first. The code is
built on verl; what is new in it is the sampler of the offline stage
(`verl/trainer/ppo/packFullGroupsBatchSampler.py`), the trainer
(`verl/trainer/ppo/ray_trainer_all.py`), and the step reward with its keyword
cache (`verl/utils/reward_score/mulberry_with_steps.py`). These are
modelled here, and so are the parts of verl whose control is hard to test: the
checkpoint protocol, the balancing and dispatch of batches, the multi-turn SGLang
rollout with its tools and the hand-over of the GPUs, the chat scheduler, and the
agent loop with its servers. Everything is checked with TLC on small instances;
the safety and action properties are proved with TLAPS for all values of the
constants. Source paths are relative to the
repository's root.

## 1. The system

| Component | State | Operations | Hard part | What makes it correct |
|---|---|---|---|---|
| Grouped batch sampler | epoch, shuffled order of groups, cursor, pending rows, batch size, divisor; one suspended generator per `iter()` | `__iter__`/`next`, `__len__`, `set_epoch`, `reset`, `state_dict`, `load_state_dict` | generators share the cursor; a state can be taken and restored between any two batches | every group once per pass, whole, in order; a saved state resumes exactly; batches bounded and a multiple of the divisor |
| Checkpoint store | on disk: shards per role, step and rank, `data.pt`, the tracker file; in memory: `previous_saved_paths` | save (driver and ranks, barriers), rotation, resume | crashes between any two writes; rotation before the save; in-place writes | the tracked checkpoint can always be loaded and never moves back |
| Key step selection | none (a function of the rows' mean scores) | compress records, divergence, top-k, choice of rows, ranking | clamps at the ends of the scale, ties, solved rows, short samples | the steps with the largest falls, in order, never the baseline |
| `key.json` | one file: key steps and keyword cache by sample | the trainer's dump and read, the reward's lookup and store | two read-merge-write users; torn files; a model that answers differently | neither user loses the other's part; one keyword per step |
| Curriculum trainer | global step, replay buffer, plan of the updates, weights, checkpoint | rollout batches, planning, updates, saves, resume | crash and resume in either stage; ordering by layers over all samples | every key step trained on once per epoch, in curriculum order; counter and weights agree |
| Sequence-length balancing | none (a function of the rows' lengths) | partition, reorder and cut, put back in order | a heap of partial partitions, ties, parts that must not be empty | every row in one part, parts of similar load, the rows back in order |
| Dispatch | the driver's batch, the shares and answers of the ranks | pad, cut, collect, unpad | padding in place, ranks of Megatron groups that hold the same rows, repeated calls | the rows come back once each, in order |
| SGLang rollout | requests: state, place in the loop, turns, length, tool instances | one asynchronous loop per request on rank 0 | several limits, tools and interactions in parallel, errors inside a gather | a request never asks for more than fits, and releases its tools however it ends |
| Tools | token bucket, execution threads, tool instances | create, execute (acquire, run, release), release | failing calls, releases nobody waits for, a limiter all tools share | never more than the limit in flight, no token lost |
| Sharding managers | GPU memory, parameters, random states, engine's memory, weights and prefixes | wake up, sleep, offload, load | ranks on their own between collectives, an engine only rank 0 has | training and generation each find the GPU theirs, no stale weights |
| Chat scheduler | heap of servers, LRU cache of request ids, per conversation a depth and an event | submit, callback, tools, next turn | a depth that is 0 while tools run, evicted entries | every conversation is given back once, at its end |
| Agent loop | servers, one pool per worker, rows | start with retries, wake, generate, sleep; the loop of a row | sticky sessions in a small cache, three limits of a loop, servers asleep | same server for all turns, the model has the last word, no request to a sleeping or stale server |
| Worker groups | actors, register center | rendezvous, liveness checks | lingering actors, timeouts | not modelled |
| Reward managers | process pool, timeouts | scoring | rows that time out | one score per row |
| Workers and algorithms | tensors | updates, log-probabilities, advantages | numerics | outside TLA+ |

How they interact. `fit()` is one sequential driver program. It iterates the
dataloader, which drives the sampler's generator; each rollout batch goes to the
worker groups (calls through Ray, waited for), is scored, and its key steps are
written to `key.json` while the rows to train on go to the in-memory replay
buffer. When the pass is over `fit()` reads `key.json` back, orders the buffer,
cuts it into batches and runs one update after the other; the update's reward
runs in the same process and uses the same `key.json` as a cache of keywords it
asks an external model for. After an update the driver may save: it calls
`save_checkpoint` on the actor's and the critic's worker groups, in which all
ranks run between barriers, then writes the dataloader's state and the tracker.
The process may die anywhere; a restarted one resumes from the tracked
checkpoint.

A rollout goes to the workers in one of three ways. With SGLang, every rank wakes
the engine, hands it the weights, and rank 0 serves the requests of its group
while the others wait; the requests call tools, which share one token bucket.
With the agent loop, or with the chat scheduler, the driver wakes servers of their
own, sends the conversations through pools of them, and puts them to sleep before
the actor trains. Before and behind each, batches are balanced, padded, cut over
the ranks, collected and put back in order.

The full list, with the parts that are not modelled, is `components` in
`PROJECT.json`; the places where the code is hard to test are its `hazards`,
each at its line.

## 2. The modules

    EpochDelivery  <--implements--  PackSampler  <--  PackSamplerLen  <--  MCPackSampler,  PackSamplerProofs
         ^
         |
    CurriculumTrainer  <--  MCTrainer
         |  EXTENDS                         CurriculumTrainerProofs (of both)
    KeySteps  <--  KeyStepSelection  <--  MCKeySteps
         |
    SortedSeqs  <--  SequenceLemmas  (used by the proofs of trainer, batches and sampler)
         |
    SeqlenBalancing  --+
    Dispatch         --+-->  BatchFlow  <--  MCBatchFlow,  BatchFlowProofs

    CheckpointStore  <--  MCCheckpoint,  CheckpointProofs
    KeyStore         <--  MCKeyStore,    KeyStoreProofs

    RateLimiter      --+
    RequestLifecycle --+-->  Rollout    <--  MCRollout,    RolloutProofs
    ShardingManager  --+

    ServerPool  <--  ChatScheduler  --+-->  AsyncServing  <--  MCAsyncServing,  ServingProofs
     ^                                |
     +---------------  AgentLoop    --+
                           ^---------------  MCAgentLoop

**PackSampler**: the sampler object and its generators. Every generator has a
control point of its own (`gen`): not entered, suspended at a yield of the loop,
suspended at the tail batch, finished, or dead by `ValueError`. Between `next()`
and the yield a generator is executing (`running`), works on local snapshots
(`cur`, `tmp`) and nothing else can happen; the branches of its loop are the
actions `YieldOversized`, `RejectOversized`, `YieldPending`, `PackGroup`,
`YieldFull`, `YieldTail` and `Finish`. While every generator is suspended the
other operations may run in any order: new generators, `SetEpoch`, `Reset`,
`StateDict`, `LoadStateDict`, `SetDivisor` (what `init_workers` does to the
sampler), and `Restart`, the death of the process at any point. A batch is
abstracted to its groups and its number of rows. `delivered` is a history
variable. **PackSamplerLen** is `__len__`, the second copy of the packing rules, as a
recursive function over the places of the order.

**EpochDelivery**: the abstract specification of a sampler: a pass is a
permutation of the groups; a step delivers the next few, begins a new pass,
saves the position or restores it. `PackSampler` implements it under the
refinement mapping at the end of that module (`todo` is the rest of the order
behind the cursor), and `CurriculumTrainer` uses it in place of the sampler.

**CheckpointStore**: the driver's control point, one per rank, and the files on
disk. A write is two steps, opening (the file is torn) and finishing. `Enter`
is a rank up to its first barrier with the rotation rank 0 does first;
`OpenShard`/`WriteShard` lie between the barriers; `Saved` is the second
barrier and the return to the driver. `Start` is `_load_checkpoint` with
`resume_mode` auto.

**SortedSeqs**: the sorts of the code (`sorted` with a key, stable; the order of the
records; the sets of a partial partition) defined by ranks: the place of an element
is the number of those that come before it. This is what the callers rely on, and,
unlike a recursive sort, it can be reasoned about for every input.

**KeySteps**: the selection as operators. Mean scores are eighths (eight
rollouts that score 0 or 1), so the divergence, a float in the code, is a table
of its values, including the effect of its clamps. **KeyStepSelection** calls it
once on every input within bounds and compares the result with a definition
that does not sort.

**KeyStore**: the file and the two programs on it, again with writes in two
steps, failed writes of the cache (an `IOError` is printed) and crashes. A list
of key steps is abstracted to the number of the epoch that selected it.

**CurriculumTrainer**: `fit()`. One action per rollout batch, one for the
planning of the update stage, one per update, plus saves, the end of an epoch,
starts and crashes. The outcome of a rollout is any selection `KeySteps` can make
for some distribution of scores, the sampler is `EpochDelivery`, a batch is a
sequence of rows. `buffer`, `plan` and `keyJson` are the code's
`epoch_replay_idx_buffer`, its batches, and the key steps on disk.

**SeqlenBalancing**: one call of `get_seqlen_balanced_partitions`, for every
batch within bounds. `Merge` is one turn of the loop of `karmarkar_karp`,
`Return` the checks on its result. A set of rows is the sequence in which they
were added, which decides ties; the heap is a set of states, popped in the
order of `State.__lt__`. `Order`, `NumMicroBatches` and `ReverseIdx` are what
`_balance_batch` and `rearrange_micro_batches` do with the result.

**Dispatch**: a call of the driver on a worker group. One action per way of
padding (`CallPlain`, `CallPadded` by the driver on a copy, `CallAuto` in place,
`CallKeyword`, and `CallUneven`: a Megatron group with padding enabled, where nothing is
padded and `DataProto.chunk` cuts unequal shares), the ranks answer in any order (`Work`), `Collect` takes the
answers of the collected ranks and strips the padding, `Take` lets the driver go
on with the same batch object. **BatchFlow** puts the balancing before it:
`_balance_batch`, then the call.

**RateLimiter**: the token bucket. The actor's acquire thread, the ten release
threads, the execution threads and the callers are its actors; `acquires` is the
queue of the acquire group, `releases` the messages nobody waits for. The caller's
part (`Submit`, `Collect`) is left to whoever uses it; `LimiterNext` lets callers
do as they like.

**RequestLifecycle**: one request of `_async_rollout_a_request`: the state machine of
its loop with its limits of turns and length, tool calls with good, bad and
foreign names, interactions, and what follows the loop (the release of the tools
and `finalize`). An exception in one request ends the rollout of all (`raised`): a call
of a foreign tool (`CallForeignTool`), a tool that answers with `None` (`ToolsRaise`), an
interaction (`InteractionRaises`), the engine or a finish reason `from_str` does not know
(`AnswerRaises`). A request is the numbers of its tokens and turns.

**ShardingManager**: one tensor-parallel group: where each rank is between the
collectives, parameters and random states on it, and the engine of rank 0, with
one- and two-stage wake-up, cache freed or kept, parameters offloaded or not.

**Rollout** composes these three: a request serves only while rank 0 does, its
tool calls go to the bucket (those of a sandbox all, those of a search without a query
not), a failed call is a message or, from a sandbox, ends the rollout, and the engine's answers carry the versions of the
weights. Every action of it is an action of one or two parts and leaves the others
alone.

**ServerPool**: the heap of servers and the LRU cache, as operators on a record;
the code has them twice, in the chat scheduler and in the agent loop's server
manager. **ChatScheduler** runs the conversations of a batch as tasks of one event
loop, with the shipped `ToolCompletionCallback`. A call that raises (`CallRaises`: an unknown
tool, arguments that do not decode) ends the gather and with it the callback, while
the calls beside it run on; these are counted in `strays`, and nobody waits for
them. **AgentLoop** is the manager (starts
with retries, wake-up, sleep, training in between), the workers' pools, and the
loop of every row. **AsyncServing** is a job that has one or the other (`kind`): a
step is one of the chat scheduler's or one of the agent loop's, and what the job
does not have stays as it was made.

The MC modules only give values to the constants. Operators named *Fault* are
the code with one plausible mistake; the mutants in `PROJECT.json` put one in
place of the original to confirm that a property notices.

## 3. What is checked

| Run | Question | Instance |
|---|---|---|
| `pack_sampler` | Does the snapshot discipline of `__iter__` survive re-entrant generators, resets, restored states and crashes? | 4 groups of 1, 2, 3 and 5 rows, batches of 4 or 6 (5 is oversized for 4; 3 + 1 fills a batch; 2 + 3 does not fit), oversized groups allowed or rejected, divisors 1 and 2, 2 orders, 2 generators: 416,812 states |
| `pack_unaligned` | Do batches split over the workers whatever divisor `init_workers` sets? *No* | as above, batches of 4, divisor 3 |
| `checkpoint` | Can the tracked checkpoint be resumed after a crash anywhere? | 2 ranks, actor and critic, 4 steps, saves by the counter and out of turn, 2 checkpoints kept, 3 runs: 250,327 states |
| `checkpoint_keep_one` | And with one checkpoint kept? *No* | the same, 1 kept |
| `key_steps` | Are the selected steps the ones with the largest falls? | every sample of up to 3 steps and a baseline, any of them missing, every mean in eighths, 3 values of top-k: 59,994 states |
| `key_store` | Do the two users of `key.json` respect each other's part? | 2 samples, 2 possible keywords, 3 epochs, 2 crashes, 2 failed writes: 80,478 states |
| `trainer` | Are the updates the curriculum, over crashes and resumptions? | 3 samples (two with 2 steps, one with 1), batches of 2, divisor 2, warmup of 1, saves every 2 steps or out of turn, 2 epochs, 2 runs: 30,460 states |
| `trainer_epochs` | Does a resumed job keep to `total_epochs`? *No* | 2 samples |
| `batch_flow` | Are the parts of a batch complete, never empty and of similar load, and does every row come back once and in its place? | every batch of up to 6 rows of 3 lengths in 2, 3 or 4 parts, plain groups of 2 to 4 ranks and Megatron groups with tensor, context and pipeline ranks and with 3 data-parallel ranks, 2 calls with one batch: 246,665 states |
| `rollout` | Do requests, tools, engine and training keep out of each other's way, and does every rollout end? | 2 requests, 2 tools, 2 calls a message, limits of 1 and 2, 3 threads, 2 ranks, 3 configurations, one update in between: 1,057,060 states |
| `async_serving` | Chat scheduler: is every conversation given back, at its end only, and are the servers dealt evenly? Agent loop: do conversations keep their server, do responses end with the model, and is no server asked asleep, or with old weights though its cache was freed? | 2 servers, caches of 1 and 2 entries; 2 conversations, 2 calls a message, 3 batches; 3 rows in 2 workers, cache freed or kept, models with and without room for a whole response, 2 calls, 1 update: 1,059,822 states |
| `agent_loop_weights` | And does the agent loop sample from the current weights whatever becomes of the cache? *No* | 3 rows in 2 workers, 2 servers, 1 update |

Why the bounds are enough. Sampler: two generators show every interleaving of
a pair, and each branch of the loop is taken with the sizes above; a third
generator is one more suspended copy of the same cursor. Checkpoints: with 4
steps and 2 kept, rotation removes a checkpoint while two later ones are at
stake, and 3 runs allow a crash in a save of a run that has itself been
resumed. Key steps: three steps give every relation between two adjacent
records and one that is left out, and the means are complete for 8 rollouts.
`key.json`: two samples are what a lost update needs, three epochs let a key
step be replaced twice. Trainer: layers of three and two rows with batches of
two give full, padded and several batches per layer; two epochs and two runs let
an epoch be interrupted and repeated. Batches: six rows in two parts are merged
at least twice whether the parts are of equal size or not, three lengths give
ties and differences; no multiple of two, three or four is missed, and the second
call finds the batch as the first has left it. Rollout: one thread more than
tokens makes a call wait, four calls on three threads make one wait for a thread,
the lengths let a request end before its first answer, in the middle of a turn and
by each limit of turns, and one update separates two rollouts with other weights. Chat:
a cache of one entry is smaller than a batch and one of two exactly as large, and
three batches of two conversations leave more entries behind than it holds. Agent loop:
worker 1 has two rows, so that a cache of one is too small and a cache of two
exactly enough; a second call meets what the first has left.

The bounds `MaxEpoch`, `MaxStep`, `MaxSteps`, `MaxRuns`, `MaxEpochs`, `MaxCrashes`,
`MaxFails`, `MaxBatches`, `MaxCalls` and `MaxUpdates` stand in guards, and the runs let a
system that has reached them stop (`CHECK_DEADLOCK FALSE`). What else may stop there
is meant to: the calls of `KeyStepSelection` and of the balancing end when they
return, a rollout with an error or with a conversation whose entry was evicted
never goes on, which the properties name.

The properties, by module (each is stated in prose above its definition):

- sampler: `DeliveredIsPrefix`, `SavedResumesExactly`, `BatchBounded`,
  `Aligned`, `StopMeansDrained`, `LenCountsYields`, and the refinement
  `ImplementsDelivery`;
- checkpoints: `TrackedIsComplete`, `FailsOnlyOnTornTracker`,
  `RotationWithinRun` (a run keeps no more than the limit, and loses none but to make
  room), `TrackerAdvances`, `SaveCompletes`;
- key steps: `EnoughSteps`, `LargestFirst`, `SolvedStepsLast`;
- `key.json`: `NothingLost`, `OneKeyword`, `OrderIsCurrent`,
  `FailsOnlyAfterCut`;
- trainer: `CurriculumOrder`, `EveryKeyStepOnce`, `BatchesSplit`,
  `WeightsMatchCounter`, `EpochEnds`;
- batches: `NeverRaises`, `RestoresOrder`, `Balanced`, `RowsComeBack`;
- rollout: `RunningBounded` (no more calls run than the bucket's limit),
  `InstanceLifetime`, `LoopNeverRaises`, `GpuHandedOver`,
  `EngineInSync`, `RolloutEnds`;
- chat: `DoneOnlyAtEnd`, `ServersEven`, `ConversationsEnd`;
- agent loop: `StickySession`, `EndsWithModelTurn`, `EngineServes`; `WeightsCurrent`,
  which does not hold.

Fairness. Only what the program's own control flow gives. A checkpoint save in
progress goes on (the driver waits for the group and the ranks for their
barriers, nobody for anything else); the driver of `fit()` goes on (`KeepsWorking`:
it starts, updates, saves and ends an epoch when it can, and in the rollout stage it
delivers the next batch or plans the updates; that second part is weak fairness of
`Rollout \/ PlanUpdates` with its ENABLED written out); in a rollout
the ranks, the event loop and the pool go on while they can (`WF(Progress)`: the
engine answers, a search ends by its timeout; what the driver does next is not
fair); in the chat scheduler the tasks of the event loop go on, a server or a tool
answers or fails; when the next batch comes is open, and so is when a stray call
ends. `AsyncSpec` has that fairness and no other. Crashes, new calls and
the arrival of requests are never fair, and the liveness properties allow for a
crash. The sampler, `key.json`, the dispatch and the agent loop are checked for
safety only and state no fairness.

## 4. Where the code and its documents part

The violation runs each show one statement of a comment or a document that the
code does not keep; the details and lines are under `findings`:

- the divisor `init_workers` sets is not adopted by the batch size
  (`pack_unaligned`);
- with one checkpoint kept, the tracked one is removed before its successor
  exists (`checkpoint_keep_one`);
- a resumed job counts its epochs from 0 (`trainer_epochs`);
- with `free_cache_engine` off, an option that is said to be about the KV cache, the
  agent loop never gives the engines new weights, as they get them by waking up
  (`agent_loop_weights`).

Met while modelling, and not given a run (paths below `verl/` unless they begin
with `docs/`).

Curriculum:

- the tracker file is rewritten in place, so that a crash leaves one that does not
  parse (`FailsOnlyOnTornTracker` says that nothing else does);
- the divergence clamps the previous mean to 0.01 and the current one to 1e-6: two
  rows that never succeed have a positive divergence;
- an empty keyword is cached for good; after a failed write of the cache the next
  lookup takes the file for empty and rewrites it with a single entry;
- `__len__` of an exhausted sampler is 0 although the next iteration resets it (the
  progress bar of every later epoch is built from that 0);
- `previous_saved_paths` is empty after a restart, so checkpoints of earlier runs
  are never rotated; the save at the end of training is commented out;
- with `reward_model.launch_reward_fn_async` the update is scored by the rollout
  stage's reward.

Batches:

- a micro-batch may hold more than `max_token_len` tokens, its documented maximum,
  by less than the longest row;
- automatic padding works on the driver's own batch: a second call answers with the
  rows of the padded batch, and `batch.union` with the first answer fails; for
  keyword arguments the padding is computed, not applied, and stripped from the
  answer all the same (`RowsComeBack` excludes that way of calling); a Megatron group
  gets no padding at all, but with padding enabled `DataProto.chunk` does not insist on
  equal pieces there either: three rows on two data-parallel ranks are shared out as
  two and one (`CallUneven`); the answer of
  a `DataProtoFuture` is never stripped; `MEGATRON_PP_AS_DP` has no user;
- the agent loop's manager cuts a batch by its number of workers, the sampler
  aligns it to the sizes of the worker groups.

Rollout:

- `finalize_interaction` is never called, though
  `docs/sglang_multiturn/interaction_system.rst` lines 83 and 395 count on it;
- a call of a tool the request does not have raises a `KeyError` that ends the
  whole rollout (`CallForeignTool`); so does a sandbox call whose worker swallowed an
  exception, as the tool answers with `None` and no `Message` can be made of it
  (`tools/sandbox_fusion_tools.py:173`, `ToolsRaise`), and an answer the engine ends for
  another reason than stop, length or tool calls, as for an aborted request
  (`workers/rollout/schemas.py:45`, `AnswerRaises`); `LoopNeverRaises` says that the loop
  itself brings none about;
- the tests of the length at `workers/rollout/sglang_rollout/sglang_rollout.py`
  lines 822 and 936 compare the number of rows of the ids, which is 1;
- with two-stage wake-up every rank calls the engine that only rank 0 has
  (`workers/sharding_manager/fsdp_sglang.py:176`): the others raise, and rank 0 waits
  for them in the next collective. No property is against it, `RolloutEnds` is claimed
  only where no rank raised;
- the token bucket is a singleton by name: search and sandbox tools in one job share
  the limit of whichever came first, against
  `docs/sglang_multiturn/sandbox_fusion.rst:73`.

Chat scheduler and agent loop:

- a conversation whose entry was evicted while its tools ran dies by an assertion
  (`workers/rollout/chat_scheduler.py:330`) with its depth raised, and
  `generate_sequences` waits forever; a callback that submits two requests at once
  meets the depth of 0 between them (line 356); `max_assistant_turns` of the
  shipped callback counts all messages;
- a tool call that raises ends the callback at once, the gather being without
  `return_exceptions`, and the conversation is given back, its depth being 0, while the
  tools of the same message still run (`workers/rollout/chat_scheduler.py:124-143`,
  361-368); `DoneOnlyAtEnd` is about what is waited for, these are the strays.

## 5. What is proved

Every statement below is proved for all values of the constants, from nothing
but the named assumptions on them (`PackAssumption`, `StateAssumption`,
`CheckpointAssumption`, `StoreAssumption`, `TrainerAssumption`,
`SelectionAssumption`, `BalancingAssumption`, `DispatchAssumption`,
`LimiterAssumption`, `RequestAssumption`, `ShardingAssumption`, `CallsAssumption`,
`PoolAssumption`, `ChatAssumption`, `AgentAssumption`), which TLC
evaluates in the runs; the premises of `BatchesAligned`, `TrackedComplete`,
`StartFailsOnTornTracker` and `UpdatesSplit` are named where these are described. The
bounds on epochs, crashes, failures, calls and updates are arbitrary natural numbers in
the proofs.

**The sampler** (`PackSamplerProofs`). `TypeCorrect` stands alone: `TypeOK` is
inductive. The three facts about a pass are not: that the generators together
have yielded exactly the groups before the cursor (`DeliveredIsPrefix`), and
that a saved state names exactly what is still to come (`SavedResumesExactly`),
need to know where the groups between the last yield and the cursor are. A
generator keeps them in `pending` (or `tmp`), and only one generator runs at a
time. `InFlight` says so: between yields the groups delivered followed by the
pending ones are the order cut at the cursor. The inductive invariant is
`PassInv == TypeOK /\ DeliveredIsPrefix /\ SavedResumesExactly /\ InFlight`;
`EveryGroupOnce` and `SavedStateResumes` follow. `BatchesBounded` and the action
property `StoppedGeneratorsDrained` use it. `BatchesAligned` is the half of the
alignment claim the code keeps: under `CompatibleDivisors` (every batch size is
a multiple of every divisor `init_workers` may set) every batch is a multiple of
the divisor; the run `pack_unaligned` shows the premise is needed. Its arithmetic,
the padding to the next multiple, stands at the head of the module.
`SamplerImplementsDelivery` is the refinement: in the states of `PassInv` a step that
yields a batch delivers the groups from the cursor on (`Delivery!Deliver`), a reset,
a new epoch and a restart begin a new pass, saving and restoring are those of the
abstract sampler, and whatever a generator does between two yields is a stutter.
`LenAgrees` (the theorem of `LenCountsYields`) compares the two copies of the packing
rules. One turn of the loop of `__iter__` and one group of the simulation are not the
same step: a group that does not fit ends a batch and is looked at again by the
one, and is added at once by the other. `LenInv` says what holds in between: the
batches counted from the shared cursor are those counted from the generator's own
with the rows it holds. `LenOfTurn` shows that each branch of the loop keeps this or
takes off one, from the lemma that two simulations which meet at a place differ from
there on by a constant (`SimulationsAgree`).

**The checkpoints** (`CheckpointProofs`). That the tracked checkpoint is complete
is not inductive: it survives a save only because the save is of a later step
and the rotation spares what the tracker names. `SaveInv` has four parts.
`Counters`: during a save the tracker names an earlier step, and it is
half-written only while the driver rewrites it. `Remembered`: what rank 0
remembers of a role not yet saved ends, at the latest, with the tracked step, so
that a rotation that keeps more than one path removes only older ones (with one
kept it removes the tracked one, as `checkpoint_keep_one` shows). `Written`: what
the save has completed so far carries the current run, rank by rank behind the
second barrier, role by role behind that. `Named`: the tracker names the step it
named last. From these follow `TrackedComplete` and `StartFailsOnTornTracker`, for
every limit but 1, and `TrackerMovesForward` for all limits.
`LimitKept` (the theorem of `RotationWithinRun`) counts directories, and its
`RotationInv` says which ones there are: what rank 0 remembers of a role is in the
order of the steps (`InOrder`) and written in full by this run (`Finished`); nothing
else of this run is there but the checkpoint being written (`NothingElse`); rank 0
has made room for that one before any rank writes (`RotatedFirst`, `RoomMade`); a
run that ended leaves no more than the limit (`LeftBehind`), and a new one begins
with none of its own, as no shard is of a run to come (`PastRuns`). As the
remembered steps are distinct, their number is that of the directories. The other half,
that no checkpoint is lost but to make room (`OnlyForRoom`), is about a step: what the
rotation takes is the front of what rank 0 remembers, and the rest, as many as the
limit less one, are newer and whole; and no rank opens a shard of a checkpoint that is
already finished, as a file of this run at the current step is there only behind the
writing of it (`Unwritten`).

**key.json** (`KeyStoreProofs`). `TypeInv` adds to `TypeOK` what is known of a
lookup in progress (`TypeCorrect`). `OrderCurrent` rests on `OrderInv`: the samples already
rolled out in this epoch carry this epoch in the file, and in the table a dump
is about to write. `NothingIsLost` and `OneKeywordPerStep` rest on `AgreeInv`:
as long as no write failed, the file if it parses, and the table any call has
read, agree with all that was ever stored; a keyword is asked for only where
there is none (so nothing was returned before); and the file is torn only while
it is being written or after a crash, before the next dump refuses it. The
premise on failed writes is needed, as section 4 tells. `FailsForACause` (the theorem of
`FailsOnlyAfterCut`) needs where the file is torn: between the two steps of a write, or
after a crash or a failed write (`TornForACause`), and in the rollout stage only before
the first dump (`WholeAfterDump`), since a dump leaves it whole and the failed writes of
the cache belong to the update stage.

**The key steps** (`CurriculumTrainerProofs`, first part). The selection compresses
the records, computes differences of neighbours, sorts and cuts; the properties speak
of a definition that does none of this. The lemmas follow the code: the records are
the steps present in descending order, so that the neighbour of a step is the least
one above it (`Before`); the stable sort of the differences orders the pairs of
difference and place; a prefix of it is the part that is not less than the rest.
`SelectionInv` only says that what was returned is this. `SelectsEnough`,
`SelectsLargest` and `SelectsSolvedLast` follow, the last because the difference is
none exactly for the steps that are solved or no worse than before.

**The trainer** (`CurriculumTrainerProofs`, second part). `CurriculumOrder` and
`EveryKeyStepOnce` speak of what has been trained, and what is trained was planned
from a buffer collected a whole stage earlier and ordered by a file that is older
still. `CurriculumInv` carries the facts from one end to the other:

- `DeliveryOK`: what the sampler still has to give and what it gave are disjoint
  and make up all samples, so that every sample is rolled out once;
- `BufferOK`, while the samples are rolled out: the buffer holds exactly the rows of the
  key steps selected in this epoch, and `key.json` has these, and not those of an
  earlier epoch or run, for every sample delivered (those not yet delivered still
  have the old ones, which is why the samples must all have come before the plan is
  made);
- `PlanOK`, from the planning on: the batches go through the layers in order, all
  rows of a layer before the next, each row in one batch and no others, each batch
  within one layer; it is a lemma about the planning alone (sort, layers, cut, pad);
- `TrainedOK`: what was trained is the plan up to `next`.

`UpdatesFollowCurriculum` and `TrainsEveryKeyStepOnce` follow. `UpdatesSplit` is the
same for the size of the batches, with the premise that `TrainBatch` is a multiple of
`Divisor`: the assertion that would ensure it is commented out
(`ray_trainer_all.py:2491-2493`), and without it the padding of a full batch has no room.
`WeightsBelongToCounter` needs that what is saved belongs together as what is in
memory does, since a crash between an update and the next save throws the latter
away: `Together` says both. `TrainerTypes` adds the types of the rest (`PlainTypes`).

**The batches** (`BatchFlowProofs`). *Balancing*: `BalanceInv` says that between two
merges the states on the heap share out all rows (`HeapOK`), that each has its sets in
descending order and as full as each other where sizes must be equal, and that the
sets of a state lie no further apart in tokens than the longest row or, with equal
sizes, than the rows of some round (`Near`). A merge adds the largest set of one state
to the smallest of the other, and the lemma behind `Near` is that the crosswise sums of
two descending sequences lie no further apart than one of the two did, so that the
rounds' differences do not add up. When one state
is left it has every row (`PartitionOK`), and no part is empty as there were at least as
many rows as parts: `BalancingNeverRaises`, `OrderIsRestored`, `LoadsAreBalanced`.
*Dispatch*: `DispatchInv` says that the shares which are out are pieces of a batch
that, but for the padding at its end, is the driver's (`Sends`), none of them empty and,
but for `CallUneven`, of equal size, and that every answer is to the rank's own share; that the pieces of the collected ranks make up the batch again
holds for plain groups and for groups with tensor, context and pipeline ranks of
any size, by the arithmetic of their ranks. `RowsReturned` follows.

**SequenceLemmas** are the facts these three share, of every finite set and sequence:
what `Ordered`, `Kept`, `StableSort` and `FlattenSeq` return, elements and lengths of
slices and concatenations, division with remainder. The library's induction theorems
take an operator as an argument, which the provers cannot instantiate; the lemmas
use instead that a set of natural numbers which is not empty has a least element
(`HasMinimum`), so that the sum over a sequence or a recursive function such as
`__len__`'s simulation can be reasoned about for every input.

**The rollout** (`RolloutProofs`, one section per part and one for the
composition). Each part has an invariant of its own, and the composition proves that each of its steps is a step or a stutter of each
part; `RolloutUsesLimiter` states this for the bucket as an implementation,
`Spec => LimiterSpec`.

- *Bucket*: the bound on the running calls is not inductive. `LimiterInv` adds that
  no call waits twice in the queue of the actor (`QueueOK`) and that permits, running
  calls and releases under way add up to the limit (`TokensConserved`, itself the
  theorem `TokensKept`); the bound `RunningCallsBounded` follows, whatever fails or
  comes late.
- *Requests*: `RequestInv` says of every place of a request what holds of its
  record (`Sound`: the engine is asked within the limits of length and turns, the
  loop is left with a reason `finalize` knows, a generation prompt that is to be taken off
  is there), and which tools it has an instance of (`InstancesInPlace`). From these
  `InstancesReleased` and `LoopRaisesNothing`; the steps that raise change nothing else.
- *GPUs*: `ShardingInv` keeps the ranks in one phase (`OnePhase`: the collectives
  separate them), and says what each rank (`InPlace`) and the engine
  (`EngineInPlace`) has wherever it is; `HandOver` follows, and `EngineStaysInSync`
  with the fact that a request is at the engine only while rank 0 serves.

**The chat scheduler** (`ServingProofs`). A conversation's depth is back at
zero in every turn, so that its depth alone says nothing about its end. `ChatInv`
ties depth, `done` and the calls waited for to its place (`SoundConversation`): one
request is under way, or was killed before it was counted off, or none is; tools are
waited for at their place only; and `done` is set at the end only.
`GivenBackAtEnd` follows. It says nothing of the strays, which are waited for nowhere. `DealtEvenly` is inductive over the pool: the server
charged is the least loaded one (`ChargedEven`). These facts about the pool, and
those about its LRU cache, stand at the head of the module.

**The agent loop** (`ServingProofs`). `AgentInv` has four
parts. `TypeInv` needs that the least loaded server exists, which is the minimum of a
non-empty set of loads and then of numbers. `RowsOK` says what room the response has left at each
point of the loop and where the last turn of the model lies in it;
`ResponsesEndWithModel` follows. `ServersOK` ties the manager's place to the state
and weights of the servers; with it and the room of `RowsOK`, `ServersServe`, which claims the
current weights only where the cache is freed between the rollouts.
`CachesOK` is the argument for `ConversationsStick`: in the LRU cache the entries of
this call lie behind all older ones, each row has one at most, so that a cache with
room for the rows of a worker is full of older entries, or has one, whenever a row
without an entry needs a place; what is dropped is never the entry of a row under way.
`EitherServes` carries these and the chat scheduler's over to the job that has one of the
two (`AsyncSpec`), each step of which is a step of its manager or none.

Out of the prover's reach, and left to TLC: the liveness properties `SaveCompletes`,
`EpochEnds`, `RolloutEnds` and `ConversationsEnd`, as is everything else under fairness
or about ENABLED. Every other property that a passing run checks is a theorem. Of the type
invariants, those of `PackSampler`, `CheckpointStore`, `KeyStore`, `CurriculumTrainer`,
`RateLimiter`, `ShardingManager`, `ChatScheduler` and `AgentLoop` are proved, that of
`RequestLifecycle` is part of `RequestInv`, and the others document their variables.
What the proofs do not cover is what the models assume of other parts, above all that
the trainer's sampler is `EpochDelivery` (proved of `PackSampler` by
`SamplerImplementsDelivery`), that its checkpoint is whole and that its `key.json` is
read back as written (`TrackedComplete`, `NothingIsLost` and `OrderCurrent` say when).

## 6. What is not modelled, and why

- Tensor computation (workers, losses, advantages, kernels, metrics), text parsing
  in the reward functions, datasets, model merging and conversion, scripts: no
  control worth a model, or state far beyond one. This is the larger part of the
  75,865 lines of the repository, together with the trainers of verl and of the
  recipes, which the curriculum does not run, and the models and patches of
  third-party code; the modules cover the control of what it does run, which is a
  small share of the lines.
- Of the sampler, `_build_groups` is abstracted to the sizes of the groups; of
  the checkpoints, the contents of the shards, the Hugging Face export, HDFS and
  `resume_mode` other than auto, `del_local_ckpt_after_load`.
- Of the balancing, `greedy_partition` (nobody calls it), the metrics, and the
  agreement of the ranks on the number of micro-batches; of the dispatch, the modes
  for other arguments, `MEGATRON_PP_AS_DP`, and futures.
- Of the rollout, the path without turns, multi-modal data, token ids and masks,
  scores, the server's own entry points; an actor of the tools that dies. Of the sharding
  managers, the vLLM and Megatron variants: the same hand-over with other calls of
  other engines. An exception inside `__enter__` of the vLLM one (`fsdp_vllm.py:205`)
  leaves the parameters where they are, and the job ends with it.
- Of the chat scheduler, callbacks of users, and the building of batches from messages; of
  the agent loop, likewise, and errors other than an engine's refusal.
- The rendezvous of the worker groups and their liveness checks (`ray/base.py:421`):
  polls of Ray's registry of names, whose behaviour is not in the repository.
- The prime reward manager (`prime.py:34`): a row that times out keeps its
  process busy, so that later rows can time out too; how the pool deals with that is
  decided by `concurrent.futures` and the clock.
- StatefulDataLoader is external (torchdata): it is taken to save and restore
  the sampler's state, and to begin a new pass from the state of an exhausted
  one. The LRU cache is that of cachetools, the engines are vLLM and SGLang: they are
  modelled from how the code uses them. Ray calls are taken to return or to end
  the job.
- `key_json_path` is taken to be set. It is null by default, in which case
  the step reward raises and the update stage keeps the order of the buffer.

## 7. Plan

Done: the curriculum (sampler, checkpoints, key steps, `key.json`, trainer), the
batches (balancing and dispatch), the SGLang rollout with its tools and its hand-over of
the GPUs, the chat scheduler, the agent loop; theorems for every safety and action
property the passing runs check. What would add most next:

1. **CurriculumTrainer** over the real `CheckpointStore` and `KeyStore` in place of
   a whole checkpoint and a single `keyJson`;
2. the vLLM sharding manager beside that of SGLang, with the engine on every rank;
3. `EpochDelivery` with the bound on the delivered batch that the sampler keeps, so
   that the trainer's rollout batches have the sampler's limits too.
