--------------------------- MODULE CurriculumTrainer ---------------------------
(***************************************************************************)
(* RayPPOTrainer.fit of verl/trainer/ppo/ray_trainer_all.py with the calls *)
(* it makes: an epoch rolls out every sample once and selects its key      *)
(* steps (_rollout_to_filter), then plans and runs the updates, layer by   *)
(* layer of the samples' ranked steps (_update_from_new_batch), saving a   *)
(* checkpoint now and then (_save_checkpoint) and resuming from the last   *)
(* one after a crash (_load_checkpoint).                                   *)
(*                                                                         *)
(* The sampler is used by what it promises (EpochDelivery), the selection  *)
(* is KeySteps, key.json is the key steps it holds (KeyStore has the file  *)
(* itself) and a checkpoint is whole (CheckpointStore has its parts).      *)
(***************************************************************************)
EXTENDS KeySteps

CONSTANTS
    NumSamples,     \* samples are numbered: they are the sampler's groups
    StepsOf,        \* StepsOf[s]: the judging steps of the rows of sample s
    TopK,           \* trainer.top_k_key_steps
    TrainBatch,     \* data.train_batch_size
    Divisor,        \* _get_required_divisor()
    CriticWarmup,   \* trainer.critic_warmup
    SaveFreq,       \* trainer.save_freq
    TotalEpochs,    \* trainer.total_epochs
    MaxRuns         \* bound on the starts of the job

Samples == 1 .. NumSamples
RowsOf(s) == { <<s, j>> : j \in StepsOf[s] }
Rows == UNION { RowsOf(s) : s \in Samples }

ASSUME TrainerAssumption ==
    /\ NumSamples \in Nat
    /\ StepsOf \in [Samples -> SUBSET Nat] /\ \A s \in Samples : IsFiniteSet(StepsOf[s])
    /\ TopK \in Nat \ {0} /\ TrainBatch \in Nat \ {0} /\ Divisor \in Nat \ {0}
    /\ CriticWarmup \in Nat /\ SaveFreq \in Nat \ {0}
    /\ TotalEpochs \in Nat \ {0} /\ MaxRuns \in Nat

VARIABLES
    todo, done,     \* samples the pass has still to deliver, and delivered
    pc,             \* where the driver is
    epoch,          \* the loop's epoch
    buffer,         \* epoch_replay_idx_buffer
    plan,           \* the batches of the update stage, in order
    next,           \* the first of them not run yet
    step,           \* global_steps
    actor,          \* updates the actor's weights have had
    keyJson,        \* key_steps by sample, on disk
    ckpt,           \* the last checkpoint, on disk
    run,            \* starts of the job
    selected,       \* history: the key steps selected in this epoch
    trained,        \* history: the batches run in this epoch
    epochs          \* history: epochs behind the current weights

delivery == <<todo, done>>
vars == <<delivery, pc, epoch, buffer, plan, next, step, actor, keyJson, ckpt,
          run, selected, trained, epochs>>

Sampler == INSTANCE EpochDelivery
             WITH NumGroups <- NumSamples, NoState <- 0, kept <- 0

\* The key steps rolling sample s out can lead to, over every distribution
\* of its rows' scores.
Outcomes == [s \in Samples |->
               { SelectKeySteps(mean, TopK) : mean \in [StepsOf[s] -> Means] }]

NoSteps == [s \in Samples |-> <<>>]

Init ==
    /\ Sampler!Init
    /\ pc = "down" /\ run = 0
    /\ epoch = 0 /\ buffer = <<>> /\ plan = <<>> /\ next = 1
    /\ step = 0 /\ actor = 0
    /\ keyJson = NoSteps
    /\ ckpt = [step |-> 0, actor |-> 0, epochs |-> 0]
    /\ selected = NoSteps /\ trained = <<>> /\ epochs = 0

\* _set_epoch_for_dataloaders and the clearing of the replay buffer.
BeginEpoch(e) ==
    /\ Sampler!NewPass
    /\ pc' = "rollout" /\ epoch' = e
    /\ buffer' = <<>> /\ plan' = <<>> /\ next' = 1
    /\ selected' = NoSteps /\ trained' = <<>>

\* Fault: the weights are not restored.
StartFresh ==
    /\ pc = "down" /\ run < MaxRuns
    /\ run' = run + 1
    /\ step' = ckpt.step /\ actor' = 0 /\ epochs' = ckpt.epochs
    /\ BeginEpoch(0)
    /\ UNCHANGED <<keyJson, ckpt>>

\* fit() loads the last checkpoint and enters its loop at epoch 0.  The
\* dataloader state restored with it is that of a finished pass (saves happen
\* in the update stage), which begins a new one.
Start ==
    /\ pc = "down" /\ run < MaxRuns
    /\ run' = run + 1
    /\ step' = ckpt.step /\ actor' = ckpt.actor /\ epochs' = ckpt.epochs
    /\ BeginEpoch(0)
    /\ UNCHANGED <<keyJson, ckpt>>

\* The samples a step of the sampler delivers.
Batch == { done'[i] : i \in Len(done) + 1 .. Len(done') }

\* _dump_key_map_json: the key steps of the batch replace older ones.
Recorded(sel, B) == [s \in Samples |-> IF s \in B THEN sel[s] ELSE keyJson[s]]

\* One rollout batch: it is generated and scored, its rows are reordered when
\* they are balanced over the ranks, the key steps of its samples go to
\* key.json and their rows to the replay buffer.
Rollout ==
    /\ pc = "rollout"
    /\ Sampler!Deliver
    /\ \E sel \in [Batch -> UNION { Outcomes[s] : s \in Batch }] :
       \E order \in SetToSeqs(Batch) :
         /\ \A s \in Batch : sel[s] \in Outcomes[s]
         /\ keyJson' = Recorded(sel, Batch)
         /\ selected' = [s \in Samples |-> IF s \in Batch THEN sel[s] ELSE selected[s]]
         /\ LET rows == FlattenSeq([i \in DOMAIN order |-> SetToSeq(RowsOf(order[i]))])
            IN  buffer' = buffer \o FilterRows(rows, sel)
    /\ UNCHANGED <<pc, epoch, plan, next, step, actor, ckpt, run, trained, epochs>>
-----------------------------------------------------------------------------
(* The update stage.                                                       *)

\* Samples in the order in which they entered the buffer.
SampleOrder == FirstOccurrences([i \in DOMAIN buffer |-> buffer[i][1]])

\* sid2items: the rows of each sample, ranked.
Items == [s \in Samples |-> SampleItems(buffer, s, keyJson[s])]

\* The samples' rows at one position, in the order of the samples.
Layer(items, order, pos) ==
    LET has == Kept(order, { i \in DOMAIN order : pos <= Len(items[order[i]]) })
    IN  [i \in DOMAIN has |-> items[has[i]][pos]]

\* Fault: the last row is repeated although the batch is aligned.
AlignedAlways(q) ==
    q \o [i \in 1 .. Divisor - (Len(q) % Divisor) |-> q[Len(q)]]

\* A batch is padded with its last row up to the divisor, not beyond the
\* batch size.
AlignedBatch(q) ==
    LET short == (Divisor - (Len(q) % Divisor)) % Divisor
        room == TrainBatch - Len(q)
        need == IF short < room THEN short ELSE room
    IN  q \o [i \in 1 .. need |-> q[Len(q)]]

\* A layer cut into batches.
Batches(q) ==
    [k \in 1 .. (Len(q) + TrainBatch - 1) \div TrainBatch |->
        AlignedBatch(SubSeq(q, (k - 1) * TrainBatch + 1,
                            IF k * TrainBatch < Len(q) THEN k * TrainBatch ELSE Len(q)))]

\* Faults: the items are taken sample by sample; only the first layer is run.
PlanBySample ==
    FlattenSeq([i \in DOMAIN SampleOrder |-> Batches(Items[SampleOrder[i]])])
PlanTopLayer == Batches(Layer(Items, SampleOrder, 1))

\* Layer after layer; no batch crosses a layer.
Plan ==
    LET items == Items
        order == SampleOrder
    IN  FlattenSeq([pos \in 1 .. Cardinality(Rows) |-> Batches(Layer(items, order, pos))])

\* The dataloader is exhausted.
PlanUpdates ==
    /\ pc = "rollout" /\ todo = <<>>
    /\ plan' = Plan /\ next' = 1 /\ pc' = "update"
    /\ UNCHANGED <<delivery, epoch, buffer, step, actor, keyJson, ckpt, run,
                   selected, trained, epochs>>

WarmedUp == CriticWarmup <= step

\* One update, and the decision to save: by the counter or because the
\* instance is about to expire.
Update ==
    /\ pc = "update" /\ next <= Len(plan)
    /\ trained' = Append(trained, plan[next]) /\ next' = next + 1
    /\ actor' = IF WarmedUp THEN actor + 1 ELSE actor
    /\ step' = step + 1
    /\ \E expiring \in BOOLEAN :
         pc' = IF step' % SaveFreq = 0 \/ expiring THEN "save" ELSE "update"
    /\ UNCHANGED <<delivery, epoch, buffer, plan, keyJson, ckpt, run, selected, epochs>>

\* Fault: a save that is not due by the counter is never made.
SaveWhenDue ==
    /\ pc = "save" /\ step % SaveFreq = 0
    /\ ckpt' = [step |-> step, actor |-> actor, epochs |-> epochs]
    /\ pc' = "update"
    /\ UNCHANGED <<delivery, epoch, buffer, plan, next, step, actor, keyJson, run,
                   selected, trained, epochs>>

Save ==
    /\ pc = "save"
    /\ ckpt' = [step |-> step, actor |-> actor, epochs |-> epochs]
    /\ pc' = "update"
    /\ UNCHANGED <<delivery, epoch, buffer, plan, next, step, actor, keyJson, run,
                   selected, trained, epochs>>

\* The plan has been run: the next epoch, or the end of training.
EndEpoch ==
    /\ pc = "update" /\ next > Len(plan)
    /\ epochs' = epochs + 1
    /\ IF epoch + 1 < TotalEpochs
       THEN BeginEpoch(epoch + 1)
       ELSE /\ pc' = "done"
            /\ UNCHANGED <<delivery, epoch, buffer, plan, next, selected, trained>>
    /\ UNCHANGED <<step, actor, keyJson, ckpt, run>>

\* The job dies; what it had in memory is lost.
Crash ==
    /\ pc \in {"rollout", "update", "save"} /\ run < MaxRuns
    /\ pc' = "down"
    /\ buffer' = <<>> /\ plan' = <<>> /\ next' = 1 /\ step' = 0 /\ actor' = 0 /\ epochs' = 0
    /\ selected' = NoSteps /\ trained' = <<>>
    /\ UNCHANGED <<delivery, epoch, keyJson, ckpt, run>>

Work == Start \/ Rollout \/ PlanUpdates \/ Update \/ Save \/ EndEpoch

Next == Work \/ Crash

\* The driver is one sequential program: it takes its next step unless it has
\* none left to take.  (The second conjunct is WF_vars(Rollout \/ PlanUpdates)
\* with its ENABLED written out: in the rollout stage there is a batch to
\* deliver or the updates are planned.  TLC would otherwise plan them to see.)
KeepsWorking ==
    /\ WF_vars(Start \/ Update \/ Save \/ EndEpoch)
    /\ []<>(pc # "rollout") \/ []<><<Rollout \/ PlanUpdates>>_vars

Spec == Init /\ [][Next]_vars /\ KeepsWorking
-----------------------------------------------------------------------------
(* Properties.                                                             *)

InUpdates == pc \in {"update", "save"}

TypeOK ==
    /\ todo \in Seq(Samples) /\ done \in Seq(Samples)
    /\ pc \in {"down", "rollout", "update", "save", "done"}
    /\ epoch \in 0 .. TotalEpochs - 1
    /\ buffer \in Seq(Rows)
    /\ plan \in Seq(Seq(Rows)) /\ trained \in Seq(Seq(Rows))
    /\ next \in 1 .. Len(plan) + 1
    /\ keyJson \in [Samples -> Seq(Nat)] /\ selected \in [Samples -> Seq(Nat)]
    /\ step \in Nat /\ actor \in Nat /\ epochs \in Nat
    /\ ckpt \in [step : Nat, actor : Nat, epochs : Nat]
    /\ run \in 0 .. MaxRuns

\* The distinct rows of a batch: its padding left out.
Unpadded(q) == { q[i] : i \in DOMAIN q }

\* The batches run are layers of the curriculum: the row a sample contributes
\* to one of them is its next key step by criticality, and no sample is at a
\* later step than another sample's next one would be.
CurriculumOrder ==
    \A k \in DOMAIN trained : \E pos \in 1 .. TopK :
        /\ \A r \in Unpadded(trained[k]) :
             pos <= Len(selected[r[1]]) /\ r[2] = selected[r[1]][pos]
        /\ \A s \in Samples, p \in 1 .. pos - 1 :
             p <= Len(selected[s]) =>
                 \E m \in 1 .. k - 1 : <<s, selected[s][p]>> \in Unpadded(trained[m])

\* When an epoch's updates are over, each key step selected in the epoch has
\* been trained on in exactly one batch, and nothing else has been.
EveryKeyStepOnce ==
    pc \in {"update", "done"} /\ next > Len(plan) =>
        /\ UNION { Unpadded(trained[k]) : k \in DOMAIN trained }
             = UNION { { <<s, selected[s][p]>> : p \in DOMAIN selected[s] } : s \in Samples }
        /\ \A k, m \in DOMAIN trained :
             k # m => Unpadded(trained[k]) \cap Unpadded(trained[m]) = {}

\* A batch splits evenly over the worker groups, keeps to the configured size
\* and repeats no row but its last, and no more often than the split needs,
\* provided the configured size is a multiple of the divisor: nothing checks
\* that any more (ray_trainer_all.py:2491-2493), and a full batch has no room
\* for padding.
BatchesSplit ==
    \A k \in DOMAIN plan :
        LET b == plan[k] IN
        /\ Len(b) % Divisor = 0 /\ Len(b) <= TrainBatch
        /\ \A i, m \in DOMAIN b : i < m /\ b[i] = b[m] => b[i] = b[Len(b)]
        /\ Len(b) - Cardinality(Unpadded(b)) < Divisor

\* The counter and the weights belong together, over any number of crashes
\* and resumptions: the actor has had every update after the warmup.
WeightsMatchCounter ==
    actor = IF step > CriticWarmup THEN step - CriticWarmup ELSE 0

\* An epoch runs through to its end unless the job dies.
EpochEnds == pc = "rollout" ~> (pc \in {"done", "down"} \/ (pc = "update" /\ next > Len(plan)))

\* "trainer.total_epochs: Number of epochs in training." (docs/examples/
\* config.rst:536), resuming "from the latest checkpoint" (line 551)
\* included: the weights never have more epochs behind them than that.
EpochsWithinTotal == epochs <= TotalEpochs
=============================================================================
