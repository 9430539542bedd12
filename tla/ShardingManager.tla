---------------------------- MODULE ShardingManager ----------------------------
(* The hand-over of the GPUs between training and the SGLang engine             *)
(* (fsdp_sglang.py, and generate_sequences and update_actor of fsdp_workers.py): *)
(* the ranks of one tensor-parallel group, the engine that rank 0 holds, and    *)
(* the driver, which waits for every rank before it calls the group again.      *)
EXTENDS Naturals, FiniteSets

CONSTANTS
    Ranks,          \* 0 .. tp_size - 1
    Configs,        \* records [multi, free, offload]: multi_stage_wake_up,
                    \* free_cache_engine, param_offload
    MaxSteps        \* bound on the updates of the weights

ASSUME ShardingAssumption ==
    /\ IsFiniteSet(Ranks) /\ 0 \in Ranks
    /\ Configs \subseteq [multi : BOOLEAN, free : BOOLEAN, offload : BOOLEAN]
    /\ MaxSteps \in Nat

VARIABLES
    conf,       \* the configuration of the job
    driver,     \* what the driver waits for: "idle", "rollout" or "training"
    rank,       \* where each rank is
    onGpu,      \* the ranks with the training parameters on the GPU
    stream,     \* the random state installed on each rank: "train" or "gen"
    weights,    \* the version of the training weights
    engine      \* the engine: memory allocated, version of its weights, the
                \* versions its cached prefixes were computed with, and whether
                \* it still has to release what it allocated at its start

shardingVars == <<conf, driver, rank, onGpu, stream, weights, engine>>

Memory == {"weights", "kv"}
RankStates == {"idle", "wake", "sync", "rest", "gather", "serve", "barrier", "exit",
               "over", "train", "raised"}

ShardingInit ==
    /\ conf \in Configs
    /\ driver = "idle"
    /\ rank = [k \in Ranks |-> "idle"]
    /\ onGpu = IF conf.offload THEN {} ELSE Ranks
    /\ stream = [k \in Ranks |-> "train"]
    /\ weights = 0
    /\ engine = [memory |-> Memory, version |-> 0, prefixes |-> {}, reload |-> TRUE]

All(s) == \A k \in Ranks : rank[k] = s
Goto(k, s) == rank' = [rank EXCEPT ![k] = s]

\* The driver calls generate_sequences on the group.
CallRollout ==
    /\ driver = "idle"
    /\ driver' = "rollout"
    /\ rank' = [k \in Ranks |-> "wake"]
    /\ UNCHANGED <<conf, onGpu, stream, weights, engine>>

\* resume_memory_occupation: the first call releases what the engine has
\* allocated since its start.
Resumed(tags) ==
    [engine EXCEPT !.memory = IF engine.reload THEN tags ELSE engine.memory \cup tags,
                   !.reload = FALSE]

\* wake_up, up to the update of the weights: the parameters are loaded, and rank
\* 0 gives the engine its memory back, all of it or in two stages.
WakeUp(k) ==
    /\ rank[k] = "wake"
    /\ onGpu' = onGpu \cup {k}
    /\ engine' = IF k = 0 /\ conf.free
                 THEN Resumed(IF conf.multi THEN {"weights"} ELSE Memory)
                 ELSE engine
    /\ Goto(k, "sync")
    /\ UNCHANGED <<conf, driver, stream, weights>>

\* Fault: the engine gets the weights only when its memory had been released.
UpdateIfReleased ==
    /\ All("sync")
    /\ engine' = [engine EXCEPT !.version = IF conf.free THEN weights ELSE engine.version,
                                !.prefixes = {}]
    /\ rank' = [k \in Ranks |-> "rest"]
    /\ UNCHANGED <<conf, driver, onGpu, stream, weights>>

\* update_weights: every tensor is gathered from all ranks and given to the
\* engine, which drops its prefixes with the last one.
UpdateWeights ==
    /\ All("sync")
    /\ engine' = [engine EXCEPT !.version = weights, !.prefixes = {}]
    /\ rank' = [k \in Ranks |-> "rest"]
    /\ UNCHANGED <<conf, driver, onGpu, stream, weights>>

\* The rest of wake_up: the parameters go, the second stage, the random states.
\* In two stages every rank calls the engine, which only rank 0 has.
WakeUpRest(k) ==
    /\ rank[k] = "rest"
    /\ onGpu' = IF conf.offload THEN onGpu \ {k} ELSE onGpu
    /\ IF conf.multi /\ conf.free /\ k # 0
       THEN /\ Goto(k, "raised")
            /\ UNCHANGED <<engine, stream>>
       ELSE /\ engine' = IF conf.multi /\ conf.free THEN Resumed({"kv"}) ELSE engine
            /\ stream' = [stream EXCEPT ![k] = "gen"]
            /\ Goto(k, "gather")
    /\ UNCHANGED <<conf, driver, weights>>

\* preprocess_data gathers the prompts of all ranks; rank 0 serves them, the
\* others go on to the barrier.
GatherPrompts ==
    /\ All("gather")
    /\ rank' = [k \in Ranks |-> IF k = 0 THEN "serve" ELSE "barrier"]
    /\ UNCHANGED <<conf, driver, onGpu, stream, weights, engine>>

\* The engine generates: what it caches has been computed with its weights.
Generate ==
    /\ engine' = [engine EXCEPT !.prefixes = engine.prefixes \cup {engine.version}]
    /\ UNCHANGED <<conf, driver, rank, onGpu, stream, weights>>

\* Rank 0 has all its answers.
Served ==
    /\ rank[0] = "serve"
    /\ Goto(0, "barrier")
    /\ UNCHANGED <<conf, driver, onGpu, stream, weights, engine>>

\* The barrier, the broadcast of the answers, and the flush of the prefixes.
Broadcast ==
    /\ All("barrier")
    /\ rank' = [k \in Ranks |-> "exit"]
    /\ engine' = [engine EXCEPT !.prefixes = {}]
    /\ UNCHANGED <<conf, driver, onGpu, stream, weights>>

\* sleep: rank 0 takes the engine's memory, every rank its own random state.
Sleep(k) ==
    /\ rank[k] = "exit"
    /\ engine' = IF k = 0 /\ conf.free THEN [engine EXCEPT !.memory = {}] ELSE engine
    /\ stream' = [stream EXCEPT ![k] = "train"]
    /\ Goto(k, "over")
    /\ UNCHANGED <<conf, driver, onGpu, weights>>

\* Fault: the driver goes on as soon as rank 0 has answered.
CallTrainingEarly ==
    /\ driver = "rollout" /\ rank[0] = "over"
    /\ weights < MaxSteps
    /\ driver' = "training"
    /\ rank' = [k \in Ranks |-> "train"]
    /\ onGpu' = Ranks
    /\ UNCHANGED <<conf, stream, weights, engine>>

\* The driver has the rollout of every rank and calls update_actor.
CallTraining ==
    /\ driver = "rollout" /\ All("over")
    /\ weights < MaxSteps
    /\ driver' = "training"
    /\ rank' = [k \in Ranks |-> "train"]
    /\ onGpu' = Ranks
    /\ UNCHANGED <<conf, stream, weights, engine>>

\* The ranks have updated the weights and offload them.
Trained ==
    /\ driver = "training" /\ All("train")
    /\ weights' = weights + 1
    /\ driver' = "idle"
    /\ rank' = [k \in Ranks |-> "idle"]
    /\ onGpu' = IF conf.offload THEN {} ELSE onGpu
    /\ UNCHANGED <<conf, stream, engine>>

\* The last rollout of the job, or one that is only evaluated.
RolloutOnly ==
    /\ driver = "rollout" /\ All("over")
    /\ driver' = "idle"
    /\ rank' = [k \in Ranks |-> "idle"]
    /\ UNCHANGED <<conf, onGpu, stream, weights, engine>>

RankRaised == \E k \in Ranks : rank[k] = "raised"

--------------------------------------------------------------------------------
ShardingTypeOK ==
    /\ conf \in Configs
    /\ driver \in {"idle", "rollout", "training"}
    /\ rank \in [Ranks -> RankStates]
    /\ onGpu \subseteq Ranks
    /\ stream \in [Ranks -> {"train", "gen"}]
    /\ weights \in 0 .. MaxSteps
    /\ engine \in [memory : SUBSET Memory, version : 0 .. MaxSteps,
                   prefixes : SUBSET (0 .. MaxSteps), reload : BOOLEAN]

\* While the ranks train, the engine's memory is free, if it is to be freed, and
\* every rank draws from its own random state; while the engine serves, the
\* parameters that are offloaded are gone and every rank has put the random
\* state of generation in place (fsdp_sglang.py:140-200, fsdp_workers.py:676-711).
GpuHandedOver ==
    /\ All("train") => /\ conf.free => engine.memory = {}
                       /\ \A k \in Ranks : stream[k] = "train"
    /\ rank[0] = "serve" => /\ conf.offload => onGpu = {}
                            /\ \A k \in Ranks : stream[k] = "gen"
================================================================================
