-------------------------------- MODULE Rollout --------------------------------
(* A multi-turn rollout of the SGLang workers as a whole: the hand-over of the  *)
(* GPUs (ShardingManager), the requests rank 0 serves in between                *)
(* (RequestLifecycle), and the tools they share through the token bucket        *)
(* (RateLimiter).                                                               *)
EXTENDS RateLimiter, RequestLifecycle, ShardingManager

\* A call of the pool is the k-th call of a request's last message.
ASSUME CallsAssumption == Calls = Requests \X (1 .. MaxCalls)

vars == <<limiterVars, requestVars, shardingVars>>

RolloutInit == LimiterInit /\ RequestInit /\ ShardingInit

CallsOf(r) == {c \in Calls : c[1] = r}

\* The driver's side, and the steps of single ranks: nothing is served.
Host ==
    /\ \/ UpdateWeights \/ GatherPrompts \/ Broadcast
       \/ \E k \in Ranks : WakeUp(k) \/ WakeUpRest(k) \/ Sleep(k)
    /\ UNCHANGED <<limiterVars, requestVars>>

Driver ==
    /\ CallRollout \/ CallTraining \/ Trained \/ RolloutOnly
    /\ UNCHANGED <<limiterVars, requestVars>>

\* A step of one request that concerns it alone.
Task(r) ==
    /\ rank[0] = "serve"
    /\ \/ HandlePending(r) \/ PromptTooLong(r) \/ LeaveLoop(r) \/ Interact(r)
       \/ AnswerCut(r) \/ AnswerCallsTools(r) \/ AnswerPlain(r) \/ AnswerRaises(r)
       \/ InteractionRaises(r) \/ CallForeignTool(r) \/ Finalize(r)
    /\ UNCHANGED <<limiterVars, shardingVars>>

\* async_generate.
AskEngine(r) ==
    /\ rank[0] = "serve"
    /\ CallEngine(r) /\ Generate
    /\ UNCHANGED limiterVars

Sandboxed(r) == {k \in DOMAIN req[r].calls : req[r].calls[k] \in Sandboxes}

\* execute for every call of the message: what is to be run in a sandbox goes to
\* the pool, parameters of a search without a query are answered on the spot.
ExecuteTools(r) ==
    /\ rank[0] = "serve"
    /\ CallTools(r)
    /\ \E toPool \in SUBSET (DOMAIN req[r].calls) :
          /\ Sandboxed(r) \subseteq toPool
          /\ Submit({<<r, k>> : k \in toPool})
    /\ UNCHANGED shardingVars

\* The gather of the calls: the last of them has answered.  For a call that failed
\* SearchTool answers with a message; SandboxFusionTool hands on the None.
GatherTools(r) ==
    /\ rank[0] = "serve"
    /\ IF \E k \in Sandboxed(r) : call[<<r, k>>] = "failed" THEN ToolsRaise(r)
                                                        ELSE ToolsAnswered(r)
    /\ Collect({c \in CallsOf(r) : call[c] # "idle"})
    /\ UNCHANGED shardingVars

\* The gather of the requests: the last of them is done, the rows become a batch.
AllServed ==
    /\ ~raised
    /\ \A r \in Requests : req[r].at = "done"
    /\ Served
    /\ req' = [r \in Requests |-> NewRequest(r)]
    /\ UNCHANGED <<limiterVars, instances, raised>>

Pool == LimiterStep /\ UNCHANGED <<requestVars, shardingVars>>

Progress ==
    \/ Host \/ AllServed \/ Pool
    \/ \E r \in Requests : Task(r) \/ AskEngine(r) \/ ExecuteTools(r) \/ GatherTools(r)

Next == Driver \/ Progress

\* The ranks, the event loop and the pool go on while they can: a search ends by
\* its timeout, and the engine answers.  What the driver does is its own affair.
Spec == RolloutInit /\ [][Next]_vars /\ WF_vars(Progress)

--------------------------------------------------------------------------------
\* The engine generates with its memory in place and the weights the training
\* has reached, and reuses no prefix that was computed with older ones, whether
\* its cache is freed between rollouts or kept (fsdp_sglang.py:93-168,
\* sglang_rollout.py:1178-1181).
EngineInSync ==
    \A r \in Requests : (req[r].at = "engine" /\ ~raised) =>
        /\ engine.memory = Memory
        /\ engine.version = weights
        /\ engine.prefixes \subseteq {weights}

\* A rollout that has begun ends: every rank returns to the driver unless one of
\* them raised.  In particular no call waits forever for a token, though more
\* calls are made than there are tokens or threads, calls fail, and releases
\* come late.
RolloutEnds == (driver = "rollout") ~> (All("over") \/ raised \/ RankRaised \/ driver = "idle")
================================================================================
