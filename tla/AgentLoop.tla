-------------------------------- MODULE AgentLoop --------------------------------
(* The agent loop (verl/experimental/agent_loop): a manager that starts, wakes   *)
(* and puts to sleep the vLLM servers around the training, workers that run the   *)
(* rows of their share of the batch as tasks of one event loop, each with a pool  *)
(* of the servers of its own, and the loop of a row (tool_agent_loop.py).  A row  *)
(* is its numbers of tokens.                                                      *)
EXTENDS ServerPool, Integers

CONSTANTS
    Rows, Workers,
    WorkerOf,           \* the worker whose chunk holds the row
    SingleTurn,         \* the rows with agent_name single_turn_agent
    PromptLength, ResponseLength,
    ModelLens,          \* the values max_model_len may have
    ReplyLens,          \* lengths of what the tools answer
    MaxAssistantTurns, MaxUserTurns,    \* 0: no limit
    MaxCalls, MaxUpdates    \* bounds on the calls and on the updates of the weights

ASSUME AgentAssumption ==
    /\ IsFiniteSet(Rows)
    /\ WorkerOf \in [Rows -> Workers]
    /\ SingleTurn \subseteq Rows
    /\ {PromptLength, ResponseLength} \subseteq Nat \ {0}
    /\ ModelLens \subseteq Nat
    /\ ReplyLens \subseteq Nat
    /\ {MaxAssistantTurns, MaxUserTurns, MaxCalls, MaxUpdates} \subseteq Nat

VARIABLES
    conf,       \* free_cache_engine, max_model_len and max_cache_size
    manager,    \* what the manager, and the driver behind it, is doing
    tried,      \* the servers whose start this round has waited for
    server,     \* each server: up, its engine's memory in place, its weights
    weights,    \* the updates of the training so far
    calls,      \* the calls of generate_sequences so far
    pools,       \* the server manager of each worker
    row         \* the rows

agentVars == <<conf, manager, tried, server, weights, calls, pools, row>>

ManagerStates == {"starting", "waking", "generating", "sleeping", "idle", "training", "raised"}
RowPoints == {"ask", "server", "tools", "done"}

\* len: the length of response_mask; first, last: its lengths before and behind
\* the last turn of the model; home: the server of the first turn, 0 before it; at a server the
\* row waits for its answer from asked.
NewRow(prompt) ==
    [at |-> "ask", prompt |-> prompt, len |-> 0, first |-> 0, last |-> 0, turns |-> 0, users |-> 0,
     home |-> 0, asked |-> 0]

AgentInit ==
    /\ conf \in [free : BOOLEAN, modelLen : ModelLens, cacheSize : CacheSizes]
    /\ manager = "starting"
    /\ tried = {}
    /\ server = [s \in Servers |-> [up |-> FALSE, awake |-> FALSE, version |-> 0]]
    /\ weights = 0
    /\ calls = 0
    /\ pools = [w \in Workers |-> NewPool]
    /\ row = [r \in Rows |-> [NewRow(0) EXCEPT !.at = "done", !.len = 1, !.last = 1]]

--------------------------------------------------------------------------------
(* The manager.                                                                 *)

\* The address of a server that is not up yet: it comes, or the server has
\* failed, maybe for an address in use, and is killed.
StartServer(s) ==
    /\ manager = "starting" /\ ~server[s].up /\ s \notin tried
    /\ tried' = tried \cup {s}
    /\ \E ok \in BOOLEAN : server' = [server EXCEPT ![s].up = ok]
    /\ UNCHANGED <<conf, manager, weights, calls, pools, row>>

\* Those that have failed are started again.
StartRound ==
    /\ manager = "starting"
    /\ \A s \in Servers : server[s].up \/ s \in tried
    /\ \E s \in Servers : ~server[s].up
    /\ tried' = {}
    /\ UNCHANGED <<conf, manager, server, weights, calls, pools, row>>

\* All are up: the engines load the model, and are put to sleep.
InitEngines ==
    /\ manager = "starting"
    /\ \A s \in Servers : server[s].up
    /\ server' = [s \in Servers |-> [server[s] EXCEPT !.awake = TRUE]]
    /\ manager' = "sleeping"
    /\ UNCHANGED <<conf, tried, weights, calls, pools, row>>

\* generate_sequences: the servers are woken up first, if their cache is freed.
CallGenerate ==
    /\ manager = "idle" /\ calls < MaxCalls
    /\ calls' = calls + 1
    /\ manager' = "waking"
    /\ UNCHANGED <<conf, tried, server, weights, pools, row>>

\* A server wakes up: its workers give the engine its memory and the weights.
WakeUp(s) ==
    /\ manager = "waking" /\ conf.free /\ ~server[s].awake
    /\ server' = [server EXCEPT ![s].awake = TRUE, ![s].version = weights]
    /\ UNCHANGED <<conf, manager, tried, weights, calls, pools, row>>

\* Fault: the manager does not wait for the servers it wakes up.
StartRowsAtOnce ==
    /\ manager = "waking"
    /\ \E s \in Servers : server[s].awake
    /\ manager' = "generating"
    /\ row' \in {[r \in Rows |-> NewRow(p[r])] : p \in [Rows -> 1 .. PromptLength]}
    /\ UNCHANGED <<conf, tried, server, weights, calls, pools>>

\* All are awake: every worker gets its chunk and starts a task for every row.
StartRows ==
    /\ manager = "waking"
    /\ conf.free => \A s \in Servers : server[s].awake
    /\ manager' = "generating"
    /\ row' \in {[r \in Rows |-> NewRow(p[r])] : p \in [Rows -> 1 .. PromptLength]}
    /\ UNCHANGED <<conf, tried, server, weights, calls, pools>>

\* The chunks of all workers are back.
Collect ==
    /\ manager = "generating"
    /\ \A r \in Rows : row[r].at = "done"
    /\ manager' = IF conf.free THEN "sleeping" ELSE "idle"
    /\ UNCHANGED <<conf, tried, server, weights, calls, pools, row>>

\* A server drops its prefixes and, if it is to free its cache, its memory.
Sleep(s) ==
    /\ manager = "sleeping" /\ conf.free /\ server[s].awake
    /\ server' = [server EXCEPT ![s].awake = FALSE]
    /\ UNCHANGED <<conf, manager, tried, weights, calls, pools, row>>

\* All have answered.
Asleep ==
    /\ manager = "sleeping"
    /\ conf.free => \A s \in Servers : ~server[s].awake
    /\ manager' = "idle"
    /\ UNCHANGED <<conf, tried, server, weights, calls, pools, row>>

\* The driver has the actor update its weights.
Train ==
    /\ manager = "idle" /\ weights < MaxUpdates
    /\ manager' = "training"
    /\ UNCHANGED <<conf, tried, server, weights, calls, pools, row>>

Trained ==
    /\ manager = "training"
    /\ weights' = weights + 1
    /\ manager' = "idle"
    /\ UNCHANGED <<conf, tried, server, calls, pools, row>>

--------------------------------------------------------------------------------
(* A row.                                                                       *)

\* Fault: a fresh id for every turn.
IdOfTurn(r) == <<calls, r, row[r].turns>>

\* The uuid run() draws for the conversation.
RequestId(r) == <<calls, r>>

\* AsyncLLMServerManager.generate: a known conversation goes to its server, a
\* new one, or one that has been forgotten, to the least loaded.
Ask(r) ==
    /\ manager = "generating" /\ row[r].at = "ask"
    /\ LET mine == pools[WorkerOf[r]]
           known == Knows(mine, RequestId(r))
           chosen == IF known THEN ServerOf(mine, RequestId(r)) ELSE Least(mine)
       IN /\ pools' = [pools EXCEPT ![WorkerOf[r]] =
                        IF known THEN Touched(mine, conf.cacheSize, RequestId(r))
                        ELSE Stored(Charged(mine), conf.cacheSize, RequestId(r), chosen)]
          /\ row' = [row EXCEPT ![r].at = "server", ![r].asked = chosen,
                                ![r].home = IF @ = 0 THEN chosen ELSE @]
    /\ UNCHANGED <<conf, manager, tried, server, weights, calls>>

\* What the server asks the engine for: all the model has room for.
MaxTokens(r) == conf.modelLen - (row[r].prompt + row[r].len)

\* An engine that is asked for nothing raises, through the worker and its gather.
EngineRefuses(r) ==
    /\ manager = "generating" /\ row[r].at = "server"
    /\ MaxTokens(r) < 1
    /\ manager' = "raised"
    /\ UNCHANGED <<conf, tried, server, weights, calls, pools, row>>

\* The limits that end the loop behind a turn of the model.
Stops(r, v) ==
    \/ r \in SingleTurn
    \/ v.len >= ResponseLength
    \/ MaxAssistantTurns > 0 /\ v.turns >= MaxAssistantTurns
    \/ MaxUserTurns > 0 /\ v.users >= MaxUserTurns

\* The turn of the model, one token at least; the loop ends by a limit, or as
\* there is no tool call in it, or goes on to the tools.
Answer(r) ==
    /\ manager = "generating" /\ row[r].at = "server"
    /\ \E n \in 1 .. MaxTokens(r), called \in BOOLEAN :
          LET v == [row[r] EXCEPT !.first = row[r].len, !.last = row[r].len + n,
                                  !.len = @ + n, !.turns = @ + 1]
          IN row' = [row EXCEPT ![r] =
                       [v EXCEPT !.at = IF Stops(r, v) \/ ~called THEN "done" ELSE "tools"]]
    /\ UNCHANGED <<conf, manager, tried, server, weights, calls, pools>>

\* One of the calls has failed, or named no tool: the loop ends.
ToolFails(r) ==
    /\ manager = "generating" /\ row[r].at = "tools"
    /\ row' = [row EXCEPT ![r].at = "done"]
    /\ UNCHANGED <<conf, manager, tried, server, weights, calls, pools>>

\* Fault: what the tools answer is cut with the rest of the response.
AppendReply(r) ==
    /\ manager = "generating" /\ row[r].at = "tools"
    /\ \E n \in ReplyLens :
          LET v == [row[r] EXCEPT !.len = @ + n, !.users = @ + 1]
          IN row' = [row EXCEPT ![r] =
                       [v EXCEPT !.at = IF v.len < ResponseLength THEN "ask" ELSE "done"]]
    /\ UNCHANGED <<conf, manager, tried, server, weights, calls, pools>>

\* All have answered: what they say is appended if it leaves room for a turn of
\* the model, else the loop ends without it.
ToolsAnswer(r) ==
    /\ manager = "generating" /\ row[r].at = "tools"
    /\ \E n \in ReplyLens :
          row' = [row EXCEPT ![r] =
                    IF row[r].len + n < ResponseLength
                    THEN [row[r] EXCEPT !.at = "ask", !.len = @ + n, !.users = @ + 1]
                    ELSE [row[r] EXCEPT !.at = "done"]]
    /\ UNCHANGED <<conf, manager, tried, server, weights, calls, pools>>

AgentNext ==
    \/ StartRound \/ InitEngines \/ CallGenerate \/ StartRows \/ Collect \/ Asleep
    \/ Train \/ Trained
    \/ \E s \in Servers : StartServer(s) \/ WakeUp(s) \/ Sleep(s)
    \/ \E r \in Rows : Ask(r) \/ EngineRefuses(r) \/ Answer(r) \/ ToolFails(r) \/ ToolsAnswer(r)

AgentSpec == AgentInit /\ [][AgentNext]_agentVars

--------------------------------------------------------------------------------
AgentTypeOK ==
    /\ conf \in [free : BOOLEAN, modelLen : ModelLens, cacheSize : CacheSizes]
    /\ manager \in ManagerStates
    /\ tried \subseteq Servers
    /\ server \in [Servers -> [up : BOOLEAN, awake : BOOLEAN, version : Nat]]
    /\ weights \in Nat /\ calls \in Nat
    /\ row \in [Rows -> [at : RowPoints, prompt : Nat, len : Nat, first : Nat, last : Nat, turns : Nat,
                         users : Nat, home : Servers \cup {0}, asked : Servers \cup {0}]]

\* "Sticky session: send multi-turn chat completions to same server"
\* (agent_loop.py:45): every turn goes to the server of the first, provided the
\* cache of the worker has room for its chunk, whatever older conversations have
\* left in it.  With less room a conversation changes its server in silence.
StickySession ==
    \A r \in Rows :
        /\ row[r].at = "server"
        /\ conf.cacheSize >= Cardinality({q \in Rows : WorkerOf[q] = WorkerOf[r]})
        => row[r].asked = row[r].home

\* "last turn should not be user turn" (tool_agent_loop.py:173): the response,
\* cut to its length, ends with tokens of the model.
EndsWithModelTurn ==
    \A r \in Rows : row[r].at = "done" =>
        LET kept == IF row[r].len <= ResponseLength THEN row[r].len ELSE ResponseLength
        IN row[r].first < kept /\ kept <= row[r].last

\* A server that is asked is up and awake, and if waking up is what frees and
\* fills its cache, it has the weights the training has reached: every server is
\* waited for on the way in and on the way out, those whose start failed at first
\* included (agent_loop.py:353-374, 397-405, vllm_rollout_spmd.py:468-481).  While
\* the actor trains, a cache to be freed is.  No request leaves the engine without
\* room to answer, and so ends the rollout, if the model is long enough for a
\* prompt and a response.
EngineServes ==
    /\ \A r \in Rows : row[r].at = "server" =>
         LET s == server[row[r].asked] IN
         s.up /\ s.awake /\ (conf.free => s.version = weights)
    /\ manager = "training" /\ conf.free => \A s \in Servers : ~server[s].awake
    /\ conf.modelLen >= PromptLength + ResponseLength => manager # "raised"

\* "Offload the KVCache after rollout generation stage" is all that the option
\* free_cache_engine is said to do (docs/examples/config.rst:359): whatever its
\* value, a request would be answered with the weights the training has reached.
\* But a server gets new ones by waking up only, and with the option off it never
\* does (agent_loop.py:397, vllm_rollout_spmd.py:476).
WeightsCurrent ==
    \A r \in Rows : row[r].at = "server" => server[row[r].asked].version = weights
================================================================================
