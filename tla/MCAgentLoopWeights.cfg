SPECIFICATION AgentSpec
CONSTANTS
    r1 = r1
    r2 = r2
    r3 = r3
    w1 = w1
    w2 = w2
    Servers <- MCServers
    CacheSizes = {2}
    Rows = {r1, r2, r3}
    Workers = {w1, w2}
    WorkerOf <- MCWorkerOf
    SingleTurn = {r3}
    PromptLength = 1
    ResponseLength = 4
    ModelLens = {5}
    ReplyLens = {1}
    MaxAssistantTurns = 3
    MaxUserTurns = 2
    MaxCalls = 2
    MaxUpdates = 1
INVARIANTS WeightsCurrent
CHECK_DEADLOCK FALSE
