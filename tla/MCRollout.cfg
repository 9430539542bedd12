SPECIFICATION Spec
CONSTANTS
    r1 = r1
    r2 = r2
    search = search
    code = code
    Requests = {r1, r2}
    Tools = {search, code}
    Sandboxes = {code}
    ToolsOf <- MCToolsOf
    Interactive <- MCInteractive
    PromptLen <- MCPromptLen
    GenPromptLen = 1
    SuffixLen = 1
    ReplyLens = {1, 3}
    MaxCalls = 2
    MaxModelLen = 9
    ResponseLength = 2
    MaxRequestLen = 7
    MaxAssistantTurns = 2
    MaxUserTurns = 1
    Calls <- MCCalls
    Limits = {1, 2}
    NumWorkers = 3
    Ranks <- MCRanks
    Configs <- MCConfigs
    MaxSteps = 1
INVARIANTS RunningBounded InstanceLifetime LoopNeverRaises GpuHandedOver EngineInSync
PROPERTIES RolloutEnds
CHECK_DEADLOCK FALSE
