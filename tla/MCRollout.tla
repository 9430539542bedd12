------------------------------- MODULE MCRollout -------------------------------
EXTENDS Rollout, TLC

CONSTANTS r1, r2, search, code

MCCalls == Requests \X (1 .. MaxCalls)
MCToolsOf == r1 :> {search, code} @@ r2 :> {search}
MCPromptLen == r1 :> 2 @@ r2 :> 3
MCConfigs == {[multi |-> FALSE, free |-> TRUE, offload |-> TRUE],
              [multi |-> FALSE, free |-> FALSE, offload |-> FALSE],
              [multi |-> TRUE, free |-> TRUE, offload |-> FALSE]}
MCInteractive == {r2}
MCRanks == {0, 1}
================================================================================
