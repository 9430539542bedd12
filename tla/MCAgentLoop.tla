------------------------------ MODULE MCAgentLoop ------------------------------
EXTENDS AgentLoop, TLC

CONSTANTS r1, r2, r3, w1, w2

MCServers == {1, 2}
MCWorkerOf == r1 :> w1 @@ r2 :> w1 @@ r3 :> w2
================================================================================
