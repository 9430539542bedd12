------------------------------ MODULE AsyncServing ------------------------------
(* What serves an asynchronous rollout: the chat scheduler behind the             *)
(* AsyncLLMServerManager, for those who bring a completion callback of their own, *)
(* or the agent loop behind the AgentLoopManager, which the trainers make.  A job *)
(* has one of them; both choose servers from a ServerPool.                        *)
EXTENDS ChatScheduler, AgentLoop

VARIABLE
    kind        \* "chat" or "agent": which of the two the job has

asyncVars == <<chatVars, agentVars, kind>>

\* What the job does not have stays where it was made, with one configuration.
AsyncInit ==
    /\ kind \in {"chat", "agent"}
    /\ ChatInit /\ AgentInit
    /\ conf.cacheSize = cacheSize
    /\ kind = "chat" => conf.free /\ \A n \in ModelLens : conf.modelLen <= n

ChatServes == kind = "chat" /\ ChatNext /\ UNCHANGED <<agentVars, kind>>

AgentServes == kind = "agent" /\ AgentNext /\ UNCHANGED <<chatVars, kind>>

AsyncNext == ChatServes \/ AgentServes

\* Fair is what is fair of the chat scheduler.
AsyncSpec ==
    /\ AsyncInit /\ [][AsyncNext]_asyncVars
    /\ WF_asyncVars((\E c \in Conversations : Step(c)) /\ ChatServes)
================================================================================
