--------------------------- MODULE RequestLifecycle ----------------------------
(* One multi-turn request of the SGLang rollout, for a set of requests that run *)
(* as tasks of one event loop (_async_rollout_a_request, sglang_rollout.py, and *)
(* AsyncRolloutRequest, schemas.py).  Tasks change places only where one        *)
(* awaits: for the engine, for its tools.  A message is its number of tokens.   *)
EXTENDS Integers, Sequences, FiniteSets

CONSTANTS
    Requests,
    Tools,               \* the tools of the configuration
    Sandboxes,           \* those of them that run code in a sandbox
    ToolsOf,             \* those a request brings tools_kwargs for
    Interactive,         \* the requests with an interaction
    PromptLen,           \* the tokens of its prompt, generation prompt included
    GenPromptLen,        \* the tokens of the generation prompt
    SuffixLen,           \* the tokens the chat template adds to a message
    ReplyLens,           \* lengths of what tools and interactions answer
    MaxCalls,            \* tool calls in one message
    MaxModelLen, ResponseLength, MaxRequestLen,
    MaxAssistantTurns, MaxUserTurns

ASSUME RequestAssumption ==
    /\ IsFiniteSet(Requests) /\ IsFiniteSet(Tools)
    /\ Sandboxes \subseteq Tools /\ ToolsOf \in [Requests -> SUBSET Tools]
    /\ Interactive \subseteq Requests
    /\ PromptLen \in [Requests -> Nat \ {0}]
    /\ ReplyLens \subseteq Nat
    /\ {GenPromptLen, SuffixLen, MaxCalls} \subseteq Nat \ {0}
    /\ {MaxModelLen, ResponseLength, MaxRequestLen} \subseteq Nat \ {0}
    /\ {MaxAssistantTurns, MaxUserTurns} \subseteq Nat \ {0}
    /\ MaxRequestLen <= MaxModelLen
    /\ \A r \in Requests : PromptLen[r] >= GenPromptLen

VARIABLES
    req,        \* the requests
    instances,  \* the tools' instances, one per tool and request at most
    raised      \* an exception has left a request: the rollout is over

requestVars == <<req, instances, raised>>

States == {"PENDING", "RUNNING", "TOOL_CALLING", "INTERACTING", "COMPLETED"}
Reasons == {"none", "STOP", "LENGTH", "TOOL_CALL"}
\* Where a task is: at the top of its loop, awaiting the engine or its tools,
\* behind the loop, or finished.
Points == {"loop", "engine", "tools", "after", "done"}

NewRequest(r) ==
    [state |-> "PENDING", at |-> "loop", turns |-> 0, users |-> 0,
     len |-> PromptLen[r], genPrompt |-> TRUE, finish |-> "none", calls |-> <<>>]

RequestInit ==
    /\ req = [r \in Requests |-> NewRequest(r)]
    /\ instances = {}
    /\ raised = FALSE

Less(a, b) == IF a <= b THEN a ELSE b

\* The length of the prompt for the engine: get_generation_prompt_ids appends
\* the generation prompt unless the ids end with it.
EnginePrompt(r) == req[r].len + (IF req[r].genPrompt THEN 0 ELSE GenPromptLen)

\* What the engine is asked for at most, once the prompt is complete.
MaxNewTokens(r) == Less(ResponseLength, MaxModelLen - EnginePrompt(r) - 1)

InLoop(r, s) == /\ ~raised
                /\ req[r].at = "loop" /\ req[r].state = s
                /\ req[r].turns < MaxAssistantTurns

Set(r, changes) ==
    req' = [req EXCEPT ![r] = [f \in DOMAIN req[r] |->
                                 IF f \in DOMAIN changes THEN changes[f] ELSE req[r][f]]]

\* _handle_pending_state: every tool of the request gets an instance.
HandlePending(r) ==
    /\ InLoop(r, "PENDING")
    /\ Set(r, [state |-> "RUNNING"])
    /\ instances' = instances \cup {<<t, r>> : t \in ToolsOf[r]}
    /\ UNCHANGED raised

\* No room for an answer: the loop ends with LENGTH, the generation prompt added.
PromptTooLong(r) ==
    /\ InLoop(r, "RUNNING")
    /\ EnginePrompt(r) + 1 >= MaxModelLen
    /\ Set(r, [at |-> "after", finish |-> "LENGTH",
               len |-> EnginePrompt(r), genPrompt |-> TRUE])
    /\ UNCHANGED <<instances, raised>>

\* There is room: the prompt is completed and handed to the engine.
CallEngine(r) ==
    /\ InLoop(r, "RUNNING")
    /\ EnginePrompt(r) + 1 < MaxModelLen
    /\ Set(r, [at |-> "engine", len |-> EnginePrompt(r), genPrompt |-> TRUE])
    /\ UNCHANGED <<instances, raised>>

\* The engine has filled what it was asked for: the message is added, the loop
\* is left.
AnswerCut(r) ==
    /\ ~raised /\ req[r].at = "engine"
    /\ Set(r, [at |-> "after", finish |-> "LENGTH", turns |-> req[r].turns + 1,
               len |-> req[r].len + MaxNewTokens(r) + SuffixLen, genPrompt |-> FALSE])
    /\ UNCHANGED <<instances, raised>>

\* The answer stopped by itself with n tokens and holds tool calls, of which
\* those with arguments that decode are kept.  None left: the request is complete.
AnswerCallsTools(r) ==
    /\ ~raised /\ req[r].at = "engine"
    /\ \E n \in 1 .. MaxNewTokens(r), k \in 0 .. MaxCalls :
       \E calls \in [1 .. k -> Tools] :
          LET kept == calls # <<>> IN
          Set(r, [at |-> IF kept THEN "loop" ELSE "after",
                  state |-> IF kept THEN "TOOL_CALLING" ELSE "COMPLETED",
                  finish |-> IF kept THEN "TOOL_CALL" ELSE "STOP",
                  calls |-> calls, turns |-> req[r].turns + 1,
                  len |-> req[r].len + n + SuffixLen, genPrompt |-> FALSE])
    /\ UNCHANGED <<instances, raised>>

\* The answer stopped by itself without tool calls: an interaction answers it,
\* if turns of the user and of the assistant are left, or the loop is left.
AnswerPlain(r) ==
    /\ ~raised /\ req[r].at = "engine"
    /\ LET turns == req[r].turns + 1
           interacts == /\ r \in Interactive
                        /\ req[r].users < MaxUserTurns /\ turns < MaxAssistantTurns
       IN \E n \in 1 .. MaxNewTokens(r) :
             Set(r, [at |-> IF interacts THEN "loop" ELSE "after",
                     state |-> IF interacts THEN "INTERACTING" ELSE "RUNNING",
                     finish |-> "STOP", turns |-> turns,
                     len |-> req[r].len + n + SuffixLen, genPrompt |-> FALSE])
    /\ UNCHANGED <<instances, raised>>

\* The engine raises, or ends its answer for a reason that from_str does not
\* know (it knows "stop", "length" and "tool_calls"; an aborted request has one
\* of its own): a ValueError.
AnswerRaises(r) ==
    /\ ~raised /\ req[r].at = "engine"
    /\ raised' = TRUE
    /\ UNCHANGED <<req, instances>>

\* The calls of the last message start together.
CallTools(r) ==
    /\ InLoop(r, "TOOL_CALLING")
    /\ \A k \in DOMAIN req[r].calls : req[r].calls[k] \in ToolsOf[r]
    /\ Set(r, [at |-> "tools"])
    /\ UNCHANGED <<instances, raised>>

\* A call of a tool the request has no tools_kwargs for: a KeyError, before any
\* of the calls has started.
CallForeignTool(r) ==
    /\ InLoop(r, "TOOL_CALLING")
    /\ \E k \in DOMAIN req[r].calls : req[r].calls[k] \notin ToolsOf[r]
    /\ raised' = TRUE
    /\ UNCHANGED <<req, instances>>

\* All calls have answered with a text.  The test of the length behind this compares the
\* number of rows of the ids, 1, and never ends the loop.
ToolsAnswered(r) ==
    /\ ~raised /\ req[r].at = "tools"
    /\ \E n \in ReplyLens :
          Set(r, [at |-> "loop", state |-> "RUNNING", calls |-> <<>>,
                  len |-> req[r].len + n, genPrompt |-> FALSE])
    /\ UNCHANGED <<instances, raised>>

\* A call has answered with None, of which no Message can be made: a
\* ValidationError, once all calls have answered.
ToolsRaise(r) ==
    /\ ~raised /\ req[r].at = "tools"
    /\ raised' = TRUE
    /\ UNCHANGED <<req, instances>>

\* There is no interaction of the name the request has, or it raises.
InteractionRaises(r) ==
    /\ InLoop(r, "INTERACTING")
    /\ raised' = TRUE
    /\ UNCHANGED <<req, instances>>

\* The interaction ends the conversation or says something.
Interact(r) ==
    /\ InLoop(r, "INTERACTING")
    /\ \/ Set(r, [at |-> "after", state |-> "COMPLETED", finish |-> "STOP",
                  users |-> req[r].users + 1])
       \/ \E n \in ReplyLens :
             Set(r, [state |-> "RUNNING", users |-> req[r].users + 1,
                     len |-> req[r].len + n, genPrompt |-> FALSE])
    /\ UNCHANGED <<instances, raised>>

\* The condition of the loop: the turns are used up, whatever the last message
\* asked for.
LeaveLoop(r) ==
    /\ ~raised
    /\ req[r].at = "loop" /\ req[r].turns >= MaxAssistantTurns
    /\ Set(r, [at |-> "after"])
    /\ UNCHANGED <<instances, raised>>

\* Fault: the reason of the last answer stands when the turns are used up.
OwnReason(r) == req[r].finish

FinalReason(r) == IF req[r].turns >= MaxAssistantTurns THEN "STOP" ELSE req[r].finish

\* Fault: only the tools the last message called are released.
ScoreLastCalled(r) ==
    /\ ~raised /\ req[r].at = "after"
    /\ instances' = instances \ {<<req[r].calls[k], r>> : k \in DOMAIN req[r].calls}
    /\ Set(r, [at |-> "done", state |-> "COMPLETED", genPrompt |-> FALSE])
    /\ UNCHANGED raised

\* Every tool scores the request and drops its instance, then finalize: a reason
\* it does not know raises, a generation prompt nobody answered is taken off
\* again, and the ids are cut to the length of a training sample.
Finalize(r) ==
    /\ ~raised /\ req[r].at = "after"
    /\ instances' = instances \ {<<t, r>> : t \in ToolsOf[r]}
    /\ IF FinalReason(r) \in {"STOP", "LENGTH"}
       THEN /\ Set(r, [at |-> "done", state |-> "COMPLETED", finish |-> FinalReason(r),
                       genPrompt |-> FALSE, calls |-> <<>>,
                       len |-> LET kept == IF req[r].genPrompt THEN req[r].len - GenPromptLen
                                                               ELSE req[r].len
                               IN Less(kept, MaxRequestLen)])
            /\ UNCHANGED raised
       ELSE raised' = TRUE /\ UNCHANGED req

--------------------------------------------------------------------------------
RequestTypeOK ==
    /\ req \in [Requests -> [state : States, at : Points, turns : 0 .. MaxAssistantTurns,
                             users : 0 .. MaxUserTurns, len : Nat, genPrompt : BOOLEAN,
                             finish : Reasons, calls : Seq(Tools)]]
    /\ instances \subseteq Tools \X Requests
    /\ raised \in BOOLEAN

\* While a request's tools run it has an instance of each of them, and once it
\* is done it has none, however its loop was left: by length, by turns, with
\* calls that were never made (sglang_rollout.py:802-956, 983-990).
InstanceLifetime ==
    ~raised => \A r \in Requests :
        LET mine == {t \in Tools : <<t, r>> \in instances} IN
        /\ req[r].at = "tools" => mine = ToolsOf[r]
        /\ req[r].at = "done" => mine = {}

\* The engine is asked for at least one token and never for more than leaves
\* room for the end of the sequence: it raises otherwise (sglang_rollout.py:829-834,
\* 971), which no turn may bring about, since replies grow the prompt unchecked.
EngineFits ==
    \A r \in Requests : req[r].at = "engine" =>
        /\ req[r].len + 1 < MaxModelLen
        /\ MaxNewTokens(r) \in 1 .. MaxModelLen - req[r].len - 1

\* finalize is only given a reason it knows, and the rows the ranks build
\* batches of fit the model (schemas.py:645-651, sglang_rollout.py:942, 1059, 1078).
FinalizeAccepts ==
    \A r \in Requests :
        /\ req[r].at = "after" => FinalReason(r) \in {"STOP", "LENGTH"}
        /\ req[r].at = "done" => /\ req[r].state = "COMPLETED"
                                 /\ req[r].len <= MaxModelLen

\* Whatever lengths, turns and replies add up to, the loop itself brings no
\* exception about that would end the rollout of all requests: it asks the engine
\* for what fits and ends each request for a reason finalize knows.  What raises
\* comes from elsewhere: a call of a tool the request has no tools_kwargs for, a
\* tool that answers with None, an interaction, the engine or its finish reason.
LoopNeverRaises == EngineFits /\ FinalizeAccepts
================================================================================
