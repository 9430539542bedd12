----------------------------- MODULE RolloutProofs -----------------------------
(***************************************************************************)
(* Theorems about the rollout, for any requests, tools, ranks and limits.  *)
(* The bucket of the tools, the requests and the hand-over of the GPUs     *)
(* have an invariant each; the composition lets a part do nothing but its  *)
(* own steps, and one more fact relates the requests to the GPUs.          *)
(***************************************************************************)
EXTENDS Rollout, SequenceTheorems, FiniteSetTheorems, TLAPS

--------------------------------------------------------------------------------
(* The bucket (RateLimiter).                                                  *)

\* The calls the actor has not answered are under way, each once: what makes a
\* token that is granted a new one among the running calls.
QueueOK ==
    \A i \in DOMAIN acquires :
        /\ call[acquires[i]] = "acquiring"
        /\ \A j \in DOMAIN acquires : acquires[i] = acquires[j] => i = j

LimiterInv == LimiterTypeOK /\ QueueOK /\ TokensConserved

\* The sets of calls in a state are finite.
LEMMA InFinite ==
    ASSUME NEW s
    PROVE  IsFiniteSet(In(s)) /\ Cardinality(In(s)) \in Nat
<1>1. IsFiniteSet(In(s))
  BY LimiterAssumption, FS_Subset DEF In
<1> QED
  BY <1>1, FS_CardinalityType

LEMMA LimiterInitInv == LimiterInit => LimiterInv
<1> SUFFICES ASSUME LimiterInit PROVE LimiterInv
  OBVIOUS
<1>1. LimiterTypeOK /\ QueueOK
  BY LimiterAssumption DEF LimiterInit, LimiterTypeOK, QueueOK, CallStates, Ended
<1>2. In("running") = {}
  BY DEF In, LimiterInit
<1>3. TokensConserved
  BY <1>1, <1>2, FS_EmptySet DEF TokensConserved, LimiterInit, LimiterTypeOK
<1> QED
  BY <1>1, <1>3 DEF LimiterInv

\* A set of calls that leaves the running ones alone keeps the tokens.
LEMMA SameRunning ==
    ASSUME LimiterInv, \A c \in Calls : call'[c] = "running" <=> call[c] = "running",
           UNCHANGED <<limit, permits, releases>>
    PROVE  TokensConserved'
<1>1. In("running")' = In("running")
  BY DEF In
<1> QED
  BY <1>1 DEF LimiterInv, TokensConserved

LEMMA SubmitInv ==
    ASSUME LimiterInv, NEW S \in SUBSET Calls, Submit(S) \/ Collect(S)
    PROVE  LimiterInv'
<1> USE DEF LimiterInv, Submit, Collect
<1>1. LimiterTypeOK'
  BY DEF LimiterTypeOK, CallStates, Ended
<1>2. QueueOK'
  BY DEF QueueOK, LimiterTypeOK, Ended
<1>3. TokensConserved'
  BY SameRunning DEF LimiterTypeOK, Ended
<1> QED
  BY <1>1, <1>2, <1>3

LEMMA StartCallInv ==
    ASSUME LimiterInv, NEW c \in Calls, StartCall(c)
    PROVE  LimiterInv'
<1> USE DEF LimiterInv
<1>1. LimiterTypeOK'
  BY DEF StartCall, LimiterTypeOK, CallStates, Ended
<1>2. QueueOK'
  <2>1. /\ acquires \in Seq(Calls) /\ acquires' = Append(acquires, c)
        /\ call' = [call EXCEPT ![c] = "acquiring"] /\ call[c] = "submitted"
        /\ call \in [Calls -> CallStates]
    BY DEF StartCall, LimiterTypeOK
  <2>2. \A i \in DOMAIN acquires : acquires[i] # c
    BY <2>1 DEF QueueOK
  <2>3. /\ DOMAIN acquires = 1 .. Len(acquires)
        /\ DOMAIN acquires' = 1 .. Len(acquires) + 1
        /\ \A i \in 1 .. Len(acquires) : acquires'[i] = acquires[i]
        /\ acquires'[Len(acquires) + 1] = c
    BY <2>1
  <2>4. \A i \in 1 .. Len(acquires) : acquires[i] \in Calls
    BY <2>1
  <2> QED
    BY <2>1, <2>2, <2>3, <2>4, LenProperties DEF QueueOK
<1>3. TokensConserved'
  BY SameRunning DEF StartCall, LimiterTypeOK
<1> QED
  BY <1>1, <1>2, <1>3

\* A token goes from the bucket to a call that had none.
LEMMA GrantInv ==
    ASSUME LimiterInv, NEW c \in Calls, Grant(c)
    PROVE  LimiterInv'
<1> USE DEF LimiterInv
<1>1. /\ acquires \in Seq(Calls) /\ acquires # <<>> /\ c = acquires[1]
      /\ acquires' = Tail(acquires)
      /\ call \in [Calls -> CallStates] /\ call' = [call EXCEPT ![c] = "running"]
      /\ permits \in Nat /\ permits > 0 /\ permits' = permits - 1
      /\ releases' = releases /\ releases \in Nat /\ limit' = limit /\ limit \in Nat
  BY LimiterAssumption DEF Grant, LimiterTypeOK
<1>2. LimiterTypeOK'
  BY <1>1 DEF Grant, LimiterTypeOK, CallStates
<1>3. /\ DOMAIN acquires = 1 .. Len(acquires) /\ Len(acquires) \in Nat \ {0}
      /\ DOMAIN acquires' = 1 .. Len(acquires) - 1
      /\ \A i \in 1 .. Len(acquires) - 1 : acquires'[i] = acquires[i + 1]
  BY <1>1, EmptySeq, LenProperties, HeadTailProperties
<1>4. QueueOK'
  <2>1. \A i \in DOMAIN acquires : i # 1 => acquires[i] # c
    BY <1>1, <1>3 DEF QueueOK
  <2>2. \A i \in DOMAIN acquires' : /\ i + 1 \in DOMAIN acquires /\ i + 1 # 1
                                    /\ acquires'[i] = acquires[i + 1]
    BY <1>3
  <2> QED
    BY <1>1, <1>3, <2>1, <2>2 DEF QueueOK
<1>5. call[c] = "acquiring"
  BY <1>1, <1>3 DEF QueueOK
<1>6. In("running")' = In("running") \cup {c} /\ c \notin In("running")
  BY <1>1, <1>5 DEF In
<1>7. Cardinality(In("running"))' = Cardinality(In("running")) + 1
  BY <1>6, InFinite, FS_AddElement
<1>8. TokensConserved'
  BY <1>1, <1>7, InFinite DEF TokensConserved
<1> QED
  BY <1>2, <1>4, <1>8

\* A token goes from a call into a release.
LEMMA FinishInv ==
    ASSUME LimiterInv, NEW c \in Calls, Finish(c)
    PROVE  LimiterInv'
<1> USE DEF LimiterInv
<1>0. PICK end \in Ended : call' = [call EXCEPT ![c] = end]
  BY DEF Finish
<1>1. /\ call \in [Calls -> CallStates] /\ end \in CallStates /\ end # "running"
      /\ end # "acquiring" /\ call[c] = "running" /\ permits' = permits /\ permits \in Nat
      /\ releases' = releases + 1 /\ releases \in Nat /\ limit' = limit /\ limit \in Nat
      /\ acquires' = acquires
  BY LimiterAssumption DEF Finish, LimiterTypeOK, CallStates, Ended
<1>2. LimiterTypeOK'
  BY <1>0, <1>1 DEF LimiterTypeOK
<1>3. QueueOK'
  BY <1>0, <1>1 DEF QueueOK, LimiterTypeOK
<1>4. In("running")' = In("running") \ {c} /\ c \in In("running")
  BY <1>0, <1>1 DEF In
<1>5. Cardinality(In("running"))' = Cardinality(In("running")) - 1
  BY <1>4, InFinite, FS_RemoveElement
<1>6. TokensConserved'
  BY <1>1, <1>5, InFinite DEF TokensConserved
<1> QED
  BY <1>2, <1>3, <1>6

LEMMA ReleaseInv ==
    ASSUME LimiterInv, Release
    PROVE  LimiterInv'
<1> USE DEF LimiterInv
<1>1. LimiterTypeOK' /\ QueueOK'
  BY DEF Release, LimiterTypeOK, QueueOK
<1>2. In("running")' = In("running")
  BY DEF Release, In
<1>3. TokensConserved'
  BY <1>2, InFinite DEF Release, TokensConserved, LimiterTypeOK
<1> QED
  BY <1>1, <1>3

LEMMA LimiterNextInv == LimiterInv /\ [LimiterNext]_limiterVars => LimiterInv'
<1> SUFFICES ASSUME LimiterInv, [LimiterNext]_limiterVars PROVE LimiterInv'
  OBVIOUS
<1>1. CASE LimiterStep
  BY <1>1, ReleaseInv, StartCallInv, GrantInv, FinishInv DEF LimiterStep
<1>2. CASE \E S \in SUBSET Calls : Submit(S) \/ Collect(S)
  BY <1>2, SubmitInv
<1>3. CASE UNCHANGED limiterVars
  BY <1>3 DEF limiterVars, LimiterInv, LimiterTypeOK, QueueOK, TokensConserved, In
<1> QED
  BY <1>1, <1>2, <1>3 DEF LimiterNext

\* Conserved tokens bound the running calls.
LEMMA ConservedBounds == LimiterInv => RunningBounded
  BY InFinite, LimiterAssumption DEF LimiterInv, LimiterTypeOK, TokensConserved, RunningBounded

\* No token is lost or made up, whoever calls, and however late calls return and
\* releases arrive (search_tool.py:56-66, 87-97).
THEOREM TokensKept == LimiterSpec => []TokensConserved
<1>1. LimiterInv => TokensConserved
  BY DEF LimiterInv
<1> QED
  BY LimiterInitInv, LimiterNextInv, <1>1, PTL DEF LimiterSpec

--------------------------------------------------------------------------------
(* The requests (RequestLifecycle).                                           *)

Record == [state : States, at : Points, turns : 0 .. MaxAssistantTurns,
           users : 0 .. MaxUserTurns, len : Nat, genPrompt : BOOLEAN,
           finish : Reasons, calls : Seq(Tools)]

\* What the place of a request says of its state: the engine is asked within the
\* limits of length and turns, an interaction within those of the user's turns,
\* the loop is left with a reason finalize knows, and a generation prompt that is
\* to be taken off again is there.
Sound(q) ==
    /\ q.at = "engine" => /\ q.len + 1 < MaxModelLen /\ q.genPrompt
                          /\ q.state = "RUNNING" /\ q.turns < MaxAssistantTurns
    /\ q.at = "after" => q.turns >= MaxAssistantTurns \/ q.finish \in {"STOP", "LENGTH"}
    /\ q.at = "done" => q.state = "COMPLETED" /\ q.len <= MaxModelLen
    /\ q.at = "loop" /\ q.state = "INTERACTING" => q.users < MaxUserTurns
    /\ q.state = "PENDING" => q.at = "loop" /\ q.turns = 0
    /\ q.genPrompt => q.len >= GenPromptLen

\* The tools a request has an instance of: none before it has begun and after it
\* is done, else all it brought arguments for.
Mine(r) == {t \in Tools : <<t, r>> \in instances}
InstancesInPlace ==
    \A r \in Requests :
        Mine(r) = IF req[r].state = "PENDING" \/ req[r].at = "done" THEN {} ELSE ToolsOf[r]

RequestInv ==
    /\ req \in [Requests -> Record]
    /\ instances \subseteq Tools \X Requests /\ raised \in BOOLEAN
    /\ \A r \in Requests : Sound(req[r])
    /\ InstancesInPlace

\* Every action of one request.
RequestStep(r) ==
    \/ HandlePending(r) \/ PromptTooLong(r) \/ CallEngine(r) \/ LeaveLoop(r)
    \/ AnswerCut(r) \/ AnswerCallsTools(r) \/ AnswerPlain(r)
    \/ CallTools(r) \/ ToolsAnswered(r) \/ Interact(r) \/ Finalize(r)
    \/ CallForeignTool(r) \/ AnswerRaises(r) \/ ToolsRaise(r) \/ InteractionRaises(r)

\* The next rollout, once every request of this one is done.
NewRequests ==
    /\ \A r \in Requests : req[r].at = "done"
    /\ req' = [r \in Requests |-> NewRequest(r)]
    /\ UNCHANGED <<instances, raised>>

LEMMA RequestNumbers ==
    /\ MaxModelLen \in Nat \ {0} /\ ResponseLength \in Nat \ {0}
    /\ MaxRequestLen \in Nat \ {0} /\ MaxRequestLen <= MaxModelLen
    /\ MaxAssistantTurns \in Nat \ {0} /\ MaxUserTurns \in Nat \ {0}
    /\ GenPromptLen \in Nat \ {0} /\ SuffixLen \in Nat \ {0}
    /\ ReplyLens \subseteq Nat
  BY RequestAssumption

\* The record Set gives a request.
Changed(q, changes) ==
    [f \in DOMAIN q |-> IF f \in DOMAIN changes THEN changes[f] ELSE q[f]]

LEMMA SetChanges ==
    ASSUME NEW r, NEW changes, Set(r, changes)
    PROVE  req' = [req EXCEPT ![r] = Changed(req[r], changes)]
  BY DEF Set, Changed

\* A request that gets a sound record that needs the same instances.
LEMMA SoundStep ==
    ASSUME RequestInv, NEW r \in Requests, NEW q \in Record, Sound(q),
           req' = [req EXCEPT ![r] = q], UNCHANGED <<instances, raised>>,
           req[r].state # "PENDING", req[r].at # "done",
           q.state # "PENDING", q.at # "done"
    PROVE  RequestInv'
<1>1. req' \in [Requests -> Record] /\ \A s \in Requests : Sound(req'[s])
  BY DEF RequestInv
<1>2. InstancesInPlace'
  BY DEF RequestInv, InstancesInPlace, Mine
<1> QED
  BY <1>1, <1>2 DEF RequestInv

--------------------------------------------------------------------------------
LEMMA RequestInitInv == RequestInit => RequestInv
<1> SUFFICES ASSUME RequestInit PROVE RequestInv
  OBVIOUS
<1>1. ASSUME NEW r \in Requests PROVE NewRequest(r) \in Record /\ Sound(NewRequest(r))
  <2>1. PromptLen[r] \in Nat /\ PromptLen[r] >= GenPromptLen
    BY RequestAssumption
  <2> QED
    BY <2>1, RequestNumbers DEF NewRequest, Record, Sound, States, Points, Reasons
<1>2. InstancesInPlace
  BY DEF RequestInit, InstancesInPlace, Mine, NewRequest
<1> QED
  BY <1>1, <1>2 DEF RequestInit, RequestInv

LEMMA NewRequestsInv == RequestInv /\ NewRequests => RequestInv'
<1> SUFFICES ASSUME RequestInv, NewRequests PROVE RequestInv'
  OBVIOUS
<1>1. ASSUME NEW r \in Requests PROVE NewRequest(r) \in Record /\ Sound(NewRequest(r))
  <2>1. PromptLen[r] \in Nat /\ PromptLen[r] >= GenPromptLen
    BY RequestAssumption
  <2> QED
    BY <2>1, RequestNumbers DEF NewRequest, Record, Sound, States, Points, Reasons
<1>2. InstancesInPlace'
  BY DEF RequestInv, NewRequests, InstancesInPlace, Mine, NewRequest
<1> QED
  BY <1>1, <1>2 DEF NewRequests, RequestInv

LEMMA HandlePendingInv ==
    ASSUME RequestInv, NEW r \in Requests, HandlePending(r)
    PROVE  RequestInv'
<1> DEFINE q == Changed(req[r], [state |-> "RUNNING"])
<1>1. /\ req' = [req EXCEPT ![r] = q] /\ req[r] \in Record
      /\ req[r].state = "PENDING" /\ req[r].at = "loop" /\ raised' = raised
      /\ instances' = instances \cup {<<t, r>> : t \in ToolsOf[r]}
  BY SetChanges DEF HandlePending, InLoop, RequestInv
<1>2. /\ q \in Record /\ q.state = "RUNNING" /\ q.at = "loop"
      /\ q.genPrompt = req[r].genPrompt /\ q.len = req[r].len
  BY <1>1 DEF Changed, Record, States
<1>3. Sound(q)
  BY <1>2 DEF Sound, RequestInv
<1> HIDE DEF q
<1>4. ToolsOf[r] \subseteq Tools
  BY RequestAssumption
<1>5. InstancesInPlace'
  BY <1>1, <1>2, <1>4 DEF RequestInv, InstancesInPlace, Mine
<1> QED
  BY <1>1, <1>2, <1>3, <1>4, <1>5 DEF RequestInv

LEMMA EngineCallInv ==
    ASSUME RequestInv, NEW r \in Requests, PromptTooLong(r) \/ CallEngine(r)
    PROVE  RequestInv'
<1>0. /\ req[r] \in Record /\ req[r].state = "RUNNING" /\ req[r].at = "loop"
      /\ req[r].turns < MaxAssistantTurns
      /\ EnginePrompt(r) \in Nat /\ EnginePrompt(r) >= GenPromptLen
      /\ UNCHANGED <<instances, raised>>
  <2>1. req[r] \in Record /\ InLoop(r, "RUNNING") /\ UNCHANGED <<instances, raised>>
    BY DEF RequestInv, PromptTooLong, CallEngine
  <2>2. req[r].len \in Nat /\ (req[r].genPrompt => req[r].len >= GenPromptLen)
    BY <2>1 DEF Record, RequestInv, Sound
  <2> QED
    BY <2>1, <2>2, RequestNumbers DEF InLoop, EnginePrompt
<1>1. CASE PromptTooLong(r)
  <2> DEFINE q == Changed(req[r], [at |-> "after", finish |-> "LENGTH",
                                   len |-> EnginePrompt(r), genPrompt |-> TRUE])
  <2>1. req' = [req EXCEPT ![r] = q]
    BY <1>1, SetChanges DEF PromptTooLong
  <2>2. q \in Record
    BY <1>0 DEF Changed, Record, Points, Reasons
  <2>3. /\ q.state = "RUNNING" /\ q.at = "after" /\ q.finish = "LENGTH"
        /\ q.len = EnginePrompt(r)
    BY <1>0 DEF Changed, Record
  <2> HIDE DEF q
  <2> QED
    BY <1>0, <2>1, <2>2, <2>3, SoundStep DEF Sound
<1>2. CASE CallEngine(r)
  <2> DEFINE q == Changed(req[r], [at |-> "engine", len |-> EnginePrompt(r),
                                   genPrompt |-> TRUE])
  <2>1. req' = [req EXCEPT ![r] = q] /\ EnginePrompt(r) + 1 < MaxModelLen
    BY <1>2, SetChanges DEF CallEngine
  <2>2. q \in Record
    BY <1>0 DEF Changed, Record, Points
  <2>3. /\ q.state = "RUNNING" /\ q.at = "engine" /\ q.len = EnginePrompt(r)
        /\ q.genPrompt /\ q.turns = req[r].turns
    BY <1>0 DEF Changed, Record
  <2> HIDE DEF q
  <2> QED
    BY <1>0, <2>1, <2>2, <2>3, SoundStep DEF Sound
<1> QED
  BY <1>1, <1>2

\* What a request that asks the engine is asked for.
LEMMA AskedFor ==
    ASSUME RequestInv, NEW r \in Requests, req[r].at = "engine"
    PROVE  /\ req[r] \in Record /\ req[r].state = "RUNNING"
           /\ req[r].len \in Nat /\ req[r].len + 1 < MaxModelLen
           /\ req[r].turns + 1 \in 0 .. MaxAssistantTurns
           /\ MaxNewTokens(r) \in 1 .. MaxModelLen - req[r].len - 1
<1>1. req[r] \in Record /\ Sound(req[r])
  BY DEF RequestInv
<1>2. /\ req[r].state = "RUNNING" /\ req[r].len + 1 < MaxModelLen
      /\ req[r].genPrompt /\ req[r].turns < MaxAssistantTurns
  BY <1>1 DEF Sound
<1>3. req[r].len \in Nat /\ req[r].turns \in Nat
  BY <1>1, RequestNumbers DEF Record
<1>4. EnginePrompt(r) = req[r].len
  BY <1>2, <1>3 DEF EnginePrompt
<1>5. MaxNewTokens(r) \in 1 .. MaxModelLen - req[r].len - 1
  BY <1>2, <1>3, <1>4, RequestNumbers DEF MaxNewTokens, Less
<1> QED
  BY <1>1, <1>2, <1>3, <1>5, RequestNumbers

LEMMA AnswerCutInv ==
    ASSUME RequestInv, NEW r \in Requests, AnswerCut(r)
    PROVE  RequestInv'
<1> DEFINE n == req[r].len + MaxNewTokens(r) + SuffixLen
           q == Changed(req[r], [at |-> "after", finish |-> "LENGTH",
                                 turns |-> req[r].turns + 1,
                                 len |-> n, genPrompt |-> FALSE])
<1>1. req[r].at = "engine" /\ UNCHANGED <<instances, raised>>
  BY DEF AnswerCut
<1>2. req' = [req EXCEPT ![r] = q]
  BY SetChanges DEF AnswerCut
<1>3. n \in Nat
  BY <1>1, AskedFor, RequestNumbers
<1> HIDE DEF n
<1>4. q \in Record
  BY <1>1, <1>3, AskedFor DEF Changed, Record, Points, Reasons
<1>5. q.state = "RUNNING" /\ q.at = "after" /\ q.finish = "LENGTH" /\ ~q.genPrompt
  BY <1>1, AskedFor DEF Changed, Record
<1> HIDE DEF q
<1> QED
  BY <1>1, <1>2, <1>4, <1>5, AskedFor, SoundStep DEF Sound

LEMMA AnswerCallsToolsInv ==
    ASSUME RequestInv, NEW r \in Requests, AnswerCallsTools(r)
    PROVE  RequestInv'
<1>1. req[r].at = "engine" /\ UNCHANGED <<instances, raised>>
  BY DEF AnswerCallsTools
<1>2. PICK n \in 1 .. MaxNewTokens(r), k \in 0 .. MaxCalls :
        \E calls \in [1 .. k -> Tools] :
          Set(r, [at |-> IF calls # <<>> THEN "loop" ELSE "after",
                  state |-> IF calls # <<>> THEN "TOOL_CALLING" ELSE "COMPLETED",
                  finish |-> IF calls # <<>> THEN "TOOL_CALL" ELSE "STOP",
                  calls |-> calls, turns |-> req[r].turns + 1,
                  len |-> req[r].len + n + SuffixLen, genPrompt |-> FALSE])
  BY DEF AnswerCallsTools
<1>3. PICK calls \in [1 .. k -> Tools] :
          Set(r, [at |-> IF calls # <<>> THEN "loop" ELSE "after",
                  state |-> IF calls # <<>> THEN "TOOL_CALLING" ELSE "COMPLETED",
                  finish |-> IF calls # <<>> THEN "TOOL_CALL" ELSE "STOP",
                  calls |-> calls, turns |-> req[r].turns + 1,
                  len |-> req[r].len + n + SuffixLen, genPrompt |-> FALSE])
  BY <1>2
<1> DEFINE m == req[r].len + n + SuffixLen
           kept == calls # <<>>
           q == Changed(req[r], [at |-> IF kept THEN "loop" ELSE "after",
                                 state |-> IF kept THEN "TOOL_CALLING" ELSE "COMPLETED",
                                 finish |-> IF kept THEN "TOOL_CALL" ELSE "STOP",
                                 calls |-> calls, turns |-> req[r].turns + 1,
                                 len |-> m, genPrompt |-> FALSE])
<1>4. req' = [req EXCEPT ![r] = q]
  BY <1>3, SetChanges
<1>5. m \in Nat
  BY <1>1, AskedFor, RequestNumbers
<1>6. calls \in Seq(Tools)
  BY <1>3, RequestAssumption
<1> HIDE DEF m, kept
<1>7. q \in Record
  BY <1>1, <1>5, <1>6, AskedFor DEF Changed, Record, Points, Reasons, States
<1>8. /\ q.state = IF kept THEN "TOOL_CALLING" ELSE "COMPLETED"
      /\ q.at = IF kept THEN "loop" ELSE "after"
      /\ q.finish = IF kept THEN "TOOL_CALL" ELSE "STOP"
      /\ ~q.genPrompt
  BY <1>1, AskedFor DEF Changed, Record
<1> HIDE DEF q
<1>9. Sound(q) /\ q.state # "PENDING" /\ q.at # "done"
  BY <1>8 DEF Sound
<1> QED
  BY <1>1, <1>4, <1>7, <1>9, AskedFor, SoundStep

LEMMA AnswerPlainInv ==
    ASSUME RequestInv, NEW r \in Requests, AnswerPlain(r)
    PROVE  RequestInv'
<1> DEFINE interacts == /\ r \in Interactive
                        /\ req[r].users < MaxUserTurns
                        /\ req[r].turns + 1 < MaxAssistantTurns
<1>1. req[r].at = "engine" /\ UNCHANGED <<instances, raised>>
  BY DEF AnswerPlain
<1>2. PICK n \in 1 .. MaxNewTokens(r) :
        Set(r, [at |-> IF interacts THEN "loop" ELSE "after",
                state |-> IF interacts THEN "INTERACTING" ELSE "RUNNING",
                finish |-> "STOP", turns |-> req[r].turns + 1,
                len |-> req[r].len + n + SuffixLen, genPrompt |-> FALSE])
  BY DEF AnswerPlain
<1> DEFINE m == req[r].len + n + SuffixLen
           q == Changed(req[r], [at |-> IF interacts THEN "loop" ELSE "after",
                                 state |-> IF interacts THEN "INTERACTING" ELSE "RUNNING",
                                 finish |-> "STOP", turns |-> req[r].turns + 1,
                                 len |-> m, genPrompt |-> FALSE])
<1>3. req' = [req EXCEPT ![r] = q]
  BY <1>2, SetChanges
<1>4. m \in Nat
  BY <1>1, AskedFor, RequestNumbers
<1>5. interacts => req[r].users < MaxUserTurns
  OBVIOUS
<1> HIDE DEF m, interacts
<1>6. q \in Record
  BY <1>1, <1>4, AskedFor DEF Changed, Record, Points, Reasons, States
<1>7. /\ q.state = IF interacts THEN "INTERACTING" ELSE "RUNNING"
      /\ q.at = IF interacts THEN "loop" ELSE "after"
      /\ q.finish = "STOP" /\ q.users = req[r].users /\ ~q.genPrompt
  BY <1>1, AskedFor DEF Changed, Record
<1> HIDE DEF q
<1>8. Sound(q) /\ q.state # "PENDING" /\ q.at # "done"
  BY <1>5, <1>7 DEF Sound
<1> QED
  BY <1>1, <1>3, <1>6, <1>8, AskedFor, SoundStep

LEMMA LeaveLoopInv ==
    ASSUME RequestInv, NEW r \in Requests, LeaveLoop(r)
    PROVE  RequestInv'
<1> DEFINE q == Changed(req[r], [at |-> "after"])
<1>1. /\ req' = [req EXCEPT ![r] = q] /\ UNCHANGED <<instances, raised>>
      /\ req[r].at = "loop" /\ req[r].turns >= MaxAssistantTurns
  BY SetChanges DEF LeaveLoop
<1>2. req[r] \in Record /\ Sound(req[r])
  BY DEF RequestInv
<1>3. req[r].state # "PENDING"
  BY <1>1, <1>2, RequestNumbers DEF Sound
<1>4. /\ q \in Record /\ q.state = req[r].state /\ q.at = "after"
      /\ q.turns = req[r].turns
      /\ q.genPrompt = req[r].genPrompt /\ q.len = req[r].len
  BY <1>2 DEF Changed, Record, Points
<1> HIDE DEF q
<1>5. Sound(q)
  BY <1>1, <1>2, <1>3, <1>4 DEF Sound
<1> QED
  BY <1>1, <1>3, <1>4, <1>5, SoundStep

LEMMA CallToolsInv ==
    ASSUME RequestInv, NEW r \in Requests, CallTools(r)
    PROVE  RequestInv'
<1> DEFINE q == Changed(req[r], [at |-> "tools"])
<1>1. /\ req' = [req EXCEPT ![r] = q] /\ UNCHANGED <<instances, raised>>
      /\ req[r].at = "loop" /\ req[r].state = "TOOL_CALLING" /\ req[r] \in Record
      /\ Sound(req[r])
  BY SetChanges DEF CallTools, InLoop, RequestInv
<1>2. /\ q \in Record /\ q.state = "TOOL_CALLING" /\ q.at = "tools"
      /\ q.genPrompt = req[r].genPrompt /\ q.len = req[r].len
  BY <1>1 DEF Changed, Record, Points
<1> HIDE DEF q
<1> QED
  BY <1>1, <1>2, SoundStep DEF Sound

\* An exception leaves the requests and their tools as they are.
LEMMA RaisesInv ==
    ASSUME RequestInv, NEW r \in Requests,
           CallForeignTool(r) \/ AnswerRaises(r) \/ ToolsRaise(r) \/ InteractionRaises(r)
    PROVE  RequestInv'
<1>1. raised' \in BOOLEAN /\ UNCHANGED <<req, instances>>
  BY DEF CallForeignTool, AnswerRaises, ToolsRaise, InteractionRaises
<1> QED
  BY <1>1 DEF RequestInv, InstancesInPlace, Mine

LEMMA ToolsAnsweredInv ==
    ASSUME RequestInv, NEW r \in Requests, ToolsAnswered(r)
    PROVE  RequestInv'
<1>1. PICK n \in ReplyLens :
        Set(r, [at |-> "loop", state |-> "RUNNING", calls |-> <<>>,
                len |-> req[r].len + n, genPrompt |-> FALSE])
  BY DEF ToolsAnswered
<1> DEFINE m == req[r].len + n
           q == Changed(req[r], [at |-> "loop", state |-> "RUNNING", calls |-> <<>>,
                                 len |-> m, genPrompt |-> FALSE])
<1>2. /\ req' = [req EXCEPT ![r] = q] /\ UNCHANGED <<instances, raised>>
      /\ req[r].at = "tools" /\ req[r] \in Record /\ Sound(req[r])
  BY <1>1, SetChanges DEF ToolsAnswered, RequestInv
<1>3. req[r].len \in Nat
  BY <1>2 DEF Record
<1>4. m \in Nat
  BY <1>3, RequestNumbers
<1>5. req[r].state # "PENDING"
  BY <1>2 DEF Sound
<1> HIDE DEF m
<1>6. <<>> \in Seq(Tools)
  OBVIOUS
<1>7. q \in Record /\ q.state = "RUNNING" /\ q.at = "loop" /\ ~q.genPrompt
  BY <1>2, <1>4, <1>6 DEF Changed, Record, Points, States
<1> HIDE DEF q
<1> QED
  BY <1>2, <1>5, <1>7, SoundStep DEF Sound

LEMMA InteractInv ==
    ASSUME RequestInv, NEW r \in Requests, Interact(r)
    PROVE  RequestInv'
<1>1. /\ UNCHANGED <<instances, raised>> /\ req[r] \in Record /\ Sound(req[r])
      /\ req[r].at = "loop" /\ req[r].state = "INTERACTING"
  BY DEF Interact, InLoop, RequestInv
<1>2. req[r].users < MaxUserTurns /\ req[r].users \in 0 .. MaxUserTurns /\ req[r].len \in Nat
  BY <1>1 DEF Sound, Record
<1> DEFINE u == req[r].users + 1
<1>3. u \in 0 .. MaxUserTurns
  BY <1>2, RequestNumbers
<1>4. CASE Set(r, [at |-> "after", state |-> "COMPLETED", finish |-> "STOP", users |-> u])
  <2> DEFINE q == Changed(req[r], [at |-> "after", state |-> "COMPLETED",
                                   finish |-> "STOP", users |-> u])
  <2>1. req' = [req EXCEPT ![r] = q]
    BY <1>4, SetChanges
  <2> HIDE DEF u
  <2>2. /\ q \in Record /\ q.state = "COMPLETED" /\ q.at = "after" /\ q.finish = "STOP"
        /\ q.genPrompt = req[r].genPrompt /\ q.len = req[r].len
    BY <1>1, <1>3 DEF Changed, Record, Points, States, Reasons
  <2> HIDE DEF q
  <2> QED
    BY <1>1, <2>1, <2>2, SoundStep DEF Sound
<1>5. ASSUME NEW n \in ReplyLens,
             Set(r, [state |-> "RUNNING", users |-> u,
                     len |-> req[r].len + n, genPrompt |-> FALSE])
      PROVE  RequestInv'
  <2> DEFINE m == req[r].len + n
             q == Changed(req[r], [state |-> "RUNNING", users |-> u,
                                   len |-> m, genPrompt |-> FALSE])
  <2>1. req' = [req EXCEPT ![r] = q]
    BY <1>5, SetChanges
  <2>2. m \in Nat
    BY <1>2, RequestNumbers
  <2> HIDE DEF u, m
  <2>3. q \in Record /\ q.state = "RUNNING" /\ q.at = "loop" /\ ~q.genPrompt
    BY <1>1, <1>3, <2>2 DEF Changed, Record, States
  <2> HIDE DEF q
  <2> QED
    BY <1>1, <2>1, <2>3, SoundStep DEF Sound
<1> QED
  BY <1>4, <1>5 DEF Interact

LEMMA FinalizeInv ==
    ASSUME RequestInv, NEW r \in Requests, Finalize(r)
    PROVE  RequestInv'
<1>1. /\ req[r] \in Record /\ Sound(req[r]) /\ req[r].at = "after"
      /\ instances' = instances \ {<<t, r>> : t \in ToolsOf[r]}
  BY DEF Finalize, RequestInv
<1>2. FinalReason(r) \in {"STOP", "LENGTH"}
  BY <1>1 DEF FinalReason, Sound
<1> DEFINE kept == IF req[r].genPrompt THEN req[r].len - GenPromptLen ELSE req[r].len
           n == Less(kept, MaxRequestLen)
           q == Changed(req[r], [at |-> "done", state |-> "COMPLETED",
                                 finish |-> FinalReason(r),
                                 genPrompt |-> FALSE, calls |-> <<>>, len |-> n])
<1>3. req' = [req EXCEPT ![r] = q] /\ raised' = raised
  BY <1>2, SetChanges DEF Finalize
<1>4. n \in Nat /\ n <= MaxModelLen
  <2>1. req[r].len \in Nat /\ (req[r].genPrompt => req[r].len >= GenPromptLen)
    BY <1>1 DEF Record, Sound
  <2> QED
    BY <2>1, RequestNumbers DEF Less
<1>4a. <<>> \in Seq(Tools) /\ FinalReason(r) \in Reasons
  BY <1>2 DEF Reasons
<1> HIDE DEF n
<1>5. q \in Record
  BY <1>1, <1>4a, <1>4 DEF Changed, Record, Points, States
<1>6. q.state = "COMPLETED" /\ q.at = "done" /\ q.len = n /\ ~q.genPrompt
  BY <1>1 DEF Changed, Record
<1> HIDE DEF q
<1>7. Sound(q)
  BY <1>4, <1>6 DEF Sound
<1>8. req' \in [Requests -> Record] /\ \A s \in Requests : Sound(req'[s])
  BY <1>3, <1>5, <1>7 DEF RequestInv
<1>9. InstancesInPlace'
  BY <1>1, <1>3, <1>6, RequestAssumption DEF RequestInv, InstancesInPlace, Mine, Sound
<1> QED
  BY <1>1, <1>3, <1>8, <1>9 DEF RequestInv

LEMMA RequestStepInv ==
    ASSUME RequestInv, NEW r \in Requests, RequestStep(r)
    PROVE  RequestInv'
  BY HandlePendingInv, EngineCallInv, LeaveLoopInv, AnswerCutInv, AnswerCallsToolsInv,
     AnswerPlainInv, CallToolsInv, RaisesInv, ToolsAnsweredInv, InteractInv,
     FinalizeInv
     DEF RequestStep

LEMMA RequestStutterInv == RequestInv /\ UNCHANGED requestVars => RequestInv'
  BY DEF RequestInv, requestVars, InstancesInPlace, Mine

--------------------------------------------------------------------------------
\* Sound records are accepted by the engine and by finalize.
LEMMA SoundAccepts == RequestInv => LoopNeverRaises
<1> SUFFICES ASSUME RequestInv PROVE LoopNeverRaises
  OBVIOUS
<1>1. EngineFits
  BY AskedFor DEF EngineFits
<1>2. FinalizeAccepts
  BY DEF RequestInv, Sound, FinalizeAccepts, FinalReason
<1> QED
  BY <1>1, <1>2 DEF LoopNeverRaises

LEMMA InstancesLive == RequestInv => InstanceLifetime
  BY DEF RequestInv, Sound, InstancesInPlace, Mine, InstanceLifetime

--------------------------------------------------------------------------------
(* The hand-over of the GPUs (ShardingManager).                               *)

RolloutPhases == {{"wake", "sync"}, {"rest", "gather", "raised"},
                  {"serve", "barrier"}, {"exit", "over"}}

\* The collectives keep the ranks in one phase of the rollout, and the driver
\* waits for all of them.
OnePhase ==
    \/ driver = "idle" /\ All("idle")
    \/ driver = "training" /\ All("train") /\ weights < MaxSteps
    \/ driver = "rollout" /\ \E P \in RolloutPhases : \A k \in Ranks : rank[k] \in P

\* What a rank has in place, wherever it is.
InPlace ==
    \A k \in Ranks :
        /\ stream[k] = IF rank[k] \in {"gather", "serve", "barrier", "exit"}
                       THEN "gen" ELSE "train"
        /\ conf.offload /\ rank[k] \notin {"sync", "rest", "train"} => k \notin onGpu

\* What the engine has, wherever rank 0 is.
EngineInPlace ==
    /\ ~conf.free => engine.memory = Memory
    /\ conf.free /\ rank[0] \in {"over", "train"} => engine.memory = {}
    /\ conf.free /\ rank[0] \in {"sync", "rest"} =>
         IF conf.multi THEN "weights" \in engine.memory /\ ~engine.reload
         ELSE engine.memory = Memory
    /\ rank[0] \in {"gather", "serve", "barrier", "exit"} => engine.memory = Memory
    /\ rank[0] \in {"rest", "gather", "serve", "barrier", "exit"} =>
         engine.version = weights /\ engine.prefixes \subseteq {weights}

ShardingInv == ShardingTypeOK /\ OnePhase /\ InPlace /\ EngineInPlace

\* Every action of the module, with the engine asked while rank 0 serves.
ShardingStep ==
    \/ CallRollout \/ CallTraining \/ Trained \/ RolloutOnly
    \/ UpdateWeights \/ GatherPrompts \/ Served \/ Broadcast
    \/ rank[0] = "serve" /\ Generate
    \/ \E k \in Ranks : WakeUp(k) \/ WakeUpRest(k) \/ Sleep(k)

\* The fields of the configuration and of the engine.
LEMMA ShardingFields ==
    ASSUME ShardingTypeOK
    PROVE  /\ conf.multi \in BOOLEAN /\ conf.free \in BOOLEAN /\ conf.offload \in BOOLEAN
           /\ engine.memory \in SUBSET Memory /\ engine.reload \in BOOLEAN
           /\ 0 \in Ranks /\ weights \in Nat
  BY ShardingAssumption DEF ShardingTypeOK

LEMMA ShardingInitInv == ShardingInit => ShardingInv
<1> SUFFICES ASSUME ShardingInit PROVE ShardingInv
  OBVIOUS
<1> USE ShardingAssumption DEF ShardingInit
<1>1. ShardingTypeOK
  <2>1. MaxSteps \in Nat /\ 0 \in 0 .. MaxSteps
    OBVIOUS
  <2> QED
    BY <2>1 DEF ShardingTypeOK, RankStates
<1>2. OnePhase
  BY DEF OnePhase, All
<1>3. InPlace
  BY DEF InPlace
<1>4. EngineInPlace
  BY DEF EngineInPlace
<1> QED
  BY <1>1, <1>2, <1>3, <1>4 DEF ShardingInv

LEMMA ShardingTypeStep ==
    ASSUME ShardingInv, ShardingStep
    PROVE  ShardingTypeOK'
<1> USE ShardingAssumption DEF ShardingInv, ShardingTypeOK, RankStates
<1>1. CASE CallRollout
  BY <1>1 DEF CallRollout
<1>2. CASE CallTraining
  BY <1>2 DEF CallTraining
<1>3. CASE Trained
  <2>1. weights + 1 \in 0 .. MaxSteps
    BY <1>3 DEF Trained, OnePhase
  <2> QED
    BY <1>3, <2>1 DEF Trained
<1>4. CASE RolloutOnly
  BY <1>4 DEF RolloutOnly
<1>5. CASE UpdateWeights \/ Broadcast
  <2>1. /\ rank' \in [Ranks -> RankStates]
        /\ UNCHANGED <<conf, driver, onGpu, stream, weights>>
    BY <1>5 DEF UpdateWeights, Broadcast
  <2>2. engine' \in [memory : SUBSET Memory, version : 0 .. MaxSteps,
                     prefixes : SUBSET (0 .. MaxSteps), reload : BOOLEAN]
    <3>1. CASE UpdateWeights
      BY <3>1 DEF UpdateWeights
    <3>2. CASE Broadcast
      BY <3>2 DEF Broadcast
    <3> QED
      BY <1>5, <3>1, <3>2
  <2> QED
    BY <2>1, <2>2
<1>6. CASE GatherPrompts \/ Served
  BY <1>6 DEF GatherPrompts, Served, Goto
<1>7. CASE Generate
  BY <1>7 DEF Generate
<1>8. ASSUME NEW k \in Ranks, WakeUp(k) PROVE ShardingTypeOK'
  BY <1>8 DEF WakeUp, Resumed, Memory, Goto
<1>9. ASSUME NEW k \in Ranks, WakeUpRest(k) PROVE ShardingTypeOK'
  <2>1. /\ rank' \in [Ranks -> RankStates] /\ onGpu' \subseteq Ranks
        /\ stream' \in [Ranks -> {"train", "gen"}]
        /\ UNCHANGED <<conf, driver, weights>>
    BY <1>9 DEF WakeUpRest, Goto
  <2>2. engine' = engine \/ engine' = Resumed({"kv"})
    BY <1>9 DEF WakeUpRest
  <2>3. Resumed({"kv"}) \in [memory : SUBSET Memory, version : 0 .. MaxSteps,
                             prefixes : SUBSET (0 .. MaxSteps), reload : BOOLEAN]
    BY DEF Resumed, Memory
  <2> QED
    BY <2>1, <2>2, <2>3
<1>10. ASSUME NEW k \in Ranks, Sleep(k) PROVE ShardingTypeOK'
  BY <1>10 DEF Sleep, Goto
<1> QED
  BY <1>1, <1>2, <1>3, <1>4, <1>5, <1>6, <1>7, <1>8, <1>9, <1>10 DEF ShardingStep

\* An action of one rank moves it within its phase.
LEMMA MoveWithinPhase ==
    ASSUME ShardingInv, driver = "rollout", driver' = driver,
           NEW k \in Ranks, NEW P \in RolloutPhases, rank[k] \in P,
           NEW s \in P, s \in RankStates, Goto(k, s)
    PROVE  OnePhase'
<1>1. PICK Q \in RolloutPhases : \A j \in Ranks : rank[j] \in Q
  BY ShardingAssumption DEF ShardingInv, OnePhase
<1>2. P = Q
  BY <1>1 DEF RolloutPhases
<1>3. rank' = [rank EXCEPT ![k] = s] /\ rank \in [Ranks -> RankStates]
  BY DEF Goto, ShardingInv, ShardingTypeOK
<1>4. \A j \in Ranks : rank'[j] \in P
  BY <1>1, <1>2, <1>3
<1> QED
  BY <1>4 DEF OnePhase

\* Ranks that move act during a rollout.
LEMMA RollingOut ==
    ASSUME ShardingInv, NEW k \in Ranks, rank[k] \notin {"idle", "train"}
    PROVE  driver = "rollout"
  BY DEF ShardingInv, OnePhase, All

LEMMA OnePhaseStep ==
    ASSUME ShardingInv, ShardingStep
    PROVE  OnePhase'
<1> USE ShardingAssumption
<1>0. rank \in [Ranks -> RankStates]
  BY DEF ShardingInv, ShardingTypeOK
<1>1. CASE CallRollout
  <2>1. \A j \in Ranks : rank'[j] \in {"wake", "sync"}
    BY <1>1 DEF CallRollout
  <2> QED
    BY <1>1, <2>1 DEF CallRollout, OnePhase, RolloutPhases
<1>2. CASE CallTraining
  BY <1>2 DEF CallTraining, OnePhase, All
<1>3. CASE Trained \/ RolloutOnly
  BY <1>3 DEF Trained, RolloutOnly, OnePhase, All
<1>4. CASE UpdateWeights
  <2>1. driver = "rollout" /\ driver' = driver
    BY <1>4, RollingOut DEF UpdateWeights, All
  <2>2. \A j \in Ranks : rank'[j] \in {"rest", "gather", "raised"}
    BY <1>4 DEF UpdateWeights
  <2> QED
    BY <2>1, <2>2 DEF OnePhase, RolloutPhases
<1>5. CASE GatherPrompts
  <2>1. driver = "rollout" /\ driver' = driver
    BY <1>5, RollingOut DEF GatherPrompts, All
  <2>2. \A j \in Ranks : rank'[j] \in {"serve", "barrier"}
    BY <1>5 DEF GatherPrompts
  <2> QED
    BY <2>1, <2>2 DEF OnePhase, RolloutPhases
<1>6. CASE Broadcast
  <2>1. driver = "rollout" /\ driver' = driver
    BY <1>6, RollingOut DEF Broadcast, All
  <2>2. \A j \in Ranks : rank'[j] \in {"exit", "over"}
    BY <1>6 DEF Broadcast
  <2> QED
    BY <2>1, <2>2 DEF OnePhase, RolloutPhases
<1>7. CASE Served
  <2>1. rank[0] = "serve" /\ driver' = driver /\ Goto(0, "barrier")
    BY <1>7 DEF Served
  <2>2. driver = "rollout"
    BY <2>1, RollingOut
  <2> QED
    BY <2>1, <2>2, MoveWithinPhase DEF RolloutPhases, RankStates
<1>8. CASE rank[0] = "serve" /\ Generate
  BY <1>8 DEF Generate, OnePhase, All, ShardingInv
<1>9. ASSUME NEW k \in Ranks, WakeUp(k) PROVE OnePhase'
  <2>1. rank[k] = "wake" /\ driver' = driver /\ Goto(k, "sync")
    BY <1>9 DEF WakeUp
  <2>2. driver = "rollout"
    BY <2>1, RollingOut
  <2> QED
    BY <2>1, <2>2, MoveWithinPhase DEF RolloutPhases, RankStates
<1>10. ASSUME NEW k \in Ranks, WakeUpRest(k) PROVE OnePhase'
  <2>1. rank[k] = "rest" /\ driver' = driver /\ (Goto(k, "raised") \/ Goto(k, "gather"))
    BY <1>10 DEF WakeUpRest
  <2>2. driver = "rollout"
    BY <2>1, RollingOut
  <2> QED
    BY <2>1, <2>2, MoveWithinPhase DEF RolloutPhases, RankStates
<1>11. ASSUME NEW k \in Ranks, Sleep(k) PROVE OnePhase'
  <2>1. rank[k] = "exit" /\ driver' = driver /\ Goto(k, "over")
    BY <1>11 DEF Sleep
  <2>2. driver = "rollout"
    BY <2>1, RollingOut
  <2> QED
    BY <2>1, <2>2, MoveWithinPhase DEF RolloutPhases, RankStates
<1> QED
  BY <1>1, <1>2, <1>3, <1>4, <1>5, <1>6, <1>7, <1>8, <1>9, <1>10, <1>11 DEF ShardingStep

LEMMA InPlaceStep ==
    ASSUME ShardingInv, ShardingStep
    PROVE  InPlace'
<1> USE DEF InPlace
<1>0. /\ rank \in [Ranks -> RankStates] /\ stream \in [Ranks -> {"train", "gen"}]
      /\ InPlace /\ conf' = conf
  BY DEF ShardingInv, ShardingTypeOK, ShardingStep, CallRollout, CallTraining, Trained,
         RolloutOnly, UpdateWeights, GatherPrompts, Served, Broadcast, Generate,
         WakeUp, WakeUpRest, Sleep
<1>1. CASE CallRollout
  BY <1>0, <1>1 DEF CallRollout, OnePhase, ShardingInv, All
<1>2. CASE CallTraining \/ RolloutOnly
  BY <1>0, <1>2 DEF CallTraining, RolloutOnly, All
<1>3. CASE Trained
  BY <1>0, <1>3 DEF Trained, All
<1>4. CASE UpdateWeights \/ Broadcast \/ GatherPrompts
  BY <1>0, <1>4, ShardingAssumption DEF UpdateWeights, Broadcast, GatherPrompts, All
<1>5. CASE Served \/ (rank[0] = "serve" /\ Generate)
  BY <1>0, <1>5, ShardingAssumption DEF Served, Generate, Goto
<1>6. ASSUME NEW k \in Ranks, WakeUp(k) PROVE InPlace'
  BY <1>0, <1>6 DEF WakeUp, Goto
<1>7. ASSUME NEW k \in Ranks, WakeUpRest(k) PROVE InPlace'
  BY <1>0, <1>7 DEF WakeUpRest, Goto
<1>8. ASSUME NEW k \in Ranks, Sleep(k) PROVE InPlace'
  BY <1>0, <1>8 DEF Sleep, Goto
<1> QED
  BY <1>1, <1>2, <1>3, <1>4, <1>5, <1>6, <1>7, <1>8 DEF ShardingStep

LEMMA EngineStep ==
    ASSUME ShardingInv, ShardingStep
    PROVE  EngineInPlace'
<1> USE DEF EngineInPlace
<1>0. /\ rank \in [Ranks -> RankStates] /\ 0 \in Ranks
      /\ EngineInPlace /\ conf' = conf
      /\ engine \in [memory : SUBSET Memory, version : 0 .. MaxSteps,
                     prefixes : SUBSET (0 .. MaxSteps), reload : BOOLEAN]
  BY ShardingAssumption
     DEF ShardingInv, ShardingTypeOK, ShardingStep, CallRollout, CallTraining, Trained,
         RolloutOnly, UpdateWeights, GatherPrompts, Served, Broadcast, Generate,
         WakeUp, WakeUpRest, Sleep
<1>1. CASE CallRollout \/ RolloutOnly
  BY <1>0, <1>1 DEF CallRollout, RolloutOnly
<1>2. CASE CallTraining
  BY <1>0, <1>2 DEF CallTraining, All
<1>3. CASE Trained
  BY <1>0, <1>3 DEF Trained
<1>4. CASE UpdateWeights
  BY <1>0, <1>4 DEF UpdateWeights, All
<1>5. CASE GatherPrompts
  BY <1>0, <1>5 DEF GatherPrompts, All
<1>6. CASE Broadcast
  BY <1>0, <1>6 DEF Broadcast, All
<1>7. CASE Served
  BY <1>0, <1>7 DEF Served, Goto
<1>8. CASE rank[0] = "serve" /\ Generate
  BY <1>0, <1>8 DEF Generate
<1>9. ASSUME NEW k \in Ranks, WakeUp(k) PROVE EngineInPlace'
  <2>1. CASE k = 0
    BY <1>0, <1>9, <2>1 DEF WakeUp, Goto, Resumed, Memory
  <2>2. CASE k # 0
    BY <1>0, <1>9, <2>2 DEF WakeUp, Goto
  <2> QED
    BY <2>1, <2>2
<1>10. ASSUME NEW k \in Ranks, WakeUpRest(k) PROVE EngineInPlace'
  <2>1. CASE k = 0 /\ conf.multi /\ conf.free
    <3>1. rank[0] = "rest" /\ rank'[0] = "gather" /\ weights' = weights
      BY <1>0, <1>10, <2>1 DEF WakeUpRest, Goto
    <3>2. engine' = [engine EXCEPT !.memory = engine.memory \cup {"kv"}, !.reload = FALSE]
      BY <1>0, <1>10, <2>1, <3>1 DEF WakeUpRest, Resumed
    <3>3. engine.memory \cup {"kv"} = Memory
      BY <1>0, <2>1, <3>1 DEF Memory
    <3>4. /\ engine'.memory = Memory /\ engine'.version = engine.version
          /\ engine'.prefixes = engine.prefixes
      BY <1>0, <3>2, <3>3
    <3> QED
      BY <1>0, <2>1, <3>1, <3>4
  <2>2. CASE k = 0 /\ ~(conf.multi /\ conf.free)
    BY <1>0, <1>10, <2>2 DEF WakeUpRest, Goto
  <2>3. CASE k # 0
    BY <1>0, <1>10, <2>3 DEF WakeUpRest, Goto
  <2> QED
    BY <2>1, <2>2, <2>3
<1>11. ASSUME NEW k \in Ranks, Sleep(k) PROVE EngineInPlace'
  BY <1>0, <1>11 DEF Sleep, Goto
<1> QED
  BY <1>1, <1>2, <1>3, <1>4, <1>5, <1>6, <1>7, <1>8, <1>9, <1>10, <1>11 DEF ShardingStep

LEMMA ShardingStepInv == ShardingInv /\ ShardingStep => ShardingInv'
  BY ShardingTypeStep, OnePhaseStep, InPlaceStep, EngineStep DEF ShardingInv

LEMMA ShardingStutterInv == ShardingInv /\ UNCHANGED shardingVars => ShardingInv'
  BY DEF ShardingInv, shardingVars, ShardingTypeOK, OnePhase, All, InPlace, EngineInPlace

\* What the invariant is for: training finds the memory freed and its own random
\* states, serving the parameters gone and the states of generation.
LEMMA HandedOver == ShardingInv => GpuHandedOver
<1> SUFFICES ASSUME ShardingInv PROVE GpuHandedOver
  OBVIOUS
<1> USE ShardingAssumption
<1>1. All("train") => /\ conf.free => engine.memory = {}
                      /\ \A k \in Ranks : stream[k] = "train"
  BY DEF ShardingInv, All, InPlace, EngineInPlace
<1>2. ASSUME rank[0] = "serve"
      PROVE  /\ conf.offload => onGpu = {}
             /\ \A k \in Ranks : stream[k] = "gen"
  <2>1. driver = "rollout"
    BY <1>2, RollingOut
  <2>2. \A k \in Ranks : rank[k] \in {"serve", "barrier"}
    BY <1>2, <2>1 DEF ShardingInv, OnePhase, RolloutPhases
  <2>3. onGpu \subseteq Ranks
    BY DEF ShardingInv, ShardingTypeOK
  <2> QED
    BY <2>2, <2>3 DEF ShardingInv, InPlace
<1> QED
  BY <1>1, <1>2 DEF GpuHandedOver

--------------------------------------------------------------------------------
(* The rollout as a whole.                                                    *)

\* A request asks the engine only while rank 0 serves.
AskedWhileServing == \A r \in Requests : req[r].at = "engine" => rank[0] = "serve"

RolloutInv == LimiterInv /\ RequestInv /\ ShardingInv /\ AskedWhileServing

--------------------------------------------------------------------------------
\* What a step of the rollout is to the bucket: one of its own.
LEMMA LimiterPart == [Next]_vars => [LimiterNext]_limiterVars
<1> SUFFICES ASSUME [Next]_vars PROVE [LimiterNext]_limiterVars
  OBVIOUS
<1>1. ASSUME NEW S, Submit(S) PROVE [LimiterNext]_limiterVars
  <2>1. Submit(S \cap Calls)
    BY <1>1 DEF Submit
  <2>2. S \cap Calls \in SUBSET Calls
    OBVIOUS
  <2> QED
    BY <2>1, <2>2 DEF LimiterNext
<1>2. ASSUME NEW r \in Requests, GatherTools(r) PROVE [LimiterNext]_limiterVars
  <2>1. {c \in CallsOf(r) : call[c] # "idle"} \in SUBSET Calls
    BY DEF CallsOf
  <2> QED
    BY <1>2, <2>1 DEF GatherTools, LimiterNext
<1>3. ASSUME NEW r \in Requests, ExecuteTools(r) PROVE [LimiterNext]_limiterVars
  BY <1>1, <1>3 DEF ExecuteTools
<1>4. ASSUME NEW r \in Requests, Task(r) \/ AskEngine(r) PROVE UNCHANGED limiterVars
  BY <1>4 DEF Task, AskEngine
<1>5. CASE Driver \/ Host \/ AllServed \/ UNCHANGED vars
  BY <1>5 DEF Driver, Host, AllServed, vars
<1>6. CASE Pool
  BY <1>6 DEF Pool, LimiterNext
<1> QED
  BY <1>2, <1>3, <1>4, <1>5, <1>6 DEF Next, Progress

\* What it is to the ranks and the engine.
LEMMA ShardingPart == [Next]_vars => ShardingStep \/ UNCHANGED shardingVars
<1> SUFFICES ASSUME [Next]_vars PROVE ShardingStep \/ UNCHANGED shardingVars
  OBVIOUS
<1>1. CASE Driver \/ Host
  BY <1>1 DEF Driver, Host, ShardingStep
<1>2. CASE AllServed
  BY <1>2 DEF AllServed, ShardingStep
<1>3. CASE Pool \/ UNCHANGED vars
  BY <1>3 DEF Pool, vars
<1>4. ASSUME NEW r \in Requests, Task(r) \/ ExecuteTools(r) \/ GatherTools(r)
      PROVE  UNCHANGED shardingVars
  BY <1>4 DEF Task, ExecuteTools, GatherTools
<1>5. ASSUME NEW r \in Requests, AskEngine(r) PROVE ShardingStep
  BY <1>5 DEF AskEngine, ShardingStep
<1> QED
  BY <1>1, <1>2, <1>3, <1>4, <1>5 DEF Next, Progress

\* What it is to the requests: rank 0 serves when one of them moves.
LEMMA RequestPart ==
    [Next]_vars => \/ UNCHANGED requestVars
                   \/ NewRequests
                   \/ rank[0] = "serve" /\ rank' = rank /\ \E r \in Requests : RequestStep(r)
<1> SUFFICES ASSUME [Next]_vars
             PROVE  \/ UNCHANGED requestVars
                    \/ NewRequests
                    \/ rank[0] = "serve" /\ rank' = rank /\ \E r \in Requests : RequestStep(r)
  OBVIOUS
<1>1. CASE Driver \/ Host \/ Pool \/ UNCHANGED vars
  BY <1>1 DEF Driver, Host, Pool, vars
<1>2. CASE AllServed
  BY <1>2 DEF AllServed, NewRequests
<1>3. ASSUME NEW r \in Requests,
             Task(r) \/ AskEngine(r) \/ ExecuteTools(r) \/ GatherTools(r)
      PROVE  rank[0] = "serve" /\ rank' = rank /\ RequestStep(r)
  <2>1. CASE Task(r)
    BY <2>1 DEF Task, RequestStep, shardingVars
  <2>2. CASE AskEngine(r)
    BY <2>2 DEF AskEngine, RequestStep, Generate
  <2>3. CASE ExecuteTools(r) \/ GatherTools(r)
    BY <2>3 DEF ExecuteTools, GatherTools, RequestStep, shardingVars
  <2> QED
    BY <1>3, <2>1, <2>2, <2>3
<1> QED
  BY <1>1, <1>2, <1>3 DEF Next, Progress

\* Nothing but the end of the last request makes rank 0 stop serving.
LEMMA ServesOn ==
    ASSUME RolloutInv, [Next]_vars, ~AllServed, rank[0] = "serve"
    PROVE  rank'[0] = "serve"
<1>1. /\ rank \in [Ranks -> RankStates] /\ 0 \in Ranks /\ driver # "idle"
  BY ShardingAssumption DEF RolloutInv, ShardingInv, ShardingTypeOK, OnePhase, All
<1>2. CASE Driver
  BY <1>1, <1>2 DEF Driver, CallRollout, CallTraining, Trained, RolloutOnly, All
<1>3. CASE Host
  <2>1. ASSUME NEW k \in Ranks, WakeUp(k) \/ WakeUpRest(k) \/ Sleep(k)
        PROVE  rank'[0] = "serve"
    <3>1. k # 0
      BY <2>1 DEF WakeUp, WakeUpRest, Sleep
    <3>2. \E s : rank' = [rank EXCEPT ![k] = s]
      BY <2>1 DEF WakeUp, WakeUpRest, Sleep, Goto
    <3> QED
      BY <1>1, <3>1, <3>2
  <2>2. ~(UpdateWeights \/ GatherPrompts \/ Broadcast)
    BY <1>1 DEF UpdateWeights, GatherPrompts, Broadcast, All
  <2> QED
    BY <1>3, <2>1, <2>2 DEF Host
<1>4. CASE Pool \/ UNCHANGED vars
  BY <1>4 DEF Pool, vars, shardingVars
<1>5. ASSUME NEW r \in Requests,
             Task(r) \/ AskEngine(r) \/ ExecuteTools(r) \/ GatherTools(r)
      PROVE  rank'[0] = "serve"
  BY <1>5 DEF Task, AskEngine, ExecuteTools, GatherTools, Generate, shardingVars
<1> QED
  BY <1>2, <1>3, <1>4, <1>5 DEF Next, Progress

LEMMA ServingStep ==
    ASSUME RolloutInv, [Next]_vars
    PROVE  AskedWhileServing'
<1>1. CASE AllServed
  BY <1>1 DEF AllServed, NewRequest, AskedWhileServing
<1>2. CASE ~AllServed /\ rank[0] = "serve"
  BY <1>2, ServesOn DEF AskedWhileServing
<1>3. CASE rank[0] # "serve"
  <2>1. UNCHANGED requestVars \/ NewRequests
    BY <1>3, RequestPart
  <2> QED
    BY <1>3, <2>1
       DEF RolloutInv, AskedWhileServing, requestVars, NewRequests, NewRequest
<1> QED
  BY <1>1, <1>2, <1>3

LEMMA RolloutInitInv == RolloutInit => RolloutInv
<1> SUFFICES ASSUME RolloutInit PROVE RolloutInv
  OBVIOUS
<1>1. AskedWhileServing
  BY DEF RolloutInit, RequestInit, NewRequest, AskedWhileServing
<1> QED
  BY <1>1, LimiterInitInv, RequestInitInv, ShardingInitInv DEF RolloutInit, RolloutInv

LEMMA RolloutNextInv == RolloutInv /\ [Next]_vars => RolloutInv'
<1> SUFFICES ASSUME RolloutInv, [Next]_vars PROVE RolloutInv'
  OBVIOUS
<1>1. LimiterInv'
  BY LimiterPart, LimiterNextInv DEF RolloutInv
<1>2. RequestInv'
  BY RequestPart, RequestStepInv, NewRequestsInv, RequestStutterInv DEF RolloutInv
<1>3. ShardingInv'
  BY ShardingPart, ShardingStepInv, ShardingStutterInv DEF RolloutInv
<1> QED
  BY <1>1, <1>2, <1>3, ServingStep DEF RolloutInv

LEMMA RolloutInvariant == Spec => []RolloutInv
  BY RolloutInitInv, RolloutNextInv, PTL DEF Spec

--------------------------------------------------------------------------------
\* To the tools' token bucket the rollout is a caller like any other: it submits
\* calls that are idle and collects calls that have returned (search_tool.py:56-97).
THEOREM RolloutUsesLimiter == Spec => LimiterSpec
<1>1. RolloutInit => LimiterInit
  BY DEF RolloutInit
<1> QED
  BY <1>1, LimiterPart, PTL DEF Spec, LimiterSpec

\* However many requests call tools at once, no more calls run than the limit the
\* bucket was made with (search_tool.py:56-66, 87-97).
THEOREM RunningCallsBounded == Spec => []RunningBounded
<1>1. RolloutInv => RunningBounded
  BY ConservedBounds DEF RolloutInv
<1> QED
  BY <1>1, RolloutInvariant, PTL

\* Every tool instance a request has made is released again, however its loop is
\* left (sglang_rollout.py:802-956, 983-990).
THEOREM InstancesReleased == Spec => []InstanceLifetime
<1>1. RolloutInv => InstanceLifetime
  BY InstancesLive DEF RolloutInv
<1> QED
  BY <1>1, RolloutInvariant, PTL

\* The lengths the engine is asked for and the reasons finalize is given are ones
\* they accept, whatever tools, interactions and the engine answer: an exception is
\* theirs, or is a call of a foreign tool, never the loop's own
\* (sglang_rollout.py:829-834, 971, schemas.py:645-651).
THEOREM LoopRaisesNothing == Spec => []LoopNeverRaises
<1>1. RolloutInv => LoopNeverRaises
  BY SoundAccepts DEF RolloutInv
<1> QED
  BY <1>1, RolloutInvariant, PTL

\* Training and serving find the memory and the random states theirs
\* (fsdp_sglang.py:140-200).
THEOREM HandOver == Spec => []GpuHandedOver
<1>1. RolloutInv => GpuHandedOver
  BY HandedOver DEF RolloutInv
<1> QED
  BY <1>1, RolloutInvariant, PTL

\* No request is answered with old weights or with prefixes computed with them
\* (fsdp_sglang.py:93-168, sglang_rollout.py:1178-1181).
THEOREM EngineStaysInSync == Spec => []EngineInSync
<1>1. RolloutInv => EngineInSync
  BY DEF RolloutInv, ShardingInv, EngineInPlace, AskedWhileServing, EngineInSync
<1> QED
  BY <1>1, RolloutInvariant, PTL
================================================================================
