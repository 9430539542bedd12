------------------------------ MODULE RateLimiter ------------------------------
(* The token bucket of the tools (verl/tools/search_tool.py, of which           *)
(* sandbox_fusion_tools.py holds a copy).  A tool hands its call to a pool of   *)
(* worker threads; a thread asks the bucket, one actor for the whole cluster,   *)
(* for a token, waits, does the work and gives the token back with a message    *)
(* nobody waits for.  The actor serves acquires one at a time and releases on   *)
(* threads of their own, so that a blocked acquire cannot keep a release out.   *)
EXTENDS Naturals, Sequences, FiniteSets

CONSTANTS
    Calls,          \* the callers: each has at most one call under way
    Limits,         \* the limits the tools of the program are configured with
    NumWorkers      \* threads of the execution pool

ASSUME LimiterAssumption ==
    /\ IsFiniteSet(Calls)
    /\ Limits \subseteq Nat \ {0}
    /\ NumWorkers \in Nat \ {0}

VARIABLES
    limit,          \* rate_limit: that of the tool that was built first
    permits,        \* _semaphore
    acquires,       \* calls of acquire the actor has not answered, in order
    call,           \* the state of each caller
    releases        \* releases that have been sent and not carried out

limiterVars == <<limit, permits, acquires, call, releases>>

Ended == {"returned", "failed"}
CallStates == {"idle", "submitted", "acquiring", "running"} \cup Ended

In(s) == {c \in Calls : call[c] = s}

\* The actor is a named singleton: whichever tool comes first makes it, with
\* its own limit, and the others get that one (get_if_exists).
LimiterInit ==
    /\ limit \in Limits
    /\ permits = limit
    /\ acquires = <<>>
    /\ call = [c \in Calls |-> "idle"]
    /\ releases = 0

\* execution_pool.execute.remote(...): the calls of one message are submitted
\* together.
Submit(S) ==
    /\ \A c \in S : call[c] = "idle"
    /\ call' = [c \in Calls |-> IF c \in S THEN "submitted" ELSE call[c]]
    /\ UNCHANGED <<limit, permits, acquires, releases>>

\* A thread of the pool takes a call on and asks for a token.
StartCall(c) ==
    /\ call[c] = "submitted"
    /\ Cardinality(In("acquiring") \cup In("running")) < NumWorkers
    /\ call' = [call EXCEPT ![c] = "acquiring"]
    /\ acquires' = Append(acquires, c)
    /\ UNCHANGED <<limit, permits, releases>>

\* Fault: an acquire that does not wait for a token.
GrantAtOnce(c) ==
    /\ acquires # <<>> /\ c = Head(acquires)
    /\ acquires' = Tail(acquires)
    /\ permits' = IF permits = 0 THEN 0 ELSE permits - 1
    /\ call' = [call EXCEPT ![c] = "running"]
    /\ UNCHANGED <<limit, releases>>

\* The one thread of the acquire group waits on the semaphore for the call at
\* the head, takes a token and answers it; the worker runs fn.
Grant(c) ==
    /\ acquires # <<>> /\ c = Head(acquires)
    /\ permits > 0
    /\ permits' = permits - 1
    /\ acquires' = Tail(acquires)
    /\ call' = [call EXCEPT ![c] = "running"]
    /\ UNCHANGED <<limit, releases>>

\* Fault: the release is not sent when fn raises.
FinishOrRaise(c) ==
    /\ call[c] = "running"
    /\ \E end \in Ended : /\ call' = [call EXCEPT ![c] = end]
                         /\ releases' = IF end = "failed" THEN releases ELSE releases + 1
    /\ UNCHANGED <<limit, permits, acquires>>

\* fn returns or raises (the exception is logged and None returned); either way
\* the exit stack sends the release and execute returns without waiting for it.
Finish(c) ==
    /\ call[c] = "running"
    /\ \E end \in Ended : call' = [call EXCEPT ![c] = end]
    /\ releases' = releases + 1
    /\ UNCHANGED <<limit, permits, acquires>>

\* One of the ten threads of the release group.
Release ==
    /\ releases > 0
    /\ releases' = releases - 1
    /\ permits' = permits + 1
    /\ UNCHANGED <<limit, acquires, call>>

\* The tool takes the results of its calls.
Collect(S) ==
    /\ \A c \in S : call[c] \in Ended
    /\ call' = [c \in Calls |-> IF c \in S THEN "idle" ELSE call[c]]
    /\ UNCHANGED <<limit, permits, acquires, releases>>

\* What the pool and the bucket do by themselves.
LimiterStep == Release \/ \E c \in Calls : StartCall(c) \/ Grant(c) \/ Finish(c)

\* The pool and the bucket with callers that do as they like.
LimiterNext == LimiterStep \/ \E S \in SUBSET Calls : Submit(S) \/ Collect(S)

LimiterSpec == LimiterInit /\ [][LimiterNext]_limiterVars

--------------------------------------------------------------------------------
LimiterTypeOK ==
    /\ limit \in Limits
    /\ permits \in Nat
    /\ acquires \in Seq(Calls)
    /\ call \in [Calls -> CallStates]
    /\ releases \in Nat

\* However calls, failures and late releases interleave, no more calls run at
\* once than the limit the bucket was made with: releases overtake acquires and
\* are not waited for (search_tool.py:56-66, 87-97).
RunningBounded == Cardinality(In("running")) <= limit

\* No token is lost and none is made up: a token is in the bucket, with a
\* running call, or in a release under way (search_tool.py:90-97).
TokensConserved == permits + Cardinality(In("running")) + releases = limit
================================================================================
