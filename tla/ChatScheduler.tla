------------------------------ MODULE ChatScheduler ------------------------------
(* The chat completion scheduler (verl/workers/rollout/chat_scheduler.py) with    *)
(* its ToolCompletionCallback: the conversations of a batch are tasks of one      *)
(* event loop, every turn of one is a task of its own that nobody waits for, and  *)
(* generate_sequences waits for the event __done__ of each conversation.          *)
EXTENDS ServerPool

CONSTANTS
    Conversations,          \* the rows of a batch, times n
    MaxToolCalls,           \* tool calls in one message
    MaxMessages,            \* max_assistant_turns: all messages are counted
    MaxBatches              \* bound on the calls of generate_sequences

ASSUME ChatAssumption ==
    /\ IsFiniteSet(Conversations)
    /\ {MaxToolCalls, MaxMessages, MaxBatches} \subseteq Nat \ {0}

VARIABLES
    cacheSize,      \* max_cache_size
    pool,           \* weighted_addresses and request_id_to_address
    batch,          \* calls of generate_sequences begun
    conv,           \* the conversations
    strays          \* tool calls that run on though nobody waits for them

chatVars == <<cacheSize, pool, batch, conv, strays>>

\* Where a conversation is: not begun, a task of its created, a request at a
\* server, waiting for its tools, nothing left to run, or its task killed by an
\* assertion.
Points == {"new", "task", "server", "tools", "ended", "dead"}

\* msgs: messages; depth, done: __depth__ and __done__; id: the number of its
\* last request, 0 before the first; calls, failed: tools the callback waits for,
\* and whether one of them has returned an exception.
NewConversation ==
    [at |-> "new", msgs |-> 1, depth |-> 0, done |-> FALSE, id |-> 0,
     calls |-> 0, answers |-> 0, failed |-> FALSE]

ChatInit ==
    /\ cacheSize \in CacheSizes
    /\ pool = NewPool
    /\ batch = 0
    /\ conv = [c \in Conversations |-> NewConversation]
    /\ strays = 0

\* The uuid of the n-th request of a conversation.
Id(c, n) == <<batch, c, n>>

\* submit_chat_completions: the depth goes up and a task is created.
Submitted(v) == [v EXCEPT !.at = "task", !.depth = @ + 1]

\* The end of the task, behind the callback: no more ongoing requests.
Checked(v) == IF v.depth = 0 THEN [v EXCEPT !.done = TRUE] ELSE v

\* The callback has returned, or raised, without a further request.
Ended(v) == Checked([v EXCEPT !.at = "ended"])

\* generate_sequences creates a task for every conversation, and waits for all.
StartBatch ==
    /\ batch < MaxBatches
    /\ batch = 0 \/ \A c \in Conversations : conv[c].done
    /\ batch' = batch + 1
    /\ conv' = [c \in Conversations |-> Submitted(NewConversation)]
    /\ UNCHANGED <<cacheSize, pool, strays>>

\* The task of a first request: the least loaded server, under a fresh id.
SendFirst(c) ==
    /\ conv[c].at = "task" /\ conv[c].id = 0
    /\ pool' = Stored(Charged(pool), cacheSize, Id(c, 1), Least(pool))
    /\ conv' = [conv EXCEPT ![c].at = "server", ![c].id = 1]
    /\ UNCHANGED <<cacheSize, batch, strays>>

\* Fault: the entry of the last request stays in the cache.
SendKeeping(c) ==
    /\ conv[c].at = "task" /\ conv[c].id > 0
    /\ Knows(pool, Id(c, conv[c].id))
    /\ pool' = Stored(pool, cacheSize, Id(c, conv[c].id + 1), ServerOf(pool, Id(c, conv[c].id)))
    /\ conv' = [conv EXCEPT ![c].at = "server", ![c].id = @ + 1]
    /\ UNCHANGED <<cacheSize, batch, strays>>

\* The task of a later request: the server of the last one, whose entry makes
\* place for that of the new id.
SendNext(c) ==
    /\ conv[c].at = "task" /\ conv[c].id > 0
    /\ LET last == Id(c, conv[c].id) IN
       /\ Knows(pool, last)
       /\ pool' = Stored(Forgotten(pool, last), cacheSize,
                         Id(c, conv[c].id + 1), ServerOf(pool, last))
    /\ conv' = [conv EXCEPT ![c].at = "server", ![c].id = @ + 1]
    /\ UNCHANGED <<cacheSize, batch, strays>>

\* The entry has been evicted: the assertion kills the task, of which nobody
\* takes notice, and the depth stays where it is.
SendEvicted(c) ==
    /\ conv[c].at = "task" /\ conv[c].id > 0
    /\ ~Knows(pool, Id(c, conv[c].id))
    /\ conv' = [conv EXCEPT ![c].at = "dead"]
    /\ UNCHANGED <<cacheSize, pool, batch, strays>>

\* The request has failed: the exception is logged, the callback not called.
RequestFails(c) ==
    /\ conv[c].at = "server"
    /\ conv' = [conv EXCEPT ![c] = Ended([conv[c] EXCEPT !.depth = @ - 1])]
    /\ UNCHANGED <<cacheSize, pool, batch, strays>>

\* An answer without tool calls, or the last one the number of messages allows.
AnswerLast(c) ==
    /\ conv[c].at = "server"
    /\ conv' = [conv EXCEPT ![c] = Ended([conv[c] EXCEPT !.depth = @ - 1, !.msgs = @ + 1])]
    /\ UNCHANGED <<cacheSize, pool, batch, strays>>

\* Fault: the callback is started and not awaited.
AnswerCallsUnawaited(c) ==
    /\ conv[c].at = "server"
    /\ conv[c].msgs + 1 < MaxMessages
    /\ \E k \in 1 .. MaxToolCalls :
          conv' = [conv EXCEPT ![c] =
                     Checked([conv[c] EXCEPT !.depth = @ - 1, !.msgs = @ + 1, !.at = "tools",
                                             !.calls = k, !.answers = k, !.failed = FALSE])]
    /\ UNCHANGED <<cacheSize, pool, batch, strays>>

\* An answer with k tool calls: the depth is lowered before the callback, which
\* starts the tools and waits for them.
AnswerCalls(c) ==
    /\ conv[c].at = "server"
    /\ conv[c].msgs + 1 < MaxMessages
    /\ \E k \in 1 .. MaxToolCalls :
          conv' = [conv EXCEPT ![c].depth = @ - 1, ![c].msgs = @ + 1,
                               ![c].at = "tools", ![c].calls = k,
                               ![c].answers = k, ![c].failed = FALSE]
    /\ UNCHANGED <<cacheSize, pool, batch, strays>>

\* A call names no tool, or has no arguments that decode, or its tool fails to
\* be created or released: the gather passes the exception on at once, the
\* callback ends by it, and the other calls run on.
CallRaises(c) ==
    /\ conv[c].at = "tools" /\ conv[c].calls > 0
    /\ conv' = [conv EXCEPT ![c] = Ended([conv[c] EXCEPT !.calls = 0])]
    /\ strays' = strays + conv[c].calls - 1
    /\ UNCHANGED <<cacheSize, pool, batch>>

\* One of these ends, whenever that is: its answer goes nowhere.
StrayEnds ==
    /\ strays > 0
    /\ strays' = strays - 1
    /\ UNCHANGED <<cacheSize, pool, batch, conv>>

\* One of the tools has answered, or its execute has failed and the exception is
\* what it returns.
ToolEnds(c) ==
    /\ conv[c].at = "tools" /\ conv[c].calls > 0
    /\ \E bad \in BOOLEAN :
          conv' = [conv EXCEPT ![c].calls = @ - 1, ![c].failed = @ \/ bad]
    /\ UNCHANGED <<cacheSize, pool, batch, strays>>

\* The gather returns: the answers join the messages and the next request is
\* submitted, and the task ends behind it, or an exception ends the conversation.
Gathered(c) ==
    /\ conv[c].at = "tools" /\ conv[c].calls = 0
    /\ conv' = [conv EXCEPT ![c] =
                  IF conv[c].failed
                  THEN Ended(conv[c])
                  ELSE Checked(Submitted([conv[c] EXCEPT !.msgs = @ + conv[c].answers]))]
    /\ UNCHANGED <<cacheSize, pool, batch, strays>>

Step(c) ==
    \/ SendFirst(c) \/ SendNext(c) \/ SendEvicted(c)
    \/ RequestFails(c) \/ AnswerLast(c) \/ AnswerCalls(c)
    \/ CallRaises(c) \/ ToolEnds(c) \/ Gathered(c)

ChatNext == StartBatch \/ StrayEnds \/ \E c \in Conversations : Step(c)

\* The event loop runs its tasks, servers and tools answer or fail; when the
\* next batch comes is the driver's affair, and nobody counts on a stray's end.
ChatSpec ==
    /\ ChatInit /\ [][ChatNext]_chatVars
    /\ WF_chatVars(\E c \in Conversations : Step(c))

--------------------------------------------------------------------------------
ChatTypeOK ==
    /\ cacheSize \in CacheSizes
    /\ batch \in 0 .. MaxBatches
    /\ pool.load \in [Servers -> Nat]
    /\ Len(pool.cache) <= cacheSize
    /\ conv \in [Conversations ->
                   [at : Points, msgs : Nat, depth : 0 .. 1, done : BOOLEAN, id : Nat,
                    calls : 0 .. MaxToolCalls, answers : 0 .. MaxToolCalls, failed : BOOLEAN]]
    /\ strays \in Nat

\* generate_sequences gets a conversation back only when no request of it is under
\* way or will be submitted and no tool is waited for whose answer would join its
\* messages, though its depth is zero in every turn while its tools run
\* (chat_scheduler.py:356-367, "Wait until all completion requests are done").
\* What may still run are calls beside one that raised, which nobody waits for.
DoneOnlyAtEnd ==
    \A c \in Conversations :
        conv[c].done => conv[c].at = "ended" /\ conv[c].depth = 0 /\ conv[c].calls = 0

\* Whatever fails, every conversation is given back, provided the cache has room
\* for those of one batch: entries of finished ones are never removed, but those
\* of the conversations under way are more recent (chat_scheduler.py:321-367).
\* With a smaller cache a conversation whose entry is evicted is never done.
ConversationsEnd ==
    cacheSize >= Cardinality(Conversations) =>
        \A c \in Conversations : (conv[c].at # "new") ~> conv[c].done

\* The servers are dealt the conversations evenly over all batches, those left
\* by earlier batches and the turns of each notwithstanding (chat_scheduler.py:333-335).
ServersEven == Even(pool)
================================================================================
