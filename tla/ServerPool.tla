------------------------------- MODULE ServerPool -------------------------------
(* How a conversation gets its inference server: a heap of servers by the number *)
(* of conversations they have been given, and an LRU cache that remembers the    *)
(* server of each.  The chat scheduler and the agent loop have one each, written *)
(* twice (chat_scheduler.py:290-339, agent_loop.py:58-76).                       *)
EXTENDS Naturals, Sequences, FiniteSets

CONSTANTS
    Servers,        \* numbers, ordered as ties in the heap are broken
    CacheSizes      \* the values max_cache_size may have

ASSUME PoolAssumption ==
    /\ Servers \subseteq Nat \ {0} /\ Servers # {}
    /\ CacheSizes \subseteq Nat \ {0}

\* load is the heap; cache holds the entries, the least recently used one first.
NewPool == [load |-> [s \in Servers |-> 0], cache |-> <<>>]

\* Fault: the counter of the server is raised in place, the heap is not mended:
\* its top stays where it was.
FirstOfHeap(pool) == CHOOSE s \in Servers : \A t \in Servers : s <= t

\* The top of the heap.
Least(pool) ==
    CHOOSE s \in Servers : \A t \in Servers :
        \/ pool.load[s] < pool.load[t]
        \/ pool.load[s] = pool.load[t] /\ s <= t

\* One more conversation for the server on top, which sinks in the heap.
Charged(pool) == [pool EXCEPT !.load[Least(pool)] = @ + 1]

Knows(pool, id) == \E i \in DOMAIN pool.cache : pool.cache[i].id = id

\* Where the entry of a known id is.
PlaceOf(pool, id) == CHOOSE i \in DOMAIN pool.cache : pool.cache[i].id = id

ServerOf(pool, id) == pool.cache[PlaceOf(pool, id)].server

\* cache.pop(id), for a known id.
Forgotten(pool, id) ==
    LET k == PlaceOf(pool, id) IN
    [pool EXCEPT !.cache = SubSeq(pool.cache, 1, k - 1)
                             \o SubSeq(pool.cache, k + 1, Len(pool.cache))]

\* cache[id] = server, for a new id: a full cache drops its oldest entry first.
Stored(pool, size, id, server) ==
    [pool EXCEPT !.cache =
        Append(IF Len(pool.cache) >= size THEN Tail(pool.cache) ELSE pool.cache,
               [id |-> id, server |-> server])]

\* cache[id], for an id it holds: the entry becomes the most recently used one.
Touched(pool, size, id) == Stored(Forgotten(pool, id), size, id, ServerOf(pool, id))

--------------------------------------------------------------------------------
\* The conversations are dealt evenly, however many turns each takes and in
\* whatever order they end.
Even(pool) == \A s, t \in Servers : pool.load[s] <= pool.load[t] + 1
================================================================================
