------------------------------ MODULE ServingProofs ------------------------------
(***************************************************************************)
(* Theorems about the two ways in which conversations get their servers,   *)
(* ChatScheduler and AgentLoop, for any servers, conversations, workers,   *)
(* cache sizes, lengths and limits of turns; first what the operations of  *)
(* the ServerPool both have do to its heap and to its cache, and last that *)
(* all of it holds of the job that has either (AsyncServing).              *)
(***************************************************************************)
EXTENDS AsyncServing, FiniteSetTheorems, SequenceTheorems,
        WellFoundedInduction, TLAPS

\* A pool whose cache holds entries of E.
Pools(E) == [load : [Servers -> Nat], cache : Seq(E)]

LEMMA HasMinimum ==
    ASSUME NEW S \in SUBSET Nat, S # {}
    PROVE  \E m \in S : \A n \in S : m <= n
<1>1. PICK m \in S : \A n \in S : ~ (<<n, m>> \in OpToRel(<, Nat))
  BY WFMin, NatLessThanWellFounded, Zenon
<1>2. \A n \in S : ~ (n < m)
  BY <1>1, Zenon DEF OpToRel
<1> QED
  BY <1>2

\* The heap has a top: the first among the servers with the fewest conversations.
LEMMA LeastExists ==
    ASSUME NEW p, p.load \in [Servers -> Nat]
    PROVE  /\ Least(p) \in Servers
           /\ \A t \in Servers : p.load[Least(p)] <= p.load[t]
<1> DEFINE loads == {p.load[s] : s \in Servers}
<1>a. loads \subseteq Nat /\ loads # {}
  <2>1. loads \subseteq Nat
    OBVIOUS
  <2>2. PICK s \in Servers : TRUE
    BY PoolAssumption
  <2>3. p.load[s] \in loads
    BY <2>2
  <2> QED
    BY <2>1, <2>3
<1>2. PICK m \in loads : \A n \in loads : m <= n
  <2> HIDE DEF loads
  <2> QED
    BY <1>a, HasMinimum
<1> DEFINE lightest == {s \in Servers : p.load[s] = m}
<1>3. lightest \subseteq Nat /\ lightest # {}
  BY <1>2, PoolAssumption
<1>4. PICK s \in lightest : \A t \in lightest : s <= t
  <2> HIDE DEF lightest
  <2> QED
    BY <1>3, HasMinimum
<1>5. \A t \in Servers : \/ p.load[s] < p.load[t]
                         \/ p.load[s] = p.load[t] /\ s <= t
  BY <1>2, <1>4
<1>6. /\ Least(p) \in Servers
      /\ \A t \in Servers : \/ p.load[Least(p)] < p.load[t]
                            \/ p.load[Least(p)] = p.load[t] /\ Least(p) <= t
  BY <1>5 DEF Least
<1> QED
  BY <1>6

\* Charging the server on top keeps the heap even.
LEMMA ChargedEven ==
    ASSUME NEW E, NEW p \in Pools(E)
    PROVE  /\ Charged(p) \in Pools(E) /\ Charged(p).cache = p.cache
           /\ Even(p) => Even(Charged(p))
<1>1. /\ p.load \in [Servers -> Nat] /\ Least(p) \in Servers
      /\ \A t \in Servers : p.load[Least(p)] <= p.load[t]
  BY LeastExists DEF Pools
<1>2. /\ Charged(p) \in Pools(E) /\ Charged(p).cache = p.cache
      /\ Charged(p).load = [p.load EXCEPT ![Least(p)] = @ + 1]
  BY <1>1 DEF Charged, Pools
<1>3. ASSUME Even(p), NEW s \in Servers, NEW t \in Servers
      PROVE  Charged(p).load[s] <= Charged(p).load[t] + 1
  <2>1. /\ p.load[s] <= p.load[t] + 1 /\ p.load[Least(p)] <= p.load[t]
        /\ p.load[s] \in Nat /\ p.load[t] \in Nat
    BY <1>1, <1>3 DEF Even
  <2>2. /\ Charged(p).load[s] = IF s = Least(p) THEN p.load[s] + 1 ELSE p.load[s]
        /\ Charged(p).load[t] = IF t = Least(p) THEN p.load[t] + 1 ELSE p.load[t]
    BY <1>1, <1>2
  <2> QED
    BY <2>1, <2>2
<1> QED
  BY <1>2, <1>3 DEF Even

\* t is the cache s without its k-th entry.
Without(E, t, s, k) ==
    /\ t \in Seq(E) /\ Len(t) = Len(s) - 1
    /\ \A i \in 1 .. Len(t) : t[i] = IF i < k THEN s[i] ELSE s[i + 1]

LEMMA ForgottenIs ==
    ASSUME NEW E, NEW p \in Pools(E), NEW id, Knows(p, id)
    PROVE  /\ PlaceOf(p, id) \in 1 .. Len(p.cache)
           /\ p.cache[PlaceOf(p, id)].id = id
           /\ Forgotten(p, id).load = p.load
           /\ Forgotten(p, id) \in Pools(E)
           /\ Without(E, Forgotten(p, id).cache, p.cache, PlaceOf(p, id))
<1> DEFINE k == PlaceOf(p, id)
           s == p.cache
           a == SubSeq(s, 1, k - 1)
           b == SubSeq(s, k + 1, Len(s))
<1>1. k \in DOMAIN p.cache /\ p.cache[k].id = id
  BY DEF PlaceOf, Knows
<1>2. s \in Seq(E) /\ k \in 1 .. Len(s) /\ Len(s) \in Nat
      /\ \A i \in 1 .. Len(s) : s[i] \in E
  BY <1>1, LenProperties DEF Pools
<1>3. Forgotten(p, id) = [p EXCEPT !.cache = a \o b]
  BY DEF Forgotten
<1> HIDE DEF k, s
<1>4. a \in Seq(E) /\ Len(a) = k - 1 /\ \A i \in 1 .. k - 1 : a[i] = s[i]
  <2>1. \A i \in 1 .. k - 1 : s[i] \in E
    BY <1>2
  <2>2. 1 \in Int /\ k - 1 \in Int
    BY <1>2
  <2> QED
    BY <1>2, <2>1, <2>2, SubSeqProperties
<1>5. b \in Seq(E) /\ Len(b) = Len(s) - k
      /\ \A i \in 1 .. Len(s) - k : b[i] = s[k + i]
  <2>1. \A i \in k + 1 .. Len(s) : s[i] \in E
    BY <1>2
  <2>2. k + 1 \in Int /\ Len(s) \in Int
    BY <1>2
  <2> QED
    BY <1>2, <2>1, <2>2, SubSeqProperties
<1> HIDE DEF a, b
<1>6. /\ a \o b \in Seq(E) /\ Len(a \o b) = Len(a) + Len(b)
      /\ \A i \in 1 .. Len(a) + Len(b) :
            (a \o b)[i] = IF i <= Len(a) THEN a[i] ELSE b[i - Len(a)]
  BY <1>4, <1>5, ConcatProperties
<1>7. Without(E, a \o b, s, k)
  BY <1>2, <1>4, <1>5, <1>6, SMTT(60) DEF Without
<1>8. p \in Pools(E)
  OBVIOUS
<1>9. Forgotten(p, id) \in Pools(E) /\ Forgotten(p, id).load = p.load
      /\ Forgotten(p, id).cache = a \o b
  BY <1>3, <1>6, <1>8 DEF Pools
<1> QED
  BY <1>1, <1>2, <1>7, <1>9 DEF k, s

LEMMA TailIs ==
    ASSUME NEW E, NEW s \in Seq(E), s # <<>>
    PROVE  Without(E, Tail(s), s, 1)
<1>1. /\ Tail(s) \in Seq(E) /\ Len(Tail(s)) = Len(s) - 1
      /\ \A i \in 1 .. Len(Tail(s)) : Tail(s)[i] = s[i + 1]
  BY HeadTailProperties
<1> QED
  BY <1>1, LenProperties DEF Without

\* A new entry never takes the cache beyond its size.
LEMMA StoredIs ==
    ASSUME NEW E, NEW p \in Pools(E), NEW size \in Nat \ {0}, Len(p.cache) <= size,
           NEW id, NEW home, [id |-> id, server |-> home] \in E
    PROVE  /\ Stored(p, size, id, home) \in Pools(E)
           /\ Stored(p, size, id, home).load = p.load
           /\ Len(Stored(p, size, id, home).cache) <= size
<1> DEFINE e == [id |-> id, server |-> home]
           s == p.cache
           t == IF Len(s) >= size THEN Tail(s) ELSE s
<1>1. s \in Seq(E) /\ Len(s) \in Nat /\ Len(s) <= size /\ e \in E
  BY DEF Pools
<1>2. Stored(p, size, id, home) = [p EXCEPT !.cache = Append(t, e)]
  BY DEF Stored
<1> HIDE DEF e, s
<1>3. t \in Seq(E) /\ Len(t) < size /\ Len(t) \in Nat
  <2>1. CASE Len(s) >= size
    <3>1. s # <<>>
      BY <1>1, <2>1
    <3>2. Tail(s) \in Seq(E) /\ Len(Tail(s)) = Len(s) - 1
      BY <1>1, <3>1, HeadTailProperties
    <3> QED
      BY <1>1, <2>1, <3>2
  <2>2. CASE ~ (Len(s) >= size)
    BY <1>1, <2>2
  <2> QED
    BY <2>1, <2>2
<1> HIDE DEF t
<1>4. Append(t, e) \in Seq(E) /\ Len(Append(t, e)) = Len(t) + 1
  BY <1>1, <1>3, AppendProperties
<1>5. [p EXCEPT !.cache = Append(t, e)] \in Pools(E)
      /\ [p EXCEPT !.cache = Append(t, e)].load = p.load
      /\ [p EXCEPT !.cache = Append(t, e)].cache = Append(t, e)
  BY <1>4 DEF Pools
<1> QED
  BY <1>2, <1>3, <1>4, <1>5

--------------------------------------------------------------------------------
(* The chat scheduler.                                                        *)

ChatEntries == [id : Nat \X Conversations \X Nat, server : Servers]

ChatRecords == [at : Points, msgs : Nat, depth : 0 .. 1, done : BOOLEAN, id : Nat,
            calls : 0 .. MaxToolCalls, answers : 0 .. MaxToolCalls, failed : BOOLEAN]

\* What the place of a conversation says of its depth: one request is under way,
\* or its task was killed before it was counted off, or none is; it is done only at
\* its end, and tools are waited for at their place only.
SoundConversation(v) ==
    /\ v.depth = IF v.at \in {"task", "server", "dead"} THEN 1 ELSE 0
    /\ v.done => v.at = "ended"
    /\ v.at # "tools" => v.calls = 0

ChatTypeInv == ChatTypeOK /\ pool \in Pools(ChatEntries) /\ conv \in [Conversations -> ChatRecords]

ChatInv == ChatTypeInv /\ (\A c \in Conversations : SoundConversation(conv[c])) /\ ServersEven

LEMMA ChatNumbers ==
    /\ MaxToolCalls \in Nat \ {0} /\ MaxMessages \in Nat \ {0} /\ MaxBatches \in Nat \ {0}
    /\ CacheSizes \subseteq Nat \ {0}
  BY ChatAssumption, PoolAssumption

--------------------------------------------------------------------------------
(* What the steps of a conversation make of its record.                         *)

LEMMA SubmittedSound ==
    ASSUME NEW v \in ChatRecords, v.depth = 0, v.calls = 0, ~ v.done
    PROVE  /\ Submitted(v) \in ChatRecords /\ SoundConversation(Submitted(v))
           /\ Checked(Submitted(v)) = Submitted(v)
<1> DEFINE w == [v EXCEPT !.at = "task", !.depth = 1]
<1>0. "task" \in Points /\ 1 \in 0 .. 1
  BY DEF Points
<1>1. w \in ChatRecords /\ w.depth = 1 /\ w.at = "task" /\ w.calls = 0 /\ ~ w.done
  <2>1. w \in ChatRecords
    BY <1>0 DEF ChatRecords
  <2>2. w.depth = 1 /\ w.at = "task" /\ w.calls = 0
    BY DEF ChatRecords
  <2>3. w.done = v.done
    BY Zenon DEF ChatRecords
  <2> QED
    BY <2>1, <2>2, <2>3
<1>2. Submitted(v) = w
  BY DEF Submitted, ChatRecords
<1> QED
  BY <1>1, <1>2 DEF SoundConversation, Checked

LEMMA EndedSound ==
    ASSUME NEW v \in ChatRecords, v.depth = 0, v.calls = 0
    PROVE  Ended(v) \in ChatRecords /\ SoundConversation(Ended(v))
<1> DEFINE e == [v EXCEPT !.at = "ended"]
           d == [e EXCEPT !.done = TRUE]
<1>1. e \in ChatRecords /\ e.depth = 0
  BY DEF ChatRecords, Points
<1>2. d \in ChatRecords /\ d.depth = 0 /\ d.at = "ended" /\ d.calls = 0
  BY DEF ChatRecords, Points
<1>3. Ended(v) = d
  BY <1>1 DEF Ended, Checked
<1> QED
  BY <1>2, <1>3 DEF SoundConversation

LEMMA NewSound == NewConversation \in ChatRecords /\ SoundConversation(NewConversation)
  BY ChatNumbers DEF NewConversation, ChatRecords, Points, SoundConversation

\* Replacing the record of one conversation by a sound one.
LEMMA OneSound ==
    ASSUME ChatTypeInv, \A x \in Conversations : SoundConversation(conv[x]),
           NEW c \in Conversations, NEW v \in ChatRecords, SoundConversation(v),
           conv' = [conv EXCEPT ![c] = v]
    PROVE  /\ conv' \in [Conversations -> ChatRecords]
           /\ \A x \in Conversations : SoundConversation(conv'[x])
  BY DEF ChatTypeInv

LEMMA StepSound ==
    ASSUME ChatTypeInv, \A x \in Conversations : SoundConversation(conv[x]), NEW c \in Conversations, Step(c)
    PROVE  \E v \in ChatRecords : SoundConversation(v) /\ conv' = [conv EXCEPT ![c] = v]
<1> DEFINE u == conv[c]
<1>u. u \in ChatRecords /\ SoundConversation(u) /\ conv \in [Conversations -> ChatRecords]
  BY DEF ChatTypeInv
<1>1. CASE SendFirst(c)
  <2> DEFINE v == [u EXCEPT !.at = "server", !.id = 1]
  <2>1. v \in ChatRecords /\ SoundConversation(v)
    BY <1>1, <1>u DEF SendFirst, ChatRecords, Points, SoundConversation
  <2>2. conv' = [conv EXCEPT ![c] = v]
    BY <1>1, <1>u DEF SendFirst
  <2> QED
    BY <2>1, <2>2
<1>2. CASE SendNext(c)
  <2> DEFINE v == [u EXCEPT !.at = "server", !.id = @ + 1]
  <2>1. v \in ChatRecords /\ SoundConversation(v)
    BY <1>2, <1>u DEF SendNext, ChatRecords, Points, SoundConversation
  <2>2. conv' = [conv EXCEPT ![c] = v]
    BY <1>2, <1>u DEF SendNext
  <2> QED
    BY <2>1, <2>2
<1>3. CASE SendEvicted(c)
  <2> DEFINE v == [u EXCEPT !.at = "dead"]
  <2>1. v \in ChatRecords /\ SoundConversation(v)
    BY <1>3, <1>u DEF SendEvicted, ChatRecords, Points, SoundConversation
  <2>2. conv' = [conv EXCEPT ![c] = v]
    BY <1>3, <1>u DEF SendEvicted
  <2> QED
    BY <2>1, <2>2
<1>4. CASE RequestFails(c)
  <2> DEFINE v == [u EXCEPT !.depth = @ - 1]
  <2>1. v \in ChatRecords /\ v.depth = 0 /\ v.calls = 0
    BY <1>4, <1>u DEF RequestFails, ChatRecords, SoundConversation
  <2>2. Ended(v) \in ChatRecords /\ SoundConversation(Ended(v))
    BY <2>1, EndedSound
  <2> QED
    BY <1>4, <2>2 DEF RequestFails
<1>5. CASE AnswerLast(c)
  <2> DEFINE v == [u EXCEPT !.depth = @ - 1, !.msgs = @ + 1]
  <2>1. u.at = "server" /\ u.depth = 1 /\ u.msgs + 1 \in Nat /\ u.calls = 0
    BY <1>5, <1>u DEF AnswerLast, ChatRecords, SoundConversation
  <2>3. v \in ChatRecords /\ v.depth = 0 /\ v.calls = 0
    <3>1. u.depth - 1 \in 0 .. 1 /\ u.depth - 1 = 0
      BY <2>1
    <3>2. v \in ChatRecords
      BY <1>u, <2>1, <3>1 DEF ChatRecords
    <3>3. v.depth = u.depth - 1 /\ v.calls = u.calls
      BY <1>u DEF ChatRecords
    <3> QED
      BY <2>1, <3>1, <3>2, <3>3
  <2>2. Ended(v) \in ChatRecords /\ SoundConversation(Ended(v))
    BY <2>3, EndedSound
  <2> QED
    BY <1>5, <2>2 DEF AnswerLast
<1>6. CASE AnswerCalls(c)
  <2> PICK k \in 1 .. MaxToolCalls :
         conv' = [conv EXCEPT ![c].depth = @ - 1, ![c].msgs = @ + 1, ![c].at = "tools",
                              ![c].calls = k, ![c].answers = k, ![c].failed = FALSE]
    BY <1>6 DEF AnswerCalls
  <2> DEFINE v == [u EXCEPT !.depth = @ - 1, !.msgs = @ + 1, !.at = "tools",
                            !.calls = k, !.answers = k, !.failed = FALSE]
  <2>1. u.at = "server" /\ u.depth = 1 /\ ~ u.done /\ k \in 0 .. MaxToolCalls
    BY <1>6, <1>u, ChatNumbers DEF AnswerCalls, SoundConversation
  <2>2. v \in ChatRecords /\ SoundConversation(v)
    BY <1>u, <2>1 DEF ChatRecords, Points, SoundConversation
  <2>3. conv' = [conv EXCEPT ![c] = v]
    BY <1>u
  <2> QED
    BY <2>2, <2>3
<1>7. CASE ToolEnds(c)
  <2> PICK bad \in BOOLEAN :
         conv' = [conv EXCEPT ![c].calls = @ - 1, ![c].failed = @ \/ bad]
    BY <1>7 DEF ToolEnds
  <2> DEFINE f == u.failed \/ bad
             v == [u EXCEPT !.calls = @ - 1, !.failed = f]
  <2>2. conv' = [conv EXCEPT ![c] = v]
    BY <1>u
  <2>3. f \in BOOLEAN
    BY Zenon
  <2>4. u.calls - 1 \in 0 .. MaxToolCalls
    BY <1>7, <1>u, ChatNumbers DEF ToolEnds, ChatRecords
  <2> HIDE DEF f
  <2>1. v \in ChatRecords /\ SoundConversation(v)
    BY <1>7, <1>u, <2>3, <2>4 DEF ToolEnds, ChatRecords, Points, SoundConversation
  <2> QED
    BY <2>1, <2>2
<1>8. CASE Gathered(c)
  <2>1. u.depth = 0 /\ u.calls = 0 /\ ~ u.done
    BY <1>8, <1>u DEF Gathered, SoundConversation
  <2>2. CASE u.failed
    BY <1>8, <1>u, <2>1, <2>2, EndedSound DEF Gathered
  <2>3. CASE ~ u.failed
    <3> DEFINE w == [u EXCEPT !.msgs = @ + u.answers]
    <3>1. w \in ChatRecords /\ w.depth = 0 /\ w.calls = 0 /\ ~ w.done
      BY <1>u, <2>1 DEF ChatRecords
    <3>2. Checked(Submitted(w)) \in ChatRecords /\ SoundConversation(Checked(Submitted(w)))
      <4> HIDE DEF w
      <4> QED
        BY <3>1, SubmittedSound
    <3>3. conv' = [conv EXCEPT ![c] = Checked(Submitted(w))]
      BY <1>8, <2>3 DEF Gathered
    <3> QED
      BY <3>2, <3>3
  <2> QED
    BY <2>2, <2>3
<1>9. CASE CallRaises(c)
  <2> DEFINE v == [u EXCEPT !.calls = 0]
  <2>1. u.depth = 0 /\ 0 \in 0 .. MaxToolCalls
    BY <1>9, <1>u, ChatNumbers DEF CallRaises, SoundConversation
  <2>2. v \in ChatRecords /\ v.depth = 0 /\ v.calls = 0
    BY <1>u, <2>1 DEF ChatRecords
  <2>3. Ended(v) \in ChatRecords /\ SoundConversation(Ended(v))
    BY <2>2, EndedSound
  <2> QED
    BY <1>9, <2>3 DEF CallRaises
<1> QED
  BY <1>1, <1>2, <1>3, <1>4, <1>5, <1>6, <1>7, <1>8, <1>9 DEF Step

--------------------------------------------------------------------------------
(* What they make of the pool.                                                  *)

LEMMA PoolStep ==
    ASSUME ChatTypeInv, ServersEven, NEW c \in Conversations, Step(c)
    PROVE  /\ pool' \in Pools(ChatEntries) /\ Len(pool'.cache) <= cacheSize
           /\ ServersEven'
<1>p. /\ pool \in Pools(ChatEntries) /\ Len(pool.cache) <= cacheSize /\ Even(pool)
      /\ cacheSize \in Nat \ {0} /\ batch \in Nat /\ conv[c].id \in Nat
  BY ChatNumbers DEF ChatTypeInv, ChatTypeOK, ServersEven, ChatRecords
<1>1. CASE SendFirst(c)
  <2> DEFINE q == Charged(pool)
             s == Least(pool)
  <2>1. q \in Pools(ChatEntries) /\ q.cache = pool.cache /\ Even(q)
    BY <1>p, ChargedEven
  <2>2. s \in Servers
    BY <1>p, LeastExists DEF Pools
  <2>3. [id |-> Id(c, 1), server |-> s] \in ChatEntries
    BY <1>p, <2>2 DEF Id, ChatEntries
  <2>4. pool' = Stored(q, cacheSize, Id(c, 1), s)
    BY <1>1 DEF SendFirst
  <2> HIDE DEF q, s
  <2>5. /\ pool' \in Pools(ChatEntries) /\ pool'.load = q.load /\ Len(pool'.cache) <= cacheSize
    BY <1>p, <2>1, <2>3, <2>4, StoredIs
  <2> QED
    BY <2>1, <2>5 DEF ServersEven, Even
<1>2. CASE SendNext(c)
  <2> DEFINE last == Id(c, conv[c].id)
             q == Forgotten(pool, last)
             k == PlaceOf(pool, last)
             s == ServerOf(pool, last)
  <2>1. Knows(pool, last) /\ pool' = Stored(q, cacheSize, Id(c, conv[c].id + 1), s)
    BY <1>2 DEF SendNext
  <2>2. /\ k \in 1 .. Len(pool.cache) /\ q.load = pool.load
        /\ q \in Pools(ChatEntries) /\ Without(ChatEntries, q.cache, pool.cache, k)
    BY <1>p, <2>1, ForgottenIs
  <2>3. pool.cache \in Seq(ChatEntries)
    BY <1>p DEF Pools
  <2>4. s \in Servers
    <3>1. pool.cache[k] \in ChatEntries
      BY <2>2, <2>3
    <3> QED
      BY <3>1 DEF ServerOf, ChatEntries
  <2>5. Len(q.cache) <= cacheSize
    <3>1. Len(q.cache) = Len(pool.cache) - 1 /\ Len(pool.cache) \in Nat
      BY <2>2, <2>3 DEF Without
    <3> QED
      BY <1>p, <3>1
  <2>6. [id |-> Id(c, conv[c].id + 1), server |-> s] \in ChatEntries
    BY <1>p, <2>4 DEF Id, ChatEntries
  <2> HIDE DEF q, s, k, last
  <2>7. /\ pool' \in Pools(ChatEntries) /\ pool'.load = q.load /\ Len(pool'.cache) <= cacheSize
    BY <1>p, <2>1, <2>2, <2>5, <2>6, StoredIs
  <2> QED
    BY <1>p, <2>2, <2>7 DEF ServersEven, Even
<1>3. CASE SendEvicted(c) \/ RequestFails(c) \/ AnswerLast(c) \/ AnswerCalls(c)
           \/ CallRaises(c) \/ ToolEnds(c) \/ Gathered(c)
  <2>1. pool' = pool
    BY <1>3 DEF SendEvicted, RequestFails, AnswerLast, AnswerCalls, CallRaises, ToolEnds,
       Gathered
  <2> QED
    BY <1>p, <2>1 DEF ServersEven
<1> QED
  BY <1>1, <1>2, <1>3 DEF Step

--------------------------------------------------------------------------------
LEMMA ChatInitInv == ChatInit => ChatInv
<1> SUFFICES ASSUME ChatInit PROVE ChatInv
  OBVIOUS
<1>1. pool.load = [s \in Servers |-> 0] /\ pool.cache = <<>> /\ pool \in Pools(ChatEntries)
  <2>1. <<>> \in Seq(ChatEntries)
    OBVIOUS
  <2> QED
    BY <2>1 DEF ChatInit, NewPool, Pools
<1>2. conv \in [Conversations -> ChatRecords] /\ \A c \in Conversations : SoundConversation(conv[c])
  BY NewSound DEF ChatInit
<1>3. cacheSize \in CacheSizes /\ batch \in 0 .. MaxBatches /\ Len(pool.cache) <= cacheSize
      /\ pool.load \in [Servers -> Nat] /\ strays \in Nat
  BY <1>1, ChatNumbers DEF ChatInit
<1>4. ServersEven
  BY <1>1 DEF ServersEven, Even
<1> QED
  BY <1>1, <1>2, <1>3, <1>4 DEF ChatInv, ChatTypeInv, ChatTypeOK, ChatRecords

LEMMA ChatStepInv == ChatInv /\ [ChatNext]_chatVars => ChatInv'
<1> SUFFICES ASSUME ChatInv, [ChatNext]_chatVars PROVE ChatInv'
  OBVIOUS
<1>i. ChatTypeInv /\ ServersEven /\ (\A c \in Conversations : SoundConversation(conv[c]))
  BY DEF ChatInv
<1>1. CASE StartBatch
  <2>1. NewConversation.depth = 0 /\ NewConversation.calls = 0 /\ ~ NewConversation.done
    BY DEF NewConversation
  <2>2. Submitted(NewConversation) \in ChatRecords /\ SoundConversation(Submitted(NewConversation))
    BY <2>1, NewSound, SubmittedSound
  <2>3. /\ conv' \in [Conversations -> ChatRecords] /\ \A c \in Conversations : SoundConversation(conv'[c])
        /\ cacheSize' = cacheSize /\ pool' = pool /\ batch' \in 0 .. MaxBatches
        /\ strays' = strays
    BY <1>1, <1>i, <2>2, ChatNumbers DEF StartBatch, ChatTypeInv, ChatTypeOK
  <2> QED
    BY <1>i, <2>3 DEF ChatInv, ChatTypeInv, ChatTypeOK, ServersEven, ChatRecords
<1>2. ASSUME NEW c \in Conversations, Step(c) PROVE ChatInv'
  <2>1. PICK v \in ChatRecords : SoundConversation(v) /\ conv' = [conv EXCEPT ![c] = v]
    BY <1>i, <1>2, StepSound
  <2>2. conv' \in [Conversations -> ChatRecords] /\ \A x \in Conversations : SoundConversation(conv'[x])
    BY <1>i, <2>1, OneSound
  <2>3. /\ pool' \in Pools(ChatEntries) /\ Len(pool'.cache) <= cacheSize /\ ServersEven'
    BY <1>i, <1>2, PoolStep
  <2>4. cacheSize' = cacheSize /\ batch' = batch
    BY <1>2 DEF Step, SendFirst, SendNext, SendEvicted, RequestFails, AnswerLast,
       AnswerCalls, CallRaises, ToolEnds, Gathered
  <2>6. strays' \in Nat
    <3>1. strays \in Nat /\ conv[c].calls \in Nat
      BY <1>i, ChatNumbers DEF ChatTypeInv, ChatTypeOK, ChatRecords
    <3>2. strays' = strays \/ CallRaises(c)
      BY <1>2 DEF Step, SendFirst, SendNext, SendEvicted, RequestFails, AnswerLast,
         AnswerCalls, ToolEnds, Gathered
    <3> QED
      BY <3>1, <3>2 DEF CallRaises
  <2>5. pool'.load \in [Servers -> Nat]
    BY <2>3 DEF Pools
  <2> QED
    BY <1>i, <2>2, <2>3, <2>4, <2>5, <2>6 DEF ChatInv, ChatTypeInv, ChatTypeOK, ChatRecords
<1>3. CASE UNCHANGED chatVars
  BY <1>i, <1>3 DEF chatVars, ChatInv, ChatTypeInv, ChatTypeOK, ServersEven, ChatRecords
<1>4. CASE StrayEnds
  BY <1>i, <1>4 DEF StrayEnds, ChatInv, ChatTypeInv, ChatTypeOK, ServersEven, ChatRecords
<1> QED
  BY <1>1, <1>2, <1>3, <1>4 DEF ChatNext

LEMMA ChatInvariant == ChatSpec => []ChatInv
  BY ChatInitInv, ChatStepInv, PTL DEF ChatSpec

\* The scheduler keeps to its types: one request of a conversation at most is under
\* way at a time, and the cache to its size (chat_scheduler.py:315-367).
THEOREM TypeCorrect == ChatSpec => []ChatTypeOK
  BY ChatInvariant, PTL DEF ChatInv, ChatTypeInv

\* However many turns and tool calls a conversation has, and whichever of them
\* fail, __done__ is set only when no request of it is under way or to come and no
\* tool is waited for: the depth is back at zero in every turn, but is looked at
\* only behind the callback, which leaves at most strays
\* (chat_scheduler.py:124-143, 341-367).
THEOREM GivenBackAtEnd == ChatSpec => []DoneOnlyAtEnd
<1>1. ChatInv => DoneOnlyAtEnd
  BY DEF ChatInv, SoundConversation, DoneOnlyAtEnd
<1> QED
  BY <1>1, ChatInvariant, PTL

\* For any servers no server is ever given two conversations more than another,
\* over all batches, though the heap is charged once for a conversation and never
\* relieved (chat_scheduler.py:333-335).
THEOREM DealtEvenly == ChatSpec => []ServersEven
  BY ChatInvariant, PTL DEF ChatInv

--------------------------------------------------------------------------------
(* The agent loop.                                                            *)

LEMMA AgentNumbers ==
    /\ PromptLength \in Nat \ {0} /\ ResponseLength \in Nat \ {0}
    /\ ModelLens \subseteq Nat /\ ReplyLens \subseteq Nat /\ CacheSizes \subseteq Nat \ {0}
    /\ Servers \subseteq Nat \ {0} /\ Servers # {}
    /\ WorkerOf \in [Rows -> Workers]
  BY AgentAssumption, PoolAssumption

--------------------------------------------------------------------------------
(* The server pool.                                                             *)

RowEntries == [id : Nat \X Rows, server : Servers]

--------------------------------------------------------------------------------
(* The cache of a worker, in call c with room for size conversations: every     *)
(* entry is of a row of the worker and of this call or an earlier one, and      *)
(* those of this call come behind the others.                                   *)

CacheOK(s, w, c, size) ==
    /\ Len(s) <= size
    /\ \A i, j \in 1 .. Len(s) : s[i].id = s[j].id => i = j
    /\ \A i \in 1 .. Len(s) : s[i].id[1] <= c /\ WorkerOf[s[i].id[2]] = w
    /\ \A i, j \in 1 .. Len(s) : i < j /\ s[i].id[1] = c => s[j].id[1] = c

Entry(c, r, h) == [id |-> <<c, r>>, server |-> h]
Holds(s, e) == \E i \in 1 .. Len(s) : s[i] = e

\* Dropping an entry keeps the order and the other entries.
LEMMA WithoutOK ==
    ASSUME NEW s \in Seq(RowEntries), NEW t, NEW k \in 1 .. Len(s), Without(RowEntries, t, s, k),
           NEW w, NEW c, NEW size \in Nat, CacheOK(s, w, c, size)
    PROVE  /\ CacheOK(t, w, c, size) /\ Len(t) < size
           /\ \A i \in 1 .. Len(t) : t[i].id # s[k].id
           /\ \A e : Holds(s, e) /\ e # s[k] => Holds(t, e)
<1>1. /\ Len(s) \in Nat /\ Len(t) = Len(s) - 1 /\ Len(t) \in Nat
      /\ \A i \in 1 .. Len(t) : t[i] = IF i < k THEN s[i] ELSE s[i + 1]
  BY LenProperties DEF Without
<1> DEFINE from(i) == IF i < k THEN i ELSE i + 1
<1>2. \A i \in 1 .. Len(t) : /\ from(i) \in 1 .. Len(s) /\ from(i) # k
                             /\ t[i] = s[from(i)]
  BY <1>1
<1>3. \A i, j \in 1 .. Len(t) : /\ from(i) = from(j) => i = j
                                /\ i < j => from(i) < from(j)
  BY <1>1
<1>4. ASSUME NEW e, Holds(s, e), e # s[k]
      PROVE  Holds(t, e)
  <2>1. PICK i \in 1 .. Len(s) : s[i] = e
    BY <1>4 DEF Holds
  <2>2. CASE i < k
    BY <1>1, <2>1, <2>2 DEF Holds
  <2>3. CASE i > k
    <3>1. i - 1 \in 1 .. Len(t) /\ t[i - 1] = s[i]
      BY <1>1, <2>1, <2>3
    <3> QED
      BY <2>1, <3>1 DEF Holds
  <2> QED
    BY <1>4, <2>1, <2>2, <2>3
<1> HIDE DEF from
<1>5. CacheOK(t, w, c, size)
  <2>1. Len(t) <= size
    BY <1>1 DEF CacheOK
  <2>2. ASSUME NEW i \in 1 .. Len(t), NEW j \in 1 .. Len(t)
        PROVE  /\ t[i].id = t[j].id => i = j
               /\ t[i].id[1] <= c /\ WorkerOf[t[i].id[2]] = w
               /\ i < j /\ t[i].id[1] = c => t[j].id[1] = c
    <3>1. /\ from(i) \in 1 .. Len(s) /\ t[i] = s[from(i)]
          /\ from(j) \in 1 .. Len(s) /\ t[j] = s[from(j)]
          /\ from(i) = from(j) => i = j
          /\ i < j => from(i) < from(j)
      BY <1>2, <1>3
    <3> QED
      BY <3>1 DEF CacheOK
  <2> QED
    BY <2>1, <2>2 DEF CacheOK
<1>6. \A i \in 1 .. Len(t) : t[i].id # s[k].id
  BY <1>2 DEF CacheOK
<1> QED
  BY <1>1, <1>4, <1>5, <1>6 DEF CacheOK

\* A new entry of this call goes behind all others.
LEMMA AppendOK ==
    ASSUME NEW s \in Seq(RowEntries), NEW w, NEW c \in Nat, NEW size \in Nat,
           CacheOK(s, w, c, size), Len(s) < size,
           NEW r \in Rows, WorkerOf[r] = w, NEW h \in Servers,
           \A i \in 1 .. Len(s) : s[i].id # <<c, r>>
    PROVE  /\ Append(s, Entry(c, r, h)) \in Seq(RowEntries)
           /\ CacheOK(Append(s, Entry(c, r, h)), w, c, size)
           /\ Holds(Append(s, Entry(c, r, h)), Entry(c, r, h))
           /\ \A e : Holds(s, e) => Holds(Append(s, Entry(c, r, h)), e)
<1> DEFINE e == Entry(c, r, h)
           t == Append(s, e)
<1>1. e \in RowEntries /\ e.id = <<c, r>>
  BY DEF Entry, RowEntries
<1>2. e.id[1] = c /\ e.id[2] = r
  BY <1>1
<1> HIDE DEF e
<1>3. /\ t \in Seq(RowEntries) /\ Len(t) = Len(s) + 1 /\ Len(s) \in Nat
      /\ \A i \in 1 .. Len(s) : t[i] = s[i]
      /\ t[Len(s) + 1] = e
  BY <1>1, AppendProperties, LenProperties
<1> HIDE DEF t
<1>4. CacheOK(t, w, c, size)
  BY <1>1, <1>2, <1>3, SMTT(60) DEF CacheOK
<1>5. Holds(t, e) /\ \A d : Holds(s, d) => Holds(t, d)
  BY <1>3 DEF Holds
<1> QED
  BY <1>3, <1>4, <1>5 DEF t, e

\* A full cache whose worker has no more rows than it has room, one of them not
\* in it, begins with an entry of an earlier call.
LEMMA OldestIsOld ==
    ASSUME NEW s \in Seq(RowEntries), NEW w, NEW c \in Nat, NEW size \in Nat \ {0},
           CacheOK(s, w, c, size), Len(s) >= size,
           size >= Cardinality({q \in Rows : WorkerOf[q] = w}),
           NEW r \in Rows, WorkerOf[r] = w,
           \A i \in 1 .. Len(s) : s[i].id # <<c, r>>
    PROVE  s[1].id[1] # c
<1> SUFFICES ASSUME s[1].id[1] = c PROVE FALSE
  OBVIOUS
<1> DEFINE mine == {q \in Rows : WorkerOf[q] = w}
           others == mine \ {r}
           f == [i \in 1 .. Len(s) |-> s[i].id[2]]
<1>1. Len(s) \in Nat /\ 1 \in 1 .. Len(s) /\ \A i \in 1 .. Len(s) : s[i] \in RowEntries
  BY LenProperties
<1>2. \A i \in 1 .. Len(s) : s[i].id[1] = c
  BY <1>1 DEF CacheOK
<1>3. \A i \in 1 .. Len(s) : s[i].id = <<c, f[i]>> /\ f[i] \in others
  <2> SUFFICES ASSUME NEW i \in 1 .. Len(s) PROVE s[i].id = <<c, f[i]>> /\ f[i] \in others
    OBVIOUS
  <2>1. s[i].id \in Nat \X Rows /\ f[i] = s[i].id[2]
    BY <1>1 DEF RowEntries
  <2>2. s[i].id = <<c, f[i]>> /\ f[i] \in Rows
    BY <2>1, <1>2
  <2>3. WorkerOf[f[i]] = w
    BY <2>1 DEF CacheOK
  <2>4. f[i] # r
    BY <2>2
  <2> QED
    BY <2>2, <2>3, <2>4
<1>4. f \in Injection(1 .. Len(s), others)
  <2>1. f \in [1 .. Len(s) -> others]
    BY <1>3
  <2>2. \A i, j \in 1 .. Len(s) : f[i] = f[j] => i = j
    BY <1>3 DEF CacheOK
  <2> HIDE DEF f, others
  <2> QED
    BY <2>1, <2>2 DEF Injection, IsInjective
<1>5. IsFiniteSet(mine) /\ r \in mine
  BY AgentAssumption, FS_Subset
<1> HIDE DEF mine, f
<1>6. IsFiniteSet(others) /\ Cardinality(others) = Cardinality(mine) - 1
  BY <1>5, FS_RemoveElement
<1>7. Cardinality(1 .. Len(s)) <= Cardinality(others)
  BY <1>4, <1>6, FS_Injection
<1>8. Cardinality(1 .. Len(s)) = Len(s) /\ Cardinality(mine) \in Nat
  BY <1>1, <1>5, FS_Interval, FS_CardinalityType
<1>9. size >= Cardinality(mine)
  BY DEF mine
<1> QED
  BY <1>1, <1>6, <1>7, <1>8, <1>9

\* A turn at the pool: the conversation is remembered at the server it is sent to,
\* which is the one it has been remembered at before; with room for all rows of
\* the worker no other row of this call is forgotten.
LEMMA AskKnown ==
    ASSUME NEW p \in Pools(RowEntries), NEW w, NEW c \in Nat, NEW size \in Nat \ {0},
           CacheOK(p.cache, w, c, size),
           NEW r \in Rows, WorkerOf[r] = w, Knows(p, <<c, r>>),
           NEW h, h = ServerOf(p, <<c, r>>),
           NEW q, q = Touched(p, size, <<c, r>>)
    PROVE  /\ q \in Pools(RowEntries) /\ CacheOK(q.cache, w, c, size) /\ h \in Servers
           /\ Holds(q.cache, Entry(c, r, h))
           /\ \A g : Holds(p.cache, Entry(c, r, g)) => g = h
           /\ \A o, g : o # r /\ Holds(p.cache, Entry(c, o, g)) => Holds(q.cache, Entry(c, o, g))
<1> DEFINE s == p.cache
           k == PlaceOf(p, <<c, r>>)
           f == Forgotten(p, <<c, r>>)
           t == f.cache
<1>1. /\ s \in Seq(RowEntries) /\ k \in 1 .. Len(s) /\ s[k].id = <<c, r>>
      /\ f \in Pools(RowEntries) /\ Without(RowEntries, t, s, k)
  <2>1. s \in Seq(RowEntries)
    BY DEF Pools
  <2> QED
    BY <2>1, ForgottenIs
<1>2. h = s[k].server /\ CacheOK(s, w, c, size)
  BY DEF ServerOf
<1>5. q = Stored(f, size, <<c, r>>, h)
  BY DEF Touched
<1> HIDE DEF s, k, f
<1>3. s[k] \in RowEntries /\ h \in Servers
  <2>1. s[k] \in RowEntries
    BY <1>1, LenProperties
  <2> QED
    BY <1>2, <2>1 DEF RowEntries
<1>4. \A g : Holds(s, Entry(c, r, g)) => g = h
  <2>1. ASSUME NEW g, NEW i \in 1 .. Len(s), s[i] = Entry(c, r, g) PROVE g = h
    <3>1. s[i].id = <<c, r>> /\ s[i].server = g
      BY <2>1 DEF Entry
    <3>2. i = k
      BY <1>1, <1>2, <2>1, <3>1 DEF CacheOK
    <3> QED
      BY <1>2, <3>1, <3>2
  <2> QED
    BY <2>1 DEF Holds
<1> HIDE DEF t
<1>6. /\ CacheOK(t, w, c, size) /\ Len(t) < size
      /\ \A i \in 1 .. Len(t) : t[i].id # <<c, r>>
      /\ \A e : Holds(s, e) /\ e # s[k] => Holds(t, e)
  <2>1. s \in Seq(RowEntries) /\ k \in 1 .. Len(s) /\ Without(RowEntries, t, s, k) /\ size \in Nat
    BY <1>1
  <2>2. /\ CacheOK(t, w, c, size) /\ Len(t) < size
        /\ \A i \in 1 .. Len(t) : t[i].id # s[k].id
        /\ \A e : Holds(s, e) /\ e # s[k] => Holds(t, e)
    BY <1>2, <2>1, WithoutOK
  <2> QED
    BY <1>1, <2>2
<1>7. t \in Seq(RowEntries)
  BY <1>1 DEF Without
<1>8. t = IF Len(t) >= size THEN Tail(t) ELSE t
  BY <1>6, <1>7, LenProperties
<1>9. /\ Append(t, Entry(c, r, h)) \in Seq(RowEntries)
      /\ CacheOK(Append(t, Entry(c, r, h)), w, c, size)
      /\ Holds(Append(t, Entry(c, r, h)), Entry(c, r, h))
      /\ \A e : Holds(t, e) => Holds(Append(t, Entry(c, r, h)), e)
  BY <1>3, <1>6, <1>7, AppendOK
<1>10. q \in Pools(RowEntries) /\ q.cache = Append(t, Entry(c, r, h))
  <2>1. q = [f EXCEPT !.cache = Append(t, Entry(c, r, h))]
    BY <1>5, <1>8 DEF Stored, Entry, t
  <2> QED
    BY <1>1, <1>9, <2>1 DEF Pools
<1>11. \A o, g : o # r => Entry(c, o, g) # s[k]
  BY <1>1 DEF Entry
<1> QED
  BY <1>3, <1>4, <1>6, <1>9, <1>10, <1>11 DEF s

LEMMA AskNew ==
    ASSUME NEW p \in Pools(RowEntries), NEW w, NEW c \in Nat, NEW size \in Nat \ {0},
           CacheOK(p.cache, w, c, size),
           NEW r \in Rows, WorkerOf[r] = w, ~ Knows(p, <<c, r>>),
           NEW h, h = Least(p),
           NEW q, q = Stored(Charged(p), size, <<c, r>>, h)
    PROVE  /\ q \in Pools(RowEntries) /\ CacheOK(q.cache, w, c, size) /\ h \in Servers
           /\ Holds(q.cache, Entry(c, r, h))
           /\ \A g : ~ Holds(p.cache, Entry(c, r, g))
           /\ size >= Cardinality({o \in Rows : WorkerOf[o] = w}) =>
                \A o, g : Holds(p.cache, Entry(c, o, g)) => Holds(q.cache, Entry(c, o, g))
<1> DEFINE s == p.cache
           t == IF Len(s) >= size THEN Tail(s) ELSE s
<1>1. s \in Seq(RowEntries) /\ Len(s) \in Nat /\ DOMAIN s = 1 .. Len(s)
  BY LenProperties DEF Pools
<1>2. h \in Servers
  BY LeastExists DEF Pools
<1>3. Charged(p) \in Pools(RowEntries) /\ Charged(p).cache = s
  BY ChargedEven
<1>4. \A i \in 1 .. Len(s) : s[i].id # <<c, r>>
  BY <1>1 DEF Knows
<1>5. \A g : ~ Holds(s, Entry(c, r, g))
  BY <1>4 DEF Holds, Entry
<1> HIDE DEF s
<1>6. /\ t \in Seq(RowEntries) /\ CacheOK(t, w, c, size) /\ Len(t) < size
      /\ \A i \in 1 .. Len(t) : t[i].id # <<c, r>>
      /\ size >= Cardinality({o \in Rows : WorkerOf[o] = w}) =>
           \A o, g : Holds(s, Entry(c, o, g)) => Holds(t, Entry(c, o, g))
  <2>1. CASE Len(s) >= size
    <3>1. s # <<>> /\ 1 \in 1 .. Len(s)
      BY <1>1, <2>1
    <3>2. t = Tail(s) /\ Without(RowEntries, t, s, 1)
      BY <1>1, <2>1, <3>1, TailIs
    <3> HIDE DEF t
    <3>3. /\ CacheOK(t, w, c, size) /\ Len(t) < size
          /\ \A e : Holds(s, e) /\ e # s[1] => Holds(t, e)
      BY <1>1, <3>1, <3>2, WithoutOK DEF s
    <3>4. \A i \in 1 .. Len(t) : t[i].id # <<c, r>>
      <4>1. /\ Len(t) = Len(s) - 1
            /\ \A i \in 1 .. Len(t) : t[i] = IF i < 1 THEN s[i] ELSE s[i + 1]
        BY <3>2 DEF Without
      <4>2. \A i \in 1 .. Len(t) : i + 1 \in 1 .. Len(s) /\ t[i] = s[i + 1]
        BY <1>1, <4>1
      <4> QED
        BY <1>4, <4>2
    <3>5. t \in Seq(RowEntries)
      BY <3>2 DEF Without
    <3>6. ASSUME size >= Cardinality({o \in Rows : WorkerOf[o] = w}), NEW o, NEW g
          PROVE  Entry(c, o, g) # s[1]
      <4>1. s[1].id[1] # c
        BY <1>1, <1>4, <2>1, <3>6, OldestIsOld DEF s
      <4> QED
        BY <4>1 DEF Entry
    <3> QED
      BY <3>3, <3>4, <3>5, <3>6
  <2>2. CASE Len(s) < size
    BY <1>1, <1>4, <2>2 DEF s
  <2>3. Len(s) >= size \/ Len(s) < size
    BY <1>1
  <2> HIDE DEF t
  <2> QED
    BY <2>1, <2>2, <2>3
<1> HIDE DEF t
<1>7. /\ Append(t, Entry(c, r, h)) \in Seq(RowEntries)
      /\ CacheOK(Append(t, Entry(c, r, h)), w, c, size)
      /\ Holds(Append(t, Entry(c, r, h)), Entry(c, r, h))
      /\ \A e : Holds(t, e) => Holds(Append(t, Entry(c, r, h)), e)
  BY <1>2, <1>6, AppendOK
<1>8. q \in Pools(RowEntries) /\ q.cache = Append(t, Entry(c, r, h))
  <2>1. q = [Charged(p) EXCEPT !.cache = Append(t, Entry(c, r, h))]
    BY <1>3 DEF Stored, Entry, t
  <2> QED
    BY <1>3, <1>7, <2>1 DEF Pools
<1> QED
  BY <1>2, <1>5, <1>6, <1>7, <1>8 DEF s

--------------------------------------------------------------------------------
(* The invariant.                                                               *)

AgentTypeInv == AgentTypeOK /\ pools \in [Workers -> Pools(RowEntries)]

\* Where a row is tells what room its response has left, and where the last turn
\* of the model lies in it.
RowOK(v) ==
    /\ v.prompt <= PromptLength
    /\ v.at \in {"ask", "server"} => v.len < ResponseLength
    /\ v.at = "tools" => v.first < v.len /\ v.last = v.len /\ v.len < ResponseLength
    /\ v.at = "done" => /\ v.first < v.len /\ v.first < ResponseLength
                        /\ v.last >= v.len \/ v.last >= ResponseLength

RowsOK == \A r \in Rows : RowOK(row[r])

\* What the manager's place says of the servers.
ServersOK ==
    /\ manager = "starting" => /\ weights = 0
                               /\ \A s \in Servers : ~server[s].awake /\ server[s].version = 0
    /\ manager # "starting" => \A s \in Servers : server[s].up
    /\ ~conf.free => \A s \in Servers : /\ server[s].version = 0
                                        /\ manager # "starting" => server[s].awake
    /\ conf.free /\ manager \in {"idle", "training"} => \A s \in Servers : ~server[s].awake
    /\ conf.free /\ manager = "waking" =>
         \A s \in Servers : server[s].awake => server[s].version = weights
    /\ conf.free /\ manager \in {"generating", "raised"} =>
         \A s \in Servers : server[s].awake /\ server[s].version = weights
    /\ manager = "raised" => conf.modelLen < PromptLength + ResponseLength
    /\ \A r \in Rows : row[r].at # "done" => manager \in {"generating", "raised"}

\* A cache with room for the chunk of its worker.
Roomy(r) == conf.cacheSize >= Cardinality({q \in Rows : WorkerOf[q] = WorkerOf[r]})

\* The caches, and what they remember of the rows that are under way.
CachesOK ==
    /\ \A w \in Workers : CacheOK(pools[w].cache, w, calls, conf.cacheSize)
    /\ \A r \in Rows : row[r].at # "done" /\ row[r].home # 0 /\ Roomy(r) =>
         Holds(pools[WorkerOf[r]].cache, Entry(calls, r, row[r].home))
    /\ \A r \in Rows : row[r].at = "server" =>
         row[r].asked \in Servers /\ (Roomy(r) => row[r].asked = row[r].home)

AgentInv == AgentTypeInv /\ RowsOK /\ ServersOK /\ CachesOK

\* The steps that leave the rows alone.
ManagerStep ==
    \/ StartRound \/ InitEngines \/ CallGenerate \/ Collect \/ Asleep \/ Train \/ Trained
    \/ \E s \in Servers : StartServer(s) \/ WakeUp(s) \/ Sleep(s)
    \/ \E r \in Rows : EngineRefuses(r)
    \/ UNCHANGED agentVars

\* The steps of one row that leave its pool alone.
Talk(r) == Answer(r) \/ ToolFails(r) \/ ToolsAnswer(r)

LEMMA AgentSteps ==
    [AgentNext]_agentVars => ManagerStep \/ StartRows \/ \E r \in Rows : Ask(r) \/ Talk(r)
  BY DEF AgentNext, ManagerStep, Talk

RowRecord == [at : RowPoints, prompt : Nat, len : Nat, first : Nat, last : Nat, turns : Nat,
              users : Nat, home : Servers \cup {0}, asked : Servers \cup {0}]

LEMMA NewRowOK ==
    ASSUME NEW n \in 0 .. PromptLength
    PROVE  NewRow(n) \in RowRecord /\ RowOK(NewRow(n))
  BY AgentNumbers DEF NewRow, RowRecord, RowPoints, RowOK

LEMMA AgentInitInv == AgentInit => AgentInv
<1> SUFFICES ASSUME AgentInit PROVE AgentInv
  OBVIOUS
<1> USE AgentNumbers DEF AgentInit
<1>1. \A r \in Rows : row[r] \in RowRecord /\ RowOK(row[r])
  <2> DEFINE v == [at |-> "done", prompt |-> 0, len |-> 1, first |-> 0, last |-> 1,
                   turns |-> 0, users |-> 0, home |-> 0, asked |-> 0]
  <2>1. \A r \in Rows : row[r] = v
    BY DEF NewRow
  <2>2. v \in RowRecord
    BY DEF RowRecord, RowPoints
  <2>3. RowOK(v)
    BY DEF RowOK
  <2> HIDE DEF v
  <2> QED
    BY <2>1, <2>2, <2>3
<1>2. NewPool \in Pools(RowEntries) /\ NewPool.cache = <<>>
  <2>1. <<>> \in Seq(RowEntries)
    OBVIOUS
  <2> QED
    BY <2>1 DEF NewPool, Pools
<1>3. AgentTypeInv
  BY <1>1, <1>2 DEF AgentTypeInv, AgentTypeOK, ManagerStates, RowRecord
<1>4. ServersOK
  BY DEF ServersOK, NewRow
<1>5. CachesOK
  <2>1. conf.cacheSize \in Nat
    BY <1>3 DEF AgentTypeInv, AgentTypeOK
  <2>2. \A w \in Workers : CacheOK(pools[w].cache, w, calls, conf.cacheSize)
    BY <1>2, <2>1 DEF CacheOK
  <2> QED
    BY <2>2 DEF CachesOK, NewRow
<1> QED
  BY <1>1, <1>3, <1>4, <1>5 DEF AgentInv, RowsOK

LEMMA ManagerStepType ==
    ASSUME AgentInv, ManagerStep
    PROVE  AgentTypeInv'
<1> USE DEF AgentInv, AgentTypeInv, AgentTypeOK, ManagerStates
<1>1. CASE StartRound
  BY <1>1 DEF StartRound
<1>2. CASE InitEngines
  BY <1>2 DEF InitEngines
<1>3. CASE CallGenerate \/ Collect \/ Asleep \/ Train
  BY <1>3 DEF CallGenerate, Collect, Asleep, Train
<1>4. CASE Trained
  BY <1>4 DEF Trained
<1>5. ASSUME NEW s \in Servers, StartServer(s) PROVE AgentTypeInv'
  BY <1>5 DEF StartServer
<1>6. ASSUME NEW s \in Servers, WakeUp(s) PROVE AgentTypeInv'
  <2> DEFINE T == [up : BOOLEAN, awake : BOOLEAN, version : Nat]
             woken == [server[s] EXCEPT !.awake = TRUE, !.version = weights]
  <2>1. server \in [Servers -> T] /\ weights \in Nat
    OBVIOUS
  <2>2. woken \in T
    BY <2>1
  <2>3. server' = [server EXCEPT ![s] = woken]
    BY <1>6 DEF WakeUp
  <2> HIDE DEF T, woken
  <2>4. server' \in [Servers -> T]
    BY <2>1, <2>2, <2>3
  <2> QED
    BY <1>6, <2>4 DEF WakeUp, T
<1>7. ASSUME NEW s \in Servers, Sleep(s) PROVE AgentTypeInv'
  BY <1>7 DEF Sleep
<1>8. ASSUME NEW r \in Rows, EngineRefuses(r) PROVE AgentTypeInv'
  BY <1>8 DEF EngineRefuses
<1>9. CASE UNCHANGED agentVars
  BY <1>9 DEF agentVars
<1> QED
  BY <1>1, <1>2, <1>3, <1>4, <1>5, <1>6, <1>7, <1>8, <1>9 DEF ManagerStep

LEMMA ManagerStepServers ==
    ASSUME AgentInv, ManagerStep
    PROVE  ServersOK'
<1> USE DEF ServersOK
<1>0. ServersOK /\ AgentTypeInv /\ server \in [Servers -> [up : BOOLEAN, awake : BOOLEAN, version : Nat]]
  BY DEF AgentInv, AgentTypeInv, AgentTypeOK
<1>1. CASE StartRound
  BY <1>0, <1>1 DEF StartRound
<1>2. CASE InitEngines
  BY <1>0, <1>2 DEF InitEngines
<1>3. CASE CallGenerate \/ Collect \/ Asleep \/ Train
  BY <1>0, <1>3 DEF CallGenerate, Collect, Asleep, Train
<1>4. CASE Trained
  BY <1>0, <1>4 DEF Trained
<1>5. ASSUME NEW s \in Servers, StartServer(s) PROVE ServersOK'
  BY <1>0, <1>5 DEF StartServer
<1>6. ASSUME NEW s \in Servers, WakeUp(s) PROVE ServersOK'
  BY <1>0, <1>6 DEF WakeUp
<1>7. ASSUME NEW s \in Servers, Sleep(s) PROVE ServersOK'
  BY <1>0, <1>7 DEF Sleep
<1>8. ASSUME NEW r \in Rows, EngineRefuses(r) PROVE ServersOK'
  <2>1. /\ row[r].prompt \in Nat /\ row[r].len \in Nat /\ conf.modelLen \in Nat
        /\ row[r].prompt <= PromptLength /\ row[r].len < ResponseLength
    BY <1>8, AgentNumbers
       DEF AgentInv, AgentTypeInv, AgentTypeOK, RowsOK, RowOK, EngineRefuses
  <2>2. conf.modelLen < PromptLength + ResponseLength
    BY <1>8, <2>1, AgentNumbers DEF EngineRefuses, MaxTokens
  <2> QED
    BY <1>0, <1>8, <2>2 DEF EngineRefuses
<1>9. CASE UNCHANGED agentVars
  BY <1>0, <1>9 DEF agentVars
<1> QED
  BY <1>1, <1>2, <1>3, <1>4, <1>5, <1>6, <1>7, <1>8, <1>9 DEF ManagerStep

\* A new call finds caches of earlier ones.
LEMMA NextCall ==
    ASSUME NEW s \in Seq(RowEntries), NEW w, NEW c \in Nat, NEW size,
           CacheOK(s, w, c, size)
    PROVE  CacheOK(s, w, c + 1, size)
<1>1. \A i \in 1 .. Len(s) : s[i].id[1] \in Nat /\ s[i].id[1] <= c
  <2>1. \A i \in 1 .. Len(s) : s[i] \in RowEntries
    BY LenProperties
  <2> QED
    BY <2>1 DEF RowEntries, CacheOK
<1> QED
  BY <1>1 DEF CacheOK

LEMMA ManagerStepInv ==
    ASSUME AgentInv, ManagerStep
    PROVE  AgentInv'
<1>1. UNCHANGED <<pools, row>> /\ conf' = conf
  BY DEF ManagerStep, StartRound, InitEngines, CallGenerate, Collect, Asleep, Train, Trained,
         StartServer, WakeUp, Sleep, EngineRefuses, agentVars
<1>2. RowsOK'
  BY <1>1 DEF AgentInv, RowsOK
<1>3. CachesOK'
  <2>1. CASE calls' = calls
    BY <1>1, <2>1 DEF AgentInv, CachesOK, Roomy
  <2>2. CASE CallGenerate
    <3>1. calls' = calls + 1 /\ calls \in Nat /\ pools \in [Workers -> Pools(RowEntries)]
      BY <2>2 DEF CallGenerate, AgentInv, AgentTypeInv, AgentTypeOK
    <3>2. \A r \in Rows : row'[r].at = "done"
      BY <1>1, <2>2 DEF CallGenerate, AgentInv, ServersOK
    <3>3. \A w \in Workers : CacheOK(pools'[w].cache, w, calls', conf'.cacheSize)
      BY <1>1, <3>1, NextCall DEF AgentInv, CachesOK, Pools
    <3> QED
      BY <3>2, <3>3 DEF CachesOK
  <2> QED
    BY <2>1, <2>2
       DEF ManagerStep, StartRound, InitEngines, CallGenerate, Collect, Asleep, Train, Trained,
           StartServer, WakeUp, Sleep, EngineRefuses, agentVars
<1> QED
  BY <1>2, <1>3, ManagerStepType, ManagerStepServers DEF AgentInv

LEMMA StartRowsInv ==
    ASSUME AgentInv, StartRows
    PROVE  AgentInv'
<1>1. PICK p \in [Rows -> 1 .. PromptLength] : row' = [r \in Rows |-> NewRow(p[r])]
  BY DEF StartRows
<1>2. \A r \in Rows : row'[r] \in RowRecord /\ RowOK(row'[r])
  BY <1>1, AgentNumbers, NewRowOK
<1>3. \A r \in Rows : row'[r].at = "ask" /\ row'[r].home = 0
  BY <1>1 DEF NewRow
<1>4. AgentTypeInv'
  <2>1. row' \in [Rows -> RowRecord]
    BY <1>1, <1>2
  <2> QED
    BY <2>1 DEF StartRows, AgentInv, AgentTypeInv, AgentTypeOK, ManagerStates, RowRecord
<1>5. ServersOK'
  BY DEF StartRows, AgentInv, ServersOK
<1>6. CachesOK'
  BY <1>3 DEF StartRows, AgentInv, CachesOK
<1> QED
  BY <1>2, <1>4, <1>5, <1>6 DEF AgentInv, RowsOK

\* A row that gets a sound record of its own, still in its place in the call.
LEMMA TalkStep ==
    ASSUME AgentInv, NEW r \in Rows, NEW v \in RowRecord, RowOK(v),
           row' = [row EXCEPT ![r] = v],
           UNCHANGED <<conf, manager, tried, server, weights, calls, pools>>,
           manager = "generating", row[r].at # "done",
           v.home = row[r].home, v.at # "server"
    PROVE  AgentInv'
<1>1. AgentTypeInv'
  BY DEF AgentInv, AgentTypeInv, AgentTypeOK, RowRecord
<1>2. RowsOK' /\ ServersOK'
  BY DEF AgentInv, AgentTypeInv, AgentTypeOK, RowsOK, ServersOK
<1>3. CachesOK'
  BY DEF AgentInv, AgentTypeInv, AgentTypeOK, CachesOK, Roomy
<1> QED
  BY <1>1, <1>2, <1>3 DEF AgentInv

LEMMA TalkInv ==
    ASSUME AgentInv, NEW r \in Rows, Talk(r)
    PROVE  AgentInv'
<1>1. /\ row[r] \in RowRecord /\ RowOK(row[r])
      /\ manager = "generating" /\ row[r].at \in {"server", "tools"}
      /\ UNCHANGED <<conf, manager, tried, server, weights, calls, pools>>
      /\ conf.modelLen \in Nat
  BY AgentNumbers DEF AgentInv, AgentTypeInv, AgentTypeOK, RowsOK, RowRecord,
                      Talk, Answer, ToolFails, ToolsAnswer
<1>2. row[r].len \in Nat /\ row[r].turns \in Nat /\ row[r].users \in Nat /\ row[r].prompt \in Nat
  BY <1>1 DEF RowRecord
<1>3. CASE Answer(r)
  <2>1. PICK n \in 1 .. MaxTokens(r), called \in BOOLEAN :
          LET v == [row[r] EXCEPT !.first = row[r].len, !.last = row[r].len + n,
                                  !.len = @ + n, !.turns = @ + 1]
          IN row' = [row EXCEPT ![r] =
                       [v EXCEPT !.at = IF Stops(r, v) \/ ~called THEN "done" ELSE "tools"]]
    BY <1>3 DEF Answer
  <2> DEFINE v == [row[r] EXCEPT !.first = row[r].len, !.last = row[r].len + n,
                                 !.len = @ + n, !.turns = @ + 1]
             stops == Stops(r, v) \/ ~called
             q == [v EXCEPT !.at = IF stops THEN "done" ELSE "tools"]
  <2>2. row' = [row EXCEPT ![r] = q]
    BY <2>1
  <2>3. n \in Nat \ {0}
    BY <1>1, <1>2, <2>1 DEF MaxTokens
  <2>4. /\ v \in RowRecord /\ v.len = row[r].len + n /\ v.first = row[r].len
        /\ v.last = v.len /\ v.home = row[r].home /\ v.prompt = row[r].prompt
    <3> DEFINE m == row[r].len + n
               t == row[r].turns + 1
               u == [row[r] EXCEPT !.first = row[r].len, !.last = m, !.len = m, !.turns = t]
    <3>1. m \in Nat /\ t \in Nat
      BY <1>2, <2>3
    <3>2. v = u
      BY <1>1 DEF RowRecord
    <3> HIDE DEF m, t, v
    <3>3. /\ u \in RowRecord /\ u.len = m /\ u.first = row[r].len
          /\ u.last = m /\ u.home = row[r].home /\ u.prompt = row[r].prompt
      BY <1>1, <1>2, <3>1 DEF RowRecord
    <3> QED
      BY <3>2, <3>3 DEF m
  <2>5. v.len >= ResponseLength => stops
    BY DEF Stops
  <2>6. row[r].at = "server"
    BY <1>3 DEF Answer
  <2> HIDE DEF v, stops
  <2>7. /\ q \in RowRecord /\ q.at = (IF stops THEN "done" ELSE "tools")
        /\ q.len = v.len /\ q.first = v.first /\ q.last = v.last
        /\ q.home = v.home /\ q.prompt = v.prompt
    BY <2>4 DEF RowRecord, RowPoints
  <2> HIDE DEF q
  <2>8. v.len \in Nat /\ row[r].len < ResponseLength /\ row[r].prompt <= PromptLength
    BY <1>1, <2>4, <2>6 DEF RowOK, RowRecord
  <2>9. RowOK(q)
    BY <1>2, <2>3, <2>4, <2>5, <2>7, <2>8, AgentNumbers DEF RowOK
  <2> QED
    BY <1>1, <2>2, <2>4, <2>6, <2>7, <2>9, TalkStep
<1>4. CASE ToolFails(r)
  <2> DEFINE q == [row[r] EXCEPT !.at = "done"]
  <2>1. row' = [row EXCEPT ![r].at = "done"] /\ row[r].at = "tools"
    BY <1>4 DEF ToolFails
  <2>2. row' = [row EXCEPT ![r] = q]
    BY <2>1
  <2>3. q \in RowRecord /\ RowOK(q) /\ q.home = row[r].home /\ q.at = "done"
    BY <1>1, <1>2, <2>1, AgentNumbers DEF RowRecord, RowPoints, RowOK
  <2> HIDE DEF q
  <2> QED
    BY <1>1, <2>1, <2>2, <2>3, TalkStep
<1>5. CASE ToolsAnswer(r)
  <2>1. PICK n \in ReplyLens :
          row' = [row EXCEPT ![r] =
                    IF row[r].len + n < ResponseLength
                    THEN [row[r] EXCEPT !.at = "ask", !.len = @ + n, !.users = @ + 1]
                    ELSE [row[r] EXCEPT !.at = "done"]]
    BY <1>5 DEF ToolsAnswer
  <2> DEFINE goes == [row[r] EXCEPT !.at = "ask", !.len = @ + n, !.users = @ + 1]
             ends == [row[r] EXCEPT !.at = "done"]
  <2>2. n \in Nat /\ row[r].at = "tools"
    BY <1>5, AgentNumbers DEF ToolsAnswer
  <2>3. ends \in RowRecord /\ RowOK(ends) /\ ends.home = row[r].home /\ ends.at = "done"
    BY <1>1, <1>2, <2>2, AgentNumbers DEF RowRecord, RowPoints, RowOK
  <2>4. /\ goes \in RowRecord /\ goes.home = row[r].home /\ goes.at = "ask"
        /\ goes.len = row[r].len + n /\ goes.prompt = row[r].prompt
    <3> DEFINE m == row[r].len + n
               t == row[r].users + 1
               u == [row[r] EXCEPT !.at = "ask", !.len = m, !.users = t]
    <3>1. m \in Nat /\ t \in Nat
      BY <1>2, <2>2
    <3>2. goes = u
      BY <1>1 DEF RowRecord
    <3> HIDE DEF m, t, goes
    <3>3. /\ u \in RowRecord /\ u.home = row[r].home /\ u.at = "ask"
          /\ u.len = m /\ u.prompt = row[r].prompt
      BY <1>1, <3>1 DEF RowRecord, RowPoints
    <3> QED
      BY <3>2, <3>3 DEF m
  <2> HIDE DEF goes, ends
  <2>5. row[r].len + n < ResponseLength => RowOK(goes)
    BY <1>1, <2>4 DEF RowOK
  <2>6. CASE row[r].len + n < ResponseLength
    <3>1. row' = [row EXCEPT ![r] = goes]
      BY <2>1, <2>6 DEF goes
    <3> QED
      BY <1>1, <2>2, <2>4, <2>5, <2>6, <3>1, TalkStep
  <2>7. CASE ~ (row[r].len + n < ResponseLength)
    <3>1. row' = [row EXCEPT ![r] = ends]
      BY <2>1, <2>7 DEF ends
    <3> QED
      BY <1>1, <2>2, <2>3, <3>1, TalkStep
  <2> QED
    BY <2>6, <2>7
<1> QED
  BY <1>3, <1>4, <1>5 DEF Talk

\* What a turn does to the pool of its worker, the conversation known or not.
LEMMA AskPool ==
    ASSUME AgentInv, NEW r \in Rows, Ask(r)
    PROVE  \E h \in Servers, q \in Pools(RowEntries) :
             /\ pools' = [pools EXCEPT ![WorkerOf[r]] = q]
             /\ row' = [row EXCEPT ![r].at = "server", ![r].asked = h,
                                   ![r].home = IF @ = 0 THEN h ELSE @]
             /\ CacheOK(q.cache, WorkerOf[r], calls, conf.cacheSize)
             /\ Holds(q.cache, Entry(calls, r, h))
             /\ \A g : Holds(pools[WorkerOf[r]].cache, Entry(calls, r, g)) => g = h
             /\ Roomy(r) => \A o, g :
                  o # r /\ Holds(pools[WorkerOf[r]].cache, Entry(calls, o, g))
                    => Holds(q.cache, Entry(calls, o, g))
<1> DEFINE w == WorkerOf[r]
           p == pools[w]
           id == <<calls, r>>
           size == conf.cacheSize
<1>1. w \in Workers /\ size \in Nat \ {0} /\ calls \in Nat /\ p \in Pools(RowEntries)
      /\ CacheOK(p.cache, w, calls, size)
  BY AgentNumbers DEF AgentInv, AgentTypeInv, AgentTypeOK, CachesOK
<1> HIDE DEF w, p, size
<1>2. CASE Knows(p, id)
  <2> DEFINE h == ServerOf(p, id)
             q == Touched(p, size, id)
  <2>1. /\ pools' = [pools EXCEPT ![w] = q]
        /\ row' = [row EXCEPT ![r].at = "server", ![r].asked = h,
                              ![r].home = IF @ = 0 THEN h ELSE @]
    BY <1>2 DEF Ask, RequestId, w, p, size
  <2>2. /\ q \in Pools(RowEntries) /\ CacheOK(q.cache, w, calls, size) /\ h \in Servers
        /\ Holds(q.cache, Entry(calls, r, h))
        /\ \A g : Holds(p.cache, Entry(calls, r, g)) => g = h
        /\ \A o, g : o # r /\ Holds(p.cache, Entry(calls, o, g)) => Holds(q.cache, Entry(calls, o, g))
    BY <1>1, <1>2, AskKnown DEF w
  <2> HIDE DEF h, q
  <2> QED
    BY <2>1, <2>2 DEF w, p, size
<1>3. CASE ~ Knows(p, id)
  <2> DEFINE h == Least(p)
             q == Stored(Charged(p), size, id, h)
  <2>1. /\ pools' = [pools EXCEPT ![w] = q]
        /\ row' = [row EXCEPT ![r].at = "server", ![r].asked = h,
                              ![r].home = IF @ = 0 THEN h ELSE @]
    BY <1>3 DEF Ask, RequestId, w, p, size
  <2>2. /\ q \in Pools(RowEntries) /\ CacheOK(q.cache, w, calls, size) /\ h \in Servers
        /\ Holds(q.cache, Entry(calls, r, h))
        /\ \A g : ~ Holds(p.cache, Entry(calls, r, g))
        /\ size >= Cardinality({o \in Rows : WorkerOf[o] = w}) =>
             \A o, g : Holds(p.cache, Entry(calls, o, g)) => Holds(q.cache, Entry(calls, o, g))
    BY <1>1, <1>3, AskNew DEF w
  <2> HIDE DEF h, q
  <2>3. Roomy(r) => size >= Cardinality({o \in Rows : WorkerOf[o] = w})
    BY DEF Roomy, size, w
  <2> QED
    BY <2>1, <2>2, <2>3 DEF w, p, size
<1> QED
  BY <1>2, <1>3

LEMMA AskInv ==
    ASSUME AgentInv, NEW r \in Rows, Ask(r)
    PROVE  AgentInv'
<1>1. /\ manager = "generating" /\ row[r].at = "ask" /\ row[r] \in RowRecord /\ RowOK(row[r])
      /\ UNCHANGED <<conf, manager, tried, server, weights, calls>>
      /\ row \in [Rows -> RowRecord] /\ pools \in [Workers -> Pools(RowEntries)]
      /\ WorkerOf \in [Rows -> Workers]
  BY AgentNumbers DEF AgentInv, AgentTypeInv, AgentTypeOK, RowRecord, RowsOK, Ask
<1> DEFINE w == WorkerOf[r]
<1>2. PICK h \in Servers, q \in Pools(RowEntries) :
        /\ pools' = [pools EXCEPT ![w] = q]
        /\ row' = [row EXCEPT ![r].at = "server", ![r].asked = h,
                              ![r].home = IF @ = 0 THEN h ELSE @]
        /\ CacheOK(q.cache, w, calls, conf.cacheSize)
        /\ Holds(q.cache, Entry(calls, r, h))
        /\ \A g : Holds(pools[w].cache, Entry(calls, r, g)) => g = h
        /\ Roomy(r) => \A o, g : o # r /\ Holds(pools[w].cache, Entry(calls, o, g))
                                   => Holds(q.cache, Entry(calls, o, g))
  BY AskPool
<1> DEFINE home == IF row[r].home = 0 THEN h ELSE row[r].home
           v == [row[r] EXCEPT !.at = "server", !.asked = h, !.home = home]
<1>3. row' = [row EXCEPT ![r] = v]
  BY <1>1, <1>2
<1>4. home \in Servers \cup {0}
  BY <1>1 DEF RowRecord
<1>5. Roomy(r) => home = h
  <2>1. row[r].home # 0 /\ Roomy(r) => Holds(pools[w].cache, Entry(calls, r, row[r].home))
    BY <1>1 DEF AgentInv, CachesOK
  <2> QED
    BY <1>2, <2>1
<1> HIDE DEF home
<1>6. /\ v \in RowRecord /\ v.at = "server" /\ v.asked = h /\ v.home = home
      /\ v.len = row[r].len /\ v.prompt = row[r].prompt
  BY <1>1, <1>4 DEF RowRecord, RowPoints
<1> HIDE DEF v
<1>7. AgentTypeInv'
  <2>1. row' \in [Rows -> RowRecord]
    BY <1>1, <1>3, <1>6
  <2>2. pools' \in [Workers -> Pools(RowEntries)]
    BY <1>1, <1>2
  <2> QED
    BY <1>1, <2>1, <2>2 DEF AgentInv, AgentTypeInv, AgentTypeOK, RowRecord
<1>8. RowsOK'
  <2>1. RowOK(v)
    BY <1>1, <1>6 DEF RowOK
  <2> QED
    BY <1>1, <1>3, <2>1 DEF AgentInv, RowsOK
<1>9. ServersOK'
  BY <1>1, <1>3 DEF AgentInv, ServersOK
<1>10. CachesOK'
  <2>1. \A u \in Workers : CacheOK(pools'[u].cache, u, calls', conf'.cacheSize)
    BY <1>1, <1>2 DEF AgentInv, CachesOK
  <2>2. ASSUME NEW o \in Rows, row'[o].at # "done", row'[o].home # 0, Roomy(o)
        PROVE  Holds(pools'[WorkerOf[o]].cache, Entry(calls, o, row'[o].home))
    <3>1. CASE o = r
      BY <1>1, <1>2, <1>3, <1>5, <1>6, <2>2, <3>1
    <3>2. CASE o # r
      <4>1. Holds(pools[WorkerOf[o]].cache, Entry(calls, o, row'[o].home))
        BY <1>1, <1>3, <2>2, <3>2 DEF AgentInv, CachesOK
      <4>2. CASE WorkerOf[o] = w
        <5>1. Roomy(r)
          BY <2>2, <4>2 DEF Roomy
        <5>2. Holds(q.cache, Entry(calls, o, row'[o].home))
          BY <1>2, <3>2, <4>1, <4>2, <5>1
        <5> QED
          BY <1>1, <1>2, <4>2, <5>2
      <4>3. CASE WorkerOf[o] # w
        BY <1>1, <1>2, <4>1, <4>3
      <4> QED
        BY <4>2, <4>3
    <3> QED
      BY <3>1, <3>2
  <2>3. ASSUME NEW o \in Rows, row'[o].at = "server"
        PROVE  row'[o].asked \in Servers /\ (Roomy(o) => row'[o].asked = row'[o].home)
    <3>1. CASE o = r
      BY <1>1, <1>2, <1>3, <1>5, <1>6, <3>1
    <3>2. CASE o # r
      BY <1>1, <1>3, <2>3, <3>2 DEF AgentInv, CachesOK
    <3> QED
      BY <3>1, <3>2
  <2>4. \A o \in Rows : Roomy(o)' <=> Roomy(o)
    BY <1>1 DEF Roomy
  <2> QED
    BY <1>1, <2>1, <2>2, <2>3, <2>4 DEF CachesOK
<1> QED
  BY <1>7, <1>8, <1>9, <1>10 DEF AgentInv

LEMMA AgentNextInv == AgentInv /\ [AgentNext]_agentVars => AgentInv'
  BY AgentSteps, ManagerStepInv, StartRowsInv, AskInv, TalkInv

LEMMA AgentInvariant == AgentSpec => []AgentInv
  BY AgentInitInv, AgentNextInv, PTL DEF AgentSpec

--------------------------------------------------------------------------------
(* What follows from it.                                                        *)

LEMMA AgentSticks == AgentInv => StickySession
  BY DEF AgentInv, CachesOK, Roomy, StickySession

LEMMA AgentEnds == AgentInv => EndsWithModelTurn
<1> SUFFICES ASSUME AgentInv, NEW r \in Rows, row[r].at = "done"
             PROVE  LET kept == IF row[r].len <= ResponseLength THEN row[r].len
                                                                ELSE ResponseLength
                    IN row[r].first < kept /\ kept <= row[r].last
  BY DEF EndsWithModelTurn
<1>1. row[r].len \in Nat /\ row[r].first \in Nat /\ row[r].last \in Nat
  BY DEF AgentInv, AgentTypeInv, AgentTypeOK
<1>2. RowOK(row[r])
  BY DEF AgentInv, RowsOK
<1> QED
  BY <1>1, <1>2, AgentNumbers DEF RowOK

LEMMA AgentEngines == AgentInv => EngineServes
<1> SUFFICES ASSUME AgentInv PROVE EngineServes
  OBVIOUS
<1>1. ASSUME NEW r \in Rows, row[r].at = "server"
      PROVE  LET s == server[row[r].asked] IN
             s.up /\ s.awake /\ (conf.free => s.version = weights)
  <2>1. row[r].asked \in Servers /\ manager \in {"generating", "raised"}
    BY <1>1 DEF AgentInv, CachesOK, ServersOK
  <2> QED
    BY <2>1 DEF AgentInv, ServersOK
<1>2. manager = "training" /\ conf.free => \A s \in Servers : ~server[s].awake
  BY DEF AgentInv, ServersOK
<1>3. conf.modelLen >= PromptLength + ResponseLength => manager # "raised"
  <2>1. conf.modelLen \in Nat
    BY AgentNumbers DEF AgentInv, AgentTypeInv, AgentTypeOK
  <2> QED
    BY <2>1, AgentNumbers DEF AgentInv, ServersOK
<1> QED
  BY <1>1, <1>2, <1>3 DEF EngineServes

\* A conversation stays at the server of its first turn as long as the cache of
\* its worker has room for the worker's rows, whatever earlier calls have left in
\* the cache (agent_loop.py:45, 69-76).
THEOREM ConversationsStick == AgentSpec => []StickySession
  BY AgentSticks, AgentInvariant, PTL

\* The response of a row, cut to its length, ends with a turn of the model
\* (tool_agent_loop.py:119-180).
THEOREM ResponsesEndWithModel == AgentSpec => []EndsWithModelTurn
  BY AgentEnds, AgentInvariant, PTL

\* A server that is asked is up and awake, and has the weights the training has
\* reached if its cache is freed between the rollouts; such servers sleep while the
\* actor trains, and no row asks for what the model has no room for
\* (agent_loop.py:331-442, vllm_async_server.py:317-338).
THEOREM ServersServe == AgentSpec => []EngineServes
  BY AgentEngines, AgentInvariant, PTL

--------------------------------------------------------------------------------
(* The job that has one or the other.                                           *)

\* A job with either manager has what both are proved to have: for the chat
\* scheduler and for the agent loop each of its steps is one of their own or none
\* (async_server.py:185-215, ray_trainer_all.py:1463-1471).
THEOREM EitherServes ==
    AsyncSpec => [](/\ DoneOnlyAtEnd /\ ServersEven
                    /\ StickySession /\ EndsWithModelTurn /\ EngineServes)
<1>1. AsyncInit => ChatInit /\ AgentInit
  BY DEF AsyncInit
<1>2. [AsyncNext]_asyncVars => [ChatNext]_chatVars /\ [AgentNext]_agentVars
  BY DEF AsyncNext, ChatServes, AgentServes, asyncVars
<1>3. ChatInv => DoneOnlyAtEnd /\ ServersEven
  BY DEF ChatInv, SoundConversation, DoneOnlyAtEnd
<1>4. AgentInv => StickySession /\ EndsWithModelTurn /\ EngineServes
  BY AgentSticks, AgentEnds, AgentEngines
<1> QED
  BY <1>1, <1>2, <1>3, <1>4, ChatInitInv, ChatStepInv, AgentInitInv, AgentNextInv, PTL
     DEF AsyncSpec
================================================================================
