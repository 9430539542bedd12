------------------------------- MODULE Dispatch -------------------------------
(* A call of the driver on a worker group with a batch for an argument          *)
(* (verl/single_controller/base/decorator.py, ray/base.py, protocol.py): the    *)
(* batch is padded or not, cut over the data-parallel ranks, computed on, put   *)
(* together again, and rid of its padding.  A batch is the sequence of its rows *)
(* and a rank answers with one result for each row it was given.                *)
EXTENDS Integers, Sequences, SequencesExt, SortedSeqs

CONSTANTS
    Groups,     \* worker groups: records [megatron, tp, cp, dp, pp]
    MaxCalls    \* bound on the calls that are made with one batch

Sizes == Nat \ {0}

ASSUME DispatchAssumption ==
    /\ Groups \subseteq [megatron : BOOLEAN, tp : Sizes, cp : Sizes, dp : Sizes, pp : Sizes]
    /\ MaxCalls \in Nat

VARIABLES
    group,      \* the group that is called
    rows,       \* the batch, as the driver holds it
    stage,      \* "wait" for a batch, "ready", "called", "back" or "raised"
    calls,      \* calls made so far
    share,      \* the rows each rank was given
    answer,     \* what each rank has answered
    strip,      \* padding to be taken off: the dispatch's and the driver's
    asked,      \* history: the batch as it was when the call was made, and how
    out         \* what the call returned

dispatchVars == <<group, rows, stage, calls, share, answer, strip, asked, out>>

WorldSize(g) == g.tp * g.cp * g.dp * g.pp
RanksOf(g) == 0 .. WorldSize(g) - 1

\* Megatron numbers its ranks with tensor parallelism innermost and the
\* pipeline outermost.
RankInfo(g, r) ==
    [tp |-> r % g.tp, cp |-> (r \div g.tp) % g.cp,
     dp |-> (r \div (g.tp * g.cp)) % g.dp, pp |-> r \div (g.tp * g.cp * g.dp)]

\* chunks: the whole world, or Megatron's data-parallel ranks.
NumChunks(g) == IF g.megatron THEN g.dp ELSE WorldSize(g)

PadSize(n, divisor) == IF n % divisor = 0 THEN 0 ELSE divisor - (n % divisor)

\* pad_dataproto_to_divisor: the batch is repeated from its start, as often as
\* it takes.
PaddedToDivisor(batch, divisor) ==
    [i \in 1 .. Len(batch) + PadSize(Len(batch), divisor) |-> batch[((i - 1) % Len(batch)) + 1]]

\* DataProto.padding: the last row is repeated.
PaddedWithLast(batch, n) == batch \o [i \in 1 .. n |-> Last(batch)]

\* torch.chunk: pieces of equal size, as far as the rows reach.
ChunkSize(n, c) == (n + c - 1) \div c
ChunkOf(batch, c, i) ==
    LET size == ChunkSize(Len(batch), c)
    IN  SubSeq(batch, i * size + 1, IF (i + 1) * size < Len(batch) THEN (i + 1) * size
                                                                   ELSE Len(batch))

\* DataProto.chunk raises on unequal pieces, or, where padding is enabled, when
\* there are fewer pieces than asked for.
ChunkRaises(n, c, padding) ==
    IF padding THEN (c - 1) * ChunkSize(n, c) >= n ELSE n % c # 0

DispatchInit(batch, first) ==
    /\ group \in Groups
    /\ rows = batch
    /\ stage = first
    /\ calls = 0
    /\ share = <<>> /\ answer = <<>>
    /\ strip = [dispatch |-> 0, driver |-> 0]
    /\ asked = [how |-> "plain", rows |-> <<>>]
    /\ out = <<>>

\* The ranks are given their pieces, those of one data-parallel rank the same,
\* or the cut raises.
Send(batch, padding) ==
    IF ChunkRaises(Len(batch), NumChunks(group), padding)
    THEN stage' = "raised" /\ UNCHANGED <<share, answer>>
    ELSE /\ stage' = "called"
         /\ share' = [r \in RanksOf(group) |->
                        ChunkOf(batch, NumChunks(group),
                                IF group.megatron THEN RankInfo(group, r).dp ELSE r)]
         /\ answer' = [r \in {} |-> <<>>]

Begin(how) ==
    /\ stage = "ready" /\ calls < MaxCalls
    /\ calls' = calls + 1
    /\ asked' = [how |-> how, rows |-> rows]
    /\ UNCHANGED <<group, out>>

\* A batch as it is.
CallPlain ==
    /\ Begin("plain")
    /\ Send(rows, FALSE)
    /\ strip' = [dispatch |-> 0, driver |-> 0]
    /\ UNCHANGED rows

\* The driver pads a copy to the world size and unpads the result.
CallPadded ==
    /\ Begin("padded")
    /\ Send(PaddedToDivisor(rows, WorldSize(group)), FALSE)
    /\ strip' = [dispatch |-> 0, driver |-> PadSize(Len(rows), WorldSize(group))]
    /\ UNCHANGED rows

\* Auto padding of a positional argument, in place: the driver's batch keeps the
\* rows.
CallAuto ==
    /\ ~group.megatron
    /\ Begin("auto")
    /\ LET n == PadSize(Len(rows), NumChunks(group)) IN
       /\ rows' = PaddedWithLast(rows, n)
       /\ Send(rows', TRUE)
       /\ strip' = [dispatch |-> n, driver |-> 0]

\* Auto padding of a keyword argument: the size is computed without the case of
\* a batch that divides, and recorded, and no row is added.
CallKeyword ==
    /\ ~group.megatron
    /\ Begin("keyword")
    /\ Send(rows, TRUE)
    /\ strip' = [dispatch |-> NumChunks(group) - (Len(rows) % NumChunks(group)), driver |-> 0]
    /\ UNCHANGED rows

\* Megatron's dispatch adds no padding, for positional and keyword arguments
\* alike: where it is enabled it only keeps the cut from insisting on equal
\* pieces.
CallUneven ==
    /\ group.megatron
    /\ Begin("uneven")
    /\ Send(rows, TRUE)
    /\ strip' = [dispatch |-> 0, driver |-> 0]
    /\ UNCHANGED rows

\* A rank answers.
Work(r) ==
    /\ stage = "called" /\ r \notin DOMAIN answer
    /\ answer' = [q \in DOMAIN answer \cup {r} |-> IF q = r THEN share[r] ELSE answer[q]]
    /\ UNCHANGED <<group, rows, stage, calls, share, strip, asked, out>>

\* Fault: the context-parallel ranks are all collected.
CollectsEachContext(r) ==
    group.megatron => LET i == RankInfo(group, r) IN i.tp = 0 /\ i.pp = group.pp - 1

\* collect_megatron_compute takes one rank of each data-parallel rank, the
\* others every rank.
Collects(r) ==
    group.megatron =>
        LET i == RankInfo(group, r) IN i.tp = 0 /\ i.pp = group.pp - 1 /\ i.cp = 0

Without(batch, n) == SubSeq(batch, 1, Len(batch) - n)

\* Every rank has answered: the answers of the collected ranks in the order of
\* the ranks, without the padding of the dispatch and then the driver's.
Collect ==
    /\ stage = "called" /\ DOMAIN answer = RanksOf(group)
    /\ LET from == { r \in RanksOf(group) : Collects(r) }
           collected == Ordered(from, LessThan(from))
           all == FlattenSeq([i \in DOMAIN collected |-> answer[collected[i]]])
       IN  out' = Without(Without(all, strip.dispatch), strip.driver)
    /\ stage' = "back"
    /\ UNCHANGED <<group, rows, calls, share, answer, strip, asked>>

\* The driver goes on with the same batch.
Take ==
    /\ stage = "back"
    /\ stage' = "ready"
    /\ share' = <<>> /\ answer' = <<>> /\ out' = <<>>
    /\ UNCHANGED <<group, rows, calls, strip, asked>>

DispatchStep ==
    \/ CallPlain \/ CallPadded \/ CallAuto \/ CallKeyword \/ CallUneven
    \/ Collect \/ Take
    \/ \E r \in RanksOf(group) : Work(r)

--------------------------------------------------------------------------------
\* Each row of the batch comes back once and in its place, whatever the number
\* of rows, the shape of the group, the order in which ranks answer and the way
\* of padding, also when the batch was padded for an earlier call.  The ranks
\* have had equal shares, but for a Megatron group with padding enabled, where
\* each has had a row at least.  The call raises only where a batch does not
\* divide and nobody pads it, or a rank of such a group would have had no row.
\* Auto padding of keyword arguments is left out: there rows are lost
\* (decorator.py:77-133, 154-250, ray/base.py:44-62).
RowsComeBack ==
    asked.how # "keyword" =>
        /\ stage = "back" => out = asked.rows
        /\ stage = "called" => \A r, q \in RanksOf(group) :
             IF asked.how = "uneven" THEN share[r] # <<>> ELSE Len(share[r]) = Len(share[q])
        /\ stage = "raised" =>
             LET c == NumChunks(group)
             IN  \/ asked.how = "plain" /\ Len(rows) % c # 0
                 \/ asked.how = "uneven" /\ (c - 1) * ChunkSize(Len(rows), c) >= Len(rows)
================================================================================
