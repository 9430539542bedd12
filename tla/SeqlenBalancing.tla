--------------------------- MODULE SeqlenBalancing ---------------------------
(***************************************************************************)
(* One call of get_seqlen_balanced_partitions                              *)
(* (verl/utils/seqlen_balancing.py), by which _balance_batch orders a      *)
(* batch so that the ranks get similar loads (equal_size) and              *)
(* rearrange_micro_batches cuts a rank's rows into micro-batches: the      *)
(* differencing of Karmarkar and Karp over a heap of partial partitions,   *)
(* two of which are merged at each step, largest set to smallest.          *)
(*                                                                         *)
(* A set of the algorithm is the sequence of its rows in the order in      *)
(* which they were added; a partial partition (State) is a sequence of k   *)
(* sets, largest first.                                                    *)
(***************************************************************************)
EXTENDS Integers, Sequences, FiniteSets, SequencesExt, SortedSeqs

CONSTANTS
    MaxRows,    \* bound on the rows of the batch
    MaxLen,     \* bound on the length of a row
    Parts       \* values of k_partitions

ASSUME BalancingAssumption ==
    MaxRows \in Nat /\ MaxLen \in Nat /\ Parts \subseteq Nat \ {0}

VARIABLES
    lens,       \* seqlen_list
    k,          \* k_partitions
    equal,      \* equal_size
    heap,       \* states_pq, as a set: no two states compare alike
    pc,         \* "merging", "done", "raised" by an assertion, or "skipped"
    partition   \* the result

input == <<lens, k, equal>>
vars == <<input, heap, pc, partition>>

Rows == DOMAIN lens
SumOf(rows) ==
    LET sum[i \in 0 .. Len(rows)] == IF i = 0 THEN 0 ELSE sum[i - 1] + lens[rows[i]]
    IN  sum[Len(rows)]

\* Set.__lt__, turned around: by sum, then size, then the first row added.
Larger(a, b) ==
    \/ SumOf(a) > SumOf(b)
    \/ SumOf(a) = SumOf(b) /\ Len(a) > Len(b)
    \/ SumOf(a) = SumOf(b) /\ Len(a) = Len(b) /\ a # <<>> /\ a[1] > b[1]

Spread(st) == SumOf(st[1]) - SumOf(st[k])

\* State.__lt__: the state of the largest spread leaves the heap first, of two
\* alike the one with the larger largest set.
PopsBefore(st, other) ==
    \/ Spread(st) > Spread(other)
    \/ Spread(st) = Spread(other) /\ Larger(st[1], other[1])

First(states) == CHOOSE st \in states : \A other \in states \ {st} : PopsBefore(st, other)

\* The positions of the sets in q, the largest set first: sorted(sets, reverse=True).
BySize(q) ==
    { p \in (DOMAIN q) \X (DOMAIN q) :
        Larger(q[p[1]], q[p[2]]) \/ (~ Larger(q[p[2]], q[p[1]]) /\ p[1] < p[2]) }

\* A new state of up to k rows, in sets of one row or none.
NewState(rows) ==
    LET sets == [i \in 1 .. k |-> IF i <= Len(rows) THEN <<rows[i]>> ELSE <<>>]
    IN  Arranged(sets, BySize(sets))

\* The rows by length, of two alike the earlier row first.
SortedRows == StableSort([i \in Rows |-> i], lens)

\* With equal_size each state starts from k rows in the order of their
\* lengths, otherwise from one row.
InitialHeap ==
    IF equal
    THEN { NewState(SubSeq(SortedRows, k * g + 1, k * g + k)) : g \in 0 .. Len(lens) \div k - 1 }
    ELSE { NewState(<<row>>) : row \in Rows }

TypeOK ==
    /\ lens \in UNION { [1 .. n -> 1 .. MaxLen] : n \in 1 .. MaxRows }
    /\ k \in Parts \cup {1} /\ equal \in BOOLEAN
    /\ \A st \in heap : st \in [1 .. k -> Seq(Rows)]
    /\ pc \in {"merging", "done", "raised", "skipped"}
    /\ partition \in Seq(Seq(Rows))

\* Callers keep k_partitions within the number of rows, and a divisor of it
\* where they ask for parts of equal size; no row is empty.
Init ==
    /\ k \in Parts /\ equal \in BOOLEAN
    /\ lens \in UNION { [1 .. n -> 1 .. MaxLen] : n \in k .. MaxRows }
    /\ equal => Len(lens) % k = 0
    /\ heap = InitialHeap
    /\ pc = "merging" /\ partition = <<>>
-----------------------------------------------------------------------------
\* Fault: the other state's sets are added largest to largest.
MergedSameOrder(st, other) ==
    LET sets == [i \in 1 .. k |-> st[i] \o other[i]] IN Arranged(sets, BySize(sets))

Merged(st, other) ==
    LET sets == [i \in 1 .. k |-> st[i] \o other[k + 1 - i]] IN Arranged(sets, BySize(sets))

Merge ==
    /\ pc = "merging" /\ Cardinality(heap) > 1
    /\ LET st == First(heap)
           other == First(heap \ {st})
       IN  heap' = (heap \ {st, other}) \cup {Merged(st, other)}
    /\ UNCHANGED <<input, pc, partition>>

\* The assertions on the result: parts of equal size if asked for, none empty.
Accepted(st) ==
    /\ equal => \A i \in 1 .. k : Len(st[i]) * k = Len(lens)
    /\ \A i \in 1 .. k : st[i] # <<>>

\* The rows of each part are put in order.
Return ==
    /\ pc = "merging" /\ Cardinality(heap) = 1
    /\ LET st == First(heap)
       IN  IF Accepted(st)
           THEN /\ pc' = "done"
                /\ partition' = [i \in 1 .. k |-> StableSort(st[i], st[i])]
           ELSE pc' = "raised" /\ UNCHANGED partition
    /\ UNCHANGED <<input, heap>>

Next == Merge \/ Return

Spec == Init /\ [][Next]_vars
-----------------------------------------------------------------------------
(* What the callers make of the result.                                    *)

\* The order in which _balance_batch puts the batch, and rearrange_micro_batches
\* the rows of its micro-batches.
Order == FlattenSeq(partition)

\* DataProto.chunk: the rows the dispatch hands to rank i.
Chunk(rows, i) ==
    LET size == Len(rows) \div k IN SubSeq(rows, (i - 1) * size + 1, i * size)

\* Fault: the mapping is applied again instead of its inverse.
ForwardIdx(rows) == rows

\* get_reverse_idx, by which log_probs computed per micro-batch are put back.
ReverseIdx(rows) ==
    [row \in DOMAIN rows |-> CHOOSE i \in DOMAIN rows :
        rows[i] = row /\ \A later \in i + 1 .. Len(rows) : rows[later] # row]

Total == SumOf([i \in Rows |-> i])
Longest == CHOOSE n \in { lens[row] : row \in Rows } : \A row \in Rows : lens[row] <= n

\* rearrange_micro_batches: min(rows, ceildiv(total, max_token_len)).
NumMicroBatches(limit) ==
    LET n == (Total + limit - 1) \div limit IN IF n < Len(lens) THEN n ELSE Len(lens)
-----------------------------------------------------------------------------
(* Properties.                                                             *)

\* No legal call trips the assertions on the result: every part has rows, and
\* as many as every other where that is asked for.
NeverRaises == pc # "raised"

\* Every row is in the result once: what was computed part by part is put back
\* in the order of the batch.
RestoresOrder ==
    pc = "done" =>
        /\ Len(Order) = Len(lens)
        /\ \A row \in Rows : Order[ReverseIdx(Order)[row]] = row

\* "such that each dp rank gets similar total tokens" (_balance_batch): once
\* the dispatch has cut the ordered batch, no rank has more tokens than another
\* by more than the rows of some round differ, where a round is k rows that
\* follow each other by length; so the rounds' differences do not add up.  Parts
\* that may differ in size differ in tokens by no more than the longest row; so,
\* though max_token_len does not bound a micro-batch, none exceeds it by a whole
\* row of the greatest length where it decides their number.
Balanced ==
    pc = "done" =>
        IF equal
        THEN \A i, j \in 1 .. k : \E g \in 1 .. Len(lens) \div k :
                SumOf(Chunk(Order, i)) - SumOf(Chunk(Order, j))
                    <= lens[SortedRows[k * g]] - lens[SortedRows[k * g - k + 1]]
        ELSE /\ \A i, j \in 1 .. k : SumOf(partition[i]) - SumOf(partition[j]) <= Longest
             /\ \A limit \in Longest .. Total :
                    k = NumMicroBatches(limit) =>
                        \A i \in 1 .. k : SumOf(partition[i]) < limit + Longest
=============================================================================
