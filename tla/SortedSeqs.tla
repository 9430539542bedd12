------------------------------- MODULE SortedSeqs -------------------------------
(***************************************************************************)
(* Python's sorted() and list comprehensions with a condition, as the      *)
(* trainer and the balancing use them.  Each element is put at the place   *)
(* the elements before it leave for it, so that no definition recurs and   *)
(* what they return can be proved (SequenceLemmas).                        *)
(***************************************************************************)
EXTENDS Integers, Sequences, FiniteSets

\* The elements of the finite set S in the order of R, a set of pairs that
\* orders S strictly and totally.
Ordered(S, R) ==
    [n \in 1 .. Cardinality(S) |->
        CHOOSE x \in S : Cardinality({ y \in S : <<y, x>> \in R }) = n - 1]

LessThan(P) == { p \in P \X P : p[1] < p[2] }

\* The elements of q at the positions P, in their order.
Kept(q, P) ==
    LET at == Ordered(P, LessThan(P)) IN [n \in 1 .. Cardinality(P) |-> q[at[n]]]

\* q with its positions in the order of R.
Arranged(q, R) ==
    LET at == Ordered(DOMAIN q, R) IN [n \in DOMAIN q |-> q[at[n]]]

\* The positions of q by their integer keys, those with equal keys in order.
ByKey(q, key) ==
    { p \in (DOMAIN q) \X (DOMAIN q) :
        key[p[1]] < key[p[2]] \/ (key[p[1]] = key[p[2]] /\ p[1] < p[2]) }

\* The stable sort of q, where key[i] is the key of q[i].
StableSort(q, key) == Arranged(q, ByKey(q, key))
================================================================================
