---------------------------- MODULE PackSamplerLen ----------------------------
(***************************************************************************)
(* __len__ of the sampler: it counts the batches still to come by running  *)
(* the packing rules once more over the group sizes, a second copy of the  *)
(* loop of __iter__ that has to agree with it.                             *)
(***************************************************************************)
EXTENDS PackSampler

\* Fault: a group that does not fit does not end the batch before it.
LenStepMerges(acc, g, b) ==
    LET n == acc.rows + Size[g]
    IN IF n >= b THEN [cnt |-> acc.cnt + 1, rows |-> 0] ELSE [acc EXCEPT !.rows = n]

\* One group of the simulation, after the batches counted so far (cnt) and
\* with rows pending, under batch size b.
LenStep(acc, g, b) ==
    LET flushed == IF acc.rows > 0 /\ Size[g] > b - acc.rows
                   THEN [cnt |-> acc.cnt + 1, rows |-> 0] ELSE acc
        n == flushed.rows + Size[g]
    IN IF n >= b THEN [cnt |-> flushed.cnt + 1, rows |-> 0]
                 ELSE [flushed EXCEPT !.rows = n]

\* __len__ with the cursor at c in order o and r rows pending: sim[k] is the
\* simulation behind the k-th group of the order.
LenFrom(o, c, r, b) ==
    LET sim[k \in c - 1 .. NumGroups] ==
            IF k = c - 1 THEN [cnt |-> 0, rows |-> r] ELSE LenStep(sim[k - 1], o[k], b)
        end == sim[NumGroups]
    IN IF end.rows > 0 THEN end.cnt + 1 ELSE end.cnt

\* Where __len__ raises ValueError instead.
LenRaises(o, c, b) ==
    ~ allow /\ \E k \in c .. NumGroups : Size[o[k]] > b

len == LenFrom(order, cursor, pending.rows, bsz)

\* Every yield takes one off __len__, in whichever generator it happens: the
\* two copies of the packing rules agree at every cursor.  So the number of
\* batches fit() announces for its progress bar is the number it gets, in the
\* first epoch; before a later one the sampler is exhausted, and __len__ is 0.
LenCountsYields ==
    [][running # NoIter /\ cursor' # cursor /\ out' # NoBatch /\ ~ LenRaises(order, cursor, bsz)
         => LenFrom(order', cursor', pending'.rows, bsz') = len - 1]_vars
=============================================================================
