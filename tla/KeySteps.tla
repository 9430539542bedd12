------------------------------- MODULE KeySteps -------------------------------
(***************************************************************************)
(* The selection of critical ("key") steps in                              *)
(* verl/trainer/ppo/ray_trainer_all.py: _compress_records_for_diff,        *)
(* _select_key_steps_by_diff, _desired_judging_steps, the choice made by   *)
(* _filter_batch_index_replay, and the ranking by which fit() orders the   *)
(* update stage.                                                           *)
(*                                                                         *)
(* A row of the dataset is <<s, j>>: sample s with its reasoning truncated *)
(* before step j; j = 0 is the untruncated baseline.  The mean score of a  *)
(* row's rollouts is an integer m standing for m/8: one rollout scores 0   *)
(* or 1 and rollout_n is 8.                                                *)
(***************************************************************************)
EXTENDS Integers, Sequences, FiniteSets, SequencesExt, SortedSeqs

Full == 8
Means == 0 .. Full

\* dict.fromkeys: the first occurrences of q, in order.
FirstOccurrences(q) == Kept(q, { i \in DOMAIN q : \A k \in 1 .. i - 1 : q[k] # q[i] })

\* One record per judging step, the baseline first and then descending.
\* (Rows repeated by padding share a record, whose mean is theirs averaged.)
Records(J) == Ordered(J, { p \in J \X J : p[2] # 0 /\ (p[1] = 0 \/ p[1] > p[2]) })

\* The divergence p log(p/c) + (1-p) log((1-p)/(1-c)) of a record's mean c
\* from the previous record's mean p, in units of 10^-4.  Both means are
\* clamped to [10^-6, 1 - 10^-6] first and then p to at least 1/100, which
\* is why a pair of zeros has one.  Row p + 1, column c + 1.
Divergence ==
  << <<   822,     0,     0,    0,    0,    0,    0,    0>>,
     << 13502,     0,     0,    0,    0,    0,    0,    0>>,
     << 28915,   577,     0,    0,    0,    0,    0,    0>>,
     << 45193,  2017,   381,    0,    0,    0,    0,    0>>,
     << 62146,  4133,  1438,  323,    0,    0,    0,    0>>,
     << 79731,  6882,  3128, 1277,  316,    0,    0,    0>>,
     << 97993, 10306,  5493, 2908, 1308,  354,    0,    0>>,
     <<117118, 14594,  8722, 5402, 3164, 1571,  482,    0>>,
     <<138155, 20794, 13863, 9808, 6931, 4700, 2877, 1335>> >>

\* Fault: a rise of the mean counts as much as a fall.
DiffAbsolute(p, c) ==
    IF c = Full THEN 0
    ELSE IF p < c THEN Divergence[c + 1][p + 1] ELSE Divergence[p + 1][c + 1]

\* diff_metric: none where the current record is solved or the mean rose.
Diff(p, c) == IF c = Full \/ p < c THEN 0 ELSE Divergence[p + 1][c + 1]

\* Fault: the first record is compared with itself.
DiffsWithFirst(mean) ==
    LET recs == Records(DOMAIN mean)
        prev(i) == IF i = 1 THEN 1 ELSE i - 1
    IN  [i \in DOMAIN recs |->
           [step |-> recs[i], diff |-> Diff(mean[recs[prev(i)]], mean[recs[i]])]]

\* Every record but the first, with its divergence from the one before.
Diffs(mean) ==
    LET recs == Records(DOMAIN mean)
    IN  [i \in 1 .. Len(recs) - 1 |->
           [step |-> recs[i + 1], diff |-> Diff(mean[recs[i]], mean[recs[i + 1]])]]

\* Fault: the steps are returned in the order of the records.
SelectUnsorted(mean, k) ==
    LET d == Diffs(mean)
        q == StableSort(d, [i \in DOMAIN d |-> 0 - d[i].diff])
        top == [i \in 1 .. IF k < Len(q) THEN k ELSE Len(q) |-> q[i].step]
    IN  StableSort(top, [i \in DOMAIN top |-> 0 - top[i]])

\* The steps of the k largest divergences, largest first, earlier records
\* first among equals.
SelectKeySteps(mean, k) ==
    LET d == Diffs(mean)
        q == StableSort(d, [i \in DOMAIN d |-> 0 - d[i].diff])
    IN  [i \in 1 .. IF k < Len(q) THEN k ELSE Len(q) |-> q[i].step]

\* Only rows truncated before a step can be trained on.
Desired(steps) == Kept(steps, { i \in DOMAIN steps : steps[i] >= 1 })

\* _filter_batch_index_replay: sample by sample in the order in which they
\* first appear among the rows, the rows of the sample's key steps in the
\* order of the steps, repeated rows once.
FilterRows(rows, keys) ==
    LET sids == FirstOccurrences([i \in DOMAIN rows |-> rows[i][1]])
        wanted(s) == [i \in DOMAIN Desired(keys[s]) |-> <<s, Desired(keys[s])[i]>>]
        present(s) == Kept(wanted(s), { i \in DOMAIN wanted(s) :
                                          \E m \in DOMAIN rows : rows[m] = wanted(s)[i] })
    IN  FlattenSeq([i \in DOMAIN sids |-> present(sids[i])])

\* _rank_by_diff_order: the place of a step in the sample's recorded key
\* steps, behind all of them for any other step.
Rank(j, steps) ==
    IF \E i \in DOMAIN steps : steps[i] = j
    THEN CHOOSE i \in DOMAIN steps : steps[i] = j
    ELSE Len(steps) + 1

\* The rows of sample s in the replay buffer, ranked by the recorded steps,
\* one row of each step.
SampleItems(buffer, s, steps) ==
    LET own == Kept(buffer, { i \in DOMAIN buffer : buffer[i][1] = s })
        ranks == [i \in DOMAIN own |-> Rank(own[i][2], steps)]
    IN  FirstOccurrences(StableSort(own, ranks))
=============================================================================
