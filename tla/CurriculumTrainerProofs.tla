------------------------- MODULE CurriculumTrainerProofs -------------------------
(***************************************************************************)
(* Which steps the selection returns (KeyStepSelection), for any scores,   *)
(* and what the trainer makes of them (CurriculumTrainer), for any         *)
(* samples, batches, warmup, epochs, saves and crashes.                    *)
(***************************************************************************)
EXTENDS CurriculumTrainer, KeyStepSelection, SequenceLemmas
-----------------------------------------------------------------------------
(* The divergence.                                                         *)

LEMMA DivergenceRows ==
    \A p \in 0 .. 8 : \A c \in 0 .. 7 :
        Divergence[p + 1][c + 1] \in Nat /\ (p > c => Divergence[p + 1][c + 1] # 0)
<1>1. \A p \in 0 .. 8 : p = 0 \/ p = 1 \/ p = 2 \/ p = 3 \/ p = 4 \/ p = 5 \/ p = 6 \/ p = 7 \/ p = 8
  OBVIOUS
<1>2. \A c \in 0 .. 7 : c = 0 \/ c = 1 \/ c = 2 \/ c = 3 \/ c = 4 \/ c = 5 \/ c = 6 \/ c = 7
  OBVIOUS
<1> QED
  BY <1>1, <1>2 DEF Divergence

\* The divergence is none exactly where the step is solved or no worse.
LEMMA DiffProperties ==
    ASSUME NEW p \in Means, NEW c \in Means
    PROVE  /\ Diff(p, c) \in Nat
           /\ c = Full \/ p < c => Diff(p, c) = 0
           /\ Diff(p, c) = 0 => c = Full \/ p <= c
<1>1. p \in 0 .. 8 /\ c \in 0 .. 8 /\ Full = 8
  BY DEF Means, Full
<1>2. CASE c = Full \/ p < c
  <2>1. Diff(p, c) = 0
    BY <1>2 DEF Diff
  <2> QED
    BY <1>1, <1>2, <2>1
<1>3. CASE ~ (c = Full \/ p < c)
  <2>1. c \in 0 .. 7 /\ p >= c
    BY <1>1, <1>3
  <2>2. Diff(p, c) = Divergence[p + 1][c + 1]
    BY <1>3 DEF Diff
  <2>3. Diff(p, c) \in Nat /\ (p > c => Diff(p, c) # 0)
    BY <1>1, <2>1, <2>2, DivergenceRows
  <2> QED
    BY <1>1, <1>3, <2>1, <2>3
<1> QED
  BY <1>2, <1>3
-----------------------------------------------------------------------------
(* The records.                                                            *)

\* The pairs of steps of J whose records follow each other at any distance.
Follows(J) == { p \in J \X J : p[2] # 0 /\ (p[1] = 0 \/ p[1] > p[2]) }

\* The records, the baseline before all others and these descending.
InOrder(J, recs) ==
    /\ Cardinality(J) \in Nat
    /\ recs \in [1 .. Cardinality(J) -> J]
    /\ \A j \in J : \E n \in 1 .. Cardinality(J) : recs[n] = j
    /\ \A m, n \in 1 .. Cardinality(J) :
         m < n => recs[n] # 0 /\ (recs[m] = 0 \/ recs[m] > recs[n])

LEMMA RecordsInOrder ==
    ASSUME NEW J \in SUBSET Nat, IsFiniteSet(J)
    PROVE  InOrder(J, Records(J))
<1> DEFINE R == Follows(J)
<1>1. \A x, y \in J : <<x, y>> \in R <=> y # 0 /\ (x = 0 \/ x > y)
  BY DEF Follows
<1>2. OrdersStrictly(J, R)
  <2>1. \A x \in J : <<x, x>> \notin R
    BY <1>1
  <2>2. \A x, y \in J : x # y => <<x, y>> \in R \/ <<y, x>> \in R
    BY <1>1
  <2>3. \A x, y, z \in J : <<x, y>> \in R /\ <<y, z>> \in R => <<x, z>> \in R
    BY <1>1
  <2> HIDE DEF R
  <2> QED
    BY <2>1, <2>2, <2>3 DEF OrdersStrictly
<1>3. Records(J) = Ordered(J, R)
  BY DEF Records, Follows
<1> HIDE DEF R
<1>4. /\ Cardinality(J) \in Nat
      /\ Ordered(J, R) \in [1 .. Cardinality(J) -> J]
      /\ \A x \in J : \E n \in 1 .. Cardinality(J) : Ordered(J, R)[n] = x
      /\ \A m, n \in 1 .. Cardinality(J) :
           m < n => <<Ordered(J, R)[m], Ordered(J, R)[n]>> \in R
  BY <1>2, OrderedEnumerates
<1> QED
  BY <1>1, <1>3, <1>4 DEF InOrder

\* Of n records all but the first are compared, each with the one before it.
LEMMA RecordsCompared ==
    ASSUME NEW recs, InOrder(Present, recs), Present \subseteq Nat,
           NEW N, N = Cardinality(Present)
    PROVE  /\ \A i \in 1 .. N - 1 :
                recs[i + 1] \in Comparable /\ Before(recs[i + 1]) = recs[i]
           /\ \A j \in Comparable : \E i \in 1 .. N - 1 : recs[i + 1] = j
<1>1. /\ N \in Nat /\ recs \in [1 .. N -> Present]
      /\ \A j \in Present : \E n \in 1 .. N : recs[n] = j
      /\ \A m, n \in 1 .. N : m < n => recs[n] # 0 /\ (recs[m] = 0 \/ recs[m] > recs[n])
  BY DEF InOrder
<1>2. ASSUME NEW i \in 1 .. N - 1
      PROVE  recs[i + 1] \in Comparable /\ Before(recs[i + 1]) = recs[i]
  <2> DEFINE j == recs[i + 1]
             p == recs[i]
  <2>1. i \in 1 .. N /\ i + 1 \in 1 .. N /\ i < i + 1
    BY <1>1
  <2>2. j \in Present /\ p \in Present /\ j \in Nat /\ p \in Nat /\ j # 0 /\ (p = 0 \/ p > j)
    BY <1>1, <2>1
  <2>3. \A m \in Present : m > j => p # 0 /\ p <= m
    <3>1. SUFFICES ASSUME NEW m \in Present, m > j PROVE p # 0 /\ p <= m
      OBVIOUS
    <3>2. PICK n \in 1 .. N : recs[n] = m
      BY <1>1
    <3>3. m \in Nat /\ m # 0
      BY <2>2, <3>1
    <3>4. ~ (i + 1 < n)
      <4>1. SUFFICES ASSUME i + 1 < n PROVE FALSE
        OBVIOUS
      <4>2. j = 0 \/ j > m
        BY <1>1, <2>1, <3>2, <4>1
      <4> QED
        BY <2>2, <3>1, <3>3, <4>2
    <3>5. n # i + 1
      BY <2>2, <3>1, <3>2, <3>3
    <3>6. n = i \/ n < i
      BY <2>1, <3>4, <3>5
    <3>7. CASE n = i
      BY <2>2, <3>2, <3>3, <3>7
    <3>8. CASE n < i
      <4>1. p # 0 /\ (m = 0 \/ m > p)
        BY <1>1, <2>1, <3>2, <3>8
      <4> QED
        BY <2>2, <3>3, <4>1
    <3> QED
      BY <3>6, <3>7, <3>8
  <2> HIDE DEF j, p
  <2>4. Before(j) = p
    <3>1. CASE p = 0
      BY <2>3, <3>1 DEF Before
    <3>2. CASE p > j
      <4>1. p \in Present /\ p > j /\ \A m \in Present : m > j => p <= m
        BY <2>2, <2>3, <3>2
      <4>2. \A x \in Present : (x > j /\ \A m \in Present : m > j => x <= m) => x = p
        <5>1. \A x, y \in Nat : x <= y /\ y <= x => x = y
          OBVIOUS
        <5> QED
          BY <4>1, <5>1
      <4>3. (CHOOSE x \in Present : x > j /\ \A m \in Present : m > j => x <= m) = p
        BY <4>1, <4>2
      <4> QED
        BY <4>1, <4>3 DEF Before
    <3> QED
      BY <2>2, <3>1, <3>2
  <2>5. j \in Comparable
    BY <2>2, <2>4 DEF Comparable
  <2> QED
    BY <2>4, <2>5 DEF j, p
<1>3. ASSUME NEW j \in Comparable
      PROVE  \E i \in 1 .. N - 1 : recs[i + 1] = j
  <2>1. j \in Present /\ j \in Nat /\ j # 0 /\ Before(j) \in Present
    BY DEF Comparable
  <2>2. PICK n \in 1 .. N : recs[n] = j
    BY <1>1, <2>1
  <2>3. n # 1
    <3>1. SUFFICES ASSUME n = 1 PROVE FALSE
      OBVIOUS
    <3>2. ASSUME NEW m \in Present
          PROVE  m # 0 /\ ~ (m > j)
      <4>1. PICK k \in 1 .. N : recs[k] = m
        BY <1>1
      <4>2. CASE k = 1
        BY <2>1, <2>2, <3>1, <4>1, <4>2
      <4>3. CASE k # 1
        <5>1. 1 \in 1 .. N /\ 1 < k
          BY <1>1, <4>3
        <5>2. m # 0 /\ (j = 0 \/ j > m)
          BY <1>1, <2>2, <3>1, <4>1, <5>1
        <5> QED
          BY <2>1, <5>2
      <4> QED
        BY <4>2, <4>3
    <3>3. Before(j) = 0
      BY <3>2 DEF Before
    <3> QED
      BY <2>1, <3>2, <3>3
  <2>4. n - 1 \in 1 .. N - 1 /\ (n - 1) + 1 = n
    BY <1>1, <2>3
  <2> QED
    BY <2>2, <2>4
<1> QED
  BY <1>2, <1>3
-----------------------------------------------------------------------------
(* The selection.                                                          *)

Smaller(a, b) == IF a < b THEN a ELSE b

\* The records compared, of those with steps J, and their divergences.
Compared(J) == IF J = {} THEN 0 ELSE Cardinality(J) - 1
Divergent(avg, i) ==
    Diff(avg[Records(DOMAIN avg)[i]], avg[Records(DOMAIN avg)[i + 1]])

LEMMA DiffsCompared ==
    ASSUME NEW J \in SUBSET Nat, IsFiniteSet(J), NEW avg \in [J -> Means],
           NEW M, M = Compared(J)
    PROVE  /\ M \in Nat
           /\ \A i \in 1 .. M : /\ i \in 1 .. Cardinality(J) /\ i + 1 \in 1 .. Cardinality(J)
                                /\ Divergent(avg, i) \in Nat
           /\ Diffs(avg) \in Seq([step : J, diff : Nat]) /\ Len(Diffs(avg)) = M
           /\ \A i \in 1 .. M : /\ Diffs(avg)[i].step = Records(J)[i + 1]
                                /\ Diffs(avg)[i].diff = Divergent(avg, i)
<1> DEFINE recs == Records(J)
           N == Cardinality(J)
           d == Diffs(avg)
<1>1. InOrder(J, recs)
  BY RecordsInOrder
<1>2. DOMAIN avg = J
  OBVIOUS
<1>3. d = [i \in 1 .. Len(recs) - 1 |->
             [step |-> recs[i + 1], diff |-> Diff(avg[recs[i]], avg[recs[i + 1]])]]
  BY <1>2 DEF Diffs
<1>4. \A i : Divergent(avg, i) = Diff(avg[recs[i]], avg[recs[i + 1]])
  BY <1>2 DEF Divergent
<1> HIDE DEF recs, d
<1>5. N \in Nat /\ recs \in [1 .. N -> J] /\ Len(recs) = N
  BY <1>1 DEF InOrder
<1>6. N = 0 <=> J = {}
  BY FS_EmptySet
<1>7. M \in Nat /\ (M = N - 1 \/ (N = 0 /\ M = 0))
  BY <1>5, <1>6 DEF Compared
<1>8. 1 .. Len(recs) - 1 = 1 .. M
  BY <1>5, <1>7
<1>9. ASSUME NEW i \in 1 .. M
      PROVE  /\ i \in 1 .. N /\ i + 1 \in 1 .. N
             /\ recs[i + 1] \in J /\ Divergent(avg, i) \in Nat
  <2>1. i \in 1 .. N /\ i + 1 \in 1 .. N
    <3>1. \A a, b \in Nat : (b = a - 1 \/ (a = 0 /\ b = 0)) =>
            \A n \in 1 .. b : n \in 1 .. a /\ n + 1 \in 1 .. a
      OBVIOUS
    <3> QED
      BY <1>5, <1>7, <3>1
  <2>2. recs[i] \in J /\ recs[i + 1] \in J
    BY <1>5, <2>1
  <2>3. avg[recs[i]] \in Means /\ avg[recs[i + 1]] \in Means
    BY <2>2
  <2> QED
    BY <1>4, <2>1, <2>2, <2>3, DiffProperties
<1>10. d = [i \in 1 .. M |-> [step |-> recs[i + 1], diff |-> Divergent(avg, i)]]
  BY <1>3, <1>4, <1>8
<1>11. \A i \in 1 .. M : d[i].step = recs[i + 1] /\ d[i].diff = Divergent(avg, i)
  BY <1>10
<1>12. d \in [1 .. M -> [step : J, diff : Nat]]
  BY <1>9, <1>10
<1>13. d \in Seq([step : J, diff : Nat]) /\ Len(d) = M
  <2> DEFINE T == [step : J, diff : Nat]
  <2>1. d \in [1 .. M -> T]
    BY <1>12
  <2> HIDE DEF T
  <2>2. d \in Seq(T) /\ Len(d) = M
    BY <1>7, <2>1
  <2> QED
    BY <2>2 DEF T
<1> QED
  BY <1>7, <1>9, <1>11, <1>13 DEF recs, d

\* at lists the M comparisons, the larger divergence first and of two alike
\* the earlier one.
Diverging(avg, M, at) ==
    /\ Permutes(at, M)
    /\ \A m, n \in 1 .. M : m < n =>
         \/ Divergent(avg, at[m]) > Divergent(avg, at[n])
         \/ Divergent(avg, at[m]) = Divergent(avg, at[n]) /\ at[m] < at[n]

\* steps has the steps of the first k of them, or of all if they are fewer.
Selects(avg, k, M, steps) ==
    /\ steps \in Seq(DOMAIN avg) /\ Len(steps) = Smaller(k, M)
    /\ \E at : /\ Diverging(avg, M, at)
               /\ \A n \in 1 .. Smaller(k, M) : steps[n] = Records(DOMAIN avg)[at[n] + 1]

LEMMA SelectionInOrder ==
    ASSUME NEW J \in SUBSET Nat, IsFiniteSet(J), NEW avg \in [J -> Means], NEW k \in Nat
    PROVE  Selects(avg, k, Compared(J), SelectKeySteps(avg, k))
<1> DEFINE M == Compared(J)
           T == [step : J, diff : Nat]
           d == Diffs(avg)
           key == [i \in DOMAIN d |-> 0 - d[i].diff]
           q == StableSort(d, key)
           L == Smaller(k, M)
           s == SelectKeySteps(avg, k)
<1>1. /\ M \in Nat /\ d \in Seq(T) /\ Len(d) = M
      /\ \A i \in 1 .. M : Divergent(avg, i) \in Nat
  BY DiffsCompared
<1>2. \A i \in 1 .. M : d[i].step = Records(J)[i + 1] /\ d[i].diff = Divergent(avg, i)
  BY DiffsCompared
<1>3. s = [i \in 1 .. Smaller(k, Len(q)) |-> q[i].step]
  BY DEF SelectKeySteps, Smaller
<1> HIDE DEF d
<1>4. DOMAIN d = 1 .. M /\ \A i \in 1 .. M : d[i] \in T /\ d[i].diff \in Nat
  <2>1. \A x \in T : x.diff \in Nat
    OBVIOUS
  <2> HIDE DEF T
  <2>2. DOMAIN d = 1 .. M /\ \A i \in 1 .. M : d[i] \in T
    BY <1>1
  <2> QED
    BY <2>1, <2>2
<1>5. key \in [DOMAIN d -> Int] /\ \A i \in 1 .. M : key[i] = 0 - d[i].diff
  BY <1>4
<1> HIDE DEF T, key
<1>6. SortedBy(T, d, key, q)
  BY <1>1, <1>5, StableSortSorts
<1>7. PICK at : /\ Permutes(at, M)
                /\ \A m, n \in 1 .. M : m < n =>
                     \/ key[at[m]] < key[at[n]]
                     \/ key[at[m]] = key[at[n]] /\ at[m] < at[n]
                /\ \A n \in 1 .. M : q[n] = d[at[n]]
  <2> HIDE DEF q
  <2> QED
    BY <1>1, <1>6 DEF SortedBy
<1>q. Len(q) = M
  BY <1>1, <1>6 DEF SortedBy
<1> HIDE DEF q, s
<1>8. \A n \in 1 .. M : at[n] \in 1 .. M
  BY <1>1, <1>7 DEF Permutes
<1>9. ASSUME NEW m \in 1 .. M, NEW n \in 1 .. M, m < n
      PROVE  \/ Divergent(avg, at[m]) > Divergent(avg, at[n])
             \/ Divergent(avg, at[m]) = Divergent(avg, at[n]) /\ at[m] < at[n]
  <2>1. /\ key[at[m]] = 0 - Divergent(avg, at[m]) /\ Divergent(avg, at[m]) \in Nat
        /\ key[at[n]] = 0 - Divergent(avg, at[n]) /\ Divergent(avg, at[n]) \in Nat
    BY <1>1, <1>2, <1>5, <1>8
  <2>2. \/ key[at[m]] < key[at[n]]
        \/ key[at[m]] = key[at[n]] /\ at[m] < at[n]
    BY <1>1, <1>7, <1>9
  <2> QED
    BY <2>1, <2>2
<1>10. Diverging(avg, M, at)
  BY <1>1, <1>7, <1>9 DEF Diverging
<1>11. L \in Nat /\ 1 .. L \subseteq 1 .. M /\ s = [i \in 1 .. L |-> q[i].step]
  BY <1>1, <1>3, <1>q DEF Smaller
<1>12. \A n \in 1 .. L : s[n] = Records(J)[at[n] + 1] /\ s[n] \in J
  <2>1. SUFFICES ASSUME NEW n \in 1 .. L PROVE s[n] = Records(J)[at[n] + 1] /\ s[n] \in J
    OBVIOUS
  <2>2. n \in 1 .. M /\ at[n] \in 1 .. M /\ s[n] = q[n].step /\ q[n] = d[at[n]]
    BY <1>1, <1>7, <1>8, <1>11
  <2>3. d[at[n]].step \in J
    BY <1>4, <2>2 DEF T
  <2> QED
    BY <1>2, <2>2, <2>3
<1>13. s \in Seq(J) /\ Len(s) = L
  BY <1>11, <1>12
<1>14. Selects(avg, k, M, s)
  BY <1>10, <1>12, <1>13 DEF Selects
<1> QED
  BY <1>14 DEF s

\* The lists of key steps of a sample with the judging steps J.
StepLists(J, k) == { q \in Seq(J \ {0}) : Distinct(q) /\ Len(q) <= k }

LEMMA SelectionDistinct ==
    ASSUME NEW J \in SUBSET Nat, IsFiniteSet(J), NEW avg \in [J -> Means], NEW k \in Nat
    PROVE  SelectKeySteps(avg, k) \in StepLists(J, k)
<1> DEFINE M == Compared(J)
           N == Cardinality(J)
           s == SelectKeySteps(avg, k)
           recs == Records(J)
<1>s. Selects(avg, k, M, s) /\ DOMAIN avg = J
  BY SelectionInOrder
<1>1. PICK at : /\ Diverging(avg, M, at)
                /\ \A n \in 1 .. Smaller(k, M) : s[n] = recs[at[n] + 1]
  BY <1>s DEF Selects
<1>2. s \in Seq(J) /\ Len(s) = Smaller(k, M)
  BY <1>s DEF Selects
<1>3. M \in Nat /\ \A i \in 1 .. M : i \in 1 .. N /\ i + 1 \in 1 .. N
  BY DiffsCompared
<1>4. InOrder(J, recs)
  BY RecordsInOrder
<1> HIDE DEF M, s, recs
<1>5. Len(s) \in Nat /\ Len(s) <= k /\ \A n \in 1 .. Len(s) : n \in 1 .. M
  BY <1>2, <1>3 DEF Smaller
<1>6. \A m, n \in 1 .. N : recs[m] = recs[n] => m = n
  <2>1. \A m \in 1 .. N : recs[m] \in Nat
    BY <1>4 DEF InOrder
  <2>2. \A m, n \in 1 .. N : m < n => recs[n] # 0 /\ (recs[m] = 0 \/ recs[m] > recs[n])
    BY <1>4 DEF InOrder
  <2> QED
    BY <2>1, <2>2
<1>7. \A n \in 1 .. Len(s) : at[n] \in 1 .. M /\ s[n] = recs[at[n] + 1]
  BY <1>1, <1>2, <1>5 DEF Diverging, Permutes
<1>8. \A n \in 1 .. Len(s) : s[n] # 0
  <2>1. SUFFICES ASSUME NEW n \in 1 .. Len(s) PROVE s[n] # 0
    OBVIOUS
  <2>2. at[n] \in 1 .. N /\ at[n] + 1 \in 1 .. N /\ at[n] < at[n] + 1
    BY <1>3, <1>7
  <2> QED
    BY <1>4, <1>7, <2>2 DEF InOrder
<1>9. Distinct(s)
  <2>1. ASSUME NEW m \in 1 .. Len(s), NEW n \in 1 .. Len(s), s[m] = s[n]
        PROVE  m = n
    <3>1. at[m] \in 1 .. M /\ at[n] \in 1 .. M /\ recs[at[m] + 1] = recs[at[n] + 1]
      BY <1>7, <2>1
    <3>2. at[m] + 1 = at[n] + 1
      BY <1>3, <1>6, <3>1
    <3> QED
      BY <1>1, <1>5, <3>1, <3>2 DEF Diverging, Permutes
  <2> QED
    BY <1>2, <2>1 DEF Distinct
<1>10. s \in Seq(J \ {0})
  BY <1>2, <1>8
<1> QED
  BY <1>5, <1>9, <1>10 DEF StepLists, s
-----------------------------------------------------------------------------
(* What a call of the selection returns.                                   *)

\* The inductive invariant: what was put in is a sample's scores, and what came
\* out is their selection.
SelectionInv ==
    /\ Present \in SUBSET Nat /\ IsFiniteSet(Present) /\ Present # {}
    /\ mean \in [Present -> Means] /\ topK \in Nat
    /\ called \in BOOLEAN
    /\ ~ called => keySteps = <<>>
    /\ called => keySteps = SelectKeySteps(mean, topK)

LEMMA SelectionInvInit == SelectionInit => SelectionInv
<1> SUFFICES ASSUME SelectionInit PROVE SelectionInv
  OBVIOUS
<1>1. PICK J \in SUBSET (0 .. MaxSteps) : J # {} /\ mean \in [J -> Means]
  BY DEF SelectionInit
<1>2. IsFiniteSet(0 .. MaxSteps)
  BY SelectionAssumption, FS_Interval
<1>3. IsFiniteSet(J) /\ Present = J
  BY <1>1, <1>2, FS_Subset DEF Present
<1>4. J \in SUBSET Nat
  BY SelectionAssumption
<1>5. topK \in Nat /\ called = FALSE /\ keySteps = <<>>
  BY SelectionAssumption DEF SelectionInit
<1>6. called \in BOOLEAN /\ (~ called => keySteps = <<>>)
  BY <1>5
<1>7. called => keySteps = SelectKeySteps(mean, topK)
  BY <1>5
<1>8. J # {} /\ mean \in [J -> Means]
  BY <1>1
<1> QED
  BY <1>3, <1>4, <1>5, <1>6, <1>7, <1>8 DEF SelectionInv

LEMMA SelectionInvStep == SelectionInv /\ [Call]_svars => SelectionInv'
<1> SUFFICES ASSUME SelectionInv, [Call]_svars PROVE SelectionInv'
  OBVIOUS
<1>1. CASE Call
  <2>1. mean' = mean /\ topK' = topK /\ called' = TRUE /\ keySteps' = SelectKeySteps(mean, topK)
    BY <1>1 DEF Call
  <2> QED
    BY <2>1 DEF SelectionInv, Present
<1>2. CASE UNCHANGED svars
  BY <1>2 DEF svars, SelectionInv, Present
<1> QED
  BY <1>1, <1>2

\* Step j goes before step m in the result.
Precedes(j, m) == Fell(j) > Fell(m) \/ (Fell(j) = Fell(m) /\ j > m)

\* f lists the comparable steps, and a call returns the first of them.
Ranks(f, M) ==
    /\ M \in Nat /\ f \in [1 .. M -> Comparable]
    /\ \A j \in Comparable : \E n \in 1 .. M : f[n] = j
    /\ \A m, n \in 1 .. M : f[m] = f[n] => m = n
    /\ \A m, n \in 1 .. M : m < n => Precedes(f[m], f[n])
    /\ Len(keySteps) = Smaller(topK, M) /\ DOMAIN keySteps = 1 .. Smaller(topK, M)
    /\ \A n \in 1 .. Smaller(topK, M) : keySteps[n] = f[n]

LEMMA SelectedAreRanked ==
    ASSUME SelectionInv, called
    PROVE  \E f : Ranks(f, Compared(Present))
<1> DEFINE J == Present
           M == Compared(J)
           recs == Records(J)
           N == Cardinality(J)
           L == Smaller(topK, M)
<1>1. /\ J \in SUBSET Nat /\ IsFiniteSet(J) /\ J # {}
      /\ mean \in [J -> Means] /\ DOMAIN mean = J /\ topK \in Nat
      /\ keySteps = SelectKeySteps(mean, topK)
  BY DEF SelectionInv
<1>s. Selects(mean, topK, M, keySteps)
  BY <1>1, SelectionInOrder
<1>2. PICK at : /\ Diverging(mean, M, at)
                /\ \A n \in 1 .. L : keySteps[n] = recs[at[n] + 1]
  BY <1>1, <1>s DEF Selects
<1>3. keySteps \in Seq(J) /\ Len(keySteps) = L
  BY <1>1, <1>s DEF Selects
<1>4. M \in Nat /\ M = N - 1 /\ \A i \in 1 .. M : i \in 1 .. N /\ i + 1 \in 1 .. N
  BY <1>1, DiffsCompared DEF Compared
<1>5. InOrder(J, recs)
  BY <1>1, RecordsInOrder
<1>6. /\ \A i \in 1 .. M : recs[i + 1] \in Comparable /\ Before(recs[i + 1]) = recs[i]
      /\ \A j \in Comparable : \E i \in 1 .. M : recs[i + 1] = j
  BY <1>1, <1>4, <1>5, RecordsCompared
<1>7. \A i \in 1 .. M : Divergent(mean, i) = Fell(recs[i + 1]) /\ Divergent(mean, i) \in Nat
  <2>1. \A i \in 1 .. M : Divergent(mean, i) = Diff(mean[recs[i]], mean[recs[i + 1]])
    BY <1>1 DEF Divergent
  <2>2. \A i \in 1 .. M : Divergent(mean, i) \in Nat
    BY <1>1, DiffsCompared
  <2> HIDE DEF recs, M
  <2> QED
    BY <1>6, <2>1, <2>2 DEF Fell
<1> HIDE DEF recs, M, J
<1> DEFINE f == [n \in 1 .. M |-> recs[at[n] + 1]]
<1>8. Permutes(at, M) /\ \A n \in 1 .. M : at[n] \in 1 .. M
  BY <1>2 DEF Diverging, Permutes
<1>9. \A m, n \in 1 .. N : m < n => recs[n] # 0 /\ (recs[m] = 0 \/ recs[m] > recs[n])
  BY <1>5 DEF InOrder
<1>a. \A n \in 1 .. N : recs[n] \in Nat
  BY <1>1, <1>5 DEF InOrder
<1>10. f \in [1 .. M -> Comparable]
  BY <1>6, <1>8
<1>11. ASSUME NEW j \in Comparable PROVE \E n \in 1 .. M : f[n] = j
  <2>1. PICK i \in 1 .. M : recs[i + 1] = j
    BY <1>6
  <2>2. PICK n \in 1 .. M : at[n] = i
    BY <1>8 DEF Permutes
  <2> QED
    BY <2>1, <2>2
<1>12. ASSUME NEW m \in 1 .. M, NEW n \in 1 .. M, f[m] = f[n] PROVE m = n
  <2>1. recs[at[m] + 1] = recs[at[n] + 1] /\ at[m] \in 1 .. M /\ at[n] \in 1 .. M
    BY <1>8, <1>12
  <2>2. at[m] + 1 \in 1 .. N /\ at[n] + 1 \in 1 .. N
    BY <1>4, <2>1
  <2>3. at[m] + 1 = at[n] + 1
    BY <1>9, <1>a, <2>1, <2>2
  <2>4. at[m] = at[n]
    BY <2>1, <2>3
  <2> QED
    BY <1>8, <2>4 DEF Permutes
<1>13. ASSUME NEW m \in 1 .. M, NEW n \in 1 .. M, m < n PROVE Precedes(f[m], f[n])
  <2> DEFINE x == at[m]
             y == at[n]
  <2>1. x \in 1 .. M /\ y \in 1 .. M /\ f[m] = recs[x + 1] /\ f[n] = recs[y + 1]
    BY <1>8
  <2>2. Divergent(mean, x) > Divergent(mean, y) \/ (Divergent(mean, x) = Divergent(mean, y) /\ x < y)
    BY <1>2, <1>13 DEF Diverging
  <2> HIDE DEF x, y, f
  <2>3. x < y => f[m] > f[n]
    <3>1. SUFFICES ASSUME x < y PROVE f[m] > f[n]
      OBVIOUS
    <3>2. x \in 1 .. N /\ x + 1 \in 1 .. N /\ y + 1 \in 1 .. N /\ x + 1 < y + 1 /\ x < x + 1
      BY <1>4, <2>1, <3>1
    <3>3. recs[x + 1] # 0
      BY <1>9, <3>2
    <3>4. recs[x + 1] = 0 \/ recs[x + 1] > recs[y + 1]
      BY <1>9, <3>2
    <3> QED
      BY <2>1, <3>3, <3>4
  <2>4. Divergent(mean, x) = Fell(f[m]) /\ Divergent(mean, y) = Fell(f[n])
    BY <1>7, <2>1
  <2> QED
    BY <2>2, <2>3, <2>4 DEF Precedes
<1>14. L \in Nat /\ \A n \in 1 .. L : n \in 1 .. M
  BY <1>1, <1>4 DEF Smaller
<1>15. /\ Len(keySteps) = L /\ DOMAIN keySteps = 1 .. L
       /\ \A n \in 1 .. L : keySteps[n] = f[n]
  BY <1>2, <1>3, <1>14
<1> HIDE DEF f
<1>16. Ranks(f, M)
  BY <1>4, <1>10, <1>11, <1>12, <1>13, <1>15 DEF Ranks
<1> QED
  BY <1>16 DEF M, J

LEMMA ReturnsEnough == ASSUME SelectionInv, called PROVE EnoughSteps
<1> DEFINE M == Compared(Present)
           L == Smaller(topK, M)
<1>1. PICK f : Ranks(f, M)
  BY SelectedAreRanked
<1>2. /\ M \in Nat /\ f \in [1 .. M -> Comparable]
      /\ \A j \in Comparable : \E n \in 1 .. M : f[n] = j
      /\ \A m, n \in 1 .. M : f[m] = f[n] => m = n
      /\ Len(keySteps) = L /\ DOMAIN keySteps = 1 .. L
      /\ \A n \in 1 .. L : keySteps[n] = f[n]
  BY <1>1 DEF Ranks
<1>3. L \in Nat /\ \A n \in 1 .. L : n \in 1 .. M
  BY <1>2 DEF Smaller, SelectionInv
<1> HIDE DEF M, L
<1>4. Chosen = { f[n] : n \in 1 .. L }
  BY <1>2 DEF Chosen
<1>5. Chosen \subseteq Comparable
  BY <1>2, <1>3, <1>4
<1>6. Cardinality(Comparable) = M
  BY <1>2, Counted
<1>7. Cardinality(Chosen) = L
  <2> DEFINE g == [n \in 1 .. L |-> f[n]]
  <2>1. g \in [1 .. L -> Chosen]
    BY <1>4
  <2>2. \A j \in Chosen : \E n \in 1 .. L : g[n] = j
    BY <1>4
  <2>3. \A m, n \in 1 .. L : g[m] = g[n] => m = n
    BY <1>2, <1>3
  <2> HIDE DEF g
  <2> QED
    BY <1>3, <2>1, <2>2, <2>3, Counted
<1>8. Len(keySteps) = IF topK < Cardinality(Comparable) THEN topK ELSE Cardinality(Comparable)
  BY <1>2, <1>6 DEF L, Smaller
<1> QED
  BY <1>2, <1>5, <1>7, <1>8 DEF EnoughSteps

LEMMA ReturnsLargest ==
    ASSUME SelectionInv, called
    PROVE  /\ \A j \in Chosen, m \in Comparable \ Chosen : Precedes(j, m)
           /\ \A i \in 1 .. Len(keySteps) - 1 : Precedes(keySteps[i], keySteps[i + 1])
<1> DEFINE M == Compared(Present)
           L == Smaller(topK, M)
<1>1. PICK f : Ranks(f, M)
  BY SelectedAreRanked
<1>2. /\ M \in Nat /\ f \in [1 .. M -> Comparable]
      /\ \A j \in Comparable : \E n \in 1 .. M : f[n] = j
      /\ \A m, n \in 1 .. M : m < n => Precedes(f[m], f[n])
      /\ Len(keySteps) = L /\ DOMAIN keySteps = 1 .. L
      /\ \A n \in 1 .. L : keySteps[n] = f[n]
  BY <1>1 DEF Ranks
<1>3. L \in Nat /\ \A n \in 1 .. L : n \in 1 .. M
  BY <1>2 DEF Smaller, SelectionInv
<1> HIDE DEF M, L
<1>4. ASSUME NEW j \in Chosen, NEW m \in Comparable \ Chosen
      PROVE  Precedes(j, m)
  <2>1. PICK i \in 1 .. L : j = f[i]
    BY <1>2 DEF Chosen
  <2>2. PICK n \in 1 .. M : f[n] = m
    BY <1>2
  <2>3. ~ (n <= L)
    <3>1. SUFFICES ASSUME n <= L PROVE FALSE
      OBVIOUS
    <3>2. n \in 1 .. L /\ keySteps[n] = m
      BY <1>2, <1>3, <2>2, <3>1
    <3> QED
      BY <1>2, <3>2 DEF Chosen
  <2>4. i \in 1 .. M /\ i < n
    BY <1>2, <1>3, <2>3
  <2> QED
    BY <1>2, <2>1, <2>2, <2>4
<1>5. ASSUME NEW i \in 1 .. L - 1
      PROVE  Precedes(keySteps[i], keySteps[i + 1])
  <2>1. i \in 1 .. L /\ i + 1 \in 1 .. L /\ i < i + 1
    BY <1>3
  <2> QED
    BY <1>2, <1>3, <2>1
<1> QED
  BY <1>2, <1>4, <1>5

LEMMA ReturnsSolvedLast == ASSUME SelectionInv, called PROVE SolvedStepsLast
<1>1. SUFFICES ASSUME NEW j \in Chosen, NEW m \in Comparable \ Chosen,
                      mean[j] = Full \/ mean[j] > mean[Before(j)]
               PROVE  mean[m] = Full \/ mean[m] >= mean[Before(m)]
  BY DEF SolvedStepsLast
<1>2. Precedes(j, m)
  BY ReturnsLargest
<1>3. Chosen \subseteq Comparable
  BY ReturnsEnough DEF EnoughSteps
<1>4. mean[j] \in Means /\ mean[Before(j)] \in Means /\ mean[m] \in Means /\ mean[Before(m)] \in Means
  BY <1>3 DEF Comparable, SelectionInv
<1>5. Means \subseteq Nat
  BY DEF Means, Full
<1>6. Fell(j) = 0
  BY <1>1, <1>4, <1>5, DiffProperties DEF Fell
<1>7. Fell(m) \in Nat /\ (Fell(m) = 0 => mean[m] = Full \/ mean[Before(m)] <= mean[m])
  BY <1>4, DiffProperties DEF Fell
<1>8. Fell(m) = 0
  BY <1>2, <1>6, <1>7 DEF Precedes
<1> QED
  BY <1>4, <1>5, <1>7, <1>8

\* For any scores, steps and top_k the selection returns as many steps as it
\* may, distinct ones, never the baseline nor a step with nothing before it
\* (ray_trainer_all.py:982-1020, 1022-1099).
THEOREM SelectsEnough == SelectionSpec => []EnoughSteps
<1>1. SelectionInv => EnoughSteps
  BY ReturnsEnough DEF EnoughSteps
<1> QED
  BY <1>1, SelectionInvInit, SelectionInvStep, PTL DEF SelectionSpec

\* No step left out diverges more than one that was chosen, and the chosen ones
\* are in the order by which the update stage will rank them
\* (ray_trainer_all.py:1036-1099).
THEOREM SelectsLargest == SelectionSpec => []LargestFirst
<1>1. SelectionInv => LargestFirst
  <2>1. SUFFICES ASSUME SelectionInv PROVE LargestFirst
    OBVIOUS
  <2>2. CASE called
    BY <2>1, <2>2, ReturnsLargest DEF LargestFirst, Precedes
  <2>3. CASE ~ called
    <3>1. 1 .. Len(keySteps) - 1 = {}
      BY <2>1, <2>3 DEF SelectionInv
    <3> QED
      BY <2>3, <3>1 DEF LargestFirst
  <2> QED
    BY <2>2, <2>3
<1> QED
  BY <1>1, SelectionInvInit, SelectionInvStep, PTL DEF SelectionSpec

\* A step that is solved, or no worse than with one step more given, is chosen
\* only if too few are worse: the divergence is none for it and for no worse one
\* (ray_trainer_all.py:1046-1080).
THEOREM SelectsSolvedLast == SelectionSpec => []SolvedStepsLast
<1>1. SelectionInv => SolvedStepsLast
  BY ReturnsSolvedLast DEF SolvedStepsLast
<1> QED
  BY <1>1, SelectionInvInit, SelectionInvStep, PTL DEF SelectionSpec
-----------------------------------------------------------------------------
(* The sampler's pass over the samples.                                    *)

\* Each sample has still to be delivered, once, or has been.
DeliveryOK ==
    /\ todo \in Seq(Samples) /\ done \in Seq(Samples)
    /\ Elems(todo) \cup Elems(done) = Samples
    /\ Elems(todo) \cap Elems(done) = {} /\ Distinct(todo)

LEMMA PassHasEverySample ==
    ASSUME NEW o \in Sampler!Passes
    PROVE  o \in Seq(Samples) /\ Elems(o) = Samples /\ Distinct(o)
<1>1. /\ NumSamples \in Nat /\ o \in [1 .. NumSamples -> 1 .. NumSamples]
      /\ \A g \in 1 .. NumSamples : \E n \in 1 .. NumSamples : o[n] = g
  BY TrainerAssumption DEF Sampler!Passes
<1>2. IsFiniteSet(1 .. NumSamples)
  BY <1>1, Interval
<1>3. o \in Surjection(1 .. NumSamples, 1 .. NumSamples)
  BY <1>1 DEF Surjection
<1>4. o \in Injection(1 .. NumSamples, 1 .. NumSamples)
  BY <1>2, <1>3, FS_SurjSameCardinalityImpliesInj
<1>5. \A i, j \in 1 .. NumSamples : o[i] = o[j] => i = j
  BY <1>4 DEF Injection, IsInjective
<1>6. DOMAIN o = 1 .. NumSamples /\ o \in Seq(1 .. NumSamples)
  BY <1>1
<1>7. Elems(o) = 1 .. NumSamples
  BY <1>1, <1>6 DEF Elems
<1> QED
  BY <1>5, <1>6, <1>7 DEF Samples, Distinct

LEMMA PassBegins == ASSUME Sampler!NewPass PROVE DeliveryOK'
<1>1. todo' \in Seq(Samples) /\ Elems(todo') = Samples /\ Distinct(todo')
  BY PassHasEverySample DEF Sampler!NewPass
<1>2. done' = <<>>
  BY DEF Sampler!NewPass
<1>3. done' \in Seq(Samples) /\ Elems(done') = {}
  BY <1>2 DEF Elems
<1> QED
  BY <1>1, <1>3 DEF DeliveryOK, Samples

LEMMA PassGoesOn ==
    ASSUME DeliveryOK, Sampler!Deliver
    PROVE  /\ DeliveryOK' /\ Batch \subseteq Samples
           /\ Elems(done') = Elems(done) \cup Batch /\ Batch \cap Elems(done) = {}
<1>1. PICK n \in 1 .. Len(todo) : /\ done' = done \o SubSeq(todo, 1, n)
                                  /\ todo' = SubSeq(todo, n + 1, Len(todo))
  BY DEF Sampler!Deliver
<1> DEFINE N == Len(todo)
           b == SubSeq(todo, 1, n)
           r == SubSeq(todo, n + 1, N)
<1>2. todo \in Seq(Samples) /\ N \in Nat /\ DOMAIN todo = 1 .. N
  BY DEF DeliveryOK
<1>3. /\ b \in Seq(Samples) /\ Len(b) = n /\ DOMAIN b = 1 .. n
      /\ \A i \in 1 .. n : b[i] = todo[i]
  BY <1>2
<1>4. /\ r \in Seq(Samples) /\ Len(r) = N - n /\ DOMAIN r = 1 .. N - n
      /\ \A i \in 1 .. N - n : r[i] = todo[n + i]
  <2>1. /\ todo \in Seq(Samples) /\ n \in Nat /\ N \in n .. Len(todo)
        /\ r = SubSeq(todo, n + 1, N)
    BY <1>2
  <2> HIDE DEF r, N
  <2>2. r \in Seq(Samples) /\ Len(r) = N - n /\ DOMAIN r = 1 .. N - n
    BY <2>1, Slice
  <2>3. \A i \in 1 .. N - n : r[i] = todo[n + i]
    BY <2>1, Slice
  <2> QED
    BY <2>2, <2>3
<1> HIDE DEF b, r
<1>5. /\ done' \in Seq(Samples) /\ Len(done') = Len(done) + n /\ Elems(done') = Elems(done) \cup Elems(b)
      /\ \A i \in 1 .. n : done'[Len(done) + i] = b[i]
  <2>1. done \in Seq(Samples) /\ done' = done \o b
    BY <1>1 DEF DeliveryOK, b
  <2>2. done' \in Seq(Samples) /\ Elems(done') = Elems(done) \cup Elems(b)
    BY <1>3, <2>1, ConcatElems
  <2>3. /\ Len(done') = Len(done) + n
        /\ \A i \in 1 .. n : done'[Len(done) + i] = b[i]
    <3>1. \A s, t \in Seq(Samples) : /\ Len(s \o t) = Len(s) + Len(t)
                                     /\ \A i \in 1 .. Len(t) : (s \o t)[Len(s) + i] = t[i]
      BY ConcatPlaces
    <3> QED
      BY <1>3, <2>1, <3>1
  <2> QED
    BY <2>2, <2>3
<1>6. Batch = Elems(b)
  <2>1. Len(done) \in Nat
    BY DEF DeliveryOK
  <2>2. ASSUME NEW x \in Batch PROVE x \in Elems(b)
    <3>1. PICK i \in Len(done) + 1 .. Len(done) + n : x = done'[i]
      BY <1>5 DEF Batch
    <3>2. i - Len(done) \in 1 .. n /\ Len(done) + (i - Len(done)) = i
      BY <2>1
    <3>3. x = b[i - Len(done)]
      BY <1>5, <3>1, <3>2
    <3> QED
      BY <1>3, <3>2, <3>3 DEF Elems
  <2>3. ASSUME NEW x \in Elems(b) PROVE x \in Batch
    <3>1. PICK i \in 1 .. n : x = b[i]
      BY <1>3 DEF Elems
    <3>2. Len(done) + i \in Len(done) + 1 .. Len(done')  /\ done'[Len(done) + i] = x
      BY <1>5, <2>1, <3>1
    <3> QED
      BY <3>2 DEF Batch
  <2> QED
    BY <2>2, <2>3
<1>7. Elems(b) \subseteq Elems(todo) /\ Elems(r) \subseteq Elems(todo)
  <2>1. \A i \in 1 .. n : i \in 1 .. N
    BY <1>2
  <2>2. \A i \in 1 .. N - n : n + i \in 1 .. N
    BY <1>2
  <2>3. Elems(b) \subseteq Elems(todo)
    BY <1>2, <1>3, <2>1 DEF Elems
  <2>4. Elems(r) \subseteq Elems(todo)
    BY <1>2, <1>4, <2>2 DEF Elems
  <2> QED
    BY <2>3, <2>4
<1>8. Elems(todo) \subseteq Elems(b) \cup Elems(r)
  <2>1. SUFFICES ASSUME NEW i \in 1 .. N PROVE todo[i] \in Elems(b) \cup Elems(r)
    BY <1>2 DEF Elems
  <2>2. CASE i <= n
    BY <1>3, <2>2 DEF Elems
  <2>3. CASE i > n
    <3>1. i - n \in 1 .. N - n /\ n + (i - n) = i
      BY <1>2, <2>3
    <3> QED
      BY <1>4, <3>1 DEF Elems
  <2> QED
    BY <2>2, <2>3
<1>d. \A i, j \in 1 .. N : todo[i] = todo[j] => i = j
  BY <1>2 DEF DeliveryOK, Distinct
<1>9. Elems(b) \cap Elems(r) = {}
  <2>1. SUFFICES ASSUME NEW i \in 1 .. n, NEW j \in 1 .. N - n, b[i] = r[j] PROVE FALSE
    BY <1>3, <1>4 DEF Elems
  <2>2. todo[i] = todo[n + j] /\ i \in 1 .. N /\ n + j \in 1 .. N /\ i # n + j
    BY <1>2, <1>3, <1>4, <2>1
  <2> QED
    BY <1>d, <2>2
<1>10. Distinct(r)
  <2>1. ASSUME NEW i \in 1 .. N - n, NEW j \in 1 .. N - n, r[i] = r[j] PROVE i = j
    <3>1. todo[n + i] = todo[n + j] /\ n + i \in 1 .. N /\ n + j \in 1 .. N
      BY <1>2, <1>4, <2>1
    <3>2. n + i = n + j
      BY <1>d, <3>1
    <3> QED
      BY <3>2
  <2> QED
    BY <1>4, <2>1 DEF Distinct
<1>11. todo' = r
  BY <1>1 DEF r
<1>12. /\ Elems(todo) \cup Elems(done) = Samples
       /\ Elems(todo) \cap Elems(done) = {}
  BY DEF DeliveryOK
<1>13. Elems(r) \cup (Elems(done) \cup Elems(b)) = Samples
  BY <1>7, <1>8, <1>12
<1>14. Elems(r) \cap (Elems(done) \cup Elems(b)) = {}
  BY <1>7, <1>9, <1>12
<1>15. DeliveryOK'
  BY <1>4, <1>5, <1>10, <1>11, <1>13, <1>14 DEF DeliveryOK, Samples
<1> QED
  BY <1>5, <1>6, <1>7, <1>12, <1>15
-----------------------------------------------------------------------------
(* The rows of the replay buffer.                                          *)

LEMMA FirstOccurrencesKept ==
    ASSUME NEW S, NEW q \in Seq(S)
    PROVE  /\ FirstOccurrences(q) \in Seq(S) /\ Elems(FirstOccurrences(q)) = Elems(q)
           /\ Distinct(FirstOccurrences(q))
<1> DEFINE P == { i \in DOMAIN q : \A n \in 1 .. i - 1 : q[n] # q[i] }
<1>1. FirstOccurrences(q) = Kept(q, P)
  BY DEF FirstOccurrences
<1>2. P \in SUBSET (DOMAIN q) /\ DOMAIN q = 1 .. Len(q) /\ Len(q) \in Nat
  OBVIOUS
<1>3. ASSUME NEW i \in DOMAIN q PROVE \E n \in P : q[n] = q[i]
  <2> DEFINE F == { n \in 1 .. Len(q) : q[n] = q[i] }
  <2>1. F \in SUBSET Nat /\ F # {}
    BY <1>2
  <2>2. PICK n \in F : \A m \in F : n <= m
    BY <2>1, HasMinimum
  <2>3. n \in DOMAIN q /\ q[n] = q[i]
    BY <1>2
  <2>4. \A m \in 1 .. n - 1 : q[m] # q[n]
    <3>1. SUFFICES ASSUME NEW m \in 1 .. n - 1, q[m] = q[n] PROVE FALSE
      OBVIOUS
    <3>2. m \in F
      BY <1>2, <2>3, <3>1
    <3> QED
      BY <1>2, <2>2, <3>2
  <2> QED
    BY <2>3, <2>4
<1>4. \A i, n \in P : q[i] = q[n] => i = n
  <2>1. SUFFICES ASSUME NEW i \in P, NEW n \in P, q[i] = q[n] PROVE i = n
    OBVIOUS
  <2>2. i \in Nat /\ n \in Nat /\ i >= 1 /\ n >= 1
    BY <1>2
  <2>3. ~ (i < n)
    BY <2>1, <2>2
  <2>4. ~ (n < i)
    BY <2>1, <2>2
  <2> QED
    BY <2>2, <2>3, <2>4
<1> HIDE DEF P
<1>5. Kept(q, P) \in Seq(S)
  BY <1>2, KeptProperties
<1>6. Elems(Kept(q, P)) = { q[i] : i \in P }
  BY <1>2, KeptElems
<1>7. { q[i] : i \in P } = Elems(q)
  BY <1>2, <1>3 DEF Elems
<1>8. Distinct(Kept(q, P))
  BY <1>2, <1>4, KeptDistinct
<1> QED
  BY <1>1, <1>5, <1>6, <1>7, <1>8

\* The rows of the samples S for the given steps.
StepRows(keys, S) == UNION { { <<s, keys[s][p]>> : p \in DOMAIN keys[s] } : s \in S }

LEMMA SamplesType ==
    /\ IsFiniteSet(Samples) /\ NumSamples \in Nat
    /\ \A s \in Samples : /\ StepsOf[s] \in SUBSET Nat /\ IsFiniteSet(StepsOf[s])
                          /\ IsFiniteSet(RowsOf(s)) /\ RowsOf(s) \subseteq Rows
    /\ IsFiniteSet(Rows) /\ Cardinality(Rows) \in Nat
<1>1. NumSamples \in Nat /\ IsFiniteSet(Samples)
  BY TrainerAssumption, Interval DEF Samples
<1>2. ASSUME NEW s \in Samples
      PROVE  /\ StepsOf[s] \in SUBSET Nat /\ IsFiniteSet(StepsOf[s])
             /\ IsFiniteSet(RowsOf(s)) /\ RowsOf(s) \subseteq Rows
  <2>1. StepsOf[s] \in SUBSET Nat /\ IsFiniteSet(StepsOf[s])
    BY TrainerAssumption
  <2> DEFINE f == [j \in StepsOf[s] |-> <<s, j>>]
  <2>2. f \in Surjection(StepsOf[s], RowsOf(s))
    BY DEF RowsOf, Surjection
  <2>3. IsFiniteSet(RowsOf(s))
    BY <2>1, <2>2, FS_Surjection
  <2>4. RowsOf(s) \subseteq Rows
    BY DEF Rows
  <2> QED
    BY <2>1, <2>3, <2>4
<1> DEFINE SS == { RowsOf(s) : s \in Samples }
           f == [s \in Samples |-> RowsOf(s)]
<1>3. f \in Surjection(Samples, SS)
  BY DEF Surjection
<1>4. IsFiniteSet(SS)
  BY <1>1, <1>3, FS_Surjection
<1>5. \A T \in SS : IsFiniteSet(T)
  BY <1>2
<1>6. IsFiniteSet(UNION SS)
  BY <1>4, <1>5, FS_UNION
<1>7. Rows = UNION SS
  BY DEF Rows
<1>8. IsFiniteSet(Rows) /\ Cardinality(Rows) \in Nat
  BY <1>6, <1>7, FS_CardinalityType
<1> QED
  BY <1>1, <1>2, <1>8

LEMMA StepListsType ==
    ASSUME NEW s \in Samples, NEW q \in StepLists(StepsOf[s], TopK)
    PROVE  /\ q \in Seq(Nat) /\ q \in Seq(StepsOf[s]) /\ Len(q) \in 0 .. TopK
           /\ DOMAIN q = 1 .. Len(q) /\ Distinct(q)
           /\ \A p \in DOMAIN q : q[p] \in StepsOf[s] /\ q[p] \in Nat /\ q[p] >= 1
           /\ \A p \in DOMAIN q : <<s, q[p]>> \in RowsOf(s) /\ <<s, q[p]>> \in Rows
<1>1. q \in Seq(StepsOf[s] \ {0}) /\ Distinct(q) /\ Len(q) <= TopK
  BY DEF StepLists
<1>2. StepsOf[s] \in SUBSET Nat /\ TopK \in Nat
  BY SamplesType, TrainerAssumption
<1>3. DOMAIN q = 1 .. Len(q) /\ Len(q) \in Nat /\ \A p \in DOMAIN q : q[p] \in StepsOf[s] \ {0}
  BY <1>1
<1>4. q \in Seq(Nat) /\ q \in Seq(StepsOf[s])
  BY <1>1, <1>2
<1>5. \A p \in DOMAIN q : q[p] \in StepsOf[s] /\ q[p] \in Nat /\ q[p] >= 1
  BY <1>2, <1>3
<1> QED
  BY <1>1, <1>2, <1>3, <1>4, <1>5 DEF RowsOf, Rows

\* Every key step is one that can be trained on.
LEMMA DesiredSteps ==
    ASSUME NEW s \in Samples, NEW q \in StepLists(StepsOf[s], TopK)
    PROVE  Desired(q) \in Seq(StepsOf[s]) /\ Elems(Desired(q)) = Elems(q)
<1> DEFINE P == { i \in DOMAIN q : q[i] >= 1 }
<1>1. P = DOMAIN q /\ q \in Seq(StepsOf[s])
  BY StepListsType
<1>2. Desired(q) = Kept(q, DOMAIN q)
  BY <1>1 DEF Desired
<1>3. DOMAIN q \in SUBSET (DOMAIN q)
  OBVIOUS
<1>4. Kept(q, DOMAIN q) \in Seq(StepsOf[s])
  BY <1>1, <1>3, KeptProperties
<1>5. Elems(Kept(q, DOMAIN q)) = { q[i] : i \in DOMAIN q }
  BY <1>1, <1>3, KeptElems
<1> QED
  BY <1>2, <1>4, <1>5 DEF Elems

LEMMA OrderElems ==
    ASSUME NEW B, IsFiniteSet(B), NEW o \in SetToSeqs(B)
    PROVE  o \in Seq(B) /\ Elems(o) = B
<1> DEFINE n == Cardinality(B)
<1>1. n \in Nat
  BY FS_CardinalityType
<1>2. o \in [1 .. n -> B] /\ \A i, j \in 1 .. n : i # j => o[i] # o[j]
  BY DEF SetToSeqs
<1>3. o \in Injection(1 .. n, B)
  BY <1>2 DEF Injection, IsInjective
<1>4. Cardinality(1 .. n) = Cardinality(B)
  BY <1>1, Interval
<1>5. o \in Surjection(1 .. n, B)
  BY <1>3, <1>4, FS_Injection
<1>6. \A b \in B : \E i \in 1 .. n : o[i] = b
  BY <1>5 DEF Surjection
<1>7. o \in Seq(B) /\ DOMAIN o = 1 .. n
  BY <1>1, <1>2
<1> QED
  BY <1>2, <1>6, <1>7 DEF Elems

\* The rows of the samples of a rollout batch, whole.
LEMMA BatchRows ==
    ASSUME NEW B \in SUBSET Samples, NEW order \in SetToSeqs(B), NEW rows,
           rows = FlattenSeq([i \in DOMAIN order |-> SetToSeq(RowsOf(order[i]))])
    PROVE  rows \in Seq(Rows) /\ Elems(rows) = UNION { RowsOf(s) : s \in B }
<1> DEFINE qs == [i \in DOMAIN order |-> SetToSeq(RowsOf(order[i]))]
<1>1. order \in Seq(B) /\ Elems(order) = B
  BY SamplesType, FS_Subset, OrderElems
<1>2. \A i \in DOMAIN order : order[i] \in B /\ order[i] \in Samples
  BY <1>1
<1>3. ASSUME NEW i \in DOMAIN order
      PROVE  qs[i] \in Seq(Rows) /\ Elems(qs[i]) = RowsOf(order[i])
  <2>1. IsFiniteSet(RowsOf(order[i])) /\ RowsOf(order[i]) \subseteq Rows
    BY <1>2, SamplesType
  <2>2. qs[i] = SetToSeq(RowsOf(order[i]))
    OBVIOUS
  <2>3. qs[i] \in Seq(RowsOf(order[i])) /\ Elems(qs[i]) = RowsOf(order[i])
    BY <2>1, <2>2, SetToSeqElems
  <2> QED
    BY <2>1, <2>3
<1>4. DOMAIN order = 1 .. Len(order) /\ Len(order) \in Nat
  BY <1>1
<1>5. DOMAIN qs = DOMAIN order /\ qs \in Seq(Seq(Rows))
  BY <1>3, <1>4
<1> HIDE DEF qs
<1>6. rows = FlattenSeq(qs)
  BY DEF qs
<1>7. rows \in Seq(Rows) /\ Elems(rows) = UNION { Elems(qs[i]) : i \in DOMAIN qs }
  BY <1>5, <1>6, FlattenElems
<1>8. UNION { Elems(qs[i]) : i \in DOMAIN qs } = UNION { RowsOf(order[i]) : i \in DOMAIN order }
  BY <1>3, <1>5
<1>9. UNION { RowsOf(order[i]) : i \in DOMAIN order } = UNION { RowsOf(s) : s \in B }
  <2>1. \A s \in B : \E i \in DOMAIN order : order[i] = s
    BY <1>1 DEF Elems
  <2> QED
    BY <1>2, <2>1
<1> QED
  BY <1>7, <1>8, <1>9

\* The filter keeps the rows of the samples' key steps, and nothing else.
LEMMA Filtered ==
    ASSUME NEW B \in SUBSET Samples, NEW keys,
           \A s \in B : keys[s] \in StepLists(StepsOf[s], TopK),
           NEW rows \in Seq(Rows), Elems(rows) = UNION { RowsOf(s) : s \in B }
    PROVE  FilterRows(rows, keys) \in Seq(Rows) /\ Elems(FilterRows(rows, keys)) = StepRows(keys, B)
<1> DEFINE ids == [i \in DOMAIN rows |-> rows[i][1]]
           sids == FirstOccurrences(ids)
           wanted(s) == [i \in DOMAIN Desired(keys[s]) |-> <<s, Desired(keys[s])[i]>>]
           at(s) == { i \in DOMAIN wanted(s) : \E m \in DOMAIN rows : rows[m] = wanted(s)[i] }
           present(s) == Kept(wanted(s), at(s))
           qs == [i \in DOMAIN sids |-> present(sids[i])]
<1>1. FilterRows(rows, keys) = FlattenSeq(qs)
  BY DEF FilterRows
<1>2. DOMAIN rows = 1 .. Len(rows) /\ Len(rows) \in Nat
  OBVIOUS
<1>3. \A i \in DOMAIN rows : rows[i] \in UNION { RowsOf(s) : s \in B }
  BY DEF Elems
<1>4. \A i \in DOMAIN rows : ids[i] \in B
  BY <1>3 DEF RowsOf
<1>5. ids \in Seq(B)
  BY <1>2, <1>4
<1>6. sids \in Seq(B) /\ Elems(sids) = Elems(ids) /\ Distinct(sids)
  <2> HIDE DEF ids
  <2> QED
    BY <1>5, FirstOccurrencesKept
<1>7. ASSUME NEW s \in B, NEW r \in RowsOf(s) PROVE \E m \in DOMAIN rows : rows[m] = r
  BY <1>7 DEF Elems
<1>8. ASSUME NEW s \in B
      PROVE  /\ present(s) \in Seq(Rows)
             /\ Elems(present(s)) = { <<s, keys[s][p]>> : p \in DOMAIN keys[s] }
  <2> DEFINE d == Desired(keys[s])
             w == wanted(s)
  <2>1. d \in Seq(StepsOf[s]) /\ Elems(d) = Elems(keys[s])
    BY DesiredSteps
  <2>2. DOMAIN d = 1 .. Len(d) /\ Len(d) \in Nat /\ \A i \in DOMAIN d : d[i] \in StepsOf[s]
    BY <2>1
  <2>3. DOMAIN w = DOMAIN d /\ \A i \in DOMAIN d : w[i] = <<s, d[i]>>
    OBVIOUS
  <2>4. \A i \in DOMAIN d : w[i] \in RowsOf(s)
    BY <2>2, <2>3 DEF RowsOf
  <2>5. w \in Seq(Rows)
    <3>1. RowsOf(s) \subseteq Rows
      BY DEF Rows
    <3> QED
      BY <2>2, <2>3, <2>4, <3>1
  <2>6. at(s) = DOMAIN w
    BY <1>7, <2>3, <2>4
  <2>7. present(s) = Kept(w, DOMAIN w)
    BY <2>6
  <2> HIDE DEF w, d
  <2>8. DOMAIN w \in SUBSET (DOMAIN w)
    OBVIOUS
  <2>9. Kept(w, DOMAIN w) \in Seq(Rows)
    BY <2>5, <2>8, KeptProperties
  <2>10. Elems(Kept(w, DOMAIN w)) = { w[i] : i \in DOMAIN w }
    BY <2>5, <2>8, KeptElems
  <2>11. { w[i] : i \in DOMAIN w } = { <<s, x>> : x \in Elems(d) }
    BY <2>3 DEF Elems
  <2>12. { <<s, x>> : x \in Elems(keys[s]) } = { <<s, keys[s][p]>> : p \in DOMAIN keys[s] }
    BY DEF Elems
  <2> QED
    BY <2>1, <2>7, <2>9, <2>10, <2>11, <2>12
<1> HIDE DEF present
<1>9. qs \in Seq(Seq(Rows)) /\ DOMAIN qs = DOMAIN sids
  <2>1. DOMAIN sids = 1 .. Len(sids) /\ Len(sids) \in Nat /\ \A i \in DOMAIN sids : sids[i] \in B
    BY <1>6
  <2> HIDE DEF sids
  <2> QED
    BY <1>8, <2>1
<1>10. \A i \in DOMAIN sids : sids[i] \in B /\ qs[i] = present(sids[i])
  <2>1. \A i \in DOMAIN sids : sids[i] \in B
    BY <1>6
  <2> HIDE DEF sids
  <2> QED
    BY <2>1
<1> HIDE DEF qs
<1>11. /\ FilterRows(rows, keys) \in Seq(Rows)
       /\ Elems(FilterRows(rows, keys)) = UNION { Elems(qs[i]) : i \in DOMAIN qs }
  BY <1>1, <1>9, FlattenElems
<1>12. ASSUME NEW x \in UNION { Elems(qs[i]) : i \in DOMAIN qs } PROVE x \in StepRows(keys, B)
  <2>1. PICK i \in DOMAIN sids : x \in Elems(present(sids[i]))
    BY <1>9, <1>10
  <2> QED
    BY <1>8, <1>10, <2>1 DEF StepRows
<1>13. ASSUME NEW x \in StepRows(keys, B) PROVE x \in UNION { Elems(qs[i]) : i \in DOMAIN qs }
  <2>1. PICK s \in B : x \in { <<s, keys[s][p]>> : p \in DOMAIN keys[s] }
    BY DEF StepRows
  <2>2. PICK p \in DOMAIN keys[s] : x = <<s, keys[s][p]>>
    BY <2>1
  <2>3. x \in RowsOf(s)
    BY <2>2, StepListsType
  <2>4. PICK m \in DOMAIN rows : rows[m] = x
    BY <1>7, <2>3
  <2>5. ids[m] = s
    BY <2>2, <2>4
  <2>6. s \in Elems(ids)
    BY <2>5 DEF Elems
  <2>7. PICK i \in DOMAIN sids : sids[i] = s
    BY <1>6, <2>6 DEF Elems
  <2>8. x \in Elems(qs[i])
    BY <1>8, <1>10, <2>1, <2>7
  <2> QED
    BY <1>9, <2>8
<1> QED
  BY <1>11, <1>12, <1>13

LEMMA FirstOccurrencesInOrder ==
    ASSUME NEW S, NEW q \in Seq(S)
    PROVE  \E at \in [1 .. Len(FirstOccurrences(q)) -> DOMAIN q] :
             /\ \A n \in 1 .. Len(FirstOccurrences(q)) : FirstOccurrences(q)[n] = q[at[n]]
             /\ \A m, n \in 1 .. Len(FirstOccurrences(q)) : m < n => at[m] < at[n]
<1> DEFINE P == { i \in DOMAIN q : \A n \in 1 .. i - 1 : q[n] # q[i] }
<1>1. FirstOccurrences(q) = Kept(q, P) /\ P \in SUBSET (DOMAIN q)
  BY DEF FirstOccurrences
<1> HIDE DEF P
<1>2. Len(Kept(q, P)) = Cardinality(P)
  BY <1>1, KeptProperties
<1>3. PICK at : /\ Ascends(at, P)
                /\ \A n \in 1 .. Cardinality(P) : Kept(q, P)[n] = q[at[n]]
  BY <1>1, KeptProperties
<1>4. /\ at \in [1 .. Cardinality(P) -> DOMAIN q]
      /\ \A m, n \in 1 .. Cardinality(P) : m < n => at[m] < at[n]
  BY <1>1, <1>3 DEF Ascends
<1> QED
  BY <1>1, <1>2, <1>3, <1>4

\* The place of a step among different steps.
LEMMA RankOf ==
    ASSUME NEW steps, Distinct(steps), NEW p \in DOMAIN steps
    PROVE  Rank(steps[p], steps) = p
<1>1. \A i \in DOMAIN steps : steps[i] = steps[p] => i = p
  BY DEF Distinct
<1>2. (CHOOSE i \in DOMAIN steps : steps[i] = steps[p]) = p
  BY <1>1
<1> QED
  BY <1>2 DEF Rank

\* The rows of a sample in the buffer come out in the order of its key steps.
LEMMA ItemsInOrder ==
    ASSUME NEW s \in Samples, NEW steps \in StepLists(StepsOf[s], TopK),
           NEW buf \in Seq(Rows),
           \A r \in Rows : (r \in Elems(buf) /\ r[1] = s)
                             <=> \E p \in DOMAIN steps : r = <<s, steps[p]>>
    PROVE  SampleItems(buf, s, steps) = [p \in DOMAIN steps |-> <<s, steps[p]>>]
<1> DEFINE K == Len(steps)
           T == { <<s, steps[p]>> : p \in 1 .. K }
           P == { i \in DOMAIN buf : buf[i][1] = s }
           own == Kept(buf, P)
           ranks == [i \in DOMAIN own |-> Rank(own[i][2], steps)]
           z == StableSort(own, ranks)
           f == FirstOccurrences(z)
           N == Len(f)
<1>1. /\ K \in Nat /\ DOMAIN steps = 1 .. K /\ Distinct(steps)
      /\ \A p \in 1 .. K : <<s, steps[p]>> \in Rows
  BY StepListsType
<1>2. SampleItems(buf, s, steps) = f
  BY DEF SampleItems
<1>3. P \in SUBSET (DOMAIN buf)
  OBVIOUS
<1>4. own \in Seq(Rows)
  <2> HIDE DEF P
  <2> QED
    BY <1>3, KeptProperties
<1>5. Elems(own) = { buf[i] : i \in P }
  <2> HIDE DEF P
  <2> QED
    BY <1>3, KeptElems
<1>6. Elems(own) = T
  <2>1. ASSUME NEW i \in P PROVE buf[i] \in T
    <3>1. buf[i] \in Elems(buf) /\ buf[i] \in Rows /\ buf[i][1] = s
      BY DEF Elems
    <3> QED
      BY <1>1, <3>1
  <2>2. ASSUME NEW p \in 1 .. K PROVE \E i \in P : buf[i] = <<s, steps[p]>>
    <3>1. <<s, steps[p]>> \in Elems(buf)
      BY <1>1
    <3>2. PICK i \in DOMAIN buf : buf[i] = <<s, steps[p]>>
      BY <3>1 DEF Elems
    <3>3. i \in P
      BY <3>2
    <3> QED
      BY <3>2, <3>3
  <2> QED
    BY <1>5, <2>1, <2>2
<1> HIDE DEF own
<1>7. DOMAIN own = 1 .. Len(own) /\ Len(own) \in Nat /\ \A i \in DOMAIN own : own[i] \in T
  <2> HIDE DEF T
  <2>1. DOMAIN own = 1 .. Len(own) /\ Len(own) \in Nat
    BY <1>4
  <2>2. \A i \in DOMAIN own : own[i] \in Elems(own)
    BY DEF Elems
  <2> QED
    BY <1>6, <2>1, <2>2
<1>8. ASSUME NEW i \in DOMAIN own
      PROVE  ranks[i] \in 1 .. K /\ own[i] = <<s, steps[ranks[i]]>>
  <2>1. PICK p \in 1 .. K : own[i] = <<s, steps[p]>>
    BY <1>7
  <2>2. own[i][2] = steps[p]
    BY <2>1
  <2>3. Rank(steps[p], steps) = p
    BY <1>1, RankOf
  <2> QED
    BY <2>1, <2>2, <2>3
<1>9. ranks \in [DOMAIN own -> Int] /\ own \in Seq(T)
  <2>1. ranks \in [DOMAIN own -> Int]
    <3>1. \A i \in DOMAIN own : ranks[i] \in Int
      BY <1>1, <1>8
    <3> QED
      BY <3>1
  <2>2. own \in Seq(T)
    <3> HIDE DEF T
    <3> QED
      BY <1>4, <1>7
  <2> QED
    BY <2>1, <2>2
<1> HIDE DEF ranks, T
<1>10. SortedBy(T, own, ranks, z)
  BY <1>9, StableSortSorts
<1>11. z \in Seq(T) /\ Len(z) = Len(own)
  BY <1>10 DEF SortedBy
<1>12. PICK at : /\ Permutes(at, Len(own))
                 /\ \A m, n \in 1 .. Len(own) : m < n =>
                      \/ ranks[at[m]] < ranks[at[n]]
                      \/ ranks[at[m]] = ranks[at[n]] /\ at[m] < at[n]
                 /\ \A n \in 1 .. Len(own) : z[n] = own[at[n]]
  BY <1>10 DEF SortedBy
<1>13. /\ at \in [1 .. Len(own) -> 1 .. Len(own)]
       /\ \A i \in 1 .. Len(own) : \E m \in 1 .. Len(own) : at[m] = i
  BY <1>12 DEF Permutes
<1> DEFINE rz == [n \in 1 .. Len(own) |-> ranks[at[n]]]
<1>14. ASSUME NEW n \in 1 .. Len(own) PROVE rz[n] \in 1 .. K /\ z[n] = <<s, steps[rz[n]]>>
  BY <1>7, <1>8, <1>12, <1>13
<1>15. \A m, n \in 1 .. Len(own) : m < n => rz[m] <= rz[n]
  <2>1. SUFFICES ASSUME NEW m \in 1 .. Len(own), NEW n \in 1 .. Len(own), m < n
                 PROVE  rz[m] <= rz[n]
    OBVIOUS
  <2>2. rz[m] \in Int /\ rz[n] \in Int
    BY <1>1, <1>14
  <2>3. rz[m] < rz[n] \/ rz[m] = rz[n]
    BY <1>12, <2>1
  <2> QED
    BY <2>2, <2>3
<1>16. DOMAIN z = 1 .. Len(own)
  BY <1>7, <1>11
<1>17. \A p \in 1 .. K : \E n \in 1 .. Len(own) : z[n] = <<s, steps[p]>>
  <2>1. SUFFICES ASSUME NEW p \in 1 .. K
                 PROVE  \E n \in 1 .. Len(own) : z[n] = <<s, steps[p]>>
    OBVIOUS
  <2>2. <<s, steps[p]>> \in Elems(own)
    BY <1>6 DEF T
  <2>3. PICK i \in 1 .. Len(own) : own[i] = <<s, steps[p]>>
    BY <1>7, <2>2 DEF Elems
  <2>4. PICK m \in 1 .. Len(own) : at[m] = i
    BY <1>13
  <2> QED
    BY <1>12, <2>3, <2>4
<1> HIDE DEF z, rz
<1>18. f \in Seq(T) /\ Elems(f) = Elems(z) /\ Distinct(f)
  BY <1>11, FirstOccurrencesKept
<1>19. PICK to \in [1 .. N -> DOMAIN z] :
         /\ \A n \in 1 .. N : f[n] = z[to[n]]
         /\ \A m, n \in 1 .. N : m < n => to[m] < to[n]
  BY <1>11, FirstOccurrencesInOrder
<1>20. N \in Nat /\ DOMAIN f = 1 .. N
  BY <1>18
<1> HIDE DEF f, N, K
<1> DEFINE g == [n \in 1 .. N |-> rz[to[n]]]
<1>21. ASSUME NEW n \in 1 .. N PROVE g[n] \in 1 .. K /\ f[n] = <<s, steps[g[n]]>> /\ to[n] \in 1 .. Len(own)
  BY <1>14, <1>16, <1>19
<1>22. g \in [1 .. N -> 1 .. K]
  BY <1>21
<1>23. \A m, n \in 1 .. N : m < n => g[m] < g[n]
  <2>1. SUFFICES ASSUME NEW m \in 1 .. N, NEW n \in 1 .. N, m < n PROVE g[m] < g[n]
    OBVIOUS
  <2>2. g[m] <= g[n]
    BY <1>15, <1>19, <1>21, <2>1
  <2>3. g[m] # g[n]
    <3>1. SUFFICES ASSUME g[m] = g[n] PROVE FALSE
      OBVIOUS
    <3>2. f[m] = f[n]
      BY <1>21, <3>1
    <3>3. m = n
      BY <1>18, <1>20, <3>2 DEF Distinct
    <3> QED
      BY <1>20, <2>1, <3>3
  <2>4. g[m] \in Int /\ g[n] \in Int
    BY <1>1, <1>21
  <2> QED
    BY <2>2, <2>3, <2>4
<1>24. \A p \in 1 .. K : \E n \in 1 .. N : g[n] = p
  <2>1. SUFFICES ASSUME NEW p \in 1 .. K PROVE \E n \in 1 .. N : g[n] = p
    OBVIOUS
  <2>2. <<s, steps[p]>> \in Elems(z)
    BY <1>16, <1>17 DEF Elems
  <2>3. PICK n \in 1 .. N : f[n] = <<s, steps[p]>>
    <3>1. <<s, steps[p]>> \in Elems(f)
      BY <1>18, <2>2
    <3>2. Elems(f) = { f[n] : n \in 1 .. N }
      BY <1>20 DEF Elems
    <3> QED
      BY <3>1, <3>2
  <2>4. steps[g[n]] = steps[p] /\ g[n] \in 1 .. K
    BY <1>21, <2>3
  <2>5. g[n] = p
    BY <1>1, <2>4 DEF Distinct
  <2> QED
    BY <2>5
<1> HIDE DEF g
<1>25. N = K /\ \A n \in 1 .. N : g[n] = n
  BY <1>1, <1>20, <1>22, <1>23, <1>24, GrowingOnto
<1>26. \A n \in 1 .. K : f[n] = <<s, steps[n]>>
  BY <1>21, <1>25
<1>27. f = [p \in 1 .. K |-> <<s, steps[p]>>]
  <2>1. f \in Seq(T) /\ DOMAIN f = 1 .. K
    BY <1>18, <1>20, <1>25
  <2>2. f = [p \in DOMAIN f |-> f[p]]
    BY <2>1
  <2> QED
    BY <1>26, <2>1, <2>2
<1> QED
  BY <1>1, <1>2, <1>27
-----------------------------------------------------------------------------
(* Layers.                                                                 *)

\* The rows of the samples' steps at one position.
LayerRows(sel, pos) == { <<s, sel[s][pos]>> : s \in { t \in Samples : pos \in DOMAIN sel[t] } }

\* The samples' rows in their order.
RankedItems(sel) == [s \in Samples |-> [p \in DOMAIN sel[s] |-> <<s, sel[s][p]>>]]

LEMMA LayerHasPosition ==
    ASSUME NEW sel, \A s \in Samples : sel[s] \in StepLists(StepsOf[s], TopK),
           NEW order \in Seq(Samples), Distinct(order),
           \A s \in Samples : DOMAIN sel[s] # {} => s \in Elems(order),
           NEW pos \in Nat \ {0}, NEW q, q = Layer(RankedItems(sel), order, pos)
    PROVE  q \in Seq(Rows) /\ Elems(q) = LayerRows(sel, pos) /\ Distinct(q)
<1> DEFINE items == RankedItems(sel)
           P == { i \in DOMAIN order : pos <= Len(items[order[i]]) }
           has == Kept(order, P)
<1>1. /\ DOMAIN order = 1 .. Len(order) /\ Len(order) \in Nat
      /\ \A i \in DOMAIN order : order[i] \in Samples
  OBVIOUS
<1>2. ASSUME NEW s \in Samples
      PROVE  /\ pos <= Len(items[s]) <=> pos \in DOMAIN sel[s]
             /\ pos \in DOMAIN sel[s] =>
                  items[s][pos] = <<s, sel[s][pos]>> /\ items[s][pos] \in Rows
  <2>1. /\ DOMAIN sel[s] = 1 .. Len(sel[s]) /\ Len(sel[s]) \in Nat
        /\ \A p \in DOMAIN sel[s] : <<s, sel[s][p]>> \in Rows
    BY StepListsType
  <2>2. items[s] = [p \in DOMAIN sel[s] |-> <<s, sel[s][p]>>]
    BY DEF RankedItems
  <2>3. items[s] \in Seq(Rows) /\ DOMAIN items[s] = 1 .. Len(sel[s])
    BY <2>1, <2>2
  <2>4. Len(items[s]) = Len(sel[s])
    BY <2>1, <2>3
  <2>5. pos <= Len(items[s]) <=> pos \in DOMAIN sel[s]
    BY <2>1, <2>4
  <2> QED
    BY <2>1, <2>2, <2>5
<1> HIDE DEF items
<1>3. P = { i \in DOMAIN order : pos \in DOMAIN sel[order[i]] } /\ P \in SUBSET (DOMAIN order)
  BY <1>1, <1>2
<1>4. \A i, j \in P : order[i] = order[j] => i = j
  BY DEF Distinct
<1> HIDE DEF P
<1>5. has \in Seq(Samples)
  BY <1>3, KeptProperties
<1>6. Elems(has) = { order[i] : i \in P }
  BY <1>3, KeptElems
<1>7. Distinct(has)
  BY <1>3, <1>4, KeptDistinct
<1>8. q = [i \in DOMAIN has |-> items[has[i]][pos]]
  BY DEF Layer, P, items
<1> HIDE DEF has
<1>9. Elems(has) = { s \in Samples : pos \in DOMAIN sel[s] }
  <2>1. ASSUME NEW s \in Samples, pos \in DOMAIN sel[s] PROVE s \in { order[i] : i \in P }
    <3>1. PICK i \in DOMAIN order : order[i] = s
      BY <2>1 DEF Elems
    <3> QED
      BY <1>3, <2>1, <3>1
  <2>2. ASSUME NEW i \in P PROVE order[i] \in Samples /\ pos \in DOMAIN sel[order[i]]
    BY <1>1, <1>3
  <2> QED
    BY <1>6, <2>1, <2>2
<1>10. ASSUME NEW i \in DOMAIN has
       PROVE  /\ has[i] \in Samples /\ pos \in DOMAIN sel[has[i]]
              /\ q[i] = <<has[i], sel[has[i]][pos]>> /\ q[i] \in Rows
  <2>1. has[i] \in Elems(has)
    BY DEF Elems
  <2>2. has[i] \in Samples /\ pos \in DOMAIN sel[has[i]]
    BY <1>9, <2>1
  <2>3. q[i] = items[has[i]][pos]
    BY <1>8
  <2> QED
    BY <1>2, <2>2, <2>3
<1>11. DOMAIN has = 1 .. Len(has) /\ Len(has) \in Nat
  BY <1>5
<1>12. DOMAIN q = DOMAIN has /\ q \in Seq(Rows)
  <2>1. DOMAIN q = 1 .. Len(has)
    BY <1>8, <1>11
  <2>2. q \in [1 .. Len(has) -> Rows]
    BY <1>8, <1>10, <2>1, <1>11
  <2> QED
    BY <1>11, <2>1, <2>2
<1>13. Elems(q) = LayerRows(sel, pos)
  <2>1. ASSUME NEW x \in Elems(q) PROVE x \in LayerRows(sel, pos)
    <3>1. PICK i \in DOMAIN has : x = q[i]
      BY <1>12 DEF Elems
    <3>2. has[i] \in { t \in Samples : pos \in DOMAIN sel[t] } /\ x = <<has[i], sel[has[i]][pos]>>
      BY <1>10, <3>1
    <3> QED
      BY <3>2 DEF LayerRows
  <2>2. ASSUME NEW x \in LayerRows(sel, pos) PROVE x \in Elems(q)
    <3>1. PICK s \in Samples : pos \in DOMAIN sel[s] /\ x = <<s, sel[s][pos]>>
      BY DEF LayerRows
    <3>2. s \in Elems(has)
      BY <1>9, <3>1
    <3>3. PICK i \in DOMAIN has : has[i] = s
      BY <3>2 DEF Elems
    <3> QED
      BY <1>10, <1>12, <3>1, <3>3 DEF Elems
  <2> QED
    BY <2>1, <2>2
<1>14. Distinct(q)
  <2>1. SUFFICES ASSUME NEW i \in DOMAIN has, NEW j \in DOMAIN has, q[i] = q[j] PROVE i = j
    BY <1>12 DEF Distinct
  <2>2. has[i] = has[j]
    BY <1>10, <2>1
  <2> QED
    BY <1>7, <2>2 DEF Distinct
<1> QED
  BY <1>12, <1>13, <1>14
-----------------------------------------------------------------------------
(* Batches.                                                                *)

\* What BatchesSplit says of one batch.
Splits(b) ==
    /\ Len(b) % Divisor = 0 /\ Len(b) <= TrainBatch
    /\ \A i, m \in DOMAIN b : i < m /\ b[i] = b[m] => b[i] = b[Len(b)]
    /\ Len(b) - Cardinality(Unpadded(b)) < Divisor

\* The batches B are q, cut into pieces.
Cuts(q, B) ==
    /\ B \in Seq(Seq(Rows)) /\ \A k \in DOMAIN B : Unpadded(B[k]) # {}
    /\ UNION { Unpadded(B[k]) : k \in DOMAIN B } = Elems(q)
    /\ \A k, m \in DOMAIN B : k # m => Unpadded(B[k]) \cap Unpadded(B[m]) = {}
    /\ TrainBatch % Divisor = 0 => \A k \in DOMAIN B : Splits(B[k])

\* What has to be added to n to make it a multiple of d.
LEMMA Shortfall ==
    ASSUME NEW n \in Nat, NEW d \in Nat \ {0}, NEW short, short = (d - (n % d)) % d
    PROVE  /\ short \in 0 .. d - 1 /\ ((n + short) % d) = 0
           /\ \A t \in Nat : n <= d * t => n + short <= d * t
<1> DEFINE a == n \div d
           r == n % d
<1>1. a \in Nat /\ r \in 0 .. d - 1 /\ n = d * a + r
  BY DivisionExists
<1> HIDE DEF a, r
<1>2. short = (d - r) % d
  BY DEF r
<1>3. CASE r = 0
  <2>1. (d % d) = 0
    <3>1. d = d * 1 + 0 /\ 0 < d
      OBVIOUS
    <3> QED
      BY <3>1, Division
  <2>2. short = 0
    BY <1>2, <1>3, <2>1
  <2>3. (n % d) = 0
    BY <1>3 DEF r
  <2> QED
    BY <2>2, <2>3
<1>4. CASE r # 0
  <2>1. d - r \in 1 .. d - 1
    BY <1>1, <1>4
  <2>2. ((d - r) % d) = d - r
    <3>1. d - r = d * 0 + (d - r) /\ d - r \in Nat /\ d - r < d
      BY <2>1
    <3> QED
      BY <3>1, Division
  <2>3. short = d - r
    BY <1>2, <2>2
  <2>4. n + short = d * (a + 1)
    <3>1. d * (a + 1) = d * a + d
      BY <1>1
    <3>2. d * a \in Nat
      BY <1>1
    <3> QED
      BY <1>1, <2>3, <3>1, <3>2
  <2>5. ((n + short) % d) = 0
    <3>1. n + short = d * (a + 1) + 0 /\ a + 1 \in Nat /\ n + short \in Nat /\ 0 < d
      BY <1>1, <2>1, <2>3, <2>4
    <3> QED
      BY <3>1, Division
  <2>6. ASSUME NEW t \in Nat, n <= d * t PROVE n + short <= d * t
    <3>1. a < t
      <4>1. SUFFICES ASSUME a >= t PROVE FALSE
        BY <1>1
      <4>2. d * a >= d * t
        BY <1>1, <4>1
      <4>3. d * a \in Nat /\ d * t \in Nat
        BY <1>1
      <4> QED
        BY <1>1, <1>4, <2>6, <4>2, <4>3
    <3>2. a + 1 <= t /\ a + 1 \in Nat
      BY <1>1, <3>1
    <3>3. d * (a + 1) <= d * t
      BY <3>2
    <3> QED
      BY <2>4, <3>3
  <2> QED
    BY <2>1, <2>3, <2>5, <2>6
<1> QED
  BY <1>3, <1>4

\* Padding a batch adds no row, and makes it split if the batch size does.
LEMMA AlignedBatchSplits ==
    ASSUME NEW c \in Seq(Rows), Distinct(c), Len(c) \in 1 .. TrainBatch, NEW b, b = AlignedBatch(c)
    PROVE  /\ b \in Seq(Rows) /\ Unpadded(b) = Elems(c)
           /\ TrainBatch % Divisor = 0 => Splits(b)
<1> DEFINE n == Len(c)
           short == (Divisor - (n % Divisor)) % Divisor
           room == TrainBatch - n
           need == IF short < room THEN short ELSE room
           pad == [i \in 1 .. need |-> c[n]]
<1>1. /\ n \in Nat /\ n >= 1 /\ n <= TrainBatch /\ TrainBatch \in Nat \ {0}
      /\ Divisor \in Nat \ {0} /\ DOMAIN c = 1 .. n
  BY TrainerAssumption
<1>2. b = c \o pad
  BY DEF AlignedBatch
<1>3. /\ short \in 0 .. Divisor - 1 /\ ((n + short) % Divisor) = 0
      /\ \A t \in Nat : n <= Divisor * t => n + short <= Divisor * t
  BY <1>1, Shortfall
<1> HIDE DEF short
<1>4. need \in Nat /\ need <= short /\ need <= room
  BY <1>1, <1>3
<1> HIDE DEF need
<1>5. c[n] \in Rows /\ pad \in Seq(Rows) /\ Len(pad) = need /\ DOMAIN pad = 1 .. need
  BY <1>1, <1>4
<1>6. /\ b \in Seq(Rows) /\ Len(b) = n + need
      /\ \A i \in 1 .. n : b[i] = c[i]
      /\ \A j \in 1 .. need : b[n + j] = c[n]
  <2>1. /\ c \o pad \in Seq(Rows) /\ Len(c \o pad) = n + Len(pad)
        /\ \A i \in 1 .. n : (c \o pad)[i] = c[i]
        /\ \A j \in 1 .. Len(pad) : (c \o pad)[n + j] = pad[j]
    <3> HIDE DEF pad
    <3> QED
      BY <1>1, <1>5, ConcatPlaces
  <2>2. \A j \in 1 .. need : pad[j] = c[n]
    OBVIOUS
  <2> HIDE DEF pad, n
  <2> QED
    BY <1>2, <1>5, <2>1, <2>2
<1> HIDE DEF n, pad
<1>7. DOMAIN b = 1 .. n + need
  BY <1>6
<1>8. \A m \in 1 .. n + need : m > n => b[m] = c[n]
  <2>1. SUFFICES ASSUME NEW m \in 1 .. n + need, m > n PROVE b[m] = c[n]
    OBVIOUS
  <2>2. m - n \in 1 .. need /\ n + (m - n) = m
    BY <1>1, <1>4, <2>1
  <2> QED
    BY <1>6, <2>2
<1>9. Unpadded(b) = Elems(c)
  <2>1. \A m \in 1 .. n + need : m \in 1 .. n \/ m > n
    BY <1>1
  <2>2. n \in 1 .. n /\ \A i \in 1 .. n : i \in 1 .. n + need
    BY <1>1, <1>4
  <2>3. ASSUME NEW x \in Unpadded(b) PROVE x \in Elems(c)
    <3>1. PICK m \in 1 .. n + need : x = b[m]
      BY <1>7 DEF Unpadded
    <3> QED
      BY <1>1, <1>6, <1>8, <2>1, <2>2, <3>1 DEF Elems
  <2>4. ASSUME NEW x \in Elems(c) PROVE x \in Unpadded(b)
    BY <1>1, <1>6, <1>7, <2>2 DEF Elems, Unpadded
  <2> QED
    BY <2>3, <2>4
<1>10. ASSUME TrainBatch % Divisor = 0 PROVE Splits(b)
  <2>1. PICK t \in Nat : TrainBatch = Divisor * t
    <3>1. TrainBatch = Divisor * (TrainBatch \div Divisor) + (TrainBatch % Divisor)
      BY <1>1, DivisionExists
    <3>2. TrainBatch \div Divisor \in Nat
      BY <1>1, DivisionExists
    <3>3. Divisor * (TrainBatch \div Divisor) + 0 = Divisor * (TrainBatch \div Divisor)
      BY <1>1, <3>2
    <3> QED
      BY <1>10, <3>1, <3>2, <3>3
  <2>2. n + short <= TrainBatch
    BY <1>1, <1>3, <2>1
  <2>3. need = short
    BY <1>1, <1>3, <2>2 DEF need, room
  <2>4. Len(b) % Divisor = 0 /\ Len(b) <= TrainBatch
    BY <1>3, <1>6, <2>2, <2>3
  <2>5. b[Len(b)] = c[n]
    <3>1. CASE need = 0
      <4>1. n + need = n /\ n \in 1 .. n
        BY <1>1, <3>1
      <4> QED
        BY <1>6, <4>1
    <3>2. CASE need # 0
      <4>1. n + need \in 1 .. n + need /\ n + need > n
        BY <1>1, <1>4, <3>2
      <4> QED
        BY <1>6, <1>8, <4>1
    <3> QED
      BY <3>1, <3>2
  <2>6. ASSUME NEW i \in DOMAIN b, NEW m \in DOMAIN b, i < m, b[i] = b[m]
        PROVE  b[i] = b[Len(b)]
    <3>1. i \in 1 .. n + need /\ m \in 1 .. n + need
      BY <1>7
    <3>2. m > n
      <4>1. SUFFICES ASSUME m <= n PROVE FALSE
        BY <1>1, <3>1
      <4>2. i \in 1 .. n /\ m \in 1 .. n /\ i # m
        BY <1>1, <2>6, <3>1, <4>1
      <4>3. c[i] = c[m]
        BY <1>6, <2>6, <4>2
      <4> QED
        BY <1>1, <4>2, <4>3 DEF Distinct
    <3> QED
      BY <1>8, <2>5, <2>6, <3>1, <3>2
  <2>7. Cardinality(Unpadded(b)) = n
    <3>1. c \in [1 .. n -> Elems(c)]
      BY <1>1 DEF Elems
    <3>2. \A x \in Elems(c) : \E i \in 1 .. n : c[i] = x
      BY <1>1 DEF Elems
    <3>3. \A i, j \in 1 .. n : c[i] = c[j] => i = j
      BY <1>1 DEF Distinct
    <3> QED
      BY <1>1, <1>9, <3>1, <3>2, <3>3, Counted
  <2>8. Len(b) - Cardinality(Unpadded(b)) < Divisor
    BY <1>1, <1>3, <1>6, <2>3, <2>7
  <2> QED
    BY <2>4, <2>6, <2>8 DEF Splits
<1> QED
  BY <1>6, <1>9, <1>10

\* The pieces of at most size t of the n places.
LEMMA Pieces ==
    ASSUME NEW n \in Nat, NEW t \in Nat \ {0}, NEW K, K = (n + t - 1) \div t
    PROVE  /\ K \in Nat
           /\ \A k \in 1 .. K : (k - 1) * t \in Nat /\ (k - 1) * t < n /\ k * t = (k - 1) * t + t
           /\ \A i \in 1 .. n : \E k \in 1 .. K : (k - 1) * t < i /\ i <= k * t
           /\ \A k, m \in 1 .. K : k < m => k * t <= (m - 1) * t
<1> DEFINE r == (n + t - 1) % t
<1>1. n + t - 1 \in Nat
  OBVIOUS
<1>2. K \in Nat /\ r \in 0 .. t - 1 /\ n + t - 1 = t * K + r
  BY <1>1, DivisionExists
<1> HIDE DEF r
<1>3. ASSUME NEW k \in 1 .. K
      PROVE  (k - 1) * t \in Nat /\ (k - 1) * t < n /\ k * t = (k - 1) * t + t
  <2>1. k - 1 \in Nat /\ (k - 1) * t \in Nat
    <3>1. k - 1 \in Nat
      BY <1>2
    <3>2. \A a, b \in Nat : a * b \in Nat
      OBVIOUS
    <3> QED
      BY <3>1, <3>2
  <2>2. k * t = (k - 1) * t + t
    <3>1. \A a \in Nat : (a + 1) * t = a * t + t
      OBVIOUS
    <3>2. (k - 1) + 1 = k
      BY <1>2
    <3> QED
      BY <2>1, <3>1, <3>2
  <2>3. k * t <= t * K
    <3>1. \A a, b \in Nat : a <= b => a * t <= t * b
      OBVIOUS
    <3> QED
      BY <1>2, <3>1
  <2>4. k * t \in Nat /\ t * K \in Nat
    BY <1>2, <2>1, <2>2
  <2> QED
    BY <1>2, <2>1, <2>2, <2>3, <2>4
<1>4. ASSUME NEW i \in 1 .. n PROVE \E k \in 1 .. K : (k - 1) * t < i /\ i <= k * t
  <2> DEFINE a == (i - 1) \div t
             b == (i - 1) % t
  <2>1. a \in Nat /\ b \in 0 .. t - 1 /\ i - 1 = t * a + b
    <3>1. i - 1 \in Nat
      OBVIOUS
    <3> QED
      BY <3>1, DivisionExists
  <2> HIDE DEF a, b
  <2>2. t * a \in Nat /\ t * K \in Nat /\ a * t = t * a /\ (a + 1) * t = t * a + t
    BY <1>2, <2>1
  <2>3. a < K
    <3>1. SUFFICES ASSUME a >= K PROVE FALSE
      BY <1>2, <2>1
    <3>2. t * a >= t * K
      BY <1>2, <2>1, <3>1
    <3> QED
      BY <1>2, <2>1, <2>2, <3>2
  <2>4. a + 1 \in 1 .. K /\ (a + 1) - 1 = a
    BY <1>2, <2>1, <2>3
  <2>5. a * t < i /\ i <= (a + 1) * t
    BY <2>1, <2>2
  <2> QED
    BY <2>4, <2>5
<1>5. ASSUME NEW k \in 1 .. K, NEW m \in 1 .. K, k < m PROVE k * t <= (m - 1) * t
  <2>1. \A a, b \in Nat : a <= b => a * t <= b * t
    OBVIOUS
  <2>2. k \in Nat /\ m - 1 \in Nat /\ k <= m - 1
    BY <1>2, <1>5
  <2> QED
    BY <2>1, <2>2
<1> QED
  BY <1>2, <1>3, <1>4, <1>5

\* The batches of a layer have each of its rows, in one of them.
LEMMA BatchesCut ==
    ASSUME NEW q \in Seq(Rows), Distinct(q)
    PROVE  Cuts(q, Batches(q))
<1> DEFINE n == Len(q)
           t == TrainBatch
           K == (n + t - 1) \div t
           B == Batches(q)
           lo(k) == (k - 1) * t
           hi(k) == IF k * t < n THEN k * t ELSE n
           c(k) == SubSeq(q, lo(k) + 1, hi(k))
<1>1. n \in Nat /\ t \in Nat \ {0} /\ DOMAIN q = 1 .. n
  BY TrainerAssumption
<1>2. B = [k \in 1 .. K |-> AlignedBatch(c(k))]
  BY DEF Batches
<1> HIDE DEF K, B, n, t
<1>3. /\ K \in Nat
      /\ \A k \in 1 .. K : (k - 1) * t \in Nat /\ (k - 1) * t < n /\ k * t = (k - 1) * t + t
      /\ \A i \in 1 .. n : \E k \in 1 .. K : (k - 1) * t < i /\ i <= k * t
      /\ \A k, m \in 1 .. K : k < m => k * t <= (m - 1) * t
  <2>1. K = (n + t - 1) \div t
    BY DEF K
  <2> QED
    BY <1>1, <2>1, Pieces
<1>4. ASSUME NEW k \in 1 .. K
      PROVE  /\ lo(k) \in Nat /\ hi(k) \in Nat /\ lo(k) < hi(k) /\ hi(k) <= lo(k) + t
             /\ hi(k) <= n /\ hi(k) <= k * t /\ (\A i \in 1 .. n : i <= k * t => i <= hi(k))
  BY <1>1, <1>3
<1> HIDE DEF lo, hi
<1>5. ASSUME NEW k \in 1 .. K
      PROVE  /\ c(k) \in Seq(Rows) /\ Distinct(c(k)) /\ Len(c(k)) \in 1 .. t
             /\ Elems(c(k)) = { q[i] : i \in lo(k) + 1 .. hi(k) }
  <2> DEFINE s == c(k)
             a == lo(k)
             b == hi(k)
  <2>1. /\ q \in Seq(Rows) /\ a \in Nat /\ b \in a .. Len(q) /\ s = SubSeq(q, a + 1, b)
        /\ a < b /\ b <= a + t
    BY <1>1, <1>4 DEF n
  <2> HIDE DEF s, a, b
  <2>2. s \in Seq(Rows) /\ Len(s) = b - a /\ DOMAIN s = 1 .. b - a
    BY <2>1, Slice
  <2>3. \A i \in 1 .. b - a : s[i] = q[a + i]
    BY <2>1, Slice
  <2>4. Len(s) \in 1 .. t
    BY <1>1, <2>1, <2>2
  <2>5. \A i \in 1 .. b - a : a + i \in 1 .. n /\ a + i \in a + 1 .. b
    BY <1>1, <2>1 DEF n
  <2>6. Distinct(s)
    <3>1. SUFFICES ASSUME NEW i \in 1 .. b - a, NEW j \in 1 .. b - a, s[i] = s[j] PROVE i = j
      BY <2>2 DEF Distinct
    <3>2. a + i \in 1 .. n /\ a + j \in 1 .. n /\ q[a + i] = q[a + j]
      BY <2>3, <2>5, <3>1
    <3>3. a + i = a + j
      BY <1>1, <3>2 DEF Distinct
    <3> QED
      BY <2>1, <3>3
  <2>7. Elems(s) = { q[i] : i \in a + 1 .. b }
    <3>1. ASSUME NEW x \in Elems(s) PROVE \E i \in a + 1 .. b : x = q[i]
      <4>1. PICK i \in 1 .. b - a : x = s[i]
        BY <2>2 DEF Elems
      <4> QED
        BY <2>3, <2>5, <4>1
    <3>2. ASSUME NEW i \in a + 1 .. b PROVE q[i] \in Elems(s)
      <4>1. i - a \in 1 .. b - a /\ a + (i - a) = i
        BY <2>1
      <4> QED
        BY <2>2, <2>3, <4>1 DEF Elems
    <3> QED
      BY <3>1, <3>2
  <2>8. s = c(k) /\ a = lo(k) /\ b = hi(k)
    BY DEF s, a, b
  <2> QED
    BY <2>2, <2>4, <2>6, <2>7, <2>8
<1> HIDE DEF c
<1>6. ASSUME NEW k \in 1 .. K
      PROVE  /\ B[k] \in Seq(Rows) /\ Unpadded(B[k]) = { q[i] : i \in lo(k) + 1 .. hi(k) }
             /\ TrainBatch % Divisor = 0 => Splits(B[k])
  <2>1. B[k] = AlignedBatch(c(k)) /\ Len(c(k)) \in 1 .. TrainBatch
    BY <1>2, <1>5 DEF t
  <2>2. c(k) \in Seq(Rows) /\ Distinct(c(k))
    BY <1>5
  <2>3. /\ B[k] \in Seq(Rows) /\ Unpadded(B[k]) = Elems(c(k))
        /\ TrainBatch % Divisor = 0 => Splits(B[k])
    BY <2>1, <2>2, AlignedBatchSplits
  <2> QED
    BY <1>5, <2>3
<1>7. DOMAIN B = 1 .. K /\ B \in Seq(Seq(Rows))
  BY <1>2, <1>3, <1>6
<1>8. \A k \in DOMAIN B : Unpadded(B[k]) # {}
  <2>1. SUFFICES ASSUME NEW k \in 1 .. K PROVE Unpadded(B[k]) # {}
    BY <1>7
  <2>2. hi(k) \in lo(k) + 1 .. hi(k)
    BY <1>4
  <2>3. q[hi(k)] \in { q[i] : i \in lo(k) + 1 .. hi(k) }
    BY <2>2
  <2> QED
    BY <1>6, <2>3
<1>9. UNION { Unpadded(B[k]) : k \in DOMAIN B } = Elems(q)
  <2>1. ASSUME NEW k \in 1 .. K, NEW x \in Unpadded(B[k]) PROVE x \in Elems(q)
    <3>1. PICK i \in lo(k) + 1 .. hi(k) : x = q[i]
      BY <1>6, <2>1
    <3>2. i \in 1 .. n
      BY <1>1, <1>4, <3>1
    <3> QED
      BY <1>1, <3>1, <3>2 DEF Elems
  <2>2. ASSUME NEW x \in Elems(q) PROVE \E k \in 1 .. K : x \in Unpadded(B[k])
    <3>1. PICK i \in 1 .. n : x = q[i]
      BY <1>1 DEF Elems
    <3>2. PICK k \in 1 .. K : (k - 1) * t < i /\ i <= k * t
      BY <1>3
    <3>3. lo(k) < i
      BY <3>2 DEF lo
    <3>4. i \in lo(k) + 1 .. hi(k)
      BY <1>1, <1>4, <3>2, <3>3
    <3> QED
      BY <1>6, <3>1, <3>4
  <2> QED
    BY <1>7, <2>1, <2>2
<1>10. ASSUME NEW k \in 1 .. K, NEW m \in 1 .. K, k < m
       PROVE  Unpadded(B[k]) \cap Unpadded(B[m]) = {}
  <2>1. SUFFICES ASSUME NEW x, x \in Unpadded(B[k]), x \in Unpadded(B[m]) PROVE FALSE
    OBVIOUS
  <2>2. PICK i \in lo(k) + 1 .. hi(k) : x = q[i]
    BY <1>6, <2>1
  <2>3. PICK j \in lo(m) + 1 .. hi(m) : x = q[j]
    BY <1>6, <2>1
  <2>4. i \in 1 .. n /\ j \in 1 .. n
    BY <1>1, <1>4, <2>2, <2>3
  <2>5. k * t <= lo(m)
    BY <1>3, <1>10 DEF lo
  <2>6. k * t \in Int
    BY <1>1, <1>10
  <2>7. i <= k * t /\ lo(m) < j
    <3>1. hi(k) \in Nat /\ hi(k) <= k * t /\ lo(k) \in Nat /\ lo(m) \in Nat /\ hi(m) \in Nat
      BY <1>4
    <3> QED
      BY <2>6, <3>1
  <2>8. i < j
    <3>1. lo(m) \in Nat
      BY <1>4
    <3> QED
      BY <2>4, <2>5, <2>6, <2>7, <3>1
  <2>9. i = j
    BY <1>1, <2>2, <2>3, <2>4 DEF Distinct
  <2> QED
    BY <2>4, <2>8, <2>9
<1>11. \A k, m \in DOMAIN B : k # m => Unpadded(B[k]) \cap Unpadded(B[m]) = {}
  <2>1. SUFFICES ASSUME NEW k \in 1 .. K, NEW m \in 1 .. K, k # m
                 PROVE  Unpadded(B[k]) \cap Unpadded(B[m]) = {}
    BY <1>7
  <2>2. k < m \/ m < k
    BY <1>3, <2>1
  <2> QED
    BY <1>10, <2>2
<1>12. TrainBatch % Divisor = 0 => \A k \in DOMAIN B : Splits(B[k])
  BY <1>6, <1>7
<1>13. Cuts(q, B)
  BY <1>7, <1>8, <1>9, <1>11, <1>12 DEF Cuts
<1> QED
  BY <1>13 DEF B
-----------------------------------------------------------------------------
(* The plan of the updates.                                                *)

KeyStepsOK(sel) == \A s \in Samples : sel[s] \in StepLists(StepsOf[s], TopK)

\* The rows in the batches number a to b.
RowsIn(P, a, b) == UNION { Unpadded(P[m]) : m \in a .. b }

\* The batches P go through the key steps position by position, and through all
\* of them; each has its own rows and splits over the workers.
PlanOK(sel, P) ==
    /\ P \in Seq(Seq(Rows))
    /\ \A k \in 1 .. Len(P) : \E pos \in 1 .. TopK :
         /\ Unpadded(P[k]) \subseteq LayerRows(sel, pos)
         /\ \A p \in 1 .. pos - 1 : LayerRows(sel, p) \subseteq RowsIn(P, 1, k - 1)
    /\ RowsIn(P, 1, Len(P)) = StepRows(sel, Samples)
    /\ \A k, m \in 1 .. Len(P) : k # m => Unpadded(P[k]) \cap Unpadded(P[m]) = {}
    /\ TrainBatch % Divisor = 0 => \A k \in 1 .. Len(P) : Splits(P[k])

LEMMA LayersDiffer ==
    ASSUME NEW sel, KeyStepsOK(sel), NEW p, NEW r, p # r
    PROVE  LayerRows(sel, p) \cap LayerRows(sel, r) = {}
<1> SUFFICES ASSUME NEW x, x \in LayerRows(sel, p), x \in LayerRows(sel, r) PROVE FALSE
  OBVIOUS
<1>1. PICK s \in Samples : p \in DOMAIN sel[s] /\ x = <<s, sel[s][p]>>
  BY DEF LayerRows
<1>2. PICK t \in Samples : r \in DOMAIN sel[t] /\ x = <<t, sel[t][r]>>
  BY DEF LayerRows
<1>3. s = t /\ sel[s][p] = sel[s][r] /\ r \in DOMAIN sel[s]
  BY <1>1, <1>2
<1>4. Distinct(sel[s])
  BY DEF KeyStepsOK, StepLists
<1> QED
  BY <1>1, <1>3, <1>4 DEF Distinct

\* A sample has no more key steps than there are rows.
LEMMA LayersSuffice ==
    ASSUME NEW sel, KeyStepsOK(sel), NEW s \in Samples, NEW p \in DOMAIN sel[s]
    PROVE  p \in 1 .. Cardinality(Rows) /\ p \in 1 .. TopK
<1> DEFINE n == Len(sel[s])
           f == [i \in 1 .. n |-> <<s, sel[s][i]>>]
<1>1. sel[s] \in StepLists(StepsOf[s], TopK)
  BY DEF KeyStepsOK
<1>2. /\ n \in 0 .. TopK /\ DOMAIN sel[s] = 1 .. n /\ Distinct(sel[s])
      /\ \A i \in 1 .. n : <<s, sel[s][i]>> \in Rows
  BY <1>1, StepListsType
<1>3. TopK \in Nat /\ n \in Nat /\ Cardinality(Rows) \in Nat
  BY <1>2, TrainerAssumption, SamplesType
<1> HIDE DEF n
<1>4. f \in Injection(1 .. n, Rows)
  BY <1>2 DEF Injection, IsInjective, Distinct
<1>5. Cardinality(1 .. n) <= Cardinality(Rows)
  BY <1>4, SamplesType, FS_Injection
<1>6. Cardinality(1 .. n) = n
  BY <1>3, Interval
<1>7. p \in 1 .. n
  BY <1>2
<1> QED
  BY <1>2, <1>3, <1>5, <1>6, <1>7

LEMMA LayersCover ==
    ASSUME NEW sel, KeyStepsOK(sel)
    PROVE  UNION { LayerRows(sel, p) : p \in 1 .. Cardinality(Rows) } = StepRows(sel, Samples)
<1>1. ASSUME NEW p, NEW x \in LayerRows(sel, p) PROVE x \in StepRows(sel, Samples)
  BY DEF LayerRows, StepRows
<1>2. ASSUME NEW x \in StepRows(sel, Samples)
      PROVE  \E p \in 1 .. Cardinality(Rows) : x \in LayerRows(sel, p)
  <2>1. PICK s \in Samples : x \in { <<s, sel[s][p]>> : p \in DOMAIN sel[s] }
    BY DEF StepRows
  <2>2. PICK p \in DOMAIN sel[s] : x = <<s, sel[s][p]>>
    BY <2>1
  <2>3. p \in 1 .. Cardinality(Rows)
    BY LayersSuffice
  <2>4. x \in LayerRows(sel, p)
    BY <2>2 DEF LayerRows
  <2> QED
    BY <2>3, <2>4
<1> QED
  BY <1>1, <1>2

\* The layers cut into batches.
LayersCut(sel, qs) ==
    /\ qs \in Seq(Seq(Seq(Rows))) /\ Len(qs) = Cardinality(Rows)
    /\ \A pos \in 1 .. Cardinality(Rows) :
         \E q : Elems(q) = LayerRows(sel, pos) /\ Cuts(q, qs[pos])

LEMMA LayersPlanned ==
    ASSUME NEW sel, KeyStepsOK(sel), NEW qs, LayersCut(sel, qs)
    PROVE  PlanOK(sel, FlattenSeq(qs))
<1> DEFINE S == Seq(Rows)
           C == Cardinality(Rows)
           P == FlattenSeq(qs)
<1>1. C \in Nat
  BY SamplesType
<1>3. qs \in Seq(Seq(S)) /\ Len(qs) = C /\ DOMAIN qs = 1 .. C
  BY DEF LayersCut
<1>2. ASSUME NEW pos \in 1 .. C
      PROVE  /\ qs[pos] \in Seq(S) /\ \A j \in DOMAIN qs[pos] : Unpadded(qs[pos][j]) # {}
             /\ UNION { Unpadded(qs[pos][j]) : j \in DOMAIN qs[pos] } = LayerRows(sel, pos)
             /\ \A j, m \in DOMAIN qs[pos] : j # m => Unpadded(qs[pos][j]) \cap Unpadded(qs[pos][m]) = {}
             /\ TrainBatch % Divisor = 0 => \A j \in DOMAIN qs[pos] : Splits(qs[pos][j])
  <2>1. PICK q : Elems(q) = LayerRows(sel, pos) /\ Cuts(q, qs[pos])
    BY DEF LayersCut
  <2> QED
    BY <2>1 DEF Cuts
<1> HIDE DEF S, C
<1>4. PICK off : Offsets(off, qs)
  BY <1>3, OffsetsExist
<1>5. /\ P \in Seq(S)
      /\ \A i \in 1 .. C : \A j \in 1 .. Len(qs[i]) :
           off[i - 1] + j \in 1 .. Len(P) /\ P[off[i - 1] + j] = qs[i][j]
      /\ \A n \in 1 .. Len(P) : \E i \in 1 .. C : \E j \in 1 .. Len(qs[i]) : n = off[i - 1] + j
  <2>1. qs \in Seq(Seq(S)) /\ Offsets(off, qs)
    BY <1>3, <1>4
  <2>2. /\ FlattenSeq(qs) \in Seq(S)
        /\ \A i \in 1 .. Len(qs) : \A j \in 1 .. Len(qs[i]) :
             /\ off[i - 1] + j \in 1 .. Len(FlattenSeq(qs))
             /\ FlattenSeq(qs)[off[i - 1] + j] = qs[i][j]
        /\ \A n \in 1 .. Len(FlattenSeq(qs)) :
             \E i \in 1 .. Len(qs) : \E j \in 1 .. Len(qs[i]) : n = off[i - 1] + j
    BY <2>1, FlattenProperties, SMTT(60)
  <2> QED
    BY <1>3, <2>2
<1> HIDE DEF P
<1>6. \A i \in 1 .. C : DOMAIN qs[i] = 1 .. Len(qs[i]) /\ Len(qs[i]) \in Nat
  BY <1>2
<1>7. Len(P) \in Nat
  BY <1>5
<1>8. /\ \A i \in 0 .. C : off[i] \in Nat
      /\ \A i \in 1 .. C : i - 1 \in 0 .. C /\ off[i] = off[i - 1] + Len(qs[i])
  BY <1>1, <1>3, <1>4 DEF Offsets
<1>9. ASSUME NEW i \in 1 .. C, NEW j \in 1 .. Len(qs[i])
      PROVE  Unpadded(qs[i][j]) # {} /\ Unpadded(qs[i][j]) \subseteq LayerRows(sel, i)
  BY <1>2, <1>6
<1>10. ASSUME NEW i \in 1 .. C, NEW x \in LayerRows(sel, i)
       PROVE  \E j \in 1 .. Len(qs[i]) : x \in Unpadded(qs[i][j])
  BY <1>2, <1>6
<1>11. ASSUME NEW k \in 1 .. Len(P)
       PROVE  \E pos \in 1 .. TopK :
                /\ Unpadded(P[k]) \subseteq LayerRows(sel, pos)
                /\ \A p \in 1 .. pos - 1 : LayerRows(sel, p) \subseteq RowsIn(P, 1, k - 1)
  <2>1. PICK i \in 1 .. C : \E j \in 1 .. Len(qs[i]) : k = off[i - 1] + j
    BY <1>5
  <2>2. PICK j \in 1 .. Len(qs[i]) : k = off[i - 1] + j
    BY <2>1
  <2>3. Unpadded(P[k]) # {} /\ Unpadded(P[k]) \subseteq LayerRows(sel, i)
    BY <1>5, <1>9, <2>2
  <2>4. i \in 1 .. TopK
    <3>1. PICK x : x \in LayerRows(sel, i)
      BY <2>3
    <3>2. PICK s \in Samples : i \in DOMAIN sel[s]
      BY <3>1 DEF LayerRows
    <3> QED
      BY <3>2, LayersSuffice DEF C
  <2>5. ASSUME NEW p \in 1 .. i - 1, NEW x \in LayerRows(sel, p) PROVE x \in RowsIn(P, 1, k - 1)
    <3>1. p \in 1 .. C /\ i - 1 \in 0 .. C /\ p \in 0 .. C /\ i - 1 \in p .. C
      BY <1>1
    <3>2. PICK m \in 1 .. Len(qs[p]) : x \in Unpadded(qs[p][m])
      BY <1>10, <3>1
    <3>3. off[p - 1] + m \in 1 .. Len(P) /\ P[off[p - 1] + m] = qs[p][m]
      BY <1>5, <3>1
    <3>4. off[p - 1] + m <= off[p]
      BY <1>6, <1>8, <3>1
    <3>5. off[p] <= off[i - 1]
      BY <1>3, <1>4, <3>1, OffsetsGrow
    <3>6. off[i - 1] < k
      BY <1>6, <1>8, <2>2, <3>1
    <3>7. off[p] \in Nat /\ off[i - 1] \in Nat
      BY <1>8, <3>1
    <3>8. off[p - 1] + m \in 1 .. k - 1
      BY <1>7, <3>3, <3>4, <3>5, <3>6, <3>7
    <3>9. x \in Unpadded(P[off[p - 1] + m])
      BY <3>2, <3>3
    <3> QED
      BY <3>8, <3>9 DEF RowsIn
  <2> QED
    BY <2>3, <2>4, <2>5
<1>12. RowsIn(P, 1, Len(P)) = StepRows(sel, Samples)
  <2>1. ASSUME NEW k \in 1 .. Len(P), NEW x \in Unpadded(P[k])
        PROVE  \E i \in 1 .. C : x \in LayerRows(sel, i)
    <3>1. PICK i \in 1 .. C : \E j \in 1 .. Len(qs[i]) : k = off[i - 1] + j
      BY <1>5
    <3>2. PICK j \in 1 .. Len(qs[i]) : k = off[i - 1] + j
      BY <3>1
    <3> QED
      BY <1>5, <1>9, <2>1, <3>2
  <2>2. ASSUME NEW i \in 1 .. C, NEW x \in LayerRows(sel, i) PROVE x \in RowsIn(P, 1, Len(P))
    <3>1. PICK j \in 1 .. Len(qs[i]) : x \in Unpadded(qs[i][j])
      BY <1>10, <2>2
    <3> QED
      BY <1>5, <3>1 DEF RowsIn
  <2>3. UNION { LayerRows(sel, i) : i \in 1 .. C } = StepRows(sel, Samples)
    BY LayersCover DEF C
  <2>4. RowsIn(P, 1, Len(P)) = UNION { LayerRows(sel, i) : i \in 1 .. C }
    BY <2>1, <2>2 DEF RowsIn
  <2> QED
    BY <2>3, <2>4
<1>13. ASSUME NEW k \in 1 .. Len(P), NEW m \in 1 .. Len(P), k # m
       PROVE  Unpadded(P[k]) \cap Unpadded(P[m]) = {}
  <2>1. PICK i \in 1 .. C : \E j \in 1 .. Len(qs[i]) : k = off[i - 1] + j
    BY <1>5
  <2>2. PICK j \in 1 .. Len(qs[i]) : k = off[i - 1] + j
    BY <2>1
  <2>3. PICK h \in 1 .. C : \E g \in 1 .. Len(qs[h]) : m = off[h - 1] + g
    BY <1>5
  <2>4. PICK g \in 1 .. Len(qs[h]) : m = off[h - 1] + g
    BY <2>3
  <2>5. P[k] = qs[i][j] /\ P[m] = qs[h][g]
    BY <1>5, <2>2, <2>4
  <2>6. CASE i = h
    <3>1. j # g
      BY <1>13, <2>2, <2>4, <2>6
    <3>2. j \in DOMAIN qs[i] /\ g \in DOMAIN qs[i]
      BY <1>6, <2>6
    <3>3. Unpadded(qs[i][j]) \cap Unpadded(qs[i][g]) = {}
      BY <1>2, <3>1, <3>2
    <3> QED
      BY <2>5, <2>6, <3>3
  <2>7. CASE i # h
    <3>1. LayerRows(sel, i) \cap LayerRows(sel, h) = {}
      BY <2>7, LayersDiffer
    <3> QED
      BY <1>9, <2>5, <3>1
  <2> QED
    BY <2>6, <2>7
<1>14. ASSUME TrainBatch % Divisor = 0, NEW k \in 1 .. Len(P) PROVE Splits(P[k])
  <2>1. PICK i \in 1 .. C : \E j \in 1 .. Len(qs[i]) : k = off[i - 1] + j
    BY <1>5
  <2>2. PICK j \in 1 .. Len(qs[i]) : k = off[i - 1] + j
    BY <2>1
  <2>3. P[k] = qs[i][j]
    BY <1>5, <2>2
  <2> QED
    BY <1>2, <1>6, <1>14, <2>3
<1> QED
  BY <1>5, <1>11, <1>12, <1>13, <1>14 DEF PlanOK, P, S

\* The samples that have rows in the buffer, once each.
LEMMA SampleOrderHas ==
    ASSUME buffer \in Seq(Rows), NEW sel, Elems(buffer) = StepRows(sel, Samples)
    PROVE  /\ SampleOrder \in Seq(Samples) /\ Distinct(SampleOrder)
           /\ \A s \in Samples : DOMAIN sel[s] # {} => s \in Elems(SampleOrder)
<1> DEFINE ids == [i \in DOMAIN buffer |-> buffer[i][1]]
<1>1. DOMAIN buffer = 1 .. Len(buffer) /\ Len(buffer) \in Nat
  OBVIOUS
<1>2. \A i \in DOMAIN buffer : buffer[i][1] \in Samples
  <2>1. \A r \in Rows : r[1] \in Samples
    BY DEF Rows, RowsOf
  <2> QED
    BY <2>1
<1>3. ids \in Seq(Samples) /\ DOMAIN ids = DOMAIN buffer
  BY <1>1, <1>2
<1>4. ASSUME NEW s \in Samples, DOMAIN sel[s] # {} PROVE s \in Elems(ids)
  <2>1. PICK p : p \in DOMAIN sel[s]
    BY <1>4
  <2>2. <<s, sel[s][p]>> \in Elems(buffer)
    BY <2>1 DEF StepRows
  <2>3. PICK i \in DOMAIN buffer : buffer[i] = <<s, sel[s][p]>>
    BY <2>2 DEF Elems
  <2>4. ids[i] = s
    BY <2>3
  <2> QED
    BY <1>3, <2>4 DEF Elems
<1>5. SampleOrder = FirstOccurrences(ids)
  BY DEF SampleOrder
<1> HIDE DEF ids
<1>6. /\ SampleOrder \in Seq(Samples) /\ Distinct(SampleOrder)
      /\ Elems(SampleOrder) = Elems(ids)
  BY <1>3, <1>5, FirstOccurrencesKept
<1> QED
  BY <1>4, <1>6

LEMMA ItemsAreRanked ==
    ASSUME buffer \in Seq(Rows), NEW sel, KeyStepsOK(sel), Elems(buffer) = StepRows(sel, Samples),
           \A s \in Samples : keyJson[s] = sel[s]
    PROVE  Items = RankedItems(sel)
<1>1. ASSUME NEW s \in Samples
      PROVE  SampleItems(buffer, s, keyJson[s]) = [p \in DOMAIN sel[s] |-> <<s, sel[s][p]>>]
  <2>1. sel[s] \in StepLists(StepsOf[s], TopK)
    BY DEF KeyStepsOK
  <2>2. ASSUME NEW r \in Rows
        PROVE  (r \in Elems(buffer) /\ r[1] = s) <=> \E p \in DOMAIN sel[s] : r = <<s, sel[s][p]>>
    <3>1. ASSUME r \in Elems(buffer), r[1] = s PROVE \E p \in DOMAIN sel[s] : r = <<s, sel[s][p]>>
      <4>1. PICK t \in Samples : r \in { <<t, sel[t][p]>> : p \in DOMAIN sel[t] }
        BY <3>1 DEF StepRows
      <4>2. PICK p \in DOMAIN sel[t] : r = <<t, sel[t][p]>>
        BY <4>1
      <4>3. t = s
        BY <3>1, <4>2
      <4> QED
        BY <4>2, <4>3
    <3>2. ASSUME NEW p \in DOMAIN sel[s], r = <<s, sel[s][p]>> PROVE r \in Elems(buffer) /\ r[1] = s
      BY <3>2 DEF StepRows
    <3> QED
      BY <3>1, <3>2
  <2>3. SampleItems(buffer, s, sel[s]) = [p \in DOMAIN sel[s] |-> <<s, sel[s][p]>>]
    BY <2>1, <2>2, ItemsInOrder
  <2> QED
    BY <2>3
<1> QED
  BY <1>1 DEF Items, RankedItems

LEMMA PlanIsRight ==
    ASSUME buffer \in Seq(Rows), NEW sel, KeyStepsOK(sel), Elems(buffer) = StepRows(sel, Samples),
           \A s \in Samples : keyJson[s] = sel[s]
    PROVE  PlanOK(sel, Plan)
<1> DEFINE C == Cardinality(Rows)
           q(pos) == Layer(RankedItems(sel), SampleOrder, pos)
           qs == [pos \in 1 .. C |-> Batches(q(pos))]
<1>1. Items = RankedItems(sel)
  BY ItemsAreRanked
<1>2. Plan = FlattenSeq(qs)
  BY <1>1 DEF Plan
<1>3. ASSUME NEW pos \in 1 .. C PROVE \E x : Elems(x) = LayerRows(sel, pos) /\ Cuts(x, qs[pos])
  <2>1. pos \in Nat \ {0} /\ qs[pos] = Batches(q(pos))
    BY SamplesType
  <2>2. /\ SampleOrder \in Seq(Samples) /\ Distinct(SampleOrder)
        /\ \A s \in Samples : DOMAIN sel[s] # {} => s \in Elems(SampleOrder)
    BY SampleOrderHas
  <2>3. q(pos) \in Seq(Rows) /\ Elems(q(pos)) = LayerRows(sel, pos) /\ Distinct(q(pos))
    BY <2>1, <2>2, LayerHasPosition DEF KeyStepsOK
  <2> HIDE DEF q
  <2>4. Cuts(q(pos), Batches(q(pos)))
    BY <2>3, BatchesCut
  <2> QED
    BY <2>1, <2>3, <2>4
<1>4. qs \in Seq(Seq(Seq(Rows))) /\ Len(qs) = C
  <2>1. \A pos \in 1 .. C : qs[pos] \in Seq(Seq(Rows))
    BY <1>3 DEF Cuts
  <2>2. C \in Nat
    BY SamplesType
  <2> HIDE DEF q, C
  <2> QED
    BY <2>1, <2>2
<1>5. LayersCut(sel, qs)
  <2> HIDE DEF qs
  <2> QED
    BY <1>3, <1>4 DEF LayersCut
<1> HIDE DEF qs
<1> QED
  BY <1>2, <1>5, LayersPlanned
-----------------------------------------------------------------------------
(* The curriculum.                                                         *)

\* The replay buffer has the rows of the key steps of the samples delivered so
\* far, and key.json has those steps too.
BufferOK ==
    /\ buffer \in Seq(Rows) /\ Elems(buffer) = StepRows(selected, Samples)
    /\ \A s \in Elems(done) : keyJson[s] = selected[s]
    /\ \A s \in Samples \ Elems(done) : selected[s] = <<>>

\* What has been run is the beginning of the plan.
TrainedOK ==
    /\ next \in 1 .. Len(plan) + 1
    /\ trained \in Seq(Seq(Rows)) /\ Len(trained) = next - 1
    /\ \A k \in 1 .. next - 1 : trained[k] = plan[k]

Working == {"update", "save", "done"}

\* The inductive invariant: while the samples are rolled out the buffer keeps up
\* with them, and from then on the plan is right and is being carried out.
CurriculumInv ==
    /\ DeliveryOK /\ KeyStepsOK(selected) /\ KeyStepsOK(keyJson)
    /\ DOMAIN selected = Samples /\ DOMAIN keyJson = Samples
    /\ pc \in {"down", "rollout"} \cup Working
    /\ pc \in {"down", "rollout"} => plan = <<>> /\ trained = <<>> /\ next = 1
    /\ pc = "rollout" => BufferOK
    /\ pc \in Working => PlanOK(selected, plan) /\ TrainedOK

LEMMA NoStepsOK ==
    /\ KeyStepsOK(NoSteps) /\ DOMAIN NoSteps = Samples
    /\ StepRows(NoSteps, Samples) = {} /\ \A s \in Samples : NoSteps[s] = <<>>
<1>1. \A s \in Samples : NoSteps[s] = <<>>
  BY DEF NoSteps
<1>2. ASSUME NEW s \in Samples PROVE <<>> \in StepLists(StepsOf[s], TopK)
  <2>1. <<>> \in Seq(StepsOf[s] \ {0}) /\ Len(<<>>) = 0 /\ DOMAIN <<>> = {}
    OBVIOUS
  <2>2. Distinct(<<>>)
    BY DEF Distinct
  <2>3. Len(<<>>) <= TopK
    BY <2>1, TrainerAssumption
  <2> QED
    BY <2>1, <2>2, <2>3 DEF StepLists
<1>3. KeyStepsOK(NoSteps)
  BY <1>1, <1>2 DEF KeyStepsOK
<1>4. StepRows(NoSteps, Samples) = {}
  BY <1>1 DEF StepRows
<1> QED
  BY <1>1, <1>3, <1>4 DEF NoSteps

LEMMA CurriculumInvInit == Init => CurriculumInv
<1> SUFFICES ASSUME Init PROVE CurriculumInv
  OBVIOUS
<1>1. /\ pc = "down" /\ plan = <<>> /\ trained = <<>> /\ next = 1
      /\ keyJson = NoSteps /\ selected = NoSteps
  BY DEF Init
<1>2. DeliveryOK
  <2>1. todo \in Sampler!Passes /\ done = <<>>
    BY DEF Init, Sampler!Init
  <2>2. todo \in Seq(Samples) /\ Elems(todo) = Samples /\ Distinct(todo)
    BY <2>1, PassHasEverySample
  <2>3. done \in Seq(Samples) /\ Elems(done) = {}
    BY <2>1 DEF Elems
  <2> QED
    BY <2>2, <2>3 DEF DeliveryOK
<1> QED
  BY <1>1, <1>2, NoStepsOK DEF CurriculumInv, Working

\* An epoch begins with nothing selected, buffered or planned.
LEMMA EpochBegins ==
    ASSUME NEW e, BeginEpoch(e), KeyStepsOK(keyJson'), DOMAIN keyJson' = Samples
    PROVE  CurriculumInv'
<1>1. /\ pc' = "rollout" /\ plan' = <<>> /\ trained' = <<>> /\ next' = 1
      /\ buffer' = <<>> /\ selected' = NoSteps /\ done' = <<>>
  BY DEF BeginEpoch, Sampler!NewPass
<1>2. DeliveryOK'
  BY PassBegins DEF BeginEpoch
<1>3. BufferOK'
  <2>1. buffer' \in Seq(Rows) /\ Elems(buffer') = {} /\ Elems(done') = {}
    BY <1>1 DEF Elems
  <2>2. Elems(buffer') = StepRows(selected', Samples)
    BY <1>1, <2>1, NoStepsOK
  <2>3. \A s \in Samples : selected'[s] = <<>>
    BY <1>1, NoStepsOK
  <2> QED
    BY <2>1, <2>2, <2>3 DEF BufferOK, Samples
<1>4. KeyStepsOK(selected') /\ DOMAIN selected' = Samples
  BY <1>1, NoStepsOK
<1> QED
  BY <1>1, <1>2, <1>3, <1>4 DEF CurriculumInv, KeyStepsOK, Working, Samples

\* A rollout batch adds the key steps of its samples.
LEMMA RolloutKeeps ==
    ASSUME CurriculumInv, Rollout
    PROVE  CurriculumInv'
<1>1. PICK sel \in [Batch -> UNION { Outcomes[s] : s \in Batch }], order \in SetToSeqs(Batch) :
        /\ \A s \in Batch : sel[s] \in Outcomes[s]
        /\ keyJson' = Recorded(sel, Batch)
        /\ selected' = [s \in Samples |-> IF s \in Batch THEN sel[s] ELSE selected[s]]
        /\ LET rows == FlattenSeq([i \in DOMAIN order |-> SetToSeq(RowsOf(order[i]))])
           IN  buffer' = buffer \o FilterRows(rows, sel)
  BY DEF Rollout
<1> DEFINE rows == FlattenSeq([i \in DOMAIN order |-> SetToSeq(RowsOf(order[i]))])
           new == FilterRows(rows, sel)
<1>2. /\ pc = "rollout" /\ pc' = pc /\ plan' = plan /\ next' = next /\ trained' = trained
      /\ Sampler!Deliver
  BY DEF Rollout
<1>3. /\ DeliveryOK /\ BufferOK /\ KeyStepsOK(selected) /\ KeyStepsOK(keyJson)
      /\ plan = <<>> /\ trained = <<>> /\ next = 1
  BY <1>2 DEF CurriculumInv
<1>4. /\ DeliveryOK' /\ Batch \subseteq Samples
      /\ Elems(done') = Elems(done) \cup Batch /\ Batch \cap Elems(done) = {}
  BY <1>2, <1>3, PassGoesOn
<1>5. ASSUME NEW s \in Batch PROVE sel[s] \in StepLists(StepsOf[s], TopK)
  <2>1. s \in Samples /\ sel[s] \in Outcomes[s]
    BY <1>1, <1>4
  <2>2. PICK avg \in [StepsOf[s] -> Means] : sel[s] = SelectKeySteps(avg, TopK)
    BY <2>1 DEF Outcomes
  <2>3. StepsOf[s] \in SUBSET Nat /\ IsFiniteSet(StepsOf[s]) /\ TopK \in Nat
    BY <2>1, SamplesType, TrainerAssumption
  <2> QED
    BY <2>2, <2>3, SelectionDistinct
<1>6. /\ DOMAIN selected' = Samples /\ DOMAIN keyJson' = Samples
      /\ \A s \in Samples : /\ selected'[s] = IF s \in Batch THEN sel[s] ELSE selected[s]
                            /\ keyJson'[s] = IF s \in Batch THEN sel[s] ELSE keyJson[s]
  BY <1>1 DEF Recorded
<1>7. KeyStepsOK(selected') /\ KeyStepsOK(keyJson')
  BY <1>3, <1>5, <1>6 DEF KeyStepsOK
<1>8. new \in Seq(Rows) /\ Elems(new) = StepRows(sel, Batch)
  <2>1. rows \in Seq(Rows) /\ Elems(rows) = UNION { RowsOf(s) : s \in Batch }
    BY <1>4, BatchRows
  <2> HIDE DEF rows
  <2> QED
    BY <1>4, <1>5, <2>1, Filtered
<1>9. buffer' = buffer \o new
  BY <1>1
<1> HIDE DEF rows, new
<1>10. buffer' \in Seq(Rows) /\ Elems(buffer') = Elems(buffer) \cup Elems(new)
  BY <1>3, <1>8, <1>9, ConcatElems DEF BufferOK
<1>11. StepRows(selected', Samples) = StepRows(selected, Samples) \cup StepRows(sel, Batch)
  <2>1. \A s \in Batch : DOMAIN selected[s] = {}
    BY <1>3, <1>4 DEF BufferOK
  <2>2. ASSUME NEW x \in StepRows(selected', Samples)
        PROVE  x \in StepRows(selected, Samples) \cup StepRows(sel, Batch)
    <3>1. PICK s \in Samples : x \in { <<s, selected'[s][p]>> : p \in DOMAIN selected'[s] }
      BY DEF StepRows
    <3>2. CASE s \in Batch
      <4>1. selected'[s] = sel[s]
        BY <1>6, <3>2
      <4> QED
        BY <3>1, <3>2, <4>1 DEF StepRows
    <3>3. CASE s \notin Batch
      <4>1. selected'[s] = selected[s]
        BY <1>6, <3>3
      <4> QED
        BY <3>1, <4>1 DEF StepRows
    <3> QED
      BY <3>2, <3>3
  <2>3. ASSUME NEW x \in StepRows(selected, Samples) PROVE x \in StepRows(selected', Samples)
    <3>1. PICK s \in Samples : x \in { <<s, selected[s][p]>> : p \in DOMAIN selected[s] }
      BY DEF StepRows
    <3>2. s \notin Batch
      BY <2>1, <3>1
    <3>3. selected'[s] = selected[s]
      BY <1>6, <3>2
    <3> QED
      BY <3>1, <3>3 DEF StepRows
  <2>4. ASSUME NEW x \in StepRows(sel, Batch) PROVE x \in StepRows(selected', Samples)
    <3>1. PICK s \in Batch : x \in { <<s, sel[s][p]>> : p \in DOMAIN sel[s] }
      BY DEF StepRows
    <3>2. s \in Samples /\ selected'[s] = sel[s]
      BY <1>4, <1>6
    <3> QED
      BY <3>1, <3>2 DEF StepRows
  <2> QED
    BY <2>2, <2>3, <2>4
<1>12. BufferOK'
  <2>1. Elems(buffer') = StepRows(selected', Samples)
    BY <1>3, <1>8, <1>10, <1>11 DEF BufferOK
  <2>2. ASSUME NEW s \in Elems(done') PROVE keyJson'[s] = selected'[s]
    <3>1. s \in Samples
      BY <1>4 DEF DeliveryOK
    <3> QED
      BY <1>3, <1>4, <1>6, <3>1 DEF BufferOK
  <2>3. ASSUME NEW s \in Samples \ Elems(done') PROVE selected'[s] = <<>>
    BY <1>3, <1>4, <1>6 DEF BufferOK
  <2> QED
    BY <1>10, <2>1, <2>2, <2>3 DEF BufferOK, Samples
<1>13. pc' = "rollout" /\ plan' = <<>> /\ trained' = <<>> /\ next' = 1
  BY <1>2, <1>3
<1> QED
  BY <1>4, <1>6, <1>7, <1>12, <1>13 DEF CurriculumInv, KeyStepsOK, Working, Samples

\* When the pass is over the buffer has the rows of every selected step.
LEMMA PlanningKeeps ==
    ASSUME CurriculumInv, PlanUpdates
    PROVE  CurriculumInv'
<1>1. /\ pc = "rollout" /\ todo = <<>> /\ plan' = Plan /\ next' = 1 /\ pc' = "update"
      /\ todo' = todo /\ done' = done /\ keyJson' = keyJson /\ selected' = selected
      /\ trained' = trained
  BY DEF PlanUpdates, delivery
<1>2. /\ DeliveryOK /\ BufferOK /\ KeyStepsOK(selected) /\ KeyStepsOK(keyJson) /\ trained = <<>>
      /\ DOMAIN selected = Samples /\ DOMAIN keyJson = Samples
  BY <1>1 DEF CurriculumInv
<1>3. Elems(done) = Samples
  <2>1. Elems(todo) = {}
    BY <1>1 DEF Elems
  <2> QED
    BY <1>2, <2>1 DEF DeliveryOK
<1>4. PlanOK(selected, Plan)
  <2>1. /\ buffer \in Seq(Rows) /\ Elems(buffer) = StepRows(selected, Samples)
        /\ \A s \in Samples : keyJson[s] = selected[s]
    BY <1>2, <1>3 DEF BufferOK
  <2> QED
    BY <1>2, <2>1, PlanIsRight
<1>5. PlanOK(selected', plan')
  BY <1>1, <1>4
<1>6. TrainedOK'
  <2>1. Plan \in Seq(Seq(Rows))
    BY <1>4 DEF PlanOK
  <2>2. Len(plan') \in Nat
    BY <1>1, <2>1
  <2>3. next' \in 1 .. Len(plan') + 1
    BY <1>1, <2>2
  <2>4. trained' \in Seq(Seq(Rows)) /\ Len(trained') = next' - 1
    BY <1>1, <1>2
  <2>5. \A k \in 1 .. next' - 1 : trained'[k] = plan'[k]
    BY <1>1
  <2> QED
    BY <2>3, <2>4, <2>5 DEF TrainedOK, Rows, Samples, RowsOf
<1>7. DeliveryOK'
  BY <1>1, <1>2 DEF DeliveryOK, Samples
<1> QED
  BY <1>1, <1>2, <1>5, <1>6, <1>7 DEF CurriculumInv, Working, Samples

LEMMA UpdateKeeps ==
    ASSUME CurriculumInv, Update
    PROVE  CurriculumInv'
<1>1. /\ pc = "update" /\ next <= Len(plan)
      /\ trained' = Append(trained, plan[next]) /\ next' = next + 1 /\ pc' \in {"save", "update"}
      /\ todo' = todo /\ done' = done /\ plan' = plan /\ keyJson' = keyJson /\ selected' = selected
  BY DEF Update, delivery
<1>2. PlanOK(selected, plan) /\ TrainedOK
  BY <1>1 DEF CurriculumInv, Working
<1>3. TrainedOK'
  <2>1. /\ plan \in Seq(Seq(Rows)) /\ Len(plan) \in Nat /\ next \in 1 .. Len(plan)
        /\ trained \in Seq(Seq(Rows)) /\ Len(trained) = next - 1
        /\ \A k \in 1 .. next - 1 : trained[k] = plan[k]
    BY <1>1, <1>2 DEF PlanOK, TrainedOK
  <2>2. plan[next] \in Seq(Rows)
    BY <2>1
  <2>3. /\ trained' \in Seq(Seq(Rows)) /\ Len(trained') = next
        /\ trained'[next] = plan[next]
        /\ \A k \in 1 .. next - 1 : trained'[k] = trained[k]
    <3> DEFINE S == Seq(Rows)
    <3>1. /\ trained' \in Seq(S) /\ Len(trained') = Len(trained) + 1
          /\ \A k \in 1 .. Len(trained) : trained'[k] = trained[k]
          /\ trained'[Len(trained) + 1] = plan[next]
      <4> HIDE DEF S
      <4> QED
        BY <1>1, <2>1, <2>2, AppendProperties DEF S
    <3> QED
      BY <2>1, <3>1
  <2>4. next' \in 1 .. Len(plan') + 1 /\ Len(trained') = next' - 1
    BY <1>1, <2>1, <2>3
  <2>5. \A k \in 1 .. next' - 1 : trained'[k] = plan'[k]
    <3>1. \A k \in 1 .. next' - 1 : k \in 1 .. next - 1 \/ k = next
      BY <1>1, <2>1
    <3> QED
      BY <1>1, <2>1, <2>3, <3>1
  <2> QED
    BY <2>3, <2>4, <2>5 DEF TrainedOK, Rows, Samples, RowsOf
<1>4. DeliveryOK'
  BY <1>1 DEF CurriculumInv, DeliveryOK, Samples
<1>5. PlanOK(selected', plan') /\ pc' \in Working /\ pc' # "rollout" /\ pc' # "down"
  BY <1>1, <1>2 DEF Working
<1> QED
  BY <1>1, <1>3, <1>4, <1>5 DEF CurriculumInv, Samples, KeyStepsOK

LEMMA CurriculumInvStep == CurriculumInv /\ [Next]_vars => CurriculumInv'
<1> SUFFICES ASSUME CurriculumInv, [Next]_vars PROVE CurriculumInv'
  OBVIOUS
<1>1. CASE Start
  BY <1>1, EpochBegins DEF Start, CurriculumInv
<1>2. CASE Rollout
  BY <1>2, RolloutKeeps
<1>3. CASE PlanUpdates
  BY <1>3, PlanningKeeps
<1>4. CASE Update
  BY <1>4, UpdateKeeps
<1>5. CASE Save
  <2>1. /\ pc = "save" /\ pc' = "update" /\ todo' = todo /\ done' = done /\ plan' = plan
        /\ next' = next /\ trained' = trained /\ keyJson' = keyJson /\ selected' = selected
    BY <1>5 DEF Save, delivery
  <2> QED
    BY <2>1 DEF CurriculumInv, Working, DeliveryOK, TrainedOK, Samples, Rows, RowsOf
<1>6. CASE EndEpoch
  <2>1. keyJson' = keyJson /\ pc = "update" /\ KeyStepsOK(keyJson) /\ DOMAIN keyJson = Samples
    BY <1>6 DEF EndEpoch, CurriculumInv
  <2>2. CASE epoch + 1 < TotalEpochs
    <3>1. BeginEpoch(epoch + 1)
      BY <1>6, <2>2 DEF EndEpoch
    <3> QED
      BY <2>1, <3>1, EpochBegins
  <2>3. CASE ~ (epoch + 1 < TotalEpochs)
    <3>1. /\ pc' = "done" /\ todo' = todo /\ done' = done /\ plan' = plan
          /\ next' = next /\ trained' = trained /\ selected' = selected
      BY <1>6, <2>3 DEF EndEpoch, delivery
    <3> QED
      BY <2>1, <3>1 DEF CurriculumInv, Working, DeliveryOK, TrainedOK, Samples, Rows, RowsOf
  <2> QED
    BY <2>2, <2>3
<1>7. CASE Crash
  <2>1. /\ pc' = "down" /\ todo' = todo /\ done' = done /\ plan' = <<>> /\ next' = 1
        /\ trained' = <<>> /\ keyJson' = keyJson /\ selected' = NoSteps
    BY <1>7 DEF Crash, delivery
  <2> QED
    BY <2>1, NoStepsOK DEF CurriculumInv, Working, DeliveryOK, Samples
<1>8. CASE UNCHANGED vars
  BY <1>8 DEF vars, delivery, CurriculumInv, Working, DeliveryOK, TrainedOK, BufferOK, Samples, Rows, RowsOf
<1> QED
  BY <1>1, <1>2, <1>3, <1>4, <1>5, <1>6, <1>7, <1>8 DEF Next, Work

LEMMA TrainedFollowsPlan ==
    ASSUME CurriculumInv, NEW k \in DOMAIN trained
    PROVE  /\ PlanOK(selected, plan) /\ TrainedOK
           /\ k \in 1 .. next - 1 /\ k \in 1 .. Len(plan) /\ next - 1 <= Len(plan)
           /\ \A m \in 1 .. k : m \in DOMAIN trained /\ trained[m] = plan[m]
<1>1. pc \in Working
  <2>1. ASSUME pc \in {"down", "rollout"} PROVE FALSE
    BY <2>1 DEF CurriculumInv
  <2> QED
    BY <2>1 DEF CurriculumInv
<1>2. PlanOK(selected, plan) /\ TrainedOK
  BY <1>1 DEF CurriculumInv
<1>3. /\ next \in 1 .. Len(plan) + 1 /\ Len(plan) \in Nat
      /\ DOMAIN trained = 1 .. next - 1 /\ \A m \in 1 .. next - 1 : trained[m] = plan[m]
  BY <1>2 DEF TrainedOK, PlanOK
<1> QED
  BY <1>2, <1>3

LEMMA KeepsOrder == CurriculumInv => CurriculumOrder
<1> SUFFICES ASSUME CurriculumInv, NEW k \in DOMAIN trained
             PROVE  \E pos \in 1 .. TopK :
                      /\ \A r \in Unpadded(trained[k]) :
                           pos <= Len(selected[r[1]]) /\ r[2] = selected[r[1]][pos]
                      /\ \A s \in Samples, p \in 1 .. pos - 1 :
                           p <= Len(selected[s]) =>
                             \E m \in 1 .. k - 1 : <<s, selected[s][p]>> \in Unpadded(trained[m])
  BY DEF CurriculumOrder
<1>1. /\ PlanOK(selected, plan) /\ k \in 1 .. Len(plan)
      /\ \A m \in 1 .. k : trained[m] = plan[m]
  BY TrainedFollowsPlan
<1>2. PICK pos \in 1 .. TopK :
        /\ Unpadded(plan[k]) \subseteq LayerRows(selected, pos)
        /\ \A p \in 1 .. pos - 1 : LayerRows(selected, p) \subseteq RowsIn(plan, 1, k - 1)
  BY <1>1 DEF PlanOK
<1>3. \A s \in Samples : DOMAIN selected[s] = 1 .. Len(selected[s]) /\ Len(selected[s]) \in Nat
  BY StepListsType DEF CurriculumInv, KeyStepsOK
<1>4. k \in 1 .. k /\ \A m \in 1 .. k - 1 : m \in 1 .. k
  BY <1>1
<1>5. ASSUME NEW r \in Unpadded(trained[k])
      PROVE  pos <= Len(selected[r[1]]) /\ r[2] = selected[r[1]][pos]
  <2>1. r \in LayerRows(selected, pos)
    BY <1>1, <1>2, <1>4
  <2>2. PICK s \in Samples : pos \in DOMAIN selected[s] /\ r = <<s, selected[s][pos]>>
    BY <2>1 DEF LayerRows
  <2>3. r[1] = s /\ r[2] = selected[s][pos]
    BY <2>2
  <2> QED
    BY <1>3, <2>2, <2>3
<1>6. ASSUME NEW s \in Samples, NEW p \in 1 .. pos - 1, p <= Len(selected[s])
      PROVE  \E m \in 1 .. k - 1 : <<s, selected[s][p]>> \in Unpadded(trained[m])
  <2>1. p \in DOMAIN selected[s]
    BY <1>3, <1>6
  <2>2. <<s, selected[s][p]>> \in LayerRows(selected, p)
    BY <2>1 DEF LayerRows
  <2>3. <<s, selected[s][p]>> \in RowsIn(plan, 1, k - 1)
    BY <1>2, <2>2
  <2>4. PICK m \in 1 .. k - 1 : <<s, selected[s][p]>> \in Unpadded(plan[m])
    BY <2>3 DEF RowsIn
  <2> QED
    BY <1>1, <1>4, <2>4
<1> QED
  BY <1>5, <1>6

LEMMA TrainsEach == CurriculumInv => EveryKeyStepOnce
<1> SUFFICES ASSUME CurriculumInv, pc \in {"update", "done"}, next > Len(plan)
             PROVE  /\ UNION { Unpadded(trained[k]) : k \in DOMAIN trained }
                         = StepRows(selected, Samples)
                    /\ \A k, m \in DOMAIN trained :
                         k # m => Unpadded(trained[k]) \cap Unpadded(trained[m]) = {}
  BY DEF EveryKeyStepOnce, StepRows
<1>1. PlanOK(selected, plan) /\ TrainedOK
  BY DEF CurriculumInv, Working
<1>2. DOMAIN trained = 1 .. Len(plan) /\ \A k \in 1 .. Len(plan) : trained[k] = plan[k]
  <2>1. /\ Len(plan) \in Nat /\ next \in 1 .. Len(plan) + 1
        /\ trained \in Seq(Seq(Rows)) /\ Len(trained) = next - 1
        /\ \A k \in 1 .. next - 1 : trained[k] = plan[k]
    BY <1>1 DEF PlanOK, TrainedOK
  <2>2. next - 1 = Len(plan)
    BY <2>1
  <2> QED
    BY <2>1, <2>2
<1>3. UNION { Unpadded(trained[k]) : k \in DOMAIN trained } = RowsIn(plan, 1, Len(plan))
  BY <1>2 DEF RowsIn
<1> QED
  BY <1>1, <1>2, <1>3 DEF PlanOK

\* Whatever was selected, however the samples came and whenever the job died
\* before: the updates of an epoch go through the layers of the curriculum in
\* order, every batch of one layer only (ray_trainer_all.py:2437-2504).
THEOREM UpdatesFollowCurriculum == Spec => []CurriculumOrder
<1> QED
  BY CurriculumInvInit, CurriculumInvStep, KeepsOrder, PTL DEF Spec

\* Once the updates of an epoch are over, the key steps selected in it have been
\* trained on, each in one batch, and nothing else has: not a row of an earlier
\* epoch or of a run before a crash, whatever key.json still holds of them
\* (ray_trainer_all.py:2344-2504).
THEOREM TrainsEveryKeyStepOnce == Spec => []EveryKeyStepOnce
<1> QED
  BY CurriculumInvInit, CurriculumInvStep, TrainsEach, PTL DEF Spec

LEMMA PlansSplit ==
    ASSUME TrainBatch % Divisor = 0
    PROVE  CurriculumInv => BatchesSplit
<1> SUFFICES ASSUME CurriculumInv, NEW k \in DOMAIN plan PROVE Splits(plan[k])
  BY DEF BatchesSplit, Splits
<1>1. pc \in Working
  BY DEF CurriculumInv
<1>2. PlanOK(selected, plan)
  BY <1>1 DEF CurriculumInv
<1>3. k \in 1 .. Len(plan)
  BY <1>2 DEF PlanOK
<1> QED
  BY <1>2, <1>3 DEF PlanOK

\* Every batch of an update splits evenly over the worker groups with at most
\* Divisor - 1 repeated rows, the short last batch of a layer included, if the
\* configured batch size does.  Nothing else makes it so: the assertion that
\* the length is a multiple of the divisor is commented out
\* (ray_trainer_all.py:2491-2507).
THEOREM UpdatesSplit ==
    ASSUME TrainBatch % Divisor = 0
    PROVE  Spec => []BatchesSplit
<1>1. CurriculumInv => BatchesSplit
  BY PlansSplit
<1> QED
  BY <1>1, CurriculumInvInit, CurriculumInvStep, PTL DEF Spec
-----------------------------------------------------------------------------
(* The weights and the counter.                                            *)

\* The updates the actor has had after n steps.
Warmed(n) == IF n > CriticWarmup THEN n - CriticWarmup ELSE 0

\* What is saved belongs together as what is in memory does, so that it does when
\* it is loaded.
Together ==
    /\ step \in Nat /\ actor = Warmed(step)
    /\ ckpt.step \in Nat /\ ckpt.actor = Warmed(ckpt.step)

LEMMA TogetherInit == Init => Together
  BY TrainerAssumption DEF Init, Together, Warmed

\* An update is the actor's if the counter before it has reached the warmup.
LEMMA UpdateCounts == ASSUME Together, Update PROVE step' \in Nat /\ actor' = Warmed(step')
<1>1. /\ step \in Nat /\ CriticWarmup \in Nat /\ actor = Warmed(step)
      /\ step' = step + 1 /\ actor' = IF CriticWarmup <= step THEN actor + 1 ELSE actor
  BY TrainerAssumption DEF Together, Update, WarmedUp
<1> QED
  BY <1>1 DEF Warmed

LEMMA TogetherStep == Together /\ [Next]_vars => Together'
<1> SUFFICES ASSUME Together, [Next]_vars PROVE Together'
  OBVIOUS
<1>1. CASE Start
  BY <1>1 DEF Start, Together, Warmed
<1>2. CASE Update
  <2>1. ckpt' = ckpt
    BY <1>2 DEF Update
  <2> QED
    BY <1>2, <2>1, UpdateCounts DEF Together, Warmed
<1>3. CASE Save
  BY <1>3 DEF Save, Together, Warmed
<1>4. CASE Crash
  BY <1>4, TrainerAssumption DEF Crash, Together, Warmed
<1>5. CASE Rollout
  BY <1>5 DEF Rollout, Together, Warmed
<1>6. CASE PlanUpdates \/ EndEpoch
  BY <1>6 DEF PlanUpdates, EndEpoch, Together, Warmed
<1>7. CASE UNCHANGED vars
  BY <1>7 DEF vars, Together, Warmed
<1> QED
  BY <1>1, <1>2, <1>3, <1>4, <1>5, <1>6, <1>7 DEF Next, Work

\* Wherever the job is, however often it died between an update and a save, and
\* from whichever checkpoint it went on, the actor's weights have had exactly the
\* updates behind the warmup that global_steps counts
\* (ray_trainer_all.py:2227-2233, 2267, 2305-2328, 2561-2576).
THEOREM WeightsBelongToCounter == Spec => []WeightsMatchCounter
<1>1. Together => WeightsMatchCounter
  BY DEF Together, Warmed, WeightsMatchCounter
<1> QED
  BY <1>1, TogetherInit, TogetherStep, PTL DEF Spec

-----------------------------------------------------------------------------
(* Types.                                                                  *)

\* What TypeOK says beyond the invariants above.
PlainTypes ==
    /\ epoch \in 0 .. TotalEpochs - 1 /\ run \in 0 .. MaxRuns
    /\ buffer \in Seq(Rows)
    /\ keyJson \in [Samples -> Seq(Nat)] /\ selected \in [Samples -> Seq(Nat)]
    /\ step \in Nat /\ actor \in Nat /\ epochs \in Nat
    /\ ckpt \in [step : Nat, actor : Nat, epochs : Nat]

LEMMA KeyStepsType ==
    ASSUME NEW sel, KeyStepsOK(sel), sel = [s \in Samples |-> sel[s]]
    PROVE  sel \in [Samples -> Seq(Nat)]
<1>1. \A s \in Samples : sel[s] \in Seq(Nat)
  BY StepListsType DEF KeyStepsOK
<1> QED
  BY <1>1

LEMMA NoStepsType == NoSteps \in [Samples -> Seq(Nat)]
  BY DEF NoSteps

LEMMA PlainTypesInit == Init => PlainTypes
<1> SUFFICES ASSUME Init PROVE PlainTypes
  OBVIOUS
<1>1. /\ epoch = 0 /\ run = 0 /\ buffer = <<>> /\ keyJson = NoSteps /\ selected = NoSteps
      /\ step = 0 /\ actor = 0 /\ epochs = 0 /\ ckpt = [step |-> 0, actor |-> 0, epochs |-> 0]
  BY DEF Init
<1> QED
  BY <1>1, NoStepsType, TrainerAssumption DEF PlainTypes

LEMMA PlainTypesStep == PlainTypes /\ CurriculumInv /\ CurriculumInv' /\ [Next]_vars => PlainTypes'
<1> SUFFICES ASSUME PlainTypes, CurriculumInv, CurriculumInv', [Next]_vars PROVE PlainTypes'
  OBVIOUS
<1>b. ASSUME NEW e \in 0 .. TotalEpochs - 1, BeginEpoch(e)
      PROVE  /\ epoch' \in 0 .. TotalEpochs - 1 /\ buffer' \in Seq(Rows)
             /\ selected' \in [Samples -> Seq(Nat)]
  BY <1>b, NoStepsType DEF BeginEpoch
<1>1. CASE Start
  <2>1. 0 \in 0 .. TotalEpochs - 1 /\ BeginEpoch(0)
    BY <1>1, TrainerAssumption DEF Start
  <2>2. /\ run' = run + 1 /\ run < MaxRuns /\ step' = ckpt.step /\ actor' = ckpt.actor
        /\ epochs' = ckpt.epochs /\ keyJson' = keyJson /\ ckpt' = ckpt
    BY <1>1 DEF Start
  <2>3. run' \in 0 .. MaxRuns
    BY <2>2, TrainerAssumption DEF PlainTypes
  <2> QED
    BY <1>b, <2>1, <2>2, <2>3 DEF PlainTypes, Samples, Rows, RowsOf
<1>2. CASE Rollout
  <2>1. /\ epoch' = epoch /\ run' = run /\ step' = step /\ actor' = actor
        /\ epochs' = epochs /\ ckpt' = ckpt /\ pc' = "rollout"
    BY <1>2 DEF Rollout
  <2>2. buffer' \in Seq(Rows)
    BY <2>1 DEF CurriculumInv, BufferOK, Rows, RowsOf, Samples
  <2>3. KeyStepsOK(keyJson') /\ KeyStepsOK(selected')
    BY DEF CurriculumInv, KeyStepsOK, Samples
  <2>4. /\ keyJson' = [s \in Samples |-> keyJson'[s]]
        /\ selected' = [s \in Samples |-> selected'[s]]
    <3>1. PICK sel \in [Batch -> UNION { Outcomes[s] : s \in Batch }] :
            /\ keyJson' = Recorded(sel, Batch)
            /\ selected' = [s \in Samples |-> IF s \in Batch THEN sel[s] ELSE selected[s]]
      BY <1>2 DEF Rollout
    <3> QED
      BY <3>1 DEF Recorded
  <2>5. keyJson' \in [Samples -> Seq(Nat)]
    BY <2>3, <2>4, KeyStepsType
  <2>6. selected' \in [Samples -> Seq(Nat)]
    BY <2>3, <2>4, KeyStepsType
  <2> QED
    BY <2>1, <2>2, <2>5, <2>6 DEF PlainTypes, Samples, Rows, RowsOf
<1>3. CASE PlanUpdates
  BY <1>3 DEF PlanUpdates, PlainTypes, Samples, Rows, RowsOf
<1>4. CASE Update
  BY <1>4 DEF Update, PlainTypes, Samples, Rows, RowsOf
<1>5. CASE Save
  BY <1>5 DEF Save, PlainTypes, Samples, Rows, RowsOf
<1>6. CASE EndEpoch
  <2>1. /\ epochs' = epochs + 1 /\ step' = step /\ actor' = actor /\ keyJson' = keyJson
        /\ ckpt' = ckpt /\ run' = run
    BY <1>6 DEF EndEpoch
  <2>2. CASE epoch + 1 < TotalEpochs
    <3>1. BeginEpoch(epoch + 1)
      BY <1>6, <2>2 DEF EndEpoch
    <3>2. epoch + 1 \in 0 .. TotalEpochs - 1
      BY <2>2, TrainerAssumption DEF PlainTypes
    <3> QED
      BY <1>b, <2>1, <3>1, <3>2 DEF PlainTypes, Samples, Rows, RowsOf
  <2>3. CASE ~ (epoch + 1 < TotalEpochs)
    <3>1. epoch' = epoch /\ buffer' = buffer /\ selected' = selected
      BY <1>6, <2>3 DEF EndEpoch
    <3> QED
      BY <2>1, <3>1 DEF PlainTypes, Samples, Rows, RowsOf
  <2> QED
    BY <2>2, <2>3
<1>7. CASE Crash
  BY <1>7, NoStepsType DEF Crash, PlainTypes, Samples, Rows, RowsOf
<1>8. CASE UNCHANGED vars
  BY <1>8 DEF vars, PlainTypes, Samples, Rows, RowsOf
<1> QED
  BY <1>1, <1>2, <1>3, <1>4, <1>5, <1>6, <1>7, <1>8 DEF Next, Work

\* The trainer's variables stay in their types; in particular the next batch to
\* run is one of the plan's or the first behind them.
THEOREM TrainerTypes == Spec => []TypeOK
<1>1. PlainTypes /\ CurriculumInv => TypeOK
  <2> SUFFICES ASSUME PlainTypes, CurriculumInv PROVE TypeOK
    OBVIOUS
  <2>1. /\ todo \in Seq(Samples) /\ done \in Seq(Samples)
        /\ pc \in {"down", "rollout", "update", "save", "done"}
    BY DEF CurriculumInv, DeliveryOK, Working
  <2>2. plan \in Seq(Seq(Rows)) /\ trained \in Seq(Seq(Rows)) /\ next \in 1 .. Len(plan) + 1
    <3>1. CASE pc \in Working
      BY <3>1 DEF CurriculumInv, PlanOK, TrainedOK
    <3>2. CASE pc \notin Working
      <4>1. plan = <<>> /\ trained = <<>> /\ next = 1
        BY <3>2 DEF CurriculumInv
      <4> QED
        BY <4>1
    <3> QED
      BY <3>1, <3>2
  <2> QED
    BY <2>1, <2>2 DEF PlainTypes, TypeOK
<1>2. Init => PlainTypes /\ CurriculumInv
  BY PlainTypesInit, CurriculumInvInit
<1>3. PlainTypes /\ CurriculumInv /\ [Next]_vars => (PlainTypes /\ CurriculumInv)'
  BY PlainTypesStep, CurriculumInvStep
<1> QED
  BY <1>1, <1>2, <1>3, PTL DEF Spec
==================================================================================
