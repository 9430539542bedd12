----------------------------- MODULE BatchFlowProofs -----------------------------
(***************************************************************************)
(* Theorems about a batch on its way to the ranks and back (BatchFlow),    *)
(* for any number and lengths of rows, any numbers of parts and groups of  *)
(* any shape: the balancing never trips its assertions, keeps every row    *)
(* and bounds the differences of the parts, and the dispatch gives each    *)
(* row back in its place.                                                  *)
(***************************************************************************)
EXTENDS BatchFlow, SequenceLemmas

(* Sums of lengths.  A set of rows weighs the sum of their lengths w, and  *)
(* a sequence of distinct rows sums to the weight of their set, in which   *)
(* order ever they come.                                                   *)

Part(w, R) == [i \in 1 .. Len(w) |-> IF i \in R THEN w[i] ELSE 0]
Weight(w, R) == (CHOOSE t : Totals(t, Part(w, R), Len(w)))[Len(w)]

LEMMA WeightIsTotal ==
    ASSUME NEW w \in Seq(Nat), NEW R
    PROVE  \E t : Totals(t, Part(w, R), Len(w)) /\ Weight(w, R) = t[Len(w)]
<1>1. Len(w) \in Nat /\ \A i \in 1 .. Len(w) : Part(w, R)[i] \in Nat
  BY DEF Part
<1>2. \E t : Totals(t, Part(w, R), Len(w))
  BY <1>1, TotalsExist
<1> QED
  BY <1>2 DEF Weight

LEMMA WeightType ==
    ASSUME NEW w \in Seq(Nat), NEW R
    PROVE  Weight(w, R) \in Nat
<1>1. Len(w) \in 0 .. Len(w)
  OBVIOUS
<1> QED
  BY <1>1, WeightIsTotal DEF Totals

\* The weights of disjoint sets add up.
LEMMA WeightUnion ==
    ASSUME NEW w \in Seq(Nat), NEW A, NEW B, A \cap B = {}
    PROVE  Weight(w, A \cup B) = Weight(w, A) + Weight(w, B)
<1> DEFINE n == Len(w)
<1>1. n \in Nat /\ \A i \in 1 .. n : w[i] \in Nat
  OBVIOUS
<1>2. PICK t : Totals(t, Part(w, A), n) /\ Weight(w, A) = t[n]
  BY WeightIsTotal
<1>3. PICK u : Totals(u, Part(w, B), n) /\ Weight(w, B) = u[n]
  BY WeightIsTotal
<1>4. PICK v : Totals(v, Part(w, A \cup B), n) /\ Weight(w, A \cup B) = v[n]
  BY WeightIsTotal
<1> DEFINE Same == { i \in 0 .. n : v[i] = t[i] + u[i] }
<1> HIDE DEF n
<1>5. \A i \in 1 .. n : Part(w, A \cup B)[i] = Part(w, A)[i] + Part(w, B)[i]
  BY <1>1 DEF Part, n
<1>6. \A i \in 1 .. n : Part(w, A)[i] \in Nat /\ Part(w, B)[i] \in Nat
  BY <1>1 DEF Part, n
<1>7. 0 \in Same
  BY <1>1, <1>2, <1>3, <1>4 DEF Totals
<1>8. ASSUME NEW i \in Same, i < n
      PROVE  i + 1 \in Same
  <2>1. i \in 0 .. n /\ i + 1 \in 1 .. n /\ (i + 1) - 1 = i /\ i + 1 \in 0 .. n
    BY <1>1, <1>8
  <2>2. /\ t[i + 1] = t[i] + Part(w, A)[i + 1] /\ t[i] \in Nat
        /\ u[i + 1] = u[i] + Part(w, B)[i + 1] /\ u[i] \in Nat
        /\ v[i + 1] = v[i] + Part(w, A \cup B)[i + 1]
    BY <1>2, <1>3, <1>4, <2>1 DEF Totals
  <2>3. v[i] = t[i] + u[i]
    OBVIOUS
  <2> QED
    BY <1>5, <1>6, <2>1, <2>2, <2>3
<1>9. n \in Same
  <2>1. Same \in SUBSET Nat
    OBVIOUS
  <2> HIDE DEF Same
  <2>2. 0 .. n \subseteq Same
    BY <1>1, <1>7, <1>8, <2>1, InductionUpTo
  <2> QED
    BY <1>1, <2>2
<1> QED
  BY <1>2, <1>3, <1>4, <1>9

\* An empty set weighs nothing, one row its length.
LEMMA WeightSingle ==
    ASSUME NEW w \in Seq(Nat), NEW r \in 1 .. Len(w)
    PROVE  Weight(w, {r}) = w[r]
<1> DEFINE n == Len(w)
<1>1. n \in Nat /\ \A i \in 1 .. n : w[i] \in Nat
  OBVIOUS
<1>2. PICK t : Totals(t, Part(w, {r}), n) /\ Weight(w, {r}) = t[n]
  BY WeightIsTotal
<1> DEFINE Step == { i \in 0 .. n : t[i] = IF i < r THEN 0 ELSE w[r] }
<1>3. \A i \in 1 .. n : Part(w, {r})[i] = IF i = r THEN w[r] ELSE 0
  BY <1>1 DEF Part
<1>r. r \in 1 .. n
  OBVIOUS
<1> HIDE DEF n
<1>4. 0 \in Step
  BY <1>1, <1>2, <1>r DEF Totals
<1>5. ASSUME NEW i \in Step, i < n
      PROVE  i + 1 \in Step
  <2>1. i \in 0 .. n /\ i + 1 \in 1 .. n /\ (i + 1) - 1 = i /\ i + 1 \in 0 .. n
    BY <1>1, <1>5
  <2>2. t[i + 1] = t[i] + Part(w, {r})[i + 1]
    BY <1>2, <2>1 DEF Totals
  <2>3. Part(w, {r})[i + 1] = IF i + 1 = r THEN w[r] ELSE 0
    BY <1>3, <2>1
  <2>4. t[i] = IF i < r THEN 0 ELSE w[r]
    OBVIOUS
  <2>5. w[r] \in Nat
    BY <1>1, <1>r
  <2>6. t[i + 1] = IF i + 1 < r THEN 0 ELSE w[r]
    BY <1>r, <2>1, <2>2, <2>3, <2>4, <2>5
  <2> QED
    BY <2>1, <2>6
<1>6. n \in Step
  <2>1. Step \in SUBSET Nat
    OBVIOUS
  <2> HIDE DEF Step
  <2>2. 0 .. n \subseteq Step
    BY <1>1, <1>4, <1>5, <2>1, InductionUpTo
  <2> QED
    BY <1>1, <2>2
<1> QED
  BY <1>2, <1>6, <1>r

LEMMA WeightEmpty ==
    ASSUME NEW w \in Seq(Nat)
    PROVE  Weight(w, {}) = 0
<1>1. Weight(w, {} \cup {}) = Weight(w, {}) + Weight(w, {})
  BY WeightUnion
<1>2. {} \cup {} = {}
  OBVIOUS
<1>3. Weight(w, {}) \in Nat
  BY WeightType
<1> QED
  BY <1>1, <1>2, <1>3

LEMMA WeightMonotone ==
    ASSUME NEW w \in Seq(Nat), NEW B, NEW A \in SUBSET B
    PROVE  Weight(w, A) <= Weight(w, B)
<1>1. B = A \cup (B \ A) /\ A \cap (B \ A) = {}
  OBVIOUS
<1>2. Weight(w, A \cup (B \ A)) = Weight(w, A) + Weight(w, B \ A)
  BY <1>1, WeightUnion
<1>3. Weight(w, A) \in Nat /\ Weight(w, B \ A) \in Nat
  BY WeightType
<1>4. Weight(w, B) = Weight(w, A) + Weight(w, B \ A)
  BY <1>1, <1>2
<1> QED
  BY <1>3, <1>4

\* The sum of the lengths w of the rows q, as SumOf computes it.
SumBy(w, q) ==
    LET sum[i \in 0 .. Len(q)] == IF i = 0 THEN 0 ELSE sum[i - 1] + w[q[i]]
    IN  sum[Len(q)]

LEMMA SumIsWeight ==
    ASSUME NEW w \in Seq(Nat), NEW q \in Seq(1 .. Len(w)), Distinct(q)
    PROVE  SumBy(w, q) = Weight(w, Elems(q))
<1> DEFINE n == Len(q)
           a == [i \in 1 .. n |-> w[q[i]]]
           Sums(f) == f = [i \in 0 .. n |-> IF i = 0 THEN 0 ELSE f[i - 1] + w[q[i]]]
           f == CHOOSE f : Sums(f)
           Begun(i) == { q[j] : j \in 1 .. i }
<1>1. n \in Nat /\ DOMAIN q = 1 .. n /\ \A i \in 1 .. n : q[i] \in 1 .. Len(w) /\ w[q[i]] \in Nat
  OBVIOUS
<1>2. \E s : Sums(s)
  <2>1. PICK s : Totals(s, a, n)
    <3>1. \A i \in 1 .. n : a[i] \in Nat
      BY <1>1
    <3> HIDE DEF a, n
    <3> QED
      BY <1>1, <3>1, TotalsExist
  <2>2. s = [i \in 0 .. n |-> s[i]]
    BY <2>1 DEF Totals
  <2>3. ASSUME NEW i \in 0 .. n
        PROVE  s[i] = IF i = 0 THEN 0 ELSE s[i - 1] + w[q[i]]
    <3>1. CASE i = 0
      BY <2>1, <3>1 DEF Totals
    <3>2. CASE i # 0
      <4>1. i \in 1 .. n
        BY <1>1, <3>2
      <4> QED
        BY <2>1, <3>2, <4>1 DEF Totals
    <3> QED
      BY <3>1, <3>2
  <2>4. Sums(s)
    BY <2>2, <2>3
  <2> QED
    BY <2>4
<1>3. Sums(f)
  <2> HIDE DEF Sums
  <2> QED
    BY <1>2
<1>4. SumBy(w, q) = f[n]
  BY DEF SumBy
<1>5. \A i \in 0 .. n : f[i] = IF i = 0 THEN 0 ELSE f[i - 1] + w[q[i]]
  <2> HIDE DEF f
  <2> QED
    BY <1>3
<1> DEFINE Same == { i \in 0 .. n : f[i] = Weight(w, Begun(i)) }
<1> HIDE DEF f, n
<1>6. 0 \in Same
  <2>1. Begun(0) = {}
    OBVIOUS
  <2>2. f[0] = 0
    BY <1>1, <1>5
  <2> HIDE DEF Begun
  <2>3. f[0] = Weight(w, Begun(0))
    BY <2>1, <2>2, WeightEmpty
  <2> QED
    BY <1>1, <2>3
<1>7. ASSUME NEW i \in Same, i < n
      PROVE  i + 1 \in Same
  <2>1. i \in 0 .. n /\ i + 1 \in 1 .. n /\ (i + 1) - 1 = i /\ i + 1 \in 0 .. n /\ i + 1 # 0
    BY <1>1, <1>7
  <2>2. f[i + 1] = f[i] + w[q[i + 1]]
    BY <1>5, <2>1
  <2>3. Begun(i + 1) = Begun(i) \cup {q[i + 1]}
    BY <2>1
  <2>4. Begun(i) \cap {q[i + 1]} = {}
    <3>1. \A j \in 1 .. i : j \in 1 .. n /\ j # i + 1
      BY <1>1, <2>1
    <3> QED
      BY <1>1, <2>1, <3>1 DEF Distinct
  <2>5. Weight(w, Begun(i) \cup {q[i + 1]}) = Weight(w, Begun(i)) + Weight(w, {q[i + 1]})
    <3> HIDE DEF Begun
    <3> QED
      BY <2>4, WeightUnion
  <2>6. Weight(w, {q[i + 1]}) = w[q[i + 1]]
    BY <1>1, <2>1, WeightSingle
  <2>7. f[i] = Weight(w, Begun(i))
    OBVIOUS
  <2>8. f[i + 1] = Weight(w, Begun(i + 1))
    <3> HIDE DEF Begun
    <3> QED
      BY <2>2, <2>3, <2>5, <2>6, <2>7
  <2> QED
    BY <2>1, <2>8
<1>8. n \in Same
  <2>1. Same \in SUBSET Nat
    <3> HIDE DEF Begun
    <3> QED
      OBVIOUS
  <2> HIDE DEF Same
  <2>2. 0 .. n \subseteq Same
    BY <1>1, <1>6, <1>7, <2>1, InductionUpTo
  <2> QED
    BY <1>1, <2>2
<1>9. Begun(n) = Elems(q)
  BY <1>1 DEF Elems
<1> QED
  BY <1>4, <1>8, <1>9
-----------------------------------------------------------------------------
(* The states of the differencing.                                         *)

\* What is known of the input of a call.
InputOK ==
    /\ lens \in Seq(Nat \ {0}) /\ k \in Nat \ {0} /\ k <= Len(lens)
    /\ equal \in BOOLEAN
    /\ equal => Len(lens) % k = 0

LEMMA InputFacts ==
    ASSUME InputOK
    PROVE  /\ lens \in Seq(Nat) /\ Len(lens) \in Nat \ {0} /\ Rows = 1 .. Len(lens)
           /\ \A row \in Rows : lens[row] \in Nat \ {0}
<1>1. lens \in Seq(Nat \ {0})
  BY DEF InputOK
<1>2. lens \in Seq(Nat) /\ Len(lens) \in Nat /\ Rows = 1 .. Len(lens)
  BY <1>1 DEF Rows
<1>3. \A row \in Rows : lens[row] \in Nat \ {0}
  BY <1>1, <1>2
<1> QED
  BY <1>2, <1>3 DEF InputOK

\* The sum of a set of the algorithm is the weight of its rows.
LEMMA SumOfSet ==
    ASSUME InputOK, NEW q \in Seq(1 .. Len(lens)), Distinct(q)
    PROVE  SumOf(q) = Weight(lens, Elems(q)) /\ SumOf(q) \in Nat
<1>1. SumOf(q) = SumBy(lens, q)
  BY DEF SumOf, SumBy
<1>2. lens \in Seq(Nat)
  BY InputFacts
<1> QED
  BY <1>1, <1>2, SumIsWeight, WeightType

\* Sets of rows that have no row in common.
SetsOK(w, n, sets) ==
    /\ sets \in [1 .. n -> Seq(1 .. Len(w))]
    /\ \A i \in 1 .. n : Distinct(sets[i])
    /\ \A i, h \in 1 .. n : i # h => Elems(sets[i]) \cap Elems(sets[h]) = {}

Held(sets) == UNION { Elems(sets[i]) : i \in DOMAIN sets }

LEMMA BySizeOrders ==
    ASSUME InputOK, NEW sets, SetsOK(lens, k, sets)
    PROVE  OrdersStrictly(DOMAIN sets, BySize(sets))
<1> DEFINE s == [i \in 1 .. k |-> SumOf(sets[i])]
           l == [i \in 1 .. k |-> Len(sets[i])]
           e == [i \in 1 .. k |-> IF sets[i] = <<>> THEN 0 ELSE sets[i][1]]
           Before(x, y) == \/ s[x] > s[y]
                           \/ s[x] = s[y] /\ l[x] > l[y]
                           \/ s[x] = s[y] /\ l[x] = l[y] /\ e[x] > e[y]
<1>1. DOMAIN sets = 1 .. k /\ \A i \in 1 .. k : sets[i] \in Seq(1 .. Len(lens)) /\ Distinct(sets[i])
  BY DEF SetsOK
<1>2. \A i \in 1 .. k : s[i] \in Int /\ l[i] \in Int
  BY <1>1, SumOfSet
<1>3. \A i \in 1 .. k : e[i] \in Int /\ (l[i] = 0 <=> sets[i] = <<>>)
  <2>1. TAKE i \in 1 .. k
  <2>2. sets[i] \in Seq(1 .. Len(lens))
    BY <1>1
  <2>3. Len(sets[i]) = 0 <=> sets[i] = <<>>
    BY <2>2
  <2>4. sets[i] # <<>> => sets[i][1] \in 1 .. Len(lens)
    BY <2>2
  <2> QED
    BY <2>3, <2>4
<1>4. ASSUME NEW x \in 1 .. k, NEW y \in 1 .. k
      PROVE  Larger(sets[x], sets[y]) <=> Before(x, y)
  BY <1>3 DEF Larger
<1>5. \A x, y \in 1 .. k : <<x, y>> \in BySize(sets) <=>
                            Before(x, y) \/ (~ Before(y, x) /\ x < y)
  <2> HIDE DEF Before
  <2> QED
    BY <1>1, <1>4 DEF BySize
<1> HIDE DEF s, l, e
<1>6. \A x, y \in 1 .. k : x \in Int /\ (Before(x, y) => ~ Before(y, x)) /\ ~ Before(x, x)
  BY <1>2, <1>3
<1>7. \A x, y, z \in 1 .. k :
        /\ Before(x, y) /\ Before(y, z) => Before(x, z)
        /\ ~ Before(x, y) /\ ~ Before(y, z) => ~ Before(x, z)
  BY <1>2, <1>3
<1> HIDE DEF Before
<1>8. \A x \in 1 .. k : <<x, x>> \notin BySize(sets)
  BY <1>5, <1>6
<1>9. \A x, y \in 1 .. k : x # y => <<x, y>> \in BySize(sets) \/ <<y, x>> \in BySize(sets)
  <2>1. \A x, y \in 1 .. k : x # y => x < y \/ y < x
    BY DEF InputOK
  <2> QED
    BY <1>5, <1>6, <2>1
<1>10. \A x, y, z \in 1 .. k :
         <<x, y>> \in BySize(sets) /\ <<y, z>> \in BySize(sets) => <<x, z>> \in BySize(sets)
  <2>1. \A x, y, z \in 1 .. k : x < y /\ y < z => x < z
    BY DEF InputOK
  <2> QED
    BY <1>5, <1>6, <1>7, <2>1
<1> QED
  BY <1>1, <1>8, <1>9, <1>10 DEF OrdersStrictly

\* A partial partition: sets of rows, the heaviest first, not all empty.
StateOK(w, n, st) ==
    /\ SetsOK(w, n, st)
    /\ \A i, h \in 1 .. n : i < h => Weight(w, Elems(st[h])) <= Weight(w, Elems(st[i]))
    /\ Held(st) # {}

LEMMA SortedSets ==
    ASSUME InputOK, NEW sets, SetsOK(lens, k, sets), Held(sets) # {}
    PROVE  LET st == Arranged(sets, BySize(sets))
           IN  /\ StateOK(lens, k, st) /\ Held(st) = Held(sets)
               /\ \E at : Permutes(at, k) /\ \A i \in 1 .. k : st[i] = sets[at[i]]
<1> DEFINE st == Arranged(sets, BySize(sets))
           R == BySize(sets)
<1>1. /\ DOMAIN sets = 1 .. k /\ k \in Nat
      /\ \A i \in 1 .. k : sets[i] \in Seq(1 .. Len(lens)) /\ Distinct(sets[i])
  BY DEF SetsOK, InputOK
<1>2. sets \in Seq(Seq(1 .. Len(lens))) /\ Len(sets) = k
  BY <1>1 DEF SetsOK
<1>3. OrdersStrictly(DOMAIN sets, R)
  BY BySizeOrders
<1>4. /\ st \in Seq(Seq(1 .. Len(lens))) /\ Len(st) = k
      /\ \E at : /\ Permutes(at, k)
                 /\ \A m, n \in 1 .. k : m < n => <<at[m], at[n]>> \in R
                 /\ \A n \in 1 .. k : st[n] = sets[at[n]]
  <2> DEFINE T == Seq(1 .. Len(lens))
  <2>s. sets \in Seq(T) /\ OrdersStrictly(DOMAIN sets, R)
    BY <1>2, <1>3
  <2> HIDE DEF R, st, T
  <2>1. /\ Arranged(sets, R) \in Seq(T) /\ Len(Arranged(sets, R)) = Len(sets)
        /\ \E at : /\ Permutes(at, Len(sets))
                   /\ \A m, n \in 1 .. Len(sets) : m < n => <<at[m], at[n]>> \in R
                   /\ \A n \in 1 .. Len(sets) : Arranged(sets, R)[n] = sets[at[n]]
    BY <2>s, ArrangedProperties, SMTT(60)
  <2>2. st = Arranged(sets, R)
    BY DEF R, st
  <2> QED
    BY <1>2, <2>1, <2>2 DEF T
<1>5. PICK at : /\ Permutes(at, k)
                /\ \A m, n \in 1 .. k : m < n => <<at[m], at[n]>> \in R
                /\ \A n \in 1 .. k : st[n] = sets[at[n]]
  BY <1>4
<1> HIDE DEF st
<1>6. \A n \in 1 .. k : at[n] \in 1 .. k
  BY <1>5 DEF Permutes
<1>7. st \in [1 .. k -> Seq(1 .. Len(lens))]
  BY <1>4
<1>8. \A i \in 1 .. k : Distinct(st[i])
  BY <1>1, <1>5, <1>6
<1>9. \A i, h \in 1 .. k : i # h => Elems(st[i]) \cap Elems(st[h]) = {}
  <2>1. \A i, h \in 1 .. k : i # h => at[i] # at[h]
    BY <1>5 DEF Permutes
  <2> QED
    BY <1>5, <1>6, <2>1 DEF SetsOK
<1>10. ASSUME NEW i \in 1 .. k, NEW h \in 1 .. k, i < h
       PROVE  Weight(lens, Elems(st[h])) <= Weight(lens, Elems(st[i]))
  <2>1. Larger(sets[at[i]], sets[at[h]]) \/ ~ Larger(sets[at[h]], sets[at[i]])
    BY <1>5, <1>10 DEF BySize
  <2>2. /\ SumOf(st[h]) = Weight(lens, Elems(st[h])) /\ SumOf(st[h]) \in Nat
        /\ SumOf(st[i]) = Weight(lens, Elems(st[i])) /\ SumOf(st[i]) \in Nat
    BY <1>7, <1>8, SumOfSet
  <2>3. ~ (SumOf(st[h]) > SumOf(st[i]))
    <3>1. st[h] = sets[at[h]] /\ st[i] = sets[at[i]]
      BY <1>5
    <3> QED
      BY <2>1, <2>2, <3>1 DEF Larger
  <2> QED
    BY <2>2, <2>3
<1>11. Held(st) = Held(sets)
  <2>1. DOMAIN st = 1 .. k
    BY <1>7
  <2>2. \A i \in 1 .. k : \E m \in 1 .. k : at[m] = i
    BY <1>5 DEF Permutes
  <2>3. ASSUME NEW r \in Held(st)
        PROVE  r \in Held(sets)
    <3>1. PICK i \in 1 .. k : r \in Elems(st[i])
      BY <2>1 DEF Held
    <3>2. at[i] \in 1 .. k /\ r \in Elems(sets[at[i]])
      BY <1>5, <1>6, <3>1
    <3> QED
      BY <1>1, <3>2 DEF Held
  <2>4. ASSUME NEW r \in Held(sets)
        PROVE  r \in Held(st)
    <3>1. PICK i \in 1 .. k : r \in Elems(sets[i])
      BY <1>1 DEF Held
    <3>2. PICK m \in 1 .. k : at[m] = i
      BY <2>2
    <3>3. r \in Elems(st[m])
      BY <1>5, <3>1, <3>2
    <3> QED
      BY <2>1, <3>3 DEF Held
  <2> QED
    BY <2>3, <2>4
<1>12. StateOK(lens, k, st)
  BY <1>7, <1>8, <1>9, <1>10, <1>11 DEF StateOK, SetsOK
<1> QED
  BY <1>5, <1>11, <1>12 DEF st

LEMMA ConcatSets ==
    ASSUME NEW T, NEW a \in Seq(T), NEW b \in Seq(T), Distinct(a), Distinct(b),
           Elems(a) \cap Elems(b) = {}
    PROVE  /\ a \o b \in Seq(T) /\ Len(a \o b) = Len(a) + Len(b)
           /\ Distinct(a \o b) /\ Elems(a \o b) = Elems(a) \cup Elems(b)
<1> DEFINE c == a \o b
           n == Len(a)
           m == Len(b)
<1>1. n \in Nat /\ m \in Nat /\ DOMAIN a = 1 .. n /\ DOMAIN b = 1 .. m
  OBVIOUS
<1>2. /\ c \in Seq(T) /\ Len(c) = n + m
      /\ \A i \in 1 .. n : c[i] = a[i]
      /\ \A j \in 1 .. m : c[n + j] = b[j]
  BY ConcatPlaces
<1>3. DOMAIN c = 1 .. n + m
  BY <1>1, <1>2
<1> HIDE DEF c, n, m
<1>4. \A i \in 1 .. n + m : i \in 1 .. n \/ \E j \in 1 .. m : i = n + j
  <2>1. TAKE i \in 1 .. n + m
  <2>2. CASE i <= n
    BY <1>1, <2>2
  <2>3. CASE ~ (i <= n)
    <3>1. i - n \in 1 .. m /\ i = n + (i - n)
      BY <1>1, <2>3
    <3> QED
      BY <3>1
  <2> QED
    BY <2>2, <2>3
<1>a. \A i \in 1 .. n : a[i] \in Elems(a)
  BY <1>1 DEF Elems
<1>b. \A j \in 1 .. m : b[j] \in Elems(b)
  BY <1>1 DEF Elems
<1>5. \A i \in 1 .. n : i \in 1 .. n + m /\ c[i] \in Elems(a)
  <2>1. TAKE i \in 1 .. n
  <2>2. i \in 1 .. n + m
    BY <1>1
  <2>3. c[i] \in Elems(a)
    BY <1>2, <1>a
  <2> QED
    BY <2>2, <2>3
<1>6. \A j \in 1 .. m : n + j \in 1 .. n + m /\ c[n + j] \in Elems(b)
  <2>1. TAKE j \in 1 .. m
  <2>2. n + j \in 1 .. n + m
    BY <1>1
  <2>3. c[n + j] \in Elems(b)
    BY <1>2, <1>b
  <2> QED
    BY <2>2, <2>3
<1>7. Distinct(c)
  <2>1. SUFFICES ASSUME NEW i \in 1 .. n + m, NEW h \in 1 .. n + m, c[i] = c[h]
                 PROVE  i = h
    BY <1>3 DEF Distinct
  <2>2. CASE i \in 1 .. n /\ h \in 1 .. n
    BY <1>1, <1>2, <2>1, <2>2 DEF Distinct
  <2>3. CASE \E j \in 1 .. m : i = n + j
    <3>1. PICK j \in 1 .. m : i = n + j
      BY <2>3
    <3>2. PICK g \in 1 .. m : h = n + g
      BY <1>4, <1>5, <1>6, <2>1, <3>1
    <3>3. b[j] = b[g]
      BY <1>2, <2>1, <3>1, <3>2
    <3> QED
      BY <1>1, <3>1, <3>2, <3>3 DEF Distinct
  <2>4. CASE i \in 1 .. n /\ \E j \in 1 .. m : h = n + j
    BY <1>5, <1>6, <2>1, <2>4
  <2> QED
    BY <1>4, <2>2, <2>3, <2>4
<1>8. Elems(c) = Elems(a) \cup Elems(b)
  <2>1. Elems(c) \subseteq Elems(a) \cup Elems(b)
    BY <1>3, <1>4, <1>5, <1>6 DEF Elems
  <2>2. ASSUME NEW r \in Elems(a)
        PROVE  r \in Elems(c)
    <3>1. PICK i \in 1 .. n : r = a[i]
      BY <1>1 DEF Elems
    <3> QED
      BY <1>2, <1>3, <1>5, <3>1 DEF Elems
  <2>3. ASSUME NEW r \in Elems(b)
        PROVE  r \in Elems(c)
    <3>1. PICK j \in 1 .. m : r = b[j]
      BY <1>1 DEF Elems
    <3>2. c[n + j] = r /\ n + j \in DOMAIN c
      BY <1>2, <1>3, <1>6, <3>1
    <3> QED
      BY <3>2 DEF Elems
  <2> QED
    BY <2>1, <2>2, <2>3
<1> QED
  BY <1>2, <1>7, <1>8 DEF c, n, m

\* Only an empty set has no weight.
LEMMA WeightOfSet ==
    ASSUME InputOK, NEW q \in Seq(1 .. Len(lens))
    PROVE  q = <<>> <=> Weight(lens, Elems(q)) = 0
<1>1. lens \in Seq(Nat) /\ \A row \in 1 .. Len(lens) : lens[row] \in Nat \ {0}
  BY InputFacts
<1>2. CASE q = <<>>
  <2>1. Elems(q) = {}
    BY <1>2 DEF Elems
  <2> QED
    BY <1>1, <1>2, <2>1, WeightEmpty
<1>3. CASE q # <<>>
  <2>1. q[1] \in 1 .. Len(lens) /\ 1 \in DOMAIN q
    BY <1>3
  <2>2. {q[1]} \subseteq Elems(q)
    BY <2>1 DEF Elems
  <2>3. Weight(lens, {q[1]}) = lens[q[1]]
    BY <1>1, <2>1, WeightSingle
  <2>4. Weight(lens, {q[1]}) <= Weight(lens, Elems(q))
    BY <1>1, <2>2, WeightMonotone
  <2>5. Weight(lens, Elems(q)) \in Nat
    BY <1>1, WeightType
  <2> QED
    BY <1>1, <1>3, <2>1, <2>3, <2>4, <2>5
<1> QED
  BY <1>2, <1>3

\* All sets of a state have as many rows; no set is empty as long as another
\* has two rows; and the weights of no two sets differ by more than one of the
\* bounds D.
Even(n, st) == \A i, h \in 1 .. n : Len(st[i]) = Len(st[h])
Filled(n, st) == (\A i \in 1 .. n : st[i] # <<>>) \/ (\A i \in 1 .. n : Len(st[i]) <= 1)
Near(w, n, D, st) ==
    \E d \in D : \A i, h \in 1 .. n : Weight(w, Elems(st[i])) - Weight(w, Elems(st[h])) <= d

LEMMA MergedState ==
    ASSUME InputOK, NEW st, NEW other, StateOK(lens, k, st), StateOK(lens, k, other),
           Held(st) \cap Held(other) = {}, NEW D \in SUBSET Int
    PROVE  LET m == Merged(st, other)
           IN  /\ StateOK(lens, k, m) /\ Held(m) = Held(st) \cup Held(other)
               /\ Even(k, st) /\ Even(k, other) => Even(k, m)
               /\ Filled(k, st) /\ Filled(k, other) => Filled(k, m)
               /\ Near(lens, k, D, st) /\ Near(lens, k, D, other) => Near(lens, k, D, m)
<1> DEFINE S == Seq(1 .. Len(lens))
           rev(i) == k + 1 - i
           sets == [i \in 1 .. k |-> st[i] \o other[k + 1 - i]]
           m == Merged(st, other)
           A(i) == Weight(lens, Elems(st[i]))
           B(i) == Weight(lens, Elems(other[i]))
           C(i) == Weight(lens, Elems(sets[i]))
<1>1. /\ k \in Nat /\ lens \in Seq(Nat)
      /\ DOMAIN st = 1 .. k /\ DOMAIN other = 1 .. k
      /\ \A i \in 1 .. k : st[i] \in S /\ other[i] \in S
      /\ \A i \in 1 .. k : Distinct(st[i]) /\ Distinct(other[i])
  BY InputFacts DEF StateOK, SetsOK, InputOK
<1>2. \A i \in 1 .. k : rev(i) \in 1 .. k /\ rev(rev(i)) = i
  BY <1>1
<1>3. \A i \in 1 .. k : Elems(st[i]) \subseteq Held(st) /\ Elems(other[i]) \subseteq Held(other)
  BY <1>1 DEF Held
<1>4. ASSUME NEW i \in 1 .. k
      PROVE  /\ sets[i] \in S /\ Len(sets[i]) = Len(st[i]) + Len(other[rev(i)])
             /\ Distinct(sets[i]) /\ Elems(sets[i]) = Elems(st[i]) \cup Elems(other[rev(i)])
             /\ C(i) = A(i) + B(rev(i))
             /\ A(i) \in Nat /\ B(i) \in Nat
  <2>1. Elems(st[i]) \cap Elems(other[rev(i)]) = {}
    BY <1>2, <1>3
  <2>2. sets[i] = st[i] \o other[rev(i)]
    OBVIOUS
  <2>3. st[i] \in S /\ other[rev(i)] \in S /\ Distinct(st[i]) /\ Distinct(other[rev(i)])
    BY <1>1, <1>2
  <2> HIDE DEF sets, rev, S
  <2>4. /\ sets[i] \in Seq(1 .. Len(lens)) /\ Len(sets[i]) = Len(st[i]) + Len(other[rev(i)])
        /\ Distinct(sets[i]) /\ Elems(sets[i]) = Elems(st[i]) \cup Elems(other[rev(i)])
    BY <2>1, <2>2, <2>3, ConcatSets DEF S
  <2>5. C(i) = A(i) + B(rev(i))
    BY <1>1, <2>1, <2>4, WeightUnion
  <2>6. A(i) \in Nat /\ B(i) \in Nat
    BY <1>1, WeightType
  <2> QED
    BY <2>4, <2>5, <2>6 DEF S
<1>5. SetsOK(lens, k, sets)
  <2>1. sets \in [1 .. k -> S]
    <3>1. \A i \in 1 .. k : sets[i] \in S
      BY <1>4
    <3>2. sets = [i \in 1 .. k |-> sets[i]]
      OBVIOUS
    <3> HIDE DEF sets
    <3> QED
      BY <3>1, <3>2
  <2>2. ASSUME NEW i \in 1 .. k, NEW h \in 1 .. k, i # h
        PROVE  Elems(sets[i]) \cap Elems(sets[h]) = {}
    <3>1. rev(i) # rev(h)
      BY <1>1, <2>2
    <3>2. Elems(st[i]) \cap Elems(st[h]) = {} /\ Elems(other[rev(i)]) \cap Elems(other[rev(h)]) = {}
      BY <1>2, <2>2, <3>1 DEF StateOK, SetsOK
    <3>3. /\ Elems(sets[i]) = Elems(st[i]) \cup Elems(other[rev(i)])
          /\ Elems(sets[h]) = Elems(st[h]) \cup Elems(other[rev(h)])
      BY <1>4
    <3> HIDE DEF sets, rev
    <3> QED
      BY <1>2, <1>3, <3>2, <3>3
  <2>3. \A i \in 1 .. k : Distinct(sets[i])
    BY <1>4
  <2> HIDE DEF sets
  <2> QED
    BY <2>1, <2>2, <2>3 DEF SetsOK
<1>6. Held(sets) = Held(st) \cup Held(other)
  <2>1. DOMAIN sets = 1 .. k /\ \A i \in 1 .. k : Elems(sets[i]) = Elems(st[i]) \cup Elems(other[rev(i)])
    BY <1>4
  <2> HIDE DEF sets, rev
  <2>2. Held(sets) \subseteq Held(st) \cup Held(other)
    BY <1>2, <1>3, <2>1 DEF Held
  <2>3. ASSUME NEW r \in Held(st)
        PROVE  r \in Held(sets)
    BY <1>1, <2>1 DEF Held
  <2>4. ASSUME NEW r \in Held(other)
        PROVE  r \in Held(sets)
    <3>1. PICK i \in 1 .. k : r \in Elems(other[i])
      BY <1>1 DEF Held
    <3>2. rev(i) \in 1 .. k /\ r \in Elems(sets[rev(i)])
      BY <1>2, <2>1, <3>1
    <3> QED
      BY <2>1, <3>2 DEF Held
  <2> QED
    BY <2>2, <2>3, <2>4
<1>7. m = Arranged(sets, BySize(sets))
  BY DEF Merged
<1>8. /\ StateOK(lens, k, m) /\ Held(m) = Held(sets)
      /\ \E at : Permutes(at, k) /\ \A i \in 1 .. k : m[i] = sets[at[i]]
  <2>1. Held(sets) # {}
    BY <1>6 DEF StateOK
  <2> HIDE DEF sets, m
  <2> QED
    BY <1>5, <1>7, <2>1, SortedSets
<1>9. PICK at : Permutes(at, k) /\ \A i \in 1 .. k : m[i] = sets[at[i]]
  BY <1>8
<1>10. \A i \in 1 .. k : at[i] \in 1 .. k
  BY <1>9 DEF Permutes
<1>d. \A i, h \in 1 .. k : i < h => A(h) <= A(i) /\ B(h) <= B(i)
  BY DEF StateOK
<1> HIDE DEF sets, m
<1>l. \A i \in 1 .. k : /\ Len(sets[i]) = Len(st[i]) + Len(other[rev(i)])
                        /\ sets[i] \in S /\ Len(sets[i]) \in Nat
  <2>1. TAKE i \in 1 .. k
  <2>2. Len(sets[i]) = Len(st[i]) + Len(other[rev(i)]) /\ sets[i] \in S
    BY <1>4
  <2>3. sets[i] \in S
    BY <2>2
  <2>4. Len(sets[i]) \in Nat
    BY <2>3
  <2> QED
    BY <2>2, <2>3, <2>4
<1>11. ASSUME Even(k, st), Even(k, other)
       PROVE  Even(k, m)
  <2>1. SUFFICES ASSUME NEW x \in 1 .. k, NEW y \in 1 .. k
                 PROVE  Len(sets[x]) = Len(sets[y])
    BY <1>9, <1>10 DEF Even
  <2>2. Len(st[x]) = Len(st[y]) /\ Len(other[rev(x)]) = Len(other[rev(y)])
    BY <1>2, <1>11 DEF Even
  <2> QED
    BY <1>l, <2>2
<1>12. ASSUME Filled(k, st), Filled(k, other)
       PROVE  Filled(k, m)
  <2>1. SUFFICES ASSUME NEW i \in 1 .. k, Len(sets[i]) > 1, NEW h \in 1 .. k
                 PROVE  sets[h] # <<>>
    <3>1. (\A h \in 1 .. k : sets[h] # <<>>) \/ (\A i \in 1 .. k : ~ (Len(sets[i]) > 1))
      BY <2>1
    <3>2. (\A h \in 1 .. k : sets[h] # <<>>) \/ (\A i \in 1 .. k : Len(sets[i]) <= 1)
      BY <1>l, <3>1
    <3> QED
      BY <1>9, <1>10, <3>2 DEF Filled
  <2>2. /\ sets[h] \in S /\ Len(sets[h]) = Len(st[h]) + Len(other[rev(h)])
        /\ Len(sets[i]) = Len(st[i]) + Len(other[rev(i)])
    BY <1>l
  <2>3. \A j \in 1 .. k : /\ Len(st[j]) \in Nat /\ (Len(st[j]) = 0 <=> st[j] = <<>>)
                          /\ Len(other[j]) \in Nat /\ (Len(other[j]) = 0 <=> other[j] = <<>>)
    BY <1>1
  <2>4. SUFFICES st[h] # <<>> \/ other[rev(h)] # <<>>
    <3>1. /\ Len(st[h]) \in Nat /\ (Len(st[h]) = 0 <=> st[h] = <<>>)
          /\ Len(other[rev(h)]) \in Nat /\ (Len(other[rev(h)]) = 0 <=> other[rev(h)] = <<>>)
      BY <1>2, <2>3
    <3>2. sets[h] = <<>> => Len(sets[h]) = 0
      OBVIOUS
    <3>3. Len(sets[h]) = Len(st[h]) + Len(other[rev(h)])
      BY <2>2
    <3>4. \A a, b, c \in Nat : c = a + b /\ c = 0 => a = 0 /\ b = 0
      OBVIOUS
    <3>5. Len(sets[h]) \in Nat
      BY <1>l
    <3>6. Len(sets[h]) = 0 => Len(st[h]) = 0 /\ Len(other[rev(h)]) = 0
      BY <3>1, <3>3, <3>4, <3>5
    <3> HIDE DEF rev
    <3> QED
      BY <3>1, <3>2, <3>6
  <2>5. CASE (\A j \in 1 .. k : st[j] # <<>>) \/ (\A j \in 1 .. k : other[j] # <<>>)
    <3> HIDE DEF rev
    <3> QED
      BY <1>2, <2>5
  <2>6. CASE (\A j \in 1 .. k : Len(st[j]) <= 1) /\ (\A j \in 1 .. k : Len(other[j]) <= 1)
    <3>1. st[i] # <<>> /\ other[rev(i)] # <<>>
      <4>1. /\ Len(st[i]) \in Nat /\ Len(st[i]) <= 1 /\ (Len(st[i]) = 0 <=> st[i] = <<>>)
            /\ Len(other[rev(i)]) \in Nat /\ Len(other[rev(i)]) <= 1
            /\ (Len(other[rev(i)]) = 0 <=> other[rev(i)] = <<>>)
        BY <1>2, <2>3, <2>6
      <4>2. Len(sets[i]) = Len(st[i]) + Len(other[rev(i)])
        BY <2>2
      <4>3. \A a, b, c \in Nat : c = a + b /\ c > 1 /\ a <= 1 /\ b <= 1 => a # 0 /\ b # 0
        OBVIOUS
      <4>4. Len(sets[i]) \in Nat
        BY <1>l
      <4>5. Len(st[i]) # 0 /\ Len(other[rev(i)]) # 0
        BY <2>1, <4>1, <4>2, <4>3, <4>4
      <4> HIDE DEF rev
      <4> QED
        BY <4>1, <4>5
    <3>2. A(i) # 0 /\ B(rev(i)) # 0
      BY <1>1, <1>2, <3>1, WeightOfSet
    <3>3. CASE h <= i
      <4>1. A(i) <= A(h) /\ A(h) \in Nat /\ A(i) \in Nat
        <5>1. A(h) \in Nat /\ A(i) \in Nat
          BY <1>4
        <5>2. h = i \/ h < i
          BY <1>1, <3>3
        <5> HIDE DEF A
        <5> QED
          BY <1>d, <5>1, <5>2
      <4>2. A(h) # 0
        BY <3>2, <4>1
      <4> QED
        BY <1>1, <4>2, WeightOfSet
    <3>4. CASE i < h
      <4>1. rev(h) < rev(i) /\ rev(h) \in 1 .. k /\ rev(i) \in 1 .. k
        BY <1>1, <3>4
      <4>2. B(rev(i)) <= B(rev(h)) /\ B(rev(h)) \in Nat /\ B(rev(i)) \in Nat
        BY <1>d, <1>4, <4>1
      <4>3. B(rev(h)) # 0
        BY <3>2, <4>2
      <4> QED
        BY <1>1, <4>1, <4>3, WeightOfSet
    <3>5. h <= i \/ i < h
      BY <1>1
    <3> QED
      BY <3>3, <3>4, <3>5
  <2> QED
    BY <1>12, <2>5, <2>6 DEF Filled
<1>13. ASSUME Near(lens, k, D, st), Near(lens, k, D, other)
       PROVE  Near(lens, k, D, m)
  <2>1. PICK d \in D : \A i, h \in 1 .. k : A(i) - A(h) <= d
    BY <1>13 DEF Near
  <2>2. PICK e \in D : \A i, h \in 1 .. k : B(i) - B(h) <= e
    BY <1>13 DEF Near
  <2>3. PICK f \in D : f \in Int /\ d <= f /\ e <= f
    <3>1. d \in Int /\ e \in Int
      OBVIOUS
    <3>2. CASE d <= e
      BY <3>1, <3>2
    <3>3. CASE ~ (d <= e)
      BY <3>1, <3>3
    <3> QED
      BY <3>2, <3>3
  <2>4. ASSUME NEW x \in 1 .. k, NEW y \in 1 .. k
        PROVE  C(x) - C(y) <= f
    <3>1. /\ C(x) = A(x) + B(rev(x)) /\ C(y) = A(y) + B(rev(y))
          /\ A(x) \in Nat /\ A(y) \in Nat
      BY <1>4
    <3>2. B(rev(x)) \in Nat /\ B(rev(y)) \in Nat
      BY <1>2, <1>4
    <3>3. A(x) - A(y) <= d /\ B(rev(x)) - B(rev(y)) <= e
      <4> HIDE DEF A, B, rev
      <4> QED
        BY <1>2, <2>1, <2>2
    <3>4. \/ x = y
          \/ A(y) <= A(x) /\ B(rev(x)) <= B(rev(y))
          \/ A(x) <= A(y) /\ B(rev(y)) <= B(rev(x))
      <4>1. x = y \/ (x < y /\ rev(y) < rev(x)) \/ (y < x /\ rev(x) < rev(y))
        BY <1>1
      <4>2. rev(x) \in 1 .. k /\ rev(y) \in 1 .. k
        BY <1>2
      <4> HIDE DEF A, B, rev
      <4>3. CASE x < y /\ rev(y) < rev(x)
        <5>1. A(y) <= A(x)
          BY <1>d, <4>3
        <5>2. B(rev(x)) <= B(rev(y))
          BY <1>d, <4>2, <4>3
        <5> QED
          BY <5>1, <5>2
      <4>4. CASE y < x /\ rev(x) < rev(y)
        <5>1. A(x) <= A(y)
          BY <1>d, <4>4
        <5>2. B(rev(y)) <= B(rev(x))
          BY <1>d, <4>2, <4>4
        <5> QED
          BY <5>1, <5>2
      <4> QED
        BY <4>1, <4>3, <4>4
    <3>5. d \in Int /\ e \in Int
      OBVIOUS
    <3>6. A(x) - A(x) <= d
      BY <2>1
    <3> HIDE DEF A, B, C, rev
    <3> QED
      BY <2>3, <3>1, <3>2, <3>3, <3>4, <3>5, <3>6
  <2>5. \A i, h \in 1 .. k : Weight(lens, Elems(m[i])) - Weight(lens, Elems(m[h])) <= f
    BY <1>9, <1>10, <2>4
  <2> QED
    BY <2>5 DEF Near
<1> QED
  BY <1>6, <1>8, <1>11, <1>12, <1>13 DEF m

\* What the heap holds: states that share the rows out among them.
States(w, n, H) ==
    /\ IsFiniteSet(H)
    /\ \A st \in H : StateOK(w, n, st)
    /\ \A a, b \in H : a # b => Held(a) \cap Held(b) = {}

LEMMA LargestNotEmpty ==
    ASSUME InputOK, NEW st, StateOK(lens, k, st)
    PROVE  /\ st[1] \in Seq(1 .. Len(lens)) /\ Distinct(st[1]) /\ st[1] # <<>>
           /\ st[k] \in Seq(1 .. Len(lens)) /\ Distinct(st[k])
           /\ st[1][1] \in Held(st) /\ st[1][1] \in Nat
<1>1. /\ k \in Nat \ {0} /\ DOMAIN st = 1 .. k /\ 1 \in 1 .. k /\ k \in 1 .. k
      /\ \A i \in 1 .. k : st[i] \in Seq(1 .. Len(lens)) /\ Distinct(st[i])
  BY DEF StateOK, SetsOK, InputOK
<1>2. PICK i \in 1 .. k : Elems(st[i]) # {}
  BY <1>1 DEF StateOK, Held
<1>3. st[i] # <<>>
  BY <1>2 DEF Elems
<1>4. Weight(lens, Elems(st[i])) # 0
  BY <1>1, <1>3, WeightOfSet
<1>5. lens \in Seq(Nat)
  BY InputFacts
<1>6. Weight(lens, Elems(st[i])) <= Weight(lens, Elems(st[1]))
  <2>1. i = 1 \/ 1 < i
    OBVIOUS
  <2>2. Weight(lens, Elems(st[1])) \in Nat
    BY <1>5, WeightType
  <2> QED
    BY <1>1, <2>1, <2>2 DEF StateOK
<1>7. Weight(lens, Elems(st[1])) # 0
  <2>1. Weight(lens, Elems(st[1])) \in Nat /\ Weight(lens, Elems(st[i])) \in Nat
    BY <1>5, WeightType
  <2> QED
    BY <1>4, <1>6, <2>1
<1>8. st[1] # <<>>
  BY <1>1, <1>7, WeightOfSet
<1>9. 1 \in DOMAIN st[1] /\ st[1][1] \in 1 .. Len(lens)
  BY <1>1, <1>8, SMTT(60)
<1>10. st[1][1] \in Held(st)
  BY <1>1, <1>9 DEF Held, Elems
<1> QED
  BY <1>1, <1>8, <1>9, <1>10

\* The heap has a first state: no two compare alike.
LEMMA FirstOfHeap ==
    ASSUME InputOK, NEW H, States(lens, k, H), H # {}
    PROVE  First(H) \in H
<1> DEFINE p == [st \in H |-> Spread(st)]
           s == [st \in H |-> SumOf(st[1])]
           l == [st \in H |-> Len(st[1])]
           e == [st \in H |-> st[1][1]]
           Pops(a, b) == \/ p[a] > p[b]
                         \/ p[a] = p[b] /\ s[a] > s[b]
                         \/ p[a] = p[b] /\ s[a] = s[b] /\ l[a] > l[b]
                         \/ p[a] = p[b] /\ s[a] = s[b] /\ l[a] = l[b] /\ e[a] > e[b]
           R == { q \in H \X H : PopsBefore(q[1], q[2]) }
<1>1. ASSUME NEW st \in H
      PROVE  p[st] \in Int /\ s[st] \in Int /\ l[st] \in Int /\ e[st] \in Int /\ st[1] # <<>>
  <2>1. /\ st[1] \in Seq(1 .. Len(lens)) /\ Distinct(st[1]) /\ st[1] # <<>>
        /\ st[k] \in Seq(1 .. Len(lens)) /\ Distinct(st[k]) /\ st[1][1] \in Nat
    BY LargestNotEmpty DEF States
  <2>2. SumOf(st[1]) \in Nat /\ SumOf(st[k]) \in Nat
    BY <2>1, SumOfSet
  <2>3. Spread(st) \in Int
    BY <2>2 DEF Spread
  <2> QED
    BY <2>1, <2>2, <2>3
<1>2. \A a, b \in H : PopsBefore(a, b) <=> Pops(a, b)
  BY <1>1 DEF PopsBefore, Larger
<1>3. \A a, b \in H : a # b => e[a] # e[b]
  <2>1. TAKE a, b \in H
  <2>2. a[1][1] \in Held(a) /\ b[1][1] \in Held(b)
    BY LargestNotEmpty DEF States
  <2> QED
    BY <2>2 DEF States
<1>4. \A a, b \in H : <<a, b>> \in R <=> Pops(a, b)
  <2> HIDE DEF Pops
  <2> QED
    BY <1>2
<1> HIDE DEF p, s, l, e, R
<1>5. \A a \in H : p[a] \in Int /\ s[a] \in Int /\ l[a] \in Int /\ e[a] \in Int
  BY <1>1
<1>6. \A a \in H : ~ Pops(a, a)
  BY <1>5
<1>7. \A a, b \in H : a # b => Pops(a, b) \/ Pops(b, a)
  BY <1>3, <1>5
<1>8. \A a, b, c \in H : Pops(a, b) /\ Pops(b, c) => Pops(a, c)
  BY <1>5
<1> HIDE DEF Pops
<1>9. OrdersStrictly(H, R)
  BY <1>4, <1>6, <1>7, <1>8 DEF OrdersStrictly
<1>10. IsFiniteSet(H)
  BY DEF States
<1>11. /\ Cardinality(H) \in Nat
       /\ Ordered(H, R) \in [1 .. Cardinality(H) -> H]
       /\ \A x \in H : \E n \in 1 .. Cardinality(H) : Ordered(H, R)[n] = x
       /\ \A m, n \in 1 .. Cardinality(H) :
            m < n => <<Ordered(H, R)[m], Ordered(H, R)[n]>> \in R
  BY <1>9, <1>10, OrderedEnumerates
<1>12. Cardinality(H) # 0
  BY <1>10, FS_EmptySet
<1> DEFINE top == Ordered(H, R)[1]
<1>13. top \in H
  BY <1>11, <1>12
<1>14. \A x \in H \ {top} : PopsBefore(top, x)
  <2>1. TAKE x \in H \ {top}
  <2>2. PICK n \in 1 .. Cardinality(H) : Ordered(H, R)[n] = x
    BY <1>11
  <2>3. 1 < n /\ 1 \in 1 .. Cardinality(H)
    BY <1>11, <1>12, <2>2
  <2>4. <<top, x>> \in R
    BY <1>11, <2>2, <2>3
  <2> QED
    BY <2>4 DEF R
<1> HIDE DEF top
<1> QED
  BY <1>13, <1>14 DEF First
-----------------------------------------------------------------------------
(* The initial heap.                                                       *)

\* A new state has its rows in sets of one, the other sets empty.
LEMMA NewStateOK ==
    ASSUME InputOK, NEW q \in Seq(1 .. Len(lens)), Distinct(q), q # <<>>, Len(q) <= k
    PROVE  /\ StateOK(lens, k, NewState(q)) /\ Held(NewState(q)) = Elems(q)
           /\ Filled(k, NewState(q))
           /\ Len(q) = k => Even(k, NewState(q))
           /\ \A i \in 1 .. k :
                \/ \E r \in Elems(q) : Weight(lens, Elems(NewState(q)[i])) = lens[r]
                \/ Len(q) # k /\ Weight(lens, Elems(NewState(q)[i])) = 0
<1> DEFINE sets == [i \in 1 .. k |-> IF i <= Len(q) THEN <<q[i]>> ELSE <<>>]
           st == NewState(q)
<1>1. /\ k \in Nat \ {0} /\ lens \in Seq(Nat) /\ Len(q) \in Nat \ {0} /\ DOMAIN q = 1 .. Len(q)
      /\ \A i \in 1 .. Len(q) : q[i] \in 1 .. Len(lens) /\ i \in 1 .. k
  <2>1. k \in Nat \ {0} /\ lens \in Seq(Nat)
    BY InputFacts DEF InputOK
  <2>2. Len(q) \in Nat \ {0} /\ DOMAIN q = 1 .. Len(q)
    OBVIOUS
  <2>3. \A i \in 1 .. Len(q) : q[i] \in 1 .. Len(lens) /\ i \in 1 .. k
    BY <2>1, <2>2
  <2> QED
    BY <2>1, <2>2, <2>3
<1>2. ASSUME NEW i \in 1 .. k
      PROVE  /\ i \in 1 .. Len(q) =>
                  (sets[i] = <<q[i]>> /\ Elems(sets[i]) = {q[i]} /\ Len(sets[i]) = 1)
             /\ i \notin 1 .. Len(q) =>
                  (sets[i] = <<>> /\ Elems(sets[i]) = {} /\ Len(sets[i]) = 0)
             /\ sets[i] \in Seq(1 .. Len(lens)) /\ Distinct(sets[i])
  <2>1. CASE i <= Len(q)
    <3>1. i \in 1 .. Len(q) /\ sets[i] = <<q[i]>>
      BY <1>1, <2>1
    <3>2. q[i] \in 1 .. Len(lens)
      BY <1>1, <3>1
    <3>3. <<q[i]>> \in Seq(1 .. Len(lens)) /\ Distinct(<<q[i]>>) /\ Elems(<<q[i]>>) = {q[i]} /\ Len(<<q[i]>>) = 1
      BY <3>2 DEF Distinct, Elems
    <3> HIDE DEF sets
    <3> QED
      BY <3>1, <3>3
  <2>2. CASE ~ (i <= Len(q))
    <3>1. i \notin 1 .. Len(q) /\ sets[i] = <<>>
      BY <1>1, <2>2
    <3>2. <<>> \in Seq(1 .. Len(lens)) /\ Distinct(<<>>) /\ Elems(<<>>) = {} /\ Len(<<>>) = 0
      BY DEF Distinct, Elems
    <3> HIDE DEF sets
    <3> QED
      BY <3>1, <3>2
  <2> QED
    BY <2>1, <2>2
<1>3. SetsOK(lens, k, sets)
  <2>1. sets = [i \in 1 .. k |-> sets[i]]
    OBVIOUS
  <2> HIDE DEF sets
  <2>2. sets \in [1 .. k -> Seq(1 .. Len(lens))]
    BY <1>2, <2>1
  <2>3. ASSUME NEW i \in 1 .. k, NEW h \in 1 .. k, i # h
        PROVE  Elems(sets[i]) \cap Elems(sets[h]) = {}
    <3>1. CASE i \in 1 .. Len(q) /\ h \in 1 .. Len(q)
      <4>1. q[i] # q[h]
        BY <1>1, <2>3, <3>1 DEF Distinct
      <4>2. Elems(sets[i]) = {q[i]} /\ Elems(sets[h]) = {q[h]}
        BY <1>2, <3>1
      <4> QED
        BY <4>1, <4>2
    <3>2. CASE i \notin 1 .. Len(q) \/ h \notin 1 .. Len(q)
      <4>1. Elems(sets[i]) = {} \/ Elems(sets[h]) = {}
        BY <1>2, <3>2
      <4> QED
        BY <4>1
    <3> QED
      BY <3>1, <3>2
  <2>4. \A i \in 1 .. k : Distinct(sets[i])
    BY <1>2
  <2> QED
    BY <2>2, <2>3, <2>4 DEF SetsOK
<1>4. Held(sets) = Elems(q)
  <2>1. DOMAIN sets = 1 .. k
    OBVIOUS
  <2> HIDE DEF sets
  <2>2. ASSUME NEW r \in Held(sets)
        PROVE  r \in Elems(q)
    <3>1. PICK i \in 1 .. k : r \in Elems(sets[i])
      BY <2>1 DEF Held
    <3>2. i \in 1 .. Len(q) /\ r = q[i]
      BY <1>2, <3>1
    <3> QED
      BY <1>1, <3>2 DEF Elems
  <2>3. ASSUME NEW r \in Elems(q)
        PROVE  r \in Held(sets)
    <3>1. PICK i \in 1 .. Len(q) : r = q[i]
      BY <1>1 DEF Elems
    <3>2. i \in 1 .. k /\ r \in Elems(sets[i])
      BY <1>1, <1>2, <3>1
    <3> QED
      BY <2>1, <3>2 DEF Held
  <2> QED
    BY <2>2, <2>3
<1>5. Elems(q) # {}
  <2>1. 1 \in DOMAIN q
    BY <1>1
  <2>2. q[1] \in Elems(q)
    BY <2>1 DEF Elems
  <2> QED
    BY <2>2
<1>6. st = Arranged(sets, BySize(sets))
  BY DEF NewState
<1> HIDE DEF sets, st
<1>7. /\ StateOK(lens, k, st) /\ Held(st) = Held(sets)
      /\ \E at : Permutes(at, k) /\ \A i \in 1 .. k : st[i] = sets[at[i]]
  BY <1>3, <1>4, <1>5, <1>6, SortedSets
<1>8. PICK at : Permutes(at, k) /\ \A i \in 1 .. k : st[i] = sets[at[i]]
  BY <1>7
<1>9. \A i \in 1 .. k : at[i] \in 1 .. k
  BY <1>8 DEF Permutes
<1>10. Filled(k, st)
  <2>1. \A i \in 1 .. k : Len(sets[i]) = 0 \/ Len(sets[i]) = 1
    BY <1>2
  <2>2. \A i \in 1 .. k : Len(st[i]) = 0 \/ Len(st[i]) = 1
    BY <1>8, <1>9, <2>1
  <2>3. \A i \in 1 .. k : Len(st[i]) <= 1
    <3>1. \A a : (a = 0 \/ a = 1) => a <= 1
      OBVIOUS
    <3> QED
      BY <2>2, <3>1
  <2> QED
    BY <2>3 DEF Filled
<1>11. Len(q) = k => Even(k, st)
  <2>1. Len(q) = k => \A i \in 1 .. k : Len(sets[i]) = 1
    BY <1>2
  <2> QED
    BY <1>8, <1>9, <2>1 DEF Even
<1>12. ASSUME NEW i \in 1 .. k
       PROVE  \/ \E r \in Elems(q) : Weight(lens, Elems(st[i])) = lens[r]
              \/ Len(q) # k /\ Weight(lens, Elems(st[i])) = 0
  <2>1. st[i] = sets[at[i]] /\ at[i] \in 1 .. k
    BY <1>8, <1>9
  <2>2. CASE at[i] \in 1 .. Len(q)
    <3>a. Elems(sets[at[i]]) = {q[at[i]]}
      BY <1>2, <2>1, <2>2
    <3>b. q[at[i]] \in Elems(q)
      BY <1>1, <2>2 DEF Elems
    <3>c. q[at[i]] \in 1 .. Len(lens)
      BY <1>1, <2>2
    <3>1. Elems(st[i]) = {q[at[i]]} /\ q[at[i]] \in Elems(q) /\ q[at[i]] \in 1 .. Len(lens)
      BY <2>1, <3>a, <3>b, <3>c
    <3>2. Weight(lens, {q[at[i]]}) = lens[q[at[i]]]
      BY <1>1, <3>1, WeightSingle
    <3> QED
      BY <3>1, <3>2
  <2>3. CASE at[i] \notin 1 .. Len(q)
    <3>1. Elems(st[i]) = {}
      BY <1>2, <2>1, <2>3
    <3>2. Weight(lens, {}) = 0
      BY <1>1, WeightEmpty
    <3> QED
      BY <2>1, <2>3, <3>1, <3>2
  <2> QED
    BY <2>2, <2>3
<1> QED
  BY <1>4, <1>7, <1>10, <1>11, <1>12 DEF st

\* The rows by their lengths.
LEMMA SortedRowsProperties ==
    ASSUME InputOK
    PROVE  /\ Permutes(SortedRows, Len(lens))
           /\ \A m, n \in 1 .. Len(lens) : m <= n => lens[SortedRows[m]] <= lens[SortedRows[n]]
<1> DEFINE N == Len(lens)
           q == [i \in Rows |-> i]
<1>1. N \in Nat /\ Rows = 1 .. N /\ \A i \in 1 .. N : lens[i] \in Nat
  BY InputFacts
<1>2. q \in Seq(Nat) /\ Len(q) = N /\ DOMAIN q = 1 .. N /\ \A i \in 1 .. N : q[i] = i
  BY <1>1
<1>3. lens \in [DOMAIN q -> Int]
  BY <1>1, <1>2 DEF InputOK
<1> HIDE DEF q
<1>4. /\ StableSort(q, lens) \in Seq(Nat) /\ Len(StableSort(q, lens)) = Len(q)
      /\ \E at : /\ Permutes(at, Len(q))
                 /\ \A m, n \in 1 .. Len(q) : m < n =>
                      \/ lens[at[m]] < lens[at[n]]
                      \/ lens[at[m]] = lens[at[n]] /\ at[m] < at[n]
                 /\ \A n \in 1 .. Len(q) : StableSort(q, lens)[n] = q[at[n]]
  <2> DEFINE T == Nat
  <2>1. q \in Seq(T) /\ lens \in [DOMAIN q -> Int]
    BY <1>2, <1>3
  <2> HIDE DEF T
  <2>2. /\ StableSort(q, lens) \in Seq(T) /\ Len(StableSort(q, lens)) = Len(q)
        /\ \E at : /\ Permutes(at, Len(q))
                   /\ \A m, n \in 1 .. Len(q) : m < n =>
                        \/ lens[at[m]] < lens[at[n]]
                        \/ lens[at[m]] = lens[at[n]] /\ at[m] < at[n]
                   /\ \A n \in 1 .. Len(q) : StableSort(q, lens)[n] = q[at[n]]
    BY <2>1, StableSortProperties
  <2> QED
    BY <2>2 DEF T
<1>5. PICK at : /\ Permutes(at, N)
                /\ \A m, n \in 1 .. N : m < n =>
                     \/ lens[at[m]] < lens[at[n]]
                     \/ lens[at[m]] = lens[at[n]] /\ at[m] < at[n]
                /\ \A n \in 1 .. N : StableSort(q, lens)[n] = q[at[n]]
  BY <1>2, <1>4
<1>6. SortedRows = StableSort(q, lens)
  BY DEF SortedRows, q
<1>7. \A n \in 1 .. N : at[n] \in 1 .. N /\ SortedRows[n] = at[n]
  BY <1>2, <1>5, <1>6 DEF Permutes
<1>8. SortedRows \in Seq(Nat) /\ Len(SortedRows) = N
  BY <1>2, <1>4, <1>6
<1>9. SortedRows \in [1 .. N -> 1 .. N]
  BY <1>7, <1>8
<1>10. Permutes(SortedRows, N)
  BY <1>5, <1>7, <1>9 DEF Permutes
<1>11. ASSUME NEW m \in 1 .. N, NEW n \in 1 .. N, m <= n
       PROVE  lens[SortedRows[m]] <= lens[SortedRows[n]]
  <2>1. m = n \/ m < n
    BY <1>1, <1>11
  <2>2. SortedRows[m] = at[m] /\ SortedRows[n] = at[n] /\ lens[at[m]] \in Nat /\ lens[at[n]] \in Nat
    BY <1>1, <1>7
  <2> QED
    BY <1>5, <2>1, <2>2
<1> QED
  BY <1>10, <1>11

\* By how much two parts may differ: the lengths of the rows of one round where
\* the parts are of equal size, else one row.
Bounds ==
    IF equal
    THEN { lens[SortedRows[k * g]] - lens[SortedRows[k * g - k + 1]] : g \in 1 .. Len(lens) \div k }
    ELSE {Longest}

LEMMA LongestRow ==
    ASSUME InputOK
    PROVE  /\ \E r \in Rows : Longest = lens[r]
           /\ \A row \in Rows : lens[row] <= Longest
<1> DEFINE N == Len(lens)
           M == { lens[row] : row \in Rows }
<1>1. N \in Nat \ {0} /\ Rows = 1 .. N
  BY InputFacts
<1>2. /\ Permutes(SortedRows, N)
      /\ \A m, n \in 1 .. N : m <= n => lens[SortedRows[m]] <= lens[SortedRows[n]]
  BY SortedRowsProperties
<1>3. N \in 1 .. N /\ \A m \in 1 .. N : m <= N
  BY <1>1
<1>4. SortedRows[N] \in Rows
  BY <1>1, <1>2, <1>3 DEF Permutes
<1>5. \A row \in Rows : lens[row] <= lens[SortedRows[N]]
  <2>1. TAKE row \in Rows
  <2>2. PICK m \in 1 .. N : SortedRows[m] = row
    BY <1>1, <1>2 DEF Permutes
  <2> QED
    BY <1>2, <1>3, <2>2
<1>6. \E n \in M : \A row \in Rows : lens[row] <= n
  BY <1>4, <1>5
<1>7. Longest \in M /\ \A row \in Rows : lens[row] <= Longest
  <2> HIDE DEF M
  <2>1. Longest = CHOOSE n \in M : \A row \in Rows : lens[row] <= n
    BY DEF Longest, M
  <2> QED
    BY <1>6, <2>1
<1> QED
  BY <1>7

LEMMA BoundsType ==
    ASSUME InputOK
    PROVE  Bounds \in SUBSET Int
<1>1. \A row \in Rows : lens[row] \in Nat
  BY InputFacts
<1>2. CASE equal
  <2> DEFINE N == Len(lens)
  <2>1. /\ N \in Nat \ {0} /\ Rows = 1 .. N /\ k \in Nat \ {0}
        /\ N % k = 0 /\ Permutes(SortedRows, N)
    BY <1>2, InputFacts, SortedRowsProperties DEF InputOK
  <2>2. ASSUME NEW g \in 1 .. N \div k
        PROVE  lens[SortedRows[k * g]] - lens[SortedRows[k * g - k + 1]] \in Int
    <3> HIDE DEF N
    <3>1. N \div k \in Nat /\ g \in Nat
      BY <2>1
    <3>2. k * g \in 1 .. N /\ k * g - k + 1 \in 1 .. N
      <4>1. \A a, b, c \in Nat : b # 0 /\ c # 0 /\ c <= a \div b => b * c <= a /\ b <= b * c
        OBVIOUS
      <4>2. k * g <= N /\ k <= k * g
        BY <2>1, <2>2, <3>1, <4>1
      <4>3. k * g \in Nat
        BY <2>1, <3>1
      <4> QED
        BY <2>1, <4>2, <4>3
    <3>3. SortedRows[k * g] \in Rows /\ SortedRows[k * g - k + 1] \in Rows
      BY <2>1, <3>2 DEF Permutes
    <3> QED
      BY <1>1, <3>3
  <2> QED
    BY <1>2, <2>2 DEF Bounds
<1>3. CASE ~ equal
  BY <1>1, <1>3, LongestRow DEF Bounds
<1> QED
  BY <1>2, <1>3

\* The heap H: states that share all rows out among them.
HeapOf(H) ==
    /\ States(lens, k, H)
    /\ H # {}
    /\ \A st \in H :
         /\ IF equal THEN Even(k, st) ELSE Filled(k, st)
         /\ Near(lens, k, Bounds, st)
    /\ \A row \in Rows : \E st \in H : row \in Held(st)

HeapOK == HeapOf(heap)

\* The initial heap is sound when the rows it is made of are disjoint and all.
LEMMA InitialStates ==
    ASSUME InputOK, NEW G \in Nat \ {0}, NEW p \in [1 .. G -> Seq(1 .. Len(lens))],
           heap = { NewState(p[g]) : g \in 1 .. G },
           \A g \in 1 .. G : /\ Distinct(p[g]) /\ p[g] # <<>> /\ Len(p[g]) <= k
                             /\ equal => Len(p[g]) = k
                             /\ Near(lens, k, Bounds, NewState(p[g])),
           \A g, h \in 1 .. G : g # h => Elems(p[g]) \cap Elems(p[h]) = {},
           \A row \in Rows : \E g \in 1 .. G : row \in Elems(p[g])
    PROVE  HeapOK
<1>1. ASSUME NEW g \in 1 .. G
      PROVE  /\ StateOK(lens, k, NewState(p[g])) /\ Held(NewState(p[g])) = Elems(p[g])
             /\ IF equal THEN Even(k, NewState(p[g])) ELSE Filled(k, NewState(p[g]))
             /\ Near(lens, k, Bounds, NewState(p[g]))
  <2>1. p[g] \in Seq(1 .. Len(lens)) /\ Distinct(p[g]) /\ p[g] # <<>> /\ Len(p[g]) <= k
    OBVIOUS
  <2>2. /\ StateOK(lens, k, NewState(p[g])) /\ Held(NewState(p[g])) = Elems(p[g])
        /\ Filled(k, NewState(p[g]))
        /\ Len(p[g]) = k => Even(k, NewState(p[g]))
    BY <2>1, NewStateOK
  <2>3. (equal => Len(p[g]) = k) /\ Near(lens, k, Bounds, NewState(p[g]))
    OBVIOUS
  <2> QED
    BY <2>2, <2>3
<1>2. IsFiniteSet(heap)
  <2> DEFINE f == [g \in 1 .. G |-> NewState(p[g])]
  <2>1. f \in Surjection(1 .. G, heap)
    BY DEF Surjection
  <2>2. IsFiniteSet(1 .. G)
    BY Interval
  <2> QED
    BY <2>1, <2>2, FS_Surjection
<1>3. \A st \in heap : \E g \in 1 .. G : st = NewState(p[g])
  OBVIOUS
<1>4. \A g \in 1 .. G : NewState(p[g]) \in heap
  OBVIOUS
<1>5. States(lens, k, heap)
  <2>1. \A st \in heap : StateOK(lens, k, st)
    BY <1>1, <1>3
  <2>2. ASSUME NEW a \in heap, NEW b \in heap, a # b
        PROVE  Held(a) \cap Held(b) = {}
    <3>1. PICK g \in 1 .. G : a = NewState(p[g])
      BY <1>3
    <3>2. PICK h \in 1 .. G : b = NewState(p[h])
      BY <1>3
    <3>3. g # h
      BY <2>2, <3>1, <3>2
    <3> QED
      BY <1>1, <3>1, <3>2, <3>3
  <2> QED
    BY <1>2, <2>1, <2>2 DEF States
<1>6. heap # {}
  <2>1. 1 \in 1 .. G
    OBVIOUS
  <2> QED
    BY <1>4, <2>1
<1>7. ASSUME NEW st \in heap
      PROVE  /\ IF equal THEN Even(k, st) ELSE Filled(k, st)
             /\ Near(lens, k, Bounds, st)
  BY <1>1, <1>3
<1>8. ASSUME NEW row \in Rows
      PROVE  \E st \in heap : row \in Held(st)
  <2>1. PICK g \in 1 .. G : row \in Elems(p[g])
    OBVIOUS
  <2> QED
    BY <1>1, <1>4, <2>1
<1> QED
  BY <1>5, <1>6, <1>7, <1>8 DEF HeapOK, HeapOf

\* Rounds of k rows by length, where the parts are to be of equal size.
LEMMA InitialRounds ==
    ASSUME InputOK, equal, heap = InitialHeap
    PROVE  HeapOK
<1> DEFINE N == Len(lens)
           G == N \div k
           p == [g \in 1 .. G |-> SubSeq(SortedRows, k * (g - 1) + 1, k * (g - 1) + k)]
<1>1. /\ N \in Nat \ {0} /\ Rows = 1 .. N /\ k \in Nat \ {0} /\ k <= N /\ (N % k) = 0
      /\ lens \in Seq(Nat) /\ \A row \in 1 .. N : lens[row] \in Nat
  BY InputFacts DEF InputOK
<1>2. /\ Permutes(SortedRows, N)
      /\ \A m, n \in 1 .. N : m <= n => lens[SortedRows[m]] <= lens[SortedRows[n]]
  BY SortedRowsProperties
<1> HIDE DEF N
<1>3. G \in Nat \ {0} /\ G * k = N
  <2>1. \A a, b \in Nat : b # 0 /\ b <= a /\ (a % b) = 0 => a \div b \in Nat \ {0} /\ (a \div b) * b = a
    OBVIOUS
  <2> QED
    BY <1>1, <2>1
<1> HIDE DEF G
<1>4. ASSUME NEW g \in 1 .. G, NEW j \in 1 .. k
      PROVE  k * (g - 1) \in Nat /\ k * (g - 1) + j \in 1 .. N
  <2>1. \A a, b, c \in Nat : a <= c => b * a <= b * c
    OBVIOUS
  <2>2. g - 1 \in Nat /\ g - 1 <= G - 1 /\ G - 1 \in Nat
    BY <1>3
  <2>3. k * (g - 1) <= k * (G - 1) /\ k * (g - 1) \in Nat
    BY <1>1, <2>1, <2>2
  <2>4. k * (G - 1) = N - k
    BY <1>1, <1>3
  <2>5. k * (g - 1) <= N - k
    BY <2>3, <2>4
  <2>6. \A x \in Nat : x <= N - k => x + j \in 1 .. N
    BY <1>1
  <2> QED
    BY <2>3, <2>5, <2>6
<1>5. SortedRows \in Seq(1 .. N) /\ Len(SortedRows) = N
  <2>1. SortedRows \in [1 .. N -> 1 .. N]
    BY <1>2 DEF Permutes
  <2> HIDE DEF SortedRows
  <2> QED
    BY <1>1, <2>1
<1>6. ASSUME NEW g \in 1 .. G
      PROVE  /\ p[g] \in Seq(1 .. N) /\ Len(p[g]) = k
             /\ \A j \in 1 .. k : p[g][j] = SortedRows[k * (g - 1) + j]
  <2> DEFINE b == k * (g - 1)
  <2>1. b \in Nat /\ b + 1 \in 1 .. N /\ b + k \in 1 .. N
    BY <1>1, <1>4
  <2>2. p[g] = SubSeq(SortedRows, b + 1, b + k)
    OBVIOUS
  <2> HIDE DEF b, p
  <2>3. p[g] \in Seq(1 .. N) /\ Len(p[g]) = k
    BY <1>1, <1>5, <2>1, <2>2
  <2>4. \A j \in 1 .. k : p[g][j] = SortedRows[b + j]
    BY <1>1, <1>5, <2>1, <2>2
  <2> QED
    BY <2>3, <2>4 DEF b
<1>7. p \in [1 .. G -> Seq(1 .. N)]
  <2>1. p = [g \in 1 .. G |-> p[g]]
    OBVIOUS
  <2> HIDE DEF p
  <2> QED
    BY <1>6, <2>1
<1>8. heap = { NewState(p[g]) : g \in 1 .. G }
  <2>1. heap = { NewState(SubSeq(SortedRows, k * h + 1, k * h + k)) : h \in 0 .. G - 1 }
    BY DEF InitialHeap, G, N
  <2>2. ASSUME NEW h \in 0 .. G - 1
        PROVE  \E g \in 1 .. G : NewState(SubSeq(SortedRows, k * h + 1, k * h + k)) = NewState(p[g])
    <3>1. h + 1 \in 1 .. G /\ (h + 1) - 1 = h
      BY <1>3
    <3>2. p[h + 1] = SubSeq(SortedRows, k * h + 1, k * h + k)
      BY <3>1
    <3> QED
      BY <3>1, <3>2
  <2>3. ASSUME NEW g \in 1 .. G
        PROVE  \E h \in 0 .. G - 1 : NewState(SubSeq(SortedRows, k * h + 1, k * h + k)) = NewState(p[g])
    <3>1. g - 1 \in 0 .. G - 1
      BY <1>3
    <3>2. p[g] = SubSeq(SortedRows, k * (g - 1) + 1, k * (g - 1) + k)
      OBVIOUS
    <3> QED
      BY <3>1, <3>2
  <2> HIDE DEF p
  <2> QED
    BY <2>1, <2>2, <2>3
<1> HIDE DEF p
<1>d. \A g \in 1 .. G : DOMAIN p[g] = 1 .. k
  BY <1>6
<1>9. \A g, h \in 1 .. G : \A i, j \in 1 .. k : p[g][i] = p[h][j] => g = h /\ i = j
  <2>1. SUFFICES ASSUME NEW g \in 1 .. G, NEW h \in 1 .. G, NEW i \in 1 .. k, NEW j \in 1 .. k,
                        p[g][i] = p[h][j]
                 PROVE  g = h /\ i = j
    OBVIOUS
  <2>2. SortedRows[k * (g - 1) + i] = SortedRows[k * (h - 1) + j]
    BY <1>6, <2>1
  <2>3. k * (g - 1) + i = k * (h - 1) + j
    BY <1>2, <1>4, <2>2, SMTT(60) DEF Permutes
  <2>4. \A a, x, y, u, v \in Nat : x < a /\ y < a /\ a * u + x = a * v + y => u = v /\ x = y
    OBVIOUS
  <2>5. /\ g - 1 \in Nat /\ h - 1 \in Nat /\ i - 1 \in Nat /\ j - 1 \in Nat
        /\ i - 1 < k /\ j - 1 < k /\ k * (g - 1) + (i - 1) = k * (h - 1) + (j - 1)
    <3>1. k * (g - 1) \in Nat /\ k * (h - 1) \in Nat
      BY <1>4
    <3> QED
      BY <1>1, <1>3, <2>3, <3>1
  <2>6. g - 1 = h - 1 /\ i - 1 = j - 1
    BY <1>1, <2>4, <2>5
  <2> QED
    BY <1>1, <1>3, <2>6
<1>10. ASSUME NEW row \in Rows
       PROVE  \E g \in 1 .. G : row \in Elems(p[g])
  <2>1. PICK n \in 1 .. N : SortedRows[n] = row
    BY <1>1, <1>2 DEF Permutes
  <2> DEFINE h == (n - 1) \div k
             j == ((n - 1) % k) + 1
  <2>2. n - 1 \in Nat /\ n - 1 < G * k
    BY <1>1, <1>3
  <2>3. \A a, b, c \in Nat : b # 0 /\ a < c * b =>
           /\ a \div b \in Nat /\ a \div b < c /\ (a % b) \in 0 .. b - 1
           /\ a = b * (a \div b) + (a % b)
    OBVIOUS
  <2>4. h \in Nat /\ h < G /\ (n - 1) % k \in 0 .. k - 1 /\ n - 1 = k * h + ((n - 1) % k)
    BY <1>1, <1>3, <2>2, <2>3
  <2>5. j \in 1 .. k /\ n = k * h + j
    BY <1>1, <2>4
  <2>6. h + 1 \in 1 .. G /\ (h + 1) - 1 = h
    BY <1>3, <2>4
  <2> HIDE DEF h, j
  <2>7. p[h + 1][j] = row
    BY <1>6, <2>1, <2>5, <2>6
  <2> QED
    BY <1>d, <2>5, <2>6, <2>7 DEF Elems
<1>11. ASSUME NEW g \in 1 .. G
       PROVE  /\ Distinct(p[g]) /\ p[g] # <<>> /\ Len(p[g]) <= k
              /\ equal => Len(p[g]) = k
              /\ Near(lens, k, Bounds, NewState(p[g]))
  <2> DEFINE st == NewState(p[g])
             low == lens[SortedRows[k * (g - 1) + 1]]
             high == lens[SortedRows[k * (g - 1) + k]]
  <2>1. Distinct(p[g])
    <3>1. \A i, j \in 1 .. k : p[g][i] = p[g][j] => i = j
      BY <1>9
    <3> QED
      BY <1>d, <3>1 DEF Distinct
  <2>2. Len(p[g]) = k /\ p[g] # <<>>
    BY <1>1, <1>6
  <2>3. p[g] \in Seq(1 .. Len(lens)) /\ Len(p[g]) <= k
    BY <1>1, <1>6 DEF N
  <2>4. \A i \in 1 .. k : \E r \in Elems(p[g]) : Weight(lens, Elems(st[i])) = lens[r]
    BY <2>1, <2>2, <2>3, NewStateOK
  <2>5. 1 \in 1 .. k /\ k \in 1 .. k
    BY <1>1
  <2>6. ASSUME NEW r \in Elems(p[g])
        PROVE  low <= lens[r] /\ lens[r] <= high /\ lens[r] \in Nat
    <3>1. PICK j \in 1 .. k : r = p[g][j]
      BY <1>d DEF Elems
    <3>2. r = SortedRows[k * (g - 1) + j]
      BY <1>6, <3>1
    <3>3. k * (g - 1) + 1 <= k * (g - 1) + j /\ k * (g - 1) + j <= k * (g - 1) + k
      <4>1. k * (g - 1) \in Nat
        BY <1>4
      <4> QED
        BY <1>1, <4>1
    <3>4. /\ k * (g - 1) + 1 \in 1 .. N /\ k * (g - 1) + j \in 1 .. N
          /\ k * (g - 1) + k \in 1 .. N
      BY <1>4, <2>5
    <3>5. low <= lens[r] /\ lens[r] <= high
      BY <1>2, <3>2, <3>3, <3>4
    <3>6. r \in 1 .. N
      BY <1>2, <3>2, <3>4 DEF Permutes
    <3> QED
      BY <1>1, <3>5, <3>6
  <2>7. low \in Nat /\ high \in Nat
    <3>1. SortedRows[k * (g - 1) + 1] \in 1 .. N /\ SortedRows[k * (g - 1) + k] \in 1 .. N
      BY <1>2, <1>4, <2>5 DEF Permutes
    <3> QED
      BY <1>1, <3>1
  <2>8. high - low \in Bounds
    <3>1. k * g = k * (g - 1) + k /\ k * g - k + 1 = k * (g - 1) + 1
      BY <1>1, <1>3
    <3>2. high - low = lens[SortedRows[k * g]] - lens[SortedRows[k * g - k + 1]]
      BY <3>1
    <3>3. g \in 1 .. Len(lens) \div k
      BY DEF G, N
    <3> HIDE DEF low, high
    <3> QED
      BY <3>2, <3>3 DEF Bounds
  <2> HIDE DEF st, low, high
  <2>9. \A i, h \in 1 .. k : Weight(lens, Elems(st[i])) - Weight(lens, Elems(st[h])) <= high - low
    <3>1. TAKE i, h \in 1 .. k
    <3>2. PICK r \in Elems(p[g]) : Weight(lens, Elems(st[i])) = lens[r]
      BY <2>4
    <3>3. PICK q \in Elems(p[g]) : Weight(lens, Elems(st[h])) = lens[q]
      BY <2>4
    <3>4. lens[r] - lens[q] <= high - low
      BY <2>6, <2>7
    <3> QED
      BY <3>2, <3>3, <3>4
  <2>10. Near(lens, k, Bounds, st)
    BY <2>8, <2>9 DEF Near
  <2> QED
    BY <2>1, <2>2, <2>3, <2>10 DEF st
<1>12. \A g, h \in 1 .. G : g # h => Elems(p[g]) \cap Elems(p[h]) = {}
  <2>1. TAKE g, h \in 1 .. G
  <2>2. \A i, j \in 1 .. k : p[g][i] = p[h][j] => g = h
    BY <1>9
  <2>3. \A r \in Elems(p[g]) : \E i \in 1 .. k : r = p[g][i]
    BY <1>d DEF Elems
  <2>4. \A r \in Elems(p[h]) : \E i \in 1 .. k : r = p[h][i]
    BY <1>d DEF Elems
  <2> QED
    BY <2>2, <2>3, <2>4
<1> QED
  <2>1. p \in [1 .. G -> Seq(1 .. Len(lens))]
    BY <1>7 DEF N
  <2> QED
    BY <1>3, <1>8, <1>10, <1>11, <1>12, <2>1, InitialStates

\* One row in each state, where the parts need not be of equal size.
LEMMA InitialRows ==
    ASSUME InputOK, ~ equal, heap = InitialHeap
    PROVE  HeapOK
<1> DEFINE N == Len(lens)
           p == [g \in 1 .. N |-> <<g>>]
<1>1. /\ N \in Nat \ {0} /\ Rows = 1 .. N /\ k \in Nat \ {0}
      /\ lens \in Seq(Nat) /\ \A row \in 1 .. N : lens[row] \in Nat
  BY InputFacts DEF InputOK
<1>2. heap = { NewState(<<row>>) : row \in 1 .. N }
  BY <1>1 DEF InitialHeap
<1> HIDE DEF N
<1>3. p \in [1 .. N -> Seq(1 .. N)] /\ \A g \in 1 .. N : p[g] = <<g>>
  <2>1. \A g \in 1 .. N : <<g>> \in Seq(1 .. N)
    OBVIOUS
  <2> QED
    BY <2>1
<1>4. heap = { NewState(p[g]) : g \in 1 .. N }
  BY <1>2
<1> HIDE DEF p
<1>5. \A g \in 1 .. N : Elems(p[g]) = {g} /\ Len(p[g]) = 1 /\ Distinct(p[g]) /\ p[g] # <<>>
  <2>1. TAKE g \in 1 .. N
  <2>2. p[g] = <<g>>
    BY <1>3
  <2>3. Elems(<<g>>) = {g} /\ Len(<<g>>) = 1 /\ Distinct(<<g>>) /\ <<g>> # <<>>
    BY DEF Elems, Distinct
  <2> QED
    BY <2>2, <2>3
<1>6. ASSUME NEW g \in 1 .. N
      PROVE  Near(lens, k, Bounds, NewState(p[g]))
  <2> DEFINE st == NewState(p[g])
  <2>1. /\ p[g] \in Seq(1 .. Len(lens)) /\ Distinct(p[g]) /\ p[g] # <<>> /\ Len(p[g]) <= k
        /\ Elems(p[g]) = {g}
    <3>1. Len(p[g]) = 1 /\ 1 <= k
      BY <1>1, <1>5
    <3>2. p[g] \in Seq(1 .. Len(lens))
      BY <1>3 DEF N
    <3> QED
      BY <1>5, <3>1, <3>2
  <2>2. \A i \in 1 .. k : Weight(lens, Elems(st[i])) = lens[g] \/ Weight(lens, Elems(st[i])) = 0
    BY <2>1, NewStateOK
  <2>3. lens[g] <= Longest /\ lens[g] \in Nat /\ Longest \in Nat
    BY <1>1, LongestRow
  <2> HIDE DEF st
  <2>4. \A i, h \in 1 .. k : Weight(lens, Elems(st[i])) - Weight(lens, Elems(st[h])) <= Longest
    <3>1. TAKE i, h \in 1 .. k
    <3>2. \A x, y \in Nat : (x = lens[g] \/ x = 0) /\ (y = lens[g] \/ y = 0) => x - y <= Longest
      BY <2>3
    <3>3. Weight(lens, Elems(st[i])) \in Nat /\ Weight(lens, Elems(st[h])) \in Nat
      BY <1>1, WeightType
    <3> QED
      BY <2>2, <3>2, <3>3
  <2> QED
    BY <2>4 DEF Near, Bounds, st
<1>7. ASSUME NEW g \in 1 .. N
      PROVE  /\ Distinct(p[g]) /\ p[g] # <<>> /\ Len(p[g]) <= k
             /\ equal => Len(p[g]) = k
             /\ Near(lens, k, Bounds, NewState(p[g]))
  <2>1. Len(p[g]) = 1 /\ 1 <= k
    BY <1>1, <1>5
  <2> QED
    BY <1>5, <1>6, <2>1
<1>8. \A g, h \in 1 .. N : g # h => Elems(p[g]) \cap Elems(p[h]) = {}
  BY <1>5
<1>9. \A row \in Rows : \E g \in 1 .. N : row \in Elems(p[g])
  BY <1>1, <1>5
<1> QED
  <2>1. p \in [1 .. N -> Seq(1 .. Len(lens))]
    BY <1>3 DEF N
  <2> QED
    BY <1>1, <1>4, <1>7, <1>8, <1>9, <2>1, InitialStates
-----------------------------------------------------------------------------
(* The steps.                                                              *)

\* A merge leaves the heap sound: the first two states are there, and what
\* replaces them holds their rows.
LEMMA MergedHeap ==
    ASSUME InputOK, NEW H, HeapOf(H), Cardinality(H) > 1
    PROVE  LET st == First(H)
               other == First(H \ {st})
           IN  HeapOf((H \ {st, other}) \cup {Merged(st, other)})
<1> DEFINE st == First(H)
           rest == H \ {st}
           other == First(rest)
           m == Merged(st, other)
           kept == H \ {st, other}
           G == kept \cup {m}
<1>1. /\ States(lens, k, H) /\ H # {} /\ IsFiniteSet(H)
      /\ \A s \in H : /\ IF equal THEN Even(k, s) ELSE Filled(k, s)
                      /\ Near(lens, k, Bounds, s)
      /\ \A row \in Rows : \E s \in H : row \in Held(s)
  BY DEF HeapOf, States
<1>2. st \in H
  BY <1>1, FirstOfHeap
<1>3. States(lens, k, rest) /\ rest # {}
  <2>1. IsFiniteSet(rest)
    BY <1>1, FS_RemoveElement
  <2>2. rest # {}
    <3>1. Cardinality(rest) = Cardinality(H) - 1 /\ Cardinality(H) \in Nat
      BY <1>1, <1>2, FS_RemoveElement, FS_CardinalityType
    <3>2. Cardinality(rest) # 0
      BY <3>1
    <3> QED
      BY <3>2, FS_EmptySet
  <2>3. \A s \in rest : StateOK(lens, k, s)
    BY <1>1 DEF States
  <2>4. \A a, b \in rest : a # b => Held(a) \cap Held(b) = {}
    BY <1>1 DEF States
  <2> QED
    BY <2>1, <2>2, <2>3, <2>4 DEF States
<1>4. other \in rest
  <2> HIDE DEF rest
  <2> QED
    BY <1>3, FirstOfHeap
<1>5. other \in H /\ other # st
  BY <1>4
<1> HIDE DEF st, other, rest
<1>6. /\ StateOK(lens, k, st) /\ StateOK(lens, k, other)
      /\ Held(st) \cap Held(other) = {}
  BY <1>1, <1>2, <1>5 DEF States
<1>7. Bounds \in SUBSET Int
  BY BoundsType
<1>8. /\ StateOK(lens, k, m) /\ Held(m) = Held(st) \cup Held(other)
      /\ Even(k, st) /\ Even(k, other) => Even(k, m)
      /\ Filled(k, st) /\ Filled(k, other) => Filled(k, m)
      /\ Near(lens, k, Bounds, st) /\ Near(lens, k, Bounds, other) => Near(lens, k, Bounds, m)
  BY <1>6, <1>7, MergedState
<1> HIDE DEF m
<1>9. /\ IF equal THEN Even(k, m) ELSE Filled(k, m)
      /\ Near(lens, k, Bounds, m)
  <2>1. /\ IF equal THEN Even(k, st) ELSE Filled(k, st)
        /\ Near(lens, k, Bounds, st)
    BY <1>1, <1>2
  <2>2. /\ IF equal THEN Even(k, other) ELSE Filled(k, other)
        /\ Near(lens, k, Bounds, other)
    BY <1>1, <1>5
  <2> QED
    BY <1>8, <2>1, <2>2
<1>10. States(lens, k, G)
  <2>1. IsFiniteSet(G)
    <3>1. IsFiniteSet(kept)
      BY <1>1, FS_Subset
    <3> QED
      BY <3>1, FS_AddElement
  <2>2. \A s \in G : StateOK(lens, k, s)
    BY <1>1, <1>8 DEF States
  <2>3. \A a \in kept : Held(a) \cap Held(st) = {} /\ Held(a) \cap Held(other) = {}
    BY <1>1, <1>2, <1>5 DEF States
  <2>4. \A a \in kept : Held(a) \cap Held(m) = {} /\ Held(m) \cap Held(a) = {}
    BY <1>8, <2>3
  <2>5. \A a, b \in kept : a # b => Held(a) \cap Held(b) = {}
    BY <1>1 DEF States
  <2>6. \A a, b \in G : a # b => Held(a) \cap Held(b) = {}
    BY <2>4, <2>5
  <2> QED
    BY <2>1, <2>2, <2>6 DEF States
<1>11. ASSUME NEW s \in G
       PROVE  /\ IF equal THEN Even(k, s) ELSE Filled(k, s)
              /\ Near(lens, k, Bounds, s)
  BY <1>1, <1>9
<1>12. ASSUME NEW row \in Rows
       PROVE  \E s \in G : row \in Held(s)
  <2>1. PICK s \in H : row \in Held(s)
    BY <1>1
  <2>2. CASE s \in kept
    BY <2>1, <2>2
  <2>3. CASE s = st \/ s = other
    BY <1>8, <2>1, <2>3
  <2> QED
    BY <2>2, <2>3
<1>13. HeapOf(G)
  BY <1>10, <1>11, <1>12 DEF HeapOf
<1> QED
  BY <1>13 DEF st, other, rest, m

\* The only state left holds all rows, and the assertions accept it.
LEMMA LastState ==
    ASSUME InputOK, NEW H, HeapOf(H), Cardinality(H) = 1
    PROVE  LET st == First(H)
           IN  /\ StateOK(lens, k, st) /\ Held(st) = Rows /\ Near(lens, k, Bounds, st)
               /\ Accepted(st)
<1> DEFINE st == First(H)
           N == Len(lens)
<1>1. /\ States(lens, k, H) /\ H # {} /\ IsFiniteSet(H)
      /\ \A s \in H : /\ IF equal THEN Even(k, s) ELSE Filled(k, s)
                      /\ Near(lens, k, Bounds, s)
      /\ \A row \in Rows : \E s \in H : row \in Held(s)
  BY DEF HeapOf, States
<1>2. st \in H
  BY <1>1, FirstOfHeap
<1>3. \A s \in H : s = st
  <2>1. PICK x : H = {x}
    BY <1>1, FS_Singleton
  <2> QED
    BY <1>2, <2>1
<1> HIDE DEF st
<1>4. N \in Nat \ {0} /\ Rows = 1 .. N /\ k \in Nat \ {0} /\ k <= N
  BY InputFacts DEF InputOK
<1>5. StateOK(lens, k, st)
  BY <1>1, <1>2 DEF States
<1>6. /\ DOMAIN st = 1 .. k
      /\ \A i \in 1 .. k : st[i] \in Seq(1 .. N) /\ Distinct(st[i])
      /\ \A i, h \in 1 .. k : i # h => Elems(st[i]) \cap Elems(st[h]) = {}
  BY <1>5 DEF StateOK, SetsOK
<1> HIDE DEF N
<1>7. Held(st) = Rows
  <2>1. Rows \subseteq Held(st)
    BY <1>1, <1>3
  <2>2. ASSUME NEW r \in Held(st)
        PROVE  r \in Rows
    <3>1. PICK i \in 1 .. k : r \in Elems(st[i])
      BY <1>6 DEF Held
    <3>2. st[i] \in Seq(1 .. N)
      BY <1>6
    <3> QED
      BY <1>4, <3>1, <3>2 DEF Elems
  <2> QED
    BY <2>1, <2>2
<1>8. \A row \in 1 .. N : \E i \in 1 .. k : row \in Elems(st[i])
  BY <1>4, <1>6, <1>7 DEF Held
<1>9. Near(lens, k, Bounds, st) /\ IF equal THEN Even(k, st) ELSE Filled(k, st)
  BY <1>1, <1>2
<1>l. \A i \in 1 .. k : /\ Len(st[i]) \in Nat /\ DOMAIN st[i] = 1 .. Len(st[i])
                        /\ (Len(st[i]) = 0 <=> st[i] = <<>>)
  <2>1. TAKE i \in 1 .. k
  <2>2. st[i] \in Seq(1 .. N)
    BY <1>6
  <2> QED
    BY <2>2
<1>10. CASE equal
  <2> DEFINE c == Len(st[1])
  <2>1. 1 \in 1 .. k
    BY <1>4
  <2>2. c \in Nat /\ \A i \in 1 .. k : Len(st[i]) = c
    BY <1>9, <1>10, <1>l, <2>1 DEF Even
  <2> HIDE DEF c
  <2>3. \A i \in 1 .. k : DOMAIN st[i] = 1 .. c
    BY <1>l, <2>2
  <2> DEFINE P == (1 .. k) \X (1 .. c)
             f == [x \in P |-> st[x[1]][x[2]]]
  <2>4. ASSUME NEW x \in P
        PROVE  x[1] \in 1 .. k /\ x[2] \in 1 .. c /\ x = <<x[1], x[2]>> /\ f[x] = st[x[1]][x[2]]
    OBVIOUS
  <2>5. ASSUME NEW i \in 1 .. k, NEW j \in 1 .. c
        PROVE  st[i][j] \in 1 .. N /\ st[i][j] \in Elems(st[i])
    <3>1. st[i] \in Seq(1 .. N) /\ j \in DOMAIN st[i]
      BY <1>6, <2>3
    <3>2. st[i][j] \in Elems(st[i])
      BY <3>1 DEF Elems
    <3>a. ASSUME NEW y \in Seq(1 .. N), NEW h \in DOMAIN y
          PROVE  y[h] \in 1 .. N
      BY <1>4
    <3>3. st[i][j] \in 1 .. N
      BY <3>1, <3>a
    <3> QED
      BY <3>2, <3>3
  <2>6. f \in [P -> 1 .. N]
    <3>1. \A x \in P : f[x] \in 1 .. N
      BY <2>4, <2>5
    <3>2. f = [x \in P |-> f[x]]
      OBVIOUS
    <3> HIDE DEF f, P
    <3> QED
      BY <3>1, <3>2
  <2>7. ASSUME NEW x \in P, NEW y \in P, f[x] = f[y]
        PROVE  x = y
    <3>1. st[x[1]][x[2]] = st[y[1]][y[2]]
      BY <2>7
    <3>2. /\ x[1] \in 1 .. k /\ x[2] \in 1 .. c /\ x = <<x[1], x[2]>>
          /\ y[1] \in 1 .. k /\ y[2] \in 1 .. c /\ y = <<y[1], y[2]>>
      BY <2>4
    <3>3. x[1] = y[1]
      BY <1>6, <2>5, <3>1, <3>2
    <3>a. x[2] \in DOMAIN st[x[1]] /\ y[2] \in DOMAIN st[x[1]] /\ Distinct(st[x[1]])
      BY <1>6, <2>3, <3>2
    <3>b. st[x[1]][x[2]] = st[x[1]][y[2]]
      BY <3>1, <3>3
    <3>4. x[2] = y[2]
      BY <3>a, <3>b DEF Distinct
    <3> QED
      BY <3>2, <3>3, <3>4
  <2>8. ASSUME NEW row \in 1 .. N
        PROVE  \E x \in P : f[x] = row
    <3>1. PICK i \in 1 .. k : row \in Elems(st[i])
      BY <1>8
    <3>2. PICK j \in 1 .. c : row = st[i][j]
      BY <2>3, <3>1 DEF Elems
    <3>3. <<i, j>> \in P /\ f[<<i, j>>] = row
      BY <3>2
    <3> QED
      BY <3>3
  <2> HIDE DEF f
  <2>9. f \in Bijection(P, 1 .. N)
    <3>1. f \in Injection(P, 1 .. N)
      BY <2>6, <2>7 DEF Injection, IsInjective
    <3>2. f \in Surjection(P, 1 .. N)
      BY <2>6, <2>8 DEF Surjection
    <3> QED
      BY <3>1, <3>2 DEF Bijection
  <2>10. IsFiniteSet(P) /\ Cardinality(P) = k * c
    <3>1. IsFiniteSet(1 .. k) /\ Cardinality(1 .. k) = k
      BY <1>4, Interval
    <3>2. IsFiniteSet(1 .. c) /\ Cardinality(1 .. c) = c
      BY <2>2, Interval
    <3> DEFINE A == 1 .. k
               B == 1 .. c
    <3>3. IsFiniteSet(A) /\ IsFiniteSet(B) /\ Cardinality(A) = k /\ Cardinality(B) = c
      BY <3>1, <3>2
    <3>4. P = A \X B
      OBVIOUS
    <3> HIDE DEF A, B, P
    <3>5. IsFiniteSet(A \X B) /\ Cardinality(A \X B) = Cardinality(A) * Cardinality(B)
      BY <3>3, FS_Product
    <3> QED
      BY <3>3, <3>4, <3>5
  <2>11. Cardinality(1 .. N) = k * c
    <3>1. ExistsBijection(P, 1 .. N)
      BY <2>9 DEF ExistsBijection
    <3> HIDE DEF P
    <3> QED
      BY <2>10, <3>1, FS_Bijection
  <2>12. N = k * c
    BY <1>4, <2>11, Interval
  <2>13. c # 0 /\ c * k = N
    BY <1>4, <2>2, <2>12
  <2>14. \A i \in 1 .. k : Len(st[i]) * k = N /\ st[i] # <<>>
    BY <1>l, <2>2, <2>13
  <2> QED
    BY <1>5, <1>7, <1>9, <2>14 DEF Accepted, st, N
<1>11. CASE ~ equal
  <2>1. ASSUME \A i \in 1 .. k : Len(st[i]) <= 1
        PROVE  \A i \in 1 .. k : st[i] # <<>>
    <3> DEFINE f == [row \in 1 .. N |-> CHOOSE i \in 1 .. k : row \in Elems(st[i])]
    <3>1. \A row \in 1 .. N : f[row] \in 1 .. k /\ row \in Elems(st[f[row]])
      BY <1>8
    <3>2. f \in [1 .. N -> 1 .. k]
      <4>1. f = [row \in 1 .. N |-> f[row]]
        OBVIOUS
      <4> HIDE DEF f
      <4> QED
        BY <3>1, <4>1
    <3> HIDE DEF f
    <3>3. ASSUME NEW r \in 1 .. N, NEW q \in 1 .. N, f[r] = f[q]
          PROVE  r = q
      <4>1. f[r] \in 1 .. k /\ r \in Elems(st[f[r]]) /\ q \in Elems(st[f[r]])
        BY <3>1, <3>3
      <4>2. DOMAIN st[f[r]] = 1 .. Len(st[f[r]]) /\ Len(st[f[r]]) \in Nat /\ Len(st[f[r]]) <= 1
        BY <1>l, <2>1, <4>1
      <4>3. \A j \in DOMAIN st[f[r]] : j = 1
        BY <4>2
      <4> QED
        BY <4>1, <4>3 DEF Elems
    <3>4. f \in Injection(1 .. N, 1 .. k)
      BY <3>2, <3>3 DEF Injection, IsInjective
    <3>5. /\ IsFiniteSet(1 .. k) /\ Cardinality(1 .. k) = k
          /\ IsFiniteSet(1 .. N) /\ Cardinality(1 .. N) = N
      BY <1>4, Interval
    <3>6. N <= k /\ (N = k <=> f \in Surjection(1 .. N, 1 .. k))
      BY <3>4, <3>5, FS_Injection
    <3>7. f \in Surjection(1 .. N, 1 .. k)
      BY <1>4, <3>6
    <3>8. TAKE i \in 1 .. k
    <3>9. PICK row \in 1 .. N : f[row] = i
      BY <3>7 DEF Surjection
    <3>10. row \in Elems(st[i])
      BY <3>1, <3>9
    <3> QED
      BY <3>10 DEF Elems
  <2>2. \A i \in 1 .. k : st[i] # <<>>
    BY <1>9, <1>11, <2>1 DEF Filled
  <2> QED
    BY <1>5, <1>7, <1>9, <1>11, <2>2 DEF Accepted, st, N
<1> QED
  BY <1>10, <1>11

\* The parts that are returned.
PartsOK(parts) ==
    /\ SetsOK(lens, k, parts)
    /\ Held(parts) = Rows
    /\ Near(lens, k, Bounds, parts)
    /\ Accepted(parts)

PartitionOK == PartsOK(partition)

\* A part whose rows are put in order keeps its rows.
LEMMA SortedPart ==
    ASSUME NEW T \in SUBSET Int, NEW q \in Seq(T), Distinct(q)
    PROVE  /\ StableSort(q, q) \in Seq(T) /\ Len(StableSort(q, q)) = Len(q)
           /\ Distinct(StableSort(q, q)) /\ Elems(StableSort(q, q)) = Elems(q)
<1> DEFINE s == StableSort(q, q)
           L == Len(q)
<1>1. L \in Nat /\ DOMAIN q = 1 .. L
  OBVIOUS
<1> DEFINE key == q
<1>2. q \in Seq(T) /\ key \in [DOMAIN q -> Int]
  OBVIOUS
<1> HIDE DEF key
<1>3. /\ StableSort(q, key) \in Seq(T) /\ Len(StableSort(q, key)) = Len(q)
      /\ \E at : /\ Permutes(at, Len(q))
                 /\ \A m, n \in 1 .. Len(q) : m < n =>
                      \/ key[at[m]] < key[at[n]]
                      \/ key[at[m]] = key[at[n]] /\ at[m] < at[n]
                 /\ \A n \in 1 .. Len(q) : StableSort(q, key)[n] = q[at[n]]
  BY <1>2, StableSortProperties
<1>s. s = StableSort(q, key)
  BY DEF key
<1>4. PICK at : Permutes(at, L) /\ \A i \in 1 .. L : s[i] = q[at[i]]
  <2>1. PICK at : Permutes(at, Len(q)) /\ \A n \in 1 .. Len(q) : StableSort(q, key)[n] = q[at[n]]
    BY <1>3
  <2> HIDE DEF s
  <2>2. Permutes(at, L) /\ \A i \in 1 .. L : s[i] = q[at[i]]
    BY <1>s, <2>1
  <2> QED
    BY <2>2
<1>5. s \in Seq(T) /\ Len(s) = L /\ DOMAIN s = 1 .. L
  BY <1>3, <1>s
<1> HIDE DEF s, L
<1>6. \A i \in 1 .. L : at[i] \in 1 .. L
  BY <1>4 DEF Permutes
<1>7. Distinct(s)
  <2>1. SUFFICES ASSUME NEW i \in 1 .. L, NEW h \in 1 .. L, s[i] = s[h]
                 PROVE  i = h
    BY <1>5 DEF Distinct
  <2>2. at[i] = at[h]
    BY <1>1, <1>4, <1>6, <2>1 DEF Distinct
  <2> QED
    BY <1>4, <2>2 DEF Permutes
<1>8. Elems(s) = Elems(q)
  <2>1. ASSUME NEW r \in Elems(s)
        PROVE  r \in Elems(q)
    <3>1. PICK i \in 1 .. L : r = s[i]
      BY <1>5 DEF Elems
    <3> QED
      BY <1>1, <1>4, <1>6, <3>1 DEF Elems
  <2>2. ASSUME NEW r \in Elems(q)
        PROVE  r \in Elems(s)
    <3>1. PICK i \in 1 .. L : r = q[i]
      BY <1>1 DEF Elems
    <3>2. PICK m \in 1 .. L : at[m] = i
      BY <1>4 DEF Permutes
    <3> QED
      BY <1>4, <1>5, <3>1, <3>2 DEF Elems
  <2> QED
    BY <2>1, <2>2
<1> QED
  BY <1>5, <1>7, <1>8 DEF s, L

LEMMA ReturnedParts ==
    ASSUME InputOK, NEW st, StateOK(lens, k, st), Held(st) = Rows,
           Near(lens, k, Bounds, st), Accepted(st),
           NEW parts, parts = [i \in 1 .. k |-> StableSort(st[i], st[i])]
    PROVE  PartsOK(parts)
<1> DEFINE N == Len(lens)
<1>1. N \in Nat
  BY InputFacts
<1>2. /\ DOMAIN st = 1 .. k
      /\ \A i \in 1 .. k : st[i] \in Seq(1 .. N) /\ Distinct(st[i])
      /\ \A i, h \in 1 .. k : i # h => Elems(st[i]) \cap Elems(st[h]) = {}
  BY DEF StateOK, SetsOK
<1>3. ASSUME NEW i \in 1 .. k
      PROVE  /\ parts[i] \in Seq(1 .. N) /\ Len(parts[i]) = Len(st[i])
             /\ Distinct(parts[i]) /\ Elems(parts[i]) = Elems(st[i])
  <2>1. st[i] \in Seq(1 .. N) /\ Distinct(st[i])
    BY <1>2
  <2>2. parts[i] = StableSort(st[i], st[i])
    OBVIOUS
  <2> DEFINE T == 1 .. N
  <2>3. T \in SUBSET Int /\ st[i] \in Seq(T)
    BY <1>1, <2>1
  <2> HIDE DEF T
  <2>4. /\ StableSort(st[i], st[i]) \in Seq(T) /\ Len(StableSort(st[i], st[i])) = Len(st[i])
        /\ Distinct(StableSort(st[i], st[i]))
        /\ Elems(StableSort(st[i], st[i])) = Elems(st[i])
    BY <2>1, <2>3, SortedPart
  <2> QED
    BY <2>2, <2>4 DEF T
<1>4. parts = [i \in 1 .. k |-> parts[i]] /\ DOMAIN parts = 1 .. k
  OBVIOUS
<1>5. SetsOK(lens, k, parts)
  <2>1. parts \in [1 .. k -> Seq(1 .. N)]
    BY <1>3, <1>4
  <2> QED
    BY <1>2, <1>3, <2>1 DEF SetsOK
<1>6. Held(parts) = Rows
  <2>1. Held(parts) = Held(st)
    BY <1>2, <1>3, <1>4 DEF Held
  <2> QED
    BY <2>1
<1>7. Near(lens, k, Bounds, parts)
  BY <1>3 DEF Near
<1>8. Accepted(parts)
  <2>1. \A i \in 1 .. k : parts[i] # <<>>
    <3>1. TAKE i \in 1 .. k
    <3>2. st[i] # <<>> /\ st[i] \in Seq(1 .. N) /\ parts[i] \in Seq(1 .. N)
      BY <1>2, <1>3 DEF Accepted
    <3>3. Len(st[i]) # 0
      BY <3>2
    <3>4. Len(parts[i]) # 0
      BY <1>3, <3>3
    <3> QED
      BY <3>2, <3>4
  <2>2. equal => \A i \in 1 .. k : Len(parts[i]) * k = Len(lens)
    BY <1>3 DEF Accepted
  <2> QED
    BY <2>1, <2>2 DEF Accepted
<1> QED
  BY <1>5, <1>6, <1>7, <1>8 DEF PartsOK
-----------------------------------------------------------------------------
(* The result.                                                             *)

LEMMA PartitionFacts ==
    ASSUME InputOK, PartitionOK
    PROVE  /\ k \in Nat \ {0} /\ Len(lens) \in Nat \ {0} /\ Rows = 1 .. Len(lens)
           /\ partition \in Seq(Seq(1 .. Len(lens))) /\ Len(partition) = k
           /\ DOMAIN partition = 1 .. k
           /\ \A i \in 1 .. k : /\ partition[i] \in Seq(1 .. Len(lens)) /\ Distinct(partition[i])
                                /\ partition[i] # <<>>
           /\ \A i, h \in 1 .. k : i # h => Elems(partition[i]) \cap Elems(partition[h]) = {}
           /\ \A row \in Rows : \E i \in 1 .. k : row \in Elems(partition[i])
<1>1. k \in Nat \ {0} /\ Len(lens) \in Nat \ {0} /\ Rows = 1 .. Len(lens)
  BY InputFacts DEF InputOK
<1>2. /\ partition \in [1 .. k -> Seq(1 .. Len(lens))]
      /\ \A i \in 1 .. k : Distinct(partition[i]) /\ partition[i] # <<>>
      /\ \A i, h \in 1 .. k : i # h => Elems(partition[i]) \cap Elems(partition[h]) = {}
  BY DEF PartitionOK, PartsOK, SetsOK, Accepted
<1>3. partition \in Seq(Seq(1 .. Len(lens))) /\ Len(partition) = k
  BY <1>1, <1>2
<1>4. \A row \in Rows : \E i \in 1 .. k : row \in Elems(partition[i])
  BY <1>2 DEF PartitionOK, PartsOK, Held
<1> QED
  BY <1>1, <1>2, <1>3, <1>4

\* The order of the batch has every row once, part after part.
LEMMA OrderPermutes ==
    ASSUME InputOK, PartitionOK
    PROVE  /\ Order \in Seq(1 .. Len(lens)) /\ Len(Order) = Len(lens)
           /\ Permutes(Order, Len(lens))
           /\ \E off : /\ Offsets(off, partition)
                       /\ \A i \in 1 .. k : \A j \in 1 .. Len(partition[i]) :
                            /\ off[i - 1] + j \in 1 .. Len(lens)
                            /\ Order[off[i - 1] + j] = partition[i][j]
<1> DEFINE N == Len(lens)
           T == 1 .. N
           L == Len(Order)
<1>1. /\ N \in Nat \ {0} /\ Rows = T
      /\ partition \in Seq(Seq(T)) /\ Len(partition) = k
      /\ \A i \in 1 .. k : partition[i] \in Seq(T) /\ Distinct(partition[i])
      /\ \A i, h \in 1 .. k : i # h => Elems(partition[i]) \cap Elems(partition[h]) = {}
      /\ \A row \in T : \E i \in 1 .. k : row \in Elems(partition[i])
  BY PartitionFacts
<1> HIDE DEF T
<1>2. PICK off : Offsets(off, partition)
  BY <1>1, OffsetsExist
<1>3. /\ FlattenSeq(partition) \in Seq(T) /\ Len(FlattenSeq(partition)) = off[Len(partition)]
      /\ \A i \in 1 .. Len(partition) : \A j \in 1 .. Len(partition[i]) :
           /\ off[i - 1] + j \in 1 .. Len(FlattenSeq(partition))
           /\ FlattenSeq(partition)[off[i - 1] + j] = partition[i][j]
      /\ \A n \in 1 .. Len(FlattenSeq(partition)) :
           \E i \in 1 .. Len(partition) : \E j \in 1 .. Len(partition[i]) : n = off[i - 1] + j
  <2>1. partition \in Seq(Seq(T)) /\ Offsets(off, partition)
    BY <1>1, <1>2
  <2> QED
    BY <2>1, FlattenProperties
<1>4. /\ Order \in Seq(T) /\ L \in Nat
      /\ \A i \in 1 .. k : \A j \in 1 .. Len(partition[i]) :
           /\ off[i - 1] + j \in 1 .. L
           /\ Order[off[i - 1] + j] = partition[i][j]
      /\ \A n \in 1 .. L : \E i \in 1 .. k : \E j \in 1 .. Len(partition[i]) : n = off[i - 1] + j
  <2>1. Order \in Seq(T)
    BY <1>3 DEF Order
  <2>2. L \in Nat
    BY <2>1
  <2> QED
    BY <1>1, <1>3, <2>1, <2>2 DEF Order
<1>5. Order \in [1 .. L -> T] /\ DOMAIN Order = 1 .. L
  BY <1>4
<1> HIDE DEF L
<1>d. \A i \in 1 .. k : DOMAIN partition[i] = 1 .. Len(partition[i])
  <2>1. TAKE i \in 1 .. k
  <2>2. partition[i] \in Seq(T)
    BY <1>1
  <2> QED
    BY <2>2
<1>6. ASSUME NEW m \in 1 .. L, NEW n \in 1 .. L, Order[m] = Order[n]
      PROVE  m = n
  <2>a. PICK i \in 1 .. k : \E j \in 1 .. Len(partition[i]) : m = off[i - 1] + j
    BY <1>4
  <2>1. PICK j \in 1 .. Len(partition[i]) : m = off[i - 1] + j
    BY <2>a
  <2>b. PICK h \in 1 .. k : \E g \in 1 .. Len(partition[h]) : n = off[h - 1] + g
    BY <1>4
  <2>2. PICK g \in 1 .. Len(partition[h]) : n = off[h - 1] + g
    BY <2>b
  <2>3. partition[i][j] = partition[h][g]
    BY <1>4, <1>6, <2>1, <2>2
  <2>4. partition[i][j] \in Elems(partition[i]) /\ partition[h][g] \in Elems(partition[h])
    BY <1>d DEF Elems
  <2>5. i = h
    BY <1>1, <2>3, <2>4
  <2>6. j = g
    <3>1. Distinct(partition[i]) /\ j \in DOMAIN partition[i] /\ g \in DOMAIN partition[i]
      BY <1>1, <1>d, <2>5
    <3> QED
      BY <2>3, <2>5, <3>1 DEF Distinct
  <2> QED
    BY <2>1, <2>2, <2>5, <2>6
<1>7. ASSUME NEW row \in T
      PROVE  \E m \in 1 .. L : Order[m] = row
  <2>1. PICK i \in 1 .. k : row \in Elems(partition[i])
    BY <1>1
  <2>2. PICK j \in 1 .. Len(partition[i]) : row = partition[i][j]
    BY <1>d, <2>1 DEF Elems
  <2> QED
    BY <1>4, <2>2
<1>8. L = N
  <2>1. Order \in Bijection(1 .. L, T)
    <3>1. Order \in Injection(1 .. L, T)
      BY <1>5, <1>6 DEF Injection, IsInjective
    <3>2. Order \in Surjection(1 .. L, T)
      BY <1>5, <1>7 DEF Surjection
    <3> QED
      BY <3>1, <3>2 DEF Bijection
  <2>2. ExistsBijection(1 .. L, T)
    BY <2>1 DEF ExistsBijection
  <2>3. IsFiniteSet(1 .. L) /\ Cardinality(1 .. L) = L
    BY <1>4, Interval
  <2>4. Cardinality(T) = L
    BY <2>2, <2>3, FS_Bijection
  <2>5. Cardinality(T) = N
    BY <1>1, Interval DEF T
  <2> QED
    BY <2>4, <2>5
<1>9. Permutes(Order, N)
  BY <1>5, <1>6, <1>7, <1>8 DEF Permutes, T
<1>10. \A i \in 1 .. k : \A j \in 1 .. Len(partition[i]) :
         /\ off[i - 1] + j \in 1 .. N
         /\ Order[off[i - 1] + j] = partition[i][j]
  BY <1>4, <1>8
<1> HIDE DEF N
<1>11. Order \in Seq(T) /\ Len(Order) = N
  BY <1>4, <1>8 DEF L
<1> QED
  BY <1>2, <1>9, <1>10, <1>11 DEF T, N

\* Parts of equal size are what DataProto.chunk cuts the ordered batch into.
LEMMA ChunksAreParts ==
    ASSUME InputOK, PartitionOK, equal, NEW i \in 1 .. k
    PROVE  Chunk(Order, i) = partition[i]
<1> DEFINE N == Len(lens)
           T == 1 .. N
           c == N \div k
           q == Chunk(Order, i)
<1>1. /\ N \in Nat \ {0} /\ k \in Nat \ {0}
      /\ partition \in Seq(Seq(T)) /\ Len(partition) = k
      /\ \A h \in 1 .. k : partition[h] \in Seq(T)
  BY PartitionFacts
<1>2. /\ Order \in Seq(T) /\ Len(Order) = N
      /\ \E off : /\ Offsets(off, partition)
                  /\ \A h \in 1 .. k : \A j \in 1 .. Len(partition[h]) :
                       /\ off[h - 1] + j \in 1 .. N
                       /\ Order[off[h - 1] + j] = partition[h][j]
  BY OrderPermutes
<1>3. PICK off : /\ Offsets(off, partition)
                 /\ \A h \in 1 .. k : \A j \in 1 .. Len(partition[h]) :
                      /\ off[h - 1] + j \in 1 .. N
                      /\ Order[off[h - 1] + j] = partition[h][j]
  BY <1>2
<1> HIDE DEF N, T
<1>4. \A h \in 1 .. k : Len(partition[h]) = c
  <2>1. TAKE h \in 1 .. k
  <2>2. Len(partition[h]) * k = N
    BY DEF PartitionOK, PartsOK, Accepted, N
  <2>3. Len(partition[h]) \in Nat
    <3>1. partition[h] \in Seq(T)
      BY <1>1
    <3> QED
      BY <3>1
  <2>4. \A a, b, n \in Nat : b # 0 /\ a * b = n => a = n \div b
    OBVIOUS
  <2> QED
    BY <1>1, <2>2, <2>3, <2>4
<1>5. c \in Nat /\ c * k = N
  <2>1. Len(partition[i]) * k = N
    BY DEF PartitionOK, PartsOK, Accepted, N
  <2>2. c \in Nat
    BY <1>1
  <2> QED
    BY <1>4, <2>1, <2>2
<1> HIDE DEF c
<1>6. \A h \in 0 .. k : off[h] = h * c
  <2>1. partition \in Seq(Seq(T)) /\ Offsets(off, partition) /\ c \in Nat
    BY <1>1, <1>3, <1>5
  <2>2. k \in 0 .. Len(partition) /\ OneLength(partition, k, c)
    BY <1>1, <1>4 DEF OneLength
  <2>3. Multiples(off, k, c)
    BY <2>1, <2>2, OffsetsEqual
  <2> QED
    BY <2>3 DEF Multiples
<1> DEFINE b == (i - 1) * c
<1>7. /\ off[i - 1] = b /\ i * c = b + c /\ b \in Nat /\ b + c <= N
  <2>1. i - 1 \in 0 .. k /\ i - 1 \in Nat
    BY <1>1
  <2>2. off[i - 1] = b /\ b \in Nat
    BY <1>5, <1>6, <2>1
  <2>3. i * c = b + c
    BY <1>5
  <2>4. i * c <= k * c
    BY <1>1, <1>5
  <2>k. k * c = N
    BY <1>1, <1>5
  <2>5. b + c <= N
    <3> HIDE DEF b
    <3> QED
      BY <2>3, <2>4, <2>k
  <2> HIDE DEF b
  <2> QED
    BY <2>2, <2>3, <2>5
<1>8. q = SubSeq(Order, b + 1, b + c)
  BY <1>2, <1>7 DEF Chunk, c, N
<1> HIDE DEF b, q
<1>9. Len(q) = c /\ q \in Seq(T) /\ \A j \in 1 .. c : q[j] = Order[b + j]
  <2>1. b + 1 \in 1 .. N + 1 /\ b + c \in Nat
    BY <1>1, <1>5, <1>7
  <2> QED
    BY <1>1, <1>2, <1>5, <1>7, <1>8, <2>1
<1>10. \A j \in 1 .. c : q[j] = partition[i][j]
  BY <1>3, <1>4, <1>7, <1>9
<1>11. partition[i] \in Seq(T) /\ Len(partition[i]) = c
  BY <1>1, <1>4
<1> QED
  BY <1>9, <1>10, <1>11 DEF q

LEMMA Restored ==
    ASSUME InputOK, PartitionOK
    PROVE  /\ Len(Order) = Len(lens)
           /\ \A row \in Rows : Order[ReverseIdx(Order)[row]] = row
<1> DEFINE N == Len(lens)
           LatestAt(row, i) == Order[i] = row /\ \A later \in i + 1 .. Len(Order) : Order[later] # row
<1>1. N \in Nat /\ Rows = 1 .. N
  BY PartitionFacts
<1>2. Order \in Seq(1 .. N) /\ Len(Order) = N /\ Permutes(Order, N)
  BY OrderPermutes
<1> HIDE DEF N
<1>3. DOMAIN Order = 1 .. N
  BY <1>1, <1>2
<1>4. ASSUME NEW row \in 1 .. N
      PROVE  \E i \in DOMAIN Order : LatestAt(row, i)
  <2>1. PICK i \in 1 .. N : Order[i] = row
    BY <1>2 DEF Permutes
  <2>2. ASSUME NEW later \in i + 1 .. N
        PROVE  Order[later] # row
    <3>1. later \in 1 .. N /\ later # i
      BY <1>1
    <3> QED
      BY <1>2, <2>1, <3>1 DEF Permutes
  <2> QED
    BY <1>2, <1>3, <2>1, <2>2
<1>5. ReverseIdx(Order) = [row \in 1 .. N |-> CHOOSE i \in DOMAIN Order : LatestAt(row, i)]
  BY <1>3 DEF ReverseIdx
<1> HIDE DEF LatestAt
<1>6. \A row \in 1 .. N : LatestAt(row, ReverseIdx(Order)[row])
  BY <1>4, <1>5
<1> QED
  BY <1>1, <1>2, <1>6 DEF LatestAt, N

LEMMA PartsSum ==
    ASSUME InputOK, PartitionOK, NEW i \in 1 .. k
    PROVE  /\ SumOf(partition[i]) = Weight(lens, Elems(partition[i]))
           /\ SumOf(partition[i]) \in Nat
<1>1. partition[i] \in Seq(1 .. Len(lens)) /\ Distinct(partition[i])
  BY PartitionFacts
<1> QED
  BY <1>1, SumOfSet

LEMMA EqualPartsBalanced ==
    ASSUME InputOK, PartitionOK, equal, NEW i \in 1 .. k, NEW j \in 1 .. k
    PROVE  \E g \in 1 .. Len(lens) \div k :
             SumOf(Chunk(Order, i)) - SumOf(Chunk(Order, j))
                 <= lens[SortedRows[k * g]] - lens[SortedRows[k * g - k + 1]]
<1>1. Chunk(Order, i) = partition[i] /\ Chunk(Order, j) = partition[j]
  BY ChunksAreParts
<1>2. PICK d \in Bounds : \A x, y \in 1 .. k :
        Weight(lens, Elems(partition[x])) - Weight(lens, Elems(partition[y])) <= d
  BY DEF PartitionOK, PartsOK, Near
<1>3. SumOf(partition[i]) - SumOf(partition[j]) <= d
  BY <1>2, PartsSum
<1> QED
  BY <1>1, <1>2, <1>3 DEF Bounds

\* All rows together weigh what the parts weigh.
LEMMA TotalIsWeight ==
    ASSUME InputOK
    PROVE  Total = Weight(lens, Rows) /\ Total \in Nat
<1> DEFINE q == [i \in Rows |-> i]
<1>1. Len(lens) \in Nat /\ Rows = 1 .. Len(lens)
  BY InputFacts
<1>2. q \in Seq(1 .. Len(lens)) /\ DOMAIN q = Rows /\ \A i \in Rows : q[i] = i
  BY <1>1
<1>3. Total = SumOf(q)
  BY DEF Total
<1> HIDE DEF q
<1>4. Distinct(q) /\ Elems(q) = Rows
  BY <1>2 DEF Distinct, Elems
<1> QED
  BY <1>2, <1>3, <1>4, SumOfSet

\* Parts of at least a each, one of them more, weigh more than k times a.
LEMMA PartsTogether ==
    ASSUME InputOK, PartitionOK, NEW a \in Nat, NEW x \in 1 .. k,
           \A i \in 1 .. k : Weight(lens, Elems(partition[i])) >= a,
           Weight(lens, Elems(partition[x])) > a
    PROVE  Weight(lens, Rows) > k * a
<1> DEFINE U(m) == UNION { Elems(partition[i]) : i \in 1 .. m }
           W(i) == Weight(lens, Elems(partition[i]))
           Enough == { m \in 0 .. k : Weight(lens, U(m)) >= m * a + (IF x <= m THEN 1 ELSE 0) }
<1>1. /\ k \in Nat \ {0} /\ lens \in Seq(Nat) /\ DOMAIN partition = 1 .. k
      /\ \A i, h \in 1 .. k : i # h => Elems(partition[i]) \cap Elems(partition[h]) = {}
  BY PartitionFacts, InputFacts
<1>2. \A i \in 1 .. k : W(i) \in Nat /\ W(i) >= a /\ (i = x => W(i) >= a + 1)
  <2>1. \A i \in 1 .. k : W(i) \in Nat
    BY <1>1, WeightType
  <2> QED
    BY <2>1
<1>3. 0 \in Enough
  <2>1. U(0) = {}
    OBVIOUS
  <2> HIDE DEF U
  <2>2. Weight(lens, U(0)) = 0
    BY <1>1, <2>1, WeightEmpty
  <2>3. ~ (x <= 0) /\ 0 * a = 0
    OBVIOUS
  <2> QED
    BY <1>1, <2>2, <2>3
<1>4. ASSUME NEW m \in Enough, m < k
      PROVE  m + 1 \in Enough
  <2>1. m \in 0 .. k /\ m \in Nat /\ m + 1 \in 1 .. k /\ m + 1 \in 0 .. k
    BY <1>1, <1>4
  <2>2. U(m + 1) = U(m) \cup Elems(partition[m + 1])
    BY <2>1
  <2>3. U(m) \cap Elems(partition[m + 1]) = {}
    <3>1. \A i \in 1 .. m : i \in 1 .. k /\ i # m + 1
      BY <1>1, <2>1
    <3> QED
      BY <1>1, <2>1, <3>1
  <2>4. Weight(lens, U(m)) >= m * a + (IF x <= m THEN 1 ELSE 0)
    OBVIOUS
  <2> HIDE DEF U
  <2>5. Weight(lens, U(m + 1)) = Weight(lens, U(m)) + W(m + 1)
    BY <1>1, <2>2, <2>3, WeightUnion
  <2>6. Weight(lens, U(m)) \in Nat
    BY <1>1, WeightType
  <2>7. (m + 1) * a = m * a + a /\ m * a \in Nat /\ (m + 1) * a \in Nat
    BY <2>1
  <2>8. W(m + 1) \in Nat /\ W(m + 1) >= a /\ (m + 1 = x => W(m + 1) >= a + 1)
    BY <1>2, <2>1
  <2> HIDE DEF W
  <2>9. Weight(lens, U(m + 1)) >= (m + 1) * a + (IF x <= m + 1 THEN 1 ELSE 0)
    <3>1. CASE x <= m
      <4>1. x <= m + 1
        BY <2>1, <3>1
      <4> QED
        BY <2>4, <2>5, <2>6, <2>7, <2>8, <3>1, <4>1
    <3>2. CASE x = m + 1
      <4>1. ~ (x <= m) /\ x <= m + 1
        BY <2>1, <3>2
      <4>2. W(m + 1) >= a + 1
        BY <2>8, <3>2
      <4> QED
        BY <2>4, <2>5, <2>6, <2>7, <2>8, <4>1, <4>2
    <3>3. CASE ~ (x <= m + 1)
      <4>1. ~ (x <= m)
        BY <2>1, <3>3
      <4> QED
        BY <2>4, <2>5, <2>6, <2>7, <2>8, <3>3, <4>1
    <3>4. x <= m \/ x = m + 1 \/ ~ (x <= m + 1)
      BY <1>1, <2>1
    <3> QED
      BY <3>1, <3>2, <3>3, <3>4
  <2> QED
    BY <2>1, <2>9
<1>5. k \in Enough
  <2>1. Enough \in SUBSET Nat
    <3> HIDE DEF U
    <3> QED
      BY <1>1
  <2> HIDE DEF Enough
  <2>2. 0 .. k \subseteq Enough
    BY <1>1, <1>3, <1>4, <2>1, InductionUpTo
  <2> QED
    BY <1>1, <2>2
<1>6. U(k) = Rows
  BY <1>1 DEF PartitionOK, PartsOK, Held
<1> HIDE DEF U
<1>7. Weight(lens, Rows) >= k * a + 1
  <2>1. x <= k
    BY <1>1
  <2>2. Weight(lens, U(k)) >= k * a + (IF x <= k THEN 1 ELSE 0)
    BY <1>5
  <2> QED
    BY <1>6, <2>1, <2>2
<1>8. Weight(lens, Rows) \in Nat /\ k * a \in Nat
  BY <1>1, WeightType
<1> QED
  BY <1>7, <1>8

LEMMA UnequalPartsBalanced ==
    ASSUME InputOK, PartitionOK, ~ equal
    PROVE  /\ \A i, j \in 1 .. k : SumOf(partition[i]) - SumOf(partition[j]) <= Longest
           /\ \A limit \in Longest .. Total :
                k = NumMicroBatches(limit) =>
                    \A i \in 1 .. k : SumOf(partition[i]) < limit + Longest
<1> DEFINE N == Len(lens)
           W(i) == Weight(lens, Elems(partition[i]))
<1>1. /\ k \in Nat \ {0} /\ N \in Nat \ {0} /\ Rows = 1 .. N /\ lens \in Seq(Nat)
      /\ \A row \in 1 .. N : lens[row] \in Nat \ {0}
      /\ \A i \in 1 .. k : partition[i] \in Seq(1 .. N) /\ Distinct(partition[i]) /\ partition[i] # <<>>
      /\ \A i, h \in 1 .. k : i # h => Elems(partition[i]) \cap Elems(partition[h]) = {}
      /\ \A row \in 1 .. N : \E i \in 1 .. k : row \in Elems(partition[i])
  BY PartitionFacts, InputFacts
<1>2. /\ \E r \in 1 .. N : Longest = lens[r]
      /\ \A row \in 1 .. N : lens[row] <= Longest
  BY <1>1, LongestRow
<1>3. Longest \in Nat \ {0}
  BY <1>1, <1>2
<1>4. \A i, j \in 1 .. k : W(i) - W(j) <= Longest
  BY DEF PartitionOK, PartsOK, Near, Bounds
<1>5. \A i \in 1 .. k : SumOf(partition[i]) = W(i) /\ W(i) \in Nat
  BY PartsSum
<1>6. Total = Weight(lens, Rows) /\ Total \in Nat
  BY TotalIsWeight
<1> HIDE DEF N
<1>7. ASSUME NEW limit \in Longest .. Total, k = NumMicroBatches(limit), NEW x \in 1 .. k,
             ~ (W(x) < limit + Longest)
      PROVE  FALSE
  <2> DEFINE n == (Total + limit - 1) \div limit
  <2>1. limit \in Nat \ {0} /\ Longest <= limit
    BY <1>3, <1>6
  <2>2. n \in Nat /\ Total <= n * limit
    <3>1. \A t, l \in Nat : l # 0 => /\ (t + l - 1) \div l \in Nat
                                     /\ t <= ((t + l - 1) \div l) * l
      OBVIOUS
    <3> QED
      BY <1>6, <2>1, <3>1
  <2>3. k = IF n < N THEN n ELSE N
    BY <1>7 DEF NumMicroBatches, N
  <2> HIDE DEF n
  <2>4. CASE n < N
    <3>1. \A i \in 1 .. k : W(i) >= limit
      <4>1. TAKE i \in 1 .. k
      <4>2. W(x) - W(i) <= Longest /\ W(x) \in Nat /\ W(i) \in Nat
        BY <1>4, <1>5
      <4> HIDE DEF W
      <4> QED
        BY <1>3, <1>7, <2>1, <4>2
    <3>2. W(x) > limit
      <4>1. W(x) \in Nat
        BY <1>5
      <4> HIDE DEF W
      <4> QED
        BY <1>3, <1>7, <2>1, <4>1
    <3>3. Weight(lens, Rows) > k * limit
      BY <2>1, <3>1, <3>2, PartsTogether
    <3>4. k = n
      BY <2>3, <2>4
    <3>5. k * limit \in Nat
      BY <1>1, <2>1
    <3> QED
      BY <1>6, <2>2, <3>3, <3>4, <3>5
  <2>5. CASE ~ (n < N)
    <3>1. k = N
      BY <2>3, <2>5
    <3> DEFINE f == [i \in 1 .. k |-> partition[i][1]]
    <3>2. ASSUME NEW i \in 1 .. k
          PROVE  f[i] \in 1 .. N /\ f[i] \in Elems(partition[i])
      <4>1. partition[i] \in Seq(1 .. N) /\ partition[i] # <<>>
        BY <1>1
      <4>a. ASSUME NEW y \in Seq(1 .. N), y # <<>>
            PROVE  1 \in DOMAIN y /\ y[1] \in 1 .. N
        BY <1>1, <4>a
      <4>2. 1 \in DOMAIN partition[i] /\ partition[i][1] \in 1 .. N
        BY <4>1, <4>a
      <4>3. partition[i][1] \in Elems(partition[i])
        BY <4>2 DEF Elems
      <4> QED
        BY <4>2, <4>3
    <3>3. f \in [1 .. k -> 1 .. N]
      <4>1. f = [i \in 1 .. k |-> f[i]]
        OBVIOUS
      <4> HIDE DEF f
      <4> QED
        BY <3>2, <4>1
    <3> HIDE DEF f
    <3>4. \A i, h \in 1 .. k : f[i] = f[h] => i = h
      BY <1>1, <3>2
    <3>5. f \in Injection(1 .. k, 1 .. N)
      BY <3>3, <3>4 DEF Injection, IsInjective
    <3>6. /\ IsFiniteSet(1 .. N) /\ Cardinality(1 .. N) = N /\ Cardinality(1 .. k) = k
      BY <1>1, Interval
    <3>7. Cardinality(1 .. k) = Cardinality(1 .. N) <=> f \in Surjection(1 .. k, 1 .. N)
      BY <3>5, <3>6, FS_Injection
    <3>8. f \in Surjection(1 .. k, 1 .. N)
      BY <3>1, <3>6, <3>7
    <3>9. Elems(partition[x]) = {f[x]}
      <4>1. ASSUME NEW r \in Elems(partition[x])
            PROVE  r = f[x]
        <5>1. r \in 1 .. N
          <6>1. partition[x] \in Seq(1 .. N)
            BY <1>1
          <6>2. PICK j \in DOMAIN partition[x] : r = partition[x][j]
            BY DEF Elems
          <6> QED
            BY <1>1, <6>1, <6>2, SMTT(60)
        <5>2. PICK h \in 1 .. k : f[h] = r
          BY <3>8, <5>1 DEF Surjection
        <5>3. h = x
          BY <1>1, <3>2, <5>2
        <5> QED
          BY <5>2, <5>3
      <4> QED
        BY <3>2, <4>1
    <3>10. W(x) = lens[f[x]]
      BY <1>1, <3>2, <3>9, WeightSingle DEF N
    <3>11. lens[f[x]] \in Nat /\ lens[f[x]] <= Longest
      BY <1>1, <1>2, <3>2
    <3> HIDE DEF W
    <3> QED
      BY <1>3, <1>7, <2>1, <3>10, <3>11
  <2> QED
    BY <2>4, <2>5
<1> QED
  <2>1. \A i, j \in 1 .. k : SumOf(partition[i]) - SumOf(partition[j]) <= Longest
    BY <1>4, <1>5
  <2> HIDE DEF W
  <2>2. \A limit \in Longest .. Total :
          k = NumMicroBatches(limit) => \A i \in 1 .. k : W(i) < limit + Longest
    BY <1>7
  <2>3. \A limit \in Longest .. Total :
          k = NumMicroBatches(limit) => \A i \in 1 .. k : SumOf(partition[i]) < limit + Longest
    BY <1>5, <2>2
  <2> QED
    BY <2>1, <2>3
-----------------------------------------------------------------------------
(* The balancing in the flow of a batch.                                   *)

\* The inductive invariant: a call that merges has a sound heap, and parts that
\* are returned hold all rows, within the bounds.
BalanceInv ==
    /\ InputOK
    /\ pc \in {"merging", "done", "skipped"}
    /\ pc = "merging" => HeapOK
    /\ pc = "done" => PartitionOK

LEMMA BalanceInvInit == FlowInit => BalanceInv
<1> SUFFICES ASSUME FlowInit
             PROVE  BalanceInv
  OBVIOUS
<1> USE BalancingAssumption
<1>1. CASE Init
  <2>1. k \in Nat \ {0} /\ equal \in BOOLEAN /\ (equal => Len(lens) % k = 0)
    BY <1>1 DEF Init
  <2>2. PICK n \in k .. MaxRows : lens \in [1 .. n -> 1 .. MaxLen]
    BY <1>1 DEF Init
  <2>3. n \in Nat /\ k <= n
    BY <2>1
  <2>4. lens \in Seq(Nat \ {0}) /\ Len(lens) = n
    BY <2>2, <2>3
  <2>5. InputOK
    BY <2>1, <2>3, <2>4 DEF InputOK
  <2>6. HeapOK
    BY <1>1, <2>5, InitialRounds, InitialRows DEF Init
  <2> QED
    BY <1>1, <2>5, <2>6 DEF Init, BalanceInv
<1>2. CASE \E n \in 1 .. MaxRows :
             /\ lens = [row \in 1 .. n |-> 1]
             /\ k = 1 /\ equal = FALSE /\ heap = {} /\ pc = "skipped" /\ partition = <<>>
             /\ DispatchInit([row \in 1 .. n |-> row], "ready")
  <2>1. PICK n \in 1 .. MaxRows : lens = [row \in 1 .. n |-> 1] /\ k = 1 /\ equal = FALSE /\ pc = "skipped"
    BY <1>2
  <2>2. lens \in Seq(Nat \ {0}) /\ Len(lens) = n /\ 1 <= n
    BY <2>1
  <2>a. ~ equal /\ equal \in BOOLEAN
    BY <2>1, Zenon
  <2>b. k = 1
    BY <2>1
  <2>c. k \in Nat \ {0} /\ k <= Len(lens)
    BY <2>2, <2>b
  <2>3. k \in Nat \ {0} /\ k <= Len(lens) /\ ~ equal /\ equal \in BOOLEAN
    BY <2>a, <2>c, Zenon
  <2>4. InputOK
    BY <2>2, <2>3, Zenon DEF InputOK
  <2> QED
    BY <2>1, <2>4 DEF BalanceInv
<1> QED
  BY <1>1, <1>2 DEF FlowInit

LEMMA InputSame ==
    ASSUME UNCHANGED input
    PROVE  /\ InputOK => InputOK'
           /\ HeapOK /\ heap' = heap => HeapOK'
           /\ HeapOf(heap') => HeapOK'
           /\ PartitionOK /\ partition' = partition => PartitionOK'
           /\ PartsOK(partition') => PartitionOK'
BY DEF input, InputOK, HeapOK, HeapOf, PartitionOK, PartsOK, Accepted, Bounds, SortedRows, Rows, Longest

LEMMA BalanceInvStep == BalanceInv /\ [FlowNext]_flowVars => BalanceInv'
<1> SUFFICES ASSUME BalanceInv, [FlowNext]_flowVars
             PROVE  BalanceInv'
  OBVIOUS
<1>1. InputOK
  BY DEF BalanceInv
<1>2. CASE UNCHANGED vars
  BY <1>2, InputSame DEF vars, BalanceInv
<1>3. CASE Merge
  <2>1. UNCHANGED input /\ HeapOf(heap) /\ Cardinality(heap) > 1 /\ pc = "merging" /\ pc' = pc
    BY <1>3 DEF Merge, BalanceInv, HeapOK
  <2>2. HeapOf(heap')
    <3> DEFINE st == First(heap)
               other == First(heap \ {st})
    <3>1. heap' = (heap \ {st, other}) \cup {Merged(st, other)}
      BY <1>3 DEF Merge
    <3>2. HeapOf((heap \ {st, other}) \cup {Merged(st, other)})
      BY <1>1, <2>1, MergedHeap
    <3> HIDE DEF st, other
    <3> QED
      BY <3>1, <3>2
  <2> QED
    BY <1>1, <2>1, <2>2, InputSame DEF BalanceInv
<1>4. CASE Return
  <2> DEFINE st == First(heap)
  <2>1. UNCHANGED input /\ HeapOf(heap) /\ Cardinality(heap) = 1
    BY <1>4 DEF Return, BalanceInv, HeapOK
  <2>2. StateOK(lens, k, st) /\ Held(st) = Rows /\ Near(lens, k, Bounds, st) /\ Accepted(st)
    BY <1>1, <2>1, LastState
  <2>3. pc' = "done" /\ partition' = [i \in 1 .. k |-> StableSort(st[i], st[i])]
    BY <1>4, <2>2 DEF Return
  <2> HIDE DEF st
  <2>4. PartsOK(partition')
    BY <1>1, <2>2, <2>3, ReturnedParts
  <2> QED
    BY <1>1, <2>1, <2>3, <2>4, InputSame DEF BalanceInv
<1> QED
  BY <1>2, <1>3, <1>4 DEF FlowNext, Balance, Next, Reorder, Call, flowVars

\* While states are merged the heap shares out the rows among sets that are as
\* full as they must be and near each other in tokens, and what is returned is
\* the last of them (seqlen_balancing.py:98-129, 149-190).
THEOREM BalanceInvariant == FlowSpec => []BalanceInv
<1>1. FlowInit => BalanceInv
  BY BalanceInvInit
<1>2. BalanceInv /\ [FlowNext]_flowVars => BalanceInv'
  BY BalanceInvStep
<1> QED
  BY <1>1, <1>2, PTL DEF FlowSpec

\* No legal call of get_seqlen_balanced_partitions trips the assertions on its
\* result, whatever the lengths of the rows and the number of parts.
THEOREM BalancingNeverRaises == FlowSpec => []NeverRaises
<1>1. BalanceInv => NeverRaises
  BY DEF BalanceInv, NeverRaises
<1> QED
  BY <1>1, BalanceInvariant, PTL

\* The order that the parts make has every row once, and get_reverse_idx puts
\* what was computed in it back.
THEOREM OrderIsRestored == FlowSpec => []RestoresOrder
<1>1. BalanceInv => RestoresOrder
  <2>1. BalanceInv /\ pc = "done" => InputOK /\ PartitionOK
    BY DEF BalanceInv
  <2> QED
    BY <2>1, Restored DEF RestoresOrder
<1> QED
  BY <1>1, BalanceInvariant, PTL

\* The ranks' loads, and the micro-batches', differ by no more than the rows of
\* one round, or than the longest row.
THEOREM LoadsAreBalanced == FlowSpec => []Balanced
<1>1. BalanceInv => Balanced
  <2> SUFFICES ASSUME BalanceInv, pc = "done"
               PROVE  Balanced
    BY DEF Balanced
  <2>1. InputOK /\ PartitionOK
    BY DEF BalanceInv
  <2>2. CASE equal
    BY <2>1, <2>2, EqualPartsBalanced DEF Balanced
  <2>3. CASE ~ equal
    BY <2>1, <2>3, UnequalPartsBalanced DEF Balanced
  <2> QED
    BY <2>2, <2>3
<1> QED
  BY <1>1, BalanceInvariant, PTL
-----------------------------------------------------------------------------
(* The dispatch.                                                           *)

GroupOK == group \in [megatron : BOOLEAN, tp : Sizes, cp : Sizes, dp : Sizes, pp : Sizes]

\* The chunk that rank r is given.
Piece(r) == IF group.megatron THEN RankInfo(group, r).dp ELSE r

\* Of Megatron's ranks one is collected for each data-parallel rank, in their
\* order; of the others all are.
LEMMA MegatronRanks ==
    ASSUME GroupOK, group.megatron
    PROVE  LET tp == group.tp
               cp == group.cp
               dp == group.dp
               pp == group.pp
           IN  /\ tp \in Nat \ {0} /\ cp \in Nat \ {0} /\ dp \in Nat \ {0} /\ pp \in Nat \ {0}
               /\ \A d \in 0 .. dp - 1 :
                    LET r == (tp * cp) * (dp * (pp - 1) + d)
                    IN  r \in RanksOf(group) /\ Collects(r) /\ Piece(r) = d
               /\ \A r \in RanksOf(group) :
                    Collects(r) => \E d \in 0 .. dp - 1 : r = (tp * cp) * (dp * (pp - 1) + d)
<1> DEFINE tp == group.tp
           cp == group.cp
           dp == group.dp
           pp == group.pp
           u == tp * cp
           W == tp * cp * dp * pp
<1>1. tp \in Nat \ {0} /\ cp \in Nat \ {0} /\ dp \in Nat \ {0} /\ pp \in Nat \ {0}
  BY DEF GroupOK, Sizes
<1>2. RanksOf(group) = 0 .. W - 1
  BY DEF RanksOf, WorldSize
<1>3. \A r : /\ RankInfo(group, r).tp = r % tp
             /\ RankInfo(group, r).cp = (r \div tp) % cp
             /\ RankInfo(group, r).dp = (r \div (tp * cp)) % dp
             /\ RankInfo(group, r).pp = r \div (tp * cp * dp)
  BY DEF RankInfo
<1>4. \A r : Collects(r) <=> /\ r % tp = 0 /\ r \div (tp * cp * dp) = pp - 1
                             /\ (r \div tp) % cp = 0
  BY <1>3 DEF Collects
<1>5. \A r : Piece(r) = (r \div (tp * cp)) % dp
  BY <1>3 DEF Piece
<1> HIDE DEF tp, cp, dp, pp
<1>6. u \in Nat \ {0} /\ pp - 1 \in Nat /\ u * dp \in Nat \ {0}
  BY <1>1
<1>7. W = u * (dp * pp) /\ tp * cp * dp = u * dp
  BY <1>1
<1>8. ASSUME NEW d \in 0 .. dp - 1
      PROVE  LET r == (tp * cp) * (dp * (pp - 1) + d)
             IN  r \in RanksOf(group) /\ Collects(r) /\ Piece(r) = d
  <2> DEFINE m == dp * (pp - 1) + d
             r == u * m
  <2>1. d \in Nat /\ d < dp /\ m \in Nat /\ r \in Nat
    BY <1>1, <1>6
  <2>2. m + 1 <= dp * pp
    <3>1. dp * pp = dp * (pp - 1) + dp
      BY <1>1
    <3>2. dp * (pp - 1) \in Nat
      BY <1>1, <1>6
    <3> QED
      BY <2>1, <3>1, <3>2, <1>1
  <2>3. r <= W - 1 /\ W \in Nat
    <3>1. \A a, b, c \in Nat : a # 0 /\ b + 1 <= c => a * b + 1 <= a * c
      OBVIOUS
    <3>2. dp * pp \in Nat /\ W \in Nat
      BY <1>1
    <3>3. u * m + 1 <= u * (dp * pp)
      BY <1>6, <2>1, <2>2, <3>1, <3>2
    <3> HIDE DEF u, m
    <3> QED
      BY <1>7, <2>1, <3>2, <3>3
  <2>4. r = tp * (cp * m) + 0 /\ cp * m \in Nat
    BY <1>1, <2>1
  <2>5. (r % tp) = 0 /\ r \div tp = cp * m
    <3>1. 0 < tp /\ 0 \in Nat
      BY <1>1
    <3> HIDE DEF r, m
    <3> QED
      BY <1>1, <2>1, <2>4, <3>1, Division
  <2>6. ((r \div tp) % cp) = 0
    <3>1. 0 < cp /\ 0 \in Nat /\ cp * m = cp * m + 0
      BY <1>1, <2>1
    <3> HIDE DEF r, m
    <3> QED
      BY <1>1, <2>1, <2>4, <2>5, <3>1, Division, ZenonT(60)
  <2>7. r \div u = m
    <3>1. 0 < u /\ 0 \in Nat /\ r = u * m + 0
      BY <1>1, <1>6, <2>1
    <3> HIDE DEF r, m, u
    <3> QED
      BY <1>6, <2>1, <3>1, Division
  <2>8. (m % dp) = d
    <3> HIDE DEF r
    <3> QED
      BY <1>1, <1>6, <2>1, Division
  <2>9. r \div (u * dp) = pp - 1
    <3>1. r = (u * dp) * (pp - 1) + u * d /\ u * d \in Nat
      BY <1>1, <1>6, <2>1
    <3>2. u * d < u * dp
      BY <1>1, <1>6, <2>1
    <3> HIDE DEF r, m
    <3> QED
      BY <1>1, <1>6, <2>1, <3>1, <3>2, Division
  <2>10. r \in RanksOf(group)
    <3> HIDE DEF r, W
    <3> QED
      BY <1>2, <2>1, <2>3
  <2>11. Collects(r)
    <3> HIDE DEF r, u
    <3> QED
      BY <1>4, <1>7, <2>5, <2>6, <2>9
  <2>12. Piece(r) = d
    <3> HIDE DEF r, m
    <3> QED
      BY <1>5, <2>7, <2>8
  <2> QED
    BY <2>10, <2>11, <2>12
<1>9. ASSUME NEW r \in RanksOf(group), Collects(r)
      PROVE  \E d \in 0 .. dp - 1 : r = (tp * cp) * (dp * (pp - 1) + d)
  <2> DEFINE x == r \div tp
             m == x \div cp
  <2>1. r \in Nat /\ (r % tp) = 0 /\ (x % cp) = 0 /\ r \div (u * dp) = pp - 1
    <3>1. r \in Nat
      BY <1>1, <1>2
    <3> QED
      BY <1>4, <1>7, <1>9, <3>1
  <2>2. x \in Nat /\ r = tp * x
    <3>1. x \in Nat /\ r = tp * (r \div tp) + (r % tp)
      BY <1>1, <2>1, DivisionExists
    <3>2. tp * x \in Nat
      BY <1>1, <3>1
    <3> QED
      BY <2>1, <3>1, <3>2
  <2> HIDE DEF x
  <2>3. m \in Nat /\ x = cp * m
    <3>1. m \in Nat /\ x = cp * (x \div cp) + (x % cp)
      BY <1>1, <2>2, DivisionExists
    <3>2. cp * m \in Nat
      BY <1>1, <3>1
    <3> QED
      BY <2>1, <3>1, <3>2
  <2> HIDE DEF m
  <2>4. r = u * m
    BY <1>1, <2>2, <2>3
  <2> DEFINE d == m % dp
             q == m \div dp
  <2>5. q \in Nat /\ d \in 0 .. dp - 1 /\ m = dp * q + d
    BY <1>1, <2>3, DivisionExists
  <2> HIDE DEF d, q
  <2>6. q = pp - 1
    <3>1. d \in Nat /\ d < dp
      BY <1>1, <2>5
    <3>2. r = (u * dp) * q + u * d /\ u * d \in Nat
      BY <1>1, <1>6, <2>4, <2>5, <3>1
    <3>3. u * d < u * dp
      BY <1>1, <1>6, <3>1
    <3> HIDE DEF u
    <3>4. r \div (u * dp) = q
      BY <1>6, <2>1, <2>5, <3>2, <3>3, Division
    <3> QED
      BY <2>1, <3>4
  <2> QED
    BY <2>4, <2>5, <2>6
<1> QED
  BY <1>1, <1>8, <1>9 DEF tp, cp, dp, pp

LEMMA GroupFacts ==
    ASSUME GroupOK
    PROVE  /\ NumChunks(group) \in Nat \ {0} /\ WorldSize(group) \in Nat \ {0}
           /\ \A n \in Nat : (n % WorldSize(group)) = 0 => (n % NumChunks(group)) = 0
           /\ ~ group.megatron => NumChunks(group) = WorldSize(group)
           /\ RanksOf(group) \in SUBSET Nat
           /\ \A r \in RanksOf(group) : Piece(r) \in 0 .. NumChunks(group) - 1
<1> DEFINE tp == group.tp
           cp == group.cp
           dp == group.dp
           pp == group.pp
           W == tp * cp * dp * pp
<1>1. tp \in Nat \ {0} /\ cp \in Nat \ {0} /\ dp \in Nat \ {0} /\ pp \in Nat \ {0}
  BY DEF GroupOK, Sizes
<1>2. WorldSize(group) = W /\ RanksOf(group) = 0 .. W - 1
  BY DEF WorldSize, RanksOf
<1>3. NumChunks(group) = IF group.megatron THEN dp ELSE W
  BY <1>2 DEF NumChunks
<1>4. \A r : Piece(r) = IF group.megatron THEN (r \div (tp * cp)) % dp ELSE r
  BY DEF Piece, RankInfo
<1> HIDE DEF tp, cp, dp, pp
<1>5. W \in Nat \ {0}
  BY <1>1
<1>6. \A n \in Nat : (n % W) = 0 => (n % dp) = 0
  <2>1. TAKE n \in Nat
  <2>2. SUFFICES ASSUME (n % W) = 0
                 PROVE  (n % dp) = 0
    OBVIOUS
  <2> DEFINE q == n \div W
  <2>3. q \in Nat /\ n = W * q
    <3>1. q \in Nat /\ n = W * (n \div W) + (n % W)
      BY <1>5, <2>1, DivisionExists
    <3>2. W * q \in Nat
      BY <1>5, <3>1
    <3> HIDE DEF W
    <3> QED
      BY <2>2, <3>1, <3>2
  <2> HIDE DEF q
  <2>4. n = dp * (tp * cp * pp * q) + 0 /\ tp * cp * pp * q \in Nat /\ 0 < dp /\ 0 \in Nat
    BY <1>1, <2>3
  <2> QED
    BY <1>1, <2>1, <2>4, Division
<1>7. ASSUME NEW r \in RanksOf(group)
      PROVE  r \in Nat /\ Piece(r) \in 0 .. NumChunks(group) - 1
  <2>1. r \in 0 .. W - 1 /\ r \in Nat
    BY <1>2, <1>5
  <2>2. (r \div (tp * cp)) \in Nat
    BY <1>1, <2>1, DivisionExists
  <2>3. (r \div (tp * cp)) % dp \in 0 .. dp - 1
    BY <1>1, <2>2, DivisionExists
  <2> HIDE DEF W
  <2> QED
    BY <1>3, <1>4, <2>1, <2>3
<1> HIDE DEF W
<1>8. NumChunks(group) \in Nat \ {0} /\ (~ group.megatron => NumChunks(group) = W)
  BY <1>1, <1>3, <1>5
<1>9. \A n \in Nat : (n % W) = 0 => (n % NumChunks(group)) = 0
  BY <1>3, <1>6
<1>10. RanksOf(group) \in SUBSET Nat
  BY <1>7
<1> QED
  BY <1>2, <1>5, <1>7, <1>8, <1>9, <1>10

\* The ranks that are collected had the chunks in their order, each once.
LEMMA CollectedRanks ==
    ASSUME GroupOK
    PROVE  LET from == { r \in RanksOf(group) : Collects(r) }
               collected == Ordered(from, LessThan(from))
           IN  /\ collected \in [1 .. NumChunks(group) -> RanksOf(group)]
               /\ \A i \in 1 .. NumChunks(group) : Piece(collected[i]) = i - 1
<1> DEFINE from == { r \in RanksOf(group) : Collects(r) }
           c == NumChunks(group)
           R == LessThan(from)
           Place(d) == IF group.megatron
                       THEN (group.tp * group.cp) * (group.dp * (group.pp - 1) + d) ELSE d
           g == [i \in 1 .. c |-> Place(i - 1)]
<1>1. c \in Nat \ {0} /\ from \in SUBSET Int
  BY GroupFacts
<1>2. /\ \A d \in 0 .. c - 1 : Place(d) \in from /\ Piece(Place(d)) = d
      /\ \A r \in from : \E d \in 0 .. c - 1 : r = Place(d)
  <2>1. CASE group.megatron
    <3>1. c = group.dp
      BY <2>1 DEF NumChunks
    <3> QED
      BY <2>1, <3>1, MegatronRanks
  <2>2. CASE ~ group.megatron
    <3>1. from = RanksOf(group) /\ RanksOf(group) = 0 .. c - 1
      BY <2>2 DEF Collects, RanksOf, NumChunks
    <3>2. \A d : Place(d) = d /\ Piece(d) = d
      BY <2>2 DEF Piece
    <3> HIDE DEF from, c, Place
    <3> QED
      BY <3>1, <3>2
  <2> QED
    BY <2>1, <2>2
<1>3. \A d, e \in 0 .. c - 1 : d < e => Place(d) < Place(e)
  <2>1. CASE group.megatron
    <3>1. group.tp * group.cp \in Nat \ {0} /\ group.dp * (group.pp - 1) \in Nat
      BY DEF GroupOK, Sizes
    <3>2. \A a \in Nat \ {0}, b, d, e \in Nat : d < e => a * (b + d) < a * (b + e)
      OBVIOUS
    <3> HIDE DEF c
    <3> QED
      BY <1>1, <2>1, <3>1, <3>2
  <2>2. CASE ~ group.megatron
    BY <2>2
  <2> QED
    BY <2>1, <2>2
<1> HIDE DEF from, c, Place
<1>4. g \in [1 .. c -> from] /\ \A i \in 1 .. c : g[i] = Place(i - 1) /\ i - 1 \in 0 .. c - 1
  <2>1. \A i \in 1 .. c : i - 1 \in 0 .. c - 1
    BY <1>1
  <2>2. \A i \in 1 .. c : Place(i - 1) \in from
    BY <1>2, <2>1
  <2> QED
    BY <2>1, <2>2
<1> HIDE DEF g
<1>5. \A x \in from : \E n \in 1 .. c : g[n] = x
  <2>1. TAKE x \in from
  <2>2. PICK d \in 0 .. c - 1 : x = Place(d)
    BY <1>2
  <2>3. d + 1 \in 1 .. c /\ (d + 1) - 1 = d
    BY <1>1
  <2>4. g[d + 1] = x
    BY <1>4, <2>2, <2>3
  <2> QED
    BY <2>3, <2>4
<1>6. \A m, n \in 1 .. c : m < n => <<g[m], g[n]>> \in R
  <2>1. TAKE m, n \in 1 .. c
  <2>2. SUFFICES ASSUME m < n
                 PROVE  <<g[m], g[n]>> \in R
    OBVIOUS
  <2>3. m - 1 < n - 1 /\ m - 1 \in 0 .. c - 1 /\ n - 1 \in 0 .. c - 1
    BY <1>1, <2>2
  <2>4. g[m] < g[n] /\ g[m] \in from /\ g[n] \in from
    BY <1>3, <1>4, <2>3
  <2> QED
    BY <2>4 DEF LessThan
<1>7. OrdersStrictly(from, R)
  BY <1>1, LessThanOrders
<1>8. Ordered(from, R) = g
  <2> HIDE DEF R
  <2>1. /\ OrdersStrictly(from, R) /\ c \in Nat /\ g \in [1 .. c -> from]
        /\ \A x \in from : \E n \in 1 .. c : g[n] = x
        /\ \A m, n \in 1 .. c : m < n => <<g[m], g[n]>> \in R
    BY <1>1, <1>4, <1>5, <1>6, <1>7
  <2> QED
    BY <2>1, OrderedUnique
<1>9. g \in [1 .. c -> RanksOf(group)]
  <2>1. from \subseteq RanksOf(group)
    BY DEF from
  <2> QED
    BY <1>4, <2>1
<1>10. \A i \in 1 .. c : Piece(g[i]) = i - 1
  BY <1>2, <1>4
<1> QED
  BY <1>8, <1>9, <1>10 DEF from, c

\* A batch that is cut into c pieces of s rows, but the last, which may have
\* fewer, though one at least.
CutInto(batch, c, s) ==
    /\ s \in Nat /\ s = ChunkSize(Len(batch), c)
    /\ (c - 1) * s < Len(batch) /\ Len(batch) <= c * s

\* The piece that begins after b rows.
LEMMA CutPiece ==
    ASSUME NEW T, NEW batch \in Seq(T), NEW c \in Nat \ {0}, NEW s, CutInto(batch, c, s),
           NEW i \in 0 .. c - 1, NEW b, b = i * s
    PROVE  /\ b \in Nat /\ b < Len(batch)
           /\ ChunkOf(batch, c, i) \in Seq(T)
           /\ Len(ChunkOf(batch, c, i)) = IF b + s <= Len(batch) THEN s ELSE Len(batch) - b
           /\ \A j \in 1 .. Len(ChunkOf(batch, c, i)) : ChunkOf(batch, c, i)[j] = batch[b + j]
<1> DEFINE n == Len(batch)
           e == (i + 1) * s
           hi == IF b + s <= n THEN b + s ELSE n
           q == ChunkOf(batch, c, i)
<1>1. n \in Nat /\ s \in Nat /\ i \in Nat /\ i <= c - 1 /\ c - 1 \in Nat
  BY DEF CutInto
<1>2. ChunkSize(n, c) = s /\ (c - 1) * s < n
  BY DEF CutInto
<1>3. b \in Nat /\ e = b + s /\ b < n
  <2>1. b \in Nat /\ e = b + s
    BY <1>1
  <2>2. i * s <= (c - 1) * s /\ (c - 1) * s \in Nat
    BY <1>1
  <2> HIDE DEF n, e
  <2> QED
    BY <1>1, <1>2, <2>1, <2>2
<1>4. q = SubSeq(batch, b + 1, hi)
  <2>1. q = SubSeq(batch, b + 1, IF e < n THEN e ELSE n)
    <3>1. i * s + 1 = b + 1
      OBVIOUS
    <3> QED
      BY <1>2, <3>1 DEF ChunkOf
  <2>2. (IF e < n THEN e ELSE n) = hi
    <3> HIDE DEF e, n
    <3> QED
      BY <1>1, <1>3
  <2> HIDE DEF q, e, n, hi
  <2> QED
    BY <2>1, <2>2
<1>5. /\ hi \in Nat /\ b <= hi /\ hi <= n
      /\ hi - b = IF b + s <= n THEN s ELSE n - b
  <2> HIDE DEF n, e
  <2> QED
    BY <1>1, <1>3
<1>6. \A j \in b + 1 .. hi : batch[j] \in T
  <2>1. \A j \in b + 1 .. hi : j \in 1 .. n
    <3> HIDE DEF n, hi
    <3> QED
      BY <1>1, <1>3, <1>5
  <2> QED
    BY <2>1
<1> HIDE DEF e, hi
<1> DEFINE lo == b + 1
<1>7. /\ lo \in Int /\ hi \in Int /\ hi - lo + 1 = hi - b
      /\ (IF lo <= hi THEN hi - lo + 1 ELSE 0) = hi - b
      /\ \A j \in 1 .. hi - b : lo + j - 1 = b + j
  <2> HIDE DEF n
  <2> QED
    BY <1>1, <1>3, <1>5
<1>8. q = SubSeq(batch, lo, hi) /\ \A j \in lo .. hi : batch[j] \in T
  BY <1>4, <1>6
<1> HIDE DEF lo, n
<1>9. /\ SubSeq(batch, lo, hi) \in Seq(T)
      /\ Len(SubSeq(batch, lo, hi)) = IF lo <= hi THEN hi - lo + 1 ELSE 0
      /\ \A j \in 1 .. hi - lo + 1 : SubSeq(batch, lo, hi)[j] = batch[lo + j - 1]
  BY <1>7, <1>8, SubSeqProperties
<1> HIDE DEF q
<1>10. q \in Seq(T) /\ Len(q) = hi - b /\ \A j \in 1 .. Len(q) : q[j] = batch[b + j]
  BY <1>7, <1>8, <1>9
<1> QED
  BY <1>3, <1>5, <1>10 DEF q, n

\* The same, as one fact to be instantiated.
IsPiece(T, batch, c, s, i, b) ==
    /\ b \in Nat /\ b < Len(batch)
    /\ ChunkOf(batch, c, i) \in Seq(T)
    /\ Len(ChunkOf(batch, c, i)) = IF b + s <= Len(batch) THEN s ELSE Len(batch) - b
    /\ \A j \in 1 .. Len(ChunkOf(batch, c, i)) : ChunkOf(batch, c, i)[j] = batch[b + j]

LEMMA Pieces ==
    ASSUME NEW T, NEW batch \in Seq(T), NEW c \in Nat \ {0}, NEW s, CutInto(batch, c, s),
           NEW i \in 0 .. c - 1
    PROVE  IsPiece(T, batch, c, s, i, i * s)
<1> PICK b : b = i * s
  OBVIOUS
<1>1. IsPiece(T, batch, c, s, i, b)
  BY CutPiece DEF IsPiece
<1> QED
  BY <1>1

\* The pieces, one after the other, are the batch.
LEMMA CutAndJoined ==
    ASSUME NEW T, NEW batch \in Seq(T), NEW c \in Nat \ {0}, NEW s, CutInto(batch, c, s)
    PROVE  FlattenSeq([i \in 1 .. c |-> ChunkOf(batch, c, i - 1)]) = batch
<1> DEFINE qs == [i \in 1 .. c |-> ChunkOf(batch, c, i - 1)]
           n == Len(batch)
<1>0. /\ \A i \in 1 .. c : qs[i] = ChunkOf(batch, c, i - 1)
      /\ qs = [i \in 1 .. c |-> qs[i]]
  OBVIOUS
<1>n. n \in Nat /\ s \in Nat /\ (c - 1) * s < n /\ c - 1 \in Nat /\ n <= c * s
  BY DEF CutInto
<1> HIDE DEF qs
<1>1. ASSUME NEW i \in 1 .. c
      PROVE  /\ qs[i] \in Seq(T)
             /\ Len(qs[i]) = IF (i - 1) * s + s <= n THEN s ELSE n - (i - 1) * s
             /\ \A j \in 1 .. Len(qs[i]) : qs[i][j] = batch[(i - 1) * s + j]
  <2> DEFINE h == i - 1
  <2>1. h \in 0 .. c - 1 /\ qs[i] = ChunkOf(batch, c, h)
    BY <1>0
  <2> HIDE DEF h
  <2>2. IsPiece(T, batch, c, s, h, h * s)
    BY <2>1, Pieces
  <2>3. /\ qs[i] \in Seq(T)
        /\ Len(qs[i]) = IF h * s + s <= n THEN s ELSE n - h * s
        /\ \A j \in 1 .. Len(qs[i]) : qs[i][j] = batch[h * s + j]
    BY <2>1, <2>2 DEF IsPiece
  <2> QED
    BY <2>3 DEF h
<1>2. qs \in Seq(Seq(T)) /\ Len(qs) = c
  BY <1>0, <1>1
<1>3. PICK off : Offsets(off, qs)
  BY <1>2, OffsetsExist
<1> DEFINE m == c - 1
<1>4. \A i \in 0 .. m : off[i] = i * s
  <2>1. ASSUME NEW i \in 1 .. m PROVE Len(qs[i]) = s
    <3>1. i \in 1 .. c /\ i \in Nat /\ i <= m
      BY <1>n
    <3>2. (i - 1) * s + s = i * s /\ i * s <= m * s /\ i * s \in Nat /\ m * s \in Nat
      BY <1>n, <3>1
    <3>3. (i - 1) * s + s <= n
      <4> HIDE DEF n
      <4> QED
        BY <1>n, <3>2
    <3> QED
      BY <1>1, <3>1, <3>3
  <2>2. qs \in Seq(Seq(T)) /\ Offsets(off, qs) /\ s \in Nat /\ m \in 0 .. Len(qs)
    BY <1>n, <1>2, <1>3
  <2> HIDE DEF m
  <2>3. OneLength(qs, m, s)
    BY <2>1 DEF OneLength
  <2>4. Multiples(off, m, s)
    BY <2>2, <2>3, OffsetsEqual
  <2> QED
    BY <2>4 DEF Multiples
<1> DEFINE f == FlattenSeq(qs)
<1>5. /\ f \in Seq(T) /\ Len(f) = off[Len(qs)]
      /\ \A i \in 1 .. Len(qs) : \A j \in 1 .. Len(qs[i]) :
           /\ off[i - 1] + j \in 1 .. Len(f)
           /\ f[off[i - 1] + j] = qs[i][j]
      /\ \A x \in 1 .. Len(f) :
           \E i \in 1 .. Len(qs) : \E j \in 1 .. Len(qs[i]) : x = off[i - 1] + j
  <2>1. qs \in Seq(Seq(T)) /\ Offsets(off, qs)
    BY <1>2, <1>3
  <2>2. f \in Seq(T) /\ Len(f) = off[Len(qs)]
    BY <2>1, FlattenProperties
  <2>3. \A i \in 1 .. Len(qs) : \A j \in 1 .. Len(qs[i]) :
          /\ off[i - 1] + j \in 1 .. Len(f)
          /\ f[off[i - 1] + j] = qs[i][j]
    BY <2>1, FlattenProperties
  <2>4. \A x \in 1 .. Len(f) :
          \E i \in 1 .. Len(qs) : \E j \in 1 .. Len(qs[i]) : x = off[i - 1] + j
    <3> HIDE DEF f
    <3>1. TAKE x \in 1 .. Len(f)
    <3>2. x \in 1 .. off[Len(qs)]
      BY <2>2
    <3> QED
      BY <2>1, <3>2, OffsetsCover
  <2> QED
    BY <2>2, <2>3, <2>4
<1> HIDE DEF f
<1>6. Len(f) = n
  <2>1. off[c] = off[c - 1] + Len(qs[c])
    <3>1. c \in 1 .. Len(qs)
      BY <1>2
    <3> QED
      BY <1>3, <3>1 DEF Offsets
  <2>2. off[c - 1] = m * s
    <3>1. m \in 0 .. m
      BY <1>n
    <3> QED
      BY <1>4, <3>1
  <2>3. Len(qs[c]) = IF m * s + s <= n THEN s ELSE n - m * s
    BY <1>1
  <2>4. m * s + s = c * s /\ m * s \in Nat
    BY <1>n
  <2>5. Len(f) = off[c]
    BY <1>2, <1>5
  <2> HIDE DEF n, m
  <2> QED
    BY <1>n, <2>1, <2>2, <2>3, <2>4, <2>5
<1>7. ASSUME NEW x \in 1 .. Len(f)
      PROVE  f[x] = batch[x]
  <2>1. PICK i \in 1 .. c : \E j \in 1 .. Len(qs[i]) : x = off[i - 1] + j
    BY <1>2, <1>5
  <2>2. PICK j \in 1 .. Len(qs[i]) : x = off[i - 1] + j
    BY <2>1
  <2>3. f[x] = qs[i][j]
    BY <1>2, <1>5, <2>2
  <2>4. off[i - 1] = (i - 1) * s
    <3>1. i - 1 \in 0 .. m
      BY <1>n
    <3> QED
      BY <1>4, <3>1
  <2>5. qs[i][j] = batch[x]
    BY <1>1, <2>2, <2>4
  <2> QED
    BY <2>3, <2>5
<1>9. f \in Seq(T) /\ batch \in Seq(T)
  BY <1>5
<1>10. f = batch
  BY <1>6, <1>7, <1>9
<1> QED
  BY <1>10 DEF f, qs

\* What the call in progress has sent, and what it takes off again.
Sends(batch, s) ==
    /\ batch \in Seq(Nat) /\ CutInto(batch, NumChunks(group), s)
    /\ asked.how # "uneven" => Len(batch) = NumChunks(group) * s
    /\ share = [r \in RanksOf(group) |-> ChunkOf(batch, NumChunks(group), Piece(r))]
    /\ Without(Without(batch, strip.dispatch), strip.driver) = asked.rows

\* The inductive invariant of the dispatch: a call that was not made with
\* auto-padded keyword arguments has sent pieces of a batch that, without its
\* padding, is the driver's, equal ones unless a Megatron group was called with
\* padding enabled, and the ranks answer with what they were given.
DispatchInv ==
    /\ GroupOK
    /\ rows \in Seq(Nat) /\ (stage # "wait" => rows # <<>>)
    /\ asked.how # "keyword" =>
         /\ stage = "called" => /\ \E batch, s : Sends(batch, s)
                                /\ \A r \in DOMAIN answer : answer[r] = share[r]
         /\ stage = "back" => out = asked.rows
         /\ stage = "raised" =>
              \/ asked.how = "plain" /\ Len(rows) % NumChunks(group) # 0
              \/ /\ asked.how = "uneven"
                 /\ (NumChunks(group) - 1) * ChunkSize(Len(rows), NumChunks(group)) >= Len(rows)

LEMMA WithoutNothing ==
    ASSUME NEW batch \in Seq(Nat)
    PROVE  Without(batch, 0) = batch
<1>1. Len(batch) - 0 = Len(batch)
  OBVIOUS
<1>2. Without(batch, 0) = SubSeq(batch, 1, Len(batch))
  BY <1>1 DEF Without
<1> QED
  BY <1>2, SubSeqFull

\* A batch of n rows and m more, without the m more.
LEMMA WithoutPadding ==
    ASSUME NEW batch \in Seq(Nat), NEW padded \in Seq(Nat), NEW m \in Nat,
           Len(padded) = Len(batch) + m, \A i \in 1 .. Len(batch) : padded[i] = batch[i]
    PROVE  Without(padded, m) = batch
<1> DEFINE n == Len(batch)
           q == SubSeq(padded, 1, n)
<1>1. n \in Nat /\ n \in Int /\ 1 \in Int /\ Len(padded) - m = n
  OBVIOUS
<1>2. Without(padded, m) = q
  BY <1>1 DEF Without
<1> HIDE DEF n
<1>3. \A i \in 1 .. n : padded[i] \in Nat
  <2>1. \A i \in 1 .. n : batch[i] \in Nat
    BY DEF n
  <2> QED
    BY <2>1 DEF n
<1>4. /\ q \in Seq(Nat)
      /\ Len(q) = IF 1 <= n THEN n - 1 + 1 ELSE 0
      /\ \A i \in 1 .. n - 1 + 1 : q[i] = padded[1 + i - 1]
  BY <1>1, <1>3, SubSeqProperties
<1> HIDE DEF q
<1>5. Len(q) = n /\ \A i \in 1 .. n : q[i] = padded[i]
  BY <1>1, <1>4
<1>6. q = batch
  <2>1. batch \in Seq(Nat) /\ Len(batch) = n /\ \A i \in 1 .. n : q[i] = batch[i]
    BY <1>5 DEF n
  <2>2. q \in Seq(Nat) /\ Len(q) = n
    BY <1>4, <1>5
  <2> HIDE DEF n
  <2> QED
    BY <2>1, <2>2
<1> QED
  BY <1>2, <1>6

LEMMA PadSizeFacts ==
    ASSUME NEW n \in Nat, NEW w \in Nat \ {0}
    PROVE  PadSize(n, w) \in Nat /\ ((n + PadSize(n, w)) % w) = 0
<1> DEFINE q == n \div w
           r == n % w
<1>1. q \in Nat /\ r \in 0 .. w - 1 /\ n = w * q + r
  BY DivisionExists
<1> HIDE DEF q, r
<1>2. CASE r = 0
  <2>1. PadSize(n, w) = 0
    BY <1>2 DEF PadSize, r
  <2>2. (n % w) = 0
    BY <1>2 DEF r
  <2> QED
    BY <2>1, <2>2
<1>3. CASE r # 0
  <2> DEFINE p == PadSize(n, w)
  <2>1. p = w - r
    BY <1>3 DEF PadSize, r
  <2> HIDE DEF p
  <2>2. p \in Nat
    BY <1>1, <2>1
  <2>3. n + p = w * q + w
    <3>1. w * q \in Nat
      BY <1>1
    <3> QED
      BY <1>1, <2>1, <3>1
  <2>4. n + p \in Nat /\ q + 1 \in Nat /\ 0 \in Nat /\ 0 < w
    BY <1>1, <2>2
  <2>5. n + p = w * (q + 1) + 0
    BY <1>1, <2>3
  <2>6. ((n + p) % w) = 0
    <3> DEFINE x == n + p
    <3>1. x \in Nat /\ x = w * (q + 1) + 0
      BY <2>4, <2>5
    <3> HIDE DEF x
    <3>2. (x % w) = 0
      BY <2>4, <3>1, Division
    <3> QED
      BY <3>2 DEF x
  <2> QED
    BY <2>2, <2>6 DEF p
<1> QED
  BY <1>2, <1>3

\* The driver's padding: the result divides, and starts with the batch.
LEMMA DriverPadding ==
    ASSUME NEW batch \in Seq(Nat), batch # <<>>, NEW w \in Nat \ {0}
    PROVE  /\ PaddedToDivisor(batch, w) \in Seq(Nat) /\ PaddedToDivisor(batch, w) # <<>>
           /\ (Len(PaddedToDivisor(batch, w)) % w) = 0
           /\ Without(PaddedToDivisor(batch, w), PadSize(Len(batch), w)) = batch
<1> DEFINE n == Len(batch)
           m == PadSize(n, w)
           p == PaddedToDivisor(batch, w)
<1>1. n \in Nat \ {0} /\ \A i \in 1 .. n : batch[i] \in Nat
  OBVIOUS
<1>2. m \in Nat /\ ((n + m) % w) = 0
  BY <1>1, PadSizeFacts
<1>3. p = [i \in 1 .. n + m |-> batch[((i - 1) % n) + 1]]
  BY DEF PaddedToDivisor
<1> HIDE DEF n, m, p
<1>4. \A i \in 1 .. n + m : batch[((i - 1) % n) + 1] \in Nat
  <2>1. TAKE i \in 1 .. n + m
  <2> DEFINE h == i - 1
  <2>2. h \in Nat
    BY <1>1, <1>2
  <2> HIDE DEF h
  <2>3. (h % n) \in 0 .. n - 1
    BY <1>1, <2>2, DivisionExists
  <2>4. (h % n) + 1 \in 1 .. n
    BY <1>1, <2>3
  <2> QED
    BY <1>1, <2>4 DEF h
<1>5. p \in Seq(Nat) /\ Len(p) = n + m
  BY <1>1, <1>2, <1>3, <1>4
<1>6. \A i \in 1 .. n : p[i] = batch[i]
  <2>1. TAKE i \in 1 .. n
  <2> DEFINE h == i - 1
  <2>2. h \in Nat /\ h < n /\ h = n * 0 + h /\ 0 \in Nat /\ h + 1 = i /\ i \in 1 .. n + m
    BY <1>1, <1>2
  <2> HIDE DEF h
  <2>3. (h % n) = h
    BY <1>1, <2>2, Division
  <2>4. p[i] = batch[(h % n) + 1]
    BY <1>3, <2>2 DEF h
  <2> QED
    BY <2>2, <2>3, <2>4
<1>7. Without(p, m) = batch
  <2>1. Len(p) = Len(batch) + m /\ \A i \in 1 .. Len(batch) : p[i] = batch[i]
    BY <1>5, <1>6 DEF n
  <2> QED
    BY <1>2, <1>5, <2>1, WithoutPadding
<1>8. p # <<>>
  BY <1>1, <1>2, <1>5
<1> QED
  BY <1>2, <1>5, <1>7, <1>8 DEF n, m, p

\* The dispatch's padding: the same.
LEMMA AutoPadding ==
    ASSUME NEW batch \in Seq(Nat), batch # <<>>, NEW w \in Nat \ {0}
    PROVE  LET m == PadSize(Len(batch), w)
               p == PaddedWithLast(batch, m)
           IN  /\ p \in Seq(Nat) /\ p # <<>> /\ (Len(p) % w) = 0 /\ Without(p, m) = batch
<1> DEFINE n == Len(batch)
           m == PadSize(n, w)
           tail == [i \in 1 .. m |-> Last(batch)]
           p == PaddedWithLast(batch, m)
<1>1. n \in Nat \ {0} /\ batch[n] \in Nat
  OBVIOUS
<1>2. m \in Nat /\ ((n + m) % w) = 0
  BY <1>1, PadSizeFacts
<1>3. p = batch \o tail
  BY DEF PaddedWithLast
<1>4. Last(batch) \in Nat
  BY <1>1 DEF Last
<1> HIDE DEF m, p, n
<1>5. tail \in Seq(Nat) /\ Len(tail) = m
  BY <1>2, <1>4
<1> HIDE DEF tail
<1>6. /\ p \in Seq(Nat) /\ Len(p) = n + m
      /\ \A i \in 1 .. n : p[i] = batch[i]
  <2>1. n = Len(batch)
    BY DEF n
  <2>2. /\ batch \o tail \in Seq(Nat) /\ Len(batch \o tail) = n + Len(tail)
        /\ \A i \in 1 .. n : (batch \o tail)[i] = batch[i]
    BY <1>5, <2>1, ConcatPlaces
  <2> QED
    BY <1>3, <1>5, <2>2
<1>7. Without(p, m) = batch
  <2>1. Len(p) = Len(batch) + m /\ \A i \in 1 .. Len(batch) : p[i] = batch[i]
    BY <1>6 DEF n
  <2> QED
    BY <1>2, <1>6, <2>1, WithoutPadding
<1>8. p # <<>>
  BY <1>1, <1>2, <1>6
<1> QED
  BY <1>2, <1>6, <1>7, <1>8 DEF n, m, p

\* A batch that divides is sent in equal pieces, the padding enabled or not.
LEMMA Divides ==
    ASSUME GroupOK, NEW batch \in Seq(Nat), batch # <<>>,
           (Len(batch) % NumChunks(group)) = 0, NEW padding \in BOOLEAN
    PROVE  /\ ~ ChunkRaises(Len(batch), NumChunks(group), padding)
           /\ \E s : CutInto(batch, NumChunks(group), s) /\ Len(batch) = NumChunks(group) * s
<1> DEFINE n == Len(batch)
           c == NumChunks(group)
           s == n \div c
<1>1. n \in Nat \ {0} /\ c \in Nat \ {0} /\ (n % c) = 0
  BY GroupFacts
<1> HIDE DEF n, c
<1>2. s \in Nat /\ n = c * s
  <2>1. s \in Nat /\ n = c * (n \div c) + (n % c)
    BY <1>1, DivisionExists
  <2>2. c * s \in Nat
    BY <1>1, <2>1
  <2> QED
    BY <1>1, <2>1, <2>2
<1> HIDE DEF s
<1>3. ChunkSize(n, c) = s
  <2>1. n + c - 1 = c * s + (c - 1) /\ c - 1 \in Nat /\ c - 1 < c /\ n + c - 1 \in Nat
    BY <1>1, <1>2
  <2>2. (n + c - 1) \div c = s
    BY <1>1, <1>2, <2>1, Division
  <2> QED
    BY <2>2 DEF ChunkSize
<1>4. (c - 1) * s < n /\ n <= c * s
  <2>1. s # 0
    BY <1>1, <1>2
  <2>2. c * s = (c - 1) * s + s /\ (c - 1) * s \in Nat
    BY <1>1, <1>2
  <2> QED
    BY <1>1, <1>2, <2>1, <2>2
<1>5. ~ ChunkRaises(n, c, padding)
  <2>1. (c - 1) * s \in Nat
    BY <1>1, <1>2
  <2> QED
    BY <1>1, <1>3, <1>4, <2>1 DEF ChunkRaises
<1>6. CutInto(batch, c, s)
  BY <1>2, <1>3, <1>4 DEF CutInto, n
<1> QED
  BY <1>2, <1>5, <1>6 DEF n, c

\* Where padding is enabled, a batch that does not raise leaves no piece empty.
LEMMA Reaches ==
    ASSUME GroupOK, NEW batch \in Seq(Nat), batch # <<>>,
           ~ ChunkRaises(Len(batch), NumChunks(group), TRUE)
    PROVE  \E s : CutInto(batch, NumChunks(group), s)
<1> DEFINE n == Len(batch)
           c == NumChunks(group)
           s == ChunkSize(n, c)
           x == n + c - 1
<1>1. n \in Nat \ {0} /\ c \in Nat \ {0}
  BY GroupFacts
<1>2. ~ ((c - 1) * s >= n)
  BY DEF ChunkRaises
<1> HIDE DEF n, c
<1>3. x \in Nat /\ x = n + c - 1
  BY <1>1
<1>4. s = x \div c
  BY DEF ChunkSize
<1> HIDE DEF s, x
<1>5. s \in Nat /\ (x % c) \in 0 .. c - 1 /\ x = c * s + (x % c)
  BY <1>1, <1>3, <1>4, DivisionExists
<1>6. c * s \in Nat /\ (c - 1) * s \in Nat
  BY <1>1, <1>5
<1>7. n <= c * s /\ (c - 1) * s < n
  BY <1>1, <1>2, <1>3, <1>5, <1>6
<1>8. CutInto(batch, c, s)
  BY <1>5, <1>7 DEF CutInto, s, n
<1> QED
  BY <1>8 DEF c

\* So a call goes out: a batch that can be cut into pieces, and into equal ones
\* unless it is a Megatron group's with padding enabled.
LEMMA SendsPieces ==
    ASSUME GroupOK, group' = group, NEW batch \in Seq(Nat), NEW padding \in BOOLEAN,
           NEW s, CutInto(batch, NumChunks(group), s),
           asked'.how # "uneven" => Len(batch) = NumChunks(group) * s,
           ~ ChunkRaises(Len(batch), NumChunks(group), padding), Send(batch, padding),
           Without(Without(batch, strip'.dispatch), strip'.driver) = asked'.rows
    PROVE  /\ stage' = "called"
           /\ (\E b, z : Sends(b, z))'
           /\ (\A r \in DOMAIN answer : answer[r] = share[r])'
<1>3. /\ stage' = "called" /\ answer' = [r \in {} |-> <<>>]
      /\ share' = [r \in RanksOf(group) |-> ChunkOf(batch, NumChunks(group), Piece(r))]
  BY DEF Send, Piece
<1>4. Sends(batch, s)'
  <2>1. share' = [r \in RanksOf(group') |-> ChunkOf(batch, NumChunks(group'), Piece(r)')]
    BY <1>3 DEF Piece
  <2>2. CutInto(batch, NumChunks(group'), s)
    OBVIOUS
  <2>3. asked'.how # "uneven" => Len(batch) = NumChunks(group') * s
    OBVIOUS
  <2> QED
    BY <2>1, <2>2, <2>3 DEF Sends
<1>5. (\A r \in DOMAIN answer : answer[r] = share[r])'
  BY <1>3
<1> QED
  BY <1>3, <1>4, <1>5

LEMMA SendsEqually ==
    ASSUME GroupOK, group' = group, NEW batch \in Seq(Nat), batch # <<>>,
           (Len(batch) % NumChunks(group)) = 0, NEW padding \in BOOLEAN, Send(batch, padding),
           Without(Without(batch, strip'.dispatch), strip'.driver) = asked'.rows
    PROVE  /\ stage' = "called"
           /\ (\E b, s : Sends(b, s))'
           /\ (\A r \in DOMAIN answer : answer[r] = share[r])'
<1>1. ~ ChunkRaises(Len(batch), NumChunks(group), padding)
  BY Divides
<1>2. PICK s : CutInto(batch, NumChunks(group), s) /\ Len(batch) = NumChunks(group) * s
  BY Divides
<1> QED
  BY <1>1, <1>2, SendsPieces

\* What is collected is the batch that was sent.
LEMMA CollectsBatch ==
    ASSUME GroupOK, NEW batch, NEW s, Sends(batch, s), DOMAIN answer = RanksOf(group),
           \A r \in DOMAIN answer : answer[r] = share[r]
    PROVE  LET from == { r \in RanksOf(group) : Collects(r) }
               collected == Ordered(from, LessThan(from))
           IN  FlattenSeq([i \in DOMAIN collected |-> answer[collected[i]]]) = batch
<1> DEFINE from == { r \in RanksOf(group) : Collects(r) }
           collected == Ordered(from, LessThan(from))
           c == NumChunks(group)
<1>1. /\ collected \in [1 .. c -> RanksOf(group)]
      /\ \A i \in 1 .. c : Piece(collected[i]) = i - 1
  BY CollectedRanks
<1>2. c \in Nat \ {0} /\ batch \in Seq(Nat) /\ CutInto(batch, c, s)
  BY GroupFacts DEF Sends
<1>3. \A r \in RanksOf(group) : answer[r] = ChunkOf(batch, c, Piece(r))
  BY DEF Sends
<1> HIDE DEF collected, c
<1>4. \A i \in 1 .. c : answer[collected[i]] = ChunkOf(batch, c, i - 1)
  BY <1>1, <1>3
<1>5. DOMAIN collected = 1 .. c
  BY <1>1
<1>6. [i \in DOMAIN collected |-> answer[collected[i]]] = [i \in 1 .. c |-> ChunkOf(batch, c, i - 1)]
  BY <1>4, <1>5
<1>7. FlattenSeq([i \in 1 .. c |-> ChunkOf(batch, c, i - 1)]) = batch
  BY <1>2, CutAndJoined
<1>8. FlattenSeq([i \in DOMAIN collected |-> answer[collected[i]]]) = batch
  BY <1>6, <1>7
<1> QED
  BY <1>8 DEF collected

LEMMA CallOK ==
    ASSUME DispatchInv, CallPlain \/ CallPadded \/ CallAuto \/ CallKeyword \/ CallUneven
    PROVE  DispatchInv'
<1>1. GroupOK /\ rows \in Seq(Nat)
  BY DEF DispatchInv
<1>2. stage = "ready" /\ rows # <<>> /\ group' = group /\ GroupOK'
  BY <1>1 DEF CallPlain, CallPadded, CallAuto, CallKeyword, CallUneven, Begin, DispatchInv,
     GroupOK
<1>3. /\ NumChunks(group) \in Nat \ {0} /\ WorldSize(group) \in Nat \ {0}
      /\ \A n \in Nat : (n % WorldSize(group)) = 0 => (n % NumChunks(group)) = 0
      /\ ~ group.megatron => NumChunks(group) = WorldSize(group)
  BY <1>1, GroupFacts
<1>4. CASE CallPlain
  <2>1. /\ rows' = rows /\ Send(rows, FALSE) /\ asked' = [how |-> "plain", rows |-> rows]
        /\ strip'.dispatch = 0 /\ strip'.driver = 0
    BY <1>4 DEF CallPlain, Begin
  <2>2. asked'.how = "plain" /\ asked'.rows = rows
    BY <2>1
  <2>3. CASE ChunkRaises(Len(rows), NumChunks(group), FALSE)
    <3>1. stage' = "raised" /\ Len(rows) % NumChunks(group) # 0
      BY <2>1, <2>3 DEF Send, ChunkRaises
    <3> QED
      BY <1>1, <1>2, <2>1, <2>2, <3>1 DEF DispatchInv
  <2>4. CASE ~ ChunkRaises(Len(rows), NumChunks(group), FALSE)
    <3>1. (Len(rows) % NumChunks(group)) = 0
      BY <2>4 DEF ChunkRaises
    <3>2. Without(Without(rows, strip'.dispatch), strip'.driver) = asked'.rows
      BY <1>1, <2>1, <2>2, WithoutNothing
    <3>3. /\ stage' = "called"
          /\ (\E b, s : Sends(b, s))'
          /\ (\A r \in DOMAIN answer : answer[r] = share[r])'
      BY <1>1, <1>2, <2>1, <3>1, <3>2, SendsEqually
    <3> QED
      BY <1>1, <1>2, <2>1, <3>3 DEF DispatchInv
  <2> QED
    BY <2>3, <2>4
<1>5. CASE CallPadded
  <2> DEFINE p == PaddedToDivisor(rows, WorldSize(group))
             m == PadSize(Len(rows), WorldSize(group))
  <2>1. /\ rows' = rows /\ Send(p, FALSE) /\ asked' = [how |-> "padded", rows |-> rows]
        /\ strip'.dispatch = 0 /\ strip'.driver = m
    BY <1>5 DEF CallPadded, Begin
  <2>2. p \in Seq(Nat) /\ p # <<>> /\ (Len(p) % WorldSize(group)) = 0 /\ Without(p, m) = rows
    BY <1>1, <1>2, <1>3, DriverPadding
  <2> HIDE DEF p, m
  <2>3. (Len(p) % NumChunks(group)) = 0
    <3>1. Len(p) \in Nat
      BY <2>2
    <3> QED
      BY <1>3, <2>2, <3>1
  <2>4. Without(Without(p, strip'.dispatch), strip'.driver) = asked'.rows
    BY <2>1, <2>2, WithoutNothing
  <2>5. /\ stage' = "called"
        /\ (\E b, s : Sends(b, s))'
        /\ (\A r \in DOMAIN answer : answer[r] = share[r])'
    BY <1>1, <1>2, <2>1, <2>2, <2>3, <2>4, SendsEqually
  <2> QED
    BY <1>1, <1>2, <2>1, <2>5 DEF DispatchInv
<1>6. CASE CallAuto
  <2> DEFINE m == PadSize(Len(rows), NumChunks(group))
             p == PaddedWithLast(rows, m)
  <2>1. /\ rows' = p /\ Send(rows', TRUE) /\ asked' = [how |-> "auto", rows |-> rows]
        /\ strip'.dispatch = m /\ strip'.driver = 0
    BY <1>6 DEF CallAuto, Begin
  <2>2. p \in Seq(Nat) /\ p # <<>> /\ (Len(p) % NumChunks(group)) = 0 /\ Without(p, m) = rows
    BY <1>1, <1>2, <1>3, AutoPadding
  <2> HIDE DEF p, m
  <2>3. Send(p, TRUE)
    BY <2>1
  <2>4. Without(Without(p, strip'.dispatch), strip'.driver) = asked'.rows
    BY <1>1, <2>1, <2>2, WithoutNothing
  <2>5. /\ stage' = "called"
        /\ (\E b, s : Sends(b, s))'
        /\ (\A r \in DOMAIN answer : answer[r] = share[r])'
    BY <1>1, <1>2, <2>2, <2>3, <2>4, SendsEqually
  <2>6. rows' \in Seq(Nat) /\ rows' # <<>>
    BY <2>1, <2>2
  <2> QED
    BY <1>2, <2>5, <2>6 DEF DispatchInv
<1>7. CASE CallKeyword
  <2>1. rows' = rows /\ asked'.how = "keyword"
    BY <1>7 DEF CallKeyword, Begin
  <2> QED
    BY <1>1, <1>2, <2>1 DEF DispatchInv
<1>8. CASE CallUneven
  <2>1. /\ rows' = rows /\ Send(rows, TRUE) /\ asked' = [how |-> "uneven", rows |-> rows]
        /\ strip'.dispatch = 0 /\ strip'.driver = 0
    BY <1>8 DEF CallUneven, Begin
  <2>2. asked'.how = "uneven" /\ asked'.rows = rows
    BY <2>1
  <2>3. CASE ChunkRaises(Len(rows), NumChunks(group), TRUE)
    <3>1. /\ stage' = "raised"
          /\ (NumChunks(group) - 1) * ChunkSize(Len(rows), NumChunks(group)) >= Len(rows)
      BY <2>1, <2>3 DEF Send, ChunkRaises
    <3> QED
      BY <1>1, <1>2, <2>1, <2>2, <3>1 DEF DispatchInv
  <2>4. CASE ~ ChunkRaises(Len(rows), NumChunks(group), TRUE)
    <3>1. PICK s : CutInto(rows, NumChunks(group), s)
      BY <1>1, <1>2, <2>4, Reaches
    <3>2. Without(Without(rows, strip'.dispatch), strip'.driver) = asked'.rows
      BY <1>1, <2>1, <2>2, WithoutNothing
    <3>3. /\ stage' = "called"
          /\ (\E b, z : Sends(b, z))'
          /\ (\A r \in DOMAIN answer : answer[r] = share[r])'
      BY <1>1, <1>2, <2>1, <2>2, <2>4, <3>1, <3>2, SendsPieces
    <3> QED
      BY <1>1, <1>2, <2>1, <3>3 DEF DispatchInv
  <2> QED
    BY <2>3, <2>4
<1> QED
  BY <1>4, <1>5, <1>6, <1>7, <1>8

\* While nothing but the stage or the answers changes, a call stays sound.
LEMMA SendsSame ==
    ASSUME UNCHANGED <<group, share, strip, asked>>, NEW batch, NEW s, Sends(batch, s)
    PROVE  Sends(batch, s)'
BY DEF Sends, Piece

LEMMA WorkOK ==
    ASSUME DispatchInv, NEW r \in RanksOf(group), Work(r)
    PROVE  DispatchInv'
<1>1. /\ stage = "called" /\ stage' = stage
      /\ UNCHANGED <<group, rows, share, strip, asked>>
      /\ answer' = [q \in DOMAIN answer \cup {r} |-> IF q = r THEN share[r] ELSE answer[q]]
  BY DEF Work
<1>2. GroupOK' /\ rows' \in Seq(Nat) /\ rows' # <<>>
  BY <1>1 DEF DispatchInv, GroupOK
<1>3. ASSUME asked.how # "keyword"
      PROVE  (\E b, s : Sends(b, s))' /\ (\A q \in DOMAIN answer : answer[q] = share[q])'
  <2>1. PICK b, s : Sends(b, s)
    BY <1>1, <1>3 DEF DispatchInv
  <2>2. Sends(b, s)'
    BY <1>1, <2>1, SendsSame
  <2>3. \A q \in DOMAIN answer : answer[q] = share[q]
    BY <1>1, <1>3 DEF DispatchInv
  <2>4. (\A q \in DOMAIN answer : answer[q] = share[q])'
    BY <1>1, <2>3
  <2> QED
    BY <2>2, <2>4
<1> QED
  BY <1>1, <1>2, <1>3 DEF DispatchInv

LEMMA CollectOK ==
    ASSUME DispatchInv, Collect
    PROVE  DispatchInv'
<1> DEFINE from == { r \in RanksOf(group) : Collects(r) }
           collected == Ordered(from, LessThan(from))
           all == FlattenSeq([i \in DOMAIN collected |-> answer[collected[i]]])
<1>1. /\ stage = "called" /\ stage' = "back" /\ DOMAIN answer = RanksOf(group)
      /\ UNCHANGED <<group, rows, asked>>
      /\ out' = Without(Without(all, strip.dispatch), strip.driver)
  BY DEF Collect
<1> HIDE DEF all
<1>2. GroupOK /\ GroupOK' /\ rows' \in Seq(Nat) /\ rows' # <<>>
  BY <1>1 DEF DispatchInv, GroupOK
<1>3. ASSUME asked.how # "keyword"
      PROVE  out' = asked'.rows
  <2>1. PICK b, s : Sends(b, s)
    BY <1>1, <1>3 DEF DispatchInv
  <2>2. \A r \in DOMAIN answer : answer[r] = share[r]
    BY <1>1, <1>3 DEF DispatchInv
  <2>3. all = b
    BY <1>1, <1>2, <2>1, <2>2, CollectsBatch DEF all
  <2>4. Without(Without(b, strip.dispatch), strip.driver) = asked.rows
    BY <2>1 DEF Sends
  <2> QED
    BY <1>1, <2>3, <2>4
<1> QED
  BY <1>1, <1>2, <1>3 DEF DispatchInv

LEMMA DispatchInvStep ==
    ASSUME BalanceInv, DispatchInv, [FlowNext]_flowVars
    PROVE  DispatchInv'
<1>1. CASE UNCHANGED dispatchVars
  <2>1. UNCHANGED <<group, rows, stage, share, answer, strip, asked, out>>
    BY <1>1 DEF dispatchVars
  <2>2. \A b, s : Sends(b, s) => Sends(b, s)'
    BY <2>1, SendsSame
  <2>3. (\E b, s : Sends(b, s)) => (\E b, s : Sends(b, s))'
    BY <2>2
  <2>4. GroupOK'
    BY <2>1 DEF DispatchInv, GroupOK
  <2> QED
    BY <2>1, <2>3, <2>4 DEF DispatchInv
<1>2. CASE Reorder
  <2>1. InputOK /\ PartitionOK
    BY <1>2 DEF Reorder, BalanceInv
  <2>2. rows' = Order /\ stage' = "ready" /\ group' = group
    BY <1>2 DEF Reorder
  <2>3. Len(lens) \in Nat \ {0} /\ Order \in Seq(1 .. Len(lens)) /\ Len(Order) = Len(lens)
    BY <2>1, PartitionFacts, OrderPermutes
  <2>4. Order \in Seq(Nat) /\ Order # <<>>
    <3> DEFINE N == Len(lens)
               q == Order
    <3>1. N \in Nat \ {0} /\ q \in Seq(1 .. N) /\ Len(q) = N
      BY <2>3
    <3> HIDE DEF N, q
    <3>2. q \in Seq(Nat) /\ q # <<>>
      BY <3>1
    <3> QED
      BY <3>2 DEF q
  <2>5. GroupOK'
    BY <2>2 DEF DispatchInv, GroupOK
  <2>6. rows' \in Seq(Nat) /\ rows' # <<>>
    BY <2>2, <2>4
  <2> QED
    BY <2>2, <2>5, <2>6 DEF DispatchInv
<1>3. CASE CallPlain \/ CallPadded \/ CallAuto \/ CallKeyword \/ CallUneven
  BY <1>3, CallOK
<1>4. CASE Collect
  BY <1>4, CollectOK
<1>5. CASE Take
  <2>1. stage = "back" /\ stage' = "ready" /\ UNCHANGED <<group, rows>>
    BY <1>5 DEF Take
  <2>2. GroupOK' /\ rows' \in Seq(Nat) /\ rows' # <<>>
    BY <2>1 DEF DispatchInv, GroupOK
  <2> QED
    BY <2>1, <2>2 DEF DispatchInv
<1>6. CASE \E r \in RanksOf(group) : Work(r)
  BY <1>6, WorkOK
<1> QED
  BY <1>1, <1>2, <1>3, <1>4, <1>5, <1>6
     DEF FlowNext, Balance, Call, DispatchStep, flowVars

LEMMA DispatchInvInit == FlowInit => DispatchInv
<1> USE DispatchAssumption
<1>1. ASSUME NEW batch \in Seq(Nat), NEW first, DispatchInit(batch, first),
             first = "wait" \/ (first = "ready" /\ batch # <<>>)
      PROVE  DispatchInv
  <2>1. /\ group \in Groups /\ rows = batch /\ stage = first
    BY <1>1 DEF DispatchInit
  <2>2. GroupOK
    BY <2>1 DEF GroupOK
  <2>3. stage # "called" /\ stage # "back" /\ stage # "raised"
    BY <1>1, <2>1
  <2> QED
    BY <1>1, <2>1, <2>2, <2>3 DEF DispatchInv
<1>2. ASSUME Init, DispatchInit(<<>>, "wait")
      PROVE  DispatchInv
  <2>1. <<>> \in Seq(Nat)
    OBVIOUS
  <2> QED
    BY <1>1, <1>2, <2>1
<1>3. ASSUME NEW n \in 1 .. MaxRows, DispatchInit([row \in 1 .. n |-> row], "ready")
      PROVE  DispatchInv
  <2> DEFINE q == [row \in 1 .. n |-> row]
  <2>1. MaxRows \in Nat
    BY BalancingAssumption
  <2>2. n \in Nat \ {0}
    BY <2>1
  <2>3. q \in Seq(Nat) /\ Len(q) = n
    BY <2>2
  <2> HIDE DEF q
  <2>4. q # <<>>
    BY <2>2, <2>3
  <2> QED
    BY <1>1, <1>3, <2>3, <2>4 DEF q
<1> QED
  BY <1>2, <1>3 DEF FlowInit

\* A call that is out has sent pieces of a batch that without its padding is the
\* driver's, equal ones unless a Megatron group was called with padding enabled,
\* and a rank answers to its own piece (decorator.py:77-250, protocol.py:70-102,
\* 674-728).
THEOREM DispatchInvariant == FlowSpec => [](BalanceInv /\ DispatchInv)
<1>1. FlowInit => BalanceInv /\ DispatchInv
  BY BalanceInvInit, DispatchInvInit
<1>2. BalanceInv /\ DispatchInv /\ [FlowNext]_flowVars => (BalanceInv /\ DispatchInv)'
  BY BalanceInvStep, DispatchInvStep
<1> QED
  BY <1>1, <1>2, PTL DEF FlowSpec

\* Each row comes back once and in its place, the ranks have equal shares, or, of
\* a Megatron group called with padding enabled, a row at least, and a call raises
\* only where a batch does not divide and nobody pads it, or leaves a rank of such
\* a group without a row, for groups of any shape and batches of any size.
THEOREM RowsReturned == FlowSpec => []RowsComeBack
<1>1. DispatchInv => RowsComeBack
  <2> DEFINE c == NumChunks(group)
  <2> SUFFICES ASSUME DispatchInv, asked.how # "keyword"
               PROVE  /\ stage = "back" => out = asked.rows
                      /\ stage = "called" => \A r, q \in RanksOf(group) :
                           IF asked.how = "uneven" THEN share[r] # <<>>
                                                   ELSE Len(share[r]) = Len(share[q])
                      /\ stage = "raised" =>
                           \/ asked.how = "plain" /\ Len(rows) % c # 0
                           \/ /\ asked.how = "uneven"
                              /\ (c - 1) * ChunkSize(Len(rows), c) >= Len(rows)
    BY DEF RowsComeBack
  <2>1. ASSUME stage = "called", NEW r \in RanksOf(group), NEW q \in RanksOf(group)
        PROVE  IF asked.how = "uneven" THEN share[r] # <<>> ELSE Len(share[r]) = Len(share[q])
    <3>1. PICK b, s : Sends(b, s)
      BY <2>1 DEF DispatchInv
    <3>2. /\ c \in Nat \ {0} /\ \A p \in RanksOf(group) : Piece(p) \in 0 .. c - 1
      BY GroupFacts DEF DispatchInv
    <3>3. /\ b \in Seq(Nat) /\ CutInto(b, c, s)
          /\ asked.how # "uneven" => Len(b) = c * s
          /\ \A p \in RanksOf(group) : share[p] = ChunkOf(b, c, Piece(p))
      BY <3>1 DEF Sends
    <3>4. s \in Nat /\ Len(b) \in Nat /\ Len(b) <= c * s /\ (c - 1) * s < Len(b)
      BY <3>3 DEF CutInto
    <3> HIDE DEF c
    <3>5. s # 0
      <4>1. (c - 1) * s \in Nat
        BY <3>2, <3>4
      <4>2. Len(b) # 0
        BY <3>4, <4>1
      <4> QED
        BY <3>2, <3>4, <4>2
    <3>6. ASSUME NEW i \in 0 .. c - 1
          PROVE  /\ ChunkOf(b, c, i) # <<>>
                 /\ Len(b) = c * s => Len(ChunkOf(b, c, i)) = s
      <4> PICK d : d = i * s
        OBVIOUS
      <4>1. /\ d \in Nat /\ d < Len(b)
            /\ Len(ChunkOf(b, c, i)) = IF d + s <= Len(b) THEN s ELSE Len(b) - d
        BY <3>2, <3>3, CutPiece
      <4>2. Len(ChunkOf(b, c, i)) # 0
        BY <3>4, <3>5, <4>1
      <4>3. d + s <= c * s
        <5>1. i + 1 <= c /\ i \in Nat
          BY <3>2
        <5>2. (i + 1) * s <= c * s
          BY <3>2, <3>4, <5>1
        <5>3. (i + 1) * s = d + s
          BY <3>4, <5>1
        <5> QED
          BY <5>2, <5>3
      <4> QED
        BY <4>1, <4>2, <4>3
    <3> QED
      BY <2>1, <3>2, <3>3, <3>6
  <2> QED
    BY <2>1 DEF DispatchInv
<1> QED
  BY <1>1, DispatchInvariant, PTL
=============================================================================
