----------------------------- MODULE SequenceLemmas -----------------------------
(***************************************************************************)
(* What the operators of SortedSeqs and FlattenSeq return, for any finite  *)
(* sets, orders and sequences: the facts that the proofs about the key     *)
(* steps, the balancing, the dispatch and the trainer have in common.      *)
(*                                                                         *)
(* Induction over the natural numbers goes through sets: a set of numbers  *)
(* that is not empty has a least element.                                  *)
(***************************************************************************)
EXTENDS SortedSeqs, SequencesExt, FiniteSetTheorems, FunctionTheorems,
        SequenceTheorems, WellFoundedInduction, TLAPS

LEMMA HasMinimum ==
    ASSUME NEW S \in SUBSET Nat, S # {}
    PROVE  \E m \in S : \A n \in S : m <= n
<1>1. PICK m \in S : \A n \in S : ~ (<<n, m>> \in OpToRel(<, Nat))
  BY WFMin, NatLessThanWellFounded, Zenon
<1>2. \A n \in S : ~ (n < m)
  BY <1>1, Zenon DEF OpToRel
<1> QED
  BY <1>2

\* A set of numbers that has 0 and, up to N, the successor of each of its
\* members has every number up to N.
LEMMA InductionUpTo ==
    ASSUME NEW N \in Nat, NEW S \in SUBSET Nat,
           0 \in S, \A n \in S : n < N => n + 1 \in S
    PROVE  0 .. N \subseteq S
<1> DEFINE missing == { n \in 0 .. N : n \notin S }
<1>1. SUFFICES ASSUME missing # {} PROVE FALSE
  OBVIOUS
<1>2. PICK m \in missing : \A n \in missing : m <= n
  <2>1. missing \in SUBSET Nat
    OBVIOUS
  <2> HIDE DEF missing
  <2> QED
    BY <1>1, <2>1, HasMinimum
<1>3. m # 0 /\ m \in 1 .. N
  OBVIOUS
<1>4. m - 1 \in S
  BY <1>2, <1>3
<1> QED
  BY <1>3, <1>4

LEMMA Interval ==
    ASSUME NEW n \in Nat
    PROVE  IsFiniteSet(1 .. n) /\ Cardinality(1 .. n) = n
BY FS_Interval
LEMMA Division ==
    ASSUME NEW a \in Nat, NEW b \in Nat \ {0}, NEW q \in Nat, NEW r \in Nat,
           r < b, a = b * q + r
    PROVE  a \div b = q /\ (a % b) = r
OBVIOUS

LEMMA DivisionExists ==
    ASSUME NEW a \in Nat, NEW b \in Nat \ {0}
    PROVE  /\ a \div b \in Nat /\ (a % b) \in 0 .. b - 1
           /\ a = b * (a \div b) + (a % b)
OBVIOUS
-----------------------------------------------------------------------------
(* Sets in order.                                                          *)

OrdersStrictly(S, R) ==
    /\ \A x \in S : <<x, x>> \notin R
    /\ \A x, y \in S : x # y => <<x, y>> \in R \/ <<y, x>> \in R
    /\ \A x, y, z \in S : <<x, y>> \in R /\ <<y, z>> \in R => <<x, z>> \in R

\* The elements of S before x, and their number.
Below(S, R, x) == { y \in S : <<y, x>> \in R }
PlaceIn(S, R, x) == Cardinality(Below(S, R, x))

LEMMA PlaceGrows ==
    ASSUME NEW S, IsFiniteSet(S), NEW R, OrdersStrictly(S, R),
           NEW x \in S, NEW y \in S, <<x, y>> \in R
    PROVE  PlaceIn(S, R, x) < PlaceIn(S, R, y)
<1>1. Below(S, R, x) \subseteq Below(S, R, y)
  BY DEF Below, OrdersStrictly
<1>2. x \in Below(S, R, y) /\ x \notin Below(S, R, x)
  BY DEF Below, OrdersStrictly
<1>3. IsFiniteSet(Below(S, R, y)) /\ IsFiniteSet(Below(S, R, x))
  BY FS_Subset DEF Below
<1>4. Cardinality(Below(S, R, x)) <= Cardinality(Below(S, R, y))
  BY <1>1, <1>3, FS_Subset
<1>5. Cardinality(Below(S, R, x)) # Cardinality(Below(S, R, y))
  BY <1>1, <1>2, <1>3, FS_Subset
<1>6. Cardinality(Below(S, R, x)) \in Nat /\ Cardinality(Below(S, R, y)) \in Nat
  BY <1>3, FS_CardinalityType
<1> QED
  BY <1>4, <1>5, <1>6 DEF PlaceIn

LEMMA PlaceBounds ==
    ASSUME NEW S, IsFiniteSet(S), NEW R, OrdersStrictly(S, R), NEW x \in S
    PROVE  PlaceIn(S, R, x) \in 0 .. Cardinality(S) - 1
<1>1. Below(S, R, x) \subseteq S \ {x}
  BY DEF Below, OrdersStrictly
<1>2. IsFiniteSet(S \ {x}) /\ Cardinality(S \ {x}) = Cardinality(S) - 1
  BY FS_RemoveElement
<1>3. IsFiniteSet(Below(S, R, x)) /\ Cardinality(Below(S, R, x)) <= Cardinality(S) - 1
  BY <1>1, <1>2, FS_Subset
<1>4. Cardinality(Below(S, R, x)) \in Nat /\ Cardinality(S) \in Nat
  BY <1>3, FS_CardinalityType
<1> QED
  BY <1>3, <1>4 DEF PlaceIn

LEMMA PlaceSame ==
    ASSUME NEW S, IsFiniteSet(S), NEW R, OrdersStrictly(S, R),
           NEW x \in S, NEW y \in S, PlaceIn(S, R, x) = PlaceIn(S, R, y)
    PROVE  x = y
<1>1. SUFFICES ASSUME x # y PROVE FALSE
  OBVIOUS
<1>2. <<x, y>> \in R \/ <<y, x>> \in R
  BY <1>1 DEF OrdersStrictly
<1>3. PlaceIn(S, R, x) \in Int /\ PlaceIn(S, R, y) \in Int
  BY PlaceBounds
<1> QED
  BY <1>2, <1>3, PlaceGrows

\* Each place is taken.
LEMMA PlaceTaken ==
    ASSUME NEW S, IsFiniteSet(S), NEW R, OrdersStrictly(S, R),
           NEW n \in 1 .. Cardinality(S)
    PROVE  \E x \in S : PlaceIn(S, R, x) = n - 1
<1> DEFINE T == 0 .. Cardinality(S) - 1
           f == [x \in S |-> PlaceIn(S, R, x)]
<1>1. Cardinality(S) \in Nat
  BY FS_CardinalityType
<1>2. IsFiniteSet(T) /\ Cardinality(T) = Cardinality(S)
  <2>1. PICK N \in Nat : N = Cardinality(S)
    BY <1>1
  <2>2. IsFiniteSet(0 .. N - 1) /\ Cardinality(0 .. N - 1) = N
    BY FS_Interval
  <2> QED
    BY <2>1, <2>2
<1>3. f \in [S -> T]
  BY PlaceBounds
<1>4. f \in Injection(S, T)
  BY <1>3, PlaceSame DEF Injection, IsInjective
<1>5. f \in Surjection(S, T)
  <2> HIDE DEF f, T
  <2> QED
    BY <1>2, <1>4, FS_Injection
<1>6. n - 1 \in T
  BY <1>1
<1> QED
  BY <1>5, <1>6 DEF Surjection

\* Ordered enumerates S, in the order of R.
LEMMA OrderedEnumerates ==
    ASSUME NEW S, IsFiniteSet(S), NEW R, OrdersStrictly(S, R)
    PROVE  /\ Cardinality(S) \in Nat
           /\ Ordered(S, R) \in [1 .. Cardinality(S) -> S]
           /\ \A x \in S : \E n \in 1 .. Cardinality(S) : Ordered(S, R)[n] = x
           /\ \A m, n \in 1 .. Cardinality(S) :
                m < n => <<Ordered(S, R)[m], Ordered(S, R)[n]>> \in R
<1> DEFINE N == Cardinality(S)
           f == [n \in 1 .. N |-> CHOOSE x \in S : PlaceIn(S, R, x) = n - 1]
<1>1. N \in Nat
  BY FS_CardinalityType
<1>2. Ordered(S, R) = f
  BY DEF Ordered, PlaceIn, Below
<1>3. \A n \in 1 .. N : f[n] \in S /\ PlaceIn(S, R, f[n]) = n - 1
  BY PlaceTaken
<1>4. ASSUME NEW x \in S
      PROVE  \E n \in 1 .. N : f[n] = x
  <2> HIDE DEF f
  <2>1. PICK n \in 1 .. N : n - 1 = PlaceIn(S, R, x)
    <3>1. PlaceIn(S, R, x) \in 0 .. N - 1
      BY PlaceBounds
    <3> HIDE DEF N
    <3>2. PlaceIn(S, R, x) + 1 \in 1 .. N /\ (PlaceIn(S, R, x) + 1) - 1 = PlaceIn(S, R, x)
      BY <1>1, <3>1
    <3> QED
      BY <3>2
  <2>2. f[n] \in S /\ PlaceIn(S, R, f[n]) = n - 1
    BY <1>3
  <2>3. f[n] = x
    BY <2>1, <2>2, PlaceSame
  <2> QED
    BY <2>3
<1>5. ASSUME NEW m \in 1 .. N, NEW n \in 1 .. N, m < n
      PROVE  <<f[m], f[n]>> \in R
  <2> HIDE DEF f
  <2>1. f[m] # f[n]
    BY <1>1, <1>3, <1>5
  <2>2. <<f[n], f[m]>> \notin R
    BY <1>1, <1>3, <1>5, PlaceGrows
  <2> QED
    BY <1>3, <2>1, <2>2 DEF OrdersStrictly
<1>6. f \in [1 .. N -> S]
  BY <1>3
<1> HIDE DEF f
<1> QED
  BY <1>1, <1>2, <1>4, <1>5, <1>6

\* It is the only enumeration in that order.
LEMMA OrderedUnique ==
    ASSUME NEW S, NEW R, OrdersStrictly(S, R), NEW N \in Nat,
           NEW g \in [1 .. N -> S], \A x \in S : \E n \in 1 .. N : g[n] = x,
           \A m, n \in 1 .. N : m < n => <<g[m], g[n]>> \in R
    PROVE  IsFiniteSet(S) /\ Cardinality(S) = N /\ Ordered(S, R) = g
<1>1. \A m, n \in 1 .. N : g[m] = g[n] => m = n
  <2>1. \A m, n \in 1 .. N : m < n => g[m] # g[n]
    <3>1. \A n \in 1 .. N : g[n] \in S
      OBVIOUS
    <3> QED
      BY <3>1 DEF OrdersStrictly
  <2> QED
    BY <2>1
<1>2. g \in Bijection(1 .. N, S)
  BY <1>1 DEF Bijection, Injection, Surjection, IsInjective
<1>3. ExistsBijection(1 .. N, S)
  BY <1>2 DEF ExistsBijection
<1>4. IsFiniteSet(1 .. N) /\ Cardinality(1 .. N) = N
  BY FS_Interval
<1>5. IsFiniteSet(S) /\ Cardinality(S) = N
  BY <1>3, <1>4, FS_Bijection
<1>6. ASSUME NEW n \in 1 .. N
      PROVE  PlaceIn(S, R, g[n]) = n - 1
  <2> DEFINE h == [m \in 1 .. n - 1 |-> g[m]]
             B == Below(S, R, g[n])
  <2>1. \A m \in 1 .. n - 1 : m \in 1 .. N /\ g[m] \in B
    BY DEF Below
  <2>2. ASSUME NEW x \in B
        PROVE  \E m \in 1 .. n - 1 : g[m] = x
    <3>1. x \in S /\ <<x, g[n]>> \in R
      BY <2>2 DEF Below
    <3>2. PICK m \in 1 .. N : g[m] = x
      BY <3>1
    <3>3. m # n
      BY <3>1, <3>2 DEF OrdersStrictly
    <3>4. ~ (n < m)
      <4>1. SUFFICES ASSUME n < m PROVE FALSE
        OBVIOUS
      <4>2. <<g[n], g[m]>> \in R
        BY <4>1
      <4>3. g[n] \in S /\ g[m] \in S
        OBVIOUS
      <4>4. <<g[n], g[n]>> \in R
        BY <3>1, <3>2, <4>2, <4>3 DEF OrdersStrictly
      <4> QED
        BY <4>3, <4>4 DEF OrdersStrictly
    <3> QED
      BY <3>2, <3>3, <3>4
  <2>3. h \in [1 .. n - 1 -> B]
    BY <2>1
  <2>4. h \in Injection(1 .. n - 1, B)
    BY <1>1, <2>1, <2>3 DEF Injection, IsInjective
  <2>5. h \in Surjection(1 .. n - 1, B)
    BY <2>2, <2>3 DEF Surjection
  <2>6. ExistsBijection(1 .. n - 1, B)
    <3> HIDE DEF h, B
    <3> QED
      BY <2>4, <2>5 DEF ExistsBijection, Bijection
  <2>7. IsFiniteSet(1 .. n - 1) /\ Cardinality(1 .. n - 1) = n - 1
    BY FS_Interval
  <2>8. Cardinality(B) = n - 1
    <3> HIDE DEF B
    <3> QED
      BY <2>6, <2>7, FS_Bijection
  <2> QED
    BY <2>8 DEF PlaceIn
<1>7. ASSUME NEW n \in 1 .. N
      PROVE  (CHOOSE x \in S : PlaceIn(S, R, x) = n - 1) = g[n]
  <2>1. g[n] \in S /\ PlaceIn(S, R, g[n]) = n - 1
    BY <1>6
  <2>2. \A x \in S : PlaceIn(S, R, x) = n - 1 => x = g[n]
    BY <1>5, <2>1, PlaceSame
  <2> QED
    BY <2>1, <2>2
<1>8. Ordered(S, R) = [n \in 1 .. N |-> CHOOSE x \in S : PlaceIn(S, R, x) = n - 1]
  BY <1>5 DEF Ordered, PlaceIn, Below
<1>9. Ordered(S, R) = [n \in 1 .. N |-> g[n]]
  BY <1>7, <1>8
<1> QED
  BY <1>5, <1>9
-----------------------------------------------------------------------------
(* Parts of a sequence and sorted sequences.                               *)

LEMMA LessThanOrders ==
    ASSUME NEW P \in SUBSET Int
    PROVE  OrdersStrictly(P, LessThan(P))
<1>1. \A x, y \in P : <<x, y>> \in LessThan(P) <=> x < y
  BY DEF LessThan
<1> QED
  BY <1>1 DEF OrdersStrictly

\* at lists the positions P in their order.
Ascends(at, P) ==
    /\ at \in [1 .. Cardinality(P) -> P]
    /\ \A i \in P : \E n \in 1 .. Cardinality(P) : at[n] = i
    /\ \A m, n \in 1 .. Cardinality(P) : m < n => at[m] < at[n]

LEMMA KeptProperties ==
    ASSUME NEW T, NEW q \in Seq(T), NEW P \in SUBSET (DOMAIN q)
    PROVE  /\ Cardinality(P) \in 0 .. Len(q)
           /\ Kept(q, P) \in Seq(T) /\ Len(Kept(q, P)) = Cardinality(P)
           /\ \E at : /\ Ascends(at, P)
                      /\ \A n \in 1 .. Cardinality(P) : Kept(q, P)[n] = q[at[n]]
<1> DEFINE N == Cardinality(P)
           at == Ordered(P, LessThan(P))
<1>1. DOMAIN q = 1 .. Len(q) /\ Len(q) \in Nat /\ \A i \in DOMAIN q : q[i] \in T
  OBVIOUS
<1>2. IsFiniteSet(DOMAIN q) /\ Cardinality(DOMAIN q) = Len(q)
  BY <1>1, Interval
<1>3. IsFiniteSet(P) /\ N \in 0 .. Len(q)
  <2>1. IsFiniteSet(P) /\ N <= Len(q)
    BY <1>2, FS_Subset
  <2> QED
    BY <2>1, FS_CardinalityType, <1>1
<1>4. OrdersStrictly(P, LessThan(P))
  BY <1>1, LessThanOrders
<1>5. /\ at \in [1 .. N -> P]
      /\ \A i \in P : \E n \in 1 .. N : at[n] = i
      /\ \A m, n \in 1 .. N : m < n => <<at[m], at[n]>> \in LessThan(P)
  BY <1>3, <1>4, OrderedEnumerates
<1>6. Kept(q, P) = [n \in 1 .. N |-> q[at[n]]]
  BY DEF Kept
<1> HIDE DEF at, N
<1>7. \A m, n \in 1 .. N : m < n => at[m] < at[n]
  BY <1>5 DEF LessThan
<1>8. \A n \in 1 .. N : at[n] \in P /\ q[at[n]] \in T
  BY <1>1, <1>5
<1>9. Kept(q, P) \in Seq(T) /\ Len(Kept(q, P)) = N
  BY <1>1, <1>3, <1>6, <1>8
<1>10. \A n \in 1 .. N : Kept(q, P)[n] = q[at[n]]
  BY <1>6
<1>11. Ascends(at, P)
  BY <1>5, <1>7 DEF Ascends, N
<1> QED
  BY <1>3, <1>9, <1>10, <1>11 DEF N

\* at is a reordering of the positions 1 .. n.
Permutes(at, n) ==
    /\ at \in [1 .. n -> 1 .. n]
    /\ \A i \in 1 .. n : \E m \in 1 .. n : at[m] = i
    /\ \A i, m \in 1 .. n : at[i] = at[m] => i = m

LEMMA ArrangedProperties ==
    ASSUME NEW T, NEW q \in Seq(T), NEW R, OrdersStrictly(DOMAIN q, R)
    PROVE  /\ Arranged(q, R) \in Seq(T) /\ Len(Arranged(q, R)) = Len(q)
           /\ \E at : /\ Permutes(at, Len(q))
                      /\ \A m, n \in 1 .. Len(q) : m < n => <<at[m], at[n]>> \in R
                      /\ \A n \in 1 .. Len(q) : Arranged(q, R)[n] = q[at[n]]
<1> DEFINE at == Ordered(DOMAIN q, R)
<1>1. DOMAIN q = 1 .. Len(q) /\ Len(q) \in Nat /\ \A i \in DOMAIN q : q[i] \in T
  OBVIOUS
<1>2. IsFiniteSet(DOMAIN q) /\ Cardinality(DOMAIN q) = Len(q)
  BY <1>1, Interval
<1>3. /\ at \in [1 .. Len(q) -> DOMAIN q]
      /\ \A i \in DOMAIN q : \E n \in 1 .. Len(q) : at[n] = i
      /\ \A m, n \in 1 .. Len(q) : m < n => <<at[m], at[n]>> \in R
  BY <1>2, OrderedEnumerates
<1>4. Arranged(q, R) = [n \in DOMAIN q |-> q[at[n]]]
  BY DEF Arranged
<1> HIDE DEF at
<1>5. \A n \in 1 .. Len(q) : at[n] \in DOMAIN q /\ q[at[n]] \in T
  BY <1>1, <1>3
<1>6. Arranged(q, R) \in Seq(T) /\ Len(Arranged(q, R)) = Len(q)
  BY <1>1, <1>4, <1>5
<1>7. \A m, n \in 1 .. Len(q) : m < n => at[m] # at[n]
  BY <1>3, <1>5 DEF OrdersStrictly
<1>8. Permutes(at, Len(q))
  BY <1>1, <1>3, <1>7 DEF Permutes
<1>9. \A n \in 1 .. Len(q) : Arranged(q, R)[n] = q[at[n]]
  BY <1>1, <1>4
<1> QED
  BY <1>3, <1>6, <1>8, <1>9

LEMMA ByKeyOrders ==
    ASSUME NEW T, NEW q \in Seq(T), NEW key \in [DOMAIN q -> Int]
    PROVE  OrdersStrictly(DOMAIN q, ByKey(q, key))
<1>1. DOMAIN q \subseteq Int
  OBVIOUS
<1>2. \A x, y \in DOMAIN q : <<x, y>> \in ByKey(q, key) <=>
                               key[x] < key[y] \/ (key[x] = key[y] /\ x < y)
  BY DEF ByKey
<1>3. \A x \in DOMAIN q : key[x] \in Int
  OBVIOUS
<1>4. \A x \in DOMAIN q : <<x, x>> \notin ByKey(q, key)
  BY <1>1, <1>2, <1>3
<1>5. \A x, y \in DOMAIN q :
        x # y => <<x, y>> \in ByKey(q, key) \/ <<y, x>> \in ByKey(q, key)
  BY <1>1, <1>2, <1>3
<1>6. \A x, y, z \in DOMAIN q :
        <<x, y>> \in ByKey(q, key) /\ <<y, z>> \in ByKey(q, key)
          => <<x, z>> \in ByKey(q, key)
  BY <1>1, <1>2, <1>3
<1> QED
  BY <1>4, <1>5, <1>6 DEF OrdersStrictly

\* A stable sort reorders the sequence by its keys and leaves elements with
\* equal keys in their order.
LEMMA StableSortProperties ==
    ASSUME NEW T, NEW q \in Seq(T), NEW key \in [DOMAIN q -> Int]
    PROVE  /\ StableSort(q, key) \in Seq(T) /\ Len(StableSort(q, key)) = Len(q)
           /\ \E at : /\ Permutes(at, Len(q))
                      /\ \A m, n \in 1 .. Len(q) : m < n =>
                           \/ key[at[m]] < key[at[n]]
                           \/ key[at[m]] = key[at[n]] /\ at[m] < at[n]
                      /\ \A n \in 1 .. Len(q) : StableSort(q, key)[n] = q[at[n]]
<1>1. OrdersStrictly(DOMAIN q, ByKey(q, key))
  BY ByKeyOrders
<1> DEFINE R == ByKey(q, key)
<1>2. /\ Arranged(q, R) \in Seq(T) /\ Len(Arranged(q, R)) = Len(q)
      /\ \E at : /\ Permutes(at, Len(q))
                 /\ \A m, n \in 1 .. Len(q) : m < n => <<at[m], at[n]>> \in R
                 /\ \A n \in 1 .. Len(q) : Arranged(q, R)[n] = q[at[n]]
  <2>1. OrdersStrictly(DOMAIN q, R)
    BY <1>1
  <2> HIDE DEF R
  <2>2. Arranged(q, R) \in Seq(T) /\ Len(Arranged(q, R)) = Len(q)
    BY <2>1, ArrangedProperties, SMTT(60)
  <2>3. \E at : /\ Permutes(at, Len(q))
                /\ \A m, n \in 1 .. Len(q) : m < n => <<at[m], at[n]>> \in R
                /\ \A n \in 1 .. Len(q) : Arranged(q, R)[n] = q[at[n]]
    BY <2>1, ArrangedProperties, SMTT(60)
  <2> QED
    BY <2>2, <2>3
<1>3. PICK at : /\ Permutes(at, Len(q))
                /\ \A m, n \in 1 .. Len(q) : m < n => <<at[m], at[n]>> \in R
                /\ \A n \in 1 .. Len(q) : Arranged(q, R)[n] = q[at[n]]
  BY <1>2
<1>4. \A m, n \in 1 .. Len(q) : m < n =>
        \/ key[at[m]] < key[at[n]]
        \/ key[at[m]] = key[at[n]] /\ at[m] < at[n]
  BY <1>3 DEF ByKey
<1> QED
  BY <1>2, <1>3, <1>4 DEF StableSort
\* The same as a relation between what is sorted and the result s.
SortedBy(T, q, key, s) ==
    /\ s \in Seq(T) /\ Len(s) = Len(q)
    /\ \E at : /\ Permutes(at, Len(q))
               /\ \A m, n \in 1 .. Len(q) : m < n =>
                    \/ key[at[m]] < key[at[n]]
                    \/ key[at[m]] = key[at[n]] /\ at[m] < at[n]
               /\ \A n \in 1 .. Len(q) : s[n] = q[at[n]]

LEMMA StableSortSorts ==
    ASSUME NEW T, NEW q \in Seq(T), NEW key \in [DOMAIN q -> Int]
    PROVE  SortedBy(T, q, key, StableSort(q, key))
BY StableSortProperties DEF SortedBy
-----------------------------------------------------------------------------
(* Running totals.                                                         *)

\* s[i] is the sum of the first i of the n numbers a.
Totals(s, a, n) ==
    /\ s \in [0 .. n -> Nat] /\ s[0] = 0
    /\ \A i \in 1 .. n : s[i] = s[i - 1] + a[i]

LEMMA TotalsExist ==
    ASSUME NEW n \in Nat, NEW a, \A i \in 1 .. n : a[i] \in Nat
    PROVE  \E s : Totals(s, a, n)
<1> DEFINE Upto(m, s) == Totals(s, a, m)
           Done == { m \in 0 .. n : \E s : Upto(m, s) }
<1>1. 0 \in Done
  <2>1. Upto(0, [i \in 0 .. 0 |-> 0])
    BY DEF Totals
  <2> HIDE DEF Upto
  <2> QED
    BY <2>1
<1>2. ASSUME NEW m \in Done, m < n
      PROVE  m + 1 \in Done
  <2>1. PICK s : Totals(s, a, m)
    OBVIOUS
  <2> DEFINE new == [i \in 0 .. m + 1 |-> IF i = m + 1 THEN s[m] + a[m + 1] ELSE s[i]]
  <2>2. m \in 0 .. n /\ m + 1 \in 1 .. n
    BY <1>2
  <2>3. s[m] + a[m + 1] \in Nat
    BY <2>1, <2>2 DEF Totals
  <2>4. new \in [0 .. m + 1 -> Nat]
    BY <2>1, <2>2, <2>3 DEF Totals
  <2>5. new[0] = 0
    BY <2>1, <2>2 DEF Totals
  <2>6. ASSUME NEW i \in 1 .. m + 1
        PROVE  new[i] = new[i - 1] + a[i]
    <3>1. CASE i = m + 1
      BY <2>2, <3>1
    <3>2. CASE i # m + 1
      <4>1. i \in 1 .. m /\ i - 1 # m + 1 /\ i - 1 \in 0 .. m + 1
        BY <2>2, <3>2
      <4>2. new[i] = s[i] /\ new[i - 1] = s[i - 1]
        BY <2>2, <4>1
      <4> QED
        BY <2>1, <4>1, <4>2 DEF Totals
    <3> QED
      BY <3>1, <3>2
  <2> HIDE DEF new
  <2>7. Upto(m + 1, new)
    BY <2>4, <2>5, <2>6 DEF Totals
  <2> HIDE DEF Upto
  <2> QED
    BY <2>2, <2>7
<1>3. n \in Done
  <2>1. Done \in SUBSET Nat
    <3> HIDE DEF Upto
    <3> QED
      OBVIOUS
  <2> HIDE DEF Done
  <2>2. 0 .. n \subseteq Done
    BY <1>1, <1>2, <2>1, InductionUpTo
  <2> QED
    BY <2>2
<1> QED
  BY <1>3

LEMMA GrowingEnumerates ==
    ASSUME NEW S \in SUBSET Int, NEW N \in Nat, NEW g \in [1 .. N -> S],
           \A x \in S : \E n \in 1 .. N : g[n] = x,
           \A m, n \in 1 .. N : m < n => g[m] < g[n]
    PROVE  Cardinality(S) = N /\ Ordered(S, LessThan(S)) = g
<1> DEFINE R == LessThan(S)
<1>1. OrdersStrictly(S, R)
  BY LessThanOrders
<1>2. \A m, n \in 1 .. N : m < n => <<g[m], g[n]>> \in R
  BY DEF LessThan
<1> HIDE DEF R
<1>3. Cardinality(S) = N /\ Ordered(S, R) = g
  BY <1>1, <1>2, OrderedUnique, ZenonT(60)
<1> QED
  BY <1>3 DEF R

\* Numbers that grow and leave out none up to K.
LEMMA GrowingOnto ==
    ASSUME NEW N \in Nat, NEW K \in Nat, NEW g \in [1 .. N -> 1 .. K],
           \A x \in 1 .. K : \E n \in 1 .. N : g[n] = x,
           \A m, n \in 1 .. N : m < n => g[m] < g[n]
    PROVE  N = K /\ \A n \in 1 .. N : g[n] = n
<1> DEFINE id == [n \in 1 .. K |-> n]
           S == 1 .. K
<1>1. /\ S \in SUBSET Int /\ g \in [1 .. N -> S]
      /\ \A x \in S : \E n \in 1 .. N : g[n] = x
  OBVIOUS
<1>2. /\ id \in [1 .. K -> S] /\ \A x \in S : \E n \in 1 .. K : id[n] = x
      /\ \A m, n \in 1 .. K : m < n => id[m] < id[n]
  OBVIOUS
<1> HIDE DEF id, S
<1>3. Cardinality(S) = N /\ Ordered(S, LessThan(S)) = g
  BY <1>1, GrowingEnumerates
<1>4. Cardinality(S) = K /\ Ordered(S, LessThan(S)) = id
  BY <1>1, <1>2, GrowingEnumerates
<1> QED
  BY <1>3, <1>4 DEF id
-----------------------------------------------------------------------------
(* Flattened sequences.                                                    *)

\* off[i] is the number of elements in the first i sequences of qs.
Offsets(off, qs) ==
    /\ off \in [0 .. Len(qs) -> Nat] /\ off[0] = 0
    /\ \A i \in 1 .. Len(qs) : off[i] = off[i - 1] + Len(qs[i])

LEMMA OffsetsExist ==
    ASSUME NEW S, NEW qs \in Seq(Seq(S))
    PROVE  \E off : Offsets(off, qs)
<1> DEFINE a == [i \in 1 .. Len(qs) |-> Len(qs[i])]
<1>1. Len(qs) \in Nat /\ \A i \in 1 .. Len(qs) : a[i] \in Nat
  OBVIOUS
<1>2. PICK off : Totals(off, a, Len(qs))
  <2> HIDE DEF a
  <2> QED
    BY <1>1, TotalsExist
<1> QED
  BY <1>2 DEF Totals, Offsets

LEMMA OffsetsGrow ==
    ASSUME NEW S, NEW qs \in Seq(Seq(S)), NEW off, Offsets(off, qs),
           NEW m \in 0 .. Len(qs), NEW n \in m .. Len(qs)
    PROVE  off[m] <= off[n]
<1> DEFINE D == { d \in 0 .. Len(qs) - m : off[m] <= off[m + d] }
<1>1. Len(qs) \in Nat /\ \A i \in 1 .. Len(qs) : Len(qs[i]) \in Nat
  OBVIOUS
<1>2. \A i \in 0 .. Len(qs) : off[i] \in Nat
  BY DEF Offsets
<1>3. 0 \in D
  BY <1>1, <1>2
<1>4. ASSUME NEW d \in D, d < Len(qs) - m
      PROVE  d + 1 \in D
  <2>1. m + d + 1 \in 1 .. Len(qs) /\ (m + d + 1) - 1 = m + d
    BY <1>1, <1>4
  <2>2. off[m + d + 1] = off[m + d] + Len(qs[m + d + 1])
    BY <2>1 DEF Offsets
  <2>3. off[m] <= off[m + d + 1]
    BY <1>1, <1>2, <2>1, <2>2
  <2> QED
    BY <1>1, <1>4, <2>3
<1>5. 0 .. Len(qs) - m \subseteq D
  <2>1. D \in SUBSET Nat /\ Len(qs) - m \in Nat
    BY <1>1
  <2> HIDE DEF D
  <2> QED
    BY <1>3, <1>4, <2>1, InductionUpTo
<1>6. n - m \in D
  <2>1. n - m \in 0 .. Len(qs) - m
    BY <1>1
  <2> HIDE DEF D
  <2> QED
    BY <1>5, <2>1
<1> QED
  BY <1>6

\* The recursive function by which FlattenSeq is defined.
Flattens(f, qs) ==
    f = [i \in 1 .. Len(qs) |-> IF i = 1 THEN qs[i] ELSE f[i - 1] \o qs[i]]

LEMMA FlattensExists ==
    ASSUME NEW S, NEW qs \in Seq(Seq(S))
    PROVE  \E f : Flattens(f, qs)
<1> DEFINE L == Len(qs)
           Upto(m, f) == f = [i \in 1 .. m |-> IF i = 1 THEN qs[i] ELSE f[i - 1] \o qs[i]]
           Done == { m \in 0 .. L : \E f : Upto(m, f) }
<1>1. L \in Nat
  OBVIOUS
<1>2. 0 \in Done
  <2>1. Upto(0, <<>>)
    OBVIOUS
  <2> HIDE DEF Upto
  <2> QED
    BY <1>1, <2>1
<1>3. ASSUME NEW m \in Done, m < L
      PROVE  m + 1 \in Done
  <2>1. PICK f : Upto(m, f)
    OBVIOUS
  <2>2. m \in Nat /\ m + 1 \in 0 .. L
    BY <1>1, <1>3
  <2> DEFINE last == IF m = 0 THEN qs[1] ELSE f[m] \o qs[m + 1]
             new == [i \in 1 .. m + 1 |-> IF i = m + 1 THEN last ELSE f[i]]
  <2>3. ASSUME NEW i \in 1 .. m + 1
        PROVE  new[i] = IF i = 1 THEN qs[i] ELSE new[i - 1] \o qs[i]
    <3>1. CASE i = m + 1
      <4>1. new[i] = last
        BY <3>1
      <4>2. i # 1 => new[i - 1] = f[m]
        BY <2>2, <3>1
      <4> QED
        BY <2>2, <3>1, <4>1, <4>2
    <3>2. CASE i # m + 1
      <4>1. i \in 1 .. m
        BY <2>2, <3>2
      <4>2. f[i] = IF i = 1 THEN qs[i] ELSE f[i - 1] \o qs[i]
        BY <2>1, <4>1
      <4>3. new[i] = f[i]
        BY <3>2
      <4>4. i # 1 => new[i - 1] = f[i - 1]
        BY <2>2, <4>1
      <4> QED
        BY <4>2, <4>3, <4>4
    <3> QED
      BY <3>1, <3>2
  <2>4. Upto(m + 1, new)
    <3>1. new = [i \in 1 .. m + 1 |-> new[i]]
      OBVIOUS
    <3> HIDE DEF new
    <3> QED
      BY <2>3, <3>1
  <2> HIDE DEF Upto
  <2> QED
    BY <2>2, <2>4
<1>4. L \in Done
  <2>1. Done \in SUBSET Nat
    <3> HIDE DEF Upto, L
    <3> QED
      BY <1>1
  <2> HIDE DEF Done, L
  <2>2. 0 .. L \subseteq Done
    BY <1>1, <1>2, <1>3, <2>1, InductionUpTo
  <2> QED
    BY <1>1, <2>2
<1> QED
  BY <1>4 DEF Flattens

LEMMA FlattenByFunction ==
    ASSUME NEW S, NEW qs \in Seq(Seq(S)), Len(qs) # 0
    PROVE  \E f : Flattens(f, qs) /\ FlattenSeq(qs) = f[Len(qs)]
<1> DEFINE f == CHOOSE f : Flattens(f, qs)
<1>1. Flattens(f, qs)
  BY FlattensExists
<1>2. FlattenSeq(qs) = f[Len(qs)]
  BY DEF FlattenSeq, Flattens
<1> QED
  BY <1>1, <1>2

LEMMA ConcatPlaces ==
    ASSUME NEW S, NEW s \in Seq(S), NEW t \in Seq(S), NEW a, a = Len(s)
    PROVE  /\ s \o t \in Seq(S) /\ Len(s \o t) = a + Len(t)
           /\ \A i \in 1 .. a : (s \o t)[i] = s[i]
           /\ \A j \in 1 .. Len(t) : (s \o t)[a + j] = t[j]
<1>1. Len(s) \in Nat /\ Len(t) \in Nat
  OBVIOUS
<1>2. \A i \in 1 .. Len(s) : (s \o t)[i] = s[i]
  BY <1>1, ConcatProperties
<1>3. ASSUME NEW j \in 1 .. Len(t)
      PROVE  (s \o t)[Len(s) + j] = t[j]
  <2>1. Len(s) + j \in 1 .. Len(s) + Len(t) /\ ~ (Len(s) + j <= Len(s)) /\ (Len(s) + j) - Len(s) = j
    BY <1>1
  <2> QED
    BY <2>1, ConcatProperties
<1> QED
  BY <1>2, <1>3, ConcatProperties

LEMMA Slice ==
    ASSUME NEW T, NEW q \in Seq(T), NEW a \in Nat, NEW b \in a .. Len(q),
           NEW s, s = SubSeq(q, a + 1, b)
    PROVE  /\ s \in Seq(T) /\ Len(s) = b - a /\ DOMAIN s = 1 .. b - a
           /\ \A i \in 1 .. b - a : s[i] = q[a + i]
<1>1. a + 1 \in Int /\ b \in Int /\ \A i \in a + 1 .. b : q[i] \in T
  OBVIOUS
<1>2. /\ s \in Seq(T)
      /\ Len(s) = IF a + 1 <= b THEN b - (a + 1) + 1 ELSE 0
      /\ \A i \in 1 .. b - (a + 1) + 1 : s[i] = q[(a + 1) + i - 1]
  BY <1>1, SubSeqProperties
<1>3. b - (a + 1) + 1 = b - a /\ \A i \in 1 .. b - a : (a + 1) + i - 1 = a + i
  OBVIOUS
<1>4. Len(s) = b - a
  BY <1>2
<1> QED
  BY <1>2, <1>3, <1>4

LEMMA FlattenedSoFar ==
    ASSUME NEW S, NEW qs \in Seq(Seq(S)), NEW off, Offsets(off, qs),
           NEW f, Flattens(f, qs), NEW i \in 1 .. Len(qs)
    PROVE  /\ f[i] \in Seq(S) /\ Len(f[i]) = off[i]
           /\ \A h \in 1 .. i : \A j \in 1 .. Len(qs[h]) : f[i][off[h - 1] + j] = qs[h][j]
<1> DEFINE Good(m) ==
             m = 0 \/ /\ f[m] \in Seq(S) /\ Len(f[m]) = off[m]
                      /\ \A h \in 1 .. m : \A j \in 1 .. Len(qs[h]) :
                           f[m][off[h - 1] + j] = qs[h][j]
           Done == { m \in 0 .. Len(qs) : Good(m) }
<1>1. Len(qs) \in Nat /\ \A m \in 1 .. Len(qs) : qs[m] \in Seq(S) /\ Len(qs[m]) \in Nat
  OBVIOUS
<1>2. \A m \in 0 .. Len(qs) : off[m] \in Nat
  BY DEF Offsets
<1>3. \A m \in 1 .. Len(qs) : off[m] = off[m - 1] + Len(qs[m])
  BY DEF Offsets
<1>4. off[0] = 0
  BY DEF Offsets
<1>f. \A m \in 1 .. Len(qs) : f[m] = IF m = 1 THEN qs[m] ELSE f[m - 1] \o qs[m]
  BY DEF Flattens
<1>5. ASSUME NEW m \in Done, m < Len(qs)
      PROVE  m + 1 \in Done
  <2>1. m \in Nat /\ m + 1 \in 1 .. Len(qs) /\ m + 1 \in 0 .. Len(qs) /\ (m + 1) - 1 = m
    BY <1>1, <1>5
  <2>2. CASE m = 0
    <3>1. f[1] = qs[1]
      BY <1>f, <2>1, <2>2
    <3>2. qs[1] \in Seq(S) /\ off[1] = Len(qs[1])
      BY <1>1, <1>3, <1>4, <2>1, <2>2
    <3>3. \A h \in 1 .. 1 : h = 1 /\ off[h - 1] = 0
      BY <1>4
    <3>4. \A j \in 1 .. Len(qs[1]) : 0 + j = j
      BY <1>1, <2>1, <2>2
    <3>5. Good(1)
      BY <3>1, <3>2, <3>3, <3>4
    <3> HIDE DEF Good
    <3> QED
      BY <2>1, <2>2, <3>5
  <2>3. CASE m # 0
    <3> DEFINE p == f[m]
               q == qs[m + 1]
    <3>1. f[m + 1] = p \o q
      <4>1. m + 1 # 1 /\ (m + 1) - 1 = m /\ m + 1 \in 1 .. Len(qs)
        BY <2>1, <2>3
      <4>2. f[m + 1] = f[(m + 1) - 1] \o qs[m + 1]
        BY <1>f, <4>1
      <4> QED
        BY <4>1, <4>2
    <3>2. /\ p \in Seq(S) /\ Len(p) = off[m]
          /\ \A h \in 1 .. m : \A j \in 1 .. Len(qs[h]) : p[off[h - 1] + j] = qs[h][j]
      BY <1>5, <2>3
    <3>3. q \in Seq(S) /\ off[m + 1] = off[m] + Len(q) /\ Len(q) \in Nat /\ off[m] \in Nat
      BY <1>1, <1>2, <1>3, <2>1
    <3>a. /\ p \o q \in Seq(S) /\ Len(p \o q) = off[m] + Len(q)
          /\ \A n \in 1 .. off[m] : (p \o q)[n] = p[n]
          /\ \A j \in 1 .. Len(q) : (p \o q)[off[m] + j] = q[j]
      <4>1. p \in Seq(S) /\ off[m] = Len(p) /\ q \in Seq(S)
        BY <3>2, <3>3
      <4> HIDE DEF p, q, Good, Done
      <4> QED
        BY <4>1, ConcatPlaces
    <3> HIDE DEF p, q, Good, Done
    <3>4. ASSUME NEW h \in 1 .. m, NEW j \in 1 .. Len(qs[h])
          PROVE  off[h - 1] + j \in 1 .. off[m]
      <4>1. h \in 1 .. Len(qs) /\ h \in 0 .. Len(qs) /\ m \in h .. Len(qs) /\ h - 1 \in 0 .. Len(qs)
        BY <2>1
      <4>2. off[h] = off[h - 1] + Len(qs[h]) /\ Len(qs[h]) \in Nat /\ off[h - 1] \in Nat
        BY <1>1, <1>2, <1>3, <4>1
      <4>3. off[h] <= off[m]
        BY <4>1, OffsetsGrow
      <4>4. \A a, b, c, d \in Nat : \A e \in 1 .. c : a = b + c /\ a <= d => b + e \in 1 .. d
        OBVIOUS
      <4>5. off[h] \in Nat /\ off[m] \in Nat
        BY <3>3, <4>1, <1>2
      <4> QED
        BY <4>2, <4>3, <4>4, <4>5
    <3>5. p \o q \in Seq(S) /\ Len(p \o q) = off[m + 1]
      BY <3>3, <3>a
    <3>6. ASSUME NEW h \in 1 .. m, NEW j \in 1 .. Len(qs[h])
          PROVE  (p \o q)[off[h - 1] + j] = qs[h][j]
      <4>1. (p \o q)[off[h - 1] + j] = p[off[h - 1] + j]
        BY <3>a, <3>4
      <4> QED
        BY <3>2, <4>1
    <3>7. \A j \in 1 .. Len(q) : (p \o q)[off[m] + j] = q[j]
      BY <3>a
    <3>8. \A h \in 1 .. m + 1 : \A j \in 1 .. Len(qs[h]) : (p \o q)[off[h - 1] + j] = qs[h][j]
      <4>1. TAKE h \in 1 .. m + 1
      <4>2. CASE h = m + 1
        BY <2>1, <3>7, <4>2 DEF q
      <4>3. CASE h # m + 1
        <5>1. h \in 1 .. m
          BY <2>1, <4>3
        <5> QED
          BY <3>6, <5>1
      <4> QED
        BY <4>2, <4>3
    <3>9. Good(m + 1)
      BY <3>1, <3>5, <3>8 DEF Good
    <3> QED
      BY <2>1, <3>9 DEF Done
  <2> QED
    BY <2>2, <2>3
<1>6. 0 .. Len(qs) \subseteq Done
  <2>1. Done \in SUBSET Nat /\ 0 \in Done
    BY <1>1
  <2> HIDE DEF Done
  <2> QED
    BY <1>1, <1>5, <2>1, InductionUpTo
<1>7. i \in Done /\ i # 0
  <2>1. i \in 0 .. Len(qs) /\ i # 0
    BY <1>1
  <2> HIDE DEF Done
  <2> QED
    BY <1>6, <2>1
<1> QED
  BY <1>7

\* Every place up to the last offset lies in one of the sequences.
LEMMA OffsetsCover ==
    ASSUME NEW S, NEW qs \in Seq(Seq(S)), NEW off, Offsets(off, qs),
           NEW n \in 1 .. off[Len(qs)]
    PROVE  \E i \in 1 .. Len(qs) : \E j \in 1 .. Len(qs[i]) : n = off[i - 1] + j
<1> DEFINE reached == { i \in 0 .. Len(qs) : n <= off[i] }
<1>1. Len(qs) \in Nat /\ \A i \in 1 .. Len(qs) : Len(qs[i]) \in Nat
  OBVIOUS
<1>2. \A i \in 0 .. Len(qs) : off[i] \in Nat
  BY DEF Offsets
<1>3. reached \in SUBSET Nat /\ Len(qs) \in reached
  BY <1>1, <1>2
<1>4. PICK i \in reached : \A m \in reached : i <= m
  <2> HIDE DEF reached
  <2> QED
    BY <1>3, HasMinimum
<1>5. i \in 1 .. Len(qs) /\ i - 1 \in 0 .. Len(qs)
  <2>1. i # 0
    BY <1>1 DEF Offsets
  <2> QED
    BY <1>1, <2>1
<1>6. off[i - 1] < n /\ n <= off[i]
  BY <1>1, <1>2, <1>4, <1>5
<1>7. off[i] = off[i - 1] + Len(qs[i]) /\ Len(qs[i]) \in Nat
  BY <1>1, <1>5 DEF Offsets
<1>8. n - off[i - 1] \in 1 .. Len(qs[i]) /\ n = off[i - 1] + (n - off[i - 1])
  <2>1. \A a, b, c, d \in Nat : a < d /\ d <= b /\ b = a + c => d - a \in 1 .. c /\ d = a + (d - a)
    OBVIOUS
  <2>2. off[i] \in Nat /\ off[i - 1] \in Nat /\ n \in Nat
    BY <1>2, <1>1, <1>5
  <2> QED
    BY <1>6, <1>7, <2>1, <2>2
<1> QED
  BY <1>5, <1>8

\* The elements of a flattened sequence of sequences, and where they are.
LEMMA FlattenProperties ==
    ASSUME NEW S, NEW qs \in Seq(Seq(S)), NEW off, Offsets(off, qs)
    PROVE  /\ FlattenSeq(qs) \in Seq(S) /\ Len(FlattenSeq(qs)) = off[Len(qs)]
           /\ \A i \in 1 .. Len(qs) : \A j \in 1 .. Len(qs[i]) :
                /\ off[i - 1] + j \in 1 .. Len(FlattenSeq(qs))
                /\ FlattenSeq(qs)[off[i - 1] + j] = qs[i][j]
           /\ \A n \in 1 .. Len(FlattenSeq(qs)) :
                \E i \in 1 .. Len(qs) : \E j \in 1 .. Len(qs[i]) : n = off[i - 1] + j
<1>1. Len(qs) \in Nat /\ \A i \in 1 .. Len(qs) : Len(qs[i]) \in Nat
  OBVIOUS
<1>2. \A i \in 0 .. Len(qs) : off[i] \in Nat
  BY DEF Offsets
<1>3. /\ FlattenSeq(qs) \in Seq(S) /\ Len(FlattenSeq(qs)) = off[Len(qs)]
      /\ \A i \in 1 .. Len(qs) : \A j \in 1 .. Len(qs[i]) :
           FlattenSeq(qs)[off[i - 1] + j] = qs[i][j]
  <2>1. CASE Len(qs) = 0
    <3>1. FlattenSeq(qs) = qs
      BY <2>1 DEF FlattenSeq
    <3>2. qs = <<>>
      BY <2>1
    <3>3. off[0] = 0
      BY DEF Offsets
    <3> QED
      BY <2>1, <3>1, <3>2, <3>3
  <2>2. CASE Len(qs) # 0
    <3>1. PICK f : Flattens(f, qs) /\ FlattenSeq(qs) = f[Len(qs)]
      BY <2>2, FlattenByFunction
    <3>2. Len(qs) \in 1 .. Len(qs)
      BY <1>1, <2>2
    <3>3. /\ f[Len(qs)] \in Seq(S) /\ Len(f[Len(qs)]) = off[Len(qs)]
          /\ \A h \in 1 .. Len(qs) : \A j \in 1 .. Len(qs[h]) :
               f[Len(qs)][off[h - 1] + j] = qs[h][j]
      BY <3>1, <3>2, FlattenedSoFar
    <3> QED
      BY <3>1, <3>3
  <2> QED
    BY <2>1, <2>2
<1>4. ASSUME NEW i \in 1 .. Len(qs), NEW j \in 1 .. Len(qs[i])
      PROVE  off[i - 1] + j \in 1 .. off[Len(qs)]
  <2>1. i - 1 \in 0 .. Len(qs) /\ i \in 0 .. Len(qs) /\ Len(qs) \in i .. Len(qs) /\ Len(qs) \in 0 .. Len(qs)
    BY <1>1
  <2>2. off[i] <= off[Len(qs)]
    BY <2>1, OffsetsGrow
  <2>3. off[i] = off[i - 1] + Len(qs[i]) /\ Len(qs[i]) \in Nat
    BY <1>1 DEF Offsets
  <2>4. \A a, b, c, d \in Nat : \A e \in 1 .. c : a = b + c /\ a <= d => b + e \in 1 .. d
    OBVIOUS
  <2>5. off[i] \in Nat /\ off[i - 1] \in Nat /\ off[Len(qs)] \in Nat
    BY <1>2, <2>1
  <2> QED
    BY <2>2, <2>3, <2>4, <2>5
<1>5. \A n \in 1 .. off[Len(qs)] :
        \E i \in 1 .. Len(qs) : \E j \in 1 .. Len(qs[i]) : n = off[i - 1] + j
  BY OffsetsCover
<1> QED
  BY <1>3, <1>4, <1>5

\* As long as sequences are of one length they start at the multiples of it.
OneLength(qs, L, c) == \A i \in 1 .. L : Len(qs[i]) = c
Multiples(off, L, c) == \A i \in 0 .. L : off[i] = i * c

LEMMA OffsetsEqual ==
    ASSUME NEW S, NEW qs \in Seq(Seq(S)), NEW off, Offsets(off, qs), NEW L \in 0 .. Len(qs),
           NEW c \in Nat, OneLength(qs, L, c)
    PROVE  Multiples(off, L, c)
<1> DEFINE D == { i \in 0 .. L : off[i] = i * c }
<1>1. L \in Nat
  OBVIOUS
<1>2. off[0] = 0 /\ \A i \in 1 .. L : off[i] = off[i - 1] + c
  BY SMTT(60) DEF Offsets, OneLength
<1>3. 0 \in D
  BY <1>1, <1>2
<1>4. ASSUME NEW i \in D, i < L
      PROVE  i + 1 \in D
  <2>1. i \in 0 .. L /\ i + 1 \in 1 .. L /\ (i + 1) - 1 = i /\ i + 1 \in 0 .. L
    BY <1>1, <1>4
  <2>2. off[i + 1] = i * c + c
    BY <1>2, <2>1
  <2>3. (i + 1) * c = i * c + c
    BY <2>1
  <2> QED
    BY <2>1, <2>2, <2>3
<1>5. D \in SUBSET Nat
  OBVIOUS
<1> HIDE DEF D
<1>6. 0 .. L \subseteq D
  BY <1>1, <1>3, <1>4, <1>5, InductionUpTo
<1> QED
  BY <1>6 DEF D, Multiples
-----------------------------------------------------------------------------
(* What is in a sequence.                                                  *)

\* The elements of a sequence; a sequence without repetitions.
Elems(q) == { q[i] : i \in DOMAIN q }
Distinct(q) == \A i, j \in DOMAIN q : q[i] = q[j] => i = j

LEMMA ElemsInSet ==
    ASSUME NEW S, NEW q \in Seq(S)
    PROVE  Elems(q) \subseteq S
BY DEF Elems

LEMMA KeptElems ==
    ASSUME NEW S, NEW q \in Seq(S), NEW P \in SUBSET (DOMAIN q)
    PROVE  Elems(Kept(q, P)) = { q[i] : i \in P }
<1>1. PICK at : /\ Ascends(at, P)
                /\ \A n \in 1 .. Cardinality(P) : Kept(q, P)[n] = q[at[n]]
  BY KeptProperties
<1>2. DOMAIN Kept(q, P) = 1 .. Cardinality(P)
  BY KeptProperties
<1>3. Elems(Kept(q, P)) = { q[at[n]] : n \in 1 .. Cardinality(P) }
  BY <1>1, <1>2 DEF Elems
<1> QED
  BY <1>1, <1>3 DEF Ascends

LEMMA KeptDistinct ==
    ASSUME NEW S, NEW q \in Seq(S), NEW P \in SUBSET (DOMAIN q),
           \A i, j \in P : q[i] = q[j] => i = j
    PROVE  Distinct(Kept(q, P))
<1>1. PICK at : /\ Ascends(at, P)
                /\ \A n \in 1 .. Cardinality(P) : Kept(q, P)[n] = q[at[n]]
  BY KeptProperties
<1>2. DOMAIN Kept(q, P) = 1 .. Cardinality(P) /\ Cardinality(P) \in Nat
  BY KeptProperties
<1>3. ASSUME NEW m \in 1 .. Cardinality(P), NEW n \in 1 .. Cardinality(P),
             Kept(q, P)[m] = Kept(q, P)[n]
      PROVE  m = n
  <2>1. at[m] \in P /\ at[n] \in P /\ q[at[m]] = q[at[n]]
    BY <1>1, <1>3 DEF Ascends
  <2>2. at[m] = at[n] /\ at[m] \in Int
    BY <2>1
  <2>3. m < n => at[m] < at[n]
    BY <1>1 DEF Ascends
  <2>4. n < m => at[n] < at[m]
    BY <1>1 DEF Ascends
  <2> QED
    BY <1>2, <2>2, <2>3, <2>4
<1> QED
  BY <1>2, <1>3 DEF Distinct

LEMMA ConcatElems ==
    ASSUME NEW S, NEW q \in Seq(S), NEW r \in Seq(S)
    PROVE  /\ q \o r \in Seq(S) /\ Len(q \o r) = Len(q) + Len(r)
           /\ Elems(q \o r) = Elems(q) \cup Elems(r)
<1>1. /\ q \o r \in Seq(S) /\ Len(q \o r) = Len(q) + Len(r)
      /\ \A i \in 1 .. Len(q) : (q \o r)[i] = q[i]
      /\ \A j \in 1 .. Len(r) : (q \o r)[Len(q) + j] = r[j]
  BY ConcatPlaces
<1>2. /\ DOMAIN q = 1 .. Len(q) /\ DOMAIN r = 1 .. Len(r) /\ Len(q) \in Nat /\ Len(r) \in Nat
      /\ DOMAIN (q \o r) = 1 .. Len(q) + Len(r)
  BY <1>1
<1>3. ASSUME NEW x \in Elems(q \o r)
      PROVE  x \in Elems(q) \cup Elems(r)
  <2>1. PICK n \in 1 .. Len(q) + Len(r) : x = (q \o r)[n]
    BY <1>2, <1>3 DEF Elems
  <2>2. CASE n <= Len(q)
    BY <1>1, <1>2, <2>1, <2>2 DEF Elems
  <2>3. CASE n > Len(q)
    <3>1. n - Len(q) \in 1 .. Len(r) /\ n = Len(q) + (n - Len(q))
      BY <1>2, <2>3
    <3>2. x = r[n - Len(q)]
      BY <1>1, <2>1, <3>1
    <3> QED
      BY <1>2, <3>1, <3>2 DEF Elems
  <2> QED
    BY <1>2, <2>2, <2>3
<1>4. ASSUME NEW x \in Elems(q)
      PROVE  x \in Elems(q \o r)
  BY <1>1, <1>2 DEF Elems
<1>5. ASSUME NEW x \in Elems(r)
      PROVE  x \in Elems(q \o r)
  <2>1. PICK j \in 1 .. Len(r) : x = r[j]
    BY <1>2 DEF Elems
  <2>2. Len(q) + j \in 1 .. Len(q) + Len(r) /\ (q \o r)[Len(q) + j] = x
    BY <1>1, <1>2, <2>1
  <2> QED
    BY <1>2, <2>2 DEF Elems
<1> QED
  BY <1>1, <1>3, <1>4, <1>5

LEMMA FlattenElems ==
    ASSUME NEW S, NEW qs \in Seq(Seq(S))
    PROVE  /\ FlattenSeq(qs) \in Seq(S)
           /\ Elems(FlattenSeq(qs)) = UNION { Elems(qs[i]) : i \in DOMAIN qs }
<1> DEFINE q == FlattenSeq(qs)
<1>1. PICK off : Offsets(off, qs)
  BY OffsetsExist
<1>2. q \in Seq(S)
  BY <1>1, FlattenProperties
<1>3. \A i \in 1 .. Len(qs) : \A j \in 1 .. Len(qs[i]) :
        /\ off[i - 1] + j \in 1 .. Len(q)
        /\ q[off[i - 1] + j] = qs[i][j]
  BY <1>1, FlattenProperties, SMTT(60)
<1>4. \A n \in 1 .. Len(q) :
        \E i \in 1 .. Len(qs) : \E j \in 1 .. Len(qs[i]) : n = off[i - 1] + j
  BY <1>1, FlattenProperties, SMTT(60)
<1> HIDE DEF q
<1>5. /\ DOMAIN qs = 1 .. Len(qs) /\ DOMAIN q = 1 .. Len(q)
      /\ \A i \in 1 .. Len(qs) : DOMAIN qs[i] = 1 .. Len(qs[i])
  BY <1>2
<1>6. ASSUME NEW x \in Elems(q)
      PROVE  \E i \in DOMAIN qs : x \in Elems(qs[i])
  <2>1. PICK n \in 1 .. Len(q) : x = q[n]
    BY <1>5 DEF Elems
  <2>2. PICK i \in 1 .. Len(qs) : \E j \in 1 .. Len(qs[i]) : n = off[i - 1] + j
    BY <1>4
  <2>3. PICK j \in 1 .. Len(qs[i]) : n = off[i - 1] + j
    BY <2>2
  <2>4. x = qs[i][j]
    BY <1>3, <2>1, <2>3
  <2> QED
    BY <1>5, <2>4 DEF Elems
<1>7. ASSUME NEW i \in DOMAIN qs, NEW x \in Elems(qs[i])
      PROVE  x \in Elems(q)
  <2>1. PICK j \in 1 .. Len(qs[i]) : x = qs[i][j]
    BY <1>5 DEF Elems
  <2>2. off[i - 1] + j \in 1 .. Len(q) /\ q[off[i - 1] + j] = x
    BY <1>3, <1>5, <2>1
  <2> QED
    BY <1>5, <2>2 DEF Elems
<1>8. Elems(q) = UNION { Elems(qs[i]) : i \in DOMAIN qs }
  BY <1>6, <1>7
<1> QED
  BY <1>2, <1>8 DEF q

\* A set that n different elements exhaust.
LEMMA Counted ==
    ASSUME NEW n \in Nat, NEW S, NEW f \in [1 .. n -> S],
           \A x \in S : \E i \in 1 .. n : f[i] = x,
           \A i, j \in 1 .. n : f[i] = f[j] => i = j
    PROVE  IsFiniteSet(S) /\ Cardinality(S) = n
<1>1. f \in Bijection(1 .. n, S)
  BY DEF Bijection, Injection, Surjection, IsInjective
<1>2. ExistsBijection(1 .. n, S)
  BY <1>1 DEF ExistsBijection
<1> QED
  BY <1>2, Interval, FS_Bijection

LEMMA SetToSeqElems ==
    ASSUME NEW S, IsFiniteSet(S)
    PROVE  SetToSeq(S) \in Seq(S) /\ Elems(SetToSeq(S)) = S
<1>1. PICK f \in Bijection(1 .. Cardinality(S), S) : TRUE
  BY FS_CardinalityType DEF ExistsBijection
<1>2. Cardinality(S) \in Nat
  BY FS_CardinalityType
<1>3. f \in [1 .. Cardinality(S) -> S] /\ IsInjective(f)
  BY <1>1 DEF Bijection, Injection, IsInjective
<1>4. SetToSeq(S) \in [1 .. Cardinality(S) -> S] /\ IsInjective(SetToSeq(S))
  BY <1>3 DEF SetToSeq
<1> HIDE DEF SetToSeq
<1>5. SetToSeq(S) \in Injection(1 .. Cardinality(S), S)
  BY <1>4 DEF Injection, IsInjective
<1>6. Cardinality(1 .. Cardinality(S)) = Cardinality(S)
  BY <1>2, Interval
<1>7. SetToSeq(S) \in Surjection(1 .. Cardinality(S), S)
  BY <1>5, <1>6, FS_Injection
<1> QED
  BY <1>2, <1>4, <1>7 DEF Surjection, Elems

================================================================================
