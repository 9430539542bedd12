-------------------------- MODULE PackSamplerProofs --------------------------
(***************************************************************************)
(* Theorems about PackSampler, for any number and size of groups, any      *)
(* number of live generators and any configuration PackAssumption allows.  *)
(***************************************************************************)
EXTENDS PackSamplerLen, SequenceLemmas

(* Multiples of a divisor: what padding a batch to a multiple rests on.    *)

\* Division with remainder.
LEMMA DivFacts ==
    ASSUME NEW n \in Nat, NEW d \in Nat \ {0}
    PROVE  /\ n \div d \in Nat
           /\ n % d \in 0 .. d - 1
           /\ n = d * (n \div d) + (n % d)
  BY Z3

\* Multiplication by a positive number is monotone; the next multiple is one
\* divisor further.
LEMMA TimesMonotone ==
    ASSUME NEW d \in Nat \ {0}, NEW a \in Nat, NEW b \in Nat
    PROVE  /\ a <= b => d * a <= d * b
           /\ a < b => d * a + d <= d * b
<1>0. \A c \in Nat : d * c \in Nat
  OBVIOUS
<1>1. ASSUME a <= b PROVE d * a <= d * b
  <2> DEFINE c == b - a
  <2>1. c \in Nat /\ b = a + c
    BY <1>1
  <2>2. d * b = d * a + d * c
    BY <2>1
  <2>3. d * c >= 0
    BY <1>0, <2>1
  <2> HIDE DEF c
  <2>4. d * a \in Nat /\ d * b \in Nat /\ d * c \in Nat
    BY <1>0, <2>1
  <2> QED
    BY <2>2, <2>3, <2>4
<1>2. ASSUME a < b PROVE d * a + d <= d * b
  <2> DEFINE c == b - a - 1
  <2>1. c \in Nat /\ b = a + 1 + c
    BY <1>2
  <2>2. d * b = d * a + d + d * c
    BY <2>1
  <2>3. d * c >= 0
    BY <1>0, <2>1
  <2> HIDE DEF c
  <2>4. d * a \in Nat /\ d * b \in Nat /\ d * c \in Nat
    BY <1>0, <2>1
  <2> QED
    BY <2>2, <2>3, <2>4
<1> QED
  BY <1>1, <1>2

\* A multiple leaves no remainder.
LEMMA MultipleMod ==
    ASSUME NEW q \in Nat, NEW d \in Nat \ {0}
    PROVE  (d * q) % d = 0
<1> DEFINE x == d * q
           k == x \div d
           r == x % d
<1>1. x \in Nat
  OBVIOUS
<1>2. k \in Nat /\ r \in 0 .. d - 1 /\ x = d * k + r
  BY <1>1, DivFacts
<1>3. d * q = d * k + r
  BY <1>2
<1>4. ~ (k < q)
  <2>1. k < q => d * k + d <= d * q
    BY <1>2, TimesMonotone
  <2> HIDE DEF k, r
  <2> QED
    BY <1>2, <1>3, <2>1
<1>5. q <= k => d * q <= d * k
    BY <1>2, TimesMonotone
<1> HIDE DEF k, r
<1>6. r = 0
  BY <1>2, <1>3, <1>4, <1>5
<1> QED
  BY <1>6 DEF r

\* Filling n up to the next multiple of d never passes a limit that is one.
LEMMA NextMultiple ==
    ASSUME NEW n \in Nat, NEW d \in Nat \ {0}, NEW l \in Nat, n <= l, l % d = 0, n % d # 0
    PROVE  /\ (n + (d - (n % d))) % d = 0
           /\ n + (d - (n % d)) <= l
<1> DEFINE q == n \div d
           m == l \div d
           r == n % d
<1>a. n = d * q + r /\ q \in Nat /\ r \in 0 .. d - 1
  BY DivFacts
<1>b. l = d * m + (l % d) /\ m \in Nat
  BY DivFacts
<1>c. d * m \in Nat
  BY <1>b
<1>1. n = d * q + r /\ l = d * m /\ q \in Nat /\ m \in Nat /\ r \in 1 .. d - 1
  <2> HIDE DEF q, m
  <2> QED
    BY <1>a, <1>b, <1>c
<1>2. m <= q => d * m <= d * q
  BY <1>1, TimesMonotone
<1>3. q < m => d * q + d <= d * m
  BY <1>1, TimesMonotone
<1>4. d * (q + 1) = d * q + d /\ q + 1 \in Nat
  BY <1>1
<1>5. (d * (q + 1)) % d = 0
  BY <1>4, MultipleMod
<1> HIDE DEF q, m, r
<1>6. n + (d - r) = d * q + d /\ q < m
  BY <1>1, <1>2
<1> QED
  BY <1>1, <1>3, <1>4, <1>5, <1>6 DEF r

------------------------------------------------------------------------------
(* The sampler.                                                            *)

\* An order is a sequence of all groups, so that order[k] is a group.
LEMMA OrderIsSequence ==
    ASSUME NEW o \in Orders
    PROVE  /\ o \in Seq(Groups)
           /\ Len(o) = NumGroups
           /\ \A k \in Groups : o[k] \in Groups
  BY PackAssumption DEF Orders, Groups

\* Appending a whole group to a list of whole groups gives another.
LEMMA ExtendType ==
    ASSUME NEW p \in Rows, NEW g \in Groups
    PROVE  /\ Extend(p, g) \in Rows
           /\ Extend(p, g).groups = Append(p.groups, g)
           /\ Extend(p, g).rows = p.rows + Size[g]
           /\ Size[g] \in Positive
  BY PackAssumption DEF Extend, Rows, Positive, Groups

\* The padding of _pad_to_divisor is a natural number, and a limit that holds
\* before padding holds after it.
LEMMA PadType ==
    ASSUME NEW n \in Nat, NEW limit \in Nat, divisor \in Positive
    PROVE  /\ PadNeed(n) \in Nat
           /\ PadUpTo(n, limit) \in Nat
           /\ n <= limit => n + PadUpTo(n, limit) <= limit
<1>1. n % divisor \in 0 .. divisor - 1
  BY DEF Positive
<1>2. PadNeed(n) \in Nat
  BY <1>1 DEF PadNeed, Positive
<1> QED
  BY <1>2 DEF PadUpTo, Min2, Max2
-----------------------------------------------------------------------------
(* Type correctness.                                                       *)

\* A yield of a well-formed batch keeps the types.
LEMMA YieldType ==
    ASSUME TypeOK, NEW i \in Iters, NEW batch \in Rows, NEW pad \in Nat,
           NEW next \in 1 .. NumGroups + 1, NEW point \in GenPoints,
           Yield(i, batch, pad, next, point)
    PROVE  TypeOK'
<1>1. out' \in Batch
  <2>1. batch.groups \in Seq(Groups) /\ batch.rows \in Nat
    BY DEF Rows
  <2>2. allow \in BOOLEAN /\ bsz \in BatchSizes /\ divisor \in Positive
    BY PackAssumption DEF TypeOK
  <2> QED
    BY <2>1, <2>2 DEF Yield, Batch
<1>2. delivered' \in Seq(Groups)
  BY DEF Yield, TypeOK, Rows
<1>3. gen' \in [Iters -> GenPoints]
  BY DEF Yield, TypeOK
<1>4. pending' \in Rows /\ tmp' \in Rows
  BY DEF Yield, Empty, Rows
<1>5. cursor' \in 1 .. NumGroups + 1 /\ cur' \in 1 .. NumGroups + 1
  BY PackAssumption DEF Yield
<1> QED
  BY <1>1, <1>2, <1>3, <1>4, <1>5 DEF Yield, TypeOK

\* Resetting the order keeps the types of what it assigns.
LEMMA ResetType ==
    ASSUME NEW e \in Epochs, ResetOrder(e)
    PROVE  /\ epoch' \in Epochs /\ order' \in Orders
           /\ cursor' \in 1 .. NumGroups + 1
           /\ pending' \in Rows /\ delivered' \in Seq(Groups)
  BY PackAssumption DEF ResetOrder, Empty, Rows

\* A step of the generator's loop keeps the types.
LEMMA GenStepType ==
    ASSUME TypeOK, NEW i \in Iters, GenStep(i)
    PROVE  TypeOK'
<1> USE DEF GenPoints
<1>a. Empty \in Rows /\ NumGroups \in Nat
  BY PackAssumption DEF Empty, Rows
<1>b. bsz \in Nat /\ divisor \in Positive
  BY PackAssumption DEF TypeOK, Positive
<1>c. InLoop(i) => /\ Here \in Groups /\ cur + 1 \in 1 .. NumGroups + 1
                   /\ Extend(tmp, Here) \in Rows
                   /\ Extend(Empty, Here) \in Rows
                   /\ Size[Here] \in Nat
  <2> SUFFICES ASSUME InLoop(i)
               PROVE  /\ Here \in Groups /\ cur + 1 \in 1 .. NumGroups + 1
                      /\ Extend(tmp, Here) \in Rows
                      /\ Extend(Empty, Here) \in Rows
                      /\ Size[Here] \in Nat
    OBVIOUS
  <2>1. cur \in Groups /\ cur + 1 \in 1 .. NumGroups + 1
    BY <1>a DEF InLoop, TypeOK, Groups
  <2>2. Here \in Groups
    BY <2>1, OrderIsSequence DEF Here, TypeOK
  <2> QED
    BY <2>1, <2>2, <1>a, ExtendType DEF TypeOK, Positive
<1>1. CASE YieldOversized(i)
  <2>1. PadNeed(Size[Here]) \in Nat
    BY <1>1, <1>b, <1>c, PadType DEF YieldOversized
  <2> QED
    BY <1>1, <1>c, <2>1, YieldType DEF YieldOversized
<1>2. CASE RejectOversized(i)
  BY <1>2, <1>a DEF RejectOversized, TypeOK, sampler
<1>3. CASE YieldPending(i)
  <2>1. PadUpTo(tmp.rows, bsz) \in Nat
    BY <1>b, PadType DEF TypeOK, Rows
  <2> QED
    BY <1>3, <2>1, YieldType DEF YieldPending, TypeOK
<1>4. CASE PackGroup(i)
  BY <1>4, <1>c DEF PackGroup, TypeOK, sampler
<1>5. CASE YieldFull(i)
  BY <1>5, <1>c, YieldType DEF YieldFull
<1>6. CASE YieldTail(i)
  <2>1. PadUpTo(tmp.rows, bsz) \in Nat
    BY <1>b, PadType DEF TypeOK, Rows
  <2> QED
    BY <1>6, <2>1, YieldType DEF YieldTail, TypeOK
<1>7. CASE Finish(i)
  BY <1>7, <1>a DEF Finish, TypeOK, sampler
<1> QED
  BY <1>1, <1>2, <1>3, <1>4, <1>5, <1>6, <1>7 DEF GenStep

\* The initial state is well-formed.
LEMMA TypeInit == Init => TypeOK
<1>1. Empty \in Rows /\ NumGroups \in Nat /\ <<>> \in Seq(Groups)
  BY PackAssumption DEF Empty, Rows
<1> QED
  BY <1>1, PackAssumption DEF Init, TypeOK, Epochs, GenPoints

\* No step leaves the types.
LEMMA TypeStep ==
    ASSUME TypeOK, [Next]_vars
    PROVE  TypeOK'
<1> USE DEF GenPoints
<1>a. Empty \in Rows /\ NumGroups \in Nat /\ <<>> \in Seq(Groups)
      /\ 1 \in 1 .. NumGroups + 1
  BY PackAssumption DEF Empty, Rows
<1> USE DEF LocalsUnused, sampler
<1>1. ASSUME NEW i \in Iters, NewIter(i) PROVE TypeOK'
  BY <1>1 DEF NewIter, TypeOK
<1>2. ASSUME NEW i \in Iters, EnterHere(i) PROVE TypeOK'
  BY <1>2 DEF EnterHere, TypeOK
<1>3. ASSUME NEW i \in Iters, EnterNextEpoch(i) PROVE TypeOK'
  <2>1. epoch + 1 \in Epochs /\ ResetOrder(epoch + 1)
    BY <1>3, PackAssumption DEF EnterNextEpoch, TypeOK, Epochs
  <2> QED
    BY <1>3, <2>1, <1>a, ResetType DEF EnterNextEpoch, TypeOK
<1>4. ASSUME NEW i \in Iters, Resume(i) PROVE TypeOK'
  BY <1>4, <1>a DEF Resume, TypeOK
<1>5. ASSUME NEW i \in Iters, ResumeTail(i) PROVE TypeOK'
  BY <1>5 DEF ResumeTail, TypeOK
<1>6. ASSUME NEW i \in Iters, GenStep(i) PROVE TypeOK'
  BY <1>6, GenStepType
<1>7. ASSUME NEW e \in Epochs, SetEpoch(e) PROVE TypeOK'
  BY <1>7, ResetType DEF SetEpoch, TypeOK
<1>8. CASE Reset
  BY <1>8, <1>a DEF Reset, TypeOK
<1>9. CASE StateDict
  BY <1>9 DEF StateDict, TypeOK, State
<1>10. CASE LoadStateDict
  <2>1. saved \in State
    BY <1>10 DEF LoadStateDict, TypeOK
  <2> QED
    BY <1>10, <2>1 DEF LoadStateDict, TypeOK, State
<1>11. CASE Restart
  BY <1>11, <1>a, PackAssumption DEF Restart, TypeOK, Epochs
<1>12. ASSUME NEW d \in Divisors, SetDivisor(d) PROVE TypeOK'
  BY <1>12, PackAssumption DEF SetDivisor, TypeOK
<1>13. CASE UNCHANGED vars
  BY <1>13 DEF vars, TypeOK
<1> QED
  BY <1>1, <1>2, <1>3, <1>4, <1>5, <1>6, <1>7, <1>8, <1>9, <1>10, <1>11,
     <1>12, <1>13 DEF Next, NextCall

\* Every reachable state of the sampler, its generators, the last batch and
\* the state on disk is well-formed: cursors stay within the order, an order
\* is always a permutation of the groups, batch_size a configured one.
THEOREM TypeCorrect == Spec => []TypeOK
<1>1. Init => TypeOK
  BY TypeInit
<1>2. TypeOK /\ [Next]_vars => TypeOK'
  BY TypeStep
<1> QED
  BY <1>1, <1>2, PTL DEF Spec

-----------------------------------------------------------------------------
(* Every group once, whole, in order.                                      *)

PassInv == TypeOK /\ DeliveredIsPrefix /\ SavedResumesExactly /\ InFlight

\* Cutting an order at two cursors and joining the pieces.
LEMMA CutOrder ==
    ASSUME NEW o \in Orders, NEW a \in 1 .. NumGroups + 1, NEW b \in a .. NumGroups + 1
    PROVE  /\ SubSeq(o, 1, a - 1) \o SubSeq(o, a, b - 1) = SubSeq(o, 1, b - 1)
           /\ SubSeq(o, a, b - 1) \in Seq(Groups)
           /\ Len(SubSeq(o, a, b - 1)) = b - a
           /\ a = b => SubSeq(o, a, b - 1) = <<>>
<1>1. NumGroups \in Nat /\ o \in Seq(Groups) /\ Len(o) = NumGroups
  BY PackAssumption, OrderIsSequence
<1>2. SubSeq(o, 1, a - 1) \o SubSeq(o, a, b - 1) = SubSeq(o, 1, b - 1)
  <2>1. 1 \in 1 .. Len(o) + 1 /\ a - 1 \in 0 .. Len(o) /\ b - 1 \in a - 1 .. Len(o)
    BY <1>1
  <2>2. SubSeq(o, 1, a - 1) \o SubSeq(o, a - 1 + 1, b - 1) = SubSeq(o, 1, b - 1)
    BY <1>1, <2>1, ConcatAdjacentSubSeq
  <2> QED
    BY <1>1, <2>2
<1>3. \A k \in a .. b - 1 : o[k] \in Groups
  BY <1>1, OrderIsSequence DEF Groups
<1>4. /\ SubSeq(o, a, b - 1) \in Seq(Groups)
      /\ Len(SubSeq(o, a, b - 1)) = b - a
  BY <1>1, <1>3, SubSeqProperties
<1>5. a = b => SubSeq(o, a, b - 1) = <<>>
  BY <1>1, SubSeqEmpty
<1> QED
  BY <1>2, <1>4, <1>5

\* Packing the group at the cursor extends the piece by one.
LEMMA GrowPiece ==
    ASSUME NEW o \in Orders, NEW b \in Groups, NEW a \in 1 .. b
    PROVE  /\ Append(SubSeq(o, a, b - 1), o[b]) = SubSeq(o, a, b)
           /\ SubSeq(o, a, b) # <<>>
<1>1. NumGroups \in Nat /\ o \in Seq(Groups) /\ Len(o) = NumGroups /\ o[b] \in Groups
  BY PackAssumption, OrderIsSequence
<1>2. SubSeq(o, a, b - 1) \in Seq(Groups)
  BY <1>1, CutOrder DEF Groups
<1>3. SubSeq(o, a, b) = SubSeq(o, a, b - 1) \o <<o[b]>>
  BY <1>1, SubSeqRecursiveSecond DEF Groups
<1>4. Append(SubSeq(o, a, b - 1), o[b]) = SubSeq(o, a, b - 1) \o <<o[b]>>
  BY <1>1, <1>2, AppendIsConcat
<1>5. Append(SubSeq(o, a, b - 1), o[b]) # <<>>
  BY <1>1, <1>2, AppendProperties
<1> QED
  BY <1>3, <1>4, <1>5

\* A yield whose batch is the groups from the cursor up to next advances the
\* delivered prefix to next and leaves nothing in flight.
LEMMA YieldDelivers ==
    ASSUME PassInv, NEW i \in Iters, NEW batch \in Rows, NEW pad \in Nat,
           NEW next \in cursor .. NumGroups + 1, NEW point \in GenPoints,
           batch.groups = SubSeq(order, cursor, next - 1),
           Yield(i, batch, pad, next, point)
    PROVE  PassInv'
<1>1. NumGroups \in Nat /\ cursor \in 1 .. NumGroups + 1 /\ order \in Orders
  BY PackAssumption DEF PassInv, TypeOK
<1>2. next \in 1 .. NumGroups + 1
  BY <1>1
<1>3. TypeOK'
  BY <1>2, YieldType DEF PassInv
<1>4. DeliveredIsPrefix'
  <2>1. delivered' = SubSeq(order, 1, cursor - 1) \o SubSeq(order, cursor, next - 1)
    BY DEF Yield, PassInv, DeliveredIsPrefix
  <2>2. delivered' = SubSeq(order, 1, next - 1)
    BY <1>1, <2>1, CutOrder
  <2> QED
    BY <2>2 DEF Yield, DeliveredIsPrefix
<1>5. SavedResumesExactly'
  BY DEF Yield, PassInv, SavedResumesExactly
<1>6. InFlight'
  BY DEF Yield, InFlight, Idle
<1> QED
  BY <1>3, <1>4, <1>5, <1>6 DEF PassInv

\* Resetting the order starts a pass of which nothing has been delivered.
LEMMA ResetDelivers ==
    ASSUME NEW e \in Epochs, ResetOrder(e)
    PROVE  DeliveredIsPrefix' /\ pending' = Empty
<1>1. SubSeq(order', 1, 0) = <<>>
  BY SubSeqEmpty
<1> QED
  BY <1>1 DEF ResetOrder, DeliveredIsPrefix

\* A step of the generator's loop keeps PassInv.
LEMMA GenStepDelivers ==
    ASSUME PassInv, NEW i \in Iters, GenStep(i)
    PROVE  PassInv'
<1> USE DEF GenPoints
<1>a. TypeOK /\ TypeOK' /\ NumGroups \in Nat /\ running = i /\ ~ Idle
  BY GenStepType, PackAssumption DEF PassInv, GenStep, YieldOversized,
     RejectOversized, YieldPending, PackGroup, YieldFull, YieldTail, Finish,
     InLoop, Idle
<1>b. /\ cursor \in 1 .. cur /\ cur \in 1 .. NumGroups + 1 /\ order \in Orders
      /\ cur \in cursor .. NumGroups + 1
      /\ bsz \in Nat /\ divisor \in Positive
      /\ tmp \in Rows /\ tmp.groups = SubSeq(order, cursor, cur - 1)
      /\ tmp.rows \in Nat /\ tmp.rows < bsz
      /\ tmp.rows = 0 <=> tmp.groups = <<>>
  BY <1>a, PackAssumption DEF PassInv, InFlight, TypeOK, Rows, Positive
<1>c. ASSUME InLoop(i)
      PROVE  /\ Here \in Groups /\ cur \in Groups /\ Size[Here] \in Positive
             /\ cur + 1 \in cursor .. NumGroups + 1
             /\ Extend(tmp, Here) \in Rows
             /\ Extend(tmp, Here).groups = SubSeq(order, cursor, cur)
             /\ Extend(tmp, Here).rows = tmp.rows + Size[Here]
             /\ Extend(tmp, Here).groups # <<>>
  <2>1. cur \in Groups /\ Here \in Groups /\ cur + 1 \in cursor .. NumGroups + 1
    BY <1>b, <1>c, <1>a, OrderIsSequence DEF InLoop, Here, Groups
  <2>2. /\ Append(tmp.groups, Here) = SubSeq(order, cursor, cur)
        /\ SubSeq(order, cursor, cur) # <<>>
    BY <1>b, <2>1, GrowPiece DEF Here
  <2> QED
    BY <1>b, <2>1, <2>2, ExtendType
<1>1. CASE YieldOversized(i)
  <2>1. InLoop(i) /\ tmp.groups = <<>> /\ Empty \in Rows /\ Empty.groups = <<>>
    BY <1>1, <1>b DEF YieldOversized, Empty, Rows
  <2>2. Extend(Empty, Here).groups = SubSeq(order, cursor, cur)
    BY <1>c, <2>1, <1>b, ExtendType
  <2>3. Extend(Empty, Here) \in Rows /\ PadNeed(Size[Here]) \in Nat
    BY <1>c, <2>1, <1>b, ExtendType, PadType DEF Positive
  <2> DEFINE next == cur + 1
             batch == Extend(Empty, Here)
  <2>4. batch.groups = SubSeq(order, cursor, next - 1) /\ next \in cursor .. NumGroups + 1
    BY <1>b, <1>c, <2>1, <2>2
  <2>5. Yield(i, batch, PadNeed(Size[Here]), next, "loop") /\ batch \in Rows
    BY <1>1, <2>3 DEF YieldOversized
  <2> HIDE DEF next, batch
  <2> QED
    BY <2>3, <2>4, <2>5, YieldDelivers
<1>2. CASE RejectOversized(i)
  BY <1>2, <1>a DEF RejectOversized, PassInv, DeliveredIsPrefix,
     SavedResumesExactly, InFlight, Idle, sampler
<1>3. CASE YieldPending(i)
  <2>1. PadUpTo(tmp.rows, bsz) \in Nat
    BY <1>b, PadType
  <2> QED
    BY <1>3, <1>b, <2>1, YieldDelivers DEF YieldPending
<1>4. CASE PackGroup(i)
  <2>1. InLoop(i) /\ cur' = cur + 1 /\ tmp' = Extend(tmp, Here) /\ tmp.rows + Size[Here] < bsz
        /\ UNCHANGED <<cursor, order, pending, bsz, gen, running, saved, delivered>>
    BY <1>4 DEF PackGroup, sampler
  <2>2. InFlight'
    BY <1>a, <1>b, <1>c, <2>1 DEF InFlight, Idle, PassInv, Positive
  <2> QED
    BY <1>a, <2>1, <2>2 DEF PassInv, DeliveredIsPrefix, SavedResumesExactly
<1>5. CASE YieldFull(i)
  <2> DEFINE next == cur + 1
             batch == Extend(tmp, Here)
  <2>1. InLoop(i) /\ Yield(i, batch, 0, next, "loop")
    BY <1>5 DEF YieldFull
  <2>2. /\ batch.groups = SubSeq(order, cursor, next - 1) /\ batch \in Rows
        /\ next \in cursor .. NumGroups + 1
    BY <1>b, <1>c, <2>1
  <2> HIDE DEF next, batch
  <2> QED
    BY <2>1, <2>2, YieldDelivers
<1>6. CASE YieldTail(i)
  <2>1. PadUpTo(tmp.rows, bsz) \in Nat
    BY <1>b, PadType
  <2> QED
    BY <1>6, <1>b, <2>1, YieldDelivers DEF YieldTail
<1>7. CASE Finish(i)
  BY <1>7, <1>a DEF Finish, PassInv, DeliveredIsPrefix, SavedResumesExactly,
     InFlight, Idle, sampler
<1> QED
  BY <1>1, <1>2, <1>3, <1>4, <1>5, <1>6, <1>7 DEF GenStep

\* PassInv is inductive.
LEMMA PassInvariant == Spec => []PassInv
<1>1. Init => PassInv
  <2> SUFFICES ASSUME Init PROVE PassInv
    OBVIOUS
  <2>1. TypeOK
    BY TypeInit
  <2>2. SubSeq(order, 1, 0) = <<>>
    BY SubSeqEmpty
  <2> QED
    BY <2>1, <2>2 DEF Init, PassInv, DeliveredIsPrefix,
       SavedResumesExactly, InFlight, Idle
<1>2. PassInv /\ [Next]_vars => PassInv'
  <2> SUFFICES ASSUME PassInv, [Next]_vars PROVE PassInv'
    OBVIOUS
  <2>t. TypeOK'
    BY TypeStep DEF PassInv
  <2>a. NumGroups \in Nat
    BY PackAssumption
  <2> USE DEF LocalsUnused, sampler, PassInv
  <2>1. ASSUME NEW i \in Iters, NewIter(i) PROVE PassInv'
    BY <2>t, <2>1 DEF NewIter, DeliveredIsPrefix, SavedResumesExactly, InFlight, Idle
  <2>2. ASSUME NEW i \in Iters, EnterHere(i) PROVE PassInv'
    <3>1. SubSeq(order, cursor, cursor - 1) = <<>>
      BY SubSeqEmpty DEF TypeOK
    <3>2. InFlight'
      BY <2>2, <3>1, PackAssumption DEF EnterHere, InFlight, Idle, Empty, TypeOK, Positive
    <3> QED
      BY <2>t, <2>2, <3>2 DEF EnterHere, DeliveredIsPrefix, SavedResumesExactly
  <2>3. ASSUME NEW i \in Iters, EnterNextEpoch(i) PROVE PassInv'
    <3>1. epoch + 1 \in Epochs /\ ResetOrder(epoch + 1)
      BY <2>3, PackAssumption DEF EnterNextEpoch, TypeOK, Epochs
    <3>2. SubSeq(order', 1, 0) = <<>>
      BY SubSeqEmpty
    <3>3. InFlight'
      BY <2>3, <3>2, PackAssumption
         DEF EnterNextEpoch, ResetOrder, InFlight, Idle, Empty, TypeOK, Positive
    <3> QED
      BY <2>t, <2>3, <3>1, <3>3, ResetDelivers DEF EnterNextEpoch, SavedResumesExactly
  <2>4. ASSUME NEW i \in Iters, Resume(i) PROVE PassInv'
    <3>1. SubSeq(order, cursor, cursor - 1) = <<>>
      BY SubSeqEmpty DEF TypeOK
    <3>2. InFlight'
      BY <2>4, <3>1, PackAssumption DEF Resume, InFlight, Idle, Empty, TypeOK, Positive
    <3> QED
      BY <2>t, <2>4, <3>2 DEF Resume, DeliveredIsPrefix, SavedResumesExactly
  <2>5. ASSUME NEW i \in Iters, ResumeTail(i) PROVE PassInv'
    BY <2>t, <2>5 DEF ResumeTail, DeliveredIsPrefix, SavedResumesExactly, InFlight, Idle
  <2>6. ASSUME NEW i \in Iters, GenStep(i) PROVE PassInv'
    BY <2>6, GenStepDelivers
  <2>7. ASSUME NEW e \in Epochs, SetEpoch(e) PROVE PassInv'
    BY <2>t, <2>7, ResetDelivers DEF SetEpoch, SavedResumesExactly, InFlight, Idle
  <2>8. CASE Reset
    <3>1. SubSeq(order', 1, 0) = <<>>
      BY SubSeqEmpty
    <3> QED
      BY <2>t, <2>8, <3>1 DEF Reset, DeliveredIsPrefix, SavedResumesExactly, InFlight, Idle
  <2>9. CASE StateDict
    BY <2>t, <2>9 DEF StateDict, DeliveredIsPrefix, SavedResumesExactly, InFlight, Idle
  <2>10. CASE LoadStateDict
    BY <2>t, <2>10 DEF LoadStateDict, DeliveredIsPrefix, SavedResumesExactly, InFlight, Idle
  <2>11. CASE Restart
    <3>1. SubSeq(order', 1, 0) = <<>>
      BY SubSeqEmpty
    <3> QED
      BY <2>t, <2>11, <3>1 DEF Restart, DeliveredIsPrefix, SavedResumesExactly, InFlight, Idle
  <2>12. ASSUME NEW d \in Divisors, SetDivisor(d) PROVE PassInv'
    BY <2>t, <2>12 DEF SetDivisor, DeliveredIsPrefix, SavedResumesExactly, InFlight, Idle
  <2>13. CASE UNCHANGED vars
    BY <2>t, <2>13 DEF vars, DeliveredIsPrefix, SavedResumesExactly, InFlight, Idle
  <2> QED
    BY <2>1, <2>2, <2>3, <2>4, <2>5, <2>6, <2>7, <2>8, <2>9, <2>10, <2>11,
       <2>12, <2>13 DEF Next, NextCall
<1> QED
  BY <1>1, <1>2, PTL DEF Spec

\* In a pass the batches of all live generators together hold every group
\* before the cursor once, whole and in order: re-entrancy, set_epoch, a
\* restored state and a crash lose nothing and repeat nothing.
THEOREM EveryGroupOnce == Spec => []DeliveredIsPrefix
  BY PassInvariant, PTL DEF PassInv

\* A state on disk names exactly the groups that were still to come when it
\* was taken, whatever ran between saving and loading it.
THEOREM SavedStateResumes == Spec => []SavedResumesExactly
  BY PassInvariant, PTL DEF PassInv
-----------------------------------------------------------------------------
(* The sampler implements EpochDelivery: what is still to come of a pass   *)
(* is the order behind the cursor.                                         *)

\* Advancing the cursor over some groups cuts them off what is to come.
LEMMA CutRest ==
    ASSUME NEW o \in Orders, NEW a \in Groups, NEW b \in a + 1 .. NumGroups + 1
    PROVE  LET rest == SubSeq(o, a, NumGroups) IN
           /\ b - a \in 1 .. Len(rest)
           /\ SubSeq(rest, 1, b - a) = SubSeq(o, a, b - 1)
           /\ SubSeq(rest, b - a + 1, Len(rest)) = SubSeq(o, b, NumGroups)
<1> DEFINE rest == SubSeq(o, a, NumGroups)
<1>1. /\ NumGroups \in Nat \ {0} /\ o \in Seq(Groups) /\ Len(o) = NumGroups
      /\ a \in Nat \ {0} /\ a <= NumGroups /\ b \in Nat /\ a < b /\ b <= NumGroups + 1
  BY PackAssumption, OrderIsSequence DEF Groups
<1>2. rest \in Seq(Groups) /\ Len(rest) = NumGroups + 1 - a
  <2>1. SubSeq(o, a, NumGroups + 1 - 1) \in Seq(Groups)
        /\ Len(SubSeq(o, a, NumGroups + 1 - 1)) = NumGroups + 1 - a
    BY <1>1, CutOrder
  <2> QED
    BY <1>1, <2>1
<1>3. b - a \in 1 .. Len(rest)
  BY <1>1, <1>2
<1>4. SubSeq(rest, 1, b - a) = SubSeq(o, a, b - 1)
  <2>1. SubSeq(rest, 1, b - a) = SubSeq(o, a + 1 - 1, a + (b - a) - 1)
    <3>1. /\ a \in 1 .. Len(o) /\ NumGroups \in 1 .. Len(o)
          /\ 1 \in 1 .. NumGroups - a + 1 /\ b - a \in 1 .. NumGroups - a + 1
      BY <1>1
    <3> QED
      BY <1>1, <3>1, SubSeqOfSubSeq
  <2> QED
    BY <1>1, <2>1
<1>5. SubSeq(rest, b - a + 1, Len(rest)) = SubSeq(o, b, NumGroups)
  <2>1. CASE b = NumGroups + 1
    <3>1. SubSeq(o, b, NumGroups) = <<>>
      BY <1>1, <2>1, SubSeqEmpty
    <3>2. SubSeq(rest, b - a + 1, Len(rest)) = <<>>
      <4>1. Len(rest) < b - a + 1 /\ b - a + 1 \in Int /\ Len(rest) \in Int
        BY <1>1, <1>2, <2>1
      <4> QED
        BY <4>1, SubSeqEmpty
    <3> QED
      BY <3>1, <3>2
  <2>2. CASE b <= NumGroups
    <3>1. /\ a \in 1 .. Len(o) /\ NumGroups \in 1 .. Len(o)
          /\ b - a + 1 \in 1 .. NumGroups - a + 1
          /\ Len(rest) \in 1 .. NumGroups - a + 1
      BY <1>1, <1>2, <2>2
    <3>2. SubSeq(rest, b - a + 1, Len(rest)) = SubSeq(o, a + (b - a + 1) - 1, a + Len(rest) - 1)
      BY <1>1, <3>1, SubSeqOfSubSeq
    <3>3. a + (b - a + 1) - 1 = b /\ a + Len(rest) - 1 = NumGroups
      BY <1>1, <1>2
    <3> QED
      BY <3>2, <3>3
  <2> QED
    BY <1>1, <2>1, <2>2
<1> QED
  BY <1>3, <1>4, <1>5

\* What is to come is a sequence of groups.
LEMMA RestOfOrder ==
    ASSUME NEW o \in Orders, NEW a \in 1 .. NumGroups + 1
    PROVE  SubSeq(o, a, NumGroups) \in Seq(Groups)
<1>1. NumGroups \in Nat /\ \A k \in a .. NumGroups : o[k] \in Groups
  BY PackAssumption, OrderIsSequence DEF Groups
<1> QED
  BY <1>1, SubSeqProperties

\* At the start of a pass all of the order is to come.
LEMMA WholeOrder ==
    ASSUME NEW o \in Orders
    PROVE  SubSeq(o, 1, NumGroups) \in Delivery!Passes
<1>1. o \in Seq(Groups) /\ Len(o) = NumGroups
  BY OrderIsSequence
<1>2. SubSeq(o, 1, NumGroups) = o
  BY <1>1, SubSeqFull
<1> QED
  BY <1>2 DEF Orders, Groups, Delivery!Passes

\* A yield of the groups from the cursor up to next, one at least.
LEMMA YieldIsDelivery ==
    ASSUME PassInv, NEW i, NEW batch, NEW pad, NEW next, NEW point,
           next \in cursor + 1 .. NumGroups + 1,
           batch.groups = SubSeq(order, cursor, next - 1),
           Yield(i, batch, pad, next, point)
    PROVE  Delivery!Deliver
<1> DEFINE todo == SubSeq(order, cursor, NumGroups)
<1>1. /\ order \in Orders /\ cursor \in Groups /\ NumGroups \in Nat
      /\ next \in cursor + 1 .. NumGroups + 1
  BY PackAssumption DEF PassInv, TypeOK, Groups
<1>2. /\ order' = order /\ cursor' = next /\ saved' = saved
      /\ delivered' = delivered \o batch.groups
  BY DEF Yield
<1>3. /\ next - cursor \in 1 .. Len(todo)
      /\ delivered' = delivered \o SubSeq(todo, 1, next - cursor)
      /\ SubSeq(order', cursor', NumGroups) = SubSeq(todo, next - cursor + 1, Len(todo))
  BY <1>1, <1>2, CutRest
<1> QED
  BY <1>2, <1>3 DEF Delivery!Deliver

\* Resetting the order, and staying where one is.
LEMMA ResetIsNewPass ==
    ASSUME order' \in Orders, cursor' = 1, delivered' = <<>>, saved' = saved
    PROVE  Delivery!NewPass
  BY WholeOrder DEF Delivery!NewPass

LEMMA StaysPut ==
    ASSUME UNCHANGED <<order, cursor, saved, delivered>>
    PROVE  UNCHANGED Delivery!dvars
  BY DEF Delivery!dvars

\* Every step of the generator's loop yields the next groups or none.
LEMMA GenStepIsDelivery ==
    ASSUME PassInv, NEW i \in Iters, GenStep(i)
    PROVE  Delivery!Deliver \/ UNCHANGED Delivery!dvars
<1>a. /\ running = i /\ ~ Idle /\ NumGroups \in Nat /\ order \in Orders
      /\ cursor \in 1 .. cur /\ cur \in 1 .. NumGroups + 1
      /\ tmp \in Rows /\ tmp.groups = SubSeq(order, cursor, cur - 1)
      /\ tmp.rows \in Nat /\ tmp.rows = 0 <=> tmp.groups = <<>>
  BY PackAssumption DEF PassInv, TypeOK, InFlight, Rows, GenStep, YieldOversized,
     RejectOversized, YieldPending, PackGroup, YieldFull, YieldTail, Finish, InLoop, Idle
<1>b. tmp.rows > 0 => cur \in cursor + 1 .. NumGroups + 1
  <2>1. cursor = cur => tmp.groups = <<>>
    BY <1>a, SubSeqEmpty
  <2> QED
    BY <1>a, <2>1
<1>c. ASSUME InLoop(i)
      PROVE  /\ cur + 1 \in cursor + 1 .. NumGroups + 1
             /\ Append(tmp.groups, Here) = SubSeq(order, cursor, cur)
  <2>1. cur \in Groups /\ cursor \in 1 .. cur
    BY <1>a, <1>c DEF InLoop, Groups
  <2>2. Append(SubSeq(order, cursor, cur - 1), order[cur]) = SubSeq(order, cursor, cur)
    BY <1>a, <2>1, GrowPiece
  <2> QED
    BY <1>a, <2>1, <2>2 DEF Here, Groups
<1>1. CASE YieldOversized(i)
  <2> DEFINE batch == Extend(Empty, Here)
             next == cur + 1
  <2>1. InLoop(i) /\ tmp.groups = <<>>
    BY <1>1, <1>a DEF YieldOversized
  <2>2. batch.groups = SubSeq(order, cursor, next - 1) /\ next \in cursor + 1 .. NumGroups + 1
    <3>1. Append(tmp.groups, Here) = SubSeq(order, cursor, next - 1)
          /\ next \in cursor + 1 .. NumGroups + 1
      <4>1. next - 1 = cur
        BY <1>a
      <4> QED
        BY <1>c, <2>1, <4>1
    <3>2. batch.groups = Append(<<>>, Here)
      BY DEF Extend, Empty
    <3> QED
      BY <2>1, <3>1, <3>2
  <2>3. Yield(i, batch, PadNeed(Size[Here]), next, "loop")
    BY <1>1 DEF YieldOversized
  <2> HIDE DEF batch, next
  <2>4. Delivery!Deliver
    BY <2>2, <2>3, YieldIsDelivery
  <2> QED
    BY <2>4
<1>2. CASE YieldPending(i)
  BY <1>2, <1>a, <1>b, YieldIsDelivery DEF YieldPending
<1>3. CASE YieldFull(i)
  <2> DEFINE batch == Extend(tmp, Here)
             next == cur + 1
  <2>1. InLoop(i) /\ Yield(i, batch, 0, next, "loop")
    BY <1>3 DEF YieldFull
  <2>2. batch.groups = SubSeq(order, cursor, next - 1) /\ next \in cursor + 1 .. NumGroups + 1
    <3>1. Append(tmp.groups, Here) = SubSeq(order, cursor, next - 1)
          /\ next \in cursor + 1 .. NumGroups + 1
      <4>1. next - 1 = cur
        BY <1>a
      <4> QED
        BY <1>c, <2>1, <4>1
    <3>2. batch.groups = Append(tmp.groups, Here)
      BY DEF Extend
    <3> QED
      BY <3>1, <3>2
  <2> HIDE DEF batch, next
  <2>3. Delivery!Deliver
    BY <2>1, <2>2, YieldIsDelivery
  <2> QED
    BY <2>3
<1>4. CASE YieldTail(i)
  BY <1>4, <1>a, <1>b, YieldIsDelivery DEF YieldTail
<1>5. CASE RejectOversized(i) \/ PackGroup(i) \/ Finish(i)
  BY <1>5, StaysPut DEF RejectOversized, PackGroup, Finish, sampler
<1> QED
  BY <1>1, <1>2, <1>3, <1>4, <1>5 DEF GenStep

\* Whatever the generators do, and whatever is reset, saved, restored or lost in
\* between, the caller sees passes over the groups, each delivered in order, left
\* for a new one, or continued from a saved position (packFullGroupsBatchSampler.py:167-390).
THEOREM SamplerImplementsDelivery == Spec => ImplementsDelivery
<1>1. Init => Delivery!Init
  BY WholeOrder, PackAssumption DEF Init, Delivery!Init, Epochs
<1>2. PassInv /\ [Next]_vars => [Delivery!Next]_(Delivery!dvars)
  <2> SUFFICES ASSUME PassInv, [Next]_vars
               PROVE  Delivery!Next \/ UNCHANGED Delivery!dvars
    OBVIOUS
  <2>a. /\ order \in Orders /\ cursor \in 1 .. NumGroups + 1 /\ NumGroups \in Nat
        /\ delivered \in Seq(Groups) /\ saved \in State \cup {NoState}
    BY PackAssumption DEF PassInv, TypeOK
  <2>b. \A e \in Epochs : ShuffleOf[e] \in Orders
    BY PackAssumption
  <2>1. ASSUME NEW i \in Iters, NewIter(i) \/ EnterHere(i) \/ Resume(i) \/ ResumeTail(i)
        PROVE  UNCHANGED Delivery!dvars
    BY <2>1, StaysPut DEF NewIter, EnterHere, Resume, ResumeTail, sampler
  <2>2. ASSUME NEW i \in Iters, EnterNextEpoch(i) PROVE Delivery!NewPass
    <3>1. epoch + 1 \in Epochs
      BY <2>2, PackAssumption DEF EnterNextEpoch, PassInv, TypeOK, Epochs
    <3> QED
      BY <2>2, <2>b, <3>1, ResetIsNewPass DEF EnterNextEpoch, ResetOrder
  <2>3. ASSUME NEW i \in Iters, GenStep(i)
        PROVE  Delivery!Deliver \/ UNCHANGED Delivery!dvars
    BY <2>3, GenStepIsDelivery
  <2>4. ASSUME NEW e \in Epochs, SetEpoch(e) PROVE Delivery!NewPass
    BY <2>4, <2>b, ResetIsNewPass DEF SetEpoch, ResetOrder
  <2>5. CASE Reset
    BY <2>5, <2>a, ResetIsNewPass DEF Reset, Delivery!Next
  <2>6. CASE StateDict
    <3>1. saved' = [epoch |-> epoch, order |-> order, cursor |-> cursor,
                    pending |-> pending, bsz |-> bsz, allow |-> allow,
                    delivered |-> delivered]
          /\ UNCHANGED <<order, cursor, delivered>>
      BY <2>6 DEF StateDict, sampler
    <3>2. saved' \in State
      BY <3>1 DEF PassInv, TypeOK, State
    <3>3. saved' # NoState
      BY <3>2, StateAssumption
    <3>4. /\ saved'.order = order /\ saved'.cursor = cursor
          /\ saved'.delivered = delivered
      BY <3>1
    <3>5. Delivery!Save
      BY <3>1, <3>3, <3>4 DEF Delivery!Save
    <3> QED
      BY <3>5 DEF Delivery!Next
  <2>7. CASE LoadStateDict
    <3>1. saved # NoState /\ saved \in State
      BY <2>7, <2>a DEF LoadStateDict
    <3>2. SubSeq(saved.order, saved.cursor, NumGroups) \in Seq(Groups)
      <4>1. saved.order \in Orders /\ saved.cursor \in 1 .. NumGroups + 1
        BY <3>1 DEF State
      <4> QED
        BY <4>1, RestOfOrder
    <3>3. [todo |-> SubSeq(saved.order, saved.cursor, NumGroups), done |-> saved.delivered]
            # NoState
      <4>1. saved.delivered \in Seq(Groups)
        BY <3>1 DEF State
      <4>2. \A p, d \in Seq(Groups) : [todo |-> p, done |-> d] # NoState
        BY StateAssumption
      <4> QED
        BY <3>2, <4>1, <4>2
    <3>4. /\ order' = saved.order /\ cursor' = saved.cursor
          /\ delivered' = saved.delivered /\ saved' = saved
      BY <2>7 DEF LoadStateDict
    <3> QED
      BY <3>1, <3>3, <3>4 DEF Delivery!Next, Delivery!Restore
  <2>8. CASE Restart
    BY <2>8, <2>b, PackAssumption, ResetIsNewPass DEF Restart, Epochs, Delivery!Next
  <2>9. ASSUME NEW d \in Divisors, SetDivisor(d) PROVE UNCHANGED Delivery!dvars
    BY <2>9, StaysPut DEF SetDivisor
  <2>10. CASE UNCHANGED vars
    BY <2>10, StaysPut DEF vars, sampler
  <2> QED
    BY <2>1, <2>2, <2>3, <2>4, <2>5, <2>6, <2>7, <2>8, <2>9, <2>10
       DEF Next, NextCall, Delivery!Next
<1> QED
  BY <1>1, <1>2, PassInvariant, PTL DEF Spec, ImplementsDelivery, Delivery!Spec
-----------------------------------------------------------------------------
(* What a batch may hold, and when a generator may stop.                   *)

\* A yield of a batch within its limits keeps every yielded batch so.
LEMMA YieldBounded ==
    ASSUME NEW i, NEW batch, NEW pad, NEW next, NEW point,
           Yield(i, batch, pad, next, point),
           \/ batch.rows + pad <= bsz
           \/ allow /\ Len(batch.groups) = 1 /\ batch.rows > bsz
    PROVE  BatchBounded'
  BY DEF Yield, BatchBounded

\* No batch is larger than the batch_size in force when it was packed, padding
\* included, unless it is one group too large for any batch and the
\* configuration lets it through.
THEOREM BatchesBounded == Spec => []BatchBounded
<1>1. Init => BatchBounded
  BY DEF Init, BatchBounded
<1>2. PassInv /\ BatchBounded /\ [Next]_vars => BatchBounded'
  <2> SUFFICES ASSUME PassInv, BatchBounded, [Next]_vars PROVE BatchBounded'
    OBVIOUS
  <2>a. /\ bsz \in Nat /\ divisor \in Positive /\ tmp.rows \in Nat
        /\ running # NoIter => tmp.rows < bsz
    BY PackAssumption DEF PassInv, TypeOK, InFlight, Idle, Rows, Positive
  <2>1. ASSUME NEW i \in Iters, GenStep(i) PROVE BatchBounded'
    <3>a. running = i /\ running # NoIter
      BY <2>1, PackAssumption DEF GenStep, YieldOversized, RejectOversized,
         YieldPending, PackGroup, YieldFull, YieldTail, Finish, InLoop
    <3>1. CASE YieldOversized(i)
      <4>1. /\ Len(Extend(Empty, Here).groups) = 1
            /\ Extend(Empty, Here).rows = Size[Here]
        <5>1. InLoop(i)
          BY <3>1 DEF YieldOversized
        <5>2. cur \in Groups /\ order \in Orders
          BY <5>1, PackAssumption DEF InLoop, PassInv, TypeOK, Groups
        <5>3. Here \in Groups
          BY <5>2, OrderIsSequence DEF Here
        <5> QED
          BY <5>3, PackAssumption DEF Extend, Empty, Positive
      <4>2. allow /\ Size[Here] > bsz
        BY <3>1 DEF YieldOversized
      <4> QED
        BY <3>1, <4>1, <4>2, YieldBounded DEF YieldOversized
    <3>2. CASE YieldPending(i)
      <4>1. tmp.rows + PadUpTo(tmp.rows, bsz) <= bsz
        <5>1. tmp.rows <= bsz
          BY <2>a, <3>a
        <5> QED
          BY <5>1, <2>a, PadType
      <4> QED
        BY <3>2, <4>1, YieldBounded DEF YieldPending
    <3>3. CASE YieldFull(i)
      <4>1. Extend(tmp, Here).rows + 0 <= bsz
        BY <3>3, <2>a DEF YieldFull, Extend
      <4> QED
        BY <3>3, <4>1, YieldBounded DEF YieldFull
    <3>4. CASE YieldTail(i)
      <4>1. tmp.rows + PadUpTo(tmp.rows, bsz) <= bsz
        <5>1. tmp.rows <= bsz
          BY <2>a, <3>a
        <5> QED
          BY <5>1, <2>a, PadType
      <4> QED
        BY <3>4, <4>1, YieldBounded DEF YieldTail
    <3>5. CASE RejectOversized(i) \/ PackGroup(i) \/ Finish(i)
      BY <3>5 DEF RejectOversized, PackGroup, Finish, BatchBounded
    <3> QED
      BY <2>1, <3>1, <3>2, <3>3, <3>4, <3>5 DEF GenStep
  <2>2. CASE Restart
    BY <2>2 DEF Restart, BatchBounded
  <2>3. CASE UNCHANGED out
    BY <2>3 DEF BatchBounded
  <2>4. ASSUME NEW i \in Iters, NewIter(i) \/ NextCall(i) PROVE UNCHANGED out
    BY <2>4 DEF NewIter, NextCall, EnterHere, EnterNextEpoch, Resume, ResumeTail
  <2>5. ASSUME \/ \E e \in Epochs : SetEpoch(e)
               \/ Reset \/ StateDict \/ LoadStateDict \/ UNCHANGED vars
               \/ \E d \in Divisors : SetDivisor(d)
        PROVE  UNCHANGED out
    BY <2>5 DEF SetEpoch, Reset, StateDict, LoadStateDict, SetDivisor, vars
  <2> QED
    BY <2>1, <2>2, <2>3, <2>4, <2>5 DEF Next
<1> QED
  BY <1>1, <1>2, PassInvariant, PTL DEF Spec

\* A generator that falls out of its loop has left no group of the order
\* undelivered: a for loop over the dataloader that ends has seen the epoch.
THEOREM StoppedGeneratorsDrained == Spec => StopMeansDrained
<1>1. ASSUME PassInv, [Next]_vars, vars' # vars, NEW i \in Iters, running = i,
             gen'[i] = "done"
      PROVE  Len(delivered) = NumGroups
  <2>a. running # NoIter /\ ~ Idle /\ gen[i] = "loop" /\ gen \in [Iters -> GenPoints]
    BY <1>1, PackAssumption DEF Idle, PassInv, InFlight, TypeOK
  <2>1. Finish(i)
    <3>1. ~ Restart
      BY <1>1 DEF Restart
    <3>2. \E j \in Iters : GenStep(j)
      BY <1>1, <2>a, <3>1 DEF Next, NewIter, NextCall, EnterHere, EnterNextEpoch,
         Resume, ResumeTail, SetEpoch, Reset, StateDict, LoadStateDict, SetDivisor
    <3>3. GenStep(i)
      BY <1>1, <3>2 DEF GenStep, YieldOversized, RejectOversized,
         YieldPending, PackGroup, YieldFull, YieldTail, Finish, InLoop
    <3>4. ASSUME NEW batch, NEW pad, NEW next, NEW point \in {"loop", "tail"}
          PROVE  ~ Yield(i, batch, pad, next, point)
      BY <1>1, <2>a DEF Yield
    <3>5. /\ ~ YieldOversized(i) /\ ~ YieldPending(i)
          /\ ~ YieldFull(i) /\ ~ YieldTail(i)
      BY <3>4 DEF YieldOversized, YieldPending, YieldFull, YieldTail
    <3>6. ~ RejectOversized(i) /\ ~ PackGroup(i)
      BY <1>1, <2>a DEF RejectOversized, PackGroup
    <3> QED
      BY <3>3, <3>5, <3>6 DEF GenStep
  <2>2. /\ NumGroups \in Nat /\ cursor \in 1 .. NumGroups + 1 /\ cur \in 1 .. NumGroups + 1
        /\ cur > NumGroups /\ cursor <= cur /\ order \in Orders
    BY <1>1, <2>1, <2>a, PackAssumption DEF Finish, PassInv, TypeOK, InFlight
  <2>3. SubSeq(order, cursor, cur - 1) = <<>>
    BY <1>1, <2>1, <2>a DEF Finish, PassInv, InFlight
  <2>4. cursor = NumGroups + 1
    <3>1. cur = NumGroups + 1 /\ cur \in cursor .. NumGroups + 1
      BY <2>2
    <3>2. Len(SubSeq(order, cursor, cur - 1)) = cur - cursor
      BY <2>2, <3>1, CutOrder
    <3>3. cur - cursor = 0
      BY <2>3, <3>2
    <3> QED
      BY <2>2, <3>1, <3>3
  <2>5. Len(SubSeq(order, 1, cursor - 1)) = cursor - 1
    BY <2>2, CutOrder
  <2> QED
    BY <1>1, <2>2, <2>4, <2>5 DEF PassInv, DeliveredIsPrefix
<1>2. PassInv /\ [Next]_vars => [\A i \in Iters : running = i /\ gen'[i] = "done"
                                   => Len(delivered) = NumGroups]_vars
  BY <1>1
<1> QED
  BY <1>2, PassInvariant, PTL DEF Spec, StopMeansDrained
-----------------------------------------------------------------------------
(* Batches that split evenly over the workers.                             *)

\* The padding makes a multiple of the divisor: always when unlimited, and
\* within a limit that is itself a multiple.
LEMMA PadAligns ==
    ASSUME NEW n \in Nat, NEW limit \in Nat, divisor \in Positive
    PROVE  /\ (n + PadNeed(n)) % divisor = 0
           /\ n <= limit /\ limit % divisor = 0
                => (n + PadUpTo(n, limit)) % divisor = 0
<1>1. n % divisor \in 0 .. divisor - 1 /\ n + 0 = n
  BY DEF Positive
<1>2. CASE n % divisor = 0
  <2>1. PadNeed(n) = 0 /\ PadUpTo(n, limit) = 0
    BY <1>2 DEF PadNeed, PadUpTo, Min2, Max2
  <2> QED
    BY <1>1, <1>2, <2>1
<1>3. CASE n % divisor # 0
  <2>1. PadNeed(n) = divisor - (n % divisor)
    BY <1>3 DEF PadNeed
  <2>2. (n + (divisor - (n % divisor))) % divisor = 0
    <3> DEFINE top == divisor * (n \div divisor) + divisor
    <3>1. n <= top /\ top \in Nat /\ top % divisor = 0
      <4>1. n = divisor * (n \div divisor) + (n % divisor) /\ n \div divisor \in Nat
        BY DivFacts DEF Positive
      <4>2. top = divisor * (n \div divisor + 1) /\ n \div divisor + 1 \in Nat
        BY <4>1 DEF Positive
      <4>3. top % divisor = 0
        BY <4>2, MultipleMod DEF Positive
      <4>4. divisor * (n \div divisor) \in Nat
        BY <4>1 DEF Positive
      <4> QED
        BY <1>1, <4>1, <4>3, <4>4 DEF Positive
    <3> HIDE DEF top
    <3> QED
      BY <1>3, <3>1, NextMultiple DEF Positive
  <2>3. ASSUME n <= limit, limit % divisor = 0
        PROVE  PadUpTo(n, limit) = divisor - (n % divisor)
    <3>1. n + (divisor - (n % divisor)) <= limit
      BY <1>3, <2>3, NextMultiple DEF Positive
    <3> QED
      BY <1>1, <2>1, <2>3, <3>1 DEF PadUpTo, Min2, Max2, Positive
  <2> QED
    BY <2>1, <2>2, <2>3
<1> QED
  BY <1>2, <1>3

\* A yield of a multiple of the divisor keeps every yielded batch aligned.
LEMMA YieldAligned ==
    ASSUME NEW i, NEW batch, NEW pad, NEW next, NEW point,
           Yield(i, batch, pad, next, point), (batch.rows + pad) % divisor = 0
    PROVE  Aligned'
  BY DEF Yield, Aligned

\* Where every configured batch_size is a multiple of every divisor the worker
\* groups can require, every batch is: the condition whose check init_workers
\* has commented out is sufficient.  (Without it the property fails.)
THEOREM BatchesAligned == CompatibleDivisors => (Spec => []Aligned)
<1> DEFINE DivisorInv == \A b \in BatchSizes : b % divisor = 0
<1> SUFFICES ASSUME CompatibleDivisors PROVE Spec => []Aligned
  OBVIOUS
<1>1. Init => DivisorInv /\ Aligned
  BY PackAssumption DEF Init, Aligned
<1>2. PassInv /\ DivisorInv /\ Aligned /\ [Next]_vars => (DivisorInv /\ Aligned)'
  <2> SUFFICES ASSUME PassInv, DivisorInv, Aligned, [Next]_vars
               PROVE  (DivisorInv /\ Aligned)'
    OBVIOUS
  <2>a. /\ bsz \in Nat /\ divisor \in Positive /\ tmp.rows \in Nat
        /\ running # NoIter => tmp.rows <= bsz
        /\ bsz % divisor = 0
    BY PackAssumption DEF PassInv, TypeOK, InFlight, Idle, Rows, Positive
  <2>1. ASSUME NEW i \in Iters, GenStep(i) PROVE UNCHANGED divisor /\ Aligned'
    <3>a. running = i /\ running # NoIter
      BY <2>1, PackAssumption DEF GenStep, YieldOversized, RejectOversized,
         YieldPending, PackGroup, YieldFull, YieldTail, Finish, InLoop
    <3>b. UNCHANGED divisor
      BY <2>1 DEF GenStep, YieldOversized, RejectOversized, YieldPending,
         PackGroup, YieldFull, YieldTail, Finish, Yield, sampler
    <3>1. CASE YieldOversized(i)
      <4>1. Size[Here] \in Nat /\ Extend(Empty, Here).rows = Size[Here]
        <5>1. InLoop(i)
          BY <3>1 DEF YieldOversized
        <5>2. cur \in Groups /\ order \in Orders
          BY <5>1, PackAssumption DEF InLoop, PassInv, TypeOK, Groups
        <5>3. Here \in Groups
          BY <5>2, OrderIsSequence DEF Here
        <5> QED
          BY <5>3, PackAssumption DEF Extend, Empty, Positive
      <4>2. (Size[Here] + PadNeed(Size[Here])) % divisor = 0
        BY <4>1, <2>a, PadAligns
      <4> QED
        BY <3>1, <3>b, <4>1, <4>2, YieldAligned DEF YieldOversized
    <3>2. CASE YieldPending(i)
      <4>1. (tmp.rows + PadUpTo(tmp.rows, bsz)) % divisor = 0
        BY <2>a, <3>a, PadAligns
      <4> QED
        BY <3>2, <3>b, <4>1, YieldAligned DEF YieldPending
    <3>3. CASE YieldFull(i)
      <4>1. Extend(tmp, Here).rows + 0 = bsz
        BY <3>3, <2>a DEF YieldFull, Extend
      <4> QED
        BY <3>3, <3>b, <4>1, <2>a, YieldAligned DEF YieldFull
    <3>4. CASE YieldTail(i)
      <4>1. (tmp.rows + PadUpTo(tmp.rows, bsz)) % divisor = 0
        BY <2>a, <3>a, PadAligns
      <4> QED
        BY <3>4, <3>b, <4>1, YieldAligned DEF YieldTail
    <3>5. CASE RejectOversized(i) \/ PackGroup(i) \/ Finish(i)
      BY <3>5, <3>b DEF RejectOversized, PackGroup, Finish, Aligned
    <3> QED
      BY <2>1, <3>1, <3>2, <3>3, <3>4, <3>5 DEF GenStep
  <2>2. CASE Restart
    BY <2>2, PackAssumption DEF Restart, Aligned
  <2>3. ASSUME NEW d \in Divisors, SetDivisor(d) PROVE (DivisorInv /\ Aligned)'
    BY <2>3 DEF SetDivisor, CompatibleDivisors, Aligned
  <2>4. CASE UNCHANGED <<divisor, out>>
    BY <2>4 DEF Aligned
  <2>5. ASSUME NEW i \in Iters, NewIter(i) \/ NextCall(i)
        PROVE  UNCHANGED <<divisor, out>>
    BY <2>5 DEF NewIter, NextCall, EnterHere, EnterNextEpoch, Resume, ResumeTail, sampler
  <2>6. ASSUME \/ \E e \in Epochs : SetEpoch(e)
               \/ Reset \/ StateDict \/ LoadStateDict \/ UNCHANGED vars
        PROVE  UNCHANGED <<divisor, out>>
    BY <2>6 DEF SetEpoch, Reset, StateDict, LoadStateDict, vars, sampler
  <2> QED
    BY <2>1, <2>2, <2>3, <2>4, <2>5, <2>6 DEF Next
<1> QED
  BY <1>1, <1>2, PassInvariant, PTL DEF Spec
-----------------------------------------------------------------------------
(* __len__ and the generators.                                             *)

\* The states of the simulation, and f as its run from the state a before the
\* c-th group.
Counts == [cnt : Nat, rows : Nat]
Simulates(f, o, c, a, b) ==
    f = [k \in c - 1 .. NumGroups |-> IF k = c - 1 THEN a ELSE LenStep(f[k - 1], o[k], b)]

LEMMA LenStepType ==
    ASSUME NEW a \in Counts, NEW g \in Groups, NEW b \in Positive
    PROVE  /\ LenStep(a, g, b) \in Counts
           /\ \A m \in Nat : LenStep([cnt |-> a.cnt + m, rows |-> a.rows], g, b)
                = [cnt |-> LenStep(a, g, b).cnt + m, rows |-> LenStep(a, g, b).rows]
<1>1. Size[g] \in Nat /\ Size[g] > 0 /\ a.cnt \in Nat /\ a.rows \in Nat /\ b \in Nat /\ b > 0
  BY PackAssumption DEF Counts, Positive
<1> DEFINE s == Size[g]
           flush == a.rows > 0 /\ s > b - a.rows
           r == IF flush THEN 0 ELSE a.rows
           n == IF flush THEN a.cnt + 1 ELSE a.cnt
<1>2. r \in Nat /\ n \in Nat
  BY <1>1
<1>3. LenStep(a, g, b) = IF r + s >= b THEN [cnt |-> n + 1, rows |-> 0]
                                       ELSE [cnt |-> n, rows |-> r + s]
  BY <1>1 DEF LenStep, Counts
<1>4. ASSUME NEW m \in Nat
      PROVE  LenStep([cnt |-> a.cnt + m, rows |-> a.rows], g, b)
               = IF r + s >= b THEN [cnt |-> n + 1 + m, rows |-> 0]
                               ELSE [cnt |-> n + m, rows |-> r + s]
  BY <1>1 DEF LenStep, Counts
<1>5. LenStep(a, g, b) \in Counts
  BY <1>1, <1>2, <1>3 DEF Counts
<1> HIDE DEF r, n, s
<1>6. ASSUME NEW m \in Nat
      PROVE  LenStep([cnt |-> a.cnt + m, rows |-> a.rows], g, b)
               = [cnt |-> LenStep(a, g, b).cnt + m, rows |-> LenStep(a, g, b).rows]
  <2>1. CASE r + s >= b
    <3>1. LenStep(a, g, b).cnt = n + 1 /\ LenStep(a, g, b).rows = 0
      BY <1>3, <2>1
    <3> QED
      BY <1>4, <2>1, <3>1
  <2>2. CASE ~ (r + s >= b)
    <3>1. LenStep(a, g, b).cnt = n /\ LenStep(a, g, b).rows = r + s
      BY <1>3, <2>2
    <3> QED
      BY <1>4, <2>2, <3>1
  <2> QED
    BY <2>1, <2>2
<1> QED
  BY <1>5, <1>6

LEMMA SimulationExists ==
    ASSUME NEW o \in Orders, NEW c \in 1 .. NumGroups + 1, NEW a \in Counts, NEW b \in Positive
    PROVE  \E f : Simulates(f, o, c, a, b)
<1>1. NumGroups \in Nat /\ NumGroups - (c - 1) \in Nat
  BY PackAssumption
<1> DEFINE L == NumGroups - (c - 1)
           Upto(m, f) == f = [k \in c - 1 .. c - 1 + m |->
                                IF k = c - 1 THEN a ELSE LenStep(f[k - 1], o[k], b)]
           Done == { m \in 0 .. L : \E f : Upto(m, f) }
<1>2. 0 \in Done
  <2> DEFINE f == [k \in c - 1 .. c - 1 + 0 |-> a]
  <2>1. \A k \in c - 1 .. c - 1 + 0 : k = c - 1
    BY <1>1
  <2>2. f = [k \in c - 1 .. c - 1 + 0 |-> IF k = c - 1 THEN a ELSE LenStep(f[k - 1], o[k], b)]
    BY <2>1
  <2> HIDE DEF f
  <2>3. Upto(0, f)
    BY <2>2
  <2>4. 0 \in 0 .. L
    BY <1>1
  <2> QED
    BY <2>3, <2>4
<1>3. ASSUME NEW m \in Done, m < L PROVE m + 1 \in Done
  <2>1. PICK f : Upto(m, f)
    OBVIOUS
  <2> DEFINE e == c - 1 + m
             g == [k \in c - 1 .. e + 1 |-> IF k = e + 1 THEN LenStep(f[e], o[e + 1], b) ELSE f[k]]
  <2>2. m \in Nat /\ m + 1 \in 0 .. L /\ e \in Nat /\ c - 1 \in Nat /\ c - 1 <= e
    BY <1>1, <1>3
  <2>3. ASSUME NEW k \in c - 1 .. e + 1
        PROVE  g[k] = IF k = c - 1 THEN a ELSE LenStep(g[k - 1], o[k], b)
    <3>1. CASE k = e + 1
      <4>1. g[k - 1] = f[e] /\ k # c - 1 /\ k - 1 = e
        BY <2>2, <3>1
      <4> QED
        BY <3>1, <4>1
    <3>2. CASE k # e + 1
      <4>1. k \in c - 1 .. e /\ g[k] = f[k]
        BY <2>2, <3>2
      <4>2. f[k] = IF k = c - 1 THEN a ELSE LenStep(f[k - 1], o[k], b)
        BY <2>1, <4>1
      <4>3. k # c - 1 => k - 1 \in c - 1 .. e + 1 /\ k - 1 # e + 1
        BY <2>2, <4>1
      <4>4. k # c - 1 => g[k - 1] = f[k - 1]
        BY <4>3
      <4> QED
        BY <4>1, <4>2, <4>4
    <3> QED
      BY <3>1, <3>2
  <2>4. g = [k \in c - 1 .. e + 1 |-> IF k = c - 1 THEN a ELSE LenStep(g[k - 1], o[k], b)]
    BY <2>3
  <2>5. c - 1 + (m + 1) = e + 1
    BY <2>2
  <2> HIDE DEF g
  <2>6. Upto(m + 1, g)
    BY <2>4, <2>5
  <2> QED
    BY <2>2, <2>6
<1>4. L \in Done
  <2>1. Done \in SUBSET Nat
    BY <1>1
  <2> HIDE DEF Done
  <2>2. 0 .. L \subseteq Done
    BY <1>1, <1>2, <1>3, <2>1, InductionUpTo
  <2> QED
    BY <1>1, <2>2
<1>5. c - 1 + L = NumGroups
  BY <1>1
<1> QED
  BY <1>4, <1>5 DEF Simulates

\* Two simulations that agree at one place, but for batches one has counted
\* more, agree from there on.
LEMMA SimulationsAgree ==
    ASSUME NEW o \in Orders, NEW b \in Positive,
           NEW c \in 1 .. NumGroups + 1, NEW a \in Counts, NEW f, Simulates(f, o, c, a, b),
           NEW d \in c .. NumGroups + 1, NEW e \in Counts, NEW g, Simulates(g, o, d, e, b),
           NEW m \in Nat, f[d - 1] = [cnt |-> e.cnt + m, rows |-> e.rows]
    PROVE  /\ g[NumGroups] \in Counts
           /\ f[NumGroups] = [cnt |-> g[NumGroups].cnt + m, rows |-> g[NumGroups].rows]
<1>1. NumGroups \in Nat /\ NumGroups - (d - 1) \in Nat /\ c \in Nat /\ d \in Nat /\ c >= 1 /\ c <= d
  BY PackAssumption
<1> DEFINE L == NumGroups - (d - 1)
           Same(k) == /\ g[k] \in Counts
                      /\ f[k] = [cnt |-> g[k].cnt + m, rows |-> g[k].rows]
           Done == { n \in 0 .. L : Same(d - 1 + n) }
<1>2. /\ \A k \in c .. NumGroups : f[k] = LenStep(f[k - 1], o[k], b)
      /\ \A k \in d .. NumGroups : g[k] = LenStep(g[k - 1], o[k], b)
      /\ g[d - 1] = e
  <2>1. \A k \in c .. NumGroups : k \in c - 1 .. NumGroups /\ k # c - 1
    BY <1>1
  <2>2. \A k \in d .. NumGroups : k \in d - 1 .. NumGroups /\ k # d - 1
    BY <1>1
  <2>3. d - 1 \in d - 1 .. NumGroups
    BY <1>1
  <2>4. f = [k \in c - 1 .. NumGroups |-> IF k = c - 1 THEN a ELSE LenStep(f[k - 1], o[k], b)]
    BY DEF Simulates
  <2>5. g = [k \in d - 1 .. NumGroups |-> IF k = d - 1 THEN e ELSE LenStep(g[k - 1], o[k], b)]
    BY DEF Simulates
  <2>6. \A k \in c .. NumGroups : f[k] = LenStep(f[k - 1], o[k], b)
    BY <2>1, <2>4
  <2>7. \A k \in d .. NumGroups : g[k] = LenStep(g[k - 1], o[k], b)
    BY <2>2, <2>5
  <2>8. g[d - 1] = e
    BY <2>3, <2>5
  <2> QED
    BY <2>6, <2>7, <2>8
<1>3. 0 \in Done
  <2>1. d - 1 + 0 = d - 1
    BY <1>1
  <2> QED
    BY <1>1, <1>2, <2>1
<1>4. ASSUME NEW n \in Done, n < L PROVE n + 1 \in Done
  <2> DEFINE k == d + n
  <2>1. n \in Nat /\ k \in d .. NumGroups /\ k \in c .. NumGroups /\ k - 1 = d - 1 + n
    BY <1>1, <1>4
  <2>2. Same(k - 1)
    BY <2>1
  <2>3. o[k] \in Groups
    BY <1>1, <2>1 DEF Orders, Groups
  <2>4. f[k] = LenStep(f[k - 1], o[k], b) /\ g[k] = LenStep(g[k - 1], o[k], b)
    BY <1>2, <2>1
  <2>5. Same(k)
    <3>1. g[k] \in Counts
      BY <2>2, <2>3, <2>4, LenStepType
    <3>2. f[k] = [cnt |-> LenStep(g[k - 1], o[k], b).cnt + m, rows |-> LenStep(g[k - 1], o[k], b).rows]
      BY <2>2, <2>3, <2>4, LenStepType
    <3> QED
      BY <2>4, <3>1, <3>2
  <2>6. d - 1 + (n + 1) = k /\ n + 1 \in 0 .. L
    BY <1>1, <1>4, <2>1
  <2> HIDE DEF Same
  <2> QED
    BY <2>5, <2>6
<1>5. L \in Done
  <2>1. Done \in SUBSET Nat
    BY <1>1
  <2> HIDE DEF Done
  <2>2. 0 .. L \subseteq Done
    BY <1>1, <1>3, <1>4, <2>1, InductionUpTo
  <2> QED
    BY <1>1, <2>2
<1>6. d - 1 + L = NumGroups
  BY <1>1
<1> HIDE DEF Same
<1>7. Same(NumGroups)
  BY <1>5, <1>6
<1> QED
  BY <1>7 DEF Same

\* __len__ reads the end of the simulation.
Total(a) == IF a.rows > 0 THEN a.cnt + 1 ELSE a.cnt
Nothing(r) == [cnt |-> 0, rows |-> r]

LEMMA LenIsSimulated ==
    ASSUME NEW o \in Orders, NEW c \in 1 .. NumGroups + 1, NEW r \in Nat, NEW b \in Positive
    PROVE  \E f : /\ Simulates(f, o, c, Nothing(r), b) /\ LenFrom(o, c, r, b) = Total(f[NumGroups])
                  /\ f[c - 1] = Nothing(r)
                  /\ c <= NumGroups => f[c] = LenStep(Nothing(r), o[c], b)
<1> DEFINE f == CHOOSE f : Simulates(f, o, c, Nothing(r), b)
<1>1. Nothing(r) \in Counts
  BY DEF Nothing, Counts
<1>2. Simulates(f, o, c, Nothing(r), b)
  BY <1>1, SimulationExists
<1>3. LenFrom(o, c, r, b) = Total(f[NumGroups])
  BY DEF LenFrom, Simulates, Total, Nothing
<1> HIDE DEF f
<1>4. NumGroups \in Nat /\ c - 1 \in c - 1 .. NumGroups
  BY PackAssumption
<1>5. f = [k \in c - 1 .. NumGroups |-> IF k = c - 1 THEN Nothing(r) ELSE LenStep(f[k - 1], o[k], b)]
  BY <1>2 DEF Simulates
<1>6. f[c - 1] = Nothing(r)
  BY <1>4, <1>5
<1>7. ASSUME c <= NumGroups PROVE f[c] = LenStep(Nothing(r), o[c], b)
  <2>1. c \in c - 1 .. NumGroups /\ c # c - 1
    BY <1>4, <1>7
  <2> QED
    BY <1>5, <1>6, <2>1
<1> QED
  BY <1>2, <1>3, <1>6, <1>7

\* The groups behind the next one are counted as if the simulation began there.
LEMMA LenGoesOn ==
    ASSUME NEW o \in Orders, NEW c \in 1 .. NumGroups, NEW r \in Nat, NEW b \in Positive,
           NEW m \in Nat, NEW n \in Nat,
           LenStep(Nothing(r), o[c], b) = [cnt |-> m, rows |-> n]
    PROVE  LenFrom(o, c, r, b) = m + LenFrom(o, c + 1, n, b) /\ LenFrom(o, c + 1, n, b) \in Nat
<1>1. NumGroups \in Nat /\ c \in 1 .. NumGroups + 1 /\ c + 1 \in c .. NumGroups + 1 /\ (c + 1) - 1 = c
      /\ c + 1 \in 1 .. NumGroups + 1
  BY PackAssumption
<1>2. PICK f : /\ Simulates(f, o, c, Nothing(r), b) /\ LenFrom(o, c, r, b) = Total(f[NumGroups])
               /\ c <= NumGroups => f[c] = LenStep(Nothing(r), o[c], b)
  BY <1>1, LenIsSimulated
<1>3. PICK g : /\ Simulates(g, o, c + 1, Nothing(n), b) /\ LenFrom(o, c + 1, n, b) = Total(g[NumGroups])
  BY <1>1, LenIsSimulated
<1>4. Nothing(r) \in Counts /\ Nothing(n) \in Counts
  BY DEF Nothing, Counts
<1>5. f[(c + 1) - 1] = [cnt |-> Nothing(n).cnt + m, rows |-> Nothing(n).rows]
  BY <1>1, <1>2 DEF Nothing
<1>6. /\ g[NumGroups] \in Counts
      /\ f[NumGroups] = [cnt |-> g[NumGroups].cnt + m, rows |-> g[NumGroups].rows]
  BY <1>1, <1>2, <1>3, <1>4, <1>5, SimulationsAgree
<1>7. g[NumGroups].cnt \in Nat /\ g[NumGroups].rows \in Nat
  BY <1>6 DEF Counts
<1> QED
  BY <1>2, <1>3, <1>6, <1>7 DEF Total

LEMMA LenAtEnd ==
    ASSUME NEW o \in Orders, NEW r \in Nat, NEW b \in Positive
    PROVE  LenFrom(o, NumGroups + 1, r, b) = IF r > 0 THEN 1 ELSE 0
<1>1. NumGroups \in Nat /\ NumGroups + 1 \in 1 .. NumGroups + 1 /\ (NumGroups + 1) - 1 = NumGroups
  BY PackAssumption
<1>2. PICK f : /\ LenFrom(o, NumGroups + 1, r, b) = Total(f[NumGroups])
               /\ f[(NumGroups + 1) - 1] = Nothing(r)
  BY <1>1, LenIsSimulated
<1> QED
  BY <1>1, <1>2 DEF Total, Nothing

\* What one turn of the loop of __iter__ does to what __len__ counts.
LEMMA LenOfTurn ==
    ASSUME NEW o \in Orders, NEW c \in 1 .. NumGroups, NEW r \in Nat, NEW b \in Positive, r < b
    PROVE  /\ r + Size[o[c]] < b => LenFrom(o, c, r, b) = LenFrom(o, c + 1, r + Size[o[c]], b)
           /\ r + Size[o[c]] = b \/ (r = 0 /\ Size[o[c]] > b)
                => LenFrom(o, c + 1, 0, b) = LenFrom(o, c, r, b) - 1
           /\ r > 0 /\ Size[o[c]] > b - r => LenFrom(o, c, 0, b) = LenFrom(o, c, r, b) - 1
<1> DEFINE s == Size[o[c]]
           nil == Nothing(0)
<1>1. s \in Nat /\ s > 0 /\ b \in Nat /\ b > 0
  BY PackAssumption DEF Orders, Groups, Positive
<1>2. ASSUME r + s < b PROVE LenFrom(o, c, r, b) = LenFrom(o, c + 1, r + s, b)
  <2>1. LenStep(Nothing(r), o[c], b) = [cnt |-> 0, rows |-> r + s]
    BY <1>1, <1>2 DEF LenStep, Nothing
  <2>2. r + s \in Nat
    BY <1>1
  <2>3. LenFrom(o, c, r, b) = 0 + LenFrom(o, c + 1, r + s, b) /\ LenFrom(o, c + 1, r + s, b) \in Nat
    BY <2>1, <2>2, LenGoesOn
  <2> QED
    BY <2>3
<1>3. ASSUME r + s = b \/ (r = 0 /\ s > b) PROVE LenFrom(o, c + 1, 0, b) = LenFrom(o, c, r, b) - 1
  <2>1. LenStep(Nothing(r), o[c], b) = [cnt |-> 1, rows |-> 0]
    BY <1>1, <1>3 DEF LenStep, Nothing
  <2>2. LenFrom(o, c, r, b) = 1 + LenFrom(o, c + 1, 0, b) /\ LenFrom(o, c + 1, 0, b) \in Nat
    BY <2>1, LenGoesOn
  <2> QED
    BY <2>2
<1>4. ASSUME r > 0, s > b - r PROVE LenFrom(o, c, 0, b) = LenFrom(o, c, r, b) - 1
  <2> DEFINE m == IF s >= b THEN 1 ELSE 0
             n == IF s >= b THEN 0 ELSE s
  <2>1. LenStep(Nothing(r), o[c], b) = [cnt |-> m + 1, rows |-> n]
    BY <1>1, <1>4 DEF LenStep, Nothing
  <2>2. LenStep(Nothing(0), o[c], b) = [cnt |-> m, rows |-> n]
    BY <1>1 DEF LenStep, Nothing
  <2>3. m \in Nat /\ n \in Nat /\ m + 1 \in Nat
    BY <1>1
  <2> HIDE DEF m, n
  <2>4. LenFrom(o, c, r, b) = (m + 1) + LenFrom(o, c + 1, n, b) /\ LenFrom(o, c + 1, n, b) \in Nat
    BY <2>1, <2>3, LenGoesOn
  <2>5. LenFrom(o, c, 0, b) = m + LenFrom(o, c + 1, n, b)
    BY <2>2, <2>3, LenGoesOn
  <2> QED
    BY <2>3, <2>4, <2>5
<1> QED
  BY <1>2, <1>3, <1>4

\* While a generator packs, the batches left to the caller are the ones the
\* groups behind its own cursor still make with the rows it holds.
LenInv == ~ Idle => LenFrom(order, cursor, 0, bsz) = LenFrom(order, cur, tmp.rows, bsz)

\* What a step does to the two counts: it stops the generator, or starts one
\* at the shared cursor, or packs one more group, or changes neither.
LEMMA LenInvInductive == PassInv /\ LenInv /\ [Next]_vars => LenInv'
<1> SUFFICES ASSUME PassInv, LenInv, [Next]_vars, ~ Idle' PROVE LenInv'
  BY DEF LenInv
<1>a. /\ order \in Orders /\ bsz \in Positive /\ tmp.rows \in Nat
      /\ cur \in 1 .. NumGroups + 1 /\ pending.rows = 0
      /\ ~ Idle => tmp.rows < bsz
  BY PackAssumption DEF PassInv, TypeOK, InFlight, Rows, Empty
<1>1. ASSUME NEW i \in Iters, GenStep(i) PROVE LenInv'
  <2>1. PackGroup(i)
    BY <1>1 DEF GenStep, YieldOversized, YieldPending, YieldFull, YieldTail,
       RejectOversized, Finish, Yield, Idle
  <2>2. ~ Idle /\ cur \in 1 .. NumGroups
    BY <1>a, <2>1, PackAssumption DEF PackGroup, InLoop, Idle
  <2>3. LenFrom(order, cur, tmp.rows, bsz) = LenFrom(order, cur + 1, tmp.rows + Size[order[cur]], bsz)
    BY <1>a, <2>1, <2>2, LenOfTurn DEF PackGroup, Here
  <2>4. /\ order' = order /\ cursor' = cursor /\ bsz' = bsz /\ cur' = cur + 1
        /\ tmp'.rows = tmp.rows + Size[order[cur]]
    BY <2>1 DEF PackGroup, sampler, Extend, Here
  <2> QED
    BY <2>2, <2>3, <2>4 DEF LenInv
<1>2. ASSUME NEW i \in Iters, NewIter(i) \/ NextCall(i) PROVE LenInv'
  <2>1. EnterHere(i) \/ EnterNextEpoch(i) \/ Resume(i)
    BY <1>2 DEF NextCall, NewIter, ResumeTail, LocalsUnused, Idle
  <2>2. cur' = cursor' /\ tmp'.rows = 0 /\ order' = order' /\ bsz' = bsz
    BY <1>a, <2>1 DEF EnterHere, EnterNextEpoch, ResetOrder, Resume, sampler, Empty
  <2> QED
    BY <2>2 DEF LenInv
<1>3. CASE UNCHANGED vars
  BY <1>3 DEF vars, sampler, LenInv, Idle
<1>4. ASSUME \/ \E e \in Epochs : SetEpoch(e)
             \/ Reset \/ StateDict \/ LoadStateDict \/ Restart
             \/ \E d \in Divisors : SetDivisor(d)
      PROVE  Idle'
  BY <1>4 DEF SetEpoch, Reset, StateDict, LoadStateDict, SetDivisor, Restart,
     LocalsUnused, Idle
<1> QED
  BY <1>1, <1>2, <1>3, <1>4 DEF Next

\* A yield takes the batch it gives off what is left.
LEMMA YieldCounts ==
    ASSUME PassInv, LenInv, NEW i \in Iters, GenStep(i), out' # NoBatch, cursor' # cursor
    PROVE  LenFrom(order', cursor', pending'.rows, bsz') = len - 1
<1>a. /\ order \in Orders /\ bsz \in Positive /\ tmp.rows \in Nat /\ NumGroups \in Nat
      /\ cur \in 1 .. NumGroups + 1 /\ pending.rows = 0
  BY PackAssumption DEF PassInv, TypeOK, InFlight, Rows, Empty
<1>b. ~ Idle
  BY PackAssumption DEF GenStep, YieldOversized, RejectOversized, YieldPending,
     PackGroup, YieldFull, YieldTail, Finish, InLoop, Idle
<1>c. tmp.rows < bsz /\ len = LenFrom(order, cur, tmp.rows, bsz)
  BY <1>a, <1>b DEF PassInv, InFlight, LenInv, len
<1>d. ASSUME NEW batch, NEW pad, NEW next, NEW point, Yield(i, batch, pad, next, point),
             LenFrom(order, next, 0, bsz) = len - 1
      PROVE  LenFrom(order', cursor', pending'.rows, bsz') = len - 1
  BY <1>d DEF Yield, Empty
<1>e. InLoop(i) => cur \in 1 .. NumGroups
  BY <1>a DEF InLoop
<1>1. CASE YieldOversized(i)
  <2>1. LenFrom(order, cur + 1, 0, bsz) = len - 1
    BY <1>a, <1>c, <1>e, <1>1, LenOfTurn DEF YieldOversized, Here
  <2> QED
    BY <1>d, <1>1, <2>1 DEF YieldOversized
<1>2. CASE YieldPending(i)
  <2>1. LenFrom(order, cur, 0, bsz) = len - 1
    BY <1>a, <1>c, <1>e, <1>2, LenOfTurn DEF YieldPending, Here
  <2> QED
    BY <1>d, <1>2, <2>1 DEF YieldPending
<1>3. CASE YieldFull(i)
  <2>1. LenFrom(order, cur + 1, 0, bsz) = len - 1
    BY <1>a, <1>c, <1>e, <1>3, LenOfTurn DEF YieldFull, Here
  <2> QED
    BY <1>d, <1>3, <2>1 DEF YieldFull
<1>4. CASE YieldTail(i)
  <2>1. cur = NumGroups + 1 /\ tmp.rows > 0
    BY <1>a, <1>4 DEF YieldTail
  <2>2. LenFrom(order, cur, 0, bsz) = 0 /\ len = 1
    BY <1>a, <1>c, <2>1, LenAtEnd
  <2> QED
    BY <1>d, <1>4, <2>2 DEF YieldTail
<1>5. CASE RejectOversized(i) \/ PackGroup(i) \/ Finish(i)
  BY <1>5 DEF RejectOversized, PackGroup, Finish, sampler
<1> QED
  BY <1>1, <1>2, <1>3, <1>4, <1>5 DEF GenStep

\* The two copies of the packing rules agree: every yield takes one off __len__,
\* whichever generator does it and wherever the cursor was put before.  What
\* fit() announces is thus what it gets, in the first epoch.
THEOREM LenAgrees == Spec => LenCountsYields
<1>1. Init => LenInv
  BY DEF Init, LenInv, Idle
<1>2. ASSUME PassInv, LenInv, [Next]_vars, vars' # vars, running # NoIter,
             cursor' # cursor, out' # NoBatch
      PROVE  LenFrom(order', cursor', pending'.rows, bsz') = len - 1
  <2>1. \E i \in Iters : GenStep(i)
    BY <1>2 DEF Next, NewIter, NextCall, EnterHere, EnterNextEpoch, Resume, ResumeTail,
       SetEpoch, Reset, StateDict, LoadStateDict, SetDivisor, Restart, Idle
  <2> QED
    BY <1>2, <2>1, YieldCounts
<1>3. PassInv /\ LenInv /\ [Next]_vars
        => [running # NoIter /\ cursor' # cursor /\ out' # NoBatch /\ ~ LenRaises(order, cursor, bsz)
              => LenFrom(order', cursor', pending'.rows, bsz') = len - 1]_vars
  BY <1>2
<1> QED
  BY <1>1, <1>3, LenInvInductive, PassInvariant, PTL DEF Spec, LenCountsYields
=============================================================================
