---------------------------- MODULE KeyStoreProofs ----------------------------
(***************************************************************************)
(* Type correctness of KeyStore, the order of the update stage, and what   *)
(* the two users of key.json owe each other, for any samples, keywords,    *)
(* epochs and crashes.                                                     *)
(***************************************************************************)
EXTENDS KeyStore, FiniteSetTheorems, TLAPS

(* Type correctness.  The sample asked for and the keyword are known while *)
(* a lookup is in progress.                                                *)
Asking ==
    /\ pc \in {"lookup", "store", "store_open"} => asked \in Samples
    /\ pc \in {"store", "store_open"} => word \in Words \cup {EmptyWord}

TypeInv == TypeOK /\ Asking

\* The table of a file that parses, or of none, is a table.
LEMMA TableType ==
    ASSUME NEW f \in Tables \cup {Absent, Torn}, f # Torn
    PROVE  Table(f) \in Tables
<1>1. EmptyTable \in Tables
  BY StoreAssumption DEF EmptyTable, Tables, Entries
<1> QED
  BY <1>1 DEF Table

\* Merging key steps into a table and storing a keyword in it give tables.
LEMMA MergedType ==
    ASSUME NEW t \in Tables, NEW B \in SUBSET Samples, epoch \in 0 .. MaxEpochs
    PROVE  Merged(t, B) \in Tables
  BY DEF Merged, Tables, Entries

LEMMA StoredType ==
    ASSUME NEW t \in Tables, NEW s \in Samples, NEW w \in Words \cup {EmptyWord}
    PROVE  [t EXCEPT ![s].word = w] \in Tables
  BY DEF Tables, Entries

\* Returning from a lookup keeps the types of what it assigns.
LEMMA ReturnType ==
    ASSUME TypeOK, NEW s \in Samples, NEW w \in Words \cup {EmptyWord, Null},
           Return(s, w)
    PROVE  /\ answers' \in [Samples -> SUBSET Words]
           /\ mem' \in Tables
           /\ asked' = Null /\ word' = Null /\ pc' = "update"
<1>1. mem' \in Tables
  BY StoreAssumption DEF Return, EmptyTable, Tables, Entries
<1>2. answers' \in [Samples -> SUBSET Words]
  <2>1. CASE w \in Words
    BY <2>1 DEF Return, TypeOK
  <2>2. CASE w \notin Words
    BY <2>2 DEF Return, TypeOK
  <2> QED
    BY <2>1, <2>2
<1> QED
  BY <1>1, <1>2 DEF Return

LEMMA TypeInit == Init => TypeInv
<1> SUFFICES ASSUME Init PROVE TypeInv
  OBVIOUS
<1>1. EmptyTable \in Tables
  BY StoreAssumption DEF EmptyTable, Tables, Entries
<1> QED
  BY <1>1, StoreAssumption DEF Init, TypeInv, TypeOK, Asking, Points

LEMMA TypeStep == TypeInv /\ [Next]_vars => TypeInv'
<1> SUFFICES ASSUME TypeInv, [Next]_vars PROVE TypeInv'
  OBVIOUS
<1>e. EmptyTable \in Tables /\ epoch \in 0 .. MaxEpochs /\ MaxEpochs \in Nat
  BY StoreAssumption DEF EmptyTable, Tables, Entries, TypeInv, TypeOK
<1>1. CASE BeginEpoch
  BY <1>1, <1>e, StoreAssumption
     DEF BeginEpoch, TypeInv, TypeOK, Asking, call, history, Points
<1>2. CASE DumpRead
  <2>1. Table(file) \in Tables \/ file = Torn
    BY TableType DEF TypeInv, TypeOK
  <2> QED
    BY <1>2, <2>1 DEF DumpRead, TypeInv, TypeOK, Asking, history, Points
<1>3. CASE DumpOpen
  BY <1>3 DEF DumpOpen, TypeInv, TypeOK, Asking, call, history, Points
<1>4. CASE DumpWrite
  <2>1. file' \in Tables
    BY <1>4, MergedType, <1>e DEF DumpWrite, TypeInv, TypeOK
  <2>2. selected' \in [Samples -> 0 .. MaxEpochs]
    BY <1>4, <1>e DEF DumpWrite, TypeInv, TypeOK
  <2> QED
    BY <1>4, <1>e, <2>1, <2>2 DEF DumpWrite, TypeInv, TypeOK, Asking, Points
<1>5. CASE ReadOrder
  <2>1. ranking' \in [Samples -> 0 .. MaxEpochs]
    <3>1. CASE file = Torn
      BY <1>5, <3>1 DEF ReadOrder, TypeInv, TypeOK
    <3>2. CASE file # Torn
      <4>1. Table(file) \in Tables
        BY <3>2, TableType DEF TypeInv, TypeOK
      <4> QED
        BY <1>5, <3>2, <4>1 DEF ReadOrder, Tables, Entries
    <3> QED
      BY <3>1, <3>2
  <2> QED
    BY <1>5, <2>1 DEF ReadOrder, TypeInv, TypeOK, Asking, call, history, Points
<1>6. CASE Lookup
  <2> DEFINE t == IF file = Torn THEN EmptyTable ELSE Table(file)
  <2>1. t \in Tables
    BY <1>e, TableType DEF TypeInv, TypeOK
  <2> PICK s \in Samples :
         IF Hit(t, s) THEN Return(s, t[s].word)
         ELSE /\ pc' = "lookup" /\ asked' = s /\ mem' = t
              /\ UNCHANGED <<word, answers>>
    BY <1>6 DEF Lookup
  <2> HIDE DEF t
  <2>2. CASE Hit(t, s)
    <3>1. t[s].word \in Words \cup {EmptyWord, Null}
      BY <2>1 DEF Tables, Entries
    <3>2. Return(s, t[s].word)
      BY <2>2
    <3>3. /\ answers' \in [Samples -> SUBSET Words]
          /\ mem' \in Tables
          /\ asked' = Null /\ word' = Null /\ pc' = "update"
      BY <3>1, <3>2, ReturnType DEF TypeInv
    <3> QED
      BY <1>6, <3>3 DEF Lookup, TypeInv, TypeOK, Asking, Points
  <2>3. CASE ~ Hit(t, s)
    <3>1. pc' = "lookup" /\ asked' = s /\ mem' = t /\ UNCHANGED <<word, answers>>
      BY <2>3
    <3> QED
      BY <1>6, <2>1, <3>1 DEF Lookup, TypeInv, TypeOK, Asking, Points
  <2> QED
    BY <2>2, <2>3
<1>7. CASE Extract
  BY <1>7 DEF Extract, TypeInv, TypeOK, Asking, history, Points
<1>8. CASE StoreOpen
  BY <1>8 DEF StoreOpen, TypeInv, TypeOK, Asking, call, history, Points
<1>9. CASE StoreWrite
  <2>1. asked \in Samples /\ word \in Words \cup {EmptyWord} /\ Return(asked, word)
    BY <1>9 DEF StoreWrite, TypeInv, Asking
  <2>2. /\ answers' \in [Samples -> SUBSET Words]
        /\ mem' \in Tables
        /\ asked' = Null /\ word' = Null /\ pc' = "update"
    BY <2>1, ReturnType DEF TypeInv
  <2>3. file' \in Tables
    BY <1>9, <2>1, StoredType DEF StoreWrite, TypeInv, TypeOK
  <2> QED
    BY <1>9, <2>2, <2>3 DEF StoreWrite, TypeInv, TypeOK, Asking, Points
<1>10. CASE StoreFails
  <2>1. asked \in Samples /\ word \in Words \cup {EmptyWord} /\ Return(asked, word)
    BY <1>10 DEF StoreFails, TypeInv, Asking
  <2>2. /\ answers' \in [Samples -> SUBSET Words]
        /\ mem' \in Tables
        /\ asked' = Null /\ word' = Null /\ pc' = "update"
    BY <2>1, ReturnType DEF TypeInv
  <2> QED
    BY <1>10, <2>2, StoreAssumption DEF StoreFails, TypeInv, TypeOK, Asking, Points
<1>11. CASE Crash
  BY <1>11, <1>e, StoreAssumption DEF Crash, TypeInv, TypeOK, Asking, history, Points
<1>12. CASE UNCHANGED vars
  BY <1>12 DEF vars, TypeInv, TypeOK, Asking
<1> QED
  BY <1>1, <1>2, <1>3, <1>4, <1>5, <1>6, <1>7, <1>8, <1>9, <1>10, <1>11, <1>12
     DEF Next, Trainer, Reward

LEMMA TypeInvariant == Spec => []TypeInv
  BY TypeInit, TypeStep, PTL DEF Spec

\* The file, the table in memory and what is on its way into it stay
\* well-formed, whoever writes and wherever a write is cut short.
THEOREM TypeCorrect == Spec => []TypeOK
  BY TypeInvariant, PTL DEF TypeInv
-----------------------------------------------------------------------------
(* The order of the update stage.  What this epoch has rolled out so far   *)
(* is this epoch's in the file and in the table about to be written.       *)
OrderInv ==
    /\ pc = "rollout" /\ file # Torn =>
         \A s \in Samples \ todo : Table(file)[s].keySteps = epoch
    /\ pc \in {"dump", "dump_open"} =>
         \A s \in Samples \ todo : mem[s].keySteps = epoch
    /\ OrderIsCurrent

\* What merging does to one entry.
LEMMA MergedEntry ==
    ASSUME NEW t \in Tables, NEW B \in SUBSET Samples, NEW s \in Samples
    PROVE  /\ s \in B => Merged(t, B)[s].keySteps = epoch
           /\ s \notin B => Merged(t, B)[s].keySteps = t[s].keySteps
           /\ Merged(t, B)[s].word = t[s].word
  BY DEF Merged, Tables, Entries

LEMMA OrderStep == TypeInv /\ OrderInv /\ [Next]_vars => OrderInv'
<1> SUFFICES ASSUME TypeInv, OrderInv, [Next]_vars PROVE OrderInv'
  OBVIOUS
<1>1. CASE BeginEpoch
  BY <1>1 DEF BeginEpoch, OrderInv, OrderIsCurrent
<1>2. CASE DumpRead
  BY <1>2 DEF DumpRead, OrderInv, OrderIsCurrent
<1>3. CASE DumpOpen
  BY <1>3 DEF DumpOpen, OrderInv, OrderIsCurrent, call
<1>4. CASE DumpWrite
  <2>1. file' = Merged(mem, batch) /\ file' \in Tables /\ epoch' = epoch /\ pc' = "rollout"
    BY <1>4, MergedType DEF DumpWrite, TypeInv, TypeOK
  <2>2. Table(file)' = file'
    BY <2>1, StoreAssumption DEF Table
  <2>3. ASSUME NEW s \in Samples \ todo' PROVE file'[s].keySteps = epoch
    <3>1. s \in batch \/ s \in Samples \ todo
      BY <1>4 DEF DumpWrite
    <3>2. s \notin batch => mem[s].keySteps = epoch
      BY <1>4, <3>1 DEF DumpWrite, OrderInv
    <3> QED
      BY <2>1, <3>2, MergedEntry DEF TypeInv, TypeOK
  <2> QED
    BY <2>1, <2>2, <2>3 DEF OrderInv, OrderIsCurrent
<1>5. CASE ReadOrder
  BY <1>5 DEF ReadOrder, OrderInv, OrderIsCurrent
<1>6. CASE Lookup
  BY <1>6 DEF Lookup, Return, OrderInv, OrderIsCurrent
<1>7. CASE Extract
  BY <1>7 DEF Extract, OrderInv, OrderIsCurrent
<1>8. CASE StoreOpen
  BY <1>8 DEF StoreOpen, OrderInv, OrderIsCurrent
<1>9. CASE StoreWrite
  BY <1>9 DEF StoreWrite, Return, OrderInv, OrderIsCurrent
<1>10. CASE StoreFails
  BY <1>10 DEF StoreFails, Return, OrderInv, OrderIsCurrent
<1>11. CASE Crash
  BY <1>11 DEF Crash, OrderInv, OrderIsCurrent
<1>12. CASE UNCHANGED vars
  BY <1>12 DEF vars, call, OrderInv, OrderIsCurrent, Table
<1> QED
  BY <1>1, <1>2, <1>3, <1>4, <1>5, <1>6, <1>7, <1>8, <1>9, <1>10, <1>11, <1>12
     DEF Next, Trainer, Reward

\* fit() orders the update stage of every epoch by the key steps that epoch
\* selected, for every sample.
THEOREM OrderCurrent == Spec => []OrderIsCurrent
<1>1. Init => OrderInv
  BY DEF Init, OrderInv, OrderIsCurrent
<1> QED
  BY <1>1, OrderStep, TypeInvariant, PTL DEF Spec, OrderInv
-----------------------------------------------------------------------------
(* The two users of the file.  As long as no write failed, a file that     *)
(* parses and the table a call has read hold all that was put in the file, *)
(* a keyword is asked for only where there is none, and the file is torn   *)
(* only while it is being written or after a crash, before the next dump.  *)
Agree(t) ==
    \A s \in Samples : /\ t[s].keySteps = selected[s]
                       /\ answers[s] \subseteq {t[s].word}

OneAnswer == \A s \in Samples : \A v, w \in answers[s] : v = w

Consistent ==
    /\ file # Torn => Agree(Table(file))
    /\ pc \in {"dump", "dump_open", "lookup", "store", "store_open"} => Agree(mem)
    /\ pc \in {"lookup", "store", "store_open"} => mem[asked].word = Null
    /\ file = Torn => pc \in {"dump_open", "store_open", "down", "rollout", "failed"}
    /\ OneAnswer

AgreeInv == fails = 0 => Consistent

\* Where no keyword is stored none was ever returned.
LEMMA NoneReturned ==
    ASSUME TypeOK, NEW t \in Tables, Agree(t), NEW s \in Samples, t[s].word = Null
    PROVE  answers[s] = {}
  BY StoreAssumption DEF Agree, TypeOK

\* Returning the keyword of a table's entry keeps the table in agreement.
LEMMA ReturnAgrees ==
    ASSUME TypeOK, OneAnswer, NEW t \in Tables, NEW s \in Samples,
           NEW w, Return(s, w), selected' = selected,
           \A q \in Samples : t[q].keySteps = selected[q],
           \A q \in Samples \ {s} : answers[q] \subseteq {t[q].word},
           t[s].word = w, answers[s] \subseteq {w}
    PROVE  /\ OneAnswer'
           /\ \A q \in Samples : /\ t[q].keySteps = selected'[q]
                                 /\ answers'[q] \subseteq {t[q].word}
<1>1. ASSUME NEW q \in Samples
      PROVE  answers'[q] \subseteq {t[q].word} /\ \A v, x \in answers'[q] : v = x
  <2>1. CASE w \in Words
    <3>1. answers' = [answers EXCEPT ![s] = @ \cup {w}]
      BY <2>1 DEF Return
    <3>2. answers'[q] = IF q = s THEN answers[q] \cup {w} ELSE answers[q]
      BY <3>1, <1>1 DEF TypeOK
    <3> QED
      BY <3>2, <1>1 DEF OneAnswer
  <2>2. CASE w \notin Words
    <3>1. answers' = answers
      BY <2>2 DEF Return
    <3> QED
      BY <3>1, <1>1 DEF OneAnswer
  <2> QED
    BY <2>1, <2>2
<1> QED
  BY <1>1 DEF OneAnswer

LEMMA AgreeStep == TypeInv /\ AgreeInv /\ [Next]_vars => AgreeInv'
<1> SUFFICES ASSUME TypeInv, AgreeInv, [Next]_vars, fails' = 0 PROVE Consistent'
  BY DEF AgreeInv
<1>f. fails = 0
  BY StoreAssumption DEF Next, Trainer, Reward, BeginEpoch, DumpRead, DumpOpen,
     DumpWrite, ReadOrder, Lookup, Extract, StoreOpen, StoreWrite, StoreFails,
     Crash, vars, TypeInv, TypeOK
<1>a. Consistent /\ TypeOK /\ Asking
  BY <1>f DEF AgreeInv, TypeInv
<1>1. CASE BeginEpoch
  BY <1>1, <1>a DEF BeginEpoch, Consistent, Agree, OneAnswer, Table, call, history
<1>2. CASE DumpRead
  BY <1>2, <1>a DEF DumpRead, Consistent, Agree, OneAnswer, Table, history
<1>3. CASE DumpOpen
  BY <1>3, <1>a DEF DumpOpen, Consistent, Agree, OneAnswer, call, history
<1>4. CASE DumpWrite
  <2>1. /\ file' = Merged(mem, batch) /\ file' \in Tables /\ pc' = "rollout"
        /\ answers' = answers /\ batch \in SUBSET Samples /\ mem \in Tables
    BY <1>4, <1>a, MergedType DEF Consistent, DumpWrite, TypeOK
  <2>2. Table(file)' = file' /\ file' # Torn
    BY <2>1, StoreAssumption DEF Table
  <2>3. Agree(mem)
    BY <1>4, <1>a DEF Consistent, DumpWrite
  <2>4. ASSUME NEW s \in Samples
        PROVE  /\ file'[s].keySteps = selected'[s]
               /\ answers'[s] \subseteq {file'[s].word}
    <3>1. selected'[s] = IF s \in batch THEN epoch ELSE selected[s]
      BY <1>4 DEF DumpWrite
    <3> QED
      BY <2>1, <2>3, <3>1, MergedEntry DEF Agree
  <2> QED
    BY <1>a, <2>1, <2>2, <2>4 DEF Consistent, Agree, OneAnswer
<1>5. CASE ReadOrder
  BY <1>5, <1>a DEF ReadOrder, Consistent, Agree, OneAnswer, Table, call, history
<1>6. CASE Lookup
  <2>1. file # Torn /\ pc = "update"
    BY <1>6, <1>a DEF Consistent, Lookup
  <2>2. Table(file) \in Tables /\ Agree(Table(file))
    BY <2>1, <1>a, TableType DEF Consistent, TypeOK
  <2> PICK s \in Samples :
         IF Hit(Table(file), s) THEN Return(s, Table(file)[s].word)
         ELSE /\ pc' = "lookup" /\ asked' = s /\ mem' = Table(file)
              /\ UNCHANGED <<word, answers>>
    BY <1>6, <2>1 DEF Lookup
  <2>3. file' = file /\ selected' = selected /\ Table(file)' = Table(file)
    BY <1>6 DEF Lookup, Table
  <2>4. CASE Hit(Table(file), s)
    <3>1. Return(s, Table(file)[s].word)
      BY <2>4
    <3>2. /\ OneAnswer'
          /\ \A q \in Samples : /\ Table(file)[q].keySteps = selected'[q]
                                /\ answers'[q] \subseteq {Table(file)[q].word}
      BY <1>a, <2>2, <2>3, <3>1, ReturnAgrees DEF Consistent, Agree
    <3>3. pc' = "update"
      BY <3>1 DEF Return
    <3> QED
      BY <2>1, <2>3, <3>2, <3>3 DEF Consistent, Agree
  <2>5. CASE ~ Hit(Table(file), s)
    <3>1. /\ pc' = "lookup" /\ asked' = s /\ mem' = Table(file)
          /\ UNCHANGED <<word, answers>>
      BY <2>5
    <3>2. Table(file)[s].word = Null
      BY <2>5 DEF Hit
    <3> QED
      BY <1>a, <2>1, <2>2, <2>3, <3>1, <3>2 DEF Consistent, Agree, OneAnswer
  <2> QED
    BY <2>4, <2>5
<1>7. CASE Extract
  BY <1>7, <1>a DEF Extract, Consistent, Agree, OneAnswer, Table, history
<1>8. CASE StoreOpen
  BY <1>8, <1>a DEF StoreOpen, Consistent, Agree, OneAnswer, call, history
<1>9. CASE StoreWrite
  <2>1. /\ asked \in Samples /\ word \in Words \cup {EmptyWord} /\ mem \in Tables
        /\ Agree(mem) /\ mem[asked].word = Null
    BY <1>9, <1>a DEF Consistent, StoreWrite, Asking, TypeOK
  <2>2. /\ file' = [mem EXCEPT ![asked].word = word] /\ selected' = selected
        /\ Return(asked, word)
    BY <1>9 DEF StoreWrite
  <2>3. file' \in Tables
    BY <2>1, <2>2, StoredType
  <2>4. answers[asked] = {}
    BY <1>a, <2>1, NoneReturned DEF Consistent
  <2>5. ASSUME NEW q \in Samples
        PROVE  /\ file'[q].keySteps = mem[q].keySteps
               /\ file'[q].word = IF q = asked THEN word ELSE mem[q].word
    BY <2>1, <2>2 DEF Tables, Entries
  <2>6. /\ OneAnswer'
        /\ \A q \in Samples : /\ file'[q].keySteps = selected'[q]
                              /\ answers'[q] \subseteq {file'[q].word}
    <3> DEFINE t == file'
    <3>1. /\ \A q \in Samples : t[q].keySteps = selected[q]
          /\ \A q \in Samples \ {asked} : answers[q] \subseteq {t[q].word}
          /\ t[asked].word = word /\ answers[asked] \subseteq {word}
      BY <2>1, <2>4, <2>5 DEF Agree
    <3> t \in Tables
      BY <2>3
    <3> HIDE DEF t
    <3>2. /\ OneAnswer'
          /\ \A q \in Samples : /\ t[q].keySteps = selected'[q]
                                /\ answers'[q] \subseteq {t[q].word}
      BY <1>a, <2>1, <2>2, <3>1, ReturnAgrees DEF Consistent
    <3> QED
      BY <3>2 DEF t
  <2>7. Table(file)' = file' /\ file' # Torn /\ pc' = "update"
    BY <2>2, <2>3, StoreAssumption DEF Table, Return
  <2> QED
    BY <2>6, <2>7 DEF Consistent, Agree
<1>10. CASE StoreFails
  BY <1>10, <1>f DEF StoreFails
<1>11. CASE Crash
  BY <1>11, <1>a DEF Crash, Consistent, Agree, OneAnswer, Table, history
<1>12. CASE UNCHANGED vars
  BY <1>12, <1>a DEF vars, call, history, Consistent, Agree, OneAnswer, Table
<1> QED
  BY <1>1, <1>2, <1>3, <1>4, <1>5, <1>6, <1>7, <1>8, <1>9, <1>10, <1>11, <1>12
     DEF Next, Trainer, Reward

LEMMA AgreeInvariant == Spec => []AgreeInv
<1>1. Init => AgreeInv
  BY StoreAssumption DEF Init, AgreeInv, Consistent, Agree, OneAnswer, Table, EmptyTable
<1> QED
  BY <1>1, AgreeStep, TypeInvariant, PTL DEF Spec

\* Unless a write failed, the rollout stage and the rewards, each rewriting
\* the whole file, lose nothing of each other's, crashes included.
THEOREM NothingIsLost == Spec => []NothingLost
<1>1. TypeInv /\ AgreeInv => NothingLost
  <2> SUFFICES ASSUME TypeInv, AgreeInv, file \in Tables, fails = 0, NEW s \in Samples
               PROVE  /\ file[s].keySteps = selected[s]
                      /\ answers[s] # {} => file[s].word \in answers[s]
    BY DEF NothingLost
  <2>1. Agree(file)
    BY StoreAssumption DEF AgreeInv, Consistent, Table
  <2> QED
    BY <2>1 DEF Agree
<1> QED
  BY <1>1, AgreeInvariant, TypeInvariant, PTL

\* Unless a write failed, all rows of a step are scored against one keyword.
THEOREM OneKeywordPerStep == Spec => []OneKeyword
<1>1. TypeInv /\ AgreeInv => OneKeyword
  <2> SUFFICES ASSUME TypeInv, AgreeInv, fails = 0, NEW s \in Samples
               PROVE  Cardinality(answers[s]) <= 1
    BY DEF OneKeyword
  <2>1. CASE answers[s] = {}
    BY <2>1, FS_EmptySet
  <2>2. CASE answers[s] # {}
    <3>1. PICK v \in answers[s] : answers[s] = {v}
      BY <2>2 DEF AgreeInv, Consistent, OneAnswer
    <3> QED
      BY <3>1, FS_Singleton
  <2> QED
    BY <2>1, <2>2
<1> QED
  BY <1>1, AgreeInvariant, TypeInvariant, PTL
-----------------------------------------------------------------------------
(* Failing at the file.  It is torn only while it is written, or for a     *)
(* reason that is counted, and a dump of this epoch has left it whole.     *)
TornForACause == file = Torn => pc \in {"dump_open", "store_open"} \/ crashes + fails > 0
WholeAfterDump == pc = "rollout" /\ file = Torn => todo = Samples
FailInv == TornForACause /\ WholeAfterDump /\ FailsOnlyAfterCut

LEMMA FailStep == TypeInv /\ FailInv /\ [Next]_vars => FailInv'
<1> SUFFICES ASSUME TypeInv, FailInv, [Next]_vars PROVE FailInv'
  OBVIOUS
<1> USE DEF FailInv, TornForACause, WholeAfterDump, FailsOnlyAfterCut
<1>n. crashes \in Nat /\ fails \in Nat
  BY StoreAssumption DEF TypeInv, TypeOK
<1>1. CASE BeginEpoch
  BY <1>1 DEF BeginEpoch
<1>2. CASE DumpRead
  BY <1>2 DEF DumpRead
<1>3. CASE DumpOpen
  BY <1>3 DEF DumpOpen
<1>4. CASE DumpWrite
  <2>1. file' \in Tables /\ pc' = "rollout"
    BY <1>4, MergedType DEF DumpWrite, TypeInv, TypeOK
  <2> QED
    BY <2>1, StoreAssumption
<1>5. CASE ReadOrder
  BY <1>5 DEF ReadOrder
<1>6. CASE Lookup
  <2>1. /\ file' = file /\ crashes' = crashes /\ fails' = fails /\ pc = "update"
        /\ pc' \in {"update", "lookup"}
    BY <1>6 DEF Lookup, Return
  <2> QED
    BY <2>1
<1>7. CASE Extract
  BY <1>7 DEF Extract
<1>8. CASE StoreOpen
  BY <1>8 DEF StoreOpen
<1>9. CASE StoreWrite
  <2>1. asked \in Samples /\ word \in Words \cup {EmptyWord} /\ mem \in Tables
    BY <1>9 DEF StoreWrite, TypeInv, TypeOK, Asking
  <2>2. file' \in Tables /\ pc' = "update"
    BY <1>9, <2>1, StoredType DEF StoreWrite, Return
  <2> QED
    BY <2>2, StoreAssumption
<1>10. CASE StoreFails
  BY <1>10, <1>n DEF StoreFails, Return
<1>11. CASE Crash
  BY <1>11, <1>n DEF Crash
<1>12. CASE UNCHANGED vars
  BY <1>12 DEF vars
<1> QED
  BY <1>1, <1>2, <1>3, <1>4, <1>5, <1>6, <1>7, <1>8, <1>9, <1>10, <1>11, <1>12
     DEF Next, Trainer, Reward

\* The rollout stage fails at the file only with the first dump of an epoch, and
\* only after a crash or a failed write, and the update stage never does
\* (ray_trainer_all.py:1223-1244, 2435-2439; mulberry_with_steps.py:2482-2500).
THEOREM FailsForACause == Spec => []FailsOnlyAfterCut
<1>1. Init => FailInv
  BY StoreAssumption DEF Init, FailInv, TornForACause, WholeAfterDump, FailsOnlyAfterCut
<1> QED
  BY <1>1, FailStep, TypeInvariant, PTL DEF Spec, FailInv
=============================================================================
