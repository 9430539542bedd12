--------------------------- MODULE KeyStepSelection ---------------------------
(***************************************************************************)
(* One call of the selection of key steps, for every input within bounds,  *)
(* and what the selection owes the curriculum.                             *)
(***************************************************************************)
EXTENDS KeySteps

CONSTANTS
    MaxSteps,   \* bound on the judging steps of a sample
    TopKs       \* the values of top_k_key_steps

ASSUME SelectionAssumption == MaxSteps \in Nat /\ TopKs \subseteq Nat

VARIABLES
    mean,       \* mean score of the sample's rollouts, by judging step
    topK,       \* the configured top_k_key_steps
    called,     \* whether the call has returned
    keySteps    \* its result

svars == <<mean, topK, called, keySteps>>

SelectionInit ==
    /\ mean \in UNION { [J -> Means] : J \in (SUBSET (0 .. MaxSteps)) \ {{}} }
    /\ topK \in TopKs
    /\ called = FALSE /\ keySteps = <<>>

Call ==
    /\ ~ called
    /\ called' = TRUE
    /\ keySteps' = SelectKeySteps(mean, topK)
    /\ UNCHANGED <<mean, topK>>

SelectionSpec == SelectionInit /\ [][Call]_svars
-----------------------------------------------------------------------------
(* A reference definition, step by step instead of by sorting.             *)

Present == DOMAIN mean

\* The record a step is compared with: the next longer prefix of the
\* reasoning, or the baseline for the longest.
Before(j) ==
    IF \E i \in Present : i > j
    THEN CHOOSE i \in Present : i > j /\ \A m \in Present : m > j => i <= m
    ELSE 0

\* The steps that can be compared.
Comparable == { j \in Present \ {0} : Before(j) \in Present }

Fell(j) == Diff(mean[Before(j)], mean[j])
Chosen == { keySteps[i] : i \in DOMAIN keySteps }

\* The call returns as many steps as it may, distinct and comparable: never
\* the baseline and never a step that has nothing before it.
EnoughSteps ==
    called =>
        /\ Chosen \subseteq Comparable
        /\ Cardinality(Chosen) = Len(keySteps)
        /\ Len(keySteps) = IF topK < Cardinality(Comparable) THEN topK ELSE Cardinality(Comparable)

\* No step left out diverges more than one chosen, and the chosen steps come
\* in order of divergence; of two alike the one of the longer prefix comes
\* first.
LargestFirst ==
    /\ called =>
         \A j \in Chosen, m \in Comparable \ Chosen :
             Fell(j) > Fell(m) \/ (Fell(j) = Fell(m) /\ j > m)
    /\ \A i \in 1 .. Len(keySteps) - 1 :
         LET j == keySteps[i]
             m == keySteps[i + 1]
         IN  Fell(j) > Fell(m) \/ (Fell(j) = Fell(m) /\ j > m)

\* A step at which the model still solves the question, or does better than
\* with one step more given, is chosen only if too few steps are worse.
SolvedStepsLast ==
    called =>
        \A j \in Chosen, m \in Comparable \ Chosen :
            mean[j] = Full \/ mean[j] > mean[Before(j)]
                => mean[m] = Full \/ mean[m] >= mean[Before(m)]
=============================================================================
