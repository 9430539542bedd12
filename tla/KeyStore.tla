------------------------------- MODULE KeyStore -------------------------------
(***************************************************************************)
(* key.json, the file two parts of the job share without knowing it:       *)
(* RayPPOTrainer._dump_key_map_json (ray_trainer_all.py) merges the key    *)
(* steps of each rollout batch into it and fit() reads them back to order  *)
(* the update stage; get_keyword_with_json (mulberry_with_steps.py), which *)
(* the update stage's reward calls in the same process, caches in it the   *)
(* keyword an external model extracted for a step.  Each reads the whole   *)
(* file, changes its part and writes the whole file in place, so a crash   *)
(* or a failed write leaves it torn.                                       *)
(*                                                                         *)
(* A selection of key steps is abstracted to the epoch that made it, or 0, *)
(* counting epochs over all runs of the job.  The step whose keyword is    *)
(* asked for is folded into the sample: Samples stands for pairs of a      *)
(* sample and a step when it is about keywords.                            *)
(***************************************************************************)
EXTENDS Integers, FiniteSets

CONSTANTS
    Samples,
    Words,          \* the non-empty keywords the model may extract
    EmptyWord,      \* "", what call_api_for_keywords returns after 5 failures
    Null,           \* a keyword not asked for yet
    Absent, Torn,   \* no file; a file that does not parse
    MaxEpochs,      \* bound on the epochs begun, over all runs
    MaxCrashes,     \* bound on crashes
    MaxFails        \* bound on writes that end in an IOError

Epochs == 1 .. MaxEpochs
Entries == [keySteps : 0 .. MaxEpochs, word : Words \cup {EmptyWord, Null}]
Tables == [Samples -> Entries]
EmptyTable == [s \in Samples |-> [keySteps |-> 0, word |-> Null]]

ASSUME StoreAssumption ==
    /\ EmptyWord \notin Words /\ Null \notin Words \cup {EmptyWord}
    /\ Absent \notin Tables /\ Torn \notin Tables /\ Absent # Torn
    /\ MaxEpochs \in Nat \ {0} /\ MaxCrashes \in Nat /\ MaxFails \in Nat

VARIABLES
    file,       \* key.json
    pc,         \* where the job is
    epoch,      \* the epoch running, 0 before the first
    todo,       \* samples this epoch has still to roll out
    batch,      \* the samples whose key steps are being dumped
    mem,        \* the table read by the call in progress
    asked,      \* the sample whose keyword is asked for
    word,       \* the keyword to store and return
    ranking,    \* the key steps fit() read for the update stage
    crashes,    \* crashes so far
    fails,      \* writes that failed so far
    answers,    \* history: the non-empty keywords returned for each sample
    selected    \* history: the last epoch whose dump for a sample returned

vars == <<file, pc, epoch, todo, batch, mem, asked, word, ranking,
          crashes, fails, answers, selected>>
call == <<batch, mem, asked, word>>
history == <<answers, selected>>

Points == {"down", "rollout", "dump", "dump_open", "order", "update",
           "lookup", "store", "store_open", "failed"}

TypeOK ==
    /\ file \in Tables \cup {Absent, Torn}
    /\ pc \in Points
    /\ epoch \in 0 .. MaxEpochs
    /\ todo \subseteq Samples /\ batch \subseteq Samples
    /\ mem \in Tables /\ ranking \in [Samples -> 0 .. MaxEpochs]
    /\ asked \in Samples \cup {Null}
    /\ word \in Words \cup {EmptyWord, Null}
    /\ crashes \in 0 .. MaxCrashes /\ fails \in 0 .. MaxFails
    /\ answers \in [Samples -> SUBSET Words]
    /\ selected \in [Samples -> 0 .. MaxEpochs]

Init ==
    /\ file = Absent
    /\ pc = "down" /\ epoch = 0 /\ crashes = 0 /\ fails = 0
    /\ todo = {} /\ batch = {}
    /\ mem = EmptyTable /\ asked = Null /\ word = Null
    /\ ranking = [s \in Samples |-> 0]
    /\ answers = [s \in Samples |-> {}]
    /\ selected = [s \in Samples |-> 0]

\* A file that is missing counts as empty.
Table(f) == IF f = Absent THEN EmptyTable ELSE f
-----------------------------------------------------------------------------
(* The trainer.                                                            *)

\* An epoch begins: every sample is to be rolled out anew.  A restarted job
\* begins its epochs again too.
BeginEpoch ==
    /\ pc \in {"down", "update"}
    /\ epoch < MaxEpochs
    /\ pc' = "rollout" /\ epoch' = epoch + 1
    /\ todo' = Samples
    /\ ranking' = [s \in Samples |-> 0]
    /\ UNCHANGED <<file, call, crashes, fails, history>>

\* _dump_key_map_json reads what there is; json.load raises on a torn file.
DumpRead ==
    /\ pc = "rollout" /\ todo # {}
    /\ \E B \in SUBSET todo \ {{}} :
         /\ batch' = B
         /\ IF file = Torn
            THEN pc' = "failed" /\ UNCHANGED mem
            ELSE pc' = "dump" /\ mem' = Table(file)
    /\ UNCHANGED <<file, epoch, todo, asked, word, ranking, crashes, fails, history>>

DumpOpen ==
    /\ pc = "dump"
    /\ file' = Torn /\ pc' = "dump_open"
    /\ UNCHANGED <<epoch, todo, call, ranking, crashes, fails, history>>

\* Faults: a sample already in the file keeps its key steps; an entry is
\* replaced and its keyword lost.
MergedKeepsOld(t, B) ==
    [s \in Samples |-> IF s \in B /\ t[s].keySteps = 0
                       THEN [t[s] EXCEPT !.keySteps = epoch] ELSE t[s]]
MergedReplaces(t, B) ==
    [s \in Samples |-> IF s \in B THEN [keySteps |-> epoch, word |-> Null] ELSE t[s]]

\* The key steps of the batch are set and everything else is kept.
Merged(t, B) ==
    [s \in Samples |-> IF s \in B THEN [t[s] EXCEPT !.keySteps = epoch] ELSE t[s]]

DumpWrite ==
    /\ pc = "dump_open"
    /\ file' = Merged(mem, batch)
    /\ selected' = [s \in Samples |-> IF s \in batch THEN epoch ELSE selected[s]]
    /\ todo' = todo \ batch /\ batch' = {} /\ mem' = EmptyTable
    /\ pc' = "rollout"
    /\ UNCHANGED <<epoch, asked, word, ranking, crashes, fails, answers>>

\* Stage 2 begins by reading the order of the steps back.
ReadOrder ==
    /\ pc = "rollout" /\ todo = {}
    /\ IF file = Torn
       THEN pc' = "failed" /\ UNCHANGED ranking
       ELSE pc' = "update" /\ ranking' = [s \in Samples |-> Table(file)[s].keySteps]
    /\ UNCHANGED <<file, epoch, todo, call, crashes, fails, history>>
-----------------------------------------------------------------------------
(* The reward of the update stage, one row at a time.                      *)

\* A cached keyword is one that is not None.
Hit(t, s) == t[s].word # Null

Return(s, w) ==
    /\ answers' = IF w \in Words THEN [answers EXCEPT ![s] = @ \cup {w}] ELSE answers
    /\ mem' = EmptyTable /\ asked' = Null /\ word' = Null
    /\ pc' = "update"

\* get_keyword_with_json reads the file, a torn one as an empty one, and
\* returns a cached keyword.
Lookup ==
    /\ pc = "update"
    /\ \E s \in Samples :
         LET t == IF file = Torn THEN EmptyTable ELSE Table(file)
         IN  IF Hit(t, s)
             THEN Return(s, t[s].word)
             ELSE /\ pc' = "lookup" /\ asked' = s /\ mem' = t
                  /\ UNCHANGED <<word, answers>>
    /\ UNCHANGED <<file, epoch, todo, batch, ranking, crashes, fails, selected>>

\* The external model answers, or every attempt fails.
Extract ==
    /\ pc = "lookup"
    /\ \E w \in Words \cup {EmptyWord} : word' = w
    /\ pc' = "store"
    /\ UNCHANGED <<file, epoch, todo, batch, mem, asked, ranking, crashes, fails, history>>

StoreOpen ==
    /\ pc = "store"
    /\ file' = Torn /\ pc' = "store_open"
    /\ UNCHANGED <<epoch, todo, call, ranking, crashes, fails, history>>

\* Fault: the table written holds the new entry only.
StoreWriteAlone ==
    /\ pc = "store_open"
    /\ file' = [EmptyTable EXCEPT ![asked].word = word]
    /\ Return(asked, word)
    /\ UNCHANGED <<epoch, todo, batch, ranking, crashes, fails, selected>>

\* Fault: an empty keyword is returned without writing the table back.
StoreWriteSkipsEmpty ==
    /\ pc = "store_open"
    /\ file' = IF word = EmptyWord THEN file ELSE [mem EXCEPT ![asked].word = word]
    /\ Return(asked, word)
    /\ UNCHANGED <<epoch, todo, batch, ranking, crashes, fails, selected>>

StoreWrite ==
    /\ pc = "store_open"
    /\ file' = [mem EXCEPT ![asked].word = word]
    /\ Return(asked, word)
    /\ UNCHANGED <<epoch, todo, batch, ranking, crashes, fails, selected>>

\* Opening the file fails, or writing it, once it is open and truncated: the
\* IOError is printed and the keyword returned all the same.
StoreFails ==
    /\ pc \in {"store", "store_open"} /\ fails < MaxFails
    /\ fails' = fails + 1
    /\ Return(asked, word)
    /\ UNCHANGED <<file, epoch, todo, batch, ranking, crashes, selected>>
-----------------------------------------------------------------------------
\* The job dies and nothing but the file is left.
Crash ==
    /\ pc \notin {"down", "failed"} /\ crashes < MaxCrashes
    /\ crashes' = crashes + 1 /\ pc' = "down"
    /\ todo' = {} /\ batch' = {}
    /\ mem' = EmptyTable /\ asked' = Null /\ word' = Null
    /\ ranking' = [s \in Samples |-> 0]
    /\ UNCHANGED <<file, epoch, fails, history>>

Trainer == BeginEpoch \/ DumpRead \/ DumpOpen \/ DumpWrite \/ ReadOrder
Reward == Lookup \/ Extract \/ StoreOpen \/ StoreWrite \/ StoreFails

Next == Trainer \/ Reward \/ Crash

Spec == Init /\ [][Next]_vars
-----------------------------------------------------------------------------
(* Properties.                                                             *)

\* The update stage is ordered by what this epoch selected, for every
\* sample, though rewards and earlier epochs rewrote the file.
OrderIsCurrent ==
    pc \in {"update", "lookup", "store", "store_open"} =>
        \A s \in Samples : ranking[s] = epoch

\* A job that fails at the file does so at the first dump of an epoch, with none
\* of the epoch's samples dumped, and only after a process died or a write
\* failed: each user of the file leaves it whole for the other, though both
\* write it in place.
FailsOnlyAfterCut == pc = "failed" => todo = Samples /\ crashes + fails > 0

\* Unless a write failed, a whole file holds everything that was ever put in
\* it: the last key steps and the keyword of every sample.
NothingLost ==
    file \in Tables /\ fails = 0 =>
        \A s \in Samples : /\ file[s].keySteps = selected[s]
                           /\ answers[s] # {} => file[s].word \in answers[s]

\* Unless a write failed, the rows of a step are scored against one and the
\* same keyword as long as the job lives and in its later runs, however often
\* the model would have answered otherwise.
OneKeyword == fails = 0 => \A s \in Samples : Cardinality(answers[s]) <= 1
=============================================================================
