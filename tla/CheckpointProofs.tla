--------------------------- MODULE CheckpointProofs ---------------------------
(***************************************************************************)
(* Type correctness of CheckpointStore, and, where more than one or all    *)
(* checkpoints are kept, the completeness of the tracked checkpoint and    *)
(* the advance of the tracker, for any ranks, steps and runs of the job.   *)
(***************************************************************************)
EXTENDS CheckpointStore, SequenceTheorems, FiniteSetTheorems, TLAPS

(* Type correctness.                                                       *)

\* How many paths are forgotten at the start of a save.
LEMMA KeepStartBound ==
    ASSUME TypeOK, NEW role \in Roles
    PROVE  /\ KeepStart(role) \in 0 .. Len(saved[role])
           /\ MaxKeep # 1 /\ saved[role] # <<>> => KeepStart(role) < Len(saved[role])
<1>1. saved[role] \in Seq(Steps) /\ Len(saved[role]) \in Nat /\ MaxKeep \in Nat
  BY CheckpointAssumption DEF TypeOK
<1>2. saved[role] # <<>> => Len(saved[role]) > 0
  BY <1>1
<1> QED
  BY <1>1, <1>2 DEF KeepStart

\* What is left of a sequence without its first d elements.
LEMMA DropFront ==
    ASSUME NEW S, NEW t \in Seq(S), NEW d \in 0 .. Len(t)
    PROVE  /\ SubSeq(t, d + 1, Len(t)) \in Seq(S)
           /\ Len(SubSeq(t, d + 1, Len(t))) = Len(t) - d
           /\ \A k \in 1 .. Len(t) - d : SubSeq(t, d + 1, Len(t))[k] = t[k + d]
<1>1. Len(t) \in Nat /\ d + 1 \in Int /\ Len(t) \in Int
  OBVIOUS
<1>2. \A i \in d + 1 .. Len(t) : t[i] \in S
  BY <1>1
<1>3. /\ SubSeq(t, d + 1, Len(t)) \in Seq(S)
      /\ Len(SubSeq(t, d + 1, Len(t))) = Len(t) - d
  BY <1>1, <1>2, SubSeqProperties
<1>4. ASSUME NEW k \in 1 .. Len(t) - d
      PROVE  SubSeq(t, d + 1, Len(t))[k] = t[k + d]
  <2>1. \A i \in 1 .. Len(t) - (d + 1) + 1 :
            SubSeq(t, d + 1, Len(t))[i] = t[(d + 1) + i - 1]
    BY <1>1, <1>2, SubSeqProperties
  <2>2. k \in 1 .. Len(t) - (d + 1) + 1 /\ (d + 1) + k - 1 = k + d
    BY <1>1, <1>4
  <2>3. SubSeq(t, d + 1, Len(t))[k] = t[(d + 1) + k - 1]
    BY <2>1, <2>2
  <2> QED
    BY <2>2, <2>3
<1> QED
  BY <1>3, <1>4

\* The role being saved is one of the roles, if only actor and critic are.
CriticUsed == pc = "save_critic" => UseCritic

\* A save is of a step, by a run of the job that has begun.
SaveBounds ==
    /\ pc \notin {"down", "train", "failed"} => step \in Steps /\ run \in Runs
    /\ pc = "train" => run \in Runs

TypeInv == TypeOK /\ CriticUsed /\ SaveBounds

LEMMA SavingType == TypeInv => Saving \subseteq Roles
  BY DEF TypeInv, CriticUsed, Saving, Roles

\* Removing the rotated paths, and writing one file, keep the disk well-formed.
LEMMA TypeStep == TypeInv /\ [Next]_vars => TypeInv'
<1> SUFFICES ASSUME TypeInv, [Next]_vars PROVE TypeInv'
  OBVIOUS
<1> USE CheckpointAssumption DEF TypeInv, TypeOK, CriticUsed, SaveBounds, DriverPoints,
        RankPoints, disk
<1>1. CASE Start
  BY <1>1 DEF Start, Latest, Steps, Runs
<1>2. CASE Train
  BY <1>2 DEF Train, Steps
<1>3. CASE Crash
  BY <1>3 DEF Crash
<1>4. ASSUME NEW r \in Ranks, Enter(r) PROVE TypeInv'
  <2> PICK role \in Saving :
         /\ IF r = Leader
            THEN /\ shard' = [shard EXCEPT ![role] = [s \in Steps |->
                                IF s \in Rotated(role) THEN [q \in Ranks |-> Absent]
                                                       ELSE shard[role][s]]]
                 /\ saved' = [saved EXCEPT ![role] =
                                SubSeq(saved[role], KeepStart(role) + 1, Len(saved[role]))]
            ELSE UNCHANGED <<shard, saved>>
         /\ wpc' = [wpc EXCEPT ![r] = "barrier1"]
    BY <1>4 DEF Enter
  <2>1. role \in Roles
    BY SavingType
  <2> DEFINE left == SubSeq(saved[role], KeepStart(role) + 1, Len(saved[role]))
  <2>2. left \in Seq(Steps)
    <3>1. saved[role] \in Seq(Steps) /\ KeepStart(role) \in 0 .. Len(saved[role])
      BY <2>1, KeepStartBound
    <3> QED
      BY <3>1, DropFront
  <2>3. saved' \in [Roles -> Seq(Steps)]
    <3>1. saved' = saved \/ saved' = [saved EXCEPT ![role] = left]
      OBVIOUS
    <3> HIDE DEF left
    <3> QED
      BY <2>1, <2>2, <3>1
  <2>4. shard' \in [Roles -> [Steps -> [Ranks -> Files]]]
    <3> DEFINE kept == [s \in Steps |-> IF s \in Rotated(role) THEN [q \in Ranks |-> Absent]
                                                             ELSE shard[role][s]]
    <3>1. kept \in [Steps -> [Ranks -> Files]]
      BY <2>1 DEF Files
    <3>2. shard' = shard \/ shard' = [shard EXCEPT ![role] = kept]
      OBVIOUS
    <3> HIDE DEF kept
    <3> QED
      BY <2>1, <3>1, <3>2
  <2>5. wpc' \in [Ranks -> RankPoints]
    OBVIOUS
  <2> QED
    BY <1>4, <2>3, <2>4, <2>5 DEF Enter
<1>5. ASSUME NEW r \in Ranks, OpenShard(r) PROVE TypeInv'
  <2> PICK role \in Saving :
         /\ shard' = [shard EXCEPT ![role][step][r] = Torn]
         /\ wpc' = [wpc EXCEPT ![r] = "open"]
    BY <1>5 DEF OpenShard
  <2>1. role \in Roles
    BY SavingType
  <2>2. shard' \in [Roles -> [Steps -> [Ranks -> Files]]]
    BY <2>1, ZenonT(60) DEF Files
  <2> QED
    BY <1>5, <2>2 DEF OpenShard
<1>6. ASSUME NEW r \in Ranks, WriteShard(r) PROVE TypeInv'
  <2> PICK role \in Saving :
         /\ shard' = [shard EXCEPT ![role][step][r] = run]
         /\ wpc' = [wpc EXCEPT ![r] = "barrier2"]
    BY <1>6 DEF WriteShard
  <2>1. role \in Roles /\ run \in Files
    BY SavingType DEF Saving, Files
  <2>2. shard' \in [Roles -> [Steps -> [Ranks -> Files]]]
    BY <2>1
  <2> QED
    BY <1>6, <2>2 DEF WriteShard
<1>7. CASE Saved
  <2> PICK role \in Saving :
         /\ saved' = [saved EXCEPT ![role] = Append(saved[role], step)]
         /\ IF role = "actor" /\ UseCritic
            THEN pc' = "save_critic" /\ wpc' = [r \in Ranks |-> "enter"]
            ELSE pc' = "data" /\ wpc' = [r \in Ranks |-> "idle"]
    BY <1>7 DEF Saved
  <2>1. role \in Roles /\ step \in Steps /\ run \in Runs
    BY SavingType DEF Saving
  <2>2. Append(saved[role], step) \in Seq(Steps)
    BY <2>1, AppendProperties
  <2>3. saved' \in [Roles -> Seq(Steps)]
    BY <2>1, <2>2
  <2> QED
    BY <1>7, <2>1, <2>3 DEF Saved
<1>8. CASE OpenData
  BY <1>8 DEF OpenData, Files
<1>9. CASE WriteData
  BY <1>9 DEF WriteData, Files
<1>10. CASE OpenTracker
  BY <1>10 DEF OpenTracker
<1>11. CASE WriteTracker
  BY <1>11 DEF WriteTracker, Steps
<1>12. CASE UNCHANGED vars
  BY <1>12 DEF vars
<1> QED
  BY <1>1, <1>2, <1>3, <1>4, <1>5, <1>6, <1>7, <1>8, <1>9, <1>10, <1>11, <1>12
     DEF Next, SaveStep

LEMMA TypeInvariant == Spec => []TypeInv
<1>1. Init => TypeInv
  BY CheckpointAssumption DEF Init, TypeInv, TypeOK, CriticUsed, SaveBounds,
     DriverPoints, RankPoints, Files
<1> QED
  BY <1>1, TypeStep, PTL DEF Spec

\* The disk and what the driver and the ranks hold stay well-formed, wherever
\* the job dies.
THEOREM TypeCorrect == Spec => []TypeOK
  BY TypeInvariant, PTL DEF TypeInv
-----------------------------------------------------------------------------
(* The tracked checkpoint.                                                 *)

SavePoints == {"save_actor", "save_critic", "data", "data_open", "tracker", "tracker_open"}
LivePoints == SavePoints \cup {"train"}

\* The tracker names a step up to the current one, and a step before it during
\* a save; it is half-written only while the driver rewrites it and after a
\* crash.
Counters ==
    /\ pc \in LivePoints \ {"tracker_open"} => tracker # Torn
    /\ pc \in LivePoints /\ tracker \in Steps => tracker <= step
    /\ pc \in SavePoints /\ tracker \in Steps => tracker < step

\* The role has not been saved yet at the current step.
Before(role) == pc \in {"train", "save_actor"} \/ (pc = "save_critic" /\ role = "critic")

\* What rank 0 remembers of a role are steps up to the tracked one, or up to
\* the one just saved, which comes last; nothing outlives the process.
Remembered ==
    /\ pc \notin LivePoints => \A role \in Roles : saved[role] = <<>>
    /\ \A role \in Roles : \A k \in 1 .. Len(saved[role]) :
         IF Before(role)
         THEN /\ tracker \in Steps
              /\ saved[role][k] <= tracker
              /\ k < Len(saved[role]) => saved[role][k] < tracker
         ELSE /\ saved[role][k] <= step
              /\ k < Len(saved[role]) => saved[role][k] < step

\* What the save in progress has written of the current step.
Written ==
    /\ \A role \in Saving, r \in Ranks :
         wpc[r] = "barrier2" => shard[role][step][r] = run
    /\ pc = "save_critic" => \A r \in Ranks : shard["actor"][step][r] = run
    /\ pc \in {"data", "data_open", "tracker", "tracker_open"} =>
         \A role \in Roles : \A r \in Ranks : shard[role][step][r] = run
    /\ pc \in {"tracker", "tracker_open"} => data[step] = run

\* The tracker names the step it named last, if it names one.
Named ==
    /\ tracker \in Steps => named = tracker
    /\ tracker = Absent => named = 0
    /\ pc = "tracker_open" => named < step

\* What rank 0 removes at the start of a save, and what it still remembers.
LEMMA RotationEffect ==
    ASSUME TypeInv, Enter(Leader)
    PROVE  \E role \in Saving :
             /\ KeepStart(role) \in 0 .. Len(saved[role])
             /\ \A x \in Roles, s \in Steps, q \in Ranks :
                  shard'[x][s][q] = IF x = role /\ s \in Rotated(role)
                                    THEN Absent ELSE shard[x][s][q]
             /\ \A x \in Roles \ {role} : saved'[x] = saved[x]
             /\ Len(saved'[role]) = Len(saved[role]) - KeepStart(role)
             /\ \A k \in 1 .. Len(saved[role]) - KeepStart(role) :
                  saved'[role][k] = saved[role][k + KeepStart(role)]
<1> PICK role \in Saving :
       /\ shard' = [shard EXCEPT ![role] = [s \in Steps |->
                      IF s \in Rotated(role) THEN [q \in Ranks |-> Absent]
                                             ELSE shard[role][s]]]
       /\ saved' = [saved EXCEPT ![role] =
                      SubSeq(saved[role], KeepStart(role) + 1, Len(saved[role]))]
  BY DEF Enter
<1>1. role \in Roles /\ saved[role] \in Seq(Steps) /\ KeepStart(role) \in 0 .. Len(saved[role])
  BY SavingType, KeepStartBound DEF TypeInv, TypeOK
<1>2. ASSUME NEW x \in Roles, NEW s \in Steps, NEW q \in Ranks
      PROVE  shard'[x][s][q] = IF x = role /\ s \in Rotated(role)
                               THEN Absent ELSE shard[x][s][q]
  BY <1>1, <1>2 DEF TypeInv, TypeOK
<1> DEFINE left == SubSeq(saved[role], KeepStart(role) + 1, Len(saved[role]))
<1>3. /\ Len(left) = Len(saved[role]) - KeepStart(role)
      /\ \A k \in 1 .. Len(saved[role]) - KeepStart(role) :
           left[k] = saved[role][k + KeepStart(role)]
  BY <1>1, DropFront
<1>4. saved'[role] = left /\ \A x \in Roles \ {role} : saved'[x] = saved[x]
  <2>1. saved' = [saved EXCEPT ![role] = left]
    OBVIOUS
  <2> HIDE DEF left
  <2> QED
    BY <1>1, <2>1 DEF TypeInv, TypeOK
<1> QED
  BY <1>1, <1>2, <1>3, <1>4

\* What the start of a save by one rank does to the shards and to the paths.
LEMMA EnterEffect ==
    ASSUME TypeInv, NEW r \in Ranks, Enter(r)
    PROVE  \E role \in Saving :
             /\ \A x \in Roles, s \in Steps, q \in Ranks :
                  shard'[x][s][q] = shard[x][s][q] \/ (x = role /\ s \in Rotated(role))
             /\ \A x \in Roles \ {role} : saved'[x] = saved[x]
             /\ \E d \in 0 .. Len(saved[role]) :
                  /\ Len(saved'[role]) = Len(saved[role]) - d
                  /\ \A k \in 1 .. Len(saved[role]) - d : saved'[role][k] = saved[role][k + d]
<1>1. CASE r = Leader
  BY <1>1, RotationEffect
<1>2. CASE r # Leader
  <2>1. PICK role \in Saving : shard' = shard /\ saved' = saved
    BY <1>2 DEF Enter
  <2>2. 0 \in 0 .. Len(saved[role]) /\ Len(saved[role]) \in Nat
    BY SavingType DEF TypeInv, TypeOK
  <2> QED
    BY <2>1, <2>2
<1> QED
  BY <1>1, <1>2

\* A removed path is neither of the step being saved nor, unless one
\* checkpoint is kept, of the tracked one.
LEMMA RotatedOld ==
    ASSUME TypeInv, Counters, Remembered, NEW role \in Saving, NEW s \in Rotated(role)
    PROVE  s # step /\ (MaxKeep # 1 => s # tracker)
<1>1. role \in Roles /\ Before(role) /\ pc \in SavePoints /\ step \in Int
  BY SavingType DEF Saving, Before, SavePoints, TypeInv, TypeOK
<1>2. KeepStart(role) \in 0 .. Len(saved[role]) /\ Len(saved[role]) \in Nat
  BY <1>1, KeepStartBound DEF TypeInv, TypeOK
<1>3. PICK k \in 1 .. KeepStart(role) : s = saved[role][k]
  BY DEF Rotated
<1>4. k \in 1 .. Len(saved[role])
  BY <1>2
<1>5. tracker \in Steps /\ s <= tracker /\ (k < Len(saved[role]) => s < tracker) /\ s \in Steps
  BY <1>1, <1>3, <1>4 DEF Remembered, TypeInv, TypeOK
<1>6. s # step
  BY <1>1, <1>5 DEF Counters, LivePoints, Steps
<1>7. MaxKeep # 1 => k < Len(saved[role])
  <2>1. saved[role] # <<>>
    BY <1>4
  <2> QED
    BY <1>1, <1>2, <2>1, KeepStartBound DEF TypeInv
<1> QED
  BY <1>5, <1>6, <1>7 DEF Steps

SaveInv == Counters /\ Remembered /\ Written /\ Named

LEMMA CountersStep == TypeInv /\ Counters /\ [Next]_vars => Counters'
<1> SUFFICES ASSUME TypeInv, Counters, [Next]_vars PROVE Counters'
  OBVIOUS
<1> USE CheckpointAssumption
    DEF Counters, LivePoints, SavePoints, TypeInv, TypeOK, SaveBounds, Steps, disk
<1>1. CASE Start
  BY <1>1 DEF Start, Latest
<1>2. CASE Train
  BY <1>2 DEF Train
<1>3. CASE Crash
  BY <1>3 DEF Crash
<1>4. ASSUME NEW r \in Ranks, Enter(r) \/ OpenShard(r) \/ WriteShard(r) PROVE Counters'
  BY <1>4 DEF Enter, OpenShard, WriteShard
<1>5. CASE Saved
  BY <1>5 DEF Saved, Saving
<1>6. CASE OpenData \/ WriteData \/ OpenTracker \/ WriteTracker
  BY <1>6 DEF OpenData, WriteData, OpenTracker, WriteTracker
<1>7. CASE UNCHANGED vars
  BY <1>7 DEF vars
<1> QED
  BY <1>1, <1>2, <1>3, <1>4, <1>5, <1>6, <1>7 DEF Next, SaveStep

LEMMA NamedStep == TypeInv /\ Counters /\ Named /\ [Next]_vars => Named'
<1> SUFFICES ASSUME TypeInv, Counters, Named, [Next]_vars PROVE Named'
  OBVIOUS
<1> USE CheckpointAssumption
    DEF Named, Counters, LivePoints, SavePoints, TypeInv, TypeOK, SaveBounds, Steps, disk
<1>1. CASE Start
  BY <1>1 DEF Start, Latest
<1>2. CASE Train
  BY <1>2 DEF Train
<1>3. CASE Crash
  BY <1>3 DEF Crash
<1>4. ASSUME NEW r \in Ranks, Enter(r) \/ OpenShard(r) \/ WriteShard(r) PROVE Named'
  BY <1>4 DEF Enter, OpenShard, WriteShard
<1>5. CASE Saved
  BY <1>5 DEF Saved, Saving
<1>6. CASE OpenData \/ WriteData \/ OpenTracker \/ WriteTracker
  BY <1>6 DEF OpenData, WriteData, OpenTracker, WriteTracker
<1>7. CASE UNCHANGED vars
  BY <1>7 DEF vars
<1> QED
  BY <1>1, <1>2, <1>3, <1>4, <1>5, <1>6, <1>7 DEF Next, SaveStep

LEMMA RememberedStep == TypeInv /\ Counters /\ Remembered /\ [Next]_vars => Remembered'
<1> SUFFICES ASSUME TypeInv, Counters, Remembered, [Next]_vars PROVE Remembered'
  OBVIOUS
<1> USE DEF LivePoints, SavePoints
<1>t. /\ step \in Nat /\ Steps \subseteq Nat
      /\ \A role \in Roles : saved[role] \in Seq(Steps) /\ Len(saved[role]) \in Nat
  BY CheckpointAssumption DEF TypeInv, TypeOK, Steps
<1>1. CASE Start
  BY <1>1 DEF Start, Remembered
<1>2. CASE Train
  BY <1>2, <1>t DEF Train, Remembered, Before, disk
<1>3. CASE Crash
  <2>1. pc' = "down" /\ saved' = [role \in Roles |-> <<>>]
    BY <1>3 DEF Crash
  <2>2. \A role \in Roles : saved'[role] = <<>> /\ Len(saved'[role]) = 0
    BY <2>1
  <2> QED
    BY <2>1, <2>2 DEF Remembered
<1>4. ASSUME NEW r \in Ranks, Enter(r) PROVE Remembered'
  <2> PICK role \in Saving :
         /\ \A x \in Roles \ {role} : saved'[x] = saved[x]
         /\ \E d \in 0 .. Len(saved[role]) :
              /\ Len(saved'[role]) = Len(saved[role]) - d
              /\ \A k \in 1 .. Len(saved[role]) - d : saved'[role][k] = saved[role][k + d]
    BY <1>4, EnterEffect
  <2> PICK d \in 0 .. Len(saved[role]) :
         /\ Len(saved'[role]) = Len(saved[role]) - d
         /\ \A k \in 1 .. Len(saved[role]) - d : saved'[role][k] = saved[role][k + d]
    OBVIOUS
  <2>1. role \in Roles /\ pc' = pc /\ step' = step /\ tracker' = tracker
    BY <1>4, SavingType DEF Enter
  <2>2. pc \in LivePoints
    BY DEF Saving
  <2>3. ASSUME NEW x \in Roles, NEW k \in 1 .. Len(saved'[x])
        PROVE  IF Before(x)
               THEN /\ tracker \in Steps
                    /\ saved'[x][k] <= tracker
                    /\ k < Len(saved'[x]) => saved'[x][k] < tracker
               ELSE /\ saved'[x][k] <= step
                    /\ k < Len(saved'[x]) => saved'[x][k] < step
    <3>1. CASE x = role
      <4>0. k \in 1 .. Len(saved[role]) - d /\ Len(saved[role]) \in Nat
        BY <1>t, <2>1, <2>3, <3>1
      <4>1. /\ k + d \in 1 .. Len(saved[role])
            /\ saved'[role][k] = saved[role][k + d]
            /\ (k < Len(saved'[role])) <=> (k + d < Len(saved[role]))
        BY <4>0
      <4> QED
        BY <2>1, <3>1, <4>1 DEF Remembered
    <3>2. CASE x # role
      BY <2>3, <3>2 DEF Remembered
    <3> QED
      BY <3>1, <3>2
  <2> QED
    BY <2>1, <2>2, <2>3 DEF Remembered, Before
<1>5. ASSUME NEW r \in Ranks, OpenShard(r) \/ WriteShard(r) PROVE Remembered'
  BY <1>5 DEF OpenShard, WriteShard, Remembered, Before
<1>6. CASE Saved
  <2> PICK role \in Saving :
         /\ saved' = [saved EXCEPT ![role] = Append(saved[role], step)]
         /\ IF role = "actor" /\ UseCritic THEN pc' = "save_critic" ELSE pc' = "data"
    BY <1>6 DEF Saved
  <2>1. /\ role \in Roles /\ step' = step /\ tracker' = tracker /\ step \in Steps
        /\ pc \in SavePoints /\ Before(role)
    BY <1>6, SavingType DEF Saved, Saving, Before, disk, TypeInv, SaveBounds
  <2>2. ~ Before(role)' /\ \A x \in Roles \ {role} : Before(x)' = Before(x)
    BY DEF Saving, Before, Roles
  <2>3. /\ Len(saved'[role]) = Len(saved[role]) + 1
        /\ \A k \in 1 .. Len(saved[role]) : saved'[role][k] = saved[role][k]
        /\ saved'[role][Len(saved[role]) + 1] = step
    BY <1>t, <2>1, AppendProperties DEF TypeInv, TypeOK
  <2>4. \A x \in Roles \ {role} : saved'[x] = saved[x]
    BY DEF TypeInv, TypeOK
  <2>5. ASSUME NEW k \in 1 .. Len(saved'[role])
        PROVE  saved'[role][k] <= step /\ (k < Len(saved'[role]) => saved'[role][k] < step)
    <3>1. CASE k = Len(saved[role]) + 1
      BY <1>t, <2>3, <3>1
    <3>2. CASE k # Len(saved[role]) + 1
      <4>1. k \in 1 .. Len(saved[role])
        BY <1>t, <2>1, <2>3, <2>5, <3>2
      <4>2. tracker \in Steps /\ saved[role][k] <= tracker /\ tracker < step
            /\ saved[role][k] \in Steps
        BY <1>t, <2>1, <4>1 DEF Remembered, Counters
      <4>3. saved[role][k] < step
        <5>1. saved[role][k] \in Nat /\ tracker \in Nat /\ step \in Nat
          BY <1>t, <4>2
        <5> QED
          BY <4>2, <5>1
      <4>4. saved'[role][k] = saved[role][k] /\ saved[role][k] \in Nat
        BY <1>t, <2>3, <4>1, <4>2
      <4> QED
        BY <1>t, <4>3, <4>4
    <3> QED
      BY <3>1, <3>2
  <2>6. pc' \in LivePoints
    OBVIOUS
  <2> QED
    BY <2>1, <2>2, <2>4, <2>5, <2>6 DEF Remembered
<1>7. CASE OpenData \/ WriteData \/ OpenTracker
  BY <1>7 DEF OpenData, WriteData, OpenTracker, Remembered, Before
<1>8. CASE WriteTracker
  BY <1>8 DEF WriteTracker, Remembered, Before, TypeInv, SaveBounds
<1>9. CASE UNCHANGED vars
  BY <1>9 DEF vars, disk, Remembered, Before
<1> QED
  BY <1>1, <1>2, <1>3, <1>4, <1>5, <1>6, <1>7, <1>8, <1>9 DEF Next, SaveStep

LEMMA WrittenStep ==
    TypeInv /\ Counters /\ Remembered /\ Written /\ [Next]_vars => Written'
<1> SUFFICES ASSUME TypeInv, Counters, Remembered, Written, [Next]_vars PROVE Written'
  OBVIOUS
<1>1. CASE Start
  BY <1>1 DEF Start, Written, Saving
<1>2. CASE Train
  BY <1>2 DEF Train, Written, Saving
<1>3. CASE Crash
  BY <1>3 DEF Crash, Written, Saving
<1>4. ASSUME NEW r \in Ranks, Enter(r) PROVE Written'
  <2> PICK role \in Saving :
         \A x \in Roles, s \in Steps, q \in Ranks :
           shard'[x][s][q] = shard[x][s][q] \/ (x = role /\ s \in Rotated(role))
    BY <1>4, EnterEffect
  <2>1. /\ role \in Roles /\ step \in Steps
        /\ pc' = pc /\ step' = step /\ run' = run /\ data' = data
        /\ wpc' = [wpc EXCEPT ![r] = "barrier1"]
    BY <1>4, SavingType DEF Enter, Saving, TypeInv, SaveBounds
  <2>2. \A x \in Roles, q \in Ranks : shard'[x][step][q] = shard[x][step][q]
    BY <2>1, RotatedOld
  <2>3. \A q \in Ranks : wpc'[q] = "barrier2" => wpc[q] = "barrier2"
    BY <2>1 DEF TypeInv, TypeOK
  <2>4. Saving' = Saving /\ Saving \subseteq Roles
    BY <2>1, SavingType DEF Saving
  <2> QED
    BY <2>1, <2>2, <2>3, <2>4 DEF Written, TypeInv, CriticUsed, Roles
<1>5. ASSUME NEW r \in Ranks, OpenShard(r) PROVE Written'
  <2> PICK role \in Saving :
         /\ shard' = [shard EXCEPT ![role][step][r] = Torn]
         /\ wpc' = [wpc EXCEPT ![r] = "open"]
    BY <1>5 DEF OpenShard
  <2>1. /\ role \in Roles /\ step \in Steps /\ pc \in {"save_actor", "save_critic"}
        /\ pc' = pc /\ step' = step /\ run' = run /\ Saving = {role}
    BY <1>5, SavingType DEF OpenShard, Saving, TypeInv, SaveBounds
  <2>2. \A x \in Roles, q \in Ranks :
          x # role \/ q # r => shard'[x][step][q] = shard[x][step][q]
    BY <2>1 DEF TypeInv, TypeOK
  <2>3. \A q \in Ranks : wpc'[q] = "barrier2" => wpc[q] = "barrier2" /\ q # r
    BY <2>1 DEF TypeInv, TypeOK
  <2>4. Saving' = Saving /\ (pc = "save_critic" => role = "critic")
    BY <2>1 DEF Saving
  <2> QED
    BY <2>1, <2>2, <2>3, <2>4 DEF Written, TypeInv, CriticUsed, Roles
<1>6. ASSUME NEW r \in Ranks, WriteShard(r) PROVE Written'
  <2> PICK role \in Saving :
         /\ shard' = [shard EXCEPT ![role][step][r] = run]
         /\ wpc' = [wpc EXCEPT ![r] = "barrier2"]
    BY <1>6 DEF WriteShard
  <2>1. /\ role \in Roles /\ step \in Steps /\ pc \in {"save_actor", "save_critic"}
        /\ pc' = pc /\ step' = step /\ run' = run /\ Saving = {role}
    BY <1>6, SavingType DEF WriteShard, Saving, TypeInv, SaveBounds
  <2>2. \A x \in Roles, q \in Ranks :
          shard'[x][step][q] = IF x = role /\ q = r THEN run ELSE shard[x][step][q]
    BY <2>1 DEF TypeInv, TypeOK
  <2>3. \A q \in Ranks : wpc'[q] = "barrier2" => wpc[q] = "barrier2" \/ q = r
    BY <2>1 DEF TypeInv, TypeOK
  <2>4. Saving' = Saving
    BY <2>1 DEF Saving
  <2> QED
    BY <2>1, <2>2, <2>3, <2>4 DEF Written, TypeInv, CriticUsed, Roles
<1>7. CASE Saved
  <2> PICK role \in Saving :
         /\ \A r \in Ranks : wpc[r] = "barrier2"
         /\ IF role = "actor" /\ UseCritic
            THEN pc' = "save_critic" /\ wpc' = [r \in Ranks |-> "enter"]
            ELSE pc' = "data" /\ wpc' = [r \in Ranks |-> "idle"]
    BY <1>7 DEF Saved
  <2>1. step' = step /\ run' = run /\ shard' = shard
    BY <1>7 DEF Saved, disk
  <2>2. \A r \in Ranks : shard[role][step][r] = run
    BY DEF Written
  <2>3. CASE role = "actor" /\ UseCritic
    BY <2>1, <2>2, <2>3 DEF Written, Saving
  <2>4. CASE ~ (role = "actor" /\ UseCritic)
    <3>1. pc' = "data"
      BY <2>4
    <3>2. \A x \in Roles : \A r \in Ranks : shard[x][step][r] = run
      BY <2>2, <2>4 DEF Written, Saving, Roles
    <3> QED
      BY <2>1, <3>1, <3>2 DEF Written, Saving
  <2> QED
    BY <2>3, <2>4
<1>8. CASE OpenData
  BY <1>8 DEF OpenData, Written, Saving
<1>9. CASE WriteData
  BY <1>9 DEF WriteData, Written, Saving, TypeInv, TypeOK, SaveBounds
<1>10. CASE OpenTracker \/ WriteTracker
  BY <1>10 DEF OpenTracker, WriteTracker, Written, Saving
<1>11. CASE UNCHANGED vars
  BY <1>11 DEF vars, disk, Written, Saving
<1> QED
  BY <1>1, <1>2, <1>3, <1>4, <1>5, <1>6, <1>7, <1>8, <1>9, <1>10, <1>11
     DEF Next, SaveStep

LEMMA SaveInvariant == Spec => [](TypeInv /\ SaveInv)
<1>1. Init => SaveInv
  BY CheckpointAssumption
     DEF Init, SaveInv, Counters, Remembered, Written, Named, LivePoints, SavePoints,
         Saving, Steps
<1>2. TypeInv /\ SaveInv /\ [Next]_vars => SaveInv'
  BY CountersStep, RememberedStep, WrittenStep, NamedStep DEF SaveInv
<1> QED
  BY <1>1, <1>2, TypeInvariant, PTL DEF Spec

\* No step but the one that names it touches the tracked checkpoint.
LEMMA CompleteStep ==
    ASSUME MaxKeep # 1
    PROVE  TypeInv /\ SaveInv /\ TrackedIsComplete /\ [Next]_vars => TrackedIsComplete'
<1> SUFFICES ASSUME TypeInv, SaveInv, TrackedIsComplete, [Next]_vars, tracker' \in Steps
             PROVE  TrackedIsComplete'
  BY DEF TrackedIsComplete
<1>s. pc \in SavePoints /\ tracker \in Steps => tracker # step /\ step \in Int
  BY DEF SaveInv, Counters, LivePoints, Steps, TypeInv, TypeOK
<1>u. ASSUME tracker \in Steps, tracker' = tracker, data'[tracker] = data[tracker],
             \A x \in Roles, q \in Ranks : shard'[x][tracker][q] = shard[x][tracker][q]
      PROVE  TrackedIsComplete'
  BY <1>u DEF TrackedIsComplete
<1>1. CASE Start \/ Train \/ Crash
  BY <1>1, <1>u DEF Start, Train, Crash, disk
<1>2. ASSUME NEW r \in Ranks, Enter(r) PROVE TrackedIsComplete'
  <2> PICK role \in Saving :
         \A x \in Roles, s \in Steps, q \in Ranks :
           shard'[x][s][q] = shard[x][s][q] \/ (x = role /\ s \in Rotated(role))
    BY <1>2, EnterEffect
  <2>1. tracker' = tracker /\ data' = data
    BY <1>2 DEF Enter
  <2>2. \A s \in Rotated(role) : s # tracker
    BY RotatedOld DEF SaveInv
  <2> QED
    BY <1>u, <2>1, <2>2
<1>3. ASSUME NEW r \in Ranks, OpenShard(r) \/ WriteShard(r) PROVE TrackedIsComplete'
  <2> PICK role \in Saving, f \in {Torn, run} : shard' = [shard EXCEPT ![role][step][r] = f]
    BY <1>3 DEF OpenShard, WriteShard
  <2>1. tracker' = tracker /\ data' = data
    BY <1>3 DEF OpenShard, WriteShard
  <2>2. role \in Roles /\ step \in Steps /\ tracker # step
    BY <1>s, <2>1, SavingType DEF Saving, SavePoints, TypeInv, SaveBounds
  <2>3. \A x \in Roles, q \in Ranks : shard'[x][tracker][q] = shard[x][tracker][q]
    BY <2>1, <2>2 DEF TypeInv, TypeOK
  <2> QED
    BY <1>u, <2>1, <2>3
<1>4. CASE Saved
  BY <1>4, <1>u DEF Saved, disk
<1>5. CASE OpenData \/ WriteData
  <2>1. tracker' = tracker /\ shard' = shard /\ tracker # step
    BY <1>5, <1>s DEF OpenData, WriteData, SavePoints
  <2>2. data'[tracker] = data[tracker]
    BY <1>5, <2>1 DEF OpenData, WriteData, TypeInv, TypeOK
  <2> QED
    BY <1>u, <2>1, <2>2
<1>6. CASE OpenTracker
  BY <1>6, CheckpointAssumption DEF OpenTracker, Steps
<1>7. CASE WriteTracker
  <2>1. tracker' = step /\ shard' = shard /\ data' = data /\ run \in Runs
    BY <1>7 DEF WriteTracker, TypeInv, SaveBounds
  <2>2. /\ \A role \in Roles : \A r \in Ranks : shard[role][step][r] = run
        /\ data[step] = run
    BY <1>7 DEF WriteTracker, SaveInv, Written
  <2> QED
    BY <2>1, <2>2 DEF TrackedIsComplete
<1>8. CASE UNCHANGED vars
  BY <1>8, <1>u DEF vars, disk
<1> QED
  BY <1>1, <1>2, <1>3, <1>4, <1>5, <1>6, <1>7, <1>8 DEF Next, SaveStep

\* With more than one checkpoint kept, or all, whatever was rotated and
\* wherever saves were cut short the tracker names a checkpoint every rank can
\* load whole, written by one run of the job.
THEOREM TrackedComplete == MaxKeep # 1 => (Spec => []TrackedIsComplete)
<1> SUFFICES ASSUME MaxKeep # 1 PROVE Spec => []TrackedIsComplete
  OBVIOUS
<1>1. Init => TrackedIsComplete
  BY CheckpointAssumption DEF Init, TrackedIsComplete, Steps
<1>2. TypeInv /\ SaveInv /\ TrackedIsComplete /\ [Next]_vars => TrackedIsComplete'
  BY CompleteStep
<1> QED
  BY <1>1, <1>2, SaveInvariant, PTL DEF Spec

\* ... so that a start of the job fails only on an empty tracker.
THEOREM StartFailsOnTornTracker == MaxKeep # 1 => (Spec => []FailsOnlyOnTornTracker)
<1> SUFFICES ASSUME MaxKeep # 1 PROVE Spec => []FailsOnlyOnTornTracker
  OBVIOUS
<1>1. Init => FailsOnlyOnTornTracker
  BY DEF Init, FailsOnlyOnTornTracker
<1>2. TypeInv /\ TrackedIsComplete /\ FailsOnlyOnTornTracker /\ [Next]_vars
        => FailsOnlyOnTornTracker'
  <2> SUFFICES ASSUME TypeInv, TrackedIsComplete, FailsOnlyOnTornTracker, [Next]_vars
               PROVE  FailsOnlyOnTornTracker'
    OBVIOUS
  <2>1. CASE Start
    <3>1. tracker \in Steps => Loadable(tracker)
      BY CheckpointAssumption DEF TrackedIsComplete, Loadable, Runs
    <3>2. pc' = "failed" => tracker = Torn
      BY <2>1, <3>1 DEF Start, Latest, TypeInv, TypeOK
    <3> QED
      BY <2>1, <3>2 DEF Start, FailsOnlyOnTornTracker, disk
  <2>2. ASSUME NEW r \in Ranks, Enter(r) \/ OpenShard(r) \/ WriteShard(r)
        PROVE  FailsOnlyOnTornTracker'
    BY <2>2 DEF Enter, OpenShard, WriteShard, FailsOnlyOnTornTracker
  <2>3. CASE Train \/ Crash \/ Saved
    BY <2>3 DEF Train, Crash, Saved, FailsOnlyOnTornTracker, disk
  <2>4. CASE OpenData \/ WriteData \/ OpenTracker \/ WriteTracker
    BY <2>4 DEF OpenData, WriteData, OpenTracker, WriteTracker, FailsOnlyOnTornTracker
  <2>5. CASE UNCHANGED vars
    BY <2>5 DEF vars, disk, FailsOnlyOnTornTracker
  <2> QED
    BY <2>1, <2>2, <2>3, <2>4, <2>5 DEF Next, SaveStep
<1> QED
  BY <1>1, <1>2, TrackedComplete, TypeInvariant, PTL DEF Spec

\* The checkpoint to resume from never moves back, over any number of crashes
\* and restarts, however many checkpoints are kept.
THEOREM TrackerMovesForward == Spec => TrackerAdvances
<1>1. TypeInv /\ SaveInv /\ [Next]_vars => [tracker' \in Steps => named <= tracker']_vars
  <2> SUFFICES ASSUME TypeInv, SaveInv, [Next]_vars, tracker' \in Steps
               PROVE  named <= tracker'
    OBVIOUS
  <2>1. CASE WriteTracker
    BY <2>1 DEF WriteTracker, SaveInv, Named, TypeInv, TypeOK, SaveBounds, Steps
  <2>2. CASE tracker' = tracker
    BY <2>2 DEF SaveInv, Named, TypeInv, TypeOK, Steps
  <2>3. CASE OpenTracker
    BY <2>3, CheckpointAssumption DEF OpenTracker, Steps
  <2>4. WriteTracker \/ tracker' = tracker \/ OpenTracker
    BY DEF Next, SaveStep, Start, Train, Crash, Enter, OpenShard, WriteShard, Saved,
           OpenData, WriteData, vars, disk
  <2> QED
    BY <2>1, <2>2, <2>3, <2>4
<1> QED
  BY <1>1, SaveInvariant, PTL DEF Spec, TrackerAdvances
-----------------------------------------------------------------------------
(* Rotation within a run.                                                  *)

\* No file was written by a run yet to come.
PastRuns ==
    \A role \in Roles, s \in Steps, r \in Ranks :
        shard[role][s][r] \in Runs => shard[role][s][r] <= run

\* What rank 0 remembers is in the order of the steps.
InOrder ==
    \A role \in Roles : \A i, j \in 1 .. Len(saved[role]) :
        i < j => saved[role][i] < saved[role][j]

\* A rank writes only when rank 0 has rotated.
LeaderPast == wpc[Leader] \notin {"enter", "idle"}
RotatedFirst == \A r \in Ranks : wpc[r] \in {"open", "barrier2"} => LeaderPast

\* What rank 0 remembers is there in full, and nothing else of this run is,
\* but the checkpoint being written.
Kept(role) == { saved[role][k] : k \in 1 .. Len(saved[role]) }
Writing(role) == role \in Saving /\ LeaderPast

Finished ==
    \A role \in Roles : \A k \in 1 .. Len(saved[role]) :
        saved[role][k] \in PresentFromRun(role)
NothingElse ==
    pc \in LivePoints =>
        \A role \in Roles :
            PresentFromRun(role) \subseteq
                Kept(role) \cup (IF Writing(role) THEN {step} ELSE {})

\* Rank 0 makes room before it writes.
RoomMade ==
    MaxKeep > 0 =>
        \A role \in Roles : /\ Len(saved[role]) <= MaxKeep
                            /\ Writing(role) => Len(saved[role]) < MaxKeep

\* What a run that has ended leaves.
LeftBehind ==
    MaxKeep > 0 /\ pc \notin LivePoints =>
        \A role \in Roles : Cardinality(PresentFromRun(role)) <= MaxKeep

\* A rank has no file of this run yet at the step it is still to write.
Unwritten ==
    \A role \in Roles, s \in Steps, r \in Ranks :
        pc \in LivePoints /\ shard[role][s][r] = run =>
            /\ s <= step
            /\ s = step /\ role \in Saving => wpc[r] = "barrier2"
            /\ s = step /\ pc = "save_actor" => role = "actor"

RotationInv ==
    /\ PastRuns /\ InOrder /\ RotatedFirst /\ Finished /\ NothingElse /\ RoomMade
    /\ LeftBehind /\ Unwritten

\* A new run begins with no checkpoint of its own.
LEMMA NoneOfNewRun ==
    ASSUME TypeInv, PastRuns, Start, NEW role \in Roles
    PROVE  PresentFromRun(role)' = {}
<1> SUFFICES ASSUME NEW s \in Steps, \A r \in Ranks : shard'[role][s][r] = run'
             PROVE  FALSE
  BY DEF PresentFromRun
<1>1. shard[role][s][Leader] = run + 1 /\ run \in Nat
  BY CheckpointAssumption DEF Start, disk, TypeInv, TypeOK
<1>2. shard[role][s][Leader] \in Files
  BY CheckpointAssumption DEF TypeInv, TypeOK
<1>3. shard[role][s][Leader] \in Runs
  BY <1>1, <1>2, CheckpointAssumption DEF Files
<1>4. run + 1 <= run
  BY <1>1, <1>3, CheckpointAssumption DEF PastRuns
<1> QED
  BY <1>1, <1>4

\* Where the disk and the run stay, so do the finished checkpoints.
LEMMA SamePresent ==
    ASSUME shard' = shard, run' = run, NEW role \in Roles
    PROVE  PresentFromRun(role)' = PresentFromRun(role)
  BY DEF PresentFromRun

\* Writing the files of one rank at one step touches no other step.
LEMMA OtherSteps ==
    ASSUME TypeInv, NEW role \in Saving, NEW r \in Ranks, NEW f,
           shard' = [shard EXCEPT ![role][step][r] = f], run' = run,
           NEW x \in Roles, NEW s \in Steps, x # role \/ s # step
    PROVE  s \in PresentFromRun(x)' <=> s \in PresentFromRun(x)
<1>1. \A q \in Ranks : shard'[x][s][q] = shard[x][s][q]
  BY SavingType DEF TypeInv, TypeOK
<1> QED
  BY <1>1 DEF PresentFromRun

\* What a role not yet saved has remembered is of steps before this one.
LEMMA KeptBefore ==
    ASSUME TypeInv, Counters, Remembered, NEW role \in Saving,
           NEW k \in 1 .. Len(saved[role])
    PROVE  saved[role][k] \in Steps /\ saved[role][k] < step
<1>1. role \in Roles /\ Before(role) /\ pc \in SavePoints /\ step \in Int
  BY SavingType DEF Saving, Before, SavePoints, TypeInv, TypeOK
<1>2. tracker \in Steps /\ saved[role][k] <= tracker /\ tracker < step
  BY <1>1 DEF Remembered, Counters
<1>3. saved[role] \in Seq(Steps)
  BY <1>1 DEF TypeInv, TypeOK
<1>4. saved[role][k] \in Steps
  BY <1>3
<1>5. saved[role][k] \in Int /\ tracker \in Int
  BY <1>2, <1>4 DEF Steps
<1> QED
  BY <1>1, <1>2, <1>4, <1>5

\* Remembering the path just saved.
LEMMA AppendEffect ==
    ASSUME TypeInv, NEW role \in Saving, saved' = [saved EXCEPT ![role] = Append(@, step)]
    PROVE  /\ \A x \in Roles \ {role} : saved'[x] = saved[x]
           /\ Len(saved[role]) \in Nat
           /\ Len(saved'[role]) = Len(saved[role]) + 1
           /\ \A k \in 1 .. Len(saved[role]) : saved'[role][k] = saved[role][k]
           /\ saved'[role][Len(saved[role]) + 1] = step
<1>1. role \in Roles /\ saved[role] \in Seq(Steps) /\ step \in Steps
  BY SavingType DEF TypeInv, TypeOK, SaveBounds, Saving
<1>2. saved'[role] = Append(saved[role], step) /\ \A x \in Roles \ {role} : saved'[x] = saved[x]
  BY <1>1 DEF TypeInv, TypeOK
<1> QED
  BY <1>1, <1>2, AppendProperties

LEMMA PastRunsStep == TypeInv /\ PastRuns /\ [Next]_vars => PastRuns'
<1> SUFFICES ASSUME TypeInv, PastRuns, [Next]_vars PROVE PastRuns'
  OBVIOUS
<1>t. run \in Nat /\ Runs \subseteq Nat
  BY CheckpointAssumption DEF TypeInv, TypeOK, Runs
<1>1. CASE Start
  <2>1. shard' = shard /\ run' = run + 1
    BY <1>1 DEF Start, disk
  <2>2. ASSUME NEW x \in Roles, NEW s \in Steps, NEW r \in Ranks, shard[x][s][r] \in Runs
        PROVE  shard[x][s][r] <= run + 1
    <3>1. shard[x][s][r] <= run /\ shard[x][s][r] \in Nat
      BY <1>t, <2>2 DEF PastRuns
    <3> QED
      BY <1>t, <3>1
  <2> QED
    BY <2>1, <2>2 DEF PastRuns
<1>2. ASSUME NEW r \in Ranks, Enter(r) PROVE PastRuns'
  <2>1. PICK role \in Saving :
          IF r = Leader
          THEN \A x \in Roles, s \in Steps, q \in Ranks :
                 shard'[x][s][q] \in {shard[x][s][q], Absent}
          ELSE shard' = shard
    <3>1. CASE r = Leader
      BY <1>2, <3>1, RotationEffect
    <3>2. CASE r # Leader
      BY <1>2, <3>2 DEF Enter
    <3> QED
      BY <3>1, <3>2
  <2>2. run' = run
    BY <1>2 DEF Enter
  <2> QED
    BY <2>1, <2>2, CheckpointAssumption, <1>t DEF PastRuns, Runs
<1>3. ASSUME NEW r \in Ranks, OpenShard(r) \/ WriteShard(r) PROVE PastRuns'
  <2> PICK role \in Saving, f \in {Torn, run} : shard' = [shard EXCEPT ![role][step][r] = f]
    BY <1>3 DEF OpenShard, WriteShard
  <2>1. run' = run /\ role \in Roles /\ step \in Steps
    BY <1>3, SavingType DEF OpenShard, WriteShard, TypeInv, SaveBounds, Saving
  <2>2. \A x \in Roles, s \in Steps, q \in Ranks : shard'[x][s][q] \in {shard[x][s][q], f}
    BY <2>1 DEF TypeInv, TypeOK
  <2> QED
    BY <2>1, <2>2, CheckpointAssumption, <1>t DEF PastRuns, Runs
<1>4. CASE Train \/ Crash \/ Saved \/ OpenData \/ WriteData \/ OpenTracker \/ WriteTracker
  BY <1>4 DEF Train, Crash, Saved, OpenData, WriteData, OpenTracker, WriteTracker, disk, PastRuns
<1>5. CASE UNCHANGED vars
  BY <1>5 DEF vars, disk, PastRuns
<1> QED
  BY <1>1, <1>2, <1>3, <1>4, <1>5 DEF Next, SaveStep

LEMMA RotatedFirstStep == TypeInv /\ RotatedFirst /\ [Next]_vars => RotatedFirst'
<1> SUFFICES ASSUME TypeInv, RotatedFirst, [Next]_vars PROVE RotatedFirst'
  OBVIOUS
<1> USE CheckpointAssumption DEF RotatedFirst, LeaderPast, TypeInv, TypeOK
<1>1. CASE Start \/ OpenData \/ WriteData \/ OpenTracker \/ WriteTracker
  BY <1>1 DEF Start, OpenData, WriteData, OpenTracker, WriteTracker
<1>2. CASE Train
  BY <1>2 DEF Train
<1>3. CASE Crash
  BY <1>3 DEF Crash
<1>4. ASSUME NEW r \in Ranks, Enter(r) PROVE RotatedFirst'
  BY <1>4 DEF Enter
<1>5. ASSUME NEW r \in Ranks, OpenShard(r) PROVE RotatedFirst'
  BY <1>5 DEF OpenShard, PastBarrier1
<1>6. ASSUME NEW r \in Ranks, WriteShard(r) PROVE RotatedFirst'
  BY <1>6 DEF WriteShard
<1>7. CASE Saved
  BY <1>7 DEF Saved
<1>8. CASE UNCHANGED vars
  BY <1>8 DEF vars
<1> QED
  BY <1>1, <1>2, <1>3, <1>4, <1>5, <1>6, <1>7, <1>8 DEF Next, SaveStep

LEMMA InOrderStep ==
    TypeInv /\ Counters /\ Remembered /\ InOrder /\ [Next]_vars => InOrder'
<1> SUFFICES ASSUME TypeInv, Counters, Remembered, InOrder, [Next]_vars PROVE InOrder'
  OBVIOUS
<1>t. \A x \in Roles : Len(saved[x]) \in Nat
  BY DEF TypeInv, TypeOK
<1>1. CASE Crash
  <2>1. \A x \in Roles : saved'[x] = <<>>
    BY <1>1 DEF Crash
  <2> QED
    BY <2>1 DEF InOrder
<1>2. CASE Enter(Leader)
  <2> PICK role \in Saving :
         /\ KeepStart(role) \in 0 .. Len(saved[role])
         /\ \A x \in Roles \ {role} : saved'[x] = saved[x]
         /\ Len(saved'[role]) = Len(saved[role]) - KeepStart(role)
         /\ \A k \in 1 .. Len(saved[role]) - KeepStart(role) :
              saved'[role][k] = saved[role][k + KeepStart(role)]
    BY <1>2, RotationEffect
  <2>1. ASSUME NEW i \in 1 .. Len(saved'[role]), NEW j \in 1 .. Len(saved'[role]), i < j
        PROVE  saved'[role][i] < saved'[role][j]
    <3> DEFINE d == KeepStart(role)
    <3>1. d \in Nat /\ Len(saved[role]) \in Nat
      BY <1>t, SavingType
    <3>2. /\ i + d \in 1 .. Len(saved[role]) /\ j + d \in 1 .. Len(saved[role])
          /\ i + d < j + d
      BY <2>1, <3>1
    <3>3. saved'[role][i] = saved[role][i + d] /\ saved'[role][j] = saved[role][j + d]
      BY <2>1
    <3> QED
      BY <3>2, <3>3, SavingType DEF InOrder
  <2> QED
    BY <2>1 DEF InOrder
<1>3. ASSUME NEW r \in Ranks, Enter(r), r # Leader PROVE InOrder'
  BY <1>3 DEF Enter, InOrder
<1>4. CASE Saved
  <2> PICK role \in Saving : saved' = [saved EXCEPT ![role] = Append(@, step)]
    BY <1>4 DEF Saved
  <2>1. /\ \A x \in Roles \ {role} : saved'[x] = saved[x]
        /\ Len(saved[role]) \in Nat
        /\ Len(saved'[role]) = Len(saved[role]) + 1
        /\ \A k \in 1 .. Len(saved[role]) : saved'[role][k] = saved[role][k]
        /\ saved'[role][Len(saved[role]) + 1] = step
    BY AppendEffect
  <2>2. ASSUME NEW i \in 1 .. Len(saved'[role]), NEW j \in 1 .. Len(saved'[role]), i < j
        PROVE  saved'[role][i] < saved'[role][j]
    <3>1. i \in 1 .. Len(saved[role])
      BY <2>1, <2>2
    <3>2. CASE j = Len(saved[role]) + 1
      BY <2>1, <3>1, <3>2, KeptBefore
    <3>3. CASE j # Len(saved[role]) + 1
      <4>1. j \in 1 .. Len(saved[role])
        BY <2>1, <2>2, <3>3
      <4> QED
        BY <2>1, <2>2, <3>1, <4>1, SavingType DEF InOrder
    <3> QED
      BY <3>2, <3>3
  <2> QED
    BY <2>1, <2>2 DEF InOrder
<1>5. saved' = saved => InOrder'
  BY DEF InOrder
<1> QED
  BY <1>1, <1>2, <1>3, <1>4, <1>5
     DEF Next, SaveStep, Start, Train, OpenShard, WriteShard, OpenData, WriteData,
         OpenTracker, WriteTracker, vars

LEMMA FinishedStep ==
    TypeInv /\ SaveInv /\ InOrder /\ Finished /\ [Next]_vars => Finished'
<1> SUFFICES ASSUME TypeInv, SaveInv, InOrder, Finished, [Next]_vars PROVE Finished'
  OBVIOUS
<1>t. \A x \in Roles : saved[x] \in Seq(Steps) /\ Len(saved[x]) \in Nat
  BY DEF TypeInv, TypeOK
<1>k. ASSUME saved' = saved, shard' = shard, run' = run PROVE Finished'
  BY <1>k, SamePresent DEF Finished
<1>1. CASE Start
  <2>1. \A x \in Roles : saved'[x] = <<>>
    BY <1>1 DEF Start, SaveInv, Remembered, LivePoints, SavePoints
  <2> QED
    BY <2>1 DEF Finished
<1>2. CASE Crash
  <2>1. \A x \in Roles : saved'[x] = <<>>
    BY <1>2 DEF Crash
  <2> QED
    BY <2>1 DEF Finished
<1>3. CASE Enter(Leader)
  <2> PICK role \in Saving :
         /\ KeepStart(role) \in 0 .. Len(saved[role])
         /\ \A x \in Roles, s \in Steps, q \in Ranks :
              shard'[x][s][q] = IF x = role /\ s \in Rotated(role)
                                THEN Absent ELSE shard[x][s][q]
         /\ \A x \in Roles \ {role} : saved'[x] = saved[x]
         /\ Len(saved'[role]) = Len(saved[role]) - KeepStart(role)
         /\ \A k \in 1 .. Len(saved[role]) - KeepStart(role) :
              saved'[role][k] = saved[role][k + KeepStart(role)]
    BY <1>3, RotationEffect
  <2>1. run' = run /\ role \in Roles
    BY <1>3, SavingType DEF Enter
  <2>2. ASSUME NEW k \in 1 .. Len(saved'[role])
        PROVE  saved'[role][k] \in PresentFromRun(role)'
    <3> DEFINE d == KeepStart(role)
               j == k + d
    <3>1. d \in Nat /\ Len(saved[role]) \in Nat
      BY <1>t, <2>1
    <3>2. j \in 1 .. Len(saved[role]) /\ saved'[role][k] = saved[role][j]
      BY <2>2, <3>1
    <3>3. \A i \in 1 .. d : i \in 1 .. Len(saved[role]) /\ i < j
      BY <2>2, <3>1, <3>2
    <3> HIDE DEF j
    <3>4. saved[role][j] \in PresentFromRun(role)
      BY <2>1, <3>2 DEF Finished
    <3>5. saved[role][j] \notin Rotated(role)
      <4>1. \A i \in 1 .. d : saved[role][i] < saved[role][j]
        BY <2>1, <3>2, <3>3 DEF InOrder
      <4>2. saved[role][j] \in Int
        BY <3>4 DEF PresentFromRun, Steps
      <4> QED
        BY <4>1, <4>2 DEF Rotated
    <3>6. /\ saved[role][j] \in Steps
          /\ \A q \in Ranks : shard[role][saved[role][j]][q] = run
      BY <3>4 DEF PresentFromRun
    <3>7. \A q \in Ranks : shard'[role][saved[role][j]][q] = run'
      BY <2>1, <3>5, <3>6
    <3> QED
      BY <3>2, <3>6, <3>7 DEF PresentFromRun
  <2>3. ASSUME NEW x \in Roles \ {role}, NEW k \in 1 .. Len(saved'[x])
        PROVE  saved'[x][k] \in PresentFromRun(x)'
    <3>1. saved'[x][k] = saved[x][k] /\ saved[x][k] \in PresentFromRun(x)
      BY <2>3 DEF Finished
    <3>2. /\ saved[x][k] \in Steps
          /\ \A q \in Ranks : shard'[x][saved[x][k]][q] = run'
      BY <2>1, <2>3, <3>1 DEF PresentFromRun
    <3> QED
      BY <3>1, <3>2 DEF PresentFromRun
  <2> QED
    BY <2>2, <2>3 DEF Finished
<1>4. ASSUME NEW r \in Ranks, Enter(r), r # Leader PROVE Finished'
  BY <1>4, <1>k DEF Enter
<1>5. ASSUME NEW r \in Ranks, OpenShard(r) \/ WriteShard(r) PROVE Finished'
  <2> PICK role \in Saving, f \in {Torn, run} : shard' = [shard EXCEPT ![role][step][r] = f]
    BY <1>5 DEF OpenShard, WriteShard
  <2>1. run' = run /\ saved' = saved /\ step \in Int
    <3>1. run' = run /\ saved' = saved
      BY <1>5 DEF OpenShard, WriteShard
    <3>2. step \in Int
      BY DEF TypeInv, TypeOK
    <3> QED
      BY <3>1, <3>2
  <2>2. ASSUME NEW x \in Roles, NEW k \in 1 .. Len(saved[x])
        PROVE  saved[x][k] \in PresentFromRun(x)'
    <3>1. saved[x][k] \in Steps /\ saved[x][k] \in PresentFromRun(x)
      BY <1>t DEF Finished
    <3>2. x # role \/ saved[x][k] # step
      <4> SUFFICES ASSUME x = role PROVE saved[x][k] # step
        OBVIOUS
      <4>1. saved[x][k] < step
        BY KeptBefore DEF SaveInv
      <4>2. saved[x][k] \in Int
        BY <3>1 DEF Steps
      <4> QED
        BY <2>1, <4>1, <4>2
    <3> QED
      BY <2>1, <3>1, <3>2, OtherSteps
  <2> QED
    BY <2>1, <2>2 DEF Finished
<1>6. CASE Saved
  <2> PICK role \in Saving : /\ \A r \in Ranks : wpc[r] = "barrier2"
                             /\ saved' = [saved EXCEPT ![role] = Append(@, step)]
    BY <1>6 DEF Saved
  <2>1. /\ \A x \in Roles \ {role} : saved'[x] = saved[x]
        /\ Len(saved[role]) \in Nat
        /\ Len(saved'[role]) = Len(saved[role]) + 1
        /\ \A k \in 1 .. Len(saved[role]) : saved'[role][k] = saved[role][k]
        /\ saved'[role][Len(saved[role]) + 1] = step
    BY AppendEffect
  <2>2. shard' = shard /\ run' = run
    BY <1>6 DEF Saved, disk
  <2>3. step \in PresentFromRun(role)
    BY DEF SaveInv, Written, PresentFromRun, TypeInv, SaveBounds, Saving
  <2>4. ASSUME NEW x \in Roles, NEW k \in 1 .. Len(saved'[x])
        PROVE  saved'[x][k] \in PresentFromRun(x)
    <3>1. CASE x = role /\ k = Len(saved[role]) + 1
      BY <2>1, <2>3, <3>1
    <3>2. CASE x = role /\ k # Len(saved[role]) + 1
      <4>1. k \in 1 .. Len(saved[role])
        BY <2>1, <2>4, <3>2
      <4> QED
        BY <2>1, <3>2, <4>1 DEF Finished
    <3>3. CASE x # role
      BY <2>1, <2>4, <3>3 DEF Finished
    <3> QED
      BY <3>1, <3>2, <3>3
  <2> QED
    BY <2>2, <2>4, SamePresent DEF Finished
<1>7. CASE Train \/ OpenData \/ WriteData \/ OpenTracker \/ WriteTracker
  BY <1>7, <1>k DEF Train, OpenData, WriteData, OpenTracker, WriteTracker, disk
<1>8. CASE UNCHANGED vars
  BY <1>8, <1>k DEF vars, disk
<1> QED
  BY <1>1, <1>2, <1>3, <1>4, <1>5, <1>6, <1>7, <1>8 DEF Next, SaveStep

LEMMA NothingElseStep ==
    TypeInv /\ SaveInv /\ PastRuns /\ RotatedFirst /\ NothingElse /\ [Next]_vars
      => NothingElse'
<1> SUFFICES ASSUME TypeInv, SaveInv, PastRuns, RotatedFirst, NothingElse, [Next]_vars,
                    pc' \in LivePoints, NEW x \in Roles, NEW s \in PresentFromRun(x)'
             PROVE  s \in Kept(x)' \/ (Writing(x)' /\ s = step')
  BY DEF NothingElse
<1>s. s \in Steps
  BY DEF PresentFromRun
<1>1. CASE Start
  BY <1>1, NoneOfNewRun
<1>2. CASE Crash
  BY <1>2 DEF Crash, LivePoints, SavePoints
<1>3. CASE Enter(Leader)
  <2> PICK role \in Saving :
         /\ KeepStart(role) \in 0 .. Len(saved[role])
         /\ \A y \in Roles, u \in Steps, q \in Ranks :
              shard'[y][u][q] = IF y = role /\ u \in Rotated(role)
                                THEN Absent ELSE shard[y][u][q]
         /\ \A y \in Roles \ {role} : saved'[y] = saved[y]
         /\ Len(saved'[role]) = Len(saved[role]) - KeepStart(role)
         /\ \A k \in 1 .. Len(saved[role]) - KeepStart(role) :
              saved'[role][k] = saved[role][k + KeepStart(role)]
    BY <1>3, RotationEffect
  <2>1. /\ run' = run /\ role \in Roles /\ run \in Int /\ pc \in LivePoints
        /\ wpc[Leader] = "enter" /\ Len(saved[role]) \in Nat
    BY <1>3, SavingType DEF Enter, TypeInv, TypeOK, Saving, LivePoints, SavePoints
  <2>2. ~ Writing(x)
    BY <2>1 DEF Writing, LeaderPast
  <2>3. ~ (x = role /\ s \in Rotated(role))
    <3>1. shard'[x][s][Leader] = run
      BY <2>1, CheckpointAssumption DEF PresentFromRun
    <3> QED
      BY <1>s, <2>1, <3>1, CheckpointAssumption
  <2>4. s \in PresentFromRun(x)
    BY <1>s, <2>1, <2>3 DEF PresentFromRun
  <2>5. s \in Kept(x)
    BY <2>1, <2>2, <2>4 DEF NothingElse
  <2>6. PICK k \in 1 .. Len(saved[x]) : s = saved[x][k]
    BY <2>5 DEF Kept
  <2>7. CASE x = role
    <3> DEFINE d == KeepStart(role)
    <3>1. k \notin 1 .. d /\ d \in Nat
      BY <2>3, <2>6, <2>7 DEF Rotated
    <3>2. /\ k - d \in 1 .. Len(saved'[role])
          /\ saved'[role][k - d] = saved[role][(k - d) + d]
      <4>1. k - d \in 1 .. Len(saved[role]) - d
        BY <2>1, <2>6, <2>7, <3>1
      <4> QED
        BY <4>1
    <3>3. saved'[role][k - d] = s
      BY <2>6, <2>7, <3>1, <3>2
    <3> QED
      BY <2>7, <3>2, <3>3 DEF Kept
  <2>8. CASE x # role
    BY <2>6, <2>8 DEF Kept
  <2> QED
    BY <2>7, <2>8
<1>4. ASSUME NEW r \in Ranks, Enter(r), r # Leader
      PROVE  s \in Kept(x)' \/ (Writing(x)' /\ s = step')
  <2>1. /\ shard' = shard /\ saved' = saved /\ run' = run /\ pc' = pc /\ step' = step
        /\ wpc'[Leader] = wpc[Leader]
    BY <1>4, CheckpointAssumption DEF Enter, TypeInv, TypeOK
  <2> QED
    BY <2>1, SamePresent DEF NothingElse, Kept, Writing, LeaderPast, Saving
<1>5. ASSUME NEW r \in Ranks, OpenShard(r) \/ WriteShard(r)
      PROVE  s \in Kept(x)' \/ (Writing(x)' /\ s = step')
  <2> PICK role \in Saving, f \in {Torn, run} : shard' = [shard EXCEPT ![role][step][r] = f]
    BY <1>5 DEF OpenShard, WriteShard
  <2>1. /\ run' = run /\ saved' = saved /\ pc' = pc /\ step' = step
        /\ role \in Roles /\ pc \in LivePoints
    BY <1>5, SavingType DEF OpenShard, WriteShard, Saving, LivePoints, SavePoints
  <2>2. LeaderPast /\ LeaderPast'
    <3>1. CASE OpenShard(r)
      BY <3>1, CheckpointAssumption DEF OpenShard, PastBarrier1, LeaderPast, TypeInv, TypeOK
    <3>2. CASE WriteShard(r)
      BY <3>2, CheckpointAssumption
         DEF WriteShard, RotatedFirst, LeaderPast, TypeInv, TypeOK
    <3> QED
      BY <1>5, <3>1, <3>2
  <2>3. Kept(x)' = Kept(x) /\ Writing(role)'
    BY <2>1, <2>2 DEF Kept, Writing, Saving
  <2>4. CASE x = role /\ s = step
    BY <2>1, <2>3, <2>4
  <2>5. CASE x # role \/ s # step
    <3>1. s \in PresentFromRun(x)
      BY <1>s, <2>1, <2>5, OtherSteps
    <3>2. Saving = {role}
      BY DEF Saving
    <3> QED
      BY <2>1, <2>3, <2>5, <3>1, <3>2 DEF NothingElse, Writing
  <2> QED
    BY <2>4, <2>5
<1>6. CASE Saved
  <2> PICK role \in Saving : saved' = [saved EXCEPT ![role] = Append(@, step)]
    BY <1>6 DEF Saved
  <2>1. /\ \A y \in Roles \ {role} : saved'[y] = saved[y]
        /\ Len(saved[role]) \in Nat
        /\ Len(saved'[role]) = Len(saved[role]) + 1
        /\ \A k \in 1 .. Len(saved[role]) : saved'[role][k] = saved[role][k]
        /\ saved'[role][Len(saved[role]) + 1] = step
    BY AppendEffect
  <2>2. shard' = shard /\ run' = run /\ pc \in LivePoints /\ Saving = {role}
    BY <1>6 DEF Saved, disk, Saving, LivePoints, SavePoints
  <2>3. s \in Kept(x) \/ (x = role /\ s = step)
    BY <2>2, SamePresent DEF NothingElse, Writing
  <2>4. CASE x = role /\ s = step
    BY <2>1, <2>4 DEF Kept
  <2>5. CASE s \in Kept(x)
    <3>1. PICK k \in 1 .. Len(saved[x]) : s = saved[x][k]
      BY <2>5 DEF Kept
    <3>2. k \in 1 .. Len(saved'[x]) /\ saved'[x][k] = s
      BY <2>1, <3>1
    <3> QED
      BY <3>2 DEF Kept
  <2> QED
    BY <2>3, <2>4, <2>5
<1>7. CASE Train \/ OpenData \/ WriteData \/ OpenTracker \/ WriteTracker
  <2>1. /\ shard' = shard /\ run' = run /\ saved' = saved
        /\ pc \in LivePoints /\ Saving = {}
    BY <1>7 DEF Train, OpenData, WriteData, OpenTracker, WriteTracker, disk, Saving,
       LivePoints, SavePoints
  <2> QED
    BY <2>1, SamePresent DEF NothingElse, Kept, Writing
<1>8. CASE UNCHANGED vars
  BY <1>8, SamePresent DEF vars, disk, NothingElse, Kept, Writing, LeaderPast, Saving
<1> QED
  BY <1>1, <1>2, <1>3, <1>4, <1>5, <1>6, <1>7, <1>8 DEF Next, SaveStep

LEMMA RoomMadeStep ==
    TypeInv /\ Remembered /\ RotatedFirst /\ RoomMade /\ [Next]_vars => RoomMade'
<1> SUFFICES ASSUME TypeInv, Remembered, RotatedFirst, RoomMade, [Next]_vars, MaxKeep > 0,
                    NEW x \in Roles
             PROVE  /\ Len(saved'[x]) <= MaxKeep
                    /\ Writing(x)' => Len(saved'[x]) < MaxKeep
  BY DEF RoomMade
<1>t. Len(saved[x]) \in Nat /\ MaxKeep \in Nat
  BY CheckpointAssumption DEF TypeInv, TypeOK
<1>r. Len(saved[x]) <= MaxKeep /\ (Writing(x) => Len(saved[x]) < MaxKeep)
  BY DEF RoomMade
<1>1. CASE Start \/ Train \/ OpenData \/ WriteData \/ OpenTracker \/ WriteTracker
  <2>1. saved' = saved
    BY <1>1 DEF Start, Train, OpenData, WriteData, OpenTracker, WriteTracker
  <2>2. ~ Writing(x)'
    <3>1. CASE Train
      BY <3>1, CheckpointAssumption DEF Train, Writing, Saving, LeaderPast
    <3>2. CASE ~ Train
      BY <1>1, <3>2 DEF Start, OpenData, WriteData, OpenTracker, WriteTracker, Writing, Saving
    <3> QED
      BY <3>1, <3>2
  <2> QED
    BY <1>r, <2>1, <2>2
<1>2. CASE Crash
  <2>1. Len(saved'[x]) = 0
    BY <1>2 DEF Crash
  <2> QED
    BY <1>t, <2>1
<1>3. CASE Enter(Leader)
  <2> PICK role \in Saving :
         /\ \A y \in Roles \ {role} : saved'[y] = saved[y]
         /\ Len(saved'[role]) = Len(saved[role]) - KeepStart(role)
    BY <1>3, RotationEffect
  <2>1. CASE x = role
    <3>1. CASE Len(saved[role]) >= MaxKeep
      <4>1. Len(saved'[role]) = Len(saved[role]) - (Len(saved[role]) - MaxKeep + 1)
        BY <3>1 DEF KeepStart
      <4>2. Len(saved'[role]) = MaxKeep - 1
        BY <1>t, <2>1, <4>1
      <4> QED
        BY <1>t, <2>1, <4>2
    <3>2. CASE ~ Len(saved[role]) >= MaxKeep
      <4>1. Len(saved'[role]) = Len(saved[role]) - 0
        BY <3>2 DEF KeepStart
      <4> QED
        BY <1>t, <2>1, <3>2, <4>1
    <3> QED
      BY <3>1, <3>2
  <2>2. CASE x # role
    <3>1. ~ Writing(x)'
      BY <1>3, <2>2 DEF Enter, Writing, Saving
    <3> QED
      BY <1>r, <2>2, <3>1
  <2> QED
    BY <2>1, <2>2
<1>4. ASSUME NEW r \in Ranks, Enter(r), r # Leader
      PROVE  /\ Len(saved'[x]) <= MaxKeep
             /\ Writing(x)' => Len(saved'[x]) < MaxKeep
  <2>1. saved' = saved /\ pc' = pc /\ wpc'[Leader] = wpc[Leader]
    BY <1>4, CheckpointAssumption DEF Enter, TypeInv, TypeOK
  <2> QED
    BY <1>r, <2>1 DEF Writing, LeaderPast, Saving
<1>5. ASSUME NEW r \in Ranks, OpenShard(r) \/ WriteShard(r)
      PROVE  /\ Len(saved'[x]) <= MaxKeep
             /\ Writing(x)' => Len(saved'[x]) < MaxKeep
  <2>1. saved' = saved /\ pc' = pc
    BY <1>5 DEF OpenShard, WriteShard
  <2>2. LeaderPast
    BY <1>5, CheckpointAssumption
       DEF OpenShard, WriteShard, PastBarrier1, RotatedFirst, LeaderPast
  <2> QED
    BY <1>r, <2>1, <2>2 DEF Writing, Saving
<1>6. CASE Saved
  <2> PICK role \in Saving :
         /\ \A r \in Ranks : wpc[r] = "barrier2"
         /\ saved' = [saved EXCEPT ![role] = Append(@, step)]
         /\ \/ wpc' = [r \in Ranks |-> "enter"]
            \/ wpc' = [r \in Ranks |-> "idle"]
    BY <1>6 DEF Saved
  <2>1. /\ \A y \in Roles \ {role} : saved'[y] = saved[y]
        /\ Len(saved'[role]) = Len(saved[role]) + 1
    BY AppendEffect
  <2>2. ~ Writing(x)' /\ Writing(role)
    BY CheckpointAssumption DEF Writing, LeaderPast
  <2>3. CASE x = role
    BY <1>t, <1>r, <2>1, <2>2, <2>3
  <2>4. CASE x # role
    BY <1>r, <2>1, <2>2, <2>4
  <2> QED
    BY <2>3, <2>4
<1>7. CASE UNCHANGED vars
  BY <1>7, <1>r DEF vars, Writing, LeaderPast, Saving
<1> QED
  BY <1>1, <1>2, <1>3, <1>4, <1>5, <1>6, <1>7 DEF Next, SaveStep

\* There are no more remembered checkpoints than remembered paths.
LEMMA KeptCount ==
    ASSUME TypeInv, NEW role \in Roles
    PROVE  IsFiniteSet(Kept(role)) /\ Cardinality(Kept(role)) <= Len(saved[role])
<1> DEFINE n == Len(saved[role])
           f == [k \in 1 .. n |-> saved[role][k]]
<1>1. n \in Nat
  BY DEF TypeInv, TypeOK
<1>2. IsFiniteSet(1 .. n) /\ Cardinality(1 .. n) = n
  BY <1>1, FS_Interval
<1>3. f \in Surjection(1 .. n, Kept(role))
  BY DEF Kept, Surjection
<1>4. IsFiniteSet(Kept(role)) /\ Cardinality(Kept(role)) <= Cardinality(1 .. n)
  <2> HIDE DEF f, n
  <2> QED
    BY <1>2, <1>3, FS_Surjection
<1> QED
  BY <1>2, <1>4

\* While a run lives, the limit bounds what it has finished.
LEMMA LiveBound ==
    ASSUME TypeInv, NothingElse, RoomMade, MaxKeep > 0, pc \in LivePoints, NEW role \in Roles
    PROVE  Cardinality(PresentFromRun(role)) <= MaxKeep
<1> DEFINE P == PresentFromRun(role)
           K == Kept(role)
           KS == K \cup {step}
<1>1. /\ IsFiniteSet(K) /\ Cardinality(K) <= Len(saved[role])
      /\ Len(saved[role]) \in Nat /\ Cardinality(K) \in Nat /\ MaxKeep \in Nat
  BY KeptCount, FS_CardinalityType, CheckpointAssumption DEF TypeInv, TypeOK
<1>2. Len(saved[role]) <= MaxKeep /\ (Writing(role) => Len(saved[role]) < MaxKeep)
  BY DEF RoomMade
<1>3. CASE Writing(role)
  <2>1. P \in SUBSET KS
    BY <1>3 DEF NothingElse
  <2>2. IsFiniteSet(KS) /\ Cardinality(KS) <= Cardinality(K) + 1
    <3> HIDE DEF K
    <3>1. /\ IsFiniteSet(K \cup {step})
          /\ Cardinality(K \cup {step}) =
               IF step \in K THEN Cardinality(K) ELSE Cardinality(K) + 1
      BY <1>1, FS_AddElement, Zenon
    <3> DEFINE c == Cardinality(K)
               d == Cardinality(KS)
    <3>2. c \in Nat /\ (d = c \/ d = c + 1)
      BY <1>1, <3>1
    <3> HIDE DEF c, d
    <3>3. d <= c + 1
      BY <3>2
    <3> QED
      BY <3>1, <3>3 DEF c, d
  <2>3. IsFiniteSet(P) /\ Cardinality(P) <= Cardinality(KS)
    <3> HIDE DEF P, KS
    <3> QED
      BY <2>1, <2>2, FS_Subset
  <2>4. Cardinality(P) \in Nat /\ Cardinality(KS) \in Nat
    BY <2>2, <2>3, FS_CardinalityType
  <2> HIDE DEF P, K, KS
  <2>5. Cardinality(P) <= MaxKeep
    BY <1>1, <1>2, <1>3, <2>2, <2>3, <2>4
  <2> QED
    BY <2>5 DEF P
<1>4. CASE ~ Writing(role)
  <2>1. P \in SUBSET K
    BY <1>4 DEF NothingElse
  <2>2. IsFiniteSet(P) /\ Cardinality(P) <= Cardinality(K) /\ Cardinality(P) \in Nat
    <3> HIDE DEF P, K
    <3> QED
      BY <1>1, <2>1, FS_Subset, FS_CardinalityType
  <2> HIDE DEF P, K
  <2>3. Cardinality(P) <= MaxKeep
    BY <1>1, <1>2, <2>2
  <2> QED
    BY <2>3 DEF P
<1> QED
  BY <1>3, <1>4

LEMMA LeftBehindStep ==
    TypeInv /\ PastRuns /\ NothingElse /\ RoomMade /\ LeftBehind /\ [Next]_vars
      => LeftBehind'
<1> SUFFICES ASSUME TypeInv, PastRuns, NothingElse, RoomMade, LeftBehind, [Next]_vars,
                    MaxKeep > 0, pc' \notin LivePoints, NEW role \in Roles
             PROVE  Cardinality(PresentFromRun(role))' <= MaxKeep
  BY DEF LeftBehind
<1>1. CASE Start
  <2>1. Cardinality(PresentFromRun(role))' = 0
    BY <1>1, NoneOfNewRun, FS_EmptySet
  <2> QED
    BY <2>1, CheckpointAssumption
<1>2. CASE Crash
  <2>1. pc \in LivePoints /\ shard' = shard /\ run' = run
    BY <1>2 DEF Crash, disk, TypeInv, TypeOK, DriverPoints, LivePoints, SavePoints
  <2> QED
    BY <2>1, LiveBound, SamePresent
<1>3. CASE UNCHANGED vars
  BY <1>3, SamePresent DEF vars, disk, LeftBehind
<1> QED
  BY <1>1, <1>2, <1>3
     DEF Next, SaveStep, Train, Enter, OpenShard, WriteShard, Saved, OpenData,
         WriteData, OpenTracker, WriteTracker, Saving, LivePoints, SavePoints

LEMMA UnwrittenStep ==
    TypeInv /\ PastRuns /\ Unwritten /\ [Next]_vars => Unwritten'
<1> SUFFICES ASSUME TypeInv, PastRuns, Unwritten, [Next]_vars, pc' \in LivePoints,
                    NEW x \in Roles, NEW s \in Steps, NEW r \in Ranks,
                    shard'[x][s][r] = run'
             PROVE  /\ s <= step'
                    /\ s = step' /\ x \in Saving' => wpc'[r] = "barrier2"
                    /\ s = step' /\ pc' = "save_actor" => x = "actor"
  BY DEF Unwritten
<1>t. /\ step \in Int /\ run \in Int /\ s \in Int
      /\ shard[x][s][r] \in Files
  <2>1. step \in Int /\ run \in Int /\ shard[x][s][r] \in Files
    BY DEF TypeInv, TypeOK
  <2> QED
    BY <2>1 DEF Steps
<1>1. CASE Start
  <2>1. shard[x][s][r] = run + 1
    BY <1>1 DEF Start, disk
  <2>2. shard[x][s][r] \in Runs
    BY <1>t, <2>1, CheckpointAssumption DEF Files
  <2> QED
    BY <1>t, <2>1, <2>2 DEF PastRuns
<1>2. CASE Train
  <2>1. pc \in LivePoints /\ shard[x][s][r] = run /\ step' = step + 1
    BY <1>2 DEF Train, disk, LivePoints
  <2>2. s <= step
    BY <2>1 DEF Unwritten
  <2> QED
    BY <1>t, <2>1, <2>2
<1>3. CASE Crash
  BY <1>3 DEF Crash, LivePoints, SavePoints
<1>4. ASSUME NEW p \in Ranks, Enter(p)
      PROVE  /\ s <= step'
             /\ s = step' /\ x \in Saving' => wpc'[r] = "barrier2"
             /\ s = step' /\ pc' = "save_actor" => x = "actor"
  <2>1. /\ pc' = pc /\ step' = step /\ run' = run /\ wpc[p] = "enter"
        /\ wpc' = [wpc EXCEPT ![p] = "barrier1"]
    BY <1>4 DEF Enter
  <2>2. shard[x][s][r] = run
    <3>1. CASE p = Leader
      <4>1. shard'[x][s][r] \in {shard[x][s][r], Absent}
        BY <1>4, <3>1, RotationEffect
      <4> QED
        BY <1>t, <2>1, <4>1, CheckpointAssumption
    <3>2. CASE p # Leader
      BY <1>4, <2>1, <3>2 DEF Enter
    <3> QED
      BY <3>1, <3>2
  <2>3. /\ s <= step
        /\ s = step /\ x \in Saving => wpc[r] = "barrier2"
        /\ s = step /\ pc = "save_actor" => x = "actor"
    BY <2>1, <2>2 DEF Unwritten
  <2>4. wpc[r] = "barrier2" => wpc'[r] = "barrier2"
    BY <2>1 DEF TypeInv, TypeOK
  <2> QED
    BY <2>1, <2>3, <2>4 DEF Saving
<1>5. ASSUME NEW p \in Ranks, OpenShard(p)
      PROVE  /\ s <= step'
             /\ s = step' /\ x \in Saving' => wpc'[r] = "barrier2"
             /\ s = step' /\ pc' = "save_actor" => x = "actor"
  <2>1. PICK role \in Saving : /\ shard' = [shard EXCEPT ![role][step][p] = Torn]
                               /\ pc' = pc /\ step' = step /\ run' = run
                               /\ wpc' = [wpc EXCEPT ![p] = "open"]
    BY <1>5 DEF OpenShard
  <2>2. role \in Roles /\ step \in Steps
    BY SavingType DEF TypeInv, SaveBounds, Saving
  <2>3. shard'[x][s][r] = IF x = role /\ s = step /\ r = p THEN Torn ELSE shard[x][s][r]
    BY <2>1, <2>2 DEF TypeInv, TypeOK
  <2>4. ~ (x = role /\ s = step /\ r = p) /\ shard[x][s][r] = run
    BY <1>t, <2>1, <2>3, CheckpointAssumption
  <2>5. /\ s <= step
        /\ s = step /\ x \in Saving => wpc[r] = "barrier2"
        /\ s = step /\ pc = "save_actor" => x = "actor"
    BY <2>1, <2>4 DEF Unwritten
  <2>6. x \in Saving => x = role
    BY DEF Saving
  <2>7. r # p => wpc'[r] = wpc[r]
    BY <2>1 DEF TypeInv, TypeOK
  <2> QED
    BY <2>1, <2>4, <2>5, <2>6, <2>7 DEF Saving
<1>6. ASSUME NEW p \in Ranks, WriteShard(p)
      PROVE  /\ s <= step'
             /\ s = step' /\ x \in Saving' => wpc'[r] = "barrier2"
             /\ s = step' /\ pc' = "save_actor" => x = "actor"
  <2>1. PICK role \in Saving : /\ shard' = [shard EXCEPT ![role][step][p] = run]
                               /\ pc' = pc /\ step' = step /\ run' = run
                               /\ wpc' = [wpc EXCEPT ![p] = "barrier2"]
    BY <1>6 DEF WriteShard
  <2>2. role \in Roles /\ step \in Steps
    BY SavingType DEF TypeInv, SaveBounds, Saving
  <2>3. shard'[x][s][r] = IF x = role /\ s = step /\ r = p THEN run ELSE shard[x][s][r]
    BY <2>1, <2>2 DEF TypeInv, TypeOK
  <2>4. wpc'[r] = IF r = p THEN "barrier2" ELSE wpc[r]
    BY <2>1 DEF TypeInv, TypeOK
  <2>5. CASE x = role /\ s = step /\ r = p
    BY <1>t, <2>1, <2>4, <2>5 DEF Saving
  <2>6. CASE ~ (x = role /\ s = step /\ r = p)
    <3>1. shard[x][s][r] = run
      BY <2>1, <2>3, <2>6
    <3>2. /\ s <= step
          /\ s = step /\ x \in Saving => wpc[r] = "barrier2"
          /\ s = step /\ pc = "save_actor" => x = "actor"
      BY <2>1, <3>1 DEF Unwritten
    <3> QED
      BY <2>1, <2>4, <3>2 DEF Saving
  <2> QED
    BY <2>5, <2>6
<1>7. CASE Saved
  <2>1. /\ shard' = shard /\ run' = run /\ step' = step /\ pc \in LivePoints
        /\ \/ pc = "save_actor" /\ pc' = "save_critic"
           \/ pc' = "data"
    BY <1>7 DEF Saved, disk, Saving, LivePoints, SavePoints
  <2>2. s <= step /\ (s = step /\ pc = "save_actor" => x = "actor")
    BY <2>1 DEF Unwritten
  <2> QED
    BY <2>1, <2>2 DEF Saving
<1>8. CASE OpenData \/ WriteData \/ OpenTracker \/ WriteTracker
  <2>1. /\ shard' = shard /\ run' = run /\ step' = step /\ pc \in LivePoints
        /\ Saving' = {} /\ pc' # "save_actor"
    BY <1>8 DEF OpenData, WriteData, OpenTracker, WriteTracker, Saving, LivePoints, SavePoints
  <2> QED
    BY <2>1 DEF Unwritten
<1>9. CASE UNCHANGED vars
  BY <1>9 DEF vars, disk, Unwritten, Saving
<1> QED
  BY <1>1, <1>2, <1>3, <1>4, <1>5, <1>6, <1>7, <1>8, <1>9 DEF Next, SaveStep

LEMMA RotationInvariant == Spec => []RotationInv
<1>1. Init => RotationInv
  <2> SUFFICES ASSUME Init PROVE RotationInv
    OBVIOUS
  <2>1. /\ \A role \in Roles : saved[role] = <<>> /\ Len(saved[role]) = 0
        /\ \A role \in Roles, s \in Steps, r \in Ranks : shard[role][s][r] = Absent
        /\ pc = "down" /\ run = 0 /\ \A r \in Ranks : wpc[r] = "idle"
    BY DEF Init
  <2>2. \A role \in Roles : PresentFromRun(role) = {}
    BY <2>1, CheckpointAssumption DEF PresentFromRun
  <2>3. PastRuns /\ InOrder /\ RotatedFirst /\ Finished
    BY <2>1, CheckpointAssumption DEF PastRuns, InOrder, RotatedFirst, Finished, Runs
  <2>5. Unwritten
    BY <2>1 DEF Unwritten, LivePoints, SavePoints
  <2>4. NothingElse /\ RoomMade /\ LeftBehind
    <3>1. NothingElse
      BY <2>2 DEF NothingElse
    <3>2. RoomMade
      BY <2>1, CheckpointAssumption DEF RoomMade, Writing, Saving
    <3>3. LeftBehind
      BY <2>2, FS_EmptySet, CheckpointAssumption DEF LeftBehind
    <3> QED
      BY <3>1, <3>2, <3>3
  <2> QED
    BY <2>3, <2>4, <2>5 DEF RotationInv
<1>2. TypeInv /\ SaveInv /\ RotationInv /\ [Next]_vars => RotationInv'
  BY PastRunsStep, InOrderStep, RotatedFirstStep, FinishedStep, NothingElseStep,
     RoomMadeStep, LeftBehindStep, UnwrittenStep DEF RotationInv, SaveInv
<1> QED
  BY <1>1, <1>2, SaveInvariant, PTL DEF Spec

\* What a rotation leaves of the role whose path s it removes: as many newer
\* checkpoints as the limit allows beside the one to be written.
LEMMA NewerLeft ==
    ASSUME TypeInv, SaveInv, RotationInv, Finished', [Next]_vars, Enter(Leader),
           NEW x \in Roles, NEW s \in PresentFromRun(x), s \notin PresentFromRun(x)'
    PROVE  MaxKeep > 0 /\ Cardinality(Newer(x, s)') >= MaxKeep - 1
<1> PICK role \in Saving :
       /\ KeepStart(role) \in 0 .. Len(saved[role])
       /\ \A y \in Roles, u \in Steps, q \in Ranks :
            shard'[y][u][q] = IF y = role /\ u \in Rotated(role)
                              THEN Absent ELSE shard[y][u][q]
       /\ \A y \in Roles \ {role} : saved'[y] = saved[y]
       /\ Len(saved'[role]) = Len(saved[role]) - KeepStart(role)
       /\ \A k \in 1 .. Len(saved[role]) - KeepStart(role) :
            saved'[role][k] = saved[role][k + KeepStart(role)]
  BY RotationEffect
<1> DEFINE d == KeepStart(role)
           n == Len(saved'[role])
<1>1. /\ run' = run /\ s \in Steps /\ role \in Roles
      /\ Len(saved[role]) \in Nat /\ MaxKeep \in Nat
  BY SavingType, CheckpointAssumption DEF Enter, PresentFromRun, TypeInv, TypeOK
<1>2. x = role /\ s \in Rotated(role)
  BY <1>1 DEF PresentFromRun
<1>3. PICK i \in 1 .. d : s = saved[role][i]
  BY <1>2 DEF Rotated
<1>4. MaxKeep > 0 /\ Len(saved[role]) >= MaxKeep
  BY <1>3 DEF KeepStart
<1>5. d = Len(saved[role]) - MaxKeep + 1
  BY <1>4 DEF KeepStart
<1>6. n = MaxKeep - 1 /\ n \in Nat /\ d \in Nat
  BY <1>1, <1>4, <1>5
<1>7. ASSUME NEW k \in 1 .. n
      PROVE  /\ saved'[role][k] = saved[role][k + d]
             /\ k + d \in 1 .. Len(saved[role]) /\ i \in 1 .. Len(saved[role]) /\ i < k + d
  BY <1>1, <1>6, <1>7
<1>8. ASSUME NEW k \in 1 .. n
      PROVE  saved'[role][k] \in Newer(role, s)'
  <2>1. saved[role][i] < saved[role][k + d]
    BY <1>1, <1>7 DEF RotationInv, InOrder
  <2>2. saved'[role][k] \in PresentFromRun(role)'
    BY <1>1 DEF Finished
  <2>3. saved'[role][k] > s
    <3>1. saved[role][k + d] = saved'[role][k] /\ saved'[role][k] \in Int
      BY <1>7, <2>2 DEF PresentFromRun, Steps
    <3> QED
      BY <1>1, <1>3, <2>1, <3>1 DEF Steps
  <2> QED
    BY <2>2, <2>3 DEF Newer
<1>9. ASSUME NEW j \in 1 .. n, NEW k \in 1 .. n, j # k
      PROVE  saved'[role][j] # saved'[role][k]
  <2>1. saved[role][j + d] \in Int /\ saved[role][k + d] \in Int
    <3>1. saved[role][j + d] \in Steps /\ saved[role][k + d] \in Steps
      BY <1>1, <1>7 DEF TypeInv, TypeOK
    <3> QED
      BY <3>1 DEF Steps
  <2>2. saved[role][j + d] < saved[role][k + d] \/ saved[role][k + d] < saved[role][j + d]
    <3>1. j + d < k + d \/ k + d < j + d
      BY <1>6, <1>9
    <3> QED
      BY <1>1, <1>7, <3>1 DEF RotationInv, InOrder
  <2> QED
    <3>1. saved[role][j + d] # saved[role][k + d]
      BY <2>1, <2>2
    <3>2. saved'[role][j] = saved[role][j + d] /\ saved'[role][k] = saved[role][k + d]
      BY <1>7
    <3> QED
      BY <3>1, <3>2
<1> DEFINE N == Newer(role, s)'
           f == [k \in 1 .. n |-> saved'[role][k]]
<1>10. IsFiniteSet(N)
  <2>1. N \in SUBSET Steps /\ IsFiniteSet(Steps)
    <3>1. N \subseteq Steps
      BY DEF Newer, PresentFromRun
    <3>2. IsFiniteSet(1 .. MaxStep)
      BY FS_Interval, CheckpointAssumption
    <3> QED
      BY <3>1, <3>2 DEF Steps
  <2> HIDE DEF N
  <2> QED
    BY <2>1, FS_Subset
<1>11. f \in Injection(1 .. n, N)
  <2>1. f \in [1 .. n -> N]
    <3> HIDE DEF N
    <3> QED
      BY <1>8 DEF N
  <2>2. \A j, k \in 1 .. n : f[j] = f[k] => j = k
    BY <1>9
  <2> DEFINE I == 1 .. n
  <2>3. f \in [I -> N] /\ \A j, k \in I : f[j] = f[k] => j = k
    BY <2>1, <2>2
  <2> HIDE DEF f, N, I
  <2>4. f \in Injection(I, N)
    BY <2>3 DEF Injection, IsInjective
  <2> QED
    BY <2>4 DEF I
<1>12. Cardinality(1 .. n) <= Cardinality(N)
  <2> HIDE DEF f, n, N
  <2> QED
    BY <1>10, <1>11, FS_Injection
<1>13. Cardinality(1 .. n) = n
  <2> HIDE DEF n
  <2> QED
    BY <1>6, FS_Interval
<1>14. Cardinality(N) \in Nat
  <2> HIDE DEF N
  <2> QED
    BY <1>10, FS_CardinalityType
<1>15. Cardinality(N) >= MaxKeep - 1
  <2> HIDE DEF N
  <2> QED
    BY <1>1, <1>6, <1>12, <1>13, <1>14
<1> QED
  BY <1>2, <1>4, <1>15

\* Finished checkpoints of the running job go in a rotation only.
LEMMA OnlyForRoomStep ==
    TypeInv /\ SaveInv /\ RotationInv /\ Finished' /\ [Next]_vars => OnlyForRoom
<1> SUFFICES ASSUME TypeInv, SaveInv, RotationInv, Finished', [Next]_vars,
                    NEW x \in Roles, NEW s \in PresentFromRun(x), s \notin PresentFromRun(x)',
                    run' = run
             PROVE  MaxKeep > 0 /\ Cardinality(Newer(x, s)') >= MaxKeep - 1
  BY DEF OnlyForRoom
<1>1. shard' # shard
  BY SamePresent
<1>2. CASE Enter(Leader)
  BY <1>2, NewerLeft
<1>3. ASSUME NEW r \in Ranks, OpenShard(r) \/ WriteShard(r) PROVE FALSE
  <2> PICK role \in Saving, f \in {Torn, run} : /\ shard' = [shard EXCEPT ![role][step][r] = f]
                                               /\ wpc[r] # "barrier2"
    BY <1>3 DEF OpenShard, WriteShard
  <2>1. x = role /\ s = step
    BY OtherSteps DEF PresentFromRun
  <2>2. shard[x][s][r] = run /\ s \in Steps /\ pc \in LivePoints
    BY DEF PresentFromRun, Saving, LivePoints, SavePoints
  <2> QED
    BY <2>1, <2>2 DEF RotationInv, Unwritten
<1>4. ASSUME NEW r \in Ranks, Enter(r), r # Leader PROVE FALSE
  BY <1>1, <1>4 DEF Enter
<1> QED
  BY <1>1, <1>2, <1>3, <1>4
     DEF Next, SaveStep, Start, Train, Crash, Saved, OpenData, WriteData,
         OpenTracker, WriteTracker, vars, disk

\* For any number of ranks, any limit and any order in which they come through the
\* barriers, a run keeps no more finished checkpoints of a role than the limit, and
\* loses one only when as many newer ones are left as the limit allows beside the
\* one about to be written (fsdp_checkpoint_manager.py:201-214, 344).
THEOREM LimitKept == Spec => RotationWithinRun
<1>1. TypeInv /\ RotationInv => WithinLimit
  <2> SUFFICES ASSUME TypeInv, RotationInv, MaxKeep > 0, NEW role \in Roles
               PROVE  Cardinality(PresentFromRun(role)) <= MaxKeep
    BY DEF WithinLimit
  <2> QED
    BY LiveBound DEF RotationInv, LeftBehind
<1>2. TypeInv /\ SaveInv /\ RotationInv /\ RotationInv' /\ [Next]_vars => [OnlyForRoom]_vars
  BY OnlyForRoomStep DEF RotationInv
<1> QED
  BY <1>1, <1>2, RotationInvariant, SaveInvariant, PTL DEF Spec, RotationWithinRun
=============================================================================
