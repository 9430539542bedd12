--------------------------- MODULE CheckpointStore ---------------------------
(***************************************************************************)
(* Saving, rotating, and resuming from checkpoints:                        *)
(* RayPPOTrainer._save_checkpoint and _load_checkpoint in                  *)
(* verl/trainer/ppo/ray_trainer_all.py, the per-rank save_checkpoint and   *)
(* load_checkpoint of FSDPCheckpointManager, and find_latest_ckpt_path.    *)
(*                                                                         *)
(* The driver saves the actor, then the critic, then the dataloader state, *)
(* then rewrites the tracker file.  A save of a role runs in every rank of *)
(* its worker group, between two barriers.  The process can die anywhere.  *)
(* A file's content is the run (incarnation of the job) that wrote it, and *)
(* a file being written is torn: torch.save and open(.., "w") both write   *)
(* in place.                                                               *)
(***************************************************************************)
EXTENDS Integers, Sequences, FiniteSets

CONSTANTS
    Ranks, Leader,  \* the workers of a group, and the one of rank 0
    UseCritic,      \* whether a critic is saved besides the actor
    MaxKeep,        \* max_*_ckpt_to_keep, 0 for None
    SaveFreq,       \* trainer.save_freq
    MaxStep,        \* bound on global_steps
    MaxRuns,        \* bound on the starts of the job
    Absent, Torn    \* a file that does not exist, and one half-written

Steps == 1 .. MaxStep
Runs == 1 .. MaxRuns
Roles == IF UseCritic THEN {"actor", "critic"} ELSE {"actor"}
Files == Runs \cup {Absent, Torn}

ASSUME CheckpointAssumption ==
    /\ Leader \in Ranks /\ IsFiniteSet(Ranks)
    /\ UseCritic \in BOOLEAN
    /\ MaxKeep \in Nat
    /\ SaveFreq \in Nat \ {0}
    /\ MaxStep \in Nat /\ MaxRuns \in Nat
    /\ Absent \notin Int /\ Torn \notin Int /\ Absent # Torn

VARIABLES
    \* On disk.
    shard,      \* shard[role][s][r]: the files of rank r for role at step s
    data,       \* data[s]: global_step_s/data.pt
    tracker,    \* latest_checkpointed_iteration.txt
    \* In memory, lost in a crash.
    pc,         \* where the driver is
    step,       \* global_steps
    wpc,        \* wpc[r]: where rank r is in save_checkpoint
    saved,      \* saved[role]: previous_saved_paths (as rank 0 holds it)
    run,        \* the incarnation, counting starts of the job
    \* History.
    named       \* the last step the tracker named, 0 before the first

disk == <<shard, data, tracker>>
vars == <<disk, pc, step, wpc, saved, run, named>>

DriverPoints == {"down", "train", "save_actor", "save_critic", "data",
                 "data_open", "tracker", "tracker_open", "failed"}
RankPoints == {"idle", "enter", "barrier1", "open", "barrier2"}

TypeOK ==
    /\ shard \in [Roles -> [Steps -> [Ranks -> Files]]]
    /\ data \in [Steps -> Files]
    /\ tracker \in Steps \cup {Absent, Torn}
    /\ pc \in DriverPoints
    /\ step \in 0 .. MaxStep
    /\ wpc \in [Ranks -> RankPoints]
    /\ saved \in [Roles -> Seq(Steps)]
    /\ run \in 0 .. MaxRuns
    /\ named \in 0 .. MaxStep

Init ==
    /\ shard = [role \in Roles |-> [s \in Steps |-> [r \in Ranks |-> Absent]]]
    /\ data = [s \in Steps |-> Absent]
    /\ tracker = Absent
    /\ pc = "down" /\ step = 0 /\ run = 0 /\ named = 0
    /\ wpc = [r \in Ranks |-> "idle"]
    /\ saved = [role \in Roles |-> <<>>]

\* The role being saved, while one is.
Saving == CASE pc = "save_actor" -> {"actor"} [] pc = "save_critic" -> {"critic"} [] OTHER -> {}
-----------------------------------------------------------------------------
(* The driver.                                                             *)

Gone(role, s) == \A r \in Ranks : shard[role][s][r] = Absent

\* Every rank finds its files of every role, none half-written.
Loadable(s) ==
    /\ \A role \in Roles : \A r \in Ranks : shard[role][s][r] \in Runs
    /\ data[s] # Torn

\* find_latest_ckpt_path: the step the tracker names, or 0 without a tracker.
\* A half-written tracker names nothing: int() of an empty file raises.  The
\* folder of a named step exists, only role directories in it being removed.
Latest == IF tracker = Absent THEN 0 ELSE tracker

\* Fault: the step counter is not restored.
StartForgetsStep ==
    /\ pc = "down" /\ run < MaxRuns
    /\ run' = run + 1
    /\ step' = 0 /\ pc' = "train"
    /\ UNCHANGED <<disk, wpc, saved, named>>

\* fit() sets global_steps to 0 and calls _load_checkpoint (resume_mode auto):
\* training begins from scratch or resumes from the latest checkpoint, or the
\* job dies in reading it.  A missing data.pt is only warned about.
Start ==
    /\ pc = "down" /\ run < MaxRuns
    /\ run' = run + 1
    /\ IF Latest = 0 \/ (Latest \in Steps /\ Loadable(Latest))
       THEN step' = Latest /\ pc' = "train"
       ELSE step' = 0 /\ pc' = "failed"
    /\ UNCHANGED <<disk, wpc, saved, named>>

\* should_save_ckpt_esi, whose clock and measured durations may say either.
EsiCloseToExpiration == BOOLEAN

\* The update of one batch, then the test for saving; an expiring ESI
\* instance forces a save out of turn.
Train ==
    /\ pc = "train" /\ step < MaxStep
    /\ step' = step + 1
    /\ \E expiring \in EsiCloseToExpiration :
         IF step' % SaveFreq = 0 \/ expiring
         THEN pc' = "save_actor" /\ wpc' = [r \in Ranks |-> "enter"]
         ELSE pc' = "train" /\ wpc' = wpc
    /\ UNCHANGED <<disk, saved, run, named>>

\* torch.save of the dataloader state, in place.
OpenData ==
    /\ pc = "data"
    /\ data' = [data EXCEPT ![step] = Torn] /\ pc' = "data_open"
    /\ UNCHANGED <<shard, tracker, step, wpc, saved, run, named>>

WriteData ==
    /\ pc = "data_open"
    /\ data' = [data EXCEPT ![step] = run] /\ pc' = "tracker"
    /\ UNCHANGED <<shard, tracker, step, wpc, saved, run, named>>

\* The tracker file is truncated by open(.., "w") and then written.
OpenTracker ==
    /\ pc = "tracker"
    /\ tracker' = Torn /\ pc' = "tracker_open"
    /\ UNCHANGED <<shard, data, step, wpc, saved, run, named>>

WriteTracker ==
    /\ pc = "tracker_open"
    /\ tracker' = step /\ named' = step /\ pc' = "train"
    /\ UNCHANGED <<shard, data, step, wpc, saved, run>>

\* The job dies: of the driver and the workers only the disk is left.
Crash ==
    /\ pc \notin {"down", "failed"}
    /\ pc' = "down" /\ step' = 0
    /\ wpc' = [r \in Ranks |-> "idle"]
    /\ saved' = [role \in Roles |-> <<>>]
    /\ UNCHANGED <<disk, run, named>>
-----------------------------------------------------------------------------
(* The ranks.                                                              *)

\* Faults: one checkpoint too many is removed; one too many is kept.
KeepStartLate(role) ==
    IF MaxKeep > 0 /\ Len(saved[role]) >= MaxKeep
    THEN Len(saved[role]) - MaxKeep + 2 ELSE 0
KeepStartEarly(role) ==
    IF MaxKeep > 0 /\ Len(saved[role]) > MaxKeep
    THEN Len(saved[role]) - MaxKeep ELSE 0

\* The paths rank 0 removes before it saves, and the ones it still remembers.
KeepStart(role) ==
    IF MaxKeep > 0 /\ Len(saved[role]) >= MaxKeep
    THEN Len(saved[role]) - MaxKeep + 1 ELSE 0
Rotated(role) == { saved[role][k] : k \in 1 .. KeepStart(role) }

\* Rank 0 rotates first; every rank makes the directory and waits.
Enter(r) == \E role \in Saving :
    /\ wpc[r] = "enter"
    /\ IF r = Leader
       THEN /\ shard' = [shard EXCEPT ![role] = [s \in Steps |->
                           IF s \in Rotated(role) THEN [q \in Ranks |-> Absent]
                                                  ELSE shard[role][s]]]
            /\ saved' = [saved EXCEPT ![role] =
                           SubSeq(@, KeepStart(role) + 1, Len(@))]
       ELSE UNCHANGED <<shard, saved>>
    /\ wpc' = [wpc EXCEPT ![r] = "barrier1"]
    /\ UNCHANGED <<data, tracker, pc, step, run, named>>

\* Fault: a rank that has gone on no longer counts as having arrived.
PastBarrierTogether == \A r \in Ranks : wpc[r] = "barrier1"

\* Behind the first barrier each rank writes its own files.
PastBarrier1 == \A r \in Ranks : wpc[r] \notin {"enter", "idle"}

OpenShard(r) == \E role \in Saving :
    /\ wpc[r] = "barrier1" /\ PastBarrier1
    /\ shard' = [shard EXCEPT ![role][step][r] = Torn]
    /\ wpc' = [wpc EXCEPT ![r] = "open"]
    /\ UNCHANGED <<data, tracker, pc, step, saved, run, named>>

WriteShard(r) == \E role \in Saving :
    /\ wpc[r] = "open"
    /\ shard' = [shard EXCEPT ![role][step][r] = run]
    /\ wpc' = [wpc EXCEPT ![r] = "barrier2"]
    /\ UNCHANGED <<data, tracker, pc, step, saved, run, named>>

\* Fault: the critic is passed over.
SavedActorOnly == \E role \in Saving :
    /\ \A r \in Ranks : wpc[r] = "barrier2"
    /\ saved' = [saved EXCEPT ![role] = Append(@, step)]
    /\ pc' = "data" /\ wpc' = [r \in Ranks |-> "idle"]
    /\ UNCHANGED <<disk, step, run, named>>

\* Behind the second barrier the path is remembered and the call returns to
\* the driver, which goes on with the critic or with the dataloader.
Saved == \E role \in Saving :
    /\ \A r \in Ranks : wpc[r] = "barrier2"
    /\ saved' = [saved EXCEPT ![role] = Append(@, step)]
    /\ IF role = "actor" /\ UseCritic
       THEN pc' = "save_critic" /\ wpc' = [r \in Ranks |-> "enter"]
       ELSE pc' = "data" /\ wpc' = [r \in Ranks |-> "idle"]
    /\ UNCHANGED <<disk, step, run, named>>
-----------------------------------------------------------------------------
SaveStep ==
    \/ \E r \in Ranks : Enter(r) \/ OpenShard(r) \/ WriteShard(r)
    \/ Saved \/ OpenData \/ WriteData \/ OpenTracker \/ WriteTracker

Next == Start \/ Train \/ Crash \/ SaveStep

\* A save in progress goes on: the driver waits for the group, the ranks for
\* their barriers, and nobody for anything else.
Spec == Init /\ [][Next]_vars /\ WF_vars(SaveStep)
-----------------------------------------------------------------------------
(* Properties.                                                             *)

\* The step the tracker names can be resumed: every rank's files of every
\* role and the dataloader state are there, whole, and written by one run of
\* the job, whatever was rotated and wherever earlier saves were cut short.
TrackedIsComplete ==
    tracker \in Steps =>
        \E u \in Runs : /\ \A role \in Roles : \A r \in Ranks : shard[role][tracker][r] = u
                        /\ data[tracker] = u

\* A start of the job fails only on an empty tracker.
FailsOnlyOnTornTracker == pc = "failed" => tracker = Torn

\* Steps whose directory of a role is on disk.
Present(role) == { s \in Steps : ~ Gone(role, s) }
\* ... and that the current run wrote in full.
PresentFromRun(role) ==
    { s \in Steps : \A r \in Ranks : shard[role][s][r] = run }

\* Within one run of the job no role keeps more than MaxKeep finished
\* checkpoints, and none is lost but to make room: one that goes leaves as many
\* newer ones as the limit allows beside the one about to be written, and
\* without a limit none goes (fsdp_checkpoint_manager.py:201-214, 344).
WithinLimit ==
    MaxKeep > 0 => \A role \in Roles : Cardinality(PresentFromRun(role)) <= MaxKeep
Newer(role, s) == { q \in PresentFromRun(role) : q > s }
OnlyForRoom ==
    \A role \in Roles : \A s \in PresentFromRun(role) \ PresentFromRun(role)' :
        run' = run => MaxKeep > 0 /\ Cardinality(Newer(role, s)') >= MaxKeep - 1
RotationWithinRun == [][WithinLimit' /\ OnlyForRoom]_vars

\* The checkpoint to resume from only moves forward: a restarted job never
\* replaces it by an older one.
TrackerAdvances ==
    [][tracker' \in Steps => named <= tracker']_vars

\* A save that has begun reaches the tracker unless the job dies.
SaveCompletes == pc = "save_actor" ~> (pc = "train" \/ pc = "down")
=============================================================================
