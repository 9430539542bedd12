---------------------------- MODULE MCCheckpoint ----------------------------
(* Instances of the checkpoint store: two ranks, an actor and a critic.     *)
EXTENDS CheckpointStore, TLC
=============================================================================
