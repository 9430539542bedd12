------------------------------- MODULE BatchFlow -------------------------------
(* The way of a batch from the driver to the ranks and back: _balance_batch     *)
(* orders it by get_seqlen_balanced_partitions, with as many parts as the group *)
(* has ranks, and the dispatch cuts and collects it; batches to be evaluated,   *)
(* and all of them where trainer.balance_batch is off, are sent as they are.    *)
EXTENDS SeqlenBalancing, Dispatch

flowVars == <<vars, dispatchVars>>

\* A batch to be balanced, for a group of k ranks, or one that is sent as it is.
FlowInit ==
    \/ /\ Init
       /\ DispatchInit(<<>>, "wait")
       /\ WorldSize(group) = k
    \/ \E n \in 1 .. MaxRows :
         /\ lens = [row \in 1 .. n |-> 1]
         /\ k = 1 /\ equal = FALSE /\ heap = {} /\ pc = "skipped" /\ partition = <<>>
         /\ DispatchInit([row \in 1 .. n |-> row], "ready")

Balance == Next /\ UNCHANGED dispatchVars

\* batch.reorder(global_idx).
Reorder ==
    /\ pc = "done" /\ equal /\ stage = "wait"
    /\ rows' = Order
    /\ stage' = "ready"
    /\ UNCHANGED <<vars, group, calls, share, answer, strip, asked, out>>

Call == DispatchStep /\ UNCHANGED vars

FlowNext == Balance \/ Reorder \/ Call

FlowSpec == FlowInit /\ [][FlowNext]_flowVars
================================================================================
