---------------------------- MODULE EpochDelivery ----------------------------
(***************************************************************************)
(* What a grouping batch sampler promises its caller, without generators,  *)
(* cursors or padding: in a pass over the data every group is delivered    *)
(* once, whole and in the order of the pass; a saved position, whenever it *)
(* is restored, continues that pass where it stood.                        *)
(***************************************************************************)
EXTENDS Integers, Sequences

CONSTANTS NumGroups, NoState

VARIABLES
    todo,   \* groups of the pass still to deliver, in order
    done,   \* groups of the pass already delivered, in order
    kept    \* the saved position, if any

dvars == <<todo, done, kept>>

\* The sequences in which every group occurs, once.
Passes == { o \in [1 .. NumGroups -> 1 .. NumGroups] :
              \A g \in 1 .. NumGroups : \E k \in 1 .. NumGroups : o[k] = g }

Init == todo \in Passes /\ done = <<>> /\ kept = NoState

\* A batch: the next groups of the pass, one at least.
Deliver ==
    /\ \E k \in 1 .. Len(todo) :
         /\ done' = done \o SubSeq(todo, 1, k)
         /\ todo' = SubSeq(todo, k + 1, Len(todo))
    /\ UNCHANGED kept

NewPass == todo' \in Passes /\ done' = <<>> /\ UNCHANGED kept

Save == kept' = [todo |-> todo, done |-> done] /\ UNCHANGED <<todo, done>>

Restore ==
    /\ kept # NoState
    /\ todo' = kept.todo /\ done' = kept.done
    /\ UNCHANGED kept

Next == Deliver \/ NewPass \/ Save \/ Restore

Spec == Init /\ [][Next]_dvars
=============================================================================
