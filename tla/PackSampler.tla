----------------------------- MODULE PackSampler -----------------------------
(***************************************************************************)
(* verl/trainer/ppo/packFullGroupsBatchSampler.py: the batch sampler of    *)
(* the rollout stage.  The rows of one sample_id form a group; the sampler *)
(* walks the groups in a shuffled order and packs whole groups into a      *)
(* batch.  __iter__ is a Python generator, and every live generator shares *)
(* the cursor kept in the sampler object, so the module models each        *)
(* generator's own control point and the loop's branches one by one: no    *)
(* other call can run while a generator is between a next() and its yield, *)
(* and anything can run while it is suspended.                             *)
(*                                                                         *)
(* A batch is abstracted to the groups it holds and its number of rows;    *)
(* cursor is the 1-based position of the next group in order.              *)
(***************************************************************************)
EXTENDS Integers, Sequences

CONSTANTS
    NumGroups,      \* number of sample_id groups built from the dataset
    Size,           \* Size[g]: rows of group g
    BatchSizes,     \* values the configuration may give batch_size
    InitDivisor,    \* the divisor _create_dataloader passes
    Divisors,       \* divisors init_workers may set afterwards
    OversizedChoices, \* values it may give allow_oversized_group
    MaxEpoch,       \* bound on the epoch number
    ShuffleOf,      \* ShuffleOf[e]: the order Random(seed + e) gives
    Iters,          \* generator objects, dead or alive
    NoIter,         \* no generator is executing
    NoState,        \* no state_dict has been taken
    NoBatch         \* nothing has been yielded

Groups == 1 .. NumGroups
Epochs == 0 .. MaxEpoch
Positive == Nat \ {0}

\* The orders a shuffle can give: every group, once.
Orders == { o \in [Groups -> Groups] : \A g \in Groups : \E k \in Groups : o[k] = g }

ASSUME PackAssumption ==
    /\ NumGroups \in Nat
    /\ Size \in [Groups -> Positive]
    /\ BatchSizes \subseteq Positive
    /\ BatchSizes # {}
    /\ InitDivisor \in Positive
    /\ \A b \in BatchSizes : b % InitDivisor = 0
    /\ Divisors \subseteq Positive
    /\ OversizedChoices \subseteq BOOLEAN
    /\ OversizedChoices # {}
    /\ MaxEpoch \in Nat
    /\ ShuffleOf \in [Epochs -> Orders]
    /\ NoIter \notin Iters

VARIABLES
    epoch, order, cursor, pending,  \* _epoch, _order, _group_cursor, _pending
    bsz, allow, divisor,            \* batch_size, allow_oversized_group, divisor
    gen,        \* gen[i]: where generator i is suspended, or that it is dead
    running,    \* the generator executing, NoIter when the caller is
    cur, tmp,   \* cur and tmp_pending of the running generator
    out,        \* the last batch yielded
    saved,      \* the last state_dict (on disk in data.pt)
    delivered   \* groups yielded since the order was last reset

sampler == <<epoch, order, cursor, pending, bsz, allow, divisor>>
vars == <<sampler, gen, running, cur, tmp, out, saved, delivered>>

\* A list of row indices made of whole groups.
Rows == [groups : Seq(Groups), rows : Nat]
Empty == [groups |-> <<>>, rows |-> 0]
Extend(p, g) == [groups |-> Append(p.groups, g), rows |-> p.rows + Size[g]]

\* none: no generator; fresh: created, its body not entered; loop: suspended
\* at (or executing after) a yield of the while loop; tail: suspended at the
\* last yield; done: StopIteration; failed: ValueError.
GenPoints == {"none", "fresh", "loop", "tail", "done", "failed"}

Min2(a, b) == IF a <= b THEN a ELSE b
Max2(a, b) == IF a >= b THEN a ELSE b

\* Copies of the last row _pad_to_divisor appends to n > 0 rows.
PadNeed(n) == IF n % divisor = 0 THEN 0 ELSE divisor - (n % divisor)
PadUpTo(n, limit) == Min2(PadNeed(n), Max2(0, limit - n))

\* What state_dict returns; divisor is not in it.  delivered is no part of
\* it: it records what had been yielded when the state was taken.
State == [epoch : Epochs, order : Orders, cursor : 1 .. NumGroups + 1,
          pending : Rows, bsz : BatchSizes, allow : OversizedChoices,
          delivered : Seq(Groups)]

\* No state, and none of the positions states stand for in EpochDelivery.
ASSUME StateAssumption ==
    NoState \notin State \cup [todo : Seq(Groups), done : Seq(Groups)]

\* The batch remembers the limits in force when it was yielded.
Batch == [groups : Seq(Groups), rows : Nat, pad : Nat, cap : BatchSizes,
          over : BOOLEAN, div : Positive]

TypeOK ==
    /\ epoch \in Epochs
    /\ order \in Orders
    /\ cursor \in 1 .. NumGroups + 1
    /\ pending \in Rows
    /\ bsz \in BatchSizes
    /\ allow \in OversizedChoices
    /\ divisor \in Positive
    /\ gen \in [Iters -> GenPoints]
    /\ running \in Iters \cup {NoIter}
    /\ cur \in 1 .. NumGroups + 1
    /\ tmp \in Rows
    /\ out \in Batch \cup {NoBatch}
    /\ saved \in State \cup {NoState}
    /\ delivered \in Seq(Groups)
-----------------------------------------------------------------------------
Init ==
    /\ epoch = 0 /\ order = ShuffleOf[0] /\ cursor = 1 /\ pending = Empty
    /\ bsz \in BatchSizes /\ allow \in OversizedChoices /\ divisor = InitDivisor
    /\ gen = [i \in Iters |-> "none"] /\ running = NoIter
    /\ cur = 1 /\ tmp = Empty
    /\ out = NoBatch /\ saved = NoState /\ delivered = <<>>

\* _reset_order after the epoch has been set to e.
ResetOrder(e) ==
    /\ epoch' = e
    /\ order' = ShuffleOf[e]
    /\ cursor' = 1
    /\ pending' = Empty
    /\ delivered' = <<>>

\* Between two calls of the sampler: no generator is executing.
Idle == running = NoIter
LocalsUnused == UNCHANGED <<running, cur, tmp>>
-----------------------------------------------------------------------------
(* The generator.                                                          *)

\* iter(sampler): a generator object whose body has not been entered.
NewIter(i) ==
    /\ Idle
    /\ gen' = [gen EXCEPT ![i] = "fresh"]
    /\ UNCHANGED <<sampler, out, saved, delivered>> /\ LocalsUnused

\* The first next() enters the body: the test of auto_reset_on_iter_end, then
\* the local snapshot of the cursor and of the pending rows.
Exhausted == cursor > NumGroups /\ pending = Empty

EnterHere(i) ==
    /\ Idle /\ gen[i] = "fresh" /\ ~ Exhausted
    /\ cur' = cursor /\ tmp' = pending
    /\ running' = i /\ gen' = [gen EXCEPT ![i] = "loop"]
    /\ UNCHANGED <<sampler, out, saved, delivered>>

EnterNextEpoch(i) ==
    /\ Idle /\ gen[i] = "fresh" /\ Exhausted
    /\ epoch < MaxEpoch
    /\ ResetOrder(epoch + 1)
    /\ cur' = 1 /\ tmp' = Empty
    /\ running' = i /\ gen' = [gen EXCEPT ![i] = "loop"]
    /\ UNCHANGED <<bsz, allow, divisor, out, saved>>

\* A later next(): the locals are read again from the sampler.
Resume(i) ==
    /\ Idle /\ gen[i] = "loop"
    /\ cur' = cursor /\ tmp' = Empty
    /\ running' = i
    /\ UNCHANGED <<sampler, gen, out, saved, delivered>>

\* next() after the tail batch: the body ends without looking at the sampler.
ResumeTail(i) ==
    /\ Idle /\ gen[i] = "tail"
    /\ gen' = [gen EXCEPT ![i] = "done"]
    /\ UNCHANGED <<sampler, out, saved, delivered>> /\ LocalsUnused

\* Fault: the yield leaves the batch in _pending.
YieldKeepsPending(i, batch, pad, next, point) ==
    /\ out' = [groups |-> batch.groups, rows |-> batch.rows, pad |-> pad,
               cap |-> bsz, over |-> allow, div |-> divisor]
    /\ cursor' = next
    /\ pending' = batch
    /\ delivered' = delivered \o batch.groups
    /\ running' = NoIter
    /\ cur' = 1 /\ tmp' = Empty
    /\ gen' = [gen EXCEPT ![i] = point]
    /\ UNCHANGED <<epoch, order, bsz, allow, divisor, saved>>

\* yield: the snapshot is written back, the caller gets the batch.
Yield(i, batch, pad, next, point) ==
    /\ out' = [groups |-> batch.groups, rows |-> batch.rows, pad |-> pad,
               cap |-> bsz, over |-> allow, div |-> divisor]
    /\ cursor' = next
    /\ pending' = Empty
    /\ delivered' = delivered \o batch.groups
    /\ running' = NoIter
    /\ cur' = 1 /\ tmp' = Empty
    /\ gen' = [gen EXCEPT ![i] = point]
    /\ UNCHANGED <<epoch, order, bsz, allow, divisor, saved>>

InLoop(i) == running = i /\ cur <= NumGroups
Here == order[cur]

\* A) a group larger than batch_size, nothing pending: a batch of its own.
YieldOversized(i) ==
    /\ InLoop(i) /\ tmp.rows = 0 /\ Size[Here] > bsz
    /\ allow
    /\ Yield(i, Extend(Empty, Here), PadNeed(Size[Here]), cur + 1, "loop")

\* Fault: the oversized group ends the iteration without an error.
SwallowOversized(i) ==
    /\ InLoop(i) /\ tmp.rows = 0 /\ Size[Here] > bsz
    /\ ~ allow
    /\ gen' = [gen EXCEPT ![i] = "done"]
    /\ running' = NoIter /\ cur' = 1 /\ tmp' = Empty
    /\ UNCHANGED <<sampler, out, saved, delivered>>

RejectOversized(i) ==
    /\ InLoop(i) /\ tmp.rows = 0 /\ Size[Here] > bsz
    /\ ~ allow
    /\ gen' = [gen EXCEPT ![i] = "failed"]
    /\ running' = NoIter /\ cur' = 1 /\ tmp' = Empty
    /\ UNCHANGED <<sampler, out, saved, delivered>>

\* Fault: the group that did not fit is passed over.
YieldPendingSkips(i) ==
    /\ InLoop(i) /\ tmp.rows > 0 /\ Size[Here] > bsz - tmp.rows
    /\ Yield(i, tmp, PadUpTo(tmp.rows, bsz), cur + 1, "loop")

\* B) the group does not fit: what is pending goes first, the group waits.
YieldPending(i) ==
    /\ InLoop(i) /\ tmp.rows > 0 /\ Size[Here] > bsz - tmp.rows
    /\ Yield(i, tmp, PadUpTo(tmp.rows, bsz), cur, "loop")

\* Fault: the room left is computed without the pending rows.
PackGroupUnbounded(i) ==
    /\ InLoop(i) /\ Size[Here] < bsz
    /\ tmp' = Extend(tmp, Here) /\ cur' = cur + 1
    /\ UNCHANGED <<sampler, gen, running, out, saved, delivered>>

\* C) the whole group fits; a full batch goes out at once, unpadded.
PackGroup(i) ==
    /\ InLoop(i) /\ tmp.rows + Size[Here] < bsz
    /\ tmp' = Extend(tmp, Here) /\ cur' = cur + 1
    /\ UNCHANGED <<sampler, gen, running, out, saved, delivered>>

YieldFull(i) ==
    /\ InLoop(i) /\ tmp.rows + Size[Here] = bsz
    /\ Yield(i, Extend(tmp, Here), 0, cur + 1, "loop")

\* Fault: the tail is not padded.
YieldTailUnpadded(i) ==
    /\ running = i /\ cur > NumGroups /\ tmp.rows > 0
    /\ Yield(i, tmp, 0, cur, "tail")

\* What is left when the order is used up goes out padded.
YieldTail(i) ==
    /\ running = i /\ cur > NumGroups /\ tmp.rows > 0
    /\ Yield(i, tmp, PadUpTo(tmp.rows, bsz), cur, "tail")

\* The loop ends with nothing pending: StopIteration.
Finish(i) ==
    /\ running = i /\ cur > NumGroups /\ tmp.rows = 0
    /\ gen' = [gen EXCEPT ![i] = "done"]
    /\ running' = NoIter /\ cur' = 1 /\ tmp' = Empty
    /\ UNCHANGED <<sampler, out, saved, delivered>>
-----------------------------------------------------------------------------
(* Calls on the sampler object while every generator is suspended.         *)

SetEpoch(e) ==
    /\ Idle
    /\ ResetOrder(e)
    /\ UNCHANGED <<bsz, allow, divisor, gen, out, saved>> /\ LocalsUnused

Reset ==
    /\ Idle
    /\ cursor' = 1 /\ pending' = Empty /\ delivered' = <<>>
    /\ UNCHANGED <<epoch, order, bsz, allow, divisor, gen, out, saved>> /\ LocalsUnused

StateDict ==
    /\ Idle
    /\ saved' = [epoch |-> epoch, order |-> order, cursor |-> cursor,
                 pending |-> pending, bsz |-> bsz, allow |-> allow,
                 delivered |-> delivered]
    /\ UNCHANGED <<sampler, gen, out, delivered>> /\ LocalsUnused

\* Fault: the cursor is not restored.
LoadKeepsCursor ==
    /\ Idle /\ saved # NoState
    /\ epoch' = saved.epoch /\ order' = saved.order /\ cursor' = cursor
    /\ pending' = saved.pending /\ bsz' = saved.bsz /\ allow' = saved.allow
    /\ delivered' = saved.delivered
    /\ UNCHANGED <<divisor, gen, out, saved>> /\ LocalsUnused

LoadStateDict ==
    /\ Idle /\ saved # NoState
    /\ epoch' = saved.epoch /\ order' = saved.order /\ cursor' = saved.cursor
    /\ pending' = saved.pending /\ bsz' = saved.bsz /\ allow' = saved.allow
    /\ delivered' = saved.delivered
    /\ UNCHANGED <<divisor, gen, out, saved>> /\ LocalsUnused

\* init_workers: the divisor follows the worker groups.  batch_size stays as
\* it is, since the sampler has no set_batch_size.
SetDivisor(d) ==
    /\ Idle
    /\ divisor' = d
    /\ UNCHANGED <<epoch, order, cursor, pending, bsz, allow, gen, out, saved, delivered>>
    /\ LocalsUnused

\* The process dies at any point and a new one builds its sampler, perhaps
\* under another configuration; only the state on disk is left.
Restart ==
    /\ epoch' = 0 /\ order' = ShuffleOf[0] /\ cursor' = 1 /\ pending' = Empty
    /\ bsz' \in BatchSizes /\ allow' \in OversizedChoices /\ divisor' = InitDivisor
    /\ gen' = [i \in Iters |-> "none"] /\ running' = NoIter
    /\ cur' = 1 /\ tmp' = Empty
    /\ out' = NoBatch /\ delivered' = <<>>
    /\ UNCHANGED saved
-----------------------------------------------------------------------------
GenStep(i) ==
    \/ YieldOversized(i) \/ RejectOversized(i) \/ YieldPending(i)
    \/ PackGroup(i) \/ YieldFull(i) \/ YieldTail(i) \/ Finish(i)

NextCall(i) == EnterHere(i) \/ EnterNextEpoch(i) \/ Resume(i) \/ ResumeTail(i)

Next ==
    \/ \E i \in Iters : NewIter(i) \/ NextCall(i) \/ GenStep(i)
    \/ \E e \in Epochs : SetEpoch(e)
    \/ Reset \/ StateDict \/ LoadStateDict \/ Restart
    \/ \E d \in Divisors : SetDivisor(d)

Spec == Init /\ [][Next]_vars
-----------------------------------------------------------------------------
(* Properties.                                                             *)

\* What has been yielded since the last reset is exactly the groups before
\* the cursor, whole, each once, in shuffle order: several live generators,
\* set_epoch, load_state_dict or a crash between two yields neither lose a
\* group nor give one twice (the snapshot discipline of __iter__).
DeliveredIsPrefix == delivered = SubSeq(order, 1, cursor - 1)

\* A state_dict taken at any time and loaded by any later process resumes at
\* the first group that had not been yielded when it was taken; nothing is in
\* flight in _pending that the resumed epoch would yield a second time.
SavedResumesExactly ==
    saved # NoState =>
        /\ saved.delivered = SubSeq(saved.order, 1, saved.cursor - 1)
        /\ saved.pending = Empty

\* While a generator packs, the groups it holds are the ones between the
\* shared cursor and its own; while none does, nothing is held back: neither
\* in the locals nor in _pending.  With this the two invariants above are
\* inductive.
InFlight ==
    /\ pending = Empty
    /\ IF Idle THEN tmp = Empty
       ELSE /\ gen[running] = "loop"
            /\ cursor <= cur
            /\ tmp.groups = SubSeq(order, cursor, cur - 1)
            /\ tmp.rows = 0 <=> tmp.groups = <<>>
            /\ tmp.rows < bsz

\* A batch exceeds the batch_size in force only as one oversized group, and
\* only where the configuration allows it; padding never makes it exceed.
BatchBounded ==
    out # NoBatch =>
        \/ out.rows + out.pad <= out.cap
        \/ out.over /\ Len(out.groups) = 1 /\ out.rows > out.cap

\* What the commented-out assertion of init_workers (lines 1483-1485) asks for.
CompatibleDivisors == \A b \in BatchSizes, d \in Divisors : b % d = 0

\* Every batch is a multiple of the divisor in force when it was yielded, so
\* that it splits evenly over the workers (the comment on divisor, line 134).
Aligned == out # NoBatch => (out.rows + out.pad) % out.div = 0

\* A generator that stops at the end of its loop leaves no group of the order
\* undelivered, whichever generators yielded them.
StopMeansDrained ==
    [][\A i \in Iters :
         running = i /\ gen'[i] = "done" => Len(delivered) = NumGroups]_vars

\* The sampler implements the delivery of an epoch (see EpochDelivery).
Delivery == INSTANCE EpochDelivery WITH
    todo <- SubSeq(order, cursor, NumGroups),
    done <- delivered,
    kept <- IF saved = NoState THEN NoState
            ELSE [todo |-> SubSeq(saved.order, saved.cursor, NumGroups),
                  done |-> saved.delivered]
ImplementsDelivery == Delivery!Spec
=============================================================================
