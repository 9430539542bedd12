----------------------------- MODULE MCBatchFlow -----------------------------
(* Every batch of up to six rows of up to three lengths, on groups of two to    *)
(* four ranks of every shape.                                                   *)
EXTENDS BatchFlow

Shape(megatron, tp, cp, dp, pp) ==
    [megatron |-> megatron, tp |-> tp, cp |-> cp, dp |-> dp, pp |-> pp]

MCGroups ==
    { Shape(FALSE, 1, 1, n, 1) : n \in 2 .. 4 }
        \cup { Shape(TRUE, 2, 1, 2, 1), Shape(TRUE, 1, 2, 2, 1), Shape(TRUE, 1, 1, 2, 2),
              Shape(TRUE, 1, 1, 3, 1) }
=============================================================================
