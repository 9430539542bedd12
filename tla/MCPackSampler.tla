---------------------------- MODULE MCPackSampler ----------------------------
(* Instances of the sampler for TLC: four groups, one of them larger than a *)
(* batch, two generators.                                                   *)
EXTENDS PackSamplerLen, TLC

mcSize == <<1, 2, 3, 5>>
\* Three rows and one fill a batch of four exactly; two and three do not fit.
mcShuffleOf == (0 :> <<1, 2, 3, 4>>) @@ (1 :> <<3, 1, 4, 2>>)

IterSymmetry == Permutations(Iters)
=============================================================================
