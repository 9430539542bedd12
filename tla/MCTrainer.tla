------------------------------- MODULE MCTrainer -------------------------------
(* Samples with two steps and a sample with one.                             *)
EXTENDS CurriculumTrainer
ThreeSamples == <<0 .. 2, 0 .. 2, 0 .. 1>>
TwoSamples == <<0 .. 2, 0 .. 1>>
=============================================================================
