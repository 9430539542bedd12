------------------------------ MODULE MCKeySteps ------------------------------
(* Every sample of up to three steps and a baseline, every mean in eighths. *)
EXTENDS KeyStepSelection
=============================================================================
