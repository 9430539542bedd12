------------------------------ MODULE MCKeyStore ------------------------------
(* Two samples, two keywords the model may give, three epochs, two crashes.  *)
EXTENDS KeyStore, TLC
=============================================================================
