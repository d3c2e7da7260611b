---------------------------- MODULE MCModelCall -------------------------------
(* Finite instances of ModelCall.                                            *)
EXTENDS ModelCall, TLC
=============================================================================
