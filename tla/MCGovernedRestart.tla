------------------------- MODULE MCGovernedRestart ----------------------------
(* Finite instances of GovernedRestart.                                      *)
EXTENDS GovernedRestart, TLC

CONSTANTS i1, i2

MCSymmetry == Permutations(Callers)
=============================================================================
