------------------------ MODULE MCArtifactPublication -------------------------
(* Finite instances of ArtifactPublication.                                  *)
EXTENDS ArtifactPublication, TLC

CONSTANTS p1, p2, b1, b2

Symmetry == Permutations(Publishers) \cup Permutations(Bundles)
=============================================================================
