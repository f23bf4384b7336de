--------------------------- MODULE MCProjectStore ---------------------------
(* Instances of ProjectStore for TLC.                                      *)
EXTENDS ProjectStore, TLC

Symmetry == Permutations(Editors) \cup Permutations(Projects)
=============================================================================
