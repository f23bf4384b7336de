------------------------- MODULE MCProjectLifecycle -------------------------
(* Instances of ProjectLifecycle for TLC.                                  *)
EXTENDS ProjectLifecycle, TLC

Symmetry == Permutations(Editors) \cup Permutations(Makers) \cup Permutations(Slugs)
=============================================================================
