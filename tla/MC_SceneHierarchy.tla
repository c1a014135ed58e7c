------------------------- MODULE MC_SceneHierarchy -------------------------
(* SceneHierarchy with ids as model values; all but the root's are alike.    *)
EXTENDS SceneHierarchy, TLC

Symmetry == Permutations(Entity \ {root})
=============================================================================
