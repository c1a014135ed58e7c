--------------------------- MODULE MC_SceneLights ---------------------------
(* SceneLights with lights as model values, all alike.                       *)
EXTENDS SceneLights, TLC

Symmetry == Permutations(Light)
=============================================================================
