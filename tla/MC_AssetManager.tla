-------------------------- MODULE MC_AssetManager --------------------------
(* AssetManager with two materials that share a texture and a shader.  One   *)
(* names the texture twice, the other has a second one, which may fail.      *)
EXTENDS AssetManager, TLC

CONSTANTS colour, bumps, shader, brick, wood

MCFiles == (brick :> <<colour, colour, shader>>) @@ (wood :> <<colour, bumps, shader>>)

Symmetry == Permutations(Uuid) \union Permutations(Slot)
=============================================================================
