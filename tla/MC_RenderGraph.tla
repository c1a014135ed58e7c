--------------------------- MODULE MC_RenderGraph ---------------------------
(* RenderGraph on the graph Scene builds, and on all small graphs.           *)
EXTENDS RenderGraph, ScenePasses

SceneGraphs == {SceneGraph}
MCSceneTextures == SceneTextures
MCSceneInstances == SceneInstances

(* Four passes on either queue, each with one output of its own and inputs   *)
(* from passes before it, added in this order or the reverse.                *)
N == 4
Names == <<"a", "b", "c", "d">>
SmallTextures == {"a", "c"}
SmallInstances == {Whole(Names[i]) : i \in 1 .. N}
SmallPass(inputs, i) ==
  LET made == <<Whole(Names[i])>>
  IN  IF Names[i] \in SmallTextures THEN Pass({Whole(Names[j]) : j \in inputs[i]}, made, <<>>)
      ELSE Pass({Whole(Names[j]) : j \in inputs[i]}, <<>>, made)
InOrder(S, backwards) ==
  CHOOSE s \in [1 .. Cardinality(S) -> S] :
    \A i, j \in 1 .. Cardinality(S) : i < j => (IF backwards THEN s[i] > s[j] ELSE s[i] < s[j])
SmallGraph(inputs, onDirect, backwards) ==
  LET of(S) == [n \in 1 .. Cardinality(S) |-> SmallPass(inputs, InOrder(S, backwards)[n])]
  IN  [direct |-> of(onDirect), compute |-> of((1 .. N) \ onDirect)]
Inputs == {f \in [1 .. N -> SUBSET (1 .. N)] : \A i \in 1 .. N : f[i] \subseteq 1 .. i - 1}
SmallGraphs ==
  {SmallGraph(f, S, b) : f \in Inputs, S \in SUBSET (1 .. N), b \in BOOLEAN}
=============================================================================
