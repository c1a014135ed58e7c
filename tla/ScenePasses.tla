----------------------------- MODULE ScenePasses -----------------------------
(***************************************************************************)
(* The render graph every Scene builds in its constructor: which resources *)
(* each pass declares as inputs and outputs, in the order of the AddPass   *)
(* and AddComputePass calls.  A pass is what RenderGraph's SortPasses sees *)
(* of it; an instance of a resource tells apart the versions made by       *)
(* MakeUniqueInstance.  Textures are written to outputs and last to the    *)
(* depth-stencil output, buffers to buffer outputs.                        *)
(***************************************************************************)

Whole(resource) == [resource |-> resource, instance |-> 0]
Unique(resource) == [resource |-> resource, instance |-> 1]
Pass(inputs, textures, buffers) ==
  [inputs |-> inputs, outputs |-> [texture |-> textures, buffer |-> buffers]]

FinalRenderWithBackground == Unique("finalRender")
LightIndices == Unique("sparse")   \* "we alias the sparse buffer"

ZPrepass == Pass({}, <<Whole("depth")>>, <<>>)
DirectionalShadow == Pass({}, <<Whole("shadowMap")>>, <<Whole("lightList")>>)
PointShadow == Pass({}, <<Whole("shadowMap")>>, <<>>)
SpotShadow == Pass({}, <<Whole("shadowMap")>>, <<Whole("lightList")>>)

BuildClusters == Pass({}, <<>>, <<Whole("clusters")>>)
FilterClusters == Pass({Whole("depth")}, <<>>, <<Whole("sparse")>>)
TightenClusterList == Pass({Whole("sparse")}, <<>>, <<Whole("active")>>)
LightCulling ==
  Pass({Whole("active"), Whole("lightList")}, <<>>, <<LightIndices, Whole("lightGrid")>>)

ForwardShading ==
  Pass({LightIndices, Whole("lightList"), Whole("lightGrid"), Whole("shadowMap")},
       <<Whole("finalRender"), Whole("depth")>>, <<>>)
BackgroundPass ==
  Pass({Whole("finalRender")}, <<FinalRenderWithBackground, Whole("depth")>>, <<>>)

SceneGraph == [
  direct |-> <<ZPrepass, DirectionalShadow, PointShadow, SpotShadow, ForwardShading,
               BackgroundPass>>,
  compute |-> <<BuildClusters, FilterClusters, TightenClusterList, LightCulling>>]

SceneTextures == {"depth", "shadowMap", "finalRender"}
SceneBuffers == {"lightList", "clusters", "sparse", "active", "lightGrid"}
SceneInstances == [resource: SceneTextures \cup SceneBuffers, instance: {0, 1}]
=============================================================================
