----------------------------- MODULE SceneLights -----------------------------
(***************************************************************************)
(* The LightComponents of a Scene and the regions of the shadow map atlas  *)
(* they hold.  In every frame FrustumCull visits each light once, in an    *)
(* order that is entt's: a light out of sight gives its region back, a     *)
(* shadow light in sight keeps its region or gets one, and is listed for   *)
(* the shadow passes.  Between frames components are added, edited, copied *)
(* and removed.                                                            *)
(***************************************************************************)
EXTENDS AtlasAllocator, Sequences, FiniteSets

CONSTANTS
  Light,       \* the entities that may have a LightComponent
  ShadowSize,  \* shadow_size in portions; 2 in the code
  MaxLost      \* bound of the model: regions lost with the lights removed

ASSUME LightAssumption == ShadowSize \in Nat \ {0} /\ MaxLost \in Nat

VARIABLES
  lights,              \* the LightComponents: type, shadow, shadowMap
  todo,                \* the lights FrustumCull has not visited yet
  frame,               \* "none" between frames, else "cull"
  shadowLights,        \* the vector of that name: light, type and region
  numShadowDirLights,  \* the counter of that name
  lost,                \* history: regions whose id no light holds any more
  copied               \* history: DuplicateEntity has copied a light

scene == <<lights, todo, frame, shadowLights, numShadowDirLights>>
vars == <<scene, lost, copied, atlas>>

LightType == {"Directional", "Point", "Spot"}
Component == [type : LightType, shadow : BOOLEAN, shadowMap : Ids]

(* allocation_size of a type; a point light's does not scale.                *)
Width(type) ==
  CASE type = "Directional" -> 4 * ShadowSize [] type = "Spot" -> ShadowSize [] OTHER -> 3
Height(type) ==
  CASE type = "Directional" -> 4 * ShadowSize [] type = "Spot" -> ShadowSize [] OTHER -> 2

(* The lights to visit exist, and a frame ends only when all were visited.   *)
TypeOK ==
  /\ DOMAIN lights \subseteq Light /\ lights \in [DOMAIN lights -> Component]
  /\ todo \subseteq DOMAIN lights /\ frame \in {"none", "cull"}
  /\ frame = "none" => todo = {}
  /\ shadowLights \in Seq([light : Light, type : LightType, region : Region \union {NoRegion}])
  /\ numShadowDirLights \in Nat
  /\ used \subseteq Portions
  /\ DOMAIN regions \subseteq Ids /\ regions \in [DOMAIN regions -> Region]
  /\ id \in Ids /\ corrupt \in BOOLEAN /\ heights \subseteq Nat
  /\ lost \subseteq Ids /\ copied \in BOOLEAN

Init ==
  /\ lights = [l \in {} |-> 0]
  /\ todo = {} /\ frame = "none"
  /\ shadowLights = <<>> /\ numShadowDirLights = 0
  /\ lost = {} /\ copied = FALSE
  /\ AtlasInit

-----------------------------------------------------------------------------
(* Between frames                                                            *)

Idle == ~corrupt /\ frame = "none"

Put(l, component) ==
  lights' = [x \in DOMAIN lights \union {l} |-> IF x = l THEN component ELSE lights[x]]

(* AddComponent<LightComponent>() zeroes shadowMap; callers set the rest.    *)
AddLight(l, type, shadow) ==
  /\ Idle /\ l \in Light \ DOMAIN lights
  /\ Put(l, [type |-> type, shadow |-> shadow, shadowMap |-> 0])
  /\ UNCHANGED <<todo, frame, shadowLights, numShadowDirLights, lost, copied, atlas>>

(* Editors and scripts write the public members of a component.              *)
EditLight(l, type, shadow) ==
  /\ Idle /\ l \in DOMAIN lights
  /\ lights' = [lights EXCEPT ![l].type = type, ![l].shadow = shadow]
  /\ UNCHANGED <<todo, frame, shadowLights, numShadowDirLights, lost, copied, atlas>>

(* LightComponent's copy constructor leaves shadowMap indeterminate.  One    *)
(* copy is enough: everything that speaks of copies speaks of the first.     *)
DuplicateEntity(original, l, garbage) ==
  /\ Idle /\ ~copied /\ original \in DOMAIN lights /\ l \in Light \ DOMAIN lights
  /\ Put(l, [lights[original] EXCEPT !.shadowMap = garbage])
  /\ copied' = TRUE
  /\ UNCHANGED <<todo, frame, shadowLights, numShadowDirLights, lost, atlas>>

(* The component goes with its entity, or by RemoveComponent; the region it  *)
(* holds stays allocated, and nothing is left that could free it.            *)
RemoveLight(l) ==
  /\ Idle /\ l \in DOMAIN lights
  /\ lights[l].shadowMap # 0 => Cardinality(lost) < MaxLost
  /\ lights' = Restrict(lights, DOMAIN lights \ {l})
  /\ lost' = lost \union ({lights[l].shadowMap} \intersect (DOMAIN regions \ {0}))
  /\ UNCHANGED <<todo, frame, shadowLights, numShadowDirLights, copied, atlas>>

-----------------------------------------------------------------------------
(* A frame                                                                   *)

(* EndFrame has emptied the lists that this clears.                          *)
BeginFrame ==
  /\ Idle
  /\ frame' = "cull" /\ todo' = DOMAIN lights
  /\ shadowLights' = <<>> /\ numShadowDirLights' = 0
  /\ UNCHANGED <<lights, lost, copied, atlas>>

Visit(l) ==
  /\ ~corrupt /\ frame = "cull" /\ l \in todo
  /\ todo' = todo \ {l}
  /\ UNCHANGED <<frame, copied>>

(* Mistake: frees the region and keeps its id. *)
GiveBackKeep(l) ==
  /\ DeAllocate(lights[l].shadowMap)
  /\ UNCHANGED <<lights, shadowLights, numShadowDirLights, lost>>

(* Mistake: forgets the id without freeing the region. *)
GiveBackForget(l) ==
  /\ lights' = [lights EXCEPT ![l].shadowMap = 0]
  /\ UNCHANGED <<atlas, shadowLights, numShadowDirLights, lost>>

(* DeAllocate and shadowMap = 0, for a light that has one.                   *)
GiveBack(l) ==
  /\ DeAllocate(lights[l].shadowMap)
  /\ lights' = [lights EXCEPT ![l].shadowMap = 0]
  /\ UNCHANGED <<shadowLights, numShadowDirLights, lost>>

(* A point or spot light whose sphere misses the camera's frustum.           *)
CullHidden(l) ==
  /\ Visit(l) /\ lights[l].type \in {"Point", "Spot"}
  /\ GiveBack(l)

(* A light in sight that casts no shadow goes to regularLights.              *)
CullRegular(l) ==
  /\ Visit(l) /\ ~lights[l].shadow
  /\ GiveBack(l)

(* Mistake: lists directional lights where their turn comes. *)
ListInTurn(l, region) ==
  LET entry == [light |-> l, type |-> lights[l].type, region |-> region]
  IN  /\ shadowLights' = Append(shadowLights, entry)
      /\ numShadowDirLights' = numShadowDirLights + (IF lights[l].type = "Directional" THEN 1 ELSE 0)

(* Directional lights go to the front and are counted.                       *)
List(l, region) ==
  LET entry == [light |-> l, type |-> lights[l].type, region |-> region]
  IN  IF lights[l].type = "Directional"
      THEN shadowLights' = <<entry>> \o shadowLights /\ numShadowDirLights' = numShadowDirLights + 1
      ELSE shadowLights' = Append(shadowLights, entry) /\ UNCHANGED numShadowDirLights

(* A shadow light in sight keeps the region it has ...                       *)
CullShadowKept(l) ==
  /\ Visit(l) /\ lights[l].shadow /\ lights[l].shadowMap # 0
  /\ List(l, GetRegion(lights[l].shadowMap))
  /\ UNCHANGED <<lights, lost, atlas>>

(* ... or gets one when there is room.  An id that wraps to 0 is taken for a *)
(* failure, and its region is lost.                                          *)
CullShadowNew(l, got) ==
  /\ Visit(l) /\ lights[l].shadow /\ lights[l].shadowMap = 0
  /\ Allocate(Width(lights[l].type), Height(lights[l].type), got)
  /\ lights' = [lights EXCEPT ![l].shadowMap = got]
  /\ List(l, GetRegion(got)')
  /\ lost' = lost \union ({got} \intersect (DOMAIN regions' \intersect {0}))

(* Mistake: ends the frame when it likes. *)
EndFrameEarly ==
  /\ ~corrupt /\ frame = "cull"
  /\ frame' = "none" /\ shadowLights' = <<>> /\ numShadowDirLights' = 0
  /\ UNCHANGED <<lights, todo, lost, copied, atlas>>

(* The passes have read the lists; nothing does so again before BeginFrame   *)
(* clears them, and the model forgets them here.                             *)
EndFrame ==
  /\ ~corrupt /\ frame = "cull" /\ todo = {}
  /\ frame' = "none" /\ shadowLights' = <<>> /\ numShadowDirLights' = 0
  /\ UNCHANGED <<lights, todo, lost, copied, atlas>>

Next ==
  \/ BeginFrame \/ EndFrame
  \/ \E l \in Light :
       \/ \E type \in LightType, shadow \in BOOLEAN :
            AddLight(l, type, shadow) \/ EditLight(l, type, shadow)
       \/ \E original \in Light, garbage \in Ids : DuplicateEntity(original, l, garbage)
       \/ RemoveLight(l)
       \/ CullHidden(l) \/ CullRegular(l) \/ CullShadowKept(l)
       \/ \E got \in Ids : CullShadowNew(l, got)

Spec == Init /\ [][Next]_vars

-----------------------------------------------------------------------------
(* Properties                                                                *)

(* The entries marked used are those of the regions handed out, and no two   *)
(* regions share one, whatever ids DeAllocate is given: a shadow map is      *)
(* never cleared by the pass of another (AtlasAllocator.cpp l.118, l.151).   *)
AtlasSound ==
  /\ used = Portions \intersect UNION {Entries(regions[i]) : i \in DOMAIN regions}
  /\ \A i, j \in DOMAIN regions : i # j => Entries(regions[i]) \intersect Entries(regions[j]) = {}

HeldIds == {lights[l].shadowMap : l \in DOMAIN lights} \ {0}

(* While no light was copied each region is held by one light, or is one of  *)
(* the regions lost with a removed light or to an id that wrapped, and an id *)
(* a light holds has its region: FrustumCull frees what it must and never    *)
(* frees or reuses a region of another light (Scene.cpp l.966-976,           *)
(* l.1026-1043).                                                             *)
RegionsAccounted ==
  ~copied =>
    /\ DOMAIN regions = HeldIds \union lost
    /\ HeldIds \intersect lost = {}
    /\ \A l, m \in DOMAIN lights :
         l # m /\ lights[l].shadowMap # 0 => lights[l].shadowMap # lights[m].shadowMap

(* Allocate lets a region hang over the last row (AtlasAllocator.cpp l.91),  *)
(* but it never does so when all regions have one height that divides the    *)
(* rows, as with spot and point lights only: the free place of the same      *)
(* columns further up always scores better.                                  *)
OneHeightInside ==
  /\ Cardinality(heights) <= 1
  /\ \A h \in heights : Rows % h = 0
  => ~corrupt

(* While a frame's lists are read, the directional lights are the first      *)
(* numShadowDirLights entries, as CFCullLights_cs.hlsl l.137 has it, and the *)
(* shadow passes draw each light into the region it still holds, no two      *)
(* into the same texels (Scene.cpp l.313, l.393).                            *)
ShadowListSound ==
  frame = "cull" /\ ~copied =>
    /\ \A k \in 1 .. Len(shadowLights) :
         /\ shadowLights[k].type = "Directional" <=> k <= numShadowDirLights
         /\ shadowLights[k].region = GetRegion(lights[shadowLights[k].light].shadowMap)
    /\ \A k, n \in 1 .. Len(shadowLights) : k # n =>
         /\ shadowLights[k].light # shadowLights[n].light
         /\ Entries(shadowLights[k].region) \intersect Entries(shadowLights[n].region) = {}

(* A region never moves, shrinks or vanishes under the light that keeps its  *)
(* id, whatever becomes of other lights meanwhile (Scene.cpp l.1028).        *)
RegionsStay ==
  [][~copied' => \A l \in DOMAIN lights \intersect DOMAIN lights' :
       lights'[l].shadowMap = lights[l].shadowMap
         => GetRegion(lights[l].shadowMap)' = GetRegion(lights[l].shadowMap)]_vars
=============================================================================
