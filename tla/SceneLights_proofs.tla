------------------------- MODULE SceneLights_proofs -------------------------
(***************************************************************************)
(* What SceneLights guarantees for every atlas, every range of ids and     *)
(* every set of lights.                                                    *)
(***************************************************************************)
EXTENDS SceneLights, FiniteSetTheorems, TLAPS

(* The part of the type invariant that speaks of the allocator.              *)
AtlasType ==
  /\ used \subseteq Portions
  /\ DOMAIN regions \subseteq Ids /\ regions \in [DOMAIN regions -> Region]
  /\ id \in Ids /\ corrupt \in BOOLEAN /\ heights \subseteq Nat

(* The part that speaks of the lights.                                       *)
SceneType ==
  /\ DOMAIN lights \subseteq Light /\ lights \in [DOMAIN lights -> Component]
  /\ todo \subseteq DOMAIN lights /\ frame \in {"none", "cull"}
  /\ frame = "none" => todo = {}
  /\ lost \subseteq Ids /\ copied \in BOOLEAN

ListType ==
  /\ shadowLights \in Seq([light : Light, type : LightType, region : Region \union {NoRegion}])
  /\ numShadowDirLights \in Nat

(* Until a write has left the atlas, all regions lie inside.                 *)
AllInside == ~corrupt => \A i \in DOMAIN regions : Inside(regions[i])

AtlasInv == AtlasType /\ AtlasSound /\ AllInside

-----------------------------------------------------------------------------
(* The allocator                                                             *)

(* Every size a light asks for is a positive number of portions.             *)
LEMMA SizesPositive ==
  ASSUME NEW type \in LightType
  PROVE  Width(type) \in Nat \ {0} /\ Height(type) \in Nat \ {0}
BY LightAssumption DEF LightType, Width, Height

(* 0 is an id.                                                               *)
LEMMA ZeroId == 0 \in Ids
BY AtlasAssumption DEF Ids

(* A position Allocate considers is a region of the size it was asked for.   *)
LEMMA PositionsAreRegions ==
  ASSUME NEW w \in Nat \ {0}, NEW h \in Nat \ {0}, NEW r \in ValidPositions(w, h)
  PROVE  r \in Region /\ r.w = w /\ r.h = h /\ IsAvailable(r)
BY DEF ValidPositions, Region

(* Allocate keeps the allocator's part of the invariant.                     *)
LEMMA AllocateSound ==
  ASSUME AtlasInv, ~corrupt,
         NEW w \in Nat \ {0}, NEW h \in Nat \ {0}, NEW got \in Ids, Allocate(w, h, got)
  PROVE  AtlasInv'
<1>1. CASE UNCHANGED atlas
  BY <1>1 DEF AtlasInv, AtlasType, AtlasSound, AllInside, atlas
<1>2. ASSUME NEW r \in ValidPositions(w, h), IsNextId(got),
             used' = used \union (Entries(r) \intersect Portions),
             regions' = [i \in DOMAIN regions \union {got} |-> IF i = got THEN r ELSE regions[i]],
             id' = got, corrupt' = ~Inside(r), heights' = heights \union {h}
      PROVE  AtlasInv'
  <2>1. r \in Region /\ IsAvailable(r)
    BY PositionsAreRegions
  <2>2. got \notin DOMAIN regions
    BY <1>2 DEF IsNextId
  <2>3. DOMAIN regions' = DOMAIN regions \union {got}
    BY <1>2
  <2>4. regions'[got] = r /\ \A i \in DOMAIN regions : regions'[i] = regions[i]
    BY <1>2, <2>2
  <2>5. AtlasType'
    BY <1>2, <2>1, <2>3, <2>4 DEF AtlasInv, AtlasType
  <2>6. \A i \in DOMAIN regions : Entries(regions[i]) \subseteq used
    BY DEF AtlasInv, AtlasSound, AllInside, Inside
  <2>7. Entries(r) \intersect used = {}
    BY <2>1 DEF IsAvailable
  <2>8. \A i, j \in DOMAIN regions' : i # j => Entries(regions'[i]) \intersect Entries(regions'[j]) = {}
    BY <2>3, <2>4, <2>6, <2>7 DEF AtlasInv, AtlasSound
  <2>9. used' = Portions \intersect UNION {Entries(regions'[i]) : i \in DOMAIN regions'}
    <3>1. UNION {Entries(regions'[i]) : i \in DOMAIN regions'}
            = Entries(r) \union UNION {Entries(regions[i]) : i \in DOMAIN regions}
      BY <2>3, <2>4
    <3>. QED
      BY <1>2, <3>1 DEF AtlasInv, AtlasSound
  <2>10. AllInside'
    BY <1>2, <2>3, <2>4 DEF AtlasInv, AllInside, Inside, Entries, Portions
  <2>. QED
    BY <2>5, <2>8, <2>9, <2>10 DEF AtlasInv, AtlasSound, Entries, Portions
<1>. QED
  BY <1>1, <1>2 DEF Allocate

(* So does DeAllocate, whatever id it is given.                              *)
LEMMA DeAllocateSound ==
  ASSUME AtlasInv, NEW k, DeAllocate(k), ~corrupt
  PROVE  AtlasInv'
<1>1. CASE UNCHANGED atlas
  BY <1>1 DEF AtlasInv, AtlasType, AtlasSound, AllInside, atlas
<1>2. CASE k \in DOMAIN regions \ {0} /\ used' = used \ Entries(regions[k])
           /\ regions' = Restrict(regions, DOMAIN regions \ {k})
           /\ UNCHANGED <<id, corrupt, heights>>
  <2>1. DOMAIN regions' = DOMAIN regions \ {k} /\ \A i \in DOMAIN regions' : regions'[i] = regions[i]
    BY <1>2 DEF Restrict
  <2>2. AtlasType'
    BY <1>2, <2>1 DEF AtlasInv, AtlasType, Restrict
  <2>3. used' = Portions \intersect UNION {Entries(regions'[i]) : i \in DOMAIN regions'}
    <3>1. UNION {Entries(regions'[i]) : i \in DOMAIN regions'}
            = (UNION {Entries(regions[i]) : i \in DOMAIN regions}) \ Entries(regions[k])
      <4>1. ASSUME NEW e \in UNION {Entries(regions'[i]) : i \in DOMAIN regions'}
            PROVE  e \in (UNION {Entries(regions[i]) : i \in DOMAIN regions}) \ Entries(regions[k])
        <5>1. PICK i \in DOMAIN regions' : e \in Entries(regions'[i])
          OBVIOUS
        <5>2. i \in DOMAIN regions /\ i # k /\ e \in Entries(regions[i])
          BY <2>1, <5>1
        <5>. QED
          BY <1>2, <5>2 DEF AtlasInv, AtlasSound
      <4>2. ASSUME NEW e \in (UNION {Entries(regions[i]) : i \in DOMAIN regions}) \ Entries(regions[k])
            PROVE  e \in UNION {Entries(regions'[i]) : i \in DOMAIN regions'}
        <5>1. PICK i \in DOMAIN regions : e \in Entries(regions[i])
          OBVIOUS
        <5>2. i \in DOMAIN regions' /\ e \in Entries(regions'[i])
          BY <2>1, <5>1
        <5>. QED
          BY <5>2
      <4>. QED
        BY <4>1, <4>2
    <3>. QED
      BY <1>2, <3>1 DEF AtlasInv, AtlasSound
  <2>4. \A i, j \in DOMAIN regions' : i # j => Entries(regions'[i]) \intersect Entries(regions'[j]) = {}
    BY <2>1 DEF AtlasInv, AtlasSound
  <2>5. AllInside'
    BY <1>2, <2>1 DEF AtlasInv, AllInside, Inside, Entries, Portions
  <2>. QED
    BY <2>2, <2>3, <2>4, <2>5 DEF AtlasInv, AtlasSound, Entries, Portions
<1>. QED
  BY <1>1, <1>2 DEF DeAllocate
-----------------------------------------------------------------------------
(* Type correctness and the allocator's invariant                            *)

IInv == SceneType /\ ListType /\ AtlasInv

LEMMA InvInit == Init => IInv
<1> SUFFICES ASSUME Init PROVE IInv
  OBVIOUS
<1>1. SceneType
  BY DEF Init, SceneType
<1>2. ListType
  BY DEF Init, ListType
<1>3. AtlasType
  BY ZeroId DEF Init, AtlasInit, AtlasType
<1>4. AtlasSound /\ AllInside
  BY DEF Init, AtlasInit, AtlasSound, AllInside
<1>. QED
  BY <1>1, <1>2, <1>3, <1>4 DEF IInv, AtlasInv

(* GetRegion returns a region or none.                                       *)
LEMMA GetRegionType ==
  ASSUME AtlasType, NEW i
  PROVE  GetRegion(i) \in Region \union {NoRegion}
BY DEF AtlasType, GetRegion

(* The vector keeps its type, whichever end a light is put at.               *)
LEMMA ListTyped ==
  ASSUME SceneType, ListType, NEW l \in DOMAIN lights,
         NEW region \in Region \union {NoRegion}, List(l, region)
  PROVE  ListType'
<1> DEFINE entry == [light |-> l, type |-> lights[l].type, region |-> region]
<1> DEFINE Entry == [light : Light, type : LightType, region : Region \union {NoRegion}]
<1>1. entry \in Entry
  BY DEF SceneType, Component
<1>2. Append(shadowLights, entry) \in Seq(Entry)
  BY <1>1 DEF ListType
<1>3. <<entry>> \o shadowLights \in Seq(Entry)
  BY <1>1 DEF ListType
<1>4. CASE shadowLights' = <<entry>> \o shadowLights /\ numShadowDirLights' = numShadowDirLights + 1
  BY <1>3, <1>4 DEF ListType
<1>5. CASE shadowLights' = Append(shadowLights, entry) /\ UNCHANGED numShadowDirLights
  BY <1>2, <1>5 DEF ListType
<1>. QED
  BY <1>4, <1>5 DEF List

(* A light that is put in or replaced has a component like all others.       *)
LEMMA PutTyped ==
  ASSUME SceneType, NEW l \in Light, NEW c \in Component, Put(l, c)
  PROVE  /\ DOMAIN lights' = DOMAIN lights \union {l}
         /\ lights'[l] = c
         /\ \A x \in DOMAIN lights \ {l} : lights'[x] = lights[x]
         /\ lights' \in [DOMAIN lights' -> Component]
BY DEF SceneType, Put

(* Giving a region back keeps everything in order.                           *)
LEMMA GiveBackSound ==
  ASSUME IInv, NEW l \in todo, Visit(l), GiveBack(l)
  PROVE  IInv'
<1>1. AtlasInv'
  BY DeAllocateSound DEF IInv, Visit, GiveBack
<1>2. lights' = [lights EXCEPT ![l].shadowMap = 0]
  BY DEF GiveBack
<1>3. DOMAIN lights' = DOMAIN lights /\ lights' \in [DOMAIN lights' -> Component]
  BY <1>2, ZeroId DEF IInv, SceneType, Component
<1>4. SceneType'
  BY <1>3 DEF IInv, SceneType, Visit, GiveBack
<1>5. ListType'
  BY DEF IInv, ListType, GiveBack
<1>. QED
  BY <1>1, <1>4, <1>5 DEF IInv

LEMMA InvStep == IInv /\ [Next]_vars => IInv'
<1> SUFFICES ASSUME IInv, [Next]_vars PROVE IInv'
  OBVIOUS
<1> USE DEF IInv
<1>1. ASSUME UNCHANGED atlas PROVE AtlasInv'
  BY <1>1 DEF AtlasInv, AtlasType, AtlasSound, AllInside, atlas
<1>2. ASSUME UNCHANGED <<shadowLights, numShadowDirLights>> PROVE ListType'
  BY <1>2 DEF ListType
<1>3. CASE BeginFrame
  BY <1>1, <1>3 DEF BeginFrame, SceneType, ListType
<1>4. CASE EndFrame
  BY <1>1, <1>4 DEF EndFrame, SceneType, ListType
<1>5. ASSUME NEW l \in Light, NEW type \in LightType, NEW shadow \in BOOLEAN, AddLight(l, type, shadow)
      PROVE  IInv'
  <2>1. [type |-> type, shadow |-> shadow, shadowMap |-> 0] \in Component
    BY ZeroId DEF Component
  <2>2. SceneType'
    BY <1>5, <2>1, PutTyped DEF AddLight, Idle, SceneType
  <2>. QED
    BY <1>1, <1>2, <1>5, <2>2 DEF AddLight
<1>6. ASSUME NEW l \in Light, NEW type \in LightType, NEW shadow \in BOOLEAN, EditLight(l, type, shadow)
      PROVE  IInv'
  <2>1. SceneType'
    BY <1>6 DEF EditLight, Idle, SceneType, Component
  <2>. QED
    BY <1>1, <1>2, <1>6, <2>1 DEF EditLight
<1>7. ASSUME NEW l \in Light, NEW original \in Light, NEW garbage \in Ids,
             DuplicateEntity(original, l, garbage)
      PROVE  IInv'
  <2>1. [lights[original] EXCEPT !.shadowMap = garbage] \in Component
    BY <1>7 DEF DuplicateEntity, SceneType, Component
  <2>2. SceneType'
    BY <1>7, <2>1, PutTyped DEF DuplicateEntity, Idle, SceneType
  <2>. QED
    BY <1>1, <1>2, <1>7, <2>2 DEF DuplicateEntity
<1>8. ASSUME NEW l \in Light, RemoveLight(l) PROVE IInv'
  <2>1. SceneType'
    BY <1>8 DEF RemoveLight, Idle, SceneType, Restrict, AtlasInv, AtlasType
  <2>. QED
    BY <1>1, <1>2, <1>8, <2>1 DEF RemoveLight
<1>9. ASSUME NEW l \in Light, CullHidden(l) \/ CullRegular(l) PROVE IInv'
  BY <1>9, GiveBackSound DEF CullHidden, CullRegular, Visit
<1>10. ASSUME NEW l \in Light, CullShadowKept(l) PROVE IInv'
  <2>1. ListType'
    BY <1>10, ListTyped, GetRegionType DEF CullShadowKept, Visit, SceneType, AtlasInv
  <2>2. SceneType'
    BY <1>10 DEF CullShadowKept, Visit, SceneType
  <2>. QED
    BY <1>1, <1>10, <2>1, <2>2 DEF CullShadowKept
<1>11. ASSUME NEW l \in Light, NEW got \in Ids, CullShadowNew(l, got) PROVE IInv'
  <2>1. lights[l].type \in LightType /\ l \in DOMAIN lights
    BY <1>11 DEF CullShadowNew, Visit, SceneType, Component
  <2>2. AtlasInv'
    BY <1>11, <2>1, SizesPositive, AllocateSound DEF CullShadowNew, Visit
  <2>3. GetRegion(got)' \in Region \union {NoRegion}
    BY <2>2 DEF AtlasInv, AtlasType, GetRegion
  <2>4. ListType'
    BY <1>11, <2>1, <2>3, ListTyped DEF CullShadowNew
  <2>5. lights' = [lights EXCEPT ![l].shadowMap = got]
    BY <1>11 DEF CullShadowNew
  <2>6. DOMAIN lights' = DOMAIN lights /\ lights' \in [DOMAIN lights' -> Component]
    BY <2>5 DEF SceneType, Component
  <2>7. SceneType'
    BY <1>11, <2>6, ZeroId DEF CullShadowNew, Visit, SceneType
  <2>. QED
    BY <2>2, <2>4, <2>7
<1>12. CASE UNCHANGED vars
  BY <1>1, <1>2, <1>12 DEF vars, scene, SceneType
<1>. QED
  BY <1>3, <1>4, <1>5, <1>6, <1>7, <1>8, <1>9, <1>10, <1>11, <1>12 DEF Next

LEMMA Invariance == Spec => []IInv
BY InvInit, InvStep, PTL DEF Spec

(* Every reachable state of the lights, the lists and the allocator has the  *)
(* types of the code.                                                        *)
THEOREM LightsTyped == Spec => []TypeOK
<1>1. IInv => TypeOK
  BY DEF IInv, SceneType, ListType, AtlasInv, AtlasType, TypeOK
<1>. QED
  BY <1>1, Invariance, PTL

(* For every atlas and sequence of calls, no two regions handed out share a  *)
(* portion, and `used` marks exactly the regions handed out.                 *)
THEOREM RegionsDisjoint == Spec => []AtlasSound
<1>1. IInv => AtlasSound
  BY DEF IInv, AtlasInv
<1>. QED
  BY <1>1, Invariance, PTL

-----------------------------------------------------------------------------
(* Who holds the regions                                                     *)

(* What Allocate returns is 0 or was no region's id before.                  *)
LEMMA AllocateAdds ==
  ASSUME NEW w \in Nat \ {0}, NEW h \in Nat \ {0}, NEW got \in Ids, Allocate(w, h, got)
  PROVE  \/ got = 0 /\ UNCHANGED regions
         \/ /\ got \notin DOMAIN regions
            /\ DOMAIN regions' = DOMAIN regions \union {got}
            /\ \A i \in DOMAIN regions : regions'[i] = regions[i]
<1>1. CASE got = 0 /\ UNCHANGED atlas
  BY <1>1 DEF atlas
<1>2. ASSUME NEW r \in ValidPositions(w, h), IsNextId(got),
             regions' = [i \in DOMAIN regions \union {got} |-> IF i = got THEN r ELSE regions[i]]
      PROVE  /\ got \notin DOMAIN regions
             /\ DOMAIN regions' = DOMAIN regions \union {got}
             /\ \A i \in DOMAIN regions : regions'[i] = regions[i]
  BY <1>2 DEF IsNextId
<1>. QED
  BY <1>1, <1>2 DEF Allocate

(* DeAllocate takes one region away, or nothing.                             *)
LEMMA DeAllocateRemoves ==
  ASSUME NEW k, DeAllocate(k)
  PROVE  /\ DOMAIN regions' = DOMAIN regions \ ({k} \ {0})
         /\ \A i \in DOMAIN regions' : regions'[i] = regions[i]
BY DEF DeAllocate, Restrict, atlas

(* Giving a region back: only the light visited changes, and holds nothing.  *)
LEMMA GiveBackLights ==
  ASSUME SceneType, NEW l \in DOMAIN lights, GiveBack(l)
  PROVE  /\ DOMAIN lights' = DOMAIN lights
         /\ lights'[l].shadowMap = 0
         /\ \A x \in DOMAIN lights \ {l} : lights'[x] = lights[x]
BY DEF SceneType, Component, GiveBack

LEMMA AccountedStep == IInv /\ RegionsAccounted /\ [Next]_vars => RegionsAccounted'
<1> SUFFICES ASSUME IInv, RegionsAccounted, [Next]_vars, ~copied' PROVE RegionsAccounted'
  BY DEF RegionsAccounted
<1>1. ASSUME UNCHANGED <<lights, lost, copied, regions>> PROVE RegionsAccounted'
  BY <1>1 DEF RegionsAccounted, HeldIds
<1>2. CASE BeginFrame \/ EndFrame
  BY <1>1, <1>2 DEF BeginFrame, EndFrame, atlas
<1>3. ASSUME NEW l \in Light, NEW type \in LightType, NEW shadow \in BOOLEAN, AddLight(l, type, shadow)
      PROVE  RegionsAccounted'
  <2>1. [type |-> type, shadow |-> shadow, shadowMap |-> 0] \in Component
    BY ZeroId DEF Component
  <2>2. /\ DOMAIN lights' = DOMAIN lights \union {l} /\ l \notin DOMAIN lights
        /\ lights'[l].shadowMap = 0
        /\ \A x \in DOMAIN lights : lights'[x] = lights[x]
    BY <1>3, <2>1, PutTyped DEF AddLight, IInv
  <2>3. UNCHANGED <<lost, copied, regions>>
    BY <1>3 DEF AddLight, atlas
  <2>4. HeldIds' = HeldIds
    BY <2>2 DEF HeldIds
  <2>. QED
    BY <2>2, <2>3, <2>4 DEF RegionsAccounted
<1>4. ASSUME NEW l \in Light, NEW type \in LightType, NEW shadow \in BOOLEAN, EditLight(l, type, shadow)
      PROVE  RegionsAccounted'
  <2>1. /\ DOMAIN lights' = DOMAIN lights
        /\ \A x \in DOMAIN lights : lights'[x].shadowMap = lights[x].shadowMap
    BY <1>4 DEF EditLight, IInv, SceneType, Component
  <2>2. UNCHANGED <<lost, copied, regions>>
    BY <1>4 DEF EditLight, atlas
  <2>3. HeldIds' = HeldIds
    BY <2>1 DEF HeldIds
  <2>. QED
    BY <2>1, <2>2, <2>3 DEF RegionsAccounted
<1>5. ASSUME NEW l \in Light, NEW original \in Light, NEW garbage \in Ids,
             DuplicateEntity(original, l, garbage)
      PROVE  RegionsAccounted'
  BY <1>5 DEF DuplicateEntity
<1>6. ASSUME NEW l \in Light, RemoveLight(l) PROVE RegionsAccounted'
  <2>1. /\ l \in DOMAIN lights /\ DOMAIN lights' = DOMAIN lights \ {l}
        /\ \A x \in DOMAIN lights' : lights'[x] = lights[x]
        /\ lost' = lost \union ({lights[l].shadowMap} \intersect (DOMAIN regions \ {0}))
        /\ UNCHANGED <<copied, regions>>
    BY <1>6 DEF RemoveLight, Restrict, atlas
  <2>2. RegionsAccounted /\ ~copied
    BY <2>1
  <2>3. HeldIds' = HeldIds \ {lights[l].shadowMap}
    BY <2>1, <2>2 DEF HeldIds, RegionsAccounted
  <2>. QED
    BY <2>1, <2>2, <2>3 DEF RegionsAccounted, HeldIds
<1>7. ASSUME NEW l \in Light, CullHidden(l) \/ CullRegular(l) PROVE RegionsAccounted'
  <2>1. /\ l \in DOMAIN lights /\ DeAllocate(lights[l].shadowMap)
        /\ UNCHANGED <<lost, copied>> /\ GiveBack(l)
    BY <1>7 DEF CullHidden, CullRegular, Visit, GiveBack, IInv, SceneType
  <2>2. /\ DOMAIN lights' = DOMAIN lights /\ lights'[l].shadowMap = 0
        /\ \A x \in DOMAIN lights \ {l} : lights'[x] = lights[x]
    BY <2>1, GiveBackLights DEF IInv
  <2>3. DOMAIN regions' = DOMAIN regions \ ({lights[l].shadowMap} \ {0})
    BY <2>1, DeAllocateRemoves
  <2>4. HeldIds' = HeldIds \ {lights[l].shadowMap}
    BY <2>1, <2>2 DEF HeldIds, RegionsAccounted
  <2>. QED
    BY <2>1, <2>2, <2>3, <2>4 DEF RegionsAccounted, HeldIds
<1>8. ASSUME NEW l \in Light, CullShadowKept(l) PROVE RegionsAccounted'
  BY <1>1, <1>8 DEF CullShadowKept, Visit, atlas
<1>9. ASSUME NEW l \in Light, NEW got \in Ids, CullShadowNew(l, got) PROVE RegionsAccounted'
  <2>1. lights[l].type \in LightType /\ l \in DOMAIN lights /\ lights[l].shadowMap = 0
    BY <1>9 DEF CullShadowNew, Visit, IInv, SceneType, Component
  <2>2. /\ DOMAIN lights' = DOMAIN lights /\ lights'[l].shadowMap = got
        /\ \A x \in DOMAIN lights \ {l} : lights'[x] = lights[x]
    BY <1>9, <2>1 DEF CullShadowNew, IInv, SceneType, Component
  <2>3. UNCHANGED copied /\ lost' = lost \union ({got} \intersect (DOMAIN regions' \intersect {0}))
    BY <1>9 DEF CullShadowNew, Visit
  <2>4. HeldIds' = HeldIds \union ({got} \ {0})
    BY <2>1, <2>2 DEF HeldIds
  <2>5. CASE got = 0 /\ UNCHANGED regions
    BY <2>1, <2>2, <2>3, <2>4, <2>5 DEF RegionsAccounted, HeldIds
  <2>6. CASE got \notin DOMAIN regions /\ DOMAIN regions' = DOMAIN regions \union {got}
    BY <2>1, <2>2, <2>3, <2>4, <2>6 DEF RegionsAccounted, HeldIds
  <2>. QED
    BY <1>9, <2>1, <2>5, <2>6, SizesPositive, AllocateAdds DEF CullShadowNew
<1>10. CASE UNCHANGED vars
  BY <1>1, <1>10 DEF vars, scene, atlas
<1>. QED
  BY <1>2, <1>3, <1>4, <1>5, <1>6, <1>7, <1>8, <1>9, <1>10 DEF Next

(* Until a light is copied every region has its one light, but for those     *)
(* lost with a removed light or to an id that wrapped.                       *)
THEOREM RegionsHeld == Spec => []RegionsAccounted
<1>1. Init => RegionsAccounted
  BY DEF Init, AtlasInit, RegionsAccounted, HeldIds
<1>. QED
  BY <1>1, AccountedStep, Invariance, PTL DEF Spec

(* The region of a light that keeps its id, in one step.                     *)
Stays(x) == GetRegion(lights[x].shadowMap)' = GetRegion(lights[x].shadowMap)

LEMMA StaysStep ==
  ASSUME IInv, RegionsAccounted, Next, ~copied', NEW x \in DOMAIN lights \intersect DOMAIN lights',
         lights'[x].shadowMap = lights[x].shadowMap
  PROVE  Stays(x)
<1>1. ASSUME UNCHANGED regions PROVE Stays(x)
  BY <1>1 DEF Stays, GetRegion
<1>2. ASSUME NEW l \in Light, CullHidden(l) \/ CullRegular(l) PROVE Stays(x)
  <2>1. l \in DOMAIN lights /\ ~copied /\ GiveBack(l) /\ DeAllocate(lights[l].shadowMap)
    BY <1>2 DEF CullHidden, CullRegular, Visit, GiveBack, IInv, SceneType
  <2>2. lights[x].shadowMap = 0 \/ lights[x].shadowMap # lights[l].shadowMap
    BY <2>1, GiveBackLights DEF RegionsAccounted, IInv
  <2>3. /\ DOMAIN regions' = DOMAIN regions \ ({lights[l].shadowMap} \ {0})
        /\ \A i \in DOMAIN regions' : regions'[i] = regions[i]
    BY <2>1, DeAllocateRemoves
  <2>. QED
    BY <2>2, <2>3 DEF Stays, GetRegion
<1>3. ASSUME NEW l \in Light, NEW got \in Ids, CullShadowNew(l, got) PROVE Stays(x)
  <2>1. lights[l].type \in LightType /\ l \in DOMAIN lights
    BY <1>3 DEF CullShadowNew, Visit, IInv, SceneType, Component
  <2>2. ~copied
    BY <1>3 DEF CullShadowNew, Visit
  <2>3. CASE got = 0 /\ UNCHANGED regions
    BY <1>1, <2>3
  <2>4. CASE /\ got \notin DOMAIN regions
             /\ DOMAIN regions' = DOMAIN regions \union {got}
             /\ \A i \in DOMAIN regions : regions'[i] = regions[i]
    <3>1. lights[x].shadowMap = 0 \/ lights[x].shadowMap \in DOMAIN regions
      BY <2>2 DEF RegionsAccounted, HeldIds
    <3>. QED
      BY <2>4, <3>1 DEF Stays, GetRegion
  <2>. QED
    BY <1>3, <2>1, <2>3, <2>4, SizesPositive, AllocateAdds DEF CullShadowNew
<1>. QED
  BY <1>1, <1>2, <1>3 DEF Next, BeginFrame, EndFrame, AddLight, EditLight,
     DuplicateEntity, RemoveLight, CullShadowKept, atlas

(* No step moves or frees the region of a light that keeps its id.           *)
THEOREM RegionsKept == Spec => RegionsStay
<1>1. IInv /\ RegionsAccounted /\ Next =>
        (~copied' => \A l \in DOMAIN lights \intersect DOMAIN lights' :
           lights'[l].shadowMap = lights[l].shadowMap
             => GetRegion(lights[l].shadowMap)' = GetRegion(lights[l].shadowMap))
  BY StaysStep DEF Stays
<1>. QED
  BY <1>1, RegionsHeld, Invariance, PTL DEF Spec, RegionsStay

-----------------------------------------------------------------------------
(* Regions of one height                                                     *)

(* Two rows of blocks that start less than a block apart are the same.       *)
LEMMA SameBlock ==
  ASSUME NEW h \in Nat \ {0}, NEW i \in Nat, NEW j \in Nat, i * h < j * h + h, j * h < i * h + h
  PROVE  i = j
<1>1. CASE i < j
  <2>1. PICK d \in Nat : j = i + 1 + d
    <3>1. j - i - 1 \in Nat /\ j = i + 1 + (j - i - 1)
      BY <1>1
    <3>. QED
      BY <3>1
  <2>2. j * h = i * h + h + d * h /\ d * h >= 0
    BY <2>1
  <2>. QED
    BY <2>2
<1>2. CASE j < i
  <2>1. PICK d \in Nat : i = j + 1 + d
    <3>1. i - j - 1 \in Nat /\ i = j + 1 + (i - j - 1)
      BY <1>2
    <3>. QED
      BY <3>1
  <2>2. i * h = j * h + h + d * h /\ d * h >= 0
    BY <2>1
  <2>. QED
    BY <2>2
<1>. QED
  BY <1>1, <1>2

(* A row lies in a block.                                                    *)
LEMMA BlockOf ==
  ASSUME NEW h \in Nat \ {0}, NEW y \in Nat
  PROVE  \E k \in Nat, m \in 0 .. h - 1 : y = k * h + m /\ m = y % h
<1>1. y \div h \in Nat /\ y % h \in 0 .. h - 1 /\ y = (y \div h) * h + (y % h)
  BY Z3
<1>. QED
  BY <1>1

(* Of two places in the same column the higher one scores better.            *)
LEMMA HigherIsBetter ==
  ASSUME NEW r, NEW q, r.x = q.x, r.x \in Nat, r.y \in Nat, q.y \in Nat, q.y < r.y
  PROVE  /\ FragmentationMetric(q) \in Int /\ FragmentationMetric(r) \in Int
         /\ FragmentationMetric(q) < FragmentationMetric(r)
<1> DEFINE F(n) == 4 * n * Columns * Rows
<1>1. F(0) \in Int /\ F(1) \in Int /\ F(2) \in Int /\ F(0) <= F(1) /\ F(1) <= F(2)
  BY AtlasAssumption
<1> DEFINE a == IF r.x > 0 THEN 1 ELSE 0
           b == IF q.y > 0 THEN 1 ELSE 0
<1>2. FragmentationMetric(r) = F(a + 1) + 6 * (r.x + r.y)
  <2>1. (IF r.y > 0 THEN 1 ELSE 0) = 1
    OBVIOUS
  <2>. QED
    BY <2>1, Zenon DEF FragmentationMetric
<1>3. FragmentationMetric(q) = F(a + b) + 6 * (r.x + q.y)
  BY Zenon DEF FragmentationMetric
<1> HIDE DEF F
<1>4. F(a + b) \in Int /\ F(a + 1) \in Int /\ F(a + b) <= F(a + 1)
  <2>1. CASE r.x > 0 /\ q.y > 0
    BY <1>1, <2>1
  <2>2. CASE r.x > 0 /\ ~(q.y > 0)
    BY <1>1, <2>2
  <2>3. CASE ~(r.x > 0) /\ q.y > 0
    BY <1>1, <2>3
  <2>4. CASE ~(r.x > 0) /\ ~(q.y > 0)
    BY <1>1, <2>4
  <2>. QED
    BY <2>1, <2>2, <2>3, <2>4
<1> HIDE DEF a, b
<1>. QED
  BY <1>2, <1>3, <1>4

(* All regions have height h and start where a block of h rows does.         *)
InBlocks(h) == \A i \in DOMAIN regions : regions[i].h = h /\ \E k \in Nat : regions[i].y = k * h

(* The best place for a region is then such a block, inside the atlas: from  *)
(* any other place the region could move up to the start of the block.       *)
LEMMA BestInBlock ==
  ASSUME AtlasInv, ~corrupt, NEW h \in Nat \ {0}, NEW w \in Nat \ {0}, Rows % h = 0, InBlocks(h),
         NEW r \in ValidPositions(w, h), IsBest(r, ValidPositions(w, h))
  PROVE  Inside(r) /\ \E k \in Nat : r.y = k * h
<1>1. r \in Region /\ r.w = w /\ r.h = h /\ IsAvailable(r)
  BY PositionsAreRegions
<1>2. r.y \in Nat /\ r.y < Rows /\ r.x \in 0 .. Columns - 1 /\ Rows \in Nat /\ Columns \in Nat
  BY <1>1, AtlasAssumption DEF Region
<1>3. PICK k \in Nat, m \in 0 .. h - 1 : r.y = k * h + m
  <2>1. \E k \in Nat, m \in 0 .. h - 1 : r.y = k * h + m /\ m = r.y % h
    BY <1>2, BlockOf, Zenon
  <2>. QED
    BY <2>1
<1>4. k * h \in Nat /\ k * h <= r.y
  BY <1>3
<1> DEFINE q == [x |-> r.x, y |-> k * h, w |-> w, h |-> h]
<1>5. IsAvailable(q)
  <2> SUFFICES ASSUME NEW e \in Entries(q), e \in used PROVE FALSE
    BY <1>1 DEF IsAvailable
  <2>1. PICK i \in DOMAIN regions : e \in Entries(regions[i])
    BY DEF AtlasInv, AtlasSound
  <2>2. PICK j \in Nat : regions[i].y = j * h
    BY DEF InBlocks
  <2>3. regions[i] \in Region /\ regions[i].h = h
    BY DEF AtlasInv, AtlasType, InBlocks
  <2>4. j * h \in Nat /\ e[2] \in Int /\ k * h <= e[2] /\ e[2] < k * h + h /\ j * h <= e[2] /\ e[2] < j * h + h
    BY <1>2, <1>4, <2>1, <2>2, <2>3 DEF Entries, Region
  <2>5. j = k
    BY <2>4, SameBlock
  <2>6. <<e[1], r.y>> \in Entries(regions[i]) /\ <<e[1], r.y>> \in Entries(r)
    BY <1>1, <1>2, <1>3, <2>1, <2>2, <2>3, <2>5 DEF Entries, Region
  <2>7. <<e[1], r.y>> \in used
    BY <2>6 DEF AtlasInv, AllInside, Inside, AtlasSound
  <2>. QED
    BY <1>1, <2>6, <2>7 DEF IsAvailable
<1>6. q \in ValidPositions(w, h)
  BY <1>2, <1>4, <1>5 DEF ValidPositions
<1>7. r.y <= k * h
  <2>1. \/ FragmentationMetric(r) < FragmentationMetric(q)
        \/ FragmentationMetric(r) = FragmentationMetric(q) /\ (r.y < q.y \/ (r.y = q.y /\ r.x <= q.x))
    BY <1>6 DEF IsBest
  <2>2. CASE q.y < r.y
    <3>1. q.x = r.x /\ r.x \in Nat /\ r.y \in Nat /\ q.y \in Nat
      BY <1>2, <1>4
    <3> HIDE DEF q
    <3>2. /\ FragmentationMetric(q) \in Int /\ FragmentationMetric(r) \in Int
          /\ FragmentationMetric(q) < FragmentationMetric(r)
      BY <2>2, <3>1, HigherIsBetter
    <3>. QED
      BY <2>1, <3>2
  <2>. QED
    BY <1>2, <1>4, <2>2
<1>8. r.y = k * h
  BY <1>2, <1>4, <1>7
<1>9. r.y + h <= Rows
  <2>1. PICK n \in Nat, z \in 0 .. h - 1 : Rows = n * h + z /\ z = Rows % h
    BY <1>2, BlockOf
  <2>2. Rows = n * h
    BY <2>1
  <2>3. k < n
    <3>1. CASE k >= n
      <4>1. PICK d \in Nat : k = n + d
        <5>1. k - n \in Nat /\ k = n + (k - n)
          BY <3>1
        <5>. QED
          BY <5>1
      <4>2. k * h = n * h + d * h /\ d * h >= 0
        BY <4>1
      <4>. QED
        BY <1>2, <1>8, <2>2, <4>2
    <3>. QED
      BY <3>1
  <2>4. PICK d \in Nat : n = k + 1 + d
    <3>1. n - k - 1 \in Nat /\ n = k + 1 + (n - k - 1)
      BY <2>3
    <3>. QED
      BY <3>1
  <2>5. n * h = k * h + h + d * h /\ d * h >= 0
    BY <2>4
  <2>. QED
    BY <1>2, <1>8, <2>2, <2>5
<1>10. Inside(r)
  BY <1>1, <1>2, <1>9 DEF Inside, Entries, Portions, IsAvailable
<1>. QED
  BY <1>8, <1>10

(* Once and as long as one height is all there is, it stays in its blocks.   *)
BlocksInv ==
  \A h \in Nat \ {0} : heights \subseteq {h} /\ Rows % h = 0 => ~corrupt /\ InBlocks(h)

HeightsInv == IsFiniteSet(heights) /\ \A h \in heights : h \in Nat \ {0}

LEMMA BlocksStep == IInv /\ BlocksInv /\ HeightsInv /\ [Next]_vars => (BlocksInv /\ HeightsInv)'
<1> SUFFICES ASSUME IInv, BlocksInv, HeightsInv, [Next]_vars PROVE (BlocksInv /\ HeightsInv)'
  OBVIOUS
<1>1. ASSUME UNCHANGED atlas PROVE (BlocksInv /\ HeightsInv)'
  BY <1>1 DEF BlocksInv, HeightsInv, InBlocks, atlas
<1>2. ASSUME NEW l \in Light, CullHidden(l) \/ CullRegular(l) PROVE (BlocksInv /\ HeightsInv)'
  <2>1. DeAllocate(lights[l].shadowMap)
    BY <1>2 DEF CullHidden, CullRegular, GiveBack
  <2>2. UNCHANGED <<corrupt, heights>>
    BY <2>1 DEF DeAllocate, atlas
  <2>3. /\ DOMAIN regions' \subseteq DOMAIN regions
        /\ \A i \in DOMAIN regions' : regions'[i] = regions[i]
    BY <2>1, DeAllocateRemoves
  <2>. QED
    BY <2>2, <2>3 DEF BlocksInv, HeightsInv, InBlocks
<1>3. ASSUME NEW l \in Light, NEW got \in Ids, CullShadowNew(l, got) PROVE (BlocksInv /\ HeightsInv)'
  <2>1. lights[l].type \in LightType /\ ~corrupt
    BY <1>3 DEF CullShadowNew, Visit, IInv, SceneType, Component
  <2> DEFINE w == Width(lights[l].type)
             h == Height(lights[l].type)
  <2>2. w \in Nat \ {0} /\ h \in Nat \ {0} /\ Allocate(w, h, got)
    BY <1>3, <2>1, SizesPositive DEF CullShadowNew
  <2> HIDE DEF w, h
  <2>3. ASSUME NEW r \in ValidPositions(w, h), IsBest(r, ValidPositions(w, h)), IsNextId(got),
               regions' = [i \in DOMAIN regions \union {got} |-> IF i = got THEN r ELSE regions[i]],
               corrupt' = ~Inside(r), heights' = heights \union {h}
        PROVE  (BlocksInv /\ HeightsInv)'
    <3>1. HeightsInv'
      BY <2>2, <2>3, FS_AddElement DEF HeightsInv
    <3>2. ASSUME NEW g \in Nat \ {0}, heights' \subseteq {g}, Rows % g = 0
          PROVE  ~corrupt' /\ InBlocks(g)'
      <4>1. g = h /\ heights \subseteq {g}
        BY <2>3, <3>2
      <4>2. InBlocks(h)
        BY <3>2, <4>1 DEF BlocksInv
      <4>3. Inside(r) /\ \E k \in Nat : r.y = k * h
        BY <2>1, <2>2, <2>3, <3>2, <4>1, <4>2, BestInBlock DEF IInv
      <4>4. r.h = h
        BY <2>2, PositionsAreRegions
      <4>. QED
        BY <2>3, <4>1, <4>2, <4>3, <4>4 DEF InBlocks
    <3>. QED
      BY <3>1, <3>2 DEF BlocksInv
  <2>. QED
    BY <1>1, <2>2, <2>3 DEF Allocate
<1>. QED
  BY <1>1, <1>2, <1>3 DEF Next, vars, BeginFrame, EndFrame, AddLight, EditLight,
     DuplicateEntity, RemoveLight, CullShadowKept

(* As long as all regions have one height that divides the rows, no region   *)
(* ever hangs over the last row, whatever the widths, the order of the calls *)
(* and the regions freed between them.                                       *)
THEOREM OneHeightSafe == Spec => []OneHeightInside
<1>1. Init => BlocksInv /\ HeightsInv
  BY FS_EmptySet DEF Init, AtlasInit, BlocksInv, HeightsInv, InBlocks
<1>2. IInv /\ BlocksInv /\ HeightsInv => OneHeightInside
  <2> SUFFICES ASSUME IInv, BlocksInv, HeightsInv, Cardinality(heights) <= 1,
                      \A h \in heights : Rows % h = 0
               PROVE  ~corrupt
    BY DEF OneHeightInside
  <2>1. CASE heights = {}
    <3>1. Rows % 1 = 0 /\ 1 \in Nat \ {0}
      BY AtlasAssumption
    <3>. QED
      BY <2>1, <3>1 DEF BlocksInv
  <2>2. ASSUME NEW h \in heights PROVE ~corrupt
    <3>1. ASSUME NEW g \in heights, g # h PROVE FALSE
      <4>1. {h} \subseteq heights \ {g} /\ IsFiniteSet(heights \ {g})
        BY <3>1, FS_RemoveElement DEF HeightsInv
      <4>2. Cardinality(heights \ {g}) = Cardinality(heights) - 1 /\ Cardinality(heights) \in Nat
        BY FS_RemoveElement, FS_CardinalityType DEF HeightsInv
      <4>3. Cardinality({h}) <= Cardinality(heights \ {g}) /\ Cardinality({h}) = 1
        BY <4>1, FS_Subset, FS_Singleton
      <4>. QED
        BY <4>2, <4>3
    <3>2. h \in Nat \ {0} /\ heights \subseteq {h} /\ Rows % h = 0
      BY <3>1 DEF HeightsInv
    <3>. QED
      BY <3>2 DEF BlocksInv
  <2>. QED
    BY <2>1, <2>2
<1>. QED
  BY <1>1, <1>2, BlocksStep, Invariance, PTL DEF Spec

-----------------------------------------------------------------------------
(* What is listed for the shadow passes                                      *)

(* A listed light exists, has been visited, and still holds the region it is *)
(* listed with; directional lights come first.  Nothing is listed twice.     *)
Listed(k) ==
  /\ shadowLights[k].light \in DOMAIN lights \ todo
  /\ shadowLights[k].type = "Directional" <=> k <= numShadowDirLights
  /\ shadowLights[k].region = GetRegion(lights[shadowLights[k].light].shadowMap)

ListInv ==
  frame = "cull" /\ ~copied =>
    /\ \A k \in 1 .. Len(shadowLights) : Listed(k)
    /\ \A k, n \in 1 .. Len(shadowLights) :
         k # n => shadowLights[k].light # shadowLights[n].light
    /\ numShadowDirLights <= Len(shadowLights)

(* Listing a light that was not visited before keeps it so.                  *)
LEMMA ListSound ==
  ASSUME IInv, ListInv, ~copied, ~copied', frame = "cull", NEW l \in todo,
         todo' = todo \ {l}, DOMAIN lights' = DOMAIN lights,
         \A x \in DOMAIN lights \ {l} :
           GetRegion(lights[x].shadowMap)' = GetRegion(lights[x].shadowMap),
         NEW region, region = GetRegion(lights[l].shadowMap)', List(l, region)
  PROVE  ListInv'
<1> DEFINE entry == [light |-> l, type |-> lights[l].type, region |-> region]
           n == Len(shadowLights)
           Same(k, m) == shadowLights'[k] = shadowLights[m]
<1>1. n \in Nat /\ numShadowDirLights \in Nat /\ l \in DOMAIN lights /\ numShadowDirLights <= n
  BY DEF IInv, SceneType, ListType, ListInv
<1>2. \A k \in 1 .. n : Listed(k) /\ shadowLights[k].light # l
  BY DEF ListInv, Listed
<1>3. \A k, m \in 1 .. n : k # m => shadowLights[k].light # shadowLights[m].light
  BY DEF ListInv
<1>4. ASSUME NEW k \in 1 .. n, NEW m, Same(m, k),
             k <= numShadowDirLights <=> m <= numShadowDirLights'
      PROVE  Listed(m)'
  <2>1. shadowLights[k].light \in DOMAIN lights \ {l}
    BY <1>2 DEF Listed
  <2>. QED
    BY <1>2, <1>4, <2>1 DEF Listed
<1>5. ASSUME NEW m, shadowLights'[m] = entry,
             lights[l].type = "Directional" <=> m <= numShadowDirLights'
      PROVE  Listed(m)'
  BY <1>1, <1>5 DEF Listed
<1>6. CASE /\ lights[l].type = "Directional" /\ numShadowDirLights' = numShadowDirLights + 1
           /\ shadowLights' = <<entry>> \o shadowLights
  <2>1. Len(shadowLights') = n + 1 /\ shadowLights'[1] = entry
    BY <1>1, <1>6 DEF IInv, ListType
  <2>2. \A k \in 1 .. n : Same(k + 1, k)
    BY <1>1, <1>6 DEF IInv, ListType
  <2>3. ASSUME NEW k \in 2 .. n + 1 PROVE k - 1 \in 1 .. n /\ Same(k, k - 1)
    <3>1. k - 1 \in 1 .. n /\ (k - 1) + 1 = k
      BY <1>1
    <3>2. Same((k - 1) + 1, k - 1)
      BY <2>2, <3>1
    <3>. QED
      BY <3>1, <3>2
  <2>4. Listed(1)'
    BY <1>1, <1>5, <1>6, <2>1
  <2>5. ASSUME NEW k \in 2 .. n + 1 PROVE Listed(k)' /\ shadowLights'[k].light # l
    <3>1. k - 1 \in 1 .. n /\ Same(k, k - 1)
      BY <2>3
    <3>2. k - 1 <= numShadowDirLights <=> k <= numShadowDirLights'
      BY <1>1, <1>6
    <3>3. Listed(k)'
      BY <1>4, <3>1, <3>2
    <3>. QED
      BY <1>2, <3>1, <3>3
  <2>6. ASSUME NEW k \in 1 .. n + 1, NEW m \in 1 .. n + 1, k # m
        PROVE  shadowLights'[k].light # shadowLights'[m].light
    <3>1. CASE k = 1
      BY <1>1, <2>1, <2>5, <2>6, <3>1
    <3>2. CASE m = 1
      BY <1>1, <2>1, <2>5, <2>6, <3>2
    <3>3. CASE k # 1 /\ m # 1
      BY <1>1, <1>3, <2>3, <2>6, <3>3
    <3>. QED
      BY <3>1, <3>2, <3>3
  <2>7. \A k \in 1 .. n + 1 : k = 1 \/ k \in 2 .. n + 1
    BY <1>1
  <2>. QED
    BY <1>1, <1>6, <2>1, <2>4, <2>5, <2>6, <2>7 DEF ListInv
<1>7. CASE /\ lights[l].type # "Directional" /\ numShadowDirLights' = numShadowDirLights
           /\ shadowLights' = Append(shadowLights, entry)
  <2>1. Len(shadowLights') = n + 1 /\ shadowLights'[n + 1] = entry
    BY <1>1, <1>7 DEF IInv, ListType
  <2>2. \A k \in 1 .. n : Same(k, k)
    BY <1>1, <1>7 DEF IInv, ListType
  <2>3. ASSUME NEW k \in 1 .. n + 1, k = n + 1 PROVE Listed(k)'
    <3>1. ~(k <= numShadowDirLights')
      BY <1>1, <1>7, <2>3
    <3>. QED
      BY <1>5, <1>7, <2>1, <2>3, <3>1
  <2>4. ASSUME NEW k \in 1 .. n PROVE Listed(k)' /\ shadowLights'[k].light # l
    BY <1>1, <1>2, <1>4, <1>7, <2>2
  <2>5. ASSUME NEW k \in 1 .. n + 1, NEW m \in 1 .. n + 1, k # m
        PROVE  shadowLights'[k].light # shadowLights'[m].light
    <3>1. CASE k = n + 1
      BY <1>1, <2>1, <2>4, <2>5, <3>1
    <3>2. CASE m = n + 1
      BY <1>1, <2>1, <2>4, <2>5, <3>2
    <3>3. CASE k # n + 1 /\ m # n + 1
      BY <1>1, <1>3, <2>2, <2>5, <3>3
    <3>. QED
      BY <3>1, <3>2, <3>3
  <2>6. \A k \in 1 .. n + 1 : k = n + 1 \/ k \in 1 .. n
    BY <1>1
  <2>7. ASSUME NEW k \in 1 .. n + 1 PROVE Listed(k)'
    <3>1. CASE k = n + 1
      BY <2>3, <3>1
    <3>. QED
      BY <2>4, <2>6, <3>1
  <2>. QED
    BY <1>1, <1>7, <2>1, <2>5, <2>7 DEF ListInv
<1>. QED
  BY <1>6, <1>7 DEF List

LEMMA ListStep == IInv /\ RegionsAccounted /\ ListInv /\ [Next]_vars => ListInv'
<1> SUFFICES ASSUME IInv, RegionsAccounted, ListInv, [Next]_vars, frame' = "cull", ~copied'
             PROVE  ListInv'
  BY DEF ListInv
<1>1. CASE BeginFrame
  BY <1>1 DEF BeginFrame, ListInv
<1>2. CASE EndFrame
  BY <1>2 DEF EndFrame
<1>3. ASSUME NEW l \in Light, CullHidden(l) \/ CullRegular(l) PROVE ListInv'
  <2>1. /\ l \in todo /\ todo' = todo \ {l} /\ ~copied /\ frame = "cull" /\ GiveBack(l)
        /\ UNCHANGED <<shadowLights, numShadowDirLights>> /\ todo \subseteq DOMAIN lights
    BY <1>3 DEF CullHidden, CullRegular, Visit, GiveBack, IInv, SceneType
  <2>2. /\ DOMAIN lights' = DOMAIN lights
        /\ \A x \in DOMAIN lights \ {l} : lights'[x] = lights[x]
    BY <2>1, GiveBackLights DEF IInv
  <2>3. Next
    BY <1>3 DEF Next
  <2>4. \A x \in DOMAIN lights \ {l} : GetRegion(lights[x].shadowMap)' = GetRegion(lights[x].shadowMap)
    BY <2>2, <2>3, StaysStep DEF Stays
  <2>5. ASSUME NEW k \in 1 .. Len(shadowLights), Listed(k) PROVE Listed(k)'
    BY <2>1, <2>2, <2>4, <2>5 DEF Listed
  <2>. QED
    BY <2>1, <2>5 DEF ListInv
<1>4. ASSUME NEW l \in Light, CullShadowKept(l) PROVE ListInv'
  <2>1. /\ l \in todo /\ todo' = todo \ {l} /\ ~copied /\ frame = "cull"
        /\ UNCHANGED <<lights, regions>> /\ List(l, GetRegion(lights[l].shadowMap))
    BY <1>4 DEF CullShadowKept, Visit, atlas
  <2>2. \A i : GetRegion(i)' = GetRegion(i)
    BY <2>1 DEF GetRegion
  <2>. QED
    BY <2>1, <2>2, ListSound
<1>5. ASSUME NEW l \in Light, NEW got \in Ids, CullShadowNew(l, got) PROVE ListInv'
  <2>1. /\ l \in todo /\ todo' = todo \ {l} /\ ~copied /\ frame = "cull" /\ l \in DOMAIN lights
        /\ lights' = [lights EXCEPT ![l].shadowMap = got] /\ List(l, GetRegion(got)')
    BY <1>5 DEF CullShadowNew, Visit, IInv, SceneType
  <2>2. /\ DOMAIN lights' = DOMAIN lights /\ lights'[l].shadowMap = got
        /\ \A x \in DOMAIN lights \ {l} : lights'[x] = lights[x]
    BY <2>1 DEF IInv, SceneType, Component
  <2>3. Next
    BY <1>5 DEF Next
  <2>4. \A x \in DOMAIN lights \ {l} : GetRegion(lights[x].shadowMap)' = GetRegion(lights[x].shadowMap)
    BY <2>2, <2>3, StaysStep DEF Stays
  <2>5. GetRegion(got)' = GetRegion(lights[l].shadowMap)'
    BY <2>2
  <2>. QED
    BY <2>1, <2>2, <2>4, <2>5, ListSound
<1>6. CASE UNCHANGED vars
  BY <1>6 DEF vars, scene, atlas, ListInv, Listed, GetRegion
<1>. QED
  BY <1>1, <1>2, <1>3, <1>4, <1>5, <1>6 DEF Next, AddLight, EditLight, DuplicateEntity, RemoveLight, Idle

(* Until a light is copied, the lists of every frame are what the shaders    *)
(* and the shadow passes take them for, for any number of lights.            *)
THEOREM ShadowListsRight == Spec => []ShadowListSound
<1>1. Init => ListInv
  BY DEF Init, ListInv
<1>2. IInv /\ RegionsAccounted /\ ListInv => ShadowListSound
  <2> SUFFICES ASSUME IInv, RegionsAccounted, ListInv, frame = "cull", ~copied,
                      NEW k \in 1 .. Len(shadowLights), NEW n \in 1 .. Len(shadowLights), k # n
               PROVE  Entries(shadowLights[k].region) \intersect Entries(shadowLights[n].region) = {}
    BY DEF ListInv, Listed, ShadowListSound
  <2> DEFINE a == lights[shadowLights[k].light].shadowMap
             b == lights[shadowLights[n].light].shadowMap
  <2>1. shadowLights[k].region = GetRegion(a) /\ shadowLights[n].region = GetRegion(b)
    BY DEF ListInv, Listed
  <2>2. a = 0 \/ a # b
    BY DEF ListInv, Listed, RegionsAccounted
  <2>3. Entries(NoRegion) = {}
    BY DEF Entries, NoRegion
  <2> HIDE DEF a, b
  <2>. QED
    BY <2>1, <2>2, <2>3 DEF GetRegion, IInv, AtlasInv, AtlasSound
<1>. QED
  BY <1>1, <1>2, ListStep, RegionsHeld, Invariance, PTL DEF Spec
=============================================================================
