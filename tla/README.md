# A TLA+ development of the Pistachio Engine

Pistachio is a C++ game engine. Its own logic, as opposed to calls of the
rendering hardware interface (RHI), lies in how CPU and GPU share resources, how
a render graph is scheduled over queues, how buffers are carved up, and how a
scene keeps its entities. This directory models that logic in TLA+, checks it
with TLC on small instances and proves part of it with TLAPS for all values of
the constants.

Source paths below are relative to `src/src/Pistachio/`.

## 1. The system

| Component | State | Operations | Talks to |
|---|---|---|---|
| Frame loop, `Renderer/RendererBase` | index of the frame in flight, `fence_vals[3]`, `currentFenceVal`, staging buffer cursor, main and staging command lists | `EndFrame`, `PushBufferUpdate`, `PushTextureUpdate`, `FlushStagingBuffer`, `FlushGPU` | direct queue, `mainFence`, `stagingFence`; called by everything that uploads |
| Mesh buffers, `Renderer/RendererContext`, `Allocators/FreeList` | free and fast space, capacity, free list, handle table | `Allocate` (fast, free list, defragment, grow), `DeAllocate` | pushes initial data through `RendererBase`; growth and defragmentation are `Renderer`'s |
| `Renderer/Renderer` | the two mesh buffers, constant buffers, built-in shaders | `GrowMeshBuffer`, `DefragmentMeshBuffer`, `AllocateVertexBuffer`, `FreeVertexBuffer`, ... | `RendererBase`'s staging list and fences |
| Render graph, `Renderer/RenderGraph` | passes, resources, sorted passes with fence values, levels with wait/signal actions, `maxFence` | `AddPass`, `Compile` (`SortPasses`), `Execute`, `SubmitToQueue`, destructor | direct and compute queue, one timeline fence, the frame's allocators |
| Scene, `Scene/Scene` | entity registry and hierarchy, deletion queue, shadow atlas, light lists, its render graph | `CreateEntity`, `DestroyEntity`, `DefferedDelete`, `Reparent`, `Duplicate`, `UpdateTransforms`, `FrustumCull`, `OnUpdateEditor` | render graph, assets |
| Shadow atlas, `Allocators/AtlasAllocator` | rows of portions, map of regions, last id | `Allocate`, `DeAllocate`, `GetRegion` | Scene's lights |
| Assets, `Asset/AssetManager` | table of resources, names, reference counts | `CreateAsset`, `GetAsset`, `FromResource`, copies, moves and destruction of `Asset` | components, the renderer's context, materials, which hold Assets themselves |
| Shaders, `Renderer/Shader` | pipeline cache, descriptor sets | state setters, `Apply`, `ApplyBinding` | RHI |
| Application, swap chain, layers | running flag, layer stack, swap chain images | `Run`, `Step`, `OnEvent`, `Update`, `Resize` | window events, `RendererBase` |
| Everything else | none that outlives a call | loading, parsing, platform, scripting bindings | |

The engine is single threaded: layers, scenes and assets call it one after the
other, and a call may block on a fence. What runs concurrently is the GPU, which
executes submitted command lists later and out of order. So the hard behaviours are

* a resource (allocator, staging range, buffer, texture, swap chain image) reused
  or released by the CPU while a submitted list still uses it;
* waits: for the wrong value, for a value nobody signals, or of two queues for
  each other;
* a schedule that starts a pass before its inputs are made;
* long sequences of allocations and releases that leave allocator state
  inconsistent with what clients hold;
* a relation kept twice (an entity's parent, and its parent's list of children)
  by operations of which some update only one side, and deletions that take
  effect at the end of the frame;
* ids that stand for something another part owns (a light's shadow map region, an
  Asset's resource), copied, cleared and handed back over many frames.

`PROJECT.json` lists these hazards line by line.

What makes each component correct:

* frame loop: nothing the CPU reuses is in use by the queue; every call returns;
* mesh buffers: a mesh finds its own data where its handle points, free space is
  accounted for and is disjoint from what meshes hold;
* render graph: every pass is scheduled, after its inputs, across queues as
  well; the fence only increases and covers every list when it reaches `maxFence`;
* scene: whatever scripts and editors copy, move and delete, the entities stay a
  forest: parents outlive their children, no two entities are above each other, and
  the lists that are traversed agree with the parents;
* shadow atlas and lights: no two lights share texels, none keeps an id whose
  region went to another, what the passes of a frame read is what the lights hold;
* assets: a resource lives exactly as long as something refers to it, also when a
  material fails to load half way.

## 2. Modules

| Module | Models | Kind |
|---|---|---|
| `FrameSync` | the frame loop, uploads, buffer growth, graph submission on one queue, swap chain resize, exit | state machine |
| `FrameSync_proofs` | theorems about `FrameSync`: types and all its safety properties | proofs |
| `FreeList` | the free list | operators |
| `BufferAllocator` | `MonolithicBufferAllocator` and the two mesh buffers (uses `FreeList`) | state machine |
| `BufferFreeList_proofs` | lemmas: which bytes a free list offers after each of its operations | proofs |
| `BufferAllocator_proofs` | theorems about `BufferAllocator` | proofs |
| `RenderGraph` | `SortPasses`, `Execute`'s order, `SubmitToQueue` and `EndFrame` on two queues, the queues themselves | operators and state machine |
| `RenderGraph_proofs` | theorems about `RenderGraph`: the schedule, types, the order of recording | proofs |
| `RenderGraphQueues_proofs` | theorems about `RenderGraph`: what the two queues and the fence keep to | proofs |
| `ScenePasses` | the passes of the graph `Scene` builds | data |
| `SceneHierarchy` | the Scene's entities: creation, duplication, reparenting, both deletions | state machine |
| `EntityForest` | what the Scene keeps to with parents | abstract specification |
| `SceneHierarchy_proofs` | theorems about `SceneHierarchy` and that it implements `EntityForest` | proofs |
| `AtlasAllocator` | `AtlasAllocator`, placement and its metric included | state and actions |
| `SceneLights` | the light components of a Scene and `FrustumCull`'s loop over them (extends `AtlasAllocator`) | state machine |
| `SceneLights_proofs` | theorems about both | proofs |
| `AssetManager` | `AssetManager`, `Asset`, `RefCountedObject` and `Material::Create` | state machine |
| `AssetLifetimes` | what counting references is meant to achieve | abstract specification |
| `AssetManager_proofs` | theorems about `AssetManager` and that it implements `AssetLifetimes` | proofs |
| `MC_*` | instances for TLC | |

### FrameSync

The variables carry the names of the members of `RendererBase` (the misspelt
`staginBufferPortionUsed` included). `stagingFenceVal` is the static local of
`FlushStagingBuffer`. `calls` is the control state: client code may start a call
when it is empty; a call that waits is cut at every wait into the steps of
`Steps`, and `calls` holds those still to run. `heldBuffers` are the
`RHI::Ptr<RHI::Buffer>` locals of `MonolithicBufferAllocator::Allocate` and
`GrowMeshBuffer`, which keep a replaced buffer alive; `vertexBuffer` counts its
generations. `stagedCopies` and `stagedBuffers` are what the staging list being
recorded refers to.

The queue is Vulkan's: `execs` are the lists submitted and not finished, in any
order; `signals` complete only after everything submitted before them. A pending
list records the allocator it was recorded from, the value of `mainFence` that
will cover it, and what it refers to.

`MeshData` is restricted to updates that fit the staging buffer (80 MB in the
code). The restriction matters: for larger data `PushBufferUpdate` returns without
having written, so the copy of the growth would stay in the staging list after
`Allocate` has released the old buffer.

### FreeList and BufferAllocator

`FreeList` is the linked list as a sequence of blocks; unsigned arithmetic wraps
modulo `Word`. `BufferAllocator` has one action per branch of `Allocate` and one
for `DeAllocate`. `PT_CORE_ASSERT` is the debug build's: when the assertion of
the free list fails, `failed` becomes true and the program stops. `memory` is a
ghost variable: which allocation's data each byte holds. It is written where
`Allocate` uploads (the upload is flushed before `Allocate` returns), copied by
growth and by defragmentation.

The recursion after growth is the body of `AllocateGrown`: growth adds the size
asked for and `GROW_FACTOR`, so the second entry always takes the first branch.

### RenderGraph

The loops of `SortPasses` are recursive functions of the number of steps taken:
`Sorted` of turns, `TryPasses` of the passes of one queue in a turn, `FinishLevels`
of levels. The two windows (`readyIndex`, `readyBufferIndex`) are the code's. `deps`
records which producer `std::find_if` found for every input: the first one, which
is not the only one. `GraphsAssumption` restricts `Graphs` to those that can run:
`Runnable` adds, turn by turn, the passes whose inputs are all made by passes
already in it. On any other graph the code's loop does not end, and it indexes an
empty vector if there is no pass at all. `Submission` is what `SubmitToQueue` issues
to each queue; `Merged` is its loop over the levels of both. A queue starts its
operations in order. `RecordingOrder` is the order `Execute` records levels in,
which on one queue is the order they run in. The main list of `EndFrame` shares
the direct queue. `PlanOrdered` states in five parts what a plan must be like for
`Execute` and `SubmitToQueue` to be right about it (section 4); the code neither
says nor checks it.

### SceneHierarchy and EntityForest

`parentID` and `chilren` are the members of `HierarchyComponent` of the entities
that exist, so their domain is the registry; `deletionQueue` counts how often an
id is queued, at most `MaxQueued` times. Ids are never reused, as entt's carry a
version. The loop and the recursions over `parentID` are least sets closed under
parents (`Above`, `Subtree`) instead of recursive operators, which keeps the module
open to proof; where they end they visit exactly these sets. `created`, `copied` and
`strays` are history variables. `CreateEntityWithUUID` stores the literal
`(entt::entity)0` as the parent: the id of the first entity the registry hands out,
which the constructor makes the root.

Callers pass entities that exist; nothing else is asked of them. They copy and move
what is queued already, put entities under queued ones, queue again, delete the root,
and reparent an entity to itself. The model's guards are the code's early returns and
the places where a call would not come back or C++ and entt leave its effect undefined,
in which case it is no step:

* `view.get` of an entity that is gone: the old parent in `ReparentEntity`, an
  ancestor of the new one (`Rooted`), the root in `CreateEntityWithUUID` and
  `UpdateTransforms`;
* a walk or recursion that comes back to where it was: the deletions of an entity that
  is its own parent (`RecursionEnds`), the walk from a new parent below one (`Rooted`),
  and `UpdateTransforms` on lists that go in a circle (`TraversalEnds`), which an
  entity reparented to itself has, or one moved below a child that a copy still lists;
* destroying an id twice or after it is gone (`OnUpdateEditor`), and destroying
  grandchildren inside the loops over the pool (`DestroyEntity`).

Erasing `end()` from a list takes one of the outcomes of a release build (`Erased`), and
an id of a list that is gone is not followed. The deserializer, which clears the registry
and with it the root before it creates entities, is not modelled.

Two things come out differently from what one would like, and the properties say how far
they go. `ReparentEntity` starts its walk at the new parent's parent (`Scene.cpp:640`), so
it accepts an entity as its own parent: `OnlySelfCycles` says that this is the only cycle
it ever closes. And an entity created, copied or moved under a parent that is queued
outlives it, and a copy of an entity whose parent is gone never had one: `strays` are the
entities whose present parent was queued (and they were not) or gone when they were put
there. `ParentsAlive` says
that every other parent is alive, so that a deletion takes the subtree as it is at the end
of the frame, which may not be what it was when it was queued.

`EntityForest` states the same without saying how it is kept: every entity that is not a
stray has a parent, cycles are of one entity, and a step adds one leaf, moves one subtree
or removes entities so that this still holds; only the entity that is added or moved may
turn into a stray. Its variable `parent` is `parentID`; `DefferedDelete` is a stutter.

### AtlasAllocator and SceneLights

`used` are the entries of `m_portions` that are set, `regions` is `indexRegionMap`,
in portions rather than texels. Of `ValidPositions` the code takes the first with
the lowest score; the two terms of the score that are always negative are left out.
`Allocate` asks whether the columns of a region exist but not whether its lower
rows do (`AtlasAllocator.cpp:91`), and then marks entries past the end of the
vector. `corrupt` records that, and nothing is said of the program after it.

`lights` are the `LightComponent`s. A frame is `BeginFrame`, one `Cull...` for each
light and `EndFrame`; which light comes next, and whether the frustum sees it, is
free. Editors and scripts write components between frames. `RemoveLight` leaves
the region allocated, because no destructor frees it; such regions are `lost`.
`DuplicateEntity` gives the copy any id: the copy constructor leaves `shadowMap`
uninitialised (`Components.h:131`). Properties about who holds a region speak of
scenes in which nothing was copied. `heights` only serves `OneHeightInside`.

### AssetManager and AssetLifetimes

`pathUUIDMap` and `assetResourceMap` are the two maps, the latter reduced to the
counts `m_count_`. `assets` gives the uuid of every valid `Asset`, by its place: a
slot has one, a material has one per texture and its shader. An assignment from a
temporary and the destructor of the value overwritten are one action, with all
that the release of a last Asset sets off (`Gone`). `Material::Create` is cut at
each asset it creates: `creating` is the material it works on. A texture that
fails deletes the material, a shader that fails does not (`Material.cpp:129`):
the material is `leaked`, and what it holds stays for good.

Callers do not copy an Asset that goes with the one they overwrite:
`operator=(const Asset&)` releases first and then looks up what it has just erased
(`AssetManager.cpp:29`), which is undefined. For an Asset assigned to itself that is
the case if it is the last of its resource; if it is not, the assignment changes
nothing. What YAML throws on a malformed material file (`Material.cpp:110`, `:113`,
`:121`) is caught nowhere in the engine: the program ends. The name of a plain asset is always asked
for as the same kind, and uuids do not collide. A moved-from `Asset` is invalid
once the explicit call of its destructor (`AssetManager.cpp:64`) has stored 0.

`AssetLifetimes` knows no counts: a resource is loaded under a name, refers to
others, and exists as long as what is held leads to it. The mapping computes
`parts` and `held` from the places of the Assets. A material that is being created
or leaked is no resource yet, so its Assets are held from outside.

### What is abstracted

Names, formats, barriers and descriptors; the contents of updates; the recording
of passes. Bytes are units of a small buffer. Fences are timeline fences.

## 3. Runs

| Run | Instance | Shows |
|---|---|---|
| `frame_sync` | 3 frames in flight, staging buffer of 9, updates of 3, of 10 (never fits) and a texture of 2 that needs alignment, 1 growth, 4 frames, 5 submissions before clients stop | allocators, staging memory, buffers, scene textures and swap chain are never reused under a pending list; all calls return |
| `buffer_allocator` | two buffers of 4, sizes 1 to 3, capacity to 10, 5 allocations | meshes keep their data, the free list is sound, space is accounted for, handles are unique |
| `scene_graph` | the Scene's graph, 3 frames in flight, 4 frames | the plan meets the conditions of section 4; inputs ready, fence increasing, no deadlock, allocators idle |
| `small_graphs` | all 2048 acyclic graphs of four passes on two queues, added in order and in reverse | every pass is scheduled, after its producers |
| `scene_tree` | the root and three more entity ids, any order of operations with any arguments, ids queued at most once | parents are alive but for strays, the only cycles are entities reparented to themselves, lists agree with parents until a copy is made, every operation is a step of `EntityForest` |
| `shadow_atlas` | two lights of every type, an atlas of 4 by 4 portions, 3 ids, shadows of 1, 1 region lost | regions stay apart and with their light, the lists for the shadow passes are right, regions of one height stay inside |
| `assets` | three slots, three plain assets, two materials that share a texture and the shader, 5 uuids, 3 materials leaked | counts are exact, both maps agree, every Asset has its resource, resources exist exactly as long as something leads to them |
| `freed_space`, `defragment`, `overlap`, `stale_children`, `queued_twice` | as above, or smaller | five disagreements between the code and its comments or documentation (section 6) |

Why the bounds suffice: four frames with three in flight let `currentFrameIndex`
wrap and the first allocator be reused while its lists are pending. Five
submissions let an upload, a growth and a graph be pending together. A capacity
of 10 allows every mesh buffer to be grown twice, and five allocations reach every
branch of `Allocate`, both defragmentations included. Three entities besides the
root make a chain of three to be moved, copied and deleted, a cycle of two or three if
one could be closed, and a stray with a child; an id queued twice only keeps the
frame from ending, which `queued_twice`, with four entities and `MaxQueued` 2, is about. In the atlas of 4 by 4 portions a directional light takes everything,
two spots or point lights share it in several ways, and a second region of another
height is the one that hangs over the last row; three ids let the counter wrap to
0, which is taken for a failure. Of the two materials one names a texture twice, so
that its count goes by two at once, and the other has a second texture, so that it
may fail with the first one held; five uuids are as many as there are names. The
theorems of section 4 hold for any number of entities, lights, assets and slots,
and any atlas. `CHECK_DEADLOCK` is off
because behaviours end at the bounds, after exit, and after a failed assertion; a
scene stops when no id is left and the next frame would not end, or would destroy an
id twice.

On graphs other than the Scene's, `InputsReady`, `RecordedAfterInputs`,
`GraphFenceCoversAll`, `FenceIncreases` and `SubmittedFinishes` do not hold: a
wait carries the value of the first pass of the next level only, the window of
compute passes slides over graphics outputs of the same turn, and a graph that
ends on the compute queue signals its last value from there. They are therefore
checked, as properties of the code as it is used, on the graph every Scene builds.
`ScheduleSound` is what `SortPasses` guarantees for all of them. That the others hold
of the Scene's graph is no accident of its four frames: `PlanOrdered`, which
looks at one submission only, is checked of it too, and section 4 proves that it
implies all the safety properties among them. It is a real restriction. Of the 1792 small graphs that use both queues
230 have their signals in order (`SignalsOrdered`), 222 of these with
`ProducersAwaited`, 54 with `ListsSignalled`, 26 with `ComputeAwaited`.
`LevelsByValue` holds on 1790, the same on which `RecordedAfterInputs` does.

### Fairness

`FrameSync`: weak fairness of `Cpu`, the steps of a call in progress (the thread
runs), and of `Gpu` (the device makes progress). Nothing is assumed of the
client. `RenderGraph`: weak fairness of each queue's operations and of the
return from `EndFrame`'s wait; none of submitting frames.

## 4. Proofs

`FrameSync_proofs` proves, for every number of frames in flight, staging size,
set of updates and bounds (the named assumptions of `FrameSync`),

* `TypeCorrect`: `Spec => []TypeOK`;
* `FrameAllocatorsIdle`: `Spec => []AllocatorIdle`.

`AllocatorIdle` alone is not inductive: it says nothing of allocators other than
the current one, nor of what the fence still has to signal. `FrameInv` adds

* `FrameCovered`: what `fence_vals` stores for a slot covers every pending list
  recorded from it, save those of the frame being recorded;
* `QueueOrder`: the frame of a pending list is not signalled yet, and its signal
  stands behind it in the queue;
* `WaitsAlone`: `EndFrame`'s wait is the only step of its call.

When the wait returns, `mainFence` has reached `fence_vals[currentFrameIndex]`
while by `QueueOrder` every pending list has a larger frame, so by `FrameCovered`
none was recorded from that allocator. The proof goes action by action; actions
that touch neither the counters nor the queue share the lemma `Undisturbed`, those
that submit a list `OtherSubmission`. TLC confirms `FrameInv` on the instance of
`frame_sync`.

Its second part builds on this, under the same assumptions, and proves the other
safety properties of `frame_sync`:

* `StagingListsIdle`: `Spec => []StagingIdle`;
  `StagedUpdatesIntact`: `Spec => []StagedDataIntact`;
* `VertexBuffersAlive`: `Spec => []VertexBufferAlive`;
* `SceneResourcesFree`: `Spec => []SceneResourcesIdle`;
  `DeviceIdleAtExit`: `Spec => []IdleAtExit`;
* `GraphsFollowUploads`: `Spec => UploadsBeforeGraph`;
  `ResizedWhenIdle`: `Spec => ResizeWhenIdle`.

Each of them depends on where in a call the CPU is and on what a fence covers, so
`SafetyInv` has two parts that none of them mentions. `CallShapes` lists what a call
in progress may have left to run; `Stages` tells for each whether it grows,
allocates, copies or submits. `Promises` gives for each fence the last value promised
and the lists that are finished once it is reached: `PromiseKept` shows that the queue
keeps promises as signals stand behind their lists, `PromiseMade` what a submission
and its signal add. A wait is then one instance of a promise. The one for an upload
covers the whole queue (`UploadEmptiesQueue`), which is why growth may let the old
vertex buffer go without any wait after its own upload. That argument needs the
initial data of a mesh to fit the staging buffer (`MeshData`), or nothing would be
outstanding. `ResizedWhenIdle` needs `LastStored`, that the slot before the current
one holds the last value stored (`SlotBefore`). TLC confirms `SafetyInv` on the
instance of `frame_sync`.

`SceneHierarchy_proofs` proves, for every set of ids (`EntityAssumption`),

* `HierarchyTyped`: `Spec => []TypeOK`; `ParentsStayAlive`: `Spec => []ParentsAlive`;
* `CyclesAreSelf`: `Spec => []OnlySelfCycles`;
* `SceneIsForest`: `Spec => ImplementsForest`, the refinement of `EntityForest`;
* `ListsFollowParents`: `Spec => []ChildrenListed`.

`ParentsAlive` is not inductive: an entity may be queued and destroyed before its
children. `HierarchyInv` adds `QueuedTogether`, that what is below a queued entity is
queued itself or a stray, at every moment of the frame: `DefferedDelete` queues all that
is there, and what comes later is a stray by definition. The core is `MoveForest`:
suppose a move of `e` under `p` left a set with all its parents in itself. If `e` is not
in it, or `p` is `e`, some member is its own parent. Else the part of the set
that the walk from `p` visits has all its parents in itself too, and as the walk did not
meet `e` these are the parents of before, so one of them was its own parent then and is
still. For the lists, `ListedCreated` adds that an id not handed out yet is in no list.
The proofs rest on `AboveClosed` and `SubtreeClosed`, which say what the walk and the
recursions reach.

`SceneLights_proofs` proves, for every size of atlas, range of ids and set of lights
(`AtlasAssumption`, `LightAssumption`),

* `LightsTyped`: `Spec => []TypeOK`; `RegionsDisjoint`: `Spec => []AtlasSound`;
* `RegionsHeld`: `Spec => []RegionsAccounted`; `RegionsKept`: `Spec => RegionsStay`;
* `OneHeightSafe`: `Spec => []OneHeightInside`;
* `ShadowListsRight`: `Spec => []ShadowListSound`.

`AtlasSound` needs that regions lie inside until `corrupt` is set (`AllInside`):
`DeAllocate` clears the entries of one region, which are those of no other. With
`RegionsAccounted`, inductive on top of it, an id a light holds has its region,
and the next id is new. `OneHeightSafe` is the least obvious: with one height `h`
that divides the rows, all regions start at multiples of `h` (`BlocksInv`). Suppose
`Allocate` chose a place elsewhere, or one that hangs over. The place of the same
columns at the start of its block of `h` rows meets the same regions only
(`SameBlock`), so it is free too, and its score is lower (`HigherIsBetter`).
`ShadowListsRight` adds to the invariant that the listed lights are those visited
already, with the region they hold (`ListInv`).

`AssetManager_proofs` proves, for any names, files of materials, slots and uuids
(`AssetAssumption`),

* `AssetsCounted`: `Spec => [](TypeOK /\ CountsExact /\ AssetsLive /\ MapsAgree)`;
* `AssetsImplementLifetimes`: `Spec => ImplementsLifetimes`.

`AssetInv` adds that what resources own are Assets of plain resources (`Flat`), which
own nothing (`LeavesOwnNothing`), so deleting one deletes no more than one level;
and that a material being created or leaked is in neither map (`Apart`). Every
step that lets Assets go is brought into one form (`Drops`), from which
`ReleaseSettles` concludes that the resources left are those still referred to, and
`OwnersStay` that an owner never goes before what it owns. For the refinement
`CountsReach` shows that resources with a count are exactly those reached from
`Held`: a resource referred to by a material only is reached through it, as the
material itself can only be held from outside. `DropsParts` shows that a resource
that stays keeps all it owns, so each step holds less or more (`DropsHold`) or loads
one resource (`Loads`).

`AssetsTyped`, `AssetsStayLive` and `MapsStayTogether` state conjuncts of the first one
by one.

`BufferAllocator_proofs` proves, for either or both buffers, any sizes of meshes,
growth, capacity and number of allocations (`BuffersAssumption`, `SizesAssumption`),

* `AllocatorTyped`: `Spec => []TypeOK`; `HandlesAreUnique`: `Spec => []HandlesUnique`;
* `MeshDataIntact`: `Spec => []DataIntact`;
* `FreeListIsSound`: `Spec => []FreeListSound`;
* `SpaceIsAccounted`: `Spec => []SpaceAccounted`.

None of the last three is inductive: each needs that meshes' ranges are apart, and
that no list offers a byte of them. `AllocInv` has for every buffer that is `Sound`
(no assertion failed, never defragmented) `RangesHeld`, `RangesApart`, `SpaceCounted`
and the order of its list; and for all of them `ListsWithin`, `HandlesIdle` (no handle
waits twice) and `IdsUsed`. One might expect an invariant that ties `freeFastSpace` to
the last block of the list. There is none: the fast space may count bytes that the
list has handed out. The argument does without: `FreeList::Allocate` asserts that
some block covers the bytes asked for, so an allocation that gets past the assertion
takes bytes the list offered, and those are nobody's. `BufferFreeList_proofs` says for
each operation of the list which bytes it offers afterwards (`Offers`), and why an
operation on one block keeps the others in order. Freed bytes that the list forgets
(section 6) only make it offer less. `SpaceCounted` counts the bytes of meshes with
the library's theorems on cardinalities. After a defragmentation `freeSpace` may wrap
below 0, so `SpaceAccounted` is stated of `Sound` buffers only, as the others are.

`RenderGraph_proofs` proves, for any graphs that can run, any instances, textures and
frames in flight (`GraphsAssumption`, `FramesAssumption`),

* `ScheduleIsSound`: `Spec => []ScheduleSound`;
* `GraphTyped`: `Spec => []TypeOK`;
* `RecordsAfterInputs`: `Spec /\ [](~dirty => LevelsByValue) => []RecordedAfterInputs`.

They are about what `SortPasses` and `SubmitToQueue` compute, so the induction is over
the steps of their loops. The library's induction theorems cannot be used (they take
an operator), so `CountUp` derives it from `MinExists`, that every set of naturals has
a least element, which comes from the library's `NatLessThanWellFounded`; and
`RecursionExists` derives that a function defined step by step exists.

The invariant of `SortPasses`' loop is `Core`: an instance that is ready was made by a
scheduled pass and carries its value (`Backed`), the value of a pass is the one its
inputs ask for and its producers are where the search found them, however much is
ready by now (`Valued`), producers of the same queue come first (`InTurn`), scheduled
passes have made all they write (`AllMade`), and `deps` is what was found
(`DepsKnown`). A search goes from the front and what is ready only grows at the end
(`Grows`), which is why no later pass changes what an earlier one found
(`ProducerStays`). Within a turn `Tried` says of the passes tried so far that they are
scheduled or kept; kept twice, side by side, if a texture and a buffer were missing,
since the code then stores them twice. `TurnStep` shows that turn `n` schedules at
least `RunnableAfter` applied `n` times, so a graph that can run is scheduled whole.

For the types, `Cut` says that the levels of a queue end one after the other and that
one which waits has a pass behind it: its value is that of `end + 1`, an access past
the end of the vector otherwise. `Fit` gives it for the levels of the loop, `PieceIs`
for what a level is split into. `LastQueueIs` shows that the queue `SubmitToQueue`
signals the last value on has passes, whose last one it reads: `Merging` counts the
levels taken and ties `computeLast` to them.

`RecordsAfterInputs` follows the merge of `Execute`: the levels recorded so far are
all of smaller or equal value than those left, as both queues have theirs in order,
and by `ScheduleSound` a producer has a smaller value or an earlier place.

`RenderGraphQueues_proofs` is about what the queues do with the operations issued,
frame after frame. The properties are not true of every graph (section 3), so each
theorem has the conditions it needs, which speak of one submission and not of any
execution:

* `FenceOnlyIncreases`: `SignalsOrdered` gives `FenceIncreases`;
* `FenceCoversGraph`: with `ListsSignalled` also `[]GraphFenceCoversAll`;
* `InputsAreReady`: with `ProducersAwaited` also `[]InputsReady`;
* `ComputeAllocatorIsIdle`: with `ComputeAwaited` also `[]ComputeAllocatorIdle`;
* `OrderedGraphRuns`: `Spec /\ []PlanOrdered` gives all of them.

`SignalsOrdered` says that of two signals, the one of the larger value stands behind
the other in the queue or behind a wait for it, and that the queue which does not end
the graph waits for the other before it signals. `ListsSignalled` puts a signal behind
every list. `ProducersAwaited` and `ComputeAwaited` say which lists of the other queue
are waited for. `scene_graph` checks them of the graph every Scene builds, so their
conclusions hold of it over any number of frames and frames in flight.

The argument carries an order in one submission over to the queues, where the
operations of several frames stand one behind the other and only leave at the front.
`Behind` says of two places that the second queue waits for a signal behind the first.
`FenceInv` then states that of all signals still queued, the smaller is in front of or
awaited before the larger; that all are above the fence and none exceeds `maxFence`;
and that the queue which ends the graph has the one of `maxFence` as long as any is
left. A new submission only signals values above `maxFence`. On the queue that ends
the graph they stand behind that one, and on the other each waits first for a new
signal of that queue, hence for all that is older. On top of `FenceInv`,

* `SignalsFollow`: a signal is queued behind every list that is queued or runs, and
  it is still to raise the fence, so a fence at `maxFence` leaves no list;
* `FramesKnown`: a list left is of a frame that its slot's fence value covers, or of
  the frame being submitted, so a new submission meets no list of its own frame;
* `FeedersOver`: the producers of a queued list that are left are `Behind` it, and
  those of a running list are none: the wait that let it through has seen their
  signal, which completes after all lists in front of it;
* `MainInv` and `ComputeOver`: the main signals queued are those between `mainFence`
  and `currentFenceVal`, and each compute list left is `Behind` its frame's. `EndFrame`
  waits for main signals only, and that covers the compute lists whose allocators it
  resets.

Only model-checked:

* all liveness: `CallsReturn`, `SubmittedFinishes`;
* `PlanOrdered`: a fact about one graph, which TLC evaluates.

## 5. Plan

1. `FrameSync`, its instance and proofs (done).
2. `FreeList`, `BufferAllocator` (done).
3. `RenderGraph`, `ScenePasses` (done).
4. `SceneHierarchy`, `EntityForest`, their instance and proofs (done).
5. `AtlasAllocator` with the Scene's shadow lights, `AssetManager` with
   `AssetLifetimes`, their instances and proofs (done).
6. The pipeline cache of `Shader`; `LayerStack`; the descriptor handle pools of
   `RendererBase`.
7. `FrameSync` extended by constant buffers, the index buffer, the main list's use
   of scene textures; an abstract specification "nothing in use is released" that
   `FrameSync` implements.
8. Theorems: the safety properties of `FrameSync` and of `BufferAllocator`, the
   schedule and types of `RenderGraph`, and conditions on a graph under which it is
   safe on two queues, as the Scene's is (done).

## 6. Disagreements found

* Freed bytes are not always added to the free list (`FreeList.h:30`).
* Defragmentation neither keeps the data of meshes nor updates the handle table
  (`RendererContext.h:38`).
* Passes of the Scene's graph that overlap do share the light list
  (`RenderGraph.cpp:392`).
* Deleting an entity through the queue is not safe (`Scripting/API/Scene.md:37`):
  its id stays in its parent's list, which the next `UpdateTransforms` follows
  (`stale_children`), and deleting a child and its parent in one frame destroys
  the child twice (`queued_twice`).

No run of their own, because nothing in the repository says otherwise: an entity may be
reparented to itself, after which it is out of the scene's reach and deleting it does not
return (`Scene.cpp:640`, `:684`, `:694`); and an entity copied or moved under a queued one,
without being queued, is left with a parent that is gone (`Scene.cpp:866`).

Not a run either: the fast space is not always at the end, as
`RendererContext.cpp:52` has it, since an allocation from the free list may take the
last block. The next allocation then ends in the free list's assertion, where the
model's behaviour ends too. Nor is a pass that `SortPasses` schedules twice: if both
a texture and a buffer are missing it is kept twice (`RenderGraph.cpp:773`, `:800`) and
later scheduled twice. In the Scene's graph no pass misses both.

## 7. Not modelled

* Barriers inside a list, resource creation and loading, parsing and reflection of
  shaders, serialisation, scripting, windows, input and logging: conversions or
  I/O, without state whose evolution could go wrong. That the serializer of
  materials never writes the key `Material::Create` reads for the shader is a
  matter of formats, not of states.
* The constant buffers and their growth (`Renderer.cpp:125`), the buffer that
  `Material::Create` binds and does not keep (`Material.cpp:132`), the capacity in
  bytes of the light list (`Scene.cpp:923`): listed as hazards.
* `DownscaleOnFail` of the atlas, `SetShader` of materials and `DeFragment` have no
  caller or no body. The thread pool is not part of any translation unit. The
  DirectX 11 back end is not built.
* `subprojects/` holds AngelScript, a vendored library, which makes up most of the
  repository's lines and none of the engine's logic.

## 8. Running

    tlc -config MC_FrameSync.cfg MC_FrameSync.tla
    tlapm FrameSync_proofs.tla
    tlapm BufferFreeList_proofs.tla
    tlapm BufferAllocator_proofs.tla
    tlapm RenderGraph_proofs.tla
    tlapm RenderGraphQueues_proofs.tla
    tlapm SceneHierarchy_proofs.tla
    tlapm SceneLights_proofs.tla
    tlapm AssetManager_proofs.tla
