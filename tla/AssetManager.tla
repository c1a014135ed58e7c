---------------------------- MODULE AssetManager ----------------------------
(***************************************************************************)
(* The AssetManager, its resources and the Assets that count them.         *)
(*                                                                         *)
(* A valid Asset is a pair of its owner and an index: the owner is a slot  *)
(* (a component, the renderer's context, a local variable), which has one, *)
(* or a Material, named by its uuid, which has one per texture and, with   *)
(* the last index, its shader's.  All of it runs on one thread, but        *)
(* creating a Material creates other assets on the way, and each of these  *)
(* may fail, so Material::Create is a sequence of steps here.              *)
(***************************************************************************)
EXTENDS Naturals, Sequences, FiniteSets, Functions

CONSTANTS
  Leaf,       \* names of textures, shaders, models and skyboxes
  Files,      \* for the name of each material, the names in its file
  Uuid,       \* identifiers of resources; 0 in the code is none of them
  Slot,       \* the owners of Assets outside of materials
  MaxLeaked   \* bound of the model: materials leaked

Material == DOMAIN Files
Name == Leaf \union Material

ASSUME AssetAssumption ==
  /\ Leaf \intersect Material = {} /\ Slot \intersect Uuid = {} /\ MaxLeaked \in Nat
  /\ \A name \in Material : Files[name] \in Seq(Leaf) /\ Files[name] # <<>>

VARIABLES
  pathUUIDMap,
  assetResourceMap,  \* m_count_ of each resource
  assets,            \* m_uuid of each Asset that is valid
  creating,          \* the Materials that Create is working on: one or none
  leaked             \* history: the Materials nobody will ever delete

vars == <<pathUUIDMap, assetResourceMap, assets, creating, leaked>>

Place == (Slot \union Uuid) \X (Nat \ {0})
Creating == [slot : Slot, name : Material, uuid : Uuid, file : Nat \ {0}]

(* Every count is positive, as the assertion of release() has it.            *)
TypeOK ==
  /\ DOMAIN pathUUIDMap \subseteq Name /\ pathUUIDMap \in [DOMAIN pathUUIDMap -> Uuid]
  /\ DOMAIN assetResourceMap \subseteq Uuid
  /\ assetResourceMap \in [DOMAIN assetResourceMap -> Nat \ {0}]
  /\ DOMAIN assets \subseteq Place /\ assets \in [DOMAIN assets -> Uuid]
  /\ creating \subseteq Creating /\ Cardinality(creating) <= 1
  /\ \A mat \in creating : mat.file <= Len(Files[mat.name]) + 1
  /\ leaked \subseteq Uuid

Init ==
  /\ pathUUIDMap = [n \in {} |-> 0]
  /\ assetResourceMap = [u \in {} |-> 0]
  /\ assets = [p \in {} |-> 0]
  /\ creating = {} /\ leaked = {}

-----------------------------------------------------------------------------
(* Counting                                                                  *)

With(f, x, y) == [z \in DOMAIN f \union {x} |-> IF z = x THEN y ELSE f[z]]

Hold(counts, u) == [counts EXCEPT ![u] = @ + 1]

In(slot) == <<slot, 1>>
Owned(u) == {p \in DOMAIN assets : p[1] = u}

(* Mistake: deleting a material leaves its Assets alone. *)
GoneShallow(counts, slot) == {In(slot)} \intersect DOMAIN assets

(* The Assets that go when the Asset of a slot does: with the last Asset of  *)
(* a resource the resource is deleted, and its destructor runs theirs.       *)
Gone(counts, slot) ==
  {p \in DOMAIN assets :
    p = In(slot) \/ (In(slot) \in DOMAIN assets /\ counts[assets[In(slot)]] = 1 /\ p[1] = assets[In(slot)])}

(* Mistake: keeps resources nobody counts for. *)
ReleaseOnly(counts, paths, gone) ==
  /\ assetResourceMap' =
       [u \in DOMAIN counts |-> counts[u] - Cardinality({p \in gone : assets[p] = u})]
  /\ pathUUIDMap' = paths

(* Mistake: leaves the names of deleted resources in the map. *)
ReleaseKeepNames(counts, paths, gone) ==
  LET left == [u \in DOMAIN counts |-> counts[u] - Cardinality({p \in gone : assets[p] = u})]
  IN  /\ assetResourceMap' = Restrict(left, {u \in DOMAIN counts : left[u] # 0})
      /\ pathUUIDMap' = paths

(* release() for each Asset that goes; resources with none left go, and      *)
(* their entries in both maps.                                               *)
Release(counts, paths, gone) ==
  LET left == [u \in DOMAIN counts |-> counts[u] - Cardinality({p \in gone : assets[p] = u})]
      live == {u \in DOMAIN counts : left[u] # 0}
  IN  /\ assetResourceMap' = Restrict(left, live)
      /\ pathUUIDMap' = Restrict(paths, {n \in DOMAIN paths : paths[n] \in live})

Without(gone) == Restrict(assets, DOMAIN assets \ gone)

(* slot = Asset: the temporary on the right counts for u already.            *)
Assign(slot, u, counts, paths) ==
  /\ Release(counts, paths, Gone(counts, slot))
  /\ assets' = With(Without(Gone(counts, slot)), In(slot), u)

(* slot = Asset{}, or the end of the slot.                                   *)
Clear(slot) ==
  /\ Release(assetResourceMap, pathUUIDMap, Gone(assetResourceMap, slot))
  /\ assets' = Without(Gone(assetResourceMap, slot))

-----------------------------------------------------------------------------
(* AssetManager                                                              *)

Idle == creating = {}

Fresh(u) ==
  /\ u \in Uuid \ (DOMAIN assetResourceMap \union leaked)
  /\ \A mat \in creating : u # mat.uuid

(* CreateAsset and GetAsset of a name in use return an Asset of its resource.*)
Lookup(slot, name) ==
  /\ Idle /\ name \in DOMAIN pathUUIDMap
  /\ LET u == pathUUIDMap[name] IN Assign(slot, u, Hold(assetResourceMap, u), pathUUIDMap)
  /\ UNCHANGED <<creating, leaked>>

(* CreateAsset of a new name whose file is good; FromResource of a new name. *)
Load(slot, name, u) ==
  /\ Idle /\ name \in Leaf \ DOMAIN pathUUIDMap /\ Fresh(u)
  /\ Assign(slot, u, With(assetResourceMap, u, 1), With(pathUUIDMap, name, u))
  /\ UNCHANGED <<creating, leaked>>

(* CreateAsset fails; callers take value_or(Asset{}).                        *)
LoadFails(slot, name) ==
  /\ Idle /\ name \in Name \ DOMAIN pathUUIDMap
  /\ Clear(slot)
  /\ UNCHANGED <<creating, leaked>>

(* CreateAsset draws a uuid and calls Material::Create.                      *)
BeginMaterial(slot, name, u) ==
  /\ Idle /\ name \in Material \ DOMAIN pathUUIDMap /\ Fresh(u)
  /\ creating' = {[slot |-> slot, name |-> name, uuid |-> u, file |-> 1]}
  /\ UNCHANGED <<pathUUIDMap, assetResourceMap, assets, leaked>>

(* CreateTexture2DAsset or CreateShaderAsset for the next file succeeds.     *)
MaterialFile(mat, u) ==
  /\ mat \in creating /\ mat.file <= Len(Files[mat.name])
  /\ LET name == Files[mat.name][mat.file]
     IN  \/ /\ name \in DOMAIN pathUUIDMap /\ u = pathUUIDMap[name]
            /\ assetResourceMap' = Hold(assetResourceMap, u)
            /\ UNCHANGED pathUUIDMap
         \/ /\ name \notin DOMAIN pathUUIDMap /\ Fresh(u)
            /\ assetResourceMap' = With(assetResourceMap, u, 1)
            /\ pathUUIDMap' = With(pathUUIDMap, name, u)
  /\ assets' = With(assets, <<mat.uuid, mat.file>>, u)
  /\ creating' = {[mat EXCEPT !.file = @ + 1]}
  /\ UNCHANGED leaked

(* Mistake: an early return forgets the material. *)
TextureFailsForgets(mat) ==
  /\ mat \in creating /\ mat.file < Len(Files[mat.name])
  /\ Files[mat.name][mat.file] \notin DOMAIN pathUUIDMap
  /\ Clear(mat.slot)
  /\ creating' = {} /\ UNCHANGED leaked

(* The file of a texture is bad: the material is deleted with its Assets.    *)
TextureFails(mat) ==
  /\ mat \in creating /\ mat.file < Len(Files[mat.name])
  /\ Files[mat.name][mat.file] \notin DOMAIN pathUUIDMap
  /\ LET gone == Owned(mat.uuid) \union Gone(assetResourceMap, mat.slot)
     IN  Release(assetResourceMap, pathUUIDMap, gone) /\ assets' = Without(gone)
  /\ creating' = {} /\ UNCHANGED leaked

(* The file of the shader is bad: the material is not deleted.  (What YAML   *)
(* throws on a bad material file, l.110-121, is caught nowhere: it ends the  *)
(* program, and is no step.)                                                 *)
ShaderFails(mat) ==
  /\ mat \in creating /\ mat.file = Len(Files[mat.name])
  /\ Files[mat.name][mat.file] \notin DOMAIN pathUUIDMap
  /\ Cardinality(leaked) < MaxLeaked
  /\ leaked' = leaked \union {mat.uuid}
  /\ Clear(mat.slot)
  /\ creating' = {}

(* Create returns the material, and CreateAsset enters it.                   *)
EndMaterial(mat) ==
  /\ mat \in creating /\ mat.file > Len(Files[mat.name])
  /\ Assign(mat.slot, mat.uuid,
            With(assetResourceMap, mat.uuid, 1), With(pathUUIDMap, mat.name, mat.uuid))
  /\ creating' = {} /\ UNCHANGED leaked

-----------------------------------------------------------------------------
(* Asset                                                                     *)

(* The copy constructor, from the Asset at a place.                          *)
Copy(slot, place) ==
  /\ Idle /\ place \in DOMAIN assets /\ In(slot) \notin DOMAIN assets
  /\ assets' = With(assets, In(slot), assets[place])
  /\ assetResourceMap' = Hold(assetResourceMap, assets[place])
  /\ UNCHANGED <<pathUUIDMap, creating, leaked>>

(* Mistake: the assignment does not hold. *)
CopyAssignUncounted(slot, place) ==
  /\ Idle /\ place \in DOMAIN assets \ Gone(assetResourceMap, slot)
  /\ Assign(slot, assets[place], assetResourceMap, pathUUIDMap)
  /\ UNCHANGED <<creating, leaked>>

(* operator=(const Asset&) releases first and holds then.  When the Asset it *)
(* copies goes with the one it overwrites, it reads an entry it has erased,  *)
(* which is undefined.  Assigning an Asset to itself is the same if it is    *)
(* the last of its resource, and changes nothing if it is not.               *)
CopyAssign(slot, place) ==
  /\ Idle /\ place \in DOMAIN assets \ Gone(assetResourceMap, slot)
  /\ Assign(slot, assets[place], Hold(assetResourceMap, assets[place]), pathUUIDMap)
  /\ UNCHANGED <<creating, leaked>>

(* operator=(Asset&&) holds, and ends with the destructor of the other.      *)
MoveAssign(slot, other) ==
  /\ Idle /\ slot # other /\ In(other) \in DOMAIN assets
  /\ LET gone == Gone(assetResourceMap, slot)
     IN  /\ Release(assetResourceMap, pathUUIDMap, gone)
         /\ assets' = With(Without(gone \union {In(other)}), In(slot), assets[In(other)])
  /\ UNCHANGED <<creating, leaked>>

(* ~Asset().                                                                 *)
Destroy(slot) ==
  /\ Idle /\ In(slot) \in DOMAIN assets
  /\ Clear(slot)
  /\ UNCHANGED <<creating, leaked>>

Next ==
  \/ \E slot \in Slot :
       \/ \E name \in Name :
            \/ Lookup(slot, name) \/ LoadFails(slot, name)
            \/ \E u \in Uuid : Load(slot, name, u) \/ BeginMaterial(slot, name, u)
       \/ \E place \in DOMAIN assets : Copy(slot, place) \/ CopyAssign(slot, place)
       \/ \E other \in Slot : MoveAssign(slot, other)
       \/ Destroy(slot)
  \/ \E mat \in creating :
       \/ \E u \in Uuid : MaterialFile(mat, u)
       \/ TextureFails(mat) \/ ShaderFails(mat) \/ EndMaterial(mat)

Spec == Init /\ [][Next]_vars

-----------------------------------------------------------------------------
(* Properties                                                                *)

(* A count is the number of Assets that exist, also while a material is half *)
(* loaded and after each way loading it may fail (Material.cpp l.113-129):   *)
(* nothing is deleted early or twice, and nothing stays.                     *)
CountsExact ==
  \A u \in DOMAIN assetResourceMap :
    assetResourceMap[u] = Cardinality({p \in DOMAIN assets : assets[p] = u})

(* ~Asset and both assignments look their uuid up without asking whether it  *)
(* is there (AssetManager.cpp l.33, l.80): every Asset has its resource, and *)
(* is a slot's or a material's that still exists.                            *)
AssetsLive ==
  \A p \in DOMAIN assets :
    /\ assets[p] \in DOMAIN assetResourceMap
    /\ p[1] \in Slot \union DOMAIN assetResourceMap \union leaked \union {mat.uuid : mat \in creating}

(* Both maps speak of the same resources, each under one name, so the search *)
(* for the name of a deleted resource never comes to the end, which it would *)
(* use all the same (AssetManager.cpp l.86-87), and no name leads to a       *)
(* resource that is gone.                                                    *)
MapsAgree ==
  /\ Range(pathUUIDMap) = DOMAIN assetResourceMap
  /\ IsInjective(pathUUIDMap)

(* Counting implements reachability: a resource exists under its name exactly*)
(* as long as Assets outside of the resources lead to it.                    *)
Lifetimes == INSTANCE AssetLifetimes WITH
  names <- pathUUIDMap,
  parts <- [u \in DOMAIN assetResourceMap |-> {assets[p] : p \in Owned(u)}],
  held <- {assets[p] : p \in {p \in DOMAIN assets : p[1] \notin DOMAIN assetResourceMap}}

ImplementsLifetimes == Lifetimes!Spec
=============================================================================
