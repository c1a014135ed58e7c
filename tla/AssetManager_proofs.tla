------------------------ MODULE AssetManager_proofs ------------------------
(***************************************************************************)
(* What AssetManager guarantees for every set of names, materials, uuids   *)
(* and slots.                                                              *)
(***************************************************************************)
EXTENDS AssetManager, FiniteSetTheorems, TLAPS

(* The Assets of a resource.                                                 *)
Holds(f, u) == {p \in DOMAIN f : f[p] = u}

(* What resources own are Assets of textures and shaders, which own none:    *)
(* deleting one deletes others, but these no more.                           *)
Flat == \A p \in DOMAIN assets : p[1] \notin Slot =>
          \E name \in Leaf \intersect DOMAIN pathUUIDMap : assets[p] = pathUUIDMap[name]

LeavesOwnNothing ==
  \A name \in Leaf \intersect DOMAIN pathUUIDMap : Owned(pathUUIDMap[name]) = {}

(* A Material that is being created or leaked is in neither map.             *)
Apart ==
  /\ leaked \intersect DOMAIN assetResourceMap = {}
  /\ \A mat \in creating :
       /\ mat.uuid \notin leaked \union DOMAIN assetResourceMap
       /\ mat.name \in Material \ DOMAIN pathUUIDMap
       /\ \A p \in Owned(mat.uuid) : p[2] < mat.file
       /\ creating = {mat}

AssetInv ==
  /\ TypeOK /\ CountsExact /\ AssetsLive /\ MapsAgree
  /\ IsFiniteSet(DOMAIN assets) /\ Flat /\ LeavesOwnNothing /\ Apart

-----------------------------------------------------------------------------
(* Counting                                                                  *)

(* A resource has finitely many Assets.                                      *)
LEMMA Counted ==
  ASSUME NEW f, IsFiniteSet(DOMAIN f), NEW u
  PROVE  IsFiniteSet(Holds(f, u)) /\ Cardinality(Holds(f, u)) \in Nat
<1>1. Holds(f, u) \in SUBSET DOMAIN f
  BY DEF Holds
<1>. QED
  BY <1>1, FS_Subset, FS_CardinalityType

(* Those that stay when some go are the difference.                          *)
LEMMA CountLeft ==
  ASSUME NEW S, IsFiniteSet(S), NEW G, G \subseteq S
  PROVE  /\ IsFiniteSet(S \ G) /\ Cardinality(S) \in Nat /\ Cardinality(G) \in Nat
         /\ Cardinality(S \ G) = Cardinality(S) - Cardinality(G)
<1>1. S \cap G = G
  OBVIOUS
<1>2. IsFiniteSet(G)
  BY FS_Subset
<1>. QED
  BY <1>1, <1>2, FS_Difference, FS_CardinalityType

(* Places are told apart by their owners.                                    *)
LEMMA SlotPlace ==
  ASSUME NEW slot \in Slot
  PROVE  In(slot) \in Place /\ In(slot)[1] = slot /\ slot \notin Uuid
BY AssetAssumption DEF In, Place

LEMMA NamesApart == \A name \in Leaf : name \notin Material
BY AssetAssumption

(* The two maps are typed and speak of the same resources.                   *)
Agreeing(counts, paths) ==
  /\ DOMAIN counts \subseteq Uuid /\ counts \in [DOMAIN counts -> Nat]
  /\ DOMAIN paths \subseteq Name /\ paths \in [DOMAIN paths -> Uuid]
  /\ Range(paths) = DOMAIN counts /\ IsInjective(paths)

(* When the counts left are those of the Assets left, release() keeps what   *)
(* is still referred to, and the maps agree.                                 *)
LEMMA ReleaseSettles ==
  ASSUME NEW counts, NEW paths, NEW gone, Release(counts, paths, gone),
         Agreeing(counts, paths), IsFiniteSet(DOMAIN assets'),
         \A u \in DOMAIN counts :
           Cardinality(Holds(assets', u)) = counts[u] - Cardinality({p \in gone : assets[p] = u}),
         \A p \in DOMAIN assets' : assets'[p] \in DOMAIN counts
  PROVE  /\ DOMAIN assetResourceMap' = {u \in DOMAIN counts : Holds(assets', u) # {}}
         /\ assetResourceMap' \in [DOMAIN assetResourceMap' -> Nat \ {0}]
         /\ pathUUIDMap' =
              Restrict(paths, {n \in DOMAIN paths : paths[n] \in DOMAIN assetResourceMap'})
         /\ Agreeing(assetResourceMap', pathUUIDMap')
         /\ CountsExact'
<1>. DEFINE left == [u \in DOMAIN counts |-> counts[u] - Cardinality({p \in gone : assets[p] = u})]
            live == {u \in DOMAIN counts : left[u] # 0}
<1>1. /\ assetResourceMap' = Restrict(left, live)
      /\ pathUUIDMap' = Restrict(paths, {n \in DOMAIN paths : paths[n] \in live})
  BY DEF Release
<1>2. \A u \in DOMAIN counts :
        /\ left[u] = Cardinality(Holds(assets', u)) /\ left[u] \in Nat
        /\ left[u] = 0 <=> Holds(assets', u) = {}
  BY Counted, FS_EmptySet
<1>3. live = {u \in DOMAIN counts : Holds(assets', u) # {}}
  BY <1>2
<1>4. DOMAIN assetResourceMap' = live /\ assetResourceMap' = [u \in live |-> left[u]]
  BY <1>1 DEF Restrict
<1>5. \A u \in live : u \in DOMAIN counts /\ left[u] \in Nat \ {0}
  BY <1>2
<1>. HIDE DEF left, live
<1>6. assetResourceMap' \in [live -> Nat \ {0}]
  BY <1>4, <1>5
<1>7. live \subseteq Uuid
  BY <1>5 DEF Agreeing
<1>8. /\ DOMAIN pathUUIDMap' \subseteq DOMAIN paths
      /\ \A n \in DOMAIN pathUUIDMap' : pathUUIDMap'[n] = paths[n] /\ paths[n] \in live
      /\ \A n \in DOMAIN paths : paths[n] \in live => n \in DOMAIN pathUUIDMap'
      /\ pathUUIDMap' = [n \in DOMAIN pathUUIDMap' |-> pathUUIDMap'[n]]
  BY <1>1 DEF Restrict
<1>9. Range(pathUUIDMap') = live
  <2>1. \A u \in live : \E n \in DOMAIN paths : paths[n] = u
    BY <1>5 DEF Agreeing, Range
  <2>. QED
    BY <1>8, <2>1 DEF Range
<1>10. IsInjective(pathUUIDMap')
  BY <1>8 DEF Agreeing, IsInjective
<1>11. DOMAIN pathUUIDMap' \subseteq Name /\ pathUUIDMap' \in [DOMAIN pathUUIDMap' -> Uuid]
  BY <1>7, <1>8 DEF Agreeing
<1>12. Agreeing(assetResourceMap', pathUUIDMap')
  BY <1>4, <1>6, <1>7, <1>9, <1>10, <1>11 DEF Agreeing
<1>13. CountsExact'
  BY <1>2, <1>4, <1>5 DEF CountsExact, Holds
<1>. QED
  BY <1>1, <1>3, <1>4, <1>6, <1>12, <1>13

-----------------------------------------------------------------------------
(* Steps that let Assets go                                                  *)

(* The Asset of a slot goes and those of the resource it was the last of;    *)
(* "more" goes too, and the slot may have a new one.                         *)
Drops(slot, counts, paths, more) ==
  LET gone == Gone(counts, slot) \union more
  IN  /\ Release(counts, paths, gone)
      /\ IsFiniteSet(DOMAIN assets') /\ assets' = [p \in DOMAIN assets' |-> assets'[p]]
      /\ \A p \in DOMAIN assets' :
           /\ assets'[p] \in DOMAIN counts
           /\ p # In(slot) => p \in DOMAIN assets \ gone /\ assets'[p] = assets[p]
      /\ \A p \in DOMAIN assets \ gone : p[1] \notin Slot => p \in DOMAIN assets'
      /\ \A u \in DOMAIN counts :
           Cardinality(Holds(assets', u)) = counts[u] - Cardinality({p \in gone : assets[p] = u})

(* What it may start from: both maps, with one resource more, or one count.  *)
Extends(counts, paths) ==
  /\ Agreeing(counts, paths)
  /\ DOMAIN assetResourceMap \subseteq DOMAIN counts
  /\ \A u \in DOMAIN assetResourceMap : counts[u] >= assetResourceMap[u]
  /\ DOMAIN pathUUIDMap \subseteq DOMAIN paths
  /\ \A n \in DOMAIN pathUUIDMap : paths[n] = pathUUIDMap[n]
  /\ \A n \in Leaf \intersect (DOMAIN paths \ DOMAIN pathUUIDMap) : Owned(paths[n]) = {}

LEMMA GoneOwned ==
  ASSUME TypeOK, NEW slot \in Slot, NEW counts, NEW p \in Gone(counts, slot)
  PROVE  /\ p \in DOMAIN assets
         /\ p = In(slot) \/ /\ p[1] \notin Slot /\ In(slot) \in DOMAIN assets
                            /\ p[1] = assets[In(slot)] /\ counts[p[1]] = 1
BY AssetAssumption DEF TypeOK, Gone

(* An owner is not referred to by what a resource owns.                      *)
LEMMA OwnersNotOwned ==
  ASSUME Flat, LeavesOwnNothing, NEW p \in DOMAIN assets, NEW q \in DOMAIN assets,
         q[1] \notin Slot
  PROVE  p[1] # assets[q]
BY DEF Flat, LeavesOwnNothing, Owned

(* A resource that still owns an Asset after the step is still referred to.  *)
LEMMA OwnersStay ==
  ASSUME AssetInv, NEW slot \in Slot, NEW counts, NEW paths, NEW more \in SUBSET DOMAIN assets,
         \A p \in more : p[1] \notin Slot,
         Extends(counts, paths), Drops(slot, counts, paths, more),
         NEW p \in DOMAIN assets', p # In(slot), p[1] \in DOMAIN assetResourceMap
  PROVE  Holds(assets', p[1]) # {}
<1>. DEFINE v == p[1]
            gone == Gone(counts, slot) \union more
            goneV == {q \in gone : assets[q] = v}
<1>1. p \in DOMAIN assets \ gone
  BY DEF Drops
<1>2. v \in DOMAIN counts /\ counts[v] \in Nat \ {0}
  BY DEF Extends, Agreeing, AssetInv, TypeOK
<1>3. \A q \in goneV : q = In(slot) /\ q \in DOMAIN assets /\ assets[q] = v
  <2>. SUFFICES ASSUME NEW q \in goneV, q # In(slot) PROVE FALSE
    BY GoneOwned DEF AssetInv
  <2>1. q \in DOMAIN assets /\ q[1] \notin Slot /\ assets[q] = p[1]
    BY GoneOwned DEF AssetInv
  <2>. QED
    BY <1>1, <2>1, OwnersNotOwned DEF AssetInv
<1>4. CASE goneV = {}
  <2>1. Cardinality(Holds(assets', v)) = counts[v]
    BY <1>2, <1>4, FS_EmptySet DEF Drops
  <2>. QED
    BY <1>2, <2>1, FS_EmptySet
<1>5. CASE goneV # {}
  <2>1. goneV = {In(slot)} /\ In(slot) \in DOMAIN assets /\ assets[In(slot)] = v
    BY <1>3, <1>5
  <2>2. counts[v] # 1
    BY <1>1, <2>1 DEF Gone
  <2>3. Cardinality(Holds(assets', v)) = counts[v] - 1
    <3>1. Cardinality(goneV) = 1
      BY <2>1, FS_Singleton
    <3>. QED
      BY <1>2, <3>1 DEF Drops
  <2>4. Cardinality(Holds(assets', v)) # 0
    BY <1>2, <2>2, <2>3
  <2>. QED
    BY <2>4, FS_EmptySet, Zenon
<1>. QED
  BY <1>4, <1>5

(* The part of the invariant that does not speak of Materials in creation.   *)
Sound ==
  /\ Agreeing(assetResourceMap, pathUUIDMap)
  /\ assetResourceMap \in [DOMAIN assetResourceMap -> Nat \ {0}]
  /\ DOMAIN assets \subseteq Place /\ assets \in [DOMAIN assets -> DOMAIN assetResourceMap]
  /\ IsFiniteSet(DOMAIN assets)
  /\ CountsExact /\ Flat /\ LeavesOwnNothing

LEMMA SoundIs == AssetInv => Sound
BY DEF AssetInv, Sound, TypeOK, MapsAgree, AssetsLive, Agreeing

(* Such a step keeps counts and maps right.                                  *)
LEMMA DropsSound ==
  ASSUME AssetInv, NEW slot \in Slot, NEW counts, NEW paths, NEW more \in SUBSET DOMAIN assets,
         \A p \in more : p[1] \notin Slot,
         Extends(counts, paths), Drops(slot, counts, paths, more)
  PROVE  /\ Sound'
         /\ DOMAIN assetResourceMap' = {u \in DOMAIN counts : Holds(assets', u) # {}}
         /\ pathUUIDMap' =
              Restrict(paths, {n \in DOMAIN paths : paths[n] \in DOMAIN assetResourceMap'})
         /\ \A p \in DOMAIN assets' :
              p[1] \in DOMAIN assetResourceMap => p[1] \in DOMAIN assetResourceMap'
<1>. DEFINE gone == Gone(counts, slot) \union more
<1>1. /\ Release(counts, paths, gone) /\ Agreeing(counts, paths) /\ IsFiniteSet(DOMAIN assets')
      /\ \A u \in DOMAIN counts :
           Cardinality(Holds(assets', u)) = counts[u] - Cardinality({p \in gone : assets[p] = u})
      /\ \A p \in DOMAIN assets' : assets'[p] \in DOMAIN counts
  BY DEF Drops, Extends
<1>. HIDE DEF gone
<1>2. /\ DOMAIN assetResourceMap' = {u \in DOMAIN counts : Holds(assets', u) # {}}
      /\ assetResourceMap' \in [DOMAIN assetResourceMap' -> Nat \ {0}]
      /\ pathUUIDMap' =
           Restrict(paths, {n \in DOMAIN paths : paths[n] \in DOMAIN assetResourceMap'})
      /\ Agreeing(assetResourceMap', pathUUIDMap')
      /\ CountsExact'
  BY <1>1, ReleaseSettles
<1>3. \A p \in DOMAIN assets' :
        /\ assets'[p] \in DOMAIN assetResourceMap'
        /\ p # In(slot) => p \in DOMAIN assets /\ assets'[p] = assets[p]
  BY <1>1, <1>2 DEF Holds, Drops
<1>4. DOMAIN assets' \subseteq Place
  BY <1>3, SlotPlace DEF AssetInv, TypeOK
<1>5. \A n \in DOMAIN paths : paths[n] \in DOMAIN assetResourceMap' =>
         n \in DOMAIN pathUUIDMap' /\ pathUUIDMap'[n] = paths[n]
  BY <1>2 DEF Restrict
<1>6. DOMAIN pathUUIDMap' \subseteq DOMAIN paths /\
      \A n \in DOMAIN pathUUIDMap' : pathUUIDMap'[n] = paths[n]
  BY <1>2 DEF Restrict
<1>7. Flat'
  <2>. SUFFICES ASSUME NEW p \in DOMAIN assets', p[1] \notin Slot
                PROVE  \E name \in Leaf \intersect DOMAIN pathUUIDMap' : assets'[p] = pathUUIDMap'[name]
    BY DEF Flat
  <2>1. p \in DOMAIN assets /\ assets'[p] = assets[p]
    BY <1>3, SlotPlace
  <2>2. PICK name \in Leaf \intersect DOMAIN pathUUIDMap : assets[p] = pathUUIDMap[name]
    BY <2>1 DEF AssetInv, Flat
  <2>3. name \in DOMAIN paths /\ paths[name] = assets'[p]
    BY <2>1, <2>2 DEF Extends
  <2>. QED
    BY <1>3, <1>5, <2>2, <2>3
<1>8. LeavesOwnNothing'
  <2>. SUFFICES ASSUME NEW name \in Leaf \intersect DOMAIN pathUUIDMap',
                       NEW p \in DOMAIN assets', p[1] = pathUUIDMap'[name]
                PROVE  FALSE
    BY DEF LeavesOwnNothing, Owned
  <2>1. name \in DOMAIN paths /\ p[1] = paths[name] /\ p[1] \in Uuid
    BY <1>2, <1>6 DEF Agreeing
  <2>2. p # In(slot)
    BY <2>1, SlotPlace
  <2>3. p \in Owned(paths[name])
    BY <1>3, <2>1, <2>2 DEF Owned
  <2>. QED
    BY <2>1, <2>3 DEF Extends, AssetInv, LeavesOwnNothing
<1>9. \A p \in DOMAIN assets' :
        p[1] \in DOMAIN assetResourceMap => p[1] \in DOMAIN assetResourceMap'
  <2>. SUFFICES ASSUME NEW p \in DOMAIN assets', p[1] \in DOMAIN assetResourceMap
                PROVE  p[1] \in DOMAIN assetResourceMap'
    OBVIOUS
  <2>1. p # In(slot)
    BY SlotPlace DEF AssetInv, TypeOK
  <2>2. Holds(assets', p[1]) # {} /\ p[1] \in DOMAIN counts
    BY <2>1, OwnersStay DEF Extends
  <2>. QED
    BY <1>2, <2>2
<1>10. assets' \in [DOMAIN assets' -> DOMAIN assetResourceMap']
  BY <1>3 DEF Drops
<1>. QED
  BY <1>1, <1>2, <1>4, <1>7, <1>8, <1>9, <1>10 DEF Sound

(* The maps as they are extend themselves.                                   *)
LEMMA ExtendsSame == AssetInv => Extends(assetResourceMap, pathUUIDMap)
<1>. SUFFICES ASSUME AssetInv PROVE Extends(assetResourceMap, pathUUIDMap)
  OBVIOUS
<1>1. Sound
  BY SoundIs
<1>. QED
  BY <1>1 DEF Sound, Extends

(* Assets that only go: ~Asset, and the failures of CreateAsset.             *)
LEMMA ClearDrops ==
  ASSUME AssetInv, NEW slot \in Slot, NEW more \in SUBSET DOMAIN assets,
         LET gone == Gone(assetResourceMap, slot) \union more
         IN  Release(assetResourceMap, pathUUIDMap, gone) /\ assets' = Without(gone)
  PROVE  Drops(slot, assetResourceMap, pathUUIDMap, more) /\ In(slot) \notin DOMAIN assets'
<1>. DEFINE gone == Gone(assetResourceMap, slot) \union more
<1>1. Release(assetResourceMap, pathUUIDMap, gone) /\ assets' = Without(gone)
  OBVIOUS
<1>2. gone \subseteq DOMAIN assets /\ (In(slot) \in DOMAIN assets => In(slot) \in gone)
  BY DEF Gone
<1>. HIDE DEF gone
<1>3. DOMAIN assets' = DOMAIN assets \ gone /\ \A p \in DOMAIN assets' : assets'[p] = assets[p]
  BY <1>1 DEF Without, Restrict
<1>4. assets' = [p \in DOMAIN assets' |-> assets'[p]]
  BY <1>1 DEF Without, Restrict
<1>5. IsFiniteSet(DOMAIN assets')
  BY <1>3, FS_Subset DEF AssetInv
<1>6. ASSUME NEW u \in DOMAIN assetResourceMap
      PROVE  Cardinality(Holds(assets', u)) =
               assetResourceMap[u] - Cardinality({p \in gone : assets[p] = u})
  <2>. DEFINE G == {p \in gone : assets[p] = u}
  <2>1. Holds(assets', u) = Holds(assets, u) \ G /\ G \subseteq Holds(assets, u)
    BY <1>2, <1>3 DEF Holds
  <2>2. IsFiniteSet(Holds(assets, u)) /\ assetResourceMap[u] = Cardinality(Holds(assets, u))
    BY Counted DEF AssetInv, CountsExact, Holds
  <2>. HIDE DEF G
  <2>3. Cardinality(Holds(assets', u)) = assetResourceMap[u] - Cardinality(G)
    BY <2>1, <2>2, CountLeft
  <2>. QED
    BY <2>3 DEF G
<1>7. \A p \in DOMAIN assets' : assets'[p] \in DOMAIN assetResourceMap
  BY <1>3 DEF AssetInv, AssetsLive
<1>8. Drops(slot, assetResourceMap, pathUUIDMap, more)
  BY <1>1, <1>3, <1>4, <1>5, <1>6, <1>7 DEF Drops, gone
<1>. QED
  BY <1>2, <1>3, <1>8

(* A slot gets the Asset of u, which counts holds already.                   *)
LEMMA AssignDrops ==
  ASSUME AssetInv, NEW slot \in Slot, NEW u, NEW counts, NEW paths,
         Assign(slot, u, counts, paths), u \in DOMAIN counts,
         DOMAIN assetResourceMap \subseteq DOMAIN counts,
         \A v \in DOMAIN counts :
           counts[v] = Cardinality(Holds(assets, v)) + IF v = u THEN 1 ELSE 0
  PROVE  /\ Drops(slot, counts, paths, {})
         /\ In(slot) \in DOMAIN assets' /\ assets'[In(slot)] = u
<1>. DEFINE gone == Gone(counts, slot)
            stay == DOMAIN assets \ gone
<1>1. Release(counts, paths, gone) /\ assets' = With(Without(gone), In(slot), u)
  BY DEF Assign
<1>2. gone \subseteq DOMAIN assets /\ In(slot) \notin stay
  BY DEF Gone
<1>. HIDE DEF gone
<1>3. /\ DOMAIN assets' = stay \union {In(slot)} /\ assets'[In(slot)] = u
      /\ \A p \in stay : assets'[p] = assets[p]
      /\ assets' = [p \in DOMAIN assets' |-> assets'[p]]
  <2>1. DOMAIN Without(gone) = stay /\ \A p \in stay : Without(gone)[p] = assets[p]
    BY DEF Without, Restrict
  <2>. QED
    BY <1>1, <1>2, <2>1 DEF With
<1>4. IsFiniteSet(DOMAIN assets')
  <2>1. IsFiniteSet(DOMAIN assets) /\ stay \in SUBSET DOMAIN assets
    BY DEF AssetInv
  <2>2. IsFiniteSet(stay)
    BY <2>1, FS_Subset
  <2>3. IsFiniteSet(stay \union {In(slot)})
    BY <2>2, FS_AddElement
  <2>. QED
    BY <1>3, <2>3
<1>5. ASSUME NEW v \in DOMAIN counts
      PROVE  Cardinality(Holds(assets', v)) =
               counts[v] - Cardinality({p \in gone : assets[p] = v})
  <2>. DEFINE G == {p \in gone : assets[p] = v}
              S == Holds(assets, v) \ G
  <2>1. G \subseteq Holds(assets, v) /\ IsFiniteSet(Holds(assets, v))
    BY <1>2, Counted DEF Holds, AssetInv
  <2>2. /\ IsFiniteSet(S) /\ Cardinality(S) \in Nat /\ Cardinality(G) \in Nat
        /\ Cardinality(Holds(assets, v)) \in Nat
        /\ Cardinality(S) = Cardinality(Holds(assets, v)) - Cardinality(G)
    BY <2>1, CountLeft, FS_CardinalityType
  <2>3. S = {p \in stay : assets[p] = v} /\ In(slot) \notin S
    BY <1>2 DEF Holds
  <2>. HIDE DEF G, S
  <2>4. CASE v = u
    <3>1. Holds(assets', v) = S \union {In(slot)}
      BY <1>3, <2>3, <2>4 DEF Holds
    <3>2. Cardinality(Holds(assets', v)) = Cardinality(S) + 1
      BY <2>2, <2>3, <3>1, FS_AddElement
    <3>3. counts[v] = Cardinality(Holds(assets, v)) + 1
      BY <2>4
    <3>. QED
      BY <2>2, <3>2, <3>3 DEF G
  <2>5. CASE v # u
    <3>1. Holds(assets', v) = S
      BY <1>2, <1>3, <2>3, <2>5 DEF Holds
    <3>2. counts[v] = Cardinality(Holds(assets, v))
      BY <2>2, <2>5
    <3>. QED
      BY <2>2, <3>1, <3>2 DEF G
  <2>. QED
    BY <2>4, <2>5
<1>6. \A p \in DOMAIN assets' : assets'[p] \in DOMAIN counts
  BY <1>3 DEF AssetInv, AssetsLive
<1>7. gone \union {} = gone
  OBVIOUS
<1>8. Drops(slot, counts, paths, {})
  BY <1>1, <1>3, <1>4, <1>5, <1>6, <1>7 DEF Drops, gone
<1>. QED
  BY <1>3, <1>8

(* An Asset moves from one slot to another.                                  *)
LEMMA MoveDrops ==
  ASSUME AssetInv, NEW slot \in Slot, NEW other \in Slot, MoveAssign(slot, other)
  PROVE  Drops(slot, assetResourceMap, pathUUIDMap, {})
<1>. DEFINE gone == Gone(assetResourceMap, slot)
            stay == DOMAIN assets \ (gone \union {In(other)})
            u == assets[In(other)]
<1>1. /\ slot # other /\ In(other) \in DOMAIN assets
      /\ Release(assetResourceMap, pathUUIDMap, gone)
      /\ assets' = With(Without(gone \union {In(other)}), In(slot), u)
  BY DEF MoveAssign
<1>2. /\ gone \subseteq DOMAIN assets /\ In(slot) \notin stay
      /\ In(other) \notin gone /\ u \in DOMAIN assetResourceMap
  BY <1>1, GoneOwned, SlotPlace DEF Gone, AssetInv, AssetsLive, In
<1>. HIDE DEF gone
<1>3. /\ DOMAIN assets' = stay \union {In(slot)} /\ assets'[In(slot)] = u
      /\ \A p \in stay : assets'[p] = assets[p]
      /\ assets' = [p \in DOMAIN assets' |-> assets'[p]]
  <2>. DEFINE f == Without(gone \union {In(other)})
  <2>1. DOMAIN f = stay /\ \A p \in stay : f[p] = assets[p]
    BY DEF Without, Restrict
  <2>. QED
    BY <1>1, <1>2, <2>1 DEF With
<1>4. IsFiniteSet(DOMAIN assets')
  <2>1. IsFiniteSet(DOMAIN assets) /\ stay \in SUBSET DOMAIN assets
    BY DEF AssetInv
  <2>2. IsFiniteSet(stay)
    BY <2>1, FS_Subset
  <2>3. IsFiniteSet(stay \union {In(slot)})
    BY <2>2, FS_AddElement
  <2>. QED
    BY <1>3, <2>3
<1>5. ASSUME NEW v \in DOMAIN assetResourceMap
      PROVE  Cardinality(Holds(assets', v)) =
               assetResourceMap[v] - Cardinality({p \in gone : assets[p] = v})
  <2>. DEFINE G == {p \in gone : assets[p] = v}
              S == Holds(assets, v) \ G
              S0 == S \ {In(other)}
  <2>0. assetResourceMap[v] = Cardinality(Holds(assets, v))
    BY DEF Holds, AssetInv, CountsExact
  <2>1. G \subseteq Holds(assets, v) /\ IsFiniteSet(Holds(assets, v))
    BY <1>2, Counted DEF Holds, AssetInv
  <2>2. /\ IsFiniteSet(S) /\ Cardinality(S) \in Nat
        /\ Cardinality(S) = assetResourceMap[v] - Cardinality(G)
    BY <2>0, <2>1, CountLeft, FS_CardinalityType
  <2>3. /\ S0 = {p \in stay : assets[p] = v}
        /\ In(slot) \notin S0 /\ (In(other) \in S <=> v = u)
    BY <1>1, <1>2 DEF Holds
  <2>. HIDE DEF G, S
  <2>4. CASE v = u
    <3>1. Holds(assets', v) = S0 \union {In(slot)}
      BY <1>3, <2>3, <2>4 DEF Holds
    <3>2. IsFiniteSet(S0) /\ Cardinality(S0) = Cardinality(S) - 1
      BY <2>2, <2>3, <2>4, FS_RemoveElement
    <3>. HIDE DEF S0
    <3>3. Cardinality(Holds(assets', v)) = (Cardinality(S) - 1) + 1
      BY <2>3, <3>1, <3>2, FS_AddElement
    <3>. QED
      BY <2>2, <3>3 DEF G
  <2>5. CASE v # u
    <3>1. Holds(assets', v) = S0 /\ S0 = S
      BY <1>3, <2>3, <2>5 DEF Holds
    <3>. QED
      BY <2>2, <3>1 DEF G
  <2>. QED
    BY <2>4, <2>5
<1>6. \A p \in DOMAIN assets' : assets'[p] \in DOMAIN assetResourceMap
  BY <1>2, <1>3 DEF AssetInv, AssetsLive
<1>7. gone \union {} = gone
  OBVIOUS
<1>8. \A p \in DOMAIN assets \ gone : p[1] \notin Slot => p \in DOMAIN assets'
  BY <1>3, SlotPlace
<1>9. \A p \in DOMAIN assets' : p # In(slot) => p \in DOMAIN assets \ gone /\ assets'[p] = assets[p]
  BY <1>3
<1>. QED
  BY <1>1, <1>3, <1>4, <1>5, <1>6, <1>7, <1>8, <1>9 DEF Drops, gone

-----------------------------------------------------------------------------
(* Counts before an assignment                                               *)

(* The Asset on the right of an assignment counts.                           *)
LEMMA HoldCounts ==
  ASSUME AssetInv, NEW u \in DOMAIN assetResourceMap
  PROVE  LET counts == Hold(assetResourceMap, u)
         IN  /\ Extends(counts, pathUUIDMap) /\ DOMAIN counts = DOMAIN assetResourceMap
             /\ \A v \in DOMAIN counts :
                  counts[v] = Cardinality(Holds(assets, v)) + IF v = u THEN 1 ELSE 0
<1>. DEFINE counts == Hold(assetResourceMap, u)
<1>1. DOMAIN counts = DOMAIN assetResourceMap /\
      \A v \in DOMAIN counts : /\ assetResourceMap[v] \in Nat
                               /\ counts[v] = assetResourceMap[v] + IF v = u THEN 1 ELSE 0
  BY DEF Hold, AssetInv, TypeOK
<1>2. counts = [v \in DOMAIN counts |-> counts[v]]
  BY DEF Hold
<1>. HIDE DEF counts
<1>3. \A v \in DOMAIN counts : counts[v] \in Nat /\ counts[v] >= assetResourceMap[v]
  BY <1>1
<1>4. counts \in [DOMAIN counts -> Nat]
  BY <1>2, <1>3
<1>5. Extends(counts, pathUUIDMap)
  BY <1>1, <1>3, <1>4, ExtendsSame DEF Extends, Agreeing
<1>6. \A v \in DOMAIN counts : assetResourceMap[v] = Cardinality(Holds(assets, v))
  BY <1>1 DEF AssetInv, CountsExact, Holds
<1>. QED
  BY <1>1, <1>5, <1>6 DEF counts

(* A new resource is entered under a new name.                               *)
LEMMA NewCounts ==
  ASSUME AssetInv, NEW u \in Uuid \ DOMAIN assetResourceMap, NEW name \in Name \ DOMAIN pathUUIDMap,
         name \in Leaf => Owned(u) = {}
  PROVE  LET counts == With(assetResourceMap, u, 1)
         IN  /\ Extends(counts, With(pathUUIDMap, name, u))
             /\ DOMAIN counts = DOMAIN assetResourceMap \union {u}
             /\ \A v \in DOMAIN counts :
                  counts[v] = Cardinality(Holds(assets, v)) + IF v = u THEN 1 ELSE 0
<1>. DEFINE counts == With(assetResourceMap, u, 1)
            paths == With(pathUUIDMap, name, u)
<1>1. /\ DOMAIN counts = DOMAIN assetResourceMap \union {u} /\ counts[u] = 1
      /\ \A v \in DOMAIN assetResourceMap : counts[v] = assetResourceMap[v] /\ v # u
      /\ counts = [v \in DOMAIN counts |-> counts[v]]
  BY DEF With
<1>2. /\ DOMAIN paths = DOMAIN pathUUIDMap \union {name} /\ paths[name] = u
      /\ \A n \in DOMAIN pathUUIDMap : paths[n] = pathUUIDMap[n] /\ n # name
      /\ paths = [n \in DOMAIN paths |-> paths[n]]
  BY DEF With
<1>. HIDE DEF counts, paths
<1>3. Sound
  BY SoundIs
<1>4. \A v \in DOMAIN assetResourceMap : assetResourceMap[v] \in Nat
  BY <1>3 DEF Sound
<1>5. \A v \in DOMAIN counts : counts[v] \in Nat
  BY <1>1, <1>4
<1>6. DOMAIN counts \subseteq Uuid /\ counts \in [DOMAIN counts -> Nat]
  BY <1>1, <1>3, <1>5 DEF Sound, Agreeing
<1>7. DOMAIN paths \subseteq Name /\ paths \in [DOMAIN paths -> Uuid]
  BY <1>2, <1>3 DEF Sound, Agreeing
<1>8. Range(paths) = DOMAIN counts
  <2>1. Range(paths) = Range(pathUUIDMap) \union {u}
    BY <1>2 DEF Range
  <2>. QED
    BY <1>1, <1>3, <2>1 DEF Sound, Agreeing
<1>9. IsInjective(paths)
  <2>1. \A n \in DOMAIN pathUUIDMap : pathUUIDMap[n] # u
    BY <1>3 DEF Sound, Agreeing, Range
  <2>. QED
    BY <1>2, <1>3, <2>1 DEF Sound, Agreeing, IsInjective
<1>10. Extends(counts, paths)
  BY <1>1, <1>2, <1>4, <1>6, <1>7, <1>8, <1>9 DEF Extends, Agreeing
<1>11. \A v \in DOMAIN assetResourceMap : assetResourceMap[v] = Cardinality(Holds(assets, v))
  BY DEF AssetInv, CountsExact, Holds
<1>12. Cardinality(Holds(assets, u)) = 0
  <2>1. Holds(assets, u) = {}
    BY DEF Holds, AssetInv, AssetsLive
  <2>. QED
    BY <2>1, FS_EmptySet
<1>13. \A v \in DOMAIN counts :
         counts[v] = Cardinality(Holds(assets, v)) + IF v = u THEN 1 ELSE 0
  BY <1>1, <1>4, <1>11, <1>12
<1>. QED
  BY <1>1, <1>10, <1>13 DEF counts, paths

(* The copy constructor is an assignment to a slot without an Asset.         *)
LEMMA CopyAssigns ==
  ASSUME AssetInv, NEW slot \in Slot, NEW place, Copy(slot, place)
  PROVE  /\ assets[place] \in DOMAIN assetResourceMap
         /\ Assign(slot, assets[place], Hold(assetResourceMap, assets[place]), pathUUIDMap)
<1>. DEFINE u == assets[place]
            counts == Hold(assetResourceMap, u)
<1>1. /\ place \in DOMAIN assets /\ In(slot) \notin DOMAIN assets /\ pathUUIDMap' = pathUUIDMap
      /\ assetResourceMap' = counts /\ assets' = With(assets, In(slot), u)
  BY DEF Copy
<1>2. u \in DOMAIN assetResourceMap
  BY <1>1 DEF AssetInv, AssetsLive
<1>3. Gone(counts, slot) = {}
  BY <1>1 DEF Gone
<1>4. Without({}) = assets
  BY DEF Without, Restrict, AssetInv, TypeOK
<1>5. /\ DOMAIN counts = DOMAIN assetResourceMap /\ Agreeing(counts, pathUUIDMap)
      /\ \A v \in DOMAIN counts : counts[v] = Cardinality(Holds(assets, v)) + IF v = u THEN 1 ELSE 0
  BY <1>2, HoldCounts DEF Extends
<1>6. \A v \in DOMAIN counts : counts[v] \in Nat \ {0}
  BY <1>2 DEF Hold, AssetInv, TypeOK
<1>. HIDE DEF counts
<1>7. Release(counts, pathUUIDMap, {})
  <2>. DEFINE left == [v \in DOMAIN counts |-> counts[v] - Cardinality({p \in {} : assets[p] = v})]
              live == {v \in DOMAIN counts : left[v] # 0}
  <2>1. \A v : {p \in {} : assets[p] = v} = {}
    OBVIOUS
  <2>2. left = counts
    BY <1>5, <1>6, <2>1, FS_EmptySet DEF Agreeing
  <2>3. live = DOMAIN counts
    BY <1>6, <2>2
  <2>4. Restrict(left, live) = counts
    BY <1>5, <2>2, <2>3 DEF Restrict, Agreeing
  <2>5. {n \in DOMAIN pathUUIDMap : pathUUIDMap[n] \in live} = DOMAIN pathUUIDMap
    BY <1>5, <2>3 DEF Agreeing, Range
  <2>6. Restrict(pathUUIDMap, DOMAIN pathUUIDMap) = pathUUIDMap
    BY <1>5 DEF Restrict, Agreeing
  <2>. QED
    BY <1>1, <2>4, <2>5, <2>6 DEF Release
<1>. QED
  BY <1>1, <1>2, <1>3, <1>4, <1>7 DEF Assign, counts

-----------------------------------------------------------------------------
(* The invariant                                                             *)

CreatingType ==
  /\ creating \subseteq Creating /\ Cardinality(creating) <= 1
  /\ \A mat \in creating : mat.file <= Len(Files[mat.name]) + 1
  /\ leaked \subseteq Uuid

Owners == Slot \union DOMAIN assetResourceMap \union leaked \union {mat.uuid : mat \in creating}

LEMMA InvIs ==
  Sound' /\ CreatingType' /\ (\A p \in DOMAIN assets' : p[1] \in Owners') /\ Apart' => AssetInv'
BY DEF Sound, CreatingType, Apart, AssetInv, TypeOK, AssetsLive, MapsAgree, Agreeing, Owners

(* A step outside of Material::Create.                                       *)
LEMMA IdleDrops ==
  ASSUME AssetInv, Idle, UNCHANGED <<creating, leaked>>, NEW slot \in Slot, NEW counts, NEW paths,
         Extends(counts, paths), Drops(slot, counts, paths, {}), leaked \intersect DOMAIN counts = {}
  PROVE  AssetInv'
<1>1. /\ Sound' /\ DOMAIN assetResourceMap' \subseteq DOMAIN counts
      /\ \A p \in DOMAIN assets' :
           p[1] \in DOMAIN assetResourceMap => p[1] \in DOMAIN assetResourceMap'
  BY DropsSound
<1>2. CreatingType'
  BY DEF AssetInv, TypeOK, CreatingType
<1>3. \A p \in DOMAIN assets' : p[1] \in Owners'
  <2>1. \A p \in DOMAIN assets' : p = In(slot) \/ p \in DOMAIN assets
    BY DEF Drops
  <2>. QED
    BY <1>1, <2>1, SlotPlace DEF Idle, Owners, AssetInv, AssetsLive
<1>4. Apart'
  BY <1>1 DEF Apart, Idle
<1>. QED
  BY <1>1, <1>2, <1>3, <1>4, InvIs

(* The assignments of AssetManager and Asset.                                *)
LEMMA AssignKeeps ==
  ASSUME AssetInv, Idle, UNCHANGED <<creating, leaked>>, NEW slot \in Slot, NEW u \in Uuid
  PROVE  /\ u \in DOMAIN assetResourceMap /\ Assign(slot, u, Hold(assetResourceMap, u), pathUUIDMap)
              => AssetInv'
         /\ \A name \in Leaf \ DOMAIN pathUUIDMap :
              Fresh(u) /\ Assign(slot, u, With(assetResourceMap, u, 1), With(pathUUIDMap, name, u))
                => AssetInv'
<1>1. ASSUME u \in DOMAIN assetResourceMap, Assign(slot, u, Hold(assetResourceMap, u), pathUUIDMap)
      PROVE  AssetInv'
  <2>. DEFINE counts == Hold(assetResourceMap, u)
  <2>1. /\ Extends(counts, pathUUIDMap) /\ DOMAIN counts = DOMAIN assetResourceMap
        /\ \A v \in DOMAIN counts :
             counts[v] = Cardinality(Holds(assets, v)) + IF v = u THEN 1 ELSE 0
    BY <1>1, HoldCounts
  <2>2. Assign(slot, u, counts, pathUUIDMap)
    BY <1>1
  <2>. HIDE DEF counts
  <2>3. Drops(slot, counts, pathUUIDMap, {})
    BY <1>1, <2>1, <2>2, AssignDrops
  <2>4. leaked \intersect DOMAIN counts = {}
    BY <2>1 DEF AssetInv, Apart
  <2>. QED
    BY <2>1, <2>3, <2>4, IdleDrops
<1>2. ASSUME NEW name \in Leaf \ DOMAIN pathUUIDMap, Fresh(u),
             Assign(slot, u, With(assetResourceMap, u, 1), With(pathUUIDMap, name, u))
      PROVE  AssetInv'
  <2>. DEFINE counts == With(assetResourceMap, u, 1)
              paths == With(pathUUIDMap, name, u)
  <2>1. u \in Uuid \ DOMAIN assetResourceMap /\ u \notin leaked /\ Owned(u) = {}
    BY <1>2, AssetAssumption DEF Fresh, Owned, Idle, AssetInv, AssetsLive
  <2>2. /\ Extends(counts, paths) /\ DOMAIN counts = DOMAIN assetResourceMap \union {u}
        /\ \A v \in DOMAIN counts :
             counts[v] = Cardinality(Holds(assets, v)) + IF v = u THEN 1 ELSE 0
    BY <2>1, NewCounts DEF Name
  <2>3. Assign(slot, u, counts, paths)
    BY <1>2
  <2>. HIDE DEF counts, paths
  <2>4. Drops(slot, counts, paths, {})
    BY <2>2, <2>3, AssignDrops
  <2>5. leaked \intersect DOMAIN counts = {}
    BY <2>1, <2>2 DEF AssetInv, Apart
  <2>. QED
    BY <2>2, <2>4, <2>5, IdleDrops
<1>. QED
  BY <1>1, <1>2

LEMMA ClearsAre ==
  ASSUME AssetInv, NEW slot \in Slot, Clear(slot)
  PROVE  /\ Drops(slot, assetResourceMap, pathUUIDMap, {}) /\ In(slot) \notin DOMAIN assets'
         /\ Extends(assetResourceMap, pathUUIDMap)
<1>1. LET gone == Gone(assetResourceMap, slot) \union {}
      IN  Release(assetResourceMap, pathUUIDMap, gone) /\ assets' = Without(gone)
  BY DEF Clear
<1>. QED
  BY <1>1, ClearDrops, ExtendsSame

LEMMA IdleKeeps ==
  ASSUME AssetInv, NEW slot \in Slot,
         \/ \E name \in Name :
              \/ Lookup(slot, name) \/ LoadFails(slot, name)
              \/ \E u \in Uuid : Load(slot, name, u)
         \/ \E place \in DOMAIN assets : Copy(slot, place) \/ CopyAssign(slot, place)
         \/ \E other \in Slot : MoveAssign(slot, other)
         \/ Destroy(slot)
  PROVE  AssetInv'
<1>1. DOMAIN assetResourceMap \subseteq Uuid /\ leaked \intersect DOMAIN assetResourceMap = {}
  BY DEF AssetInv, TypeOK, Apart
<1>2. ASSUME NEW name \in Name, Lookup(slot, name) PROVE AssetInv'
  <2>1. name \in DOMAIN pathUUIDMap /\ pathUUIDMap[name] \in DOMAIN assetResourceMap
    BY <1>2 DEF Lookup, AssetInv, MapsAgree, Range
  <2>. QED
    BY <1>1, <1>2, <2>1, AssignKeeps DEF Lookup
<1>3. ASSUME Clear(slot), Idle, UNCHANGED <<creating, leaked>> PROVE AssetInv'
  BY <1>1, <1>3, ClearsAre, IdleDrops
<1>4. ASSUME NEW name \in Name, NEW u \in Uuid, Load(slot, name, u) PROVE AssetInv'
  BY <1>4, AssignKeeps DEF Load
<1>5. ASSUME NEW place \in DOMAIN assets, Copy(slot, place) PROVE AssetInv'
  BY <1>1, <1>5, CopyAssigns, AssignKeeps DEF Copy
<1>6. ASSUME NEW place \in DOMAIN assets, CopyAssign(slot, place) PROVE AssetInv'
  <2>1. assets[place] \in DOMAIN assetResourceMap
    BY DEF AssetInv, AssetsLive
  <2>. QED
    BY <1>1, <1>6, <2>1, AssignKeeps DEF CopyAssign
<1>7. ASSUME NEW other \in Slot, MoveAssign(slot, other) PROVE AssetInv'
  <2>1. Drops(slot, assetResourceMap, pathUUIDMap, {})
    BY <1>7, MoveDrops
  <2>2. Idle /\ UNCHANGED <<creating, leaked>>
    BY <1>7 DEF MoveAssign
  <2>. QED
    BY <1>1, <2>1, <2>2, ExtendsSame, IdleDrops
<1>. QED
  BY <1>2, <1>3, <1>4, <1>5, <1>6, <1>7 DEF LoadFails, Destroy

(* Material::Create begins.                                                  *)
LEMMA BeginKeeps ==
  ASSUME AssetInv, NEW slot \in Slot, NEW name \in Name, NEW u \in Uuid, BeginMaterial(slot, name, u)
  PROVE  AssetInv'
<1>. DEFINE mat == [slot |-> slot, name |-> name, uuid |-> u, file |-> 1]
<1>1. /\ creating' = {mat} /\ UNCHANGED <<pathUUIDMap, assetResourceMap, assets, leaked>>
      /\ u \notin leaked \union DOMAIN assetResourceMap /\ name \in Material \ DOMAIN pathUUIDMap
  BY DEF BeginMaterial, Fresh
<1>2. Sound
  BY SoundIs
<1>3. Sound'
  BY <1>1, <1>2 DEF Sound, CountsExact, Flat, LeavesOwnNothing, Owned
<1>4. mat \in Creating /\ Len(Files[name]) \in Nat
  BY <1>1, AssetAssumption DEF Creating
<1>5. Cardinality({mat}) = 1
  BY FS_Singleton
<1>6. mat.file <= Len(Files[mat.name]) + 1
  BY <1>4
<1>7. leaked \subseteq Uuid
  BY DEF AssetInv, TypeOK
<1>8. CreatingType'
  BY <1>1, <1>4, <1>5, <1>6, <1>7 DEF CreatingType
<1>9. Owned(u) = {}
  BY <1>1, AssetAssumption DEF Owned, BeginMaterial, Idle, AssetInv, AssetsLive
<1>10. \A p \in DOMAIN assets' : p[1] \in Owners'
  BY <1>1 DEF BeginMaterial, Idle, Owners, AssetInv, AssetsLive
<1>11. Apart'
  BY <1>1, <1>9 DEF Apart, Owned, AssetInv
<1>. QED
  BY <1>3, <1>8, <1>10, <1>11, InvIs

(* A Material that fails or is finished leaves nothing behind, or is leaked. *)
LEMMA CreationEnds ==
  ASSUME AssetInv, NEW mat \in creating, creating' = {},
         NEW counts, NEW paths, NEW more \in SUBSET DOMAIN assets, \A p \in more : p[1] \notin Slot,
         Extends(counts, paths), Drops(mat.slot, counts, paths, more),
         leaked' \in SUBSET Uuid, leaked \subseteq leaked', leaked' \intersect DOMAIN counts = {},
         \/ mat.uuid \in leaked' \/ mat.uuid \in DOMAIN assetResourceMap' \/ more = Owned(mat.uuid)
  PROVE  AssetInv'
<1>0. mat.slot \in Slot /\ mat.uuid \in Uuid /\ creating = {mat}
  BY DEF AssetInv, TypeOK, Creating, Apart
<1>1. /\ Sound' /\ DOMAIN assetResourceMap' \subseteq DOMAIN counts
      /\ \A p \in DOMAIN assets' :
           p[1] \in DOMAIN assetResourceMap => p[1] \in DOMAIN assetResourceMap'
  BY <1>0, DropsSound
<1>2. CreatingType'
  BY FS_EmptySet DEF CreatingType
<1>3. \A p \in DOMAIN assets' : p[1] \in Owners'
  <2>. SUFFICES ASSUME NEW p \in DOMAIN assets', p # In(mat.slot)
                PROVE  p[1] \in Owners'
    BY <1>0, SlotPlace DEF Owners
  <2>1. p \in DOMAIN assets /\ p \notin more
    BY DEF Drops
  <2>2. p[1] \in Slot \union DOMAIN assetResourceMap \union leaked \union {mat.uuid}
    BY <1>0, <2>1 DEF AssetInv, AssetsLive
  <2>3. CASE p[1] = mat.uuid
    BY <2>1, <2>3 DEF Owned, Owners
  <2>. QED
    BY <1>1, <2>2, <2>3 DEF Owners
<1>4. Apart'
  BY <1>1 DEF Apart
<1>. QED
  BY <1>1, <1>2, <1>3, <1>4, InvIs

LEMMA TextureFailsDrops ==
  ASSUME AssetInv, NEW mat \in creating, TextureFails(mat)
  PROVE  /\ mat.slot \in Slot /\ Owned(mat.uuid) \in SUBSET DOMAIN assets
         /\ \A p \in Owned(mat.uuid) : p[1] \notin Slot
         /\ Drops(mat.slot, assetResourceMap, pathUUIDMap, Owned(mat.uuid))
<1>1. mat.slot \in Slot /\ mat.uuid \in Uuid
  BY DEF AssetInv, TypeOK, Creating
<1>2. Owned(mat.uuid) \in SUBSET DOMAIN assets /\ \A p \in Owned(mat.uuid) : p[1] \notin Slot
  BY <1>1, AssetAssumption DEF Owned
<1>3. Gone(assetResourceMap, mat.slot) \union Owned(mat.uuid)
        = Owned(mat.uuid) \union Gone(assetResourceMap, mat.slot)
  OBVIOUS
<1>4. LET gone == Gone(assetResourceMap, mat.slot) \union Owned(mat.uuid)
      IN  Release(assetResourceMap, pathUUIDMap, gone) /\ assets' = Without(gone)
  BY <1>3 DEF TextureFails
<1>. QED
  BY <1>1, <1>2, <1>4, ClearDrops

LEMMA EndMaterialDrops ==
  ASSUME AssetInv, NEW mat \in creating, EndMaterial(mat)
  PROVE  LET counts == With(assetResourceMap, mat.uuid, 1)
             paths == With(pathUUIDMap, mat.name, mat.uuid)
         IN  /\ mat.slot \in Slot /\ mat.uuid \in Uuid \ (DOMAIN assetResourceMap \union leaked)
             /\ DOMAIN counts = DOMAIN assetResourceMap \union {mat.uuid}
             /\ Extends(counts, paths) /\ Drops(mat.slot, counts, paths, {})
             /\ In(mat.slot) \in DOMAIN assets' /\ assets'[In(mat.slot)] = mat.uuid
<1>. DEFINE u == mat.uuid
            counts == With(assetResourceMap, u, 1)
            paths == With(pathUUIDMap, mat.name, u)
<1>1. /\ mat.slot \in Slot /\ u \in Uuid \ DOMAIN assetResourceMap /\ u \notin leaked
      /\ mat.name \in Name \ DOMAIN pathUUIDMap /\ mat.name \notin Leaf
  BY NamesApart DEF AssetInv, TypeOK, Creating, Apart, Name
<1>2. /\ Extends(counts, paths) /\ DOMAIN counts = DOMAIN assetResourceMap \union {u}
      /\ \A v \in DOMAIN counts : counts[v] = Cardinality(Holds(assets, v)) + IF v = u THEN 1 ELSE 0
  BY <1>1, NewCounts
<1>3. Assign(mat.slot, u, counts, paths)
  BY DEF EndMaterial
<1>. HIDE DEF counts, paths
<1>4. Drops(mat.slot, counts, paths, {}) /\ In(mat.slot) \in DOMAIN assets' /\ assets'[In(mat.slot)] = u
  BY <1>1, <1>2, <1>3, AssignDrops
<1>. QED
  BY <1>1, <1>2, <1>4 DEF counts, paths

LEMMA EndsKeep ==
  ASSUME AssetInv, NEW mat \in creating, TextureFails(mat) \/ ShaderFails(mat) \/ EndMaterial(mat)
  PROVE  AssetInv'
<1>0. /\ mat.slot \in Slot /\ mat.uuid \in Uuid \ DOMAIN assetResourceMap
      /\ leaked \subseteq Uuid /\ leaked \intersect DOMAIN assetResourceMap = {}
      /\ Extends(assetResourceMap, pathUUIDMap)
  BY ExtendsSame DEF AssetInv, TypeOK, Creating, Apart
<1>1. CASE TextureFails(mat)
  <2>1. creating' = {} /\ leaked' = leaked
    BY <1>1 DEF TextureFails
  <2>2. /\ Owned(mat.uuid) \in SUBSET DOMAIN assets /\ \A p \in Owned(mat.uuid) : p[1] \notin Slot
        /\ Drops(mat.slot, assetResourceMap, pathUUIDMap, Owned(mat.uuid))
    BY <1>1, TextureFailsDrops
  <2>. QED
    BY <1>0, <2>1, <2>2, CreationEnds
<1>2. CASE ShaderFails(mat)
  <2>1. Drops(mat.slot, assetResourceMap, pathUUIDMap, {})
    BY <1>0, <1>2, ClearsAre DEF ShaderFails
  <2>2. creating' = {} /\ leaked' = leaked \union {mat.uuid}
    BY <1>2 DEF ShaderFails
  <2>. QED
    BY <1>0, <2>1, <2>2, CreationEnds
<1>3. CASE EndMaterial(mat)
  <2>. DEFINE counts == With(assetResourceMap, mat.uuid, 1)
              paths == With(pathUUIDMap, mat.name, mat.uuid)
  <2>1. /\ mat.uuid \notin leaked /\ DOMAIN counts = DOMAIN assetResourceMap \union {mat.uuid}
        /\ Extends(counts, paths) /\ Drops(mat.slot, counts, paths, {})
        /\ In(mat.slot) \in DOMAIN assets' /\ assets'[In(mat.slot)] = mat.uuid
    BY <1>3, EndMaterialDrops
  <2>2. creating' = {} /\ leaked' = leaked
    BY <1>3 DEF EndMaterial
  <2>. HIDE DEF counts, paths
  <2>3. mat.uuid \in DOMAIN assetResourceMap'
    BY <1>0, <2>1, DropsSound DEF Sound
  <2>. QED
    BY <1>0, <2>1, <2>2, <2>3, CreationEnds
<1>. QED
  BY <1>1, <1>2, <1>3

(* A texture or the shader of a Material is there: the Material owns an Asset*)
(* more.                                                                     *)
LEMMA FileFacts ==
  ASSUME AssetInv, NEW mat \in creating, NEW u \in Uuid, MaterialFile(mat, u)
  PROVE  LET name == Files[mat.name][mat.file]
             place == <<mat.uuid, mat.file>>
         IN  /\ name \in Leaf /\ place \in Place /\ place \notin DOMAIN assets
             /\ mat.uuid \in Uuid \ Slot /\ u # mat.uuid
             /\ assets' = With(assets, place, u)
             /\ \/ /\ name \in DOMAIN pathUUIDMap /\ u = pathUUIDMap[name]
                   /\ u \in DOMAIN assetResourceMap /\ assetResourceMap' = Hold(assetResourceMap, u)
                   /\ pathUUIDMap' = pathUUIDMap
                \/ /\ name \notin DOMAIN pathUUIDMap
                   /\ u \notin DOMAIN assetResourceMap \union leaked /\ Owned(u) = {}
                   /\ assetResourceMap' = With(assetResourceMap, u, 1)
                   /\ pathUUIDMap' = With(pathUUIDMap, name, u)
<1>. DEFINE name == Files[mat.name][mat.file]
            place == <<mat.uuid, mat.file>>
<1>0. /\ mat.uuid \in Uuid \ Slot /\ mat.file \in Nat \ {0} /\ mat.name \in Material
      /\ mat.file <= Len(Files[mat.name]) /\ mat.uuid \notin DOMAIN assetResourceMap
      /\ creating = {mat}
  BY AssetAssumption DEF MaterialFile, AssetInv, TypeOK, Creating, Apart
<1>1. name \in Leaf
  BY <1>0, AssetAssumption
<1>2. place \in Place
  BY <1>0 DEF Place
<1>3. place \notin DOMAIN assets
  BY <1>0, <1>2 DEF AssetInv, Apart, Owned
<1>4. ASSUME name \in DOMAIN pathUUIDMap, u = pathUUIDMap[name]
      PROVE  u \in DOMAIN assetResourceMap
  BY <1>4 DEF AssetInv, MapsAgree, Range
<1>5. ASSUME Fresh(u)
      PROVE  u \notin DOMAIN assetResourceMap \union leaked /\ u # mat.uuid /\ Owned(u) = {}
  BY <1>0, <1>5, AssetAssumption DEF Fresh, Owned, AssetInv, AssetsLive
<1>. QED
  BY <1>0, <1>1, <1>2, <1>3, <1>4, <1>5 DEF MaterialFile

LEMMA FileKeeps ==
  ASSUME AssetInv, NEW mat \in creating, NEW u \in Uuid, MaterialFile(mat, u)
  PROVE  AssetInv'
<1>. DEFINE name == Files[mat.name][mat.file]
            place == <<mat.uuid, mat.file>>
            mat2 == [mat EXCEPT !.file = @ + 1]
<1>1. /\ name \in Leaf /\ place \in Place /\ place \notin DOMAIN assets
      /\ mat.uuid \in Uuid \ Slot /\ u # mat.uuid /\ assets' = With(assets, place, u)
  BY FileFacts
<1>2. /\ mat \in Creating /\ creating = {mat} /\ mat.file <= Len(Files[mat.name])
      /\ mat.uuid \notin DOMAIN assetResourceMap \union leaked /\ mat.name \in Material \ DOMAIN pathUUIDMap
      /\ creating' = {mat2} /\ leaked' = leaked
  BY DEF MaterialFile, AssetInv, TypeOK, Apart
<1>3. /\ Extends(assetResourceMap', pathUUIDMap')
      /\ DOMAIN assetResourceMap' = DOMAIN assetResourceMap \union {u} /\ u \notin leaked
      /\ \A v \in DOMAIN assetResourceMap' :
           assetResourceMap'[v] = Cardinality(Holds(assets, v)) + IF v = u THEN 1 ELSE 0
      /\ name \in DOMAIN pathUUIDMap' /\ pathUUIDMap'[name] = u
      /\ DOMAIN pathUUIDMap' \subseteq DOMAIN pathUUIDMap \union {name}
  <2>1. CASE /\ name \in DOMAIN pathUUIDMap /\ u = pathUUIDMap[name]
             /\ u \in DOMAIN assetResourceMap /\ assetResourceMap' = Hold(assetResourceMap, u)
             /\ pathUUIDMap' = pathUUIDMap
    BY <2>1, HoldCounts DEF AssetInv, Apart
  <2>2. CASE /\ name \notin DOMAIN pathUUIDMap
             /\ u \notin DOMAIN assetResourceMap \union leaked /\ Owned(u) = {}
             /\ assetResourceMap' = With(assetResourceMap, u, 1)
             /\ pathUUIDMap' = With(pathUUIDMap, name, u)
    <3>1. name \in Name \ DOMAIN pathUUIDMap
      BY <1>1, <2>2 DEF Name
    <3>2. DOMAIN pathUUIDMap' = DOMAIN pathUUIDMap \union {name} /\ pathUUIDMap'[name] = u
      BY <2>2 DEF With
    <3>. QED
      BY <2>2, <3>1, <3>2, NewCounts
  <2>. QED
    BY <2>1, <2>2, FileFacts
<1>. HIDE DEF name
<1>4. /\ DOMAIN assets' = DOMAIN assets \union {place} /\ assets'[place] = u
      /\ \A p \in DOMAIN assets : assets'[p] = assets[p] /\ p # place
      /\ assets' = [p \in DOMAIN assets' |-> assets'[p]]
  BY <1>1 DEF With
<1>. HIDE DEF place
<1>5. IsFiniteSet(DOMAIN assets') /\ DOMAIN assets' \subseteq Place
  BY <1>1, <1>4, FS_AddElement DEF AssetInv, TypeOK
<1>6. ASSUME NEW v \in DOMAIN assetResourceMap'
      PROVE  assetResourceMap'[v] = Cardinality(Holds(assets', v)) /\ assetResourceMap'[v] \in Nat \ {0}
  <2>1. IsFiniteSet(Holds(assets, v)) /\ Cardinality(Holds(assets, v)) \in Nat
    BY Counted DEF AssetInv
  <2>2. CASE v = u
    <3>1. Holds(assets', v) = Holds(assets, v) \union {place} /\ place \notin Holds(assets, v)
      BY <1>1, <1>4, <2>2 DEF Holds
    <3>2. Cardinality(Holds(assets', v)) = Cardinality(Holds(assets, v)) + 1
      BY <2>1, <3>1, FS_AddElement
    <3>. QED
      BY <1>3, <2>1, <2>2, <3>2
  <2>3. CASE v # u
    <3>1. Holds(assets', v) = Holds(assets, v)
      BY <1>4, <2>3 DEF Holds
    <3>2. v \in DOMAIN assetResourceMap
      BY <1>3, <2>3
    <3>3. assetResourceMap[v] = Cardinality(Holds(assets, v)) /\ assetResourceMap[v] \in Nat \ {0}
      BY <3>2 DEF Holds, AssetInv, TypeOK, CountsExact
    <3>. QED
      BY <1>3, <2>1, <2>3, <3>1, <3>3
  <2>. QED
    BY <2>2, <2>3
<1>7. CountsExact'
  BY <1>6 DEF CountsExact, Holds
<1>8. assetResourceMap' \in [DOMAIN assetResourceMap' -> Nat \ {0}] /\ Agreeing(assetResourceMap', pathUUIDMap')
  BY <1>3, <1>6 DEF Extends, Agreeing
<1>9. assets' \in [DOMAIN assets' -> DOMAIN assetResourceMap']
  BY <1>3, <1>4 DEF AssetInv, AssetsLive
<1>10. \A n \in DOMAIN pathUUIDMap : n \in DOMAIN pathUUIDMap' /\ pathUUIDMap'[n] = pathUUIDMap[n]
  BY <1>3 DEF Extends
<1>11. Flat'
  BY <1>1, <1>3, <1>4, <1>10 DEF Flat, AssetInv
<1>12. LeavesOwnNothing'
  <2>. SUFFICES ASSUME NEW n \in Leaf \intersect DOMAIN pathUUIDMap', NEW p \in DOMAIN assets',
                       p[1] = pathUUIDMap'[n]
                PROVE  FALSE
    BY DEF LeavesOwnNothing, Owned
  <2>1. p[1] \in DOMAIN assetResourceMap'
    BY <1>8 DEF Agreeing, Range
  <2>2. p # place
    BY <1>1, <1>2, <1>3, <2>1 DEF place
  <2>3. p \in Owned(pathUUIDMap'[n])
    BY <1>4, <2>2 DEF Owned
  <2>4. CASE n \in DOMAIN pathUUIDMap
    BY <1>10, <2>3, <2>4 DEF AssetInv, LeavesOwnNothing
  <2>5. CASE n = name /\ n \notin DOMAIN pathUUIDMap
    BY <1>3, <2>3, <2>5 DEF Extends
  <2>. QED
    BY <1>3, <2>4, <2>5
<1>13. Sound'
  BY <1>5, <1>7, <1>8, <1>9, <1>11, <1>12 DEF Sound
<1>14. CreatingType'
  <2>1. /\ mat2 \in Creating /\ mat2.file = mat.file + 1 /\ mat2.name = mat.name
        /\ mat.file + 1 <= Len(Files[mat.name]) + 1
    BY <1>2, AssetAssumption DEF Creating
  <2>2. Cardinality({mat2}) = 1
    BY FS_Singleton
  <2>3. leaked \subseteq Uuid
    BY DEF AssetInv, TypeOK
  <2>. QED
    BY <1>2, <2>1, <2>2, <2>3 DEF CreatingType
<1>15. mat2.uuid = mat.uuid /\ mat2.name = mat.name /\ mat2.file = mat.file + 1 /\ mat.file \in Nat
  BY <1>2 DEF Creating
<1>16. \A p \in DOMAIN assets' : p[1] \in Owners'
  <2>1. Owners' = Slot \union DOMAIN assetResourceMap \union {u} \union leaked \union {mat.uuid}
    <3>1. {m.uuid : m \in creating'} = {mat2.uuid}
      BY <1>2
    <3>. HIDE DEF mat2
    <3>. QED
      BY <1>2, <1>3, <1>15, <3>1 DEF Owners
  <2>2. \A p \in DOMAIN assets : p[1] \in Slot \union DOMAIN assetResourceMap \union leaked \union {mat.uuid}
    BY <1>2 DEF AssetInv, AssetsLive
  <2>3. place[1] = mat.uuid
    BY DEF place
  <2>. QED
    BY <1>4, <2>1, <2>2, <2>3
<1>17. Apart'
  <2>1. mat.name \notin DOMAIN pathUUIDMap'
    BY <1>1, <1>2, <1>3, NamesApart
  <2>2. leaked \intersect DOMAIN assetResourceMap' = {} /\ mat.uuid \notin DOMAIN assetResourceMap' \union leaked
    BY <1>1, <1>2, <1>3 DEF AssetInv, Apart
  <2>3. \A p \in DOMAIN assets' : p[1] = mat.uuid => p[2] < mat.file + 1
    <3>1. \A p \in DOMAIN assets : p[1] = mat.uuid => p[2] < mat.file /\ p[2] \in Nat
      BY DEF AssetInv, TypeOK, Place, Apart, Owned
    <3>2. place[2] < mat.file + 1
      BY <1>15 DEF place
    <3>. QED
      BY <1>4, <1>15, <3>1, <3>2
  <2>. QED
    BY <1>2, <1>15, <2>1, <2>2, <2>3 DEF Apart, Owned
<1>. QED
  BY <1>13, <1>14, <1>16, <1>17, InvIs

LEMMA InitInv == Init => AssetInv
<1>. SUFFICES ASSUME Init PROVE AssetInv
  OBVIOUS
<1>1. /\ DOMAIN pathUUIDMap = {} /\ DOMAIN assetResourceMap = {} /\ DOMAIN assets = {}
      /\ creating = {} /\ leaked = {} /\ Cardinality(creating) = 0 /\ IsFiniteSet(DOMAIN assets)
  BY FS_EmptySet DEF Init
<1>2. TypeOK
  BY <1>1 DEF Init, TypeOK
<1>. QED
  BY <1>1, <1>2 DEF AssetInv, CountsExact, AssetsLive, MapsAgree, Range, IsInjective, Flat,
                    LeavesOwnNothing, Apart

LEMMA StepInv == AssetInv /\ [Next]_vars => AssetInv'
<1>. SUFFICES ASSUME AssetInv, [Next]_vars PROVE AssetInv'
  OBVIOUS
<1>1. CASE UNCHANGED vars
  BY <1>1 DEF vars, AssetInv, TypeOK, CountsExact, AssetsLive, MapsAgree, Flat, LeavesOwnNothing,
              Apart, Owned
<1>2. CASE Next
  BY <1>2, IdleKeeps, BeginKeeps, FileKeeps, EndsKeep DEF Next, AssetInv, TypeOK
<1>. QED
  BY <1>1, <1>2

(* Counts are the numbers of Assets, and the maps agree with each other and  *)
(* with every Asset, for any files, names and slots and in any order of      *)
(* loading, failing, copying, moving and dropping.                           *)
THEOREM AssetsCounted == Spec => [](TypeOK /\ CountsExact /\ AssetsLive /\ MapsAgree)
<1>1. AssetInv => TypeOK /\ CountsExact /\ AssetsLive /\ MapsAgree
  BY DEF AssetInv
<1>. QED
  BY <1>1, InitInv, StepInv, PTL DEF Spec

(* Maps, Assets and materials being read keep their types; in particular a   *)
(* resource in the map has at least one reference.                           *)
THEOREM AssetsTyped == Spec => []TypeOK
BY AssetsCounted, PTL

(* No Asset outlives its resource: the last one to go deletes it, not an     *)
(* earlier one, whatever order copies, moves and drops come in.              *)
THEOREM AssetsStayLive == Spec => []AssetsLive
BY AssetsCounted, PTL

(* pathUUIDMap and assetResourceMap list the same resources: ReportRelease   *)
(* removes the name with the resource.                                       *)
THEOREM MapsStayTogether == Spec => []MapsAgree
BY AssetsCounted, PTL

-----------------------------------------------------------------------------
(* The refinement                                                            *)

Parts == [u \in DOMAIN assetResourceMap |-> {assets[p] : p \in Owned(u)}]
Held == {assets[p] : p \in {p \in DOMAIN assets : p[1] \notin DOMAIN assetResourceMap}}

(* The resources are those that what is held leads to.                       *)
AllReached == DOMAIN assetResourceMap = Lifetimes!Reached(Parts, Held) /\ Held \subseteq DOMAIN assetResourceMap

LEMMA CountsReach == AssetInv => AllReached
<1>. SUFFICES ASSUME AssetInv PROVE AllReached
  OBVIOUS
<1>1. ASSUME NEW v \in DOMAIN assetResourceMap
      PROVE  \E p \in DOMAIN assets : assets[p] = v
  <2>1. assetResourceMap[v] = Cardinality(Holds(assets, v)) /\ assetResourceMap[v] # 0
    BY DEF AssetInv, TypeOK, CountsExact, Holds
  <2>2. Holds(assets, v) # {}
    BY <2>1, FS_EmptySet
  <2>. QED
    BY <2>2 DEF Holds
<1>2. \A p \in DOMAIN assets : assets[p] \in DOMAIN assetResourceMap
  BY DEF AssetInv, AssetsLive
<1>3. Held \subseteq DOMAIN assetResourceMap /\ DOMAIN Parts = DOMAIN assetResourceMap
        /\ \A u \in DOMAIN assetResourceMap : Parts[u] \subseteq DOMAIN assetResourceMap
  BY <1>2 DEF Held, Parts, Owned
<1>4. ASSUME NEW v \in DOMAIN assetResourceMap, v \notin Held
      PROVE  \E u \in Held : v \in Parts[u]
  <2>1. PICK p \in DOMAIN assets : assets[p] = v
    BY <1>1
  <2>2. p[1] \in DOMAIN assetResourceMap
    BY <1>4, <2>1 DEF Held
  <2>3. PICK q \in DOMAIN assets : assets[q] = p[1]
    BY <1>1, <2>2
  <2>4. q[1] \in Slot
    <3>1. Flat /\ LeavesOwnNothing
      BY DEF AssetInv
    <3>. QED
      BY <2>1, <2>3, <3>1, OwnersNotOwned
  <2>5. q[1] \notin DOMAIN assetResourceMap
    BY <2>4, AssetAssumption DEF AssetInv, TypeOK
  <2>6. p[1] \in Held /\ v \in Parts[p[1]]
    BY <2>1, <2>2, <2>3, <2>5 DEF Held, Parts, Owned
  <2>. QED
    BY <2>6
<1>. QED
  BY <1>3, <1>4 DEF AllReached, Lifetimes!Reached

LEMMA CountsReachNext == AssetInv' => AllReached'
BY CountsReach, PTL

(* What counts keep is what is reached.                                      *)
LEMMA KeepsReached ==
  ASSUME AssetInv', NEW paths, NEW p0, NEW h, h = Held',
         pathUUIDMap' =
           Restrict(paths, {n \in DOMAIN paths : paths[n] \in DOMAIN assetResourceMap'}),
         \A w \in DOMAIN assetResourceMap' : Parts'[w] = p0[w]
  PROVE  Lifetimes!Keep(paths, p0, h)
<1>. DEFINE live == DOMAIN assetResourceMap'
<1>1. live = Lifetimes!Reached(Parts', Held') /\ Held' \subseteq live
  BY CountsReachNext DEF AllReached, Lifetimes!Reached
<1>2. Lifetimes!Reached(Parts', Held') = Lifetimes!Reached(p0, Held')
  BY <1>1 DEF Lifetimes!Reached
<1>3. Parts' = Restrict(p0, live)
  BY DEF Parts, Restrict
<1>4. live = Lifetimes!Reached(p0, Held')
  BY <1>1, <1>2
<1>. HIDE DEF live
<1>5. /\ Parts' = Restrict(p0, Lifetimes!Reached(p0, Held'))
      /\ pathUUIDMap' = Restrict(paths, {n \in DOMAIN paths : paths[n] \in Lifetimes!Reached(p0, Held')})
  BY <1>3, <1>4 DEF live
<1>. QED
  BY <1>5 DEF Lifetimes!Keep, Parts, Held, Restrict, Lifetimes!Restrict

(* A resource that stays keeps all it owns.                                  *)
LEMMA DropsParts ==
  ASSUME AssetInv, AssetInv', NEW slot \in Slot, NEW counts, NEW paths, NEW more \in SUBSET DOMAIN assets,
         Extends(counts, paths), Drops(slot, counts, paths, more),
         NEW w \in DOMAIN assetResourceMap', w \in Uuid, \A p \in more : p[1] # w
  PROVE  {assets'[p] : p \in Owned(w)'} = {assets[p] : p \in Owned(w)}
<1>. DEFINE gone == Gone(counts, slot) \union more
            goneW == {q \in gone : assets[q] = w}
<1>0. w \notin Slot
  BY AssetAssumption
<1>1. w \in DOMAIN counts /\ Cardinality(Holds(assets', w)) \in Nat \ {0}
  <2>1. assetResourceMap'[w] = Cardinality(Holds(assets', w)) /\ assetResourceMap'[w] \in Nat \ {0}
    BY DEF AssetInv, TypeOK, CountsExact, Holds
  <2>2. Release(counts, paths, gone)
    BY DEF Drops
  <2>3. DOMAIN assetResourceMap' \subseteq DOMAIN counts
    BY <2>2 DEF Release, Restrict
  <2>. QED
    BY <2>1, <2>3
<1>2. ASSUME NEW p \in Owned(w)' PROVE p \in Owned(w) /\ assets'[p] = assets[p]
  BY <1>0, SlotPlace DEF Owned, Drops
<1>3. ASSUME NEW p \in Owned(w) PROVE p \in Owned(w)'
  <2>1. p \in DOMAIN assets /\ p[1] = w
    BY DEF Owned
  <2>2. CASE p \notin gone
    BY <1>0, <2>1, <2>2 DEF Owned, Drops
  <2>3. CASE p \in gone
    <3>1. p \in Gone(counts, slot) /\ p # In(slot)
      BY <1>0, <2>1, <2>3, SlotPlace
    <3>2. In(slot) \in DOMAIN assets /\ assets[In(slot)] = w /\ counts[w] = 1
      BY <2>1, <3>1, GoneOwned DEF AssetInv
    <3>3. In(slot) \in goneW
      BY <3>2 DEF Gone
    <3>4. goneW \in SUBSET DOMAIN assets /\ IsFiniteSet(DOMAIN assets)
      BY GoneOwned DEF AssetInv
    <3>5. Cardinality(goneW) \in Nat /\ Cardinality(goneW) # 0
      <4>1. IsFiniteSet(goneW)
        BY <3>4, FS_Subset
      <4>. HIDE DEF goneW
      <4>. QED
        BY <3>3, <4>1, FS_CardinalityType, FS_EmptySet
    <3>6. Cardinality(Holds(assets', w)) = 1 - Cardinality(goneW)
      BY <1>1, <3>2 DEF Drops
    <3>. QED
      BY <1>1, <3>5, <3>6
  <2>. QED
    BY <2>2, <2>3
<1>. QED
  BY <1>2, <1>3

(* Where no resource is new, the step is one of what is held.                *)
LEMMA DropsHold ==
  ASSUME AssetInv, AssetInv', NEW slot \in Slot, NEW counts, NEW more \in SUBSET DOMAIN assets,
         \A p \in more : p[1] \notin Slot \union DOMAIN assetResourceMap,
         Extends(counts, pathUUIDMap), Drops(slot, counts, pathUUIDMap, more),
         DOMAIN counts = DOMAIN assetResourceMap
  PROVE  Lifetimes!Next
<1>1. /\ DOMAIN assetResourceMap' \subseteq DOMAIN assetResourceMap
      /\ pathUUIDMap' =
           Restrict(pathUUIDMap, {n \in DOMAIN pathUUIDMap : pathUUIDMap[n] \in DOMAIN assetResourceMap'})
  BY DropsSound
<1>2. DOMAIN assetResourceMap \subseteq Uuid
  BY DEF AssetInv, TypeOK
<1>3. ASSUME NEW w \in DOMAIN assetResourceMap' PROVE Parts'[w] = Parts[w]
  <2>1. w \in DOMAIN assetResourceMap /\ w \in Uuid /\ \A p \in more : p[1] # w
    BY <1>1, <1>2
  <2>2. {assets'[p] : p \in Owned(w)'} = {assets[p] : p \in Owned(w)}
    BY <2>1, DropsParts
  <2>. QED
    BY <2>1, <2>2 DEF Parts
<1>4. Held' \subseteq DOMAIN Parts /\ Held' \in SUBSET Uuid
  BY <1>1, <1>2, CountsReachNext DEF AllReached, Parts
<1>5. PICK h \in SUBSET Uuid : h = Held'
  BY <1>4
<1>6. Lifetimes!Keep(pathUUIDMap, Parts, h)
  BY <1>1, <1>3, <1>5, KeepsReached
<1>7. Lifetimes!Hold(h)
  BY <1>4, <1>5, <1>6 DEF Lifetimes!Hold, Parts
<1>. QED
  BY <1>7 DEF Lifetimes!Next

(* The names of what is left.                                                *)
Left(paths) == Restrict(paths, {n \in DOMAIN paths : paths[n] \in DOMAIN assetResourceMap'})

(* Where one is, it is loaded.                                               *)
LEMMA Loads ==
  ASSUME AssetInv, AssetInv', NEW name \in Name \ DOMAIN pathUUIDMap,
         NEW u \in Uuid \ DOMAIN assetResourceMap, NEW used \in SUBSET Uuid,
         \A v \in used : v \in DOMAIN assetResourceMap /\ Owned(v) = {},
         DOMAIN assetResourceMap' \subseteq DOMAIN assetResourceMap \union {u},
         pathUUIDMap' = Left(With(pathUUIDMap, name, u)),
         \A w \in DOMAIN assetResourceMap' : Parts'[w] = With(Parts, u, used)[w],
         u \in Held'
  PROVE  Lifetimes!Next
<1>1. \A h : h = Held' => Lifetimes!Keep(With(pathUUIDMap, name, u), With(Parts, u, used), h)
  BY KeepsReached DEF Left
<1>2. With(pathUUIDMap, name, u) =
        [x \in DOMAIN pathUUIDMap \union {name} |-> IF x = name THEN u ELSE pathUUIDMap[x]]
  BY DEF With
<1>3. With(Parts, u, used) = [x \in DOMAIN Parts \union {u} |-> IF x = u THEN used ELSE Parts[x]]
  BY DEF With
<1>4. Held' \subseteq DOMAIN Parts \union {u} /\ Held' \in SUBSET Uuid
  BY CountsReachNext DEF AllReached, Parts, AssetInv, TypeOK
<1>5. DOMAIN Parts = DOMAIN assetResourceMap /\ \A v \in used : Parts[v] = {}
  BY DEF Parts
<1>6. PICK h \in SUBSET Uuid : h = Held'
  BY <1>4
<1>7. Lifetimes!Keep([x \in DOMAIN pathUUIDMap \union {name} |-> IF x = name THEN u ELSE pathUUIDMap[x]],
                     [x \in DOMAIN Parts \union {u} |-> IF x = u THEN used ELSE Parts[x]], h)
  <2>1. Lifetimes!Keep(With(pathUUIDMap, name, u), With(Parts, u, used), h)
    BY <1>1, <1>6
  <2>. QED
    BY <1>2, <1>3, <2>1
<1>8. u \in h /\ h \subseteq DOMAIN Parts \union {u}
  BY <1>4, <1>6
<1>9. Lifetimes!Load(name, u, used, h)
  BY <1>5, <1>7, <1>8 DEF Lifetimes!Load, Parts
<1>10. name \in Name /\ u \in Uuid
  OBVIOUS
<1>. QED
  BY <1>9, <1>10 DEF Lifetimes!Next

(* Assets that come and go outside of Material::Create, without a new        *)
(* resource, and a Material whose loading fails.                             *)
LEMMA HoldSteps ==
  ASSUME AssetInv, AssetInv', NEW slot \in Slot,
         \/ \E name \in Name : Lookup(slot, name)
         \/ Clear(slot)
         \/ \E place \in DOMAIN assets : Copy(slot, place) \/ CopyAssign(slot, place)
         \/ \E other \in Slot : MoveAssign(slot, other)
  PROVE  Lifetimes!Next
<1>1. ASSUME NEW u \in DOMAIN assetResourceMap,
             Assign(slot, u, Hold(assetResourceMap, u), pathUUIDMap)
      PROVE  Lifetimes!Next
  <2>. DEFINE counts == Hold(assetResourceMap, u)
  <2>1. /\ Extends(counts, pathUUIDMap) /\ DOMAIN counts = DOMAIN assetResourceMap
        /\ \A v \in DOMAIN counts :
             counts[v] = Cardinality(Holds(assets, v)) + IF v = u THEN 1 ELSE 0
    BY HoldCounts
  <2>2. Assign(slot, u, counts, pathUUIDMap)
    BY <1>1
  <2>. HIDE DEF counts
  <2>3. Drops(slot, counts, pathUUIDMap, {})
    BY <2>1, <2>2, AssignDrops
  <2>. QED
    BY <2>1, <2>3, DropsHold
<1>2. ASSUME NEW name \in Name, Lookup(slot, name) PROVE Lifetimes!Next
  <2>1. pathUUIDMap[name] \in DOMAIN assetResourceMap
    BY <1>2 DEF Lookup, AssetInv, MapsAgree, Range
  <2>. QED
    BY <1>1, <1>2, <2>1 DEF Lookup
<1>3. CASE Clear(slot)
  <2>1. Drops(slot, assetResourceMap, pathUUIDMap, {}) /\ Extends(assetResourceMap, pathUUIDMap)
    BY <1>3, ClearsAre
  <2>. QED
    BY <2>1, DropsHold
<1>4. ASSUME NEW place \in DOMAIN assets, Copy(slot, place) PROVE Lifetimes!Next
  BY <1>1, <1>4, CopyAssigns
<1>5. ASSUME NEW place \in DOMAIN assets, CopyAssign(slot, place) PROVE Lifetimes!Next
  <2>1. assets[place] \in DOMAIN assetResourceMap
    BY DEF AssetInv, AssetsLive
  <2>. QED
    BY <1>1, <1>5, <2>1 DEF CopyAssign
<1>6. ASSUME NEW other \in Slot, MoveAssign(slot, other) PROVE Lifetimes!Next
  <2>1. Drops(slot, assetResourceMap, pathUUIDMap, {}) /\ Extends(assetResourceMap, pathUUIDMap)
    BY <1>6, MoveDrops, ExtendsSame
  <2>. QED
    BY <2>1, DropsHold
<1>. QED
  BY <1>2, <1>3, <1>4, <1>5, <1>6

LEMMA TextureFailsHolds ==
  ASSUME AssetInv, AssetInv', NEW mat \in creating, TextureFails(mat)
  PROVE  Lifetimes!Next
<1>1. /\ mat.slot \in Slot /\ Owned(mat.uuid) \in SUBSET DOMAIN assets
      /\ \A p \in Owned(mat.uuid) : p[1] \notin Slot
      /\ Drops(mat.slot, assetResourceMap, pathUUIDMap, Owned(mat.uuid))
  BY TextureFailsDrops
<1>2. \A p \in Owned(mat.uuid) : p[1] \notin DOMAIN assetResourceMap
  BY DEF Owned, AssetInv, Apart
<1>. QED
  BY <1>1, <1>2, ExtendsSame, DropsHold

(* The maps after such a step.                                               *)
LEMMA DropsSettle ==
  ASSUME AssetInv, NEW slot \in Slot, NEW counts, NEW paths,
         Extends(counts, paths), Drops(slot, counts, paths, {})
  PROVE  DOMAIN assetResourceMap' \subseteq DOMAIN counts /\ pathUUIDMap' = Left(paths)
<1>1. {} \in SUBSET DOMAIN assets /\ \A p \in {} : p[1] \notin Slot
  OBVIOUS
<1>2. /\ DOMAIN assetResourceMap' = {u \in DOMAIN counts : Holds(assets', u) # {}}
      /\ pathUUIDMap' =
           Restrict(paths, {n \in DOMAIN paths : paths[n] \in DOMAIN assetResourceMap'})
  BY <1>1, DropsSound, ZenonT(30)
<1>. QED
  BY <1>2 DEF Left

(* A slot gets the first Asset of a new resource, which owns what "used" says*)
LEMMA AssignLoads ==
  ASSUME AssetInv, AssetInv', NEW slot \in Slot, NEW name \in Name \ DOMAIN pathUUIDMap,
         NEW u \in Uuid \ DOMAIN assetResourceMap, NEW counts,
         DOMAIN counts = DOMAIN assetResourceMap \union {u},
         Extends(counts, With(pathUUIDMap, name, u)),
         Drops(slot, counts, With(pathUUIDMap, name, u), {}),
         In(slot) \in DOMAIN assets', assets'[In(slot)] = u,
         \A p \in Owned(u) : assets[p] \in DOMAIN assetResourceMap /\ Owned(assets[p]) = {}
  PROVE  Lifetimes!Next
<1>. DEFINE used == {assets[p] : p \in Owned(u)}
<1>1. DOMAIN assetResourceMap' \subseteq DOMAIN counts /\ pathUUIDMap' = Left(With(pathUUIDMap, name, u))
  BY DropsSettle
<1>2. ASSUME NEW w \in DOMAIN assetResourceMap'
      PROVE  Parts'[w] = With(Parts, u, used)[w]
  <2>1. w \in Uuid /\ w \in DOMAIN assetResourceMap \union {u}
    BY <1>1 DEF AssetInv, TypeOK
  <2>2. {assets'[p] : p \in Owned(w)'} = {assets[p] : p \in Owned(w)}
    BY <2>1, DropsParts
  <2>3. Parts'[w] = {assets[p] : p \in Owned(w)}
    BY <2>2 DEF Parts
  <2>. QED
    BY <2>1, <2>3 DEF With, Parts
<1>3. u \in Held'
  <2>1. In(slot)[1] \notin DOMAIN assetResourceMap'
    BY SlotPlace DEF AssetInv, TypeOK
  <2>. QED
    BY <2>1 DEF Held
<1>4. used \in SUBSET Uuid /\ \A v \in used : v \in DOMAIN assetResourceMap /\ Owned(v) = {}
  BY DEF AssetInv, TypeOK
<1>. HIDE DEF used
<1>. QED
  BY <1>1, <1>2, <1>3, <1>4, Loads

LEMMA LoadLoads ==
  ASSUME AssetInv, AssetInv', NEW slot \in Slot, NEW name \in Name, NEW u \in Uuid, Load(slot, name, u)
  PROVE  Lifetimes!Next
<1>. DEFINE counts == With(assetResourceMap, u, 1)
<1>1. /\ name \in Name \ DOMAIN pathUUIDMap
      /\ u \in Uuid \ DOMAIN assetResourceMap /\ Owned(u) = {}
  BY AssetAssumption DEF Load, Fresh, Owned, Idle, AssetInv, AssetsLive
<1>2. /\ Extends(counts, With(pathUUIDMap, name, u))
      /\ DOMAIN counts = DOMAIN assetResourceMap \union {u}
      /\ \A v \in DOMAIN counts : counts[v] = Cardinality(Holds(assets, v)) + IF v = u THEN 1 ELSE 0
  BY <1>1, NewCounts
<1>3. Assign(slot, u, counts, With(pathUUIDMap, name, u))
  BY DEF Load
<1>. HIDE DEF counts
<1>4. /\ Drops(slot, counts, With(pathUUIDMap, name, u), {})
      /\ In(slot) \in DOMAIN assets' /\ assets'[In(slot)] = u
  BY <1>2, <1>3, AssignDrops
<1>. QED
  BY <1>1, <1>2, <1>4, AssignLoads

LEMMA EndMaterialLoads ==
  ASSUME AssetInv, AssetInv', NEW mat \in creating, EndMaterial(mat)
  PROVE  Lifetimes!Next
<1>. DEFINE u == mat.uuid
            counts == With(assetResourceMap, u, 1)
<1>1. mat.name \in Name \ DOMAIN pathUUIDMap /\ u \notin Slot
  BY AssetAssumption DEF AssetInv, TypeOK, Creating, Apart, Name
<1>2. /\ mat.slot \in Slot /\ u \in Uuid \ DOMAIN assetResourceMap
      /\ DOMAIN counts = DOMAIN assetResourceMap \union {u}
      /\ Extends(counts, With(pathUUIDMap, mat.name, u))
      /\ Drops(mat.slot, counts, With(pathUUIDMap, mat.name, u), {})
      /\ In(mat.slot) \in DOMAIN assets' /\ assets'[In(mat.slot)] = u
  BY EndMaterialDrops
<1>3. ASSUME NEW p \in Owned(u)
      PROVE  assets[p] \in DOMAIN assetResourceMap /\ Owned(assets[p]) = {}
  BY <1>1 DEF Owned, AssetInv, AssetsLive, Flat, LeavesOwnNothing
<1>. HIDE DEF counts
<1>. QED
  BY <1>1, <1>2, <1>3, AssignLoads

(* A texture or the shader of a Material is held by it, which is no resource *)
(* yet.                                                                      *)
LEMMA FileHoldsOrLoads ==
  ASSUME AssetInv, AssetInv', NEW mat \in creating, NEW u \in Uuid, MaterialFile(mat, u)
  PROVE  Lifetimes!Next
<1>. DEFINE name == Files[mat.name][mat.file]
            place == <<mat.uuid, mat.file>>
<1>1. /\ name \in Leaf /\ place \in Place /\ place \notin DOMAIN assets
      /\ mat.uuid \in Uuid \ Slot /\ u # mat.uuid
      /\ assets' = With(assets, place, u)
      /\ \/ /\ name \in DOMAIN pathUUIDMap /\ u = pathUUIDMap[name]
            /\ u \in DOMAIN assetResourceMap /\ assetResourceMap' = Hold(assetResourceMap, u)
            /\ pathUUIDMap' = pathUUIDMap
         \/ /\ name \notin DOMAIN pathUUIDMap
            /\ u \notin DOMAIN assetResourceMap \union leaked /\ Owned(u) = {}
            /\ assetResourceMap' = With(assetResourceMap, u, 1)
            /\ pathUUIDMap' = With(pathUUIDMap, name, u)
  BY FileFacts
<1>2. mat.uuid \notin DOMAIN assetResourceMap /\ place[1] = mat.uuid
  BY DEF AssetInv, Apart
<1>. HIDE DEF name, place
<1>3. ASSUME NEW w, w # mat.uuid
      PROVE  {assets'[p] : p \in Owned(w)'} = {assets[p] : p \in Owned(w)}
  <2>1. DOMAIN assets' = DOMAIN assets \union {place} /\ \A p \in DOMAIN assets : assets'[p] = assets[p]
    BY <1>1 DEF With
  <2>2. Owned(w)' = Owned(w) /\ \A p \in Owned(w) : assets'[p] = assets[p]
    BY <1>2, <1>3, <2>1 DEF Owned
  <2>. QED
    BY <2>2
<1>4. Range(pathUUIDMap') = DOMAIN assetResourceMap'
  BY DEF AssetInv, MapsAgree
<1>5. \A n \in DOMAIN pathUUIDMap' : pathUUIDMap'[n] \in DOMAIN assetResourceMap'
  BY <1>4 DEF Range
<1>6. pathUUIDMap' = Restrict(pathUUIDMap', {n \in DOMAIN pathUUIDMap' :
                                               pathUUIDMap'[n] \in DOMAIN assetResourceMap'})
  <2>1. {n \in DOMAIN pathUUIDMap' : pathUUIDMap'[n] \in DOMAIN assetResourceMap'} = DOMAIN pathUUIDMap'
    BY <1>5
  <2>2. pathUUIDMap' = [n \in DOMAIN pathUUIDMap' |-> pathUUIDMap'[n]]
    BY DEF AssetInv, TypeOK
  <2>. QED
    BY <2>1, <2>2 DEF Restrict
<1>7. CASE DOMAIN assetResourceMap' = DOMAIN assetResourceMap /\ pathUUIDMap' = pathUUIDMap
  <2>1. ASSUME NEW w \in DOMAIN assetResourceMap' PROVE Parts'[w] = Parts[w]
    <3>1. w \in DOMAIN assetResourceMap /\ w # mat.uuid
      BY <1>2, <1>7
    <3>. QED
      BY <1>3, <3>1 DEF Parts
  <2>2. Held' \subseteq DOMAIN Parts /\ Held' \in SUBSET Uuid
    BY <1>7, CountsReachNext DEF AllReached, Parts, AssetInv, TypeOK
  <2>3. PICK h \in SUBSET Uuid : h = Held'
    BY <2>2
  <2>4. Lifetimes!Keep(pathUUIDMap, Parts, h)
    BY <1>6, <1>7, <2>1, <2>3, KeepsReached
  <2>5. Lifetimes!Hold(h)
    BY <2>2, <2>3, <2>4 DEF Lifetimes!Hold, Parts
  <2>. QED
    BY <2>5 DEF Lifetimes!Next
<1>8. CASE /\ name \notin DOMAIN pathUUIDMap
           /\ u \notin DOMAIN assetResourceMap \union leaked /\ Owned(u) = {}
           /\ assetResourceMap' = With(assetResourceMap, u, 1)
           /\ pathUUIDMap' = With(pathUUIDMap, name, u)
  <2>1. DOMAIN assetResourceMap' = DOMAIN assetResourceMap \union {u}
    BY <1>8 DEF With
  <2>2. ASSUME NEW w \in DOMAIN assetResourceMap' PROVE Parts'[w] = With(Parts, u, {})[w]
    <3>1. w # mat.uuid /\ w \in DOMAIN assetResourceMap \union {u}
      BY <1>1, <1>2, <2>1
    <3>2. Parts'[w] = {assets[p] : p \in Owned(w)}
      BY <1>3, <3>1 DEF Parts
    <3>. QED
      BY <1>8, <3>1, <3>2 DEF Parts, With
  <2>3. u \in Held'
    <3>1. place \in DOMAIN assets' /\ assets'[place] = u /\ place[1] \notin DOMAIN assetResourceMap'
      BY <1>1, <1>2, <2>1 DEF With
    <3>. QED
      BY <3>1 DEF Held
  <2>4. name \in Name \ DOMAIN pathUUIDMap /\ u \in Uuid \ DOMAIN assetResourceMap
    BY <1>1, <1>8 DEF Name
  <2>5. pathUUIDMap' = Left(With(pathUUIDMap, name, u))
    BY <1>6, <1>8 DEF Left
  <2>. QED
    BY <2>1, <2>2, <2>3, <2>4, <2>5, Loads
<1>. QED
  BY <1>1, <1>7, <1>8 DEF Hold

LEMMA InitLifetimes == Init => Lifetimes!Init
<1>. SUFFICES ASSUME Init PROVE Lifetimes!Init
  OBVIOUS
<1>1. DOMAIN assetResourceMap = {} /\ DOMAIN assets = {} /\ pathUUIDMap = [n \in {} |-> 0]
  BY DEF Init
<1>2. Parts = [u \in {} |-> {}] /\ Held = {}
  BY <1>1 DEF Parts, Held
<1>. QED
  BY <1>1, <1>2 DEF Lifetimes!Init, Parts, Held

LEMMA StepLifetimes == AssetInv /\ AssetInv' /\ [Next]_vars => [Lifetimes!Next]_(Lifetimes!vars)
<1>. SUFFICES ASSUME AssetInv, AssetInv', [Next]_vars
              PROVE  Lifetimes!Next \/ UNCHANGED Lifetimes!vars
  OBVIOUS
<1>1. CASE UNCHANGED <<pathUUIDMap, assetResourceMap, assets>>
  BY <1>1 DEF Lifetimes!vars, Owned
<1>2. ASSUME NEW slot \in Slot, NEW name \in Name,
             \/ Lookup(slot, name) \/ LoadFails(slot, name)
             \/ \E u \in Uuid : Load(slot, name, u)
      PROVE  Lifetimes!Next
  BY <1>2, HoldSteps, LoadLoads DEF LoadFails
<1>3. ASSUME NEW slot \in Slot, NEW name \in Name, NEW u \in Uuid, BeginMaterial(slot, name, u)
      PROVE  UNCHANGED Lifetimes!vars
  BY <1>1, <1>3 DEF BeginMaterial, Lifetimes!vars, Owned
<1>4. ASSUME NEW slot \in Slot,
             \/ \E place \in DOMAIN assets : Copy(slot, place) \/ CopyAssign(slot, place)
             \/ \E other \in Slot : MoveAssign(slot, other)
             \/ Destroy(slot)
      PROVE  Lifetimes!Next
  BY <1>4, HoldSteps DEF Destroy
<1>5. ASSUME NEW mat \in creating,
             \/ \E u \in Uuid : MaterialFile(mat, u)
             \/ TextureFails(mat) \/ ShaderFails(mat) \/ EndMaterial(mat)
      PROVE  Lifetimes!Next
  <2>1. mat.slot \in Slot
    BY DEF AssetInv, TypeOK, Creating
  <2>. QED
    BY <1>5, <2>1, FileHoldsOrLoads, TextureFailsHolds, HoldSteps, EndMaterialLoads DEF ShaderFails
<1>. QED
  BY <1>1, <1>2, <1>3, <1>4, <1>5 DEF Next, vars

(* The counting of Assets implements reachability, for any files, names and  *)
(* slots: nothing that an Asset outside of the resources leads to is ever    *)
(* deleted, and nothing else stays.                                          *)
THEOREM AssetsImplementLifetimes == Spec => ImplementsLifetimes
<1>. QED
  BY InitInv, StepInv, InitLifetimes, StepLifetimes, PTL DEF Spec, ImplementsLifetimes, Lifetimes!Spec
=============================================================================
