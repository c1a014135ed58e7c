------------------------ MODULE SceneHierarchy_proofs ------------------------
(***************************************************************************)
(* The entities of a Scene are a forest, for every set of ids: parents     *)
(* stay alive but for strays, cycles are entities that are their own       *)
(* parent, and every operation is a step of EntityForest.                  *)
(*                                                                         *)
(* ParentsAlive is not inductive: an entity could leave at the end of the  *)
(* frame before its children.  QueuedTogether adds that, at every moment   *)
(* of the frame, what is below a queued entity is queued or a stray.       *)
(***************************************************************************)
EXTENDS SceneHierarchy, TLAPS

QueuedTogether ==
  \A e \in entities \ {root} : parentID[e] \in Queued => e \in Queued \union strays

HierarchyInv == TypeOK /\ ParentsAlive /\ OnlySelfCycles /\ QueuedTogether

-----------------------------------------------------------------------------
(* Facts about walks and about the three ways a step changes the parents     *)

(* What the walk of ReparentEntity visits is closed under parents that exist. *)
LEMMA AboveClosed ==
  ASSUME NEW e \in entities, NEW x \in Above(e) \union {e}, parentID[x] \in entities
  PROVE  parentID[x] \in Above(e)
<1>1. ASSUME NEW S \in SUBSET entities,
             \A y \in S \union {e} : parentID[y] \in entities => parentID[y] \in S
      PROVE  parentID[x] \in S
  <2>1. x \in S \union {e}
    BY <1>1 DEF Above
  <2>. QED
    BY <1>1, <2>1
<1>. QED
  BY <1>1 DEF Above

(* The subtree that the deletions collect contains, with an entity, all the  *)
(* entities whose parent it is.                                              *)
LEMMA SubtreeClosed ==
  ASSUME NEW e \in entities
  PROVE  /\ Subtree(e) \subseteq entities
         /\ \A x \in entities : parentID[x] \in Subtree(e) => x \in Subtree(e)
<1>1. Subtree(e) \subseteq entities
  BY DEF Subtree
<1>2. ASSUME NEW x \in entities, parentID[x] \in Subtree(e)
      PROVE  x \in Subtree(e)
  <2>. DEFINE y == parentID[x]
  <2>1. y \in entities
    BY <1>1, <1>2
  <2>2. ASSUME NEW S \in SUBSET entities,
               \A z \in S \union {x} : parentID[z] \in entities => parentID[z] \in S
        PROVE  e \in S
    <3>1. y \in S
      BY <2>1, <2>2
    <3>2. CASE y = e
      BY <3>1, <3>2
    <3>3. CASE e \in Above(y)
      <4>1. \A z \in S \union {y} : parentID[z] \in entities => parentID[z] \in S
        BY <2>2, <3>1
      <4>. QED
        BY <3>3, <4>1 DEF Above
    <3>. QED
      BY <1>2, <3>2, <3>3 DEF Subtree
  <2>3. e \in Above(x)
    BY <2>2 DEF Above
  <2>. QED
    BY <2>3 DEF Subtree
<1>. QED
  BY <1>1, <1>2

(* A new leaf closes no cycle: nobody's parent is an id not yet handed out.  *)
LEMMA AddForest ==
  ASSUME TypeOK, OnlySelfCycles, NEW e \in Entity \ created, NEW p \in created
  PROVE  Forest!SelfCycles([x \in entities \union {e} |-> IF x = e THEN p ELSE parentID[x]])
<1>. DEFINE f == [x \in entities \union {e} |-> IF x = e THEN p ELSE parentID[x]]
<1>. SUFFICES ASSUME NEW S \in SUBSET (entities \union {e}), S # {}, \A n \in S : f[n] \in S
              PROVE  \E n \in S : f[n] = n
  BY DEF Forest!SelfCycles
<1>1. S \ {e} # {}
  <2>1. CASE e \in S
    <3>1. f[e] = p /\ p # e
      OBVIOUS
    <3>. QED
      BY <2>1, <3>1
  <2>. QED
    BY <2>1
<1>2. \A n \in S \ {e} : f[n] = parentID[n] /\ parentID[n] \in S \ {e}
  <2>. SUFFICES ASSUME NEW n \in S \ {e}
                PROVE  f[n] = parentID[n] /\ parentID[n] \in S \ {e}
    OBVIOUS
  <2>1. n \in entities /\ f[n] = parentID[n]
    OBVIOUS
  <2>2. parentID[n] \in created \union {Null}
    BY <2>1 DEF TypeOK
  <2>3. parentID[n] # e
    BY <2>2, EntityAssumption
  <2>. QED
    BY <2>1, <2>3
<1>3. PICK n \in S \ {e} : parentID[n] = n
  BY <1>1, <1>2 DEF OnlySelfCycles, Forest!SelfCycles, entities
<1>. QED
  BY <1>2, <1>3

(* Nor does moving an entity under one that the walk from there never finds, *)
(* but for the entity itself.                                                *)
LEMMA MoveForest ==
  ASSUME TypeOK, OnlySelfCycles, NEW e \in entities, NEW p \in entities, e \notin Above(p)
  PROVE  Forest!SelfCycles([parentID EXCEPT ![e] = p])
<1>. DEFINE f == [parentID EXCEPT ![e] = p]
<1>. SUFFICES ASSUME NEW S \in SUBSET entities, S # {}, \A n \in S : f[n] \in S
              PROVE  \E n \in S : f[n] = n
  BY DEF Forest!SelfCycles, TypeOK
<1>1. \A n \in S \ {e} : f[n] = parentID[n] /\ parentID[n] \in S
  BY DEF TypeOK
<1>2. f[e] = p
  BY DEF TypeOK
<1>3. CASE e \notin S
  BY <1>1, <1>3 DEF OnlySelfCycles, Forest!SelfCycles, entities
<1>4. CASE e \in S /\ p = e
  BY <1>2, <1>4
<1>5. CASE e \in S /\ p # e
  <2>. DEFINE A == (Above(p) \union {p}) \intersect S
  <2>1. p \in A /\ e \notin A
    BY <1>2, <1>5
  <2>2. \A n \in A : parentID[n] \in A
    BY <1>1, <2>1, AboveClosed
  <2>3. PICK n \in A : parentID[n] = n
    BY <2>1, <2>2 DEF OnlySelfCycles, Forest!SelfCycles, entities
  <2>. QED
    BY <1>1, <2>1, <2>3
<1>. QED
  BY <1>3, <1>4, <1>5

(* Removing entities closes no cycle.                                        *)
LEMMA PruneForest ==
  ASSUME OnlySelfCycles, NEW T \in SUBSET entities
  PROVE  Forest!SelfCycles([x \in T |-> parentID[x]])
<1>. SUFFICES ASSUME NEW S \in SUBSET T, S # {}, \A n \in S : parentID[n] \in S
              PROVE  \E n \in S : parentID[n] = n
  BY DEF Forest!SelfCycles
<1>. QED
  BY DEF OnlySelfCycles, Forest!SelfCycles, entities

-----------------------------------------------------------------------------
(* The inductive invariant                                                   *)

LEMMA InitHierarchy == Init => HierarchyInv
<1>. SUFFICES ASSUME Init PROVE HierarchyInv
  OBVIOUS
<1>1. entities = {root} /\ parentID[root] = Null /\ Queued = {} /\ root # Null
  BY EntityAssumption DEF Init, None, Queued, entities
<1>2. TypeOK
  BY <1>1, EntityAssumption DEF Init, TypeOK, None
<1>3. ParentsAlive /\ OnlySelfCycles
  BY <1>1 DEF ParentsAlive, OnlySelfCycles, Forest!Closed, Forest!SelfCycles, entities
<1>4. QueuedTogether
  BY <1>1 DEF QueuedTogether
<1>. QED
  BY <1>2, <1>3, <1>4 DEF HierarchyInv

(* An entity created under whatever was once handed out.                     *)
LEMMA NewEntityKeeps ==
  ASSUME HierarchyInv,
         NEW e \in Entity, NEW p \in created, NEW list \in [Entity -> Nat],
         NewEntity(e, p, list), copied' \in BOOLEAN
  PROVE  HierarchyInv'
<1>. USE DEF HierarchyInv
<1>1. /\ e \in Entity \ created /\ e \notin entities /\ e # root /\ e # Null /\ p # Null
      /\ e \notin Queued /\ root \in entities /\ entities' = entities \union {e}
  BY EntityAssumption DEF TypeOK, NewEntity, entities
<1>2. /\ parentID' = [x \in entities \union {e} |-> IF x = e THEN p ELSE parentID[x]]
      /\ deletionQueue' = deletionQueue /\ Queued' = Queued /\ created' = created \union {e}
  BY DEF NewEntity, Queued
<1>3. /\ strays' \ {e} = strays \ {e} /\ strays' \subseteq strays \union {e}
      /\ p \notin entities \ Queued => e \in strays'
  BY <1>1 DEF NewEntity, Straying
<1>4. TypeOK'
  <2>1. [chilren EXCEPT ![root][e] = @ + 1] \in [entities -> [Entity -> Nat]]
    BY <1>1 DEF TypeOK
  <2>2. chilren' \in [entities' -> [Entity -> Nat]]
    BY <1>1, <2>1 DEF NewEntity
  <2>3. parentID' \in [entities' -> created' \union {Null}]
    BY <1>1, <1>2 DEF TypeOK
  <2>4. \A x \in entities' : parentID'[x] = Null <=> x = root
    BY <1>1, <1>2 DEF TypeOK
  <2>. QED
    BY <1>1, <1>2, <1>3, <2>2, <2>3, <2>4 DEF TypeOK
<1>5. ParentsAlive'
  BY <1>1, <1>2, <1>3 DEF ParentsAlive, Forest!Closed, entities
<1>6. OnlySelfCycles'
  BY <1>1, <1>2, AddForest DEF OnlySelfCycles
<1>7. QueuedTogether'
  BY <1>1, <1>2, <1>3 DEF QueuedTogether
<1>. QED
  BY <1>4, <1>5, <1>6, <1>7

(* Entities destroyed together with everything below them but strays.        *)
LEMMA DestroyKeeps ==
  ASSUME HierarchyInv, NEW S \in SUBSET entities,
         \A x \in entities \ {root} : parentID[x] \in S => x \in S \union strays,
         Destroy(S), deletionQueue' \in [Entity -> Nat],
         Queued' = Queued \/ Queued' = {}
  PROVE  HierarchyInv'
<1>. USE DEF HierarchyInv
<1>1. /\ entities' = entities \ S /\ strays' = strays \ S
      /\ parentID' = [x \in entities \ S |-> parentID[x]]
      /\ UNCHANGED <<created, copied>>
  BY DEF Destroy, Restrict, entities
<1>2. TypeOK'
  <2>1. chilren' \in [entities' -> [Entity -> Nat]]
    BY <1>1 DEF Destroy, Restrict, TypeOK
  <2>2. parentID' \in [entities' -> created' \union {Null}]
    BY <1>1 DEF TypeOK
  <2>. QED
    BY <1>1, <2>1, <2>2 DEF TypeOK
<1>3. ParentsAlive'
  BY <1>1 DEF ParentsAlive, Forest!Closed, entities
<1>4. OnlySelfCycles'
  BY <1>1, PruneForest DEF OnlySelfCycles
<1>5. QueuedTogether'
  BY <1>1 DEF QueuedTogether
<1>. QED
  BY <1>2, <1>3, <1>4, <1>5

(* The queue takes whole subtrees.                                           *)
LEMMA QueueKeeps ==
  ASSUME HierarchyInv, NEW e \in Entity, DefferedDelete(e)
  PROVE  HierarchyInv'
<1>. USE DEF HierarchyInv
<1>1. /\ e \in entities /\ UNCHANGED <<parentID, chilren, created, copied, strays>>
      /\ deletionQueue' = [x \in Entity |-> deletionQueue[x] + IF x \in Subtree(e) THEN 1 ELSE 0]
  BY DEF DefferedDelete
<1>2. /\ Subtree(e) \subseteq entities
      /\ \A x \in entities : parentID[x] \in Subtree(e) => x \in Subtree(e)
  BY <1>1, SubtreeClosed
<1>3. Queued' = Queued \union Subtree(e)
  BY <1>1, <1>2 DEF Queued, TypeOK
<1>4. TypeOK'
  BY <1>1, <1>2, <1>3 DEF TypeOK, entities
<1>5. ParentsAlive' /\ OnlySelfCycles'
  BY <1>1 DEF ParentsAlive, OnlySelfCycles
<1>6. QueuedTogether'
  BY <1>1, <1>2, <1>3 DEF QueuedTogether, entities
<1>. QED
  BY <1>4, <1>5, <1>6

(* An entity moved under a queued one is queued itself or becomes a stray.   *)
LEMMA ReparentKeeps ==
  ASSUME HierarchyInv, NEW e \in Entity, NEW p \in Entity, ReparentEntity(e, p)
  PROVE  HierarchyInv'
<1>. USE DEF HierarchyInv
<1>1. /\ e \in entities \ {root} /\ p \in entities /\ parentID[e] \in entities
      /\ e \notin Above(p) /\ entities' = entities
      /\ parentID' = [parentID EXCEPT ![e] = p]
      /\ UNCHANGED <<deletionQueue, created, copied>>
  BY DEF ReparentEntity, entities
<1>2. /\ strays' \ {e} = strays \ {e} /\ strays' \subseteq strays \union {e}
      /\ p \in Queued /\ e \notin Queued => e \in strays'
  BY <1>1 DEF ReparentEntity, Straying
<1>3. TypeOK'
  <2>. DEFINE q == parentID[e]
  <2>1. PICK left \in Erased(chilren[q], e) :
          chilren' = [[chilren EXCEPT ![q] = left] EXCEPT ![p][e] = @ + 1]
    BY DEF ReparentEntity
  <2>2. left \in [Entity -> Nat]
    BY <1>1 DEF Erased, Drop, TypeOK
  <2>3. [chilren EXCEPT ![q] = left] \in [entities -> [Entity -> Nat]]
    BY <2>2 DEF TypeOK
  <2>4. chilren' \in [entities' -> [Entity -> Nat]]
    BY <1>1, <2>1, <2>3
  <2>5. parentID' \in [entities' -> created' \union {Null}]
    BY <1>1 DEF TypeOK
  <2>6. \A x \in entities' : parentID'[x] = Null <=> x = root
    BY <1>1, EntityAssumption DEF TypeOK
  <2>7. Queued' = Queued
    BY <1>1 DEF Queued
  <2>. QED
    BY <1>1, <1>2, <2>4, <2>5, <2>6, <2>7 DEF TypeOK
<1>4. ParentsAlive'
  BY <1>1, <1>2 DEF ParentsAlive, Forest!Closed, entities, TypeOK
<1>5. OnlySelfCycles'
  BY <1>1, MoveForest DEF OnlySelfCycles
<1>6. QueuedTogether'
  BY <1>1, <1>2 DEF QueuedTogether, Queued, TypeOK
<1>. QED
  BY <1>3, <1>4, <1>5, <1>6

(* What a deletion removes: everything below what goes, but for strays.      *)
LEMMA Removed ==
  ASSUME HierarchyInv
  PROVE  /\ \A e \in Entity : DestroyEntity(e) =>
              /\ Subtree(e) \subseteq entities
              /\ \A x \in entities : parentID[x] \in Subtree(e) => x \in Subtree(e)
         /\ OnUpdateEditor =>
              /\ Queued \subseteq entities
              /\ \A x \in entities \ {root} : parentID[x] \in Queued => x \in Queued \union strays
<1>1. ASSUME NEW e \in Entity, DestroyEntity(e)
      PROVE  /\ Subtree(e) \subseteq entities
             /\ \A x \in entities : parentID[x] \in Subtree(e) => x \in Subtree(e)
  BY <1>1, SubtreeClosed DEF DestroyEntity
<1>2. ASSUME OnUpdateEditor
      PROVE  /\ Queued \subseteq entities
             /\ \A x \in entities \ {root} : parentID[x] \in Queued => x \in Queued \union strays
  BY <1>2 DEF OnUpdateEditor, HierarchyInv, QueuedTogether
<1>. QED
  BY <1>1, <1>2

LEMMA StepHierarchy == HierarchyInv /\ [Next]_vars => HierarchyInv'
<1>. SUFFICES ASSUME HierarchyInv, [Next]_vars PROVE HierarchyInv'
  OBVIOUS
<1>1. ASSUME NEW e \in Entity, CreateEntity(e) PROVE HierarchyInv'
  <2>1. root \in created /\ None \in [Entity -> Nat]
    BY DEF HierarchyInv, TypeOK, None
  <2>. QED
    BY <1>1, <2>1, NewEntityKeeps DEF CreateEntity, HierarchyInv, TypeOK
<1>2. ASSUME NEW o \in Entity, NEW e \in Entity, DuplicateEntity(o, e) PROVE HierarchyInv'
  <2>1. parentID[o] \in created /\ chilren[o] \in [Entity -> Nat]
    BY <1>2 DEF DuplicateEntity, HierarchyInv, TypeOK
  <2>. QED
    BY <1>2, <2>1, NewEntityKeeps DEF DuplicateEntity
<1>3. ASSUME NEW e \in Entity, NEW p \in Entity, ReparentEntity(e, p) PROVE HierarchyInv'
  BY <1>3, ReparentKeeps
<1>4. ASSUME NEW e \in Entity, DefferedDelete(e) PROVE HierarchyInv'
  BY <1>4, QueueKeeps
<1>5. ASSUME NEW e \in Entity, DestroyEntity(e) PROVE HierarchyInv'
  <2>1. Destroy(Subtree(e)) /\ deletionQueue' = deletionQueue /\ Queued' = Queued
    BY <1>5 DEF DestroyEntity, Queued
  <2>. QED
    BY <1>5, <2>1, Removed, DestroyKeeps DEF HierarchyInv, TypeOK
<1>6. ASSUME OnUpdateEditor PROVE HierarchyInv'
  <2>1. Destroy(Queued) /\ deletionQueue' = None /\ Queued' = {} /\ None \in [Entity -> Nat]
    BY <1>6 DEF OnUpdateEditor, Queued, None
  <2>. QED
    BY <1>6, <2>1, Removed, DestroyKeeps
<1>7. ASSUME UNCHANGED vars PROVE HierarchyInv'
  BY <1>7 DEF vars, HierarchyInv, TypeOK, ParentsAlive, OnlySelfCycles, QueuedTogether, Queued, entities
<1>. QED
  BY <1>1, <1>2, <1>3, <1>4, <1>5, <1>6, <1>7 DEF Next

LEMMA HierarchySound == Spec => []HierarchyInv
BY InitHierarchy, StepHierarchy, PTL DEF Spec

(* Ids, parents, numbers of list entries and the deletion queue keep their   *)
(* types whatever is created, duplicated, moved and destroyed.               *)
THEOREM HierarchyTyped == Spec => []TypeOK
<1>1. HierarchyInv => TypeOK
  BY DEF HierarchyInv
<1>. QED
  BY <1>1, HierarchySound, PTL

(* Whatever is queued, copied, moved and queued again within a frame, the    *)
(* parent of an entity outlives it unless the entity was put under a parent  *)
(* already queued or gone (DefferedDelete l.691, OnUpdateEditor l.866).      *)
THEOREM ParentsStayAlive == Spec => []ParentsAlive
<1>1. HierarchyInv => ParentsAlive
  BY DEF HierarchyInv
<1>. QED
  BY <1>1, HierarchySound, PTL

(* An entity reparented to itself is the only cycle ReparentEntity (l.640)   *)
(* ever closes: no two entities are above each other.                        *)
THEOREM CyclesAreSelf == Spec => []OnlySelfCycles
<1>1. HierarchyInv => OnlySelfCycles
  BY DEF HierarchyInv
<1>. QED
  BY <1>1, HierarchySound, PTL

-----------------------------------------------------------------------------
(* The Scene implements EntityForest                                         *)

LEMMA InitForest == Init => Forest!Init
BY DEF Init, Forest!Init

(* Each operation is the addition of a leaf, a move, a removal of whole      *)
(* subtrees, or leaves the parents alone.                                    *)
LEMMA StepForest ==
  HierarchyInv /\ HierarchyInv' /\ [Next]_vars => [Forest!Next]_<<parentID, strays>>
<1>. SUFFICES ASSUME HierarchyInv, HierarchyInv', [Next]_vars, ~ UNCHANGED <<parentID, strays>>
              PROVE  Forest!Next
  OBVIOUS
<1>1. Forest!IsForest(parentID', strays')
  BY DEF HierarchyInv, TypeOK, ParentsAlive, OnlySelfCycles, Forest!IsForest, entities
<1>2. ASSUME NEW e \in Entity, NEW p \in entities \union Forest!Range(parentID), NEW list,
             NewEntity(e, p, list)
      PROVE  Forest!Next
  <2>1. Forest!Add(e, p) /\ e \in DOMAIN parentID'
    BY <1>2 DEF NewEntity, Straying, Forest!Add, HierarchyInv, TypeOK, entities
  <2>. QED
    BY <1>1, <2>1 DEF Forest!Next, entities
<1>3. ASSUME NEW S \in SUBSET entities, Destroy(S)
      PROVE  Forest!Next
  <2>1. Forest!Prune(S)
    BY <1>3 DEF Destroy, Restrict, Forest!Prune, Forest!Restrict, entities
  <2>. QED
    BY <1>1, <2>1 DEF Forest!Next, entities
<1>4. ASSUME NEW e \in Entity, CreateEntity(e) PROVE Forest!Next
  BY <1>2, <1>4 DEF CreateEntity, NewEntity
<1>5. ASSUME NEW o \in Entity, NEW e \in Entity, DuplicateEntity(o, e) PROVE Forest!Next
  <2>1. parentID[o] \in Forest!Range(parentID)
    BY <1>5 DEF DuplicateEntity, Forest!Range, entities
  <2>. QED
    BY <1>2, <1>5, <2>1 DEF DuplicateEntity
<1>6. ASSUME NEW e \in Entity, NEW p \in Entity, ReparentEntity(e, p) PROVE Forest!Next
  <2>1. Forest!Move(e, p) /\ p \in DOMAIN parentID /\ e \in DOMAIN parentID'
    BY <1>6 DEF ReparentEntity, Straying, Forest!Move, entities
  <2>. QED
    BY <1>1, <2>1 DEF Forest!Next
<1>7. ASSUME NEW e \in Entity, DefferedDelete(e) PROVE FALSE
  BY <1>7 DEF DefferedDelete
<1>8. ASSUME NEW e \in Entity, DestroyEntity(e) PROVE Forest!Next
  BY <1>3, <1>8, Removed DEF DestroyEntity
<1>9. ASSUME OnUpdateEditor PROVE Forest!Next
  BY <1>3, <1>9, Removed DEF OnUpdateEditor
<1>10. ~ UNCHANGED vars
  BY DEF vars
<1>. QED
  BY <1>4, <1>5, <1>6, <1>7, <1>8, <1>9, <1>10 DEF Next

(* Creating, copying, reparenting and both ways of deleting entities, in any *)
(* order and number, are steps of one forest of entities (EntityForest).     *)
THEOREM SceneIsForest == Spec => ImplementsForest
BY HierarchySound, InitForest, StepForest, PTL DEF Spec, ImplementsForest, Forest!Spec

-----------------------------------------------------------------------------
(* The lists of children                                                     *)

(* An id that was never handed out is in no list.                            *)
ListedCreated == \A p \in entities, e \in Entity \ created : chilren[p][e] = 0

ListsInv == ListedCreated /\ ChildrenListed

LEMMA InitLists == Init => ListsInv
BY EntityAssumption DEF Init, ListsInv, ListedCreated, ChildrenListed, None, entities

LEMMA NewEntityLists ==
  ASSUME HierarchyInv, ListsInv,
         NEW e \in Entity, NEW p, NEW list \in [Entity -> Nat],
         \A x \in Entity \ created : list[x] = 0, NewEntity(e, p, list)
  PROVE  /\ ListedCreated'
         /\ ~copied /\ p = root /\ list = None /\ UNCHANGED copied => ChildrenListed'
<1>. DEFINE pushed == [chilren EXCEPT ![root][e] = @ + 1]
<1>1. /\ root \in entities /\ e \notin created /\ e \notin entities
      /\ created' = created \union {e} /\ entities' = entities \union {e}
      /\ chilren \in [entities -> [Entity -> Nat]]
  BY DEF NewEntity, HierarchyInv, TypeOK, entities
<1>2. \A q \in entities, x \in Entity :
        chilren'[q][x] = chilren[q][x] + IF q = root /\ x = e THEN 1 ELSE 0
  BY <1>1 DEF NewEntity
<1>3. chilren'[e] = list
  BY <1>1 DEF NewEntity
<1>4. ListedCreated'
  BY <1>1, <1>2, <1>3 DEF ListsInv, ListedCreated
<1>5. ASSUME ~copied, p = root, list = None, UNCHANGED copied
      PROVE  ChildrenListed'
  <2>. SUFFICES ASSUME NEW x \in entities' \ {root}, NEW q \in entities'
                PROVE  chilren'[q][x] = IF q = parentID'[x] THEN 1 ELSE 0
    BY <1>5 DEF ChildrenListed
  <2>1. parentID' = [y \in entities \union {e} |-> IF y = e THEN root ELSE parentID[y]]
    BY <1>5 DEF NewEntity
  <2>2. CASE q = e
    <3>1. chilren'[q][x] = 0
      BY <1>1, <1>3, <1>5, <2>2 DEF None, HierarchyInv, TypeOK
    <3>2. parentID'[x] # e
      BY <1>1, <2>1, EntityAssumption DEF HierarchyInv, TypeOK
    <3>. QED
      BY <2>2, <3>1, <3>2
  <2>3. CASE q # e /\ x = e
    <3>1. chilren[q][x] = 0
      BY <1>1, <2>3 DEF ListsInv, ListedCreated
    <3>. QED
      BY <1>1, <1>2, <2>1, <2>3, <3>1
  <2>4. CASE q # e /\ x # e
    <3>1. q \in entities /\ x \in entities \ {root} /\ x \in Entity
      BY <1>1, <2>4 DEF HierarchyInv, TypeOK
    <3>2. chilren[q][x] = IF q = parentID[x] THEN 1 ELSE 0
      BY <1>5, <3>1 DEF ListsInv, ChildrenListed
    <3>3. parentID'[x] = parentID[x] /\ chilren'[q][x] = chilren[q][x]
      BY <1>1, <1>2, <2>1, <2>4, <3>1, <3>2
    <3>. QED
      BY <3>2, <3>3
  <2>. QED
    BY <2>2, <2>3, <2>4
<1>. QED
  BY <1>4, <1>5

LEMMA ReparentLists ==
  ASSUME HierarchyInv, ListsInv,
         NEW e \in Entity, NEW p \in Entity, ReparentEntity(e, p)
  PROVE  ListsInv'
<1>. DEFINE q == parentID[e]
<1>1. /\ e \in entities \ {root} /\ p \in entities /\ q \in entities
      /\ entities' = entities /\ UNCHANGED <<created, copied>>
      /\ parentID' = [parentID EXCEPT ![e] = p]
      /\ chilren \in [entities -> [Entity -> Nat]]
      /\ parentID \in [entities -> created \union {Null}]
      /\ entities \subseteq created /\ created \subseteq Entity
  BY DEF ReparentEntity, HierarchyInv, TypeOK, entities
<1>2. PICK left \in Erased(chilren[q], e) :
        chilren' = [[chilren EXCEPT ![q] = left] EXCEPT ![p][e] = @ + 1]
  BY DEF ReparentEntity
<1>3. left \in [Entity -> Nat] /\ \A x \in Entity : chilren[q][x] = 0 => left[x] = 0
  BY <1>1, <1>2 DEF Erased, Drop
<1>4. \A r \in entities, x \in Entity :
        chilren'[r][x] = (IF r = q THEN left[x] ELSE chilren[r][x])
                         + (IF r = p /\ x = e THEN 1 ELSE 0)
  BY <1>1, <1>2, <1>3
<1>5. ListedCreated'
  BY <1>1, <1>3, <1>4 DEF ListsInv, ListedCreated
<1>6. ASSUME ~copied
      PROVE  ChildrenListed'
  <2>. SUFFICES ASSUME NEW x \in entities \ {root}, NEW r \in entities
                PROVE  chilren'[r][x] = IF r = parentID'[x] THEN 1 ELSE 0
    BY <1>1 DEF ChildrenListed
  <2>1. \A y \in entities \ {root}, s \in entities :
          chilren[s][y] = IF s = parentID[y] THEN 1 ELSE 0
    BY <1>6 DEF ListsInv, ChildrenListed
  <2>2. left = Drop(chilren[q], e)
    BY <1>1, <1>2, <2>1 DEF Erased
  <2>3. \A y \in Entity : left[y] = IF y = e THEN 0 ELSE chilren[q][y]
    BY <1>1, <2>1, <2>2 DEF Drop
  <2>4. x \in Entity
    BY <1>1
  <2>5. CASE x = e
    BY <1>1, <1>4, <2>1, <2>3, <2>4, <2>5
  <2>6. CASE x # e
    <3>1. chilren'[r][x] = chilren[r][x] /\ parentID'[x] = parentID[x]
      BY <1>1, <1>4, <2>1, <2>3, <2>4, <2>6
    <3>. QED
      BY <2>1, <3>1
  <2>. QED
    BY <2>5, <2>6
<1>. QED
  BY <1>1, <1>5, <1>6 DEF ListsInv, ChildrenListed

LEMMA DestroyLists ==
  ASSUME HierarchyInv, ListsInv, NEW S \in SUBSET entities, Destroy(S)
  PROVE  ListsInv'
<1>1. /\ entities' = entities \ S /\ UNCHANGED <<created, copied>>
      /\ parentID' = [x \in entities \ S |-> parentID[x]]
      /\ chilren' = [x \in entities \ S |-> chilren[x]]
  BY DEF Destroy, Restrict, entities
<1>. QED
  BY <1>1 DEF ListsInv, ListedCreated, ChildrenListed

LEMMA StepLists == HierarchyInv /\ ListsInv /\ [Next]_vars => ListsInv'
<1>. SUFFICES ASSUME HierarchyInv, ListsInv, [Next]_vars PROVE ListsInv'
  OBVIOUS
<1>1. ASSUME NEW e \in Entity, CreateEntity(e) PROVE ListsInv'
  <2>1. None \in [Entity -> Nat] /\ \A x \in Entity : None[x] = 0
    BY DEF None
  <2>2. ListedCreated' /\ (~copied => ChildrenListed') /\ UNCHANGED copied
    BY <1>1, <2>1, NewEntityLists DEF CreateEntity, HierarchyInv, TypeOK
  <2>. QED
    BY <2>2 DEF ListsInv, ChildrenListed
<1>2. ASSUME NEW o \in Entity, NEW e \in Entity, DuplicateEntity(o, e) PROVE ListsInv'
  <2>1. o \in entities
    BY <1>2 DEF DuplicateEntity
  <2>2. chilren[o] \in [Entity -> Nat] /\ \A x \in Entity \ created : chilren[o][x] = 0
    BY <2>1 DEF HierarchyInv, TypeOK, ListsInv, ListedCreated
  <2>3. ListedCreated' /\ copied'
    BY <1>2, <2>1, <2>2, NewEntityLists DEF DuplicateEntity
  <2>. QED
    BY <2>3 DEF ListsInv, ChildrenListed
<1>3. ASSUME NEW e \in Entity, NEW p \in Entity, ReparentEntity(e, p) PROVE ListsInv'
  BY <1>3, ReparentLists
<1>4. ASSUME NEW e \in Entity, DefferedDelete(e) PROVE ListsInv'
  BY <1>4 DEF DefferedDelete, ListsInv, ListedCreated, ChildrenListed, entities
<1>5. ASSUME NEW e \in Entity, DestroyEntity(e) PROVE ListsInv'
  BY <1>5, Removed, DestroyLists DEF DestroyEntity
<1>6. ASSUME OnUpdateEditor PROVE ListsInv'
  BY <1>6, Removed, DestroyLists DEF OnUpdateEditor
<1>7. ASSUME UNCHANGED vars PROVE ListsInv'
  BY <1>7 DEF vars, ListsInv, ListedCreated, ChildrenListed, entities
<1>. QED
  BY <1>1, <1>2, <1>3, <1>4, <1>5, <1>6, <1>7 DEF Next

(* As long as DuplicateEntity is not called, the lists UpdateTransforms      *)
(* follows and the parents ReparentEntity follows are the same tree: an      *)
(* entity is listed once, by its parent.                                     *)
THEOREM ListsFollowParents == Spec => []ChildrenListed
<1>1. ListsInv => ChildrenListed
  BY DEF ListsInv
<1>. QED
  BY <1>1, HierarchySound, InitLists, StepLists, PTL DEF Spec
=============================================================================
