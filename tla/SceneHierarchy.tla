--------------------------- MODULE SceneHierarchy ---------------------------
(***************************************************************************)
(* The entities of a Scene and their HierarchyComponents.  The relation is *)
(* kept twice, as each entity's parentID, which ReparentEntity and the two *)
(* deletions follow, and as each entity's list of children, which          *)
(* UpdateTransforms follows from the root in every frame.                  *)
(*                                                                         *)
(* An entity's id carries the version of its slot, so an id does not come  *)
(* back.  A list is a bag, [Entity -> Nat]: only traversal order, which    *)
(* nothing depends on, is lost.                                            *)
(*                                                                         *)
(* Callers pass entities that exist, nothing else is asked of them: they   *)
(* copy and move what is queued, queue it again, delete the root, and      *)
(* reparent an entity to itself.  A call that would not end, or that reads *)
(* components of an entity that is gone, is the last the program makes and *)
(* no step.                                                                *)
(***************************************************************************)
EXTENDS Naturals, Functions

CONSTANTS
  Entity,  \* the ids the registry hands out
  root,    \* the first of them, (entt::entity)0
  Null,    \* entt::null
  MaxQueued  \* bound of the model: how often an id is queued

ASSUME EntityAssumption == root \in Entity /\ Null \notin Entity /\ MaxQueued \in Nat

VARIABLES
  parentID,       \* HierarchyComponent::parentID of the entities that exist
  chilren,        \* HierarchyComponent::chilren of the entities that exist
  deletionQueue,  \* how often each id is queued
  created,        \* history: the ids handed out so far
  copied,         \* history: DuplicateEntity has made a copy
  strays          \* history: the entities that got a parent already queued or gone

vars == <<parentID, chilren, deletionQueue, created, copied, strays>>

entities == DOMAIN parentID
None == [e \in Entity |-> 0]

Queued == {e \in Entity : deletionQueue[e] > 0}

(* Every entity has a HierarchyComponent, and only the root has no parent. *)
TypeOK ==
  /\ root \in created /\ entities \subseteq created /\ created \subseteq Entity
  /\ parentID \in [entities -> created \union {Null}]
  /\ \A e \in entities : parentID[e] = Null <=> e = root
  /\ chilren \in [entities -> [Entity -> Nat]]
  /\ deletionQueue \in [Entity -> Nat] /\ Queued \subseteq created
  /\ copied \in BOOLEAN
  /\ strays \subseteq entities \ {root}

Init ==
  /\ parentID = [e \in {root} |-> Null]
  /\ chilren = [e \in {root} |-> None]
  /\ deletionQueue = None
  /\ created = {root}
  /\ copied = FALSE
  /\ strays = {}

-----------------------------------------------------------------------------
(* Walking the parents and the children                                      *)

(* What is visited from e's parent upwards: the least set that holds the     *)
(* parent of e and of each of its members, as far as they exist.             *)
Above(e) ==
  {a \in entities : \A S \in SUBSET entities :
     (\A x \in S \union {e} : parentID[x] \in entities => parentID[x] \in S) => a \in S}

(* The loop of ReparentEntity ends at the root's entt::null; from any other  *)
(* place it follows a cycle or the parent of an entity that is gone.         *)
Rooted(e) == root \in Above(e) \union {e}

(* The entities the recursion over parentID reaches from e.  It ends unless  *)
(* it comes back to e.                                                       *)
Subtree(e) == {x \in entities : x = e \/ e \in Above(x)}
RecursionEnds(e) == e \notin Above(e)

(* What UpdateTransforms reaches from the root over the lists.  It ends      *)
(* unless some of it list each other in a circle.                            *)
Traversed ==
  {x \in Entity : \A S \in SUBSET Entity :
     (root \in S /\ \A p \in S \intersect entities, c \in Entity :
                      chilren[p][c] > 0 => c \in S) => x \in S}
TraversalEnds ==
  ~ \E S \in SUBSET (Traversed \intersect entities) :
      S # {} /\ \A p \in S : \E c \in S : chilren[p][c] > 0

(* A list after erase(find(list, e)).  Erasing end() is undefined when e is  *)
(* not in the list; a release build drops the last element or nothing.       *)
Drop(list, e) == [list EXCEPT ![e] = @ - 1]
Erased(list, e) ==
  IF list[e] > 0 THEN {Drop(list, e)}
  ELSE {list} \union {Drop(list, x) : x \in {y \in Entity : list[y] > 0}}

-----------------------------------------------------------------------------
(* The operations                                                            *)

(* The entities that outlive their parent when e is put under it now.        *)
Straying(e, parent) ==
  IF e \notin Queued /\ parent \notin entities \ Queued THEN strays \union {e} ELSE strays \ {e}

(* A new entity with this parent and list; the root's list gets it whatever  *)
(* its parent is.                                                            *)
NewEntity(e, parent, list) ==
  LET pushed == [chilren EXCEPT ![root][e] = @ + 1]
  IN  /\ root \in entities /\ e \in Entity \ created
      /\ parentID' = [x \in entities \union {e} |-> IF x = e THEN parent ELSE parentID[x]]
      /\ chilren' = [x \in entities \union {e} |-> IF x = e THEN list ELSE pushed[x]]
      /\ created' = created \union {e}
      /\ strays' = Straying(e, parent)
      /\ UNCHANGED deletionQueue

CreateEntity(e) ==
  /\ NewEntity(e, root, None)
  /\ UNCHANGED copied

(* Mistake: copies the root like any other entity. *)
DuplicateEntityRoot(original, e) ==
  /\ original \in entities
  /\ NewEntity(e, parentID[original], chilren[original])
  /\ copied' = TRUE

(* The copy takes over the HierarchyComponent as a whole: the parent and the *)
(* children of the original.                                                 *)
DuplicateEntity(original, e) ==
  /\ original \in entities /\ parentID[original] # Null
  /\ NewEntity(e, parentID[original], chilren[original])
  /\ copied' = TRUE

(* Mistake: looks at the new parent's parent only. *)
ReparentEntityShallow(e, newParent) ==
  /\ {e, newParent} \subseteq entities /\ e # root /\ parentID[e] \in entities
  /\ Rooted(newParent) /\ parentID[newParent] # e
  /\ \E left \in Erased(chilren[parentID[e]], e) :
       LET erased == [chilren EXCEPT ![parentID[e]] = left]
       IN  chilren' = [erased EXCEPT ![newParent][e] = @ + 1]
  /\ parentID' = [parentID EXCEPT ![e] = newParent]
  /\ strays' = Straying(e, newParent)
  /\ UNCHANGED <<deletionQueue, created, copied>>

(* Mistake: leaves the entity in its old parent's list. *)
ReparentEntityListed(e, newParent) ==
  /\ {e, newParent} \subseteq entities /\ e # root /\ parentID[e] \in entities
  /\ Rooted(newParent) /\ e \notin Above(newParent)
  /\ chilren' = [chilren EXCEPT ![newParent][e] = @ + 1]
  /\ parentID' = [parentID EXCEPT ![e] = newParent]
  /\ strays' = Straying(e, newParent)
  /\ UNCHANGED <<deletionQueue, created, copied>>

(* The walk starts at the new parent's parent, so an entity may become its   *)
(* own parent.                                                               *)
ReparentEntity(e, newParent) ==
  /\ {e, newParent} \subseteq entities /\ e # root /\ parentID[e] \in entities
  /\ Rooted(newParent) /\ e \notin Above(newParent)
  /\ \E left \in Erased(chilren[parentID[e]], e) :
       LET erased == [chilren EXCEPT ![parentID[e]] = left]
       IN  chilren' = [erased EXCEPT ![newParent][e] = @ + 1]
  /\ parentID' = [parentID EXCEPT ![e] = newParent]
  /\ strays' = Straying(e, newParent)
  /\ UNCHANGED <<deletionQueue, created, copied>>

(* Mistake: queues the entity without its subtree. *)
DefferedDeleteShallow(e) ==
  /\ e \in entities /\ deletionQueue[e] < MaxQueued
  /\ deletionQueue' = [deletionQueue EXCEPT ![e] = @ + 1]
  /\ UNCHANGED <<parentID, chilren, created, copied, strays>>

DefferedDelete(e) ==
  /\ e \in entities /\ RecursionEnds(e)
  /\ LET tree == Subtree(e)
     IN  /\ \A x \in tree : deletionQueue[x] < MaxQueued
         /\ deletionQueue' = [x \in Entity |-> deletionQueue[x] + IF x \in tree THEN 1 ELSE 0]
  /\ UNCHANGED <<parentID, chilren, created, copied, strays>>

(* registry.destroy: the components go; lists of others keep the ids.        *)
Destroy(S) ==
  /\ parentID' = Restrict(parentID, entities \ S)
  /\ chilren' = Restrict(chilren, entities \ S)
  /\ strays' = strays \ S
  /\ UNCHANGED <<created, copied>>

(* Mistake: destroys the entity without its children. *)
DestroyEntityShallow(e) ==
  /\ e \in entities
  /\ Destroy({e})
  /\ UNCHANGED deletionQueue

(* Destroys while it iterates over the pool it destroys in, which entt       *)
(* allows only for the entity being visited: deeper subtrees are undefined.  *)
DestroyEntity(e) ==
  /\ e \in entities /\ RecursionEnds(e)
  /\ LET tree == Subtree(e)
     IN  (\A x \in tree \ {e} : parentID[x] = e) /\ Destroy(tree)
  /\ UNCHANGED deletionQueue

(* UpdateTransforms writes no component of the hierarchy.  Destroying an id  *)
(* twice, or one that is gone, is undefined.                                 *)
OnUpdateEditor ==
  /\ root \in entities
  /\ \A e \in Queued : deletionQueue[e] = 1 /\ e \in entities
  /\ TraversalEnds
  /\ Destroy(Queued)
  /\ deletionQueue' = None

Next ==
  \/ \E e \in Entity : CreateEntity(e)
  \/ \E e, x \in Entity : ReparentEntity(e, x) \/ DuplicateEntity(e, x)
  \/ \E e \in Entity : DefferedDelete(e) \/ DestroyEntity(e)
  \/ OnUpdateEditor

Spec == Init /\ [][Next]_vars

-----------------------------------------------------------------------------
(* Properties                                                                *)

Forest == INSTANCE EntityForest WITH parent <- parentID

(* A parentID dangles only where an entity was put under a parent already    *)
(* queued or gone: every deletion takes the whole subtree, as it is at the   *)
(* end of the frame, but for those (DefferedDelete l.691, DestroyEntity      *)
(* l.681, OnUpdateEditor l.866).                                             *)
ParentsAlive == Forest!Closed(parentID, strays)

(* No two entities are each other's ancestors: whatever is moved, copied and *)
(* deleted, ReparentEntity (l.640) closes no cycle but that of an entity     *)
(* reparented to itself, which its walk does not see.                        *)
OnlySelfCycles == Forest!SelfCycles(parentID)

(* While nothing was copied, an entity is listed exactly once, by its        *)
(* parent: ReparentEntity finds what it erases (l.646) and UpdateTransforms  *)
(* visits every entity once, after its parent (l.819).                       *)
ChildrenListed ==
  ~copied => \A e \in entities \ {root}, p \in entities :
                   chilren[p][e] = IF p = parentID[e] THEN 1 ELSE 0

(* The operations together are a forest that grows by leaves, moves subtrees *)
(* and loses whole subtrees but for their strays, and change no other parent *)
(* on the way.                                                               *)
ImplementsForest == Forest!Spec

(* The deletions at the end of a frame, which Scene.md l.37 calls perfectly  *)
(* safe, leave UpdateTransforms (l.816) nothing but entities that exist.     *)
DeletionSafe ==
  [][OnUpdateEditor /\ root \notin Queued /\ Traversed \subseteq entities
       => (Traversed \subseteq entities)']_vars

(* The queue destroys no entity twice (l.866) because scripts' calls to      *)
(* DestroyEntity, each for an entity not queued yet, follow one another,     *)
(* which Scene.md l.37 calls perfectly safe.                                 *)
NoneTwice == \A e \in Entity : deletionQueue[e] <= 1
QueuedOnce ==
  [][NoneTwice /\ root \notin Queued /\ (\E e \in Entity \ (Queued \union {root}) : DefferedDelete(e))
       => NoneTwice']_vars
=============================================================================
