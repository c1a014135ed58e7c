---------------------------- MODULE EntityForest ----------------------------
(***************************************************************************)
(* What a Scene keeps to with its entities' parents, whatever its callers  *)
(* do: the entities are a forest, and a step adds one leaf, moves one      *)
(* subtree, or removes whole subtrees; it never touches the parent of      *)
(* anything else.  All of them are under the root but for strays, whose    *)
(* parent may be gone, and entities that are their own parent.  An entity  *)
(* turns into a stray only in the step that puts it where it is.           *)
(***************************************************************************)
EXTENDS Functions

CONSTANTS root, Null

VARIABLES
  parent,  \* a function from the entities that exist to their parents
  strays   \* those of them that may outlive their parent

(* Everything but the root and the strays has a parent that exists ...     *)
Closed(f, S) == \A e \in DOMAIN f \ ({root} \union S) : f[e] \in DOMAIN f
(* ... and a cycle of parents is one entity.                               *)
SelfCycles(f) ==
  \A S \in SUBSET DOMAIN f :
    S # {} /\ (\A e \in S : f[e] \in S) => \E e \in S : f[e] = e
IsForest(f, S) ==
  /\ \A e \in DOMAIN f : f[e] = Null <=> e = root
  /\ S \subseteq DOMAIN f
  /\ Closed(f, S)
  /\ SelfCycles(f)

Init == parent = [e \in {root} |-> Null] /\ strays = {}

(* A leaf comes under an entity, or next to a stray.                       *)
Add(e, p) ==
  /\ e \notin DOMAIN parent
  /\ parent' = [x \in DOMAIN parent \union {e} |-> IF x = e THEN p ELSE parent[x]]
  /\ strays' \ {e} = strays \ {e}

Move(e, p) ==
  /\ e \in DOMAIN parent \ {root} /\ p \in DOMAIN parent
  /\ parent' = [parent EXCEPT ![e] = p]
  /\ strays' \ {e} = strays \ {e}

Prune(S) ==
  /\ parent' = Restrict(parent, DOMAIN parent \ S)
  /\ strays' = strays \ S

Next ==
  /\ \/ \E p \in DOMAIN parent \union Range(parent), e \in DOMAIN parent' : Add(e, p) \/ Move(e, p)
     \/ \E S \in SUBSET DOMAIN parent : Prune(S)
  /\ IsForest(parent', strays')

Spec == Init /\ [][Next]_<<parent, strays>>
=============================================================================
