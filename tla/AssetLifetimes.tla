--------------------------- MODULE AssetLifetimes ---------------------------
(***************************************************************************)
(* What counting references is meant to achieve: a resource is loaded      *)
(* under a name, is shared by all that ask for the name, and exists        *)
(* exactly as long as something that is held leads to it.                  *)
(***************************************************************************)
EXTENDS Functions

CONSTANTS Name, Uuid

VARIABLES
  names,  \* the resource of each name in use
  parts,  \* the resources each resource refers to
  held    \* the resources that are referred to from outside

vars == <<names, parts, held>>

(* Resources refer only to such as refer to none.                            *)
Reached(p, h) == h \union UNION {p[u] : u \in h}

Init == names = [n \in {} |-> 0] /\ parts = [u \in {} |-> {}] /\ held = {}

(* From now on h is held, and what it does not lead to is gone.              *)
Keep(n, p, h) ==
  /\ held' = h
  /\ parts' = Restrict(p, Reached(p, h))
  /\ names' = Restrict(n, {x \in DOMAIN n : n[x] \in Reached(p, h)})

Hold(h) == h \subseteq DOMAIN parts /\ Keep(names, parts, h)

Load(name, u, used, h) ==
  /\ name \notin DOMAIN names /\ u \notin DOMAIN parts
  /\ used \subseteq DOMAIN parts /\ \A v \in used : parts[v] = {}
  /\ u \in h /\ h \subseteq DOMAIN parts \union {u}
  /\ Keep([x \in DOMAIN names \union {name} |-> IF x = name THEN u ELSE names[x]],
          [x \in DOMAIN parts \union {u} |-> IF x = u THEN used ELSE parts[x]], h)

Next ==
  \E h \in SUBSET Uuid :
    \/ Hold(h)
    \/ \E name \in Name, u \in Uuid, used \in SUBSET Uuid : Load(name, u, used, h)

Spec == Init /\ [][Next]_vars
=============================================================================
