--------------------------- MODULE AtlasAllocator ---------------------------
(***************************************************************************)
(* The allocator of the shadow map atlas, in units of its portions: row r  *)
(* of m_portions has Columns entries, and x, y, w, h of a region count     *)
(* portions, which are square.                                             *)
(*                                                                         *)
(* Allocate asks that a region fits into the row, but not that its lower   *)
(* rows exist.  Marking such rows writes past the end of m_portions, and   *)
(* nothing is said of the program after that: `corrupt` records it.        *)
(***************************************************************************)
EXTENDS Integers, Functions

CONSTANTS
  Columns,  \* entries of a row
  Rows,     \* rows
  IdRange   \* ids are 0 .. IdRange - 1; 2^32 in the code

ASSUME AtlasAssumption ==
  /\ Columns \in Nat \ {0} /\ Rows \in Nat \ {0}
  /\ IdRange \in Nat \ {0}

VARIABLES
  used,     \* the entries of m_portions whose `used` is set
  regions,  \* indexRegionMap
  id,       \* the last id handed out
  corrupt,  \* Allocate has written outside of m_portions
  heights   \* history: the heights of all regions allocated so far

atlas == <<used, regions, id, corrupt, heights>>

Ids == 0 .. IdRange - 1
Portions == (0 .. Columns - 1) \X (0 .. Rows - 1)
Region == [x : 0 .. Columns - 1, y : 0 .. Rows - 1, w : Nat \ {0}, h : Nat \ {0}]
NoRegion == [x |-> 0, y |-> 0, w |-> 0, h |-> 0]

Entries(r) == (r.x .. r.x + r.w - 1) \X (r.y .. r.y + r.h - 1)
Inside(r) == Entries(r) \subseteq Portions

AtlasInit ==
  /\ used = {}
  /\ regions = [i \in {} |-> NoRegion]
  /\ id = 0
  /\ corrupt = FALSE
  /\ heights = {}

-----------------------------------------------------------------------------
(* Mistake: does not ask that the region fits into the row. *)
IsAvailableWide(r) == Entries(r) \intersect used = {}

(* Mistake: an off-by-one leaves out the last column of the region. *)
IsAvailableShort(r) ==
  /\ r.x + r.w <= Columns
  /\ \A e \in Entries(r) : e[1] = r.x + r.w - 1 \/ e \notin used

(* Every entry of the region that exists is free; rows that do not exist end *)
(* the loop, and the region passes.                                          *)
IsAvailable(r) ==
  /\ r.x + r.w <= Columns
  /\ Entries(r) \intersect used = {}

(* Where a region of this size may go.                                       *)
ValidPositions(w, h) ==
  {r \in [x : 0 .. Columns - 1, y : 0 .. Rows - 1, w : {w}, h : {h}] : IsAvailable(r)}

(* CalculateFragmentationMetric, times 10 * Columns * Rows.  Its terms for   *)
(* the space to the right and below mix portions and texels, are negative as *)
(* soon as a region is a portion wide, and do not count.                     *)
FragmentationMetric(r) ==
  4 * ((IF r.x > 0 THEN 1 ELSE 0) + (IF r.y > 0 THEN 1 ELSE 0)) * Columns * Rows
    + 6 * (r.x + r.y)

(* The first of the lowest scores in the order of rows and columns.          *)
IsBest(r, S) ==
  /\ r \in S
  /\ \A q \in S :
       \/ FragmentationMetric(r) < FragmentationMetric(q)
       \/ /\ FragmentationMetric(r) = FragmentationMetric(q)
          /\ r.y < q.y \/ (r.y = q.y /\ r.x <= q.x)

(* id++ until the id is free.                                                *)
IsNextId(i) ==
  /\ i \in Ids \ DOMAIN regions
  /\ \A j \in Ids \ DOMAIN regions : (i - id - 1) % IdRange <= (j - id - 1) % IdRange

(* Allocate(size, None) returns got.                                         *)
Allocate(w, h, got) ==
  \/ /\ ValidPositions(w, h) = {}
     /\ got = 0
     /\ UNCHANGED atlas
  \/ \E r \in ValidPositions(w, h) :
       /\ IsBest(r, ValidPositions(w, h))
       /\ IsNextId(got)
       /\ used' = used \union (Entries(r) \intersect Portions)
       /\ regions' = [i \in DOMAIN regions \union {got} |-> IF i = got THEN r ELSE regions[i]]
       /\ id' = got
       /\ corrupt' = ~Inside(r)
       /\ heights' = heights \union {h}

(* Ids that are 0 or unknown are ignored.                                    *)
DeAllocate(i) ==
  IF i \in DOMAIN regions \ {0}
  THEN /\ used' = used \ Entries(regions[i])
       /\ regions' = Restrict(regions, DOMAIN regions \ {i})
       /\ UNCHANGED <<id, corrupt, heights>>
  ELSE UNCHANGED atlas

GetRegion(i) == IF i \in DOMAIN regions \ {0} THEN regions[i] ELSE NoRegion
=============================================================================
