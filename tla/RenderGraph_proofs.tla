------------------------- MODULE RenderGraph_proofs -------------------------
(***************************************************************************)
(* For every graph that can run: SortPasses schedules every pass, each     *)
(* after what it depends on, and what SubmitToQueue makes of the schedule  *)
(* has the type the queues expect; and if levels come by their values,     *)
(* Execute records them behind those that make their inputs.               *)
(*                                                                         *)
(* The loops of SortPasses are recursive functions over the number of      *)
(* steps taken.  What holds after a step is proved of one step, and        *)
(* counted up.                                                             *)
(***************************************************************************)
EXTENDS RenderGraph, WellFoundedInduction, TLAPS

-----------------------------------------------------------------------------
(* Numbers and sequences                                                   *)

(* Every set of naturals with a member has a least one.                    *)
LEMMA MinExists == ASSUME NEW S \in SUBSET Nat, S # {}
                   PROVE  \E x \in S : \A y \in S : x <= y
<1>. DEFINE R == {p \in Nat \X Nat : p[1] < p[2]}
<1>1. IsWellFoundedOn(R, Nat)
  BY NatLessThanWellFounded DEF OpToRel
<1>. HIDE DEF R
<1>2. PICK x \in S : \A y \in S : ~(<<y, x>> \in R)
  BY <1>1, WFMin
<1>3. ASSUME NEW y \in S, y < x PROVE FALSE
  <2>1. <<y, x>> \in R
    BY <1>3 DEF R
  <2>. QED
    BY <1>2, <2>1
<1>4. S \subseteq Nat
  OBVIOUS
<1>. QED
  BY <1>3, <1>4

(* A set that has 0 and with every number the next one has them all.       *)
LEMMA CountUp == ASSUME NEW S, 0 \in S, \A n \in Nat : n \in S => n + 1 \in S
                 PROVE  \A n \in Nat : n \in S
<1>. SUFFICES ASSUME Nat \ S # {} PROVE FALSE
  OBVIOUS
<1>1. PICK x \in Nat \ S : \A y \in Nat \ S : x <= y
  BY MinExists
<1>2. x - 1 \in Nat /\ x - 1 \notin S
  BY <1>1
<1>. QED
  BY <1>1, <1>2

(* A bounded set of naturals with a member has a largest one.              *)
LEMMA MaxExists == ASSUME NEW S \in SUBSET Nat, S # {},
                          NEW B \in Nat, \A x \in S : x <= B
                   PROVE  \E x \in S : \A y \in S : y <= x
<1>. DEFINE T == {n \in Nat : \A y \in S : y <= n}
<1>1. PICK n \in T : \A k \in T : n <= k
  <2>1. B \in T /\ T \in SUBSET Nat
    OBVIOUS
  <2>. QED
    BY <2>1, MinExists
<1>2. CASE n \in S
  <2>1. \A y \in S : y <= n
    BY <1>1
  <2>. QED
    BY <1>2, <2>1
<1>3. CASE n \notin S
  <2>1. PICK z \in S : z \in Nat
    OBVIOUS
  <2>2. n \in Nat /\ \A y \in S : y <= n /\ y # n /\ y \in Nat
    BY <1>1, <1>3
  <2>3. n - 1 \in Nat /\ \A y \in S : y <= n - 1
    BY <2>1, <2>2
  <2>4. n - 1 \in T
    BY <2>3
  <2>5. n <= n - 1
    BY <1>1, <2>4, Zenon
  <2>. QED
    BY <2>2, <2>5
<1>. QED
  BY <1>2, <1>3

(* Largest and Smallest choose a member of the set that bounds it.         *)
LEMMA LargestIs == ASSUME NEW S \in SUBSET Nat, S # {},
                          NEW B \in Nat, \A x \in S : x <= B
                   PROVE  Largest(S) \in S /\ \A y \in S : y <= Largest(S)
BY MaxExists DEF Largest

LEMMA SmallestIs == ASSUME NEW S \in SUBSET Nat, S # {}
                    PROVE  Smallest(S) \in S /\ \A y \in S : Smallest(S) <= y
BY MinExists DEF Smallest

(* A sequence of naturals is bounded.                                      *)
LEMMA SequenceBounded == ASSUME NEW s \in Seq(Nat)
                         PROVE  \E B \in Nat : \A i \in DOMAIN s : s[i] <= B
<1>. DEFINE S == {n \in Nat : n <= Len(s) => \E B \in Nat : \A i \in 1 .. n : s[i] <= B}
<1>1. 0 \in S
  OBVIOUS
<1>2. ASSUME NEW n \in Nat, n \in S PROVE n + 1 \in S
  <2>. SUFFICES ASSUME n + 1 <= Len(s) PROVE \E B \in Nat : \A i \in 1 .. n + 1 : s[i] <= B
    OBVIOUS
  <2>1. PICK B \in Nat : \A i \in 1 .. n : s[i] <= B
    BY <1>2
  <2>2. s[n + 1] \in Nat
    OBVIOUS
  <2>3. \A i \in 1 .. n : s[i] \in Nat
    OBVIOUS
  <2>4. \A i \in 1 .. n + 1 : i \in 1 .. n \/ i = n + 1
    OBVIOUS
  <2>5. \A i \in 1 .. n + 1 : s[i] <= B + s[n + 1]
    BY <2>1, <2>2, <2>3, <2>4
  <2>6. B + s[n + 1] \in Nat
    BY <2>2
  <2>. HIDE DEF S
  <2>. QED
    BY <2>5, <2>6
<1>. HIDE DEF S
<1>3. \A n \in Nat : n \in S
  BY <1>1, <1>2, CountUp
<1>4. Len(s) \in S /\ DOMAIN s = 1 .. Len(s)
  BY <1>3
<1>. QED
  BY <1>4 DEF S

(* A function defined by recursion on its argument exists, when its steps  *)
(* stay within a set.                                                      *)
IsRecursive(f, N, S, base, G) ==
  /\ f \in [0 .. N -> S] /\ f[0] = base
  /\ \A n \in 1 .. N : f[n] = G[n][f[n - 1]]

(* ... by induction on how far it is defined.                              *)
LEMMA RecursionExists ==
  ASSUME NEW S, NEW base \in S, NEW N \in Nat, NEW G \in [1 .. N -> [S -> S]]
  PROVE  \E f : IsRecursive(f, N, S, base, G)
<1>. DEFINE T == {m \in Nat : m <= N => \E f \in [0 .. m -> S] :
                    f[0] = base /\ \A n \in 1 .. m : f[n] = G[n][f[n - 1]]}
<1>1. 0 \in T
  <2>. DEFINE f == [k \in 0 .. 0 |-> base]
  <2>1. f \in [0 .. 0 -> S] /\ f[0] = base /\ \A n \in 1 .. 0 : f[n] = G[n][f[n - 1]]
    OBVIOUS
  <2>. QED
    BY <2>1
<1>2. ASSUME NEW m \in Nat, m \in T PROVE m + 1 \in T
  <2>. SUFFICES ASSUME m + 1 <= N
                PROVE  \E f \in [0 .. m + 1 -> S] :
                         f[0] = base /\ \A n \in 1 .. m + 1 : f[n] = G[n][f[n - 1]]
    OBVIOUS
  <2>1. PICK f \in [0 .. m -> S] : f[0] = base /\ \A n \in 1 .. m : f[n] = G[n][f[n - 1]]
    BY <1>2
  <2>. DEFINE h == [k \in 0 .. m + 1 |-> IF k <= m THEN f[k] ELSE G[m + 1][f[m]]]
  <2>2. G[m + 1][f[m]] \in S
    <3>1. m + 1 \in 1 .. N /\ f[m] \in S
      BY <2>1
    <3>2. G[m + 1] \in [S -> S]
      BY <3>1
    <3>. QED
      BY <3>1, <3>2
  <2>3. h \in [0 .. m + 1 -> S]
    <3>1. \A k \in 0 .. m + 1 : k <= m => k \in 0 .. m
      OBVIOUS
    <3>. QED
      BY <2>1, <2>2, <3>1
  <2>4. h[0] = base
    BY <2>1
  <2>5. ASSUME NEW n \in 1 .. m + 1 PROVE h[n] = G[n][h[n - 1]]
    <3>1. n - 1 \in 0 .. m /\ n - 1 \in 0 .. m + 1 /\ n \in 0 .. m + 1
      OBVIOUS
    <3>2. h[n - 1] = f[n - 1]
      BY <3>1
    <3>3. CASE n = m + 1
      <4>1. n - 1 = m /\ ~(n <= m)
        BY <3>3
      <4>2. h[n] = G[m + 1][f[m]]
        BY <3>1, <4>1
      <4>. QED
        BY <3>2, <3>3, <4>1, <4>2
    <3>4. CASE n # m + 1
      <4>1. n \in 1 .. m /\ n <= m
        BY <3>4
      <4>2. h[n] = f[n]
        BY <3>1, <4>1
      <4>3. f[n] = G[n][f[n - 1]]
        BY <2>1, <4>1
      <4>. QED
        BY <3>2, <4>2, <4>3
    <3>. QED
      BY <3>3, <3>4
  <2>. HIDE DEF h
  <2>. QED
    BY <2>3, <2>4, <2>5
<1>. HIDE DEF T
<1>3. \A m \in Nat : m \in T
  BY <1>1, <1>2, CountUp
<1>4. N \in T /\ N <= N
  BY <1>3
<1>. QED
  BY <1>4 DEF T, IsRecursive

-----------------------------------------------------------------------------
(* The state of SortPasses' loop                                           *)

GraphType == [Queues -> Seq(PassType)]
ReadyType == [instance: Instances, queue: Queues, val: Nat, pass: Nat]
SortedType == [pass: Nat, val: Nat]
LevelType == [end: Nat, wait: BOOLEAN, signal: BOOLEAN]
DepType == [queue: Queues, pass: Nat, on: Queues, from: Nat]

SortState ==
  [left: [Queues -> Seq(Nat)], still: [Queues -> Seq(Nat)],
   ready: [Kinds -> Seq(ReadyType)], window: [Kinds -> Nat],
   sorted: [Queues -> Seq(SortedType)], levels: [Queues -> Seq(LevelType)],
   deps: SUBSET DepType]

(* A state of the loop over gr: the passes it names are gr's, and a compute *)
(* pass looks no further than what is ready.                               *)
SortTyped(gr, st) ==
  /\ st \in SortState
  /\ \A q \in Queues :
       /\ \A n \in DOMAIN st.left[q] : st.left[q][n] \in DOMAIN gr[q]
       /\ \A n \in DOMAIN st.still[q] : st.still[q][n] \in DOMAIN gr[q]
       /\ \A n \in DOMAIN st.sorted[q] : st.sorted[q][n].pass \in DOMAIN gr[q]
  /\ \A k \in Kinds : st.window[k] <= Len(st.ready[k])

(* How far a pass of queue q looks. *)
Reach(st, q, k) == IF q = "direct" THEN Len(st.ready[k]) ELSE st.window[k]

(* More is ready in st2 than in st, and no less is looked at.              *)
Grows(st, st2) ==
  \A k \in Kinds :
    /\ Len(st.ready[k]) <= Len(st2.ready[k])
    /\ \A i \in 1 .. Len(st.ready[k]) : st2.ready[k][i] = st.ready[k][i]
    /\ st.window[k] <= st2.window[k]

(* Where an input is found: at indices within a pass's reach of what is    *)
(* ready.                                                                  *)
LEMMA PlacesAre ==
  ASSUME NEW st \in SortState, \A k \in Kinds : st.window[k] <= Len(st.ready[k]),
         NEW q \in Queues, NEW x \in Instances
  PROVE  /\ KindOf(x) \in Kinds
         /\ st.ready[KindOf(x)] \in Seq(ReadyType)
         /\ Reach(st, q, KindOf(x)) \in 0 .. Len(st.ready[KindOf(x)])
         /\ Places(st, q, x) =
              {i \in 1 .. Reach(st, q, KindOf(x)) : st.ready[KindOf(x)][i].instance = x}
<1>. DEFINE k == KindOf(x)
            s == st.ready[k]
            w == st.window[k]
<1>1. k \in Kinds
  BY DEF KindOf, Kinds
<1>. HIDE DEF k
<1>2. s \in Seq(ReadyType) /\ w \in Nat /\ w <= Len(s) /\ Len(s) \in Nat /\ DOMAIN s = 1 .. Len(s)
  BY <1>1 DEF SortState
<1>3. Visible(st, q, k) = IF q = "direct" THEN s ELSE SubSeq(s, 1, w)
  BY DEF Visible
<1>4. Reach(st, q, k) = IF q = "direct" THEN Len(s) ELSE w
  BY DEF Reach
<1>. HIDE DEF s, w
<1>5. DOMAIN SubSeq(s, 1, w) = 1 .. w /\ \A i \in 1 .. w : SubSeq(s, 1, w)[i] = s[i]
  BY <1>2
<1>6. Places(st, q, x) = {i \in DOMAIN Visible(st, q, k) : Visible(st, q, k)[i].instance = x}
  BY DEF Places, k
<1>7. Places(st, q, x) = {i \in 1 .. Reach(st, q, k) : s[i].instance = x}
  BY <1>2, <1>3, <1>4, <1>5, <1>6
<1>8. Reach(st, q, k) \in 0 .. Len(s)
  BY <1>2, <1>4
<1>. QED
  BY <1>1, <1>2, <1>7, <1>8 DEF k, s

(* The producer of an input that is found is the first such entry.         *)
LEMMA ProducerIs ==
  ASSUME NEW st \in SortState, \A k \in Kinds : st.window[k] <= Len(st.ready[k]),
         NEW q \in Queues, NEW x \in Instances, Places(st, q, x) # {}
  PROVE  \E m \in 1 .. Reach(st, q, KindOf(x)) :
           /\ m \in DOMAIN st.ready[KindOf(x)]
           /\ Producer(st, q, x) = st.ready[KindOf(x)][m]
           /\ st.ready[KindOf(x)][m].instance = x
           /\ \A n \in Places(st, q, x) : m <= n
           /\ m \in Places(st, q, x)
           /\ Producer(st, q, x) \in ReadyType
<1>. DEFINE k == KindOf(x)
            m == Smallest(Places(st, q, x))
<1>1. /\ st.ready[k] \in Seq(ReadyType) /\ Len(st.ready[k]) \in Nat
      /\ Reach(st, q, k) \in 0 .. Len(st.ready[k])
      /\ Places(st, q, x) = {i \in 1 .. Reach(st, q, k) : st.ready[k][i].instance = x}
  BY PlacesAre
<1>2. Producer(st, q, x) = st.ready[k][m]
  BY DEF Producer
<1>. HIDE DEF k
<1>3. Places(st, q, x) \in SUBSET Nat
  BY <1>1
<1>4. m \in Places(st, q, x) /\ \A n \in Places(st, q, x) : m <= n
  BY <1>3, SmallestIs
<1>. HIDE DEF m
<1>5. m \in 1 .. Reach(st, q, k) /\ st.ready[k][m].instance = x
  BY <1>1, <1>4
<1>6. m \in 1 .. Len(st.ready[k]) /\ m \in DOMAIN st.ready[k] /\ st.ready[k][m] \in ReadyType
  BY <1>1, <1>5
<1>. QED
  BY <1>2, <1>4, <1>5, <1>6 DEF k

(* What produces an input that a pass has found does not change.           *)
LEMMA ProducerStays ==
  ASSUME NEW st \in SortState, \A k \in Kinds : st.window[k] <= Len(st.ready[k]),
         NEW st2 \in SortState, \A k \in Kinds : st2.window[k] <= Len(st2.ready[k]),
         Grows(st, st2),
         NEW q \in Queues, NEW x \in Instances, Places(st, q, x) # {}
  PROVE  Places(st2, q, x) # {} /\ Producer(st2, q, x) = Producer(st, q, x)
<1>. DEFINE k == KindOf(x)
            r == Reach(st, q, k)
            r2 == Reach(st2, q, k)
<1>1. /\ k \in Kinds
      /\ st.ready[k] \in Seq(ReadyType) /\ Len(st.ready[k]) \in Nat
      /\ r \in 0 .. Len(st.ready[k])
      /\ Places(st, q, x) = {i \in 1 .. r : st.ready[k][i].instance = x}
  BY PlacesAre
<1>2. /\ st2.ready[k] \in Seq(ReadyType) /\ Len(st2.ready[k]) \in Nat
      /\ r2 \in 0 .. Len(st2.ready[k])
      /\ Places(st2, q, x) = {i \in 1 .. r2 : st2.ready[k][i].instance = x}
  BY PlacesAre
<1>3. PICK m \in 1 .. r : /\ Producer(st, q, x) = st.ready[k][m]
                          /\ m \in Places(st, q, x)
                          /\ \A n \in Places(st, q, x) : m <= n
  BY ProducerIs
<1>4. r <= r2
  <2>1. Len(st.ready[k]) <= Len(st2.ready[k]) /\ st.window[k] <= st2.window[k]
    BY <1>1 DEF Grows
  <2>. QED
    BY <2>1 DEF Reach
<1>5. \A i \in 1 .. r : st2.ready[k][i] = st.ready[k][i]
  BY <1>1 DEF Grows
<1>. HIDE DEF k, r, r2
<1>6. m \in Places(st2, q, x)
  BY <1>1, <1>2, <1>3, <1>4, <1>5
<1>7. PICK m2 \in 1 .. r2 : /\ Producer(st2, q, x) = st2.ready[k][m2]
                            /\ m2 \in Places(st2, q, x)
                            /\ \A n \in Places(st2, q, x) : m2 <= n
  BY <1>6, ProducerIs DEF k, r2
<1>8. m2 <= m
  BY <1>6, <1>7
<1>9. m2 \in 1 .. r /\ m2 \in Places(st, q, x)
  <2>1. m2 \in 1 .. r
    BY <1>1, <1>2, <1>3, <1>7, <1>8
  <2>2. st2.ready[k][m2].instance = x /\ st2.ready[k][m2] = st.ready[k][m2]
    BY <1>2, <1>5, <1>7, <2>1
  <2>. QED
    BY <1>1, <2>1, <2>2
<1>10. m <= m2
  BY <1>3, <1>9
<1>11. m = m2
  BY <1>8, <1>10
<1>. QED
  BY <1>3, <1>5, <1>6, <1>7, <1>11

(* A pass with nothing missing finds every input.                          *)
LEMMA FoundIs ==
  ASSUME NEW st, NEW q, NEW pass
  PROVE  Missing(st, q, pass) = {} <=> \A x \in pass.inputs : Places(st, q, x) # {}
BY DEF Missing

(* The values of what is ready are bounded, and so are those of the passes. *)
LEMMA ReadyBounded ==
  ASSUME NEW st \in SortState
  PROVE  \E B \in Nat : \A k \in Kinds : \A i \in DOMAIN st.ready[k] : st.ready[k][i].val <= B
<1>1. ASSUME NEW k \in Kinds
      PROVE  \E B \in Nat : \A i \in DOMAIN st.ready[k] : st.ready[k][i].val <= B
  <2>. DEFINE s == st.ready[k]
              v == [i \in 1 .. Len(s) |-> s[i].val]
  <2>1. s \in Seq(ReadyType)
    BY DEF SortState
  <2>. HIDE DEF s
  <2>2. Len(s) \in Nat /\ DOMAIN s = 1 .. Len(s) /\ \A i \in 1 .. Len(s) : s[i] \in ReadyType
    BY <2>1
  <2>3. \A i \in 1 .. Len(s) : s[i].val \in Nat
    BY <2>2 DEF ReadyType
  <2>4. v \in [1 .. Len(s) -> Nat] /\ \A i \in 1 .. Len(s) : v[i] = s[i].val
    BY <2>3
  <2>. HIDE DEF v
  <2>5. v \in Seq(Nat) /\ DOMAIN v = 1 .. Len(s)
    BY <2>2, <2>4
  <2>6. PICK B \in Nat : \A i \in DOMAIN v : v[i] <= B
    BY <2>5, SequenceBounded
  <2>7. \A i \in DOMAIN s : s[i].val <= B
    BY <2>2, <2>4, <2>5, <2>6
  <2>. QED
    BY <2>7 DEF s
<1>2. "texture" \in Kinds /\ "buffer" \in Kinds
  BY DEF Kinds
<1>3. PICK B1 \in Nat : \A i \in DOMAIN st.ready["texture"] : st.ready["texture"][i].val <= B1
  BY <1>1, <1>2
<1>4. PICK B2 \in Nat : \A i \in DOMAIN st.ready["buffer"] : st.ready["buffer"][i].val <= B2
  BY <1>1, <1>2
<1>5. ASSUME NEW k \in Kinds, NEW i \in DOMAIN st.ready[k]
      PROVE  st.ready[k][i].val <= B1 + B2
  <2>1. st.ready[k][i].val \in Nat
    <3>1. st.ready[k] \in Seq(ReadyType)
      BY DEF SortState
    <3>2. st.ready[k][i] \in ReadyType
      BY <3>1
    <3>. QED
      BY <3>2 DEF ReadyType
  <2>2. k = "texture" \/ k = "buffer"
    BY DEF Kinds
  <2>3. st.ready[k][i].val <= B1 \/ st.ready[k][i].val <= B2
    BY <1>3, <1>4, <2>2, Zenon
  <2>. QED
    BY <2>1, <2>3
<1>6. B1 + B2 \in Nat
  OBVIOUS
<1>. QED
  BY <1>5, <1>6

(* The value an input asks for: its producer's, and a larger one when the  *)
(* producer is on the other queue.                                         *)
LEMMA ValueAfterIs ==
  ASSUME NEW st \in SortState, \A k \in Kinds : st.window[k] <= Len(st.ready[k]),
         NEW q \in Queues, NEW x \in Instances, Places(st, q, x) # {},
         NEW B \in Nat, \A k \in Kinds : \A i \in DOMAIN st.ready[k] : st.ready[k][i].val <= B
  PROVE  /\ ValueAfter(st, q, x) \in Nat
         /\ ValueAfter(st, q, x) <= B + 1
         /\ Producer(st, q, x).val <= ValueAfter(st, q, x)
         /\ Producer(st, q, x).queue # q => Producer(st, q, x).val < ValueAfter(st, q, x)
<1>. DEFINE p == Producer(st, q, x)
<1>1. KindOf(x) \in Kinds
  BY PlacesAre
<1>2. PICK m : m \in DOMAIN st.ready[KindOf(x)] /\ p = st.ready[KindOf(x)][m] /\ p \in ReadyType
  BY ProducerIs
<1>3. p.val \in Nat /\ p.val <= B
  BY <1>1, <1>2 DEF ReadyType
<1>4. ValueAfter(st, q, x) = IF p.queue = q THEN p.val ELSE p.val + 1
  BY DEF ValueAfter
<1>. HIDE DEF p
<1>5. /\ ValueAfter(st, q, x) \in Nat
      /\ ValueAfter(st, q, x) <= B + 1
      /\ p.val <= ValueAfter(st, q, x)
      /\ p.queue # q => p.val < ValueAfter(st, q, x)
  BY <1>3, <1>4
<1>. QED
  BY <1>5 DEF p

(* The value of a pass exists and is larger than that of its producers on  *)
(* the other queue.                                                        *)
LEMMA ValueIs ==
  ASSUME NEW st \in SortState, \A k \in Kinds : st.window[k] <= Len(st.ready[k]),
         NEW q \in Queues, NEW pass \in PassType, Missing(st, q, pass) = {}
  PROVE  /\ ValueOf(st, q, pass) \in Nat
         /\ \A x \in pass.inputs :
              Producer(st, q, x).queue # q => Producer(st, q, x).val < ValueOf(st, q, pass)
<1>. DEFINE S == {0} \cup {ValueAfter(st, q, x) : x \in pass.inputs}
<1>1. PICK B \in Nat : \A k \in Kinds : \A i \in DOMAIN st.ready[k] : st.ready[k][i].val <= B
  BY ReadyBounded
<1>2. \A x \in pass.inputs : x \in Instances /\ Places(st, q, x) # {}
  BY FoundIs DEF PassType
<1>3. \A x \in pass.inputs :
        /\ ValueAfter(st, q, x) \in Nat
        /\ ValueAfter(st, q, x) <= B + 1
        /\ Producer(st, q, x).queue # q => Producer(st, q, x).val < ValueAfter(st, q, x)
  BY <1>1, <1>2, ValueAfterIs
<1>4. S \in SUBSET Nat /\ S # {} /\ B + 1 \in Nat /\ \A v \in S : v <= B + 1
  BY <1>3
<1>5. ValueOf(st, q, pass) = Largest(S)
  BY DEF ValueOf
<1>6. \A x \in pass.inputs : ValueAfter(st, q, x) \in S
  OBVIOUS
<1>. HIDE DEF S
<1>7. Largest(S) \in S /\ \A v \in S : v <= Largest(S)
  BY <1>4, LargestIs
<1>8. ValueOf(st, q, pass) \in Nat
  BY <1>4, <1>5, <1>7
<1>9. ASSUME NEW x \in pass.inputs, Producer(st, q, x).queue # q
      PROVE  Producer(st, q, x).val < ValueOf(st, q, pass)
  <2>1. ValueAfter(st, q, x) <= ValueOf(st, q, pass)
    BY <1>5, <1>6, <1>7
  <2>2. Producer(st, q, x).val < ValueAfter(st, q, x) /\ ValueAfter(st, q, x) \in Nat
    BY <1>3, <1>9
  <2>3. Producer(st, q, x).val \in Nat
    <3>1. Producer(st, q, x) \in ReadyType
      BY <1>2, ProducerIs
    <3>. QED
      BY <3>1 DEF ReadyType
  <2>. QED
    BY <1>8, <2>1, <2>2, <2>3
<1>. QED
  BY <1>8, <1>9

(* A pass that has found its inputs keeps its value.                       *)
LEMMA ValueStays ==
  ASSUME NEW st \in SortState, \A k \in Kinds : st.window[k] <= Len(st.ready[k]),
         NEW st2 \in SortState, \A k \in Kinds : st2.window[k] <= Len(st2.ready[k]),
         Grows(st, st2),
         NEW q \in Queues, NEW pass \in PassType, Missing(st, q, pass) = {}
  PROVE  /\ Missing(st2, q, pass) = {}
         /\ ValueOf(st2, q, pass) = ValueOf(st, q, pass)
         /\ \A x \in pass.inputs : Producer(st2, q, x) = Producer(st, q, x)
<1>1. \A x \in pass.inputs : x \in Instances /\ Places(st, q, x) # {}
  BY FoundIs DEF PassType
<1>2. \A x \in pass.inputs :
        Places(st2, q, x) # {} /\ Producer(st2, q, x) = Producer(st, q, x)
  BY <1>1, ProducerStays
<1>3. Missing(st2, q, pass) = {}
  BY <1>2, FoundIs
<1>4. \A x \in pass.inputs : ValueAfter(st2, q, x) = ValueAfter(st, q, x)
  BY <1>2 DEF ValueAfter
<1>5. {ValueAfter(st2, q, x) : x \in pass.inputs} = {ValueAfter(st, q, x) : x \in pass.inputs}
  BY <1>4
<1>6. ValueOf(st2, q, pass) = ValueOf(st, q, pass)
  BY <1>5 DEF ValueOf
<1>. QED
  BY <1>2, <1>3, <1>6

-----------------------------------------------------------------------------
(* Trying a pass                                                           *)

(* The pass is kept for the next level. *)
Kept(q, st, i, st2) ==
  /\ st2.left = st.left /\ st2.ready = st.ready /\ st2.window = st.window
  /\ st2.sorted = st.sorted /\ st2.levels = st.levels /\ st2.deps = st.deps
  /\ \A r \in Queues \ {q} : st2.still[r] = st.still[r]
  /\ \E w \in {<<i>>, <<i, i>>} : st2.still[q] = st.still[q] \o w

(* The pass is scheduled, and what it makes is ready. *)
Added(gr, q, st, i, st2) ==
  /\ st2.left = st.left /\ st2.still = st.still /\ st2.levels = st.levels
  /\ \A r \in Queues \ {q} : st2.sorted[r] = st.sorted[r]
  /\ st2.sorted[q] = Append(st.sorted[q], [pass |-> i, val |-> ValueOf(st, q, gr[q][i])])
  /\ st2.deps = st.deps \cup DepsOf(st, q, gr[q][i], i)
  /\ Grows(st, st2)
  /\ \A k \in Kinds :
       LET old == Len(st.ready[k])
           made == gr[q][i].outputs[k]
       IN  /\ Len(st2.ready[k]) = old + Len(made)
           /\ \A n \in 1 .. Len(made) : st2.ready[k][old + n] =
                [instance |-> made[n], queue |-> q, val |-> ValueOf(st, q, gr[q][i]), pass |-> i]

(* A pass with an input missing is kept.                                   *)
LEMMA TryFails ==
  ASSUME NEW gr \in GraphType, NEW st, SortTyped(gr, st), NEW q \in Queues, NEW i \in DOMAIN gr[q],
         Missing(st, q, gr[q][i]) # {}
  PROVE  SortTyped(gr, TryPass(gr, q, st, i)) /\ Kept(q, st, i, TryPass(gr, q, st, i))
<1>. DEFINE w == IF Missing(st, q, gr[q][i]) = Kinds THEN <<i, i>> ELSE <<i>>
            st2 == [st EXCEPT !.still[q] = @ \o w]
<1>1. TryPass(gr, q, st, i) = st2
  BY DEF TryPass
<1>2. w \in {<<i>>, <<i, i>>}
  OBVIOUS
<1>3. gr[q] \in Seq(PassType) /\ i \in Nat /\ DOMAIN gr[q] = 1 .. Len(gr[q])
  BY DEF GraphType
<1>4. w \in Seq(Nat) /\ \A n \in DOMAIN w : w[n] = i
  <2>1. <<i>> \in Seq(Nat) /\ \A n \in DOMAIN <<i>> : <<i>>[n] = i
    BY <1>3
  <2>2. <<i, i>> \in Seq(Nat) /\ \A n \in DOMAIN <<i, i>> : <<i, i>>[n] = i
    BY <1>3
  <2>. QED
    BY <1>2, <2>1, <2>2
<1>. HIDE DEF w
<1>5. st \in SortState /\ st.still \in [Queues -> Seq(Nat)] /\ st.still[q] \in Seq(Nat)
  BY DEF SortTyped, SortState
<1>6. /\ st2.left = st.left /\ st2.ready = st.ready /\ st2.window = st.window
      /\ st2.sorted = st.sorted /\ st2.levels = st.levels /\ st2.deps = st.deps
      /\ st2.still = [st.still EXCEPT ![q] = @ \o w]
      /\ st2.still[q] = st.still[q] \o w
      /\ \A r \in Queues \ {q} : st2.still[r] = st.still[r]
  BY <1>5 DEF SortState
<1>. DEFINE new == [st.still EXCEPT ![q] = @ \o w]
<1>7. st.still[q] \o w \in Seq(Nat)
  BY <1>4, <1>5
<1>8. new \in [Queues -> Seq(Nat)]
  BY <1>5, <1>7
<1>9. st2 = [st EXCEPT !.still = new]
  BY <1>5 DEF SortState
<1>10. st2 \in SortState
  <2>. HIDE DEF st2, new
  <2>. QED
    BY <1>5, <1>8, <1>9 DEF SortState
<1>. HIDE DEF st2
<1>11. \A n \in DOMAIN st2.still[q] : st2.still[q][n] \in DOMAIN gr[q]
  <2>1. \A n \in DOMAIN st.still[q] : st.still[q][n] \in DOMAIN gr[q]
    BY DEF SortTyped
  <2>. DEFINE s == st.still[q]
  <2>2. ASSUME NEW n \in DOMAIN (s \o w) PROVE (s \o w)[n] \in DOMAIN gr[q]
    <3>1. s \in Seq(Nat) /\ \A m \in DOMAIN s : s[m] \in DOMAIN gr[q]
      BY <1>5, <2>1
    <3>. HIDE DEF s
    <3>2. n \in 1 .. Len(s) + Len(w) /\ Len(s) \in Nat /\ Len(w) \in Nat
          /\ DOMAIN s = 1 .. Len(s) /\ DOMAIN w = 1 .. Len(w)
      BY <1>4, <3>1
    <3>3. CASE n <= Len(s)
      BY <1>4, <3>1, <3>2, <3>3
    <3>4. CASE n > Len(s)
      <4>1. n - Len(s) \in DOMAIN w /\ (s \o w)[n] = w[n - Len(s)]
        BY <1>4, <3>1, <3>2, <3>4
      <4>. QED
        BY <1>4, <4>1
    <3>. QED
      BY <3>2, <3>3, <3>4
  <2>. QED
    BY <1>6, <2>2
<1>12. SortTyped(gr, st2)
  <2>1. ASSUME NEW r \in Queues, NEW n \in DOMAIN st2.still[r]
        PROVE  st2.still[r][n] \in DOMAIN gr[r]
    <3>1. r # q => st2.still[r] = st.still[r]
      BY <1>6
    <3>. QED
      BY <1>11, <3>1 DEF SortTyped
  <2>. QED
    BY <1>6, <1>10, <2>1 DEF SortTyped
<1>13. Kept(q, st, i, st2)
  BY <1>2, <1>6 DEF Kept
<1>. QED
  BY <1>1, <1>12, <1>13

(* What a pass adds to the instances that are ready.                       *)
LEMMA MadeIs ==
  ASSUME NEW st \in SortState, NEW q \in Queues, NEW i \in Nat, NEW pass \in PassType,
         NEW k \in Kinds, ValueOf(st, q, pass) \in Nat
  PROVE  /\ pass.outputs[k] \in Seq(Instances)
         /\ MadeBy(st, q, pass, i, k) \in Seq(ReadyType)
         /\ Len(MadeBy(st, q, pass, i, k)) = Len(pass.outputs[k])
         /\ \A n \in 1 .. Len(pass.outputs[k]) : MadeBy(st, q, pass, i, k)[n] =
              [instance |-> pass.outputs[k][n], queue |-> q, val |-> ValueOf(st, q, pass), pass |-> i]
<1>. DEFINE s == pass.outputs[k]
            v == ValueOf(st, q, pass)
<1>1. s \in Seq(Instances)
  BY DEF PassType
<1>2. v \in Nat
  OBVIOUS
<1>3. MadeBy(st, q, pass, i, k)
        = [n \in DOMAIN s |-> [instance |-> s[n], queue |-> q, val |-> v, pass |-> i]]
  BY DEF MadeBy
<1>. HIDE DEF s, v
<1>4. DOMAIN s = 1 .. Len(s) /\ Len(s) \in Nat /\ \A n \in 1 .. Len(s) : s[n] \in Instances
  BY <1>1
<1>5. \A n \in 1 .. Len(s) :
        [instance |-> s[n], queue |-> q, val |-> v, pass |-> i] \in ReadyType
  BY <1>2, <1>4 DEF ReadyType
<1>6. MadeBy(st, q, pass, i, k) \in [1 .. Len(s) -> ReadyType]
  BY <1>3, <1>4, <1>5
<1>7. MadeBy(st, q, pass, i, k) \in Seq(ReadyType)
  BY <1>4, <1>6
<1>8. Len(MadeBy(st, q, pass, i, k)) = Len(s)
  BY <1>4, <1>6, <1>7
<1>. QED
  BY <1>1, <1>3, <1>4, <1>7, <1>8 DEF s, v

(* Sequences of what is ready, one after the other. *)
LEMMA Joined ==
  ASSUME NEW T, NEW s \in Seq(T), NEW u \in Seq(T)
  PROVE  /\ s \o u \in Seq(T)
         /\ Len(s) \in Nat /\ Len(u) \in Nat /\ Len(s \o u) = Len(s) + Len(u)
         /\ DOMAIN s = 1 .. Len(s) /\ DOMAIN u = 1 .. Len(u)
         /\ DOMAIN (s \o u) = 1 .. Len(s) + Len(u)
         /\ \A n \in 1 .. Len(s) : (s \o u)[n] = s[n]
         /\ \A n \in 1 .. Len(u) : (s \o u)[Len(s) + n] = u[n]
OBVIOUS

(* A pass with nothing missing is scheduled, and its outputs are ready.    *)
LEMMA TrySucceeds ==
  ASSUME NEW gr \in GraphType, NEW st, SortTyped(gr, st), NEW q \in Queues, NEW i \in DOMAIN gr[q],
         Missing(st, q, gr[q][i]) = {}
  PROVE  SortTyped(gr, TryPass(gr, q, st, i)) /\ Added(gr, q, st, i, TryPass(gr, q, st, i))
<1>. DEFINE pass == gr[q][i]
            v == ValueOf(st, q, pass)
            e == [pass |-> i, val |-> v]
            made(k) == MadeBy(st, q, pass, i, k)
            sorted2 == [st.sorted EXCEPT ![q] = Append(@, e)]
            ready2 == [k \in Kinds |-> st.ready[k] \o made(k)]
            window2 == [k \in Kinds |-> IF q = "compute" THEN st.window[k] + Len(made(k))
                                                         ELSE st.window[k]]
            deps2 == st.deps \cup DepsOf(st, q, pass, i)
            st2 == TryPass(gr, q, st, i)
<1>1. gr[q] \in Seq(PassType) /\ i \in Nat /\ pass \in PassType
  <2>1. gr[q] \in Seq(PassType)
    BY DEF GraphType
  <2>. QED
    BY <2>1
<1>2. /\ st \in SortState
      /\ \A k \in Kinds : st.window[k] <= Len(st.ready[k])
  BY DEF SortTyped
<1>3. v \in Nat
  BY <1>1, <1>2, ValueIs
<1>4. ASSUME NEW k \in Kinds
      PROVE  /\ made(k) \in Seq(ReadyType)
             /\ Len(made(k)) = Len(pass.outputs[k])
             /\ Len(made(k)) \in Nat
             /\ \A n \in 1 .. Len(pass.outputs[k]) : made(k)[n] =
                  [instance |-> pass.outputs[k][n], queue |-> q, val |-> v, pass |-> i]
             /\ st.ready[k] \in Seq(ReadyType)
             /\ st.window[k] \in Nat /\ st.window[k] <= Len(st.ready[k])
  <2>1. /\ made(k) \in Seq(ReadyType)
        /\ Len(made(k)) = Len(pass.outputs[k])
        /\ \A n \in 1 .. Len(pass.outputs[k]) : made(k)[n] =
             [instance |-> pass.outputs[k][n], queue |-> q, val |-> v, pass |-> i]
    <3>. HIDE DEF pass
    <3>. QED
      BY <1>1, <1>2, <1>3, MadeIs
  <2>2. st.ready[k] \in Seq(ReadyType) /\ st.window[k] \in Nat
    BY <1>2 DEF SortState
  <2>3. Len(made(k)) \in Nat
    BY <2>1
  <2>. HIDE DEF made
  <2>. QED
    BY <1>2, <2>1, <2>2, <2>3
<1>5. st2 = [st EXCEPT !.sorted[q] = Append(@, e), !.ready = [k \in Kinds |-> @[k] \o made(k)],
                       !.window = [k \in Kinds |-> IF q = "compute" THEN @[k] + Len(made(k)) ELSE @[k]],
                       !.deps = @ \cup DepsOf(st, q, pass, i)]
  BY DEF TryPass
<1>6. st2 = [st EXCEPT !.sorted = sorted2, !.ready = ready2, !.window = window2, !.deps = deps2]
  BY <1>2, <1>5 DEF SortState
<1>. HIDE DEF st2
<1>7. /\ st2.left = st.left /\ st2.still = st.still /\ st2.levels = st.levels
      /\ st2.sorted = sorted2 /\ st2.ready = ready2 /\ st2.window = window2 /\ st2.deps = deps2
  <2>. HIDE DEF sorted2, ready2, window2, deps2
  <2>. QED
    BY <1>2, <1>6 DEF SortState
<1>8. /\ st.sorted \in [Queues -> Seq(SortedType)]
      /\ e \in SortedType /\ st.sorted[q] \in Seq(SortedType)
  BY <1>1, <1>2, <1>3 DEF SortState, SortedType
<1>. HIDE DEF e
<1>9. /\ Append(st.sorted[q], e) \in Seq(SortedType)
      /\ DOMAIN Append(st.sorted[q], e) = 1 .. Len(st.sorted[q]) + 1
      /\ \A n \in DOMAIN Append(st.sorted[q], e) :
           Append(st.sorted[q], e)[n] = IF n <= Len(st.sorted[q]) THEN st.sorted[q][n] ELSE e
      /\ DOMAIN st.sorted[q] = 1 .. Len(st.sorted[q]) /\ Len(st.sorted[q]) \in Nat
  BY <1>8
<1>10. /\ sorted2 \in [Queues -> Seq(SortedType)]
       /\ sorted2[q] = Append(st.sorted[q], e)
       /\ \A r \in Queues \ {q} : sorted2[r] = st.sorted[r]
  BY <1>8, <1>9
<1>. HIDE DEF sorted2
<1>11. ASSUME NEW k \in Kinds
       PROVE  /\ ready2[k] \in Seq(ReadyType)
              /\ Len(st.ready[k]) \in Nat
              /\ Len(ready2[k]) = Len(st.ready[k]) + Len(pass.outputs[k])
              /\ \A n \in 1 .. Len(st.ready[k]) : ready2[k][n] = st.ready[k][n]
              /\ \A n \in 1 .. Len(pass.outputs[k]) : ready2[k][Len(st.ready[k]) + n] =
                   [instance |-> pass.outputs[k][n], queue |-> q, val |-> v, pass |-> i]
              /\ window2[k] \in Nat /\ window2[k] <= Len(ready2[k]) /\ st.window[k] <= window2[k]
              /\ Len(st.ready[k]) <= Len(ready2[k])
  <2>. DEFINE s == st.ready[k]
              u == made(k)
  <2>1. ready2[k] = s \o u
    OBVIOUS
  <2>2. window2[k] = IF q = "compute" THEN st.window[k] + Len(u) ELSE st.window[k]
    OBVIOUS
  <2>3. s \in Seq(ReadyType) /\ u \in Seq(ReadyType) /\ Len(u) = Len(pass.outputs[k])
        /\ Len(u) \in Nat /\ st.window[k] \in Nat /\ st.window[k] <= Len(s)
        /\ \A n \in 1 .. Len(pass.outputs[k]) : u[n] =
             [instance |-> pass.outputs[k][n], queue |-> q, val |-> v, pass |-> i]
    BY <1>4
  <2>. DEFINE new == ready2[k]
              w == st.window[k]
              w2 == window2[k]
  <2>. HIDE DEF ready2, window2, u, v, made, new, s, w, w2
  <2>4. new = s \o u
    BY <2>1 DEF new
  <2>5. /\ new \in Seq(ReadyType)
        /\ Len(s) \in Nat /\ Len(new) = Len(s) + Len(u)
        /\ \A n \in 1 .. Len(s) : new[n] = s[n]
        /\ \A n \in 1 .. Len(u) : new[Len(s) + n] = u[n]
    <3>1. s \in Seq(ReadyType) /\ u \in Seq(ReadyType)
      BY <2>3 DEF s
    <3>2. \A T, a, b : a \in Seq(T) /\ b \in Seq(T) =>
            /\ a \o b \in Seq(T)
            /\ Len(a) \in Nat /\ Len(a \o b) = Len(a) + Len(b)
            /\ \A n \in 1 .. Len(a) : (a \o b)[n] = a[n]
            /\ \A n \in 1 .. Len(b) : (a \o b)[Len(a) + n] = b[n]
      BY Joined
    <3>3. /\ s \o u \in Seq(ReadyType)
          /\ Len(s) \in Nat /\ Len(s \o u) = Len(s) + Len(u)
          /\ \A n \in 1 .. Len(s) : (s \o u)[n] = s[n]
          /\ \A n \in 1 .. Len(u) : (s \o u)[Len(s) + n] = u[n]
      BY <3>1, <3>2
    <3>. QED
      BY <2>4, <3>3, Zenon
  <2>6. w2 = (IF q = "compute" THEN w + Len(u) ELSE w) /\ w \in Nat /\ w <= Len(s)
    BY <2>2, <2>3 DEF w, w2
  <2>7. w2 \in Nat /\ w2 <= Len(new) /\ w <= w2 /\ Len(s) <= Len(new)
    BY <2>3, <2>5, <2>6
  <2>. QED
    BY <2>3, <2>5, <2>7 DEF new, s, w, w2
<1>12. ready2 \in [Kinds -> Seq(ReadyType)] /\ window2 \in [Kinds -> Nat]
  <2>1. \A k \in Kinds : ready2[k] \in Seq(ReadyType) /\ window2[k] \in Nat
    BY <1>11
  <2>2. ready2 = [k \in Kinds |-> ready2[k]] /\ window2 = [k \in Kinds |-> window2[k]]
    OBVIOUS
  <2>. HIDE DEF ready2, window2
  <2>. QED
    BY <2>1, <2>2
<1>. HIDE DEF ready2, window2
<1>13. Grows(st, st2)
  BY <1>7, <1>11 DEF Grows
<1>14. DepsOf(st, q, pass, i) \subseteq DepType
  <2>1. \A x \in pass.inputs : Producer(st, q, x) \in ReadyType
    <3>1. \A x \in pass.inputs : x \in Instances /\ Places(st, q, x) # {}
      BY <1>1, FoundIs DEF PassType
    <3>. QED
      BY <1>2, <3>1, ProducerIs
  <2>2. \A p \in ReadyType : p.queue \in Queues /\ p.pass \in Nat
    BY DEF ReadyType
  <2>3. ASSUME NEW d \in DepsOf(st, q, pass, i) PROVE d \in DepType
    <3>1. PICK x \in pass.inputs :
            d = [queue |-> q, pass |-> i, on |-> Producer(st, q, x).queue,
                 from |-> Producer(st, q, x).pass]
      BY DEF DepsOf
    <3>. QED
      BY <1>1, <2>1, <2>2, <3>1 DEF DepType
  <2>. QED
    BY <2>3
<1>15. deps2 \in SUBSET DepType
  <2>1. st.deps \in SUBSET DepType
    BY <1>2 DEF SortState
  <2>. QED
    BY <1>14, <2>1
<1>. HIDE DEF deps2
<1>16. st2 \in SortState
  BY <1>2, <1>6, <1>10, <1>12, <1>15 DEF SortState
<1>17. SortTyped(gr, st2)
  <2>1. ASSUME NEW r \in Queues, NEW n \in DOMAIN st2.sorted[r]
        PROVE  st2.sorted[r][n].pass \in DOMAIN gr[r]
    <3>1. CASE r # q
      BY <1>7, <1>10, <3>1 DEF SortTyped
    <3>2. CASE r = q
      <4>1. \/ st2.sorted[q][n] = st.sorted[q][n] /\ n \in DOMAIN st.sorted[q]
            \/ st2.sorted[q][n] = e
        BY <1>7, <1>9, <1>10, <3>2
      <4>2. e.pass = i
        BY DEF e
      <4>. QED
        BY <3>2, <4>1, <4>2 DEF SortTyped
    <3>. QED
      BY <3>1, <3>2
  <2>2. \A k \in Kinds : st2.window[k] <= Len(st2.ready[k])
    BY <1>7, <1>11
  <2>. QED
    BY <1>7, <1>16, <2>1, <2>2 DEF SortTyped
<1>18. Added(gr, q, st, i, st2)
  <2>1. st2.sorted[q] = Append(st.sorted[q], [pass |-> i, val |-> v])
    BY <1>7, <1>10 DEF e
  <2>2. st2.deps = st.deps \cup DepsOf(st, q, pass, i)
    BY <1>7 DEF deps2
  <2>. QED
    BY <1>7, <1>10, <1>11, <1>13, <2>1, <2>2 DEF Added
<1>. QED
  BY <1>17, <1>18 DEF st2

-----------------------------------------------------------------------------
(* What holds all along the loop                                           *)

Scheduled(st, q) == {st.sorted[q][j].pass : j \in DOMAIN st.sorted[q]}
IsReady(st, x) == \E n \in DOMAIN st.ready[KindOf(x)] : st.ready[KindOf(x)][n].instance = x

(* What is ready was made by a scheduled pass, and has its value.          *)
Backed(gr, st) ==
  \A k \in Kinds : \A n \in DOMAIN st.ready[k] :
    LET e == st.ready[k][n]
    IN  e.pass \in Scheduled(st, e.queue) /\ e.val = ValueOf(st, e.queue, gr[e.queue][e.pass])

(* A scheduled pass found its inputs and has the value they give it.       *)
Valued(gr, st) ==
  \A q \in Queues : \A j \in DOMAIN st.sorted[q] :
    LET s == st.sorted[q][j]
    IN  Missing(st, q, gr[q][s.pass]) = {} /\ s.val = ValueOf(st, q, gr[q][s.pass])

(* It comes after the passes of its queue that make its inputs.            *)
InTurn(gr, st) ==
  \A q \in Queues : \A j, k \in DOMAIN st.sorted[q] :
    \A x \in gr[q][st.sorted[q][j].pass].inputs :
      Producer(st, q, x).queue = q /\ Producer(st, q, x).pass = st.sorted[q][k].pass => k < j

(* All it makes is ready. *)
AllMade(gr, st) ==
  \A q \in Queues : \A i \in Scheduled(st, q) : \A x \in Instances :
    Makes(gr[q][i], x) => IsReady(st, x)

(* The dependencies recorded are those of scheduled passes on what makes   *)
(* their inputs.                                                           *)
DepsKnown(gr, st) ==
  \A d \in st.deps :
    /\ d.pass \in Scheduled(st, d.queue)
    /\ \E x \in gr[d.queue][d.pass].inputs :
         d.on = Producer(st, d.queue, x).queue /\ d.from = Producer(st, d.queue, x).pass

Core(gr, st) ==
  /\ SortTyped(gr, st)
  /\ Backed(gr, st) /\ Valued(gr, st) /\ InTurn(gr, st) /\ AllMade(gr, st) /\ DepsKnown(gr, st)

(* The passes of a graph read and write its instances.                     *)
LEMMA PassesTyped ==
  ASSUME NEW gr \in GraphType, NEW q \in Queues, NEW i \in DOMAIN gr[q]
  PROVE  /\ gr[q][i] \in PassType /\ i \in Nat
         /\ gr[q][i].inputs \subseteq Instances
         /\ \A k \in Kinds : gr[q][i].outputs[k] \in Seq(Instances)
<1>1. gr[q] \in Seq(PassType)
  BY DEF GraphType
<1>2. gr[q][i] \in PassType /\ i \in Nat
  BY <1>1
<1>. QED
  BY <1>2 DEF PassType

(* What the loop's state says of a queue, and of what is ready.            *)
LEMMA ScheduledTyped ==
  ASSUME NEW gr \in GraphType, NEW st, SortTyped(gr, st), NEW q \in Queues
  PROVE  /\ Scheduled(st, q) \subseteq DOMAIN gr[q]
         /\ st.sorted[q] \in Seq(SortedType)
         /\ DOMAIN st.sorted[q] = 1 .. Len(st.sorted[q]) /\ Len(st.sorted[q]) \in Nat
         /\ \A k \in Kinds : st.ready[k] \in Seq(ReadyType)
         /\ \A k \in Kinds : DOMAIN st.ready[k] = 1 .. Len(st.ready[k]) /\ Len(st.ready[k]) \in Nat
<1>1. st \in SortState
  BY DEF SortTyped
<1>2. st.sorted[q] \in Seq(SortedType) /\ \A k \in Kinds : st.ready[k] \in Seq(ReadyType)
  BY <1>1 DEF SortState
<1>3. Scheduled(st, q) \subseteq DOMAIN gr[q]
  BY DEF SortTyped, Scheduled
<1>. QED
  BY <1>2, <1>3

(* Scheduled passes keep their values and what makes their inputs.         *)
LEMMA ScheduledStays ==
  ASSUME NEW gr \in GraphType, NEW st, Core(gr, st), NEW st2, SortTyped(gr, st2), Grows(st, st2),
         NEW q \in Queues, NEW i \in Scheduled(st, q)
  PROVE  /\ gr[q][i] \in PassType
         /\ Missing(st, q, gr[q][i]) = {}
         /\ Missing(st2, q, gr[q][i]) = {}
         /\ ValueOf(st2, q, gr[q][i]) = ValueOf(st, q, gr[q][i])
         /\ \A x \in gr[q][i].inputs : Producer(st2, q, x) = Producer(st, q, x)
<1>1. /\ st \in SortState /\ st2 \in SortState
      /\ \A k \in Kinds : st.window[k] <= Len(st.ready[k])
      /\ \A k \in Kinds : st2.window[k] <= Len(st2.ready[k])
  BY DEF Core, SortTyped
<1>2. Missing(st, q, gr[q][i]) = {}
  BY DEF Core, Valued, Scheduled
<1>3. gr[q][i] \in PassType
  BY ScheduledTyped, PassesTyped DEF Core
<1>4. /\ Missing(st2, q, gr[q][i]) = {}
      /\ ValueOf(st2, q, gr[q][i]) = ValueOf(st, q, gr[q][i])
      /\ \A x \in gr[q][i].inputs : Producer(st2, q, x) = Producer(st, q, x)
  BY <1>1, <1>2, <1>3, ValueStays
<1>. QED
  BY <1>2, <1>3, <1>4

(* An entry of ready is the output of a scheduled pass and has its value.  *)
LEMMA EntryIs ==
  ASSUME NEW gr \in GraphType, NEW st, Core(gr, st), NEW k \in Kinds, NEW n \in DOMAIN st.ready[k]
  PROVE  LET e == st.ready[k][n]
         IN  /\ e \in ReadyType /\ e.queue \in Queues
             /\ e.pass \in Scheduled(st, e.queue)
             /\ e.val = ValueOf(st, e.queue, gr[e.queue][e.pass])
<1>1. st.ready[k][n] \in ReadyType
  <2>1. st.ready[k] \in Seq(ReadyType)
    BY DEF Core, SortTyped, SortState
  <2>. QED
    BY <2>1
<1>2. st.ready[k][n].queue \in Queues
  BY <1>1 DEF ReadyType
<1>. QED
  BY <1>1, <1>2 DEF Core, Backed

(* A dependency is between passes of the two queues.                       *)
LEMMA DepTyped ==
  ASSUME NEW gr, NEW st, SortTyped(gr, st), NEW d \in st.deps
  PROVE  d.queue \in Queues /\ d.on \in Queues
<1>1. d \in DepType
  BY DEF SortTyped, SortState
<1>. QED
  BY <1>1 DEF DepType

(* Looking further, or keeping a pass, disturbs none of it.                *)
LEMMA CoreStays ==
  ASSUME NEW gr \in GraphType, NEW st, Core(gr, st), NEW st2, SortTyped(gr, st2), Grows(st, st2),
         st2.ready = st.ready, st2.sorted = st.sorted, st2.deps = st.deps
  PROVE  Core(gr, st2)
<1>2. \A q \in Queues : Scheduled(st2, q) = Scheduled(st, q)
  BY DEF Scheduled
<1>3. ASSUME NEW q \in Queues, NEW i \in Scheduled(st, q)
      PROVE  /\ Missing(st2, q, gr[q][i]) = {}
             /\ ValueOf(st2, q, gr[q][i]) = ValueOf(st, q, gr[q][i])
             /\ \A x \in gr[q][i].inputs : Producer(st2, q, x) = Producer(st, q, x)
  BY ScheduledStays
<1>4. Backed(gr, st2)
  <2>. SUFFICES ASSUME NEW k \in Kinds, NEW n \in DOMAIN st.ready[k]
                PROVE  /\ st.ready[k][n].pass \in Scheduled(st2, st.ready[k][n].queue)
                       /\ st.ready[k][n].val
                            = ValueOf(st2, st.ready[k][n].queue, gr[st.ready[k][n].queue][st.ready[k][n].pass])
    BY DEF Backed
  <2>. DEFINE e == st.ready[k][n]
  <2>1. /\ e.queue \in Queues
        /\ e.pass \in Scheduled(st, e.queue) /\ e.val = ValueOf(st, e.queue, gr[e.queue][e.pass])
    BY EntryIs
  <2>. HIDE DEF e
  <2>4. e.pass \in Scheduled(st2, e.queue) /\ e.val = ValueOf(st2, e.queue, gr[e.queue][e.pass])
    BY <1>2, <1>3, <2>1
  <2>. QED
    BY <2>4 DEF e
<1>5. Valued(gr, st2)
  <2>. SUFFICES ASSUME NEW q \in Queues, NEW j \in DOMAIN st.sorted[q]
                PROVE  /\ Missing(st2, q, gr[q][st.sorted[q][j].pass]) = {}
                       /\ st.sorted[q][j].val = ValueOf(st2, q, gr[q][st.sorted[q][j].pass])
    BY DEF Valued
  <2>1. st.sorted[q][j].pass \in Scheduled(st, q)
    BY DEF Scheduled
  <2>2. st.sorted[q][j].val = ValueOf(st, q, gr[q][st.sorted[q][j].pass])
    BY DEF Core, Valued
  <2>. QED
    BY <1>3, <2>1, <2>2
<1>6. InTurn(gr, st2)
  <2>. SUFFICES ASSUME NEW q \in Queues, NEW j \in DOMAIN st.sorted[q], NEW k \in DOMAIN st.sorted[q],
                       NEW x \in gr[q][st.sorted[q][j].pass].inputs,
                       Producer(st2, q, x).queue = q, Producer(st2, q, x).pass = st.sorted[q][k].pass
                PROVE  k < j
    BY DEF InTurn
  <2>1. st.sorted[q][j].pass \in Scheduled(st, q)
    BY DEF Scheduled
  <2>2. Producer(st2, q, x) = Producer(st, q, x)
    BY <1>3, <2>1
  <2>. QED
    BY <2>2 DEF Core, InTurn
<1>7. AllMade(gr, st2)
  BY <1>2 DEF Core, AllMade, IsReady
<1>8. DepsKnown(gr, st2)
  <2>. SUFFICES ASSUME NEW d \in st.deps
                PROVE  /\ d.pass \in Scheduled(st2, d.queue)
                       /\ \E x \in gr[d.queue][d.pass].inputs :
                            d.on = Producer(st2, d.queue, x).queue /\ d.from = Producer(st2, d.queue, x).pass
    BY DEF DepsKnown
  <2>1. d.queue \in Queues
    BY DepTyped DEF Core
  <2>2. d.pass \in Scheduled(st, d.queue)
    BY DEF Core, DepsKnown
  <2>3. PICK x \in gr[d.queue][d.pass].inputs :
          d.on = Producer(st, d.queue, x).queue /\ d.from = Producer(st, d.queue, x).pass
    BY DEF Core, DepsKnown
  <2>4. Producer(st2, d.queue, x) = Producer(st, d.queue, x)
    BY <1>3, <2>1, <2>2
  <2>. QED
    BY <1>2, <2>1, <2>2, <2>3, <2>4
<1>. QED
  BY <1>4, <1>5, <1>6, <1>7, <1>8 DEF Core

(* Scheduling a pass disturbs none of it, if the pass is new or the one    *)
(* scheduled last.                                                         *)
LEMMA CoreAdds ==
  ASSUME NEW gr \in GraphType, NEW st, Core(gr, st), NEW q \in Queues, NEW i \in DOMAIN gr[q],
         Missing(st, q, gr[q][i]) = {},
         i \in Scheduled(st, q) => st.sorted[q][Len(st.sorted[q])].pass = i,
         NEW st2, SortTyped(gr, st2), Added(gr, q, st, i, st2)
  PROVE  /\ Core(gr, st2)
         /\ Scheduled(st2, q) = Scheduled(st, q) \cup {i}
         /\ \A r \in Queues \ {q} : Scheduled(st2, r) = Scheduled(st, r)
<1>. DEFINE L == Len(st.sorted[q])
            pass == gr[q][i]
            v == ValueOf(st, q, pass)
<1>1. /\ Grows(st, st2) /\ SortTyped(gr, st)
      /\ \A r \in Queues \ {q} : st2.sorted[r] = st.sorted[r]
      /\ st2.deps = st.deps \cup DepsOf(st, q, pass, i)
  BY DEF Added, Core
<1>2. /\ st.sorted[q] \in Seq(SortedType) /\ L \in Nat /\ DOMAIN st.sorted[q] = 1 .. L
      /\ DOMAIN st2.sorted[q] = 1 .. L + 1
      /\ \A n \in 1 .. L : st2.sorted[q][n] = st.sorted[q][n]
      /\ st2.sorted[q][L + 1] = [pass |-> i, val |-> v]
  <2>1. st.sorted[q] \in Seq(SortedType) /\ L \in Nat /\ DOMAIN st.sorted[q] = 1 .. L
    BY <1>1, ScheduledTyped
  <2>2. st2.sorted[q] = Append(st.sorted[q], [pass |-> i, val |-> v])
    BY DEF Added
  <2>. DEFINE s == st.sorted[q]
              e == [pass |-> i, val |-> v]
  <2>. HIDE DEF s, e
  <2>3. /\ DOMAIN Append(s, e) = 1 .. Len(s) + 1
        /\ \A n \in 1 .. Len(s) : Append(s, e)[n] = s[n]
        /\ Append(s, e)[Len(s) + 1] = e
    <3>1. s \in Seq(SortedType)
      BY <2>1 DEF s
    <3>. QED
      BY <3>1
  <2>. QED
    BY <2>1, <2>2, <2>3 DEF s, e
<1>3. st2.sorted[q][L + 1].pass = i /\ st2.sorted[q][L + 1].val = v
  BY <1>2
<1>4. Scheduled(st2, q) = Scheduled(st, q) \cup {i}
  <2>1. Scheduled(st2, q) = {st2.sorted[q][n].pass : n \in 1 .. L + 1}
        /\ Scheduled(st, q) = {st.sorted[q][n].pass : n \in 1 .. L}
    BY <1>2 DEF Scheduled
  <2>2. \A n \in 1 .. L + 1 : n \in 1 .. L \/ n = L + 1
    BY <1>2
  <2>3. \A n \in 1 .. L : n \in 1 .. L + 1 /\ st2.sorted[q][n].pass = st.sorted[q][n].pass
    BY <1>2
  <2>4. L + 1 \in 1 .. L + 1
    BY <1>2
  <2>. HIDE DEF L
  <2>. QED
    BY <1>3, <2>1, <2>2, <2>3, <2>4
<1>5. \A r \in Queues \ {q} : Scheduled(st2, r) = Scheduled(st, r)
  BY <1>1 DEF Scheduled
<1>6. \A r \in Queues : Scheduled(st, r) \subseteq Scheduled(st2, r)
  BY <1>4, <1>5
<1>7. ASSUME NEW r \in Queues, NEW h \in Scheduled(st, r)
      PROVE  /\ Missing(st2, r, gr[r][h]) = {}
             /\ ValueOf(st2, r, gr[r][h]) = ValueOf(st, r, gr[r][h])
             /\ \A x \in gr[r][h].inputs : Producer(st2, r, x) = Producer(st, r, x)
  BY <1>1, ScheduledStays
<1>8. pass \in PassType /\ i \in Nat /\ pass.inputs \subseteq Instances
      /\ \A k \in Kinds : pass.outputs[k] \in Seq(Instances)
  BY PassesTyped
<1>9. /\ Missing(st2, q, pass) = {}
      /\ ValueOf(st2, q, pass) = v
      /\ \A x \in pass.inputs : Producer(st2, q, x) = Producer(st, q, x)
  <2>1. /\ st \in SortState /\ st2 \in SortState
        /\ \A k \in Kinds : st.window[k] <= Len(st.ready[k])
        /\ \A k \in Kinds : st2.window[k] <= Len(st2.ready[k])
    BY <1>1 DEF SortTyped
  <2>. HIDE DEF pass
  <2>2. Missing(st, q, pass) = {}
    BY DEF pass
  <2>. QED
    BY <1>1, <1>8, <2>1, <2>2, ValueStays
<1>10. ASSUME NEW x \in pass.inputs
       PROVE  /\ Producer(st, q, x) \in ReadyType
              /\ Producer(st, q, x).queue = q => Producer(st, q, x).pass \in Scheduled(st, q)
  <2>1. /\ st \in SortState
        /\ \A k \in Kinds : st.window[k] <= Len(st.ready[k])
    BY <1>1 DEF SortTyped
  <2>2. x \in Instances /\ Places(st, q, x) # {}
    BY <1>8, FoundIs
  <2>3. KindOf(x) \in Kinds
    BY DEF KindOf, Kinds
  <2>4. PICK m \in DOMAIN st.ready[KindOf(x)] : Producer(st, q, x) = st.ready[KindOf(x)][m]
    BY <2>1, <2>2, ProducerIs
  <2>. QED
    BY <2>3, <2>4, EntryIs
<1>11. ASSUME NEW k \in Kinds
       PROVE  LET old == Len(st.ready[k])
                  made == pass.outputs[k]
              IN  /\ old \in Nat /\ Len(made) \in Nat
                  /\ DOMAIN st.ready[k] = 1 .. old /\ DOMAIN st2.ready[k] = 1 .. old + Len(made)
                  /\ DOMAIN made = 1 .. Len(made)
                  /\ \A n \in 1 .. old : st2.ready[k][n] = st.ready[k][n]
                  /\ \A n \in 1 .. Len(made) : st2.ready[k][old + n] =
                       [instance |-> made[n], queue |-> q, val |-> v, pass |-> i]
  <2>1. st2.ready[k] \in Seq(ReadyType) /\ st.ready[k] \in Seq(ReadyType)
    BY <1>1, ScheduledTyped
  <2>2. pass.outputs[k] \in Seq(Instances)
    BY <1>8
  <2>3. /\ Len(st2.ready[k]) = Len(st.ready[k]) + Len(pass.outputs[k])
        /\ \A n \in 1 .. Len(pass.outputs[k]) : st2.ready[k][Len(st.ready[k]) + n] =
             [instance |-> pass.outputs[k][n], queue |-> q, val |-> v, pass |-> i]
    BY DEF Added
  <2>4. \A n \in 1 .. Len(st.ready[k]) : st2.ready[k][n] = st.ready[k][n]
    BY <1>1 DEF Grows
  <2>5. DOMAIN st2.ready[k] = 1 .. Len(st2.ready[k])
    BY <2>1
  <2>6. Len(st.ready[k]) \in Nat /\ DOMAIN st.ready[k] = 1 .. Len(st.ready[k])
    BY <2>1
  <2>7. Len(pass.outputs[k]) \in Nat /\ DOMAIN pass.outputs[k] = 1 .. Len(pass.outputs[k])
    BY <2>2
  <2>. HIDE DEF pass, v
  <2>. QED
    BY <2>3, <2>4, <2>5, <2>6, <2>7
<1>. HIDE DEF v
<1>12. Backed(gr, st2)
  <2>. SUFFICES ASSUME NEW k \in Kinds, NEW n \in DOMAIN st2.ready[k]
                PROVE  /\ st2.ready[k][n].pass \in Scheduled(st2, st2.ready[k][n].queue)
                       /\ st2.ready[k][n].val = ValueOf(st2, st2.ready[k][n].queue,
                                                        gr[st2.ready[k][n].queue][st2.ready[k][n].pass])
    BY DEF Backed
  <2>. DEFINE old == Len(st.ready[k])
              made == pass.outputs[k]
  <2>0. /\ old \in Nat /\ Len(made) \in Nat
        /\ DOMAIN st.ready[k] = 1 .. old /\ n \in 1 .. old + Len(made)
        /\ \A m \in 1 .. old : st2.ready[k][m] = st.ready[k][m]
        /\ \A m \in 1 .. Len(made) : st2.ready[k][old + m] =
             [instance |-> made[m], queue |-> q, val |-> v, pass |-> i]
    BY <1>11
  <2>1. CASE n <= old
    <3>. DEFINE e == st.ready[k][n]
    <3>1. n \in DOMAIN st.ready[k] /\ st2.ready[k][n] = e
      BY <2>0, <2>1
    <3>2. /\ e.queue \in Queues /\ e.pass \in Scheduled(st, e.queue)
          /\ e.val = ValueOf(st, e.queue, gr[e.queue][e.pass])
      BY <3>1, EntryIs
    <3>. HIDE DEF e
    <3>3. e.pass \in Scheduled(st2, e.queue) /\ e.val = ValueOf(st2, e.queue, gr[e.queue][e.pass])
      BY <1>6, <1>7, <3>2
    <3>. QED
      BY <3>1, <3>3
  <2>2. CASE n > old
    <3>. HIDE DEF old, made
    <3>1. n - old \in 1 .. Len(made) /\ old + (n - old) = n
      BY <2>0, <2>2
    <3>2. st2.ready[k][n] = [instance |-> made[n - old], queue |-> q, val |-> v, pass |-> i]
      BY <2>0, <3>1
    <3>3. st2.ready[k][n].queue = q /\ st2.ready[k][n].val = v /\ st2.ready[k][n].pass = i
      BY <3>2
    <3>. QED
      BY <1>4, <1>9, <3>3 DEF pass
  <2>. QED
    BY <2>0, <2>1, <2>2
<1>13. Valued(gr, st2)
  <2>. SUFFICES ASSUME NEW r \in Queues, NEW j \in DOMAIN st2.sorted[r]
                PROVE  /\ Missing(st2, r, gr[r][st2.sorted[r][j].pass]) = {}
                       /\ st2.sorted[r][j].val = ValueOf(st2, r, gr[r][st2.sorted[r][j].pass])
    BY DEF Valued
  <2>1. CASE j \in DOMAIN st.sorted[r] /\ st2.sorted[r][j] = st.sorted[r][j]
    <3>1. st.sorted[r][j].pass \in Scheduled(st, r)
      BY <2>1 DEF Scheduled
    <3>2. st.sorted[r][j].val = ValueOf(st, r, gr[r][st.sorted[r][j].pass])
      BY <2>1 DEF Core, Valued
    <3>. QED
      BY <1>7, <2>1, <3>1, <3>2
  <2>2. CASE r = q /\ j = L + 1
    BY <1>3, <1>9, <2>2
  <2>3. r = q => j \in 1 .. L \/ j = L + 1
    BY <1>2
  <2>. QED
    BY <1>1, <1>2, <2>1, <2>2, <2>3
<1>14. InTurn(gr, st2)
  <2>. SUFFICES ASSUME NEW r \in Queues, NEW j \in DOMAIN st2.sorted[r], NEW k \in DOMAIN st2.sorted[r],
                       NEW x \in gr[r][st2.sorted[r][j].pass].inputs,
                       Producer(st2, r, x).queue = r,
                       Producer(st2, r, x).pass = st2.sorted[r][k].pass
                PROVE  k < j
    BY DEF InTurn
  <2>1. CASE r # q
    <3>1. st2.sorted[r] = st.sorted[r]
      BY <1>1, <2>1
    <3>2. st.sorted[r][j].pass \in Scheduled(st, r)
      BY <3>1 DEF Scheduled
    <3>3. Producer(st2, r, x) = Producer(st, r, x)
      BY <1>7, <3>1, <3>2
    <3>. QED
      BY <3>1, <3>3 DEF Core, InTurn
  <2>2. CASE r = q
    <3>. DEFINE h == st2.sorted[q][j].pass
    <3>1. (j \in 1 .. L \/ j = L + 1) /\ (k \in 1 .. L \/ k = L + 1)
      BY <1>2, <2>2
    <3>2. CASE j \in 1 .. L
      <4>1. st2.sorted[q][j] = st.sorted[q][j] /\ j \in DOMAIN st.sorted[q]
        BY <1>2, <3>2
      <4>2. h \in Scheduled(st, q)
        BY <4>1 DEF Scheduled
      <4>3. Producer(st2, q, x) = Producer(st, q, x)
        BY <1>7, <2>2, <4>2
      <4>4. CASE k \in 1 .. L
        BY <1>2, <2>2, <4>1, <4>3, <4>4 DEF Core, InTurn
      <4>5. CASE k = L + 1
        <5>1. Producer(st, q, x).queue = q /\ Producer(st, q, x).pass = i
          BY <1>3, <2>2, <4>3, <4>5
        <5>2. i \in Scheduled(st, q)
          <6>1. x \in Instances /\ Places(st, q, x) # {}
            <7>1. Missing(st, q, gr[q][h]) = {} /\ gr[q][h] \in PassType
              BY <1>1, <4>2, ScheduledStays
            <7>2. x \in gr[q][h].inputs
              BY <2>2
            <7>. QED
              BY <7>1, <7>2, FoundIs DEF PassType
          <6>2. /\ st \in SortState
                /\ \A kk \in Kinds : st.window[kk] <= Len(st.ready[kk])
            BY <1>1 DEF SortTyped
          <6>3. KindOf(x) \in Kinds
            BY DEF KindOf, Kinds
          <6>4. PICK m \in DOMAIN st.ready[KindOf(x)] : Producer(st, q, x) = st.ready[KindOf(x)][m]
            BY <6>1, <6>2, ProducerIs
          <6>. QED
            BY <5>1, <6>3, <6>4, EntryIs
        <5>3. st.sorted[q][L].pass = i
          BY <5>2
        <5>4. L \in DOMAIN st.sorted[q]
          BY <1>2, <3>2
        <5>5. L < j
          BY <2>2, <4>1, <5>1, <5>3, <5>4 DEF Core, InTurn
        <5>. QED
          BY <1>2, <3>2, <5>5
      <4>. QED
        BY <3>1, <4>4, <4>5
    <3>3. CASE j = L + 1
      <4>1. h = i /\ x \in pass.inputs
        BY <1>3, <2>2, <3>3
      <4>2. Producer(st2, q, x) = Producer(st, q, x)
        BY <1>9, <4>1
      <4>3. CASE k \in 1 .. L
        BY <1>2, <3>3, <4>3
      <4>4. CASE k = L + 1
        <5>1. Producer(st, q, x).queue = q /\ Producer(st, q, x).pass = i
          BY <1>3, <2>2, <4>2, <4>4
        <5>2. i \in Scheduled(st, q)
          BY <1>10, <4>1, <5>1
        <5>3. st.sorted[q][L].pass = i
          BY <5>2
        <5>4. L \in DOMAIN st.sorted[q]
          <6>1. L # 0
            BY <1>2, <5>2 DEF Scheduled
          <6>. QED
            BY <1>2, <6>1
        <5>5. L < L
          BY <4>1, <5>1, <5>3, <5>4 DEF Core, InTurn
        <5>. QED
          BY <1>2, <5>5
      <4>. QED
        BY <3>1, <4>3, <4>4
    <3>. QED
      BY <3>1, <3>2, <3>3
  <2>. QED
    BY <2>1, <2>2
<1>15. AllMade(gr, st2)
  <2>. SUFFICES ASSUME NEW r \in Queues, NEW h \in Scheduled(st2, r), NEW x \in Instances,
                       Makes(gr[r][h], x)
                PROVE  IsReady(st2, x)
    BY DEF AllMade
  <2>1. KindOf(x) \in Kinds
    BY DEF KindOf, Kinds
  <2>2. CASE h \in Scheduled(st, r)
    <3>1. IsReady(st, x)
      BY <2>2 DEF Core, AllMade
    <3>2. PICK n \in DOMAIN st.ready[KindOf(x)] : st.ready[KindOf(x)][n].instance = x
      BY <3>1 DEF IsReady
    <3>3. n \in DOMAIN st2.ready[KindOf(x)] /\ st2.ready[KindOf(x)][n] = st.ready[KindOf(x)][n]
      <4>. DEFINE old == Len(st.ready[KindOf(x)])
                  count == Len(pass.outputs[KindOf(x)])
                  s == st.ready[KindOf(x)]
                  s2 == st2.ready[KindOf(x)]
      <4>1. /\ old \in Nat /\ count \in Nat
            /\ DOMAIN s = 1 .. old /\ DOMAIN s2 = 1 .. old + count
            /\ \A m \in 1 .. old : s2[m] = s[m]
        BY <1>11, <2>1
      <4>2. n \in DOMAIN s
        OBVIOUS
      <4>. HIDE DEF old, count, s, s2
      <4>3. n \in DOMAIN s2 /\ s2[n] = s[n]
        BY <4>1, <4>2
      <4>. QED
        BY <4>3 DEF s, s2
    <3>. QED
      BY <3>2, <3>3 DEF IsReady
  <2>3. CASE r = q /\ h = i
    <3>. DEFINE k == KindOf(x)
                old == Len(st.ready[k])
                made == pass.outputs[k]
    <3>1. PICK n \in DOMAIN made : made[n] = x
      BY <2>3 DEF Makes
    <3>2. /\ old \in Nat /\ Len(made) \in Nat
          /\ DOMAIN st2.ready[k] = 1 .. old + Len(made) /\ DOMAIN made = 1 .. Len(made)
          /\ \A m \in 1 .. Len(made) : st2.ready[k][old + m] =
               [instance |-> made[m], queue |-> q, val |-> v, pass |-> i]
      BY <1>11, <2>1
    <3>. HIDE DEF k, old, made
    <3>3. n \in 1 .. Len(made) /\ old + n \in DOMAIN st2.ready[k]
      BY <3>1, <3>2
    <3>4. st2.ready[k][old + n] = [instance |-> x, queue |-> q, val |-> v, pass |-> i]
      BY <3>1, <3>2, <3>3
    <3>5. st2.ready[k][old + n].instance = x
      BY <3>4
    <3>. QED
      BY <3>3, <3>5 DEF IsReady, k
  <2>. QED
    BY <1>4, <1>5, <2>2, <2>3
<1>16. DepsKnown(gr, st2)
  <2>. SUFFICES ASSUME NEW d \in st2.deps
                PROVE  /\ d.pass \in Scheduled(st2, d.queue)
                       /\ \E x \in gr[d.queue][d.pass].inputs :
                            d.on = Producer(st2, d.queue, x).queue /\ d.from = Producer(st2, d.queue, x).pass
    BY DEF DepsKnown
  <2>1. CASE d \in st.deps
    <3>1. d.queue \in Queues
      BY <1>1, <2>1, DepTyped
    <3>2. d.pass \in Scheduled(st, d.queue)
      BY <2>1 DEF Core, DepsKnown
    <3>3. PICK x \in gr[d.queue][d.pass].inputs :
            d.on = Producer(st, d.queue, x).queue /\ d.from = Producer(st, d.queue, x).pass
      BY <2>1 DEF Core, DepsKnown
    <3>4. Producer(st2, d.queue, x) = Producer(st, d.queue, x)
      BY <1>7, <3>1, <3>2
    <3>. QED
      BY <1>6, <3>1, <3>2, <3>3, <3>4
  <2>2. CASE d \in DepsOf(st, q, pass, i)
    <3>1. PICK x \in pass.inputs :
            d = [queue |-> q, pass |-> i, on |-> Producer(st, q, x).queue,
                 from |-> Producer(st, q, x).pass]
      BY <2>2 DEF DepsOf
    <3>2. Producer(st2, q, x) = Producer(st, q, x)
      BY <1>9
    <3>. QED
      BY <1>4, <3>1, <3>2
  <2>. QED
    BY <1>1, <2>1, <2>2
<1>17. Core(gr, st2)
  BY <1>12, <1>13, <1>14, <1>15, <1>16 DEF Core
<1>. QED
  BY <1>4, <1>5, <1>17

(* The order ScheduleSound asks for. *)
LEMMA DepsOrdered ==
  ASSUME NEW gr \in GraphType, NEW st, Core(gr, st), NEW d \in st.deps,
         NEW j \in DOMAIN st.sorted[d.queue], NEW k \in DOMAIN st.sorted[d.on],
         st.sorted[d.queue][j].pass = d.pass, st.sorted[d.on][k].pass = d.from
  PROVE  IF d.on = d.queue THEN k < j ELSE st.sorted[d.on][k].val < st.sorted[d.queue][j].val
<1>1. d.queue \in Queues /\ d.on \in Queues
  BY DepTyped DEF Core
<1>2. PICK x \in gr[d.queue][d.pass].inputs :
        d.on = Producer(st, d.queue, x).queue /\ d.from = Producer(st, d.queue, x).pass
  BY DEF Core, DepsKnown
<1>. DEFINE p == Producer(st, d.queue, x)
<1>3. CASE d.on = d.queue
  <2>1. x \in gr[d.queue][st.sorted[d.queue][j].pass].inputs
    OBVIOUS
  <2>2. p.queue = d.queue /\ p.pass = st.sorted[d.queue][k].pass
    BY <1>2, <1>3
  <2>3. k \in DOMAIN st.sorted[d.queue]
    BY <1>3
  <2>4. k < j
    BY <1>1, <2>1, <2>2, <2>3 DEF Core, InTurn
  <2>. QED
    BY <1>3, <2>4
<1>4. CASE d.on # d.queue
  <2>1. /\ st \in SortState
        /\ \A h \in Kinds : st.window[h] <= Len(st.ready[h])
    BY DEF Core, SortTyped
  <2>2. /\ Missing(st, d.queue, gr[d.queue][d.pass]) = {}
        /\ st.sorted[d.queue][j].val = ValueOf(st, d.queue, gr[d.queue][d.pass])
    BY <1>1 DEF Core, Valued
  <2>3. st.sorted[d.on][k].val = ValueOf(st, d.on, gr[d.on][d.from])
    BY <1>1 DEF Core, Valued
  <2>4. d.pass \in Scheduled(st, d.queue)
    BY DEF Scheduled
  <2>5. gr[d.queue][d.pass] \in PassType
    BY <1>1, <2>4, ScheduledTyped, PassesTyped DEF Core
  <2>6. p.queue # d.queue => p.val < ValueOf(st, d.queue, gr[d.queue][d.pass])
    BY <1>1, <2>1, <2>2, <2>5, ValueIs
  <2>7. p.val = ValueOf(st, p.queue, gr[p.queue][p.pass])
    <3>1. x \in Instances /\ Places(st, d.queue, x) # {}
      BY <2>2, <2>5, FoundIs DEF PassType
    <3>2. KindOf(x) \in Kinds
      BY DEF KindOf, Kinds
    <3>3. PICK m \in DOMAIN st.ready[KindOf(x)] : p = st.ready[KindOf(x)][m]
      BY <1>1, <2>1, <3>1, ProducerIs
    <3>. QED
      BY <3>2, <3>3, EntryIs
  <2>8. p.val < st.sorted[d.queue][j].val /\ p.val = st.sorted[d.on][k].val
    BY <1>2, <1>4, <2>2, <2>3, <2>6, <2>7
  <2>. QED
    BY <1>4, <2>8
<1>. QED
  BY <1>3, <1>4

-----------------------------------------------------------------------------
(* One queue's part of a turn                                              *)

Members(s) == {s[n] : n \in DOMAIN s}
Ascending(s) == \A m, n \in DOMAIN s : m <= n => s[m] <= s[n]

(* The passes left to try after n of them. *)
ToTry(st, q, n) == {st.left[q][m] : m \in n + 1 .. Len(st.left[q])}

(* State t, after n of the passes left in queue q at st were tried.  A     *)
(* pass may be left twice, but then in two places side by side.            *)
Tried(gr, st, q, t, n) ==
  /\ Core(gr, t) /\ Grows(st, t)
  /\ t.left = st.left /\ t.levels = st.levels
  /\ \A r \in Queues \ {q} : t.sorted[r] = st.sorted[r] /\ t.still[r] = st.still[r]
  /\ Scheduled(st, q) \subseteq Scheduled(t, q)
  /\ Len(st.sorted[q]) <= Len(t.sorted[q])
  /\ Ascending(t.still[q])
  /\ \A h \in Members(t.still[q]) :
       /\ h \notin Scheduled(t, q)
       /\ Missing(st, q, gr[q][h]) # {}
       /\ \A c \in ToTry(st, q, n) : h <= c
       /\ h \in ToTry(st, q, n) => Missing(t, q, gr[q][h]) # {}
  /\ \A h \in ToTry(st, q, n) :
       h \in Scheduled(t, q) =>
         h = st.left[q][n + 1] /\ t.sorted[q][Len(t.sorted[q])].pass = h
  /\ DOMAIN gr[q] = Scheduled(t, q) \cup Members(t.still[q]) \cup ToTry(st, q, n)

(* What a queue starts a turn with. *)
Fresh(gr, st, q) ==
  /\ st.still[q] = <<>>
  /\ Ascending(st.left[q])
  /\ \A h \in Members(st.left[q]) : h \notin Scheduled(st, q)
  /\ DOMAIN gr[q] = Scheduled(st, q) \cup Members(st.left[q])

(* The passes left and kept are those of the graph.                        *)
LEMMA LeftTyped ==
  ASSUME NEW gr \in GraphType, NEW st, SortTyped(gr, st), NEW q \in Queues
  PROVE  /\ st.left[q] \in Seq(Nat) /\ st.still[q] \in Seq(Nat)
         /\ Len(st.left[q]) \in Nat
         /\ DOMAIN st.left[q] = 1 .. Len(st.left[q])
         /\ Members(st.left[q]) \subseteq DOMAIN gr[q]
         /\ Members(st.still[q]) \subseteq DOMAIN gr[q]
         /\ DOMAIN gr[q] \subseteq Nat
<1>1. st.left[q] \in Seq(Nat) /\ st.still[q] \in Seq(Nat)
  BY DEF SortTyped, SortState
<1>2. Members(st.left[q]) \subseteq DOMAIN gr[q] /\ Members(st.still[q]) \subseteq DOMAIN gr[q]
  BY DEF SortTyped, Members
<1>3. gr[q] \in Seq(PassType)
  BY DEF GraphType
<1>. QED
  BY <1>1, <1>2, <1>3

(* Before any pass of a queue is tried.                                    *)
LEMMA TriedStart ==
  ASSUME NEW gr \in GraphType, NEW st, Core(gr, st), NEW q \in Queues, Fresh(gr, st, q)
  PROVE  Tried(gr, st, q, st, 0)
<1>1. SortTyped(gr, st)
  BY DEF Core
<1>2. ToTry(st, q, 0) = Members(st.left[q])
  BY <1>1, LeftTyped DEF ToTry, Members
<1>3. Members(st.still[q]) = {} /\ Ascending(st.still[q])
  BY DEF Fresh, Members, Ascending
<1>4. Grows(st, st)
  <2>1. \A k \in Kinds : Len(st.ready[k]) \in Nat /\ st.window[k] \in Nat
    <3>1. \A k \in Kinds : st.ready[k] \in Seq(ReadyType) /\ st.window[k] \in Nat
      BY <1>1 DEF SortTyped, SortState
    <3>. QED
      BY <3>1
  <2>. QED
    BY <2>1 DEF Grows
<1>5. Len(st.sorted[q]) <= Len(st.sorted[q])
  BY <1>1, ScheduledTyped
<1>. QED
  BY <1>2, <1>3, <1>4, <1>5 DEF Tried, Fresh

(* The next pass to try is the least. *)
LEMMA ToTryIs ==
  ASSUME NEW gr \in GraphType, NEW st, SortTyped(gr, st), NEW q \in Queues, Ascending(st.left[q]),
         NEW n \in Nat, n < Len(st.left[q])
  PROVE  LET i == st.left[q][n + 1]
         IN  /\ i \in DOMAIN gr[q] /\ i \in Nat
             /\ ToTry(st, q, n) = ToTry(st, q, n + 1) \cup {i}
             /\ \A c \in ToTry(st, q, n) : i <= c /\ c \in Nat
             /\ i \in ToTry(st, q, n + 1) => i = st.left[q][n + 2]
<1>. DEFINE s == st.left[q]
            i == s[n + 1]
<1>1. /\ s \in Seq(Nat) /\ Len(s) \in Nat /\ DOMAIN s = 1 .. Len(s)
      /\ \A m \in DOMAIN s : s[m] \in DOMAIN gr[q]
  BY LeftTyped DEF SortTyped
<1>2. ToTry(st, q, n) = {s[m] : m \in n + 1 .. Len(s)}
      /\ ToTry(st, q, n + 1) = {s[m] : m \in n + 2 .. Len(s)}
  <2>1. (n + 1) + 1 = n + 2
    OBVIOUS
  <2>. QED
    BY <2>1 DEF ToTry
<1>3. \A a, b \in DOMAIN s : a <= b => s[a] <= s[b]
  BY DEF Ascending
<1>4. n < Len(s)
  OBVIOUS
<1>. HIDE DEF s
<1>5. n + 1 \in 1 .. Len(s)
  BY <1>1, <1>4
<1>6. i \in DOMAIN gr[q] /\ i \in Nat
  BY <1>1, <1>5
<1>7. {s[m] : m \in n + 1 .. Len(s)} = {s[m] : m \in n + 2 .. Len(s)} \cup {i}
  <2>1. \A m \in n + 1 .. Len(s) : m = n + 1 \/ m \in n + 2 .. Len(s)
    OBVIOUS
  <2>2. \A m \in n + 2 .. Len(s) : m \in n + 1 .. Len(s)
    OBVIOUS
  <2>3. n + 1 \in n + 1 .. Len(s)
    BY <1>1, <1>5
  <2>. QED
    BY <2>1, <2>2, <2>3
<1>8. ASSUME NEW m \in n + 1 .. Len(s) PROVE i <= s[m] /\ s[m] \in Nat
  <2>1. m \in DOMAIN s /\ n + 1 \in DOMAIN s /\ n + 1 <= m
    BY <1>1, <1>5
  <2>2. i <= s[m]
    BY <1>3, <2>1
  <2>3. s[m] \in Nat
    BY <1>1, <2>1
  <2>. QED
    BY <2>2, <2>3
<1>9. ASSUME NEW m \in n + 2 .. Len(s), i = s[m] PROVE i = s[n + 2]
  <2>1. m \in DOMAIN s /\ n + 2 \in DOMAIN s /\ n + 2 <= m /\ n + 2 \in n + 1 .. Len(s)
    BY <1>1, <1>5
  <2>2. s[n + 2] <= i
    BY <1>3, <1>9, <2>1
  <2>3. i <= s[n + 2] /\ s[n + 2] \in Nat
    BY <1>8, <2>1
  <2>. QED
    BY <1>6, <2>2, <2>3
<1>10. \A c \in ToTry(st, q, n) : i <= c /\ c \in Nat
  BY <1>2, <1>8
<1>11. i \in ToTry(st, q, n + 1) => i = s[n + 2]
  BY <1>2, <1>9
<1>12. ToTry(st, q, n) = ToTry(st, q, n + 1) \cup {i}
  BY <1>2, <1>7
<1>. QED
  BY <1>6, <1>10, <1>11, <1>12 DEF s

(* Grows is transitive.                                                    *)
LEMMA GrowsOn ==
  ASSUME NEW a \in SortState, NEW b \in SortState, NEW c \in SortState, Grows(a, b), Grows(b, c)
  PROVE  Grows(a, c)
<1>. SUFFICES ASSUME NEW k \in Kinds
              PROVE  /\ Len(a.ready[k]) <= Len(c.ready[k])
                     /\ \A m \in 1 .. Len(a.ready[k]) : c.ready[k][m] = a.ready[k][m]
                     /\ a.window[k] <= c.window[k]
  BY DEF Grows
<1>. DEFINE x == Len(a.ready[k])
            y == Len(b.ready[k])
            z == Len(c.ready[k])
<1>1. /\ x \in Nat /\ y \in Nat /\ z \in Nat
      /\ a.window[k] \in Nat /\ b.window[k] \in Nat /\ c.window[k] \in Nat
  <2>1. /\ a.ready[k] \in Seq(ReadyType) /\ b.ready[k] \in Seq(ReadyType)
        /\ c.ready[k] \in Seq(ReadyType)
        /\ a.window[k] \in Nat /\ b.window[k] \in Nat /\ c.window[k] \in Nat
    BY DEF SortState
  <2>. QED
    BY <2>1
<1>2. /\ x <= y /\ y <= z
      /\ \A m \in 1 .. x : b.ready[k][m] = a.ready[k][m]
      /\ \A m \in 1 .. y : c.ready[k][m] = b.ready[k][m]
      /\ a.window[k] <= b.window[k] /\ b.window[k] <= c.window[k]
  BY DEF Grows
<1>. HIDE DEF x, y, z
<1>3. x <= z /\ \A m \in 1 .. x : m \in 1 .. y
  BY <1>1, <1>2
<1>4. \A m \in 1 .. x : c.ready[k][m] = a.ready[k][m]
  BY <1>2, <1>3
<1>5. a.window[k] <= c.window[k]
  BY <1>1, <1>2
<1>. QED
  BY <1>3, <1>4, <1>5 DEF x, z

(* One more pass is tried: the core invariant stays, and a pass kept is    *)
(* one that could not run yet.                                             *)
LEMMA TriedStep ==
  ASSUME NEW gr \in GraphType, NEW st, SortTyped(gr, st), NEW q \in Queues, Ascending(st.left[q]),
         NEW t, NEW n \in Nat, n < Len(st.left[q]), Tried(gr, st, q, t, n)
  PROVE  Tried(gr, st, q, TryPass(gr, q, t, st.left[q][n + 1]), n + 1)
<1>. DEFINE i == st.left[q][n + 1]
            t2 == TryPass(gr, q, t, i)
            s == t.still[q]
            s2 == t2.still[q]
<1>1. /\ i \in DOMAIN gr[q] /\ i \in Nat
      /\ ToTry(st, q, n) = ToTry(st, q, n + 1) \cup {i}
      /\ \A c \in ToTry(st, q, n) : i <= c /\ c \in Nat
      /\ i \in ToTry(st, q, n + 1) => i = st.left[q][(n + 1) + 1]
  <2>1. (n + 1) + 1 = n + 2
    OBVIOUS
  <2>. QED
    BY <2>1, ToTryIs
<1>2. /\ Core(gr, t) /\ SortTyped(gr, t) /\ Grows(st, t)
      /\ t.left = st.left /\ t.levels = st.levels
      /\ \A r \in Queues \ {q} : t.sorted[r] = st.sorted[r] /\ t.still[r] = st.still[r]
      /\ Scheduled(st, q) \subseteq Scheduled(t, q)
      /\ Len(st.sorted[q]) <= Len(t.sorted[q])
      /\ Ascending(s)
  BY DEF Tried, Core
<1>3. \A h \in Members(s) :
        /\ h \notin Scheduled(t, q)
        /\ Missing(st, q, gr[q][h]) # {}
        /\ \A c \in ToTry(st, q, n) : h <= c
        /\ h \in ToTry(st, q, n) => Missing(t, q, gr[q][h]) # {}
  BY DEF Tried
<1>4. \A h \in ToTry(st, q, n) : h \in Scheduled(t, q) =>
        h = i /\ t.sorted[q][Len(t.sorted[q])].pass = h
  BY DEF Tried
<1>5. DOMAIN gr[q] = Scheduled(t, q) \cup Members(s) \cup ToTry(st, q, n)
  BY DEF Tried
<1>6. Members(s) \subseteq Nat /\ s \in Seq(Nat)
  BY <1>2, LeftTyped
<1>7. CASE Missing(t, q, gr[q][i]) # {}
  <2>1. SortTyped(gr, t2) /\ Kept(q, t, i, t2)
    BY <1>1, <1>2, <1>7, TryFails
  <2>2. /\ t2.left = t.left /\ t2.ready = t.ready /\ t2.window = t.window
        /\ t2.sorted = t.sorted /\ t2.levels = t.levels /\ t2.deps = t.deps
        /\ \A r \in Queues \ {q} : t2.still[r] = t.still[r]
    BY <2>1 DEF Kept
  <2>3. PICK w \in {<<i>>, <<i, i>>} : s2 = s \o w
    BY <2>1 DEF Kept
  <2>. HIDE DEF i, t2, s, s2
  <2>4. Grows(st, t2) /\ Grows(t, t2)
    <3>1. \A k \in Kinds : Len(t.ready[k]) \in Nat /\ t.window[k] \in Nat
      <4>1. \A k \in Kinds : t.ready[k] \in Seq(ReadyType) /\ t.window[k] \in Nat
        BY <1>2 DEF SortTyped, SortState
      <4>. QED
        BY <4>1
    <3>. QED
      BY <1>2, <2>2, <3>1 DEF Grows
  <2>5. Core(gr, t2)
    BY <1>2, <2>1, <2>2, <2>4, CoreStays
  <2>6. Scheduled(t2, q) = Scheduled(t, q)
    BY <2>2 DEF Scheduled
  <2>7. i \notin Scheduled(t, q)
    BY <1>2, <1>7, <2>1, <2>4, ScheduledStays
  <2>8. Missing(st, q, gr[q][i]) # {}
    <3>. SUFFICES ASSUME Missing(st, q, gr[q][i]) = {} PROVE FALSE
      OBVIOUS
    <3>1. gr[q][i] \in PassType
      BY <1>1, PassesTyped
    <3>2. /\ st \in SortState /\ t \in SortState
          /\ \A k \in Kinds : st.window[k] <= Len(st.ready[k])
          /\ \A k \in Kinds : t.window[k] <= Len(t.ready[k])
      BY <1>2 DEF SortTyped
    <3>. QED
      BY <1>2, <1>7, <3>1, <3>2, ValueStays
  <2>9. \A h : Missing(t2, q, gr[q][h]) = Missing(t, q, gr[q][h])
    BY <2>2 DEF Missing, Places, Visible
  <2>10. /\ Members(s2) = Members(s) \cup {i}
         /\ Ascending(s2)
    <3>1. /\ w \in Seq(Nat) /\ w # <<>> /\ \A m \in DOMAIN w : w[m] = i
          /\ Len(w) \in Nat /\ Len(w) >= 1
      <4>1. <<i>> \in Seq(Nat) /\ <<i>> # <<>> /\ Len(<<i>>) = 1 /\ \A m \in DOMAIN <<i>> : <<i>>[m] = i
        BY <1>1
      <4>2. <<i, i>> \in Seq(Nat) /\ <<i, i>> # <<>> /\ Len(<<i, i>>) = 2
            /\ \A m \in DOMAIN <<i, i>> : <<i, i>>[m] = i
        BY <1>1
      <4>3. CASE w = <<i>>
        BY <4>1, <4>3
      <4>4. CASE w = <<i, i>>
        BY <4>2, <4>4
      <4>. QED
        BY <2>3, <4>3, <4>4
    <3>2. /\ Len(s) \in Nat /\ Len(w) \in Nat
          /\ DOMAIN s = 1 .. Len(s) /\ DOMAIN w = 1 .. Len(w)
          /\ DOMAIN (s \o w) = 1 .. Len(s) + Len(w)
          /\ \A m \in 1 .. Len(s) : (s \o w)[m] = s[m]
          /\ \A m \in 1 .. Len(w) : (s \o w)[Len(s) + m] = w[m]
      BY <1>6, <3>1, Joined
    <3>3. ASSUME NEW m \in 1 .. Len(s) + Len(w), ~(m <= Len(s)) PROVE s2[m] = i
      <4>1. m - Len(s) \in 1 .. Len(w) /\ Len(s) + (m - Len(s)) = m
        BY <3>2, <3>3
      <4>2. (s \o w)[m] = w[m - Len(s)]
        BY <3>2, <4>1
      <4>. QED
        BY <2>3, <3>1, <3>2, <4>1, <4>2
    <3>4. DOMAIN s2 = 1 .. Len(s) + Len(w) /\ \A m \in 1 .. Len(s) : s2[m] = s[m]
      BY <2>3, <3>2
    <3>5. \A m \in DOMAIN s : s[m] <= i /\ s[m] \in Nat
      <4>1. i \in ToTry(st, q, n)
        BY <1>1
      <4>. QED
        BY <1>3, <1>6, <4>1 DEF Members
    <3>6. Members(s2) = Members(s) \cup {i}
      <4>1. Len(s) + 1 \in 1 .. Len(s) + Len(w) /\ ~(Len(s) + 1 <= Len(s))
        BY <3>1, <3>2
      <4>2. s2[Len(s) + 1] = i
        BY <3>3, <4>1
      <4>3. \A m \in DOMAIN s : m \in DOMAIN s2
        BY <3>2, <3>4
      <4>4. \A m \in DOMAIN s2 : (m \in DOMAIN s /\ s2[m] = s[m]) \/ s2[m] = i
        BY <3>2, <3>3, <3>4
      <4>. QED
        BY <3>2, <3>4, <4>1, <4>2, <4>3, <4>4 DEF Members
    <3>7. Ascending(s2)
      <4>. SUFFICES ASSUME NEW a \in DOMAIN s2, NEW b \in DOMAIN s2, a <= b PROVE s2[a] <= s2[b]
        BY DEF Ascending
      <4>1. CASE b <= Len(s)
        <5>1. a \in DOMAIN s /\ b \in DOMAIN s /\ s2[a] = s[a] /\ s2[b] = s[b]
          BY <3>2, <3>4, <4>1
        <5>. QED
          BY <1>2, <5>1 DEF Ascending
      <4>2. CASE ~(b <= Len(s))
        <5>1. s2[b] = i
          BY <3>3, <3>4, <4>2
        <5>2. s2[a] = i \/ (a \in DOMAIN s /\ s2[a] = s[a])
          BY <3>2, <3>3, <3>4
        <5>. QED
          BY <1>1, <3>5, <5>1, <5>2
      <4>. QED
        BY <4>1, <4>2
    <3>. QED
      BY <3>6, <3>7
  <2>11. ASSUME NEW h \in Members(s2)
         PROVE  /\ h \notin Scheduled(t2, q)
                /\ Missing(st, q, gr[q][h]) # {}
                /\ \A c \in ToTry(st, q, n + 1) : h <= c
                /\ h \in ToTry(st, q, n + 1) => Missing(t2, q, gr[q][h]) # {}
    <3>1. CASE h = i
      BY <1>1, <1>7, <2>6, <2>7, <2>8, <2>9, <3>1
    <3>2. CASE h \in Members(s)
      BY <1>1, <1>3, <2>6, <2>9, <3>2
    <3>. QED
      BY <2>10, <3>1, <3>2
  <2>12. \A h \in ToTry(st, q, n + 1) : h \notin Scheduled(t2, q)
    BY <1>1, <1>4, <2>6, <2>7
  <2>13. DOMAIN gr[q] = Scheduled(t2, q) \cup Members(s2) \cup ToTry(st, q, n + 1)
    BY <1>1, <1>5, <2>6, <2>10
  <2>14. Tried(gr, st, q, t2, n + 1)
    BY <1>2, <2>2, <2>4, <2>5, <2>6, <2>10, <2>11, <2>12, <2>13 DEF Tried, s2
  <2>. QED
    BY <2>14 DEF t2, i
<1>8. CASE Missing(t, q, gr[q][i]) = {}
  <2>1. SortTyped(gr, t2) /\ Added(gr, q, t, i, t2)
    BY <1>1, <1>2, <1>8, TrySucceeds
  <2>2. /\ t2.left = t.left /\ t2.still = t.still /\ t2.levels = t.levels
        /\ \A r \in Queues \ {q} : t2.sorted[r] = t.sorted[r]
        /\ Grows(t, t2)
    BY <2>1 DEF Added
  <2>. HIDE DEF i, t2
  <2>3. i \in ToTry(st, q, n)
    BY <1>1
  <2>4. i \in Scheduled(t, q) => t.sorted[q][Len(t.sorted[q])].pass = i
    BY <1>4, <2>3
  <2>5. /\ Core(gr, t2)
        /\ Scheduled(t2, q) = Scheduled(t, q) \cup {i}
    BY <1>1, <1>2, <1>8, <2>1, <2>4, CoreAdds
  <2>6. t2.sorted[q][Len(t2.sorted[q])].pass = i
    <3>. DEFINE a == t.sorted[q]
                e == [pass |-> i, val |-> ValueOf(t, q, gr[q][i])]
    <3>1. t2.sorted[q] = Append(a, e)
      BY <2>1 DEF Added
    <3>2. a \in Seq(SortedType)
      BY <1>2, ScheduledTyped
    <3>3. e.pass = i
      OBVIOUS
    <3>. HIDE DEF a, e
    <3>4. Append(a, e)[Len(Append(a, e))] = e
      BY <3>2
    <3>. QED
      BY <3>1, <3>3, <3>4
  <2>15. Len(st.sorted[q]) <= Len(t2.sorted[q])
    <3>. DEFINE a == t.sorted[q]
                e == [pass |-> i, val |-> ValueOf(t, q, gr[q][i])]
    <3>1. t2.sorted[q] = Append(a, e)
      BY <2>1 DEF Added
    <3>2. a \in Seq(SortedType) /\ Len(st.sorted[q]) \in Nat
      BY <1>2, ScheduledTyped
    <3>. HIDE DEF e
    <3>3. Len(Append(a, e)) = Len(a) + 1 /\ Len(a) \in Nat
      BY <3>2
    <3>4. Len(st.sorted[q]) <= Len(a)
      BY <1>2
    <3>. HIDE DEF a
    <3>. QED
      BY <3>1, <3>2, <3>3, <3>4
  <2>7. Grows(st, t2)
    BY <1>2, <2>1, <2>2, GrowsOn DEF SortTyped
  <2>8. i \notin Members(s)
    BY <1>3, <1>8, <2>3
  <2>9. ASSUME NEW h \in Members(s)
        PROVE  /\ h \notin Scheduled(t2, q)
               /\ Missing(st, q, gr[q][h]) # {}
               /\ \A c \in ToTry(st, q, n + 1) : h <= c
               /\ h \in ToTry(st, q, n + 1) => Missing(t2, q, gr[q][h]) # {}
    <3>1. h \notin Scheduled(t2, q)
      BY <1>3, <2>5, <2>8
    <3>2. h \notin ToTry(st, q, n + 1)
      <4>. SUFFICES ASSUME h \in ToTry(st, q, n + 1) PROVE FALSE
        OBVIOUS
      <4>1. h <= i /\ i <= h /\ h \in Nat
        BY <1>1, <1>3, <2>3
      <4>2. h = i
        BY <1>1, <4>1
      <4>. QED
        BY <2>8, <4>2
    <3>. QED
      BY <1>1, <1>3, <3>1, <3>2
  <2>10. ASSUME NEW h \in ToTry(st, q, n + 1), h \in Scheduled(t2, q)
         PROVE  h = st.left[q][(n + 1) + 1] /\ t2.sorted[q][Len(t2.sorted[q])].pass = h
    <3>1. h = i
      BY <1>1, <1>4, <2>5, <2>10
    <3>. QED
      BY <1>1, <2>6, <2>10, <3>1
  <2>11. DOMAIN gr[q] = Scheduled(t2, q) \cup Members(s) \cup ToTry(st, q, n + 1)
    BY <1>1, <1>5, <2>5
  <2>12. \A r \in Queues \ {q} : t2.sorted[r] = st.sorted[r] /\ t2.still[r] = st.still[r]
    BY <1>2, <2>2
  <2>13. s2 = s /\ t2.left = st.left /\ t2.levels = st.levels
         /\ Scheduled(st, q) \subseteq Scheduled(t2, q)
    BY <1>2, <2>2, <2>5
  <2>14. Tried(gr, st, q, t2, n + 1)
    <3>. HIDE DEF s
    <3>. QED
      BY <1>2, <2>5, <2>15, <2>7, <2>9, <2>10, <2>11, <2>12, <2>13 DEF Tried, s2
  <2>. QED
    BY <2>14 DEF t2, i
<1>. QED
  BY <1>7, <1>8

(* The states of the loop over the passes left in a queue. *)
IsTried(f, gr, st, q) ==
  f = [n \in 0 .. Len(st.left[q]) |->
         IF n = 0 THEN st ELSE TryPass(gr, q, f[n - 1], st.left[q][n])]

(* The function TryPasses is defined by exists.                            *)
LEMMA TriedExists ==
  ASSUME NEW gr \in GraphType, NEW st, SortTyped(gr, st), NEW q \in Queues
  PROVE  \E f : IsTried(f, gr, st, q)
<1>. DEFINE S == {t \in SortState : SortTyped(gr, t)}
            N == Len(st.left[q])
            G == [n \in 1 .. N |-> [t \in S |-> TryPass(gr, q, t, st.left[q][n])]]
<1>1. st \in S
  BY DEF SortTyped
<1>2. N \in Nat /\ DOMAIN st.left[q] = 1 .. N /\ \A n \in 1 .. N : st.left[q][n] \in DOMAIN gr[q]
  BY LeftTyped DEF SortTyped
<1>3. ASSUME NEW t \in S, NEW i \in DOMAIN gr[q] PROVE TryPass(gr, q, t, i) \in S
  <2>1. SortTyped(gr, TryPass(gr, q, t, i))
    BY TryFails, TrySucceeds
  <2>. QED
    BY <2>1 DEF SortTyped
<1>. HIDE DEF S, N
<1>4. G \in [1 .. N -> [S -> S]]
  BY <1>2, <1>3
<1>5. \A n \in 1 .. N : \A t \in S : G[n][t] = TryPass(gr, q, t, st.left[q][n])
  OBVIOUS
<1>. HIDE DEF G
<1>6. PICK f : IsRecursive(f, N, S, st, G)
  BY <1>1, <1>2, <1>4, RecursionExists
<1>7. ASSUME NEW n \in 0 .. N
      PROVE  f[n] = IF n = 0 THEN st ELSE TryPass(gr, q, f[n - 1], st.left[q][n])
  <2>1. CASE n = 0
    BY <1>6, <2>1 DEF IsRecursive
  <2>2. CASE n # 0
    <3>1. n \in 1 .. N /\ n - 1 \in 0 .. N
      BY <1>2, <2>2
    <3>2. f[n - 1] \in S /\ f[n] = G[n][f[n - 1]]
      BY <1>6, <3>1 DEF IsRecursive
    <3>. QED
      BY <1>5, <2>2, <3>1, <3>2
  <2>. QED
    BY <2>1, <2>2
<1>8. f = [n \in 0 .. N |-> f[n]]
  BY <1>6 DEF IsRecursive
<1>9. f = [n \in 0 .. N |-> IF n = 0 THEN st ELSE TryPass(gr, q, f[n - 1], st.left[q][n])]
  BY <1>7, <1>8
<1>. QED
  BY <1>9 DEF IsTried, N

(* What holds when all passes of a queue have been tried.                  *)
LEMMA TryPassesIs ==
  ASSUME NEW gr \in GraphType, NEW st, Core(gr, st), NEW q \in Queues, Fresh(gr, st, q)
  PROVE  Tried(gr, st, q, TryPasses(gr, st, q), Len(st.left[q]))
<1>. DEFINE f == CHOOSE f : IsTried(f, gr, st, q)
            N == Len(st.left[q])
            S == {n \in Nat : n <= N => Tried(gr, st, q, f[n], n)}
<1>1. TryPasses(gr, st, q) = f[N]
  BY DEF TryPasses, IsTried
<1>2. SortTyped(gr, st) /\ N \in Nat
  BY LeftTyped DEF Core
<1>3. IsTried(f, gr, st, q)
  BY <1>2, TriedExists
<1>. HIDE DEF f
<1>4. f[0] = st /\ \A n \in 1 .. N : f[n] = TryPass(gr, q, f[n - 1], st.left[q][n])
  <2>1. \A n \in 0 .. N : f[n] = IF n = 0 THEN st ELSE TryPass(gr, q, f[n - 1], st.left[q][n])
    BY <1>3 DEF IsTried
  <2>2. 0 \in 0 .. N
    BY <1>2
  <2>3. \A n \in 1 .. N : n \in 0 .. N /\ n # 0
    BY <1>2
  <2>. HIDE DEF N
  <2>. QED
    BY <2>1, <2>2, <2>3
<1>5. 0 \in S
  BY <1>4, TriedStart
<1>6. ASSUME NEW n \in Nat, n \in S PROVE n + 1 \in S
  <2>. SUFFICES ASSUME n + 1 <= N PROVE Tried(gr, st, q, f[n + 1], n + 1)
    OBVIOUS
  <2>1. n < N /\ n + 1 \in 1 .. N /\ (n + 1) - 1 = n
    BY <1>2
  <2>2. Tried(gr, st, q, f[n], n)
    BY <1>2, <1>6, <2>1
  <2>3. f[n + 1] = TryPass(gr, q, f[n], st.left[q][n + 1])
    BY <1>4, <2>1
  <2>4. Ascending(st.left[q])
    BY DEF Fresh
  <2>. QED
    BY <1>2, <2>1, <2>2, <2>3, <2>4, TriedStep
<1>. HIDE DEF S
<1>7. \A n \in Nat : n \in S
  BY <1>5, <1>6, CountUp
<1>8. Tried(gr, st, q, f[N], N)
  <2>1. N \in S /\ N <= N
    BY <1>2, <1>7
  <2>. QED
    BY <2>1 DEF S
<1>. QED
  BY <1>1, <1>8

(* After the loop: every pass is scheduled or kept, and the passes that had *)
(* their inputs before it are scheduled.                                   *)
LEMMA TryPassesDone ==
  ASSUME NEW gr \in GraphType, NEW st, Core(gr, st), NEW q \in Queues, Fresh(gr, st, q)
  PROVE  LET t == TryPasses(gr, st, q)
         IN  /\ Core(gr, t) /\ Grows(st, t)
             /\ t.left = st.left /\ t.levels = st.levels
             /\ \A r \in Queues \ {q} : t.sorted[r] = st.sorted[r] /\ t.still[r] = st.still[r]
             /\ Scheduled(st, q) \subseteq Scheduled(t, q)
             /\ Len(st.sorted[q]) <= Len(t.sorted[q])
             /\ Ascending(t.still[q])
             /\ \A h \in Members(t.still[q]) : h \notin Scheduled(t, q)
             /\ DOMAIN gr[q] = Scheduled(t, q) \cup Members(t.still[q])
             /\ \A h \in DOMAIN gr[q] : Missing(st, q, gr[q][h]) = {} => h \in Scheduled(t, q)
<1>. DEFINE t == TryPasses(gr, st, q)
<1>1. Tried(gr, st, q, t, Len(st.left[q]))
  BY TryPassesIs
<1>2. ToTry(st, q, Len(st.left[q])) = {}
  <2>1. Len(st.left[q]) \in Nat
    BY LeftTyped DEF Core
  <2>2. Len(st.left[q]) + 1 .. Len(st.left[q]) = {}
    BY <2>1
  <2>. QED
    BY <2>2 DEF ToTry
<1>. HIDE DEF t
<1>3. DOMAIN gr[q] = Scheduled(t, q) \cup Members(t.still[q])
  BY <1>1, <1>2 DEF Tried
<1>4. \A h \in Members(t.still[q]) : h \notin Scheduled(t, q) /\ Missing(st, q, gr[q][h]) # {}
  BY <1>1 DEF Tried
<1>5. \A h \in DOMAIN gr[q] : Missing(st, q, gr[q][h]) = {} => h \in Scheduled(t, q)
  BY <1>3, <1>4
<1>6. /\ Core(gr, t) /\ Grows(st, t)
      /\ t.left = st.left /\ t.levels = st.levels
      /\ \A r \in Queues \ {q} : t.sorted[r] = st.sorted[r] /\ t.still[r] = st.still[r]
      /\ Scheduled(st, q) \subseteq Scheduled(t, q)
      /\ Len(st.sorted[q]) <= Len(t.sorted[q])
      /\ Ascending(t.still[q])
  BY <1>1 DEF Tried
<1>. QED
  BY <1>3, <1>4, <1>5, <1>6 DEF t

-----------------------------------------------------------------------------
(* A turn                                                                  *)

(* The levels of a queue with N passes end one after the other, the last   *)
(* with the last pass; until the loop is over all of them wait.            *)
Fit(levels, N) ==
  /\ levels \in Seq(LevelType)
  /\ \A n \in DOMAIN levels : 1 <= levels[n].end /\ levels[n].end <= N
                              /\ levels[n].wait /\ ~levels[n].signal
  /\ \A m, n \in DOMAIN levels : m < n => levels[m].end < levels[n].end
  /\ N # 0 => levels # <<>> /\ levels[Len(levels)].end = N

(* CloseLevel leaves levels that end with the last pass scheduled.         *)
LEMMA CloseLevelFits ==
  ASSUME NEW levels, NEW N \in Nat, Fit(levels, N),
         NEW sorted \in Seq(SortedType), N <= Len(sorted)
  PROVE  Fit(CloseLevel(levels, sorted), Len(sorted))
<1>. DEFINE M == Len(sorted)
            new == [end |-> M, wait |-> TRUE, signal |-> FALSE]
            L == Len(levels)
<1>1. /\ levels \in Seq(LevelType) /\ L \in Nat /\ DOMAIN levels = 1 .. L
      /\ levels # <<>> <=> L # 0
      /\ M \in Nat /\ N <= M /\ (sorted = <<>> <=> M = 0)
  BY DEF Fit
<1>2. Last(levels) = levels[L]
  BY DEF Last
<1>3. /\ \A n \in 1 .. L : levels[n] \in LevelType /\ levels[n].end \in Nat
      /\ \A n \in 1 .. L : 1 <= levels[n].end /\ levels[n].end <= N
                           /\ levels[n].wait /\ ~levels[n].signal
      /\ \A m, n \in 1 .. L : m < n => levels[m].end < levels[n].end
      /\ N # 0 => L # 0 /\ levels[L].end = N
  <2>1. \A n \in 1 .. L : levels[n] \in LevelType
    BY <1>1
  <2>2. \A n \in 1 .. L : levels[n].end \in Nat
    BY <2>1 DEF LevelType
  <2>. HIDE DEF L
  <2>. QED
    BY <1>1, <2>1, <2>2 DEF Fit, L
<1>. HIDE DEF M, L
<1>4. CASE sorted = <<>> \/ (levels # <<>> /\ Last(levels).end = M)
  <2>1. CloseLevel(levels, sorted) = levels
    BY <1>4 DEF CloseLevel, M
  <2>2. \A n \in 1 .. L : levels[n].end <= M
    BY <1>1, <1>3
  <2>3. M # 0 => L # 0 /\ levels[L].end = M
    BY <1>1, <1>2, <1>4
  <2>4. Fit(levels, M)
    BY <1>1, <1>3, <2>2, <2>3 DEF Fit, L
  <2>. QED
    BY <2>1, <2>4 DEF M
<1>5. CASE ~(sorted = <<>> \/ (levels # <<>> /\ Last(levels).end = M))
  <2>. DEFINE l2 == Append(levels, new)
  <2>1. CloseLevel(levels, sorted) = l2
    BY <1>5 DEF CloseLevel, M
  <2>2. new \in LevelType /\ new.end = M /\ new.wait /\ ~new.signal
    BY <1>1 DEF LevelType
  <2>. HIDE DEF new
  <2>3. /\ l2 \in Seq(LevelType) /\ Len(l2) = L + 1 /\ DOMAIN l2 = 1 .. L + 1 /\ l2 # <<>>
        /\ \A n \in 1 .. L : l2[n] = levels[n]
        /\ l2[L + 1] = new
    BY <1>1, <2>2 DEF L
  <2>4. M # 0 /\ 1 <= M
    BY <1>1, <1>5
  <2>5. \A n \in 1 .. L : levels[n].end < M
    <3>. SUFFICES ASSUME NEW n \in 1 .. L PROVE levels[n].end < M
      OBVIOUS
    <3>1. levels[n].end \in Nat /\ 1 <= levels[n].end /\ levels[n].end <= N
      BY <1>3
    <3>2. N # 0 /\ L # 0 /\ levels[L].end = N
      BY <1>3, <3>1
    <3>3. N # M
      BY <1>1, <1>2, <1>5, <3>2
    <3>. QED
      BY <1>1, <3>1, <3>3
  <2>. HIDE DEF l2
  <2>6. \A n \in 1 .. L + 1 : n \in 1 .. L \/ n = L + 1
    BY <1>1
  <2>7. \A n \in DOMAIN l2 : 1 <= l2[n].end /\ l2[n].end <= M /\ l2[n].wait /\ ~l2[n].signal
    <3>. SUFFICES ASSUME NEW n \in 1 .. L + 1
                  PROVE  1 <= l2[n].end /\ l2[n].end <= M /\ l2[n].wait /\ ~l2[n].signal
      BY <2>3
    <3>1. CASE n \in 1 .. L
      <4>1. l2[n] = levels[n] /\ levels[n].end < M /\ levels[n].end \in Nat /\ 1 <= levels[n].end
            /\ levels[n].wait /\ ~levels[n].signal
        BY <1>3, <2>3, <2>5, <3>1
      <4>. QED
        BY <1>1, <4>1
    <3>2. CASE n = L + 1
      <4>1. l2[n] = new
        BY <2>3, <3>2
      <4>2. M <= M
        BY <1>1
      <4>. QED
        BY <2>2, <2>4, <4>1, <4>2
    <3>. QED
      BY <2>6, <3>1, <3>2
  <2>8. ASSUME NEW m \in DOMAIN l2, NEW n \in DOMAIN l2, m < n PROVE l2[m].end < l2[n].end
    <3>1. m \in 1 .. L /\ (n \in 1 .. L \/ n = L + 1)
      BY <1>1, <2>3, <2>8
    <3>2. l2[m] = levels[m]
      BY <2>3, <3>1
    <3>3. CASE n \in 1 .. L
      BY <1>3, <2>3, <2>8, <3>1, <3>2, <3>3
    <3>4. CASE n = L + 1
      BY <2>2, <2>3, <2>5, <3>1, <3>2, <3>4
    <3>. QED
      BY <3>1, <3>3, <3>4
  <2>9. Fit(l2, M)
    <3>1. l2[Len(l2)].end = M
      BY <2>2, <2>3
    <3>. QED
      BY <2>3, <2>7, <2>8, <3>1 DEF Fit
  <2>. QED
    BY <2>1, <2>9 DEF M
<1>. QED
  BY <1>4, <1>5

(* Between two turns. *)
TurnInv(gr, st) ==
  /\ Core(gr, st)
  /\ \A q \in Queues : Fresh(gr, st, q) /\ Fit(st.levels[q], Len(st.sorted[q]))
  /\ \A k \in Kinds : st.window[k] = Len(st.ready[k])

(* The passes of S are scheduled. *)
Covered(st, S) == \A p \in S : p[1] \in Queues /\ p[2] \in Scheduled(st, p[1])

(* The invariant of a turn holds at the start.                             *)
LEMMA StartTurn ==
  ASSUME NEW gr \in GraphType
  PROVE  TurnInv(gr, StartSort(gr))
<1>. DEFINE st == StartSort(gr)
<1>1. /\ st.left = [q \in Queues |-> [i \in DOMAIN gr[q] |-> i]]
      /\ st.still = [q \in Queues |-> <<>>]
      /\ st.ready = [k \in Kinds |-> <<>>]
      /\ st.window = [k \in Kinds |-> 0]
      /\ st.sorted = [q \in Queues |-> <<>>]
      /\ st.levels = [q \in Queues |-> <<>>]
      /\ st.deps = {}
      /\ st = [left |-> st.left, still |-> st.still, ready |-> st.ready, window |-> st.window,
               sorted |-> st.sorted, levels |-> st.levels, deps |-> st.deps]
  BY DEF StartSort
<1>. HIDE DEF st
<1>2. ASSUME NEW q \in Queues
      PROVE  /\ st.left[q] \in Seq(Nat) /\ DOMAIN st.left[q] = DOMAIN gr[q]
             /\ \A n \in DOMAIN gr[q] : st.left[q][n] = n
             /\ st.still[q] = <<>> /\ st.sorted[q] = <<>> /\ st.levels[q] = <<>>
  <2>1. gr[q] \in Seq(PassType)
    BY DEF GraphType
  <2>2. Len(gr[q]) \in Nat /\ DOMAIN gr[q] = 1 .. Len(gr[q])
    BY <2>1
  <2>3. st.left[q] = [i \in 1 .. Len(gr[q]) |-> i]
    BY <1>1, <2>2
  <2>4. st.left[q] \in Seq(Nat)
    BY <2>2, <2>3
  <2>. QED
    BY <1>1, <2>2, <2>3, <2>4
<1>3. \A k \in Kinds : st.ready[k] = <<>> /\ st.window[k] = 0
  BY <1>1
<1>4. \A T : <<>> \in Seq(T)
  OBVIOUS
<1>5. st \in SortState
  <2>1. /\ st.left = [q \in Queues |-> st.left[q]] /\ st.still = [q \in Queues |-> st.still[q]]
        /\ st.ready = [k \in Kinds |-> st.ready[k]] /\ st.window = [k \in Kinds |-> st.window[k]]
        /\ st.sorted = [q \in Queues |-> st.sorted[q]] /\ st.levels = [q \in Queues |-> st.levels[q]]
    BY <1>1
  <2>2. /\ st.left \in [Queues -> Seq(Nat)] /\ st.still \in [Queues -> Seq(Nat)]
        /\ st.ready \in [Kinds -> Seq(ReadyType)] /\ st.window \in [Kinds -> Nat]
        /\ st.sorted \in [Queues -> Seq(SortedType)] /\ st.levels \in [Queues -> Seq(LevelType)]
        /\ st.deps \in SUBSET DepType
    BY <1>1, <1>2, <1>3, <1>4, <2>1
  <2>. QED
    BY <1>1, <2>2 DEF SortState
<1>6. DOMAIN <<>> = {} /\ Len(<<>>) = 0
  OBVIOUS
<1>7. SortTyped(gr, st)
  BY <1>2, <1>3, <1>5, <1>6 DEF SortTyped
<1>8. \A q \in Queues : Scheduled(st, q) = {}
  BY <1>2, <1>6 DEF Scheduled
<1>9. Core(gr, st)
  BY <1>1, <1>2, <1>3, <1>6, <1>7, <1>8 DEF Core, Backed, Valued, InTurn, AllMade, DepsKnown
<1>10. \A q \in Queues : Fresh(gr, st, q)
  BY <1>2, <1>8 DEF Fresh, Ascending, Members
<1>11. \A q \in Queues : Fit(st.levels[q], Len(st.sorted[q]))
  BY <1>2, <1>4, <1>6 DEF Fit
<1>. QED
  BY <1>3, <1>6, <1>9, <1>10, <1>11 DEF TurnInv, st

(* A turn keeps all of this, and schedules what had its inputs.            *)
LEMMA TurnStep ==
  ASSUME NEW gr \in GraphType, NEW st, TurnInv(gr, st), NEW S, Covered(st, S)
  PROVE  /\ TurnInv(gr, SortLevel(gr, st))
         /\ Covered(SortLevel(gr, st), RunnableAfter(gr, S))
<1>. DEFINE a == TryPasses(gr, st, "direct")
            b == TryPasses(gr, a, "compute")
            new == SortLevel(gr, st)
<1>1. "direct" \in Queues /\ "compute" \in Queues /\ \A q \in Queues : q = "direct" \/ q = "compute"
  BY DEF Queues
<1>2. Core(gr, st) /\ Fresh(gr, st, "direct") /\ Fresh(gr, st, "compute")
  BY <1>1 DEF TurnInv
<1>3. /\ Core(gr, a) /\ Grows(st, a)
      /\ a.left = st.left /\ a.levels = st.levels
      /\ a.sorted["compute"] = st.sorted["compute"] /\ a.still["compute"] = st.still["compute"]
      /\ Scheduled(st, "direct") \subseteq Scheduled(a, "direct")
      /\ Len(st.sorted["direct"]) <= Len(a.sorted["direct"])
      /\ Ascending(a.still["direct"])
      /\ \A h \in Members(a.still["direct"]) : h \notin Scheduled(a, "direct")
      /\ DOMAIN gr["direct"] = Scheduled(a, "direct") \cup Members(a.still["direct"])
      /\ \A h \in DOMAIN gr["direct"] :
           Missing(st, "direct", gr["direct"][h]) = {} => h \in Scheduled(a, "direct")
  <2>1. "compute" \in Queues \ {"direct"}
    BY <1>1
  <2>. QED
    BY <1>1, <1>2, <2>1, TryPassesDone
<1>. HIDE DEF a
<1>4. Scheduled(a, "compute") = Scheduled(st, "compute")
  BY <1>3 DEF Scheduled
<1>5. Fresh(gr, a, "compute")
  BY <1>2, <1>3, <1>4 DEF Fresh
<1>6. /\ Core(gr, b) /\ Grows(a, b)
      /\ b.left = a.left /\ b.levels = a.levels
      /\ b.sorted["direct"] = a.sorted["direct"] /\ b.still["direct"] = a.still["direct"]
      /\ Scheduled(a, "compute") \subseteq Scheduled(b, "compute")
      /\ Len(a.sorted["compute"]) <= Len(b.sorted["compute"])
      /\ Ascending(b.still["compute"])
      /\ \A h \in Members(b.still["compute"]) : h \notin Scheduled(b, "compute")
      /\ DOMAIN gr["compute"] = Scheduled(b, "compute") \cup Members(b.still["compute"])
      /\ \A h \in DOMAIN gr["compute"] :
           Missing(a, "compute", gr["compute"][h]) = {} => h \in Scheduled(b, "compute")
  <2>1. "direct" \in Queues \ {"compute"}
    BY <1>1
  <2>. QED
    BY <1>1, <1>3, <1>5, <2>1, TryPassesDone
<1>7. new = [b EXCEPT !.left = b.still, !.still = [q \in Queues |-> <<>>],
                      !.window = [k \in Kinds |-> Len(b.ready[k])],
                      !.levels = [q \in Queues |-> CloseLevel(b.levels[q], b.sorted[q])]]
  BY DEF SortLevel, a
<1>. HIDE DEF b, new
<1>8. /\ SortTyped(gr, st) /\ SortTyped(gr, a) /\ SortTyped(gr, b)
      /\ st \in SortState /\ a \in SortState /\ b \in SortState
  BY <1>2, <1>3, <1>6 DEF Core, SortTyped
<1>9. /\ new.left = b.still /\ new.still = [q \in Queues |-> <<>>]
      /\ new.window = [k \in Kinds |-> Len(b.ready[k])]
      /\ new.levels = [q \in Queues |-> CloseLevel(b.levels[q], b.sorted[q])]
      /\ new.ready = b.ready /\ new.sorted = b.sorted /\ new.deps = b.deps
  BY <1>7, <1>8 DEF SortState
<1>10. \A q \in Queues : Scheduled(b, q) = Scheduled(new, q)
  BY <1>9 DEF Scheduled
<1>11. Scheduled(b, "direct") = Scheduled(a, "direct")
  BY <1>6 DEF Scheduled
<1>12. ASSUME NEW q \in Queues
       PROVE  /\ Fit(st.levels[q], Len(st.sorted[q])) /\ b.levels[q] = st.levels[q]
              /\ Len(st.sorted[q]) \in Nat /\ Len(st.sorted[q]) <= Len(b.sorted[q])
              /\ b.sorted[q] \in Seq(SortedType)
  <2>1. Fit(st.levels[q], Len(st.sorted[q])) /\ b.levels[q] = st.levels[q]
    BY <1>3, <1>6 DEF TurnInv
  <2>2. Len(st.sorted[q]) \in Nat /\ b.sorted[q] \in Seq(SortedType)
    BY <1>8, ScheduledTyped
  <2>3. Len(st.sorted[q]) <= Len(b.sorted[q])
    BY <1>1, <1>3, <1>6
  <2>. QED
    BY <2>1, <2>2, <2>3
<1>13. \A q \in Queues : Fit(new.levels[q], Len(new.sorted[q]))
  <2>. SUFFICES ASSUME NEW q \in Queues PROVE Fit(new.levels[q], Len(new.sorted[q]))
    OBVIOUS
  <2>1. Fit(CloseLevel(st.levels[q], b.sorted[q]), Len(b.sorted[q]))
    BY <1>12, CloseLevelFits
  <2>2. new.levels[q] = CloseLevel(st.levels[q], b.sorted[q]) /\ new.sorted[q] = b.sorted[q]
    BY <1>9, <1>12
  <2>. QED
    BY <2>1, <2>2
<1>14. \A k \in Kinds : /\ b.ready[k] \in Seq(ReadyType) /\ Len(b.ready[k]) \in Nat
                        /\ b.window[k] \in Nat /\ b.window[k] <= Len(b.ready[k])
  <2>1. \A k \in Kinds : b.ready[k] \in Seq(ReadyType) /\ b.window[k] \in Nat
    BY <1>8 DEF SortState
  <2>. QED
    BY <1>8, <2>1 DEF SortTyped
<1>15. new \in SortState
  <2>. DEFINE still == [q \in Queues |-> <<>>]
              window == [k \in Kinds |-> Len(b.ready[k])]
              levels == [q \in Queues |-> CloseLevel(b.levels[q], b.sorted[q])]
  <2>1. b.still \in [Queues -> Seq(Nat)]
    BY <1>8 DEF SortState
  <2>2. still \in [Queues -> Seq(Nat)]
    OBVIOUS
  <2>3. window \in [Kinds -> Nat]
    BY <1>14
  <2>4. levels \in [Queues -> Seq(LevelType)]
    <3>1. \A q \in Queues : CloseLevel(b.levels[q], b.sorted[q]) \in Seq(LevelType)
      BY <1>9, <1>13 DEF Fit
    <3>. QED
      BY <3>1
  <2>5. new = [b EXCEPT !.left = b.still, !.still = still, !.window = window, !.levels = levels]
    BY <1>7
  <2>. HIDE DEF still, window, levels
  <2>. QED
    BY <1>8, <2>1, <2>2, <2>3, <2>4, <2>5 DEF SortState
<1>16. SortTyped(gr, new)
  <2>1. \A q \in Queues : \A n \in DOMAIN new.still[q] : FALSE
    BY <1>9
  <2>2. \A k \in Kinds : new.window[k] <= Len(new.ready[k])
    BY <1>9, <1>14
  <2>. QED
    BY <1>8, <1>9, <1>15, <2>1, <2>2 DEF SortTyped
<1>17. Grows(b, new)
  BY <1>9, <1>14 DEF Grows
<1>18. Core(gr, new)
  BY <1>6, <1>9, <1>16, <1>17, CoreStays
<1>19. ASSUME NEW q \in Queues PROVE Fresh(gr, new, q)
  <2>1. new.still[q] = <<>> /\ new.left[q] = b.still[q]
    BY <1>9
  <2>2. CASE q = "direct"
    BY <1>3, <1>6, <1>10, <1>11, <2>1, <2>2 DEF Fresh
  <2>3. CASE q = "compute"
    BY <1>6, <1>10, <2>1, <2>3 DEF Fresh
  <2>. QED
    BY <1>1, <2>2, <2>3
<1>20. TurnInv(gr, new)
  BY <1>9, <1>13, <1>18, <1>19 DEF TurnInv
<1>21. Covered(new, RunnableAfter(gr, S))
  <2>. SUFFICES ASSUME NEW p \in RunnableAfter(gr, S)
                PROVE  p[1] \in Queues /\ p[2] \in Scheduled(new, p[1])
    BY DEF Covered
  <2>. DEFINE q == p[1]
              i == p[2]
  <2>1. /\ q \in Queues /\ i \in DOMAIN gr[q]
        /\ \A x \in gr[q][i].inputs : \E m \in S : Makes(gr[m[1]][m[2]], x)
    BY DEF RunnableAfter, AllPasses
  <2>. HIDE DEF q, i
  <2>2. gr[q][i] \in PassType /\ gr[q][i].inputs \subseteq Instances
    BY <2>1, PassesTyped
  <2>3. ASSUME NEW x \in gr[q][i].inputs PROVE Places(st, q, x) # {}
    <3>1. PICK m \in S : Makes(gr[m[1]][m[2]], x)
      BY <2>1
    <3>2. m[1] \in Queues /\ m[2] \in Scheduled(st, m[1])
      BY DEF Covered
    <3>3. x \in Instances
      BY <2>2
    <3>4. IsReady(st, x)
      BY <1>2, <3>1, <3>2, <3>3 DEF Core, AllMade
    <3>. DEFINE k == KindOf(x)
    <3>5. /\ k \in Kinds /\ st.ready[k] \in Seq(ReadyType)
          /\ Places(st, q, x) = {n \in 1 .. Reach(st, q, k) : st.ready[k][n].instance = x}
      BY <1>8, <2>1, <3>3, PlacesAre DEF SortTyped
    <3>6. PICK n \in DOMAIN st.ready[k] : st.ready[k][n].instance = x
      BY <3>4 DEF IsReady
    <3>. HIDE DEF k
    <3>7. Reach(st, q, k) = Len(st.ready[k])
      BY <3>5 DEF Reach, TurnInv
    <3>8. n \in 1 .. Len(st.ready[k])
      BY <3>5
    <3>. QED
      BY <3>5, <3>6, <3>7, <3>8
  <2>4. Missing(st, q, gr[q][i]) = {}
    BY <2>3, FoundIs
  <2>5. CASE q = "direct"
    <3>1. i \in Scheduled(a, "direct")
      BY <1>3, <2>1, <2>4, <2>5
    <3>. QED
      BY <1>10, <1>11, <2>1, <2>5, <3>1 DEF q, i
  <2>6. CASE q = "compute"
    <3>1. Missing(a, q, gr[q][i]) = {}
      BY <1>3, <1>8, <2>1, <2>2, <2>4, ValueStays DEF SortTyped
    <3>2. i \in Scheduled(b, "compute")
      BY <1>6, <2>1, <2>6, <3>1
    <3>. QED
      BY <1>10, <2>1, <2>6, <3>2 DEF q, i
  <2>. QED
    BY <1>1, <2>1, <2>5, <2>6
<1>. QED
  BY <1>20, <1>21 DEF new

-----------------------------------------------------------------------------
(* All turns                                                               *)

IsTurns(f, gr) ==
  f = [n \in 0 .. Turns(gr) |-> IF n = 0 THEN StartSort(gr) ELSE SortLevel(gr, f[n - 1])]
IsAfter(f, gr) ==
  f = [n \in 0 .. Turns(gr) |-> IF n = 0 THEN {} ELSE RunnableAfter(gr, f[n - 1])]

(* A graph has finitely many passes.                                       *)
LEMMA TurnsNat == ASSUME NEW gr \in GraphType PROVE Turns(gr) \in Nat
<1>1. gr["direct"] \in Seq(PassType) /\ gr["compute"] \in Seq(PassType)
  BY DEF GraphType, Queues
<1>2. gr.direct = gr["direct"] /\ gr.compute = gr["compute"]
  OBVIOUS
<1>3. Len(gr.direct) \in Nat /\ Len(gr.compute) \in Nat
  BY <1>1, <1>2
<1>. DEFINE m == Len(gr.direct)
            n == Len(gr.compute)
<1>4. Turns(gr) = m + n
  BY DEF Turns
<1>. HIDE DEF m, n
<1>5. m \in Nat /\ n \in Nat
  BY <1>3 DEF m, n
<1>. QED
  BY <1>4, <1>5

(* The functions Sorted and Runnable are defined by exist.                 *)
LEMMA TurnsExist ==
  ASSUME NEW gr \in GraphType
  PROVE  \E f : IsTurns(f, gr)
<1>. DEFINE S == {st \in SortState : TurnInv(gr, st)}
            N == Turns(gr)
            base == StartSort(gr)
            G == [n \in 1 .. N |-> [st \in S |-> SortLevel(gr, st)]]
<1>1. N \in Nat
  BY TurnsNat
<1>2. base \in S
  BY StartTurn DEF TurnInv, Core, SortTyped
<1>3. \A st \in S : SortLevel(gr, st) \in S
  <2>. SUFFICES ASSUME NEW st \in S PROVE SortLevel(gr, st) \in S
    OBVIOUS
  <2>1. Covered(st, {})
    BY DEF Covered
  <2>2. TurnInv(gr, SortLevel(gr, st))
    BY <2>1, TurnStep
  <2>. QED
    BY <2>2 DEF TurnInv, Core, SortTyped
<1>. HIDE DEF S, N, base
<1>4. G \in [1 .. N -> [S -> S]] /\ \A n \in 1 .. N : \A st \in S : G[n][st] = SortLevel(gr, st)
  BY <1>3
<1>. HIDE DEF G
<1>5. PICK f : IsRecursive(f, N, S, base, G)
  BY <1>1, <1>2, <1>4, RecursionExists
<1>6. ASSUME NEW n \in 0 .. N PROVE f[n] = IF n = 0 THEN base ELSE SortLevel(gr, f[n - 1])
  <2>1. CASE n = 0
    BY <1>5, <2>1 DEF IsRecursive
  <2>2. CASE n # 0
    <3>1. n \in 1 .. N /\ n - 1 \in 0 .. N
      BY <1>1, <2>2
    <3>2. f[n - 1] \in S /\ f[n] = G[n][f[n - 1]]
      BY <1>5, <3>1 DEF IsRecursive
    <3>. QED
      BY <1>4, <2>2, <3>1, <3>2
  <2>. QED
    BY <2>1, <2>2
<1>7. f = [n \in 0 .. N |-> f[n]]
  BY <1>5 DEF IsRecursive
<1>8. f = [n \in 0 .. N |-> IF n = 0 THEN base ELSE SortLevel(gr, f[n - 1])]
  BY <1>6, <1>7
<1>. QED
  BY <1>8 DEF IsTurns, N, base

(* ... the latter.                                                         *)
LEMMA AfterExists ==
  ASSUME NEW gr \in GraphType
  PROVE  \E f : IsAfter(f, gr)
<1>. DEFINE S == SUBSET AllPasses(gr)
            N == Turns(gr)
            G == [n \in 1 .. N |-> [T \in S |-> RunnableAfter(gr, T)]]
<1>1. N \in Nat
  BY TurnsNat
<1>2. {} \in S
  OBVIOUS
<1>3. \A T \in S : RunnableAfter(gr, T) \in S
  BY DEF RunnableAfter
<1>. HIDE DEF S, N
<1>4. G \in [1 .. N -> [S -> S]] /\ \A n \in 1 .. N : \A T \in S : G[n][T] = RunnableAfter(gr, T)
  BY <1>3
<1>. HIDE DEF G
<1>5. PICK f : IsRecursive(f, N, S, {}, G)
  BY <1>1, <1>2, <1>4, RecursionExists
<1>6. ASSUME NEW n \in 0 .. N PROVE f[n] = IF n = 0 THEN {} ELSE RunnableAfter(gr, f[n - 1])
  <2>1. CASE n = 0
    BY <1>5, <2>1 DEF IsRecursive
  <2>2. CASE n # 0
    <3>1. n \in 1 .. N /\ n - 1 \in 0 .. N
      BY <1>1, <2>2
    <3>2. f[n - 1] \in S /\ f[n] = G[n][f[n - 1]]
      BY <1>5, <3>1 DEF IsRecursive
    <3>. QED
      BY <1>4, <2>2, <3>1, <3>2
  <2>. QED
    BY <2>1, <2>2
<1>7. f = [n \in 0 .. N |-> f[n]]
  BY <1>5 DEF IsRecursive
<1>8. f = [n \in 0 .. N |-> IF n = 0 THEN {} ELSE RunnableAfter(gr, f[n - 1])]
  BY <1>6, <1>7
<1>. QED
  BY <1>8 DEF IsAfter, N

(* After its turns SortPasses has scheduled every pass of a graph that can *)
(* run.                                                                    *)
LEMMA SortedIs ==
  ASSUME NEW gr \in Graphs
  PROVE  /\ gr \in GraphType /\ TurnInv(gr, Sorted(gr))
         /\ \A q \in Queues : Scheduled(Sorted(gr), q) = DOMAIN gr[q]
<1>. DEFINE f == CHOOSE f : IsTurns(f, gr)
            h == CHOOSE h : IsAfter(h, gr)
            N == Turns(gr)
            S == {n \in Nat : n <= N => TurnInv(gr, f[n]) /\ Covered(f[n], h[n])}
<1>1. gr \in GraphType /\ Runnable(gr) = AllPasses(gr)
  BY GraphsAssumption DEF GraphType
<1>2. Sorted(gr) = f[N]
  BY DEF Sorted, IsTurns
<1>3. Runnable(gr) = h[N]
  BY DEF Runnable, IsAfter
<1>4. IsTurns(f, gr)
  BY <1>1, TurnsExist
<1>5. IsAfter(h, gr)
  BY <1>1, AfterExists
<1>6. N \in Nat
  BY <1>1, TurnsNat
<1>. HIDE DEF f, h
<1>7. f[0] = StartSort(gr) /\ \A n \in 1 .. N : f[n] = SortLevel(gr, f[n - 1])
  <2>1. \A n \in 0 .. N : f[n] = IF n = 0 THEN StartSort(gr) ELSE SortLevel(gr, f[n - 1])
    BY <1>4 DEF IsTurns
  <2>. HIDE DEF N
  <2>2. 0 \in 0 .. N /\ \A n \in 1 .. N : n \in 0 .. N /\ n # 0
    BY <1>6
  <2>. QED
    BY <2>1, <2>2
<1>8. h[0] = {} /\ \A n \in 1 .. N : h[n] = RunnableAfter(gr, h[n - 1])
  <2>1. \A n \in 0 .. N : h[n] = IF n = 0 THEN {} ELSE RunnableAfter(gr, h[n - 1])
    BY <1>5 DEF IsAfter
  <2>. HIDE DEF N
  <2>2. 0 \in 0 .. N /\ \A n \in 1 .. N : n \in 0 .. N /\ n # 0
    BY <1>6
  <2>. QED
    BY <2>1, <2>2
<1>9. 0 \in S
  BY <1>1, <1>7, <1>8, StartTurn DEF Covered
<1>10. ASSUME NEW n \in Nat, n \in S PROVE n + 1 \in S
  <2>. SUFFICES ASSUME n + 1 <= N
                PROVE  TurnInv(gr, f[n + 1]) /\ Covered(f[n + 1], h[n + 1])
    OBVIOUS
  <2>. HIDE DEF N
  <2>1. n <= N /\ n + 1 \in 1 .. N /\ (n + 1) - 1 = n
    BY <1>6
  <2>2. TurnInv(gr, f[n]) /\ Covered(f[n], h[n])
    BY <1>10, <2>1
  <2>3. f[n + 1] = SortLevel(gr, f[n]) /\ h[n + 1] = RunnableAfter(gr, h[n])
    BY <1>7, <1>8, <2>1
  <2>. QED
    BY <1>1, <2>2, <2>3, TurnStep
<1>. HIDE DEF S
<1>11. \A n \in Nat : n \in S
  BY <1>9, <1>10, CountUp
<1>12. TurnInv(gr, f[N]) /\ Covered(f[N], h[N])
  <2>1. N \in S /\ N <= N
    BY <1>6, <1>11
  <2>. QED
    BY <2>1 DEF S
<1>. HIDE DEF N
<1>13. ASSUME NEW q \in Queues PROVE Scheduled(f[N], q) = DOMAIN gr[q]
  <2>1. Scheduled(f[N], q) \subseteq DOMAIN gr[q]
    BY <1>1, <1>12, ScheduledTyped DEF TurnInv, Core
  <2>2. ASSUME NEW i \in DOMAIN gr[q] PROVE i \in Scheduled(f[N], q)
    <3>1. <<q, i>> \in AllPasses(gr)
      BY DEF AllPasses
    <3>2. <<q, i>> \in h[N]
      BY <1>1, <1>3, <3>1
    <3>3. <<q, i>>[2] \in Scheduled(f[N], <<q, i>>[1])
      BY <1>12, <3>2 DEF Covered
    <3>. QED
      BY <3>3
  <2>. QED
    BY <2>1, <2>2
<1>. QED
  BY <1>1, <1>2, <1>12, <1>13

-----------------------------------------------------------------------------
(* The plan                                                                *)

(* What the plan takes from the loop's last state.                         *)
LEMMA PlanIs ==
  ASSUME NEW gr \in Graphs
  PROVE  /\ SortPasses(gr).sorted = Sorted(gr).sorted
         /\ SortPasses(gr).deps = Sorted(gr).deps
         /\ SortPasses(gr).levels = [q \in Queues |-> FinishLevels(Sorted(gr), q)]
BY DEF SortPasses

(* The plan of a graph that can run is sound.                              *)
LEMMA PlanSound ==
  ASSUME NEW gr \in Graphs
  PROVE  LET p == SortPasses(gr)
         IN  /\ \A q \in Queues : {p.sorted[q][j].pass : j \in DOMAIN p.sorted[q]} = DOMAIN gr[q]
             /\ \A d \in p.deps :
                  \A j \in DOMAIN p.sorted[d.queue] : \A k \in DOMAIN p.sorted[d.on] :
                    (p.sorted[d.queue][j].pass = d.pass /\ p.sorted[d.on][k].pass = d.from) =>
                      IF d.on = d.queue THEN k < j
                      ELSE p.sorted[d.on][k].val < p.sorted[d.queue][j].val
<1>. DEFINE st == Sorted(gr)
            p == SortPasses(gr)
<1>1. gr \in GraphType /\ Core(gr, st) /\ \A q \in Queues : Scheduled(st, q) = DOMAIN gr[q]
  BY SortedIs DEF TurnInv
<1>2. p.sorted = st.sorted /\ p.deps = st.deps
  BY PlanIs
<1>. HIDE DEF st, p
<1>3. \A q \in Queues : {p.sorted[q][j].pass : j \in DOMAIN p.sorted[q]} = DOMAIN gr[q]
  BY <1>1, <1>2 DEF Scheduled
<1>4. ASSUME NEW d \in p.deps,
             NEW j \in DOMAIN p.sorted[d.queue], NEW k \in DOMAIN p.sorted[d.on],
             p.sorted[d.queue][j].pass = d.pass, p.sorted[d.on][k].pass = d.from
      PROVE  IF d.on = d.queue THEN k < j
             ELSE p.sorted[d.on][k].val < p.sorted[d.queue][j].val
  <2>1. /\ d \in st.deps /\ j \in DOMAIN st.sorted[d.queue] /\ k \in DOMAIN st.sorted[d.on]
        /\ st.sorted[d.queue][j].pass = d.pass /\ st.sorted[d.on][k].pass = d.from
    BY <1>2, <1>4
  <2>2. IF d.on = d.queue THEN k < j ELSE st.sorted[d.on][k].val < st.sorted[d.queue][j].val
    BY <1>1, <2>1, DepsOrdered
  <2>. QED
    BY <1>2, <2>2
<1>. QED
  BY <1>3, <1>4 DEF p

(* From the first Execute on, the plan is that of the graph.               *)
PlanInv == graph \in Graphs /\ (~dirty => plan = SortPasses(graph))

(* The plan is the graph's: at the start, after a step, and so it is       *)
(* sound.                                                                  *)
LEMMA PlanInvInit == ASSUME Init PROVE PlanInv
BY DEF Init, PlanInv

(* ... only ExecuteAndSubmit changes it.                                   *)
LEMMA PlanInvStep == ASSUME PlanInv, [Next]_vars PROVE PlanInv'
<1>1. CASE ExecuteAndSubmit
  <2>1. graph' = graph /\ plan' = IF dirty THEN SortPasses(graph) ELSE plan
    BY <1>1 DEF ExecuteAndSubmit
  <2>. QED
    BY <2>1 DEF PlanInv
<1>2. CASE UNCHANGED <<graph, plan, dirty>>
  BY <1>2 DEF PlanInv
<1>3. CASE EndFrame
  BY <1>2, <1>3 DEF EndFrame
<1>4. CASE FrameWait
  BY <1>2, <1>4 DEF FrameWait
<1>5. CASE FinishList
  BY <1>2, <1>5 DEF FinishList, cpuVars
<1>6. ASSUME NEW q \in Queues, StartList(q) \/ SignalFence(q) \/ WaitForFence(q)
      PROVE  PlanInv'
  BY <1>2, <1>6 DEF StartList, SignalFence, WaitForFence, cpuVars
<1>7. CASE UNCHANGED vars
  BY <1>2, <1>7 DEF vars, cpuVars
<1>. QED
  BY <1>1, <1>3, <1>4, <1>5, <1>6, <1>7 DEF Next, Gpu

(* ... and once it is made, ScheduleSound.                                 *)
LEMMA PlanInvSound == ASSUME PlanInv PROVE ScheduleSound
<1>1. CASE ~dirty
  <2>1. graph \in Graphs /\ plan = SortPasses(graph)
    BY <1>1 DEF PlanInv
  <2>. QED
    BY <2>1, PlanSound DEF ScheduleSound
<1>2. CASE dirty
  BY <1>2 DEF ScheduleSound
<1>. QED
  BY <1>1, <1>2

(* Whatever graph that can run is compiled, SortPasses schedules all its   *)
(* passes, each after the passes of its queue that make its inputs and     *)
(* with a larger fence value than those of the other queue.                *)
THEOREM ScheduleIsSound == Spec => []ScheduleSound
<1>1. Init => PlanInv
  BY PlanInvInit
<1>2. PlanInv /\ [Next]_vars => PlanInv'
  BY PlanInvStep
<1>3. PlanInv => ScheduleSound
  BY PlanInvSound
<1>. QED
  BY <1>1, <1>2, <1>3, PTL DEF Spec

-----------------------------------------------------------------------------
(* The levels of the plan                                                  *)

(* Levels that end one after the other, with E at the latest; those that   *)
(* wait have a pass after them among N.                                    *)
Cut(levels, E, N) ==
  /\ levels \in Seq(LevelType)
  /\ \A n \in DOMAIN levels : 1 <= levels[n].end /\ levels[n].end <= E
                              /\ (levels[n].wait => levels[n].end < N)
  /\ \A m, n \in DOMAIN levels : m < n => levels[m].end < levels[n].end
  /\ E # 0 => levels # <<>>

(* Levels that follow others. *)
LEMMA CutOn ==
  ASSUME NEW E \in Nat, NEW F \in Nat, NEW N \in Nat, NEW s, Cut(s, E, N),
         NEW u \in Seq(LevelType), u # <<>>,
         \A n \in DOMAIN u : E < u[n].end /\ u[n].end <= F /\ (u[n].wait => u[n].end < N),
         \A m, n \in DOMAIN u : m < n => u[m].end < u[n].end
  PROVE  Cut(s \o u, F, N)
<1>. DEFINE L == Len(s)
            M == Len(u)
            w == s \o u
<1>1. /\ s \in Seq(LevelType) /\ L \in Nat /\ M \in Nat /\ DOMAIN s = 1 .. L /\ DOMAIN u = 1 .. M
      /\ w \in Seq(LevelType) /\ DOMAIN w = 1 .. L + M /\ w # <<>> /\ Len(w) = L + M
      /\ \A n \in 1 .. L : w[n] = s[n]
      /\ \A n \in 1 .. M : w[L + n] = u[n]
  <2>1. s \in Seq(LevelType)
    BY DEF Cut
  <2>2. /\ w \in Seq(LevelType) /\ L \in Nat /\ M \in Nat /\ Len(w) = L + M
        /\ DOMAIN s = 1 .. L /\ DOMAIN u = 1 .. M /\ DOMAIN w = 1 .. L + M
        /\ \A n \in 1 .. L : w[n] = s[n]
        /\ \A n \in 1 .. M : w[L + n] = u[n]
    BY <2>1, Joined
  <2>3. M # 0
    OBVIOUS
  <2>4. w # <<>>
    <3>. HIDE DEF w, L, M
    <3>1. Len(w) # 0
      BY <2>2, <2>3
    <3>. QED
      BY <3>1
  <2>. QED
    BY <2>1, <2>2, <2>4
<1>2. /\ \A n \in 1 .. L : /\ s[n].end \in Nat /\ 1 <= s[n].end /\ s[n].end <= E
                           /\ (s[n].wait => s[n].end < N)
      /\ \A m, n \in 1 .. L : m < n => s[m].end < s[n].end
  <2>1. \A n \in 1 .. L : s[n] \in LevelType
    BY <1>1
  <2>2. \A n \in 1 .. L : s[n].end \in Nat
    BY <2>1 DEF LevelType
  <2>. HIDE DEF L
  <2>. QED
    BY <1>1, <2>2 DEF Cut
<1>3. /\ \A n \in 1 .. M : /\ u[n].end \in Nat /\ E < u[n].end /\ u[n].end <= F
                           /\ (u[n].wait => u[n].end < N)
      /\ \A m, n \in 1 .. M : m < n => u[m].end < u[n].end
  <2>1. \A n \in 1 .. M : u[n] \in LevelType
    BY <1>1
  <2>2. \A n \in 1 .. M : u[n].end \in Nat
    BY <2>1 DEF LevelType
  <2>. HIDE DEF M
  <2>. QED
    BY <1>1, <2>2
<1>4. E <= F
  <2>1. 1 \in 1 .. M
    BY <1>1
  <2>. QED
    BY <1>3, <2>1
<1>. HIDE DEF L, M, w
<1>5. ASSUME NEW n \in 1 .. L + M, ~(n <= L)
      PROVE  n - L \in 1 .. M /\ w[n] = u[n - L]
  <2>1. n - L \in 1 .. M /\ L + (n - L) = n
    BY <1>1, <1>5
  <2>. QED
    BY <1>1, <2>1
<1>6. ASSUME NEW n \in 1 .. L + M
      PROVE  /\ w[n].end \in Nat /\ 1 <= w[n].end /\ w[n].end <= F
             /\ (w[n].wait => w[n].end < N)
  <2>1. CASE n <= L
    <3>1. n \in 1 .. L
      BY <1>1, <2>1
    <3>2. w[n] = s[n] /\ s[n].end \in Nat /\ 1 <= s[n].end /\ s[n].end <= E
          /\ (s[n].wait => s[n].end < N)
      BY <1>1, <1>2, <3>1
    <3>. QED
      BY <1>4, <3>2
  <2>2. CASE ~(n <= L)
    <3>1. n - L \in 1 .. M /\ w[n] = u[n - L]
      BY <1>5, <2>2
    <3>2. /\ u[n - L].end \in Nat /\ E < u[n - L].end /\ u[n - L].end <= F
          /\ (u[n - L].wait => u[n - L].end < N)
      BY <1>3, <3>1
    <3>. QED
      BY <3>1, <3>2
  <2>. QED
    BY <2>1, <2>2
<1>7. ASSUME NEW m \in 1 .. L + M, NEW n \in 1 .. L + M, m < n
      PROVE  w[m].end < w[n].end
  <2>1. CASE n <= L
    <3>1. m \in 1 .. L /\ n \in 1 .. L
      BY <1>1, <1>7, <2>1
    <3>2. w[m] = s[m] /\ w[n] = s[n]
      BY <1>1, <3>1
    <3>. QED
      BY <1>2, <1>7, <3>1, <3>2
  <2>2. CASE ~(n <= L) /\ m <= L
    <3>1. m \in 1 .. L /\ n - L \in 1 .. M /\ w[n] = u[n - L] /\ w[m] = s[m]
      BY <1>1, <1>5, <2>2
    <3>2. s[m].end \in Nat /\ s[m].end <= E /\ u[n - L].end \in Nat /\ E < u[n - L].end
      BY <1>2, <1>3, <3>1
    <3>. QED
      BY <3>1, <3>2
  <2>3. CASE ~(n <= L) /\ ~(m <= L)
    <3>1. n - L \in 1 .. M /\ w[n] = u[n - L] /\ m - L \in 1 .. M /\ w[m] = u[m - L]
      BY <1>5, <2>3
    <3>2. m - L < n - L
      BY <1>1, <1>7
    <3>. QED
      BY <1>3, <3>1, <3>2
  <2>. QED
    BY <2>1, <2>2, <2>3
<1>. QED
  BY <1>1, <1>6, <1>7 DEF Cut, w

(* Levels that take the place of one that begins after "start". *)
Pieces(u, start, end, N) ==
  /\ u \in Seq(LevelType) /\ u # <<>>
  /\ \A m \in DOMAIN u : start < u[m].end /\ u[m].end <= end /\ (u[m].wait => u[m].end < N)
  /\ \A m, o \in DOMAIN u : m < o => u[m].end < u[o].end

(* What SplitLevel makes of level n, whose passes are those after "start". *)
LEMMA SplitIs ==
  ASSUME NEW st, NEW q, NEW n \in Nat, NEW N \in Nat,
         NEW level \in LevelType, level = st.levels[q][n],
         NEW start \in Nat, start = (IF n = 1 THEN 0 ELSE st.levels[q][n - 1].end),
         start < level.end, level.end <= N, level.wait => level.end < N
  PROVE  Pieces(SplitLevel(st, q, n), start, level.end, N)
<1>. SUFFICES LET u == SplitLevel(st, q, n)
              IN  /\ u \in Seq(LevelType) /\ u # <<>>
                  /\ \A m \in DOMAIN u : start < u[m].end /\ u[m].end <= level.end
                                         /\ (u[m].wait => u[m].end < N)
                  /\ \A m, o \in DOMAIN u : m < o => u[m].end < u[o].end
  BY DEF Pieces
<1>. DEFINE S == {j \in start + 1 .. level.end : Signals(st, q, st.sorted[q][j].pass)}
            e == Largest(S)
<1>1. level.end \in Nat
  BY DEF LevelType
<1>2. SplitLevel(st, q, n) =
        IF S = {} THEN <<level>>
        ELSE IF e = level.end THEN <<[level EXCEPT !.signal = TRUE]>>
        ELSE <<[end |-> e, wait |-> FALSE, signal |-> TRUE], level>>
  BY DEF SplitLevel
<1>3. S \in SUBSET Nat /\ \A j \in S : j <= level.end /\ start < j
  BY <1>1
<1>. HIDE DEF S
<1>4. S # {} => e \in Nat /\ start < e /\ e <= level.end
  <2>. SUFFICES ASSUME S # {} PROVE e \in Nat /\ start < e /\ e <= level.end
    OBVIOUS
  <2>1. e \in S
    BY <1>1, <1>3, LargestIs
  <2>. QED
    BY <1>3, <2>1
<1>. HIDE DEF e
<1>5. ASSUME NEW a \in LevelType, start < a.end, a.end <= level.end, a.wait => a.end < N
      PROVE  LET u == <<a>>
             IN  /\ u \in Seq(LevelType) /\ u # <<>>
                 /\ \A m \in DOMAIN u : start < u[m].end /\ u[m].end <= level.end
                                        /\ (u[m].wait => u[m].end < N)
                 /\ \A m, o \in DOMAIN u : m < o => u[m].end < u[o].end
  <2>1. <<a>> \in Seq(LevelType) /\ <<a>> # <<>> /\ DOMAIN <<a>> = {1} /\ <<a>>[1] = a
    OBVIOUS
  <2>2. \A m, o \in {1} : ~(m < o)
    OBVIOUS
  <2>. QED
    BY <1>5, <2>1, <2>2
<1>6. CASE S = {}
  <2>1. level.end <= level.end
    BY <1>1
  <2>. QED
    BY <1>2, <1>5, <1>6, <2>1
<1>7. CASE S # {} /\ e = level.end
  <2>. DEFINE a == [level EXCEPT !.signal = TRUE]
  <2>1. a \in LevelType /\ a.end = level.end /\ a.wait = level.wait
    BY DEF LevelType
  <2>2. SplitLevel(st, q, n) = <<a>>
    BY <1>2, <1>7, Zenon
  <2>. HIDE DEF a
  <2>3. start < a.end /\ a.end <= level.end /\ (a.wait => a.end < N)
    BY <1>1, <2>1
  <2>. QED
    BY <1>5, <2>1, <2>2, <2>3
<1>8. CASE S # {} /\ e # level.end
  <2>. DEFINE a == [end |-> e, wait |-> FALSE, signal |-> TRUE]
              u == <<a, level>>
  <2>1. a \in LevelType /\ a.end = e /\ ~a.wait
    BY <1>4, <1>8 DEF LevelType
  <2>2. SplitLevel(st, q, n) = u
    BY <1>2, <1>8
  <2>3. start < e /\ e < level.end /\ level.end <= level.end
    BY <1>1, <1>4, <1>8
  <2>. HIDE DEF a
  <2>4. u \in Seq(LevelType) /\ u # <<>> /\ DOMAIN u = 1 .. 2 /\ u[1] = a /\ u[2] = level
    BY <2>1
  <2>. HIDE DEF u
  <2>5. \A m \in 1 .. 2 : m = 1 \/ m = 2
    OBVIOUS
  <2>6. \A m \in DOMAIN u : start < u[m].end /\ u[m].end <= level.end
                            /\ (u[m].wait => u[m].end < N)
    <3>1. start < a.end /\ a.end <= level.end
      BY <1>4, <1>8, <2>1
    <3>. QED
      BY <2>1, <2>3, <2>4, <2>5, <3>1
  <2>7. ASSUME NEW m \in DOMAIN u, NEW o \in DOMAIN u, m < o PROVE u[m].end < u[o].end
    <3>1. m = 1 /\ o = 2
      BY <2>4, <2>7
    <3>. QED
      BY <2>1, <2>3, <2>4, <3>1
  <2>. QED
    BY <2>2, <2>4, <2>6, <2>7
<1>. QED
  BY <1>6, <1>7, <1>8

(* The levels FinishLevels splits: the last of a queue no longer waits.     *)
LastOpen(st, q) ==
  IF Len(st.levels[q]) = 0 THEN st ELSE [st EXCEPT !.levels[q][Len(st.levels[q])].wait = FALSE]

Uncut(levels, N) ==
  Cut(levels, N, N) /\ (N # 0 => levels # <<>> /\ levels[Len(levels)].end = N)

(* The levels still end one after the other, and only the last does not    *)
(* wait.                                                                   *)
LEMMA LastOpenIs ==
  ASSUME NEW st \in SortState, NEW q \in Queues, NEW N \in Nat, Fit(st.levels[q], N)
  PROVE  /\ Uncut(LastOpen(st, q).levels[q], N)
         /\ Len(LastOpen(st, q).levels[q]) = Len(st.levels[q])
<1>. DEFINE lv == st.levels[q]
            L == Len(lv)
            w == LastOpen(st, q).levels[q]
<1>1. /\ lv \in Seq(LevelType) /\ L \in Nat /\ DOMAIN lv = 1 .. L /\ (lv = <<>> <=> L = 0)
      /\ \A n \in 1 .. L : lv[n] \in LevelType
  BY DEF Fit
<1>2. /\ \A n \in 1 .. L : lv[n].end \in Nat /\ 1 <= lv[n].end /\ lv[n].end <= N
      /\ \A m, n \in 1 .. L : m < n => lv[m].end < lv[n].end
      /\ N # 0 => L # 0 /\ lv[L].end = N
  <2>1. \A n \in 1 .. L : lv[n].end \in Nat
    BY <1>1 DEF LevelType
  <2>2. /\ \A n \in DOMAIN lv : 1 <= lv[n].end /\ lv[n].end <= N
        /\ \A m, n \in DOMAIN lv : m < n => lv[m].end < lv[n].end
        /\ N # 0 => lv # <<>> /\ lv[Len(lv)].end = N
    BY DEF Fit
  <2>. QED
    BY <1>1, <2>1, <2>2
<1>3. CASE L = 0
  <2>1. w = lv
    BY <1>3 DEF LastOpen
  <2>2. N = 0 /\ DOMAIN w = {}
    BY <1>1, <1>2, <1>3, <2>1
  <2>3. Cut(w, N, N)
    BY <1>1, <2>1, <2>2 DEF Cut
  <2>. QED
    BY <2>1, <2>2, <2>3 DEF Uncut
<1>4. CASE L # 0
  <2>. DEFINE x == [lv[L] EXCEPT !.wait = FALSE]
              y == [lv EXCEPT ![L] = x]
  <2>1. w = y
    <3>1. st.levels \in [Queues -> Seq(LevelType)] /\ DOMAIN st.levels = Queues
      BY DEF SortState
    <3>2. LastOpen(st, q) = [st EXCEPT !.levels = [st.levels EXCEPT ![q] = y]]
      BY <1>4 DEF LastOpen
    <3>3. "levels" \in DOMAIN st
      BY DEF SortState
    <3>. HIDE DEF y
    <3>4. LastOpen(st, q).levels = [st.levels EXCEPT ![q] = y]
      BY <3>2, <3>3
    <3>. QED
      BY <3>1, <3>4
  <2>2. L \in 1 .. L
    BY <1>1, <1>4
  <2>3. x \in LevelType /\ x.end = lv[L].end /\ ~x.wait
    <3>1. lv[L] \in LevelType
      BY <1>1, <2>2
    <3>. HIDE DEF L, lv
    <3>. QED
      BY <3>1 DEF LevelType
  <2>. HIDE DEF w, x
  <2>4. y \in Seq(LevelType) /\ Len(y) = L /\ DOMAIN y = 1 .. L /\ y # <<>>
        /\ \A n \in 1 .. L : y[n] = IF n = L THEN x ELSE lv[n]
    <3>. HIDE DEF lv
    <3>1. y \in Seq(LevelType) /\ Len(y) = Len(lv) /\ DOMAIN y = DOMAIN lv
      BY <1>1, <2>2, <2>3
    <3>2. \A n \in 1 .. L : y[n] = IF n = L THEN x ELSE lv[n]
      BY <1>1
    <3>. HIDE DEF y
    <3>3. y # <<>>
      <4>1. Len(y) # 0
        BY <1>4, <3>1
      <4>. QED
        BY <4>1
    <3>4. Len(y) = L
      BY <3>1
    <3>. HIDE DEF L
    <3>. QED
      BY <1>1, <3>1, <3>2, <3>3, <3>4, Zenon
  <2>. HIDE DEF y, L, lv
  <2>5. \A n \in 1 .. L : y[n].end = lv[n].end
    BY <2>3, <2>4
  <2>6. ASSUME NEW n \in 1 .. L, y[n].wait PROVE y[n].end < N
    <3>1. n # L
      BY <2>3, <2>4, <2>6
    <3>2. n < L /\ L \in 1 .. L
      BY <1>1, <2>2, <3>1
    <3>3. lv[n].end < lv[L].end
      BY <1>2, <3>2
    <3>. QED
      BY <1>2, <2>2, <2>5, <3>3
  <2>7. Cut(y, N, N)
    BY <1>2, <2>4, <2>5, <2>6 DEF Cut
  <2>8. Uncut(y, N)
    BY <1>2, <2>2, <2>4, <2>5, <2>7 DEF Uncut
  <2>. QED
    BY <2>1, <2>4, <2>8 DEF w, L, lv
<1>. QED
  BY <1>3, <1>4

IsSplit(f, last, q, n) ==
  f = [m \in 0 .. n |-> IF m = 0 THEN <<>> ELSE f[m - 1] \o SplitLevel(last, q, m)]

(* Where level n of such levels begins, and what it becomes.               *)
StartOf(levels, n) == IF n = 1 THEN 0 ELSE levels[n - 1].end

(* What SplitLevel makes of any of them.                                   *)
LEMMA PieceIs ==
  ASSUME NEW st, NEW q, NEW N \in Nat, Uncut(st.levels[q], N),
         NEW n \in 1 .. Len(st.levels[q])
  PROVE  /\ StartOf(st.levels[q], n) \in Nat /\ st.levels[q][n].end \in Nat
         /\ Pieces(SplitLevel(st, q, n), StartOf(st.levels[q], n), st.levels[q][n].end, N)
<1>. DEFINE lv == st.levels[q]
            L == Len(lv)
            start == StartOf(lv, n)
<1>1. /\ lv \in Seq(LevelType) /\ L \in Nat /\ DOMAIN lv = 1 .. L
      /\ \A m \in 1 .. L : lv[m] \in LevelType
  BY DEF Uncut, Cut
<1>2. /\ \A m \in 1 .. L : lv[m].end \in Nat /\ 1 <= lv[m].end /\ lv[m].end <= N
                           /\ (lv[m].wait => lv[m].end < N)
      /\ \A m, o \in 1 .. L : m < o => lv[m].end < lv[o].end
  <2>1. \A m \in 1 .. L : lv[m].end \in Nat
    BY <1>1 DEF LevelType
  <2>. QED
    BY <1>1, <2>1 DEF Uncut, Cut
<1>3. n \in Nat /\ n \in 1 .. L
  BY <1>1
<1>. HIDE DEF L
<1>4. start \in Nat /\ start < lv[n].end
  <2>1. CASE n = 1
    BY <1>2, <1>3, <2>1 DEF StartOf
  <2>2. CASE n # 1
    <3>1. n - 1 \in 1 .. L /\ n - 1 < n
      BY <1>1, <1>3, <2>2
    <3>2. lv[n - 1].end \in Nat /\ lv[n - 1].end < lv[n].end
      BY <1>2, <1>3, <3>1
    <3>. QED
      BY <2>2, <3>2 DEF StartOf
  <2>. QED
    BY <2>1, <2>2
<1>5. start = (IF n = 1 THEN 0 ELSE st.levels[q][n - 1].end)
  BY DEF StartOf
<1>6. lv[n] \in LevelType /\ lv[n] = st.levels[q][n] /\ lv[n].end <= N /\ (lv[n].wait => lv[n].end < N)
  BY <1>1, <1>2, <1>3
<1>. DEFINE e == lv[n]
<1>7. e \in LevelType /\ e = st.levels[q][n] /\ e.end <= N /\ (e.wait => e.end < N)
      /\ start < e.end /\ e.end \in Nat
  BY <1>2, <1>3, <1>4, <1>6
<1>. HIDE DEF e, start
<1>8. Pieces(SplitLevel(st, q, n), start, e.end, N)
  BY <1>3, <1>4, <1>5, <1>7, SplitIs
<1>. QED
  BY <1>4, <1>7, <1>8 DEF start, e

(* The function FinishLevels is defined by exists.                         *)
LEMMA SplitsExist ==
  ASSUME NEW st, NEW q, NEW N \in Nat, Uncut(st.levels[q], N)
  PROVE  \E f : IsSplit(f, st, q, Len(st.levels[q]))
<1>. DEFINE L == Len(st.levels[q])
            S == Seq(LevelType)
            G == [n \in 1 .. L |-> [s \in S |-> s \o SplitLevel(st, q, n)]]
<1>1. L \in Nat
  BY DEF Uncut, Cut
<1>2. ASSUME NEW n \in 1 .. L, NEW s \in S PROVE s \o SplitLevel(st, q, n) \in S
  <2>1. SplitLevel(st, q, n) \in S
    BY <1>2, PieceIs DEF Pieces
  <2>. QED
    BY <1>2, <2>1, Joined
<1>3. <<>> \in S
  OBVIOUS
<1>. HIDE DEF S, L
<1>4. G \in [1 .. L -> [S -> S]]
  BY <1>2
<1>5. \A n \in 1 .. L : \A s \in S : G[n][s] = s \o SplitLevel(st, q, n)
  OBVIOUS
<1>. HIDE DEF G
<1>6. PICK f : IsRecursive(f, L, S, <<>>, G)
  BY <1>1, <1>3, <1>4, RecursionExists
<1>7. ASSUME NEW n \in 0 .. L
      PROVE  f[n] = IF n = 0 THEN <<>> ELSE f[n - 1] \o SplitLevel(st, q, n)
  <2>1. CASE n = 0
    BY <1>6, <2>1 DEF IsRecursive
  <2>2. CASE n # 0
    <3>1. n \in 1 .. L /\ n - 1 \in 0 .. L
      BY <1>1, <2>2
    <3>2. f[n - 1] \in S /\ f[n] = G[n][f[n - 1]]
      BY <1>6, <3>1 DEF IsRecursive
    <3>3. f[n] = f[n - 1] \o SplitLevel(st, q, n)
      BY <1>5, <3>1, <3>2
    <3>. QED
      BY <2>2, <3>3
  <2>. QED
    BY <2>1, <2>2
<1>8. f = [n \in 0 .. L |-> f[n]]
  BY <1>6 DEF IsRecursive
<1>9. f = [n \in 0 .. L |-> IF n = 0 THEN <<>> ELSE f[n - 1] \o SplitLevel(st, q, n)]
  BY <1>7, <1>8
<1>. QED
  BY <1>9 DEF IsSplit, L

(* FinishLevels: the levels of a queue with N passes end one after the     *)
(* other, and those that wait have a pass after them.                      *)
LEMMA FinishIs ==
  ASSUME NEW st \in SortState, NEW q \in Queues, NEW N \in Nat, Fit(st.levels[q], N)
  PROVE  Cut(FinishLevels(st, q), N, N)
<1>. DEFINE open == LastOpen(st, q)
            lv == open.levels[q]
            L == Len(lv)
            f == CHOOSE f : IsSplit(f, open, q, L)
            E(n) == IF n = 0 THEN 0 ELSE lv[n].end
            S == {n \in Nat : n <= L => Cut(f[n], E(n), N)}
<1>1. Uncut(lv, N) /\ Len(st.levels[q]) = L
  BY LastOpenIs
<1>2. FinishLevels(st, q) = f[L]
  <2>. DEFINE n == Len(st.levels[q])
              g == CHOOSE g : IsSplit(g, open, q, n)
  <2>1. FinishLevels(st, q) = g[n]
    BY DEF FinishLevels, LastOpen, IsSplit
  <2>. QED
    BY <1>1, <2>1
<1>3. IsSplit(f, open, q, L)
  BY <1>1, SplitsExist
<1>4. L \in Nat /\ lv \in Seq(LevelType) /\ DOMAIN lv = 1 .. L
  BY <1>1 DEF Uncut, Cut
<1>. HIDE DEF f
<1>5. ASSUME NEW n \in 1 .. L
      PROVE  StartOf(lv, n) \in Nat /\ lv[n].end \in Nat
             /\ Pieces(SplitLevel(open, q, n), StartOf(lv, n), lv[n].end, N)
  BY <1>1, <1>5, PieceIs
<1>. HIDE DEF open, L, lv
<1>6. f[0] = <<>> /\ \A n \in 1 .. L : f[n] = f[n - 1] \o SplitLevel(open, q, n)
  <2>1. \A n \in 0 .. L : f[n] = IF n = 0 THEN <<>> ELSE f[n - 1] \o SplitLevel(open, q, n)
    BY <1>3 DEF IsSplit
  <2>2. 0 \in 0 .. L /\ \A n \in 1 .. L : n \in 0 .. L /\ n # 0
    BY <1>4
  <2>. QED
    BY <2>1, <2>2
<1>7. 0 \in S
  <2>1. E(0) = 0
    OBVIOUS
  <2>2. <<>> \in Seq(LevelType) /\ DOMAIN <<>> = {}
    OBVIOUS
  <2>3. Cut(<<>>, 0, N)
    BY <2>2 DEF Cut
  <2>. QED
    BY <1>6, <2>1, <2>3
<1>8. ASSUME NEW n \in Nat, n \in S PROVE n + 1 \in S
  <2>. SUFFICES ASSUME n + 1 <= L PROVE Cut(f[n + 1], E(n + 1), N)
    OBVIOUS
  <2>1. n <= L /\ n + 1 \in 1 .. L /\ (n + 1) - 1 = n /\ n + 1 # 0 /\ (n + 1 = 1 <=> n = 0)
    BY <1>4
  <2>2. Cut(f[n], E(n), N)
    BY <1>8, <2>1
  <2>3. f[n + 1] = f[n] \o SplitLevel(open, q, n + 1)
    BY <1>6, <2>1
  <2>4. E(n) = StartOf(lv, n + 1) /\ E(n + 1) = lv[n + 1].end
    BY <2>1 DEF StartOf
  <2>. DEFINE u == SplitLevel(open, q, n + 1)
              a == E(n)
              b == E(n + 1)
  <2>5. a \in Nat /\ b \in Nat /\ Pieces(u, a, b, N)
    BY <1>5, <2>1, <2>4
  <2>. HIDE DEF u, a, b, E
  <2>6. Cut(f[n], a, N)
    BY <2>2 DEF a
  <2>7. Cut(f[n] \o u, b, N)
    BY <2>5, <2>6, CutOn DEF Pieces
  <2>. QED
    BY <2>3, <2>7 DEF u, b
<1>. HIDE DEF S
<1>9. \A n \in Nat : n \in S
  BY <1>7, <1>8, CountUp
<1>10. Cut(f[L], E(L), N)
  <2>1. L \in S /\ L <= L
    BY <1>4, <1>9
  <2>. QED
    BY <2>1 DEF S
<1>11. E(L) = N
  <2>1. CASE L = 0
    <3>1. N = 0
      BY <1>1, <1>4, <2>1 DEF Uncut
    <3>. QED
      BY <2>1, <3>1
  <2>2. CASE L # 0
    <3>1. N # 0
      <4>1. L \in DOMAIN lv
        BY <1>4, <2>2
      <4>2. lv[L].end \in Nat /\ 1 <= lv[L].end /\ lv[L].end <= N
        BY <1>1, <1>4, <1>5, <4>1 DEF Uncut, Cut
      <4>. QED
        BY <4>2
    <3>2. lv[L].end = N
      BY <1>1, <3>1 DEF Uncut, L
    <3>. QED
      BY <2>2, <3>2
  <2>. QED
    BY <2>1, <2>2
<1>. QED
  BY <1>2, <1>10, <1>11

(* The plan of a graph: its passes, cut into levels.                        *)
PlanTyped(p) ==
  /\ p.sorted \in [Queues -> Seq(SortedType)] /\ DOMAIN p.levels = Queues
  /\ \A q \in Queues : Cut(p.levels[q], Len(p.sorted[q]), Len(p.sorted[q]))
  /\ \E q \in Queues : p.sorted[q] # <<>>

(* The plan of a graph that can run is such a plan.                        *)
LEMMA PlanIsTyped ==
  ASSUME NEW gr \in Graphs
  PROVE  PlanTyped(SortPasses(gr))
<1>. DEFINE st == Sorted(gr)
            p == SortPasses(gr)
<1>1. /\ gr \in GraphType /\ TurnInv(gr, st)
      /\ \A q \in Queues : Scheduled(st, q) = DOMAIN gr[q]
  BY SortedIs
<1>2. /\ p.sorted = st.sorted
      /\ p.levels = [q \in Queues |-> FinishLevels(st, q)]
  BY PlanIs
<1>. HIDE DEF st, p
<1>3. st \in SortState /\ st.sorted \in [Queues -> Seq(SortedType)]
  BY <1>1 DEF TurnInv, Core, SortTyped, SortState
<1>4. ASSUME NEW q \in Queues PROVE Cut(p.levels[q], Len(p.sorted[q]), Len(p.sorted[q]))
  <2>1. Len(st.sorted[q]) \in Nat
    BY <1>3
  <2>2. Fit(st.levels[q], Len(st.sorted[q]))
    BY <1>1 DEF TurnInv
  <2>3. Cut(FinishLevels(st, q), Len(st.sorted[q]), Len(st.sorted[q]))
    BY <1>3, <2>1, <2>2, FinishIs
  <2>. QED
    BY <1>2, <2>3
<1>5. \E q \in Queues : p.sorted[q] # <<>>
  <2>1. AllPasses(gr) # {}
    BY GraphsAssumption
  <2>2. PICK q \in Queues : DOMAIN gr[q] # {}
    BY <2>1 DEF AllPasses
  <2>3. Scheduled(st, q) # {}
    BY <1>1, <2>2
  <2>4. DOMAIN st.sorted[q] # {}
    BY <2>3 DEF Scheduled
  <2>5. st.sorted[q] # <<>>
    BY <2>4
  <2>. QED
    BY <1>2, <2>5
<1>. QED
  BY <1>2, <1>3, <1>4, <1>5 DEF PlanTyped, p

-----------------------------------------------------------------------------
(* What is submitted                                                       *)

OpType == [op: {"list", "signal", "wait"}, queue: Queues, level: Nat, val: Nat]
OpsOf(q) == {o \in OpType : o.queue = q}

(* Of a level of the plan: the passes it starts and ends with are there.    *)
LEMMA LevelIs ==
  ASSUME NEW p, PlanTyped(p), NEW q \in Queues, NEW n \in 1 .. Len(p.levels[q])
  PROVE  /\ p.levels[q][n] \in LevelType
         /\ LevelValue(p, q, n) \in Nat
         /\ p.levels[q][n].wait => p.sorted[q][p.levels[q][n].end + 1].val \in Nat
<1>. DEFINE lv == p.levels[q]
            s == p.sorted[q]
            L == Len(lv)
            N == Len(s)
            start == LevelStart(p, q, n)
<1>1. s \in Seq(SortedType) /\ Cut(lv, N, N)
  BY DEF PlanTyped
<1>2. /\ N \in Nat /\ L \in Nat /\ DOMAIN lv = 1 .. L /\ \A m \in 1 .. L : lv[m] \in LevelType
  BY <1>1 DEF Cut
<1>3. \A j \in 1 .. N : s[j].val \in Nat
  <2>1. \A j \in 1 .. N : s[j] \in SortedType
    BY <1>1
  <2>. QED
    BY <2>1 DEF SortedType
<1>4. /\ \A m \in 1 .. L : lv[m].end \in Nat /\ 1 <= lv[m].end /\ lv[m].end <= N
                           /\ (lv[m].wait => lv[m].end < N)
      /\ \A m, o \in 1 .. L : m < o => lv[m].end < lv[o].end
  <2>1. \A m \in 1 .. L : lv[m].end \in Nat
    BY <1>2 DEF LevelType
  <2>. QED
    BY <1>1, <1>2, <2>1 DEF Cut
<1>5. n \in 1 .. L
  OBVIOUS
<1>. HIDE DEF L, N
<1>6. start \in 1 .. N
  <2>1. CASE n = 1
    BY <1>2, <1>4, <1>5, <2>1 DEF LevelStart
  <2>2. CASE n # 1
    <3>1. n - 1 \in 1 .. L /\ n - 1 < n
      BY <1>2, <1>5, <2>2
    <3>. DEFINE e == lv[n - 1].end
                f == lv[n].end
    <3>2. e \in Nat /\ e < f /\ f \in Nat /\ f <= N
      BY <1>4, <1>5, <3>1
    <3>3. start = e + 1
      BY <2>2 DEF LevelStart
    <3>. HIDE DEF e, f, start
    <3>. QED
      BY <1>2, <3>2, <3>3
  <2>. QED
    BY <2>1, <2>2
<1>7. LevelValue(p, q, n) = s[start].val
  BY DEF LevelValue
<1>8. lv[n].wait => lv[n].end + 1 \in 1 .. N
  BY <1>2, <1>4, <1>5
<1>. HIDE DEF start
<1>. QED
  BY <1>2, <1>3, <1>5, <1>6, <1>7, <1>8

(* An operation of a queue is one of that queue's.                         *)
LEMMA OpIs ==
  ASSUME NEW op \in {"list", "signal", "wait"}, NEW q \in Queues, NEW n \in Nat, NEW v \in Nat
  PROVE  <<Op(op, q, n, v)>> \in Seq(OpsOf(q)) /\ Op(op, q, n, v) \in OpsOf(q)
<1>1. Op(op, q, n, v) \in OpsOf(q)
  BY DEF Op, OpType, OpsOf
<1>. QED
  BY <1>1

(* What is submitted for a level is its queue's; the value a wait names    *)
(* exists.                                                                 *)
LEMMA LevelOpsIs ==
  ASSUME NEW p, PlanTyped(p), NEW q \in Queues, NEW n \in 1 .. Len(p.levels[q])
  PROVE  LevelOps(p, q, n) \in Seq(OpsOf(q))
<1>. DEFINE level == p.levels[q][n]
            T == OpsOf(q)
            a == <<Op("list", q, n, 0)>>
            b == IF level.signal THEN <<Op("signal", q, n, LevelValue(p, q, n) + 1)>> ELSE <<>>
            c == IF level.wait THEN <<Op("wait", q, n, p.sorted[q][level.end + 1].val)>> ELSE <<>>
<1>1. n \in Nat /\ LevelValue(p, q, n) + 1 \in Nat
      /\ (level.wait => p.sorted[q][level.end + 1].val \in Nat)
  <2>. DEFINE v == LevelValue(p, q, n)
              L == Len(p.levels[q])
  <2>1. L \in Nat /\ n \in 1 .. L
    BY DEF PlanTyped, Cut
  <2>2. v \in Nat /\ (level.wait => p.sorted[q][level.end + 1].val \in Nat)
    BY LevelIs
  <2>. HIDE DEF v, L
  <2>3. n \in Nat /\ v + 1 \in Nat
    BY <2>1, <2>2
  <2>. QED
    BY <2>2, <2>3 DEF v
<1>2. a \in Seq(T)
  BY <1>1, OpIs
<1>3. b \in Seq(T)
  <2>1. <<Op("signal", q, n, LevelValue(p, q, n) + 1)>> \in Seq(T)
    BY <1>1, OpIs
  <2>2. <<>> \in Seq(T)
    OBVIOUS
  <2>. QED
    BY <2>1, <2>2
<1>4. c \in Seq(T)
  <2>1. CASE level.wait
    <3>1. <<Op("wait", q, n, p.sorted[q][level.end + 1].val)>> \in Seq(T)
      BY <1>1, <2>1, OpIs
    <3>. QED
      BY <2>1, <3>1
  <2>2. CASE ~level.wait
    BY <2>2
  <2>. QED
    BY <2>1, <2>2
<1>5. LevelOps(p, q, n) = (a \o b) \o c
  BY DEF LevelOps
<1>. HIDE DEF a, b, c, T
<1>6. a \o b \in Seq(T)
  BY <1>2, <1>3, Joined
<1>7. (a \o b) \o c \in Seq(T)
  BY <1>4, <1>6, Joined
<1>. QED
  BY <1>5, <1>7 DEF T

(* The merge after n levels: what it takes of a queue are levels of that   *)
(* queue, and the queue it calls the last one has had one.                 *)
MergeState == [next: [Queues -> Nat], ops: [Queues -> Seq(OpType)], computeLast: BOOLEAN]
Merging(p, st) ==
  /\ st \in MergeState
  /\ \A q \in Queues :
       /\ st.ops[q] \in Seq(OpsOf(q))
       /\ 1 <= st.next[q] /\ st.next[q] <= Len(p.levels[q]) + 1
  /\ st.computeLast => st.next["direct"] = 1 \/ p.levels["compute"] # <<>>
  /\ ~st.computeLast => st.next["direct"] # 1

Taken(st) == st.next["direct"] + st.next["compute"] - 2

(* How many levels there are.                                              *)
LEMMA LevelsAre ==
  ASSUME NEW p, PlanTyped(p)
  PROVE  /\ \A q \in Queues : Len(p.levels[q]) \in Nat /\ (p.levels[q] = <<>> <=> Len(p.levels[q]) = 0)
         /\ LevelCount(p) = Len(p.levels["direct"]) + Len(p.levels["compute"])
         /\ LevelCount(p) \in Nat
<1>1. \A q \in Queues : p.levels[q] \in Seq(LevelType)
  BY DEF PlanTyped, Cut
<1>2. \A q \in Queues : Len(p.levels[q]) \in Nat /\ (p.levels[q] = <<>> <=> Len(p.levels[q]) = 0)
  BY <1>1
<1>3. p.levels.direct = p.levels["direct"] /\ p.levels.compute = p.levels["compute"]
  OBVIOUS
<1>4. LevelCount(p) = Len(p.levels["direct"]) + Len(p.levels["compute"])
  BY <1>3 DEF LevelCount
<1>. DEFINE m == Len(p.levels["direct"])
            n == Len(p.levels["compute"])
<1>5. m \in Nat /\ n \in Nat /\ LevelCount(p) = m + n
  BY <1>2, <1>4 DEF Queues
<1>. HIDE DEF m, n
<1>6. LevelCount(p) \in Nat
  BY <1>5
<1>. QED
  BY <1>2, <1>4, <1>6

(* Taking a level keeps the merge going and counts one more.               *)
LEMMA TakeLevelIs ==
  ASSUME NEW p, PlanTyped(p), NEW st, Merging(p, st), NEW q \in Queues, More(p, st, q)
  PROVE  Merging(p, TakeLevel(p, st, q)) /\ Taken(TakeLevel(p, st, q)) = Taken(st) + 1
<1>. DEFINE u == TakeLevel(p, st, q)
            i == st.next[q]
            L == Len(p.levels[q])
<1>1. /\ st.next \in [Queues -> Nat] /\ st.ops \in [Queues -> Seq(OpType)]
      /\ st.computeLast \in BOOLEAN
  BY DEF Merging, MergeState
<1>2. /\ u.next = [st.next EXCEPT ![q] = @ + 1]
      /\ u.ops = [st.ops EXCEPT ![q] = @ \o LevelOps(p, q, i)]
      /\ u.computeLast = (st.computeLast /\ (q = "compute" \/ More(p, st, "compute")))
      /\ u = [next |-> u.next, ops |-> u.ops, computeLast |-> u.computeLast]
  BY DEF TakeLevel
<1>3. L \in Nat /\ i \in Nat /\ 1 <= i /\ i <= L
  <2>1. L \in Nat /\ i \in Nat
    BY <1>1, LevelsAre
  <2>2. 1 <= i
    BY DEF Merging
  <2>3. i <= L
    BY DEF More
  <2>. QED
    BY <2>1, <2>2, <2>3
<1>. HIDE DEF u
<1>4. i \in 1 .. L
  BY <1>3
<1>5. LevelOps(p, q, i) \in Seq(OpsOf(q))
  BY <1>4, LevelOpsIs
<1>6. st.ops[q] \o LevelOps(p, q, i) \in Seq(OpsOf(q))
  <2>1. st.ops[q] \in Seq(OpsOf(q))
    BY DEF Merging
  <2>. QED
    BY <1>5, <2>1, Joined
<1>7. \A x \in Queues : u.ops[x] = IF x = q THEN st.ops[q] \o LevelOps(p, q, i) ELSE st.ops[x]
  BY <1>1, <1>2
<1>8. ASSUME NEW x \in Queues PROVE u.ops[x] \in Seq(OpsOf(x))
  BY <1>6, <1>7 DEF Merging
<1>9. DOMAIN u.ops = Queues /\ \A x \in Queues : u.ops[x] \in Seq(OpType)
  <2>1. \A x \in Queues : OpsOf(x) \subseteq OpType
    BY DEF OpsOf
  <2>2. \A x \in Queues : Seq(OpsOf(x)) \subseteq Seq(OpType)
    BY <2>1
  <2>. QED
    BY <1>1, <1>2, <1>8, <2>2
<1>10. u.ops \in [Queues -> Seq(OpType)]
  <2>1. u.ops = [x \in Queues |-> u.ops[x]]
    BY <1>1, <1>2
  <2>. QED
    BY <1>9, <2>1
<1>11. \A x \in Queues : u.next[x] = IF x = q THEN i + 1 ELSE st.next[x]
  BY <1>1, <1>2
<1>12. u.next \in [Queues -> Nat]
  BY <1>1, <1>2
<1>13. u.computeLast \in BOOLEAN
  BY <1>1, <1>2
<1>14. u \in MergeState
  BY <1>2, <1>10, <1>12, <1>13 DEF MergeState
<1>15. ASSUME NEW x \in Queues
       PROVE  1 <= u.next[x] /\ u.next[x] <= Len(p.levels[x]) + 1
  <2>1. CASE x = q
    BY <1>3, <1>11, <2>1
  <2>2. CASE x # q
    BY <1>11, <2>2 DEF Merging
  <2>. QED
    BY <2>1, <2>2
<1>16. (q = "direct" \/ q = "compute") /\ "direct" \in Queues /\ "compute" \in Queues
  BY DEF Queues
<1>. DEFINE a == st.next["direct"]
            b == st.next["compute"]
<1>17. a \in Nat /\ b \in Nat
  BY <1>1, <1>16
<1>18. CASE q = "direct"
  <2>1. u.next["direct"] = a + 1 /\ u.next["compute"] = b /\ a = i
    BY <1>11, <1>16, <1>18
  <2>2. u.next["direct"] # 1
    BY <1>3, <2>1
  <2>3. u.computeLast => p.levels["compute"] # <<>>
    <3>. SUFFICES ASSUME u.computeLast PROVE p.levels["compute"] # <<>>
      OBVIOUS
    <3>1. More(p, st, "compute")
      BY <1>2, <1>18
    <3>2. b <= Len(p.levels["compute"]) /\ 1 <= b /\ Len(p.levels["compute"]) \in Nat
      BY <1>16, <3>1, LevelsAre DEF More, Merging
    <3>3. Len(p.levels["compute"]) # 0
      BY <1>17, <3>2
    <3>. QED
      BY <1>16, <3>3, LevelsAre
  <2>4. Taken(u) = Taken(st) + 1
    BY <1>17, <2>1 DEF Taken
  <2>5. Merging(p, u)
    BY <1>8, <1>14, <1>15, <2>2, <2>3 DEF Merging
  <2>. QED
    BY <2>4, <2>5 DEF u
<1>19. CASE q = "compute"
  <2>1. u.next["direct"] = a /\ u.next["compute"] = b + 1 /\ b = i
    BY <1>11, <1>16, <1>19
  <2>2. p.levels["compute"] # <<>>
    <3>1. L # 0
      BY <1>3
    <3>. QED
      BY <1>16, <1>19, <3>1, LevelsAre
  <2>3. u.computeLast = st.computeLast
    BY <1>1, <1>2, <1>19
  <2>4. ~u.computeLast => u.next["direct"] # 1
    BY <2>1, <2>3 DEF Merging
  <2>5. Taken(u) = Taken(st) + 1
    BY <1>17, <2>1 DEF Taken
  <2>6. Merging(p, u)
    BY <1>8, <1>14, <1>15, <2>2, <2>4 DEF Merging
  <2>. QED
    BY <2>5, <2>6 DEF u
<1>. QED
  BY <1>16, <1>18, <1>19

(* A step of the merge takes a level as long as one is left.               *)
LEMMA MergeStepIs ==
  ASSUME NEW p, PlanTyped(p), NEW st, Merging(p, st)
  PROVE  /\ Merging(p, MergeStep(p, st))
         /\ Taken(st) < LevelCount(p) => Taken(MergeStep(p, st)) = Taken(st) + 1
<1>1. "direct" \in Queues /\ "compute" \in Queues
  BY DEF Queues
<1>. DEFINE front == More(p, st, "direct") /\ (More(p, st, "compute") =>
       LevelValue(p, "direct", st.next.direct) <= LevelValue(p, "compute", st.next.compute))
<1>2. MergeStep(p, st) = IF front THEN TakeLevel(p, st, "direct")
                         ELSE IF More(p, st, "compute") THEN TakeLevel(p, st, "compute") ELSE st
  BY DEF MergeStep
<1>3. front => More(p, st, "direct")
  OBVIOUS
<1>4. ~front /\ ~More(p, st, "compute") => ~More(p, st, "direct")
  OBVIOUS
<1>. HIDE DEF front
<1>5. CASE front
  BY <1>1, <1>2, <1>3, <1>5, TakeLevelIs
<1>6. CASE ~front /\ More(p, st, "compute")
  BY <1>1, <1>2, <1>6, TakeLevelIs
<1>7. CASE ~front /\ ~More(p, st, "compute")
  <2>1. MergeStep(p, st) = st
    BY <1>2, <1>7
  <2>2. ~(Taken(st) < LevelCount(p))
    <3>. DEFINE a == st.next["direct"]
                b == st.next["compute"]
                m == Len(p.levels["direct"])
                n == Len(p.levels["compute"])
    <3>1. a \in Nat /\ b \in Nat
      BY <1>1 DEF Merging, MergeState
    <3>2. m \in Nat /\ n \in Nat /\ LevelCount(p) = m + n
      BY <1>1, LevelsAre
    <3>3. ~(a <= m) /\ ~(b <= n)
      BY <1>4, <1>7 DEF More
    <3>4. Taken(st) = a + b - 2
      BY DEF Taken
    <3>. HIDE DEF a, b, m, n
    <3>. QED
      BY <3>1, <3>2, <3>3, <3>4
  <2>. QED
    BY <2>1, <2>2
<1>. QED
  BY <1>5, <1>6, <1>7

IsMerged(f, p) ==
  f = [n \in 0 .. LevelCount(p) |-> IF n = 0 THEN StartMerge ELSE MergeStep(p, f[n - 1])]

(* The merge starts with nothing taken.                                    *)
LEMMA StartMergeIs ==
  ASSUME NEW p, PlanTyped(p)
  PROVE  Merging(p, StartMerge) /\ Taken(StartMerge) = 0
<1>. DEFINE st == StartMerge
<1>1. st.next = [q \in Queues |-> 1] /\ st.ops = [q \in Queues |-> <<>>] /\ st.computeLast
  BY DEF StartMerge
<1>2. st \in MergeState
  BY DEF StartMerge, MergeState
<1>. HIDE DEF st
<1>3. \A q \in Queues : st.ops[q] = <<>> /\ st.next[q] = 1
  BY <1>1
<1>4. "direct" \in Queues /\ "compute" \in Queues
  BY DEF Queues
<1>5. ASSUME NEW q \in Queues
      PROVE  st.ops[q] \in Seq(OpsOf(q)) /\ 1 <= st.next[q] /\ st.next[q] <= Len(p.levels[q]) + 1
  <2>. DEFINE L == Len(p.levels[q])
  <2>1. L \in Nat
    BY LevelsAre
  <2>. HIDE DEF L
  <2>2. 1 <= 1 /\ 1 <= L + 1
    BY <2>1
  <2>3. <<>> \in Seq(OpsOf(q))
    OBVIOUS
  <2>. QED
    BY <1>3, <2>2, <2>3 DEF L
<1>6. Merging(p, st)
  BY <1>1, <1>2, <1>3, <1>4, <1>5 DEF Merging
<1>7. Taken(st) = 0
  BY <1>3, <1>4 DEF Taken
<1>. QED
  BY <1>6, <1>7 DEF st

(* The function Merged is defined by exists.                               *)
LEMMA MergedExists ==
  ASSUME NEW p, PlanTyped(p)
  PROVE  \E f : IsMerged(f, p)
<1>. DEFINE L == LevelCount(p)
            S == {st \in MergeState : Merging(p, st)}
            G == [n \in 1 .. L |-> [st \in S |-> MergeStep(p, st)]]
<1>1. L \in Nat
  BY LevelsAre
<1>2. \A st \in S : MergeStep(p, st) \in S
  BY MergeStepIs DEF Merging
<1>3. StartMerge \in S
  BY StartMergeIs DEF Merging
<1>. HIDE DEF S, L
<1>4. G \in [1 .. L -> [S -> S]]
  BY <1>2
<1>5. \A n \in 1 .. L : \A st \in S : G[n][st] = MergeStep(p, st)
  OBVIOUS
<1>. HIDE DEF G
<1>6. PICK f : IsRecursive(f, L, S, StartMerge, G)
  BY <1>1, <1>3, <1>4, RecursionExists
<1>7. ASSUME NEW n \in 0 .. L
      PROVE  f[n] = IF n = 0 THEN StartMerge ELSE MergeStep(p, f[n - 1])
  <2>1. CASE n = 0
    BY <1>6, <2>1 DEF IsRecursive
  <2>2. CASE n # 0
    <3>1. n \in 1 .. L /\ n - 1 \in 0 .. L
      BY <1>1, <2>2
    <3>2. f[n - 1] \in S /\ f[n] = G[n][f[n - 1]]
      BY <1>6, <3>1 DEF IsRecursive
    <3>3. f[n] = MergeStep(p, f[n - 1])
      BY <1>5, <3>1, <3>2
    <3>. QED
      BY <2>2, <3>3
  <2>. QED
    BY <2>1, <2>2
<1>8. f = [n \in 0 .. L |-> f[n]]
  BY <1>6 DEF IsRecursive
<1>9. f = [n \in 0 .. L |-> IF n = 0 THEN StartMerge ELSE MergeStep(p, f[n - 1])]
  BY <1>7, <1>8
<1>. QED
  BY <1>9 DEF IsMerged, L

(* The merge ends when it has taken every level of both queues.             *)
LEMMA MergedIs ==
  ASSUME NEW p, PlanTyped(p)
  PROVE  Merging(p, Merged(p)) /\ Taken(Merged(p)) = LevelCount(p)
<1>. DEFINE f == CHOOSE f : IsMerged(f, p)
            L == LevelCount(p)
            S == {n \in Nat : n <= L => Merging(p, f[n]) /\ Taken(f[n]) = n}
<1>1. Merged(p) = f[L]
  BY DEF Merged, IsMerged
<1>2. IsMerged(f, p)
  BY MergedExists
<1>3. L \in Nat
  BY LevelsAre
<1>. HIDE DEF f
<1>4. f[0] = StartMerge /\ \A n \in 1 .. L : f[n] = MergeStep(p, f[n - 1])
  <2>1. \A n \in 0 .. L : f[n] = IF n = 0 THEN StartMerge ELSE MergeStep(p, f[n - 1])
    BY <1>2 DEF IsMerged
  <2>. HIDE DEF L
  <2>2. 0 \in 0 .. L /\ \A n \in 1 .. L : n \in 0 .. L /\ n # 0
    BY <1>3
  <2>. QED
    BY <2>1, <2>2
<1>5. 0 \in S
  BY <1>4, StartMergeIs
<1>6. ASSUME NEW n \in Nat, n \in S PROVE n + 1 \in S
  <2>. SUFFICES ASSUME n + 1 <= L PROVE Merging(p, f[n + 1]) /\ Taken(f[n + 1]) = n + 1
    OBVIOUS
  <2>1. n <= L /\ n < L /\ n + 1 \in 1 .. L /\ (n + 1) - 1 = n
    <3>. HIDE DEF L
    <3>. QED
      BY <1>3
  <2>2. Merging(p, f[n]) /\ Taken(f[n]) = n
    BY <1>6, <2>1
  <2>3. f[n + 1] = MergeStep(p, f[n])
    BY <1>4, <2>1
  <2>. QED
    BY <2>1, <2>2, <2>3, MergeStepIs
<1>. HIDE DEF S, L
<1>7. \A n \in Nat : n \in S
  BY <1>5, <1>6, CountUp
<1>8. L \in S /\ L <= L
  BY <1>3, <1>7
<1>9. Merging(p, f[L]) /\ Taken(f[L]) = L
  BY <1>8 DEF S
<1>. QED
  BY <1>1, <1>9 DEF L

(* The queue SubmitToQueue signals the graph's last value on has passes.   *)
LEMMA LastQueueIs ==
  ASSUME NEW p, PlanTyped(p), NEW q, q = IF Merged(p).computeLast THEN "compute" ELSE "direct"
  PROVE  q \in Queues /\ p.sorted[q] # <<>>
<1>. DEFINE st == Merged(p)
            a == st.next["direct"]
            b == st.next["compute"]
            m == Len(p.levels["direct"])
            n == Len(p.levels["compute"])
<1>1. Merging(p, st) /\ Taken(st) = LevelCount(p)
  BY MergedIs
<1>. HIDE DEF st
<1>2. "direct" \in Queues /\ "compute" \in Queues /\ \A x \in Queues : x = "direct" \/ x = "compute"
  BY DEF Queues
<1>3. a \in Nat /\ b \in Nat /\ 1 <= a /\ 1 <= b /\ a <= m + 1 /\ b <= n + 1
  BY <1>1, <1>2 DEF Merging, MergeState
<1>4. m \in Nat /\ n \in Nat /\ LevelCount(p) = m + n
  BY <1>2, LevelsAre
<1>5. a + b - 2 = m + n
  BY <1>1, <1>4 DEF Taken
<1>6. ASSUME NEW x \in Queues, p.sorted[x] = <<>> PROVE Len(p.levels[x]) = 0
  <2>. DEFINE lv == p.levels[x]
              N == Len(p.sorted[x])
  <2>1. N = 0 /\ Cut(lv, N, N)
    BY <1>6 DEF PlanTyped
  <2>2. \A i \in DOMAIN lv : lv[i].end \in Nat
    <3>1. \A i \in DOMAIN lv : lv[i] \in LevelType
      BY <2>1 DEF Cut
    <3>. QED
      BY <3>1 DEF LevelType
  <2>. HIDE DEF N
  <2>3. DOMAIN lv = {}
    BY <2>1, <2>2 DEF Cut
  <2>4. lv \in Seq(LevelType)
    BY <2>1 DEF Cut
  <2>. HIDE DEF lv
  <2>5. Len(lv) = 0
    BY <2>3, <2>4
  <2>. QED
    BY <2>5 DEF lv
<1>7. ASSUME NEW x \in Queues, Len(p.levels[x]) = 0 PROVE p.sorted[x] = <<>>
  <2>1. Cut(p.levels[x], Len(p.sorted[x]), Len(p.sorted[x]))
    BY DEF PlanTyped
  <2>2. p.levels[x] = <<>>
    BY <1>7, LevelsAre
  <2>3. Len(p.sorted[x]) = 0
    BY <2>1, <2>2 DEF Cut
  <2>4. p.sorted[x] \in Seq(SortedType)
    BY DEF PlanTyped
  <2>. QED
    BY <2>3, <2>4
<1>8. m # 0 \/ n # 0
  <2>1. PICK x \in Queues : p.sorted[x] # <<>>
    BY DEF PlanTyped
  <2>. QED
    BY <1>2, <1>7, <2>1
<1>9. CASE st.computeLast
  <2>1. q = "compute"
    BY <1>9 DEF st
  <2>2. a = 1 \/ n # 0
    BY <1>1, <1>2, <1>9, LevelsAre DEF Merging
  <2>. HIDE DEF a, b, m, n
  <2>3. n # 0
    BY <1>3, <1>4, <1>5, <1>8, <2>2
  <2>. QED
    BY <1>2, <1>6, <2>1, <2>3 DEF n
<1>10. CASE ~st.computeLast
  <2>1. q = "direct"
    BY <1>10 DEF st
  <2>2. a # 1
    BY <1>1, <1>10 DEF Merging
  <2>. HIDE DEF a, b, m, n
  <2>3. m # 0
    BY <1>3, <1>4, <2>2
  <2>. QED
    BY <1>2, <1>6, <2>1, <2>3 DEF m
<1>. QED
  BY <1>9, <1>10

(* What is submitted to either queue, and the value the graph's fence will *)
(* reach.                                                                  *)
LEMMA SubmissionIs ==
  ASSUME NEW p, PlanTyped(p)
  PROVE  /\ Submission(p).ops \in [Queues -> Seq(OpType)]
         /\ \A q \in Queues : Submission(p).ops[q] \in Seq(OpsOf(q))
         /\ Submission(p).fence \in Nat
<1>. DEFINE last == IF Merged(p).computeLast THEN "compute" ELSE "direct"
            s == p.sorted[last]
            value == Last(s).val + 1
            o == Op("signal", last, 0, value)
            ops == Merged(p).ops
            new == [ops EXCEPT ![last] = Append(@, o)]
<1>1. Submission(p) = [ops |-> new, fence |-> value]
  BY DEF Submission, LastQueue
<1>2. Submission(p).ops = new /\ Submission(p).fence = value
  BY <1>1
<1>3. last \in Queues /\ s # <<>>
  BY LastQueueIs
<1>. HIDE DEF last
<1>4. s \in Seq(SortedType)
  BY <1>3 DEF PlanTyped
<1>5. value \in Nat
  <2>. HIDE DEF s
  <2>1. Last(s) \in SortedType
    BY <1>3, <1>4 DEF Last
  <2>. DEFINE v == Last(s).val
  <2>2. v \in Nat
    BY <2>1 DEF SortedType
  <2>. HIDE DEF v
  <2>3. v + 1 \in Nat
    BY <2>2
  <2>. QED
    BY <2>3 DEF v
<1>. HIDE DEF value, s
<1>6. o \in OpsOf(last)
  BY <1>3, <1>5, OpIs
<1>7. ops \in [Queues -> Seq(OpType)] /\ \A q \in Queues : ops[q] \in Seq(OpsOf(q))
  BY MergedIs DEF Merging, MergeState
<1>. HIDE DEF o, ops
<1>8. Append(ops[last], o) \in Seq(OpsOf(last))
  BY <1>3, <1>6, <1>7
<1>9. \A q \in Queues : Seq(OpsOf(q)) \subseteq Seq(OpType)
  <2>1. \A q \in Queues : OpsOf(q) \subseteq OpType
    BY DEF OpsOf
  <2>. QED
    BY <2>1
<1>10. new \in [Queues -> Seq(OpType)]
  BY <1>3, <1>7, <1>8, <1>9
<1>11. ASSUME NEW q \in Queues PROVE new[q] \in Seq(OpsOf(q))
  BY <1>7, <1>8
<1>. HIDE DEF new
<1>. QED
  BY <1>2, <1>5, <1>10, <1>11

-----------------------------------------------------------------------------
(* The state                                                               *)

(* What is queued on q; the main list's signals are of frames submitted.    *)
Queued(q) == {o \in Operations : o.queue = q /\ (o.fence = "main" => o.val <= MaxFrames)}
AllQueued(p) == DOMAIN p = Queues /\ \A q \in Queues : p[q] \in Seq(Queued(q))

(* Such queues have the type TypeOK asks for.                              *)
LEMMA QueuedTyped ==
  ASSUME NEW p, p = [q \in Queues |-> p[q]], AllQueued(p)
  PROVE  /\ p \in [Queues -> Seq(Operations)]
         /\ \A q \in Queues : \A i \in DOMAIN p[q] : p[q][i].queue = q
<1>1. \A q \in Queues : Seq(Queued(q)) \subseteq Seq(Operations)
  <2>1. \A q \in Queues : Queued(q) \subseteq Operations
    BY DEF Queued
  <2>. QED
    BY <2>1
<1>2. p \in [Queues -> Seq(Operations)]
  BY <1>1 DEF AllQueued
<1>3. ASSUME NEW q \in Queues, NEW i \in DOMAIN p[q] PROVE p[q][i].queue = q
  <2>1. p[q] \in Seq(Queued(q))
    BY DEF AllQueued
  <2>2. p[q][i] \in Queued(q)
    BY <2>1
  <2>. QED
    BY <2>2 DEF Queued
<1>. QED
  BY <1>2, <1>3

(* The indices and fence values the CPU keeps.                              *)
CpuTyped ==
  /\ graph \in Graphs
  /\ dirty \in BOOLEAN
  /\ pc \in {"record", "endFrame", "frameWait"}
  /\ currentFrameIndex \in Slots
  /\ currentFenceVal \in 0 .. MaxFrames
  /\ fence_vals \in [Slots -> 0 .. MaxFrames]
  /\ maxFence \in Nat
FencesTyped == fence \in Nat /\ mainFence \in 0 .. MaxFrames
RunningTyped == running \subseteq {o \in Operations : o.op = "list"}
PendingTyped == pending = [q \in Queues |-> pending[q]] /\ AllQueued(pending)

TypeInv == PlanInv /\ CpuTyped /\ FencesTyped /\ RunningTyped /\ PendingTyped

(* The invariant implies the type.                                         *)
LEMMA TypeInvTyped == ASSUME TypeInv PROVE TypeOK
<1>1. /\ pending \in [Queues -> Seq(Operations)]
      /\ \A q \in Queues : \A i \in DOMAIN pending[q] : pending[q][i].queue = q
  BY QueuedTyped DEF TypeInv, PendingTyped
<1>. QED
  BY <1>1 DEF TypeInv, CpuTyped, FencesTyped, RunningTyped, TypeOK

(* It holds at the start.                                                  *)
LEMMA TypeInvInit == ASSUME Init PROVE TypeInv
<1>1. PlanInv
  BY PlanInvInit
<1>2. CpuTyped /\ FencesTyped
  BY FramesAssumption DEF Init, CpuTyped, FencesTyped, Slots
<1>3. RunningTyped
  BY DEF Init, RunningTyped
<1>4. PendingTyped
  <2>1. \A q \in Queues : <<>> \in Seq(Queued(q))
    OBVIOUS
  <2>. QED
    BY <2>1 DEF Init, PendingTyped, AllQueued
<1>. QED
  BY <1>1, <1>2, <1>3, <1>4 DEF TypeInv

(* A sequence of operations put at the end of a queue.                      *)
LEMMA QueuedMore ==
  ASSUME PendingTyped, NEW a, \A q \in Queues : a[q] \in Seq(Queued(q)),
         NEW p, p = [q \in Queues |-> pending[q] \o a[q]]
  PROVE  p = [q \in Queues |-> p[q]] /\ AllQueued(p)
<1>1. ASSUME NEW q \in Queues PROVE p[q] \in Seq(Queued(q))
  <2>1. pending[q] \in Seq(Queued(q)) /\ p[q] = pending[q] \o a[q]
    BY DEF PendingTyped, AllQueued
  <2>. QED
    BY <2>1, Joined
<1>. QED
  BY <1>1 DEF AllQueued

(* An operation submitted in a frame is one that may be queued.            *)
LEMMA SubmittedIs ==
  ASSUME CpuTyped, currentFenceVal < MaxFrames, NEW q \in Queues, NEW o \in OpsOf(q),
         NEW f \in {"graph", "main"}, NEW base \in Nat,
         f = "main" => o.val + base <= MaxFrames
  PROVE  Submitted(o, f, base) \in Queued(q)
<1>1. currentFenceVal + 1 \in 1 .. MaxFrames /\ currentFrameIndex \in Slots
  BY FramesAssumption DEF CpuTyped
<1>2. o.op \in {"list", "signal", "wait"} /\ o.queue = q /\ o.level \in Nat /\ o.val \in Nat
  BY DEF OpsOf, OpType
<1>. DEFINE v == o.val
<1>3. v + base \in Nat
  <2>1. v \in Nat
    BY <1>2
  <2>. HIDE DEF v
  <2>. QED
    BY <2>1
<1>4. Submitted(o, f, base) \in Operations
  BY <1>1, <1>2, <1>3 DEF Submitted, Operations
<1>5. /\ Submitted(o, f, base).queue = q
      /\ Submitted(o, f, base).fence = f /\ Submitted(o, f, base).val = v + base
  BY <1>2 DEF Submitted
<1>. QED
  BY <1>4, <1>5 DEF Queued

(* ExecuteAndSubmit queues what the plan says.                             *)
LEMMA ExecuteTyped == ASSUME TypeInv, ExecuteAndSubmit PROVE TypeInv'
<1>. DEFINE p == SortPasses(graph)
            s == Submission(p)
            a == [q \in Queues |-> [n \in DOMAIN s.ops[q] |-> Submitted(s.ops[q][n], "graph", maxFence)]]
<1>1. PlanInv'
  BY PlanInvStep DEF TypeInv, Next
<1>2. plan' = p
  BY DEF ExecuteAndSubmit, TypeInv, PlanInv
<1>3. graph \in Graphs /\ CpuTyped /\ maxFence \in Nat /\ PendingTyped /\ currentFenceVal < MaxFrames
  BY DEF TypeInv, CpuTyped, ExecuteAndSubmit
<1>4. PlanTyped(p)
  BY <1>3, PlanIsTyped
<1>5. s.ops \in [Queues -> Seq(OpType)] /\ s.fence \in Nat
      /\ \A q \in Queues : s.ops[q] \in Seq(OpsOf(q))
  BY <1>4, SubmissionIs
<1>6. pending' = [q \in Queues |-> pending[q] \o
              [n \in DOMAIN s.ops[q] |-> Submitted(s.ops[q][n], "graph", maxFence)]]
  BY <1>2 DEF ExecuteAndSubmit
<1>7. maxFence' = maxFence + s.fence
  BY <1>2 DEF ExecuteAndSubmit
<1>. HIDE DEF p, s
<1>8. pending' = [q \in Queues |-> pending[q] \o a[q]]
  BY <1>6
<1>9. ASSUME NEW q \in Queues PROVE a[q] \in Seq(Queued(q))
  <2>. DEFINE o == s.ops[q]
              b == [n \in DOMAIN o |-> Submitted(o[n], "graph", maxFence)]
  <2>1. o \in Seq(OpsOf(q)) /\ a[q] = b
    BY <1>5
  <2>. HIDE DEF o
  <2>2. \A n \in DOMAIN o : Submitted(o[n], "graph", maxFence) \in Queued(q)
    <3>1. \A n \in DOMAIN o : o[n] \in OpsOf(q)
      BY <2>1
    <3>. QED
      BY <1>3, <3>1, SubmittedIs
  <2>3. b \in Seq(Queued(q))
    <3>1. DOMAIN o = 1 .. Len(o) /\ Len(o) \in Nat
      BY <2>1
    <3>. QED
      BY <2>2, <3>1
  <2>. QED
    BY <2>1, <2>3
<1>. HIDE DEF a
<1>10. PendingTyped'
  BY <1>3, <1>8, <1>9, QueuedMore DEF PendingTyped
<1>11. CpuTyped'
  <2>1. maxFence' \in Nat
    <3>. DEFINE e == s.fence
    <3>1. e \in Nat
      BY <1>5
    <3>. HIDE DEF e
    <3>2. maxFence + e \in Nat
      BY <1>3, <3>1
    <3>. QED
      BY <1>7, <3>2 DEF e
  <2>. QED
    BY <1>3, <2>1 DEF CpuTyped, ExecuteAndSubmit
<1>12. FencesTyped' /\ RunningTyped'
  BY DEF TypeInv, FencesTyped, RunningTyped, ExecuteAndSubmit
<1>. QED
  BY <1>1, <1>10, <1>11, <1>12 DEF TypeInv

(* EndFrame queues the main list and its signal.                           *)
LEMMA EndFrameTyped == ASSUME TypeInv, EndFrame PROVE TypeInv'
<1>. DEFINE l == Submitted(Op("list", "direct", 0, 0), "main", 0)
            s == Submitted(Op("signal", "direct", 0, currentFenceVal + 1), "main", 0)
            a == [q \in Queues |-> IF q = "direct" THEN <<l, s>> ELSE <<>>]
<1>1. PlanInv'
  BY PlanInvStep DEF TypeInv, Next
<1>2. CpuTyped /\ PendingTyped /\ currentFenceVal < MaxFrames /\ "direct" \in Queues
  BY DEF TypeInv, EndFrame, Queues
<1>3. currentFenceVal \in Nat /\ currentFenceVal + 1 \in 0 .. MaxFrames
  BY <1>2, FramesAssumption DEF CpuTyped
<1>4. l \in Queued("direct")
  <2>1. Op("list", "direct", 0, 0) \in OpsOf("direct") /\ Op("list", "direct", 0, 0).val = 0
    BY <1>2, OpIs DEF Op
  <2>2. 0 + 0 <= MaxFrames
    BY FramesAssumption
  <2>. QED
    BY <1>2, <2>1, <2>2, SubmittedIs
<1>5. s \in Queued("direct")
  <2>. DEFINE v == currentFenceVal + 1
              o == Op("signal", "direct", 0, v)
  <2>1. v \in Nat /\ v + 0 <= MaxFrames
    BY <1>3
  <2>. HIDE DEF v
  <2>2. o \in OpsOf("direct") /\ o.val = v
    BY <1>2, <2>1, OpIs DEF Op
  <2>. HIDE DEF o
  <2>3. Submitted(o, "main", 0) \in Queued("direct")
    BY <1>2, <2>1, <2>2, SubmittedIs
  <2>. QED
    BY <2>3 DEF o, v
<1>6. pending' = [pending EXCEPT !["direct"] = @ \o <<l, s>>]
  BY DEF EndFrame
<1>. HIDE DEF l, s
<1>7. ASSUME NEW q \in Queues PROVE a[q] \in Seq(Queued(q))
  <2>1. <<l, s>> \in Seq(Queued("direct"))
    BY <1>4, <1>5
  <2>2. <<>> \in Seq(Queued(q))
    OBVIOUS
  <2>3. a[q] = IF q = "direct" THEN <<l, s>> ELSE <<>>
    OBVIOUS
  <2>. HIDE DEF a
  <2>. QED
    BY <2>1, <2>2, <2>3
<1>8. pending' = [q \in Queues |-> pending[q] \o a[q]]
  <2>1. DOMAIN pending = Queues /\ \A q \in Queues : pending[q] \in Seq(Queued(q))
    BY <1>2 DEF PendingTyped, AllQueued
  <2>2. ASSUME NEW q \in Queues
        PROVE  pending[q] \o a[q] = IF q = "direct" THEN pending[q] \o <<l, s>> ELSE pending[q]
    <3>1. CASE q = "direct"
      BY <3>1
    <3>2. CASE q # "direct"
      <4>1. a[q] = <<>>
        BY <3>2
      <4>2. pending[q] \o <<>> = pending[q]
        BY <2>1
      <4>. QED
        BY <3>2, <4>1, <4>2
    <3>. QED
      BY <3>1, <3>2
  <2>3. pending' = [q \in Queues |-> IF q = "direct" THEN pending[q] \o <<l, s>> ELSE pending[q]]
    BY <1>6, <2>1
  <2>. HIDE DEF a
  <2>. QED
    BY <2>2, <2>3
<1>. HIDE DEF a
<1>9. PendingTyped'
  BY <1>2, <1>7, <1>8, QueuedMore DEF PendingTyped
<1>10. (currentFrameIndex + 1) % NumFrames \in Slots
  <2>1. currentFrameIndex + 1 \in Nat /\ NumFrames \in Nat \ {0}
    BY <1>2, FramesAssumption DEF CpuTyped, Slots
  <2>2. (currentFrameIndex + 1) % NumFrames \in 0 .. NumFrames - 1
    BY <2>1
  <2>. QED
    BY <2>2 DEF Slots
<1>11. CpuTyped'
  <2>1. fence_vals' \in [Slots -> 0 .. MaxFrames]
    BY <1>2, <1>3 DEF CpuTyped, EndFrame
  <2>. QED
    BY <1>2, <1>3, <1>10, <2>1 DEF CpuTyped, EndFrame
<1>12. FencesTyped' /\ RunningTyped'
  BY DEF TypeInv, FencesTyped, RunningTyped, EndFrame
<1>. QED
  BY <1>1, <1>9, <1>11, <1>12 DEF TypeInv

(* The operation at the head of a queue, and the queue without it.          *)
LEMMA HeadIs ==
  ASSUME PendingTyped, NEW q \in Queues, pending[q] # <<>>
  PROVE  HeadOf(q) \in Queued(q) /\ (Started(q) => PendingTyped')
<1>1. pending[q] \in Seq(Queued(q)) /\ DOMAIN pending = Queues
  BY DEF PendingTyped, AllQueued
<1>2. HeadOf(q) \in Queued(q) /\ Tail(pending[q]) \in Seq(Queued(q))
  <2>. DEFINE s == pending[q]
  <2>1. s \in Seq(Queued(q)) /\ s # <<>>
    BY <1>1
  <2>. HIDE DEF s
  <2>2. Head(s) \in Queued(q) /\ Tail(s) \in Seq(Queued(q))
    BY <2>1
  <2>. QED
    BY <2>2 DEF s, HeadOf
<1>3. ASSUME Started(q) PROVE PendingTyped'
  <2>1. pending' = [pending EXCEPT ![q] = Tail(pending[q])]
    BY <1>3 DEF Started
  <2>2. ASSUME NEW x \in Queues PROVE pending'[x] \in Seq(Queued(x))
    <3>1. pending'[x] = IF x = q THEN Tail(pending[q]) ELSE pending[x]
      BY <1>1, <2>1
    <3>2. pending[x] \in Seq(Queued(x))
      BY DEF PendingTyped, AllQueued
    <3>. QED
      BY <1>2, <3>1, <3>2
  <2>3. DOMAIN pending' = Queues /\ pending' = [x \in Queues |-> pending'[x]]
    BY <1>1, <2>1
  <2>. QED
    BY <2>2, <2>3 DEF PendingTyped, AllQueued
<1>. QED
  BY <1>2, <1>3

(* Every step keeps it.                                                    *)
LEMMA TypeInvStep == ASSUME TypeInv, [Next]_vars PROVE TypeInv'
<1>1. PlanInv'
  BY PlanInvStep DEF TypeInv
<1>2. CASE ExecuteAndSubmit
  BY <1>2, ExecuteTyped
<1>3. CASE EndFrame
  BY <1>3, EndFrameTyped
<1>4. CASE FrameWait
  <2>1. PendingTyped'
    BY <1>4 DEF FrameWait, TypeInv, PendingTyped
  <2>2. CpuTyped'
    BY <1>4 DEF FrameWait, TypeInv, CpuTyped
  <2>3. FencesTyped' /\ RunningTyped'
    BY <1>4 DEF FrameWait, TypeInv, FencesTyped, RunningTyped
  <2>. QED
    BY <1>1, <2>1, <2>2, <2>3 DEF TypeInv
<1>5. ASSUME UNCHANGED cpuVars PROVE CpuTyped'
  BY <1>5 DEF TypeInv, CpuTyped, cpuVars
<1>6. CASE FinishList
  <2>1. PendingTyped' /\ FencesTyped' /\ UNCHANGED cpuVars
    BY <1>6 DEF FinishList, TypeInv, PendingTyped, FencesTyped
  <2>2. RunningTyped'
    BY <1>6 DEF FinishList, TypeInv, RunningTyped
  <2>. QED
    BY <1>1, <1>5, <2>1, <2>2 DEF TypeInv
<1>7. ASSUME NEW q \in Queues, StartList(q) PROVE TypeInv'
  <2>1. HeadOf(q) \in Queued(q) /\ PendingTyped'
    BY <1>7, HeadIs DEF StartList, TypeInv
  <2>2. HeadOf(q) \in {o \in Operations : o.op = "list"}
    BY <1>7, <2>1 DEF StartList, Queued
  <2>3. RunningTyped'
    BY <1>7, <2>2 DEF StartList, TypeInv, RunningTyped
  <2>4. FencesTyped' /\ UNCHANGED cpuVars
    BY <1>7 DEF StartList, TypeInv, FencesTyped
  <2>. QED
    BY <1>1, <1>5, <2>1, <2>3, <2>4 DEF TypeInv
<1>8. ASSUME NEW q \in Queues, SignalFence(q) PROVE TypeInv'
  <2>1. HeadOf(q) \in Queued(q) /\ PendingTyped'
    BY <1>8, HeadIs DEF SignalFence, TypeInv
  <2>. DEFINE o == HeadOf(q)
              v == o.val
  <2>2. v \in Nat /\ (o.fence = "main" => v <= MaxFrames) /\ o.fence \in {"graph", "main"}
    BY <2>1 DEF Queued, Operations
  <2>3. FencesTyped
    BY DEF TypeInv
  <2>4. FencesTyped'
    <3>1. CASE o.fence = "graph"
      <4>1. fence' = v /\ mainFence' = mainFence
        BY <1>8, <3>1 DEF SignalFence
      <4>. QED
        BY <2>2, <2>3, <4>1 DEF FencesTyped
    <3>2. CASE o.fence = "main"
      <4>1. mainFence' = v /\ fence' = fence
        BY <1>8, <3>2 DEF SignalFence
      <4>. HIDE DEF o, v
      <4>2. v \in 0 .. MaxFrames
        BY <2>2, <3>2, FramesAssumption
      <4>. QED
        BY <2>3, <4>1, <4>2 DEF FencesTyped
    <3>. QED
      BY <2>2, <3>1, <3>2
  <2>5. RunningTyped' /\ UNCHANGED cpuVars
    BY <1>8 DEF SignalFence, TypeInv, RunningTyped
  <2>. QED
    BY <1>1, <1>5, <2>1, <2>4, <2>5 DEF TypeInv
<1>9. ASSUME NEW q \in Queues, WaitForFence(q) PROVE TypeInv'
  <2>1. PendingTyped'
    BY <1>9, HeadIs DEF WaitForFence, TypeInv
  <2>2. FencesTyped' /\ RunningTyped' /\ UNCHANGED cpuVars
    BY <1>9 DEF WaitForFence, TypeInv, FencesTyped, RunningTyped
  <2>. QED
    BY <1>1, <1>5, <2>1, <2>2 DEF TypeInv
<1>10. CASE UNCHANGED vars
  <2>1. PendingTyped' /\ FencesTyped' /\ RunningTyped' /\ UNCHANGED cpuVars
    BY <1>10 DEF vars, TypeInv, PendingTyped, FencesTyped, RunningTyped
  <2>. QED
    BY <1>1, <1>5, <2>1 DEF TypeInv
<1>. QED
  BY <1>2, <1>3, <1>4, <1>6, <1>7, <1>8, <1>9, <1>10 DEF Next, Gpu

(* Every variable keeps its type, whatever graph is compiled: the values of *)
(* the levels exist, the queue of the last signal has passes, and neither   *)
(* the frames nor the main fence leave their bounds.                        *)
THEOREM GraphTyped == Spec => []TypeOK
<1>1. Init => TypeInv
  BY TypeInvInit
<1>2. TypeInv /\ [Next]_vars => TypeInv'
  BY TypeInvStep
<1>3. TypeInv => TypeOK
  BY TypeInvTyped
<1>. QED
  BY <1>1, <1>2, <1>3, PTL DEF Spec

-----------------------------------------------------------------------------
(* The order of recording                                                  *)

EntryType == [queue: Queues, level: Nat]
RecordState == [next: [Queues -> Nat], order: Seq(EntryType)]
EntryValue(p, e) == LevelValue(p, e.queue, e.level)

(* What Execute has recorded after some levels: the first levels of either *)
(* queue, each queue's in their order, by values that are not larger than  *)
(* those of the levels to come.                                            *)
Recording(p, st) ==
  /\ st \in RecordState
  /\ \A q \in Queues : 1 <= st.next[q] /\ st.next[q] <= Len(p.levels[q]) + 1
  /\ \A n \in DOMAIN st.order :
       1 <= st.order[n].level /\ st.order[n].level < st.next[st.order[n].queue]
  /\ \A m, n \in DOMAIN st.order : m < n =>
       /\ st.order[m].queue = st.order[n].queue => st.order[m].level < st.order[n].level
       /\ EntryValue(p, st.order[m]) <= EntryValue(p, st.order[n])
  /\ \A n \in DOMAIN st.order : \A q \in Queues : More(p, st, q) =>
       EntryValue(p, st.order[n]) <= LevelValue(p, q, st.next[q])

(* The levels of plan p come by their values.                              *)
LevelsAscend(p) ==
  \A q \in Queues : \A n \in DOMAIN p.levels[q] : \A m \in 1 .. n :
    LevelValue(p, q, m) <= LevelValue(p, q, n)

TakeEntry(st, q) ==
  [next |-> [st.next EXCEPT ![q] = @ + 1],
   order |-> Append(st.order, [queue |-> q, level |-> st.next[q]])]

(* Recording the next level of q, none of the other queue's being smaller. *)
LEMMA TakeEntryIs ==
  ASSUME NEW p, PlanTyped(p), LevelsAscend(p), NEW st, Recording(p, st), NEW q \in Queues,
         More(p, st, q),
         \A x \in Queues : More(p, st, x) =>
           LevelValue(p, q, st.next[q]) <= LevelValue(p, x, st.next[x])
  PROVE  Recording(p, TakeEntry(st, q))
<1>. DEFINE u == TakeEntry(st, q)
            i == st.next[q]
            e == [queue |-> q, level |-> i]
            K == Len(st.order)
            L(x) == Len(p.levels[x])
<1>1. st.next \in [Queues -> Nat] /\ st.order \in Seq(EntryType)
  BY DEF Recording, RecordState
<1>2. u.next = [st.next EXCEPT ![q] = i + 1] /\ u.order = Append(st.order, e)
      /\ u = [next |-> u.next, order |-> u.order]
  BY DEF TakeEntry
<1>3. \A x \in Queues : L(x) \in Nat /\ st.next[x] \in Nat /\ 1 <= st.next[x] /\ st.next[x] <= L(x) + 1
  BY <1>1, LevelsAre DEF Recording
<1>4. i \in Nat /\ 1 <= i /\ i <= L(q)
  BY <1>3 DEF More
<1>. HIDE DEF u
<1>5. e \in EntryType /\ e.queue = q /\ e.level = i
  BY <1>4 DEF EntryType
<1>. HIDE DEF e
<1>6. u \in RecordState
  <2>1. u.next \in [Queues -> Nat]
    BY <1>1, <1>2, <1>4
  <2>2. u.order \in Seq(EntryType)
    BY <1>1, <1>2, <1>5
  <2>. QED
    BY <1>2, <2>1, <2>2 DEF RecordState
<1>7. \A x \in Queues : u.next[x] = IF x = q THEN i + 1 ELSE st.next[x]
  BY <1>1, <1>2
<1>. HIDE DEF L, i
<1>8. \A x \in Queues : u.next[x] \in Nat /\ 1 <= u.next[x] /\ u.next[x] <= L(x) + 1 /\ st.next[x] <= u.next[x]
  <2>1. ASSUME NEW x \in Queues, x = q
        PROVE  u.next[x] \in Nat /\ 1 <= u.next[x] /\ u.next[x] <= L(x) + 1 /\ st.next[x] <= u.next[x]
    <3>1. u.next[x] = i + 1 /\ st.next[x] = i
      BY <1>7, <2>1 DEF i
    <3>2. i \in Nat /\ 1 <= i /\ i <= L(x) /\ L(x) \in Nat
      BY <1>3, <1>4, <2>1
    <3>3. i + 1 \in Nat /\ 1 <= i + 1 /\ i + 1 <= L(x) + 1 /\ i <= i + 1
      BY <3>2
    <3>. QED
      BY <3>1, <3>3
  <2>2. ASSUME NEW x \in Queues, x # q
        PROVE  u.next[x] \in Nat /\ 1 <= u.next[x] /\ u.next[x] <= L(x) + 1 /\ st.next[x] <= u.next[x]
    BY <1>3, <1>7, <2>2
  <2>. QED
    BY <2>1, <2>2
<1>9. /\ K \in Nat /\ DOMAIN st.order = 1 .. K /\ DOMAIN u.order = 1 .. K + 1
      /\ u.order[K + 1] = e /\ \A n \in DOMAIN st.order : u.order[n] = st.order[n] /\ st.order[n] \in EntryType
  BY <1>1, <1>2, <1>5
<1>. HIDE DEF K
<1>10. \A n \in DOMAIN u.order : n \in DOMAIN st.order \/ (n = K + 1 /\ u.order[n] = e)
  BY <1>9
<1>11. ASSUME NEW m \in DOMAIN u.order, NEW n \in DOMAIN u.order, m < n PROVE m \in DOMAIN st.order
  BY <1>9, <1>11
<1>12. ASSUME NEW n \in DOMAIN st.order
       PROVE  /\ 1 <= u.order[n].level /\ u.order[n].level < u.next[u.order[n].queue]
              /\ EntryValue(p, u.order[n]) <= LevelValue(p, q, i)
              /\ u.order[n].queue = q => u.order[n].level < i
  <2>. DEFINE o == st.order[n]
              w == st.next[o.queue]
              v == u.next[o.queue]
              l == o.level
  <2>1. u.order[n] = o /\ o.queue \in Queues /\ l \in Nat
    BY <1>9 DEF EntryType
  <2>2. 1 <= l /\ l < w
    BY DEF Recording
  <2>3. w \in Nat /\ v \in Nat /\ w <= v /\ (o.queue = q => w = i)
    BY <1>3, <1>8, <2>1 DEF i
  <2>4. EntryValue(p, o) <= LevelValue(p, q, i)
    BY DEF Recording, i
  <2>. HIDE DEF o, w, v, l
  <2>5. l < v /\ (o.queue = q => l < i)
    BY <2>1, <2>2, <2>3
  <2>. QED
    BY <2>1, <2>2, <2>4, <2>5 DEF l, v
<1>13. EntryValue(p, e) = LevelValue(p, q, i)
  BY <1>5 DEF EntryValue
<1>14. \A n \in DOMAIN u.order :
         1 <= u.order[n].level /\ u.order[n].level < u.next[u.order[n].queue]
  <2>1. i < u.next[q]
    BY <1>4, <1>7
  <2>. QED
    BY <1>4, <1>5, <1>10, <1>12, <2>1
<1>15. ASSUME NEW m \in DOMAIN u.order, NEW n \in DOMAIN u.order, m < n
       PROVE  /\ u.order[m].queue = u.order[n].queue => u.order[m].level < u.order[n].level
              /\ EntryValue(p, u.order[m]) <= EntryValue(p, u.order[n])
  <2>1. m \in DOMAIN st.order
    BY <1>11, <1>15
  <2>2. CASE n \in DOMAIN st.order
    BY <1>9, <1>15, <2>1, <2>2 DEF Recording
  <2>3. CASE n = K + 1 /\ u.order[n] = e
    BY <1>5, <1>12, <1>13, <2>1, <2>3
  <2>. QED
    BY <1>10, <2>2, <2>3
<1>16. ASSUME NEW x \in Queues, More(p, u, x)
       PROVE  LevelValue(p, q, i) <= LevelValue(p, x, u.next[x])
  <2>1. CASE x = q
    <3>1. u.next[x] = i + 1 /\ i + 1 <= L(q)
      BY <1>7, <1>16, <2>1 DEF More, L
    <3>2. DOMAIN p.levels[q] = 1 .. L(q)
      BY DEF PlanTyped, Cut, L
    <3>3. i + 1 \in DOMAIN p.levels[q] /\ i \in 1 .. i + 1
      BY <1>3, <1>4, <3>1, <3>2
    <3>. QED
      BY <2>1, <3>1, <3>3 DEF LevelsAscend
  <2>2. CASE x # q
    <3>1. u.next[x] = st.next[x]
      BY <1>7, <2>2
    <3>2. More(p, st, x)
      BY <1>16, <3>1 DEF More
    <3>. QED
      BY <3>1, <3>2 DEF i
  <2>. QED
    BY <2>1, <2>2
<1>17. ASSUME NEW n \in DOMAIN u.order, NEW x \in Queues, More(p, u, x)
       PROVE  EntryValue(p, u.order[n]) <= LevelValue(p, x, u.next[x])
  <2>. DEFINE a == EntryValue(p, u.order[n])
              b == LevelValue(p, q, i)
              c == LevelValue(p, x, u.next[x])
  <2>1. a <= b
    <3>1. CASE n \in DOMAIN st.order
      BY <1>12, <3>1
    <3>2. CASE u.order[n] = e
      <4>1. b \in Nat
        BY <1>3, <1>4, LevelIs DEF L
      <4>. QED
        BY <1>13, <3>2, <4>1
    <3>. QED
      BY <1>10, <3>1, <3>2
  <2>2. b <= c
    BY <1>16, <1>17
  <2>3. a \in Nat /\ b \in Nat /\ c \in Nat
    <3>1. ASSUME NEW y \in Queues, NEW k \in Nat, 1 <= k, k <= L(y) PROVE LevelValue(p, y, k) \in Nat
      <4>1. k \in 1 .. L(y)
        BY <1>3, <3>1
      <4>. QED
        BY <4>1, LevelIs DEF L
    <3>2. b \in Nat
      BY <1>4, <3>1
    <3>3. c \in Nat
      BY <1>8, <1>17, <3>1 DEF More, L
    <3>4. a \in Nat
      <4>. DEFINE y == u.order[n].queue
                  k == u.order[n].level
                  z == u.next[y]
      <4>1. y \in Queues /\ k \in Nat
        BY <1>5, <1>9, <1>10 DEF EntryType
      <4>2. 1 <= k /\ k < z /\ z \in Nat /\ z <= L(y) + 1 /\ L(y) \in Nat
        BY <1>3, <1>8, <1>14, <4>1
      <4>. HIDE DEF y, k, z
      <4>3. k <= L(y)
        BY <4>1, <4>2
      <4>4. LevelValue(p, y, k) \in Nat
        BY <3>1, <4>1, <4>2, <4>3
      <4>. QED
        BY <4>4 DEF EntryValue, y, k
    <3>. QED
      BY <3>2, <3>3, <3>4
  <2>. HIDE DEF a, b, c
  <2>4. a <= c
    BY <2>1, <2>2, <2>3
  <2>. QED
    BY <2>4 DEF a, c
<1>18. Recording(p, u)
  BY <1>6, <1>8, <1>14, <1>15, <1>17 DEF Recording, L
<1>. QED
  BY <1>18 DEF u

(* The places of a level's passes are places of its queue's.               *)
LEMMA InLevel ==
  ASSUME NEW p, PlanTyped(p), NEW q \in Queues, NEW a \in DOMAIN p.levels[q],
         NEW j \in LevelStart(p, q, a) .. p.levels[q][a].end
  PROVE  j \in DOMAIN p.sorted[q]
<1>. DEFINE lv == p.levels[q]
            L == Len(lv)
            N == Len(p.sorted[q])
            e == lv[a].end
            start == LevelStart(p, q, a)
<1>1. Cut(lv, N, N) /\ DOMAIN lv = 1 .. L /\ L \in Nat
  BY DEF PlanTyped, Cut
<1>2. N \in Nat /\ DOMAIN p.sorted[q] = 1 .. N
  BY DEF PlanTyped
<1>3. \A m \in DOMAIN lv : lv[m].end \in Nat
  <2>1. \A m \in DOMAIN lv : lv[m] \in LevelType
    BY <1>1 DEF Cut
  <2>. QED
    BY <2>1 DEF LevelType
<1>4. e \in Nat /\ e <= N
  BY <1>1, <1>3 DEF Cut
<1>5. start \in Nat /\ 1 <= start
  <2>1. CASE a = 1
    BY <2>1 DEF LevelStart
  <2>2. CASE a # 1
    <3>1. a - 1 \in DOMAIN lv
      <4>. HIDE DEF L
      <4>. QED
        BY <1>1, <2>2
    <3>. DEFINE c == lv[a - 1].end
    <3>2. c \in Nat /\ start = c + 1
      BY <1>3, <2>2, <3>1 DEF LevelStart
    <3>. HIDE DEF c, start
    <3>. QED
      BY <3>2
  <2>. QED
    BY <2>1, <2>2
<1>. HIDE DEF N, e, start
<1>6. j \in 1 .. N
  BY <1>2, <1>4, <1>5 DEF e, start
<1>. QED
  BY <1>2, <1>6

(* Execute records the smaller of the two next levels.                     *)
LEMMA RecordStepIs ==
  ASSUME NEW p, PlanTyped(p), LevelsAscend(p), NEW st, Recording(p, st)
  PROVE  Recording(p, RecordStep(p, st))
<1>1. "direct" \in Queues /\ "compute" \in Queues /\ \A x \in Queues : x = "direct" \/ x = "compute"
  BY DEF Queues
<1>. DEFINE a == LevelValue(p, "direct", st.next["direct"])
            b == LevelValue(p, "compute", st.next["compute"])
            front == More(p, st, "direct") /\ (More(p, st, "compute") => a < b)
<1>2. RecordStep(p, st) = IF front THEN TakeEntry(st, "direct")
                          ELSE IF More(p, st, "compute") THEN TakeEntry(st, "compute") ELSE st
  <2>1. st.next.direct = st.next["direct"] /\ st.next.compute = st.next["compute"]
    OBVIOUS
  <2>. QED
    BY <2>1 DEF RecordStep, TakeEntry
<1>3. \A x \in Queues : More(p, st, x) => LevelValue(p, x, st.next[x]) \in Nat
  <2>1. ASSUME NEW x \in Queues, More(p, st, x) PROVE st.next[x] \in 1 .. Len(p.levels[x])
    <3>. DEFINE i == st.next[x]
                L == Len(p.levels[x])
    <3>1. i \in Nat /\ 1 <= i /\ i <= L /\ L \in Nat
      BY <2>1, LevelsAre DEF More, Recording, RecordState
    <3>. HIDE DEF i, L
    <3>2. i \in 1 .. L
      BY <3>1
    <3>. QED
      BY <3>2 DEF i, L
  <2>. QED
    BY <2>1, LevelIs
<1>4. CASE front
  <2>1. \A x \in Queues : More(p, st, x) => a <= LevelValue(p, x, st.next[x])
    <3>1. More(p, st, "direct") => a \in Nat /\ a <= a
      BY <1>1, <1>3
    <3>2. More(p, st, "compute") => a \in Nat /\ b \in Nat /\ a < b
      BY <1>1, <1>3, <1>4
    <3>. HIDE DEF a, b
    <3>3. More(p, st, "compute") => a <= b
      BY <3>2
    <3>. QED
      BY <1>1, <3>1, <3>3 DEF a, b
  <2>2. More(p, st, "direct")
    BY <1>4
  <2>. HIDE DEF front
  <2>. QED
    BY <1>1, <1>2, <1>4, <2>1, <2>2, TakeEntryIs
<1>5. CASE ~front /\ More(p, st, "compute")
  <2>1. \A x \in Queues : More(p, st, x) => b <= LevelValue(p, x, st.next[x])
    <3>1. b \in Nat /\ b <= b
      BY <1>1, <1>3, <1>5
    <3>2. More(p, st, "direct") => a \in Nat /\ ~(a < b)
      BY <1>1, <1>3, <1>5
    <3>. HIDE DEF a, b
    <3>3. More(p, st, "direct") => b <= a
      BY <3>1, <3>2
    <3>. QED
      BY <1>1, <3>1, <3>3 DEF a, b
  <2>. HIDE DEF front
  <2>. QED
    BY <1>1, <1>2, <1>5, <2>1, TakeEntryIs
<1>6. CASE ~front /\ ~More(p, st, "compute")
  BY <1>2, <1>6
<1>. QED
  BY <1>4, <1>5, <1>6

StartRecord == [next |-> [q \in Queues |-> 1], order |-> <<>>]
IsRecorded(f, p) ==
  f = [n \in 0 .. LevelCount(p) |-> IF n = 0 THEN StartRecord ELSE RecordStep(p, f[n - 1])]

(* It starts with nothing recorded.                                        *)
LEMMA StartRecordIs ==
  ASSUME NEW p, PlanTyped(p)
  PROVE  Recording(p, StartRecord)
<1>. DEFINE st == StartRecord
<1>1. st.next = [q \in Queues |-> 1] /\ st.order = <<>> /\ st \in RecordState
  BY DEF StartRecord, RecordState
<1>. HIDE DEF st
<1>2. ASSUME NEW q \in Queues PROVE 1 <= st.next[q] /\ st.next[q] <= Len(p.levels[q]) + 1
  <2>. DEFINE L == Len(p.levels[q])
  <2>1. L \in Nat
    BY LevelsAre
  <2>. HIDE DEF L
  <2>2. 1 <= 1 /\ 1 <= L + 1
    BY <2>1
  <2>. QED
    BY <1>1, <2>2 DEF L
<1>3. DOMAIN st.order = {}
  BY <1>1
<1>4. Recording(p, st)
  BY <1>1, <1>2, <1>3 DEF Recording
<1>. QED
  BY <1>4 DEF st

(* The function RecordingOrder is defined by exists.                       *)
LEMMA RecordedExists ==
  ASSUME NEW p, PlanTyped(p), LevelsAscend(p)
  PROVE  \E f : IsRecorded(f, p)
<1>. DEFINE L == LevelCount(p)
            S == {st \in RecordState : Recording(p, st)}
            G == [n \in 1 .. L |-> [st \in S |-> RecordStep(p, st)]]
<1>1. L \in Nat
  BY LevelsAre
<1>2. \A st \in S : RecordStep(p, st) \in S
  BY RecordStepIs DEF Recording
<1>3. StartRecord \in S
  BY StartRecordIs DEF Recording
<1>. HIDE DEF S, L
<1>4. G \in [1 .. L -> [S -> S]]
  BY <1>2
<1>5. \A n \in 1 .. L : \A st \in S : G[n][st] = RecordStep(p, st)
  OBVIOUS
<1>. HIDE DEF G
<1>6. PICK f : IsRecursive(f, L, S, StartRecord, G)
  BY <1>1, <1>3, <1>4, RecursionExists
<1>7. ASSUME NEW n \in 0 .. L
      PROVE  f[n] = IF n = 0 THEN StartRecord ELSE RecordStep(p, f[n - 1])
  <2>1. CASE n = 0
    BY <1>6, <2>1 DEF IsRecursive
  <2>2. CASE n # 0
    <3>1. n \in 1 .. L /\ n - 1 \in 0 .. L
      BY <1>1, <2>2
    <3>2. f[n - 1] \in S /\ f[n] = G[n][f[n - 1]]
      BY <1>6, <3>1 DEF IsRecursive
    <3>3. f[n] = RecordStep(p, f[n - 1])
      BY <1>5, <3>1, <3>2
    <3>. QED
      BY <2>2, <3>3
  <2>. QED
    BY <2>1, <2>2
<1>8. f = [n \in 0 .. L |-> f[n]]
  BY <1>6 DEF IsRecursive
<1>9. f = [n \in 0 .. L |-> IF n = 0 THEN StartRecord ELSE RecordStep(p, f[n - 1])]
  BY <1>7, <1>8
<1>. QED
  BY <1>9 DEF IsRecorded, L

(* What RecordingOrder ends with.                                          *)
LEMMA RecordedIs ==
  ASSUME NEW p, PlanTyped(p), LevelsAscend(p)
  PROVE  \E st : Recording(p, st) /\ RecordingOrder(p) = st.order
<1>. DEFINE f == CHOOSE f : IsRecorded(f, p)
            L == LevelCount(p)
            S == {n \in Nat : n <= L => Recording(p, f[n])}
<1>1. RecordingOrder(p) = f[L].order
  BY DEF RecordingOrder, IsRecorded, StartRecord
<1>2. IsRecorded(f, p)
  BY RecordedExists
<1>3. L \in Nat
  BY LevelsAre
<1>. HIDE DEF f
<1>4. f[0] = StartRecord /\ \A n \in 1 .. L : f[n] = RecordStep(p, f[n - 1])
  <2>1. \A n \in 0 .. L : f[n] = IF n = 0 THEN StartRecord ELSE RecordStep(p, f[n - 1])
    BY <1>2 DEF IsRecorded
  <2>. HIDE DEF L
  <2>2. 0 \in 0 .. L /\ \A n \in 1 .. L : n \in 0 .. L /\ n # 0
    BY <1>3
  <2>. QED
    BY <2>1, <2>2
<1>5. 0 \in S
  BY <1>4, StartRecordIs
<1>6. ASSUME NEW n \in Nat, n \in S PROVE n + 1 \in S
  <2>. SUFFICES ASSUME n + 1 <= L PROVE Recording(p, f[n + 1])
    OBVIOUS
  <2>1. n <= L /\ n + 1 \in 1 .. L /\ (n + 1) - 1 = n
    <3>. HIDE DEF L
    <3>. QED
      BY <1>3
  <2>2. Recording(p, f[n])
    BY <1>6, <2>1
  <2>3. f[n + 1] = RecordStep(p, f[n])
    BY <1>4, <2>1
  <2>. QED
    BY <2>2, <2>3, RecordStepIs
<1>. HIDE DEF S, L
<1>7. \A n \in Nat : n \in S
  BY <1>5, <1>6, CountUp
<1>8. L \in S /\ L <= L
  BY <1>3, <1>7
<1>9. Recording(p, f[L])
  BY <1>8 DEF S
<1>. QED
  BY <1>1, <1>9

(* The passes of an earlier level of a queue come first.                   *)
LEMMA EarlierLevel ==
  ASSUME NEW p, PlanTyped(p), NEW q \in Queues,
         NEW a \in DOMAIN p.levels[q], NEW b \in DOMAIN p.levels[q], a < b,
         NEW j \in LevelStart(p, q, a) .. p.levels[q][a].end,
         NEW k \in LevelStart(p, q, b) .. p.levels[q][b].end
  PROVE  j < k
<1>. DEFINE lv == p.levels[q]
            L == Len(lv)
            e == lv[a].end
            d == lv[b - 1].end
<1>1. /\ Cut(lv, Len(p.sorted[q]), Len(p.sorted[q])) /\ DOMAIN lv = 1 .. L /\ L \in Nat
  BY DEF PlanTyped, Cut
<1>2. \A m \in DOMAIN lv : lv[m].end \in Nat
  <2>1. \A m \in DOMAIN lv : lv[m] \in LevelType
    BY <1>1 DEF Cut
  <2>. QED
    BY <2>1 DEF LevelType
<1>3. b # 1 /\ b - 1 \in DOMAIN lv /\ (a = b - 1 \/ a < b - 1)
  <2>1. a \in 1 .. L /\ b \in 1 .. L
    BY <1>1
  <2>. HIDE DEF L
  <2>2. b # 1 /\ b - 1 \in 1 .. L /\ (a = b - 1 \/ a < b - 1)
    BY <1>1, <2>1
  <2>. QED
    BY <1>1, <2>2
<1>4. e \in Nat /\ d \in Nat /\ e <= d
  <2>1. e \in Nat /\ d \in Nat
    BY <1>2, <1>3
  <2>2. a < b - 1 => e < d
    BY <1>1, <1>3 DEF Cut
  <2>. HIDE DEF e, d
  <2>3. a < b - 1 => e <= d
    BY <2>1, <2>2
  <2>4. a = b - 1 => e <= d
    BY <2>1 DEF e, d
  <2>. QED
    BY <1>3, <2>1, <2>3, <2>4
<1>5. LevelStart(p, q, b) = d + 1
  BY <1>3 DEF LevelStart
<1>6. j \in Int /\ k \in Int /\ j <= e /\ d + 1 <= k
  <2>1. j <= e /\ j \in Int
    OBVIOUS
  <2>2. k \in d + 1 .. p.levels[q][b].end
    BY <1>5
  <2>. HIDE DEF d
  <2>3. k \in Int /\ d + 1 <= k
    BY <2>2
  <2>. QED
    BY <2>1, <2>3
<1>. HIDE DEF e, d
<1>. QED
  BY <1>4, <1>6

(* RecordedAfterInputs: when the passes of a level have one value and the   *)
(* levels come by their values, the order in which Execute records them on  *)
(* a device with a single queue puts every level behind those that make an  *)
(* input of one of its passes.                                              *)
LEMMA OrderedIsRecorded ==
  ASSUME PlanInv, ScheduleSound, ~dirty, LevelsByValue
  PROVE  RecordedAfterInputs
<1>. DEFINE order == RecordingOrder(plan)
            has(n, q, i) == order[n].queue = q /\ i \in LevelPasses(plan, q, order[n].level)
<1>1. PlanTyped(plan)
  BY PlanIsTyped DEF PlanInv
<1>2. LevelsAscend(plan)
  BY DEF LevelsByValue, LevelsAscend
<1>3. PICK st : Recording(plan, st) /\ order = st.order
  BY <1>1, <1>2, RecordedIs
<1>. HIDE DEF order
<1>4. SUFFICES ASSUME NEW d \in plan.deps, NEW m \in DOMAIN order, NEW n \in DOMAIN order,
                      has(n, d.queue, d.pass), has(m, d.on, d.from), ~(m <= n)
               PROVE  FALSE
  BY DEF RecordedAfterInputs, order
<1>5. ASSUME NEW x \in DOMAIN order
      PROVE  /\ order[x].queue \in Queues /\ order[x].level \in DOMAIN plan.levels[order[x].queue]
             /\ EntryValue(plan, order[x]) \in Nat /\ x \in Nat
  <2>. DEFINE q == order[x].queue
              l == order[x].level
              w == st.next[q]
              L == Len(plan.levels[q])
  <2>1. order \in Seq(EntryType) /\ st.next \in [Queues -> Nat]
    BY <1>3 DEF Recording, RecordState
  <2>2. order[x] \in EntryType /\ x \in Nat
    BY <2>1
  <2>3. q \in Queues /\ l \in Nat
    BY <2>2 DEF EntryType
  <2>4. 1 <= l /\ l < w /\ w \in Nat /\ w <= L + 1 /\ L \in Nat /\ DOMAIN plan.levels[q] = 1 .. L
    <3>1. 1 <= l /\ l < w /\ w <= L + 1
      BY <1>3, <2>3 DEF Recording
    <3>2. w \in Nat /\ L \in Nat
      BY <1>1, <2>1, <2>3, LevelsAre
    <3>3. DOMAIN plan.levels[q] = 1 .. L
      BY <1>1, <2>3 DEF PlanTyped, Cut
    <3>. QED
      BY <3>1, <3>2, <3>3
  <2>5. l \in 1 .. L
    <3>. HIDE DEF q, l, w, L
    <3>. QED
      BY <2>3, <2>4
  <2>. QED
    BY <1>1, <2>2, <2>3, <2>4, <2>5, LevelIs DEF EntryValue
<1>. DEFINE q == order[n].queue
            r == order[m].queue
            a == order[n].level
            b == order[m].level
<1>6. /\ q = d.queue /\ r = d.on /\ q \in Queues /\ r \in Queues
      /\ a \in DOMAIN plan.levels[q] /\ b \in DOMAIN plan.levels[r] /\ n < m
      /\ EntryValue(plan, order[n]) <= EntryValue(plan, order[m]) /\ (q = r => a < b)
  <2>1. m \in Nat /\ n \in Nat
    BY <1>5
  <2>2. n < m
    BY <1>4, <2>1
  <2>. QED
    BY <1>3, <1>4, <1>5, <2>2 DEF Recording
<1>7. PICK j \in LevelStart(plan, q, a) .. plan.levels[q][a].end : plan.sorted[q][j].pass = d.pass
  BY <1>4, <1>6 DEF LevelPasses
<1>8. PICK k \in LevelStart(plan, r, b) .. plan.levels[r][b].end : plan.sorted[r][k].pass = d.from
  BY <1>4, <1>6 DEF LevelPasses
<1>9. j \in DOMAIN plan.sorted[q] /\ k \in DOMAIN plan.sorted[r]
  BY <1>1, <1>6, <1>7, <1>8, InLevel
<1>10. IF r = q THEN k < j ELSE plan.sorted[r][k].val < plan.sorted[q][j].val
  BY <1>6, <1>7, <1>8, <1>9 DEF ScheduleSound
<1>11. CASE r = q
  <2>1. j < k
    BY <1>1, <1>6, <1>7, <1>8, <1>11, EarlierLevel
  <2>2. k < j /\ j \in Int /\ k \in Int
    BY <1>7, <1>8, <1>10, <1>11
  <2>. QED
    BY <2>1, <2>2
<1>12. CASE r # q
  <2>1. plan.sorted[q][j].val = EntryValue(plan, order[n])
    BY <1>6, <1>7 DEF LevelsByValue, EntryValue
  <2>2. plan.sorted[r][k].val = EntryValue(plan, order[m])
    BY <1>6, <1>8 DEF LevelsByValue, EntryValue
  <2>. DEFINE v == EntryValue(plan, order[n])
              w == EntryValue(plan, order[m])
  <2>3. w < v
    BY <1>10, <1>12, <2>1, <2>2
  <2>4. v <= w /\ v \in Nat /\ w \in Nat
    BY <1>5, <1>6
  <2>. HIDE DEF v, w
  <2>. QED
    BY <2>3, <2>4
<1>. QED
  BY <1>11, <1>12

(* RecordedAfterInputs, as above, in every state.                           *)
THEOREM RecordsAfterInputs ==
  Spec /\ [](~dirty => LevelsByValue) => []RecordedAfterInputs
<1>1. Init => PlanInv
  BY PlanInvInit
<1>2. PlanInv /\ [Next]_vars => PlanInv'
  BY PlanInvStep
<1>3. PlanInv /\ (~dirty => LevelsByValue) => RecordedAfterInputs
  <2>1. CASE dirty
    BY <2>1 DEF RecordedAfterInputs
  <2>. QED
    BY <2>1, PlanInvSound, OrderedIsRecorded
<1>. QED
  BY <1>1, <1>2, <1>3, PTL DEF Spec
=============================================================================
