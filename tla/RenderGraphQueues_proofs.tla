----------------------- MODULE RenderGraphQueues_proofs -----------------------
(***************************************************************************)
(* The two queues of RenderGraph while they run what SubmitToQueue issued: *)
(* on a graph whose submission is ordered, the fence only increases, the   *)
(* inputs of a running list are finished, and neither the graph nor the    *)
(* compute allocators are given up while a list still needs them.          *)
(*                                                                         *)
(* What is ordered in one submission stays so in the queues, where the     *)
(* submissions of several frames stand one behind the other and operations *)
(* leave at the front: Behind says that of two places.                     *)
(***************************************************************************)
EXTENDS RenderGraph_proofs

GraphSignal(o) == o.op = "signal" /\ o.fence = "graph"
MainSignal(o) == o.op = "signal" /\ o.fence = "main"
GraphList(o) == o.op = "list" /\ (o.level > 0 \/ o.queue = "compute")

(* The operation at place i of queue q is over when that at place j of     *)
(* queue r starts: r waits for a signal behind it.                         *)
Behind(p, q, i, r, j) ==
  \E k \in DOMAIN p[q], l \in DOMAIN p[r] :
    /\ i <= k /\ l <= j
    /\ GraphSignal(p[q][k]) /\ p[r][l].op = "wait"
    /\ p[q][k].val <= p[r][l].val

-----------------------------------------------------------------------------
(* Queues that lose their first operation, or get more at their end        *)

(* How far the places of queue x move when queue q is read.                *)
Moved(q, x) == IF x = q THEN 1 ELSE 0

(* Places and what stands at them are as the types say.                    *)
LEMMA PlaceIs ==
  ASSUME NEW p, AllQueued(p), NEW q \in Queues
  PROVE  /\ Len(p[q]) \in Nat /\ DOMAIN p[q] = 1 .. Len(p[q])
         /\ \A i \in DOMAIN p[q] :
              /\ i \in Nat /\ 1 <= i /\ i <= Len(p[q])
              /\ p[q][i] \in Operations /\ p[q][i].queue = q
              /\ p[q][i].val \in Nat /\ p[q][i].frame \in Nat
              /\ p[q][i].op \in {"list", "signal", "wait"}
<1>1. p[q] \in Seq(Queued(q))
  BY DEF AllQueued
<1>2. Len(p[q]) \in Nat /\ DOMAIN p[q] = 1 .. Len(p[q])
  BY <1>1
<1>3. ASSUME NEW i \in DOMAIN p[q]
      PROVE  /\ p[q][i] \in Operations /\ p[q][i].queue = q
             /\ p[q][i].val \in Nat /\ p[q][i].frame \in Nat
             /\ p[q][i].op \in {"list", "signal", "wait"}
  <2>1. p[q][i] \in Queued(q)
    BY <1>1
  <2>2. p[q][i] \in Operations /\ p[q][i].queue = q
    BY <2>1 DEF Queued
  <2>3. p[q][i].frame \in 1 .. MaxFrames
    BY <2>2 DEF Operations
  <2>4. p[q][i].frame \in Nat
    <3>. DEFINE f == p[q][i].frame
    <3>1. f \in 1 .. MaxFrames
      BY <2>3
    <3>. HIDE DEF f
    <3>2. f \in Nat
      BY <3>1, FramesAssumption
    <3>. QED
      BY <3>2 DEF f
  <2>. QED
    BY <2>2, <2>4 DEF Operations
<1>4. \A i \in DOMAIN p[q] : i \in Nat /\ 1 <= i /\ i <= Len(p[q])
  <2>. DEFINE L == Len(p[q])
  <2>1. L \in Nat /\ DOMAIN p[q] = 1 .. L
    BY <1>2
  <2>. HIDE DEF L
  <2>2. \A i \in DOMAIN p[q] : i \in Nat /\ 1 <= i /\ i <= L
    BY <2>1
  <2>. QED
    BY <2>2 DEF L
<1>. QED
  BY <1>2, <1>3, <1>4

(* The queues p2 are p without the first operation of q.                   *)
Popped(p, p2, q) ==
  /\ AllQueued(p) /\ AllQueued(p2) /\ 1 \in DOMAIN p[q]
  /\ \A x \in Queues :
       /\ Len(p2[x]) = Len(p[x]) - Moved(q, x)
       /\ \A i \in DOMAIN p2[x] :
            i + Moved(q, x) \in DOMAIN p[x] /\ p2[x][i] = p[x][i + Moved(q, x)]

(* Reading the first operation of q is that.                               *)
LEMMA PoppedIs ==
  ASSUME NEW p, AllQueued(p), NEW q \in Queues, p[q] # <<>>,
         NEW p2, p2 = [p EXCEPT ![q] = Tail(p[q])]
  PROVE  Popped(p, p2, q)
<1>1. DOMAIN p = Queues /\ \A x \in Queues : p[x] \in Seq(Queued(x))
  BY DEF AllQueued
<1>2. DOMAIN p2 = Queues /\ \A x \in Queues : p2[x] = IF x = q THEN Tail(p[q]) ELSE p[x]
  BY <1>1
<1>3. ASSUME NEW s \in Seq(Queued(q)), s # <<>>
      PROVE  /\ Tail(s) \in Seq(Queued(q)) /\ Len(Tail(s)) = Len(s) - 1
             /\ \A i \in DOMAIN Tail(s) : i + 1 \in DOMAIN s /\ Tail(s)[i] = s[i + 1]
  BY <1>3
<1>4. p[q] \in Seq(Queued(q)) /\ 1 \in DOMAIN p[q]
  <2>1. \A s \in Seq(Queued(q)) : s # <<>> => 1 \in DOMAIN s
    OBVIOUS
  <2>. QED
    BY <1>1, <2>1
<1>5. /\ Tail(p[q]) \in Seq(Queued(q)) /\ Len(Tail(p[q])) = Len(p[q]) - 1
      /\ \A i \in DOMAIN Tail(p[q]) : i + 1 \in DOMAIN p[q] /\ Tail(p[q])[i] = p[q][i + 1]
  BY <1>3, <1>4
<1>6. AllQueued(p2)
  <2>1. \A x \in Queues : p2[x] \in Seq(Queued(x))
    BY <1>1, <1>2, <1>5
  <2>. QED
    BY <1>2, <2>1 DEF AllQueued
<1>7. ASSUME NEW x \in Queues
      PROVE  /\ Len(p2[x]) = Len(p[x]) - Moved(q, x)
             /\ \A i \in DOMAIN p2[x] :
                  i + Moved(q, x) \in DOMAIN p[x] /\ p2[x][i] = p[x][i + Moved(q, x)]
  <2>1. CASE x = q
    <3>1. p2[x] = Tail(p[q]) /\ Moved(q, x) = 1
      BY <1>2, <2>1 DEF Moved
    <3>. QED
      BY <1>5, <2>1, <3>1
  <2>2. CASE x # q
    <3>1. p2[x] = p[x] /\ Moved(q, x) = 0
      BY <1>2, <2>2 DEF Moved
    <3>2. Len(p[x]) \in Nat /\ \A i \in DOMAIN p[x] : i + 0 = i
      <4>1. Len(p[x]) \in Nat /\ \A i \in DOMAIN p[x] : i \in Nat
        BY PlaceIs
      <4>. QED
        BY <4>1
    <3>3. Len(p[x]) - 0 = Len(p[x])
      BY <3>2
    <3>. QED
      BY <3>1, <3>2, <3>3
  <2>. QED
    BY <2>1, <2>2
<1>. QED
  BY <1>4, <1>6, <1>7 DEF Popped

(* The first operation read: what was over before stays over, if no wait   *)
(* that is read is still waited at.  Place i must not be the one read.     *)
LEMMA BehindPopped ==
  ASSUME NEW p, NEW p2, NEW q \in Queues, Popped(p, p2, q),
         NEW x \in Queues, NEW y \in Queues, NEW i \in Nat \ {0}, NEW j \in Nat,
         Behind(p, x, i + Moved(q, x), y, j + Moved(q, y)),
         p[q][1].op = "wait" =>
           \A k \in DOMAIN p[x] : GraphSignal(p[x][k]) => p[q][1].val < p[x][k].val
  PROVE  Behind(p2, x, i, y, j)
<1>. DEFINE dx == Moved(q, x)
            dy == Moved(q, y)
<1>1. dx \in {0, 1} /\ dy \in {0, 1} /\ (dy = 1 => y = q)
  BY DEF Moved
<1>2. PICK k \in DOMAIN p[x], l \in DOMAIN p[y] :
        /\ i + dx <= k /\ l <= j + dy
        /\ GraphSignal(p[x][k]) /\ p[y][l].op = "wait"
        /\ p[x][k].val <= p[y][l].val
  BY DEF Behind
<1>. HIDE DEF dx, dy
<1>3. /\ k \in Nat /\ 1 <= k /\ k <= Len(p[x]) /\ p[x][k].val \in Nat
      /\ l \in Nat /\ 1 <= l /\ l <= Len(p[y]) /\ p[y][l].val \in Nat
      /\ Len(p[x]) \in Nat /\ Len(p[y]) \in Nat
  BY PlaceIs DEF Popped
<1>4. ~(dy = 1 /\ l = 1)
  <2>1. SUFFICES ASSUME dy = 1, l = 1 PROVE FALSE
    OBVIOUS
  <2>2. y = q /\ p[q][1].op = "wait" /\ p[x][k].val <= p[q][1].val /\ p[q][1].val \in Nat
    BY <1>1, <1>2, <1>3, <2>1
  <2>3. p[q][1].val < p[x][k].val
    BY <1>2, <2>2
  <2>. DEFINE a == p[q][1].val
              b == p[x][k].val
  <2>4. a \in Nat /\ b \in Nat /\ b <= a /\ a < b
    BY <1>3, <2>2, <2>3
  <2>. HIDE DEF a, b
  <2>. QED
    BY <2>4
<1>5. /\ Len(p2[x]) = Len(p[x]) - dx /\ Len(p2[y]) = Len(p[y]) - dy
      /\ DOMAIN p2[x] = 1 .. Len(p2[x]) /\ DOMAIN p2[y] = 1 .. Len(p2[y])
      /\ \A m \in DOMAIN p2[x] : p2[x][m] = p[x][m + dx]
      /\ \A m \in DOMAIN p2[y] : p2[y][m] = p[y][m + dy]
  BY PlaceIs, Zenon DEF Popped, dx, dy
<1>6. /\ k - dx \in DOMAIN p2[x] /\ l - dy \in DOMAIN p2[y]
      /\ i <= k - dx /\ l - dy <= j
      /\ (k - dx) + dx = k /\ (l - dy) + dy = l
  <2>. DEFINE Lx == Len(p[x])
              Ly == Len(p[y])
  <2>1. DOMAIN p2[x] = 1 .. Lx - dx /\ DOMAIN p2[y] = 1 .. Ly - dy
    BY <1>5
  <2>2. Lx \in Nat /\ Ly \in Nat /\ k <= Lx /\ l <= Ly
    BY <1>3
  <2>. HIDE DEF Lx, Ly
  <2>3. k \in Nat /\ l \in Nat /\ 1 <= l /\ i + dx <= k /\ l <= j + dy
    BY <1>2, <1>3
  <2>. QED
    BY <1>1, <1>4, <2>1, <2>2, <2>3
<1>7. p2[x][k - dx] = p[x][k] /\ p2[y][l - dy] = p[y][l]
  BY <1>5, <1>6
<1>. QED
  BY <1>2, <1>6, <1>7 DEF Behind

(* Nothing is over for the sake of an operation behind which no wait is    *)
(* left, such as a first operation that is no wait.                        *)
LEMMA NotBehindFirst ==
  ASSUME NEW p, AllQueued(p), NEW x \in Queues, NEW y \in Queues, NEW i \in Nat,
         p[y] # <<>> => p[y][1].op # "wait"
  PROVE  ~Behind(p, x, i, y, 1)
<1>1. SUFFICES ASSUME NEW k \in DOMAIN p[x], NEW l \in DOMAIN p[y],
                      l <= 1, p[y][l].op = "wait"
               PROVE  FALSE
  BY DEF Behind
<1>2. l \in Nat /\ 1 <= l
  BY PlaceIs
<1>3. l = 1
  BY <1>1, <1>2
<1>4. p[y] # <<>>
  BY <1>1
<1>. QED
  BY <1>1, <1>3, <1>4

(* An operation that is no signal is as far behind as the next one.        *)
LEMMA BehindNext ==
  ASSUME NEW p, AllQueued(p), NEW x \in Queues, NEW y \in Queues, NEW j \in Nat,
         Behind(p, x, 1, y, j), p[x] # <<>> => ~GraphSignal(p[x][1])
  PROVE  Behind(p, x, 2, y, j)
<1>1. PICK k \in DOMAIN p[x], l \in DOMAIN p[y] :
        /\ 1 <= k /\ l <= j
        /\ GraphSignal(p[x][k]) /\ p[y][l].op = "wait"
        /\ p[x][k].val <= p[y][l].val
  BY DEF Behind
<1>2. k \in Nat
  BY PlaceIs
<1>3. k # 1
  BY <1>1
<1>4. 2 <= k
  BY <1>1, <1>2, <1>3
<1>. QED
  BY <1>1, <1>4 DEF Behind

(* Operations put at the end of the queues leave what is there.            *)
Extends(p, p2) ==
  \A x \in Queues : /\ DOMAIN p[x] \subseteq DOMAIN p2[x]
                    /\ \A i \in DOMAIN p[x] : p2[x][i] = p[x][i]

(* ... and what was over stays over, for later operations as well.         *)
LEMMA BehindExtended ==
  ASSUME NEW p, NEW p2, AllQueued(p), AllQueued(p2), Extends(p, p2),
         NEW x \in Queues, NEW y \in Queues, NEW i \in Nat, NEW j \in Nat, NEW m \in Nat,
         Behind(p, x, i, y, j), j <= m
  PROVE  Behind(p2, x, i, y, m)
<1>1. PICK k \in DOMAIN p[x], l \in DOMAIN p[y] :
        /\ i <= k /\ l <= j
        /\ GraphSignal(p[x][k]) /\ p[y][l].op = "wait"
        /\ p[x][k].val <= p[y][l].val
  BY DEF Behind
<1>2. l \in Nat
  BY PlaceIs
<1>3. l <= m
  BY <1>1, <1>2
<1>4. /\ k \in DOMAIN p2[x] /\ p2[x][k] = p[x][k]
      /\ l \in DOMAIN p2[y] /\ p2[y][l] = p[y][l]
  BY DEF Extends
<1>. QED
  BY <1>1, <1>3, <1>4 DEF Behind

(* Where an operation that is not read goes.                               *)
LEMMA PoppedPlace ==
  ASSUME NEW p, NEW p2, NEW q \in Queues, Popped(p, p2, q),
         NEW x \in Queues, NEW i \in DOMAIN p[x], ~(x = q /\ i = 1)
  PROVE  /\ i - Moved(q, x) \in DOMAIN p2[x]
         /\ p2[x][i - Moved(q, x)] = p[x][i]
<1>. DEFINE d == Moved(q, x)
            L == Len(p[x])
<1>1. d \in {0, 1} /\ (d = 1 => x = q)
  BY DEF Moved
<1>2. L \in Nat /\ i \in 1 .. L
  BY PlaceIs DEF Popped
<1>3. DOMAIN p2[x] = 1 .. L - d
  <2>1. Len(p2[x]) = L - d /\ AllQueued(p2)
    BY DEF Popped
  <2>. HIDE DEF L, d
  <2>2. DOMAIN p2[x] = 1 .. Len(p2[x])
    BY <2>1, PlaceIs
  <2>. QED
    BY <2>1, <2>2
<1>4. \A m \in DOMAIN p2[x] : p2[x][m] = p[x][m + d]
  BY DEF Popped
<1>5. ~(d = 1 /\ i = 1)
  BY <1>1
<1>. HIDE DEF d, L
<1>6. i - d \in DOMAIN p2[x] /\ (i - d) + d = i
  BY <1>1, <1>2, <1>3, <1>5
<1>7. p2[x][i - d] = p[x][i]
  BY <1>4, <1>6
<1>. QED
  BY <1>6, <1>7 DEF d

-----------------------------------------------------------------------------
(* The values of the graph's fence                                         *)

(* The graph's signals that wait in queue q.                               *)
SignalsIn(p, q) == {i \in DOMAIN p[q] : GraphSignal(p[q][i])}

(* They are above the fence, no larger than what is promised, in the order *)
(* of their values, and the last queue has the one of the value promised.  *)
Ahead(p, f, m) ==
  \A q \in Queues : \A i \in SignalsIn(p, q) : f < p[q][i].val /\ p[q][i].val <= m
ByValue(p) ==
  \A q, r \in Queues : \A i \in SignalsIn(p, q), j \in SignalsIn(p, r) :
    p[q][i].val <= p[r][j].val => IF q = r THEN i <= j ELSE Behind(p, q, i, r, j)
Promised(p, m, last) ==
  (\E q \in Queues : SignalsIn(p, q) # {}) => \E i \in SignalsIn(p, last) : p[last][i].val = m

(* A signal at the head has the least value.                               *)
LEMMA HeadIsLeast ==
  ASSUME NEW p, AllQueued(p), ByValue(p), NEW q \in Queues, 1 \in SignalsIn(p, q),
         NEW x \in Queues, NEW i \in SignalsIn(p, x), ~(x = q /\ i = 1)
  PROVE  p[q][1].val < p[x][i].val
<1>. DEFINE a == p[x][i].val
            b == p[q][1].val
<1>1. i \in DOMAIN p[x] /\ 1 \in DOMAIN p[q] /\ GraphSignal(p[q][1])
  BY DEF SignalsIn
<1>2. a \in Nat /\ b \in Nat /\ i \in Nat /\ 1 <= i
  BY <1>1, PlaceIs
<1>3. ~(a <= b)
  <2>1. SUFFICES ASSUME a <= b PROVE FALSE
    OBVIOUS
  <2>2. CASE x = q
    <3>1. i <= 1
      BY <2>1, <2>2 DEF ByValue
    <3>. QED
      BY <1>2, <2>2, <3>1
  <2>3. CASE x # q
    <3>1. Behind(p, x, i, q, 1)
      BY <2>1, <2>3 DEF ByValue
    <3>. QED
      BY <1>1, <1>2, <3>1, NotBehindFirst DEF GraphSignal
  <2>. QED
    BY <2>2, <2>3
<1>. HIDE DEF a, b
<1>4. b < a
  BY <1>2, <1>3
<1>. QED
  BY <1>4 DEF a, b

(* Reading the first operation keeps all that, with the value it sets.     *)
LEMMA ValuesPopped ==
  ASSUME NEW p, NEW p2, NEW q \in Queues, Popped(p, p2, q), NEW f \in Nat, NEW m \in Nat,
         Ahead(p, f, m), ByValue(p), NEW last \in Queues, NEW f2 \in Nat,
         f2 = IF GraphSignal(p[q][1]) THEN p[q][1].val ELSE f,
         p[q][1].op = "wait" => p[q][1].val <= f
  PROVE  /\ Ahead(p2, f2, m) /\ ByValue(p2)
         /\ Promised(p, m, last) => Promised(p2, m, last)
         /\ (\A x \in Queues : SignalsIn(p, x) = {}) => \A x \in Queues : SignalsIn(p2, x) = {}
<1>1. AllQueued(p) /\ AllQueued(p2) /\ 1 \in DOMAIN p[q]
  BY DEF Popped
<1>2. ASSUME NEW x \in Queues, NEW i \in SignalsIn(p2, x)
      PROVE  /\ i + Moved(q, x) \in SignalsIn(p, x) /\ p2[x][i] = p[x][i + Moved(q, x)]
             /\ ~(x = q /\ i + Moved(q, x) = 1)
             /\ i \in Nat \ {0}
  <2>1. i \in DOMAIN p2[x] /\ GraphSignal(p2[x][i])
    BY DEF SignalsIn
  <2>2. i + Moved(q, x) \in DOMAIN p[x] /\ p2[x][i] = p[x][i + Moved(q, x)]
    BY <2>1 DEF Popped
  <2>3. i \in Nat /\ 1 <= i
    BY <1>1, <2>1, PlaceIs
  <2>4. ~(x = q /\ i + Moved(q, x) = 1)
    BY <2>3 DEF Moved
  <2>. QED
    BY <2>1, <2>2, <2>3, <2>4 DEF SignalsIn
<1>3. ASSUME NEW x \in Queues, NEW i \in SignalsIn(p2, x)
      PROVE  f2 < p2[x][i].val /\ p2[x][i].val <= m
  <2>. DEFINE k == i + Moved(q, x)
  <2>1. k \in SignalsIn(p, x) /\ p2[x][i] = p[x][k] /\ ~(x = q /\ k = 1)
    BY <1>2
  <2>. HIDE DEF k
  <2>2. f < p[x][k].val /\ p[x][k].val <= m
    BY <2>1 DEF Ahead
  <2>3. CASE GraphSignal(p[q][1])
    <3>1. p[q][1].val < p[x][k].val
      BY <1>1, <2>1, <2>3, HeadIsLeast DEF SignalsIn
    <3>. QED
      BY <2>1, <2>2, <2>3, <3>1
  <2>4. CASE ~GraphSignal(p[q][1])
    BY <2>1, <2>2, <2>4
  <2>. QED
    BY <2>3, <2>4
<1>4. ASSUME p[q][1].op = "wait", NEW x \in Queues, NEW k \in DOMAIN p[x], GraphSignal(p[x][k])
      PROVE  p[q][1].val < p[x][k].val
  <2>. DEFINE a == p[q][1].val
              b == p[x][k].val
  <2>1. a \in Nat /\ b \in Nat
    BY <1>1, PlaceIs
  <2>2. a <= f
    BY <1>4
  <2>3. f < b
    BY <1>4 DEF Ahead, SignalsIn
  <2>. HIDE DEF a, b
  <2>4. a < b
    BY <2>1, <2>2, <2>3
  <2>. QED
    BY <2>4 DEF a, b
<1>5. ASSUME NEW x \in Queues, NEW y \in Queues,
             NEW i \in SignalsIn(p2, x), NEW j \in SignalsIn(p2, y), p2[x][i].val <= p2[y][j].val
      PROVE  IF x = y THEN i <= j ELSE Behind(p2, x, i, y, j)
  <2>. DEFINE k == i + Moved(q, x)
              l == j + Moved(q, y)
  <2>1. /\ k \in SignalsIn(p, x) /\ p2[x][i] = p[x][k] /\ i \in Nat \ {0}
        /\ l \in SignalsIn(p, y) /\ p2[y][j] = p[y][l] /\ j \in Nat \ {0}
    BY <1>2
  <2>2. IF x = y THEN k <= l ELSE Behind(p, x, k, y, l)
    BY <1>5, <2>1, Zenon DEF ByValue
  <2>3. CASE x = y
    <3>1. i + Moved(q, x) <= j + Moved(q, x) /\ Moved(q, x) \in {0, 1}
      BY <2>2, <2>3 DEF Moved
    <3>2. i <= j
      BY <2>1, <3>1
    <3>. QED
      BY <2>3, <3>2
  <2>4. CASE x # y
    <3>1. Behind(p, x, i + Moved(q, x), y, j + Moved(q, y))
      BY <2>2, <2>4
    <3>2. p[q][1].op = "wait" =>
            \A n \in DOMAIN p[x] : GraphSignal(p[x][n]) => p[q][1].val < p[x][n].val
      BY <1>4
    <3>3. Behind(p2, x, i, y, j)
      BY <2>1, <3>1, <3>2, BehindPopped
    <3>. QED
      BY <2>4, <3>3
  <2>. QED
    BY <2>3, <2>4
<1>6. ASSUME Promised(p, m, last) PROVE Promised(p2, m, last)
  <2>1. SUFFICES ASSUME NEW x \in Queues, NEW i \in SignalsIn(p2, x)
                 PROVE  \E e \in SignalsIn(p2, last) : p2[last][e].val = m
    BY DEF Promised
  <2>. DEFINE k == i + Moved(q, x)
  <2>2. k \in SignalsIn(p, x) /\ p2[x][i] = p[x][k] /\ ~(x = q /\ k = 1)
    BY <1>2
  <2>. HIDE DEF k
  <2>3. PICK e \in SignalsIn(p, last) : p[last][e].val = m
    BY <1>6, <2>2 DEF Promised
  <2>4. ~(last = q /\ e = 1)
    <3>1. SUFFICES ASSUME last = q, e = 1 PROVE FALSE
      OBVIOUS
    <3>2. m < p[x][k].val
      BY <1>1, <2>2, <2>3, <3>1, HeadIsLeast
    <3>3. p[x][k].val <= m
      BY <2>2 DEF Ahead
    <3>. DEFINE v == p[x][k].val
    <3>4. v \in Nat /\ m < v /\ v <= m
      BY <1>1, <2>2, <3>2, <3>3, PlaceIs DEF SignalsIn
    <3>. HIDE DEF v
    <3>. QED
      BY <3>4
  <2>5. /\ e - Moved(q, last) \in DOMAIN p2[last]
        /\ p2[last][e - Moved(q, last)] = p[last][e]
    BY <2>3, <2>4, PoppedPlace DEF SignalsIn
  <2>6. e - Moved(q, last) \in SignalsIn(p2, last)
    BY <2>3, <2>5 DEF SignalsIn
  <2>. QED
    BY <2>3, <2>5, <2>6
<1>7. ASSUME \A x \in Queues : SignalsIn(p, x) = {}, NEW x \in Queues
      PROVE  SignalsIn(p2, x) = {}
  BY <1>2, <1>7
<1>8. Ahead(p2, f2, m)
  BY <1>3 DEF Ahead
<1>9. ByValue(p2)
  BY <1>5, Zenon DEF ByValue
<1>. QED
  BY <1>6, <1>7, <1>8, <1>9

(* The queues p2 are p with the operations s behind them, as SubmitToQueue *)
(* issues them in frame fr with m the value promised so far.               *)
IssuedOp(o, m, fr, sl) ==
  [op |-> o.op, queue |-> o.queue, level |-> o.level, val |-> o.val + m,
   fence |-> "graph", frame |-> fr, slot |-> sl]
Issued(p, p2, s, m, fr, sl) ==
  /\ AllQueued(p) /\ AllQueued(p2)
  /\ \A x \in Queues : s[x] \in Seq(OpsOf(x)) /\ Len(p2[x]) = Len(p[x]) + Len(s[x])
  /\ \A x \in Queues : \A i \in DOMAIN p[x] : p2[x][i] = p[x][i]
  /\ \A x \in Queues : \A n \in DOMAIN s[x] : p2[x][Len(p[x]) + n] = IssuedOp(s[x][n], m, fr, sl)

(* An operation that is issued.                                            *)
LEMMA OpOfIs ==
  ASSUME NEW x \in Queues, NEW s \in Seq(OpsOf(x))
  PROVE  /\ Len(s) \in Nat /\ DOMAIN s = 1 .. Len(s)
         /\ \A n \in DOMAIN s : /\ n \in Nat /\ 1 <= n /\ n <= Len(s)
                                /\ s[n].val \in Nat /\ s[n].queue = x
<1>1. Len(s) \in Nat /\ DOMAIN s = 1 .. Len(s)
  OBVIOUS
<1>2. \A n \in DOMAIN s : s[n] \in OpsOf(x)
  OBVIOUS
<1>3. \A n \in DOMAIN s : n \in Nat /\ 1 <= n /\ n <= Len(s)
  BY <1>1
<1>. QED
  BY <1>1, <1>2, <1>3 DEF OpsOf, OpType

(* What stands in the longer queues stood there or is new.                 *)
LEMMA OldOrNew ==
  ASSUME NEW p, NEW p2, NEW s, NEW m, NEW fr, NEW sl, Issued(p, p2, s, m, fr, sl),
         NEW x \in Queues, NEW i \in DOMAIN p2[x]
  PROVE  \/ i \in DOMAIN p[x] /\ p2[x][i] = p[x][i]
         \/ \E n \in DOMAIN s[x] : /\ i = Len(p[x]) + n
                                   /\ p2[x][i] = IssuedOp(s[x][n], m, fr, sl)
<1>. DEFINE L == Len(p[x])
            K == Len(s[x])
            n == i - L
<1>1. AllQueued(p) /\ AllQueued(p2) /\ s[x] \in Seq(OpsOf(x)) /\ Len(p2[x]) = L + K
  BY DEF Issued
<1>2. L \in Nat /\ DOMAIN p[x] = 1 .. L /\ i \in 1 .. Len(p2[x])
  BY <1>1, PlaceIs
<1>3. K \in Nat /\ DOMAIN s[x] = 1 .. K
  BY <1>1, OpOfIs
<1>. HIDE DEF L, K
<1>4. i \in DOMAIN p[x] \/ (n \in DOMAIN s[x] /\ i = L + n)
  BY <1>1, <1>2, <1>3
<1>. HIDE DEF n
<1>5. CASE i \in DOMAIN p[x]
  BY <1>5 DEF Issued
<1>6. CASE n \in DOMAIN s[x] /\ i = L + n
  BY <1>6 DEF Issued, L
<1>. QED
  BY <1>4, <1>5, <1>6

(* New operations come behind the old ones.                                *)
LEMMA NewPlace ==
  ASSUME NEW p, NEW p2, NEW s, NEW m, NEW fr, NEW sl, Issued(p, p2, s, m, fr, sl),
         NEW x \in Queues, NEW n \in DOMAIN s[x]
  PROVE  /\ Len(p[x]) + n \in DOMAIN p2[x] /\ Len(p[x]) + n \in Nat /\ n \in Nat \ {0}
         /\ p2[x][Len(p[x]) + n] = IssuedOp(s[x][n], m, fr, sl)
         /\ \A i \in DOMAIN p[x] : i <= Len(p[x]) + n
<1>. DEFINE L == Len(p[x])
            K == Len(s[x])
<1>1. AllQueued(p) /\ AllQueued(p2) /\ s[x] \in Seq(OpsOf(x)) /\ Len(p2[x]) = L + K
  BY DEF Issued
<1>2. L \in Nat /\ DOMAIN p[x] = 1 .. L /\ DOMAIN p2[x] = 1 .. Len(p2[x])
  BY <1>1, PlaceIs
<1>3. K \in Nat /\ DOMAIN s[x] = 1 .. K
  BY <1>1, OpOfIs
<1>. HIDE DEF L, K
<1>4. /\ L + n \in DOMAIN p2[x] /\ L + n \in Nat /\ n \in Nat \ {0}
      /\ \A i \in DOMAIN p[x] : i <= L + n
  BY <1>1, <1>2, <1>3
<1>5. p2[x][L + n] = IssuedOp(s[x][n], m, fr, sl)
  BY DEF Issued, L
<1>. QED
  BY <1>4, <1>5 DEF L

(* The old operations stay.                                                *)
LEMMA IssuedExtends ==
  ASSUME NEW p, NEW p2, NEW s, NEW m, NEW fr, NEW sl, Issued(p, p2, s, m, fr, sl)
  PROVE  Extends(p, p2)
<1>1. ASSUME NEW x \in Queues PROVE DOMAIN p[x] \subseteq DOMAIN p2[x]
  <2>. DEFINE L == Len(p[x])
              K == Len(s[x])
  <2>1. AllQueued(p) /\ AllQueued(p2) /\ s[x] \in Seq(OpsOf(x)) /\ Len(p2[x]) = L + K
    BY DEF Issued
  <2>2. L \in Nat /\ DOMAIN p[x] = 1 .. L /\ DOMAIN p2[x] = 1 .. Len(p2[x])
    BY <2>1, PlaceIs
  <2>3. K \in Nat
    BY <2>1, OpOfIs
  <2>. HIDE DEF L, K
  <2>. QED
    BY <2>1, <2>2, <2>3
<1>. QED
  BY <1>1 DEF Issued, Extends

(* What waits in the submission waits in the queues.                       *)
LEMMA IssuedBehind ==
  ASSUME NEW p, NEW p2, NEW s, NEW m \in Nat, NEW fr, NEW sl, Issued(p, p2, s, m, fr, sl),
         NEW x \in Queues, NEW y \in Queues, NEW i \in Nat, NEW j \in Nat,
         WaitedFor(s, x, i, y, j)
  PROVE  Behind(p2, x, Len(p[x]) + i, y, Len(p[y]) + j)
<1>1. PICK k \in PlacesOf(s, x, "signal"), l \in PlacesOf(s, y, "wait") :
        i <= k /\ l <= j /\ s[x][k].val <= s[y][l].val
  BY DEF WaitedFor
<1>2. /\ k \in DOMAIN s[x] /\ s[x][k].op = "signal"
      /\ l \in DOMAIN s[y] /\ s[y][l].op = "wait"
  BY DEF PlacesOf
<1>. DEFINE a == Len(p[x])
            b == Len(p[y])
<1>3. a \in Nat /\ b \in Nat
  BY PlaceIs DEF Issued
<1>4. k \in Nat /\ l \in Nat /\ s[x][k].val \in Nat /\ s[y][l].val \in Nat
  BY <1>2, OpOfIs DEF Issued
<1>5. /\ a + k \in DOMAIN p2[x] /\ b + l \in DOMAIN p2[y]
      /\ p2[x][a + k] = IssuedOp(s[x][k], m, fr, sl)
      /\ p2[y][b + l] = IssuedOp(s[y][l], m, fr, sl)
  BY <1>2, NewPlace
<1>6. a + i <= a + k /\ b + l <= b + j
  <2>. HIDE DEF a, b
  <2>. QED
    BY <1>1, <1>3, <1>4
<1>7. s[x][k].val + m <= s[y][l].val + m
  <2>. DEFINE v == s[x][k].val
              w == s[y][l].val
  <2>1. v \in Nat /\ w \in Nat /\ v <= w
    BY <1>1, <1>4
  <2>. HIDE DEF v, w
  <2>2. v + m <= w + m
    BY <2>1
  <2>. QED
    BY <2>2 DEF v, w
<1>8. /\ GraphSignal(p2[x][a + k]) /\ p2[x][a + k].val = s[x][k].val + m
      /\ p2[y][b + l].op = "wait" /\ p2[y][b + l].val = s[y][l].val + m
  BY <1>2, <1>5 DEF IssuedOp, GraphSignal
<1>. QED
  BY <1>5, <1>6, <1>7, <1>8 DEF Behind

(* An earlier operation is over as well.                                   *)
LEMMA BehindEarlier ==
  ASSUME NEW p, AllQueued(p), NEW x \in Queues, NEW y \in Queues,
         NEW i \in Nat, NEW k \in Nat, NEW j \in Nat, Behind(p, x, k, y, j), i <= k
  PROVE  Behind(p, x, i, y, j)
<1>1. PICK a \in DOMAIN p[x], l \in DOMAIN p[y] :
        /\ k <= a /\ l <= j
        /\ GraphSignal(p[x][a]) /\ p[y][l].op = "wait"
        /\ p[x][a].val <= p[y][l].val
  BY DEF Behind
<1>2. a \in Nat
  BY PlaceIs
<1>3. i <= a
  BY <1>1, <1>2
<1>. QED
  BY <1>1, <1>3 DEF Behind

(* SignalsOrdered, of the operations s that promise v more and end on last.*)
OrderedSignals(s, v, last) ==
  \A q, r \in Queues : \A i \in PlacesOf(s, q, "signal") :
    /\ s[q][i].val \in 1 .. v
    /\ q # last => WaitedFor(s, last, 1, q, i)
    /\ \A j \in PlacesOf(s, r, "signal") :
         s[q][i].val <= s[r][j].val => IF q = r THEN i <= j ELSE WaitedFor(s, q, i, r, j)

(* A signal in the longer queues was there or is issued with a value that  *)
(* was not promised before.                                                *)
LEMMA SignalIssued ==
  ASSUME NEW p, NEW p2, NEW s, NEW m \in Nat, NEW fr, NEW sl, Issued(p, p2, s, m, fr, sl),
         NEW v \in Nat, NEW last \in Queues, OrderedSignals(s, v, last),
         NEW x \in Queues, NEW i \in SignalsIn(p2, x)
  PROVE  \/ i \in SignalsIn(p, x) /\ p2[x][i] = p[x][i]
         \/ \E n \in PlacesOf(s, x, "signal") :
              /\ i = Len(p[x]) + n /\ p2[x][i].val = s[x][n].val + m
              /\ m < p2[x][i].val /\ p2[x][i].val <= m + v
<1>1. i \in DOMAIN p2[x] /\ GraphSignal(p2[x][i])
  BY DEF SignalsIn
<1>2. CASE i \in DOMAIN p[x] /\ p2[x][i] = p[x][i]
  BY <1>1, <1>2 DEF SignalsIn
<1>3. ASSUME NEW n \in DOMAIN s[x], i = Len(p[x]) + n, p2[x][i] = IssuedOp(s[x][n], m, fr, sl)
      PROVE  \E k \in PlacesOf(s, x, "signal") :
              /\ i = Len(p[x]) + k /\ p2[x][i].val = s[x][k].val + m
              /\ m < p2[x][i].val /\ p2[x][i].val <= m + v
  <2>1. s[x][n].op = "signal" /\ p2[x][i].val = s[x][n].val + m
    BY <1>1, <1>3 DEF IssuedOp, GraphSignal
  <2>2. n \in PlacesOf(s, x, "signal")
    BY <2>1 DEF PlacesOf
  <2>. DEFINE w == s[x][n].val
  <2>3. w \in 1 .. v
    BY <2>2 DEF OrderedSignals
  <2>. HIDE DEF w
  <2>4. m < w + m /\ w + m <= m + v
    BY <2>3
  <2>. QED
    BY <1>3, <2>1, <2>2, <2>4 DEF w
<1>. QED
  BY <1>1, <1>2, <1>3, OldOrNew

(* What the submission adds to the queues keeps the values in order.       *)
LEMMA ValuesIssued ==
  ASSUME NEW p, NEW p2, NEW s, NEW m \in Nat, NEW fr, NEW sl, Issued(p, p2, s, m, fr, sl),
         NEW f \in Nat, f <= m, Ahead(p, f, m), ByValue(p),
         NEW last \in Queues, Promised(p, m, last),
         NEW v \in Nat, OrderedSignals(s, v, last),
         \E z \in PlacesOf(s, last, "signal") : s[last][z].val = v
  PROVE  Ahead(p2, f, m + v) /\ ByValue(p2) /\ Promised(p2, m + v, last)
<1>1. AllQueued(p) /\ AllQueued(p2)
  BY DEF Issued
<1>2. ASSUME NEW x \in Queues, NEW i \in SignalsIn(p, x)
      PROVE  /\ i \in DOMAIN p[x] /\ i \in Nat /\ p[x][i].val \in Nat
             /\ f < p[x][i].val /\ p[x][i].val <= m
  BY <1>1, PlaceIs DEF SignalsIn, Ahead
<1>3. ASSUME NEW x \in Queues, NEW i \in SignalsIn(p2, x)
      PROVE  i \in DOMAIN p2[x] /\ i \in Nat /\ p2[x][i].val \in Nat
  BY <1>1, PlaceIs DEF SignalsIn
<1>4. Ahead(p2, f, m + v)
  <2>1. SUFFICES ASSUME NEW x \in Queues, NEW i \in SignalsIn(p2, x)
                 PROVE  f < p2[x][i].val /\ p2[x][i].val <= m + v
    BY DEF Ahead
  <2>. DEFINE w == p2[x][i].val
  <2>2. w \in Nat
    BY <1>3
  <2>3. (f < w /\ w <= m) \/ (m < w /\ w <= m + v)
    <3>1. (i \in SignalsIn(p, x) /\ p2[x][i] = p[x][i]) \/ (m < w /\ w <= m + v)
      BY SignalIssued
    <3>2. CASE i \in SignalsIn(p, x) /\ p2[x][i] = p[x][i]
      BY <1>2, <3>2
    <3>. QED
      BY <3>1, <3>2
  <2>. HIDE DEF w
  <2>4. f < w /\ w <= m + v
    BY <2>2, <2>3
  <2>. QED
    BY <2>4 DEF w
<1>5. ASSUME NEW x \in Queues, NEW y \in Queues, NEW i \in SignalsIn(p, x),
             NEW n \in PlacesOf(s, y, "signal")
      PROVE  IF x = y THEN i <= Len(p[y]) + n ELSE Behind(p2, x, i, y, Len(p[y]) + n)
  <2>. DEFINE j == Len(p[y]) + n
  <2>1. n \in DOMAIN s[y] /\ n \in Nat \ {0}
    BY NewPlace DEF PlacesOf
  <2>2. j \in Nat /\ \A e \in DOMAIN p[y] : e <= j
    BY <2>1, NewPlace
  <2>. HIDE DEF j
  <2>3. CASE x = y
    BY <1>2, <2>2, <2>3 DEF j
  <2>4. CASE x # y /\ y = last
    <3>1. PICK e \in SignalsIn(p, last) : p[last][e].val = m
      BY <2>4 DEF Promised
    <3>2. Behind(p, x, i, last, e)
      BY <1>2, <2>4, <3>1 DEF ByValue
    <3>3. e <= j /\ e \in Nat
      BY <1>2, <2>2, <2>4, <3>1
    <3>4. Behind(p2, x, i, y, j)
      BY <1>1, <1>2, <2>2, <2>4, <3>2, <3>3, BehindExtended, IssuedExtends
    <3>. QED
      BY <2>4, <3>4 DEF j
  <2>5. CASE x # y /\ y # last
    <3>1. x = last
      BY <2>5 DEF Queues
    <3>2. WaitedFor(s, last, 1, y, n)
      BY <2>5 DEF OrderedSignals
    <3>3. Behind(p2, x, Len(p[x]) + 1, y, j)
      BY <2>1, <3>1, <3>2, IssuedBehind DEF j
    <3>4. i <= Len(p[x]) + 1 /\ Len(p[x]) + 1 \in Nat
      <4>. DEFINE L == Len(p[x])
      <4>1. L \in Nat /\ i <= L /\ i \in Nat
        BY <1>1, <1>2, PlaceIs
      <4>. HIDE DEF L
      <4>2. i <= L + 1 /\ L + 1 \in Nat
        BY <4>1
      <4>. QED
        BY <4>2 DEF L
    <3>5. Behind(p2, x, i, y, j)
      BY <1>1, <1>2, <2>2, <3>3, <3>4, BehindEarlier
    <3>. QED
      BY <2>5, <3>5 DEF j
  <2>. QED
    BY <2>3, <2>4, <2>5
<1>6. ASSUME NEW x \in Queues, NEW y \in Queues,
             NEW n \in PlacesOf(s, x, "signal"), NEW k \in PlacesOf(s, y, "signal"),
             s[x][n].val + m <= s[y][k].val + m
      PROVE  IF x = y THEN Len(p[x]) + n <= Len(p[y]) + k
                      ELSE Behind(p2, x, Len(p[x]) + n, y, Len(p[y]) + k)
  <2>1. n \in DOMAIN s[x] /\ k \in DOMAIN s[y] /\ n \in Nat /\ k \in Nat
    BY NewPlace DEF PlacesOf
  <2>2. s[x][n].val <= s[y][k].val
    <3>. DEFINE a == s[x][n].val
                b == s[y][k].val
    <3>1. a \in Nat /\ b \in Nat /\ a + m <= b + m
      BY <1>6, <2>1, OpOfIs DEF Issued
    <3>. HIDE DEF a, b
    <3>2. a <= b
      BY <3>1
    <3>. QED
      BY <3>2 DEF a, b
  <2>3. IF x = y THEN n <= k ELSE WaitedFor(s, x, n, y, k)
    BY <2>2, Zenon DEF OrderedSignals
  <2>4. CASE x = y
    <3>. DEFINE L == Len(p[x])
    <3>1. L \in Nat /\ n <= k
      BY <1>1, <2>3, <2>4, PlaceIs
    <3>. HIDE DEF L
    <3>2. L + n <= L + k
      BY <2>1, <3>1
    <3>. QED
      BY <2>4, <3>2 DEF L
  <2>5. CASE x # y
    BY <2>1, <2>3, <2>5, IssuedBehind
  <2>. QED
    BY <2>4, <2>5
<1>7. ByValue(p2)
  <2>1. SUFFICES ASSUME NEW x \in Queues, NEW y \in Queues,
                        NEW i \in SignalsIn(p2, x), NEW j \in SignalsIn(p2, y),
                        p2[x][i].val <= p2[y][j].val
                 PROVE  IF x = y THEN i <= j ELSE Behind(p2, x, i, y, j)
    BY Zenon DEF ByValue
  <2>2. CASE /\ i \in SignalsIn(p, x) /\ p2[x][i] = p[x][i]
             /\ j \in SignalsIn(p, y) /\ p2[y][j] = p[y][j]
    <3>1. IF x = y THEN i <= j ELSE Behind(p, x, i, y, j)
      BY <2>1, <2>2, Zenon DEF ByValue
    <3>2. x # y => Behind(p2, x, i, y, j)
      <4>1. i \in Nat /\ j \in Nat /\ j <= j
        BY <1>2, <2>2
      <4>. QED
        BY <1>1, <3>1, <4>1, BehindExtended, IssuedExtends
    <3>. QED
      BY <3>1, <3>2
  <2>3. CASE i \in SignalsIn(p, x) /\ \E n \in PlacesOf(s, y, "signal") : j = Len(p[y]) + n
    BY <1>5, <2>3
  <2>4. CASE /\ m < p2[x][i].val
             /\ j \in SignalsIn(p, y) /\ p2[y][j] = p[y][j]
    <3>. DEFINE a == p2[x][i].val
                b == p2[y][j].val
    <3>1. a \in Nat /\ b \in Nat /\ a <= b /\ m < a /\ b <= m
      BY <1>2, <1>3, <2>1, <2>4
    <3>. HIDE DEF a, b
    <3>. QED
      BY <3>1
  <2>5. ASSUME NEW n \in PlacesOf(s, x, "signal"), i = Len(p[x]) + n, p2[x][i].val = s[x][n].val + m,
               NEW k \in PlacesOf(s, y, "signal"), j = Len(p[y]) + k, p2[y][j].val = s[y][k].val + m
        PROVE  IF x = y THEN i <= j ELSE Behind(p2, x, i, y, j)
    BY <1>6, <2>1, <2>5
  <2>6. \/ i \in SignalsIn(p, x) /\ p2[x][i] = p[x][i]
        \/ \E n \in PlacesOf(s, x, "signal") :
              i = Len(p[x]) + n /\ p2[x][i].val = s[x][n].val + m /\ m < p2[x][i].val
    BY SignalIssued
  <2>7. \/ j \in SignalsIn(p, y) /\ p2[y][j] = p[y][j]
        \/ \E n \in PlacesOf(s, y, "signal") : j = Len(p[y]) + n /\ p2[y][j].val = s[y][n].val + m
    BY SignalIssued
  <2>. QED
    BY <2>2, <2>3, <2>4, <2>5, <2>6, <2>7, Zenon
<1>8. Promised(p2, m + v, last)
  <2>1. PICK z \in PlacesOf(s, last, "signal") : s[last][z].val = v
    OBVIOUS
  <2>. DEFINE e == Len(p[last]) + z
  <2>2. z \in DOMAIN s[last] /\ s[last][z].op = "signal"
    BY <2>1 DEF PlacesOf
  <2>3. e \in DOMAIN p2[last] /\ p2[last][e] = IssuedOp(s[last][z], m, fr, sl)
    BY <2>2, NewPlace
  <2>. HIDE DEF e
  <2>4. e \in SignalsIn(p2, last) /\ p2[last][e].val = v + m
    BY <2>1, <2>2, <2>3 DEF IssuedOp, GraphSignal, SignalsIn
  <2>5. v + m = m + v
    OBVIOUS
  <2>. QED
    BY <2>4, <2>5 DEF Promised
<1>. QED
  BY <1>4, <1>7, <1>8

-----------------------------------------------------------------------------
(* The steps                                                               *)

(* Reading an operation.                                                   *)
Reading(q) == StartList(q) \/ SignalFence(q) \/ WaitForFence(q)

(* It removes the first operation and leaves the CPU alone.                *)
LEMMA ReadsIs ==
  ASSUME TypeInv, NEW q \in Queues, Reading(q)
  PROVE  /\ Popped(pending, pending', q) /\ HeadOf(q) = pending[q][1]
         /\ UNCHANGED cpuVars
<1>1. AllQueued(pending)
  BY DEF TypeInv, PendingTyped
<1>2. pending[q] # <<>> /\ pending' = [pending EXCEPT ![q] = Tail(pending[q])] /\ UNCHANGED cpuVars
  BY DEF Reading, StartList, SignalFence, WaitForFence, Started
<1>3. Popped(pending, pending', q)
  BY <1>1, <1>2, PoppedIs
<1>4. HeadOf(q) = pending[q][1]
  BY DEF HeadOf
<1>. QED
  BY <1>2, <1>3, <1>4

(* ExecuteAndSubmit puts the submission behind what is queued.             *)
LEMMA ExecuteIs ==
  ASSUME TypeInv, TypeInv', ExecuteAndSubmit
  PROVE  /\ Issued(pending, pending', Submission(plan').ops, maxFence,
                   currentFenceVal + 1, currentFrameIndex)
         /\ Submission(plan').fence \in Nat
         /\ maxFence' = maxFence + Submission(plan').fence
         /\ LastQueue(plan') \in Queues
         /\ \E z \in PlacesOf(Submission(plan').ops, LastQueue(plan'), "signal") :
              Submission(plan').ops[LastQueue(plan')][z].val = Submission(plan').fence
<1>. DEFINE s == Submission(plan').ops
            a == [q \in Queues |-> [n \in DOMAIN s[q] |-> Submitted(s[q][n], "graph", maxFence)]]
<1>1. AllQueued(pending) /\ AllQueued(pending') /\ DOMAIN pending = Queues
  BY DEF TypeInv, PendingTyped, AllQueued
<1>2. PlanTyped(plan')
  <2>1. plan' = SortPasses(graph) /\ graph \in Graphs
    BY DEF TypeInv, PlanInv, ExecuteAndSubmit
  <2>. QED
    BY <2>1, PlanIsTyped
<1>3. \A q \in Queues : s[q] \in Seq(OpsOf(q))
  BY <1>2, SubmissionIs
<1>4. Submission(plan').fence \in Nat
  BY <1>2, SubmissionIs
<1>5. pending' = [q \in Queues |-> pending[q] \o a[q]] /\ maxFence' = maxFence + Submission(plan').fence
  BY DEF ExecuteAndSubmit
<1>6. ASSUME NEW q \in Queues
      PROVE  /\ Len(pending'[q]) = Len(pending[q]) + Len(s[q])
             /\ \A i \in DOMAIN pending[q] : pending'[q][i] = pending[q][i]
             /\ \A n \in DOMAIN s[q] : pending'[q][Len(pending[q]) + n] = Submitted(s[q][n], "graph", maxFence)
  <2>. DEFINE o == s[q]
              b == [n \in DOMAIN o |-> Submitted(o[n], "graph", maxFence)]
              u == pending[q]
              S == {b[n] : n \in DOMAIN o}
  <2>1. pending'[q] = u \o b /\ a[q] = b
    BY <1>5
  <2>2. o \in Seq(OpsOf(q)) /\ u \in Seq(Queued(q))
    BY <1>1, <1>3 DEF AllQueued
  <2>3. \A n \in DOMAIN o : b[n] = Submitted(o[n], "graph", maxFence)
    OBVIOUS
  <2>4. DOMAIN o = 1 .. Len(o) /\ Len(o) \in Nat
    BY <2>2
  <2>5. b \in Seq(S) /\ Len(b) = Len(o) /\ DOMAIN b = DOMAIN o
    BY <2>4
  <2>. HIDE DEF o, b, u, S
  <2>6. Len(u \o b) = Len(u) + Len(b)
    BY <2>2, <2>5
  <2>7. \A i \in DOMAIN u : (u \o b)[i] = u[i]
    BY <2>2, <2>5
  <2>8. \A n \in DOMAIN b : (u \o b)[Len(u) + n] = b[n]
    BY <2>2, <2>5
  <2>9. /\ Len(pending'[q]) = Len(u) + Len(o)
        /\ \A i \in DOMAIN u : pending'[q][i] = u[i]
        /\ \A n \in DOMAIN o : pending'[q][Len(u) + n] = Submitted(o[n], "graph", maxFence)
    BY <2>1, <2>3, <2>5, <2>6, <2>7, <2>8
  <2>. QED
    BY <2>9 DEF u, o
<1>7. \A o : Submitted(o, "graph", maxFence) = IssuedOp(o, maxFence, currentFenceVal + 1, currentFrameIndex)
  BY DEF Submitted, IssuedOp
<1>. HIDE DEF s, a
<1>8. Issued(pending, pending', s, maxFence, currentFenceVal + 1, currentFrameIndex)
  BY <1>1, <1>3, <1>6, <1>7 DEF Issued
<1>9. LastQueue(plan') \in Queues
  BY DEF LastQueue, Queues
<1>10. \E z \in PlacesOf(s, LastQueue(plan'), "signal") :
         s[LastQueue(plan')][z].val = Submission(plan').fence
  <2>. DEFINE last == LastQueue(plan')
              ops == Merged(plan').ops
              v == Last(plan'.sorted[last]).val + 1
              o == Op("signal", last, 0, v)
  <2>1. /\ s = [ops EXCEPT ![last] = Append(ops[last], o)]
        /\ Submission(plan').fence = v
    BY DEF Submission, s
  <2>2. ops \in [Queues -> Seq(OpType)]
    BY <1>2, MergedIs DEF Merging, MergeState
  <2>3. o.op = "signal" /\ o.val = v
    BY DEF Op
  <2>. DEFINE t == ops[last]
  <2>4. t \in Seq(OpType)
    BY <1>9, <2>2
  <2>. HIDE DEF last, ops, v, o
  <2>5. s[last] = Append(t, o)
    BY <1>9, <2>1, <2>2 DEF last
  <2>. HIDE DEF t
  <2>6. Len(t) + 1 \in DOMAIN Append(t, o) /\ Append(t, o)[Len(t) + 1] = o
    BY <2>4
  <2>7. Len(t) + 1 \in PlacesOf(s, last, "signal")
    BY <2>3, <2>5, <2>6 DEF PlacesOf
  <2>8. \E z \in PlacesOf(s, last, "signal") : s[last][z].val = Submission(plan').fence
    BY <2>1, <2>3, <2>5, <2>6, <2>7
  <2>. QED
    BY <2>8 DEF last
<1>. QED
  BY <1>4, <1>5, <1>8, <1>9, <1>10 DEF s

(* EndFrame puts the main list and its signal behind what is queued.       *)
FrameEnded(p, p2, fr) ==
  /\ AllQueued(p) /\ AllQueued(p2) /\ Extends(p, p2)
  /\ p2["compute"] = p["compute"]
  /\ \A i \in DOMAIN p2["direct"] \ DOMAIN p["direct"] :
       \/ i = Len(p["direct"]) + 1 /\ p2["direct"][i].op = "list" /\ p2["direct"][i].level = 0
       \/ i = Len(p["direct"]) + 2 /\ MainSignal(p2["direct"][i]) /\ p2["direct"][i].val = fr
  /\ Len(p["direct"]) + 2 \in DOMAIN p2["direct"]
  /\ Len(p["direct"]) + 2 \notin DOMAIN p["direct"]

(* ... which are those two and nothing else.                               *)
LEMMA EndFrameIs ==
  ASSUME TypeInv, TypeInv', EndFrame
  PROVE  FrameEnded(pending, pending', currentFenceVal + 1)
<1>. DEFINE l == Submitted(Op("list", "direct", 0, 0), "main", 0)
            c == Submitted(Op("signal", "direct", 0, currentFenceVal + 1), "main", 0)
            u == pending["direct"]
            w == u \o <<l, c>>
            L == Len(u)
<1>1. AllQueued(pending) /\ AllQueued(pending') /\ DOMAIN pending = Queues
  BY DEF TypeInv, PendingTyped, AllQueued
<1>2. "direct" \in Queues /\ "compute" \in Queues /\ "direct" # "compute"
  BY DEF Queues
<1>3. pending' = [pending EXCEPT !["direct"] = w]
  BY DEF EndFrame
<1>4. pending'["direct"] = w /\ pending'["compute"] = pending["compute"]
  BY <1>1, <1>2, <1>3
<1>5. u \in Seq(Queued("direct"))
  BY <1>1, <1>2 DEF AllQueued
<1>6. l.op = "list" /\ l.level = 0
  BY DEF Submitted, Op
<1>7. MainSignal(c) /\ c.val = currentFenceVal + 1
  <2>1. c.val = (currentFenceVal + 1) + 0 /\ currentFenceVal \in 0 .. MaxFrames
    BY DEF Submitted, Op, TypeInv, CpuTyped
  <2>2. (currentFenceVal + 1) + 0 = currentFenceVal + 1
    BY <2>1, FramesAssumption
  <2>3. MainSignal(c)
    BY DEF Submitted, Op, MainSignal
  <2>. QED
    BY <2>1, <2>2, <2>3
<1>. HIDE DEF l, c, u
<1>8. /\ L \in Nat /\ DOMAIN u = 1 .. L /\ DOMAIN w = 1 .. L + 2
      /\ \A i \in DOMAIN u : w[i] = u[i]
      /\ w[L + 1] = l /\ w[L + 2] = c
  BY <1>5
<1>. HIDE DEF w, L
<1>9. /\ DOMAIN u \subseteq DOMAIN w
      /\ \A i \in DOMAIN w \ DOMAIN u : i = L + 1 \/ i = L + 2
      /\ L + 2 \in DOMAIN w /\ L + 2 \notin DOMAIN u
  BY <1>8
<1>10. Extends(pending, pending')
  <2>1. ASSUME NEW x \in Queues
        PROVE  /\ DOMAIN pending[x] \subseteq DOMAIN pending'[x]
               /\ \A i \in DOMAIN pending[x] : pending'[x][i] = pending[x][i]
    <3>1. CASE x = "direct"
      BY <1>4, <1>8, <1>9, <3>1 DEF u
    <3>2. CASE x = "compute"
      BY <1>4, <3>2
    <3>. QED
      BY <3>1, <3>2 DEF Queues
  <2>. QED
    BY <2>1 DEF Extends
<1>. QED
  BY <1>1, <1>4, <1>6, <1>7, <1>8, <1>9, <1>10 DEF FrameEnded, u, L

(* Places of the graph's lists, and those that run.                        *)
ListsIn(p, q) == {i \in DOMAIN p[q] : GraphList(p[q][i])}
RunningLists == {o \in running : GraphList(o)}

(* What EndFrame adds is none of the graph's.                              *)
LEMMA FrameEndedSignals ==
  ASSUME NEW p, NEW p2, NEW fr, FrameEnded(p, p2, fr), NEW x \in Queues
  PROVE  /\ SignalsIn(p2, x) = SignalsIn(p, x)
         /\ \A i \in SignalsIn(p2, x) : p2[x][i] = p[x][i]
         /\ \A i \in ListsIn(p2, x) : i \in ListsIn(p, x) /\ p2[x][i] = p[x][i]
<1>1. AllQueued(p2) /\ Extends(p, p2) /\ p2["compute"] = p["compute"]
  BY DEF FrameEnded
<1>2. ASSUME NEW i \in DOMAIN p2[x], i \notin DOMAIN p[x]
      PROVE  ~GraphSignal(p2[x][i]) /\ ~GraphList(p2[x][i])
  <2>1. x = "direct"
    BY <1>1, <1>2 DEF Queues
  <2>2. (p2[x][i].op = "list" /\ p2[x][i].level = 0) \/ MainSignal(p2[x][i])
    BY <1>2, <2>1 DEF FrameEnded
  <2>3. p2[x][i].queue = x
    BY <1>1, PlaceIs
  <2>4. CASE p2[x][i].op = "list" /\ p2[x][i].level = 0
    BY <2>1, <2>3, <2>4 DEF GraphSignal, GraphList
  <2>5. CASE MainSignal(p2[x][i])
    BY <2>5 DEF GraphSignal, MainSignal, GraphList
  <2>. QED
    BY <2>2, <2>4, <2>5
<1>3. ASSUME NEW i \in SignalsIn(p2, x) PROVE i \in SignalsIn(p, x) /\ p2[x][i] = p[x][i]
  BY <1>1, <1>2 DEF SignalsIn, Extends
<1>4. ASSUME NEW i \in SignalsIn(p, x) PROVE i \in SignalsIn(p2, x)
  BY <1>1 DEF SignalsIn, Extends
<1>5. \A i \in ListsIn(p2, x) : i \in ListsIn(p, x) /\ p2[x][i] = p[x][i]
  BY <1>1, <1>2 DEF ListsIn, Extends
<1>. QED
  BY <1>3, <1>4, <1>5

-----------------------------------------------------------------------------
(* The fence                                                               *)

FenceInv ==
  /\ fence <= maxFence
  /\ Ahead(pending, fence, maxFence)
  /\ ByValue(pending)
  /\ ~dirty => Promised(pending, maxFence, LastQueue(plan))
  /\ dirty => \A q \in Queues : SignalsIn(pending, q) = {}

(* It holds at the start.                                                  *)
LEMMA FenceInvInit == ASSUME Init PROVE FenceInv
<1>1. \A q \in Queues : SignalsIn(pending, q) = {}
  BY DEF Init, SignalsIn
<1>. QED
  BY <1>1 DEF Init, FenceInv, Ahead, ByValue

(* A wait that is read asks for a value the fence has.                     *)
LEMMA FencePopped ==
  ASSUME TypeInv, TypeInv', FenceInv, NEW q \in Queues, Reading(q)
  PROVE  /\ fence' = (IF GraphSignal(pending[q][1]) THEN pending[q][1].val ELSE fence)
         /\ pending[q][1].op = "wait" => pending[q][1].val <= fence
         /\ GraphSignal(pending[q][1]) => fence < fence' /\ fence' <= maxFence
<1>1. HeadOf(q) = pending[q][1] /\ Popped(pending, pending', q)
  BY ReadsIs
<1>. DEFINE o == pending[q][1]
<1>2. AllQueued(pending) /\ 1 \in DOMAIN pending[q]
  BY <1>1 DEF Popped
<1>3. o.val \in Nat /\ o.op \in {"list", "signal", "wait"} /\ o \in Operations
  BY <1>2, PlaceIs
<1>4. fence \in Nat /\ HeadOf(q) = o
  BY <1>1 DEF TypeInv, FencesTyped
<1>5. GraphSignal(o) => fence < o.val /\ o.val <= maxFence
  BY <1>2 DEF FenceInv, Ahead, SignalsIn
<1>. HIDE DEF o
<1>6. ASSUME StartList(q) PROVE o.op = "list" /\ fence' = fence
  BY <1>4, <1>6 DEF StartList
<1>7. ASSUME SignalFence(q)
      PROVE  o.op = "signal" /\ fence' = IF GraphSignal(o) THEN o.val ELSE fence
  <2>1. o.op = "signal" /\ (o.fence = "graph" => fence' = o.val) /\ (o.fence # "graph" => fence' = fence)
    BY <1>4, <1>7 DEF SignalFence
  <2>. QED
    BY <2>1 DEF GraphSignal
<1>8. ASSUME WaitForFence(q) PROVE o.op = "wait" /\ fence' = fence /\ o.val <= fence
  <2>. DEFINE v == o.val
  <2>1. o.op = "wait" /\ fence' = fence /\ fence >= v
    BY <1>4, <1>8 DEF WaitForFence
  <2>2. v <= fence
    <3>1. v \in Nat
      BY <1>3
    <3>. HIDE DEF v
    <3>. QED
      BY <1>4, <2>1, <3>1
  <2>. QED
    BY <2>1, <2>2
<1>9. StartList(q) \/ SignalFence(q) \/ WaitForFence(q)
  BY DEF Reading
<1>10. ~GraphSignal(o) => fence' = fence
  BY <1>6, <1>7, <1>8, <1>9
<1>11. GraphSignal(o) => fence' = o.val
  BY <1>6, <1>7, <1>8, <1>9 DEF GraphSignal
<1>12. o.op = "wait" => o.val <= fence
  BY <1>6, <1>7, <1>8, <1>9
<1>. QED
  BY <1>5, <1>10, <1>11, <1>12 DEF o

(* Every step keeps it, on a graph whose signals are ordered.              *)
LEMMA FenceInvStep ==
  ASSUME TypeInv, TypeInv', FenceInv, ~dirty' => SignalsOrdered', [Next]_vars
  PROVE  FenceInv' /\ (fence' # fence => fence' > fence)
<1>1. /\ fence \in Nat /\ maxFence \in Nat /\ fence' \in Nat /\ maxFence' \in Nat
      /\ dirty \in BOOLEAN /\ AllQueued(pending) /\ fence <= maxFence
  BY DEF TypeInv, FencesTyped, CpuTyped, PendingTyped, FenceInv
<1>2. CASE ExecuteAndSubmit
  <2>. DEFINE s == Submission(plan').ops
              v == Submission(plan').fence
              last == LastQueue(plan')
  <2>1. /\ Issued(pending, pending', s, maxFence, currentFenceVal + 1, currentFrameIndex)
        /\ v \in Nat /\ maxFence' = maxFence + v /\ last \in Queues
        /\ \E z \in PlacesOf(s, last, "signal") : s[last][z].val = v
    BY <1>2, ExecuteIs
  <2>2. ~dirty' /\ fence' = fence
    BY <1>2 DEF ExecuteAndSubmit
  <2>3. OrderedSignals(s, v, last)
    BY <2>2 DEF SignalsOrdered, OrderedSignals
  <2>4. Promised(pending, maxFence, last)
    <3>1. CASE dirty
      BY <3>1 DEF FenceInv, Promised
    <3>2. CASE ~dirty
      <4>1. plan' = plan
        BY <1>2, <3>2 DEF ExecuteAndSubmit
      <4>. QED
        BY <3>2, <4>1 DEF FenceInv
    <3>. QED
      BY <3>1, <3>2
  <2>. HIDE DEF s, v, last
  <2>5. /\ Ahead(pending', fence, maxFence + v) /\ ByValue(pending')
        /\ Promised(pending', maxFence + v, last)
    BY <1>1, <2>1, <2>3, <2>4, ValuesIssued DEF FenceInv
  <2>6. fence <= maxFence + v
    BY <1>1, <2>1
  <2>7. FenceInv'
    BY <2>1, <2>2, <2>5, <2>6 DEF FenceInv, ByValue, last
  <2>. QED
    BY <2>2, <2>7
<1>3. CASE EndFrame
  <2>1. FrameEnded(pending, pending', currentFenceVal + 1)
    BY <1>3, EndFrameIs
  <2>2. \A x \in Queues : /\ SignalsIn(pending', x) = SignalsIn(pending, x)
                          /\ \A i \in SignalsIn(pending', x) : pending'[x][i] = pending[x][i]
    BY <2>1, FrameEndedSignals
  <2>3. UNCHANGED <<fence, maxFence, plan, dirty>>
    BY <1>3 DEF EndFrame
  <2>4. Ahead(pending', fence, maxFence)
    BY <2>2 DEF FenceInv, Ahead
  <2>5. ByValue(pending')
    <3>1. SUFFICES ASSUME NEW x \in Queues, NEW y \in Queues,
                          NEW i \in SignalsIn(pending', x), NEW j \in SignalsIn(pending', y),
                          pending'[x][i].val <= pending'[y][j].val
                   PROVE  IF x = y THEN i <= j ELSE Behind(pending', x, i, y, j)
      BY Zenon DEF ByValue
    <3>2. /\ i \in SignalsIn(pending, x) /\ pending'[x][i] = pending[x][i]
          /\ j \in SignalsIn(pending, y) /\ pending'[y][j] = pending[y][j]
      BY <2>2
    <3>3. IF x = y THEN i <= j ELSE Behind(pending, x, i, y, j)
      BY <3>1, <3>2, Zenon DEF FenceInv, ByValue
    <3>4. i \in Nat /\ j \in Nat /\ j <= j
      <4>1. i \in Nat /\ j \in Nat
        BY <1>1, <3>2, PlaceIs DEF SignalsIn
      <4>. QED
        BY <4>1
    <3>5. x # y => Behind(pending', x, i, y, j)
      BY <2>1, <3>3, <3>4, BehindExtended DEF FrameEnded
    <3>. QED
      BY <3>3, <3>5
  <2>6. \A last \in Queues : Promised(pending, maxFence, last) => Promised(pending', maxFence, last)
    BY <2>2 DEF Promised
  <2>7. LastQueue(plan) \in Queues
    BY DEF LastQueue, Queues
  <2>. QED
    BY <2>2, <2>3, <2>4, <2>5, <2>6, <2>7 DEF FenceInv, Ahead, ByValue
<1>4. ASSUME NEW q \in Queues, Reading(q) PROVE FenceInv' /\ (fence' # fence => fence' > fence)
  <2>1. Popped(pending, pending', q) /\ UNCHANGED cpuVars
    BY <1>4, ReadsIs
  <2>2. /\ fence' = (IF GraphSignal(pending[q][1]) THEN pending[q][1].val ELSE fence)
        /\ pending[q][1].op = "wait" => pending[q][1].val <= fence
        /\ GraphSignal(pending[q][1]) => fence < fence' /\ fence' <= maxFence
    BY <1>4, FencePopped
  <2>3. UNCHANGED <<plan, dirty, maxFence>>
    BY <2>1 DEF cpuVars
  <2>4. LastQueue(plan) \in Queues
    BY DEF LastQueue, Queues
  <2>5. /\ Ahead(pending', fence', maxFence) /\ ByValue(pending')
        /\ Promised(pending, maxFence, LastQueue(plan)) => Promised(pending', maxFence, LastQueue(plan))
        /\ (\A x \in Queues : SignalsIn(pending, x) = {}) => \A x \in Queues : SignalsIn(pending', x) = {}
    BY <1>1, <2>1, <2>2, <2>4, ValuesPopped DEF FenceInv
  <2>6. fence' <= maxFence
    BY <1>1, <2>2
  <2>7. FenceInv'
    BY <2>3, <2>5, <2>6 DEF FenceInv, Ahead, ByValue
  <2>8. fence' # fence => fence' > fence
    BY <1>1, <2>2
  <2>. QED
    BY <2>7, <2>8
<1>5. ASSUME UNCHANGED <<pending, plan, dirty, maxFence, fence>>
      PROVE  FenceInv' /\ (fence' # fence => fence' > fence)
  BY <1>5 DEF FenceInv, Ahead, ByValue
<1>6. CASE FrameWait
  BY <1>5, <1>6 DEF FrameWait
<1>7. CASE FinishList
  BY <1>5, <1>7 DEF FinishList, cpuVars
<1>8. CASE UNCHANGED vars
  BY <1>5, <1>8 DEF vars, cpuVars
<1>. QED
  BY <1>2, <1>3, <1>4, <1>6, <1>7, <1>8 DEF Next, Gpu, Reading

(* FenceIncreases: on a graph whose signals are ordered (SignalsOrdered),   *)
(* the value of the fence the two queues signal only ever increases, however*)
(* the queues and the frames overlap.                                       *)
THEOREM FenceOnlyIncreases == Spec /\ [](~dirty => SignalsOrdered) => FenceIncreases
<1>1. Init => TypeInv /\ FenceInv
  BY TypeInvInit, FenceInvInit
<1>2. TypeInv /\ [Next]_vars => TypeInv'
  BY TypeInvStep
<1>3. TypeInv /\ TypeInv' /\ FenceInv /\ (~dirty => SignalsOrdered)' /\ [Next]_vars => FenceInv'
  BY FenceInvStep
<1>4. TypeInv /\ TypeInv' /\ FenceInv /\ (~dirty => SignalsOrdered)' /\ [Next]_vars
        => [fence' # fence => fence' > fence]_vars
  BY FenceInvStep
<1>. QED
  BY <1>1, <1>2, <1>3, <1>4, PTL DEF Spec, FenceIncreases

-----------------------------------------------------------------------------
(* The lists                                                               *)

(* What reading queue q does besides: it may start the list it reads, does *)
(* not read one of the graph's signals while a list of q runs, and waits   *)
(* until every signal before a wait has been given.                        *)
Proceeds(q) ==
  /\ Popped(pending, pending', q)
  /\ \/ running' = running
     \/ pending[q][1].op = "list" /\ running' = running \cup {pending[q][1]}
  /\ GraphSignal(pending[q][1]) => \A o \in running : o.queue # q
  /\ pending[q][1].op = "wait" =>
       \A x \in Queues : \A k \in SignalsIn(pending, x) : pending[q][1].val < pending[x][k].val

(* Every read is such, given what is known of the fence.                   *)
LEMMA ReadingIs ==
  ASSUME TypeInv, TypeInv', FenceInv, NEW q \in Queues, Reading(q)
  PROVE  Proceeds(q)
<1>1. Popped(pending, pending', q) /\ HeadOf(q) = pending[q][1]
  BY ReadsIs
<1>. DEFINE o == pending[q][1]
<1>2. \/ running' = running
      \/ o.op = "list" /\ running' = running \cup {o}
  BY <1>1 DEF Reading, StartList, SignalFence, WaitForFence
<1>3. GraphSignal(o) => \A u \in running : u.queue # q
  BY <1>1 DEF Reading, StartList, SignalFence, WaitForFence, GraphSignal
<1>4. ASSUME o.op = "wait", NEW x \in Queues, NEW k \in SignalsIn(pending, x)
      PROVE  o.val < pending[x][k].val
  <2>. DEFINE a == o.val
              b == pending[x][k].val
  <2>1. AllQueued(pending) /\ 1 \in DOMAIN pending[q] /\ k \in DOMAIN pending[x]
    BY <1>1 DEF Popped, SignalsIn
  <2>2. a \in Nat /\ b \in Nat /\ fence \in Nat
    BY <2>1, PlaceIs DEF TypeInv, FencesTyped
  <2>3. a <= fence
    BY <1>4, FencePopped
  <2>4. fence < b
    BY DEF FenceInv, Ahead
  <2>. HIDE DEF a, b
  <2>5. a < b
    BY <2>2, <2>3, <2>4
  <2>. QED
    BY <2>5 DEF a, b
<1>. QED
  BY <1>1, <1>2, <1>3, <1>4 DEF Proceeds

(* A list that is still queued after the step was queued before it.        *)
LEMMA ListPopped ==
  ASSUME NEW p, NEW p2, NEW q \in Queues, Popped(p, p2, q),
         NEW x \in Queues, NEW i \in ListsIn(p2, x)
  PROVE  /\ i + Moved(q, x) \in ListsIn(p, x) /\ p2[x][i] = p[x][i + Moved(q, x)]
         /\ i \in Nat \ {0} /\ i + Moved(q, x) \in Nat \ {0}
<1>1. i \in DOMAIN p2[x] /\ GraphList(p2[x][i])
  BY DEF ListsIn
<1>2. i + Moved(q, x) \in DOMAIN p[x] /\ p2[x][i] = p[x][i + Moved(q, x)]
  BY <1>1 DEF Popped
<1>3. i \in Nat \ {0}
  BY <1>1, PlaceIs DEF Popped
<1>4. i + Moved(q, x) \in Nat \ {0}
  BY <1>3 DEF Moved
<1>. QED
  BY <1>1, <1>2, <1>3, <1>4 DEF ListsIn

(* A list in the longer queues was there or is issued.                     *)
LEMMA ListIssued ==
  ASSUME NEW p, NEW p2, NEW s, NEW m, NEW fr, NEW sl, Issued(p, p2, s, m, fr, sl),
         NEW x \in Queues, NEW i \in ListsIn(p2, x)
  PROVE  \/ i \in ListsIn(p, x) /\ p2[x][i] = p[x][i]
         \/ \E n \in PlacesOf(s, x, "list") :
              i = Len(p[x]) + n /\ p2[x][i] = IssuedOp(s[x][n], m, fr, sl)
<1>1. i \in DOMAIN p2[x] /\ GraphList(p2[x][i])
  BY DEF ListsIn
<1>2. CASE i \in DOMAIN p[x] /\ p2[x][i] = p[x][i]
  BY <1>1, <1>2 DEF ListsIn
<1>3. ASSUME NEW n \in DOMAIN s[x], i = Len(p[x]) + n, p2[x][i] = IssuedOp(s[x][n], m, fr, sl)
      PROVE  n \in PlacesOf(s, x, "list")
  BY <1>1, <1>3 DEF IssuedOp, GraphList, PlacesOf
<1>. QED
  BY <1>1, <1>2, <1>3, OldOrNew

-----------------------------------------------------------------------------
(* The last value of the graph's fence                                     *)

(* Behind every list of the graph, queued or running, a signal is queued.  *)
SignalsFollow ==
  /\ \A q \in Queues : \A i \in ListsIn(pending, q) : \E k \in SignalsIn(pending, q) : i < k
  /\ \A o \in RunningLists : SignalsIn(pending, o.queue) # {}

(* Reading a queue keeps it: no signal is given before its lists finish.   *)
LEMMA FollowPopped ==
  ASSUME TypeInv, SignalsFollow, NEW q \in Queues, Proceeds(q)
  PROVE  SignalsFollow'
<1>1. Popped(pending, pending', q) /\ AllQueued(pending)
  BY DEF Proceeds, Popped
<1>2. ASSUME NEW x \in Queues, NEW k \in SignalsIn(pending, x), ~(x = q /\ k = 1)
      PROVE  k - Moved(q, x) \in SignalsIn(pending', x)
  BY <1>1, <1>2, PoppedPlace DEF SignalsIn
<1>3. ASSUME NEW x \in Queues, NEW i \in ListsIn(pending', x)
      PROVE  \E k \in SignalsIn(pending', x) : i < k
  <2>. DEFINE d == Moved(q, x)
  <2>1. i + d \in ListsIn(pending, x) /\ i \in Nat \ {0} /\ d \in {0, 1}
    BY <1>1, ListPopped DEF Moved
  <2>2. PICK k \in SignalsIn(pending, x) : i + d < k
    BY <2>1 DEF SignalsFollow
  <2>3. k \in Nat
    BY <1>1, PlaceIs DEF SignalsIn
  <2>. HIDE DEF d
  <2>4. k # 1 /\ i < k - d
    BY <2>1, <2>2, <2>3
  <2>5. k - d \in SignalsIn(pending', x)
    BY <1>2, <2>4 DEF d
  <2>. QED
    BY <2>4, <2>5
<1>4. ASSUME NEW o \in running', GraphList(o) PROVE SignalsIn(pending', o.queue) # {}
  <2>1. CASE o \in running
    <3>1. o.queue \in Queues
      BY <2>1 DEF TypeInv, RunningTyped, Operations
    <3>2. PICK k \in SignalsIn(pending, o.queue) : TRUE
      BY <1>4, <2>1 DEF SignalsFollow, RunningLists
    <3>3. ~(o.queue = q /\ k = 1)
      BY <2>1, <3>2 DEF Proceeds, SignalsIn
    <3>. QED
      BY <1>2, <3>1, <3>2, <3>3
  <2>2. CASE o = pending[q][1]
    <3>1. 1 \in ListsIn(pending, q) /\ o.queue = q
      BY <1>1, <1>4, <2>2, PlaceIs DEF Popped, ListsIn
    <3>2. PICK k \in SignalsIn(pending, q) : 1 < k
      BY <3>1 DEF SignalsFollow
    <3>3. k # 1
      BY <3>2
    <3>. QED
      BY <1>2, <3>1, <3>3
  <2>. QED
    BY <1>4, <2>1, <2>2 DEF Proceeds
<1>. QED
  BY <1>3, <1>4 DEF SignalsFollow, RunningLists

(* Every step keeps it, if a signal comes behind every list submitted.     *)
LEMMA FollowStep ==
  ASSUME TypeInv, TypeInv', FenceInv, SignalsFollow, ~dirty' => ListsSignalled', [Next]_vars
  PROVE  SignalsFollow'
<1>1. ASSUME Extends(pending, pending'), running' = running,
             \A q \in Queues : \A i \in ListsIn(pending', q) :
               \/ i \in ListsIn(pending, q)
               \/ \E k \in SignalsIn(pending', q) : i < k
      PROVE  SignalsFollow'
  <2>1. ASSUME NEW q \in Queues PROVE SignalsIn(pending, q) \subseteq SignalsIn(pending', q)
    BY <1>1 DEF Extends, SignalsIn
  <2>2. \A q \in Queues : \A i \in ListsIn(pending', q) : \E k \in SignalsIn(pending', q) : i < k
    BY <1>1, <2>1 DEF SignalsFollow
  <2>3. \A o \in running' : o.queue \in Queues
    BY <1>1 DEF TypeInv, RunningTyped, Operations
  <2>. QED
    BY <1>1, <2>1, <2>2, <2>3 DEF SignalsFollow, RunningLists
<1>2. CASE ExecuteAndSubmit
  <2>. DEFINE s == Submission(plan').ops
  <2>1. Issued(pending, pending', s, maxFence, currentFenceVal + 1, currentFrameIndex)
    BY <1>2, ExecuteIs
  <2>2. ~dirty' /\ running' = running
    BY <1>2 DEF ExecuteAndSubmit
  <2>3. \A q \in Queues : \A n \in PlacesOf(s, q, "list") : \E k \in PlacesOf(s, q, "signal") : n < k
    BY <2>2 DEF ListsSignalled
  <2>. HIDE DEF s
  <2>4. ASSUME NEW q \in Queues, NEW n \in PlacesOf(s, q, "list")
        PROVE  \E e \in SignalsIn(pending', q) : Len(pending[q]) + n < e
    <3>1. PICK k \in PlacesOf(s, q, "signal") : n < k
      BY <2>3
    <3>2. n \in DOMAIN s[q] /\ k \in DOMAIN s[q] /\ s[q][k].op = "signal"
      BY DEF PlacesOf
    <3>. DEFINE L == Len(pending[q])
    <3>3. /\ n \in Nat /\ k \in Nat /\ L + k \in DOMAIN pending'[q]
          /\ pending'[q][L + k] = IssuedOp(s[q][k], maxFence, currentFenceVal + 1, currentFrameIndex)
      BY <2>1, <3>2, NewPlace
    <3>4. L + k \in SignalsIn(pending', q)
      BY <3>2, <3>3 DEF SignalsIn, GraphSignal, IssuedOp
    <3>5. L \in Nat
      BY <2>1, PlaceIs DEF Issued
    <3>. HIDE DEF L
    <3>6. L + n < L + k
      BY <3>1, <3>3, <3>5
    <3>. QED
      BY <3>4, <3>6 DEF L
  <2>5. \A q \in Queues : \A i \in ListsIn(pending', q) :
          i \in ListsIn(pending, q) \/ \E k \in SignalsIn(pending', q) : i < k
    BY <2>1, <2>4, ListIssued
  <2>. QED
    BY <1>1, <2>1, <2>2, <2>5, IssuedExtends
<1>3. CASE EndFrame
  <2>1. FrameEnded(pending, pending', currentFenceVal + 1) /\ running' = running
    BY <1>3, EndFrameIs DEF EndFrame
  <2>2. \A q \in Queues : \A i \in ListsIn(pending', q) : i \in ListsIn(pending, q)
    BY <2>1, FrameEndedSignals
  <2>. QED
    BY <1>1, <2>1, <2>2 DEF FrameEnded
<1>4. ASSUME NEW q \in Queues, Reading(q) PROVE SignalsFollow'
  BY <1>4, ReadingIs, FollowPopped
<1>5. ASSUME pending' = pending, running' \subseteq running PROVE SignalsFollow'
  BY <1>5 DEF SignalsFollow, RunningLists
<1>6. CASE FrameWait
  BY <1>5, <1>6 DEF FrameWait
<1>7. CASE FinishList
  BY <1>5, <1>7 DEF FinishList
<1>8. CASE UNCHANGED vars
  BY <1>5, <1>8 DEF vars
<1>. QED
  BY <1>2, <1>3, <1>4, <1>6, <1>7, <1>8 DEF Next, Gpu, Reading

(* GraphFenceCoversAll: on a graph whose signals are ordered and come       *)
(* behind every list, no list of it is queued or runs once the fence has    *)
(* reached maxFence, which is all ~RenderGraph waits for.                   *)
THEOREM FenceCoversGraph ==
  Spec /\ [](~dirty => SignalsOrdered) /\ [](~dirty => ListsSignalled) => []GraphFenceCoversAll
<1>1. Init => TypeInv /\ FenceInv /\ SignalsFollow
  <2>1. Init => SignalsFollow
    BY DEF Init, SignalsFollow, ListsIn, RunningLists
  <2>. QED
    BY <2>1, TypeInvInit, FenceInvInit
<1>2. TypeInv /\ [Next]_vars => TypeInv'
  BY TypeInvStep
<1>3. TypeInv /\ TypeInv' /\ FenceInv /\ (~dirty => SignalsOrdered)' /\ [Next]_vars => FenceInv'
  BY FenceInvStep
<1>4. TypeInv /\ TypeInv' /\ FenceInv /\ SignalsFollow /\ (~dirty => ListsSignalled)' /\ [Next]_vars
        => SignalsFollow'
  BY FollowStep
<1>5. TypeInv /\ FenceInv /\ SignalsFollow => GraphFenceCoversAll
  <2>1. SUFFICES ASSUME TypeInv, FenceInv, SignalsFollow, fence >= maxFence,
                        NEW o \in GraphLists(UnfinishedLists)
                 PROVE  FALSE
    BY DEF GraphFenceCoversAll
  <2>2. o \in Unfinished /\ GraphList(o)
    BY DEF GraphLists, UnfinishedLists, GraphList
  <2>3. \E q \in Queues : SignalsIn(pending, q) # {}
    <3>1. CASE o \in running
      <4>1. o.queue \in Queues
        BY <2>1, <3>1 DEF TypeInv, RunningTyped, Operations
      <4>. QED
        BY <2>1, <2>2, <3>1, <4>1 DEF SignalsFollow, RunningLists
    <3>2. ASSUME NEW q \in Queues, NEW i \in DOMAIN pending[q], o = pending[q][i]
          PROVE  \E x \in Queues : SignalsIn(pending, x) # {}
      <4>1. i \in ListsIn(pending, q)
        BY <2>2, <3>2 DEF ListsIn
      <4>. QED
        BY <2>1, <4>1 DEF SignalsFollow
    <3>. QED
      BY <2>2, <3>1, <3>2 DEF Unfinished
  <2>4. PICK q \in Queues : SignalsIn(pending, q) # {}
    BY <2>3
  <2>5. PICK k \in SignalsIn(pending, q) : TRUE
    BY <2>4
  <2>. DEFINE v == pending[q][k].val
  <2>6. fence < v /\ v <= maxFence
    BY <2>1 DEF FenceInv, Ahead
  <2>7. v \in Nat /\ fence \in Nat /\ maxFence \in Nat
    BY <2>1, PlaceIs DEF SignalsIn, TypeInv, PendingTyped, FencesTyped, CpuTyped
  <2>. HIDE DEF v
  <2>. QED
    BY <2>1, <2>6, <2>7
<1>. QED
  BY <1>1, <1>2, <1>3, <1>4, <1>5, PTL DEF Spec

-----------------------------------------------------------------------------
(* The frames of the lists                                                 *)

GraphLeft == {o \in Unfinished : GraphList(o)}

(* A list of the graph that is left runs or stands in a queue.             *)
LEMMA LeftIs ==
  ASSUME TypeInv
  PROVE  /\ \A o \in GraphLeft : /\ o \in Operations
                                 /\ \/ o \in RunningLists
                                    \/ \E i \in ListsIn(pending, o.queue) : o = pending[o.queue][i]
         /\ \A q \in Queues : \A i \in ListsIn(pending, q) :
              pending[q][i] \in GraphLeft /\ pending[q][i].queue = q
         /\ RunningLists \subseteq GraphLeft
<1>1. AllQueued(pending)
  BY DEF TypeInv, PendingTyped
<1>2. ASSUME NEW q \in Queues, NEW i \in ListsIn(pending, q)
      PROVE  pending[q][i] \in GraphLeft /\ pending[q][i].queue = q
  <2>1. i \in DOMAIN pending[q] /\ GraphList(pending[q][i])
    BY DEF ListsIn
  <2>. QED
    BY <1>1, <2>1, PlaceIs DEF GraphLeft, Unfinished
<1>3. RunningLists \subseteq GraphLeft
  BY DEF RunningLists, GraphLeft, Unfinished
<1>4. ASSUME NEW o \in GraphLeft
      PROVE  /\ o \in Operations
             /\ \/ o \in RunningLists
                \/ \E i \in ListsIn(pending, o.queue) : o = pending[o.queue][i]
  <2>1. GraphList(o) /\ o \in Unfinished
    BY DEF GraphLeft
  <2>2. CASE o \in running
    BY <2>1, <2>2 DEF RunningLists, TypeInv, RunningTyped
  <2>3. ASSUME NEW q \in Queues, NEW i \in DOMAIN pending[q], o = pending[q][i]
        PROVE  o \in Operations /\ o.queue = q /\ i \in ListsIn(pending, q)
    <3>1. o \in Operations /\ o.queue = q
      BY <1>1, <2>3, PlaceIs
    <3>. QED
      BY <2>1, <2>3, <3>1 DEF ListsIn
  <2>. QED
    BY <2>1, <2>2, <2>3 DEF Unfinished
<1>. QED
  BY <1>2, <1>3, <1>4

(* Only ExecuteAndSubmit adds to the lists that are left.                  *)
LEMMA LeftPopped ==
  ASSUME TypeInv, NEW q \in Queues, Proceeds(q)
  PROVE  GraphLeft' \subseteq GraphLeft
<1>1. SUFFICES ASSUME NEW o \in GraphLeft' PROVE o \in Unfinished
  BY DEF GraphLeft
<1>2. CASE o \in running'
  <2>1. o \in running \/ o = pending[q][1]
    BY <1>2 DEF Proceeds
  <2>. QED
    BY <2>1 DEF Proceeds, Popped, Unfinished
<1>3. ASSUME NEW x \in Queues, NEW i \in DOMAIN pending'[x], o = pending'[x][i]
      PROVE  o \in Unfinished
  BY <1>3 DEF Proceeds, Popped, Unfinished
<1>. QED
  BY <1>2, <1>3 DEF GraphLeft, Unfinished

(* ... so that without it none comes to be left.                           *)
LEMMA LeftShrinks ==
  ASSUME TypeInv, TypeInv', FenceInv, [Next]_vars, ~ExecuteAndSubmit
  PROVE  GraphLeft' \subseteq GraphLeft
<1>1. CASE EndFrame
  <2>1. FrameEnded(pending, pending', currentFenceVal + 1) /\ running' = running
    BY <1>1, EndFrameIs DEF EndFrame
  <2>2. ASSUME NEW o \in GraphLeft' PROVE o \in Unfinished
    <3>1. CASE o \in running'
      BY <2>1, <3>1 DEF Unfinished
    <3>2. ASSUME NEW x \in Queues, NEW i \in DOMAIN pending'[x], o = pending'[x][i]
          PROVE  o \in Unfinished
      <4>1. i \in ListsIn(pending', x)
        BY <3>2 DEF ListsIn, GraphLeft
      <4>2. i \in DOMAIN pending[x] /\ o = pending[x][i]
        BY <2>1, <3>2, <4>1, FrameEndedSignals DEF ListsIn
      <4>. QED
        BY <4>2 DEF Unfinished
    <3>. QED
      BY <3>1, <3>2 DEF GraphLeft, Unfinished
  <2>. QED
    BY <2>2 DEF GraphLeft
<1>2. ASSUME NEW q \in Queues, Reading(q) PROVE GraphLeft' \subseteq GraphLeft
  BY <1>2, ReadingIs, LeftPopped
<1>3. ASSUME pending' = pending, running' \subseteq running
      PROVE  GraphLeft' \subseteq GraphLeft
  BY <1>3 DEF GraphLeft, Unfinished
<1>4. CASE FrameWait
  BY <1>3, <1>4 DEF FrameWait
<1>5. CASE FinishList
  BY <1>3, <1>5 DEF FinishList
<1>6. CASE UNCHANGED vars
  BY <1>3, <1>6 DEF vars
<1>. QED
  BY <1>1, <1>2, <1>4, <1>5, <1>6 DEF Next, Gpu, Reading

(* What ExecuteAndSubmit adds is of the frame and slot that are current.   *)
LEMMA LeftIssued ==
  ASSUME TypeInv, TypeInv', ExecuteAndSubmit, NEW o \in GraphLeft'
  PROVE  \/ o \in GraphLeft
         \/ o.frame = currentFenceVal + 1 /\ o.slot = currentFrameIndex
<1>1. /\ Issued(pending, pending', Submission(plan').ops, maxFence,
                currentFenceVal + 1, currentFrameIndex)
      /\ running' = running
  BY ExecuteIs DEF ExecuteAndSubmit
<1>2. CASE o \in running'
  BY <1>1, <1>2 DEF GraphLeft, Unfinished
<1>3. ASSUME NEW x \in Queues, NEW i \in DOMAIN pending'[x], o = pending'[x][i]
      PROVE  \/ o \in GraphLeft
             \/ o.frame = currentFenceVal + 1 /\ o.slot = currentFrameIndex
  <2>1. i \in ListsIn(pending', x)
    BY <1>3 DEF ListsIn, GraphLeft
  <2>2. CASE i \in ListsIn(pending, x) /\ pending'[x][i] = pending[x][i]
    BY <1>3, <2>2, LeftIs
  <2>3. CASE \E n \in PlacesOf(Submission(plan').ops, x, "list") :
               pending'[x][i] = IssuedOp(Submission(plan').ops[x][n], maxFence,
                                         currentFenceVal + 1, currentFrameIndex)
    BY <1>3, <2>3 DEF IssuedOp
  <2>. QED
    BY <1>1, <2>1, <2>2, <2>3, ListIssued
<1>. QED
  BY <1>2, <1>3 DEF GraphLeft, Unfinished

(* A list left is of a frame whose value its slot still holds, or has been *)
(* overtaken by; or of the frame that has been submitted but not ended.    *)
OfFrame(o) ==
  \/ o.frame <= currentFenceVal /\ o.frame <= fence_vals[o.slot]
  \/ pc = "endFrame" /\ o.frame = currentFenceVal + 1 /\ o.slot = currentFrameIndex
FramesKnown ==
  /\ \A o \in GraphLeft : ~dirty /\ OfFrame(o)
  /\ \A i \in Slots : fence_vals[i] <= currentFenceVal

(* Every step keeps it.                                                    *)
LEMMA FramesStep ==
  ASSUME TypeInv, TypeInv', FenceInv, FramesKnown, [Next]_vars
  PROVE  FramesKnown'
<1>1. ASSUME NEW o \in GraphLeft PROVE o.slot \in Slots /\ o.frame \in Nat
  <2>1. o \in Operations
    BY LeftIs
  <2>2. o.slot \in Slots /\ o.frame \in 1 .. MaxFrames
    BY <2>1 DEF Operations
  <2>. DEFINE f == o.frame
  <2>3. f \in 1 .. MaxFrames
    BY <2>2
  <2>. HIDE DEF f
  <2>4. f \in Nat
    BY <2>3, FramesAssumption
  <2>. QED
    BY <2>2, <2>4 DEF f
<1>2. /\ currentFenceVal \in Nat /\ fence_vals \in [Slots -> 0 .. MaxFrames]
      /\ \A i \in Slots : fence_vals[i] \in Nat
      /\ currentFrameIndex \in Slots
  <2>1. CpuTyped
    BY DEF TypeInv
  <2>. QED
    BY <2>1, FramesAssumption DEF CpuTyped
<1>3. CASE ExecuteAndSubmit
  <2>1. pc = "record" /\ pc' = "endFrame" /\ ~dirty'
        /\ UNCHANGED <<currentFrameIndex, currentFenceVal, fence_vals>>
    BY <1>3 DEF ExecuteAndSubmit
  <2>2. ASSUME NEW o \in GraphLeft' PROVE OfFrame(o)'
    <3>1. CASE o \in GraphLeft
      BY <2>1, <3>1 DEF FramesKnown, OfFrame
    <3>2. CASE o.frame = currentFenceVal + 1 /\ o.slot = currentFrameIndex
      BY <2>1, <3>2 DEF OfFrame
    <3>. QED
      BY <1>3, <3>1, <3>2, LeftIssued
  <2>. QED
    BY <2>1, <2>2 DEF FramesKnown
<1>4. CASE EndFrame
  <2>1. /\ currentFenceVal' = currentFenceVal + 1 /\ dirty' = dirty
        /\ fence_vals' = [fence_vals EXCEPT ![currentFrameIndex] = currentFenceVal + 1]
    BY <1>4 DEF EndFrame
  <2>2. GraphLeft' \subseteq GraphLeft
    <3>1. ~ExecuteAndSubmit
      BY <1>4 DEF EndFrame, ExecuteAndSubmit
    <3>. QED
      BY <3>1, LeftShrinks
  <2>3. \A i \in Slots : fence_vals'[i] = IF i = currentFrameIndex THEN currentFenceVal + 1
                                                                   ELSE fence_vals[i]
    BY <1>2, <2>1
  <2>4. \A i \in Slots : fence_vals'[i] <= currentFenceVal'
    BY <1>2, <2>1, <2>3 DEF FramesKnown
  <2>5. ASSUME NEW o \in GraphLeft PROVE o.frame <= currentFenceVal' /\ o.frame <= fence_vals'[o.slot]
    <3>. DEFINE f == o.frame
                i == o.slot
    <3>1. \/ f <= currentFenceVal /\ f <= fence_vals[i]
          \/ f = currentFenceVal + 1 /\ i = currentFrameIndex
      BY DEF FramesKnown, OfFrame
    <3>2. f \in Nat /\ i \in Slots
      BY <1>1
    <3>. HIDE DEF f, i
    <3>3. f <= currentFenceVal' /\ f <= fence_vals'[i]
      BY <1>2, <2>1, <2>3, <3>1, <3>2
    <3>. QED
      BY <3>3 DEF f, i
  <2>. QED
    BY <2>1, <2>2, <2>4, <2>5 DEF FramesKnown, OfFrame
<1>5. ASSUME UNCHANGED <<currentFenceVal, fence_vals, dirty>>,
             pc = "endFrame" => pc' = pc /\ currentFrameIndex' = currentFrameIndex,
             ~ExecuteAndSubmit
      PROVE  FramesKnown'
  <2>1. GraphLeft' \subseteq GraphLeft
    BY <1>5, LeftShrinks
  <2>2. ASSUME NEW o \in GraphLeft PROVE OfFrame(o)'
    BY <1>5 DEF FramesKnown, OfFrame
  <2>. QED
    BY <1>5, <2>1, <2>2 DEF FramesKnown
<1>6. CASE FrameWait
  <2>1. pc = "frameWait" /\ UNCHANGED <<currentFenceVal, fence_vals, dirty>> /\ ~ExecuteAndSubmit
    BY <1>6 DEF FrameWait, ExecuteAndSubmit
  <2>. QED
    BY <1>5, <2>1
<1>7. CASE UNCHANGED cpuVars
  <2>1. ~ExecuteAndSubmit
    BY <1>7 DEF cpuVars, ExecuteAndSubmit
  <2>. QED
    BY <1>5, <1>7, <2>1 DEF cpuVars
<1>. QED
  BY <1>3, <1>4, <1>6, <1>7
     DEF Next, Gpu, FinishList, StartList, SignalFence, WaitForFence, vars

-----------------------------------------------------------------------------
(* The inputs of running lists                                             *)

(* List u makes an input of list o of the same frame.                      *)
InputOf(pl, u, o) ==
  \E d \in pl.deps : /\ d.queue = o.queue /\ d.pass \in LevelPasses(pl, o.queue, o.level)
                     /\ d.on = u.queue /\ d.from \in LevelPasses(pl, u.queue, u.level)
Feeding(pl, u, o) == u.frame = o.frame /\ InputOf(pl, u, o)

(* Feeds, with the plan as a parameter.                                    *)
LEMMA FeedingIs ==
  ASSUME NEW u, NEW o
  PROVE  Feeding(plan, u, o) <=> u.frame = o.frame /\ Feeds(u, o)
BY DEF Feeding, InputOf, Feeds, PassesOf

(* A list waits for those of the other queue that feed it, queued or       *)
(* running, and none of them is left when it runs.                         *)
FeedersOver ==
  /\ \A x, y \in Queues : \A i \in ListsIn(pending, x), j \in ListsIn(pending, y) :
       (x # y /\ Feeding(plan, pending[x][i], pending[y][j])) => Behind(pending, x, i, y, j)
  /\ \A u \in RunningLists : \A y \in Queues : \A j \in ListsIn(pending, y) :
       (u.queue # y /\ Feeding(plan, u, pending[y][j])) => Behind(pending, u.queue, 1, y, j)
  /\ \A o \in RunningLists : \A u \in GraphLeft : u.queue # o.queue => ~Feeding(plan, u, o)

(* What the running lists of x are waited for is not changed by a read.    *)
LEMMA RunningBehind ==
  ASSUME TypeInv, NEW q \in Queues, Proceeds(q),
         NEW x \in Queues, NEW y \in Queues, NEW j \in Nat,
         x = q => ~GraphSignal(pending[q][1]),
         Behind(pending, x, 1, y, j + Moved(q, y))
  PROVE  Behind(pending', x, 1, y, j)
<1>1. Popped(pending, pending', q) /\ AllQueued(pending)
  BY DEF Proceeds, Popped
<1>2. j + Moved(q, y) \in Nat
  BY DEF Moved
<1>3. Behind(pending, x, 1 + Moved(q, x), y, j + Moved(q, y))
  <2>1. CASE x = q
    <3>1. Behind(pending, x, 2, y, j + Moved(q, y))
      BY <1>1, <1>2, <2>1, BehindNext
    <3>. QED
      BY <2>1, <3>1 DEF Moved
  <2>2. CASE x # q
    BY <2>2 DEF Moved
  <2>. QED
    BY <2>1, <2>2
<1>4. pending[q][1].op = "wait" =>
        \A k \in DOMAIN pending[x] : GraphSignal(pending[x][k]) => pending[q][1].val < pending[x][k].val
  BY DEF Proceeds, SignalsIn
<1>. QED
  BY <1>1, <1>3, <1>4, BehindPopped

(* So is what the queued ones are waited for.                              *)
LEMMA QueuedBehind ==
  ASSUME NEW q \in Queues, Proceeds(q),
         NEW x \in Queues, NEW y \in Queues, NEW i \in Nat \ {0}, NEW j \in Nat,
         Behind(pending, x, i + Moved(q, x), y, j + Moved(q, y))
  PROVE  Behind(pending', x, i, y, j)
<1>1. Popped(pending, pending', q)
  BY DEF Proceeds
<1>2. pending[q][1].op = "wait" =>
        \A k \in DOMAIN pending[x] : GraphSignal(pending[x][k]) => pending[q][1].val < pending[x][k].val
  BY DEF Proceeds, SignalsIn
<1>. QED
  BY <1>1, <1>2, BehindPopped

(* A queue starts a list only when all that is waited for is over.         *)
LEMMA FeedersPopped ==
  ASSUME TypeInv, TypeInv', FeedersOver, NEW q \in Queues, Proceeds(q), plan' = plan
  PROVE  FeedersOver'
<1>. DEFINE h == pending[q][1]
<1>1. /\ Popped(pending, pending', q) /\ AllQueued(pending) /\ 1 \in DOMAIN pending[q]
      /\ h.queue = q /\ (running' = running \/ (h.op = "list" /\ running' = running \cup {h}))
  BY PlaceIs DEF Proceeds, Popped
<1>2. plan' = plan
  OBVIOUS
<1>3. ASSUME NEW u \in RunningLists' PROVE u \in RunningLists \/ (u = h /\ 1 \in ListsIn(pending, q))
  BY <1>1 DEF RunningLists, ListsIn, GraphList
<1>4. ASSUME NEW x \in Queues, NEW y \in Queues,
             NEW i \in ListsIn(pending', x), NEW j \in ListsIn(pending', y),
             x # y, Feeding(plan, pending'[x][i], pending'[y][j])
      PROVE  Behind(pending', x, i, y, j)
  <2>1. /\ i + Moved(q, x) \in ListsIn(pending, x) /\ pending'[x][i] = pending[x][i + Moved(q, x)]
        /\ j + Moved(q, y) \in ListsIn(pending, y) /\ pending'[y][j] = pending[y][j + Moved(q, y)]
        /\ i \in Nat \ {0} /\ j \in Nat
    BY <1>1, ListPopped
  <2>2. Behind(pending, x, i + Moved(q, x), y, j + Moved(q, y))
    BY <1>4, <2>1 DEF FeedersOver
  <2>. QED
    BY <2>1, <2>2, QueuedBehind
<1>5. ASSUME NEW u \in RunningLists', NEW y \in Queues, NEW j \in ListsIn(pending', y),
             u.queue # y, Feeding(plan, u, pending'[y][j])
      PROVE  Behind(pending', u.queue, 1, y, j)
  <2>1. /\ j + Moved(q, y) \in ListsIn(pending, y) /\ pending'[y][j] = pending[y][j + Moved(q, y)]
        /\ j \in Nat
    BY <1>1, ListPopped
  <2>2. CASE u \in RunningLists
    <3>1. u.queue \in Queues
      BY <2>2 DEF RunningLists, TypeInv, RunningTyped, Operations
    <3>2. Behind(pending, u.queue, 1, y, j + Moved(q, y))
      BY <1>5, <2>1, <2>2 DEF FeedersOver
    <3>3. u.queue = q => ~GraphSignal(pending[q][1])
      BY <2>2 DEF Proceeds, RunningLists
    <3>. QED
      BY <2>1, <3>1, <3>2, <3>3, RunningBehind
  <2>3. CASE u = h /\ 1 \in ListsIn(pending, q)
    <3>1. u.queue = q
      BY <1>1, <2>3
    <3>2. Behind(pending, q, 1, y, j + Moved(q, y))
      BY <1>5, <2>1, <2>3, <3>1 DEF FeedersOver
    <3>3. ~GraphSignal(pending[q][1])
      BY <2>3 DEF ListsIn, GraphList, GraphSignal
    <3>4. Behind(pending', q, 1, y, j)
      BY <2>1, <3>2, <3>3, RunningBehind
    <3>. QED
      BY <3>1, <3>4
  <2>. QED
    BY <1>3, <2>2, <2>3
<1>6. ASSUME NEW o \in RunningLists', NEW u \in GraphLeft', u.queue # o.queue, Feeding(plan, u, o)
      PROVE  FALSE
  <2>1. u \in GraphLeft
    BY LeftPopped
  <2>2. CASE o \in RunningLists
    BY <1>6, <2>1, <2>2 DEF FeedersOver
  <2>3. CASE o = h /\ 1 \in ListsIn(pending, q)
    <3>1. o.queue = q /\ pending[q][1].op # "wait"
      BY <1>1, <2>3 DEF ListsIn, GraphList
    <3>2. CASE u \in RunningLists
      <4>1. u.queue \in Queues
        BY <3>2 DEF RunningLists, TypeInv, RunningTyped, Operations
      <4>2. Behind(pending, u.queue, 1, q, 1)
        BY <1>6, <2>3, <3>1, <3>2 DEF FeedersOver
      <4>. QED
        BY <1>1, <3>1, <4>1, <4>2, NotBehindFirst
    <3>3. ASSUME NEW i \in ListsIn(pending, u.queue), u = pending[u.queue][i] PROVE FALSE
      <4>1. u.queue \in Queues
        BY <2>1, LeftIs DEF Operations
      <4>2. Behind(pending, u.queue, i, q, 1)
        BY <1>6, <2>3, <3>1, <3>3, <4>1 DEF FeedersOver
      <4>3. i \in Nat
        BY <1>1, <4>1, PlaceIs DEF ListsIn
      <4>. QED
        BY <1>1, <3>1, <4>1, <4>2, <4>3, NotBehindFirst
    <3>. QED
      BY <2>1, <3>2, <3>3, LeftIs
  <2>. QED
    BY <1>3, <2>2, <2>3
<1>. QED
  BY <1>2, <1>4, <1>5, <1>6 DEF FeedersOver

(* A list left from before is not of the frame that is being recorded.     *)
LEMMA OldFrames ==
  ASSUME TypeInv, FramesKnown, pc = "record", NEW o \in GraphLeft
  PROVE  o.frame # currentFenceVal + 1
<1>1. o.frame <= currentFenceVal
  BY DEF FramesKnown, OfFrame
<1>2. o \in Operations
  BY LeftIs
<1>3. currentFenceVal \in Nat
  BY FramesAssumption DEF TypeInv, CpuTyped
<1>4. o.frame \in 1 .. MaxFrames
  BY <1>2 DEF Operations
<1>. DEFINE f == o.frame
<1>5. f \in Nat /\ f <= currentFenceVal
  BY <1>1, <1>4, FramesAssumption
<1>. HIDE DEF f
<1>6. f # currentFenceVal + 1
  BY <1>3, <1>5
<1>. QED
  BY <1>6 DEF f

(* Submitting keeps it: a list that is new waits for those of its frame.   *)
LEMMA FeedersIssued ==
  ASSUME TypeInv, TypeInv', FramesKnown, FeedersOver, ExecuteAndSubmit, ProducersAwaited'
  PROVE  FeedersOver'
<1>. DEFINE s == Submission(plan').ops
            fr == currentFenceVal + 1
            sl == currentFrameIndex
            New(x, i) == \E n \in PlacesOf(s, x, "list") :
                           i = Len(pending[x]) + n /\ pending'[x][i] = IssuedOp(s[x][n], maxFence, fr, sl)
            Old(x, i) == i \in ListsIn(pending, x) /\ pending'[x][i] = pending[x][i]
<1>1. Issued(pending, pending', s, maxFence, fr, sl)
  BY ExecuteIs
<1>2. pc = "record" /\ running' = running /\ (~dirty => plan' = plan) /\ maxFence \in Nat
  BY DEF ExecuteAndSubmit, TypeInv, CpuTyped, FencesTyped
<1>3. \A x, y \in Queues : \A i \in PlacesOf(s, x, "list"), j \in PlacesOf(s, y, "list") :
        (x # y /\ InputOf(plan', s[x][i], s[y][j])) => WaitedFor(s, x, i, y, j)
  BY DEF ProducersAwaited, Feeds, PassesOf, InputOf
<1>4. \A x \in Queues : \A i \in ListsIn(pending', x) : Old(x, i) \/ New(x, i)
  BY <1>1, ListIssued
<1>5. Extends(pending, pending')
  BY <1>1, IssuedExtends
<1>6. \A o \in GraphLeft : o.frame # fr /\ ~dirty
  BY <1>2, OldFrames DEF FramesKnown
<1>7. \A x \in Queues : \A i : Old(x, i) => pending[x][i] \in GraphLeft /\ pending'[x][i].frame # fr
  BY <1>6, LeftIs
<1>8. \A x \in Queues : \A i : New(x, i) => pending'[x][i].frame = fr
  BY DEF IssuedOp
<1>9. \A q \in Queues : \A i \in ListsIn(pending', q) : i \in DOMAIN pending'[q] /\ i \in Nat
  BY <1>1, PlaceIs DEF Issued, ListsIn
<1>10. \A q \in Queues : \A i \in ListsIn(pending, q) : i \in Nat
  BY <1>1, PlaceIs DEF Issued, ListsIn
<1>11. AllQueued(pending) /\ AllQueued(pending')
  BY <1>1 DEF Issued
<1>12. \A o \in RunningLists : o \in GraphLeft /\ o.queue \in Queues
  BY LeftIs DEF Operations
<1>. HIDE DEF s, fr, sl
<1>13. ASSUME NEW x \in Queues, NEW y \in Queues,
              NEW i \in ListsIn(pending', x), NEW j \in ListsIn(pending', y),
              x # y, Feeding(plan', pending'[x][i], pending'[y][j])
       PROVE  Behind(pending', x, i, y, j)
  <2>1. pending'[x][i].frame = pending'[y][j].frame
    BY <1>13 DEF Feeding
  <2>2. CASE Old(x, i) /\ Old(y, j)
    <3>1. plan' = plan
      BY <1>2, <1>6, <1>7, <2>2
    <3>2. Behind(pending, x, i, y, j)
      BY <1>13, <2>2, <3>1 DEF FeedersOver
    <3>3. i \in Nat /\ j \in Nat /\ j <= j
      BY <1>9
    <3>. QED
      BY <1>5, <1>11, <3>2, <3>3, BehindExtended
  <2>3. CASE New(x, i) /\ New(y, j)
    <3>1. PICK n \in PlacesOf(s, x, "list") :
            i = Len(pending[x]) + n /\ pending'[x][i] = IssuedOp(s[x][n], maxFence, fr, sl)
      BY <2>3
    <3>2. PICK k \in PlacesOf(s, y, "list") :
            j = Len(pending[y]) + k /\ pending'[y][j] = IssuedOp(s[y][k], maxFence, fr, sl)
      BY <2>3
    <3>3. InputOf(plan', s[x][n], s[y][k])
      BY <1>13, <3>1, <3>2 DEF Feeding, InputOf, IssuedOp
    <3>4. WaitedFor(s, x, n, y, k)
      BY <1>3, <1>13, <3>3
    <3>5. n \in Nat /\ k \in Nat
      BY <1>1, OpOfIs DEF Issued, PlacesOf
    <3>. QED
      BY <1>1, <1>2, <3>1, <3>2, <3>4, <3>5, IssuedBehind
  <2>. QED
    BY <1>4, <1>7, <1>8, <2>1, <2>2, <2>3
<1>14. ASSUME NEW u \in RunningLists', NEW y \in Queues, NEW j \in ListsIn(pending', y),
              u.queue # y, Feeding(plan', u, pending'[y][j])
       PROVE  Behind(pending', u.queue, 1, y, j)
  <2>1. u \in RunningLists /\ u.frame # fr /\ plan' = plan /\ u.queue \in Queues
    BY <1>2, <1>6, <1>12 DEF RunningLists
  <2>2. Old(y, j)
    BY <1>4, <1>8, <1>14, <2>1 DEF Feeding
  <2>3. Behind(pending, u.queue, 1, y, j)
    BY <1>14, <2>1, <2>2 DEF FeedersOver
  <2>4. j \in Nat /\ 1 \in Nat /\ j <= j
    BY <1>9
  <2>. QED
    BY <1>5, <1>11, <2>1, <2>3, <2>4, BehindExtended
<1>15. ASSUME NEW o \in RunningLists', NEW u \in GraphLeft', u.queue # o.queue,
              Feeding(plan', u, o)
       PROVE  FALSE
  <2>1. o \in RunningLists /\ o.frame # fr /\ plan' = plan
    BY <1>2, <1>6, <1>12 DEF RunningLists
  <2>2. u \in GraphLeft
    BY <1>15, <2>1, LeftIssued DEF Feeding, fr
  <2>. QED
    BY <1>15, <2>1, <2>2 DEF FeedersOver
<1>. QED
  BY <1>13, <1>14, <1>15 DEF FeedersOver

(* Every step keeps it, if lists wait for those that make their inputs.    *)
LEMMA FeedersStep ==
  ASSUME TypeInv, TypeInv', FenceInv, FramesKnown, FeedersOver,
         ~dirty' => ProducersAwaited', [Next]_vars
  PROVE  FeedersOver'
<1>1. CASE ExecuteAndSubmit
  BY <1>1, FeedersIssued DEF ExecuteAndSubmit
<1>2. ASSUME plan' = plan, running' \subseteq running, GraphLeft' \subseteq GraphLeft,
             AllQueued(pending), AllQueued(pending'), Extends(pending, pending'),
             \A q \in Queues : \A i \in ListsIn(pending', q) :
               i \in ListsIn(pending, q) /\ pending'[q][i] = pending[q][i]
      PROVE  FeedersOver'
  <2>1. \A q \in Queues : \A i \in ListsIn(pending', q) : i \in Nat /\ i <= i
    BY <1>2, PlaceIs DEF ListsIn
  <2>2. \A o \in RunningLists' : o \in RunningLists /\ o.queue \in Queues
    BY <1>2, LeftIs DEF RunningLists, TypeInv, RunningTyped, Operations
  <2>3. ASSUME NEW x \in Queues, NEW y \in Queues,
               NEW i \in ListsIn(pending', x), NEW j \in ListsIn(pending', y),
               x # y, Feeding(plan', pending'[x][i], pending'[y][j])
        PROVE  Behind(pending', x, i, y, j)
    <3>1. Behind(pending, x, i, y, j)
      BY <1>2, <2>3 DEF FeedersOver
    <3>. QED
      BY <1>2, <2>1, <3>1, BehindExtended
  <2>4. ASSUME NEW u \in RunningLists', NEW y \in Queues, NEW j \in ListsIn(pending', y),
               u.queue # y, Feeding(plan', u, pending'[y][j])
        PROVE  Behind(pending', u.queue, 1, y, j)
    <3>1. Behind(pending, u.queue, 1, y, j)
      BY <1>2, <2>2, <2>4 DEF FeedersOver
    <3>. QED
      BY <1>2, <2>1, <2>2, <3>1, BehindExtended
  <2>5. \A o \in RunningLists' : \A u \in GraphLeft' : u.queue # o.queue => ~Feeding(plan', u, o)
    BY <1>2, <2>2 DEF FeedersOver
  <2>. QED
    BY <2>3, <2>4, <2>5 DEF FeedersOver
<1>3. AllQueued(pending) /\ AllQueued(pending')
  BY DEF TypeInv, PendingTyped
<1>4. CASE EndFrame
  <2>1. FrameEnded(pending, pending', currentFenceVal + 1) /\ running' = running /\ plan' = plan
    BY <1>4, EndFrameIs DEF EndFrame
  <2>2. ~ExecuteAndSubmit
    BY <1>4 DEF EndFrame, ExecuteAndSubmit
  <2>3. GraphLeft' \subseteq GraphLeft
    BY <2>2, LeftShrinks
  <2>4. \A q \in Queues : \A i \in ListsIn(pending', q) :
          i \in ListsIn(pending, q) /\ pending'[q][i] = pending[q][i]
    BY <2>1, FrameEndedSignals
  <2>. QED
    BY <1>2, <1>3, <2>1, <2>3, <2>4 DEF FrameEnded
<1>5. ASSUME NEW q \in Queues, Reading(q) PROVE FeedersOver'
  <2>1. plan' = plan
    BY <1>5, ReadsIs DEF cpuVars
  <2>. QED
    BY <1>5, <2>1, ReadingIs, FeedersPopped
<1>6. ASSUME pending' = pending, running' \subseteq running, plan' = plan
      PROVE  FeedersOver'
  <2>1. GraphLeft' \subseteq GraphLeft
    BY <1>6 DEF GraphLeft, Unfinished
  <2>. QED
    BY <1>2, <1>3, <1>6, <2>1 DEF Extends
<1>7. CASE FrameWait
  BY <1>6, <1>7 DEF FrameWait
<1>8. CASE FinishList
  BY <1>6, <1>8 DEF FinishList, cpuVars
<1>9. CASE UNCHANGED vars
  BY <1>6, <1>9 DEF vars, cpuVars
<1>. QED
  BY <1>1, <1>4, <1>5, <1>7, <1>8, <1>9 DEF Next, Gpu, Reading

(* InputsReady: on a graph whose signals are ordered and whose lists wait   *)
(* for those that make their inputs, no list runs while a list of its frame *)
(* on the other queue that makes an input of it is queued or running.       *)
THEOREM InputsAreReady ==
  Spec /\ [](~dirty => SignalsOrdered) /\ [](~dirty => ProducersAwaited) => []InputsReady
<1>1. Init => TypeInv /\ FenceInv /\ FramesKnown /\ FeedersOver
  <2>1. Init => GraphLeft = {} /\ RunningLists = {} /\ \A q \in Queues : ListsIn(pending, q) = {}
    BY DEF Init, GraphLeft, Unfinished, RunningLists, ListsIn
  <2>2. Init => \A i \in Slots : fence_vals[i] <= currentFenceVal
    BY DEF Init
  <2>. QED
    BY <2>1, <2>2, TypeInvInit, FenceInvInit DEF FramesKnown, FeedersOver
<1>2. TypeInv /\ [Next]_vars => TypeInv'
  BY TypeInvStep
<1>3. TypeInv /\ TypeInv' /\ FenceInv /\ (~dirty => SignalsOrdered)' /\ [Next]_vars => FenceInv'
  BY FenceInvStep
<1>4. TypeInv /\ TypeInv' /\ FenceInv /\ FramesKnown /\ [Next]_vars => FramesKnown'
  BY FramesStep
<1>5. TypeInv /\ TypeInv' /\ FenceInv /\ FramesKnown /\ FeedersOver /\ (~dirty => ProducersAwaited)'
        /\ [Next]_vars => FeedersOver'
  BY FeedersStep
<1>6. TypeInv /\ FeedersOver => InputsReady
  <2>1. SUFFICES ASSUME TypeInv, FeedersOver,
                        NEW o \in GraphLists(running), NEW u \in GraphLists(UnfinishedLists),
                        u.queue # o.queue, u.frame = o.frame, Feeds(u, o)
                 PROVE  FALSE
    BY DEF InputsReady
  <2>2. o \in RunningLists /\ u \in GraphLeft
    BY <2>1 DEF TypeInv, RunningTyped, GraphLists, RunningLists, GraphList, UnfinishedLists, GraphLeft
  <2>3. Feeding(plan, u, o)
    BY <2>1, FeedingIs
  <2>. QED
    BY <2>1, <2>2, <2>3 DEF FeedersOver
<1>. QED
  BY <1>1, <1>2, <1>3, <1>4, <1>5, <1>6, PTL DEF Spec

-----------------------------------------------------------------------------
(* The main list's signals, and the allocators of the compute lists        *)

(* The values queued for the renderer's fence ascend from f + 1 to c.      *)
MainIn(p) == {m \in DOMAIN p["direct"] : MainSignal(p["direct"][m])}
MainsBetween(p, f, c) ==
  /\ \A m \in MainIn(p) : f < p["direct"][m].val /\ p["direct"][m].val <= c
  /\ \A m, n \in MainIn(p) : m < n => p["direct"][m].val < p["direct"][n].val
  /\ \A i \in DOMAIN p["compute"] : ~MainSignal(p["compute"][i])

(* They do when the first is given and the fence takes its value.          *)
LEMMA MainsPopped ==
  ASSUME NEW p, NEW p2, NEW q \in Queues, Popped(p, p2, q),
         NEW f, NEW c, MainsBetween(p, f, c)
  PROVE  /\ ~MainSignal(p[q][1]) => MainsBetween(p2, f, c)
         /\ MainSignal(p[q][1]) => /\ MainsBetween(p2, p[q][1].val, c)
                                   /\ f < p[q][1].val /\ p[q][1].val <= c
<1>. DEFINE d == Moved(q, "direct")
            h == p[q][1]
<1>1. "direct" \in Queues /\ "compute" \in Queues /\ AllQueued(p) /\ AllQueued(p2) /\ 1 \in DOMAIN p[q]
  BY DEF Queues, Popped
<1>2. ASSUME NEW m \in MainIn(p2)
      PROVE  m \in Nat /\ 1 <= m /\ m + d \in MainIn(p) /\ p2["direct"][m] = p["direct"][m + d]
  <2>1. m \in DOMAIN p2["direct"] /\ MainSignal(p2["direct"][m])
    BY DEF MainIn
  <2>2. m + d \in DOMAIN p["direct"] /\ p2["direct"][m] = p["direct"][m + d]
    BY <1>1, <2>1 DEF Popped
  <2>. QED
    BY <1>1, <2>1, <2>2, PlaceIs DEF MainIn
<1>3. d \in {0, 1}
  BY DEF Moved
<1>4. ASSUME NEW m \in MainIn(p2), NEW n \in MainIn(p2), m < n
      PROVE  p2["direct"][m].val < p2["direct"][n].val
  <2>1. m + d < n + d
    <3>. HIDE DEF d
    <3>. QED
      BY <1>2, <1>3, <1>4
  <2>. QED
    BY <1>2, <2>1 DEF MainsBetween
<1>5. \A i \in DOMAIN p2["compute"] : ~MainSignal(p2["compute"][i])
  BY <1>1 DEF Popped, MainsBetween
<1>6. ASSUME ~MainSignal(h) PROVE MainsBetween(p2, f, c)
  <2>1. \A m \in MainIn(p2) : f < p2["direct"][m].val /\ p2["direct"][m].val <= c
    BY <1>2 DEF MainsBetween
  <2>. QED
    BY <1>4, <1>5, <2>1 DEF MainsBetween
<1>7. ASSUME MainSignal(h)
      PROVE  MainsBetween(p2, h.val, c) /\ f < h.val /\ h.val <= c
  <2>1. q = "direct"
    BY <1>1, <1>7 DEF MainsBetween, Queues
  <2>2. 1 \in MainIn(p) /\ h = p["direct"][1] /\ d = 1
    BY <1>1, <1>7, <2>1 DEF MainIn, Moved
  <2>3. ASSUME NEW m \in MainIn(p2) PROVE h.val < p2["direct"][m].val /\ p2["direct"][m].val <= c
    <3>1. m + 1 \in MainIn(p) /\ 1 < m + 1 /\ p2["direct"][m] = p["direct"][m + 1]
      BY <1>2, <2>2
    <3>. QED
      BY <2>2, <3>1 DEF MainsBetween
  <2>4. f < h.val /\ h.val <= c
    BY <2>2 DEF MainsBetween
  <2>. QED
    BY <1>4, <1>5, <2>3, <2>4 DEF MainsBetween
<1>. QED
  BY <1>6, <1>7

(* SubmitToQueue signals the graph's fence only.                           *)
LEMMA MainsIssued ==
  ASSUME NEW p, NEW p2, NEW s, NEW m, NEW fr, NEW sl, Issued(p, p2, s, m, fr, sl),
         NEW f, NEW c, MainsBetween(p, f, c)
  PROVE  MainsBetween(p2, f, c)
<1>1. ASSUME NEW x \in Queues, NEW i \in DOMAIN p2[x], MainSignal(p2[x][i])
      PROVE  i \in DOMAIN p[x] /\ p2[x][i] = p[x][i]
  <2>1. \A n : ~MainSignal(IssuedOp(s[x][n], m, fr, sl))
    BY DEF MainSignal, IssuedOp
  <2>2. CASE i \in DOMAIN p[x] /\ p2[x][i] = p[x][i]
    BY <2>2
  <2>3. ASSUME NEW n \in DOMAIN s[x], p2[x][i] = IssuedOp(s[x][n], m, fr, sl) PROVE FALSE
    BY <1>1, <2>1, <2>3
  <2>. QED
    BY <2>2, <2>3, OldOrNew
<1>2. "direct" \in Queues /\ "compute" \in Queues
  BY DEF Queues
<1>3. \A i \in MainIn(p2) : i \in MainIn(p) /\ p2["direct"][i] = p["direct"][i]
  BY <1>1, <1>2 DEF MainIn
<1>4. \A i \in DOMAIN p2["compute"] : ~MainSignal(p2["compute"][i])
  BY <1>1, <1>2 DEF MainsBetween
<1>. QED
  BY <1>3, <1>4 DEF MainsBetween

(* EndFrame adds the next value.                                           *)
LEMMA MainsEnded ==
  ASSUME NEW p, NEW p2, NEW c \in Nat, FrameEnded(p, p2, c + 1),
         NEW f \in Nat, f <= c, MainsBetween(p, f, c)
  PROVE  /\ MainsBetween(p2, f, c + 1)
         /\ Len(p["direct"]) + 2 \in MainIn(p2) /\ p2["direct"][Len(p["direct"]) + 2].val = c + 1
<1>. DEFINE z == Len(p["direct"]) + 2
            v(m) == p2["direct"][m].val
<1>1. /\ AllQueued(p) /\ AllQueued(p2) /\ Extends(p, p2) /\ "direct" \in Queues
      /\ p2["compute"] = p["compute"] /\ z \in DOMAIN p2["direct"] /\ z \notin DOMAIN p["direct"]
  BY DEF FrameEnded, Queues
<1>2. DOMAIN p["direct"] = 1 .. Len(p["direct"]) /\ Len(p["direct"]) \in Nat
  BY <1>1, PlaceIs
<1>3. p2["direct"][z].op = "list" => z = Len(p["direct"]) + 1
  BY <1>1 DEF FrameEnded, MainSignal
<1>4. z # Len(p["direct"]) + 1
  <2>. DEFINE L == Len(p["direct"])
  <2>. HIDE DEF L
  <2>1. L + 2 # L + 1
    BY <1>2 DEF L
  <2>. QED
    BY <2>1 DEF L
<1>5. MainSignal(p2["direct"][z]) /\ p2["direct"][z].val = c + 1
  BY <1>1, <1>4 DEF FrameEnded
<1>6. ASSUME NEW m \in MainIn(p2)
      PROVE  \/ m = z /\ v(m) = c + 1
             \/ /\ m \in MainIn(p) /\ p2["direct"][m] = p["direct"][m]
                /\ f < v(m) /\ v(m) <= c /\ m < z
  <2>1. m \in DOMAIN p2["direct"] /\ MainSignal(p2["direct"][m])
    BY DEF MainIn
  <2>2. CASE m \in DOMAIN p["direct"]
    <3>1. m \in MainIn(p) /\ p2["direct"][m] = p["direct"][m]
      BY <1>1, <2>1, <2>2 DEF Extends, MainIn
    <3>2. f < v(m) /\ v(m) <= c
      BY <3>1 DEF MainsBetween
    <3>3. m < z
      <4>. DEFINE L == Len(p["direct"])
      <4>1. L \in Nat /\ m \in 1 .. L
        BY <1>2, <2>2
      <4>. HIDE DEF L
      <4>2. m < L + 2
        BY <4>1
      <4>. QED
        BY <4>2 DEF L
    <3>. QED
      BY <3>1, <3>2, <3>3
  <2>3. CASE m \notin DOMAIN p["direct"]
    <3>1. p2["direct"][m].op # "list"
      BY <2>1 DEF MainSignal
    <3>2. m = z
      BY <2>1, <2>3, <3>1 DEF FrameEnded
    <3>. QED
      BY <1>5, <3>2
  <2>. QED
    BY <2>2, <2>3
<1>7. z \in MainIn(p2) /\ z \in Nat
  BY <1>1, <1>2, <1>5 DEF MainIn
<1>8. \A m \in MainIn(p2) : m \in Nat /\ v(m) \in Nat
  BY <1>1, PlaceIs DEF MainIn
<1>9. ASSUME NEW m \in MainIn(p2) PROVE f < v(m) /\ v(m) <= c + 1
  <2>. DEFINE w == v(m)
  <2>1. w = c + 1 \/ (f < w /\ w <= c)
    BY <1>6
  <2>2. w \in Nat
    BY <1>8
  <2>. HIDE DEF w
  <2>3. f < w /\ w <= c + 1
    BY <2>1, <2>2
  <2>. QED
    BY <2>3 DEF w
<1>10. ASSUME NEW m \in MainIn(p2), NEW n \in MainIn(p2), m < n PROVE v(m) < v(n)
  <2>1. CASE n = z
    <3>1. m # z
      BY <1>7, <1>10, <2>1
    <3>2. v(m) <= c /\ v(n) = c + 1
      BY <1>5, <1>6, <2>1, <3>1
    <3>. DEFINE a == v(m)
                b == v(n)
    <3>3. a \in Nat /\ a <= c /\ b = c + 1
      BY <1>8, <3>2
    <3>. HIDE DEF a, b
    <3>4. a < b
      BY <3>3
    <3>. QED
      BY <3>4 DEF a, b
  <2>2. CASE n # z
    <3>1. n \in MainIn(p) /\ p2["direct"][n] = p["direct"][n] /\ n < z
      BY <1>6, <2>2
    <3>2. m # z
      <4>. HIDE DEF z
      <4>. QED
        BY <1>7, <1>8, <1>10, <3>1
    <3>3. m \in MainIn(p) /\ p2["direct"][m] = p["direct"][m]
      BY <1>6, <3>2
    <3>. QED
      BY <1>10, <3>1, <3>3 DEF MainsBetween
  <2>. QED
    BY <2>1, <2>2
<1>11. \A i \in DOMAIN p2["compute"] : ~MainSignal(p2["compute"][i])
  BY <1>1 DEF MainsBetween
<1>. HIDE DEF z
<1>12. MainsBetween(p2, f, c + 1)
  BY <1>9, <1>10, <1>11 DEF MainsBetween
<1>. QED
  BY <1>5, <1>7, <1>12 DEF z

(* The renderer's fence is behind what is queued for it, and has reached   *)
(* the value of a slot whose frame is being recorded.                      *)
MainInv ==
  /\ mainFence <= currentFenceVal
  /\ MainsBetween(pending, mainFence, currentFenceVal)
  /\ pc = "record" => fence_vals[currentFrameIndex] <= mainFence

(* Every step keeps it.                                                    *)
LEMMA MainInvStep ==
  ASSUME TypeInv, TypeInv', MainInv, [Next]_vars
  PROVE  MainInv'
<1>1. /\ mainFence \in Nat /\ currentFenceVal \in Nat /\ currentFenceVal' \in Nat
      /\ \A i \in Slots : fence_vals[i] \in Nat
      /\ currentFrameIndex \in Slots /\ mainFence' \in Nat
  <2>1. CpuTyped /\ CpuTyped' /\ FencesTyped /\ FencesTyped'
    BY DEF TypeInv
  <2>. QED
    BY <2>1, FramesAssumption DEF CpuTyped, FencesTyped
<1>2. CASE ExecuteAndSubmit
  <2>1. Issued(pending, pending', Submission(plan').ops, maxFence,
               currentFenceVal + 1, currentFrameIndex)
    BY <1>2, ExecuteIs
  <2>2. UNCHANGED <<mainFence, currentFenceVal>> /\ pc' = "endFrame"
    BY <1>2 DEF ExecuteAndSubmit
  <2>3. MainsBetween(pending', mainFence, currentFenceVal)
    BY <2>1, MainsIssued DEF MainInv
  <2>. QED
    BY <2>2, <2>3 DEF MainInv
<1>3. CASE EndFrame
  <2>1. FrameEnded(pending, pending', currentFenceVal + 1)
    BY <1>3, EndFrameIs
  <2>2. mainFence' = mainFence /\ currentFenceVal' = currentFenceVal + 1 /\ pc' = "frameWait"
    BY <1>3 DEF EndFrame
  <2>3. MainsBetween(pending', mainFence, currentFenceVal + 1)
    BY <1>1, <2>1, MainsEnded DEF MainInv
  <2>4. mainFence <= currentFenceVal + 1
    BY <1>1 DEF MainInv
  <2>. QED
    BY <2>2, <2>3, <2>4 DEF MainInv
<1>4. CASE FrameWait
  <2>1. /\ fence_vals[currentFrameIndex] <= mainFence
        /\ UNCHANGED <<mainFence, currentFenceVal, pending, fence_vals, currentFrameIndex>>
    BY <1>1, <1>4 DEF FrameWait
  <2>. QED
    BY <2>1 DEF MainInv
<1>5. ASSUME NEW q \in Queues, Reading(q) PROVE MainInv'
  <2>1. Popped(pending, pending', q) /\ HeadOf(q) = pending[q][1] /\ UNCHANGED cpuVars
    BY <1>5, ReadsIs
  <2>. DEFINE h == pending[q][1]
  <2>2. mainFence' = IF MainSignal(h) THEN h.val ELSE mainFence
    <3>1. h.fence \in {"graph", "main"}
      <4>1. h \in Operations
        BY <2>1, PlaceIs DEF Popped
      <4>. QED
        BY <4>1 DEF Operations
    <3>2. CASE StartList(q) \/ WaitForFence(q)
      BY <2>1, <3>2 DEF StartList, WaitForFence, MainSignal
    <3>3. CASE SignalFence(q)
      <4>1. /\ h.op = "signal"
            /\ h.fence = "graph" => mainFence' = mainFence
            /\ h.fence # "graph" => mainFence' = h.val
        BY <2>1, <3>3 DEF SignalFence
      <4>. QED
        BY <3>1, <4>1 DEF MainSignal
    <3>. QED
      BY <1>5, <3>2, <3>3 DEF Reading
  <2>3. /\ ~MainSignal(h) => MainsBetween(pending', mainFence, currentFenceVal)
        /\ MainSignal(h) => /\ MainsBetween(pending', h.val, currentFenceVal)
                            /\ mainFence < h.val /\ h.val <= currentFenceVal
    BY <2>1, MainsPopped DEF MainInv
  <2>4. /\ MainsBetween(pending', mainFence', currentFenceVal)
        /\ mainFence <= mainFence' /\ mainFence' <= currentFenceVal
    <3>1. CASE ~MainSignal(h)
      BY <1>1, <2>2, <2>3, <3>1 DEF MainInv
    <3>2. CASE MainSignal(h)
      BY <1>1, <2>2, <2>3, <3>2
    <3>. QED
      BY <3>1, <3>2
  <2>5. UNCHANGED <<currentFenceVal, pc, fence_vals, currentFrameIndex>>
    BY <2>1 DEF cpuVars
  <2>6. pc = "record" => fence_vals[currentFrameIndex] <= mainFence'
    BY <1>1, <2>4 DEF MainInv
  <2>. QED
    BY <2>4, <2>5, <2>6 DEF MainInv
<1>6. ASSUME UNCHANGED <<cpuVars, mainFence, pending>> PROVE MainInv'
  BY <1>6 DEF MainInv, cpuVars
<1>7. CASE FinishList
  BY <1>6, <1>7 DEF FinishList
<1>8. CASE UNCHANGED vars
  BY <1>6, <1>8 DEF vars
<1>. QED
  BY <1>2, <1>3, <1>4, <1>5, <1>7, <1>8 DEF Next, Gpu, Reading

(* The compute list of frame f at place i is over before the main signal   *)
(* of that frame: the direct queue waits for it first, or will have done   *)
(* when the frame that is open ends.                                       *)
OverBefore(p, i, f, c, open) ==
  \/ f <= c /\ \E m \in MainIn(p) : p["direct"][m].val = f /\ Behind(p, "compute", i, "direct", m)
  \/ open /\ f = c + 1 /\ Behind(p, "compute", i, "direct", Len(p["direct"]))
ComputeOver ==
  /\ \A i \in ListsIn(pending, "compute") :
       OverBefore(pending, i, pending["compute"][i].frame, currentFenceVal, pc = "endFrame")
  /\ \A o \in RunningLists : o.queue = "compute" =>
       OverBefore(pending, 1, o.frame, currentFenceVal, pc = "endFrame")

(* A read leaves it so, of a list and of the place it moves to.            *)
LEMMA OverPopped ==
  ASSUME TypeInv, NEW q \in Queues, Proceeds(q), NEW f, NEW c, NEW open,
         NEW i \in Nat, NEW j \in Nat, OverBefore(pending, j, f, c, open),
         \A y \in Queues : \A m \in Nat :
           Behind(pending, "compute", j, y, m + Moved(q, y)) => Behind(pending', "compute", i, y, m)
  PROVE  OverBefore(pending', i, f, c, open)
<1>1. Popped(pending, pending', q) /\ "direct" \in Queues /\ "compute" \in Queues
  BY DEF Proceeds, Queues
<1>2. AllQueued(pending) /\ AllQueued(pending') /\ 1 \in DOMAIN pending[q]
  BY <1>1 DEF Popped
<1>. DEFINE d == Moved(q, "direct")
            L == Len(pending["direct"])
<1>3. d \in {0, 1}
  BY DEF Moved
<1>4. CASE f <= c /\ \E m \in MainIn(pending) : /\ pending["direct"][m].val = f
                                                /\ Behind(pending, "compute", j, "direct", m)
  <2>1. PICK m \in MainIn(pending) : /\ pending["direct"][m].val = f
                                     /\ Behind(pending, "compute", j, "direct", m)
    BY <1>4
  <2>2. m \in DOMAIN pending["direct"] /\ MainSignal(pending["direct"][m])
    BY DEF MainIn
  <2>3. ~("direct" = q /\ m = 1)
    BY <1>1, <1>2, <2>1, <2>2, NotBehindFirst DEF MainSignal
  <2>4. m - d \in DOMAIN pending'["direct"] /\ pending'["direct"][m - d] = pending["direct"][m]
    BY <1>1, <2>2, <2>3, PoppedPlace
  <2>5. m - d \in Nat /\ m \in Nat
    BY <1>1, <1>2, <2>2, <2>4, PlaceIs
  <2>6. (m - d) + d = m
    <3>. HIDE DEF d
    <3>. QED
      BY <1>3, <2>5
  <2>7. Behind(pending', "compute", i, "direct", m - d)
    BY <1>1, <2>1, <2>5, <2>6
  <2>8. m - d \in MainIn(pending')
    BY <2>2, <2>4 DEF MainIn
  <2>. QED
    BY <1>4, <2>1, <2>4, <2>7, <2>8 DEF OverBefore
<1>5. CASE open /\ f = c + 1 /\ Behind(pending, "compute", j, "direct", L)
  <2>1. Len(pending'["direct"]) = L - d /\ Len(pending'["direct"]) \in Nat /\ L \in Nat
    BY <1>1, <1>2, PlaceIs DEF Popped
  <2>2. Len(pending'["direct"]) + d = L
    <3>. DEFINE K == Len(pending'["direct"])
    <3>. HIDE DEF d, K, L
    <3>1. K = L - d /\ K \in Nat /\ L \in Nat
      BY <2>1 DEF K
    <3>2. K + d = L
      BY <1>3, <3>1
    <3>. QED
      BY <3>2 DEF K
  <2>3. Behind(pending', "compute", i, "direct", Len(pending'["direct"]))
    BY <1>1, <1>5, <2>1, <2>2
  <2>. QED
    BY <1>5, <2>3 DEF OverBefore
<1>. QED
  BY <1>4, <1>5 DEF OverBefore

(* Longer queues leave it so, and so does the end of the frame.            *)
LEMMA OverExtended ==
  ASSUME NEW p, NEW p2, AllQueued(p), AllQueued(p2), Extends(p, p2), NEW i \in Nat,
         NEW f, NEW c, OverBefore(p, i, f, c, FALSE)
  PROVE  \A open : OverBefore(p2, i, f, c, open)
<1>1. "direct" \in Queues /\ "compute" \in Queues
  BY DEF Queues
<1>2. PICK m \in MainIn(p) : f <= c /\ p["direct"][m].val = f /\ Behind(p, "compute", i, "direct", m)
  BY DEF OverBefore
<1>3. m \in DOMAIN p["direct"] /\ MainSignal(p["direct"][m])
  BY DEF MainIn
<1>4. m \in Nat /\ m <= m
  BY <1>1, <1>3, PlaceIs
<1>5. Behind(p2, "compute", i, "direct", m)
  BY <1>1, <1>2, <1>4, BehindExtended
<1>6. m \in MainIn(p2) /\ p2["direct"][m] = p["direct"][m]
  BY <1>1, <1>3 DEF MainIn, Extends
<1>. QED
  BY <1>2, <1>5, <1>6 DEF OverBefore

(* With the frame its main signal comes behind the wait that was promised. *)
LEMMA OverEnded ==
  ASSUME NEW p, NEW p2, NEW c \in Nat, FrameEnded(p, p2, c + 1), NEW g \in Nat, g <= c,
         MainsBetween(p, g, c), NEW i \in Nat, NEW f \in Nat, NEW open, OverBefore(p, i, f, c, open)
  PROVE  \A o2 : OverBefore(p2, i, f, c + 1, o2)
<1>1. AllQueued(p) /\ AllQueued(p2) /\ Extends(p, p2) /\ "direct" \in Queues /\ "compute" \in Queues
  BY DEF FrameEnded, Queues
<1>2. CASE OverBefore(p, i, f, c, FALSE)
  <2>1. OverBefore(p2, i, f, c, FALSE)
    BY <1>1, <1>2, OverExtended
  <2>2. f <= c => f <= c + 1
    OBVIOUS
  <2>. QED
    BY <2>1, <2>2 DEF OverBefore
<1>3. CASE f = c + 1 /\ Behind(p, "compute", i, "direct", Len(p["direct"]))
  <2>. DEFINE L == Len(p["direct"])
  <2>1. L + 2 \in MainIn(p2) /\ p2["direct"][L + 2].val = c + 1
    BY MainsEnded
  <2>2. L \in Nat
    BY <1>1, PlaceIs
  <2>. HIDE DEF L
  <2>3. L + 2 \in Nat /\ L <= L + 2
    BY <2>2
  <2>4. Behind(p2, "compute", i, "direct", L + 2)
    BY <1>1, <1>3, <2>2, <2>3, BehindExtended DEF L
  <2>. QED
    BY <1>3, <2>1, <2>4 DEF OverBefore
<1>. QED
  BY <1>2, <1>3 DEF OverBefore

(* Every step keeps it, if the direct queue waits for all compute lists.   *)
LEMMA ComputeOverStep ==
  ASSUME TypeInv, TypeInv', FenceInv, MainInv, ComputeOver, ~dirty' => ComputeAwaited', [Next]_vars
  PROVE  ComputeOver'
<1>. DEFINE c == currentFenceVal
            ending == pc = "endFrame"
<1>1. /\ "direct" \in Queues /\ "compute" \in Queues /\ AllQueued(pending) /\ AllQueued(pending')
      /\ c \in Nat /\ mainFence \in Nat /\ mainFence <= c
  <2>1. c \in 0 .. MaxFrames /\ mainFence \in 0 .. MaxFrames
    BY DEF TypeInv, CpuTyped, FencesTyped
  <2>2. c \in Nat /\ mainFence \in Nat
    BY <2>1, FramesAssumption
  <2>. QED
    BY <2>2 DEF Queues, TypeInv, PendingTyped, MainInv
<1>2. CASE ExecuteAndSubmit
  <2>. DEFINE s == Submission(plan').ops
              C == pending["compute"]
              D == pending["direct"]
  <2>1. Issued(pending, pending', s, maxFence, c + 1, currentFrameIndex)
    BY <1>2, ExecuteIs
  <2>2. /\ pc = "record" /\ pc' = "endFrame" /\ ~dirty'
        /\ UNCHANGED <<running, currentFenceVal>> /\ maxFence \in Nat
    BY <1>2 DEF ExecuteAndSubmit, TypeInv, CpuTyped
  <2>3. \A n \in PlacesOf(s, "compute", "list") : WaitedFor(s, "compute", n, "direct", Len(s["direct"]))
    BY <2>2 DEF ComputeAwaited
  <2>4. Extends(pending, pending') /\ Len(pending'["direct"]) = Len(D) + Len(s["direct"])
        /\ Len(s["direct"]) \in Nat
    <3>1. Extends(pending, pending')
      BY <2>1, IssuedExtends
    <3>2. s["direct"] \in Seq(OpsOf("direct")) /\ Len(pending'["direct"]) = Len(D) + Len(s["direct"])
      BY <1>1, <2>1 DEF Issued
    <3>. HIDE DEF s
    <3>3. Len(s["direct"]) \in Nat
      BY <1>1, <3>2, OpOfIs
    <3>. QED
      BY <3>1, <3>2, <3>3
  <2>. HIDE DEF s
  <2>5. ASSUME NEW i \in ListsIn(pending', "compute")
        PROVE  OverBefore(pending', i, pending'["compute"][i].frame, c, TRUE)
    <3>1. CASE i \in ListsIn(pending, "compute") /\ pending'["compute"][i] = C[i]
      <4>1. OverBefore(pending, i, C[i].frame, c, FALSE)
        BY <2>2, <3>1 DEF ComputeOver
      <4>2. i \in Nat
        BY <1>1, <3>1, PlaceIs DEF ListsIn
      <4>3. OverBefore(pending', i, C[i].frame, c, TRUE)
        BY <1>1, <2>4, <4>1, <4>2, OverExtended
      <4>. QED
        BY <3>1, <4>3
    <3>2. ASSUME NEW n \in PlacesOf(s, "compute", "list"), i = Len(C) + n,
                 pending'["compute"][i] = IssuedOp(s["compute"][n], maxFence, c + 1, currentFrameIndex)
          PROVE  OverBefore(pending', i, pending'["compute"][i].frame, c, TRUE)
      <4>1. WaitedFor(s, "compute", n, "direct", Len(s["direct"]))
        BY <2>3
      <4>2. n \in Nat
        BY <1>1, <2>1, OpOfIs DEF Issued, PlacesOf
      <4>3. Behind(pending', "compute", i, "direct", Len(D) + Len(s["direct"]))
        BY <1>1, <2>1, <2>2, <2>4, <3>2, <4>1, <4>2, IssuedBehind
      <4>4. pending'["compute"][i].frame = c + 1
        BY <3>2 DEF IssuedOp
      <4>. QED
        BY <2>4, <4>3, <4>4 DEF OverBefore
    <3>3. \/ i \in ListsIn(pending, "compute") /\ pending'["compute"][i] = C[i]
          \/ \E n \in PlacesOf(s, "compute", "list") :
               i = Len(C) + n /\ pending'["compute"][i] = IssuedOp(s["compute"][n], maxFence, c + 1, currentFrameIndex)
      BY <1>1, <2>1, ListIssued
    <3>. QED
      BY <3>1, <3>2, <3>3, Zenon
  <2>6. ASSUME NEW o \in RunningLists', o.queue = "compute"
        PROVE  OverBefore(pending', 1, o.frame, c, TRUE)
    <3>1. OverBefore(pending, 1, o.frame, c, FALSE)
      BY <2>2, <2>6 DEF ComputeOver, RunningLists
    <3>. QED
      BY <1>1, <2>4, <3>1, OverExtended
  <2>. QED
    BY <2>2, <2>5, <2>6 DEF ComputeOver
<1>3. CASE EndFrame
  <2>1. FrameEnded(pending, pending', c + 1)
    BY <1>3, EndFrameIs
  <2>2. running' = running /\ currentFenceVal' = c + 1
    BY <1>3 DEF EndFrame
  <2>3. MainsBetween(pending, mainFence, c)
    BY DEF MainInv
  <2>4. ASSUME NEW i \in ListsIn(pending', "compute")
        PROVE  \A open : OverBefore(pending', i, pending'["compute"][i].frame, c + 1, open)
    <3>1. i \in ListsIn(pending, "compute") /\ pending'["compute"] = pending["compute"]
      BY <1>1, <2>1, FrameEndedSignals DEF FrameEnded
    <3>2. i \in Nat /\ pending["compute"][i].frame \in Nat
      BY <1>1, <3>1, PlaceIs DEF ListsIn
    <3>3. OverBefore(pending, i, pending["compute"][i].frame, c, ending)
      BY <3>1 DEF ComputeOver
    <3>4. \A open : OverBefore(pending', i, pending["compute"][i].frame, c + 1, open)
      BY <1>1, <2>1, <2>3, <3>2, <3>3, OverEnded
    <3>. QED
      BY <3>1, <3>4
  <2>5. ASSUME NEW o \in RunningLists', o.queue = "compute"
        PROVE  \A open : OverBefore(pending', 1, o.frame, c + 1, open)
    <3>1. OverBefore(pending, 1, o.frame, c, ending) /\ o \in Operations
      BY <2>2, <2>5 DEF ComputeOver, RunningLists, TypeInv, RunningTyped
    <3>2. o.frame \in Nat
      <4>. DEFINE f == o.frame
      <4>1. f \in 1 .. MaxFrames
        BY <3>1 DEF Operations
      <4>. HIDE DEF f
      <4>2. f \in Nat
        BY <4>1, FramesAssumption
      <4>. QED
        BY <4>2 DEF f
    <3>. QED
      BY <1>1, <2>1, <2>3, <3>1, <3>2, OverEnded
  <2>. QED
    BY <2>2, <2>4, <2>5 DEF ComputeOver
<1>4. ASSUME NEW q \in Queues, Reading(q) PROVE ComputeOver'
  <2>1. Proceeds(q) /\ UNCHANGED cpuVars
    BY <1>4, ReadingIs, ReadsIs
  <2>2. Popped(pending, pending', q) /\ 1 \in DOMAIN pending[q]
    BY <2>1 DEF Proceeds, Popped
  <2>3. currentFenceVal' = c /\ pc' = pc
    BY <2>1 DEF cpuVars
  <2>4. ASSUME NEW i \in ListsIn(pending', "compute")
        PROVE  OverBefore(pending', i, pending'["compute"][i].frame, c, ending)
    <3>. DEFINE j == i + Moved(q, "compute")
    <3>1. /\ j \in ListsIn(pending, "compute") /\ pending'["compute"][i] = pending["compute"][j]
          /\ i \in Nat \ {0} /\ j \in Nat
      BY <1>1, <2>2, ListPopped
    <3>2. OverBefore(pending, j, pending["compute"][j].frame, c, ending)
      BY <3>1 DEF ComputeOver
    <3>3. \A y \in Queues : \A m \in Nat :
            Behind(pending, "compute", j, y, m + Moved(q, y)) => Behind(pending', "compute", i, y, m)
      BY <1>1, <2>1, <3>1, QueuedBehind
    <3>4. OverBefore(pending', i, pending["compute"][j].frame, c, ending)
      BY <2>1, <3>1, <3>2, <3>3, OverPopped
    <3>. QED
      BY <3>1, <3>4
  <2>5. ASSUME NEW o \in RunningLists', o.queue = "compute"
        PROVE  OverBefore(pending', 1, o.frame, c, ending)
    <3>1. /\ OverBefore(pending, 1, o.frame, c, ending)
          /\ "compute" = q => ~GraphSignal(pending[q][1])
      <4>1. CASE o \in running
        BY <2>1, <2>5, <4>1 DEF RunningLists, ComputeOver, Proceeds
      <4>2. CASE o = pending[q][1] /\ o \notin running
        <5>1. q = "compute" /\ GraphList(o)
          BY <1>1, <2>2, <2>5, <4>2, PlaceIs DEF RunningLists
        <5>2. 1 \in ListsIn(pending, "compute")
          BY <2>2, <4>2, <5>1 DEF ListsIn
        <5>. QED
          BY <4>2, <5>1, <5>2 DEF ComputeOver, GraphList, GraphSignal
      <4>. QED
        BY <2>1, <2>5, <4>1, <4>2 DEF Proceeds, RunningLists
    <3>2. \A y \in Queues : \A m \in Nat :
            Behind(pending, "compute", 1, y, m + Moved(q, y)) => Behind(pending', "compute", 1, y, m)
      BY <1>1, <2>1, <3>1, RunningBehind
    <3>. QED
      BY <2>1, <3>1, <3>2, OverPopped
  <2>. QED
    BY <2>3, <2>4, <2>5 DEF ComputeOver
<1>5. ASSUME pending' = pending, running' \subseteq running, currentFenceVal' = currentFenceVal,
             pc = "endFrame" => pc' = pc
      PROVE  ComputeOver'
  <2>1. \A i, f : OverBefore(pending, i, f, c, ending) => OverBefore(pending', i, f, c, ending')
    BY <1>5 DEF OverBefore
  <2>. QED
    BY <1>5, <2>1 DEF ComputeOver, RunningLists
<1>6. CASE FrameWait
  BY <1>5, <1>6 DEF FrameWait
<1>7. CASE FinishList
  BY <1>5, <1>7 DEF FinishList, cpuVars
<1>8. CASE UNCHANGED vars
  BY <1>5, <1>8 DEF vars, cpuVars
<1>. QED
  BY <1>2, <1>3, <1>4, <1>6, <1>7, <1>8 DEF Next, Gpu, Reading

(* ComputeAllocatorIdle: on a graph whose signals are ordered and whose     *)
(* direct queue waits for all compute lists, no compute list of a slot is   *)
(* queued or runs when EndFrame's wait for the slot's main list is over, so *)
(* its compute allocator may be reset without a wait of its own.            *)
THEOREM ComputeAllocatorIsIdle ==
  Spec /\ [](~dirty => SignalsOrdered) /\ [](~dirty => ComputeAwaited) => []ComputeAllocatorIdle
<1>1. Init => TypeInv /\ FenceInv /\ FramesKnown /\ MainInv /\ ComputeOver
  <2>1. SUFFICES ASSUME Init PROVE FramesKnown /\ MainInv /\ ComputeOver
    BY TypeInvInit, FenceInvInit
  <2>2. /\ GraphLeft = {} /\ RunningLists = {} /\ \A q \in Queues : ListsIn(pending, q) = {}
        /\ MainIn(pending) = {} /\ \A i \in DOMAIN pending["compute"] : FALSE
    BY <2>1 DEF Init, GraphLeft, Unfinished, RunningLists, ListsIn, MainIn, Queues
  <2>3. \A i \in Slots : fence_vals[i] <= currentFenceVal
    BY <2>1 DEF Init
  <2>4. currentFrameIndex \in Slots
    BY <2>1, TypeInvInit DEF TypeInv, CpuTyped
  <2>5. MainInv
    BY <2>1, <2>2, <2>4 DEF Init, MainInv, MainsBetween
  <2>6. ComputeOver
    BY <2>2 DEF ComputeOver, Queues
  <2>. QED
    BY <2>2, <2>3, <2>5, <2>6 DEF FramesKnown
<1>2. TypeInv /\ [Next]_vars => TypeInv'
  BY TypeInvStep
<1>3. TypeInv /\ TypeInv' /\ FenceInv /\ (~dirty => SignalsOrdered)' /\ [Next]_vars => FenceInv'
  BY FenceInvStep
<1>4. TypeInv /\ TypeInv' /\ FenceInv /\ FramesKnown /\ [Next]_vars => FramesKnown'
  BY FramesStep
<1>5. TypeInv /\ TypeInv' /\ MainInv /\ [Next]_vars => MainInv'
  BY MainInvStep
<1>6. TypeInv /\ TypeInv' /\ FenceInv /\ MainInv /\ ComputeOver /\ (~dirty => ComputeAwaited)'
        /\ [Next]_vars => ComputeOver'
  BY ComputeOverStep
<1>7. TypeInv /\ FramesKnown /\ MainInv /\ ComputeOver => ComputeAllocatorIdle
  <2>1. SUFFICES ASSUME TypeInv, FramesKnown, MainInv, ComputeOver, pc = "record",
                        NEW o \in UnfinishedLists, o.queue = "compute", o.slot = currentFrameIndex
                 PROVE  FALSE
    BY DEF ComputeAllocatorIdle
  <2>2. AllQueued(pending) /\ "compute" \in Queues /\ "direct" \in Queues
    BY <2>1 DEF TypeInv, PendingTyped, Queues
  <2>3. o \in GraphLeft
    BY <2>1 DEF UnfinishedLists, GraphLeft, GraphList
  <2>4. \E i \in Nat : OverBefore(pending, i, o.frame, currentFenceVal, pc = "endFrame")
    <3>1. CASE o \in RunningLists
      BY <2>1, <3>1 DEF ComputeOver
    <3>2. ASSUME NEW i \in ListsIn(pending, "compute"), o = pending["compute"][i]
          PROVE  OverBefore(pending, i, o.frame, currentFenceVal, pc = "endFrame") /\ i \in Nat
      BY <2>1, <2>2, <3>2, PlaceIs DEF ComputeOver, ListsIn
    <3>. QED
      BY <2>1, <2>3, <3>1, <3>2, LeftIs
  <2>5. PICK m \in MainIn(pending) : pending["direct"][m].val = o.frame
    BY <2>1, <2>4 DEF OverBefore
  <2>. DEFINE f == o.frame
              v == fence_vals[currentFrameIndex]
  <2>6. mainFence < f
    BY <2>1, <2>5 DEF MainInv, MainsBetween
  <2>7. v <= mainFence
    BY <2>1 DEF MainInv
  <2>8. f <= v
    BY <2>1, <2>3 DEF FramesKnown, OfFrame
  <2>9. f \in Nat /\ v \in Nat /\ mainFence \in Nat
    <3>1. f \in Nat
      BY <2>2, <2>5, PlaceIs DEF MainIn
    <3>2. v \in 0 .. MaxFrames /\ mainFence \in 0 .. MaxFrames
      BY <2>1 DEF TypeInv, CpuTyped, FencesTyped
    <3>. QED
      BY <3>1, <3>2, FramesAssumption
  <2>. HIDE DEF f, v
  <2>. QED
    BY <2>6, <2>7, <2>8, <2>9
<1>. QED
  BY <1>1, <1>2, <1>3, <1>4, <1>5, <1>6, <1>7, PTL DEF Spec

-----------------------------------------------------------------------------
(* Together: while a graph that PlanOrdered holds of is run, whatever the   *)
(* frames and the queues overlap, the fence only increases, and no list     *)
(* runs before its inputs, loses its allocator or outlives the graph.       *)
THEOREM OrderedGraphRuns ==
  Spec /\ []PlanOrdered =>
    /\ FenceIncreases
    /\ [](RecordedAfterInputs /\ InputsReady /\ ComputeAllocatorIdle /\ GraphFenceCoversAll)
<1>1. PlanOrdered => /\ ~dirty => SignalsOrdered
                     /\ ~dirty => ListsSignalled
                     /\ ~dirty => ProducersAwaited
                     /\ ~dirty => ComputeAwaited
                     /\ ~dirty => LevelsByValue
  BY DEF PlanOrdered
<1>. QED
  BY <1>1, FenceOnlyIncreases, FenceCoversGraph, InputsAreReady, ComputeAllocatorIsIdle,
     RecordsAfterInputs, PTL
=============================================================================
