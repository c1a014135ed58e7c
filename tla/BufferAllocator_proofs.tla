----------------------- MODULE BufferAllocator_proofs -----------------------
(***************************************************************************)
(* The properties of BufferAllocator for any buffers, sizes and number of  *)
(* allocations.  The argument: an allocation that passes the assertions of *)
(* FreeList::Allocate takes bytes the list offered, and while the buffer   *)
(* was never defragmented those are in no mesh's range; it does not matter *)
(* that freeFastSpace may be ahead of the list.                            *)
(***************************************************************************)
EXTENDS BufferFreeList_proofs, FiniteSetTheorems

-----------------------------------------------------------------------------
(* The inductive invariant                                                 *)

(* No handle waits twice to be given out again. *)
HandlesIdle ==
  \A b \in Buffers : \A i, j \in DOMAIN UnusedHandles[b] :
    UnusedHandles[b][i] = UnusedHandles[b][j] => i = j

(* Ids are given out in order: the next one is nobody's. *)
IdsUsed == \A b \in Buffers : \A a \in allocations[b] : a.id <= count

(* Even after a defragmentation no list reaches past the end. *)
ListsWithin == ~failed => \A b \in Buffers : Listed(freeList[b], capacity[b])

(* Meshes' ranges lie in the buffer, hold their data, and are offered to   *)
(* nobody else.                                                            *)
RangesHeld(b) ==
  \A a \in allocations[b] : \A x \in RangeOf(b, a) :
    x < capacity[b] /\ memory[b][x] = a.id /\ ~Offers(freeList[b], x)

RangesApart(b) ==
  \A a, c \in allocations[b] : a # c => RangeOf(b, a) \cap RangeOf(b, c) = {}

SpaceCounted(b) == freeSpace[b] = capacity[b] - Cardinality(HeldBytes(b))

BufferSound(b) ==
  Ordered(freeList[b]) /\ RangesHeld(b) /\ RangesApart(b) /\ SpaceCounted(b)

AllocInv ==
  /\ TypeOK
  /\ HandlesUnique /\ HandlesIdle /\ IdsUsed
  /\ ListsWithin
  /\ \A b \in Buffers : Sound(b) => BufferSound(b)

-----------------------------------------------------------------------------
(* Numbers of bytes                                                        *)

Held(A) == UNION {{a} \X (1 .. a.size) : a \in A}

LEMMA HeldIs ==
  ASSUME NEW A, NEW p
  PROVE  p \in Held(A) <=> \E a \in A : \E n \in 1 .. a.size : p = <<a, n>>
BY DEF Held

LEMMA HeldOfOne ==
  ASSUME NEW x, NEW n \in Nat
  PROVE  IsFiniteSet({x} \X (1 .. n)) /\ Cardinality({x} \X (1 .. n)) = n
<1>. DEFINE f == [k \in 1 .. n |-> <<x, k>>]
<1>1. f \in Bijection(1 .. n, {x} \X (1 .. n))
  BY DEF Bijection, Injection, Surjection, IsInjective
<1>2. IsFiniteSet(1 .. n) /\ Cardinality(1 .. n) = n
  BY FS_Interval
<1>3. ExistsBijection(1 .. n, {x} \X (1 .. n))
  BY <1>1 DEF ExistsBijection
<1>. QED
  BY <1>2, <1>3, FS_Bijection

(* One mesh more adds the bytes of its size.                               *)
LEMMA HeldGrows ==
  ASSUME NEW A, NEW x, x \notin A, x.size \in Nat, IsFiniteSet(Held(A))
  PROVE  /\ IsFiniteSet(Held(A \cup {x}))
         /\ Cardinality(Held(A \cup {x})) = Cardinality(Held(A)) + x.size
<1>. DEFINE S == Held(A)
            T == {x} \X (1 .. x.size)
<1>1. IsFiniteSet(T) /\ Cardinality(T) = x.size
  BY HeldOfOne
<1>2. Held(A \cup {x}) = S \cup T
  BY DEF Held
<1>3. S \cap T = {}
  BY DEF Held
<1>. HIDE DEF S, T
<1>4. IsFiniteSet(S \cup T) /\ Cardinality(S \cup T) = Cardinality(S) + Cardinality(T) - 0
  BY <1>1, <1>3, FS_Union, FS_EmptySet DEF S
<1>5. Cardinality(S) \in Nat
  BY FS_CardinalityType DEF S
<1>6. Cardinality(S \cup T) = Cardinality(S) + x.size
  BY <1>1, <1>4, <1>5
<1>. QED
  BY <1>2, <1>4, <1>6 DEF S

(* Ranges apart from each other hold no more bytes than there are.         *)
LEMMA HeldFits ==
  ASSUME NEW A, NEW at \in [A -> Nat], NEW cap \in Nat,
         \A a \in A : a.size \in Nat,
         \A a \in A : \A x \in Interval(at[a], a.size) : x < cap,
         \A a, c \in A : a # c => Interval(at[a], a.size) \cap Interval(at[c], c.size) = {}
  PROVE  IsFiniteSet(Held(A)) /\ Cardinality(Held(A)) <= cap
<1>. DEFINE f == [p \in Held(A) |-> at[p[1]] + p[2] - 1]
<1>1. ASSUME NEW p \in Held(A)
      PROVE  /\ p[1] \in A /\ p[2] \in 1 .. p[1].size /\ p = <<p[1], p[2]>>
             /\ f[p] \in Interval(at[p[1]], p[1].size)
  <2>0. PICK a \in A : \E m \in 1 .. a.size : p = <<a, m>>
    BY HeldIs
  <2>1. PICK n \in 1 .. a.size : p = <<a, n>>
    BY <2>0
  <2>2. at[a] + n - 1 \in Interval(at[a], a.size)
    BY <2>1 DEF Interval
  <2>. QED
    BY <2>1, <2>2
<1>2. f \in [Held(A) -> 0 .. cap - 1]
  <2>. SUFFICES ASSUME NEW p \in Held(A) PROVE at[p[1]] + p[2] - 1 \in 0 .. cap - 1
    OBVIOUS
  <2>1. f[p] \in Nat /\ f[p] < cap
    BY <1>1 DEF Interval
  <2>. QED
    BY <2>1
<1>3. ASSUME NEW p \in Held(A), NEW q \in Held(A), f[p] = f[q]
      PROVE  p = q
  <2>1. p[1] = q[1]
    BY <1>1, <1>3
  <2>2. p[2] = q[2]
    <3>1. at[p[1]] \in Nat /\ p[2] \in Int /\ q[2] \in Int
      BY <1>1
    <3>2. at[p[1]] + p[2] - 1 = at[p[1]] + q[2] - 1
      BY <1>3, <2>1
    <3>. QED
      BY <3>1, <3>2
  <2>. QED
    BY <1>1, <2>1, <2>2
<1>4. f \in Injection(Held(A), 0 .. cap - 1)
  <2>. HIDE DEF f
  <2>. QED
    BY <1>2, <1>3 DEF Injection, IsInjective
<1>5. IsFiniteSet(0 .. cap - 1) /\ Cardinality(0 .. cap - 1) = cap
  BY FS_Interval
<1>. QED
  BY <1>4, <1>5, FS_Injection

-----------------------------------------------------------------------------
(* Defragmentation: typing only, its result is no use to a mesh            *)

CopyType == [bytes: [Bytes -> 0 .. MaxAllocations], next: Nat]

LEMMA CopyDownTyped ==
  ASSUME NEW state \in CopyType, NEW block \in Block
  PROVE  CopyDown(state, block) \in CopyType
<1>1. /\ state.bytes \in [Bytes -> 0 .. MaxAllocations] /\ state.next \in Nat
      /\ block.size \in Nat
  BY DEF CopyType, Block
<1>. DEFINE moved == [i \in Bytes |->
                        IF i \in Interval(state.next, block.size)
                             /\ block.offset + i - state.next \in Bytes
                        THEN state.bytes[block.offset + i - state.next]
                        ELSE state.bytes[i]]
<1>2. moved \in [Bytes -> 0 .. MaxAllocations]
  BY <1>1
<1>3. state.next + block.size \in Nat
  BY <1>1
<1>4. CopyDown(state, block) =
        IF block.offset > state.next
        THEN [bytes |-> moved, next |-> state.next + block.size] ELSE state
  BY DEF CopyDown
<1>. HIDE DEF moved
<1>. QED
  BY <1>2, <1>3, <1>4 DEF CopyType

(* The copies up to block n, for every n up to the number of blocks.       *)
IsCopies(f, s, base, n) ==
  f = [k \in 0 .. n |-> IF k = 0 THEN base ELSE CopyDown(f[k - 1], s[k])]

LEMMA CopiesTyped ==
  ASSUME NEW s \in Seq(Block), NEW base \in CopyType, NEW n \in 0 .. Len(s),
         NEW f, IsCopies(f, s, base, n)
  PROVE  \A k \in 0 .. n : f[k] \in CopyType
<1>. DEFINE S == {k \in Nat : k <= n => f[k] \in CopyType}
<1>1. 0 \in S
  BY DEF IsCopies
<1>2. ASSUME NEW k \in Nat, k \in S PROVE k + 1 \in S
  <2>. SUFFICES ASSUME k + 1 <= n PROVE f[k + 1] \in CopyType
    OBVIOUS
  <2>1. f[k] \in CopyType /\ k + 1 \in 0 .. n /\ k + 1 # 0 /\ (k + 1) - 1 = k
    BY <1>2
  <2>2. f[k + 1] = CopyDown(f[k], s[k + 1])
    BY <2>1 DEF IsCopies
  <2>3. s[k + 1] \in Block
    BY <2>1
  <2>. QED
    BY <2>1, <2>2, <2>3, CopyDownTyped
<1>. HIDE DEF S
<1>3. \A k \in Nat : k \in S
  BY <1>1, <1>2, CountUp
<1>. QED
  BY <1>3 DEF S

LEMMA CopiesExist ==
  ASSUME NEW s \in Seq(Block), NEW base
  PROVE  \A n \in Nat : \E f : IsCopies(f, s, base, n)
<1>. DEFINE S == {n \in Nat : \E f : IsCopies(f, s, base, n)}
<1>1. 0 \in S
  <2>. DEFINE f == [k \in 0 .. 0 |-> base]
  <2>1. IsCopies(f, s, base, 0)
    BY DEF IsCopies
  <2>. QED
    BY <2>1
<1>2. ASSUME NEW n \in Nat, n \in S PROVE n + 1 \in S
  <2>1. PICK f : IsCopies(f, s, base, n)
    BY <1>2
  <2>. DEFINE g == [k \in 0 .. n + 1 |-> IF k <= n THEN f[k] ELSE CopyDown(f[n], s[n + 1])]
  <2>2. ASSUME NEW k \in 0 .. n + 1
        PROVE  g[k] = IF k = 0 THEN base ELSE CopyDown(g[k - 1], s[k])
    <3>1. CASE k = 0
      BY <2>1, <3>1 DEF IsCopies
    <3>2. CASE k # 0 /\ k <= n
      <4>1. k - 1 \in 0 .. n /\ k \in 0 .. n /\ k - 1 <= n /\ k - 1 \in 0 .. n + 1
        BY <3>2
      <4>2. f[k] = CopyDown(f[k - 1], s[k])
        BY <2>1, <3>2, <4>1 DEF IsCopies
      <4>. QED
        BY <3>2, <4>1, <4>2
    <3>3. CASE k = n + 1
      <4>1. n \in 0 .. n + 1 /\ k # 0 /\ ~(k <= n) /\ k - 1 = n
        BY <3>3
      <4>2. g[k] = CopyDown(f[n], s[n + 1]) /\ g[n] = f[n]
        BY <4>1
      <4>. QED
        BY <3>3, <4>1, <4>2
    <3>. QED
      BY <3>1, <3>2, <3>3
  <2>3. g = [k \in 0 .. n + 1 |-> g[k]]
    OBVIOUS
  <2>. HIDE DEF g
  <2>4. IsCopies(g, s, base, n + 1)
    BY <2>2, <2>3 DEF IsCopies
  <2>. QED
    BY <2>4
<1>. HIDE DEF S
<1>3. \A n \in Nat : n \in S
  BY <1>1, <1>2, CountUp
<1>. QED
  BY <1>3 DEF S

LEMMA DefragmentedTyped ==
  ASSUME TypeOK, NEW b \in Buffers
  PROVE  Defragmented(b) \in CopyType
<1>. DEFINE s == freeList[b].blocks
            base == [bytes |-> memory[b], next |-> 0]
            f == CHOOSE f : IsCopies(f, s, base, Len(s))
<1>1. s \in Seq(Block) /\ Len(s) \in Nat
  BY DEF TypeOK, Block
<1>2. base \in CopyType
  BY DEF TypeOK, CopyType
<1>3. Defragmented(b) = f[Len(s)]
  BY DEF Defragmented, IsCopies
<1>. HIDE DEF s, base
<1>4. IsCopies(f, s, base, Len(s))
  BY <1>1, CopiesExist
<1>. HIDE DEF f
<1>5. f[Len(s)] \in CopyType
  BY <1>1, <1>2, <1>4, CopiesTyped
<1>. QED
  BY <1>3, <1>5

-----------------------------------------------------------------------------
(* Handles                                                                 *)

LEMMA FrontIs ==
  ASSUME NEW s \in Seq(Nat), s # <<>>
  PROVE  /\ Front(s) \in Seq(Nat) /\ Last(s) = s[Len(s)]
         /\ Len(s) \in DOMAIN s
         /\ \A i \in DOMAIN Front(s) : i \in DOMAIN s /\ i # Len(s) /\ Front(s)[i] = s[i]
<1>1. Len(s) \in Nat \ {0} /\ DOMAIN s = 1 .. Len(s)
  OBVIOUS
<1>2. SubSeq(s, 1, Len(s) - 1) \in Seq(Nat) /\ Len(SubSeq(s, 1, Len(s) - 1)) = Len(s) - 1
      /\ \A i \in 1 .. Len(s) - 1 : SubSeq(s, 1, Len(s) - 1)[i] = s[i]
  BY <1>1
<1>3. Front(s) = SubSeq(s, 1, Len(s) - 1) /\ Last(s) = s[Len(s)]
  BY DEF Front, Last
<1>. QED
  BY <1>1, <1>2, <1>3

(* AssignHandle's handle is no mesh's, waits no longer, and leads to the   *)
(* new offset; every other one leads where it led.                         *)
LEMMA AssignIs ==
  ASSUME TypeOK, HandlesUnique, HandlesIdle, NEW b \in Buffers, NEW offset \in 0 .. Word - 1,
         AssignHandle(b, offset)
  PROVE  LET h == AssignedHandle(b)
         IN  /\ HandleOffsets' \in [Buffers -> Seq(0 .. Word - 1)]
             /\ UnusedHandles' \in [Buffers -> Seq(Nat)]
             /\ h \in Nat /\ h \in DOMAIN HandleOffsets'[b] /\ HandleOffsets'[b][h] = offset
             /\ \A k \in DOMAIN HandleOffsets[b] :
                  /\ k \in DOMAIN HandleOffsets'[b]
                  /\ k # h => HandleOffsets'[b][k] = HandleOffsets[b][k]
             /\ \A a \in allocations[b] : a.handle # h
             /\ \A i \in DOMAIN UnusedHandles'[b] :
                  /\ i \in DOMAIN UnusedHandles[b] /\ UnusedHandles'[b][i] = UnusedHandles[b][i]
                  /\ UnusedHandles'[b][i] # h
             /\ \A c \in Buffers \ {b} :
                  HandleOffsets'[c] = HandleOffsets[c] /\ UnusedHandles'[c] = UnusedHandles[c]
<1>. DEFINE H == HandleOffsets[b]
            U == UnusedHandles[b]
            h == AssignedHandle(b)
<1>1. /\ HandleOffsets \in [Buffers -> Seq(0 .. Word - 1)]
      /\ UnusedHandles \in [Buffers -> Seq(Nat)]
      /\ H \in Seq(0 .. Word - 1) /\ U \in Seq(Nat)
      /\ \A i \in DOMAIN U : U[i] \in DOMAIN H
      /\ \A a \in allocations[b] : a.handle \in DOMAIN H
  BY DEF TypeOK
<1>2. DOMAIN H = 1 .. Len(H) /\ Len(H) \in Nat
  BY <1>1
<1>3. CASE U = <<>>
  <2>. DEFINE new == Append(H, offset)
  <2>1. h = Len(H) + 1
    BY <1>3 DEF AssignedHandle
  <2>2. HandleOffsets' = [HandleOffsets EXCEPT ![b] = new] /\ UnusedHandles' = UnusedHandles
    BY <1>3 DEF AssignHandle
  <2>3. /\ new \in Seq(0 .. Word - 1) /\ DOMAIN new = 1 .. Len(H) + 1
        /\ \A k \in 1 .. Len(H) : new[k] = H[k]
        /\ new[Len(H) + 1] = offset
    BY <1>1
  <2>. HIDE DEF new, H, h
  <2>4. /\ HandleOffsets' \in [Buffers -> Seq(0 .. Word - 1)] /\ HandleOffsets'[b] = new
        /\ \A c \in Buffers \ {b} : HandleOffsets'[c] = HandleOffsets[c]
    BY <1>1, <2>2, <2>3
  <2>5. /\ h \in Nat /\ h \in DOMAIN new /\ new[h] = offset /\ h \notin DOMAIN H
        /\ \A k \in DOMAIN H : k \in DOMAIN new /\ new[k] = H[k]
    BY <1>2, <2>1, <2>3
  <2>6. DOMAIN UnusedHandles'[b] = {}
    BY <1>1, <1>3, <2>2
  <2>. QED
    BY <1>1, <2>2, <2>4, <2>5, <2>6 DEF H, h
<1>4. CASE U # <<>>
  <2>. DEFINE last == U[Len(U)]
              new == [H EXCEPT ![last] = offset]
              rest == Front(U)
  <2>1. /\ rest \in Seq(Nat) /\ Last(U) = last /\ Len(U) \in DOMAIN U
        /\ \A i \in DOMAIN rest : i \in DOMAIN U /\ i # Len(U) /\ rest[i] = U[i]
    BY <1>1, <1>4, FrontIs
  <2>2. h = last
    BY <1>4, <2>1 DEF AssignedHandle
  <2>3. HandleOffsets' = [HandleOffsets EXCEPT ![b] = new]
        /\ UnusedHandles' = [UnusedHandles EXCEPT ![b] = rest]
    BY <1>4, <2>1 DEF AssignHandle
  <2>4. last \in DOMAIN H /\ last \in Nat
    BY <1>1, <1>2, <2>1
  <2>5. new \in Seq(0 .. Word - 1) /\ DOMAIN new = DOMAIN H
    BY <1>1, <2>4
  <2>6. new[last] = offset /\ \A k \in DOMAIN H : k # last => new[k] = H[k]
    BY <2>4
  <2>7. \A i \in DOMAIN rest : i \in DOMAIN U /\ rest[i] = U[i] /\ U[i] # last
    BY <1>4, <2>1 DEF HandlesIdle
  <2>8. \A a \in allocations[b] : a.handle # last
    BY <2>1 DEF HandlesUnique
  <2>. HIDE DEF new, rest, last
  <2>9. /\ HandleOffsets' \in [Buffers -> Seq(0 .. Word - 1)] /\ HandleOffsets'[b] = new
        /\ UnusedHandles' \in [Buffers -> Seq(Nat)] /\ UnusedHandles'[b] = rest
        /\ \A c \in Buffers \ {b} :
             HandleOffsets'[c] = HandleOffsets[c] /\ UnusedHandles'[c] = UnusedHandles[c]
    BY <1>1, <2>1, <2>3, <2>5
  <2>. HIDE DEF H, U, h
  <2>. QED
    BY <2>2, <2>4, <2>5, <2>6, <2>7, <2>8, <2>9 DEF H, U, h
<1>. QED
  BY <1>3, <1>4

(* What Grant does to the meshes and their handles.                        *)
(* What an allocation of "size" bytes at "offset" does to a buffer's        *)
(* handles and meshes.                                                     *)
Granted(b, size, offset) ==
  /\ HandleOffsets' \in [Buffers -> Seq(0 .. Word - 1)]
  /\ UnusedHandles' \in [Buffers -> Seq(Nat)]
  /\ allocations' \in
       [Buffers -> SUBSET [id: 1 .. MaxAllocations, handle: Nat, size: Sizes]]
  /\ \A c \in Buffers :
       /\ \A i \in DOMAIN UnusedHandles'[c] :
            UnusedHandles'[c][i] \in DOMAIN HandleOffsets'[c]
       /\ \A a \in allocations'[c] : a.handle \in DOMAIN HandleOffsets'[c]
  /\ count' \in 0 .. MaxAllocations
  /\ HandlesUnique' /\ HandlesIdle' /\ IdsUsed'
  /\ \A c \in Buffers \ {b} :
       HandleOffsets'[c] = HandleOffsets[c] /\ allocations'[c] = allocations[c]
  /\ \A a \in allocations[b] : HandleOffsets'[b][a.handle] = HandleOffsets[b][a.handle]
  /\ \E new \in [id: {count + 1}, handle: Nat, size: {size}] :
       /\ new \notin allocations[b]
       /\ allocations'[b] = allocations[b] \cup {new}
       /\ HandleOffsets'[b][new.handle] = offset

LEMMA GrantStep ==
  ASSUME TypeOK, HandlesUnique, HandlesIdle, IdsUsed, count < MaxAllocations,
         NEW b \in Buffers, NEW size \in Sizes, NEW offset \in 0 .. Word - 1,
         Grant(b, offset, size)
  PROVE  Granted(b, size, offset)
<1>. DEFINE h == AssignedHandle(b)
            new == [id |-> count + 1, handle |-> h, size |-> size]
<1>1. /\ HandleOffsets' \in [Buffers -> Seq(0 .. Word - 1)]
      /\ UnusedHandles' \in [Buffers -> Seq(Nat)]
      /\ h \in Nat /\ h \in DOMAIN HandleOffsets'[b] /\ HandleOffsets'[b][h] = offset
      /\ \A k \in DOMAIN HandleOffsets[b] :
           /\ k \in DOMAIN HandleOffsets'[b]
           /\ k # h => HandleOffsets'[b][k] = HandleOffsets[b][k]
      /\ \A a \in allocations[b] : a.handle # h
      /\ \A i \in DOMAIN UnusedHandles'[b] :
           /\ i \in DOMAIN UnusedHandles[b] /\ UnusedHandles'[b][i] = UnusedHandles[b][i]
           /\ UnusedHandles'[b][i] # h
      /\ \A c \in Buffers \ {b} :
           HandleOffsets'[c] = HandleOffsets[c] /\ UnusedHandles'[c] = UnusedHandles[c]
  BY AssignIs DEF Grant
<1>2. /\ allocations \in [Buffers -> SUBSET [id: 1 .. MaxAllocations, handle: Nat, size: Sizes]]
      /\ count \in 0 .. MaxAllocations /\ count + 1 \in 1 .. MaxAllocations
      /\ \A c \in Buffers :
           /\ \A i \in DOMAIN UnusedHandles[c] : UnusedHandles[c][i] \in DOMAIN HandleOffsets[c]
           /\ \A a \in allocations[c] : a.handle \in DOMAIN HandleOffsets[c]
  <2>1. count \in 0 .. MaxAllocations /\ count + 1 \in 1 .. MaxAllocations
    BY SizesAssumption DEF TypeOK
  <2>. QED
    BY <2>1 DEF TypeOK
<1>3. allocations' = [allocations EXCEPT ![b] = @ \cup {new}] /\ count' = count + 1
  BY DEF Grant
<1>. HIDE DEF h
<1>4. new \in [id: 1 .. MaxAllocations, handle: Nat, size: Sizes] /\ new.handle = h
      /\ new.id = count + 1 /\ new \in [id: {count + 1}, handle: Nat, size: {size}]
  BY <1>1, <1>2
<1>. HIDE DEF new
<1>5. /\ allocations' \in [Buffers -> SUBSET [id: 1 .. MaxAllocations, handle: Nat, size: Sizes]]
      /\ allocations'[b] = allocations[b] \cup {new}
      /\ \A c \in Buffers \ {b} : allocations'[c] = allocations[c]
  BY <1>2, <1>3, <1>4
<1>6. new \notin allocations[b]
  BY <1>1, <1>4
<1>7. \A c \in Buffers :
        /\ \A i \in DOMAIN UnusedHandles'[c] : UnusedHandles'[c][i] \in DOMAIN HandleOffsets'[c]
        /\ \A a \in allocations'[c] : a.handle \in DOMAIN HandleOffsets'[c]
  <2>. TAKE c \in Buffers
  <2>1. CASE c # b
    BY <1>1, <1>2, <1>5, <2>1
  <2>2. CASE c = b
    <3>1. \A i \in DOMAIN UnusedHandles'[b] : UnusedHandles'[b][i] \in DOMAIN HandleOffsets'[b]
      BY <1>1, <1>2
    <3>2. \A a \in allocations'[b] : a.handle \in DOMAIN HandleOffsets'[b]
      BY <1>1, <1>2, <1>4, <1>5
    <3>. QED
      BY <2>2, <3>1, <3>2
  <2>. QED
    BY <2>1, <2>2
<1>8. HandlesUnique'
  <2>. SUFFICES ASSUME NEW c \in Buffers, NEW a \in allocations'[c], NEW d \in allocations'[c]
                PROVE  /\ a.handle = d.handle => a = d
                       /\ \A i \in DOMAIN UnusedHandles'[c] : UnusedHandles'[c][i] # a.handle
    BY DEF HandlesUnique
  <2>1. \A x, y \in allocations[c] :
          /\ x.handle = y.handle => x = y
          /\ \A i \in DOMAIN UnusedHandles[c] : UnusedHandles[c][i] # x.handle
    BY DEF HandlesUnique
  <2>2. CASE c # b
    <3>1. /\ allocations'[c] = allocations[c] /\ UnusedHandles'[c] = UnusedHandles[c]
      BY <1>1, <1>5, <2>2
    <3>. QED
      BY <2>1, <3>1
  <2>3. CASE c = b
    <3>1. /\ a \in allocations[c] \/ a = new
          /\ d \in allocations[c] \/ d = new
      BY <1>5, <2>3
    <3>2. \A x \in allocations[c] : x.handle # new.handle
      BY <1>1, <1>4, <2>3
    <3>3. \A i \in DOMAIN UnusedHandles'[c] :
            /\ i \in DOMAIN UnusedHandles[c] /\ UnusedHandles'[c][i] = UnusedHandles[c][i]
            /\ UnusedHandles'[c][i] # new.handle
      BY <1>1, <1>4, <2>3
    <3>4. a.handle = d.handle => a = d
      BY <2>1, <3>1, <3>2
    <3>5. \A i \in DOMAIN UnusedHandles'[c] : UnusedHandles'[c][i] # a.handle
      BY <2>1, <3>1, <3>3
    <3>. QED
      BY <3>4, <3>5
  <2>. QED
    BY <2>2, <2>3
<1>9. HandlesIdle'
  <2>. SUFFICES ASSUME NEW c \in Buffers, NEW i \in DOMAIN UnusedHandles'[c],
                       NEW j \in DOMAIN UnusedHandles'[c], UnusedHandles'[c][i] = UnusedHandles'[c][j]
                PROVE  i = j
    BY DEF HandlesIdle
  <2>1. /\ i \in DOMAIN UnusedHandles[c] /\ UnusedHandles'[c][i] = UnusedHandles[c][i]
        /\ j \in DOMAIN UnusedHandles[c] /\ UnusedHandles'[c][j] = UnusedHandles[c][j]
    BY <1>1
  <2>. QED
    BY <2>1 DEF HandlesIdle
<1>10. IdsUsed'
  <2>. SUFFICES ASSUME NEW c \in Buffers, NEW a \in allocations'[c] PROVE a.id <= count'
    BY DEF IdsUsed
  <2>1. a = new \/ a \in allocations[c]
    BY <1>5
  <2>2. a \in allocations[c] => a.id <= count /\ a.id \in Int
    BY <1>2 DEF IdsUsed
  <2>. QED
    BY <1>2, <1>3, <1>4, <2>1, <2>2
<1>11. \A a \in allocations[b] : HandleOffsets'[b][a.handle] = HandleOffsets[b][a.handle]
  BY <1>1, <1>2
<1>12. count' \in 0 .. MaxAllocations
  BY <1>2, <1>3
<1>. QED
  BY <1>1, <1>4, <1>5, <1>6, <1>7, <1>8, <1>9, <1>10, <1>11, <1>12 DEF Granted

-----------------------------------------------------------------------------
(* A sound buffer stays sound                                              *)

LEMMA RangeIs ==
  ASSUME TypeOK, NEW b \in Buffers, NEW a \in allocations[b]
  PROVE  /\ OffsetOf(b, a) \in Nat /\ a.size \in Nat \ {0}
         /\ RangeOf(b, a) \subseteq Nat
<1>1. a.size \in Nat \ {0}
  <2>1. a \in [id: 1 .. MaxAllocations, handle: Nat, size: Sizes]
    BY DEF TypeOK
  <2>2. a.size \in Sizes
    BY <2>1
  <2>. QED
    BY <2>2, SizesAssumption
<1>2. HandleOffsets[b][a.handle] \in Nat
  <2>. DEFINE H == HandleOffsets[b]
              h == a.handle
              W == 0 .. Word - 1
  <2>1. H \in Seq(W) /\ h \in DOMAIN H
    BY DEF TypeOK
  <2>. HIDE DEF H, h, W
  <2>2. H[h] \in W
    <3>1. DOMAIN H = 1 .. Len(H) /\ \A k \in 1 .. Len(H) : H[k] \in W
      BY <2>1
    <3>. QED
      BY <2>1, <3>1
  <2>3. H[h] \in Nat
    BY <2>2, SizesAssumption DEF W
  <2>. QED
    BY <2>3 DEF H, h
<1>. QED
  BY <1>1, <1>2 DEF OffsetOf, RangeOf, Interval

LEMMA BytesHeldFit ==
  ASSUME TypeOK, NEW b \in Buffers, RangesHeld(b), RangesApart(b)
  PROVE  /\ IsFiniteSet(HeldBytes(b))
         /\ Cardinality(HeldBytes(b)) <= capacity[b] /\ Cardinality(HeldBytes(b)) \in Nat
<1>. DEFINE at == [a \in allocations[b] |-> OffsetOf(b, a)]
            A == allocations[b]
<1>1. at \in [A -> Nat] /\ \A a \in A : a.size \in Nat /\ at[a] = OffsetOf(b, a)
  BY RangeIs
<1>2. capacity[b] \in Nat
  BY SizesAssumption DEF TypeOK
<1>3. \A a \in A : \A x \in RangeOf(b, a) : x < capacity[b]
  BY DEF RangesHeld
<1>4. \A a, c \in A : a # c => RangeOf(b, a) \cap RangeOf(b, c) = {}
  BY DEF RangesApart
<1>. HIDE DEF at
<1>5. \A a \in A : Interval(at[a], a.size) = RangeOf(b, a)
  BY <1>1 DEF RangeOf
<1>. HIDE DEF A
<1>6. /\ \A a \in A : a.size \in Nat
      /\ \A a \in A : \A x \in Interval(at[a], a.size) : x < capacity[b]
      /\ \A a, c \in A : a # c => Interval(at[a], a.size) \cap Interval(at[c], c.size) = {}
  BY <1>1, <1>3, <1>4, <1>5
<1>7. IsFiniteSet(Held(A)) /\ Cardinality(Held(A)) <= capacity[b]
  BY <1>1, <1>2, <1>6, HeldFits
<1>8. HeldBytes(b) = Held(A)
  BY DEF HeldBytes, Held, A
<1>. QED
  BY <1>7, <1>8, FS_CardinalityType

(* Another buffer's step.                                                  *)
LEMMA OthersSound ==
  ASSUME NEW c \in Buffers, BufferSound(c),
         freeList'[c] = freeList[c], capacity'[c] = capacity[c], freeSpace'[c] = freeSpace[c],
         memory'[c] = memory[c], allocations'[c] = allocations[c],
         HandleOffsets'[c] = HandleOffsets[c]
  PROVE  BufferSound(c)'
BY DEF BufferSound, RangesHeld, RangesApart, SpaceCounted, RangeOf, OffsetOf, HeldBytes

(* An allocation that passes FreeList::Allocate's assertions, from the     *)
(* buffer's list or from the list just grown.                              *)
LEMMA TakeSound ==
  ASSUME TypeOK, TypeOK', NEW b \in Buffers, BufferSound(b),
         NEW size \in Sizes, NEW offset \in 0 .. Word - 1, NEW list \in ListType,
         capacity[b] <= capacity'[b], Listed(list, capacity'[b]), Ordered(list),
         \A x \in Nat : Offers(list, x) => Offers(freeList[b], x) \/ x >= capacity[b],
         FL!CanAllocate(list, offset, size),
         freeList'[b] = FL!Allocate(list, offset, size),
         memory'[b] = Written(memory[b], count + 1, offset, size),
         freeSpace'[b] = FL!Minus(freeSpace[b] + (capacity'[b] - capacity[b]), size),
         \A a \in allocations[b] : HandleOffsets'[b][a.handle] = HandleOffsets[b][a.handle],
         \E new \in [id: {count + 1}, handle: Nat, size: {size}] :
              /\ new \notin allocations[b]
              /\ allocations'[b] = allocations[b] \cup {new}
              /\ HandleOffsets'[b][new.handle] = offset
  PROVE  BufferSound(b)'
<1>. DEFINE cap == capacity[b]
            capN == capacity'[b]
            A == allocations[b]
<1>1. /\ cap \in Nat /\ cap <= MaxCapacity /\ capN \in Nat /\ capN <= MaxCapacity /\ capN < Word
      /\ offset \in Nat /\ size \in Nat \ {0} /\ freeSpace[b] \in Nat /\ Word \in Nat
      /\ MaxCapacity \in Nat
  <2>1. Word \in Nat /\ MaxCapacity \in Nat /\ MaxCapacity < Word /\ size \in Nat \ {0}
    BY SizesAssumption
  <2>2. cap \in 0 .. MaxCapacity /\ freeSpace[b] \in 0 .. Word - 1
    BY DEF TypeOK
  <2>3. capN \in 0 .. MaxCapacity
    BY DEF TypeOK
  <2>. HIDE DEF cap, capN
  <2>. QED
    BY <2>1, <2>2, <2>3
<1>2. PICK new \in [id: {count + 1}, handle: Nat, size: {size}] :
              /\ new \notin A
              /\ allocations'[b] = A \cup {new}
              /\ HandleOffsets'[b][new.handle] = offset
  OBVIOUS
<1>3. new.id = count + 1 /\ new.size = size
  OBVIOUS
<1>4. /\ Listed(freeList'[b], capN) /\ offset + size <= capN
      /\ \A x \in Interval(offset, size) : Offers(list, x)
      /\ Ordered(freeList'[b])
      /\ \A x \in Nat : Offers(freeList'[b], x) => Offers(list, x) /\ x \notin Interval(offset, size)
  BY <1>1, AllocateSound
<1>5. ASSUME NEW a \in A
      PROVE  /\ RangeOf(b, a)' = RangeOf(b, a) /\ RangeOf(b, a) \subseteq Nat
             /\ \A x \in RangeOf(b, a) :
                  x < cap /\ memory[b][x] = a.id /\ ~Offers(freeList[b], x)
  BY RangeIs DEF BufferSound, RangesHeld, RangeOf, OffsetOf
<1>6. RangeOf(b, new)' = Interval(offset, size) /\ Interval(offset, size) \subseteq Nat
  BY <1>1, <1>2, <1>3 DEF RangeOf, OffsetOf, Interval
<1>7. ASSUME NEW a \in A, NEW x \in RangeOf(b, a)
      PROVE  x \in Nat /\ ~Offers(list, x) /\ x \notin Interval(offset, size)
             /\ ~Offers(freeList'[b], x)
  <2>1. x \in Nat /\ x < cap /\ ~Offers(freeList[b], x)
    BY <1>5
  <2>2. ~Offers(list, x)
    BY <1>1, <2>1
  <2>. QED
    BY <1>4, <2>1, <2>2
<1>8. RangesHeld(b)'
  <2>. SUFFICES ASSUME NEW a \in allocations'[b], NEW x \in RangeOf(b, a)'
                PROVE  x < capN /\ memory'[b][x] = a.id /\ ~Offers(freeList'[b], x)
    BY DEF RangesHeld
  <2>1. CASE a = new
    <3>1. x \in Interval(offset, size) /\ x \in Nat
      BY <1>6, <2>1
    <3>2. x < capN /\ x \in Bytes
      BY <1>1, <1>4, <3>1 DEF Interval, Bytes
    <3>3. memory'[b][x] = count + 1
      BY <3>1, <3>2 DEF Written
    <3>. QED
      BY <1>3, <1>4, <2>1, <3>1, <3>2, <3>3
  <2>2. CASE a \in A
    <3>1. x \in RangeOf(b, a)
      BY <1>5, <2>2
    <3>2. x \in Nat /\ x < cap /\ memory[b][x] = a.id
      BY <1>5, <2>2, <3>1
    <3>3. x \in Bytes /\ x < capN
      BY <1>1, <3>2 DEF Bytes
    <3>4. memory'[b][x] = a.id
      BY <1>7, <2>2, <3>1, <3>2, <3>3 DEF Written
    <3>. QED
      BY <1>7, <2>2, <3>1, <3>3, <3>4
  <2>. QED
    BY <1>2, <2>1, <2>2
<1>9. RangesApart(b)'
  <2>. SUFFICES ASSUME NEW a \in allocations'[b], NEW c \in allocations'[b], a # c
                PROVE  RangeOf(b, a)' \cap RangeOf(b, c)' = {}
    BY DEF RangesApart
  <2>1. CASE a \in A /\ c \in A
    BY <1>5, <2>1 DEF BufferSound, RangesApart
  <2>2. CASE a \in A /\ c = new
    BY <1>5, <1>6, <1>7, <2>2
  <2>3. CASE a = new /\ c \in A
    BY <1>5, <1>6, <1>7, <2>3
  <2>. QED
    BY <1>2, <2>1, <2>2, <2>3
<1>10. SpaceCounted(b)'
  <2>1. /\ IsFiniteSet(HeldBytes(b)) /\ Cardinality(HeldBytes(b)) \in Nat
    BY BytesHeldFit DEF BufferSound
  <2>2. (TypeOK /\ RangesHeld(b) /\ RangesApart(b) => Cardinality(HeldBytes(b)) <= capacity[b])'
    BY BytesHeldFit, PTL
  <2>3. Cardinality(HeldBytes(b)') <= capN
    BY <1>8, <1>9, <2>2
  <2>4. HeldBytes(b)' = Held(A \cup {new}) /\ HeldBytes(b) = Held(A)
    BY <1>2 DEF HeldBytes, Held
  <2>5. Cardinality(Held(A \cup {new})) = Cardinality(Held(A)) + size
    BY <1>1, <1>2, <1>3, <2>1, <2>4, HeldGrows
  <2>. DEFINE n == Cardinality(Held(A))
              m == Cardinality(HeldBytes(b)')
  <2>6. freeSpace[b] = cap - n /\ n \in Nat
    BY <2>1, <2>4 DEF BufferSound, SpaceCounted
  <2>7. m = n + size /\ m <= capN
    BY <2>3, <2>4, <2>5
  <2>. HIDE DEF n, m, cap, capN, A
  <2>8. /\ freeSpace[b] + (capN - cap) \in Int /\ freeSpace[b] + (capN - cap) >= size
        /\ (freeSpace[b] + (capN - cap)) - size < Word /\ size \in Int
        /\ (freeSpace[b] + (capN - cap)) - size = capN - m
    BY <1>1, <2>6, <2>7
  <2>9. FL!Minus(freeSpace[b] + (capN - cap), size) = capN - m
    BY <2>8, MinusSmall
  <2>. QED
    BY <2>9 DEF SpaceCounted, m, cap, capN
<1>. QED
  BY <1>4, <1>8, <1>9, <1>10 DEF BufferSound

(* The part of a step of Allocate that is the same in three of its ways:   *)
(* the bytes come from "list", which is the buffer's or the grown one.     *)
Taken(b, size, offset, list, extra) ==
  /\ failed' = ~FL!CanAllocate(list, offset, size)
  /\ freeList' = [freeList EXCEPT ![b] = FL!Allocate(list, offset, size)]
  /\ Hand(b, offset, size)
  /\ capacity' = [capacity EXCEPT ![b] = @ + extra]
  /\ freeFastSpace' \in [Buffers -> 0 .. Word - 1]
  /\ freeSpace' = [freeSpace EXCEPT ![b] = FL!Minus(@ + extra, size)]
  /\ UNCHANGED defragmented

LEMMA WrittenTyped ==
  ASSUME NEW bytes \in [Bytes -> 0 .. MaxAllocations], NEW id \in 0 .. MaxAllocations,
         NEW offset, NEW size
  PROVE  Written(bytes, id, offset, size) \in [Bytes -> 0 .. MaxAllocations]
BY DEF Written

LEMMA TakenStep ==
  ASSUME AllocInv, NEW b \in Buffers, NEW size \in Sizes, NEW offset \in 0 .. Word - 1,
         NEW extra \in Nat, capacity[b] + extra <= MaxCapacity,
         NEW list \in ListType, Listed(list, capacity[b] + extra),
         Ordered(freeList[b]) => Ordered(list),
         \A x \in Nat : Offers(list, x) => Offers(freeList[b], x) \/ x >= capacity[b],
         ~failed, count < MaxAllocations, Taken(b, size, offset, list, extra)
  PROVE  AllocInv'
<1>. DEFINE cap == capacity[b] + extra
            new == FL!Allocate(list, offset, size)
            space == FL!Minus(freeSpace[b] + extra, size)
<1>1. /\ TypeOK /\ HandlesUnique /\ HandlesIdle /\ IdsUsed
      /\ \A c \in Buffers : Listed(freeList[c], capacity[c])
      /\ \A c \in Buffers : Sound(c) => BufferSound(c)
  BY DEF AllocInv, ListsWithin
<1>2. Grant(b, offset, size)
      /\ memory' = [memory EXCEPT ![b] = Written(@, count + 1, offset, size)]
  BY DEF Taken, Hand
<1>3. /\ HandleOffsets' \in [Buffers -> Seq(0 .. Word - 1)]
      /\ UnusedHandles' \in [Buffers -> Seq(Nat)]
      /\ allocations' \in
           [Buffers -> SUBSET [id: 1 .. MaxAllocations, handle: Nat, size: Sizes]]
      /\ \A c \in Buffers :
           /\ \A i \in DOMAIN UnusedHandles'[c] :
                UnusedHandles'[c][i] \in DOMAIN HandleOffsets'[c]
           /\ \A a \in allocations'[c] : a.handle \in DOMAIN HandleOffsets'[c]
      /\ count' \in 0 .. MaxAllocations
      /\ HandlesUnique' /\ HandlesIdle' /\ IdsUsed'
      /\ \A c \in Buffers \ {b} :
           HandleOffsets'[c] = HandleOffsets[c] /\ allocations'[c] = allocations[c]
      /\ \A a \in allocations[b] : HandleOffsets'[b][a.handle] = HandleOffsets[b][a.handle]
      /\ \E mesh \in [id: {count + 1}, handle: Nat, size: {size}] :
           /\ mesh \notin allocations[b]
           /\ allocations'[b] = allocations[b] \cup {mesh}
           /\ HandleOffsets'[b][mesh.handle] = offset
  <2>1. Granted(b, size, offset)
    BY <1>1, <1>2, GrantStep
  <2>. QED
    BY <2>1 DEF Granted
<1>4. /\ size \in Nat \ {0} /\ Word \in Nat /\ MaxCapacity \in Nat /\ MaxCapacity < Word
      /\ offset \in Nat /\ MaxAllocations \in Nat
  BY SizesAssumption
<1>5. /\ capacity \in [Buffers -> 0 .. MaxCapacity] /\ capacity[b] \in Nat
      /\ freeSpace \in [Buffers -> 0 .. Word - 1] /\ freeSpace[b] \in Nat
      /\ freeList \in [Buffers -> ListType]
      /\ memory \in [Buffers -> [Bytes -> 0 .. MaxAllocations]]
      /\ count \in 0 .. MaxAllocations
  BY <1>1, <1>4 DEF TypeOK, ListType, Block
<1>6. cap \in 0 .. MaxCapacity /\ cap \in Nat /\ cap < Word /\ capacity[b] <= cap
  BY <1>4, <1>5
<1>7. new \in ListType
  BY <1>4, AllocateTyped
<1>8. space \in 0 .. Word - 1
  <2>1. freeSpace[b] + extra \in Int /\ size \in Int
    BY <1>4, <1>5
  <2>. QED
    BY <2>1, MinusIs
<1>9. Written(memory[b], count + 1, offset, size) \in [Bytes -> 0 .. MaxAllocations]
  <2>1. count + 1 \in 0 .. MaxAllocations /\ memory[b] \in [Bytes -> 0 .. MaxAllocations]
    BY <1>4, <1>5
  <2>. QED
    BY <2>1, WrittenTyped
<1>10. /\ failed' = ~FL!CanAllocate(list, offset, size)
       /\ freeList' = [freeList EXCEPT ![b] = new]
       /\ capacity' = [capacity EXCEPT ![b] = cap]
       /\ freeFastSpace' \in [Buffers -> 0 .. Word - 1]
       /\ freeSpace' = [freeSpace EXCEPT ![b] = space]
       /\ defragmented' = defragmented
  BY DEF Taken
<1>11. /\ Listed(list, cap) /\ capacity[b] + extra = cap
  OBVIOUS
<1>12. space = FL!Minus(freeSpace[b] + (cap - capacity[b]), size)
  <2>1. cap - capacity[b] = extra
    BY <1>5
  <2>. QED
    BY <2>1
<1>. HIDE DEF cap, new, space
<1>13. /\ capacity' \in [Buffers -> 0 .. MaxCapacity] /\ capacity'[b] = cap
       /\ freeSpace' \in [Buffers -> 0 .. Word - 1] /\ freeSpace'[b] = space
       /\ freeList' \in [Buffers -> ListType] /\ freeList'[b] = new
       /\ memory' \in [Buffers -> [Bytes -> 0 .. MaxAllocations]]
       /\ memory'[b] = Written(memory[b], count + 1, offset, size)
       /\ \A c \in Buffers \ {b} :
            /\ capacity'[c] = capacity[c] /\ freeSpace'[c] = freeSpace[c]
            /\ freeList'[c] = freeList[c] /\ memory'[c] = memory[c]
  BY <1>2, <1>5, <1>6, <1>7, <1>8, <1>9, <1>10
<1>14. TypeOK'
  <2>1. failed' \in BOOLEAN /\ defragmented' \subseteq Buffers
    BY <1>1, <1>10 DEF TypeOK
  <2>2. freeList' \in [Buffers -> [fullSize: Nat, blocks: Seq([offset: Nat, size: Nat])]]
    BY <1>13 DEF ListType, Block
  <2>. QED
    BY <1>3, <1>10, <1>13, <2>1, <2>2 DEF TypeOK
<1>15. ListsWithin'
  <2>. SUFFICES ASSUME ~failed', NEW c \in Buffers PROVE Listed(freeList'[c], capacity'[c])
    BY DEF ListsWithin
  <2>1. CASE c = b
    <3>1. FL!CanAllocate(list, offset, size)
      BY <1>10
    <3>2. Listed(new, cap)
      BY <1>4, <1>6, <1>11, <3>1, AllocateSound DEF new
    <3>. QED
      BY <1>13, <2>1, <3>2
  <2>2. CASE c # b
    BY <1>1, <1>13, <2>2
  <2>. QED
    BY <2>1, <2>2
<1>16. ASSUME NEW c \in Buffers, Sound(c)' PROVE BufferSound(c)'
  <2>1. ~failed' /\ Sound(c)
    BY <1>10, <1>16 DEF Sound
  <2>2. BufferSound(c)
    BY <1>1, <2>1
  <2>3. CASE c # b
    BY <1>3, <1>13, <2>2, <2>3, OthersSound
  <2>4. CASE c = b
    <3>1. FL!CanAllocate(list, offset, size)
      BY <1>10, <2>1
    <3>2. Ordered(list) /\ BufferSound(b)
      BY <2>2, <2>4 DEF BufferSound
    <3>3. /\ capacity[b] <= capacity'[b] /\ Listed(list, capacity'[b])
          /\ freeList'[b] = FL!Allocate(list, offset, size)
          /\ freeSpace'[b] = FL!Minus(freeSpace[b] + (capacity'[b] - capacity[b]), size)
      BY <1>6, <1>11, <1>12, <1>13 DEF new
    <3>. QED
      BY <1>1, <1>3, <1>13, <1>14, <2>4, <3>1, <3>2, <3>3, TakeSound
  <2>. QED
    BY <2>3, <2>4
<1>. QED
  BY <1>3, <1>14, <1>15, <1>16 DEF AllocInv

-----------------------------------------------------------------------------
(* The steps                                                               *)

LEMMA TakeFastSpaceStep ==
  ASSUME AllocInv, NEW b \in Buffers, NEW size \in Sizes, NEW extra \in Nat,
         capacity[b] + extra <= MaxCapacity, ~failed, count < MaxAllocations,
         TakeFastSpace(b, size, extra)
  PROVE  AllocInv'
<1>. DEFINE list == IF extra = 0 THEN freeList[b] ELSE FL!Grow(freeList[b], capacity[b] + extra)
            fast == FL!Minus(freeFastSpace[b] + extra, size)
<1>1. /\ freeFastSpace \in [Buffers -> 0 .. Word - 1] /\ capacity[b] \in 0 .. MaxCapacity
      /\ freeList[b] \in ListType /\ Listed(freeList[b], capacity[b])
  BY DEF AllocInv, TypeOK, ListsWithin, ListType, Block
<1>2. size \in Nat /\ Word \in Nat /\ MaxCapacity \in Nat
  BY SizesAssumption
<1>3. capacity[b] \in Nat /\ capacity[b] + extra \in Nat /\ capacity[b] <= capacity[b] + extra
      /\ freeFastSpace[b] \in Int /\ freeFastSpace[b] + extra \in Int /\ size \in Int
      /\ capacity[b] \in Int
  <2>1. freeFastSpace[b] \in 0 .. Word - 1
    BY <1>1
  <2>. QED
    BY <1>1, <1>2, <2>1
<1>4. FastOffset(b) \in 0 .. Word - 1
  BY <1>3, MinusIs DEF FastOffset
<1>5. fast \in 0 .. Word - 1
  BY <1>3, MinusIs
<1>6. /\ list \in ListType /\ Listed(list, capacity[b] + extra)
      /\ Ordered(freeList[b]) => Ordered(list)
      /\ \A x \in Nat : Offers(list, x) => Offers(freeList[b], x) \/ x >= capacity[b]
  <2>1. CASE extra = 0
    BY <1>1, <1>3, <2>1
  <2>2. CASE extra # 0
    <3>1. list = FL!Grow(freeList[b], capacity[b] + extra)
      BY <2>2
    <3>. HIDE DEF list
    <3>. QED
      BY <1>1, <1>3, <3>1, GrowSound
  <2>. QED
    BY <2>1, <2>2
<1>7. freeFastSpace' = [freeFastSpace EXCEPT ![b] = fast]
  BY DEF TakeFastSpace
<1>8. Taken(b, size, FastOffset(b), list, extra)
  <2>1. freeFastSpace' \in [Buffers -> 0 .. Word - 1]
    <3>. HIDE DEF fast
    <3>. QED
      BY <1>1, <1>5, <1>7
  <2>. QED
    BY <2>1 DEF TakeFastSpace, Taken
<1>. HIDE DEF list
<1>. QED
  BY <1>4, <1>6, <1>8, TakenStep

LEMMA AllocateFromListStep ==
  ASSUME AllocInv, NEW b \in Buffers, NEW size \in Sizes, ~failed, count < MaxAllocations,
         AllocateFromList(b, size)
  PROVE  AllocInv'
<1>. DEFINE list == freeList[b]
            offset == FreeOffset(b, size)
            space == FL!Minus(freeSpace[b], size)
<1>1. /\ freeFastSpace \in [Buffers -> 0 .. Word - 1] /\ capacity[b] \in 0 .. MaxCapacity
      /\ capacity \in [Buffers -> 0 .. MaxCapacity] /\ freeSpace \in [Buffers -> 0 .. Word - 1]
      /\ list \in ListType /\ Listed(list, capacity[b])
  BY DEF AllocInv, TypeOK, ListsWithin, ListType, Block
<1>2. size \in Nat /\ Word \in Nat /\ MaxCapacity \in Nat /\ MaxCapacity < Word
  BY SizesAssumption
<1>3. offset \in 0 .. Word - 1
  <2>1. PICK i \in DOMAIN list.blocks : offset = list.blocks[i].offset
    BY <1>1, <1>2, FindIs DEF AllocateFromList, FreeOffset
  <2>2. /\ list.blocks[i].offset \in Nat /\ list.blocks[i].size \in Nat
        /\ FL!BlockEnd(list.blocks[i]) = list.blocks[i].offset + list.blocks[i].size
        /\ FL!BlockEnd(list.blocks[i]) <= capacity[b]
    BY <1>1, TypedBlocks DEF Listed
  <2>. HIDE DEF list, offset
  <2>. QED
    BY <1>1, <1>2, <2>1, <2>2
<1>4. /\ capacity[b] \in Nat /\ capacity[b] + 0 = capacity[b] /\ freeSpace[b] + 0 = freeSpace[b]
  BY <1>1, <1>2
<1>5. Taken(b, size, offset, list, 0)
  <2>1. capacity' = [capacity EXCEPT ![b] = @ + 0]
    BY <1>1, <1>4 DEF AllocateFromList
  <2>2. freeSpace' = [freeSpace EXCEPT ![b] = FL!Minus(@ + 0, size)]
    BY <1>1, <1>4 DEF AllocateFromList
  <2>3. freeFastSpace' \in [Buffers -> 0 .. Word - 1]
    BY <1>1 DEF AllocateFromList
  <2>. QED
    BY <2>1, <2>2, <2>3 DEF AllocateFromList, Taken
<1>6. capacity[b] + 0 <= MaxCapacity /\ Listed(list, capacity[b] + 0) /\ 0 \in Nat
  BY <1>1, <1>2, <1>4
<1>. HIDE DEF list, offset
<1>7. /\ Ordered(freeList[b]) => Ordered(list)
      /\ \A x \in Nat : Offers(list, x) => Offers(freeList[b], x) \/ x >= capacity[b]
  BY DEF list
<1>. QED
  BY <1>1, <1>3, <1>5, <1>6, <1>7, TakenStep

(* A defragmentation gives up the claims about the buffers it is about;    *)
(* types, handles and the other buffers are as sound as they were.         *)
LEMMA AllocateDefragmentedStep ==
  ASSUME AllocInv, NEW b \in Buffers, NEW size \in Sizes, ~failed, count < MaxAllocations,
         AllocateDefragmented(b, size)
  PROVE  AllocInv'
<1>. DEFINE d == DefragmentTarget
            fast == IF b = d THEN freeSpace[b] ELSE freeFastSpace[b]
            offset == FL!Minus(capacity[b], fast)
            moved == Defragmented(d).bytes
            next == Defragmented(d).next
            fresh == FL!NewFreeList(freeList[d].fullSize)
            left == FL!Minus(fast, size)
            space == FL!Minus(freeSpace[b], size)
            data == Written(IF b = d THEN moved ELSE memory[b], count + 1, offset, size)
            reset == ResetFreeList(d)
<1>1. /\ TypeOK /\ HandlesUnique /\ HandlesIdle /\ IdsUsed
      /\ \A c \in Buffers : Listed(freeList[c], capacity[c])
      /\ \A c \in Buffers : Sound(c) => BufferSound(c)
  BY DEF AllocInv, ListsWithin
<1>2. /\ d \in Buffers /\ Grant(b, offset, size)
      /\ freeList' = [freeList EXCEPT ![d] = reset]
      /\ freeFastSpace' = [[freeFastSpace EXCEPT ![d] = freeSpace[d]] EXCEPT ![b] = left]
      /\ memory' = [[memory EXCEPT ![d] = moved] EXCEPT ![b] = data]
      /\ freeSpace' = [freeSpace EXCEPT ![b] = space]
      /\ defragmented' = defragmented \cup {b, d}
      /\ failed' = ~FL!CanAllocate(fresh, 0, next)
      /\ capacity' = capacity
  BY DEF AllocateDefragmented
<1>3. /\ capacity \in [Buffers -> 0 .. MaxCapacity]
      /\ freeSpace \in [Buffers -> 0 .. Word - 1] /\ freeFastSpace \in [Buffers -> 0 .. Word - 1]
      /\ freeList \in [Buffers -> ListType]
      /\ memory \in [Buffers -> [Bytes -> 0 .. MaxAllocations]]
      /\ count \in 0 .. MaxAllocations
  BY <1>1 DEF TypeOK, ListType, Block
<1>4. /\ size \in Nat /\ Word \in Nat /\ MaxCapacity \in Nat /\ MaxCapacity < Word
      /\ MaxAllocations \in Nat
  BY SizesAssumption
<1>5. /\ freeSpace[b] \in 0 .. Word - 1 /\ freeFastSpace[b] \in 0 .. Word - 1
      /\ freeSpace[d] \in 0 .. Word - 1 /\ capacity[b] \in 0 .. MaxCapacity
      /\ capacity[d] \in 0 .. MaxCapacity
  BY <1>2, <1>3
<1>6. fast \in 0 .. Word - 1
  BY <1>5
<1>. HIDE DEF d, fast
<1>7. freeSpace[b] \in Int /\ capacity[b] \in Int /\ fast \in Int /\ size \in Int
      /\ capacity[d] \in Nat /\ capacity[d] < Word
  BY <1>4, <1>5, <1>6
<1>8. offset \in 0 .. Word - 1 /\ left \in 0 .. Word - 1 /\ space \in 0 .. Word - 1
  BY <1>7, MinusIs
<1>9. moved \in [Bytes -> 0 .. MaxAllocations] /\ next \in Nat
  BY <1>1, <1>2, DefragmentedTyped DEF CopyType
<1>10. data \in [Bytes -> 0 .. MaxAllocations]
  <2>1. memory[b] \in [Bytes -> 0 .. MaxAllocations] /\ count + 1 \in 0 .. MaxAllocations
    BY <1>3, <1>4
  <2>. HIDE DEF moved, offset
  <2>2. (IF b = d THEN moved ELSE memory[b]) \in [Bytes -> 0 .. MaxAllocations]
    BY <1>9, <2>1
  <2>. QED
    BY <2>1, <2>2, WrittenTyped
<1>11. freeList[d] \in ListType /\ freeList[d].fullSize = capacity[d]
  BY <1>1, <1>2, <1>3 DEF Listed
<1>12. fresh \in ListType /\ Listed(fresh, capacity[d]) /\ reset = FL!Allocate(fresh, 0, next)
  BY <1>7, <1>11, NewFreeListIs DEF ResetFreeList
<1>. HIDE DEF offset, left, space, moved, next, data, fresh, reset
<1>13. reset \in ListType
  BY <1>9, <1>12, AllocateTyped
<1>14. FL!CanAllocate(fresh, 0, next) => Listed(reset, capacity[d])
  BY <1>7, <1>9, <1>12, AllocateSound
<1>15. /\ HandleOffsets' \in [Buffers -> Seq(0 .. Word - 1)]
       /\ UnusedHandles' \in [Buffers -> Seq(Nat)]
       /\ allocations' \in
            [Buffers -> SUBSET [id: 1 .. MaxAllocations, handle: Nat, size: Sizes]]
       /\ \A c \in Buffers :
            /\ \A i \in DOMAIN UnusedHandles'[c] :
                 UnusedHandles'[c][i] \in DOMAIN HandleOffsets'[c]
            /\ \A a \in allocations'[c] : a.handle \in DOMAIN HandleOffsets'[c]
       /\ count' \in 0 .. MaxAllocations
       /\ HandlesUnique' /\ HandlesIdle' /\ IdsUsed'
       /\ \A c \in Buffers \ {b} :
            HandleOffsets'[c] = HandleOffsets[c] /\ allocations'[c] = allocations[c]
  <2>1. Granted(b, size, offset)
    BY <1>1, <1>2, <1>8, GrantStep
  <2>. QED
    BY <2>1 DEF Granted
<1>16. /\ freeList' \in [Buffers -> ListType] /\ freeList'[d] = reset
       /\ \A c \in Buffers \ {d} : freeList'[c] = freeList[c]
  BY <1>2, <1>3, <1>13
<1>17. TypeOK'
  <2>1. failed' \in BOOLEAN /\ defragmented' \subseteq Buffers
    BY <1>1, <1>2 DEF TypeOK
  <2>2. freeList' \in [Buffers -> [fullSize: Nat, blocks: Seq([offset: Nat, size: Nat])]]
    BY <1>16 DEF ListType, Block
  <2>3. freeFastSpace' \in [Buffers -> 0 .. Word - 1] /\ freeSpace' \in [Buffers -> 0 .. Word - 1]
        /\ capacity' \in [Buffers -> 0 .. MaxCapacity]
    BY <1>2, <1>3, <1>5, <1>8
  <2>4. memory' \in [Buffers -> [Bytes -> 0 .. MaxAllocations]]
    BY <1>2, <1>3, <1>9, <1>10
  <2>. QED
    BY <1>15, <2>1, <2>2, <2>3, <2>4 DEF TypeOK
<1>18. ListsWithin'
  <2>. SUFFICES ASSUME ~failed', NEW c \in Buffers PROVE Listed(freeList'[c], capacity'[c])
    BY DEF ListsWithin
  <2>1. CASE c = d
    BY <1>2, <1>14, <1>16, <2>1
  <2>2. CASE c # d
    BY <1>1, <1>2, <1>16, <2>2
  <2>. QED
    BY <2>1, <2>2
<1>19. ASSUME NEW c \in Buffers, Sound(c)' PROVE BufferSound(c)'
  <2>1. c # b /\ c # d /\ Sound(c)
    BY <1>2, <1>19 DEF Sound
  <2>2. BufferSound(c)
    BY <1>1, <2>1
  <2>3. /\ freeList'[c] = freeList[c] /\ capacity'[c] = capacity[c]
        /\ HandleOffsets'[c] = HandleOffsets[c] /\ allocations'[c] = allocations[c]
    BY <1>2, <1>15, <1>16, <2>1
  <2>4. freeSpace'[c] = freeSpace[c] /\ memory'[c] = memory[c]
    BY <1>2, <1>3, <2>1
  <2>. QED
    BY <2>2, <2>3, <2>4, OthersSound
<1>. QED
  BY <1>15, <1>17, <1>18, <1>19 DEF AllocInv

LEMMA AllocateStep ==
  ASSUME AllocInv, NEW b \in Buffers, NEW size \in Sizes, Allocate(b, size)
  PROVE  AllocInv'
<1>1. ~failed /\ count < MaxAllocations
  BY DEF Allocate
<1>2. capacity[b] \in 0 .. MaxCapacity /\ MaxCapacity \in Nat
  BY SizesAssumption DEF AllocInv, TypeOK
<1>3. CASE AllocateFast(b, size)
  <2>1. TakeFastSpace(b, size, 0) /\ 0 \in Nat /\ capacity[b] + 0 <= MaxCapacity
    BY <1>2, <1>3 DEF AllocateFast
  <2>. QED
    BY <1>1, <2>1, TakeFastSpaceStep
<1>4. CASE AllocateFromList(b, size)
  BY <1>1, <1>4, AllocateFromListStep
<1>5. CASE AllocateDefragmented(b, size)
  BY <1>1, <1>5, AllocateDefragmentedStep
<1>6. CASE AllocateGrown(b, size)
  <2>1. Extra(size) \in Nat
    BY SizesAssumption DEF Extra
  <2>2. TakeFastSpace(b, size, Extra(size)) /\ capacity[b] + Extra(size) <= MaxCapacity
    BY <1>6 DEF AllocateGrown
  <2>. QED
    BY <1>1, <2>1, <2>2, TakeFastSpaceStep
<1>. QED
  BY <1>3, <1>4, <1>5, <1>6 DEF Allocate

(* A mesh gives back its bytes: the list offers at most those besides what *)
(* it offered, and they are in no other mesh's range.                      *)
LEMMA ReturnSound ==
  ASSUME TypeOK, NEW b \in Buffers, NEW a \in allocations[b], BufferSound(b),
         FL!CanDeAllocate(freeList[b], OffsetOf(b, a), a.size),
         freeList'[b] = FL!DeAllocate(freeList[b], OffsetOf(b, a), a.size),
         freeSpace'[b] = (freeSpace[b] + a.size) % Word,
         allocations'[b] = allocations[b] \ {a}, HandleOffsets' = HandleOffsets,
         memory' = memory, capacity' = capacity
  PROVE  BufferSound(b)'
<1>. DEFINE list == freeList[b]
            offset == OffsetOf(b, a)
            A == allocations[b]
            cap == capacity[b]
<1>1. /\ list \in ListType /\ cap \in 0 .. MaxCapacity
  BY DEF TypeOK, ListType, Block
<1>2. offset \in Nat /\ a.size \in Nat \ {0} /\ RangeOf(b, a) = Interval(offset, a.size)
  BY RangeIs DEF RangeOf
<1>3. /\ Ordered(list) /\ RangesHeld(b) /\ RangesApart(b) /\ SpaceCounted(b)
  BY DEF BufferSound
<1>4. \A x \in Interval(offset, a.size) : ~Offers(list, x)
  BY <1>2, <1>3 DEF RangesHeld
<1>5. /\ Ordered(freeList'[b])
      /\ \A x \in Nat : Offers(freeList'[b], x) => Offers(list, x) \/ x \in RangeOf(b, a)
  BY <1>1, <1>2, <1>3, <1>4, DeAllocateSound
<1>6. \A c \in A : RangeOf(b, c)' = RangeOf(b, c)
  BY DEF RangeOf, OffsetOf
<1>7. RangesHeld(b)'
  <2>. SUFFICES ASSUME NEW c \in A \ {a}, NEW x \in RangeOf(b, c)
                PROVE  x < cap /\ memory[b][x] = c.id /\ ~Offers(freeList'[b], x)
    BY <1>6 DEF RangesHeld
  <2>1. x \in Nat /\ x \notin RangeOf(b, a)
    BY <1>3, RangeIs DEF RangesApart
  <2>. QED
    BY <1>3, <1>5, <2>1 DEF RangesHeld
<1>8. RangesApart(b)'
  BY <1>3, <1>6 DEF RangesApart
<1>9. SpaceCounted(b)'
  <2>. DEFINE B == A \ {a}
              n == Cardinality(Held(B))
              m == Cardinality(Held(A))
  <2>1. HeldBytes(b) = Held(A) /\ HeldBytes(b)' = Held(B)
    BY DEF HeldBytes, Held
  <2>2. IsFiniteSet(Held(A)) /\ m \in Nat /\ m <= cap
    BY <1>3, <2>1, BytesHeldFit
  <2>3. IsFiniteSet(Held(B)) /\ n \in Nat
    <3>1. Held(B) \subseteq Held(A)
      BY DEF Held
    <3>2. IsFiniteSet(Held(B))
      BY <2>2, <3>1, FS_Subset
    <3>. QED
      BY <3>2, FS_CardinalityType
  <2>4. m = n + a.size
    <3>1. B \cup {a} = A /\ a \notin B
      OBVIOUS
    <3>2. a.size \in Nat
      BY <1>2
    <3>. HIDE DEF A, B
    <3>3. Cardinality(Held(B \cup {a})) = Cardinality(Held(B)) + a.size
      BY <2>3, <3>1, <3>2, HeldGrows
    <3>. QED
      BY <3>1, <3>3
  <2>5. freeSpace[b] = cap - m
    BY <1>3, <2>1 DEF SpaceCounted
  <2>6. /\ cap \in Nat /\ cap < Word /\ Word \in Nat
    BY <1>1, SizesAssumption
  <2>. HIDE DEF cap, n, m
  <2>7. freeSpace[b] + a.size = cap - n
    BY <1>2, <2>2, <2>3, <2>4, <2>5, <2>6
  <2>8. cap - n \in 0 .. Word - 1
    BY <1>2, <2>2, <2>3, <2>4, <2>6
  <2>9. (cap - n) % Word = cap - n
    BY <2>6, <2>8
  <2>. QED
    BY <2>1, <2>7, <2>9 DEF SpaceCounted, n, cap
<1>. QED
  BY <1>5, <1>7, <1>8, <1>9 DEF BufferSound

LEMMA DeAllocateStep ==
  ASSUME AllocInv, NEW b \in Buffers, NEW a \in allocations[b], DeAllocate(b, a)
  PROVE  AllocInv'
<1>. DEFINE offset == OffsetOf(b, a)
            new == FL!DeAllocate(freeList[b], offset, a.size)
            space == (freeSpace[b] + a.size) % Word
            unused == Append(UnusedHandles[b], a.handle)
<1>1. /\ TypeOK /\ HandlesUnique /\ HandlesIdle /\ IdsUsed
      /\ \A c \in Buffers : Sound(c) => BufferSound(c)
      /\ ~failed
      /\ \A c \in Buffers : Listed(freeList[c], capacity[c])
  BY DEF AllocInv, ListsWithin, DeAllocate
<1>2. /\ failed' = ~FL!CanDeAllocate(freeList[b], offset, a.size)
      /\ freeSpace' = [freeSpace EXCEPT ![b] = space]
      /\ freeList' = [freeList EXCEPT ![b] = new]
      /\ UnusedHandles' = [UnusedHandles EXCEPT ![b] = unused]
      /\ allocations' = [allocations EXCEPT ![b] = @ \ {a}]
      /\ UNCHANGED <<freeFastSpace, capacity, HandleOffsets, memory, count, defragmented>>
  BY DEF DeAllocate
<1>3. offset \in Nat /\ a.size \in Nat \ {0}
  BY <1>1, RangeIs
<1>4. /\ freeList \in [Buffers -> ListType] /\ freeSpace \in [Buffers -> 0 .. Word - 1]
      /\ UnusedHandles \in [Buffers -> Seq(Nat)]
      /\ allocations \in [Buffers -> SUBSET [id: 1 .. MaxAllocations, handle: Nat, size: Sizes]]
      /\ \A c \in Buffers :
           /\ \A i \in DOMAIN UnusedHandles[c] : UnusedHandles[c][i] \in DOMAIN HandleOffsets[c]
           /\ \A x \in allocations[c] : x.handle \in DOMAIN HandleOffsets[c]
      /\ capacity[b] \in 0 .. MaxCapacity /\ defragmented \subseteq Buffers
  BY <1>1 DEF TypeOK, ListType, Block
<1>5. freeList[b] \in ListType /\ new \in ListType
  <2>1. freeList[b] \in ListType
    BY <1>4
  <2>. HIDE DEF offset
  <2>. QED
    BY <1>3, <2>1, DeAllocateSound
<1>6. space \in 0 .. Word - 1
  <2>1. freeSpace[b] + a.size \in Nat /\ Word \in Nat \ {0}
    <3>1. freeSpace[b] \in 0 .. Word - 1
      BY <1>4
    <3>. QED
      BY <1>3, <3>1, SizesAssumption
  <2>. QED
    BY <2>1
<1>7. a.handle \in Nat /\ a.handle \in DOMAIN HandleOffsets[b]
  BY <1>4
<1>8. /\ unused \in Seq(Nat) /\ DOMAIN unused = 1 .. Len(UnusedHandles[b]) + 1
      /\ DOMAIN UnusedHandles[b] = 1 .. Len(UnusedHandles[b]) /\ Len(UnusedHandles[b]) \in Nat
      /\ unused[Len(UnusedHandles[b]) + 1] = a.handle
      /\ \A i \in DOMAIN UnusedHandles[b] : unused[i] = UnusedHandles[b][i]
  <2>. DEFINE U == UnusedHandles[b]
              h == a.handle
  <2>1. U \in Seq(Nat) /\ h \in Nat
    BY <1>4, <1>7
  <2>. HIDE DEF U, h
  <2>2. /\ Append(U, h) \in Seq(Nat) /\ DOMAIN Append(U, h) = 1 .. Len(U) + 1
        /\ DOMAIN U = 1 .. Len(U) /\ Len(U) \in Nat
        /\ Append(U, h)[Len(U) + 1] = h
        /\ \A i \in DOMAIN U : Append(U, h)[i] = U[i]
    BY <2>1
  <2>. QED
    BY <2>2 DEF U, h
<1>. HIDE DEF new, space, unused
(* A handle in the new sequence was there, or is the mesh's. *)
<1>9. \A i \in DOMAIN unused :
        \/ i \in DOMAIN UnusedHandles[b] /\ unused[i] = UnusedHandles[b][i]
        \/ i = Len(UnusedHandles[b]) + 1 /\ unused[i] = a.handle
  BY <1>8
<1>10. /\ freeList' \in [Buffers -> ListType] /\ freeList'[b] = new
       /\ freeSpace' \in [Buffers -> 0 .. Word - 1] /\ freeSpace'[b] = space
       /\ UnusedHandles' \in [Buffers -> Seq(Nat)] /\ UnusedHandles'[b] = unused
       /\ allocations' \in
            [Buffers -> SUBSET [id: 1 .. MaxAllocations, handle: Nat, size: Sizes]]
       /\ allocations'[b] = allocations[b] \ {a}
       /\ \A c \in Buffers \ {b} :
            /\ freeList'[c] = freeList[c] /\ freeSpace'[c] = freeSpace[c]
            /\ UnusedHandles'[c] = UnusedHandles[c] /\ allocations'[c] = allocations[c]
  BY <1>2, <1>4, <1>5, <1>6, <1>8
<1>11. TypeOK'
  <2>1. freeList' \in [Buffers -> [fullSize: Nat, blocks: Seq([offset: Nat, size: Nat])]]
    BY <1>10 DEF ListType, Block
  <2>2. \A c \in Buffers :
          /\ \A i \in DOMAIN UnusedHandles'[c] : UnusedHandles'[c][i] \in DOMAIN HandleOffsets'[c]
          /\ \A x \in allocations'[c] : x.handle \in DOMAIN HandleOffsets'[c]
    <3>. TAKE c \in Buffers
    <3>1. CASE c = b
      BY <1>2, <1>4, <1>7, <1>9, <1>10, <3>1
    <3>2. CASE c # b
      BY <1>2, <1>4, <1>10, <3>2
    <3>. QED
      BY <3>1, <3>2
  <2>. QED
    BY <1>1, <1>2, <1>10, <2>1, <2>2 DEF TypeOK
<1>12. HandlesUnique'
  <2>. SUFFICES ASSUME NEW c \in Buffers, NEW x \in allocations'[c], NEW y \in allocations'[c]
                PROVE  /\ x.handle = y.handle => x = y
                       /\ \A i \in DOMAIN UnusedHandles'[c] : UnusedHandles'[c][i] # x.handle
    BY DEF HandlesUnique
  <2>1. /\ \A u, v \in allocations[c] : u.handle = v.handle => u = v
        /\ \A u \in allocations[c] : \A i \in DOMAIN UnusedHandles[c] :
             UnusedHandles[c][i] # u.handle
    BY <1>1 DEF HandlesUnique
  <2>2. CASE c = b
    BY <1>9, <1>10, <2>1, <2>2
  <2>3. CASE c # b
    BY <1>10, <2>1, <2>3
  <2>. QED
    BY <2>2, <2>3
<1>13. HandlesIdle'
  <2>. SUFFICES ASSUME NEW c \in Buffers, NEW i \in DOMAIN UnusedHandles'[c],
                       NEW j \in DOMAIN UnusedHandles'[c],
                       UnusedHandles'[c][i] = UnusedHandles'[c][j]
                PROVE  i = j
    BY DEF HandlesIdle
  <2>1. \A k, l \in DOMAIN UnusedHandles[c] : UnusedHandles[c][k] = UnusedHandles[c][l] => k = l
    BY <1>1 DEF HandlesIdle
  <2>2. CASE c = b
    <3>1. \A k \in DOMAIN UnusedHandles[b] : UnusedHandles[b][k] # a.handle
      BY <1>1 DEF HandlesUnique
    <3>2. /\ \/ i \in DOMAIN UnusedHandles[b] /\ unused[i] = UnusedHandles[b][i]
             \/ i = Len(UnusedHandles[b]) + 1 /\ unused[i] = a.handle
          /\ \/ j \in DOMAIN UnusedHandles[b] /\ unused[j] = UnusedHandles[b][j]
             \/ j = Len(UnusedHandles[b]) + 1 /\ unused[j] = a.handle
          /\ unused[i] = unused[j]
      BY <1>9, <1>10, <2>2
    <3>. QED
      BY <2>1, <2>2, <3>1, <3>2, Zenon
  <2>3. CASE c # b
    BY <1>10, <2>1, <2>3
  <2>. QED
    BY <2>2, <2>3
<1>14. IdsUsed'
  <2>1. \A c \in Buffers : allocations'[c] \subseteq allocations[c]
    BY <1>10
  <2>. QED
    BY <1>1, <1>2, <2>1 DEF IdsUsed
<1>15. ListsWithin'
  <2>. SUFFICES ASSUME ~failed', NEW c \in Buffers PROVE Listed(freeList'[c], capacity'[c])
    BY DEF ListsWithin
  <2>1. CASE c = b
    <3>1. FL!CanDeAllocate(freeList[b], offset, a.size) /\ Listed(freeList[b], capacity[b])
      BY <1>1, <1>2
    <3>2. capacity[b] \in Nat
      BY <1>4, SizesAssumption
    <3>. HIDE DEF offset
    <3>3. Listed(new, capacity[b])
      BY <1>3, <1>5, <3>1, <3>2, DeAllocateSound DEF new
    <3>. QED
      BY <1>2, <1>10, <2>1, <3>3
  <2>2. CASE c # b
    BY <1>1, <1>2, <1>10, <2>2
  <2>. QED
    BY <2>1, <2>2
<1>16. ASSUME NEW c \in Buffers, Sound(c)' PROVE BufferSound(c)'
  <2>1. ~failed' /\ BufferSound(c)
    BY <1>1, <1>2, <1>16 DEF Sound
  <2>2. CASE c = b
    <3>1. /\ FL!CanDeAllocate(freeList[b], OffsetOf(b, a), a.size)
          /\ freeList'[b] = FL!DeAllocate(freeList[b], OffsetOf(b, a), a.size)
          /\ freeSpace'[b] = (freeSpace[b] + a.size) % Word
      BY <1>2, <1>10, <2>1 DEF new, space
    <3>. QED
      BY <1>1, <1>2, <1>10, <2>1, <2>2, <3>1, ReturnSound
  <2>3. CASE c # b
    BY <1>2, <1>10, <2>1, <2>3, OthersSound
  <2>. QED
    BY <2>2, <2>3
<1>. QED
  BY <1>11, <1>12, <1>13, <1>14, <1>15, <1>16 DEF AllocInv

-----------------------------------------------------------------------------
(* The theorems                                                            *)

LEMMA AllocInit == Init => AllocInv
<1>. SUFFICES ASSUME Init PROVE AllocInv
  OBVIOUS
<1>. DEFINE list == FL!NewFreeList(InitialSize)
<1>1. /\ InitialSize \in Nat /\ MaxCapacity \in Nat /\ Word \in Nat /\ MaxAllocations \in Nat
      /\ InitialSize <= MaxCapacity /\ MaxCapacity < Word
  BY SizesAssumption
<1>2. InitialSize \in 0 .. Word - 1 /\ InitialSize \in 0 .. MaxCapacity
      /\ Nobody \in 0 .. MaxAllocations /\ 0 \in 0 .. MaxAllocations
  BY <1>1 DEF Nobody
<1>3. list \in ListType /\ Listed(list, InitialSize) /\ Ordered(list)
  BY <1>1, NewFreeListIs
<1>. HIDE DEF list
<1>4. TypeOK
  <2>1. list \in [fullSize: Nat, blocks: Seq([offset: Nat, size: Nat])]
    BY <1>3 DEF ListType, Block
  <2>2. freeList \in [Buffers -> [fullSize: Nat, blocks: Seq([offset: Nat, size: Nat])]]
    BY <2>1 DEF Init, list
  <2>3. /\ HandleOffsets \in [Buffers -> Seq(0 .. Word - 1)]
        /\ UnusedHandles \in [Buffers -> Seq(Nat)]
        /\ \A b \in Buffers : DOMAIN UnusedHandles[b] = {}
    BY DEF Init
  <2>4. memory \in [Buffers -> [Bytes -> 0 .. MaxAllocations]]
    BY <1>2 DEF Init
  <2>5. /\ freeFastSpace \in [Buffers -> 0 .. Word - 1] /\ freeSpace \in [Buffers -> 0 .. Word - 1]
        /\ capacity \in [Buffers -> 0 .. MaxCapacity]
    BY <1>2 DEF Init
  <2>6. /\ allocations \in [Buffers -> SUBSET [id: 1 .. MaxAllocations, handle: Nat, size: Sizes]]
        /\ \A b \in Buffers : allocations[b] = {}
        /\ count \in 0 .. MaxAllocations /\ failed \in BOOLEAN /\ defragmented \subseteq Buffers
    BY <1>2 DEF Init
  <2>. QED
    BY <2>2, <2>3, <2>4, <2>5, <2>6 DEF TypeOK
<1>5. \A b \in Buffers : allocations[b] = {} /\ UnusedHandles[b] = <<>>
                         /\ freeList[b] = list /\ capacity[b] = InitialSize
                         /\ freeSpace[b] = InitialSize
  BY DEF Init, list
<1>6. HandlesUnique /\ HandlesIdle /\ IdsUsed
  BY <1>5 DEF HandlesUnique, HandlesIdle, IdsUsed
<1>7. ListsWithin
  BY <1>3, <1>5 DEF ListsWithin
<1>8. ASSUME NEW b \in Buffers PROVE BufferSound(b)
  <2>1. HeldBytes(b) = {}
    BY <1>5 DEF HeldBytes
  <2>2. SpaceCounted(b)
    BY <1>1, <1>5, <2>1, FS_EmptySet DEF SpaceCounted
  <2>. QED
    BY <1>3, <1>5, <2>2 DEF BufferSound, RangesHeld, RangesApart
<1>. QED
  BY <1>4, <1>6, <1>7, <1>8 DEF AllocInv

LEMMA AllocStep == AllocInv /\ [Next]_vars => AllocInv'
<1>. SUFFICES ASSUME AllocInv, [Next]_vars PROVE AllocInv'
  OBVIOUS
<1>1. ASSUME NEW b \in Buffers, NEW size \in Sizes, Allocate(b, size) PROVE AllocInv'
  BY <1>1, AllocateStep
<1>2. ASSUME NEW b \in Buffers, NEW a \in allocations[b], DeAllocate(b, a) PROVE AllocInv'
  BY <1>2, DeAllocateStep
<1>3. CASE UNCHANGED vars
  <2>1. /\ freeFastSpace' = freeFastSpace /\ freeSpace' = freeSpace /\ capacity' = capacity
        /\ freeList' = freeList /\ HandleOffsets' = HandleOffsets
        /\ UnusedHandles' = UnusedHandles /\ memory' = memory /\ allocations' = allocations
        /\ count' = count /\ failed' = failed /\ defragmented' = defragmented
    BY <1>3 DEF vars, allocatorVars
  <2>2. TypeOK'
    BY <2>1 DEF AllocInv, TypeOK
  <2>3. HandlesUnique' /\ HandlesIdle' /\ IdsUsed' /\ ListsWithin'
    BY <2>1 DEF AllocInv, HandlesUnique, HandlesIdle, IdsUsed, ListsWithin
  <2>4. \A b \in Buffers : Sound(b)' => BufferSound(b)'
    BY <2>1, OthersSound DEF AllocInv, Sound
  <2>. QED
    BY <2>2, <2>3, <2>4 DEF AllocInv
<1>. QED
  BY <1>1, <1>2, <1>3 DEF Next

LEMMA AllocInvAlways == Spec => []AllocInv
BY AllocInit, AllocStep, PTL DEF Spec

(* The allocator's state keeps its types: offsets, sizes and counts within *)
(* their words, handles of meshes and idle handles within HandleOffsets,   *)
(* also after a failed assertion or a defragmentation.                     *)
THEOREM AllocatorTyped == Spec => []TypeOK
BY AllocInvAlways, PTL DEF AllocInv

(* A mesh's handle is its own, from AssignHandle to DeAllocate: no mesh    *)
(* alive shares it and it does not wait to be given out.                   *)
THEOREM HandlesAreUnique == Spec => []HandlesUnique
BY AllocInvAlways, PTL DEF AllocInv

(* Whatever is allocated, given back and grown, every mesh finds its own   *)
(* data at its offset, until its buffer takes part in a defragmentation    *)
(* or an assertion fails.                                                  *)
THEOREM MeshDataIntact == Spec => []DataIntact
<1>1. AllocInv => DataIntact
  BY DEF AllocInv, BufferSound, RangesHeld, DataIntact
<1>. QED
  BY <1>1, AllocInvAlways, PTL

(* FreeList never offers a mesh's byte, a byte past the end, or a byte     *)
(* twice, although freeFastSpace lets Allocate ask it for bytes it has     *)
(* already handed out: then its assertion stops the program.               *)
THEOREM FreeListIsSound == Spec => []FreeListSound
<1>1. AllocInv => FreeListSound
  <2>. SUFFICES ASSUME AllocInv, NEW b \in Buffers, Sound(b)
                PROVE  LET blocks == freeList[b].blocks
                       IN  /\ \A i \in 1 .. Len(blocks) - 1 :
                                FL!BlockEnd(blocks[i]) <= blocks[i + 1].offset
                           /\ \A i \in FL!FreeBytes(freeList[b]) : i < capacity[b]
                           /\ \A a \in allocations[b] :
                                RangeOf(b, a) \cap FL!FreeBytes(freeList[b]) = {}
    BY DEF FreeListSound
  <2>. DEFINE list == freeList[b]
  <2>1. /\ list \in ListType /\ Listed(list, capacity[b]) /\ Ordered(list) /\ RangesHeld(b)
        /\ capacity[b] \in Nat
    <3>1. list \in ListType /\ capacity[b] \in 0 .. MaxCapacity
      BY DEF AllocInv, TypeOK, ListType, Block
    <3>2. Listed(list, capacity[b]) /\ Ordered(list) /\ RangesHeld(b)
      BY DEF AllocInv, ListsWithin, Sound, BufferSound
    <3>. QED
      BY <3>1, <3>2, SizesAssumption
  <2>2. \A a \in allocations[b] : \A x \in RangeOf(b, a) : ~Offers(list, x)
    BY <2>1 DEF RangesHeld
  <2>. HIDE DEF list
  <2>3. \A i \in 1 .. Len(list.blocks) - 1 :
          FL!BlockEnd(list.blocks[i]) <= list.blocks[i + 1].offset
    <3>. TAKE i \in 1 .. Len(list.blocks) - 1
    <3>1. i \in DOMAIN list.blocks /\ i + 1 \in DOMAIN list.blocks /\ i < i + 1
      BY <2>1, TypedBlocks
    <3>. QED
      BY <2>1, <3>1 DEF Ordered
  <2>4. \A x \in FL!FreeBytes(list) : x < capacity[b]
    <3>. TAKE x \in FL!FreeBytes(list)
    <3>1. x \in Nat /\ Offers(list, x)
      BY <2>1, FreeBytesIs
    <3>2. PICK i \in DOMAIN list.blocks : Has(list.blocks[i], x)
      BY <3>1 DEF Offers
    <3>3. /\ FL!BlockEnd(list.blocks[i]) \in Nat /\ FL!BlockEnd(list.blocks[i]) <= capacity[b]
      BY <2>1, TypedBlocks DEF Listed
    <3>. QED
      BY <2>1, <3>1, <3>2, <3>3 DEF Has
  <2>5. \A a \in allocations[b] : RangeOf(b, a) \cap FL!FreeBytes(list) = {}
    BY <2>1, <2>2, FreeBytesIs
  <2>. QED
    BY <2>3, <2>4, <2>5 DEF list
<1>. QED
  BY <1>1, AllocInvAlways, PTL

(* freeSpace is what meshes do not hold, through every allocation, growth  *)
(* and return: the buffer grows when and only when it must.                *)
THEOREM SpaceIsAccounted == Spec => []SpaceAccounted
<1>1. AllocInv => SpaceAccounted
  BY DEF AllocInv, BufferSound, SpaceCounted, SpaceAccounted
<1>. QED
  BY <1>1, AllocInvAlways, PTL
=============================================================================
