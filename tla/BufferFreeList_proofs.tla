------------------------ MODULE BufferFreeList_proofs ------------------------
(***************************************************************************)
(* What the operations of a buffer's free list do to the bytes it offers:  *)
(* the lemmas BufferAllocator_proofs rests on.  None needs induction: an   *)
(* operation changes one block, or puts one block in front of another.     *)
(***************************************************************************)
EXTENDS BufferAllocator, WellFoundedInduction, TLAPS

Seqs == INSTANCE SequenceTheorems

Block == [offset: Nat, size: Nat]
ListType == [fullSize: Nat, blocks: Seq(Block)]

(* The list of a buffer of "cap" bytes has a block, and none past the end. *)
Listed(list, cap) ==
  /\ list.fullSize = cap
  /\ list.blocks # <<>>
  /\ \A i \in DOMAIN list.blocks : FL!BlockEnd(list.blocks[i]) <= cap

(* Blocks in the order of the bytes, none over another. *)
Ordered(list) ==
  \A i, j \in DOMAIN list.blocks :
    i < j => FL!BlockEnd(list.blocks[i]) <= list.blocks[j].offset

-----------------------------------------------------------------------------
(* Numbers and sequences                                                   *)

(* Every set of naturals with a member has a least one.                    *)
LEMMA MinExists == ASSUME NEW S \in SUBSET Nat, S # {}
                   PROVE  \E x \in S : \A y \in S : x <= y
<1>. DEFINE R == {p \in Nat \X Nat : p[1] < p[2]}
<1>1. IsWellFoundedOn(R, Nat)
  BY NatLessThanWellFounded DEF OpToRel
<1>. HIDE DEF R
<1>2. PICK x \in S : \A y \in S : ~(<<y, x>> \in R)
  BY <1>1, WFMin
<1>3. ASSUME NEW y \in S, y < x PROVE FALSE
  <2>1. <<y, x>> \in R
    BY <1>3 DEF R
  <2>. QED
    BY <1>2, <2>1
<1>4. S \subseteq Nat
  OBVIOUS
<1>. QED
  BY <1>3, <1>4

(* A set that has 0 and with every number the next one has them all.       *)
LEMMA CountUp == ASSUME NEW S, 0 \in S, \A n \in Nat : n \in S => n + 1 \in S
                 PROVE  \A n \in Nat : n \in S
<1>. SUFFICES ASSUME Nat \ S # {} PROVE FALSE
  OBVIOUS
<1>1. PICK x \in Nat \ S : \A y \in Nat \ S : x <= y
  BY MinExists
<1>2. x - 1 \in Nat /\ x - 1 \notin S
  BY <1>1
<1>. QED
  BY <1>1, <1>2

LEMMA FirstIs == ASSUME NEW S \in SUBSET Nat, S # {}
                 PROVE  FL!FirstOf(S) \in S /\ \A y \in S : FL!FirstOf(S) <= y
BY MinExists DEF FL!FirstOf

LEMMA MinusIs == ASSUME NEW x \in Int, NEW y \in Int
                 PROVE  FL!Minus(x, y) \in 0 .. Word - 1
<1>1. Word \in Nat \ {0}
  BY SizesAssumption
<1>. QED
  BY <1>1 DEF FL!Minus

LEMMA MinusNat == ASSUME NEW x \in Int, NEW y \in Int
                  PROVE  FL!Minus(x, y) \in Nat
<1>1. Word \in Nat \ {0}
  BY SizesAssumption
<1>. QED
  BY <1>1 DEF FL!Minus

LEMMA MinusSmall == ASSUME NEW x \in Int, NEW y \in Int, x >= y, x - y < Word
                    PROVE  FL!Minus(x, y) = x - y
<1>1. Word \in Nat \ {0} /\ x - y \in 0 .. Word - 1
  BY SizesAssumption
<1>. QED
  BY <1>1 DEF FL!Minus

(* Where the elements are after InsertAt.                                  *)
LEMMA InsertIs ==
  ASSUME NEW T, NEW s \in Seq(T), NEW i \in 1 .. Len(s) + 1, NEW e \in T
  PROVE  /\ FL!InsertAt(s, i, e) \in Seq(T)
         /\ Len(FL!InsertAt(s, i, e)) = Len(s) + 1
         /\ \A k \in 1 .. Len(s) + 1 :
              FL!InsertAt(s, i, e)[k] = IF k < i THEN s[k] ELSE IF k = i THEN e ELSE s[k - 1]
<1>. DEFINE l == SubSeq(s, 1, i - 1)
            r == SubSeq(s, i, Len(s))
            m == l \o <<e>>
<1>1. FL!InsertAt(s, i, e) = m \o r
  BY DEF FL!InsertAt
<1>2. /\ l \in Seq(T) /\ Len(l) = i - 1
      /\ \A k \in 1 .. i - 1 : l[k] = s[k]
  OBVIOUS
<1>3. /\ r \in Seq(T) /\ Len(r) = Len(s) - i + 1
      /\ \A k \in 1 .. Len(s) - i + 1 : r[k] = s[k + i - 1]
  OBVIOUS
<1>. HIDE DEF l, r
<1>4. /\ m \in Seq(T) /\ Len(m) = i
      /\ \A k \in 1 .. i - 1 : m[k] = l[k]
      /\ m[i] = e
  BY <1>2
<1>. HIDE DEF m
<1>5. /\ m \o r \in Seq(T) /\ Len(m \o r) = Len(m) + Len(r)
      /\ \A k \in 1 .. Len(m) + Len(r) :
           (m \o r)[k] = IF k <= Len(m) THEN m[k] ELSE r[k - Len(m)]
  BY <1>3, <1>4, Seqs!ConcatProperties
<1>6. ASSUME NEW k \in 1 .. Len(s) + 1
      PROVE  (m \o r)[k] = IF k < i THEN s[k] ELSE IF k = i THEN e ELSE s[k - 1]
  <2>1. CASE k < i
    BY <1>2, <1>3, <1>4, <1>5, <2>1
  <2>2. CASE k = i
    BY <1>3, <1>4, <1>5, <2>2
  <2>3. CASE k > i
    <3>1. (m \o r)[k] = r[k - i]
      BY <1>3, <1>4, <1>5, <2>3
    <3>2. k - i \in 1 .. Len(s) - i + 1 /\ (k - i) + i - 1 = k - 1
      BY <2>3
    <3>3. r[k - i] = s[(k - i) + i - 1]
      BY <1>3, <3>2
    <3>. QED
      BY <2>3, <3>1, <3>2, <3>3
  <2>4. k < i \/ k = i \/ k > i
    OBVIOUS
  <2>. QED
    BY <2>1, <2>2, <2>3, <2>4, Zenon
<1>7. m \o r \in Seq(T) /\ Len(m \o r) = Len(s) + 1
  BY <1>3, <1>4, <1>5
<1>. QED
  BY <1>1, <1>6, <1>7

-----------------------------------------------------------------------------
(* Lists with one block changed, or one more                               *)

(* The block has byte x; the list offers it. *)
Has(block, x) == block.offset <= x /\ x < FL!BlockEnd(block)
Offers(list, x) == \E i \in DOMAIN list.blocks : Has(list.blocks[i], x)

WithBlock(list, i, block) == [list EXCEPT !.blocks = [list.blocks EXCEPT ![i] = block]]
WithInserted(list, i, block) == [list EXCEPT !.blocks = FL!InsertAt(list.blocks, i, block)]

LEMMA TypedBlocks ==
  ASSUME NEW list \in ListType
  PROVE  /\ list.blocks \in Seq(Block) /\ list.fullSize \in Nat
         /\ DOMAIN list.blocks = 1 .. Len(list.blocks) /\ Len(list.blocks) \in Nat
         /\ \A i \in DOMAIN list.blocks :
              /\ list.blocks[i] \in Block
              /\ list.blocks[i].offset \in Nat /\ list.blocks[i].size \in Nat
              /\ FL!BlockEnd(list.blocks[i]) = list.blocks[i].offset + list.blocks[i].size
<1>1. list.blocks \in Seq(Block) /\ list.fullSize \in Nat
  BY DEF ListType
<1>2. DOMAIN list.blocks = 1 .. Len(list.blocks) /\ Len(list.blocks) \in Nat
  BY <1>1
<1>3. \A i \in DOMAIN list.blocks : list.blocks[i] \in Block
  BY <1>1
<1>. QED
  BY <1>1, <1>2, <1>3 DEF Block, FL!BlockEnd

LEMMA FreeBytesIs ==
  ASSUME NEW list \in ListType, NEW x
  PROVE  x \in FL!FreeBytes(list) <=> x \in Nat /\ Offers(list, x)
<1>1. \A i \in DOMAIN list.blocks :
        /\ list.blocks[i].offset \in Nat /\ FL!BlockEnd(list.blocks[i]) \in Nat
        /\ (x \in list.blocks[i].offset .. FL!BlockEnd(list.blocks[i]) - 1
              <=> x \in Nat /\ Has(list.blocks[i], x))
  BY TypedBlocks DEF Has
<1>2. x \in FL!FreeBytes(list) <=>
        \E i \in DOMAIN list.blocks : x \in list.blocks[i].offset .. FL!BlockEnd(list.blocks[i]) - 1
  BY DEF FL!FreeBytes
<1>. QED
  BY <1>1, <1>2 DEF Offers

LEMMA FreeBlockIs ==
  ASSUME NEW o \in Nat, NEW s \in Nat
  PROVE  /\ FL!FreeBlock(o, s) \in Block
         /\ FL!FreeBlock(o, s).offset = o /\ FL!FreeBlock(o, s).size = s
         /\ FL!BlockEnd(FL!FreeBlock(o, s)) = o + s
BY DEF FL!FreeBlock, FL!BlockEnd, Block

LEMMA WithBlockIs ==
  ASSUME NEW list \in ListType, NEW i \in DOMAIN list.blocks, NEW block \in Block
  PROVE  /\ WithBlock(list, i, block) \in ListType
         /\ WithBlock(list, i, block).fullSize = list.fullSize
         /\ DOMAIN WithBlock(list, i, block).blocks = DOMAIN list.blocks
         /\ WithBlock(list, i, block).blocks[i] = block
         /\ \A k \in DOMAIN list.blocks : k # i =>
              WithBlock(list, i, block).blocks[k] = list.blocks[k]
<1>1. /\ list.blocks \in Seq(Block) /\ list.fullSize \in Nat
  BY TypedBlocks
<1>2. [list.blocks EXCEPT ![i] = block] \in Seq(Block)
  BY <1>1
<1>. QED
  BY <1>1, <1>2 DEF WithBlock, ListType

LEMMA WithInsertedIs ==
  ASSUME NEW list \in ListType, NEW i \in 1 .. Len(list.blocks) + 1, NEW block \in Block
  PROVE  /\ WithInserted(list, i, block) \in ListType
         /\ WithInserted(list, i, block).fullSize = list.fullSize
         /\ DOMAIN WithInserted(list, i, block).blocks = 1 .. Len(list.blocks) + 1
         /\ WithInserted(list, i, block).blocks[i] = block
         /\ \A k \in DOMAIN list.blocks :
              /\ k < i => WithInserted(list, i, block).blocks[k] = list.blocks[k]
              /\ k >= i => WithInserted(list, i, block).blocks[k + 1] = list.blocks[k]
<1>. DEFINE s == list.blocks
            new == FL!InsertAt(s, i, block)
<1>1. s \in Seq(Block) /\ list.fullSize \in Nat /\ i \in 1 .. Len(s) + 1
  BY TypedBlocks
<1>2. WithInserted(list, i, block) = [list EXCEPT !.blocks = new]
  BY DEF WithInserted
<1>. HIDE DEF s
<1>3. /\ new \in Seq(Block) /\ Len(new) = Len(s) + 1
      /\ \A k \in 1 .. Len(s) + 1 :
           new[k] = IF k < i THEN s[k] ELSE IF k = i THEN block ELSE s[k - 1]
  BY <1>1, InsertIs
<1>. HIDE DEF new
<1>4. /\ DOMAIN new = 1 .. Len(s) + 1 /\ new[i] = block
  BY <1>1, <1>3
<1>5. ASSUME NEW k \in DOMAIN s
      PROVE  (k < i => new[k] = s[k]) /\ (k >= i => new[k + 1] = s[k])
  <2>1. k \in 1 .. Len(s) /\ Len(s) \in Nat /\ i \in Nat
    BY <1>1
  <2>2. CASE k < i
    BY <1>3, <2>1, <2>2
  <2>3. CASE k >= i
    <3>1. k + 1 \in 1 .. Len(s) + 1 /\ ~(k + 1 < i) /\ k + 1 # i /\ (k + 1) - 1 = k
      BY <2>1, <2>3
    <3>. QED
      BY <1>3, <2>1, <2>3, <3>1
  <2>. QED
    BY <2>1, <2>2, <2>3
<1>6. [list EXCEPT !.blocks = new] \in ListType /\ [list EXCEPT !.blocks = new].blocks = new
      /\ [list EXCEPT !.blocks = new].fullSize = list.fullSize
  BY <1>1, <1>3 DEF ListType
<1>. QED
  BY <1>2, <1>3, <1>4, <1>5, <1>6 DEF s

(* A position after InsertAt is the new block's, or one before or after it. *)
LEMMA WithInsertedAt ==
  ASSUME NEW list \in ListType, NEW i \in 1 .. Len(list.blocks) + 1, NEW block \in Block,
         NEW k \in DOMAIN WithInserted(list, i, block).blocks
  PROVE  LET new == WithInserted(list, i, block).blocks
         IN  \/ k = i /\ new[k] = block
             \/ k < i /\ k \in DOMAIN list.blocks /\ new[k] = list.blocks[k]
             \/ k > i /\ k - 1 \in DOMAIN list.blocks /\ new[k] = list.blocks[k - 1]
<1>. DEFINE new == WithInserted(list, i, block).blocks
            n == Len(list.blocks)
<1>1. /\ DOMAIN new = 1 .. n + 1 /\ new[i] = block
      /\ \A j \in DOMAIN list.blocks :
           (j < i => new[j] = list.blocks[j]) /\ (j >= i => new[j + 1] = list.blocks[j])
  BY WithInsertedIs
<1>. HIDE DEF new
<1>2. DOMAIN list.blocks = 1 .. n /\ n \in Nat /\ i \in 1 .. n + 1
  BY TypedBlocks
<1>. HIDE DEF n
<1>3. k \in 1 .. n + 1
  BY <1>1 DEF new
<1>4. CASE k < i
  BY <1>1, <1>2, <1>3, <1>4 DEF new
<1>5. CASE k > i
  <2>1. k - 1 \in 1 .. n /\ k - 1 >= i /\ (k - 1) + 1 = k
    BY <1>2, <1>3, <1>5
  <2>2. new[(k - 1) + 1] = list.blocks[k - 1]
    BY <1>1, <1>2, <2>1
  <2>. QED
    BY <1>2, <1>5, <2>1, <2>2 DEF new
<1>. QED
  BY <1>1, <1>2, <1>3, <1>4, <1>5 DEF new

(* A block changed: the order stands if it keeps off the others.           *)
LEMMA WithBlockOrdered ==
  ASSUME NEW list \in ListType, Ordered(list), NEW i \in DOMAIN list.blocks, NEW block \in Block,
         \A j \in DOMAIN list.blocks : j < i => FL!BlockEnd(list.blocks[j]) <= block.offset,
         \A j \in DOMAIN list.blocks : j > i => FL!BlockEnd(block) <= list.blocks[j].offset
  PROVE  Ordered(WithBlock(list, i, block))
<1>. DEFINE new == WithBlock(list, i, block)
<1>1. /\ DOMAIN new.blocks = DOMAIN list.blocks /\ new.blocks[i] = block
      /\ \A k \in DOMAIN list.blocks : k # i => new.blocks[k] = list.blocks[k]
  BY WithBlockIs
<1>. HIDE DEF new
<1>2. SUFFICES ASSUME NEW j \in DOMAIN list.blocks, NEW k \in DOMAIN list.blocks, j < k
               PROVE  FL!BlockEnd(new.blocks[j]) <= new.blocks[k].offset
  BY <1>1 DEF Ordered, new
<1>3. FL!BlockEnd(list.blocks[j]) <= list.blocks[k].offset
  BY <1>2 DEF Ordered
<1>4. j \in Int /\ k \in Int /\ i \in Int
  BY TypedBlocks
<1>. QED
  BY <1>1, <1>2, <1>3, <1>4

(* A block put between two others.                                         *)
LEMMA WithInsertedOrdered ==
  ASSUME NEW list \in ListType, Ordered(list), NEW i \in 1 .. Len(list.blocks) + 1,
         NEW block \in Block,
         \A j \in DOMAIN list.blocks : j < i => FL!BlockEnd(list.blocks[j]) <= block.offset,
         \A j \in DOMAIN list.blocks : j >= i => FL!BlockEnd(block) <= list.blocks[j].offset
  PROVE  Ordered(WithInserted(list, i, block))
<1>. DEFINE new == WithInserted(list, i, block).blocks
<1>1. SUFFICES ASSUME NEW j \in DOMAIN new, NEW k \in DOMAIN new, j < k
               PROVE  FL!BlockEnd(new[j]) <= new[k].offset
  BY DEF Ordered
<1>2. \/ j = i /\ new[j] = block
      \/ j < i /\ j \in DOMAIN list.blocks /\ new[j] = list.blocks[j]
      \/ j > i /\ j - 1 \in DOMAIN list.blocks /\ new[j] = list.blocks[j - 1]
  BY WithInsertedAt
<1>3. \/ k = i /\ new[k] = block
      \/ k < i /\ k \in DOMAIN list.blocks /\ new[k] = list.blocks[k]
      \/ k > i /\ k - 1 \in DOMAIN list.blocks /\ new[k] = list.blocks[k - 1]
  BY WithInsertedAt
<1>4. j \in Int /\ k \in Int /\ i \in Int
  BY WithInsertedIs, TypedBlocks
<1>. HIDE DEF new
<1>5. \A x, y \in DOMAIN list.blocks : x < y => FL!BlockEnd(list.blocks[x]) <= list.blocks[y].offset
  BY DEF Ordered
<1>6. CASE k < i
  BY <1>1, <1>2, <1>3, <1>4, <1>5, <1>6
<1>7. CASE k = i
  BY <1>1, <1>2, <1>3, <1>4, <1>7
<1>8. CASE k > i /\ j = i
  BY <1>1, <1>2, <1>3, <1>4, <1>8
<1>9. CASE k > i /\ j < i
  BY <1>1, <1>2, <1>3, <1>4, <1>5, <1>9
<1>10. CASE k > i /\ j > i
  BY <1>1, <1>2, <1>3, <1>4, <1>5, <1>10
<1>. QED
  BY <1>4, <1>6, <1>7, <1>8, <1>9, <1>10

(* The bytes offered after either.                                         *)
LEMMA WithBlockOffers ==
  ASSUME NEW list \in ListType, NEW i \in DOMAIN list.blocks, NEW block \in Block,
         NEW x, Offers(WithBlock(list, i, block), x)
  PROVE  Has(block, x) \/ \E j \in DOMAIN list.blocks \ {i} : Has(list.blocks[j], x)
BY WithBlockIs DEF Offers

LEMMA WithInsertedOffers ==
  ASSUME NEW list \in ListType, NEW i \in 1 .. Len(list.blocks) + 1, NEW block \in Block,
         NEW x, Offers(WithInserted(list, i, block), x)
  PROVE  Has(block, x) \/ Offers(list, x)
<1>1. PICK k \in DOMAIN WithInserted(list, i, block).blocks :
             Has(WithInserted(list, i, block).blocks[k], x)
  BY DEF Offers
<1>. QED
  BY <1>1, WithInsertedAt DEF Offers

(* Blocks that end within the buffer stay so.                              *)
LEMMA WithBlockListed ==
  ASSUME NEW list \in ListType, NEW cap \in Nat, Listed(list, cap),
         NEW i \in DOMAIN list.blocks, NEW block \in Block, FL!BlockEnd(block) <= cap
  PROVE  Listed(WithBlock(list, i, block), cap)
<1>. DEFINE new == WithBlock(list, i, block)
<1>1. /\ DOMAIN new.blocks = DOMAIN list.blocks /\ new.blocks[i] = block
      /\ new \in ListType /\ new.fullSize = list.fullSize
      /\ \A k \in DOMAIN list.blocks : k # i => new.blocks[k] = list.blocks[k]
  BY WithBlockIs
<1>. HIDE DEF new
<1>2. new.blocks # <<>>
  BY <1>1, TypedBlocks
<1>. QED
  BY <1>1, <1>2 DEF Listed, new

LEMMA WithInsertedListed ==
  ASSUME NEW list \in ListType, NEW cap \in Nat, Listed(list, cap),
         NEW i \in 1 .. Len(list.blocks) + 1, NEW block \in Block, FL!BlockEnd(block) <= cap
  PROVE  Listed(WithInserted(list, i, block), cap)
<1>. DEFINE new == WithInserted(list, i, block)
<1>1. /\ new \in ListType /\ new.fullSize = list.fullSize
      /\ DOMAIN new.blocks = 1 .. Len(list.blocks) + 1
  BY WithInsertedIs
<1>2. \A k \in DOMAIN new.blocks : FL!BlockEnd(new.blocks[k]) <= cap
  BY WithInsertedAt DEF Listed
<1>. HIDE DEF new
<1>3. new.blocks # <<>>
  BY <1>1, TypedBlocks
<1>. QED
  BY <1>1, <1>2, <1>3 DEF Listed, new

-----------------------------------------------------------------------------
(* Allocate                                                                *)

(* Whatever its arguments, the result is a list.                           *)
LEMMA AllocateTyped ==
  ASSUME NEW list \in ListType, NEW offset \in Nat, NEW size \in Nat
  PROVE  FL!Allocate(list, offset, size) \in ListType
<1>1. CASE FL!BlocksAt(list, offset) = {}
  BY <1>1 DEF FL!Allocate
<1>2. CASE FL!BlocksAt(list, offset) # {}
  <2>. DEFINE i == FL!FirstOf(FL!BlocksAt(list, offset))
              b == list.blocks[i]
              end == offset + size
              rest == FL!FreeBlock(end, FL!Minus(FL!BlockEnd(b), end))
  <2>1. i \in DOMAIN list.blocks
    <3>1. FL!BlocksAt(list, offset) \in SUBSET Nat
      BY TypedBlocks DEF FL!BlocksAt
    <3>2. i \in FL!BlocksAt(list, offset)
      BY <1>2, <3>1, FirstIs
    <3>. QED
      BY <3>2 DEF FL!BlocksAt
  <2>2. b \in Block /\ b.offset \in Nat /\ b.size \in Nat /\ FL!BlockEnd(b) \in Int
    BY <2>1, TypedBlocks
  <2>. HIDE DEF b
  <2>3. /\ \A x \in Int : FL!Minus(b.size, x) \in Nat
        /\ FL!Minus(FL!BlockEnd(b), end) \in Nat /\ end \in Nat
    <3>1. end \in Nat
      OBVIOUS
    <3>. HIDE DEF end
    <3>2. FL!BlockEnd(b) \in Int /\ end \in Int /\ b.size \in Int
      BY <2>2, <3>1
    <3>3. FL!Minus(FL!BlockEnd(b), end) \in Nat
      BY <3>2, MinusNat, Zenon
    <3>4. \A x \in Int : FL!Minus(b.size, x) \in Nat
      BY <3>2, MinusNat, Zenon
    <3>. QED
      BY <3>1, <3>3, <3>4
  <2>4. rest \in Block /\ rest.size \in Nat /\ size + rest.size \in Int
    <3>. HIDE DEF end
    <3>1. rest \in Block /\ rest.size = FL!Minus(FL!BlockEnd(b), end)
      BY <2>3, FreeBlockIs
    <3>. QED
      BY <2>3, <3>1
  <2>. USE DEF b
  <2>. DEFINE shorter(n) == [list.blocks EXCEPT ![i].size = FL!Minus(@, n)]
              later == [list.blocks EXCEPT ![i] = FL!FreeBlock(end, FL!Minus(@.size, size))]
  <2>5. \A n \in Int : shorter(n) \in Seq(Block) /\ Len(shorter(n)) = Len(list.blocks)
    <3>. SUFFICES ASSUME NEW n \in Int
                  PROVE  shorter(n) \in Seq(Block) /\ Len(shorter(n)) = Len(list.blocks)
      OBVIOUS
    <3>1. [b EXCEPT !.size = FL!Minus(b.size, n)] \in Block
      BY <2>2, <2>3 DEF Block
    <3>2. shorter(n) = [list.blocks EXCEPT ![i] = [b EXCEPT !.size = FL!Minus(b.size, n)]]
      OBVIOUS
    <3>. QED
      BY <2>1, <3>1, <3>2, TypedBlocks
  <2>6. later \in Seq(Block)
    <3>1. FL!FreeBlock(end, FL!Minus(b.size, size)) \in Block
      BY <2>3, FreeBlockIs
    <3>. QED
      BY <2>1, <3>1, TypedBlocks
  <2>7. FL!InsertAt(shorter(size + rest.size), i + 1, rest) \in Seq(Block)
    <3>1. i + 1 \in 1 .. Len(shorter(size + rest.size)) + 1
      BY <2>1, <2>4, <2>5, TypedBlocks
    <3>. QED
      BY <2>4, <2>5, <3>1, InsertIs
  <2>8. \E blocks \in Seq(Block) : FL!Allocate(list, offset, size) = [list EXCEPT !.blocks = blocks]
    <3>. HIDE DEF rest, i
    <3>1. FL!Allocate(list, offset, size) =
            [list EXCEPT !.blocks =
               IF end = FL!BlockEnd(b) THEN shorter(size)
               ELSE IF offset = b.offset THEN later
               ELSE FL!InsertAt(shorter(size + rest.size), i + 1, rest)]
      BY <1>2 DEF FL!Allocate, rest, i
    <3>. HIDE DEF shorter, later, end, b
    <3>. QED
      BY <2>5, <2>6, <2>7, <3>1
  <2>. QED
    BY <2>8 DEF ListType
<1>. QED
  BY <1>1, <1>2

(* The bytes lie in a block, which keeps what is left and right of them.   *)
LEMMA AllocateIs ==
  ASSUME NEW list \in ListType, NEW offset \in Nat, NEW size \in Nat, NEW cap \in Nat,
         cap < Word, Listed(list, cap), FL!CanAllocate(list, offset, size)
  PROVE  \E i \in DOMAIN list.blocks :
           LET b == list.blocks[i]
               left == FL!FreeBlock(b.offset, offset - b.offset)
               right == FL!FreeBlock(offset + size, FL!BlockEnd(b) - (offset + size))
           IN  /\ b.offset <= offset /\ offset + size <= FL!BlockEnd(b)
               /\ FL!Allocate(list, offset, size) \in
                    {WithBlock(list, i, left), WithBlock(list, i, right),
                     WithInserted(WithBlock(list, i, left), i + 1, right)}
<1>1. FL!BlocksAt(list, offset) # {}
  BY DEF FL!CanAllocate
<1>. DEFINE i == FL!FirstOf(FL!BlocksAt(list, offset))
            b == list.blocks[i]
            end == offset + size
            left == FL!FreeBlock(b.offset, offset - b.offset)
            right == FL!FreeBlock(end, FL!BlockEnd(b) - end)
            rest == FL!FreeBlock(end, FL!Minus(FL!BlockEnd(b), end))
<1>2. i \in FL!BlocksAt(list, offset)
  <2>1. FL!BlocksAt(list, offset) \in SUBSET Nat
    BY TypedBlocks DEF FL!BlocksAt
  <2>. QED
    BY <1>1, <2>1, FirstIs
<1>3. i \in DOMAIN list.blocks /\ b.offset <= offset /\ offset <= FL!BlockEnd(b)
  BY <1>2 DEF FL!BlocksAt
<1>4. FL!BlockEnd(b) - offset >= size
  BY DEF FL!CanAllocate
<1>5. /\ FL!Allocate(list, offset, size) =
           [list EXCEPT !.blocks =
              IF end = FL!BlockEnd(b) THEN [list.blocks EXCEPT ![i].size = FL!Minus(@, size)]
              ELSE IF offset = b.offset
              THEN [list.blocks EXCEPT ![i] = FL!FreeBlock(end, FL!Minus(@.size, size))]
              ELSE FL!InsertAt([list.blocks EXCEPT ![i].size = FL!Minus(@, size + rest.size)],
                               i + 1, rest)]
  BY <1>1 DEF FL!Allocate
<1>. HIDE DEF i
<1>6. /\ b.offset \in Nat /\ b.size \in Nat /\ FL!BlockEnd(b) = b.offset + b.size
      /\ b \in Block /\ FL!BlockEnd(b) <= cap
  BY <1>3, TypedBlocks DEF Listed
<1>7. offset + size <= FL!BlockEnd(b)
  BY <1>4, <1>6
<1>8. rest = right /\ rest.size = FL!BlockEnd(b) - end
  <2>1. FL!Minus(FL!BlockEnd(b), end) = FL!BlockEnd(b) - end
    <3>1. /\ FL!BlockEnd(b) \in Int /\ end \in Int /\ FL!BlockEnd(b) >= end
          /\ FL!BlockEnd(b) - end < Word
      BY <1>6, <1>7, SizesAssumption
    <3>. QED
      BY <3>1, MinusSmall
  <2>2. FL!BlockEnd(b) - end \in Nat
    BY <1>6, <1>7
  <2>. QED
    <3>. HIDE DEF b, end
    <3>1. rest = FL!FreeBlock(end, FL!BlockEnd(b) - end)
      BY <2>1
    <3>. QED
      BY <2>2, <3>1 DEF FL!FreeBlock
<1>9. \A n \in Int : n \in 0 .. b.size =>
        [list.blocks EXCEPT ![i].size = FL!Minus(@, n)] =
          [list.blocks EXCEPT ![i] = FL!FreeBlock(b.offset, b.size - n)]
  <2>. SUFFICES ASSUME NEW n \in Int, n \in 0 .. b.size
                PROVE  [list.blocks EXCEPT ![i].size = FL!Minus(@, n)] =
                         [list.blocks EXCEPT ![i] = FL!FreeBlock(b.offset, b.size - n)]
    OBVIOUS
  <2>1. FL!Minus(b.size, n) = b.size - n
    <3>1. b.size \in Int /\ b.size >= n /\ b.size - n < Word
      BY <1>6, SizesAssumption
    <3>. QED
      BY <3>1, MinusSmall
  <2>2. [b EXCEPT !.size = b.size - n] = FL!FreeBlock(b.offset, b.size - n)
    BY <1>6 DEF FL!FreeBlock, Block
  <2>. QED
    BY <2>1, <2>2
<1>10. CASE end = FL!BlockEnd(b)
  <2>1. size \in Int /\ size \in 0 .. b.size /\ b.size - size = offset - b.offset
    BY <1>3, <1>6, <1>7, <1>10
  <2>2. FL!Allocate(list, offset, size) = WithBlock(list, i, left)
    BY <1>5, <1>9, <1>10, <2>1 DEF WithBlock
  <2>. QED
    BY <1>3, <1>7, <2>2
<1>11. CASE end # FL!BlockEnd(b) /\ offset = b.offset
  <2>1. FL!Minus(b.size, size) = b.size - size /\ b.size - size = FL!BlockEnd(b) - end
    <3>1. /\ b.size \in Int /\ b.size >= size /\ b.size - size < Word
          /\ b.size - size = FL!BlockEnd(b) - end
      BY <1>6, <1>7, <1>11, SizesAssumption
    <3>. QED
      BY <3>1, MinusSmall
  <2>2. FL!Allocate(list, offset, size) = WithBlock(list, i, right)
    BY <1>5, <1>11, <2>1 DEF WithBlock
  <2>. QED
    BY <1>3, <1>7, <2>2
<1>12. CASE end # FL!BlockEnd(b) /\ offset # b.offset
  <2>1. /\ size + rest.size \in Int /\ size + rest.size \in 0 .. b.size
        /\ b.size - (size + rest.size) = offset - b.offset
    BY <1>3, <1>6, <1>7, <1>8
  <2>2. FL!Allocate(list, offset, size) =
          [list EXCEPT !.blocks =
             FL!InsertAt([list.blocks EXCEPT ![i].size = FL!Minus(@, size + rest.size)], i + 1, rest)]
    BY <1>5, <1>12
  <2>3. [list.blocks EXCEPT ![i].size = FL!Minus(@, size + rest.size)] =
          [list.blocks EXCEPT ![i] = left]
    BY <1>9, <2>1
  <2>4. WithBlock(list, i, left).blocks = [list.blocks EXCEPT ![i] = left]
    BY DEF WithBlock, ListType
  <2>5. FL!Allocate(list, offset, size) =
          [list EXCEPT !.blocks = FL!InsertAt(WithBlock(list, i, left).blocks, i + 1, right)]
    BY <1>8, <2>2, <2>3, <2>4
  <2>6. \A s : [WithBlock(list, i, left) EXCEPT !.blocks = s] = [list EXCEPT !.blocks = s]
    BY DEF WithBlock, ListType
  <2>7. FL!Allocate(list, offset, size) = WithInserted(WithBlock(list, i, left), i + 1, right)
    BY <2>5, <2>6 DEF WithInserted
  <2>. QED
    BY <1>3, <1>7, <2>7
<1>. QED
  BY <1>10, <1>11, <1>12

(* An allocation that passes Allocate's checks keeps the list in order     *)
(* within the buffer, takes bytes the list offered, and offers no others.  *)
LEMMA AllocateSound ==
  ASSUME NEW list \in ListType, NEW offset \in Nat, NEW size \in Nat, NEW cap \in Nat,
         cap < Word, Listed(list, cap), FL!CanAllocate(list, offset, size)
  PROVE  LET new == FL!Allocate(list, offset, size)
         IN  /\ Listed(new, cap)
             /\ offset + size <= cap
             /\ \A x \in Interval(offset, size) : Offers(list, x)
             /\ Ordered(list) => Ordered(new)
             /\ Ordered(list) => \A x \in Nat : Offers(new, x) =>
                                   Offers(list, x) /\ x \notin Interval(offset, size)
<1>1. PICK i \in DOMAIN list.blocks :
           LET b == list.blocks[i]
               left == FL!FreeBlock(b.offset, offset - b.offset)
               right == FL!FreeBlock(offset + size, FL!BlockEnd(b) - (offset + size))
           IN  /\ b.offset <= offset /\ offset + size <= FL!BlockEnd(b)
               /\ FL!Allocate(list, offset, size) \in
                    {WithBlock(list, i, left), WithBlock(list, i, right),
                     WithInserted(WithBlock(list, i, left), i + 1, right)}
  BY AllocateIs
<1>. DEFINE b == list.blocks[i]
            left == FL!FreeBlock(b.offset, offset - b.offset)
            right == FL!FreeBlock(offset + size, FL!BlockEnd(b) - (offset + size))
            one == WithBlock(list, i, left)
            two == WithInserted(one, i + 1, right)
<1>2. /\ b \in Block /\ b.offset \in Nat /\ b.size \in Nat /\ FL!BlockEnd(b) = b.offset + b.size
      /\ FL!BlockEnd(b) <= cap /\ b.offset <= offset /\ offset + size <= FL!BlockEnd(b)
      /\ FL!BlockEnd(b) \in Nat
  BY <1>1, TypedBlocks DEF Listed
<1>3. /\ left \in Block /\ left.offset = b.offset /\ FL!BlockEnd(left) = offset
  <2>1. offset - b.offset \in Nat /\ b.offset + (offset - b.offset) = offset
    BY <1>2
  <2>. HIDE DEF b
  <2>. QED
    BY <1>2, <2>1, FreeBlockIs
<1>4. /\ right \in Block /\ right.offset = offset + size /\ FL!BlockEnd(right) = FL!BlockEnd(b)
  <2>. HIDE DEF b
  <2>1. /\ FL!BlockEnd(b) - (offset + size) \in Nat /\ offset + size \in Nat
        /\ (offset + size) + (FL!BlockEnd(b) - (offset + size)) = FL!BlockEnd(b)
    BY <1>2
  <2>. QED
    BY <2>1, FreeBlockIs
<1>5. FL!Allocate(list, offset, size) \in {one, WithBlock(list, i, right), two}
  BY <1>1
<1>6. DOMAIN list.blocks = 1 .. Len(list.blocks) /\ Len(list.blocks) \in Nat
  BY TypedBlocks
<1>. HIDE DEF b, left, right
<1>7. /\ one \in ListType /\ one.blocks[i] = left
      /\ DOMAIN one.blocks = DOMAIN list.blocks
      /\ \A k \in DOMAIN list.blocks : k # i => one.blocks[k] = list.blocks[k]
  BY <1>3, WithBlockIs
<1>8. i + 1 \in 1 .. Len(one.blocks) + 1
  <2>1. one.blocks \in Seq(Block) /\ DOMAIN one.blocks = 1 .. Len(one.blocks)
        /\ Len(one.blocks) \in Nat
    BY <1>7, TypedBlocks
  <2>. QED
    BY <1>6, <1>7, <2>1
<1>9. Listed(one, cap) /\ Listed(WithBlock(list, i, right), cap)
  <2>1. FL!BlockEnd(left) <= cap /\ FL!BlockEnd(right) <= cap
    BY <1>2, <1>3, <1>4
  <2>. QED
    BY <1>3, <1>4, <2>1, WithBlockListed
<1>10. Listed(two, cap)
  <2>1. FL!BlockEnd(right) <= cap
    BY <1>2, <1>4
  <2>. HIDE DEF one
  <2>. QED
    BY <1>4, <1>7, <1>8, <1>9, <2>1, WithInsertedListed
<1>11. \A x \in Interval(offset, size) : Offers(list, x)
  <2>. SUFFICES ASSUME NEW x \in Interval(offset, size) PROVE Has(b, x)
    BY DEF Offers, b
  <2>. QED
    BY <1>2 DEF Interval, Has
<1>12. ASSUME Ordered(list)
       PROVE  Ordered(one) /\ Ordered(WithBlock(list, i, right)) /\ Ordered(two)
  <2>1. \A j \in DOMAIN list.blocks :
          /\ j \in Int /\ i \in Int
          /\ FL!BlockEnd(list.blocks[j]) \in Int /\ list.blocks[j].offset \in Int
    BY TypedBlocks
  <2>2. /\ \A j \in DOMAIN list.blocks : j < i => FL!BlockEnd(list.blocks[j]) <= b.offset
        /\ \A j \in DOMAIN list.blocks : j > i => FL!BlockEnd(b) <= list.blocks[j].offset
    BY <1>12, <2>1 DEF Ordered, b
  <2>3. Ordered(one)
    <3>1. /\ \A j \in DOMAIN list.blocks : j < i => FL!BlockEnd(list.blocks[j]) <= left.offset
          /\ \A j \in DOMAIN list.blocks : j > i => FL!BlockEnd(left) <= list.blocks[j].offset
      BY <1>2, <1>3, <2>1, <2>2
    <3>. QED
      BY <1>3, <1>12, <3>1, WithBlockOrdered
  <2>4. Ordered(WithBlock(list, i, right))
    <3>1. /\ \A j \in DOMAIN list.blocks : j < i => FL!BlockEnd(list.blocks[j]) <= right.offset
          /\ \A j \in DOMAIN list.blocks : j > i => FL!BlockEnd(right) <= list.blocks[j].offset
      BY <1>2, <1>4, <2>1, <2>2
    <3>. QED
      BY <1>4, <1>12, <3>1, WithBlockOrdered
  <2>5. Ordered(two)
    <3>1. \A j \in DOMAIN one.blocks : j < i + 1 => FL!BlockEnd(one.blocks[j]) <= right.offset
      <4>. SUFFICES ASSUME NEW j \in DOMAIN list.blocks, j < i + 1
                    PROVE  FL!BlockEnd(one.blocks[j]) <= right.offset
        BY <1>7
      <4>. HIDE DEF one
      <4>1. CASE j = i
        BY <1>2, <1>3, <1>4, <1>7, <4>1
      <4>2. CASE j < i
        BY <1>2, <1>4, <1>7, <2>1, <2>2, <4>2
      <4>. QED
        BY <2>1, <4>1, <4>2
    <3>2. \A j \in DOMAIN one.blocks : j >= i + 1 => FL!BlockEnd(right) <= one.blocks[j].offset
      BY <1>4, <1>7, <2>1, <2>2
    <3>. HIDE DEF one
    <3>. QED
      BY <1>4, <1>7, <1>8, <2>3, <3>1, <3>2, WithInsertedOrdered
  <2>. QED
    BY <2>3, <2>4, <2>5
<1>13. ASSUME Ordered(list), NEW x \in Nat, Offers(FL!Allocate(list, offset, size), x)
       PROVE  Offers(list, x) /\ x \notin Interval(offset, size)
  <2>1. \/ Has(left, x) \/ Has(right, x)
        \/ \E j \in DOMAIN list.blocks \ {i} : Has(list.blocks[j], x)
    <3>1. \A block \in {left, right} : Offers(WithBlock(list, i, block), x) =>
             Has(block, x) \/ \E j \in DOMAIN list.blocks \ {i} : Has(list.blocks[j], x)
      BY <1>3, <1>4, WithBlockOffers
    <3>2. Offers(two, x) => Has(right, x) \/ Offers(one, x)
      <4>. HIDE DEF one
      <4>. QED
        BY <1>4, <1>7, <1>8, WithInsertedOffers
    <3>3. Offers(one, x) \/ Offers(WithBlock(list, i, right), x) \/ Offers(two, x)
      BY <1>5, <1>13
    <3>. QED
      BY <3>1, <3>2, <3>3
  <2>2. CASE Has(left, x) \/ Has(right, x)
    <3>1. Has(b, x) /\ x \notin Interval(offset, size)
      BY <1>2, <1>3, <1>4, <2>2 DEF Has, Interval
    <3>. QED
      BY <3>1 DEF Offers, b
  <2>3. CASE \E j \in DOMAIN list.blocks \ {i} : Has(list.blocks[j], x)
    <3>1. PICK j \in DOMAIN list.blocks \ {i} : Has(list.blocks[j], x)
      BY <2>3
    <3>2. /\ j \in Int /\ i \in Int /\ j # i
          /\ FL!BlockEnd(list.blocks[j]) \in Int /\ list.blocks[j].offset \in Int
      <4>1. j \in DOMAIN list.blocks /\ j # i
        OBVIOUS
      <4>2. list.blocks[j].offset \in Nat /\ FL!BlockEnd(list.blocks[j]) \in Nat
        BY <4>1, TypedBlocks
      <4>. QED
        BY <1>6, <4>1, <4>2
    <3>3. j < i => FL!BlockEnd(list.blocks[j]) <= b.offset
      BY <1>13 DEF Ordered, b
    <3>4. j > i => FL!BlockEnd(b) <= list.blocks[j].offset
      BY <1>13 DEF Ordered, b
    <3>5. x \notin Interval(offset, size)
      BY <1>2, <3>1, <3>2, <3>3, <3>4 DEF Has, Interval
    <3>. QED
      BY <3>1, <3>5 DEF Offers
  <2>. QED
    BY <2>1, <2>2, <2>3
<1>14. Listed(FL!Allocate(list, offset, size), cap)
  BY <1>5, <1>9, <1>10
<1>15. offset + size <= cap
  BY <1>2
<1>16. Ordered(list) => Ordered(FL!Allocate(list, offset, size))
  BY <1>5, <1>12
<1>. QED
  BY <1>11, <1>13, <1>14, <1>15, <1>16

-----------------------------------------------------------------------------
(* Find, Grow, Reset                                                       *)

(* Find's answer is the start of a block of that size.                     *)
LEMMA FindIs ==
  ASSUME NEW list \in ListType, NEW size \in Nat, FL!Find(list, size) # FL!NotFound
  PROVE  \E i \in DOMAIN list.blocks : FL!Find(list, size) = list.blocks[i].offset
<1>. DEFINE fits == {i \in DOMAIN list.blocks : list.blocks[i].size >= size}
<1>1. fits # {} /\ FL!Find(list, size) = list.blocks[FL!FirstOf(fits)].offset
  BY DEF FL!Find
<1>2. fits \in SUBSET Nat
  BY TypedBlocks
<1>3. FL!FirstOf(fits) \in fits
  <2>. HIDE DEF fits
  <2>. QED
    BY <1>1, <1>2, FirstIs
<1>. QED
  BY <1>1, <1>3

(* Growth adds the new bytes, at most, to the last block.                  *)
LEMMA GrowSound ==
  ASSUME NEW list \in ListType, NEW cap \in Nat, NEW new \in Nat, cap <= new, Listed(list, cap)
  PROVE  LET grown == FL!Grow(list, new)
         IN  /\ grown \in ListType
             /\ Listed(grown, new)
             /\ Ordered(list) => Ordered(grown)
             /\ \A x \in Nat : Offers(grown, x) => Offers(list, x) \/ x >= cap
<1>. DEFINE n == Len(list.blocks)
            b == list.blocks[n]
            longer == FL!FreeBlock(b.offset, b.size + new - cap)
            taller == [fullSize |-> new, blocks |-> list.blocks]
<1>1. DOMAIN list.blocks = 1 .. n /\ n \in Nat /\ n \in DOMAIN list.blocks
  <2>1. list.blocks \in Seq(Block) /\ list.blocks # <<>>
    BY TypedBlocks DEF Listed
  <2>. QED
    BY <2>1
<1>2. /\ b \in Block /\ b.offset \in Nat /\ b.size \in Nat /\ FL!BlockEnd(b) = b.offset + b.size
      /\ FL!BlockEnd(b) <= cap /\ list.fullSize = cap
  BY <1>1, TypedBlocks DEF Listed
<1>3. /\ taller \in ListType /\ taller.blocks = list.blocks /\ taller.fullSize = new
      /\ Listed(taller, new) /\ (Ordered(list) => Ordered(taller))
      /\ \A x : Offers(taller, x) => Offers(list, x)
  <2>1. taller \in ListType /\ taller.blocks = list.blocks /\ taller.fullSize = new
    BY DEF ListType
  <2>2. \A k \in DOMAIN list.blocks : FL!BlockEnd(list.blocks[k]) <= new
    BY TypedBlocks DEF Listed
  <2>. HIDE DEF taller
  <2>. QED
    BY <2>1, <2>2 DEF Listed, Ordered, Offers
<1>4. CASE FL!BlockEnd(b) # cap
  <2>1. FL!Grow(list, new) = taller
    BY <1>2, <1>4 DEF FL!Grow
  <2>. QED
    BY <1>3, <2>1
<1>5. CASE FL!BlockEnd(b) = cap
  <2>1. /\ longer \in Block /\ longer.offset = b.offset /\ FL!BlockEnd(longer) = new
    <3>. HIDE DEF b
    <3>1. b.size + new - cap \in Nat /\ b.offset + (b.size + new - cap) = new
      BY <1>2, <1>5
    <3>. QED
      BY <1>2, <3>1, FreeBlockIs
  <2>2. FL!Grow(list, new) = WithBlock(taller, n, longer)
    <3>1. FL!Grow(list, new) =
            [fullSize |-> new, blocks |-> [list.blocks EXCEPT ![n].size = @ + new - cap]]
      BY <1>2, <1>5 DEF FL!Grow
    <3>2. [b EXCEPT !.size = @ + new - cap] = longer
      BY <1>2 DEF Block, FL!FreeBlock
    <3>3. [list.blocks EXCEPT ![n].size = @ + new - cap] = [list.blocks EXCEPT ![n] = longer]
      BY <3>2
    <3>4. \A s : [taller EXCEPT !.blocks = s] = [fullSize |-> new, blocks |-> s]
      OBVIOUS
    <3>5. WithBlock(taller, n, longer) = [taller EXCEPT !.blocks = [list.blocks EXCEPT ![n] = longer]]
      BY <1>3 DEF WithBlock
    <3>. HIDE DEF taller, longer
    <3>. QED
      BY <3>1, <3>3, <3>4, <3>5
  <2>3. n \in DOMAIN taller.blocks
    BY <1>1, <1>3
  <2>. HIDE DEF taller, longer
  <2>4. Listed(WithBlock(taller, n, longer), new) /\ WithBlock(taller, n, longer) \in ListType
    BY <1>3, <2>1, <2>3, WithBlockListed, WithBlockIs
  <2>5. ASSUME Ordered(list) PROVE Ordered(WithBlock(taller, n, longer))
    <3>1. Ordered(taller)
      BY <1>3, <2>5
    <3>2. /\ \A j \in DOMAIN taller.blocks : j < n => FL!BlockEnd(taller.blocks[j]) <= longer.offset
          /\ \A j \in DOMAIN taller.blocks : j > n => FL!BlockEnd(longer) <= taller.blocks[j].offset
      BY <1>1, <1>3, <2>1, <2>5 DEF Ordered
    <3>. QED
      BY <1>3, <2>1, <2>3, <3>1, <3>2, WithBlockOrdered
  <2>6. ASSUME NEW x \in Nat, Offers(WithBlock(taller, n, longer), x)
        PROVE  Offers(list, x) \/ x >= cap
    <3>1. Has(longer, x) \/ \E j \in DOMAIN taller.blocks \ {n} : Has(taller.blocks[j], x)
      BY <1>3, <2>1, <2>3, <2>6, WithBlockOffers
    <3>2. CASE Has(longer, x) /\ x < cap
      <4>1. Has(b, x)
        BY <1>2, <1>5, <2>1, <3>2 DEF Has
      <4>. QED
        BY <1>1, <4>1 DEF Offers
    <3>. QED
      BY <1>3, <3>1, <3>2 DEF Offers
  <2>. QED
    BY <2>2, <2>4, <2>5, <2>6
<1>. QED
  BY <1>4, <1>5

(* A fresh list, and Reset.                                                *)
LEMMA NewFreeListIs ==
  ASSUME NEW size \in Nat
  PROVE  /\ FL!NewFreeList(size) \in ListType
         /\ Listed(FL!NewFreeList(size), size)
         /\ Ordered(FL!NewFreeList(size))
<1>1. /\ FL!FreeBlock(0, size) \in Block /\ FL!BlockEnd(FL!FreeBlock(0, size)) = size
      /\ FL!FreeBlock(0, size).offset = 0
  BY FreeBlockIs
<1>. DEFINE s == <<FL!FreeBlock(0, size)>>
<1>2. s \in Seq(Block) /\ DOMAIN s = {1} /\ s[1] = FL!FreeBlock(0, size) /\ s # <<>>
  BY <1>1
<1>3. /\ FL!NewFreeList(size) = [fullSize |-> size, blocks |-> s]
  BY DEF FL!NewFreeList
<1>. HIDE DEF s
<1>. QED
  BY <1>1, <1>2, <1>3 DEF ListType, Listed, Ordered

-----------------------------------------------------------------------------
(* DeAllocate                                                              *)

(* The three things DeAllocate does with the first block past the bytes.   *)
LEMMA DeAllocateIs ==
  ASSUME NEW list \in ListType, NEW offset \in Nat, NEW size \in Nat,
         FL!BlocksPast(list, offset) # {}
  PROVE  \E i \in DOMAIN list.blocks :
           LET b == list.blocks[i]
               new == FL!DeAllocate(list, offset, size)
           IN  /\ offset < b.offset
               /\ \A j \in DOMAIN list.blocks : j < i => list.blocks[j].offset <= offset
               /\ FL!CanDeAllocate(list, offset, size) => offset + size <= b.offset
               /\ \/ /\ offset + size = b.offset
                     /\ new = WithBlock(list, i, FL!FreeBlock(offset, b.size + size))
                  \/ new = [list EXCEPT !.blocks = <<FL!FreeBlock(offset, size), b>>]
                  \/ new = WithInserted(list, i, FL!FreeBlock(offset, size))
<1>. DEFINE i == FL!FirstOf(FL!BlocksPast(list, offset))
            b == list.blocks[i]
<1>1. FL!BlocksPast(list, offset) \in SUBSET Nat
  BY TypedBlocks DEF FL!BlocksPast
<1>2. i \in FL!BlocksPast(list, offset) /\ \A j \in FL!BlocksPast(list, offset) : i <= j
  BY <1>1, FirstIs
<1>3. FL!CanDeAllocate(list, offset, size) => offset + size <= b.offset
  BY DEF FL!CanDeAllocate
<1>4. FL!DeAllocate(list, offset, size) =
        [list EXCEPT !.blocks =
           IF offset + size = b.offset
           THEN [list.blocks EXCEPT ![i] = FL!FreeBlock(b.offset - size, b.size + size)]
           ELSE IF i = 1 THEN <<FL!FreeBlock(offset, size), b>>
           ELSE FL!InsertAt(list.blocks, i, FL!FreeBlock(offset, size))]
  BY DEF FL!DeAllocate
<1>. HIDE DEF i
<1>5. i \in DOMAIN list.blocks /\ offset < b.offset
  BY <1>2 DEF FL!BlocksPast
<1>6. ASSUME NEW j \in DOMAIN list.blocks, j < i PROVE list.blocks[j].offset <= offset
  <2>1. j \in Int /\ i \in Int /\ list.blocks[j].offset \in Int
    BY <1>5, TypedBlocks
  <2>2. j \notin FL!BlocksPast(list, offset)
    BY <1>2, <1>6, <2>1
  <2>. QED
    BY <2>1, <2>2 DEF FL!BlocksPast
<1>7. b.offset \in Nat
  BY <1>5, TypedBlocks
<1>8. offset + size = b.offset => b.offset - size = offset
  BY <1>7
<1>. HIDE DEF b
<1>9. CASE offset + size = b.offset
  <2>1. FL!DeAllocate(list, offset, size) = WithBlock(list, i, FL!FreeBlock(offset, b.size + size))
    BY <1>4, <1>8, <1>9 DEF WithBlock
  <2>. QED
    BY <1>3, <1>5, <1>6, <1>9, <2>1 DEF b
<1>10. CASE offset + size # b.offset /\ i = 1
  <2>1. FL!DeAllocate(list, offset, size) = [list EXCEPT !.blocks = <<FL!FreeBlock(offset, size), b>>]
    BY <1>4, <1>10
  <2>. QED
    BY <1>3, <1>5, <1>6, <2>1 DEF b
<1>11. CASE offset + size # b.offset /\ i # 1
  <2>1. FL!DeAllocate(list, offset, size) = WithInserted(list, i, FL!FreeBlock(offset, size))
    BY <1>4, <1>11 DEF WithInserted
  <2>. QED
    BY <1>3, <1>5, <1>6, <2>1 DEF b
<1>. QED
  BY <1>9, <1>10, <1>11

(* Whatever its arguments, the result is a list; if the assertion holds    *)
(* its blocks stay within the buffer; and if the bytes are none the list   *)
(* has, it stays in order and offers no others.                            *)
LEMMA DeAllocateSound ==
  ASSUME NEW list \in ListType, NEW offset \in Nat, NEW size \in Nat \ {0}
  PROVE  LET new == FL!DeAllocate(list, offset, size)
         IN  /\ new \in ListType
             /\ \A cap \in Nat : Listed(list, cap) /\ FL!CanDeAllocate(list, offset, size) =>
                  Listed(new, cap)
             /\ (/\ Ordered(list) /\ FL!CanDeAllocate(list, offset, size)
                 /\ \A x \in Interval(offset, size) : ~Offers(list, x)) =>
                  /\ Ordered(new)
                  /\ \A x \in Nat : Offers(new, x) => Offers(list, x) \/ x \in Interval(offset, size)
<1>. DEFINE new == FL!DeAllocate(list, offset, size)
<1>1. CASE FL!BlocksPast(list, offset) = {}
  <2>1. new = list
    BY <1>1 DEF FL!DeAllocate
  <2>. QED
    BY <2>1
<1>2. CASE FL!BlocksPast(list, offset) # {}
  <2>. HIDE DEF new
  <2>1. PICK i \in DOMAIN list.blocks :
          LET b == list.blocks[i]
          IN  /\ offset < b.offset
              /\ \A j \in DOMAIN list.blocks : j < i => list.blocks[j].offset <= offset
              /\ FL!CanDeAllocate(list, offset, size) => offset + size <= b.offset
              /\ \/ /\ offset + size = b.offset
                    /\ new = WithBlock(list, i, FL!FreeBlock(offset, b.size + size))
                 \/ new = [list EXCEPT !.blocks = <<FL!FreeBlock(offset, size), b>>]
                 \/ new = WithInserted(list, i, FL!FreeBlock(offset, size))
    BY <1>2, DeAllocateIs, Zenon DEF new
  <2>. DEFINE b == list.blocks[i]
              joined == FL!FreeBlock(offset, b.size + size)
              freed == FL!FreeBlock(offset, size)
              two == [list EXCEPT !.blocks = <<freed, b>>]
  <2>2. /\ b \in Block /\ b.offset \in Nat /\ b.size \in Nat /\ FL!BlockEnd(b) = b.offset + b.size
        /\ offset < b.offset /\ FL!BlockEnd(b) \in Nat
        /\ FL!CanDeAllocate(list, offset, size) => offset + size <= b.offset
    BY <2>1, TypedBlocks
  <2>3. joined \in Block /\ joined.offset = offset /\ FL!BlockEnd(joined) = offset + (b.size + size)
    <3>. HIDE DEF b
    <3>1. b.size + size \in Nat
      BY <2>2
    <3>. QED
      BY <3>1, FreeBlockIs
  <2>4. freed \in Block /\ freed.offset = offset /\ FL!BlockEnd(freed) = offset + size
    BY FreeBlockIs
  <2>5. \/ offset + size = b.offset /\ new = WithBlock(list, i, joined)
        \/ new = two
        \/ new = WithInserted(list, i, freed)
    BY <2>1
  <2>6. /\ \A j \in DOMAIN list.blocks : j < i => list.blocks[j].offset <= offset
        /\ DOMAIN list.blocks = 1 .. Len(list.blocks) /\ Len(list.blocks) \in Nat
        /\ i \in 1 .. Len(list.blocks) + 1
        /\ \A j \in DOMAIN list.blocks :
             /\ j \in Int /\ i \in Int
             /\ FL!BlockEnd(list.blocks[j]) \in Int /\ list.blocks[j].offset \in Int
             /\ FL!BlockEnd(list.blocks[j]) >= list.blocks[j].offset
    <3>1. \A j \in DOMAIN list.blocks : j < i => list.blocks[j].offset <= offset
      BY <2>1
    <3>2. DOMAIN list.blocks = 1 .. Len(list.blocks) /\ Len(list.blocks) \in Nat
      BY TypedBlocks
    <3>3. i \in 1 .. Len(list.blocks) + 1 /\ i \in Int /\ \A j \in DOMAIN list.blocks : j \in Int
      BY <3>2
    <3>4. \A j \in DOMAIN list.blocks :
             /\ FL!BlockEnd(list.blocks[j]) \in Int /\ list.blocks[j].offset \in Int
             /\ FL!BlockEnd(list.blocks[j]) >= list.blocks[j].offset
      BY TypedBlocks
    <3>. QED
      BY <3>1, <3>2, <3>3, <3>4
  <2>7. /\ two \in ListType /\ two.fullSize = list.fullSize /\ DOMAIN two.blocks = 1 .. 2
        /\ two.blocks[1] = freed /\ two.blocks[2] = b /\ two.blocks # <<>>
    <3>. HIDE DEF b, freed
    <3>. DEFINE s == <<freed, b>>
    <3>1. s \in Seq(Block) /\ DOMAIN s = 1 .. 2 /\ s[1] = freed /\ s[2] = b /\ s # <<>>
      BY <2>2, <2>4
    <3>. HIDE DEF s
    <3>2. [list EXCEPT !.blocks = s] \in ListType /\ [list EXCEPT !.blocks = s].blocks = s
          /\ [list EXCEPT !.blocks = s].fullSize = list.fullSize
      BY <3>1 DEF ListType
    <3>. QED
      BY <3>1, <3>2 DEF s
  <2>. HIDE DEF joined, freed, two
  <2>8. new \in ListType
    BY <2>3, <2>4, <2>5, <2>6, <2>7, WithBlockIs, WithInsertedIs
  <2>9. ASSUME NEW cap \in Nat, Listed(list, cap), FL!CanDeAllocate(list, offset, size)
        PROVE  Listed(new, cap)
    <3>1. FL!BlockEnd(b) <= cap
      BY <2>9 DEF Listed
    <3>. HIDE DEF b
    <3>2. FL!BlockEnd(freed) <= cap
      BY <2>2, <2>4, <2>9, <3>1
    <3>3. offset + size = b.offset => FL!BlockEnd(joined) <= cap
      BY <2>2, <2>3, <3>1
    <3>4. Listed(two, cap)
      BY <2>7, <2>9, <3>1, <3>2 DEF Listed
    <3>. QED
      BY <2>3, <2>4, <2>5, <2>6, <2>9, <3>2, <3>3, <3>4, WithBlockListed, WithInsertedListed
  <2>10. ASSUME Ordered(list), FL!CanDeAllocate(list, offset, size),
                \A x \in Interval(offset, size) : ~Offers(list, x)
         PROVE  /\ Ordered(new)
                /\ \A x \in Nat : Offers(new, x) => Offers(list, x) \/ x \in Interval(offset, size)
    <3>1. ASSUME NEW j \in DOMAIN list.blocks, j < i
          PROVE  FL!BlockEnd(list.blocks[j]) <= offset
      <4>1. list.blocks[j].offset <= offset
        BY <2>6, <3>1
      <4>2. ~Has(list.blocks[j], offset)
        <5>1. offset \in Interval(offset, size)
          BY DEF Interval
        <5>. QED
          BY <2>10, <5>1 DEF Offers
      <4>. QED
        BY <2>6, <4>1, <4>2 DEF Has
    <3>2. ASSUME NEW j \in DOMAIN list.blocks, j > i
          PROVE  FL!BlockEnd(b) <= list.blocks[j].offset
      BY <2>10, <3>2 DEF Ordered
    <3>3. offset + size <= b.offset
      BY <2>2, <2>10
    <3>4. CASE offset + size = b.offset /\ new = WithBlock(list, i, joined)
      <4>1. FL!BlockEnd(joined) = FL!BlockEnd(b)
        BY <2>2, <2>3, <3>4
      <4>2. Ordered(new)
        BY <2>3, <2>10, <3>1, <3>2, <3>4, <4>1, WithBlockOrdered
      <4>3. ASSUME NEW x \in Nat, Offers(new, x)
            PROVE  Offers(list, x) \/ x \in Interval(offset, size)
        <5>1. Has(joined, x) \/ \E j \in DOMAIN list.blocks \ {i} : Has(list.blocks[j], x)
          BY <2>3, <3>4, <4>3, WithBlockOffers
        <5>2. CASE Has(joined, x)
          <6>1. Has(b, x) \/ x \in Interval(offset, size)
            BY <2>2, <2>3, <3>4, <4>1, <5>2 DEF Has, Interval
          <6>. QED
            BY <6>1 DEF Offers
        <5>. QED
          BY <5>1, <5>2 DEF Offers
      <4>. QED
        BY <4>2, <4>3
    <3>5. CASE new = two
      <4>1. FL!BlockEnd(freed) <= b.offset
        BY <2>4, <3>3
      <4>2. Ordered(new)
        BY <2>7, <3>5, <4>1 DEF Ordered
      <4>3. ASSUME NEW x \in Nat, Offers(new, x)
            PROVE  Offers(list, x) \/ x \in Interval(offset, size)
        <5>1. Has(freed, x) \/ Has(b, x)
          BY <2>7, <3>5, <4>3 DEF Offers
        <5>2. Has(freed, x) => x \in Interval(offset, size)
          BY <2>4 DEF Has, Interval
        <5>. QED
          BY <5>1, <5>2 DEF Offers
      <4>. QED
        BY <4>2, <4>3
    <3>6. CASE new = WithInserted(list, i, freed)
      <4>1. \A j \in DOMAIN list.blocks : j >= i => FL!BlockEnd(freed) <= list.blocks[j].offset
        <5>. SUFFICES ASSUME NEW j \in DOMAIN list.blocks, j >= i
                      PROVE  FL!BlockEnd(freed) <= list.blocks[j].offset
          OBVIOUS
        <5>1. CASE j = i
          BY <2>4, <3>3, <5>1
        <5>2. CASE j > i
          <6>1. FL!BlockEnd(b) <= list.blocks[j].offset /\ list.blocks[j].offset \in Int
            BY <2>6, <3>2, <5>2
          <6>. HIDE DEF b
          <6>. QED
            BY <2>2, <2>4, <3>3, <6>1
        <5>. QED
          BY <2>6, <5>1, <5>2
      <4>2. Ordered(new)
        BY <2>4, <2>6, <2>10, <3>1, <3>6, <4>1, WithInsertedOrdered
      <4>3. ASSUME NEW x \in Nat, Offers(new, x)
            PROVE  Offers(list, x) \/ x \in Interval(offset, size)
        <5>1. Has(freed, x) \/ Offers(list, x)
          BY <2>4, <2>6, <3>6, <4>3, WithInsertedOffers
        <5>2. Has(freed, x) => x \in Interval(offset, size)
          BY <2>4 DEF Has, Interval
        <5>. QED
          BY <5>1, <5>2
      <4>. QED
        BY <4>2, <4>3
    <3>. QED
      BY <2>5, <3>4, <3>5, <3>6
  <2>. QED
    BY <2>8, <2>9, <2>10 DEF new
<1>. QED
  BY <1>1, <1>2
=============================================================================
