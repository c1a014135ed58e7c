------------------------------ MODULE FreeList ------------------------------
(***************************************************************************)
(* Allocators/FreeList: the free ranges of a buffer as a list of blocks,   *)
(* the first one a member of the list object, the others on the heap.      *)
(* A list is [fullSize, blocks]; an operation returns the new list.        *)
(* Sizes and offsets are 32 bit words: subtractions wrap modulo Word.      *)
(***************************************************************************)
EXTENDS Integers, Sequences, SequencesExt

CONSTANT Word   \* 2^32 in the code

NotFound == Word - 1   \* UINT32_MAX

Minus(a, b) == (a - b) % Word

FreeBlock(offset, size) == [offset |-> offset, size |-> size]
BlockEnd(b) == b.offset + b.size

(* FreeList(size), and Reset: all bytes free. *)
NewFreeList(size) == [fullSize |-> size, blocks |-> <<FreeBlock(0, size)>>]

FirstOf(S) == CHOOSE i \in S : \A j \in S : i <= j

(* Grow(size): size is the new total.  The last block is extended if it    *)
(* ends the list; otherwise a block is made, and not linked to anything.   *)
Grow(list, size) ==
  LET last == Len(list.blocks)
  IN  [fullSize |-> size,
       blocks |-> IF BlockEnd(list.blocks[last]) = list.fullSize
                  THEN [list.blocks EXCEPT ![last].size = @ + size - list.fullSize]
                  ELSE list.blocks]

(* The blocks Allocate takes "offset" to lie in, their ends included. *)
BlocksAt(list, offset) ==
  {i \in DOMAIN list.blocks :
     list.blocks[i].offset <= offset /\ offset <= BlockEnd(list.blocks[i])}

(* Allocate's two checks: its result (a block was found) and its assertion *)
(* (the block has that many bytes left).                                   *)
CanAllocate(list, offset, size) ==
  /\ BlocksAt(list, offset) # {}
  /\ BlockEnd(list.blocks[FirstOf(BlocksAt(list, offset))]) - offset >= size

Allocate(list, offset, size) ==
  IF BlocksAt(list, offset) = {} THEN list
  ELSE LET i == FirstOf(BlocksAt(list, offset))
           b == list.blocks[i]
           end == offset + size
           rest == FreeBlock(end, Minus(BlockEnd(b), end))
           blocks ==
             IF end = BlockEnd(b)
             THEN [list.blocks EXCEPT ![i].size = Minus(@, size)]
             ELSE IF offset = b.offset
             THEN [list.blocks EXCEPT ![i] = FreeBlock(end, Minus(@.size, size))]
             ELSE InsertAt([list.blocks EXCEPT ![i].size = Minus(@, size + rest.size)],
                           i + 1, rest)
       IN  [list EXCEPT !.blocks = blocks]

(* The first block past "offset", the only one DeAllocate works on. *)
BlocksPast(list, offset) == {i \in DOMAIN list.blocks : offset < list.blocks[i].offset}

(* DeAllocate's assertion: the bytes end before that block. *)
CanDeAllocate(list, offset, size) ==
  BlocksPast(list, offset) # {} =>
    offset + size <= list.blocks[FirstOf(BlocksPast(list, offset))].offset

(* Mistake: the new block runs up to the next free one.                    *)
DeAllocateGap(list, offset, size) ==
  IF BlocksPast(list, offset) = {} THEN list
  ELSE LET i == FirstOf(BlocksPast(list, offset))
       IN  [list EXCEPT !.blocks =
              InsertAt(@, i, FreeBlock(offset, @[i].offset - offset))]

(* The freed bytes join the block after them, or become a block of their   *)
(* own before it.  In front of the first block the old first block moves   *)
(* to the heap and the blocks after it are dropped; past the last block    *)
(* nothing is added.                                                       *)
DeAllocate(list, offset, size) ==
  IF BlocksPast(list, offset) = {} THEN list
  ELSE LET i == FirstOf(BlocksPast(list, offset))
           b == list.blocks[i]
           blocks ==
             IF offset + size = b.offset
             THEN [list.blocks EXCEPT ![i] = FreeBlock(b.offset - size, b.size + size)]
             ELSE IF i = 1
             THEN <<FreeBlock(offset, size), b>>
             ELSE InsertAt(list.blocks, i, FreeBlock(offset, size))
       IN  [list EXCEPT !.blocks = blocks]

(* First fit. *)
Find(list, size) ==
  LET fits == {i \in DOMAIN list.blocks : list.blocks[i].size >= size}
  IN  IF fits = {} THEN NotFound ELSE list.blocks[FirstOf(fits)].offset

FreeBytes(list) ==
  UNION {b.offset .. BlockEnd(b) - 1 : b \in {list.blocks[i] : i \in DOMAIN list.blocks}}
=============================================================================
