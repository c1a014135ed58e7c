--------------------------- MODULE BufferAllocator ---------------------------
(***************************************************************************)
(* MonolithicBufferAllocator and the two mesh buffers it manages: Renderer *)
(* gives every mesh a range of one big vertex buffer and one of a big      *)
(* index buffer.  An allocation takes the "fast" space at the end of the   *)
(* buffer, else a block of the free list, else the buffer is defragmented  *)
(* or grown.  Clients keep a handle; HandleOffsets maps it to an offset.   *)
(*                                                                         *)
(* "memory" says which allocation's data each byte of a buffer holds;      *)
(* "allocations" are the ranges meshes hold.  PT_CORE_ASSERT is the debug  *)
(* build's: a failed assertion stops the program ("failed").               *)
(***************************************************************************)
EXTENDS Integers, Sequences, FiniteSets, SequencesExt

CONSTANTS
  Buffers,         \* of {"vertices", "indices"}
  InitialSize,     \* VB_INITIAL_SIZE, IB_INITIAL_SIZE
  GrowFactor,      \* GROW_FACTOR
  Sizes,           \* sizes clients ask for
  Word,            \* 2^32 in the code
  MaxCapacity,     \* bound: a buffer that would grow past it is not asked to
  MaxAllocations   \* bound: allocations in a behaviour

ASSUME BuffersAssumption == Buffers \subseteq {"vertices", "indices"}
ASSUME SizesAssumption ==
  /\ Sizes \subseteq Nat \ {0}
  /\ {InitialSize, MaxCapacity, MaxAllocations, Word} \subseteq Nat
  /\ GrowFactor \in Nat \ {0}
  /\ InitialSize <= MaxCapacity /\ MaxCapacity < Word

FL == INSTANCE FreeList

VARIABLES
  freeFastSpace, freeSpace, capacity, freeList, HandleOffsets, UnusedHandles,
  memory,       \* for every byte the allocation whose data it holds, 0 for none
  allocations,  \* [id, handle, size] of the meshes alive
  count,        \* allocations made so far
  failed,       \* an assertion of the debug build has failed
  defragmented  \* buffers DefragmentMeshBuffer was meant for, or ran on

allocatorVars == <<freeFastSpace, freeSpace, capacity, freeList, HandleOffsets, UnusedHandles>>
vars == <<allocatorVars, memory, allocations, count, failed, defragmented>>

Nobody == 0
Bytes == 0 .. MaxCapacity - 1
Interval(offset, size) == offset .. offset + size - 1
OffsetOf(b, a) == HandleOffsets[b][a.handle]

TypeOK ==
  /\ freeFastSpace \in [Buffers -> 0 .. Word - 1]
  /\ freeSpace \in [Buffers -> 0 .. Word - 1]
  /\ capacity \in [Buffers -> 0 .. MaxCapacity]
  /\ freeList \in [Buffers -> [fullSize: Nat, blocks: Seq([offset: Nat, size: Nat])]]
  /\ HandleOffsets \in [Buffers -> Seq(0 .. Word - 1)]
  /\ UnusedHandles \in [Buffers -> Seq(Nat)]
  /\ memory \in [Buffers -> [Bytes -> 0 .. MaxAllocations]]
  /\ allocations \in [Buffers -> SUBSET [id: 1 .. MaxAllocations, handle: Nat, size: Sizes]]
  /\ \A b \in Buffers :
       /\ \A i \in DOMAIN UnusedHandles[b] : UnusedHandles[b][i] \in DOMAIN HandleOffsets[b]
       /\ \A a \in allocations[b] : a.handle \in DOMAIN HandleOffsets[b]
  /\ count \in 0 .. MaxAllocations
  /\ failed \in BOOLEAN
  /\ defragmented \subseteq Buffers

Init ==
  /\ freeFastSpace = [b \in Buffers |-> InitialSize]
  /\ freeSpace = [b \in Buffers |-> InitialSize]
  /\ capacity = [b \in Buffers |-> InitialSize]
  /\ freeList = [b \in Buffers |-> FL!NewFreeList(InitialSize)]
  /\ HandleOffsets = [b \in Buffers |-> <<>>]
  /\ UnusedHandles = [b \in Buffers |-> <<>>]
  /\ memory = [b \in Buffers |-> [i \in Bytes |-> Nobody]]
  /\ allocations = [b \in Buffers |-> {}]
  /\ count = 0
  /\ failed = FALSE
  /\ defragmented = {}

-----------------------------------------------------------------------------
(* Mistake: leaves the handle it reuses among the unused ones. *)
AssignHandleTwice(b, offset) ==
  /\ IF UnusedHandles[b] = <<>>
     THEN HandleOffsets' = [HandleOffsets EXCEPT ![b] = Append(@, offset)]
     ELSE HandleOffsets' = [HandleOffsets EXCEPT ![b][Last(UnusedHandles[b])] = offset]
  /\ UNCHANGED UnusedHandles

(* AssignHandle: the last handle given back, else a new one.               *)
AssignHandle(b, offset) ==
  IF UnusedHandles[b] = <<>>
  THEN /\ HandleOffsets' = [HandleOffsets EXCEPT ![b] = Append(@, offset)]
       /\ UNCHANGED UnusedHandles
  ELSE /\ HandleOffsets' = [HandleOffsets EXCEPT ![b][Last(UnusedHandles[b])] = offset]
       /\ UnusedHandles' = [UnusedHandles EXCEPT ![b] = Front(@)]

(* Mistake: always reports a new handle. *)
AssignedHandleNew(b) == Len(HandleOffsets[b]) + 1

AssignedHandle(b) ==
  IF UnusedHandles[b] = <<>> THEN Len(HandleOffsets[b]) + 1 ELSE Last(UnusedHandles[b])

(* PushBufferUpdate and FlushStagingBuffer: the data is in the buffer.     *)
Written(bytes, id, offset, size) ==
  [i \in Bytes |-> IF i \in Interval(offset, size) THEN id ELSE bytes[i]]

(* What every way through Allocate ends with: the handle and the result,   *)
(* in Hand after the data.                                                 *)
Grant(b, offset, size) ==
  /\ AssignHandle(b, offset)
  /\ allocations' = [allocations EXCEPT ![b] =
       @ \cup {[id |-> count + 1, handle |-> AssignedHandle(b), size |-> size]}]
  /\ count' = count + 1

Hand(b, offset, size) ==
  /\ memory' = [memory EXCEPT ![b] = Written(@, count + 1, offset, size)]
  /\ Grant(b, offset, size)

FastOffset(b) == FL!Minus(capacity[b], freeFastSpace[b])

HasFastSpace(b, size) == size < freeFastSpace[b]
HasSpace(b, size) == size < freeSpace[b]
FreeOffset(b, size) == FL!Find(freeList[b], size)

(* Mistake: does not count the bytes just grown as free. *)
TakeFastSpaceUncounted(b, size, extra) ==
  LET list == IF extra = 0 THEN freeList[b] ELSE FL!Grow(freeList[b], capacity[b] + extra)
  IN  /\ failed' = ~FL!CanAllocate(list, FastOffset(b), size)
      /\ freeList' = [freeList EXCEPT ![b] = FL!Allocate(list, FastOffset(b), size)]
      /\ Hand(b, FastOffset(b), size)
      /\ capacity' = [capacity EXCEPT ![b] = @ + extra]
      /\ freeFastSpace' = [freeFastSpace EXCEPT ![b] = FL!Minus(@ + extra, size)]
      /\ freeSpace' = [freeSpace EXCEPT ![b] = FL!Minus(@, size)]
      /\ UNCHANGED defragmented

(* The space at the end of the buffer, "extra" bytes of it just grown.     *)
TakeFastSpace(b, size, extra) ==
  LET list == IF extra = 0 THEN freeList[b] ELSE FL!Grow(freeList[b], capacity[b] + extra)
  IN  /\ failed' = ~FL!CanAllocate(list, FastOffset(b), size)
      /\ freeList' = [freeList EXCEPT ![b] = FL!Allocate(list, FastOffset(b), size)]
      /\ Hand(b, FastOffset(b), size)
      /\ capacity' = [capacity EXCEPT ![b] = @ + extra]
      /\ freeFastSpace' = [freeFastSpace EXCEPT ![b] = FL!Minus(@ + extra, size)]
      /\ freeSpace' = [freeSpace EXCEPT ![b] = FL!Minus(@ + extra, size)]
      /\ UNCHANGED defragmented

AllocateFast(b, size) == HasFastSpace(b, size) /\ TakeFastSpace(b, size, 0)

(* Mistake: leaves the block it hands out in the free list. *)
AllocateFromListUnlisted(b, size) ==
  /\ ~HasFastSpace(b, size) /\ HasSpace(b, size)
  /\ FreeOffset(b, size) # FL!NotFound
  /\ failed' = ~FL!CanAllocate(freeList[b], FreeOffset(b, size), size)
  /\ Hand(b, FreeOffset(b, size), size)
  /\ freeSpace' = [freeSpace EXCEPT ![b] = FL!Minus(@, size)]
  /\ UNCHANGED <<freeList, freeFastSpace, capacity, defragmented>>

(* A block of the free list.  The fast space is not updated, even when the *)
(* block is the one at the end.                                            *)
AllocateFromList(b, size) ==
  /\ ~HasFastSpace(b, size) /\ HasSpace(b, size)
  /\ FreeOffset(b, size) # FL!NotFound
  /\ failed' = ~FL!CanAllocate(freeList[b], FreeOffset(b, size), size)
  /\ freeList' = [freeList EXCEPT ![b] = FL!Allocate(@, FreeOffset(b, size), size)]
  /\ Hand(b, FreeOffset(b, size), size)
  /\ freeSpace' = [freeSpace EXCEPT ![b] = FL!Minus(@, size)]
  /\ UNCHANGED <<freeFastSpace, capacity, defragmented>>

-----------------------------------------------------------------------------
(* DefragmentMeshBuffer copies every free block that is not already in     *)
(* place down to the end of the last one copied, then makes the space past *)
(* them the fast space.  HandleOffsets is left alone.                      *)
CopyDown(state, block) ==
  IF block.offset > state.next
  THEN [bytes |-> [i \in Bytes |->
                     IF i \in Interval(state.next, block.size)
                          /\ block.offset + i - state.next \in Bytes
                     THEN state.bytes[block.offset + i - state.next]
                     ELSE state.bytes[i]],
        next |-> state.next + block.size]
  ELSE state

Defragmented(b) ==
  LET blocks == freeList[b].blocks
      copied[n \in 0 .. Len(blocks)] ==
        IF n = 0 THEN [bytes |-> memory[b], next |-> 0]
        ELSE CopyDown(copied[n - 1], blocks[n])
  IN  copied[Len(blocks)]

ResetFreeList(b) == FL!Allocate(FL!NewFreeList(freeList[b].fullSize), 0, Defragmented(b).next)

(* The buffer AllocateVertexBuffer and AllocateIndexBuffer both bind to    *)
(* the defragmentation.                                                    *)
DefragmentTarget == "indices"

(* Space, but not in one piece: defragment, then allocate at the end, this *)
(* time without a word to the free list.                                   *)
AllocateDefragmented(b, size) ==
  /\ ~HasFastSpace(b, size) /\ HasSpace(b, size)
  /\ FreeOffset(b, size) = FL!NotFound
  /\ DefragmentTarget \in Buffers
  /\ LET d == DefragmentTarget
         fast == IF b = d THEN freeSpace[b] ELSE freeFastSpace[b]
         offset == FL!Minus(capacity[b], fast)
         moved == Defragmented(d).bytes
     IN  /\ freeList' = [freeList EXCEPT ![d] = ResetFreeList(d)]
         /\ freeFastSpace' = [[freeFastSpace EXCEPT ![d] = freeSpace[d]]
                                EXCEPT ![b] = FL!Minus(fast, size)]
         /\ memory' = [[memory EXCEPT ![d] = moved] EXCEPT ![b] =
              Written(IF b = d THEN moved ELSE memory[b], count + 1, offset, size)]
         /\ Grant(b, offset, size)
         /\ freeSpace' = [freeSpace EXCEPT ![b] = FL!Minus(@, size)]
         /\ defragmented' = defragmented \cup {b, d}
         /\ failed' = ~FL!CanAllocate(FL!NewFreeList(freeList[d].fullSize), 0,
                                      Defragmented(d).next)
  /\ UNCHANGED capacity

-----------------------------------------------------------------------------
(* GrowMeshBuffer: a larger buffer with a copy of the old one's bytes.     *)
(* Allocate is then entered again with the same size, and the space gained *)
(* always suffices for its first branch.                                   *)
Extra(size) == size + GrowFactor

AllocateGrown(b, size) ==
  /\ ~HasFastSpace(b, size) /\ ~HasSpace(b, size)
  /\ capacity[b] + Extra(size) <= MaxCapacity
  /\ TakeFastSpace(b, size, Extra(size))

Allocate(b, size) ==
  /\ ~failed
  /\ count < MaxAllocations
  /\ \/ AllocateFast(b, size)
     \/ AllocateFromList(b, size)
     \/ AllocateDefragmented(b, size)
     \/ AllocateGrown(b, size)

(* ~Mesh: DeAllocate. *)
DeAllocate(b, a) ==
  /\ ~failed
  /\ failed' = ~FL!CanDeAllocate(freeList[b], OffsetOf(b, a), a.size)
  /\ freeSpace' = [freeSpace EXCEPT ![b] = (@ + a.size) % Word]
  /\ freeList' = [freeList EXCEPT ![b] = FL!DeAllocate(@, OffsetOf(b, a), a.size)]
  /\ UnusedHandles' = [UnusedHandles EXCEPT ![b] = Append(@, a.handle)]
  /\ allocations' = [allocations EXCEPT ![b] = @ \ {a}]
  /\ UNCHANGED <<freeFastSpace, capacity, HandleOffsets, memory, count, defragmented>>

Next ==
  \/ \E b \in Buffers, size \in Sizes : Allocate(b, size)
  \/ \E b \in Buffers : \E a \in allocations[b] : DeAllocate(b, a)

Spec == Init /\ [][Next]_vars

-----------------------------------------------------------------------------
(* Properties.  "Sound" states are those before the first failed assertion *)
(* and before the buffer took part in a defragmentation.                   *)

Sound(b) == ~failed /\ b \notin defragmented

RangeOf(b, a) == Interval(OffsetOf(b, a), a.size)

(* The bytes of every mesh, numbered from 1. *)
HeldBytes(b) == UNION {{a} \X (1 .. a.size) : a \in allocations[b]}

(* A mesh finds its own data at the offset its handle maps to, whatever    *)
(* was allocated, freed and grown since (Allocate, GetVBOffset).           *)
DataIntact ==
  \A b \in Buffers : Sound(b) =>
    \A a \in allocations[b] : \A i \in RangeOf(b, a) :
      i < capacity[b] /\ memory[b][i] = a.id

(* The free list never offers a byte of a mesh's range, or a byte past the *)
(* end, and lists no byte twice.                                           *)
FreeListSound ==
  \A b \in Buffers : Sound(b) =>
    LET blocks == freeList[b].blocks
    IN  /\ \A i \in 1 .. Len(blocks) - 1 : FL!BlockEnd(blocks[i]) <= blocks[i + 1].offset
        /\ \A i \in FL!FreeBytes(freeList[b]) : i < capacity[b]
        /\ \A a \in allocations[b] : RangeOf(b, a) \cap FL!FreeBytes(freeList[b]) = {}

(* freeSpace is exactly what meshes do not hold, also through growth and   *)
(* although freeFastSpace runs ahead of it: Allocate grows the buffer when *)
(* and only when it must.  (Not after a defragmentation: the list then     *)
(* offers bytes meshes hold, and freeSpace can wrap below 0.)              *)
SpaceAccounted ==
  \A b \in Buffers : Sound(b) =>
    freeSpace[b] = capacity[b] - Cardinality(HeldBytes(b))

(* No two meshes share a handle, and none holds one that will be given to  *)
(* another (AssignHandle, UnusedHandles).                                  *)
HandlesUnique ==
  \A b \in Buffers : \A a, c \in allocations[b] :
    /\ a.handle = c.handle => a = c
    /\ \A i \in DOMAIN UnusedHandles[b] : UnusedHandles[b][i] # a.handle

(* FreeList.h:30, "Adds a new free block at @offset that is @size bytes":  *)
(* what meshes gave back can be allocated again.                           *)
FreedSpaceListed ==
  \A b \in Buffers : Sound(b) => Cardinality(FL!FreeBytes(freeList[b])) = freeSpace[b]

(* RendererContext.h:38, "handles map buffer handles to thier actual       *)
(* offsets, in case defragmentation moves them around": a mesh finds its   *)
(* data after a defragmentation as well.                                   *)
DataIntactAfterDefragmentation ==
  ~failed => \A b \in Buffers : \A a \in allocations[b] : \A i \in RangeOf(b, a) :
    i \in Bytes /\ memory[b][i] = a.id
=============================================================================
