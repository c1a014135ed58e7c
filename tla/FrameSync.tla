------------------------------ MODULE FrameSync ------------------------------
(***************************************************************************)
(* The frame loop of RendererBase: a CPU thread that records command       *)
(* lists, and a direct queue that runs them later.  Three things keep the  *)
(* two apart: one command allocator per frame in flight, reset by          *)
(* EndFrame after a wait on mainFence; one staging buffer and list for     *)
(* uploads, reused by FlushStagingBuffer after a wait on stagingFence; and *)
(* the waits that precede the destruction of something a list may use (the *)
(* old vertex buffer in GrowMeshBuffer, the swap chain in Resize, a        *)
(* scene's textures after ~RenderGraph, everything in ~Application).       *)
(*                                                                         *)
(* The client (layers, scenes, assets) may make the engine's calls in any  *)
(* order.  A call that blocks is cut at every wait: "calls" holds the      *)
(* steps the CPU has still to run before it is back in client code.        *)
(*                                                                         *)
(* The queue is Vulkan's: submitted lists may finish in any order, a fence *)
(* signal completes only after everything submitted before it.  This is    *)
(* the configuration without a separate compute queue.                     *)
(***************************************************************************)
EXTENDS Integers, Sequences, FiniteSets

CONSTANTS
  NumFrames,          \* frames in flight (3 in the code)
  StagingBufferSize,  \* bytes of the staging buffer
  Updates,            \* resource updates clients push: [texture, size, align];
                      \* a buffer's are not aligned (PushBufferUpdate)
  MeshData,           \* the updates that can be the initial data of a mesh
  MaxGrowths,         \* bound: growths of the vertex buffer in a behaviour
  MaxFrames,          \* bound: frames ended in a behaviour
  MaxSubmits          \* bound: queue operations in a behaviour

Update == [texture: BOOLEAN, size: Nat, align: Nat \ {0}]

ASSUME NumFramesAssumption == NumFrames \in Nat \ {0}
ASSUME StagingAssumption == StagingBufferSize \in Nat
ASSUME UpdatesAssumption ==
  /\ Updates \subseteq {u \in Update : u.texture \/ u.align = 1}
  /\ MeshData \subseteq {u \in Updates : ~u.texture /\ u.size <= StagingBufferSize}
ASSUME BoundsAssumption == {MaxGrowths, MaxFrames, MaxSubmits} \subseteq Nat

VARIABLES
  currentFrameIndex, currentFenceVal, fence_vals,
  staginBufferPortionUsed, outstandingResourceUpdate, stagingFenceVal,
  stagedCopies,    \* ranges of the staging buffer the staging list copies from
  stagedBuffers,   \* vertex buffers the staging list refers to
  vertexBuffer,    \* generation of meshVertices.buffer
  heldBuffers,     \* generations kept alive by Ptr locals of a running call
  maxFence,        \* RenderGraph::maxFence of the scene's graph
  sceneAlive,
  running,         \* ~Application has not returned
  request,         \* the update a Push*Update call in progress has to write
  calls,           \* steps left of the call in progress
  submits, execs, signals, fence  \* the direct queue and the fences

frameVars == <<currentFrameIndex, currentFenceVal, fence_vals>>
stagingVars == <<staginBufferPortionUsed, outstandingResourceUpdate, stagingFenceVal,
                 stagedCopies, stagedBuffers>>
bufferVars == <<vertexBuffer, heldBuffers>>
sceneVars == <<maxFence, sceneAlive>>
queueVars == <<submits, execs, signals, fence>>
vars == <<frameVars, stagingVars, bufferVars, sceneVars, running, request, calls, queueVars>>

Slots == 0 .. NumFrames - 1
StagingAllocator == NumFrames
Fences == {"main", "staging", "graph", "flush"}
Lists == {"main", "staging", "graph"}
Steps == {"flush", "stagingWait", "copy", "initialData", "growWait", "allocated",
          "submitGraph", "graphWait", "frameWait", "resizeWait", "exitWait"}
Range == [from: Nat, to: Nat]

TypeOK ==
  /\ currentFrameIndex \in Slots
  /\ currentFenceVal \in Nat
  /\ fence_vals \in [Slots -> Nat]
  /\ staginBufferPortionUsed \in Nat
  /\ outstandingResourceUpdate \in BOOLEAN
  /\ stagingFenceVal \in Nat
  /\ stagedCopies \subseteq Range
  /\ stagedBuffers \subseteq Nat
  /\ vertexBuffer \in Nat
  /\ heldBuffers \subseteq Nat
  /\ maxFence \in Nat
  /\ sceneAlive \in BOOLEAN
  /\ running \in BOOLEAN
  /\ request \in Update
  /\ calls \in Seq(Steps)
  /\ submits \in Nat
  /\ execs \subseteq [at: Nat, list: Lists, allocator: 0 .. NumFrames, frame: Nat,
                      copies: SUBSET Range, buffers: SUBSET Nat]
  /\ signals \subseteq [at: Nat, fence: Fences, val: Nat]
  /\ fence \in [Fences -> Nat]

(***************************************************************************)
(* RendererBase::Init: everything is zero (make_unique value-initialises), *)
(* mainCommandList and stagingCommandList are recording.                   *)
(***************************************************************************)
Init ==
  /\ currentFrameIndex = 0
  /\ currentFenceVal = 0
  /\ fence_vals = [i \in Slots |-> 0]
  /\ staginBufferPortionUsed = 0
  /\ outstandingResourceUpdate = FALSE
  /\ stagingFenceVal = 0
  /\ stagedCopies = {}
  /\ stagedBuffers = {}
  /\ vertexBuffer = 0
  /\ heldBuffers = {}
  /\ maxFence = 0
  /\ sceneAlive = TRUE
  /\ running = TRUE
  /\ request \in Updates
  /\ calls = <<>>
  /\ submits = 0
  /\ execs = {}
  /\ signals = {}
  /\ fence = [f \in Fences |-> 0]

-----------------------------------------------------------------------------
(* Submission.  "frame" is the value of mainFence that will cover a list.  *)

Submission(list, allocator, copies, buffers) ==
  [at |-> submits, list |-> list, allocator |-> allocator, frame |-> currentFenceVal + 1,
   copies |-> copies, buffers |-> buffers]

(* ExecuteCommandLists followed by SignalFence. *)
ExecuteAndSignal(exec, f, val) ==
  /\ execs' = execs \cup {exec}
  /\ signals' = signals \cup {[at |-> submits + 1, fence |-> f, val |-> val]}
  /\ submits' = submits + 2
  /\ UNCHANGED fence

InClient == running /\ calls = <<>>
AtStep(s) == running /\ calls # <<>> /\ Head(calls) = s
Return == calls' = Tail(calls)
Reached(f, val) == fence[f] >= val

-----------------------------------------------------------------------------
(* Uploads. *)

(* Mistake: aligns downwards. *)
AlignDown(n, align) == (n \div align) * align

AlignUp(n, align) == ((n + align - 1) \div align) * align

(* The check both Push*Update make before they write.  The texture one     *)
(* counts the aligned offset on top of what is already in use.             *)
HasRoom(u) ==
  StagingBufferSize - staginBufferPortionUsed >=
    IF u.texture THEN u.size + AlignUp(staginBufferPortionUsed, u.align) ELSE u.size

PushSteps(u) == IF HasRoom(u) THEN <<"copy">> ELSE <<"flush", "copy">>

(* PushBufferUpdate (align 1) and PushTextureUpdate (align of a texel). *)
PushUpdate(u) ==
  /\ InClient
  /\ submits < MaxSubmits
  /\ request' = u
  /\ calls' = PushSteps(u)
  /\ UNCHANGED <<frameVars, stagingVars, bufferVars, sceneVars, running, queueVars>>

(* The rest of a push: memcpy into the staging buffer and record the copy. *)
(* An update larger than the whole buffer is dropped.                      *)
WriteStaging ==
  /\ AtStep("copy")
  /\ LET offset == AlignUp(staginBufferPortionUsed, request.align)
     IN  IF request.size > StagingBufferSize
         THEN UNCHANGED stagingVars
         ELSE /\ stagedCopies' = stagedCopies \cup
                   {[from |-> offset, to |-> offset + request.size]}
              /\ stagedBuffers' = stagedBuffers \cup (heldBuffers \cap {vertexBuffer})
              /\ staginBufferPortionUsed' = offset + request.size
              /\ outstandingResourceUpdate' = TRUE
              /\ UNCHANGED stagingFenceVal
  /\ Return
  /\ UNCHANGED <<frameVars, bufferVars, sceneVars, running, request, queueVars>>

(* FlushStagingBuffer: nothing to do unless an update is outstanding. *)
FlushStagingBuffer ==
  /\ AtStep("flush")
  /\ IF outstandingResourceUpdate
     THEN /\ stagingFenceVal' = stagingFenceVal + 1
          /\ ExecuteAndSignal(
               Submission("staging", StagingAllocator, stagedCopies, stagedBuffers),
               "staging", stagingFenceVal + 1)
          /\ calls' = <<"stagingWait">> \o Tail(calls)
     ELSE /\ Return
          /\ UNCHANGED <<stagingFenceVal, queueVars>>
  /\ UNCHANGED <<frameVars, staginBufferPortionUsed, outstandingResourceUpdate, stagedCopies,
                 stagedBuffers, bufferVars, sceneVars, running, request>>

(* Mistake: waits for the previous upload only. *)
StagingWaitLate ==
  /\ AtStep("stagingWait")
  /\ Reached("staging", stagingFenceVal - 1)
  /\ staginBufferPortionUsed' = 0
  /\ outstandingResourceUpdate' = FALSE
  /\ stagedCopies' = {}
  /\ stagedBuffers' = {}
  /\ Return
  /\ UNCHANGED <<frameVars, stagingFenceVal, bufferVars, sceneVars, running, request, queueVars>>

(* ... its wait, and the reset of the staging allocator, list and cursor. *)
StagingWait ==
  /\ AtStep("stagingWait")
  /\ Reached("staging", stagingFenceVal)
  /\ staginBufferPortionUsed' = 0
  /\ outstandingResourceUpdate' = FALSE
  /\ stagedCopies' = {}
  /\ stagedBuffers' = {}
  /\ Return
  /\ UNCHANGED <<frameVars, stagingFenceVal, bufferVars, sceneVars, running, request, queueVars>>

-----------------------------------------------------------------------------
(* Vertex allocation (MonolithicBufferAllocator::Allocate) with and        *)
(* without growth of the buffer.                                           *)

AllocateVertexBuffer(u) ==
  /\ InClient
  /\ submits < MaxSubmits
  /\ request' = u
  /\ heldBuffers' = {vertexBuffer}
  /\ calls' = <<"initialData", "allocated">>
  /\ UNCHANGED <<frameVars, stagingVars, vertexBuffer, sceneVars, running, queueVars>>

(* GrowMeshBuffer records the copy of the old buffer into the new one      *)
(* (which does not count as an outstanding update), flushes, waits for the *)
(* frames submitted so far; then Allocate starts over.                     *)
GrowVertexBuffer(u) ==
  /\ InClient
  /\ submits < MaxSubmits
  /\ vertexBuffer < MaxGrowths
  /\ request' = u
  /\ heldBuffers' = {vertexBuffer, vertexBuffer + 1}
  /\ stagedBuffers' = stagedBuffers \cup {vertexBuffer, vertexBuffer + 1}
  /\ calls' = <<"flush", "growWait", "initialData", "allocated">>
  /\ UNCHANGED <<frameVars, staginBufferPortionUsed, outstandingResourceUpdate,
                 stagingFenceVal, stagedCopies, vertexBuffer, sceneVars, running, queueVars>>

GrowWait ==
  /\ AtStep("growWait")
  /\ Reached("main", currentFenceVal)
  /\ vertexBuffer' = vertexBuffer + 1
  /\ Return
  /\ UNCHANGED <<frameVars, stagingVars, heldBuffers, sceneVars, running, request, queueVars>>

(* Mistake: leaves the initial data in the staging list. *)
UploadUnflushed ==
  /\ AtStep("initialData")
  /\ calls' = PushSteps(request) \o Tail(calls)
  /\ UNCHANGED <<frameVars, stagingVars, bufferVars, sceneVars, running, request, queueVars>>

(* PushBufferUpdate of the initial data, then FlushStagingBuffer. *)
UploadInitialData ==
  /\ AtStep("initialData")
  /\ calls' = PushSteps(request) \o <<"flush">> \o Tail(calls)
  /\ UNCHANGED <<frameVars, stagingVars, bufferVars, sceneVars, running, request, queueVars>>

(* Allocate returns: its locals drop the buffers they held. *)
Allocated ==
  /\ AtStep("allocated")
  /\ heldBuffers' = {}
  /\ Return
  /\ UNCHANGED <<frameVars, stagingVars, vertexBuffer, sceneVars, running, request, queueVars>>

-----------------------------------------------------------------------------
(* A scene's render graph and its destruction. *)

(* Mistake: submits the graph and leaves the uploads for later. *)
SubmitBeforeUploads ==
  /\ InClient
  /\ sceneAlive
  /\ submits < MaxSubmits
  /\ calls' = <<"submitGraph">>
  /\ UNCHANGED <<frameVars, stagingVars, bufferVars, sceneVars, running, request, queueVars>>

SubmitToQueue ==
  /\ InClient
  /\ sceneAlive
  /\ submits < MaxSubmits
  /\ calls' = <<"flush", "submitGraph">>
  /\ UNCHANGED <<frameVars, stagingVars, bufferVars, sceneVars, running, request, queueVars>>

(* Mistake: signals the value before it is incremented. *)
SubmitGraphPostIncrement ==
  /\ AtStep("submitGraph")
  /\ maxFence' = maxFence + 1
  /\ ExecuteAndSignal(Submission("graph", currentFrameIndex, {}, {vertexBuffer}),
                      "graph", maxFence)
  /\ Return
  /\ UNCHANGED <<frameVars, stagingVars, bufferVars, sceneAlive, running, request>>

SubmitGraph ==
  /\ AtStep("submitGraph")
  /\ maxFence' = maxFence + 1
  /\ ExecuteAndSignal(Submission("graph", currentFrameIndex, {}, {vertexBuffer}),
                      "graph", maxFence + 1)
  /\ Return
  /\ UNCHANGED <<frameVars, stagingVars, bufferVars, sceneAlive, running, request>>

(* ~Scene: the graph, its last member, is destroyed first and waits. *)
DestroyScene ==
  /\ InClient
  /\ sceneAlive
  /\ calls' = <<"graphWait">>
  /\ UNCHANGED <<frameVars, stagingVars, bufferVars, sceneVars, running, request, queueVars>>

(* Mistake: takes maxFence for the next value to be signalled. *)
GraphWaitEarly ==
  /\ AtStep("graphWait")
  /\ Reached("graph", maxFence - 1)
  /\ sceneAlive' = FALSE
  /\ Return
  /\ UNCHANGED <<frameVars, stagingVars, bufferVars, maxFence, running, request, queueVars>>

GraphWait ==
  /\ AtStep("graphWait")
  /\ Reached("graph", maxFence)
  /\ sceneAlive' = FALSE
  /\ Return
  /\ UNCHANGED <<frameVars, stagingVars, bufferVars, maxFence, running, request, queueVars>>

-----------------------------------------------------------------------------
(* End of a frame, swap chain, end of the application. *)

(* Mistake: forgets to store the value the slot's lists will signal. *)
EndFrameForgets ==
  /\ InClient
  /\ currentFenceVal < MaxFrames
  /\ ExecuteAndSignal(Submission("main", currentFrameIndex, {}, {}), "main", currentFenceVal + 1)
  /\ currentFenceVal' = currentFenceVal + 1
  /\ currentFrameIndex' = (currentFrameIndex + 1) % NumFrames
  /\ calls' = <<"frameWait">>
  /\ UNCHANGED <<fence_vals, stagingVars, bufferVars, sceneVars, running, request>>

(* Mistake: lets the index run on. *)
EndFrameNoWrap ==
  /\ InClient
  /\ currentFenceVal < MaxFrames
  /\ ExecuteAndSignal(Submission("main", currentFrameIndex, {}, {}), "main", currentFenceVal + 1)
  /\ currentFenceVal' = currentFenceVal + 1
  /\ fence_vals' = [fence_vals EXCEPT ![currentFrameIndex] = currentFenceVal + 1]
  /\ currentFrameIndex' = currentFrameIndex + 1
  /\ calls' = <<"frameWait">>
  /\ UNCHANGED <<stagingVars, bufferVars, sceneVars, running, request>>

EndFrame ==
  /\ InClient
  /\ currentFenceVal < MaxFrames
  /\ ExecuteAndSignal(Submission("main", currentFrameIndex, {}, {}), "main", currentFenceVal + 1)
  /\ currentFenceVal' = currentFenceVal + 1
  /\ fence_vals' = [fence_vals EXCEPT ![currentFrameIndex] = currentFenceVal + 1]
  /\ currentFrameIndex' = (currentFrameIndex + 1) % NumFrames
  /\ calls' = <<"frameWait">>
  /\ UNCHANGED <<stagingVars, bufferVars, sceneVars, running, request>>

(* The wait for the frame that used these allocators last; on return they  *)
(* are reset and record again.                                             *)
FrameWait ==
  /\ AtStep("frameWait")
  /\ Reached("main", fence_vals[currentFrameIndex])
  /\ Return
  /\ UNCHANGED <<frameVars, stagingVars, bufferVars, sceneVars, running, request, queueVars>>

(* SwapChain::Resize, from SwapChain::Update when Present says so. *)
Resize ==
  /\ InClient
  /\ calls' = <<"resizeWait">>
  /\ UNCHANGED <<frameVars, stagingVars, bufferVars, sceneVars, running, request, queueVars>>

(* Mistake: waits for the slot about to be recorded, as EndFrame does. *)
ResizeWaitOldest ==
  /\ AtStep("resizeWait")
  /\ Reached("main", fence_vals[currentFrameIndex])
  /\ Return
  /\ UNCHANGED <<frameVars, stagingVars, bufferVars, sceneVars, running, request, queueVars>>

(* The value EndFrame stored last is that of the previous slot. *)
ResizeWait ==
  /\ AtStep("resizeWait")
  /\ Reached("main", fence_vals[(currentFrameIndex + NumFrames - 1) % NumFrames])
  /\ Return
  /\ UNCHANGED <<frameVars, stagingVars, bufferVars, sceneVars, running, request, queueVars>>

(* ~Application: FlushGPU signals a fence of its own and waits for it. *)
FlushGPU ==
  /\ InClient
  /\ signals' = signals \cup {[at |-> submits, fence |-> "flush", val |-> 1]}
  /\ submits' = submits + 1
  /\ calls' = <<"exitWait">>
  /\ UNCHANGED <<frameVars, stagingVars, bufferVars, sceneVars, running, request, execs, fence>>

(* Mistake: waits for the frames instead of for the queue. *)
ExitAfterFrames ==
  /\ AtStep("exitWait")
  /\ Reached("main", currentFenceVal)
  /\ running' = FALSE
  /\ Return
  /\ UNCHANGED <<frameVars, stagingVars, bufferVars, sceneVars, request, queueVars>>

ExitWait ==
  /\ AtStep("exitWait")
  /\ Reached("flush", 1)
  /\ running' = FALSE
  /\ Return
  /\ UNCHANGED <<frameVars, stagingVars, bufferVars, sceneVars, request, queueVars>>

-----------------------------------------------------------------------------
(* The direct queue. *)

FinishList ==
  /\ \E e \in execs : execs' = execs \ {e}
  /\ UNCHANGED <<frameVars, stagingVars, bufferVars, sceneVars, running, request, calls,
                 submits, signals, fence>>

SignalFence ==
  /\ \E s \in signals :
       /\ \A x \in execs \cup signals : x.at >= s.at
       /\ signals' = signals \ {s}
       /\ fence' = [fence EXCEPT ![s.fence] = s.val]
  /\ UNCHANGED <<frameVars, stagingVars, bufferVars, sceneVars, running, request, calls,
                 submits, execs>>

Cpu ==
  \/ WriteStaging
  \/ FlushStagingBuffer
  \/ StagingWait
  \/ GrowWait
  \/ UploadInitialData
  \/ Allocated
  \/ SubmitGraph
  \/ GraphWait
  \/ FrameWait
  \/ ResizeWait
  \/ ExitWait

Gpu == FinishList \/ SignalFence

Client ==
  \/ \E u \in Updates : PushUpdate(u)
  \/ \E u \in MeshData : AllocateVertexBuffer(u)
  \/ \E u \in MeshData : GrowVertexBuffer(u)
  \/ SubmitToQueue
  \/ DestroyScene
  \/ EndFrame
  \/ Resize
  \/ FlushGPU

Next == Client \/ Cpu \/ Gpu

(* The OS runs the thread inside a call, the device makes progress; the    *)
(* client is under no obligation.                                          *)
Spec == Init /\ [][Next]_vars /\ WF_vars(Cpu) /\ WF_vars(Gpu)
-----------------------------------------------------------------------------
(* Properties. *)

Pending(list) == {e \in execs : e.list = list}

(* commandAllocators[currentFrameIndex] is reset and recorded into again    *)
(* only when no list of an earlier frame recorded from it is still pending  *)
(* (EndFrame, "Wait For Past Frame To Complete").                           *)
AllocatorIdle ==
  calls # <<"frameWait">> =>
    \A e \in execs : e.allocator = currentFrameIndex => e.frame = currentFenceVal + 1

(* Nobody writes the staging buffer, or resets the staging list, while the  *)
(* queue copies from it: outside FlushStagingBuffer's wait no staging list  *)
(* is pending.                                                              *)
StagingIdle ==
  (calls = <<>> \/ Head(calls) # "stagingWait") => Pending("staging") = {}

(* The updates the staging list will copy lie in the buffer, end before the *)
(* cursor, and never share a byte (PushBufferUpdate, PushTextureUpdate).    *)
StagedDataIntact ==
  /\ staginBufferPortionUsed <= StagingBufferSize
  /\ \A c \in stagedCopies : c.to <= staginBufferPortionUsed
  /\ \A c, d \in stagedCopies : c = d \/ c.to <= d.from \/ d.to <= c.from

(* No list that is pending, nor the staging list being recorded, refers to  *)
(* a vertex buffer that growth has released (GrowMeshBuffer: "before        *)
(* destroying old buffer, wait for old frames to render").                  *)
VertexBufferAlive ==
  \A b \in stagedBuffers \cup UNION {e.buffers : e \in execs} :
    b = vertexBuffer \/ b \in heldBuffers

(* When ~RenderGraph has returned and the scene's textures go, no list of   *)
(* its graph is pending.                                                    *)
SceneResourcesIdle == ~sceneAlive => Pending("graph") = {}

(* After ~Application's flush the device is idle.                           *)
IdleAtExit == ~running => execs = {}

(* A graph is submitted only after every update pushed before it has        *)
(* reached the GPU (SubmitToQueue starts with FlushStagingBuffer).          *)
UploadsBeforeGraph ==
  [][\A e \in execs' \ execs : e.list = "graph" =>
        stagedCopies = {} /\ Pending("staging") = {}]_vars

(* The swap chain's images are replaced only when no main list, which holds *)
(* barriers on them, is pending.                                            *)
ResizeWhenIdle == [][ResizeWait => Pending("main") = {}]_vars

(* Every engine call returns: no wait is for a value nothing will signal.   *)
CallsReturn == (calls # <<>>) ~> (calls = <<>>)
=============================================================================
