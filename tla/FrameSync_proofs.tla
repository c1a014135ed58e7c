--------------------------- MODULE FrameSync_proofs ---------------------------
(***************************************************************************)
(* Proofs about FrameSync, for any number of frames in flight, any staging *)
(* buffer and any updates: the state stays well typed, EndFrame never      *)
(* resets the allocator of a list that is still pending; and then the      *)
(* safety of uploads, buffer growth, scenes, the swap chain and exit.  The *)
(* second invariant says what a call in progress has still to run, and     *)
(* which lists are finished when a fence reaches the last value promised   *)
(* for it.                                                                 *)
(***************************************************************************)
EXTENDS FrameSync, TLAPS

Seqs == INSTANCE SequenceTheorems

-----------------------------------------------------------------------------
(* Sequences of steps. *)

(* What is left after a step of a call is a sequence of steps, and so is a *)
(* call with steps put in front of it (calls, FlushStagingBuffer).         *)
LEMMA StepsLeft ==
  ASSUME NEW s \in Seq(Steps), s # <<>>
  PROVE  Tail(s) \in Seq(Steps)
  OBVIOUS

LEMMA StepsBefore ==
  ASSUME NEW s \in Seq(Steps), NEW t \in Seq(Steps)
  PROVE  s \o t \in Seq(Steps)
  OBVIOUS

(* The aligned offset of an upload is a natural number (PushTextureUpdate). *)
LEMMA AlignUpType ==
  ASSUME NEW n \in Nat, NEW align \in Nat \ {0}
  PROVE  AlignUp(n, align) \in Nat
  BY DEF AlignUp

LEMMA OneStep ==
  ASSUME NEW a \in Steps
  PROVE  <<a>> \in Seq(Steps)
  OBVIOUS

LEMMA TwoSteps ==
  ASSUME NEW a \in Steps, NEW b \in Steps
  PROVE  <<a, b>> \in Seq(Steps)
  OBVIOUS

LEMMA PushStepsType ==
  ASSUME NEW u \in Update
  PROVE  PushSteps(u) \in Seq(Steps)
  <1>1. {"copy", "flush"} \subseteq Steps
    BY DEF Steps
  <1>2. <<"copy">> \in Seq(Steps) /\ <<"flush", "copy">> \in Seq(Steps)
    BY <1>1, OneStep, TwoSteps
  <1> QED  BY <1>2, Zenon DEF PushSteps

-----------------------------------------------------------------------------
(* Type correctness. *)

(* One queue operation and the signal after it keep the queue well typed   *)
(* (ExecuteCommandLists, SignalFence).                                     *)
ExecType == [at: Nat, list: Lists, allocator: 0 .. NumFrames, frame: Nat,
             copies: SUBSET Range, buffers: SUBSET Nat]
SignalType == [at: Nat, fence: Fences, val: Nat]

LEMMA SubmissionType ==
  ASSUME TypeOK, NEW list \in Lists, NEW allocator \in 0 .. NumFrames,
         NEW copies \in SUBSET Range, NEW buffers \in SUBSET Nat
  PROVE  Submission(list, allocator, copies, buffers) \in ExecType
  BY DEF TypeOK, Submission, ExecType

LEMMA ExecuteAndSignalType ==
  ASSUME TypeOK, NEW exec \in ExecType, NEW f \in Fences, NEW val \in Nat,
         ExecuteAndSignal(exec, f, val)
  PROVE  /\ submits' \in Nat
         /\ execs' \subseteq ExecType
         /\ signals' \subseteq SignalType
         /\ fence' \in [Fences -> Nat]
  <1>1. submits \in Nat /\ execs \subseteq ExecType /\ signals \subseteq SignalType
          /\ fence \in [Fences -> Nat]
    BY DEF TypeOK, ExecType, SignalType
  <1>2. [at |-> submits + 1, fence |-> f, val |-> val] \in SignalType
    BY <1>1 DEF SignalType
  <1> QED  BY <1>1, <1>2 DEF ExecuteAndSignal

(* RendererBase::Init leaves a well typed state. *)
LEMMA TypeInit == Init => TypeOK
  <1>1. ASSUME Init PROVE request \in Update
    BY <1>1, UpdatesAssumption DEF Init
  <1>2. <<>> \in Seq(Steps)
    OBVIOUS
  <1>3. ASSUME Init
        PROVE  /\ currentFrameIndex \in Slots /\ currentFenceVal \in Nat
               /\ fence_vals \in [Slots -> Nat] /\ fence \in [Fences -> Nat]
    BY <1>3, NumFramesAssumption DEF Init, Slots
  <1>4. ASSUME Init
        PROVE  /\ staginBufferPortionUsed \in Nat /\ stagingFenceVal \in Nat
               /\ stagedCopies \subseteq Range /\ stagedBuffers \subseteq Nat
               /\ vertexBuffer \in Nat /\ heldBuffers \subseteq Nat
               /\ maxFence \in Nat /\ submits \in Nat
    BY <1>4 DEF Init
  <1>5. ASSUME Init
        PROVE  /\ outstandingResourceUpdate \in BOOLEAN /\ sceneAlive \in BOOLEAN
               /\ running \in BOOLEAN
    BY <1>5, Zenon DEF Init
  <1>6. ASSUME Init
        PROVE  execs = {} /\ signals = {} /\ calls \in Seq(Steps)
    BY <1>2, <1>6, Zenon DEF Init
  <1> QED  BY <1>1, <1>3, <1>4, <1>5, <1>6 DEF TypeOK

(* Every step of the CPU, of its client and of the queue keeps it so. *)
LEMMA TypeStep == TypeOK /\ [Next]_vars => TypeOK'
  <1> SUFFICES ASSUME TypeOK, [Next]_vars PROVE TypeOK'
    OBVIOUS
  <1>0. Slots \subseteq 0 .. NumFrames /\ StagingAllocator \in 0 .. NumFrames
    BY NumFramesAssumption DEF Slots, StagingAllocator
  <1>1. ASSUME NEW u \in Updates, PushUpdate(u) PROVE TypeOK'
    <2>1. u \in Update
      BY UpdatesAssumption
    <2>2. calls' \in Seq(Steps) /\ request' \in Update
      BY <1>1, <2>1, PushStepsType DEF PushUpdate
    <2> QED  BY <1>1, <2>2 DEF PushUpdate, TypeOK, frameVars, stagingVars, bufferVars, sceneVars, queueVars
  <1>2. ASSUME NEW u \in MeshData, AllocateVertexBuffer(u) PROVE TypeOK'
    <2>1. u \in Update
      BY UpdatesAssumption
    <2>2. {"initialData", "allocated"} \subseteq Steps
      BY DEF Steps
    <2>3. calls' \in Seq(Steps) /\ request' \in Update
      BY <1>2, <2>1, <2>2, TwoSteps DEF AllocateVertexBuffer
    <2>4. heldBuffers' \subseteq Nat
      BY <1>2 DEF AllocateVertexBuffer, TypeOK
    <2> QED  BY <1>2, <2>3, <2>4 DEF AllocateVertexBuffer, TypeOK, frameVars, stagingVars, sceneVars, queueVars
  <1>3. ASSUME NEW u \in MeshData, GrowVertexBuffer(u) PROVE TypeOK'
    <2>1. u \in Update
      BY UpdatesAssumption
    <2>2. {"flush", "growWait", "initialData", "allocated"} \subseteq Steps
      BY DEF Steps
    <2>3. calls' = <<"flush", "growWait">> \o <<"initialData", "allocated">>
      BY <1>3 DEF GrowVertexBuffer
    <2>4. calls' \in Seq(Steps) /\ request' \in Update
      BY <1>3, <2>1, <2>2, <2>3, TwoSteps, StepsBefore DEF GrowVertexBuffer
    <2>5. heldBuffers' \subseteq Nat /\ stagedBuffers' \subseteq Nat
      BY <1>3 DEF GrowVertexBuffer, TypeOK
    <2> QED  BY <1>3, <2>4, <2>5 DEF GrowVertexBuffer, TypeOK, frameVars, sceneVars, queueVars
  <1>4. ASSUME SubmitToQueue PROVE TypeOK'
    <2>1. {"flush", "submitGraph"} \subseteq Steps
      BY DEF Steps
    <2>2. calls' \in Seq(Steps)
      BY <1>4, <2>1, TwoSteps DEF SubmitToQueue
    <2> QED  BY <1>4, <2>2 DEF SubmitToQueue, TypeOK, frameVars, stagingVars, bufferVars, sceneVars, queueVars
  <1>5. ASSUME DestroyScene PROVE TypeOK'
    <2>1. calls' \in Seq(Steps)
      BY <1>5, OneStep DEF DestroyScene, Steps
    <2> QED  BY <1>5, <2>1 DEF DestroyScene, TypeOK, frameVars, stagingVars, bufferVars, sceneVars, queueVars
  <1>6. ASSUME EndFrame PROVE TypeOK'
    <2>1. calls' \in Seq(Steps)
      BY <1>6, OneStep DEF EndFrame, Steps
    <2>2. /\ currentFrameIndex \in 0 .. NumFrames
          /\ "main" \in Lists /\ "main" \in Fences
          /\ currentFenceVal + 1 \in Nat
      BY <1>0 DEF TypeOK, Lists, Fences
    <2>3. Submission("main", currentFrameIndex, {}, {}) \in ExecType
      BY <2>2, SubmissionType
    <2>4. /\ submits' \in Nat /\ execs' \subseteq ExecType
          /\ signals' \subseteq SignalType /\ fence' \in [Fences -> Nat]
      BY <1>6, <2>2, <2>3, ExecuteAndSignalType DEF EndFrame
    <2>5. /\ currentFrameIndex' \in Slots /\ currentFenceVal' \in Nat
          /\ fence_vals' \in [Slots -> Nat]
      BY <1>6, NumFramesAssumption DEF EndFrame, TypeOK, Slots
    <2> QED  BY <1>6, <2>1, <2>4, <2>5 DEF EndFrame, TypeOK, ExecType, SignalType, stagingVars, bufferVars, sceneVars
  <1>7. ASSUME Resize PROVE TypeOK'
    <2>1. calls' \in Seq(Steps)
      BY <1>7, OneStep DEF Resize, Steps
    <2> QED  BY <1>7, <2>1 DEF Resize, TypeOK, frameVars, stagingVars, bufferVars, sceneVars, queueVars
  <1>8. ASSUME FlushGPU PROVE TypeOK'
    <2>1. calls' \in Seq(Steps)
      BY <1>8, OneStep DEF FlushGPU, Steps
    <2>2. signals' \subseteq SignalType /\ submits' \in Nat
      BY <1>8 DEF FlushGPU, TypeOK, SignalType, Fences
    <2> QED  BY <1>8, <2>1, <2>2 DEF FlushGPU, TypeOK, SignalType, frameVars, stagingVars, bufferVars, sceneVars
  <1>9. CASE Client
    BY <1>1, <1>2, <1>3, <1>4, <1>5, <1>6, <1>7, <1>8, <1>9 DEF Client
  <1>10. ASSUME Cpu PROVE TypeOK'
    <2>0. calls \in Seq(Steps) /\ (calls # <<>> => Tail(calls) \in Seq(Steps))
      BY StepsLeft DEF TypeOK
    <2>1. CASE WriteStaging
      <3>1. calls' \in Seq(Steps)
        BY <2>0, <2>1 DEF WriteStaging, AtStep, Return
      <3>2. AlignUp(staginBufferPortionUsed, request.align) \in Nat
        BY AlignUpType DEF TypeOK, Update
      <3>3. CASE request.size > StagingBufferSize
        BY <2>1, <3>1, <3>3 DEF WriteStaging, TypeOK, stagingVars, frameVars, bufferVars, sceneVars, queueVars
      <3>4. CASE ~(request.size > StagingBufferSize)
        <4> DEFINE offset == AlignUp(staginBufferPortionUsed, request.align)
                   copy == [from |-> offset, to |-> offset + request.size]
        <4>1. offset + request.size \in Nat
          BY <3>2 DEF TypeOK, Update
        <4>2. copy \in Range
          BY <3>2, <4>1 DEF Range
        <4>3. /\ stagedCopies' = stagedCopies \cup {copy}
              /\ stagedBuffers' = stagedBuffers \cup (heldBuffers \cap {vertexBuffer})
              /\ staginBufferPortionUsed' = offset + request.size
              /\ outstandingResourceUpdate' = TRUE
              /\ stagingFenceVal' = stagingFenceVal
          BY <2>1, <3>4 DEF WriteStaging
        <4> HIDE DEF offset, copy
        <4>4. stagedCopies' \subseteq Range /\ stagedBuffers' \subseteq Nat
          BY <4>2, <4>3 DEF TypeOK
        <4>5. outstandingResourceUpdate' \in BOOLEAN
          BY <4>3, Zenon
        <4>6. staginBufferPortionUsed' \in Nat /\ stagingFenceVal' \in Nat
          BY <4>1, <4>3 DEF TypeOK
        <4> QED  BY <2>1, <3>1, <4>4, <4>5, <4>6 DEF WriteStaging, TypeOK, frameVars, bufferVars, sceneVars, queueVars
      <3> QED  BY <3>3, <3>4
    <2>2. CASE FlushStagingBuffer
      <3>0. calls # <<>> /\ Tail(calls) \in Seq(Steps)
        BY <2>0, <2>2 DEF FlushStagingBuffer, AtStep
      <3>1. CASE outstandingResourceUpdate
        <4>1. calls' \in Seq(Steps)
          <5>1. <<"stagingWait">> \in Seq(Steps)
            BY OneStep DEF Steps
          <5> QED  BY <2>2, <3>0, <3>1, <5>1, StepsBefore DEF FlushStagingBuffer
        <4>2. Submission("staging", StagingAllocator, stagedCopies, stagedBuffers) \in ExecType
          <5>1. "staging" \in Lists /\ stagedCopies \in SUBSET Range /\ stagedBuffers \in SUBSET Nat
            BY DEF Lists, TypeOK
          <5> QED  BY <1>0, <5>1, SubmissionType
        <4>3. stagingFenceVal' = stagingFenceVal + 1 /\ stagingFenceVal + 1 \in Nat
                /\ "staging" \in Fences
          BY <2>2, <3>1 DEF FlushStagingBuffer, TypeOK, Fences
        <4>4. /\ submits' \in Nat /\ execs' \subseteq ExecType
              /\ signals' \subseteq SignalType /\ fence' \in [Fences -> Nat]
          BY <2>2, <3>1, <4>2, <4>3, ExecuteAndSignalType DEF FlushStagingBuffer
        <4> QED  BY <2>2, <4>1, <4>3, <4>4 DEF FlushStagingBuffer, TypeOK, ExecType, SignalType, frameVars, bufferVars, sceneVars
      <3>2. CASE ~outstandingResourceUpdate
        BY <2>2, <3>0, <3>2 DEF FlushStagingBuffer, Return, TypeOK, frameVars, bufferVars, sceneVars, queueVars
      <3> QED  BY <3>1, <3>2
    <2>3. CASE StagingWait
      BY <2>0, <2>3 DEF StagingWait, AtStep, Return, TypeOK, frameVars, bufferVars, sceneVars, queueVars
    <2>4. CASE GrowWait
      BY <2>0, <2>4 DEF GrowWait, AtStep, Return, TypeOK, frameVars, stagingVars, sceneVars, queueVars
    <2>5. CASE UploadInitialData
      <3>1. /\ PushSteps(request) \in Seq(Steps) /\ <<"flush">> \in Seq(Steps)
            /\ Tail(calls) \in Seq(Steps)
        BY <2>0, <2>5, PushStepsType, OneStep DEF UploadInitialData, AtStep, TypeOK, Steps
      <3>2. calls' \in Seq(Steps)
        <4>1. PushSteps(request) \o <<"flush">> \in Seq(Steps)
          BY <3>1, StepsBefore
        <4> QED  BY <2>5, <3>1, <4>1, StepsBefore DEF UploadInitialData
      <3> QED  BY <2>5, <3>2 DEF UploadInitialData, TypeOK, frameVars, stagingVars, bufferVars, sceneVars, queueVars
    <2>6. CASE Allocated
      BY <2>0, <2>6 DEF Allocated, AtStep, Return, TypeOK, frameVars, stagingVars, sceneVars, queueVars
    <2>7. CASE SubmitGraph
      <3>1. calls' \in Seq(Steps)
        BY <2>0, <2>7 DEF SubmitGraph, AtStep, Return
      <3>2. /\ "graph" \in Lists /\ "graph" \in Fences /\ maxFence + 1 \in Nat
            /\ currentFrameIndex \in 0 .. NumFrames
            /\ {} \in SUBSET Range /\ {vertexBuffer} \in SUBSET Nat
        BY <1>0 DEF Lists, Fences, TypeOK
      <3>3. Submission("graph", currentFrameIndex, {}, {vertexBuffer}) \in ExecType
        BY <3>2, SubmissionType
      <3>4. /\ submits' \in Nat /\ execs' \subseteq ExecType
            /\ signals' \subseteq SignalType /\ fence' \in [Fences -> Nat]
        BY <2>7, <3>2, <3>3, ExecuteAndSignalType DEF SubmitGraph
      <3> QED  BY <2>7, <3>1, <3>2, <3>4 DEF SubmitGraph, TypeOK, ExecType, SignalType, frameVars, stagingVars, bufferVars
    <2>8. CASE GraphWait
      BY <2>0, <2>8 DEF GraphWait, AtStep, Return, TypeOK, frameVars, stagingVars, bufferVars, queueVars
    <2>9. CASE FrameWait
      BY <2>0, <2>9 DEF FrameWait, AtStep, Return, TypeOK, frameVars, stagingVars, bufferVars, sceneVars, queueVars
    <2>10. CASE ResizeWait
      BY <2>0, <2>10 DEF ResizeWait, AtStep, Return, TypeOK, frameVars, stagingVars, bufferVars, sceneVars, queueVars
    <2>11. CASE ExitWait
      BY <2>0, <2>11 DEF ExitWait, AtStep, Return, TypeOK, frameVars, stagingVars, bufferVars, sceneVars, queueVars
    <2> QED  BY <1>10, <2>1, <2>2, <2>3, <2>4, <2>5, <2>6, <2>7, <2>8, <2>9, <2>10, <2>11 DEF Cpu
  <1>11. CASE FinishList
    BY <1>11 DEF FinishList, TypeOK, frameVars, stagingVars, bufferVars, sceneVars
  <1>12. CASE SignalFence
    BY <1>12 DEF SignalFence, TypeOK, frameVars, stagingVars, bufferVars, sceneVars
  <1>13. CASE UNCHANGED vars
    BY <1>13 DEF vars, TypeOK, frameVars, stagingVars, bufferVars, sceneVars, queueVars
  <1> QED  BY <1>9, <1>10, <1>11, <1>12, <1>13 DEF Next, Gpu

(* The state of FrameSync is well typed, for all values of the constants. *)
THEOREM TypeCorrect == Spec => []TypeOK
  BY TypeInit, TypeStep, PTL DEF Spec

-----------------------------------------------------------------------------
(* The inductive invariant behind AllocatorIdle.                            *)

NoFrameWait(s) == \A i \in 1 .. Len(s) : s[i] # "frameWait"

(* EndFrame's wait is the only step of its call. *)
WaitsAlone == calls = <<"frameWait">> \/ NoFrameWait(calls)

(* The frame of a pending list is still to be signalled, and its signal    *)
(* comes after the list in the queue.                                      *)
QueueOrder ==
  /\ fence["main"] <= currentFenceVal
  /\ \A e \in execs : e.at < submits /\ fence["main"] < e.frame
  /\ \A s \in signals : s.at < submits
  /\ \A s \in signals : s.fence = "main" =>
       s.val <= currentFenceVal /\ \A e \in execs : e.frame <= s.val => e.at < s.at

(* What fence_vals remembers of an allocator covers every pending list     *)
(* recorded from it, except those of the frame being recorded.             *)
FrameCovered ==
  /\ \A a \in Slots : fence_vals[a] <= currentFenceVal
  /\ \A e \in execs : e.allocator \in Slots =>
       \/ e.frame <= fence_vals[e.allocator]
       \/ /\ e.allocator = currentFrameIndex
          /\ e.frame = currentFenceVal + 1
          /\ calls # <<"frameWait">>

FrameInv == TypeOK /\ WaitsAlone /\ QueueOrder /\ FrameCovered /\ AllocatorIdle

(* Sequences of steps without EndFrame's wait. *)
LEMMA NoFrameWaitLeft ==
  ASSUME NEW s \in Seq(Steps), s # <<>>, NoFrameWait(s)
  PROVE  NoFrameWait(Tail(s))
  BY DEF NoFrameWait

LEMMA NoFrameWaitBefore ==
  ASSUME NEW s \in Seq(Steps), NEW t \in Seq(Steps), NoFrameWait(s), NoFrameWait(t)
  PROVE  NoFrameWait(s \o t)
  BY DEF NoFrameWait

LEMMA NoFrameWaitDiffers ==
  ASSUME NEW s, NoFrameWait(s)
  PROVE  s # <<"frameWait">>
  BY DEF NoFrameWait

LEMMA NoFrameWaitOne ==
  ASSUME NEW a \in Steps, a # "frameWait"
  PROVE  NoFrameWait(<<a>>)
  BY DEF NoFrameWait

LEMMA NoFrameWaitTwo ==
  ASSUME NEW a \in Steps, NEW b \in Steps, a # "frameWait", b # "frameWait"
  PROVE  NoFrameWait(<<a, b>>)
  BY DEF NoFrameWait

LEMMA PushStepsNoFrameWait ==
  ASSUME NEW u \in Update
  PROVE  NoFrameWait(PushSteps(u))
  <1>1. NoFrameWait(<<"copy">>) /\ NoFrameWait(<<"flush", "copy">>)
    BY NoFrameWaitOne, NoFrameWaitTwo DEF Steps
  <1> QED  BY <1>1, Zenon DEF PushSteps

(* A step of another call (whose head is not the wait), or of the client,  *)
(* leaves only steps of other calls.                                       *)
LEMMA OtherCall ==
  ASSUME FrameInv, NEW s, s # "frameWait", AtStep(s)
  PROVE  NoFrameWait(calls) /\ NoFrameWait(Tail(calls)) /\ Tail(calls) \in Seq(Steps)
  <1>1. calls \in Seq(Steps) /\ calls # <<>> /\ calls # <<"frameWait">>
    BY DEF FrameInv, TypeOK, AtStep
  <1>2. NoFrameWait(calls)
    BY <1>1 DEF FrameInv, WaitsAlone
  <1> QED  BY <1>1, <1>2, NoFrameWaitLeft, StepsLeft

LEMMA ClientCall ==
  ASSUME FrameInv, InClient
  PROVE  NoFrameWait(calls)
  BY DEF InClient, NoFrameWait

(* A step that touches neither the frame counters nor the queue, and of    *)
(* another call than EndFrame, keeps the invariant.                        *)
LEMMA Undisturbed ==
  ASSUME FrameInv, TypeOK', NoFrameWait(calls), NoFrameWait(calls)',
         UNCHANGED <<frameVars, queueVars>>
  PROVE  FrameInv'
  <1>1. calls # <<"frameWait">> /\ calls' # <<"frameWait">>
    BY NoFrameWaitDiffers DEF NoFrameWait
  <1>2. WaitsAlone'
    BY DEF WaitsAlone
  <1>3. QueueOrder'
    BY DEF FrameInv, QueueOrder, frameVars, queueVars
  <1>4. FrameCovered' /\ AllocatorIdle'
    BY <1>1 DEF FrameInv, FrameCovered, AllocatorIdle, frameVars, queueVars
  <1> QED  BY <1>2, <1>3, <1>4 DEF FrameInv

(* So does one that submits a list of the frame being recorded, or of the  *)
(* staging allocator, and signals another fence than mainFence             *)
(* (FlushStagingBuffer, SubmitToQueue).                                    *)
LEMMA OtherSubmission ==
  ASSUME FrameInv, TypeOK', NoFrameWait(calls), NoFrameWait(calls)',
         UNCHANGED frameVars,
         NEW exec, exec.frame = currentFenceVal + 1, exec.at = submits,
         exec.allocator \in {StagingAllocator, currentFrameIndex},
         NEW f, f # "main", NEW val, ExecuteAndSignal(exec, f, val)
  PROVE  FrameInv'
  <1>1. calls # <<"frameWait">> /\ calls' # <<"frameWait">>
    BY NoFrameWaitDiffers DEF NoFrameWait
  <1>2. WaitsAlone'
    BY DEF WaitsAlone
  <1>3. /\ execs' = execs \cup {exec}
        /\ signals' = signals \cup {[at |-> submits + 1, fence |-> f, val |-> val]}
        /\ submits' = submits + 2 /\ fence' = fence
        /\ currentFenceVal' = currentFenceVal /\ currentFrameIndex' = currentFrameIndex
        /\ fence_vals' = fence_vals
    BY DEF ExecuteAndSignal, frameVars
  <1>4. /\ submits \in Nat /\ currentFenceVal \in Nat /\ fence["main"] \in Nat
        /\ \A e \in execs : e.at \in Nat /\ e.frame \in Nat
        /\ \A s \in signals : s.at \in Nat /\ s.val \in Nat
    BY DEF FrameInv, TypeOK, Fences
  <1>5. QueueOrder'
    BY <1>3, <1>4 DEF FrameInv, QueueOrder
  <1>6. StagingAllocator \notin Slots
    BY NumFramesAssumption DEF StagingAllocator, Slots
  <1>7. FrameCovered'
    BY <1>1, <1>3, <1>6 DEF FrameInv, FrameCovered
  <1>8. AllocatorIdle'
    <2>1. currentFrameIndex \in Slots
      BY DEF FrameInv, TypeOK
    <2> QED  BY <1>1, <1>3, <1>6, <2>1 DEF FrameInv, AllocatorIdle
  <1> QED  BY <1>2, <1>5, <1>7, <1>8 DEF FrameInv

(* EndFrame: the lists recorded from this frame's allocator are now those  *)
(* that fence_vals covers.                                                 *)
LEMMA EndFrameKeepsInv ==
  ASSUME FrameInv, TypeOK', EndFrame
  PROVE  FrameInv'
  <1> DEFINE exec == Submission("main", currentFrameIndex, {}, {})
  <1>1. exec.frame = currentFenceVal + 1 /\ exec.at = submits
          /\ exec.allocator = currentFrameIndex
    BY DEF Submission
  <1>2. /\ execs' = execs \cup {exec}
        /\ signals' = signals \cup
             {[at |-> submits + 1, fence |-> "main", val |-> currentFenceVal + 1]}
        /\ submits' = submits + 2 /\ fence' = fence
        /\ currentFenceVal' = currentFenceVal + 1
        /\ fence_vals' = [fence_vals EXCEPT ![currentFrameIndex] = currentFenceVal + 1]
        /\ calls' = <<"frameWait">>
    BY DEF EndFrame, ExecuteAndSignal
  <1> HIDE DEF exec
  <1>3. /\ submits \in Nat /\ currentFenceVal \in Nat /\ fence["main"] \in Nat
        /\ currentFrameIndex \in Slots /\ fence_vals \in [Slots -> Nat]
        /\ \A e \in execs : e.at \in Nat /\ e.frame \in Nat
        /\ \A s \in signals : s.at \in Nat /\ s.val \in Nat
    BY DEF FrameInv, TypeOK, Fences
  <1>4. WaitsAlone' /\ AllocatorIdle'
    BY <1>2 DEF WaitsAlone, AllocatorIdle
  <1>5. QueueOrder'
    BY <1>1, <1>2, <1>3 DEF FrameInv, QueueOrder
  <1>6. \A a \in Slots : fence_vals[a] <= fence_vals'[a] /\ fence_vals'[a] <= currentFenceVal'
    BY <1>2, <1>3 DEF FrameInv, FrameCovered
  <1>7. fence_vals'[currentFrameIndex] = currentFenceVal + 1
    BY <1>2, <1>3
  <1>8. FrameCovered'
    <2> SUFFICES ASSUME NEW e \in execs', e.allocator \in Slots
                 PROVE  e.frame <= fence_vals'[e.allocator]
      BY <1>6 DEF FrameCovered
    <2>1. CASE e = exec
      BY <1>1, <1>3, <1>7, <2>1
    <2>2. CASE e \in execs /\ e.frame <= fence_vals[e.allocator]
      <3>1. fence_vals[e.allocator] \in Nat /\ fence_vals'[e.allocator] \in Nat
        BY <1>2, <1>3
      <3> QED  BY <1>3, <1>6, <2>2, <3>1
    <2>3. CASE e \in execs /\ e.allocator = currentFrameIndex /\ e.frame = currentFenceVal + 1
      BY <1>3, <1>7, <2>3
    <2> QED  BY <1>2, <2>1, <2>2, <2>3 DEF FrameInv, FrameCovered
  <1> QED  BY <1>4, <1>5, <1>8 DEF FrameInv

(* Its wait: the fence has passed every frame recorded from the allocator  *)
(* about to be reset, so none of their lists is pending.                   *)
LEMMA FrameWaitKeepsInv ==
  ASSUME FrameInv, TypeOK', FrameWait
  PROVE  FrameInv'
  <1>1. calls' = <<>>
    <2>1. calls = <<"frameWait">>
      <3>1. calls \in Seq(Steps) /\ calls # <<>> /\ Head(calls) = "frameWait"
        BY DEF FrameInv, TypeOK, FrameWait, AtStep
      <3>2. ~NoFrameWait(calls)
        BY <3>1 DEF NoFrameWait
      <3> QED  BY <3>2 DEF FrameInv, WaitsAlone
    <2> QED  BY <2>1 DEF FrameWait, Return
  <1>2. WaitsAlone'
    BY <1>1 DEF WaitsAlone, NoFrameWait
  <1>3. QueueOrder'
    BY DEF FrameInv, QueueOrder, FrameWait, frameVars, queueVars
  <1>4. calls' # <<"frameWait">>
    BY <1>1
  <1>5. FrameCovered'
    BY <1>4 DEF FrameInv, FrameCovered, FrameWait, frameVars, queueVars
  <1>6. AllocatorIdle'
    <2> SUFFICES ASSUME NEW e \in execs, e.allocator = currentFrameIndex
                 PROVE  e.frame = currentFenceVal + 1
      BY DEF AllocatorIdle, FrameWait, frameVars, queueVars
    <2>1. /\ currentFrameIndex \in Slots /\ e.frame \in Nat /\ fence["main"] \in Nat
          /\ fence_vals[currentFrameIndex] \in Nat
      BY DEF FrameInv, TypeOK, Fences
    <2>2. fence["main"] >= fence_vals[currentFrameIndex] /\ fence["main"] < e.frame
      BY DEF FrameInv, QueueOrder, FrameWait, Reached
    <2>3. ~(e.frame <= fence_vals[currentFrameIndex])
      BY <2>1, <2>2
    <2> QED  BY <2>1, <2>3 DEF FrameInv, FrameCovered
  <1> QED  BY <1>2, <1>3, <1>5, <1>6 DEF FrameInv

(* The queue: lists leave it, and mainFence passes a frame only when every *)
(* list submitted before its signal has left.                              *)
LEMMA GpuKeepsInv ==
  ASSUME FrameInv, TypeOK', Gpu
  PROVE  FrameInv'
  <1>1. UNCHANGED <<frameVars, calls, submits>>
    BY DEF Gpu, FinishList, SignalFence
  <1>2. execs' \subseteq execs /\ signals' \subseteq signals
    BY DEF Gpu, FinishList, SignalFence
  <1>3. WaitsAlone'
    BY <1>1 DEF FrameInv, WaitsAlone
  <1>4. FrameCovered' /\ AllocatorIdle'
    BY <1>1, <1>2 DEF FrameInv, FrameCovered, AllocatorIdle, frameVars
  <1>5. fence'["main"] <= currentFenceVal /\ \A e \in execs' : fence'["main"] < e.frame
    <2>1. CASE FinishList
      BY <2>1 DEF FinishList, FrameInv, QueueOrder
    <2>2. ASSUME NEW s \in signals, \A x \in execs \cup signals : x.at >= s.at,
                 execs' = execs, fence' = [fence EXCEPT ![s.fence] = s.val]
          PROVE  fence'["main"] <= currentFenceVal /\ \A e \in execs' : fence'["main"] < e.frame
      <3>1. /\ fence \in [Fences -> Nat] /\ "main" \in Fences /\ s.val \in Nat /\ s.at \in Nat
            /\ \A e \in execs : e.at \in Nat /\ e.frame \in Nat
        BY DEF FrameInv, TypeOK, Fences
      <3>2. CASE s.fence = "main"
        <4>1. fence'["main"] = s.val
          BY <2>2, <3>1, <3>2
        <4>2. \A e \in execs : ~(e.frame <= s.val)
          BY <2>2, <3>1, <3>2 DEF FrameInv, QueueOrder
        <4> QED  BY <2>2, <3>1, <3>2, <4>1, <4>2 DEF FrameInv, QueueOrder
      <3>3. CASE s.fence # "main"
        <4>1. fence'["main"] = fence["main"]
          BY <2>2, <3>1, <3>3
        <4> QED  BY <2>2, <4>1 DEF FrameInv, QueueOrder
      <3> QED  BY <3>2, <3>3
    <2> QED  BY <2>1, <2>2 DEF Gpu, SignalFence
  <1>6. QueueOrder'
    BY <1>1, <1>2, <1>5 DEF FrameInv, QueueOrder, frameVars
  <1> QED  BY <1>3, <1>4, <1>6 DEF FrameInv

LEMMA FrameInvInit == Init => FrameInv
  <1> SUFFICES ASSUME Init PROVE FrameInv
    OBVIOUS
  <1>1. TypeOK
    BY TypeInit
  <1>2. WaitsAlone
    BY DEF Init, WaitsAlone, NoFrameWait
  <1>3. QueueOrder
    BY DEF Init, QueueOrder, Fences
  <1>4. FrameCovered
    BY DEF Init, FrameCovered
  <1>5. AllocatorIdle
    BY DEF Init, AllocatorIdle
  <1> QED  BY <1>1, <1>2, <1>3, <1>4, <1>5 DEF FrameInv

(* The client starts a call that is not EndFrame. *)
LEMMA ClientKeepsInv ==
  ASSUME FrameInv, TypeOK', Client
  PROVE  FrameInv'
  <1>1. ASSUME NEW u \in Updates, PushUpdate(u) PROVE FrameInv'
    <2>1. NoFrameWait(calls)
      BY <1>1, ClientCall DEF PushUpdate
    <2>2. NoFrameWait(calls)'
      BY <1>1, UpdatesAssumption, PushStepsNoFrameWait DEF PushUpdate
    <2>3. UNCHANGED <<frameVars, queueVars>>
      BY <1>1 DEF PushUpdate
    <2> QED  BY <2>1, <2>2, <2>3, Undisturbed
  <1>2. ASSUME NEW u \in MeshData, AllocateVertexBuffer(u) PROVE FrameInv'
    <2>1. NoFrameWait(calls)
      BY <1>2, ClientCall DEF AllocateVertexBuffer
    <2>2. NoFrameWait(calls)'
      BY <1>2, NoFrameWaitTwo DEF AllocateVertexBuffer, Steps
    <2>3. UNCHANGED <<frameVars, queueVars>>
      BY <1>2 DEF AllocateVertexBuffer
    <2> QED  BY <2>1, <2>2, <2>3, Undisturbed
  <1>3. ASSUME NEW u \in MeshData, GrowVertexBuffer(u) PROVE FrameInv'
    <2>1. NoFrameWait(calls)
      BY <1>3, ClientCall DEF GrowVertexBuffer
    <2>2. NoFrameWait(calls)'
      BY <1>3 DEF GrowVertexBuffer, NoFrameWait
    <2>3. UNCHANGED <<frameVars, queueVars>>
      BY <1>3 DEF GrowVertexBuffer
    <2> QED  BY <2>1, <2>2, <2>3, Undisturbed
  <1>4. ASSUME SubmitToQueue PROVE FrameInv'
    <2>1. NoFrameWait(calls)
      BY <1>4, ClientCall DEF SubmitToQueue
    <2>2. NoFrameWait(calls)'
      BY <1>4, NoFrameWaitTwo DEF SubmitToQueue, Steps
    <2>3. UNCHANGED <<frameVars, queueVars>>
      BY <1>4 DEF SubmitToQueue
    <2> QED  BY <2>1, <2>2, <2>3, Undisturbed
  <1>5. ASSUME DestroyScene PROVE FrameInv'
    <2>1. NoFrameWait(calls)
      BY <1>5, ClientCall DEF DestroyScene
    <2>2. NoFrameWait(calls)'
      BY <1>5, NoFrameWaitOne DEF DestroyScene, Steps
    <2>3. UNCHANGED <<frameVars, queueVars>>
      BY <1>5 DEF DestroyScene
    <2> QED  BY <2>1, <2>2, <2>3, Undisturbed
  <1>6. ASSUME Resize PROVE FrameInv'
    <2>1. NoFrameWait(calls)
      BY <1>6, ClientCall DEF Resize
    <2>2. NoFrameWait(calls)'
      BY <1>6, NoFrameWaitOne DEF Resize, Steps
    <2>3. UNCHANGED <<frameVars, queueVars>>
      BY <1>6 DEF Resize
    <2> QED  BY <2>1, <2>2, <2>3, Undisturbed
  <1>7. ASSUME FlushGPU PROVE FrameInv'
    <2>1. NoFrameWait(calls)
      BY <1>7, ClientCall DEF FlushGPU
    <2>2. NoFrameWait(calls)'
      BY <1>7, NoFrameWaitOne DEF FlushGPU, Steps
    <2>3. calls # <<"frameWait">> /\ calls' # <<"frameWait">>
      BY <2>1, <2>2, NoFrameWaitDiffers DEF NoFrameWait
    <2>4. /\ UNCHANGED <<frameVars, execs, fence>> /\ submits' = submits + 1
          /\ signals' = signals \cup {[at |-> submits, fence |-> "flush", val |-> 1]}
      BY <1>7 DEF FlushGPU
    <2>5. WaitsAlone' /\ FrameCovered' /\ AllocatorIdle'
      BY <2>2, <2>3, <2>4 DEF FrameInv, WaitsAlone, FrameCovered, AllocatorIdle, frameVars
    <2>6. /\ submits \in Nat
          /\ \A e \in execs : e.at \in Nat
          /\ \A s \in signals : s.at \in Nat
      BY DEF FrameInv, TypeOK
    <2>7. QueueOrder'
      BY <2>4, <2>6 DEF FrameInv, QueueOrder, frameVars
    <2> QED  BY <2>5, <2>7 DEF FrameInv
  <1> QED  BY <1>1, <1>2, <1>3, <1>4, <1>5, <1>6, <1>7, EndFrameKeepsInv DEF Client

(* A step of a call in progress. *)
LEMMA CpuKeepsInv ==
  ASSUME FrameInv, TypeOK', Cpu
  PROVE  FrameInv'
  <1>1. CASE WriteStaging \/ StagingWait \/ GrowWait \/ Allocated \/ GraphWait
               \/ ResizeWait \/ ExitWait
    <2>1. /\ UNCHANGED <<frameVars, queueVars>> /\ calls' = Tail(calls)
          /\ \E s : s # "frameWait" /\ AtStep(s)
      BY <1>1 DEF WriteStaging, StagingWait, GrowWait, Allocated, GraphWait, ResizeWait,
                  ExitWait, Return
    <2>2. NoFrameWait(calls) /\ NoFrameWait(calls)'
      BY <2>1, OtherCall
    <2> QED  BY <2>1, <2>2, Undisturbed
  <1>2. CASE FlushStagingBuffer
    <2>1. NoFrameWait(calls) /\ NoFrameWait(Tail(calls)) /\ Tail(calls) \in Seq(Steps)
      BY <1>2, OtherCall DEF FlushStagingBuffer
    <2>2. CASE outstandingResourceUpdate
      <3> DEFINE exec == Submission("staging", StagingAllocator, stagedCopies, stagedBuffers)
      <3>1. NoFrameWait(calls)'
        <4>1. <<"stagingWait">> \in Seq(Steps) /\ NoFrameWait(<<"stagingWait">>)
          BY OneStep, NoFrameWaitOne DEF Steps
        <4>2. calls' = <<"stagingWait">> \o Tail(calls)
          BY <1>2, <2>2 DEF FlushStagingBuffer
        <4> QED  BY <2>1, <4>1, <4>2, NoFrameWaitBefore
      <3>2. exec.frame = currentFenceVal + 1 /\ exec.at = submits
              /\ exec.allocator = StagingAllocator
        BY DEF Submission
      <3>3. /\ ExecuteAndSignal(exec, "staging", stagingFenceVal + 1)
            /\ UNCHANGED frameVars
        BY <1>2, <2>2 DEF FlushStagingBuffer
      <3> HIDE DEF exec
      <3> QED  BY <2>1, <3>1, <3>2, <3>3, OtherSubmission
    <2>3. CASE ~outstandingResourceUpdate
      <3>1. UNCHANGED <<frameVars, queueVars>> /\ calls' = Tail(calls)
        BY <1>2, <2>3 DEF FlushStagingBuffer, Return
      <3> QED  BY <2>1, <3>1, Undisturbed
    <2> QED  BY <2>2, <2>3
  <1>3. CASE UploadInitialData
    <2>1. NoFrameWait(calls) /\ NoFrameWait(Tail(calls)) /\ Tail(calls) \in Seq(Steps)
      BY <1>3, OtherCall DEF UploadInitialData
    <2>2. request \in Update
      BY DEF FrameInv, TypeOK
    <2>3. /\ PushSteps(request) \in Seq(Steps) /\ NoFrameWait(PushSteps(request))
          /\ <<"flush">> \in Seq(Steps) /\ NoFrameWait(<<"flush">>)
      BY <2>2, PushStepsType, PushStepsNoFrameWait, OneStep, NoFrameWaitOne DEF Steps
    <2>4. NoFrameWait(PushSteps(request) \o <<"flush">>)
            /\ PushSteps(request) \o <<"flush">> \in Seq(Steps)
      BY <2>3, NoFrameWaitBefore, StepsBefore
    <2>5. NoFrameWait(calls)'
      BY <1>3, <2>1, <2>4, NoFrameWaitBefore DEF UploadInitialData
    <2>6. UNCHANGED <<frameVars, queueVars>>
      BY <1>3 DEF UploadInitialData
    <2> QED  BY <2>1, <2>5, <2>6, Undisturbed
  <1>4. CASE SubmitGraph
    <2> DEFINE exec == Submission("graph", currentFrameIndex, {}, {vertexBuffer})
    <2>1. NoFrameWait(calls) /\ NoFrameWait(Tail(calls))
      BY <1>4, OtherCall DEF SubmitGraph
    <2>2. exec.frame = currentFenceVal + 1 /\ exec.at = submits
            /\ exec.allocator = currentFrameIndex
      BY DEF Submission
    <2>3. /\ ExecuteAndSignal(exec, "graph", maxFence + 1) /\ UNCHANGED frameVars
          /\ calls' = Tail(calls)
      BY <1>4 DEF SubmitGraph, Return
    <2> HIDE DEF exec
    <2> QED  BY <2>1, <2>2, <2>3, OtherSubmission
  <1> QED  BY <1>1, <1>2, <1>3, <1>4, FrameWaitKeepsInv DEF Cpu

LEMMA FrameInvStep == FrameInv /\ [Next]_vars => FrameInv'
  <1> SUFFICES ASSUME FrameInv, [Next]_vars PROVE FrameInv'
    OBVIOUS
  <1>1. TypeOK'
    BY TypeStep DEF FrameInv
  <1>2. CASE UNCHANGED vars
    BY <1>1, <1>2 DEF vars, FrameInv, WaitsAlone, QueueOrder, FrameCovered, AllocatorIdle,
                      NoFrameWait, frameVars, queueVars
  <1> QED  BY <1>1, <1>2, ClientKeepsInv, CpuKeepsInv, GpuKeepsInv DEF Next

(* Whatever the client does and however long the queue lags behind, the    *)
(* allocator EndFrame resets has no list pending.                          *)
THEOREM FrameAllocatorsIdle == Spec => []AllocatorIdle
  <1>1. FrameInv => AllocatorIdle
    BY DEF FrameInv
  <1> QED  BY <1>1, FrameInvInit, FrameInvStep, PTL DEF Spec

-----------------------------------------------------------------------------
(* Calls in progress                                                         *)

Copying == <<"copy">>
MeshCopy == <<"copy", "flush", "allocated">>
Submitting == <<"submitGraph">>
Finishing == <<"allocated">>
Starting == <<"initialData", "allocated">>
Regrowing == <<"growWait", "initialData", "allocated">>

(* What follows a flush, or is left of a call that needs none.               *)
AfterFlush == {Copying, MeshCopy, Submitting, Finishing, Regrowing}

Flushing(t) == <<"flush">> \o t
Uploading(t) == <<"stagingWait">> \o t

Blocking == {<<"graphWait">>, <<"frameWait">>, <<"resizeWait">>, <<"exitWait">>}

CallShapes ==
  {<<>>, Starting} \cup Blocking \cup AfterFlush
  \cup {Flushing(t) : t \in AfterFlush} \cup {Uploading(t) : t \in AfterFlush}

(* Of a call c, t is what is left, but for a flush that may come first.      *)
Ahead(c, t) == c \in {t, Flushing(t), Uploading(t)}

Growing(c) == Ahead(c, Regrowing)
Allocating(c) == c = Starting \/ Ahead(c, MeshCopy) \/ Ahead(c, Finishing)
ToSubmit(c) == Ahead(c, Submitting)
Waiting(c) == c \in {Uploading(t) : t \in AfterFlush}
AtCopy(c) == c \in {Copying, MeshCopy}

(* Putting single steps together.                                            *)
LEMMA StepsJoin ==
  ASSUME NEW a \in Steps, NEW b \in Steps, NEW s \in Seq(Steps), NEW t \in Seq(Steps),
         NEW u \in Seq(Steps)
  PROVE  <<a>> \o <<b>> = <<a, b>> /\ (s \o t) \o u = s \o (t \o u)
<1>1. /\ <<a>> \in Seq(Steps) /\ <<b>> \in Seq(Steps) /\ <<a, b>> \in Seq(Steps)
      /\ Len(<<a>>) = 1 /\ Len(<<b>>) = 1 /\ Len(<<a, b>>) = 2
  OBVIOUS
<1>2. /\ <<a>> \o <<b>> \in Seq(Steps) /\ Len(<<a>> \o <<b>>) = 2
      /\ (<<a>> \o <<b>>)[1] = a /\ (<<a>> \o <<b>>)[2] = b
  OBVIOUS
<1>3. <<a>> \o <<b>> = <<a, b>>
  <2>1. \A i \in 1 .. Len(<<a>> \o <<b>>) : (<<a>> \o <<b>>)[i] = <<a, b>>[i]
    BY <1>2
  <2>. QED
    BY <1>1, <1>2, <2>1, Seqs!SeqEqual, Zenon
<1>4. (s \o t) \o u = s \o (t \o u)
  BY Seqs!ConcatAssociative
<1>. QED
  BY <1>3, <1>4

(* Heads and tails tell the shapes apart.                                    *)
LEMMA AfterFlushSteps ==
  /\ \A t \in AfterFlush : t \in Seq(Steps) /\ t # <<>>
  /\ Head(Copying) = "copy" /\ Tail(Copying) = <<>>
  /\ Head(MeshCopy) = "copy" /\ Tail(MeshCopy) = Flushing(Finishing)
  /\ Head(Submitting) = "submitGraph" /\ Tail(Submitting) = <<>>
  /\ Head(Finishing) = "allocated" /\ Tail(Finishing) = <<>>
  /\ Head(Regrowing) = "growWait" /\ Tail(Regrowing) = Starting
<1>1. \A t \in AfterFlush : t \in Seq(Steps) /\ t # <<>>
  <2>1. \A a \in Steps : <<a>> \in Seq(Steps) /\ <<a>> # <<>>
    OBVIOUS
  <2>2. \A a, b, c \in Steps : <<a, b, c>> \in Seq(Steps) /\ <<a, b, c>> # <<>>
    OBVIOUS
  <2>3. {"copy", "flush", "allocated", "submitGraph", "growWait", "initialData"} \subseteq Steps
    BY DEF Steps
  <2>4. /\ {Copying, Submitting, Finishing} \subseteq Seq(Steps) \ {<<>>}
        /\ {MeshCopy, Regrowing} \subseteq Seq(Steps) \ {<<>>}
    BY <2>1, <2>2, <2>3 DEF Copying, MeshCopy, Submitting, Finishing, Regrowing
  <2>. QED
    BY <2>4 DEF AfterFlush
<1>2. /\ Head(Copying) = "copy" /\ Tail(Copying) = <<>>
      /\ Head(Submitting) = "submitGraph" /\ Tail(Submitting) = <<>>
      /\ Head(Finishing) = "allocated" /\ Tail(Finishing) = <<>>
  BY DEF Copying, Submitting, Finishing
<1>3. Head(MeshCopy) = "copy" /\ Tail(MeshCopy) = Flushing(Finishing)
  <2>1. Head(MeshCopy) = "copy" /\ Tail(MeshCopy) = <<"flush", "allocated">>
    BY DEF MeshCopy
  <2>2. {"flush", "allocated"} \subseteq Steps /\ <<>> \in Seq(Steps)
    BY DEF Steps
  <2>3. <<"flush">> \o <<"allocated">> = <<"flush", "allocated">>
    BY <2>2, StepsJoin
  <2>. QED
    BY <2>1, <2>3, Zenon DEF Flushing, Finishing
<1>4. Head(Regrowing) = "growWait" /\ Tail(Regrowing) = Starting
  BY DEF Regrowing, Starting
<1>. QED
  BY <1>1, <1>2, <1>3, <1>4

(* A flush is one step, or one step and its wait, before the rest.           *)
LEMMA FlushSteps ==
  ASSUME NEW t \in AfterFlush
  PROVE  /\ Flushing(t) # <<>> /\ Head(Flushing(t)) = "flush" /\ Tail(Flushing(t)) = t
         /\ Uploading(t) # <<>> /\ Head(Uploading(t)) = "stagingWait" /\ Tail(Uploading(t)) = t
<1>1. t \in Seq(Steps)
  BY AfterFlushSteps
<1>2. ASSUME NEW s \in Steps
      PROVE  <<s>> \o t # <<>> /\ Head(<<s>> \o t) = s /\ Tail(<<s>> \o t) = t
  BY <1>1
<1>. QED
  BY <1>2 DEF Flushing, Uploading, Steps

(* The rest of the calls: an allocation, and waits that are alone.           *)
LEMMA OtherSteps ==
  /\ Starting # <<>> /\ Head(Starting) = "initialData" /\ Tail(Starting) = Finishing
  /\ \A c \in Blocking :
       /\ c # <<>> /\ Tail(c) = <<>> /\ c = <<Head(c)>>
       /\ Head(c) \in {"graphWait", "frameWait", "resizeWait", "exitWait"}
BY DEF Starting, Finishing, Blocking

-----------------------------------------------------------------------------
(* The invariant                                                             *)

(* v is the last value promised for fence f: when the fence reaches it, the  *)
(* lists E are finished, as its signal stands behind them in the queue.      *)
PromisedBy(fences, sigs, f, E, v) ==
  /\ fences[f] <= v
  /\ fences[f] = v => E = {}
  /\ \A s \in sigs : s.fence = f => s.val <= v /\ (s.val = v => \A e \in E : e.at < s.at)

Promised(f, E, v) == PromisedBy(fence, signals, f, E, v)

MainPromise == Promised("main", Pending("main"), currentFenceVal)
GraphPromise == Promised("graph", Pending("graph"), maxFence)
StagingPromise == Promised("staging", IF Waiting(calls) THEN execs ELSE {}, stagingFenceVal)
FlushPromise ==
  /\ calls = <<"exitWait">> => Promised("flush", execs, 1)
  /\ running /\ calls # <<"exitWait">> => Promised("flush", {}, 0)

Promises == MainPromise /\ GraphPromise /\ StagingPromise /\ FlushPromise

(* The value stored last belongs to the slot before the current one.         *)
LastStored == fence_vals[(currentFrameIndex + NumFrames - 1) % NumFrames] = currentFenceVal

(* A copy fits where it will be written, or is larger than the whole buffer. *)
CopyFits(u, used) ==
  u.size > StagingBufferSize \/ AlignUp(used, u.align) + u.size <= StagingBufferSize

StagingSound ==
  /\ StagedDataIntact
  /\ ~outstandingResourceUpdate => staginBufferPortionUsed = 0 /\ stagedCopies = {}
  /\ AtCopy(calls) => CopyFits(request, staginBufferPortionUsed)

GraphSound ==
  /\ ToSubmit(calls) => sceneAlive
  /\ calls = Submitting => stagedCopies = {}

(* Growth holds both buffers until nothing refers to the old one: after the  *)
(* initial data were flushed the queue is empty.                             *)
BuffersSound ==
  /\ VertexBufferAlive
  /\ ~Growing(calls) /\ ~Allocating(calls) => heldBuffers = {}
  /\ Growing(calls) => heldBuffers = {vertexBuffer, vertexBuffer + 1}
  /\ Growing(calls) \/ Allocating(calls) => request \in MeshData
  /\ calls = Flushing(Finishing) => outstandingResourceUpdate
  /\ calls = Finishing => execs = {} /\ stagedBuffers = {}

CallSound == calls \in CallShapes /\ request \in Updates

QueueSound ==
  /\ Promises /\ LastStored /\ SceneResourcesIdle /\ IdleAtExit
  /\ ~Waiting(calls) => Pending("staging") = {}

SafetyInv ==
  FrameInv /\ CallSound /\ QueueSound /\ StagingSound /\ GraphSound /\ BuffersSound

-----------------------------------------------------------------------------
(* Promises                                                                  *)

(* Types and places of what is in the queue.                                 *)
LEMMA QueueTyped ==
  ASSUME FrameInv
  PROVE  /\ submits \in Nat /\ fence \in [Fences -> Nat]
         /\ \A e \in execs : e.at \in Nat /\ e.at < submits
         /\ \A s \in signals : s.at \in Nat /\ s.val \in Nat /\ s.fence \in Fences /\ s.at < submits
BY DEF FrameInv, TypeOK, QueueOrder

(* Lists finish and signals complete in order.                               *)
LEMMA PromiseKept ==
  ASSUME FrameInv, Gpu, NEW f \in Fences, NEW v \in Nat,
         NEW E \in SUBSET execs, NEW E2 \in SUBSET execs', E2 \subseteq E, Promised(f, E, v)
  PROVE  PromisedBy(fence', signals', f, E2, v)
<1>1. CASE FinishList
  BY <1>1 DEF FinishList, Promised, PromisedBy
<1>2. ASSUME NEW s \in signals, \A x \in execs \cup signals : x.at >= s.at,
             signals' = signals \ {s}, fence' = [fence EXCEPT ![s.fence] = s.val]
      PROVE  PromisedBy(fence', signals', f, E2, v)
  <2>1. /\ \A x \in signals' : x.fence = f => x.val <= v /\ (x.val = v => \A e \in E2 : e.at < x.at)
    BY <1>2 DEF Promised, PromisedBy
  <2>2. CASE s.fence # f
    <3>1. fence'[f] = fence[f]
      BY <1>2, <2>2, QueueTyped
    <3>. QED
      BY <2>1, <3>1 DEF Promised, PromisedBy
  <2>3. CASE s.fence = f
    <3>1. fence'[f] = s.val
      BY <1>2, <2>3, QueueTyped
    <3>2. \A e \in E : ~(e.at < s.at)
      BY <1>2, QueueTyped
    <3>3. s.val = v => E = {}
      BY <2>3, <3>2 DEF Promised, PromisedBy
    <3>4. s.val <= v
      BY <2>3 DEF Promised, PromisedBy
    <3>. QED
      BY <2>1, <3>1, <3>3, <3>4 DEF PromisedBy
  <2>. QED
    BY <2>2, <2>3
<1>. QED
  BY <1>1, <1>2 DEF Gpu, SignalFence

(* A signal of another fence changes nothing; the next value of a fence      *)
(* covers whatever is in the queue by then.                                  *)
LEMMA PromiseMade ==
  ASSUME FrameInv, NEW exec, exec.at = submits, NEW g \in Fences, NEW val \in Nat,
         ExecuteAndSignal(exec, g, val), NEW f \in Fences, NEW v \in Nat,
         NEW E \in SUBSET execs, Promised(f, E, v)
  PROVE  /\ f # g => PromisedBy(fence', signals', f, E, v)
         /\ f = g /\ val = v + 1 =>
              \A E2 \in SUBSET execs' : PromisedBy(fence', signals', f, E2, v + 1)
<1>1. /\ execs' = execs \cup {exec} /\ fence' = fence
      /\ signals' = signals \cup {[at |-> submits + 1, fence |-> g, val |-> val]}
  BY DEF ExecuteAndSignal
<1>2. ASSUME f # g PROVE PromisedBy(fence', signals', f, E, v)
  BY <1>1, <1>2 DEF Promised, PromisedBy
<1>3. ASSUME f = g, val = v + 1, NEW E2 \in SUBSET execs'
      PROVE  PromisedBy(fence', signals', f, E2, v + 1)
  <2>1. \A e \in E2 : e.at \in Nat /\ e.at < submits + 1
    BY <1>1, QueueTyped
  <2>2. fence'[f] < v + 1
    BY <1>1, QueueTyped DEF Promised, PromisedBy
  <2>3. ASSUME NEW s \in signals', s.fence = f
        PROVE  s.val <= v + 1 /\ (s.val = v + 1 => \A e \in E2 : e.at < s.at)
    <3>1. CASE s \in signals
      <4>1. s.val \in Nat /\ s.val <= v
        BY <2>3, <3>1, QueueTyped DEF Promised, PromisedBy
      <4>. QED
        BY <4>1
    <3>2. CASE s = [at |-> submits + 1, fence |-> g, val |-> val]
      BY <1>3, <2>1, <3>2
    <3>. QED
      BY <1>1, <3>1, <3>2
  <2>4. fence'[f] \in Nat
    BY <1>1, QueueTyped
  <2>. QED
    BY <2>2, <2>3, <2>4 DEF PromisedBy
<1>. QED
  BY <1>2, <1>3

-----------------------------------------------------------------------------
(* The shapes of calls                                                       *)

(* No shape is another one.                                                  *)
LEMMA ShapesApart ==
  /\ \A t, u \in AfterFlush :
       /\ Flushing(t) # u /\ Uploading(t) # u /\ Flushing(t) # Uploading(u)
       /\ Flushing(t) = Flushing(u) => t = u
       /\ Uploading(t) = Uploading(u) => t = u
  /\ \A t \in AfterFlush : \A c \in {<<>>, Starting} \cup Blocking :
       t # c /\ Flushing(t) # c /\ Uploading(t) # c
  /\ Starting # <<>> /\ \A c \in Blocking : c # Starting /\ c # <<>>
  /\ Copying # MeshCopy /\ Copying # Submitting /\ Copying # Finishing /\ Copying # Regrowing
  /\ MeshCopy # Submitting /\ MeshCopy # Finishing /\ MeshCopy # Regrowing
  /\ Submitting # Finishing /\ Submitting # Regrowing /\ Finishing # Regrowing
<1>1. \A t \in AfterFlush : t # <<>> /\ Head(t) \in {"copy", "submitGraph", "allocated", "growWait"}
  BY AfterFlushSteps DEF AfterFlush
<1>2. \A t, u \in AfterFlush :
       /\ Flushing(t) # u /\ Uploading(t) # u /\ Flushing(t) # Uploading(u)
       /\ Flushing(t) = Flushing(u) => t = u
       /\ Uploading(t) = Uploading(u) => t = u
  BY <1>1, FlushSteps
<1>3. \A t \in AfterFlush : \A c \in {<<>>, Starting} \cup Blocking :
        t # c /\ Flushing(t) # c /\ Uploading(t) # c
  BY <1>1, FlushSteps, OtherSteps
<1>4. Starting # <<>> /\ \A c \in Blocking : c # Starting /\ c # <<>>
  BY OtherSteps
<1>5. Copying # MeshCopy
  <2>1. Tail(Copying) = <<>> /\ Tail(MeshCopy) # <<>>
    BY AfterFlushSteps, FlushSteps DEF AfterFlush
  <2>. QED
    BY <2>1
<1>. QED
  BY <1>2, <1>3, <1>4, <1>5, AfterFlushSteps

(* What is left of a call that is at a given step.                           *)
LEMMA CallAt ==
  ASSUME NEW c \in CallShapes, c # <<>>
  PROVE  /\ Head(c) = "flush" => Tail(c) \in AfterFlush /\ c = Flushing(Tail(c))
         /\ Head(c) = "stagingWait" => Tail(c) \in AfterFlush /\ c = Uploading(Tail(c))
         /\ Head(c) = "copy" => \/ c = Copying /\ Tail(c) = <<>>
                                \/ c = MeshCopy /\ Tail(c) = Flushing(Finishing)
         /\ Head(c) = "growWait" => c = Regrowing /\ Tail(c) = Starting
         /\ Head(c) = "initialData" => c = Starting /\ Tail(c) = Finishing
         /\ Head(c) = "submitGraph" => c = Submitting /\ Tail(c) = <<>>
         /\ Head(c) = "allocated" => c = Finishing /\ Tail(c) = <<>>
         /\ Head(c) \in {"graphWait", "frameWait", "resizeWait", "exitWait"} =>
              c = <<Head(c)>> /\ c \in Blocking /\ Tail(c) = <<>>
<1>1. CASE c = Starting
  BY <1>1, OtherSteps
<1>2. CASE c \in Blocking
  BY <1>2, OtherSteps
<1>3. CASE c \in AfterFlush
  BY <1>3, AfterFlushSteps DEF AfterFlush
<1>4. ASSUME NEW t \in AfterFlush, c = Flushing(t) PROVE Head(c) = "flush" /\ Tail(c) = t
  BY <1>4, FlushSteps
<1>5. ASSUME NEW t \in AfterFlush, c = Uploading(t) PROVE Head(c) = "stagingWait" /\ Tail(c) = t
  BY <1>5, FlushSteps
<1>. QED
  BY <1>1, <1>2, <1>3, <1>4, <1>5 DEF CallShapes

(* The calls as clients start them.                                          *)
LEMMA CallsStarted ==
  /\ <<"copy">> = Copying /\ <<"flush", "copy">> = Flushing(Copying)
  /\ <<"flush", "submitGraph">> = Flushing(Submitting)
  /\ <<"flush", "growWait", "initialData", "allocated">> = Flushing(Regrowing)
  /\ <<"initialData", "allocated">> = Starting
  /\ <<"copy">> \o <<"flush">> \o Finishing = MeshCopy
  /\ <<"flush", "copy">> \o <<"flush">> \o Finishing = Flushing(MeshCopy)
<1>0. /\ {"copy", "flush", "submitGraph", "growWait", "initialData", "allocated"} \subseteq Steps
      /\ <<>> \in Seq(Steps)
  BY DEF Steps
<1>1. /\ <<"flush">> \o <<"copy">> = <<"flush", "copy">>
      /\ <<"flush">> \o <<"submitGraph">> = <<"flush", "submitGraph">>
  BY <1>0, StepsJoin
<1>2. \A a, b, c, d \in Steps : <<a>> \o <<b, c, d>> = <<a, b, c, d>>
  <2>. SUFFICES ASSUME NEW a \in Steps, NEW b \in Steps, NEW c \in Steps, NEW d \in Steps
                PROVE  <<a>> \o <<b, c, d>> = <<a, b, c, d>>
    OBVIOUS
  <2>. DEFINE s == <<a>> \o <<b, c, d>>
              t == <<a, b, c, d>>
  <2>1. s \in Seq(Steps) /\ t \in Seq(Steps) /\ Len(s) = 4 /\ Len(t) = 4
    OBVIOUS
  <2>2. s[1] = a /\ s[2] = b /\ s[3] = c /\ s[4] = d
    OBVIOUS
  <2>3. \A i \in 1 .. 4 : s[i] = t[i]
    BY <2>2
  <2>4. \A i \in 1 .. Len(s) : s[i] = t[i]
    BY <2>1, <2>3
  <2>. HIDE DEF s, t
  <2>5. s = t
    BY <2>1, <2>4, Seqs!SeqEqual, Zenon
  <2>. QED
    BY <2>5 DEF s, t
<1>3. <<"copy">> \o <<"flush">> \o Finishing = MeshCopy
  <2>1. \A a, b, c \in Steps : <<a, b>> \o <<c>> = <<a, b, c>>
    <3>. SUFFICES ASSUME NEW a \in Steps, NEW b \in Steps, NEW c \in Steps
                  PROVE  <<a, b>> \o <<c>> = <<a, b, c>>
      OBVIOUS
    <3>. DEFINE s == <<a, b>> \o <<c>>
                t == <<a, b, c>>
    <3>1. s \in Seq(Steps) /\ t \in Seq(Steps) /\ Len(s) = 3 /\ Len(t) = 3
      OBVIOUS
    <3>2. s[1] = a /\ s[2] = b /\ s[3] = c
      OBVIOUS
    <3>3. \A i \in 1 .. 3 : s[i] = t[i]
      BY <3>2
    <3>4. \A i \in 1 .. Len(s) : s[i] = t[i]
      BY <3>1, <3>3
    <3>. HIDE DEF s, t
    <3>5. s = t
      BY <3>1, <3>4, Seqs!SeqEqual, Zenon
    <3>. QED
      BY <3>5 DEF s, t
  <2>2. <<"copy">> \o <<"flush">> = <<"copy", "flush">>
    BY <1>0, StepsJoin
  <2>3. <<"copy", "flush">> \o <<"allocated">> = <<"copy", "flush", "allocated">>
    BY <1>0, <2>1
  <2>. QED
    BY <2>2, <2>3, Zenon DEF Finishing, MeshCopy
<1>4. <<"flush", "copy">> \o <<"flush">> \o Finishing = Flushing(MeshCopy)
  <2>1. /\ <<"flush">> \in Seq(Steps) /\ <<"copy">> \in Seq(Steps) /\ Finishing \in Seq(Steps)
        /\ <<"copy">> \o <<"flush">> \in Seq(Steps)
    BY <1>0, AfterFlushSteps DEF AfterFlush
  <2>2. /\ (<<"flush">> \o <<"copy">>) \o <<"flush">> = <<"flush">> \o (<<"copy">> \o <<"flush">>)
        /\ (<<"flush">> \o (<<"copy">> \o <<"flush">>)) \o Finishing
             = <<"flush">> \o ((<<"copy">> \o <<"flush">>) \o Finishing)
    BY <1>0, <2>1, StepsJoin
  <2>. QED
    BY <1>1, <1>3, <2>2, Zenon DEF Flushing
<1>5. <<"flush", "growWait", "initialData", "allocated">> = Flushing(Regrowing)
  <2>1. <<"flush">> \o <<"growWait", "initialData", "allocated">>
          = <<"flush", "growWait", "initialData", "allocated">>
    BY <1>0, <1>2
  <2>. QED
    BY <2>1, Zenon DEF Flushing, Regrowing
<1>. QED
  BY <1>1, <1>3, <1>4, <1>5, Zenon DEF Flushing, Copying, Submitting, Starting
(* Which stage each shape is at.                                             *)
NoStage(c) ==
  /\ ~Waiting(c) /\ ~Growing(c) /\ ~Allocating(c) /\ ~ToSubmit(c) /\ ~AtCopy(c)
  /\ c # Finishing /\ c # Flushing(Finishing) /\ c # Submitting

LEMMA Stages ==
  /\ \A c \in {<<>>} \cup Blocking : NoStage(c)
  /\ /\ Allocating(Starting) /\ ~Waiting(Starting) /\ ~Growing(Starting)
     /\ ~ToSubmit(Starting) /\ ~AtCopy(Starting) /\ Starting # Finishing
     /\ Starting # Flushing(Finishing) /\ Starting # Submitting
  /\ \A t \in AfterFlush : \A c \in {t, Flushing(t), Uploading(t)} :
       /\ Growing(c) <=> t = Regrowing
       /\ Allocating(c) <=> t \in {MeshCopy, Finishing}
       /\ ToSubmit(c) <=> t = Submitting
       /\ Waiting(c) <=> c = Uploading(t)
       /\ c # t => ~AtCopy(c) /\ c # Finishing /\ c # Submitting
       /\ c = Flushing(Finishing) <=> c = Flushing(t) /\ t = Finishing
<1>0. {Copying, MeshCopy, Submitting, Finishing, Regrowing} = AfterFlush
  BY DEF AfterFlush
<1>1. ASSUME NEW c \in {<<>>, Starting} \cup Blocking
      PROVE  /\ ~Waiting(c) /\ ~AtCopy(c) /\ c # Finishing /\ c # Flushing(Finishing)
             /\ c # Submitting /\ ~Growing(c) /\ ~ToSubmit(c)
             /\ ~Ahead(c, MeshCopy) /\ ~Ahead(c, Finishing)
  BY <1>0, ShapesApart DEF Waiting, AtCopy, Growing, ToSubmit, Ahead
<1>2. \A c \in {<<>>} \cup Blocking : NoStage(c)
  BY <1>1, ShapesApart DEF NoStage, Allocating
<1>3. Allocating(Starting)
  BY DEF Allocating
<1>4. ASSUME NEW t \in AfterFlush, NEW c \in {t, Flushing(t), Uploading(t)}
      PROVE  /\ Growing(c) <=> t = Regrowing
             /\ Allocating(c) <=> t \in {MeshCopy, Finishing}
             /\ ToSubmit(c) <=> t = Submitting
             /\ Waiting(c) <=> c = Uploading(t)
             /\ c # t => ~AtCopy(c) /\ c # Finishing /\ c # Submitting
             /\ c = Flushing(Finishing) <=> c = Flushing(t) /\ t = Finishing
  <2>1. \A u \in AfterFlush : Ahead(c, u) <=> t = u
    BY <1>4, ShapesApart DEF Ahead
  <2>2. c # Starting
    BY <1>4, ShapesApart
  <2>3. /\ Growing(c) <=> t = Regrowing
        /\ Allocating(c) <=> t \in {MeshCopy, Finishing}
        /\ ToSubmit(c) <=> t = Submitting
    BY <1>0, <2>1, <2>2 DEF Growing, Allocating, ToSubmit
  <2>4. Waiting(c) <=> c = Uploading(t)
    BY <1>4, ShapesApart DEF Waiting
  <2>5. c # t => c \notin AfterFlush
    BY <1>4, ShapesApart
  <2>6. c = Flushing(Finishing) <=> c = Flushing(t) /\ t = Finishing
    BY <1>0, <1>4, ShapesApart
  <2>. QED
    BY <1>0, <2>3, <2>4, <2>5, <2>6 DEF AtCopy
<1>. QED
  BY <1>1, <1>2, <1>3, <1>4
-----------------------------------------------------------------------------
(* The queue and its fences                                                  *)

(* Steps that leave the queue and the fence values alone.                    *)
LEMMA Quiet ==
  ASSUME QueueSound,
         UNCHANGED <<queueVars, frameVars, maxFence, stagingFenceVal, running, sceneAlive>>,
         Waiting(calls') => Waiting(calls),
         ~Waiting(calls') => ~Waiting(calls) \/ execs = {},
         calls # <<"exitWait">>, calls' # <<"exitWait">>
  PROVE  QueueSound'
<1>1. UNCHANGED <<submits, execs, signals, fence, currentFrameIndex, currentFenceVal, fence_vals>>
  BY DEF queueVars, frameVars
<1>2. MainPromise' /\ GraphPromise'
  BY <1>1 DEF QueueSound, Promises, MainPromise, GraphPromise, Promised, PromisedBy, Pending
<1>3. StagingPromise'
  BY <1>1 DEF QueueSound, Promises, StagingPromise, Promised, PromisedBy
<1>4. FlushPromise'
  BY <1>1 DEF QueueSound, Promises, FlushPromise, Promised, PromisedBy
<1>5. (~Waiting(calls) => Pending("staging") = {})'
  BY <1>1 DEF QueueSound, Pending
<1>6. LastStored' /\ SceneResourcesIdle' /\ IdleAtExit'
  BY <1>1 DEF QueueSound, LastStored, SceneResourcesIdle, IdleAtExit, Pending
<1>. QED
  BY <1>2, <1>3, <1>4, <1>5, <1>6 DEF QueueSound, Promises

(* A call as the client starts it waits for nothing yet.                     *)
LEMMA NotYetWaiting ==
  /\ ~Waiting(<<>>) /\ <<>> # <<"exitWait">>
  /\ \A c \in {Copying, Flushing(Copying), Starting, Flushing(Regrowing), Flushing(Submitting),
               <<"graphWait">>, <<"resizeWait">>} :
       ~Waiting(c) /\ c # <<"exitWait">>
<1>1. /\ {Copying, Regrowing, Submitting} \subseteq AfterFlush
      /\ {<<"graphWait">>, <<"resizeWait">>, <<"exitWait">>} \subseteq Blocking
  BY DEF AfterFlush, Blocking
<1>2. <<"graphWait">> # <<"exitWait">> /\ <<"resizeWait">> # <<"exitWait">>
  OBVIOUS
<1>. QED
  BY <1>1, <1>2, Stages, ShapesApart DEF NoStage

(* Client code that submits nothing.                                         *)
LEMMA ClientQuiet ==
  ASSUME SafetyInv,
         \/ \E u \in Updates : PushUpdate(u)
         \/ \E u \in MeshData : AllocateVertexBuffer(u) \/ GrowVertexBuffer(u)
         \/ SubmitToQueue \/ DestroyScene \/ Resize
  PROVE  QueueSound'
<1>1. /\ calls = <<>>
      /\ UNCHANGED <<queueVars, frameVars, maxFence, stagingFenceVal, running, sceneAlive>>
  BY DEF PushUpdate, AllocateVertexBuffer, GrowVertexBuffer, SubmitToQueue, DestroyScene, Resize,
         InClient, stagingVars, sceneVars
<1>2. calls' \in {Copying, Flushing(Copying), Starting, Flushing(Regrowing),
                 Flushing(Submitting), <<"graphWait">>, <<"resizeWait">>}
  BY CallsStarted DEF PushUpdate, PushSteps, AllocateVertexBuffer, GrowVertexBuffer,
                      SubmitToQueue, DestroyScene, Resize
<1>3. /\ ~Waiting(calls) /\ ~Waiting(calls')
      /\ calls # <<"exitWait">> /\ calls' # <<"exitWait">>
  BY <1>1, <1>2, NotYetWaiting
<1>. QED
  BY <1>1, <1>3, Quiet DEF SafetyInv
(* How each step of a call moves it on.                                      *)
LEMMA CallMoves ==
  ASSUME CallSound
  PROVE  /\ WriteStaging => \/ calls = Copying /\ calls' = <<>>
                            \/ calls = MeshCopy /\ calls' = Flushing(Finishing)
         /\ FlushStagingBuffer => \E t \in AfterFlush :
              calls = Flushing(t) /\ calls' = IF outstandingResourceUpdate THEN Uploading(t) ELSE t
         /\ StagingWait => \E t \in AfterFlush : calls = Uploading(t) /\ calls' = t
         /\ GrowWait => calls = Regrowing /\ calls' = Starting
         /\ UploadInitialData =>
              calls = Starting /\ calls' = IF HasRoom(request) THEN MeshCopy ELSE Flushing(MeshCopy)
         /\ Allocated => calls = Finishing /\ calls' = <<>>
         /\ SubmitGraph => calls = Submitting /\ calls' = <<>>
         /\ GraphWait => calls = <<"graphWait">> /\ calls' = <<>>
         /\ FrameWait => calls = <<"frameWait">> /\ calls' = <<>>
         /\ ResizeWait => calls = <<"resizeWait">> /\ calls' = <<>>
         /\ ExitWait => calls = <<"exitWait">> /\ calls' = <<>>
<1>. calls # <<>> => calls \in CallShapes /\ calls # <<>>
  BY DEF CallSound
<1>1. WriteStaging => \/ calls = Copying /\ calls' = <<>>
                      \/ calls = MeshCopy /\ calls' = Flushing(Finishing)
  BY CallAt DEF WriteStaging, AtStep, Return
<1>2. FlushStagingBuffer => \E t \in AfterFlush :
        calls = Flushing(t) /\ calls' = IF outstandingResourceUpdate THEN Uploading(t) ELSE t
  BY CallAt DEF FlushStagingBuffer, AtStep, Return, Uploading
<1>3. StagingWait => \E t \in AfterFlush : calls = Uploading(t) /\ calls' = t
  BY CallAt DEF StagingWait, AtStep, Return
<1>4. GrowWait => calls = Regrowing /\ calls' = Starting
  BY CallAt DEF GrowWait, AtStep, Return
<1>5. UploadInitialData =>
        calls = Starting /\ calls' = IF HasRoom(request) THEN MeshCopy ELSE Flushing(MeshCopy)
  <2>1. UploadInitialData => calls = Starting /\ Tail(calls) = Finishing
                              /\ calls' = PushSteps(request) \o <<"flush">> \o Tail(calls)
    BY CallAt DEF UploadInitialData, AtStep
  <2>. QED
    BY <2>1, CallsStarted, Zenon DEF PushSteps
<1>6. /\ Allocated => calls = Finishing /\ calls' = <<>>
      /\ SubmitGraph => calls = Submitting /\ calls' = <<>>
  BY CallAt DEF Allocated, SubmitGraph, AtStep, Return
<1>7. /\ GraphWait => calls = <<"graphWait">> /\ calls' = <<>>
      /\ FrameWait => calls = <<"frameWait">> /\ calls' = <<>>
      /\ ResizeWait => calls = <<"resizeWait">> /\ calls' = <<>>
      /\ ExitWait => calls = <<"exitWait">> /\ calls' = <<>>
  BY CallAt DEF GraphWait, FrameWait, ResizeWait, ExitWait, AtStep, Return
<1>. QED
  BY <1>1, <1>2, <1>3, <1>4, <1>5, <1>6, <1>7
(* When the wait for an upload ends, the queue has nothing left: the fence's *)
(* signal stands behind every list (FlushStagingBuffer).                     *)
LEMMA UploadEmptiesQueue ==
  ASSUME SafetyInv, StagingWait
  PROVE  execs = {}
<1>1. Waiting(calls)
  BY CallMoves DEF SafetyInv, Waiting
<1>2. fence["staging"] >= stagingFenceVal
  BY DEF StagingWait, Reached
<1>3. fence["staging"] \in Nat /\ stagingFenceVal \in Nat
  BY DEF SafetyInv, FrameInv, TypeOK, Fences
<1>. QED
  BY <1>1, <1>2, <1>3 DEF SafetyInv, QueueSound, Promises, StagingPromise, Promised, PromisedBy

(* Steps of a call that submit nothing.                                      *)
LEMMA CpuQuiet ==
  ASSUME SafetyInv,
         \/ WriteStaging \/ (FlushStagingBuffer /\ ~outstandingResourceUpdate) \/ StagingWait
         \/ GrowWait \/ UploadInitialData \/ Allocated \/ FrameWait \/ ResizeWait
  PROVE  QueueSound'
<1>0. CallSound /\ AfterFlush = {Copying, MeshCopy, Submitting, Finishing, Regrowing}
      /\ {<<"frameWait">>, <<"resizeWait">>, <<"exitWait">>} \subseteq Blocking
  BY DEF SafetyInv, AfterFlush, Blocking
<1>1. UNCHANGED <<queueVars, frameVars, maxFence, stagingFenceVal, running, sceneAlive>>
  BY DEF WriteStaging, FlushStagingBuffer, StagingWait, GrowWait, UploadInitialData, Allocated,
         FrameWait, ResizeWait, stagingVars, sceneVars
<1>2. \A t \in AfterFlush :
        /\ ~Waiting(t) /\ ~Waiting(Flushing(t)) /\ Waiting(Uploading(t))
        /\ t # <<"exitWait">> /\ Flushing(t) # <<"exitWait">> /\ Uploading(t) # <<"exitWait">>
  BY <1>0, ShapesApart, Stages
<1>3. /\ ~Waiting(Starting) /\ Starting # <<"exitWait">>
      /\ ~Waiting(<<>>) /\ <<>> # <<"exitWait">>
      /\ ~Waiting(<<"frameWait">>) /\ ~Waiting(<<"resizeWait">>)
      /\ <<"frameWait">> # <<"exitWait">> /\ <<"resizeWait">> # <<"exitWait">>
  BY <1>0, ShapesApart, Stages DEF NoStage
<1>4. CASE ~StagingWait
  <2>1. /\ ~Waiting(calls) /\ ~Waiting(calls')
        /\ calls # <<"exitWait">> /\ calls' # <<"exitWait">>
    BY <1>0, <1>2, <1>3, <1>4, CallMoves
  <2>. QED
    BY <1>1, <2>1, Quiet DEF SafetyInv
<1>5. CASE StagingWait
  <2>1. Waiting(calls) /\ calls # <<"exitWait">> /\ calls' # <<"exitWait">> /\ execs = {}
    BY <1>0, <1>2, <1>5, CallMoves, UploadEmptiesQueue
  <2>. QED
    BY <1>1, <2>1, Quiet DEF SafetyInv
<1>. QED
  BY <1>4, <1>5

(* A wait that ends the call of a scene's destruction or of the application. *)
LEMMA GraphWaitSound ==
  ASSUME SafetyInv, GraphWait
  PROVE  QueueSound'
<1>1. /\ UNCHANGED <<queueVars, frameVars, maxFence, stagingFenceVal, running>>
      /\ calls = <<"graphWait">> /\ calls' = <<>> /\ fence["graph"] >= maxFence
  BY CallMoves DEF SafetyInv, GraphWait, stagingVars, Reached
<1>2. fence["graph"] \in Nat /\ maxFence \in Nat
  BY DEF SafetyInv, FrameInv, TypeOK, Fences
<1>3. Pending("graph") = {}
  BY <1>1, <1>2 DEF SafetyInv, QueueSound, Promises, GraphPromise, Promised, PromisedBy
<1>4. /\ ~Waiting(calls) /\ ~Waiting(calls') /\ calls # <<"exitWait">> /\ calls' # <<"exitWait">>
  BY <1>1, NotYetWaiting
<1>5. UNCHANGED <<submits, execs, signals, fence, currentFrameIndex, currentFenceVal, fence_vals>>
  BY <1>1 DEF queueVars, frameVars
<1>6. Promises'
  BY <1>1, <1>4, <1>5 DEF SafetyInv, QueueSound, Promises, MainPromise, GraphPromise, StagingPromise,
                    FlushPromise, Promised, PromisedBy, Pending
<1>7. LastStored' /\ SceneResourcesIdle' /\ IdleAtExit' /\ Pending("staging")' = {}
  BY <1>1, <1>3, <1>4, <1>5 DEF SafetyInv, QueueSound, LastStored, SceneResourcesIdle, IdleAtExit, Pending
<1>. QED
  BY <1>6, <1>7 DEF QueueSound

(* When FlushGPU's wait ends nothing is left in the queue.                   *)
LEMMA ExitWaitSound ==
  ASSUME SafetyInv, ExitWait
  PROVE  QueueSound'
<1>1. /\ UNCHANGED <<queueVars, frameVars, maxFence, stagingFenceVal, sceneAlive>> /\ running' = FALSE
      /\ calls = <<"exitWait">> /\ calls' = <<>> /\ fence["flush"] >= 1
  BY CallMoves DEF SafetyInv, ExitWait, stagingVars, sceneVars, Reached
<1>2. fence["flush"] \in Nat
  BY DEF SafetyInv, FrameInv, TypeOK, Fences
<1>3. execs = {}
  BY <1>1, <1>2 DEF SafetyInv, QueueSound, Promises, FlushPromise, Promised, PromisedBy
<1>4. ~Waiting(calls') /\ ~Waiting(calls) /\ calls' # <<"exitWait">>
  <2>1. <<"exitWait">> \in {<<>>} \cup Blocking
    BY DEF Blocking
  <2>. QED
    BY <1>1, <2>1, NotYetWaiting, Stages DEF NoStage
<1>5. UNCHANGED <<submits, execs, signals, fence, currentFrameIndex, currentFenceVal, fence_vals>>
  BY <1>1 DEF queueVars, frameVars
<1>6. MainPromise' /\ GraphPromise'
  BY <1>1, <1>5 DEF SafetyInv, QueueSound, Promises, MainPromise, GraphPromise, Promised, PromisedBy, Pending
<1>7. StagingPromise' /\ FlushPromise'
  BY <1>1, <1>3, <1>4, <1>5 DEF SafetyInv, QueueSound, Promises, StagingPromise, FlushPromise,
                               Promised, PromisedBy
<1>8. LastStored' /\ SceneResourcesIdle' /\ IdleAtExit' /\ Pending("staging")' = {}
  BY <1>1, <1>3, <1>5 DEF SafetyInv, QueueSound, LastStored, SceneResourcesIdle, IdleAtExit, Pending
<1>. QED
  BY <1>6, <1>7, <1>8 DEF QueueSound, Promises
(* The queue runs on.                                                        *)
LEMMA GpuQuiet ==
  ASSUME SafetyInv, Gpu
  PROVE  QueueSound'
<1>1. /\ UNCHANGED <<frameVars, sceneAlive, maxFence, stagingFenceVal, running, calls>>
      /\ execs' \subseteq execs
  BY DEF Gpu, FinishList, SignalFence, stagingVars, sceneVars
<1>2. FrameInv /\ {"main", "staging", "graph", "flush"} \subseteq Fences
      /\ currentFenceVal \in Nat /\ maxFence \in Nat /\ stagingFenceVal \in Nat
  BY DEF SafetyInv, FrameInv, TypeOK, Fences
<1>3. ASSUME NEW l PROVE Pending(l)' \subseteq Pending(l)
  BY <1>1 DEF Pending
<1>4. MainPromise'
  <2>1. Pending("main") \in SUBSET execs /\ Pending("main")' \in SUBSET execs'
        /\ Promised("main", Pending("main"), currentFenceVal)
    BY DEF Pending, SafetyInv, QueueSound, Promises, MainPromise
  <2>2. PromisedBy(fence', signals', "main", Pending("main")', currentFenceVal)
    BY <1>2, <1>3, <2>1, PromiseKept
  <2>. QED
    BY <1>1, <2>2 DEF MainPromise, Promised, PromisedBy, frameVars
<1>5. GraphPromise'
  <2>1. Pending("graph") \in SUBSET execs /\ Pending("graph")' \in SUBSET execs'
        /\ Promised("graph", Pending("graph"), maxFence)
    BY DEF Pending, SafetyInv, QueueSound, Promises, GraphPromise
  <2>2. PromisedBy(fence', signals', "graph", Pending("graph")', maxFence)
    BY <1>2, <1>3, <2>1, PromiseKept
  <2>. QED
    BY <1>1, <2>2 DEF GraphPromise, Promised, PromisedBy
<1>6. StagingPromise'
  <2>. DEFINE E == IF Waiting(calls) THEN execs ELSE {}
              E2 == IF Waiting(calls') THEN execs' ELSE {}
  <2>1. E \in SUBSET execs /\ E2 \in SUBSET execs' /\ E2 \subseteq E /\ Promised("staging", E, stagingFenceVal)
    BY <1>1 DEF SafetyInv, QueueSound, Promises, StagingPromise
  <2>. HIDE DEF E, E2
  <2>2. PromisedBy(fence', signals', "staging", E2, stagingFenceVal)
    BY <1>2, <2>1, PromiseKept
  <2>. QED
    BY <1>1, <2>2 DEF StagingPromise, Promised, PromisedBy, E2
<1>7. FlushPromise'
  <2>1. ASSUME calls = <<"exitWait">> PROVE Promised("flush", execs, 1)'
    <3>1. Promised("flush", execs, 1)
      BY <2>1 DEF SafetyInv, QueueSound, Promises, FlushPromise
    <3>2. PromisedBy(fence', signals', "flush", execs', 1)
      BY <1>1, <1>2, <3>1, PromiseKept
    <3>. QED
      BY <3>2 DEF Promised
  <2>2. ASSUME running, calls # <<"exitWait">> PROVE Promised("flush", {}, 0)'
    <3>1. Promised("flush", {}, 0)
      BY <2>2 DEF SafetyInv, QueueSound, Promises, FlushPromise
    <3>2. PromisedBy(fence', signals', "flush", {}, 0)
      BY <1>2, <3>1, PromiseKept
    <3>. QED
      BY <3>2 DEF Promised
  <2>. QED
    BY <1>1, <2>1, <2>2 DEF FlushPromise
<1>8. LastStored' /\ SceneResourcesIdle' /\ IdleAtExit'
  BY <1>1, <1>3 DEF SafetyInv, QueueSound, LastStored, SceneResourcesIdle, IdleAtExit, frameVars
<1>9. (~Waiting(calls) => Pending("staging") = {})'
  BY <1>1, <1>3 DEF SafetyInv, QueueSound
<1>. QED
  BY <1>4, <1>5, <1>6, <1>7, <1>8, <1>9 DEF QueueSound, Promises
(* What a submission leaves promised, and what its signal promises.          *)
LEMMA Submitted ==
  ASSUME SafetyInv, NEW exec, exec.at = submits, NEW g \in {"main", "graph", "staging"},
         exec.list = g, NEW val \in Nat, ExecuteAndSignal(exec, g, val),
         calls # <<"exitWait">>, calls' # <<"exitWait">>, UNCHANGED running,
         currentFenceVal' = (IF g = "main" THEN val ELSE currentFenceVal),
         maxFence' = (IF g = "graph" THEN val ELSE maxFence),
         stagingFenceVal' = (IF g = "staging" THEN val ELSE stagingFenceVal),
         g = "main" => val = currentFenceVal + 1,
         g = "graph" => val = maxFence + 1,
         g = "staging" => val = stagingFenceVal + 1,
         Waiting(calls) = FALSE, Waiting(calls') => g = "staging"
  PROVE  Promises'
<1>1. FrameInv /\ {"main", "staging", "graph", "flush"} \subseteq Fences /\ g \in Fences
      /\ currentFenceVal \in Nat /\ maxFence \in Nat /\ stagingFenceVal \in Nat
      /\ 0 \in Nat /\ {} \in SUBSET execs /\ {} \in SUBSET execs' /\ execs' \in SUBSET execs'
  BY DEF SafetyInv, FrameInv, TypeOK, Fences
<1>2. ASSUME NEW l, l # g PROVE Pending(l)' = Pending(l)
  BY <1>2 DEF Pending, ExecuteAndSignal
<1>3. MainPromise'
  <2>1. Pending("main") \in SUBSET execs /\ Pending("main")' \in SUBSET execs'
        /\ Promised("main", Pending("main"), currentFenceVal)
    BY DEF Pending, SafetyInv, QueueSound, Promises, MainPromise
  <2>2. CASE g = "main"
    <3>1. PromisedBy(fence', signals', "main", Pending("main")', currentFenceVal + 1)
      BY <1>1, <2>1, <2>2, PromiseMade
    <3>. QED
      BY <2>2, <3>1 DEF MainPromise, Promised
  <2>3. CASE g # "main"
    <3>1. PromisedBy(fence', signals', "main", Pending("main"), currentFenceVal)
      BY <1>1, <2>1, <2>3, PromiseMade
    <3>. QED
      BY <1>2, <2>3, <3>1 DEF MainPromise, Promised
  <2>. QED
    BY <2>2, <2>3
<1>4. GraphPromise'
  <2>1. Pending("graph") \in SUBSET execs /\ Pending("graph")' \in SUBSET execs'
        /\ Promised("graph", Pending("graph"), maxFence)
    BY DEF Pending, SafetyInv, QueueSound, Promises, GraphPromise
  <2>2. CASE g = "graph"
    <3>1. PromisedBy(fence', signals', "graph", Pending("graph")', maxFence + 1)
      BY <1>1, <2>1, <2>2, PromiseMade
    <3>. QED
      BY <2>2, <3>1 DEF GraphPromise, Promised
  <2>3. CASE g # "graph"
    <3>1. PromisedBy(fence', signals', "graph", Pending("graph"), maxFence)
      BY <1>1, <2>1, <2>3, PromiseMade
    <3>. QED
      BY <1>2, <2>3, <3>1 DEF GraphPromise, Promised
  <2>. QED
    BY <2>2, <2>3
<1>5. StagingPromise'
  <2>1. Promised("staging", {}, stagingFenceVal)
    BY DEF SafetyInv, QueueSound, Promises, StagingPromise
  <2>2. CASE g = "staging"
    <3>1. /\ PromisedBy(fence', signals', "staging", execs', stagingFenceVal + 1)
          /\ PromisedBy(fence', signals', "staging", {}, stagingFenceVal + 1)
      BY <1>1, <2>1, <2>2, PromiseMade
    <3>. QED
      BY <2>2, <3>1 DEF StagingPromise, Promised
  <2>3. CASE g # "staging"
    <3>1. PromisedBy(fence', signals', "staging", {}, stagingFenceVal)
      BY <1>1, <2>1, <2>3, PromiseMade
    <3>. QED
      BY <2>3, <3>1 DEF StagingPromise, Promised
  <2>. QED
    BY <2>2, <2>3
<1>6. FlushPromise'
  <2>1. ASSUME running PROVE Promised("flush", {}, 0)'
    <3>1. Promised("flush", {}, 0)
      BY <2>1 DEF SafetyInv, QueueSound, Promises, FlushPromise
    <3>2. g # "flush"
      OBVIOUS
    <3>3. PromisedBy(fence', signals', "flush", {}, 0)
      BY <1>1, <3>1, <3>2, PromiseMade
    <3>. QED
      BY <3>3 DEF Promised
  <2>. QED
    BY <2>1 DEF FlushPromise
<1>. QED
  BY <1>3, <1>4, <1>5, <1>6 DEF Promises
(* The slot before the next one is the current one.                          *)
LEMMA SlotBefore ==
  ASSUME NEW i \in Slots
  PROVE  /\ (((i + 1) % NumFrames) + NumFrames - 1) % NumFrames = i
         /\ (i + NumFrames - 1) % NumFrames \in Slots
<1>1. NumFrames \in Nat /\ NumFrames > 0 /\ i \in Nat /\ i < NumFrames
  BY NumFramesAssumption DEF Slots
<1>2. (((i + 1) % NumFrames) + NumFrames - 1) % NumFrames = i
  <2>1. CASE i + 1 < NumFrames
    <3>1. (i + 1) % NumFrames = i + 1
      BY <1>1, <2>1, SMT
    <3>2. (i + 1) + NumFrames - 1 = i + NumFrames
      BY <1>1
    <3>3. (i + NumFrames) % NumFrames = i
      BY <1>1, SMT
    <3>. QED
      BY <3>1, <3>2, <3>3
  <2>2. CASE i + 1 = NumFrames
    <3>1. (i + 1) % NumFrames = 0
      BY <1>1, <2>2, SMT
    <3>2. 0 + NumFrames - 1 = i /\ i % NumFrames = i
      BY <1>1, <2>2, SMT
    <3>. QED
      BY <3>1, <3>2
  <2>. QED
    BY <1>1, <2>1, <2>2
<1>3. (i + NumFrames - 1) % NumFrames \in 0 .. NumFrames - 1
  BY <1>1, SMT
<1>. QED
  BY <1>2, <1>3 DEF Slots

(* FlushStagingBuffer: the signal covers the whole queue.                    *)
LEMMA FlushSubmits ==
  ASSUME SafetyInv, FlushStagingBuffer, outstandingResourceUpdate
  PROVE  QueueSound'
<1>. DEFINE exec == Submission("staging", StagingAllocator, stagedCopies, stagedBuffers)
<1>1. /\ UNCHANGED <<frameVars, maxFence, sceneAlive, running>> /\ running
      /\ stagingFenceVal' = stagingFenceVal + 1
      /\ ExecuteAndSignal(exec, "staging", stagingFenceVal + 1)
  BY DEF FlushStagingBuffer, sceneVars, AtStep
<1>2. PICK t \in AfterFlush : calls = Flushing(t) /\ calls' = Uploading(t)
  BY CallMoves DEF SafetyInv
<1>3. /\ Waiting(calls) = FALSE /\ Waiting(calls')
      /\ calls # <<"exitWait">> /\ calls' # <<"exitWait">>
  <2>1. <<"exitWait">> \in Blocking
    BY DEF Blocking
  <2>2. Flushing(t) # Uploading(t)
    BY ShapesApart
  <2>3. Waiting(calls) \in BOOLEAN
    BY DEF Waiting
  <2>. QED
    BY <1>2, <2>1, <2>2, <2>3, Stages, ShapesApart
<1>4. exec.at = submits /\ exec.list = "staging"
  BY DEF Submission
<1>. HIDE DEF exec
<1>5. Promises'
  <2>1. stagingFenceVal + 1 \in Nat /\ UNCHANGED currentFenceVal
    BY <1>1 DEF SafetyInv, FrameInv, TypeOK, frameVars
  <2>. QED
    BY <1>1, <1>3, <1>4, <2>1, Submitted
<1>6. Pending("graph")' = Pending("graph")
  BY <1>1, <1>4 DEF Pending, ExecuteAndSignal
<1>7. LastStored' /\ SceneResourcesIdle' /\ IdleAtExit'
  BY <1>1, <1>6 DEF SafetyInv, QueueSound, LastStored, SceneResourcesIdle, IdleAtExit, frameVars
<1>. QED
  BY <1>3, <1>5, <1>7 DEF QueueSound

(* SubmitToQueue: the scene whose graph is submitted is alive.               *)
LEMMA GraphSubmits ==
  ASSUME SafetyInv, SubmitGraph
  PROVE  QueueSound'
<1>. DEFINE exec == Submission("graph", currentFrameIndex, {}, {vertexBuffer})
<1>1. /\ UNCHANGED <<frameVars, stagingFenceVal, sceneAlive, running>> /\ running
      /\ maxFence' = maxFence + 1
      /\ ExecuteAndSignal(exec, "graph", maxFence + 1)
  BY DEF SubmitGraph, stagingVars, AtStep
<1>2. calls = Submitting /\ calls' = <<>>
  BY CallMoves DEF SafetyInv
<1>3. /\ Waiting(calls) = FALSE /\ ~Waiting(calls') /\ ToSubmit(calls)
      /\ calls # <<"exitWait">> /\ calls' # <<"exitWait">>
  <2>1. <<"exitWait">> \in Blocking /\ Submitting \in AfterFlush
    BY DEF Blocking, AfterFlush
  <2>2. Waiting(calls) \in BOOLEAN
    BY DEF Waiting
  <2>. QED
    BY <1>2, <2>1, <2>2, Stages, ShapesApart, NotYetWaiting
<1>4. exec.at = submits /\ exec.list = "graph"
  BY DEF Submission
<1>. HIDE DEF exec
<1>5. Promises'
  <2>1. maxFence + 1 \in Nat /\ UNCHANGED currentFenceVal
    BY <1>1 DEF SafetyInv, FrameInv, TypeOK, frameVars
  <2>. QED
    BY <1>1, <1>3, <1>4, <2>1, Submitted
<1>6. Pending("staging")' = {}
  BY <1>1, <1>3, <1>4 DEF Pending, ExecuteAndSignal, SafetyInv, QueueSound
<1>7. sceneAlive
  BY <1>3 DEF SafetyInv, GraphSound
<1>8. LastStored' /\ SceneResourcesIdle' /\ IdleAtExit'
  BY <1>1, <1>7 DEF SafetyInv, QueueSound, LastStored, SceneResourcesIdle, IdleAtExit, frameVars
<1>. QED
  BY <1>5, <1>6, <1>8 DEF QueueSound

(* EndFrame: the value promised is the one stored for the slot.              *)
LEMMA FrameSubmits ==
  ASSUME SafetyInv, EndFrame
  PROVE  QueueSound'
<1>. DEFINE exec == Submission("main", currentFrameIndex, {}, {})
<1>1. /\ UNCHANGED <<stagingFenceVal, maxFence, sceneAlive, running>> /\ running
      /\ currentFenceVal' = currentFenceVal + 1
      /\ fence_vals' = [fence_vals EXCEPT ![currentFrameIndex] = currentFenceVal + 1]
      /\ currentFrameIndex' = (currentFrameIndex + 1) % NumFrames
      /\ ExecuteAndSignal(exec, "main", currentFenceVal + 1)
      /\ calls = <<>> /\ calls' = <<"frameWait">>
  BY DEF EndFrame, stagingVars, sceneVars, InClient
<1>2. /\ Waiting(calls) = FALSE /\ ~Waiting(calls')
      /\ calls # <<"exitWait">> /\ calls' # <<"exitWait">>
  <2>1. <<"frameWait">> \in {<<>>} \cup Blocking /\ <<"frameWait">> # <<"exitWait">>
    BY DEF Blocking
  <2>2. Waiting(calls) \in BOOLEAN
    BY DEF Waiting
  <2>. QED
    BY <1>1, <2>1, <2>2, Stages, NotYetWaiting DEF NoStage
<1>3. exec.at = submits /\ exec.list = "main"
  BY DEF Submission
<1>. HIDE DEF exec
<1>4. Promises'
  <2>1. currentFenceVal + 1 \in Nat
    BY DEF SafetyInv, FrameInv, TypeOK
  <2>. QED
    BY <1>1, <1>2, <1>3, <2>1, Submitted
<1>5. Pending("staging")' = {} /\ Pending("graph")' = Pending("graph")
  BY <1>1, <1>2, <1>3 DEF Pending, ExecuteAndSignal, SafetyInv, QueueSound
<1>6. LastStored'
  <2>1. currentFrameIndex \in Slots /\ fence_vals \in [Slots -> Nat]
    BY DEF SafetyInv, FrameInv, TypeOK
  <2>2. (currentFrameIndex' + NumFrames - 1) % NumFrames = currentFrameIndex
    BY <1>1, <2>1, SlotBefore
  <2>. QED
    BY <1>1, <2>1, <2>2 DEF LastStored
<1>7. SceneResourcesIdle' /\ IdleAtExit'
  BY <1>1, <1>5 DEF SafetyInv, QueueSound, SceneResourcesIdle, IdleAtExit
<1>. QED
  BY <1>4, <1>5, <1>6, <1>7 DEF QueueSound

(* FlushGPU's signal is the last operation in the queue.                     *)
LEMMA ExitFlushes ==
  ASSUME SafetyInv, FlushGPU
  PROVE  QueueSound'
<1>1. /\ UNCHANGED <<frameVars, stagingFenceVal, maxFence, sceneAlive, running, execs, fence>> /\ running
      /\ signals' = signals \cup {[at |-> submits, fence |-> "flush", val |-> 1]}
      /\ calls = <<>> /\ calls' = <<"exitWait">>
  BY DEF FlushGPU, stagingVars, sceneVars, InClient
<1>2. ~Waiting(calls) /\ ~Waiting(calls') /\ calls # <<"exitWait">>
  <2>1. <<"exitWait">> \in {<<>>} \cup Blocking
    BY DEF Blocking
  <2>. QED
    BY <1>1, <2>1, Stages, NotYetWaiting DEF NoStage
<1>3. MainPromise' /\ GraphPromise'
  BY <1>1 DEF SafetyInv, QueueSound, Promises, MainPromise, GraphPromise, Promised, PromisedBy,
              Pending, frameVars
<1>4. StagingPromise'
  BY <1>1, <1>2 DEF SafetyInv, QueueSound, Promises, StagingPromise, Promised, PromisedBy
<1>5. FlushPromise'
  <2>1. Promised("flush", {}, 0) /\ FrameInv
    BY <1>1, <1>2 DEF SafetyInv, QueueSound, Promises, FlushPromise
  <2>2. fence["flush"] <= 0 /\ fence["flush"] \in Nat
    BY <2>1 DEF Promised, PromisedBy, FrameInv, TypeOK, Fences
  <2>3. \A s \in signals : s.fence = "flush" => s.val <= 0 /\ s.val \in Nat
    BY <2>1, QueueTyped DEF Promised, PromisedBy
  <2>4. \A s \in signals' : s.fence = "flush" => s.val <= 1 /\ (s.val = 1 => s.at = submits)
    BY <1>1, <2>3
  <2>5. Promised("flush", execs, 1)'
    BY <1>1, <2>1, <2>2, <2>4, QueueTyped DEF Promised, PromisedBy
  <2>. QED
    BY <1>1, <2>5 DEF FlushPromise
<1>6. LastStored' /\ SceneResourcesIdle' /\ IdleAtExit' /\ Pending("staging")' = {}
  BY <1>1, <1>2 DEF SafetyInv, QueueSound, LastStored, SceneResourcesIdle, IdleAtExit, frameVars, Pending
<1>. QED
  BY <1>3, <1>4, <1>5, <1>6 DEF QueueSound, Promises

(* Every step keeps promises, and with them what waits rely on.              *)
LEMMA QueueSoundStep ==
  ASSUME SafetyInv, [Next]_vars
  PROVE  QueueSound'
<1>1. CASE Client
  BY <1>1, ClientQuiet, FrameSubmits, ExitFlushes DEF Client
<1>2. CASE Cpu
  BY <1>2, CpuQuiet, FlushSubmits, GraphSubmits, GraphWaitSound, ExitWaitSound DEF Cpu
<1>3. CASE UNCHANGED vars
  BY <1>3 DEF vars, frameVars, queueVars, sceneVars, stagingVars, SafetyInv, QueueSound, Promises,
              MainPromise, GraphPromise, StagingPromise, FlushPromise, Promised, PromisedBy, Pending,
              LastStored, SceneResourcesIdle, IdleAtExit
<1>. QED
  BY <1>1, <1>2, <1>3, GpuQuiet DEF Next
-----------------------------------------------------------------------------
(* Calls                                                                     *)

(* A call is never at anything but one of the shapes.                        *)
LEMMA CallSoundStep ==
  ASSUME SafetyInv, [Next]_vars
  PROVE  CallSound'
<1>0. /\ CallSound /\ MeshData \subseteq Updates
      /\ AfterFlush = {Copying, MeshCopy, Submitting, Finishing, Regrowing}
      /\ <<>> \in CallShapes /\ Starting \in CallShapes
      /\ {<<"graphWait">>, <<"frameWait">>, <<"resizeWait">>, <<"exitWait">>} \subseteq CallShapes
      /\ \A t \in AfterFlush : t \in CallShapes /\ Flushing(t) \in CallShapes /\ Uploading(t) \in CallShapes
  BY UpdatesAssumption DEF SafetyInv, CallShapes, AfterFlush, Blocking
<1>1. ASSUME NEW u \in Updates, PushUpdate(u) PROVE CallSound'
  <2>1. request' = u /\ calls' \in {Copying, Flushing(Copying)}
    BY <1>1, CallsStarted DEF PushUpdate, PushSteps
  <2>. QED
    BY <1>0, <2>1 DEF CallSound
<1>2. ASSUME NEW u \in MeshData, AllocateVertexBuffer(u) \/ GrowVertexBuffer(u) PROVE CallSound'
  <2>1. request' = u /\ calls' \in {Starting, Flushing(Regrowing)}
    BY <1>2, CallsStarted DEF AllocateVertexBuffer, GrowVertexBuffer
  <2>. QED
    BY <1>0, <2>1 DEF CallSound
<1>3. CASE SubmitToQueue \/ DestroyScene \/ EndFrame \/ Resize \/ FlushGPU
  <2>1. /\ request' = request
        /\ calls' \in {Flushing(Submitting), <<"graphWait">>, <<"frameWait">>, <<"resizeWait">>,
                       <<"exitWait">>}
    BY <1>3, CallsStarted DEF SubmitToQueue, DestroyScene, EndFrame, Resize, FlushGPU
  <2>. QED
    BY <1>0, <2>1 DEF CallSound
<1>4. CASE Cpu
  <2>1. request' = request
    BY <1>4 DEF Cpu, WriteStaging, FlushStagingBuffer, StagingWait, GrowWait, UploadInitialData,
                Allocated, SubmitGraph, GraphWait, FrameWait, ResizeWait, ExitWait
  <2>2. calls' \in CallShapes
    BY <1>0, <1>4, CallMoves DEF Cpu
  <2>. QED
    BY <1>0, <2>1, <2>2 DEF CallSound
<1>5. CASE Gpu \/ UNCHANGED vars
  <2>1. request' = request /\ calls' = calls
    BY <1>5 DEF Gpu, FinishList, SignalFence, vars
  <2>. QED
    BY <1>0, <2>1 DEF CallSound
<1>. QED
  BY <1>1, <1>2, <1>3, <1>4, <1>5 DEF Next, Client

-----------------------------------------------------------------------------
(* Uploads                                                                   *)

(* An update that has room fits, and after a flush any does.                 *)
LEMMA RoomFits ==
  ASSUME TypeOK, staginBufferPortionUsed <= StagingBufferSize, NEW u \in Updates
  PROVE  /\ HasRoom(u) => CopyFits(u, staginBufferPortionUsed)
         /\ CopyFits(u, 0)
<1>1. /\ u.texture \in BOOLEAN /\ u.size \in Nat /\ u.align \in Nat \ {0}
      /\ ~u.texture => u.align = 1
      /\ staginBufferPortionUsed \in Nat /\ StagingBufferSize \in Nat
  BY UpdatesAssumption, StagingAssumption DEF TypeOK, Update
<1>2. AlignUp(staginBufferPortionUsed, u.align) \in Nat
  BY <1>1, AlignUpType
<1>3. AlignUp(staginBufferPortionUsed, 1) = staginBufferPortionUsed
  BY <1>1 DEF AlignUp
<1>4. AlignUp(0, u.align) = 0
  <2>1. (0 + u.align - 1) \div u.align = 0
    BY <1>1, SMT
  <2>. QED
    BY <1>1, <2>1 DEF AlignUp
<1>5. CASE u.texture
  BY <1>1, <1>2, <1>4, <1>5 DEF HasRoom, CopyFits
<1>6. CASE ~u.texture
  BY <1>1, <1>3, <1>4, <1>6 DEF HasRoom, CopyFits
<1>. QED
  BY <1>5, <1>6

(* Alignment moves the cursor forward only.                                  *)
LEMMA AlignUpAbove ==
  ASSUME NEW n \in Nat, NEW align \in Nat \ {0}
  PROVE  AlignUp(n, align) >= n
BY SMT DEF AlignUp
(* Every step keeps the staged updates apart and inside the buffer.          *)
LEMMA StagingSoundStep ==
  ASSUME SafetyInv, [Next]_vars
  PROVE  StagingSound'
<1>0. /\ CallSound /\ TypeOK /\ StagingSound /\ StagedDataIntact
      /\ AfterFlush = {Copying, MeshCopy, Submitting, Finishing, Regrowing}
      /\ {<<"graphWait">>, <<"frameWait">>, <<"resizeWait">>, <<"exitWait">>} \subseteq Blocking
      /\ staginBufferPortionUsed <= StagingBufferSize /\ StagingBufferSize \in Nat
      /\ request \in Updates
  BY StagingAssumption DEF SafetyInv, FrameInv, CallSound, AfterFlush, Blocking, StagingSound,
                           StagedDataIntact
<1>1. ASSUME UNCHANGED <<staginBufferPortionUsed, outstandingResourceUpdate, stagedCopies>>,
             AtCopy(calls') => CopyFits(request', staginBufferPortionUsed)
      PROVE  StagingSound'
  BY <1>0, <1>1 DEF StagingSound, StagedDataIntact
<1>2. /\ \A t \in AfterFlush : ~AtCopy(Flushing(t)) /\ ~AtCopy(Uploading(t))
      /\ \A c \in {<<>>, Starting} \cup Blocking : ~AtCopy(c)
  BY ShapesApart, Stages DEF NoStage
<1>3. ASSUME NEW u \in Updates, PushUpdate(u) PROVE StagingSound'
  <2>1. /\ UNCHANGED <<staginBufferPortionUsed, outstandingResourceUpdate, stagedCopies>>
        /\ request' = u /\ calls' = IF HasRoom(u) THEN Copying ELSE Flushing(Copying)
    BY <1>3, CallsStarted DEF PushUpdate, PushSteps, stagingVars
  <2>2. Copying \in AfterFlush
    BY DEF AfterFlush
  <2>. QED
    BY <1>0, <1>1, <1>2, <2>1, <2>2, RoomFits
<1>4. CASE \/ \E u \in MeshData : AllocateVertexBuffer(u) \/ GrowVertexBuffer(u)
           \/ SubmitToQueue \/ DestroyScene \/ EndFrame \/ Resize \/ FlushGPU
  <2>1. UNCHANGED <<staginBufferPortionUsed, outstandingResourceUpdate, stagedCopies>>
    BY <1>4 DEF AllocateVertexBuffer, GrowVertexBuffer, SubmitToQueue, DestroyScene, EndFrame,
                Resize, FlushGPU, stagingVars
  <2>2. calls' \in {Starting, Flushing(Regrowing), Flushing(Submitting), <<"graphWait">>,
                    <<"frameWait">>, <<"resizeWait">>, <<"exitWait">>}
    BY <1>4, CallsStarted DEF AllocateVertexBuffer, GrowVertexBuffer, SubmitToQueue, DestroyScene,
                              EndFrame, Resize, FlushGPU
  <2>3. ~AtCopy(calls')
    BY <1>0, <1>2, <2>2
  <2>. QED
    BY <1>1, <2>1, <2>3
<1>5. CASE WriteStaging
  <2>. DEFINE offset == AlignUp(staginBufferPortionUsed, request.align)
              copy == [from |-> offset, to |-> offset + request.size]
  <2>1. ~AtCopy(calls')
    <3>1. Finishing \in AfterFlush
      BY DEF AfterFlush
    <3>. QED
      BY <1>0, <1>2, <1>5, <3>1, CallMoves
  <2>2. CASE request.size > StagingBufferSize
    BY <1>1, <1>5, <2>1, <2>2 DEF WriteStaging, stagingVars
  <2>3. CASE ~(request.size > StagingBufferSize)
    <3>1. /\ stagedCopies' = stagedCopies \cup {copy}
          /\ staginBufferPortionUsed' = offset + request.size /\ outstandingResourceUpdate' = TRUE
      BY <1>5, <2>3 DEF WriteStaging
    <3>2. offset + request.size <= StagingBufferSize
      <4>1. AtCopy(calls)
        BY <1>0, <1>5, CallMoves DEF AtCopy
      <4>. QED
        BY <1>0, <2>3, <4>1 DEF StagingSound, CopyFits
    <3>3. offset \in Nat /\ offset >= staginBufferPortionUsed /\ request.size \in Nat
          /\ staginBufferPortionUsed \in Nat
      BY <1>0, AlignUpType, AlignUpAbove DEF TypeOK, Update
    <3>4. copy.from = offset /\ copy.to = offset + request.size
      OBVIOUS
    <3>. HIDE DEF offset, copy
    <3>5. \A c \in stagedCopies : c.from \in Nat /\ c.to \in Nat /\ c.to <= staginBufferPortionUsed
      BY <1>0 DEF TypeOK, Range, StagedDataIntact
    <3>6. \A c \in stagedCopies' : c.to <= staginBufferPortionUsed'
      BY <3>1, <3>3, <3>4, <3>5
    <3>7. \A c, d \in stagedCopies' : c = d \/ c.to <= d.from \/ d.to <= c.from
      <4>1. \A c \in stagedCopies : c.to <= copy.from
        BY <3>3, <3>4, <3>5
      <4>. QED
        BY <1>0, <3>1, <4>1 DEF StagedDataIntact
    <3>. QED
      BY <2>1, <3>1, <3>2, <3>6, <3>7 DEF StagingSound, StagedDataIntact
  <2>. QED
    BY <2>2, <2>3
<1>6. CASE FlushStagingBuffer
  <2>1. UNCHANGED <<staginBufferPortionUsed, outstandingResourceUpdate, stagedCopies>>
    BY <1>6 DEF FlushStagingBuffer
  <2>2. request' = request
    BY <1>6 DEF FlushStagingBuffer
  <2>3. AtCopy(calls') => CopyFits(request', staginBufferPortionUsed)
    <3>1. CASE outstandingResourceUpdate
      BY <1>0, <1>2, <1>6, <3>1, CallMoves
    <3>2. CASE ~outstandingResourceUpdate
      BY <1>0, <2>2, <3>2, RoomFits DEF StagingSound
    <3>. QED
      BY <3>1, <3>2
  <2>. QED
    BY <1>1, <2>1, <2>3
<1>7. CASE StagingWait
  <2>1. /\ staginBufferPortionUsed' = 0 /\ stagedCopies' = {} /\ outstandingResourceUpdate' = FALSE
        /\ request' = request
    BY <1>7 DEF StagingWait
  <2>2. CopyFits(request', staginBufferPortionUsed')
    BY <1>0, <2>1, RoomFits
  <2>. QED
    BY <1>0, <2>1, <2>2 DEF StagingSound, StagedDataIntact
<1>8. CASE UploadInitialData
  <2>1. /\ UNCHANGED <<staginBufferPortionUsed, outstandingResourceUpdate, stagedCopies>>
        /\ request' = request
    BY <1>8 DEF UploadInitialData, stagingVars
  <2>2. calls' = IF HasRoom(request) THEN MeshCopy ELSE Flushing(MeshCopy)
    BY <1>0, <1>8, CallMoves
  <2>3. MeshCopy \in AfterFlush
    BY DEF AfterFlush
  <2>. QED
    BY <1>0, <1>1, <1>2, <2>1, <2>2, <2>3, RoomFits
<1>9. CASE GrowWait \/ Allocated \/ SubmitGraph \/ GraphWait \/ FrameWait \/ ResizeWait \/ ExitWait
  <2>1. UNCHANGED <<staginBufferPortionUsed, outstandingResourceUpdate, stagedCopies>>
    BY <1>9 DEF GrowWait, Allocated, SubmitGraph, GraphWait, FrameWait, ResizeWait, ExitWait, stagingVars
  <2>2. calls' \in {<<>>, Starting}
    BY <1>0, <1>9, CallMoves
  <2>. QED
    BY <1>1, <1>2, <2>1, <2>2
<1>10. CASE Gpu \/ UNCHANGED vars
  <2>1. UNCHANGED <<staginBufferPortionUsed, outstandingResourceUpdate, stagedCopies, request, calls>>
    BY <1>10 DEF Gpu, FinishList, SignalFence, vars, stagingVars
  <2>. QED
    BY <1>0, <1>1, <2>1 DEF StagingSound
<1>. QED
  BY <1>3, <1>4, <1>5, <1>6, <1>7, <1>8, <1>9, <1>10 DEF Next, Client, Cpu
-----------------------------------------------------------------------------
(* Graphs                                                                    *)

(* From the flush of SubmitToQueue on no update is staged.                   *)
LEMMA GraphSoundStep ==
  ASSUME SafetyInv, [Next]_vars
  PROVE  GraphSound'
<1>0. /\ CallSound /\ GraphSound /\ StagingSound
      /\ {Copying, MeshCopy, Submitting, Finishing, Regrowing} = AfterFlush
      /\ {<<"graphWait">>, <<"frameWait">>, <<"resizeWait">>, <<"exitWait">>} \subseteq Blocking
  BY DEF SafetyInv, AfterFlush, Blocking
<1>1. /\ \A c \in {<<>>, Starting} \cup Blocking : ~ToSubmit(c) /\ c # Submitting
      /\ \A t \in AfterFlush : /\ ToSubmit(t) <=> t = Submitting
                               /\ ToSubmit(Flushing(t)) <=> t = Submitting
                               /\ ToSubmit(Uploading(t)) <=> t = Submitting
                               /\ Flushing(t) # Submitting /\ Uploading(t) # Submitting
  BY <1>0, Stages, ShapesApart DEF NoStage
<1>2. /\ Copying # Submitting /\ MeshCopy # Submitting /\ Regrowing # Submitting
      /\ Finishing # Submitting
  BY ShapesApart
<1>3. ASSUME ~ToSubmit(calls'), calls' # Submitting PROVE GraphSound'
  BY <1>3 DEF GraphSound
<1>4. CASE \/ \E u \in Updates : PushUpdate(u)
           \/ \E u \in MeshData : AllocateVertexBuffer(u) \/ GrowVertexBuffer(u)
           \/ DestroyScene \/ EndFrame \/ Resize \/ FlushGPU
  <2>1. calls' \in {Copying, Flushing(Copying), Starting, Flushing(Regrowing), <<"graphWait">>,
                    <<"frameWait">>, <<"resizeWait">>, <<"exitWait">>}
    BY <1>4, CallsStarted DEF PushUpdate, PushSteps, AllocateVertexBuffer, GrowVertexBuffer,
                              DestroyScene, EndFrame, Resize, FlushGPU
  <2>. QED
    BY <1>0, <1>1, <1>2, <1>3, <2>1
<1>5. CASE SubmitToQueue
  <2>1. sceneAlive' /\ calls' = Flushing(Submitting)
    BY <1>5, CallsStarted DEF SubmitToQueue, sceneVars
  <2>. QED
    BY <1>0, <1>1, <2>1 DEF GraphSound
<1>6. CASE WriteStaging \/ GrowWait \/ UploadInitialData \/ Allocated \/ SubmitGraph \/ GraphWait
           \/ FrameWait \/ ResizeWait \/ ExitWait
  <2>1. calls' \in {<<>>, Flushing(Finishing), Starting, MeshCopy, Flushing(MeshCopy)}
    BY <1>0, <1>6, CallMoves
  <2>. QED
    BY <1>0, <1>1, <1>2, <1>3, <2>1
<1>7. CASE FlushStagingBuffer \/ StagingWait
  <2>1. sceneAlive' = sceneAlive
    BY <1>7 DEF FlushStagingBuffer, StagingWait, sceneVars
  <2>2. ToSubmit(calls') => ToSubmit(calls)
    BY <1>0, <1>1, <1>7, CallMoves
  <2>3. calls' = Submitting => stagedCopies' = {}
    <3>1. CASE StagingWait
      BY <3>1 DEF StagingWait
    <3>2. CASE FlushStagingBuffer /\ outstandingResourceUpdate
      BY <1>0, <1>1, <3>2, CallMoves
    <3>3. CASE FlushStagingBuffer /\ ~outstandingResourceUpdate
      BY <1>0, <3>3 DEF FlushStagingBuffer, StagingSound
    <3>. QED
      BY <1>7, <3>1, <3>2, <3>3
  <2>. QED
    BY <1>0, <2>1, <2>2, <2>3 DEF GraphSound
<1>8. CASE Gpu \/ UNCHANGED vars
  <2>1. UNCHANGED <<stagedCopies, calls, sceneAlive>>
    BY <1>8 DEF Gpu, FinishList, SignalFence, vars, stagingVars, sceneVars
  <2>. QED
    BY <1>0, <2>1 DEF GraphSound
<1>. QED
  BY <1>4, <1>5, <1>6, <1>7, <1>8 DEF Next, Client, Cpu

-----------------------------------------------------------------------------
(* Vertex buffers                                                            *)

(* References are only added to buffers that are current or held, and no     *)
(* buffer is let go.                                                         *)
LEMMA AliveKept ==
  ASSUME VertexBufferAlive,
         \A b \in {vertexBuffer} \cup heldBuffers : b \in {vertexBuffer'} \cup heldBuffers',
         \A b \in stagedBuffers' : b \in stagedBuffers \cup {vertexBuffer'} \cup heldBuffers',
         \A e \in execs' : e \in execs
           \/ \A b \in e.buffers : b \in stagedBuffers \cup {vertexBuffer'} \cup heldBuffers'
  PROVE  VertexBufferAlive'
BY DEF VertexBufferAlive

(* A call that neither allocates nor grows.                                  *)
LEMMA OtherCallBuffers ==
  ASSUME BuffersSound, UNCHANGED <<vertexBuffer, heldBuffers, stagedBuffers>>,
         \A e \in execs' : e \in execs \/ e.buffers \subseteq {vertexBuffer},
         ~Growing(calls), ~Allocating(calls), ~Growing(calls'), ~Allocating(calls')
  PROVE  BuffersSound'
<1>1. VertexBufferAlive'
  BY AliveKept DEF BuffersSound
<1>2. calls' # Finishing /\ calls' # Flushing(Finishing)
  BY DEF Allocating, Ahead
<1>. QED
  BY <1>1, <1>2 DEF BuffersSound

(* Every step keeps alive the vertex buffers that lists refer to.            *)
LEMMA BuffersSoundStep ==
  ASSUME SafetyInv, [Next]_vars
  PROVE  BuffersSound'
<1>0. /\ CallSound /\ BuffersSound /\ TypeOK
      /\ {Copying, MeshCopy, Submitting, Finishing, Regrowing} = AfterFlush
      /\ {<<"graphWait">>, <<"frameWait">>, <<"resizeWait">>, <<"exitWait">>} \subseteq Blocking
      /\ Copying \notin {MeshCopy, Finishing, Regrowing} /\ Submitting \notin {MeshCopy, Finishing, Regrowing}
      /\ MeshCopy # Finishing /\ MeshCopy # Regrowing /\ Regrowing # Finishing
  BY ShapesApart DEF SafetyInv, FrameInv, AfterFlush, Blocking
<1>1. /\ \A c \in {<<>>} \cup Blocking : ~Growing(c) /\ ~Allocating(c)
      /\ \A t \in {Copying, Submitting} : /\ ~Growing(t) /\ ~Allocating(t)
                                          /\ ~Growing(Flushing(t)) /\ ~Allocating(Flushing(t))
                                          /\ ~Growing(Uploading(t)) /\ ~Allocating(Uploading(t))
      /\ \A t \in {MeshCopy, Finishing} : /\ ~Growing(t) /\ Allocating(t)
                                          /\ ~Growing(Flushing(t)) /\ Allocating(Flushing(t))
                                          /\ ~Growing(Uploading(t)) /\ Allocating(Uploading(t))
      /\ Growing(Regrowing) /\ ~Allocating(Regrowing)
      /\ Growing(Flushing(Regrowing)) /\ ~Allocating(Flushing(Regrowing))
      /\ Growing(Uploading(Regrowing)) /\ ~Allocating(Uploading(Regrowing))
      /\ Allocating(Starting) /\ ~Growing(Starting)
  BY <1>0, Stages DEF NoStage
<1>2. /\ \A t \in AfterFlush : t # Flushing(Finishing) /\ Uploading(t) # Flushing(Finishing)
                               /\ Flushing(t) # Finishing /\ Uploading(t) # Finishing
      /\ Starting # Finishing /\ Starting # Flushing(Finishing)
      /\ Flushing(MeshCopy) # Flushing(Finishing) /\ Flushing(Regrowing) # Flushing(Finishing)
      /\ <<>> # Finishing /\ <<>> # Flushing(Finishing)
  BY <1>0, ShapesApart
<1>3. CASE \/ \E u \in Updates : PushUpdate(u)
           \/ SubmitToQueue \/ DestroyScene \/ EndFrame \/ Resize \/ FlushGPU
  <2>1. calls = <<>> /\ UNCHANGED <<vertexBuffer, heldBuffers, stagedBuffers>>
    BY <1>3 DEF PushUpdate, SubmitToQueue, DestroyScene, EndFrame, Resize, FlushGPU, InClient,
                stagingVars, bufferVars
  <2>2. calls' \in {Copying, Flushing(Copying), Flushing(Submitting), <<"graphWait">>,
                    <<"frameWait">>, <<"resizeWait">>, <<"exitWait">>}
    BY <1>3, CallsStarted DEF PushUpdate, PushSteps, SubmitToQueue, DestroyScene, EndFrame,
                              Resize, FlushGPU
  <2>3. \A e \in execs' : e \in execs \/ e.buffers \subseteq {vertexBuffer}
    BY <1>3 DEF PushUpdate, SubmitToQueue, DestroyScene, EndFrame, Resize, FlushGPU, queueVars,
                ExecuteAndSignal, Submission
  <2>4. ~Growing(calls) /\ ~Allocating(calls) /\ ~Growing(calls') /\ ~Allocating(calls')
    BY <1>0, <1>1, <2>1, <2>2
  <2>. QED
    BY <1>0, <2>1, <2>3, <2>4, OtherCallBuffers
<1>4. ASSUME NEW u \in MeshData, AllocateVertexBuffer(u) PROVE BuffersSound'
  <2>1. /\ calls = <<>> /\ calls' = Starting /\ request' = u /\ heldBuffers' = {vertexBuffer}
        /\ UNCHANGED <<vertexBuffer, stagedBuffers, execs>>
    BY <1>4, CallsStarted DEF AllocateVertexBuffer, InClient, stagingVars, queueVars
  <2>2. heldBuffers = {}
    BY <1>0, <1>1, <2>1 DEF BuffersSound
  <2>3. VertexBufferAlive'
    BY <1>0, <2>1, <2>2, AliveKept DEF BuffersSound
  <2>. QED
    BY <1>1, <1>2, <2>1, <2>3 DEF BuffersSound
<1>5. ASSUME NEW u \in MeshData, GrowVertexBuffer(u) PROVE BuffersSound'
  <2>1. /\ calls = <<>> /\ calls' = Flushing(Regrowing) /\ request' = u
        /\ heldBuffers' = {vertexBuffer, vertexBuffer + 1}
        /\ stagedBuffers' = stagedBuffers \cup {vertexBuffer, vertexBuffer + 1}
        /\ UNCHANGED <<vertexBuffer, execs>>
    BY <1>5, CallsStarted DEF GrowVertexBuffer, InClient, queueVars
  <2>2. heldBuffers = {}
    BY <1>0, <1>1, <2>1 DEF BuffersSound
  <2>3. VertexBufferAlive'
    BY <1>0, <2>1, <2>2, AliveKept DEF BuffersSound
  <2>. QED
    BY <1>0, <1>1, <1>2, <2>1, <2>3 DEF BuffersSound
<1>6. CASE WriteStaging
  <2>1. /\ UNCHANGED <<vertexBuffer, heldBuffers, execs, request>>
        /\ stagedBuffers' \subseteq stagedBuffers \cup heldBuffers
    BY <1>6 DEF WriteStaging, bufferVars, queueVars, stagingVars
  <2>2. VertexBufferAlive'
    BY <1>0, <2>1, AliveKept DEF BuffersSound
  <2>3. CASE calls = Copying /\ calls' = <<>>
    BY <1>0, <1>1, <1>2, <2>1, <2>2, <2>3 DEF BuffersSound
  <2>4. CASE calls = MeshCopy /\ calls' = Flushing(Finishing)
    <3>1. request \in MeshData /\ ~(request.size > StagingBufferSize)
      <4>1. request \in MeshData
        BY <1>0, <1>1, <2>4 DEF BuffersSound
      <4>2. request.size \in Nat /\ StagingBufferSize \in Nat /\ request.size <= StagingBufferSize
        BY <4>1, UpdatesAssumption, StagingAssumption DEF Update
      <4>. QED
        BY <4>1, <4>2
    <3>2. outstandingResourceUpdate' = TRUE
      BY <1>6, <3>1 DEF WriteStaging
    <3>. QED
      BY <1>0, <1>1, <1>2, <2>1, <2>2, <2>4, <3>1, <3>2 DEF BuffersSound
  <2>. QED
    BY <1>0, <1>6, <2>3, <2>4, CallMoves
<1>7. CASE FlushStagingBuffer
  <2>1. PICK t \in AfterFlush : calls = Flushing(t) /\
               calls' = IF outstandingResourceUpdate THEN Uploading(t) ELSE t
    BY <1>0, <1>7, CallMoves
  <2>2. UNCHANGED <<vertexBuffer, heldBuffers, stagedBuffers, request, outstandingResourceUpdate>>
    BY <1>7 DEF FlushStagingBuffer, bufferVars
  <2>3. \A e \in execs' : e \in execs \/ \A b \in e.buffers : b \in stagedBuffers
    BY <1>7 DEF FlushStagingBuffer, ExecuteAndSignal, Submission, queueVars
  <2>4. VertexBufferAlive'
    BY <1>0, <2>2, <2>3, AliveKept DEF BuffersSound
  <2>5. (Growing(calls') <=> Growing(calls)) /\ (Allocating(calls') <=> Allocating(calls))
    BY <1>0, <1>1, <2>1
  <2>6. calls' # Flushing(Finishing) /\ calls' # Finishing
    BY <1>0, <1>2, <2>1 DEF BuffersSound
  <2>. QED
    BY <1>0, <2>2, <2>4, <2>5, <2>6 DEF BuffersSound
<1>8. CASE StagingWait
  <2>1. PICK t \in AfterFlush : calls = Uploading(t) /\ calls' = t
    BY <1>0, <1>8, CallMoves
  <2>2. /\ UNCHANGED <<vertexBuffer, heldBuffers, request, execs>> /\ stagedBuffers' = {}
        /\ execs' = {}
    BY <1>8, UploadEmptiesQueue DEF StagingWait, bufferVars, queueVars
  <2>3. VertexBufferAlive'
    BY <1>0, <2>2, AliveKept DEF BuffersSound
  <2>4. (Growing(calls') <=> Growing(calls)) /\ (Allocating(calls') <=> Allocating(calls))
    BY <1>0, <1>1, <2>1
  <2>5. calls' # Flushing(Finishing)
    BY <1>2, <2>1
  <2>. QED
    BY <1>0, <2>2, <2>3, <2>4, <2>5 DEF BuffersSound
<1>9. CASE GrowWait
  <2>1. /\ calls = Regrowing /\ calls' = Starting /\ vertexBuffer' = vertexBuffer + 1
        /\ UNCHANGED <<heldBuffers, stagedBuffers, execs, request>>
    BY <1>0, <1>9, CallMoves DEF GrowWait, stagingVars, queueVars
  <2>2. heldBuffers = {vertexBuffer, vertexBuffer + 1} /\ request \in MeshData
    BY <1>0, <1>1, <2>1 DEF BuffersSound
  <2>3. VertexBufferAlive'
    BY <1>0, <2>1, <2>2, AliveKept DEF BuffersSound
  <2>. QED
    BY <1>1, <1>2, <2>1, <2>2, <2>3 DEF BuffersSound
<1>10. CASE UploadInitialData
  <2>1. /\ calls = Starting /\ calls' \in {MeshCopy, Flushing(MeshCopy)}
        /\ UNCHANGED <<vertexBuffer, heldBuffers, stagedBuffers, execs, request>>
    BY <1>0, <1>10, CallMoves DEF UploadInitialData, stagingVars, bufferVars, queueVars
  <2>2. VertexBufferAlive'
    BY <1>0, <2>1, AliveKept DEF BuffersSound
  <2>. QED
    BY <1>0, <1>1, <1>2, <2>1, <2>2 DEF BuffersSound
<1>11. CASE Allocated
  <2>1. /\ calls = Finishing /\ calls' = <<>> /\ heldBuffers' = {}
        /\ UNCHANGED <<vertexBuffer, stagedBuffers, execs, request>>
    BY <1>0, <1>11, CallMoves DEF Allocated, stagingVars, queueVars
  <2>2. execs' = {} /\ stagedBuffers' = {}
    BY <1>0, <2>1 DEF BuffersSound
  <2>3. VertexBufferAlive'
    BY <2>2 DEF VertexBufferAlive
  <2>. QED
    BY <1>1, <1>2, <2>1, <2>3 DEF BuffersSound
<1>12. CASE SubmitGraph \/ GraphWait \/ FrameWait \/ ResizeWait \/ ExitWait
  <2>1. UNCHANGED <<vertexBuffer, heldBuffers, stagedBuffers>>
    BY <1>12 DEF SubmitGraph, GraphWait, FrameWait, ResizeWait, ExitWait, stagingVars, bufferVars
  <2>2. calls \in {Submitting} \cup Blocking /\ calls' = <<>>
    BY <1>0, <1>12, CallMoves
  <2>3. \A e \in execs' : e \in execs \/ e.buffers \subseteq {vertexBuffer}
    BY <1>12 DEF SubmitGraph, GraphWait, FrameWait, ResizeWait, ExitWait, queueVars,
                 ExecuteAndSignal, Submission
  <2>. QED
    BY <1>0, <1>1, <2>1, <2>2, <2>3, OtherCallBuffers
<1>13. CASE Gpu \/ UNCHANGED vars
  <2>1. /\ UNCHANGED <<vertexBuffer, heldBuffers, stagedBuffers, request, calls,
                       outstandingResourceUpdate>>
        /\ execs' \subseteq execs
    BY <1>13 DEF Gpu, FinishList, SignalFence, vars, stagingVars, bufferVars, queueVars
  <2>2. VertexBufferAlive'
    BY <1>0, <2>1, AliveKept DEF BuffersSound
  <2>. QED
    BY <1>0, <2>1, <2>2 DEF BuffersSound
<1>. QED
  BY <1>3, <1>4, <1>5, <1>6, <1>7, <1>8, <1>9, <1>10, <1>11, <1>12, <1>13 DEF Next, Client, Cpu
-----------------------------------------------------------------------------
(* The theorems                                                              *)

(* RendererBase::Init.                                                       *)
LEMMA SafetyInit == Init => SafetyInv
<1>. SUFFICES ASSUME Init PROVE SafetyInv
  OBVIOUS
<1>1. FrameInv
  BY FrameInvInit
<1>2. calls = <<>> /\ request \in Updates /\ execs = {} /\ signals = {} /\ running /\ sceneAlive
      /\ fence = [f \in Fences |-> 0]
  BY DEF Init
<1>3. /\ ~Waiting(calls) /\ ~Growing(calls) /\ ~Allocating(calls) /\ ~ToSubmit(calls)
      /\ ~AtCopy(calls) /\ calls # Finishing /\ calls # Flushing(Finishing) /\ calls # Submitting
      /\ calls # <<"exitWait">>
  BY <1>2, Stages, NotYetWaiting DEF NoStage
<1>4. CallSound
  BY <1>2 DEF CallSound, CallShapes
<1>5. Promises
  BY <1>2, <1>3 DEF Promises, MainPromise, GraphPromise, StagingPromise, FlushPromise, Promised,
                    PromisedBy, Pending, Fences, Init
<1>6. LastStored
  <2>1. currentFrameIndex \in Slots
    BY <1>1 DEF FrameInv, TypeOK
  <2>. QED
    BY <2>1, SlotBefore DEF LastStored, Init
<1>7. QueueSound
  BY <1>2, <1>5, <1>6 DEF QueueSound, SceneResourcesIdle, IdleAtExit, Pending
<1>8. StagingSound
  BY <1>3, StagingAssumption DEF StagingSound, StagedDataIntact, Init
<1>9. GraphSound
  BY <1>2, <1>3 DEF GraphSound
<1>10. BuffersSound
  BY <1>2, <1>3 DEF BuffersSound, VertexBufferAlive, Init
<1>. QED
  BY <1>1, <1>4, <1>7, <1>8, <1>9, <1>10 DEF SafetyInv

(* The invariant is inductive.                                               *)
LEMMA SafetyStep == SafetyInv /\ [Next]_vars => SafetyInv'
<1>. SUFFICES ASSUME SafetyInv, [Next]_vars PROVE SafetyInv'
  OBVIOUS
<1>1. FrameInv'
  BY FrameInvStep DEF SafetyInv
<1>. QED
  BY <1>1, CallSoundStep, QueueSoundStep, StagingSoundStep, GraphSoundStep, BuffersSoundStep
  DEF SafetyInv

(* The invariant holds in every state.                                       *)
LEMMA Safe == Spec => []SafetyInv
BY SafetyInit, SafetyStep, PTL DEF Spec

(* A staging list is pending only while FlushStagingBuffer waits for it, so  *)
(* nobody writes the buffer it copies from.                                  *)
THEOREM StagingListsIdle == Spec => []StagingIdle
<1>1. ASSUME SafetyInv PROVE StagingIdle
  <2>1. ASSUME Waiting(calls) PROVE calls # <<>> /\ Head(calls) = "stagingWait"
    BY <2>1, FlushSteps DEF Waiting
  <2>. QED
    BY <1>1, <2>1 DEF SafetyInv, QueueSound, StagingIdle
<1>. QED
  BY <1>1, Safe, PTL

(* Staged updates lie inside the buffer and apart from each other, whatever  *)
(* sizes and texel sizes clients push.                                       *)
THEOREM StagedUpdatesIntact == Spec => []StagedDataIntact
<1>1. SafetyInv => StagedDataIntact
  BY DEF SafetyInv, StagingSound
<1>. QED
  BY <1>1, Safe, PTL

(* No list refers to a vertex buffer that growth has released.               *)
THEOREM VertexBuffersAlive == Spec => []VertexBufferAlive
<1>1. SafetyInv => VertexBufferAlive
  BY DEF SafetyInv, BuffersSound
<1>. QED
  BY <1>1, Safe, PTL

(* A scene's textures go only when no list of its graph is pending.          *)
THEOREM SceneResourcesFree == Spec => []SceneResourcesIdle
<1>1. SafetyInv => SceneResourcesIdle
  BY DEF SafetyInv, QueueSound
<1>. QED
  BY <1>1, Safe, PTL

(* Nothing is pending when ~Application destroys the device.                 *)
THEOREM DeviceIdleAtExit == Spec => []IdleAtExit
<1>1. SafetyInv => IdleAtExit
  BY DEF SafetyInv, QueueSound
<1>. QED
  BY <1>1, Safe, PTL

(* A graph is submitted after every update pushed before it has been copied. *)
THEOREM GraphsFollowUploads == Spec => UploadsBeforeGraph
<1>1. ASSUME SafetyInv, [Next]_vars, NEW e \in execs' \ execs, e.list = "graph"
      PROVE  stagedCopies = {} /\ Pending("staging") = {}
  <2>1. ASSUME ~SubmitGraph PROVE FALSE
    <3>1. CASE execs' \subseteq execs
      BY <1>1, <3>1
    <3>2. CASE EndFrame
      BY <1>1, <3>2 DEF EndFrame, ExecuteAndSignal, Submission
    <3>3. CASE FlushStagingBuffer
      BY <1>1, <3>3 DEF FlushStagingBuffer, ExecuteAndSignal, Submission, queueVars
    <3>4. CASE Client /\ ~EndFrame
      BY <3>1, <3>4 DEF Client, PushUpdate, AllocateVertexBuffer, GrowVertexBuffer, SubmitToQueue,
                        DestroyScene, Resize, FlushGPU, queueVars
    <3>5. CASE Cpu /\ ~FlushStagingBuffer
      BY <2>1, <3>1, <3>5 DEF Cpu, WriteStaging, StagingWait, GrowWait, UploadInitialData,
                              Allocated, GraphWait, FrameWait, ResizeWait, ExitWait, queueVars
    <3>6. CASE Gpu \/ UNCHANGED vars
      BY <3>1, <3>6 DEF Gpu, FinishList, SignalFence, vars, queueVars
    <3>. QED
      BY <1>1, <3>2, <3>3, <3>4, <3>5, <3>6 DEF Next
  <2>2. SubmitGraph
    BY <2>1
  <2>3. calls = Submitting /\ Submitting \in AfterFlush
    BY <1>1, <2>2, CallMoves DEF SafetyInv, AfterFlush
  <2>4. ~Waiting(calls)
    BY <2>3, Stages, ShapesApart
  <2>. QED
    BY <1>1, <2>3, <2>4 DEF SafetyInv, QueueSound, GraphSound
<1>2. SafetyInv /\ [Next]_vars =>
        [\A e \in execs' \ execs : e.list = "graph" =>
           stagedCopies = {} /\ Pending("staging") = {}]_vars
  BY <1>1
<1>. QED
  BY <1>2, Safe, PTL DEF Spec, UploadsBeforeGraph

(* The images of the swap chain are replaced only when no main list is       *)
(* pending.                                                                  *)
THEOREM ResizedWhenIdle == Spec => ResizeWhenIdle
<1>1. ASSUME SafetyInv, ResizeWait PROVE Pending("main") = {}
  <2>1. fence["main"] >= currentFenceVal
    BY <1>1 DEF SafetyInv, QueueSound, LastStored, ResizeWait, Reached
  <2>2. fence["main"] \in Nat /\ currentFenceVal \in Nat
    BY <1>1 DEF SafetyInv, FrameInv, TypeOK, Fences
  <2>. QED
    BY <1>1, <2>1, <2>2 DEF SafetyInv, QueueSound, Promises, MainPromise, Promised, PromisedBy
<1>2. SafetyInv /\ [Next]_vars => [ResizeWait => Pending("main") = {}]_vars
  BY <1>1
<1>. QED
  BY <1>2, Safe, PTL DEF Spec, ResizeWhenIdle
=============================================================================
