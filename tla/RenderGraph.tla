----------------------------- MODULE RenderGraph -----------------------------
(***************************************************************************)
(* A render graph on a device with a separate compute queue: SortPasses    *)
(* puts the passes of each queue in order, gives each a fence value and    *)
(* cuts them into levels; SubmitToQueue submits one command list per level *)
(* and joins the queues by signals and waits on the graph's fence; EndFrame *)
(* submits the main list and reuses the allocators of an older frame.      *)
(*                                                                         *)
(* A queue starts its operations in order.  Lists may overlap and finish   *)
(* in any order; a signal completes when everything before it has, a wait  *)
(* holds back what comes after it.  Fences are timeline fences.            *)
(***************************************************************************)
EXTENDS Integers, Sequences, FiniteSets, SequencesExt

CONSTANTS
  Graphs,     \* graphs to consider: the passes of either queue
  Instances,  \* what passes may read and write
  Textures,   \* the resources that are textures; the others are buffers
  NumFrames,  \* frames in flight (3 in the code)
  MaxFrames   \* bound: frames submitted in a behaviour

(* A pass has a set of instances it reads and, for either kind, a sequence *)
(* of those it writes; an instance names a resource, and distinguishes the *)
(* versions of it that MakeUniqueInstance makes.                           *)
Queues == {"direct", "compute"}
Kinds == {"texture", "buffer"}
KindOf(instance) == IF instance.resource \in Textures THEN "texture" ELSE "buffer"
PassType == [inputs: SUBSET Instances, outputs: [Kinds -> Seq(Instances)]]

(* The passes of a graph, and those that can run: all their inputs are     *)
(* written by passes that can run.  The loop of SortPasses ends when these *)
(* are all.                                                                *)
AllPasses(graph) == UNION {{q} \X DOMAIN graph[q] : q \in Queues}
Turns(graph) == Len(graph.direct) + Len(graph.compute)
Makes(pass, x) == \E n \in DOMAIN pass.outputs[KindOf(x)] : pass.outputs[KindOf(x)][n] = x
RunnableAfter(graph, S) ==
  {p \in AllPasses(graph) : \A x \in graph[p[1]][p[2]].inputs :
     \E m \in S : Makes(graph[m[1]][m[2]], x)}
Runnable(graph) ==
  LET after[n \in 0 .. Turns(graph)] ==
        IF n = 0 THEN {} ELSE RunnableAfter(graph, after[n - 1])
  IN  after[Turns(graph)]

ASSUME FramesAssumption == NumFrames \in Nat \ {0} /\ MaxFrames \in Nat
ASSUME GraphsAssumption ==
  \A graph \in Graphs :
    /\ graph \in [Queues -> Seq(PassType)]
    /\ AllPasses(graph) # {}
    /\ Runnable(graph) = AllPasses(graph)

-----------------------------------------------------------------------------
(* SortPasses.  The state of its loop:                                     *)
(*   left    passes not scheduled yet, per queue                           *)
(*   ready   instances produced so far, in order, per kind                 *)
(*   window  how many of those a compute pass may look at, per kind        *)
(*   sorted  passesSortedAndFence, computePassesSortedAndFence             *)
(*   levels  levelTransitionIndices, computeLevelTransitionIndices         *)
(*   deps    which pass every scheduled pass was found to depend on        *)

Smallest(S) == CHOOSE i \in S : \A j \in S : i <= j
Largest(S) == CHOOSE i \in S : \A j \in S : j <= i

StartSort(graph) ==
  [left |-> [q \in Queues |-> [i \in DOMAIN graph[q] |-> i]],
   still |-> [q \in Queues |-> <<>>],
   ready |-> [k \in Kinds |-> <<>>],
   window |-> [k \in Kinds |-> 0],
   sorted |-> [q \in Queues |-> <<>>],
   levels |-> [q \in Queues |-> <<>>],
   deps |-> {}]

(* Where a pass of queue q looks for its inputs: a graphics pass in all    *)
(* that is ready, this level's outputs included, a compute pass in a       *)
(* prefix of it.                                                           *)
Visible(st, q, k) ==
  IF q = "direct" THEN st.ready[k] ELSE SubSeq(st.ready[k], 1, st.window[k])

Places(st, q, input) ==
  LET seen == Visible(st, q, KindOf(input))
  IN  {i \in DOMAIN seen : seen[i].instance = input}

Producer(st, q, input) == st.ready[KindOf(input)][Smallest(Places(st, q, input))]

(* Mistake: the same value whichever queue the producer is on.             *)
ValueOfProducer(st, q, input) == Producer(st, q, input).val

(* One more than the producer's value when it is on the other queue.       *)
ValueAfter(st, q, input) ==
  LET p == Producer(st, q, input) IN IF p.queue = q THEN p.val ELSE p.val + 1

(* The fence value of a pass: that of the last input it waits for. *)
ValueOf(st, q, pass) == Largest({0} \cup {ValueAfter(st, q, x) : x \in pass.inputs})

(* The kinds of inputs that are not ready yet. *)
Missing(st, q, pass) == {KindOf(x) : x \in {y \in pass.inputs : Places(st, q, y) = {}}}

(* What a pass adds to the instances that are ready, and its dependencies. *)
MadeBy(st, q, pass, i, k) ==
  [n \in DOMAIN pass.outputs[k] |->
     [instance |-> pass.outputs[k][n], queue |-> q, val |-> ValueOf(st, q, pass), pass |-> i]]
DepsOf(st, q, pass, i) ==
  {[queue |-> q, pass |-> i, on |-> p.queue, from |-> p.pass] :
     p \in {Producer(st, q, x) : x \in pass.inputs}}

(* A pass none of whose inputs is missing is scheduled; another is kept    *)
(* for the next level, once for its textures and once for its buffers.     *)
TryPass(graph, q, st, i) ==
  LET pass == graph[q][i]
      missing == Missing(st, q, pass)
      made(k) == MadeBy(st, q, pass, i, k)
  IN  IF missing # {}
      THEN [st EXCEPT !.still[q] = @ \o (IF missing = Kinds THEN <<i, i>> ELSE <<i>>)]
      ELSE [st EXCEPT
              !.sorted[q] = Append(@, [pass |-> i, val |-> ValueOf(st, q, pass)]),
              !.ready = [k \in Kinds |-> @[k] \o made(k)],
              !.window = [k \in Kinds |-> IF q = "compute" THEN @[k] + Len(made(k)) ELSE @[k]],
              !.deps = @ \cup DepsOf(st, q, pass, i)]

(* RenderPass::signal, ComputePass::signal: the other queue depends on it. *)
Signals(st, q, i) == \E d \in st.deps : d.queue # q /\ d.on = q /\ d.from = i

TryPasses(graph, st, q) ==
  LET left == st.left[q]
      tried[n \in 0 .. Len(left)] ==
        IF n = 0 THEN st ELSE TryPass(graph, q, tried[n - 1], left[n])
  IN  tried[Len(left)]

(* A level ends where the passes scheduled so far end.                     *)
CloseLevel(levels, sorted) ==
  IF sorted = <<>> \/ (levels # <<>> /\ Last(levels).end = Len(sorted))
  THEN levels
  ELSE Append(levels, [end |-> Len(sorted), wait |-> TRUE, signal |-> FALSE])

(* One turn of the loop. *)
SortLevel(graph, st) ==
  LET both == TryPasses(graph, TryPasses(graph, st, "direct"), "compute")
  IN  [both EXCEPT
         !.left = both.still,
         !.still = [q \in Queues |-> <<>>],
         !.window = [k \in Kinds |-> Len(both.ready[k])],
         !.levels = [q \in Queues |-> CloseLevel(both.levels[q], both.sorted[q])]]

(* Mistake: never signals. *)
NeverSignal(st, q, n) == <<st.levels[q][n]>>

(* A level with a pass that signals ends after the last such pass: the     *)
(* rest of it becomes a level of its own.                                  *)
SplitLevel(st, q, n) ==
  LET level == st.levels[q][n]
      start == IF n = 1 THEN 0 ELSE st.levels[q][n - 1].end
      signalling == {j \in start + 1 .. level.end : Signals(st, q, st.sorted[q][j].pass)}
  IN  IF signalling = {} THEN <<level>>
      ELSE IF Largest(signalling) = level.end THEN <<[level EXCEPT !.signal = TRUE]>>
      ELSE <<[end |-> Largest(signalling), wait |-> FALSE, signal |-> TRUE], level>>

(* The last level of a queue waits for nothing; then the signals.          *)
FinishLevels(st, q) ==
  LET n == Len(st.levels[q])
      last == IF n = 0 THEN st ELSE [st EXCEPT !.levels[q][n].wait = FALSE]
      split[m \in 0 .. n] == IF m = 0 THEN <<>> ELSE split[m - 1] \o SplitLevel(last, q, m)
  IN  split[n]

Sorted(graph) ==
  LET turn[n \in 0 .. Turns(graph)] ==
        IF n = 0 THEN StartSort(graph) ELSE SortLevel(graph, turn[n - 1])
  IN  turn[Turns(graph)]

SortPasses(graph) ==
  LET st == Sorted(graph)
  IN  [sorted |-> st.sorted,
       levels |-> [q \in Queues |-> FinishLevels(st, q)],
       left |-> st.left,
       deps |-> st.deps]

-----------------------------------------------------------------------------
(* SubmitToQueue: the order of submission, and every operation with the    *)
(* value it would have if maxFence were 0.                                 *)

LevelStart(plan, q, n) == IF n = 1 THEN 1 ELSE plan.levels[q][n - 1].end + 1
LevelValue(plan, q, n) == plan.sorted[q][LevelStart(plan, q, n)].val
LevelPasses(plan, q, n) ==
  {plan.sorted[q][j].pass : j \in LevelStart(plan, q, n) .. plan.levels[q][n].end}

Op(op, q, level, val) == [op |-> op, queue |-> q, level |-> level, val |-> val]

(* Mistake: waits for the value of the level itself. *)
LevelOpsEarly(plan, q, n) ==
  LET level == plan.levels[q][n]
  IN  <<Op("list", q, n, 0)>>
        \o (IF level.signal THEN <<Op("signal", q, n, LevelValue(plan, q, n) + 1)>> ELSE <<>>)
        \o (IF level.wait THEN <<Op("wait", q, n, LevelValue(plan, q, n))>> ELSE <<>>)

(* A level: its list, a signal if another queue reads what it makes, and a *)
(* wait for the sake of the level after it, whose first pass gives the     *)
(* value.                                                                  *)
LevelOps(plan, q, n) ==
  LET level == plan.levels[q][n]
  IN  <<Op("list", q, n, 0)>>
        \o (IF level.signal THEN <<Op("signal", q, n, LevelValue(plan, q, n) + 1)>> ELSE <<>>)
        \o (IF level.wait THEN <<Op("wait", q, n, plan.sorted[q][level.end + 1].val)>> ELSE <<>>)

(* The merge of the two sequences of levels by the value of their first    *)
(* passes; what is left of one queue goes last.                            *)
More(plan, st, q) == st.next[q] <= Len(plan.levels[q])
TakeLevel(plan, st, q) ==
  [next |-> [st.next EXCEPT ![q] = @ + 1],
   ops |-> [st.ops EXCEPT ![q] = @ \o LevelOps(plan, q, st.next[q])],
   computeLast |-> st.computeLast /\ (q = "compute" \/ More(plan, st, "compute"))]
MergeStep(plan, st) ==
  IF More(plan, st, "direct") /\ (More(plan, st, "compute") =>
       LevelValue(plan, "direct", st.next.direct) <= LevelValue(plan, "compute", st.next.compute))
  THEN TakeLevel(plan, st, "direct")
  ELSE IF More(plan, st, "compute") THEN TakeLevel(plan, st, "compute") ELSE st

LevelCount(plan) == Len(plan.levels.direct) + Len(plan.levels.compute)
StartMerge == [next |-> [q \in Queues |-> 1], ops |-> [q \in Queues |-> <<>>],
               computeLast |-> TRUE]
Merged(plan) ==
  LET merged[n \in 0 .. LevelCount(plan)] ==
        IF n = 0 THEN StartMerge ELSE MergeStep(plan, merged[n - 1])
  IN  merged[LevelCount(plan)]

(* Mistake: the queues swapped. *)
LastQueueSwapped(plan) == IF Merged(plan).computeLast THEN "direct" ELSE "compute"

(* The queue whose level was merged last. *)
LastQueue(plan) == IF Merged(plan).computeLast THEN "compute" ELSE "direct"

(* Mistake: the graph is taken to be done one value early. *)
SubmissionShort(plan) ==
  LET last == LastQueue(plan)
      fence == Last(plan.sorted[last]).val + 1
  IN  [ops |-> [Merged(plan).ops EXCEPT ![last] = Append(@, Op("signal", last, 0, fence))],
       fence |-> fence - 1]

(* Every queue's operations: at the end one signal of the graph's last     *)
(* value, on the queue that was merged last.                               *)
Submission(plan) ==
  LET last == LastQueue(plan)
      fence == Last(plan.sorted[last]).val + 1
  IN  [ops |-> [Merged(plan).ops EXCEPT ![last] = Append(@, Op("signal", last, 0, fence))],
       fence |-> fence]

(* Execute: the order in which levels are recorded, which on a device with *)
(* one queue, and so one command list, is the order they run in.           *)
RecordStep(plan, st) ==
  LET take(q) == [next |-> [st.next EXCEPT ![q] = @ + 1],
                  order |-> Append(st.order, [queue |-> q, level |-> st.next[q]])]
  IN  IF More(plan, st, "direct") /\ (More(plan, st, "compute") =>
           LevelValue(plan, "direct", st.next.direct) < LevelValue(plan, "compute", st.next.compute))
      THEN take("direct")
      ELSE IF More(plan, st, "compute") THEN take("compute") ELSE st

RecordingOrder(plan) ==
  LET recorded[n \in 0 .. LevelCount(plan)] ==
        IF n = 0 THEN [next |-> [q \in Queues |-> 1], order |-> <<>>]
        ELSE RecordStep(plan, recorded[n - 1])
  IN  recorded[LevelCount(plan)].order

-----------------------------------------------------------------------------
VARIABLES
  graph,
  plan,      \* what Compile computed, from the first Execute on
  dirty,
  pc,        \* the CPU: "record", "endFrame" (graph submitted) or "frameWait"
  currentFrameIndex, currentFenceVal, fence_vals,
  maxFence, fence,  \* the graph's fence: last value promised, value reached
  mainFence,
  pending,   \* operations submitted to a queue and not started
  running    \* lists started and not finished

cpuVars == <<graph, plan, dirty, pc, currentFrameIndex, currentFenceVal, fence_vals, maxFence>>
vars == <<cpuVars, fence, mainFence, pending, running>>

Slots == 0 .. NumFrames - 1
NoPlan == [sorted |-> [q \in Queues |-> <<>>], levels |-> [q \in Queues |-> <<>>],
           left |-> [q \in Queues |-> <<>>], deps |-> {}]

(* Mistake: starts from 0 again with every frame. *)
SubmittedFromZero(op, f, base) ==
  [op |-> op.op, queue |-> op.queue, level |-> op.level, val |-> op.val,
   fence |-> f, frame |-> currentFenceVal + 1, slot |-> currentFrameIndex]

(* A submitted operation: which fence, which frame it is part of, and whose *)
(* allocator its list was recorded from.  Level 0 is not one of the graph's.*)
Submitted(op, f, base) ==
  [op |-> op.op, queue |-> op.queue, level |-> op.level, val |-> op.val + base,
   fence |-> f, frame |-> currentFenceVal + 1, slot |-> currentFrameIndex]

Operations ==
  [op: {"list", "signal", "wait"}, queue: Queues, level: Nat, val: Nat,
   fence: {"graph", "main"}, frame: 1 .. MaxFrames, slot: Slots]

TypeOK ==
  /\ graph \in Graphs
  /\ dirty \in BOOLEAN
  /\ pc \in {"record", "endFrame", "frameWait"}
  /\ currentFrameIndex \in Slots
  /\ currentFenceVal \in 0 .. MaxFrames
  /\ fence_vals \in [Slots -> 0 .. MaxFrames]
  /\ maxFence \in Nat
  /\ fence \in Nat
  /\ mainFence \in 0 .. MaxFrames
  /\ pending \in [Queues -> Seq(Operations)]
  /\ \A q \in Queues : \A i \in DOMAIN pending[q] : pending[q][i].queue = q
  /\ running \subseteq {o \in Operations : o.op = "list"}

Init ==
  /\ graph \in Graphs
  /\ plan = NoPlan
  /\ dirty = TRUE
  /\ pc = "record"
  /\ currentFrameIndex = 0
  /\ currentFenceVal = 0
  /\ fence_vals = [i \in Slots |-> 0]
  /\ maxFence = 0
  /\ fence = 0
  /\ mainFence = 0
  /\ pending = [q \in Queues |-> <<>>]
  /\ running = {}

(* Execute (which compiles a dirty graph) and SubmitToQueue.               *)
ExecuteAndSubmit ==
  /\ pc = "record"
  /\ currentFenceVal < MaxFrames
  /\ plan' = IF dirty THEN SortPasses(graph) ELSE plan
  /\ dirty' = FALSE
  /\ LET submission == Submission(plan')
         of(q) == submission.ops[q]
     IN  /\ pending' = [q \in Queues |-> pending[q] \o
              [n \in DOMAIN of(q) |-> Submitted(of(q)[n], "graph", maxFence)]]
         /\ maxFence' = maxFence + submission.fence
  /\ pc' = "endFrame"
  /\ UNCHANGED <<graph, currentFrameIndex, currentFenceVal, fence_vals, fence, mainFence, running>>

(* Mistake: forgets to store the value the slot's lists will signal.       *)
EndFrameForgets ==
  /\ pc \in {"record", "endFrame"}
  /\ currentFenceVal < MaxFrames
  /\ pending' = [pending EXCEPT !["direct"] = @ \o
       <<Submitted(Op("list", "direct", 0, 0), "main", 0),
         Submitted(Op("signal", "direct", 0, currentFenceVal + 1), "main", 0)>>]
  /\ currentFenceVal' = currentFenceVal + 1
  /\ currentFrameIndex' = (currentFrameIndex + 1) % NumFrames
  /\ pc' = "frameWait"
  /\ UNCHANGED <<fence_vals, graph, plan, dirty, maxFence, fence, mainFence, running>>

(* Mistake: lets the index run on.                                         *)
EndFrameNoWrap ==
  /\ pc \in {"record", "endFrame"}
  /\ currentFenceVal < MaxFrames
  /\ pending' = [pending EXCEPT !["direct"] = @ \o
       <<Submitted(Op("list", "direct", 0, 0), "main", 0),
         Submitted(Op("signal", "direct", 0, currentFenceVal + 1), "main", 0)>>]
  /\ currentFenceVal' = currentFenceVal + 1
  /\ fence_vals' = [fence_vals EXCEPT ![currentFrameIndex] = currentFenceVal + 1]
  /\ currentFrameIndex' = currentFrameIndex + 1
  /\ pc' = "frameWait"
  /\ UNCHANGED <<graph, plan, dirty, maxFence, fence, mainFence, running>>

(* EndFrame: the main list and its signal go to the direct queue.          *)
EndFrame ==
  /\ pc \in {"record", "endFrame"}
  /\ currentFenceVal < MaxFrames
  /\ pending' = [pending EXCEPT !["direct"] = @ \o
       <<Submitted(Op("list", "direct", 0, 0), "main", 0),
         Submitted(Op("signal", "direct", 0, currentFenceVal + 1), "main", 0)>>]
  /\ currentFenceVal' = currentFenceVal + 1
  /\ fence_vals' = [fence_vals EXCEPT ![currentFrameIndex] = currentFenceVal + 1]
  /\ currentFrameIndex' = (currentFrameIndex + 1) % NumFrames
  /\ pc' = "frameWait"
  /\ UNCHANGED <<graph, plan, dirty, maxFence, fence, mainFence, running>>

(* ... its wait, after which both kinds of allocator are reset.            *)
FrameWait ==
  /\ pc = "frameWait"
  /\ mainFence >= fence_vals[currentFrameIndex]
  /\ pc' = "record"
  /\ UNCHANGED <<graph, plan, dirty, currentFrameIndex, currentFenceVal, fence_vals, maxFence,
                 fence, mainFence, pending, running>>

-----------------------------------------------------------------------------
HeadOf(q) == Head(pending[q])
Started(q) == pending' = [pending EXCEPT ![q] = Tail(@)]

StartList(q) ==
  /\ pending[q] # <<>> /\ HeadOf(q).op = "list"
  /\ running' = running \cup {HeadOf(q)}
  /\ Started(q)
  /\ UNCHANGED <<cpuVars, fence, mainFence>>

FinishList ==
  /\ \E o \in running : running' = running \ {o}
  /\ UNCHANGED <<cpuVars, fence, mainFence, pending>>

SignalFence(q) ==
  /\ pending[q] # <<>> /\ HeadOf(q).op = "signal"
  /\ \A o \in running : o.queue # q
  /\ IF HeadOf(q).fence = "graph"
     THEN fence' = HeadOf(q).val /\ UNCHANGED mainFence
     ELSE mainFence' = HeadOf(q).val /\ UNCHANGED fence
  /\ Started(q)
  /\ UNCHANGED <<cpuVars, running>>

WaitForFence(q) ==
  /\ pending[q] # <<>> /\ HeadOf(q).op = "wait"
  /\ fence >= HeadOf(q).val
  /\ Started(q)
  /\ UNCHANGED <<cpuVars, fence, mainFence, running>>

Gpu ==
  \/ FinishList
  \/ \E q \in Queues : StartList(q) \/ SignalFence(q) \/ WaitForFence(q)

Next == ExecuteAndSubmit \/ EndFrame \/ FrameWait \/ Gpu

(* Each queue makes progress, and the CPU runs once its wait is over.      *)
Fairness ==
  /\ WF_vars(FrameWait)
  /\ WF_vars(FinishList)
  /\ \A q \in Queues : WF_vars(StartList(q)) /\ WF_vars(SignalFence(q)) /\ WF_vars(WaitForFence(q))

Spec == Init /\ [][Next]_vars /\ Fairness

-----------------------------------------------------------------------------
(* Properties. *)

Unfinished == running \cup UNION {{pending[q][i] : i \in DOMAIN pending[q]} : q \in Queues}
UnfinishedLists == {o \in Unfinished : o.op = "list"}
GraphLists(S) == {o \in S : o.level > 0}
PassesOf(list) == LevelPasses(plan, list.queue, list.level)

(* SortPasses: a pass comes after the pass it depends on, in its queue's    *)
(* order, or by a larger value on the other queue; and no pass is left out. *)
ScheduleSound ==
  ~dirty =>
    /\ \A q \in Queues :
         {plan.sorted[q][j].pass : j \in DOMAIN plan.sorted[q]} = DOMAIN graph[q]
    /\ \A d \in plan.deps :
         \A j \in DOMAIN plan.sorted[d.queue] : \A k \in DOMAIN plan.sorted[d.on] :
           (plan.sorted[d.queue][j].pass = d.pass /\ plan.sorted[d.on][k].pass = d.from) =>
             IF d.on = d.queue THEN k < j
             ELSE plan.sorted[d.on][k].val < plan.sorted[d.queue][j].val

(* What Execute and SubmitToQueue rely on for the graph they are given.  On *)
(* a graph that keeps it the properties below follow; on others they may    *)
(* fail.                                                                    *)
(*                                                                          *)
(* Queue r waits before its operation j for a signal behind operation i of  *)
(* queue q, so that operation is over when j starts.                        *)
PlacesOf(s, q, op) == {i \in DOMAIN s[q] : s[q][i].op = op}
WaitedFor(s, q, i, r, j) ==
  \E k \in PlacesOf(s, q, "signal"), l \in PlacesOf(s, r, "wait") :
    i <= k /\ l <= j /\ s[q][k].val <= s[r][l].val

(* Signals come in the order of their values, none of which exceeds the     *)
(* graph's; the queue that does not end the graph first waits for the other.*)
SignalsOrdered ==
  LET s == Submission(plan).ops
  IN  \A q, r \in Queues : \A i \in PlacesOf(s, q, "signal") :
        /\ s[q][i].val \in 1 .. Submission(plan).fence
        /\ q # LastQueue(plan) => WaitedFor(s, LastQueue(plan), 1, q, i)
        /\ \A j \in PlacesOf(s, r, "signal") :
             s[q][i].val <= s[r][j].val =>
               IF q = r THEN i <= j ELSE WaitedFor(s, q, i, r, j)

(* A signal comes behind every list. *)
ListsSignalled ==
  LET s == Submission(plan).ops
  IN  \A q \in Queues : \A i \in PlacesOf(s, q, "list") :
        \E k \in PlacesOf(s, q, "signal") : i < k

(* Lists wait for those of the other queue that make an input of theirs. *)
Feeds(u, o) ==
  \E d \in plan.deps : /\ d.queue = o.queue /\ d.pass \in PassesOf(o)
                       /\ d.on = u.queue /\ d.from \in PassesOf(u)
ProducersAwaited ==
  LET s == Submission(plan).ops
  IN  \A q, r \in Queues : \A i \in PlacesOf(s, q, "list"), j \in PlacesOf(s, r, "list") :
        (q # r /\ Feeds(s[q][i], s[r][j])) => WaitedFor(s, q, i, r, j)

(* The direct queue waits for all compute lists. *)
ComputeAwaited ==
  LET s == Submission(plan).ops
  IN  \A i \in PlacesOf(s, "compute", "list") :
        WaitedFor(s, "compute", i, "direct", Len(s["direct"]))

(* The passes of a level have one value, and levels come by their values.  *)
LevelsByValue ==
  \A q \in Queues : \A n \in DOMAIN plan.levels[q] :
    /\ \A j \in LevelStart(plan, q, n) .. plan.levels[q][n].end :
         plan.sorted[q][j].val = LevelValue(plan, q, n)
    /\ \A m \in 1 .. n : LevelValue(plan, q, m) <= LevelValue(plan, q, n)

PlanOrdered ==
  ~dirty => /\ SignalsOrdered /\ ListsSignalled /\ ProducersAwaited /\ ComputeAwaited
            /\ LevelsByValue

(* Execute on a single queue: a level is recorded after every level that    *)
(* makes an input of one of its passes.                                     *)
RecordedAfterInputs ==
  ~dirty =>
    LET order == RecordingOrder(plan)
        has(n, q, i) == order[n].queue = q /\ i \in LevelPasses(plan, q, order[n].level)
    IN  \A d \in plan.deps : \A m, n \in DOMAIN order :
          has(n, d.queue, d.pass) /\ has(m, d.on, d.from) => m <= n

(* While a list runs, every list of the other queue that makes an input of  *)
(* one of its passes, in this frame, has finished (SubmitToQueue).          *)
InputsReady ==
  \A o \in GraphLists(running) : \A u \in GraphLists(UnfinishedLists) :
    (u.queue # o.queue /\ u.frame = o.frame) => ~Feeds(u, o)

(* The compute allocators EndFrame resets are not those of pending compute  *)
(* lists ("Wait For Past Frame To Complete").                               *)
ComputeAllocatorIdle ==
  pc = "record" =>
    \A o \in UnfinishedLists : o.queue = "compute" => o.slot # currentFrameIndex

(* Once the fence reaches maxFence, as ~RenderGraph waits for, no list of   *)
(* the graph is left on either queue.                                       *)
GraphFenceCoversAll == fence >= maxFence => GraphLists(UnfinishedLists) = {}

(* The two queues signal one timeline fence: its value only ever increases. *)
FenceIncreases == [][fence' # fence => fence' > fence]_vars

(* The queues never wait for each other in a circle: what is submitted ends.*)
SubmittedFinishes == (Unfinished # {}) ~> (Unfinished = {})

(* RenderGraph.cpp:392, "the guarantee that if passes overlap they do not   *)
(* share dependencies": of two lists that run at the same time on different *)
(* queues none declares an output that the other uses.                      *)
Writes(list) ==
  {x \in {y.resource : y \in Instances} : \E i \in PassesOf(list), k \in Kinds :
     \E n \in DOMAIN graph[list.queue][i].outputs[k] :
       graph[list.queue][i].outputs[k][n].resource = x}
Reads(list) ==
  {x.resource : x \in UNION {graph[list.queue][i].inputs : i \in PassesOf(list)}}
OverlapIndependent ==
  \A o, u \in GraphLists(running) :
    o.queue # u.queue => Writes(o) \cap (Reads(u) \cup Writes(u)) = {}
=============================================================================
