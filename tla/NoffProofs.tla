----------------------------- MODULE NoffProofs -----------------------------
(***************************************************************************)
(* What holds of the threads of noff for every number of workers, bound of *)
(* the queues, assignment of packets to workers, and signals.              *)
(***************************************************************************)
EXTENDS Noff, SumProofs, FiniteSetTheorems

----------------------------------------------------------------------------
(***************************************************************************)
(* The invariant, part by part.                                            *)
(***************************************************************************)

\* The workers whose initInThread has not returned.
Unregistered == {w \in Worker : thread[w] \in {"none", "init"}}

\* The constructor has started the workers before index, and only them.
StartedInOrder ==
    main = "start" => \A w \in Worker : (w >= index) <=> (thread[w] = "none")

\* The latch counts the workers that are not registered.
LatchCounts == latch = Cardinality(Unregistered)

\* What room nonBlockingRun has found is there until it pushes.
RoomIsKept ==
    /\ QueueBounded
    /\ main = "push" => HasRoom(index)

\* The empty task was pushed to a worker and not taken yet.
EmptyAtEnd(w) == queue_[w] # <<>> /\ queue_[w][Len(queue_[w])] = EmptyTask

\* The empty task was pushed to a worker.
Closed(w) == thread[w] = "done" \/ EmptyAtEnd(w)

\* A worker only ever runs a task.
HandsFull == \A w \in Worker : thread[w] = "running" => hand[w] \in Task

TypeInv == TypeOK /\ HandsFull

\* Nothing is behind an empty task, and nothing is left once it was taken.
EmptyIsLast ==
    \A w \in Worker :
        /\ \A i \in 1 .. Len(queue_[w]) - 1 : queue_[w][i] # EmptyTask
        /\ thread[w] = "done" => queue_[w] = <<>>

\* Only the queues main has stopped so far are closed.
ClosedInOrder ==
    /\ main = "join" => task = EmptyTask
    /\ \A w \in Worker : Closed(w) =>
           \/ main \in {"exit", "aborted"}
           \/ main \in {"check", "push"} /\ task = EmptyTask /\ w < index
           \/ main = "join" /\ w <= index

\* The tasks a worker has taken and not run, and those stored for it.
InHand(w) == IF thread[w] = "running" THEN 1 ELSE 0

Stored(w) == IF EmptyAtEnd(w) THEN Len(queue_[w]) - 1 ELSE Len(queue_[w])

\* Every task that was counted is stored, in hand, or run.
TasksCounted ==
    \A w \in Worker : taskCounter_[w] = Len(processed[w]) + InHand(w) + Stored(w)

\* Main has joined the workers before index, all of them at its end.
JoinedInOrder ==
    /\ main \in {"check", "push", "join"} /\ task = EmptyTask =>
           \A w \in Worker : w < index => thread[w] = "done"
    /\ main = "exit" => \A w \in Worker : thread[w] = "done"

\* A handler runs on a thread that lives.
HandlersLive ==
    \A s \in Signals : Active(s) => Alive(handler[s].on)

\* running_ is never set while the Dispatcher is destroyed.
RunningWhileCapturing ==
    running_ =>
        \/ main \in {"loop", "ended", "aborted"}
        \/ main \in {"check", "push"} /\ task # EmptyTask

----------------------------------------------------------------------------
\* The workers are finitely many.
LEMMA WorkersFinite ==
    IsFiniteSet(Worker)
BY TaskQueueAssumption, FS_Interval DEF Worker

\* Main is none of them.
LEMMA MainIsNoWorker ==
    Main \notin Worker
BY DEF Main, Worker

\* A frame leaves the offset at one of three values.
LEMMA OffsetType ==
    ASSUME TypeOK, NEW f \in Frames
    PROVE  OffsetFor(f) \in {14, 16, 18}
BY DEF TypeOK, OffsetFor

\* The next worker of a loop over all of them is a worker.
LEMMA IndexType ==
    ASSUME NEW i \in Worker, i # NWorkers
    PROVE  i + 1 \in Worker
BY TaskQueueAssumption DEF Worker

\* An empty task is no task of a fragment.
LEMMA EmptyIsNoTask ==
    EmptyTask \notin Task
BY DispatcherAssumption

\* The fragment of a frame makes a task.
LEMMA TaskType ==
    ASSUME NEW f \in Frames, NEW no \in Nat
    PROVE  TaskOf(no, Parsed(f)) \in Task
BY CaptureAssumption DEF TaskOf, Parsed, Task, Frame

----------------------------------------------------------------------------
(***************************************************************************)
(* Types.                                                                  *)
(***************************************************************************)
LEMMA TypeInit ==
    Init => TypeInv
<1> SUFFICES ASSUME Init PROVE TypeInv
  OBVIOUS
<1>1. /\ queue_ \in [Worker -> Seq(Task \cup {EmptyTask})]
      /\ thread \in [Worker -> ThreadState]
      /\ hand \in [Worker -> Task \cup {EmptyTask}]
      /\ HandsFull
  BY DEF Init, QueueInit, HandsFull, ThreadState
<1>2. /\ index \in Worker
      /\ task \in Task \cup {EmptyTask}
      /\ taskCounter_ \in [Worker -> Nat]
      /\ allocated \in Int /\ overloaded \in Nat
      /\ processed \in [Worker -> Seq(Task)]
  BY TaskQueueAssumption DEF Init, DispatcherInit, Worker
<1>3. running_ \in BOOLEAN /\ linkOffset_ \in {14, 16, 18} /\ breakFlag \in BOOLEAN
  BY DEF Init, CaptureInit
<1>4. /\ main \in MainState
      /\ latch \in Int
      /\ handler \in [Signals -> [at : HandlerState, on : {Main} \cup Worker]]
      /\ captured \in Nat
  BY TaskQueueAssumption DEF Init, MainState, HandlerState
<1> QED
  BY <1>1, <1>2, <1>3, <1>4 DEF TypeInv, TypeOK

LEMMA TypeStep ==
    ASSUME TypeInv, [Next]_vars
    PROVE  TypeInv'
<1> USE DEF TypeInv, TypeOK, HandsFull, ThreadState, MainState, HandlerState
<1>1. CASE ConstructWorker
  <2>1. index' \in Worker
    BY <1>1, IndexType DEF ConstructWorker
  <2> QED
    BY <1>1, <2>1 DEF ConstructWorker, MainStep, Start, captureVars
<1>2. CASE WaitForWorkers
  BY <1>2 DEF WaitForWorkers, MainStep, queueVars, dispatcherVars, captureVars
<1>3. CASE BeginLoop
  BY <1>3 DEF BeginLoop, MainStep, StartLoop, queueVars, dispatcherVars
<1>4. CASE FindRoom
  BY <1>4 DEF FindRoom, MainStep, queueVars, dispatcherVars, captureVars
<1>5. CASE Overloaded
  BY <1>5 DEF Overloaded, MainStep, GiveUp, queueVars, captureVars
<1>6. CASE PushTask
  BY <1>6 DEF PushTask, MainStep, Push, CountTask, captureVars
<1>7. CASE LoopBroken
  BY <1>7 DEF LoopBroken, MainStep, PcapLoopBroken, queueVars, dispatcherVars
<1>8. CASE LeaveLoop
  <2>1. 1 \in Worker
    BY TaskQueueAssumption DEF Worker
  <2> QED
    BY <1>8, <2>1 DEF LeaveLoop, MainStep, EndLoop, queueVars
<1>9. CASE PushEmpty
  BY <1>9 DEF PushEmpty, MainStep, Push, dispatcherVars, captureVars
<1>10. CASE Join
  <2>1. index' \in Worker
    BY <1>10, IndexType DEF Join
  <2> QED
    BY <1>10, <2>1 DEF Join, MainStep, queueVars, captureVars
<1>11. ASSUME NEW f \in Frames, SkipFrame(f) PROVE TypeInv'
  BY <1>11, OffsetType DEF SkipFrame, MainStep, OnPacket, queueVars, dispatcherVars
<1>12. ASSUME NEW f \in Frames, DispatchFrame(f) PROVE TypeInv'
  <2>1. task' \in Task /\ index' \in Worker /\ allocated' \in Int
    BY <1>12, TaskType DEF DispatchFrame, CopyFor
  <2>2. linkOffset_' \in {14, 16, 18}
    BY <1>12, OffsetType DEF DispatchFrame, OnPacket
  <2> QED
    BY <1>12, <2>1, <2>2 DEF DispatchFrame, CopyFor, MainStep, OnPacket, queueVars
<1>13. CASE LoopEnds
  BY <1>13 DEF LoopEnds, MainStep, PcapLoopEnds, queueVars, dispatcherVars, captureVars
<1>14. ASSUME NEW w \in Worker, InitInThread(w) PROVE TypeInv'
  BY <1>14 DEF InitInThread, WorkerStep, ThreadInit, dispatcherVars, captureVars
<1>15. ASSUME NEW w \in Worker, TakeTask(w) PROVE TypeInv'
  <2>1. CASE BeginTake(w)
    BY <1>15, <2>1 DEF TakeTask, WorkerStep, BeginTake, dispatcherVars, captureVars
  <2>2. CASE Take(w)
    <3>1. /\ Tail(queue_[w]) \in Seq(Task \cup {EmptyTask})
          /\ Head(queue_[w]) \in Task \cup {EmptyTask}
      BY <2>2 DEF Take
    <3> QED
      BY <1>15, <2>2, <3>1 DEF TakeTask, WorkerStep, Take, dispatcherVars, captureVars
  <2> QED
    BY <1>15, <2>1, <2>2 DEF TakeTask
<1>16. ASSUME NEW w \in Worker, ProcessTask(w) PROVE TypeInv'
  <2>1. hand[w] \in Task
    BY <1>16 DEF ProcessTask, RunTask, Run
  <2>2. Append(processed[w], hand[w]) \in Seq(Task)
    BY <2>1
  <2> QED
    BY <1>16, <2>2 DEF ProcessTask, RunTask, Run, WorkerStep, captureVars
<1>17. ASSUME NEW s \in Signals, Raise(s) PROVE TypeInv'
  BY <1>17 DEF Raise, queueVars, dispatcherVars, captureVars
<1>18. ASSUME NEW s \in Signals, PassAssertions(s) PROVE TypeInv'
  BY <1>18 DEF PassAssertions, HandlerStep, queueVars, dispatcherVars, captureVars
<1>19. ASSUME NEW s \in Signals, FailAssertion(s) PROVE TypeInv'
  BY <1>19 DEF FailAssertion, queueVars, dispatcherVars, captureVars
<1>20. ASSUME NEW s \in Signals, BreakLoop(s) PROVE TypeInv'
  <2>1. PICK to \in {"cleared", "done"} : HandlerStep(s, handler[s].at, to)
    BY <1>20 DEF BreakLoop, HandlerStep
  <2>2. handler' \in [Signals -> [at : HandlerState, on : {Main} \cup Worker]]
    BY <2>1 DEF HandlerStep
  <2>3. running_' \in BOOLEAN /\ breakFlag' \in BOOLEAN /\ UNCHANGED linkOffset_
    BY <1>20 DEF BreakLoop, ClearRunning, PcapBreakloop, captureVars
  <2> QED
    BY <2>1, <2>2, <2>3 DEF HandlerStep, queueVars, dispatcherVars
<1>21. CASE UNCHANGED vars
  BY <1>21 DEF vars, queueVars, dispatcherVars, captureVars, mainVars
<1> QED
  BY <1>1, <1>2, <1>3, <1>4, <1>5, <1>6, <1>7, <1>8, <1>9, <1>10, <1>11, <1>12, <1>13,
     <1>14, <1>15, <1>16, <1>17, <1>18, <1>19, <1>20, <1>21
     DEF Next, MainProceeds, WorkerProceeds, HandlerProceeds, Terminated

----------------------------------------------------------------------------
(***************************************************************************)
(* The start: workers register, and the latch opens.                       *)
(***************************************************************************)
StartInv == StartedInOrder /\ LatchCounts /\ RegisteredBeforeCapture

\* A step that starts and registers no worker keeps the latch.
LEMMA LatchKept ==
    ASSUME LatchCounts, latch' = latch, Unregistered' = Unregistered
    PROVE  LatchCounts'
BY DEF LatchCounts

\* A worker that registers is counted down.
LEMMA LatchCountsDown ==
    ASSUME TypeInv, LatchCounts, NEW w \in Worker, InitInThread(w)
    PROVE  LatchCounts'
<1>1. w \in Unregistered
  BY DEF InitInThread, ThreadInit, Unregistered
<1>2. Unregistered' = Unregistered \ {w}
  BY DEF InitInThread, ThreadInit, Unregistered, TypeInv, TypeOK
<1>3. IsFiniteSet(Unregistered)
  BY WorkersFinite, FS_Subset DEF Unregistered
<1>4. Cardinality(Unregistered \ {w}) = Cardinality(Unregistered) - 1
  BY <1>1, <1>3, FS_RemoveElement
<1> QED
  BY <1>2, <1>4 DEF LatchCounts, InitInThread

\* An open latch says that all have registered.
LEMMA OpenLatch ==
    ASSUME LatchCounts, LatchOpen
    PROVE  Unregistered = {}
<1>1. IsFiniteSet(Unregistered)
  BY WorkersFinite, FS_Subset DEF Unregistered
<1>2. Cardinality(Unregistered) \in Nat
  BY <1>1, FS_CardinalityType
<1>3. Cardinality(Unregistered) = 0
  BY <1>2 DEF LatchCounts, LatchOpen
<1> QED
  BY <1>1, <1>3, FS_EmptySet

LEMMA StartInit ==
    Init => StartInv
<1> SUFFICES ASSUME Init PROVE StartInv
  OBVIOUS
<1>1. Unregistered = Worker
  BY DEF Init, QueueInit, Unregistered
<1>2. Cardinality(Worker) = NWorkers
  BY TaskQueueAssumption, FS_Interval DEF Worker
<1>3. LatchCounts
  BY <1>1, <1>2 DEF LatchCounts, Init
<1>4. StartedInOrder
  BY DEF StartedInOrder, Init, QueueInit, DispatcherInit, Worker
<1>5. RegisteredBeforeCapture
  BY DEF RegisteredBeforeCapture, Init
<1> QED
  BY <1>3, <1>4, <1>5 DEF StartInv

LEMMA StartStep ==
    ASSUME TypeInv, StartInv, [Next]_vars
    PROVE  StartInv'
<1> USE DEF StartInv
<1>0. ASSUME UNCHANGED <<thread, latch>>,
             main' = "start" => main = "start" /\ index' = index,
             main' \in {"start", "wait", "aborted"}
                 \/ main \notin {"start", "wait", "aborted"}
      PROVE  StartInv'
  <2>1. Unregistered' = Unregistered
    BY <1>0 DEF Unregistered
  <2>2. LatchCounts'
    BY <1>0, <2>1, LatchKept
  <2>3. StartedInOrder'
    BY <1>0 DEF StartedInOrder
  <2>4. RegisteredBeforeCapture'
    BY <1>0 DEF RegisteredBeforeCapture
  <2> QED
    BY <2>2, <2>3, <2>4
<1>1. CASE ConstructWorker
  <2>1. thread[index] = "none" /\ index \in Worker /\ main = "start"
    BY <1>1 DEF ConstructWorker, MainStep, Start, TypeInv, TypeOK
  <2>2. Unregistered' = Unregistered
    BY <1>1, <2>1 DEF ConstructWorker, Start, Unregistered, TypeInv, TypeOK
  <2>3. LatchCounts'
    BY <1>1, <2>2, LatchKept DEF ConstructWorker
  <2>4. StartedInOrder'
    BY <1>1, <2>1, TaskQueueAssumption
       DEF ConstructWorker, MainStep, Start, StartedInOrder, TypeInv, TypeOK, Worker
  <2>5. RegisteredBeforeCapture'
    BY <1>1 DEF ConstructWorker, MainStep, RegisteredBeforeCapture
  <2> QED
    BY <2>3, <2>4, <2>5
<1>2. CASE WaitForWorkers
  <2>1. Unregistered = {}
    BY <1>2, OpenLatch DEF WaitForWorkers
  <2>2. UNCHANGED <<thread, latch>> /\ main' = "ready"
    BY <1>2 DEF WaitForWorkers, MainStep, queueVars
  <2>3. Unregistered' = Unregistered
    BY <2>2 DEF Unregistered
  <2>4. LatchCounts'
    BY <2>2, <2>3, LatchKept
  <2>5. StartedInOrder' /\ RegisteredBeforeCapture'
    BY <2>1, <2>2 DEF StartedInOrder, RegisteredBeforeCapture, Unregistered
  <2> QED
    BY <2>4, <2>5
<1>3. ASSUME NEW w \in Worker, InitInThread(w) PROVE StartInv'
  <2>1. LatchCounts'
    BY <1>3, LatchCountsDown
  <2>2. /\ thread[w] = "init" /\ thread' = [thread EXCEPT ![w] = "idle"]
        /\ UNCHANGED <<main, index>>
    BY <1>3 DEF InitInThread, WorkerStep, ThreadInit, dispatcherVars
  <2>3. StartedInOrder' /\ RegisteredBeforeCapture'
    BY <2>2 DEF StartedInOrder, RegisteredBeforeCapture, TypeInv, TypeOK
  <2> QED
    BY <2>1, <2>3
<1>4. ASSUME NEW w \in Worker, TakeTask(w) \/ ProcessTask(w) PROVE StartInv'
  <2>1. /\ thread[w] \in {"idle", "taking", "running"}
        /\ thread' \in {[thread EXCEPT ![w] = x] : x \in {"idle", "taking", "running", "done"}}
        /\ UNCHANGED <<main, index, latch>>
    BY <1>4 DEF TakeTask, ProcessTask, WorkerStep, BeginTake, Take, RunTask, Run, dispatcherVars
  <2>2. Unregistered' = Unregistered
    BY <2>1 DEF Unregistered, TypeInv, TypeOK
  <2>3. LatchCounts'
    BY <2>1, <2>2, LatchKept
  <2>4. StartedInOrder' /\ RegisteredBeforeCapture'
    BY <2>1 DEF StartedInOrder, RegisteredBeforeCapture, TypeInv, TypeOK
  <2> QED
    BY <2>3, <2>4
<1>5. CASE \/ BeginLoop \/ FindRoom \/ Overloaded \/ PushTask \/ LoopBroken
           \/ LeaveLoop \/ PushEmpty \/ Join \/ LoopEnds
  BY <1>5, <1>0 DEF BeginLoop, FindRoom, Overloaded, PushTask, LoopBroken, LeaveLoop,
     PushEmpty, Join, LoopEnds, MainStep, queueVars, dispatcherVars
<1>6. ASSUME NEW f \in Frames, SkipFrame(f) \/ DispatchFrame(f) PROVE StartInv'
  BY <1>6, <1>0 DEF SkipFrame, DispatchFrame, MainStep, queueVars
<1>7. ASSUME NEW s \in Signals, Raise(s) \/ HandlerProceeds(s) PROVE StartInv'
  BY <1>7, <1>0 DEF Raise, HandlerProceeds, PassAssertions, FailAssertion, BreakLoop,
     HandlerStep, queueVars, dispatcherVars
<1>8. CASE UNCHANGED vars
  BY <1>8, <1>0 DEF vars, queueVars, dispatcherVars, mainVars
<1> QED
  BY <1>1, <1>2, <1>3, <1>4, <1>5, <1>6, <1>7, <1>8
     DEF Next, MainProceeds, WorkerProceeds, Terminated

----------------------------------------------------------------------------
(***************************************************************************)
(* The bound of the queues: only main pushes, so that the room it has      *)
(* found can only grow until it does.                                      *)
(***************************************************************************)
LEMMA RoomInit ==
    Init => RoomIsKept
BY TaskQueueAssumption DEF Init, QueueInit, RoomIsKept, QueueBounded, Size

\* The size is a number.
LEMMA SizeType ==
    ASSUME TypeInv, NEW w \in Worker
    PROVE  Size(w) \in Int /\ Len(queue_[w]) \in Nat
BY DEF TypeInv, TypeOK, Size

LEMMA RoomStep ==
    ASSUME TypeInv, RoomIsKept, [Next]_vars
    PROVE  RoomIsKept'
<1>0. ASSUME UNCHANGED <<queue_, thread>>,
             main' = "push" => main = "push" /\ index' = index
      PROVE  RoomIsKept'
  BY <1>0 DEF RoomIsKept, QueueBounded, HasRoom, Size
<1>1. CASE ConstructWorker
  <2>1. main' # "push" /\ UNCHANGED queue_
    BY <1>1 DEF ConstructWorker, MainStep, Start
  <2>2. \A w \in Worker : (thread[w] = "taking") <=> (thread'[w] = "taking")
    BY <1>1 DEF ConstructWorker, Start, TypeInv, TypeOK
  <2> QED
    BY <2>1, <2>2 DEF RoomIsKept, QueueBounded, Size
<1>2. CASE FindRoom
  <2>1. UNCHANGED <<queue_, thread, index>> /\ HasRoom(index)
    BY <1>2 DEF FindRoom, queueVars, dispatcherVars
  <2> QED
    BY <2>1 DEF RoomIsKept, QueueBounded, HasRoom, Size
<1>3. CASE PushTask \/ PushEmpty
  <2>1. PICK x \in Task \cup {EmptyTask} : queue_' = [queue_ EXCEPT ![index] = Append(@, x)]
    BY <1>3 DEF PushTask, PushEmpty, Push, TypeInv, TypeOK
  <2>2. UNCHANGED thread /\ main' # "push" /\ HasRoom(index) /\ index \in Worker
    BY <1>3 DEF PushTask, PushEmpty, MainStep, RoomIsKept, TypeInv, TypeOK
  <2>3. ASSUME NEW w \in Worker PROVE Size(w)' <= MaxSize
    <3>1. CASE w = index
      <4>1. Len(queue_'[w]) = Len(queue_[w]) + 1
        BY <2>1, <3>1 DEF TypeInv, TypeOK
      <4>2. Size(w)' = Size(w) + 1
        BY <2>2, <4>1, SizeType DEF Size
      <4> QED
        BY <2>2, <3>1, <4>2, SizeType, TaskQueueAssumption DEF HasRoom
    <3>2. CASE w # index
      <4>1. queue_'[w] = queue_[w]
        BY <2>1, <3>2 DEF TypeInv, TypeOK
      <4> QED
        BY <2>2, <4>1 DEF Size, RoomIsKept, QueueBounded
    <3> QED
      BY <3>1, <3>2
  <2> QED
    BY <2>2, <2>3 DEF RoomIsKept, QueueBounded
<1>4. ASSUME NEW w \in Worker, WorkerProceeds(w) PROVE RoomIsKept'
  <2>1. UNCHANGED <<main, index>>
    BY <1>4 DEF WorkerProceeds, InitInThread, TakeTask, ProcessTask, WorkerStep, RunTask,
       dispatcherVars
  <2>2. \A v \in Worker : v # w => queue_'[v] = queue_[v] /\ thread'[v] = thread[v]
    BY <1>4 DEF WorkerProceeds, InitInThread, TakeTask, ProcessTask, ThreadInit, BeginTake,
       Take, RunTask, Run, TypeInv, TypeOK
  <2>3. Size(w)' <= Size(w)
    <3>1. CASE InitInThread(w) \/ ProcessTask(w) \/ BeginTake(w)
      <4>1. queue_' = queue_ /\ thread[w] # "taking"
        BY <3>1 DEF InitInThread, ProcessTask, ThreadInit, BeginTake, RunTask, Run
      <4> QED
        BY <4>1, SizeType DEF Size
    <3>2. CASE Take(w)
      <4>1. thread[w] = "taking" /\ thread'[w] # "taking"
        BY <3>2 DEF Take, TypeInv, TypeOK
      <4>2. Len(queue_'[w]) = Len(queue_[w]) - 1
        BY <3>2 DEF Take, TypeInv, TypeOK
      <4> QED
        BY <4>1, <4>2, SizeType DEF Size
    <3> QED
      BY <1>4, <3>1, <3>2 DEF WorkerProceeds, TakeTask
  <2>4. ASSUME NEW v \in Worker PROVE Size(v)' <= Size(v)
    <3>1. CASE v = w
      BY <2>3, <3>1
    <3>2. CASE v # w
      <4>1. Size(v)' = Size(v)
        BY <2>2, <3>2 DEF Size
      <4> QED
        BY <4>1, SizeType
    <3> QED
      BY <3>1, <3>2
  <2>6. TypeInv'
    BY TypeStep
  <2>5. \A v \in Worker : Size(v) \in Int /\ Size(v)' \in Int
    BY <2>6, SizeType DEF TypeInv, TypeOK, Size
  <2> QED
    BY <2>1, <2>4, <2>5, TaskQueueAssumption
       DEF RoomIsKept, QueueBounded, HasRoom, TypeInv, TypeOK
<1>5. CASE \/ WaitForWorkers \/ BeginLoop \/ Overloaded \/ LoopBroken \/ LeaveLoop
           \/ Join \/ LoopEnds
  BY <1>5, <1>0 DEF WaitForWorkers, BeginLoop, Overloaded, LoopBroken, LeaveLoop, Join,
     LoopEnds, MainStep, queueVars
<1>6. ASSUME NEW f \in Frames, SkipFrame(f) \/ DispatchFrame(f) PROVE RoomIsKept'
  BY <1>6, <1>0 DEF SkipFrame, DispatchFrame, MainStep, queueVars
<1>7. ASSUME NEW s \in Signals, Raise(s) \/ HandlerProceeds(s) PROVE RoomIsKept'
  BY <1>7, <1>0 DEF Raise, HandlerProceeds, PassAssertions, FailAssertion, BreakLoop,
     HandlerStep, queueVars, dispatcherVars
<1>8. CASE UNCHANGED vars
  BY <1>8, <1>0 DEF vars, queueVars, dispatcherVars, mainVars
<1> QED
  BY <1>1, <1>2, <1>3, <1>4, <1>5, <1>6, <1>7, <1>8 DEF Next, MainProceeds, Terminated

----------------------------------------------------------------------------
(***************************************************************************)
(* The order in which main closes and joins the workers, and where a       *)
(* handler can be meanwhile.                                               *)
(***************************************************************************)
ThreadInv ==
    /\ RunningWhileCapturing
    /\ JoinedInOrder
    /\ HandlersLive
    /\ CaptureOutlivesHandlers

LEMMA ThreadsInit ==
    Init => ThreadInv
BY DEF Init, CaptureInit, ThreadInv, RunningWhileCapturing, JoinedInOrder, HandlersLive,
   CaptureOutlivesHandlers, Active

\* A worker that is done or has a handler on it does not go on.
LEMMA WorkerKeepsThreads ==
    ASSUME TypeInv, ThreadInv, NEW w \in Worker, WorkerProceeds(w)
    PROVE  ThreadInv'
<1>1. /\ UNCHANGED <<main, index, task, handler, running_>>
      /\ ~Suspended(w)
      /\ thread[w] # "done"
      /\ \A v \in Worker : v # w => thread'[v] = thread[v]
  BY DEF WorkerProceeds, InitInThread, TakeTask, ProcessTask, WorkerStep, ThreadInit,
     BeginTake, Take, RunTask, Run, dispatcherVars, captureVars, TypeInv, TypeOK
<1>2. RunningWhileCapturing' /\ CaptureOutlivesHandlers'
  BY <1>1 DEF ThreadInv, RunningWhileCapturing, CaptureOutlivesHandlers
<1>3. JoinedInOrder'
  BY <1>1 DEF ThreadInv, JoinedInOrder
<1>4. ASSUME NEW s \in Signals, Active(s)' PROVE Alive(handler[s].on)'
  <2>1. handler[s].on # w /\ handler[s].on \in {Main} \cup Worker /\ Alive(handler[s].on)
    BY <1>1, <1>4 DEF Active, Suspended, ThreadInv, HandlersLive, TypeInv, TypeOK
  <2> QED
    BY <1>1, <2>1 DEF Alive
<1> QED
  BY <1>2, <1>3, <1>4 DEF ThreadInv, HandlersLive

\* A handler stays on its thread, and does not pass the assertions at the end.
LEMMA HandlerKeepsThreads ==
    ASSUME TypeInv, ThreadInv, NEW s \in Signals, Raise(s) \/ HandlerProceeds(s)
    PROVE  ThreadInv'
<1>1. UNCHANGED <<thread, index, task>> /\ main' \in {main, "aborted"}
  BY DEF Raise, HandlerProceeds, PassAssertions, FailAssertion, BreakLoop, HandlerStep,
     queueVars, dispatcherVars
<1>2. running_' => running_
  BY DEF Raise, HandlerProceeds, PassAssertions, FailAssertion, BreakLoop, HandlerStep,
     ClearRunning, PcapBreakloop, captureVars
<1>3. RunningWhileCapturing' /\ JoinedInOrder'
  BY <1>1, <1>2 DEF ThreadInv, RunningWhileCapturing, JoinedInOrder
<1>4. ASSUME NEW r \in Signals, Active(r)'
      PROVE  Alive(handler'[r].on) /\ (Active(r) \/ handler'[r].at = "entered")
  <2>1. CASE Raise(s)
    <3>1. PICK t \in {Main} \cup Worker :
              Alive(t) /\ handler' = [handler EXCEPT ![s] = [at |-> "entered", on |-> t]]
      BY <2>1 DEF Raise
    <3>2. CASE r = s
      BY <3>1, <3>2 DEF TypeInv, TypeOK
    <3>3. CASE r # s
      BY <1>4, <3>1, <3>3 DEF Active, ThreadInv, HandlersLive, TypeInv, TypeOK
    <3> QED
      BY <3>2, <3>3
  <2>2. CASE HandlerProceeds(s)
    <3>1. /\ Active(s)
          /\ \/ handler' = handler
             \/ \E to \in HandlerState : handler' = [handler EXCEPT ![s].at = to]
      BY <2>2 DEF HandlerProceeds, PassAssertions, FailAssertion, BreakLoop, HandlerStep,
         HandlerState, Active
    <3>2. handler'[r].on = handler[r].on /\ (r # s => handler'[r] = handler[r])
      BY <3>1 DEF TypeInv, TypeOK
    <3>3. Active(r)
      BY <1>4, <3>1, <3>2 DEF Active
    <3> QED
      BY <3>2, <3>3 DEF ThreadInv, HandlersLive
  <2> QED
    BY <2>1, <2>2
<1>5. HandlersLive'
  BY <1>1, <1>4 DEF HandlersLive, Alive
<1>6. ASSUME NEW r \in Signals, main' = "exit"
      PROVE  handler'[r].at \notin {"asserted", "cleared"}
  <2>1. main = "exit"
    BY <1>1, <1>6
  <2>2. handler[r].at \notin {"asserted", "cleared"} /\ handler[s].at \notin {"asserted", "cleared"}
    BY <2>1 DEF ThreadInv, CaptureOutlivesHandlers
  <2>3. CASE Raise(s)
    BY <2>2, <2>3 DEF Raise, TypeInv, TypeOK
  <2>4. CASE HandlerProceeds(s)
    <3>1. ~PassAssertions(s) /\ ~BreakLoop(s)
      BY <2>1, <2>2 DEF PassAssertions, AssertionsHold, BreakLoop, HandlerStep
    <3> QED
      BY <1>6, <2>4, <3>1 DEF HandlerProceeds, FailAssertion
  <2> QED
    BY <2>3, <2>4
<1>7. CaptureOutlivesHandlers'
  BY <1>6 DEF CaptureOutlivesHandlers
<1> QED
  BY <1>3, <1>5, <1>7 DEF ThreadInv

\* Main returns with all workers joined, so that no thread is in a handler.
LEMMA JoinKeepsThreads ==
    ASSUME TypeInv, ThreadInv, Join, task = EmptyTask, RunningWhileCapturing
    PROVE  ThreadInv'
<1>1. /\ UNCHANGED <<thread, task, handler, running_>>
      /\ main = "join" /\ thread[index] = "done" /\ ~Suspended(Main)
      /\ index \in Worker
  BY DEF Join, MainStep, queueVars, captureVars, TypeInv, TypeOK
<1>2. \A w \in Worker : w <= index => thread[w] = "done"
  BY <1>1 DEF ThreadInv, JoinedInOrder, Worker
<1>3. CASE index = NWorkers
  <2>1. main' = "exit"
    BY <1>3 DEF Join, MainStep
  <2>2. \A w \in Worker : thread[w] = "done"
    BY <1>2, <1>3 DEF Worker
  <2>3. \A s \in Signals : ~Active(s)
    BY <1>1, <2>2 DEF ThreadInv, HandlersLive, Alive, Suspended, TypeInv, TypeOK
  <2> QED
    BY <1>1, <2>1, <2>2, <2>3 DEF ThreadInv, RunningWhileCapturing, JoinedInOrder,
       HandlersLive, CaptureOutlivesHandlers, Active
<1>4. CASE index # NWorkers
  <2>1. main' = "check" /\ index' = index + 1
    BY <1>4 DEF Join, MainStep
  <2>2. \A w \in Worker : w < index' => thread[w] = "done"
    BY <1>1, <1>2, <2>1 DEF Worker
  <2> QED
    BY <1>1, <2>1, <2>2 DEF ThreadInv, RunningWhileCapturing, JoinedInOrder,
       HandlersLive, CaptureOutlivesHandlers, Active, Alive
<1> QED
  BY <1>3, <1>4

LEMMA ThreadStep ==
    ASSUME TypeInv, StartInv, ThreadInv, main = "join" => task = EmptyTask, [Next]_vars
    PROVE  ThreadInv'
<1> USE DEF ThreadInv
<1>0. ASSUME UNCHANGED <<thread, handler>>, main' # "exit",
             RunningWhileCapturing', JoinedInOrder'
      PROVE  ThreadInv'
  BY <1>0 DEF HandlersLive, CaptureOutlivesHandlers, Active, Alive
<1>1. CASE ConstructWorker
  <2>1. /\ main' \in {"start", "wait"} /\ UNCHANGED <<handler, running_>> /\ main = "start"
        /\ \A w \in Worker : thread'[w] = thread[w] \/ thread'[w] = "init"
    BY <1>1 DEF ConstructWorker, MainStep, Start, captureVars, TypeInv, TypeOK
  <2>2. HandlersLive'
    BY <2>1 DEF HandlersLive, Active, Alive, TypeInv, TypeOK
  <2> QED
    BY <2>1, <2>2 DEF RunningWhileCapturing, JoinedInOrder, CaptureOutlivesHandlers
<1>2. CASE WaitForWorkers \/ BeginLoop \/ LoopBroken \/ LoopEnds
  BY <1>2, <1>0 DEF WaitForWorkers, BeginLoop, LoopBroken, LoopEnds, MainStep, StartLoop,
     PcapLoopBroken, PcapLoopEnds, queueVars, captureVars, dispatcherVars,
     RunningWhileCapturing, JoinedInOrder
<1>3. CASE FindRoom \/ PushEmpty
  BY <1>3, <1>0 DEF FindRoom, PushEmpty, MainStep, queueVars, captureVars, dispatcherVars,
     RunningWhileCapturing, JoinedInOrder
<1>4. CASE Overloaded \/ PushTask
  BY <1>4, <1>0 DEF Overloaded, PushTask, MainStep, queueVars, captureVars,
     RunningWhileCapturing, JoinedInOrder
<1>5. CASE LeaveLoop
  <2>1. \A w \in Worker : ~(w < 1)
    BY DEF Worker
  <2> QED
    BY <1>5, <1>0, <2>1 DEF LeaveLoop, MainStep, EndLoop, queueVars,
       RunningWhileCapturing, JoinedInOrder
<1>6. CASE Join
  BY <1>6, JoinKeepsThreads DEF Join, MainStep
<1>7. ASSUME NEW f \in Frames, SkipFrame(f) PROVE ThreadInv'
  BY <1>7, <1>0 DEF SkipFrame, MainStep, OnPacket, queueVars, dispatcherVars,
     RunningWhileCapturing, JoinedInOrder
<1>8. ASSUME NEW f \in Frames, DispatchFrame(f) PROVE ThreadInv'
  <2>1. task' # EmptyTask
    BY <1>8, TaskType, EmptyIsNoTask DEF DispatchFrame, CopyFor, TypeInv, TypeOK
  <2> QED
    BY <1>8, <1>0, <2>1 DEF DispatchFrame, MainStep, OnPacket, queueVars,
       RunningWhileCapturing, JoinedInOrder
<1>9. ASSUME NEW w \in Worker, WorkerProceeds(w) PROVE ThreadInv'
  BY <1>9, WorkerKeepsThreads
<1>10. ASSUME NEW s \in Signals, Raise(s) \/ HandlerProceeds(s) PROVE ThreadInv'
  BY <1>10, HandlerKeepsThreads
<1>11. CASE UNCHANGED vars
  BY <1>11 DEF vars, queueVars, dispatcherVars, captureVars, mainVars, RunningWhileCapturing,
     JoinedInOrder, HandlersLive, CaptureOutlivesHandlers, Active, Alive
<1> QED
  BY <1>1, <1>2, <1>3, <1>4, <1>5, <1>6, <1>7, <1>8, <1>9, <1>10, <1>11
     DEF Next, MainProceeds, Terminated

----------------------------------------------------------------------------
(***************************************************************************)
(* What was counted for a worker is queued, in hand or run, and nothing is *)
(* pushed behind the empty task that stops it.                             *)
(***************************************************************************)
TaskInv == EmptyIsLast /\ ClosedInOrder /\ TasksCounted

LEMMA TasksInit ==
    Init => TaskInv
BY DEF Init, QueueInit, DispatcherInit, TaskInv, EmptyIsLast, ClosedInOrder, Closed,
   TasksCounted, EmptyAtEnd, InHand, Stored

\* A step that leaves the tasks alone and does not move main back.
LEMMA TasksKept ==
    ASSUME TypeInv, TaskInv, UNCHANGED <<queue_, processed, taskCounter_>>,
           \A w \in Worker : /\ thread'[w] = "done" <=> thread[w] = "done"
                             /\ thread'[w] = "running" <=> thread[w] = "running",
           ClosedInOrder'
    PROVE  TaskInv'
BY DEF TaskInv, EmptyIsLast, TasksCounted, EmptyAtEnd, InHand, Stored

\* Pushing onto the queue of a worker that is not closed.
LEMMA PushTaskKeepsTasks ==
    ASSUME TypeInv, TaskInv, PushTask
    PROVE  TaskInv'
<1> DEFINE q == queue_[index]
<1>1. /\ queue_' = [queue_ EXCEPT ![index] = Append(@, task)]
      /\ taskCounter_' = [taskCounter_ EXCEPT ![index] = @ + 1]
      /\ UNCHANGED <<thread, processed, index>>
      /\ index \in Worker /\ task \in Task /\ task # EmptyTask
      /\ main = "push" /\ main' = "loop"
  BY DEF PushTask, Push, CountTask, MainStep, TypeInv, TypeOK
<1>2. \A w \in Worker : ~Closed(w)
  BY <1>1 DEF TaskInv, ClosedInOrder
<1>3. /\ q \in Seq(Task \cup {EmptyTask}) /\ Len(q) \in Nat
      /\ queue_'[index] = Append(q, task)
      /\ Len(queue_'[index]) = Len(q) + 1
      /\ queue_'[index][Len(q) + 1] = task
      /\ \A i \in 1 .. Len(q) : queue_'[index][i] = q[i]
      /\ \A w \in Worker : w # index => queue_'[w] = queue_[w]
  BY <1>1 DEF TypeInv, TypeOK
<1>4. \A i \in 1 .. Len(q) : q[i] # EmptyTask
  <2>1. \A i \in 1 .. Len(q) - 1 : q[i] # EmptyTask
    BY <1>1 DEF TaskInv, EmptyIsLast
  <2>2. q # <<>> => q[Len(q)] # EmptyTask
    BY <1>1, <1>2 DEF Closed, EmptyAtEnd
  <2>3. Len(q) # 0 => q # <<>>
    OBVIOUS
  <2> QED
    BY <1>3, <2>1, <2>2, <2>3
<1>5. EmptyIsLast'
  <2>1. \A i \in 1 .. Len(queue_'[index]) - 1 : queue_'[index][i] # EmptyTask
    BY <1>3, <1>4
  <2>2. \A w \in Worker : thread'[w] # "done"
    BY <1>1, <1>2 DEF Closed
  <2>3. ASSUME NEW w \in Worker, w # index
        PROVE  \A i \in 1 .. Len(queue_'[w]) - 1 : queue_'[w][i] # EmptyTask
    BY <1>3, <2>3 DEF TaskInv, EmptyIsLast
  <2> QED
    BY <2>1, <2>2, <2>3 DEF EmptyIsLast
<1>6. \A w \in Worker : ~Closed(w)'
  BY <1>1, <1>2, <1>3 DEF Closed, EmptyAtEnd
<1>7. ClosedInOrder'
  BY <1>1, <1>6 DEF ClosedInOrder
<1>8. ASSUME NEW w \in Worker
      PROVE  taskCounter_'[w] = Len(processed'[w]) + InHand(w)' + Stored(w)'
  <2>1. taskCounter_[w] = Len(processed[w]) + InHand(w) + Stored(w)
    BY DEF TaskInv, TasksCounted
  <2>2. Stored(w) = Len(queue_[w]) /\ Stored(w)' = Len(queue_'[w])
    BY <1>2, <1>6 DEF Closed, Stored
  <2>3. /\ Len(processed[w]) \in Nat /\ InHand(w) \in Nat /\ Len(queue_[w]) \in Nat
        /\ processed'[w] = processed[w] /\ InHand(w)' = InHand(w)
    BY <1>1 DEF InHand, TypeInv, TypeOK
  <2>4. CASE w = index
    <3>1. taskCounter_'[w] = taskCounter_[w] + 1
      BY <1>1, <2>4 DEF TypeInv, TypeOK
    <3>2. Len(queue_'[w]) = Len(queue_[w]) + 1
      BY <1>3, <2>4
    <3> QED
      BY SMTT(20), <2>1, <2>2, <2>3, <3>1, <3>2
  <2>5. CASE w # index
    BY <1>1, <1>3, <2>1, <2>2, <2>3, <2>5 DEF TypeInv, TypeOK
  <2> QED
    BY <2>4, <2>5
<1>9. TasksCounted'
  BY <1>8 DEF TasksCounted
<1> QED
  BY <1>5, <1>7, <1>9 DEF TaskInv

\* Stopping a worker that is not closed.
LEMMA PushEmptyKeepsTasks ==
    ASSUME TypeInv, TaskInv, PushEmpty
    PROVE  TaskInv'
<1> DEFINE q == queue_[index]
<1>1. /\ queue_' = [queue_ EXCEPT ![index] = Append(@, EmptyTask)]
      /\ UNCHANGED <<thread, processed, taskCounter_, index, task>>
      /\ index \in Worker /\ task = EmptyTask
      /\ main = "push" /\ main' = "join"
  BY DEF PushEmpty, Push, MainStep, dispatcherVars, TypeInv, TypeOK
<1>2. ~Closed(index)
  BY <1>1, TaskQueueAssumption DEF TaskInv, ClosedInOrder, Worker
<1>3. /\ q \in Seq(Task \cup {EmptyTask}) /\ Len(q) \in Nat
      /\ queue_'[index] = Append(q, EmptyTask)
      /\ Len(queue_'[index]) = Len(q) + 1
      /\ queue_'[index][Len(q) + 1] = EmptyTask
      /\ \A i \in 1 .. Len(q) : queue_'[index][i] = q[i]
      /\ \A w \in Worker : w # index => queue_'[w] = queue_[w]
  BY <1>1 DEF TypeInv, TypeOK
<1>4. \A i \in 1 .. Len(q) : q[i] # EmptyTask
  <2>1. \A i \in 1 .. Len(q) - 1 : q[i] # EmptyTask
    BY <1>1 DEF TaskInv, EmptyIsLast
  <2>2. q # <<>> => q[Len(q)] # EmptyTask
    BY <1>1, <1>2 DEF Closed, EmptyAtEnd
  <2>3. Len(q) # 0 => q # <<>>
    OBVIOUS
  <2> QED
    BY <1>3, <2>1, <2>2, <2>3
<1>5. EmptyIsLast'
  BY <1>1, <1>2, <1>3, <1>4 DEF TaskInv, EmptyIsLast, Closed
<1>6. EmptyAtEnd(index)'
  BY <1>1, <1>3 DEF EmptyAtEnd
<1>7. \A w \in Worker : w # index => (EmptyAtEnd(w)' <=> EmptyAtEnd(w))
  BY <1>1, <1>3 DEF EmptyAtEnd
<1>8. ClosedInOrder'
  <2>1. ASSUME NEW w \in Worker, Closed(w)', w # index PROVE w < index
    <3>1. Closed(w)
      BY <1>1, <1>7, <2>1 DEF Closed
    <3> QED
      BY <1>1, <3>1 DEF TaskInv, ClosedInOrder
  <2>2. \A w \in Worker : Closed(w)' => w <= index
    BY <1>1, <2>1, TaskQueueAssumption DEF Worker
  <2> QED
    BY <1>1, <2>2 DEF ClosedInOrder
<1>9. ASSUME NEW w \in Worker
      PROVE  taskCounter_'[w] = Len(processed'[w]) + InHand(w)' + Stored(w)'
  <2>1. taskCounter_[w] = Len(processed[w]) + InHand(w) + Stored(w)
    BY DEF TaskInv, TasksCounted
  <2>2. CASE w = index
    <3>1. Stored(index) = Len(q)
      BY <1>2 DEF Closed, Stored
    <3>2. Stored(index)' = Len(q)
      BY <1>1, <1>3, <1>6 DEF Stored
    <3> QED
      BY <1>1, <2>1, <2>2, <3>1, <3>2 DEF InHand
  <2>3. CASE w # index
    BY <1>1, <1>3, <1>7, <2>1, <2>3 DEF InHand, Stored
  <2> QED
    BY <2>2, <2>3
<1>10. TasksCounted'
  BY <1>9 DEF TasksCounted
<1> QED
  BY <1>5, <1>8, <1>10 DEF TaskInv

\* A number from one is one or more than one.
LEMMA OneOrMore ==
    ASSUME NEW n \in Nat, n >= 1
    PROVE  /\ n = 1 \/ n > 1
           /\ n > 1 => n # 1 /\ n - 1 # 0
OBVIOUS

\* Taking the first task; when it is the empty one nothing is behind it.
LEMMA TakeKeepsTasks ==
    ASSUME TypeInv, TaskInv, NEW w \in Worker, Take(w),
           UNCHANGED <<processed, taskCounter_, main, index, task>>
    PROVE  TaskInv'
<1> DEFINE q == queue_[w]
<1>1. /\ queue_' = [queue_ EXCEPT ![w] = Tail(@)]
      /\ thread[w] = "taking"
      /\ thread' = [thread EXCEPT ![w] = IF Head(q) = EmptyTask THEN "done" ELSE "running"]
      /\ q \in Seq(Task \cup {EmptyTask}) /\ q # <<>>
  BY DEF Take, TypeInv, TypeOK
<1>2. /\ Len(q) \in Nat /\ Len(q) >= 1
      /\ queue_'[w] = Tail(q)
      /\ Len(queue_'[w]) = Len(q) - 1
      /\ \A i \in 1 .. Len(q) - 1 : queue_'[w][i] = q[i + 1]
      /\ Head(q) = q[1]
  BY <1>1 DEF TypeInv, TypeOK
<1>14. Len(q) \in Nat /\ Len(q) >= 1
  BY <1>2
<1>15. /\ Len(q) = 1 \/ Len(q) > 1
       /\ Len(q) > 1 => Len(q) # 1 /\ Len(q) - 1 # 0
  BY <1>14, OneOrMore
<1>3. /\ thread'[w] = IF Head(q) = EmptyTask THEN "done" ELSE "running"
      /\ \A v \in Worker : v # w => queue_'[v] = queue_[v] /\ thread'[v] = thread[v]
  BY <1>1 DEF TypeInv, TypeOK
<1>4. \A i \in 1 .. Len(q) - 1 : q[i] # EmptyTask
  BY DEF TaskInv, EmptyIsLast
<1>5. Head(q) = EmptyTask => Len(q) = 1
  <2>1. Len(q) > 1 => 1 \in 1 .. Len(q) - 1
    BY <1>14
  <2>2. Len(q) > 1 => q[1] # EmptyTask
    BY <1>4, <2>1
  <2> QED
    BY <1>2, <1>15, <2>2
<1>6. Len(q) = 1 => queue_'[w] = <<>> /\ (EmptyAtEnd(w) <=> Head(q) = EmptyTask)
  BY <1>1, <1>2 DEF EmptyAtEnd
<1>7. Len(q) > 1 => (EmptyAtEnd(w)' <=> EmptyAtEnd(w))
  <2>1. ASSUME Len(q) > 1 PROVE queue_'[w] # <<>> /\ queue_'[w][Len(q) - 1] = q[Len(q)]
    <3>1. Len(q) - 1 \in 1 .. Len(q) - 1 /\ Len(q) - 1 + 1 = Len(q)
      BY <2>1, <1>14
    <3>2. queue_'[w][Len(q) - 1] = q[Len(q) - 1 + 1]
      BY <1>2, <3>1
    <3>3. queue_'[w] # <<>>
      <4>1. Len(q) - 1 # 0
        BY <1>15, <2>1
      <4>2. Len(queue_'[w]) # 0
        BY <1>2, <4>1
      <4> QED
        BY <4>2
    <3> QED
      BY <3>1, <3>2, <3>3
  <2> QED
    BY <1>1, <1>2, <2>1 DEF EmptyAtEnd
<1>8. \A v \in Worker : v # w => (EmptyAtEnd(v)' <=> EmptyAtEnd(v))
  BY <1>3 DEF EmptyAtEnd
<1>9. EmptyIsLast'
  <2>1. ASSUME NEW i \in 1 .. Len(queue_'[w]) - 1 PROVE queue_'[w][i] # EmptyTask
    <3>1. i + 1 \in 1 .. Len(q) - 1 /\ i \in 1 .. Len(q) - 1
      BY <1>2, <2>1
    <3> QED
      BY <1>2, <1>4, <3>1
  <2>2. thread'[w] = "done" => queue_'[w] = <<>>
    BY <1>3, <1>5, <1>6
  <2>3. ASSUME NEW v \in Worker, v # w
        PROVE  /\ \A i \in 1 .. Len(queue_'[v]) - 1 : queue_'[v][i] # EmptyTask
               /\ thread'[v] = "done" => queue_'[v] = <<>>
    BY <1>3, <2>3 DEF TaskInv, EmptyIsLast
  <2> QED
    BY <2>1, <2>2, <2>3 DEF EmptyIsLast
<1>10. \A v \in Worker : Closed(v)' => Closed(v)
  <2>1. Closed(w)' => Closed(w)
    <3>1. CASE Len(q) = 1
      <4>1. Closed(w)' => Head(q) = EmptyTask
        BY <1>3, <1>6, <3>1 DEF Closed, EmptyAtEnd
      <4> QED
        BY <1>6, <3>1, <4>1 DEF Closed
    <3>2. CASE Len(q) > 1
      <4>1. Head(q) # EmptyTask
        BY <1>5, <1>15, <3>2
      <4> QED
        BY <1>3, <1>7, <3>2, <4>1 DEF Closed
    <3> QED
      BY <1>15, <3>1, <3>2
  <2>2. \A v \in Worker : v # w => (Closed(v)' => Closed(v))
    BY <1>3, <1>8 DEF Closed
  <2> QED
    BY <2>1, <2>2
<1>11. ClosedInOrder'
  BY <1>10 DEF TaskInv, ClosedInOrder
<1>12. ASSUME NEW v \in Worker
       PROVE  taskCounter_'[v] = Len(processed'[v]) + InHand(v)' + Stored(v)'
  <2>1. taskCounter_[v] = Len(processed[v]) + InHand(v) + Stored(v)
    BY DEF TaskInv, TasksCounted
  <2>2. InHand(w) = 0 /\ Len(processed[v]) \in Nat
    BY <1>1 DEF InHand, TypeInv, TypeOK
  <2>3. ASSUME v = w PROVE InHand(v)' + Stored(v)' = InHand(v) + Stored(v)
    <3>1. CASE Len(q) = 1
      <4>1. Stored(w)' = 0
        BY <1>2, <1>6, <3>1 DEF Stored, EmptyAtEnd
      <4>2. CASE Head(q) = EmptyTask
        <5>1. InHand(w)' = 0 /\ Stored(w) = 0
          BY <1>3, <1>6, <3>1, <4>2 DEF InHand, Stored
        <5> QED
          BY <2>2, <2>3, <4>1, <5>1
      <4>3. CASE Head(q) # EmptyTask
        <5>1. InHand(w)' = 1 /\ Stored(w) = 1
          BY <1>3, <1>6, <3>1, <4>3 DEF InHand, Stored
        <5> QED
          BY <2>2, <2>3, <4>1, <5>1
      <4> QED
        BY <4>2, <4>3
    <3>2. CASE Len(q) > 1
      <4>1. InHand(w)' = 1
        <5>1. Head(q) # EmptyTask
          BY <1>5, <1>15, <3>2
        <5> QED
          BY <1>3, <5>1 DEF InHand
      <4>2. Stored(w)' = Stored(w) - 1 /\ Stored(w) \in Int
        BY <1>2, <1>7, <3>2 DEF Stored
      <4> QED
        BY <2>2, <2>3, <4>1, <4>2
    <3> QED
      BY <1>15, <3>1, <3>2
  <2>4. ASSUME v # w PROVE InHand(v)' = InHand(v) /\ Stored(v)' = Stored(v)
    BY <1>3, <1>8, <2>4 DEF InHand, Stored
  <2>5. /\ InHand(v) \in Int /\ Stored(v) \in Int /\ InHand(v)' \in Int /\ Stored(v)' \in Int
    BY <1>2, <1>3 DEF InHand, Stored, TypeInv, TypeOK
  <2> QED
    BY <2>1, <2>2, <2>3, <2>4, <2>5
<1>13. TasksCounted'
  BY <1>12 DEF TasksCounted
<1> QED
  BY <1>9, <1>11, <1>13 DEF TaskInv

\* A task that was run is no longer in hand.
LEMMA RunKeepsTasks ==
    ASSUME TypeInv, TaskInv, NEW w \in Worker, ProcessTask(w)
    PROVE  TaskInv'
<1>1. /\ thread[w] = "running" /\ thread' = [thread EXCEPT ![w] = "idle"]
      /\ processed' = [processed EXCEPT ![w] = Append(@, hand[w])]
      /\ UNCHANGED <<queue_, taskCounter_, main, index, task>>
  BY DEF ProcessTask, WorkerStep, RunTask, Run
<1>2. /\ thread'[w] = "idle"
      /\ Len(processed'[w]) = Len(processed[w]) + 1 /\ Len(processed[w]) \in Nat
      /\ \A v \in Worker : v # w => thread'[v] = thread[v] /\ processed'[v] = processed[v]
  BY <1>1 DEF HandsFull, TypeInv, TypeOK
<1>3. /\ \A v \in Worker : Closed(v)' => Closed(v)
      /\ \A v \in Worker : Stored(v)' = Stored(v)
  BY <1>1, <1>2 DEF Closed, EmptyAtEnd, Stored
<1>4. EmptyIsLast'
  BY <1>1, <1>2 DEF TaskInv, EmptyIsLast
<1>5. ClosedInOrder'
  BY <1>1, <1>3 DEF TaskInv, ClosedInOrder
<1>6. ASSUME NEW v \in Worker
      PROVE  taskCounter_'[v] = Len(processed'[v]) + InHand(v)' + Stored(v)'
  <2>1. taskCounter_[v] = Len(processed[v]) + InHand(v) + Stored(v) /\ Stored(v) \in Int
    BY DEF TaskInv, TasksCounted, Stored, TypeInv, TypeOK
  <2>2. CASE v = w
    <3>1. InHand(v) = 1 /\ InHand(v)' = 0
      BY <1>1, <1>2, <2>2 DEF InHand
    <3> QED
      BY <1>1, <1>2, <1>3, <2>1, <2>2, <3>1
  <2>3. CASE v # w
    BY <1>1, <1>2, <1>3, <2>1, <2>3 DEF InHand
  <2> QED
    BY <2>2, <2>3
<1>7. TasksCounted'
  BY <1>6 DEF TasksCounted
<1> QED
  BY <1>4, <1>5, <1>7 DEF TaskInv

LEMMA TaskStep ==
    ASSUME TypeInv, StartInv, TaskInv, ThreadInv, [Next]_vars
    PROVE  TaskInv'
<1>0. ASSUME UNCHANGED <<queue_, thread, processed, taskCounter_>>, ClosedInOrder'
      PROVE  TaskInv'
  BY <1>0, TasksKept
<1>1. ASSUME UNCHANGED <<queue_, thread>>
      PROVE  \A w \in Worker : Closed(w)' <=> Closed(w)
  BY <1>1 DEF Closed, EmptyAtEnd
<1>2. CASE ConstructWorker
  <2>1. /\ UNCHANGED <<queue_, processed, taskCounter_>>
        /\ main = "start" /\ main' \in {"start", "wait"}
        /\ thread[index] = "none" /\ thread' = [thread EXCEPT ![index] = "init"]
    BY <1>2 DEF ConstructWorker, MainStep, Start
  <2>2. \A w \in Worker : /\ thread'[w] = "done" <=> thread[w] = "done"
                          /\ thread'[w] = "running" <=> thread[w] = "running"
    BY <2>1 DEF TypeInv, TypeOK
  <2>3. \A w \in Worker : Closed(w)' <=> Closed(w)
    BY <2>1, <2>2 DEF Closed, EmptyAtEnd
  <2>4. ClosedInOrder'
    BY <2>1, <2>3 DEF TaskInv, ClosedInOrder
  <2> QED
    BY <2>1, <2>2, <2>4, TasksKept
<1>3. CASE PushTask
  BY <1>3, PushTaskKeepsTasks
<1>4. CASE PushEmpty
  BY <1>4, PushEmptyKeepsTasks
<1>5. CASE WaitForWorkers \/ BeginLoop \/ LoopBroken \/ LoopEnds
  <2>1. /\ UNCHANGED <<queue_, thread, processed, taskCounter_>>
        /\ main \in {"wait", "ready", "loop"} /\ main' # "join"
    BY <1>5 DEF WaitForWorkers, BeginLoop, LoopBroken, LoopEnds, MainStep, queueVars,
       dispatcherVars
  <2>2. ClosedInOrder'
    BY <1>1, <2>1 DEF TaskInv, ClosedInOrder
  <2> QED
    BY <1>0, <2>1, <2>2
<1>6. CASE FindRoom
  <2>1. /\ UNCHANGED <<queue_, thread, processed, taskCounter_, index, task>>
        /\ main = "check" /\ main' = "push"
    BY <1>6 DEF FindRoom, MainStep, queueVars, dispatcherVars
  <2>2. ClosedInOrder'
    BY <1>1, <2>1 DEF TaskInv, ClosedInOrder
  <2> QED
    BY <1>0, <2>1, <2>2
<1>7. CASE Overloaded
  <2>1. /\ UNCHANGED <<queue_, thread, processed, taskCounter_>>
        /\ main = "check" /\ task # EmptyTask /\ main' = "loop"
    BY <1>7 DEF Overloaded, MainStep, GiveUp, queueVars
  <2>2. ClosedInOrder'
    BY <1>1, <2>1 DEF TaskInv, ClosedInOrder
  <2> QED
    BY <1>0, <2>1, <2>2
<1>8. CASE LeaveLoop
  <2>1. /\ UNCHANGED <<queue_, thread, processed, taskCounter_>>
        /\ main = "ended" /\ main' = "check"
    BY <1>8 DEF LeaveLoop, MainStep, queueVars
  <2>2. ClosedInOrder'
    BY <1>1, <2>1 DEF TaskInv, ClosedInOrder
  <2> QED
    BY <1>0, <2>1, <2>2
<1>9. CASE Join
  <2>1. /\ UNCHANGED <<queue_, thread, processed, taskCounter_, task>>
        /\ main = "join" /\ task = EmptyTask /\ index \in Worker
        /\ \/ main' = "exit"
           \/ main' = "check" /\ index' = index + 1
    BY <1>9 DEF Join, MainStep, queueVars, TaskInv, ClosedInOrder, TypeInv, TypeOK
  <2>2. \A w \in Worker : w <= index => w < index + 1
    BY <2>1 DEF Worker
  <2>3. ClosedInOrder'
    BY <1>1, <2>1, <2>2 DEF TaskInv, ClosedInOrder
  <2> QED
    BY <1>0, <2>1, <2>3
<1>10. ASSUME NEW f \in Frames, SkipFrame(f) \/ DispatchFrame(f) PROVE TaskInv'
  <2>1. /\ UNCHANGED <<queue_, thread, processed, taskCounter_>>
        /\ main = "loop" /\ main' \in {"loop", "check"}
    BY <1>10 DEF SkipFrame, DispatchFrame, CopyFor, MainStep, queueVars, dispatcherVars
  <2>2. ClosedInOrder'
    BY <1>1, <2>1 DEF TaskInv, ClosedInOrder
  <2> QED
    BY <1>0, <2>1, <2>2
<1>11. ASSUME NEW w \in Worker, InitInThread(w) \/ TakeTask(w) PROVE TaskInv'
  <2>1. UNCHANGED <<processed, taskCounter_, main, index, task>>
    BY <1>11 DEF InitInThread, TakeTask, WorkerStep, dispatcherVars
  <2>2. CASE InitInThread(w) \/ BeginTake(w)
    <3>1. /\ UNCHANGED queue_
          /\ \A v \in Worker : /\ thread'[v] = "done" <=> thread[v] = "done"
                               /\ thread'[v] = "running" <=> thread[v] = "running"
      BY <2>2 DEF InitInThread, ThreadInit, BeginTake, TypeInv, TypeOK
    <3>2. \A v \in Worker : Closed(v)' <=> Closed(v)
      BY <3>1 DEF Closed, EmptyAtEnd
    <3>3. ClosedInOrder'
      BY <2>1, <3>2 DEF TaskInv, ClosedInOrder
    <3> QED
      BY <2>1, <3>1, <3>3, TasksKept
  <2>3. CASE Take(w)
    BY <2>1, <2>3, TakeKeepsTasks
  <2> QED
    BY <1>11, <2>2, <2>3 DEF TakeTask
<1>12. ASSUME NEW w \in Worker, ProcessTask(w) PROVE TaskInv'
  BY <1>12, RunKeepsTasks
<1>13. ASSUME NEW s \in Signals, Raise(s) \/ HandlerProceeds(s) PROVE TaskInv'
  <2>1. /\ UNCHANGED <<queue_, thread, processed, taskCounter_, index, task>>
        /\ main' \in {main, "aborted"}
    BY <1>13 DEF Raise, HandlerProceeds, PassAssertions, FailAssertion, BreakLoop,
       HandlerStep, queueVars, dispatcherVars
  <2>2. ClosedInOrder'
    BY <1>1, <2>1 DEF TaskInv, ClosedInOrder
  <2> QED
    BY <1>0, <2>1, <2>2
<1>14. CASE UNCHANGED vars
  <2>1. UNCHANGED <<queue_, thread, processed, taskCounter_, index, task, main>>
    BY <1>14 DEF vars, queueVars, dispatcherVars, mainVars
  <2>2. ClosedInOrder'
    BY <1>1, <2>1 DEF TaskInv, ClosedInOrder
  <2> QED
    BY <1>0, <2>1, <2>2
<1> QED
  BY <1>2, <1>3, <1>4, <1>5, <1>6, <1>7, <1>8, <1>9, <1>10, <1>11, <1>12, <1>13, <1>14
     DEF Next, MainProceeds, WorkerProceeds, Terminated

----------------------------------------------------------------------------
(***************************************************************************)
(* The theorems.                                                           *)
(***************************************************************************)
IInv == TypeInv /\ StartInv /\ RoomIsKept /\ TaskInv /\ ThreadInv

LEMMA Invariance ==
    Spec => []IInv
<1>1. Init => IInv
  BY TypeInit, StartInit, RoomInit, TasksInit, ThreadsInit DEF IInv
<1>2. IInv /\ [Next]_vars => IInv'
  <2> SUFFICES ASSUME IInv, [Next]_vars PROVE IInv'
    OBVIOUS
  <2>1. TypeInv' /\ StartInv' /\ RoomIsKept' /\ TaskInv'
    BY TypeStep, StartStep, RoomStep, TaskStep DEF IInv
  <2>2. main = "join" => task = EmptyTask
    BY DEF IInv, TaskInv, ClosedInOrder
  <2>3. ThreadInv'
    BY <2>2, ThreadStep DEF IInv
  <2> QED
    BY <2>1, <2>3 DEF IInv
<1> QED
  BY <1>1, <1>2, PTL DEF Spec

\* Main thread, queues, workers and handlers keep well-formed values.
THEOREM TypeCorrect ==
    Spec => []TypeOK
<1>1. IInv => TypeOK
  BY DEF IInv, TypeInv
<1> QED
  BY <1>1, Invariance, PTL

\* No queue holds more than its bound, although nonBlockingRun looks at the
\* size and pushes in two steps (TaskQueue.cc:44-45).
THEOREM QueueBoundedHolds ==
    Spec => []QueueBounded
<1>1. IInv => QueueBounded
  BY DEF IInv, RoomIsKept
<1> QED
  BY <1>1, Invariance, PTL

\* Nothing is captured before every worker has registered its callbacks
\* (noff.cc:219, 321).
THEOREM RegisteredBeforeCaptureHolds ==
    Spec => []RegisteredBeforeCapture
<1>1. IInv => RegisteredBeforeCapture
  BY DEF IInv, StartInv
<1> QED
  BY <1>1, Invariance, PTL

\* The Capture is destroyed only when no handler uses it (noff.cc:58-62).
THEOREM CaptureOutlivesHandlersHolds ==
    Spec => []CaptureOutlivesHandlers
<1>1. IInv => CaptureOutlivesHandlers
  BY DEF IInv, ThreadInv
<1> QED
  BY <1>1, Invariance, PTL

\* A worker that ends has run all that Dispatcher counted for it
\* (Dispatcher.cc:99, TaskQueue.cc:75-84).
THEOREM EndedWorkersAreDrainedHolds ==
    Spec => []EndedWorkersAreDrained
<1>1. IInv => EndedWorkersAreDrained
  <2> SUFFICES ASSUME IInv, NEW w \in Worker, thread[w] = "done"
               PROVE  Len(processed[w]) = taskCounter_[w]
    BY DEF EndedWorkersAreDrained
  <2>1. queue_[w] = <<>>
    BY DEF IInv, TaskInv, EmptyIsLast
  <2>2. InHand(w) = 0 /\ Stored(w) = 0
    BY <2>1 DEF InHand, Stored, EmptyAtEnd
  <2>3. taskCounter_[w] = Len(processed[w]) + InHand(w) + Stored(w)
    BY DEF IInv, TaskInv, TasksCounted
  <2>4. Len(processed[w]) \in Nat
    BY DEF IInv, TypeInv, TypeOK
  <2> QED
    BY <2>2, <2>3, <2>4
<1> QED
  BY <1>1, Invariance, PTL

\* running_ is set in startLoop only (Capture.cc:60, 71).
THEOREM RunningOnlyInLoopHolds ==
    Spec => []RunningOnlyInLoop
<1>1. IInv => RunningOnlyInLoop
  BY DEF IInv, ThreadInv, RunningWhileCapturing, RunningOnlyInLoop
<1> QED
  BY <1>1, Invariance, PTL

----------------------------------------------------------------------------
(***************************************************************************)
(* The service.  A task is pending from the push to the end of its run;    *)
(* that it was captured after all others of its worker is what the number  *)
(* in it is for.                                                           *)
(***************************************************************************)
\* Sequences.
LEMMA SameSequence ==
    ASSUME NEW S, NEW s \in Seq(S), NEW t \in Seq(S), Len(s) = Len(t),
           \A i \in 1 .. Len(s) : s[i] = t[i]
    PROVE  s = t
OBVIOUS

LEMMA NotEmpty ==
    ASSUME NEW S, NEW s \in Seq(S), Len(s) > 0
    PROVE  s # <<>>
OBVIOUS

LEMMA EmptyWhenNone ==
    ASSUME NEW S, NEW s \in Seq(S), Len(s) = 0
    PROVE  s = <<>>
OBVIOUS

LEMMA OfEither ==
    ASSUME NEW S, NEW s \in Seq(S), NEW t \in Seq(S), NEW i \in DOMAIN (s \o t)
    PROVE  \/ \E j \in 1 .. Len(s) : (s \o t)[i] = s[j]
           \/ \E j \in 1 .. Len(t) : (s \o t)[i] = t[j]
<1>1. i \in 1 .. Len(s) + Len(t) /\ Len(s) \in Nat /\ Len(t) \in Nat
  OBVIOUS
<1>2. CASE i <= Len(s)
  <2>1. i \in 1 .. Len(s) /\ (s \o t)[i] = s[i]
    BY <1>1, <1>2
  <2> QED
    BY <2>1
<1>3. CASE i > Len(s)
  <2>1. i - Len(s) \in 1 .. Len(t) /\ (s \o t)[i] = t[i - Len(s)]
    BY <1>1, <1>3
  <2> QED
    BY <2>1
<1> QED
  BY <1>1, <1>2, <1>3

\* The tasks a worker was given and has not run, one by one.
PendingOf(w) ==
    /\ Pending[w] \in Seq(Task)
    /\ Len(Pending[w]) = InHand(w) + Stored(w)
    /\ \A i \in 1 .. InHand(w) + Stored(w) :
           Pending[w][i] = IF thread[w] # "running" THEN queue_[w][i]
                           ELSE IF i = 1 THEN hand[w] ELSE queue_[w][i - 1]

PendingShown == \A w \in Worker : PendingOf(w)

LEMMA PendingIs ==
    TypeInv /\ EmptyIsLast /\ main # "aborted" => PendingShown
<1> SUFFICES ASSUME TypeInv, EmptyIsLast, main # "aborted", NEW w \in Worker
             PROVE  PendingOf(w)
  BY DEF PendingShown
<1> DEFINE q == queue_[w]
           n == Len(q)
<1>1. q \in Seq(Task \cup {EmptyTask}) /\ n \in Nat
  BY DEF TypeInv, TypeOK
<1>2. (n > 0 /\ q[n] = EmptyTask) <=> EmptyAtEnd(w)
  BY <1>1 DEF EmptyAtEnd
<1>3. Stored(w) \in 0 .. n /\ Waiting(w) = SubSeq(q, 1, Stored(w))
  BY <1>1, <1>2 DEF Waiting, Stored, EmptyAtEnd
<1>4. \A i \in 1 .. Stored(w) : q[i] \in Task
  <2>1. \A i \in 1 .. n - 1 : q[i] # EmptyTask
    BY DEF EmptyIsLast
  <2>2. ~EmptyAtEnd(w) => n = 0 \/ q[n] # EmptyTask
    BY <1>1, <1>2
  <2>3. \A i \in 1 .. n : q[i] \in Task \cup {EmptyTask}
    BY <1>1
  <2> QED
    BY <1>1, <1>3, <2>1, <2>2, <2>3 DEF Stored
<1>5. /\ Waiting(w) \in Seq(Task) /\ Len(Waiting(w)) = Stored(w)
      /\ \A i \in 1 .. Stored(w) : Waiting(w)[i] = q[i]
  <2>1. Waiting(w) = [i \in 1 .. Stored(w) |-> q[i]]
    BY <1>1, <1>3
  <2> QED
    BY <1>3, <1>4, <2>1
<1>6. CASE thread[w] = "running"
  <2>1. Pending[w] = <<hand[w]>> \o Waiting(w) /\ hand[w] \in Task /\ InHand(w) = 1
    BY <1>6 DEF Pending, InHand, TypeInv, HandsFull
  <2> QED
    BY <1>3, <1>5, <1>6, <2>1 DEF PendingOf
<1>7. CASE thread[w] # "running"
  <2>1. Pending[w] = <<>> \o Waiting(w) /\ InHand(w) = 0
    BY <1>7 DEF Pending, InHand
  <2>2. Pending[w] = Waiting(w)
    BY <1>5, <2>1
  <2> QED
    BY <1>3, <1>5, <1>7, <2>1, <2>2 DEF PendingOf
<1> QED
  BY <1>6, <1>7

\* What a worker has to run stays when its queue and what it runs do.
LEMMA WorkerStays ==
    ASSUME NEW w \in Worker, queue_'[w] = queue_[w], hand'[w] = hand[w],
           main # "aborted", main' # "aborted",
           thread'[w] = "running" <=> thread[w] = "running"
    PROVE  Pending'[w] = Pending[w]
<1>1. Waiting(w)' = Waiting(w)
  BY DEF Waiting
<1>2. Pending[w] = (IF thread[w] = "running" THEN <<hand[w]>> ELSE <<>>) \o Waiting(w)
  BY DEF Pending
<1>3. Pending'[w] = (IF thread'[w] = "running" THEN <<hand'[w]>> ELSE <<>>) \o Waiting(w)'
  BY DEF Pending
<1> QED
  BY <1>1, <1>2, <1>3

LEMMA PendingStays ==
    ASSUME UNCHANGED <<queue_, hand>>, main # "aborted", main' # "aborted",
           \A w \in Worker : thread'[w] = "running" <=> thread[w] = "running"
    PROVE  Pending' = Pending
BY WorkerStays DEF Pending

\* Every task that was given to a worker was captured before number no.
GivenBefore(no) ==
    \A w \in Worker :
        /\ \A i \in 1 .. Len(processed[w]) : processed[w][i].no < no
        /\ \A i \in 1 .. Len(Pending[w]) : Pending[w][i].no < no

\* The task of a call in progress is the last that was captured, and the worker of
\* the call is the one of its flow.
OrderInv ==
    /\ GivenBefore(captured)
    /\ task # EmptyTask =>
           /\ main \in {"check", "push", "aborted"}
           /\ GivenBefore(task.no)
           /\ task.no < captured
           /\ task.packet # Garbled => Shard[task.packet] = index

LEMMA OrderInit ==
    Init => OrderInv
<1> SUFFICES ASSUME Init PROVE OrderInv
  OBVIOUS
<1>1. /\ task = EmptyTask
      /\ \A w \in Worker : queue_[w] = <<>> /\ processed[w] = <<>> /\ thread[w] # "running"
      /\ main # "aborted"
  BY DEF Init, QueueInit, DispatcherInit
<1>2. \A w \in Worker : Len(processed[w]) = 0 /\ Len(Pending[w]) = 0
  <2>1. PendingShown
    BY <1>1, TypeInit, TasksInit, PendingIs DEF TaskInv
  <2>2. \A w \in Worker : InHand(w) = 0 /\ Stored(w) = 0 /\ Len(processed[w]) = 0
    BY <1>1 DEF InHand, Stored, EmptyAtEnd
  <2> QED
    BY <2>1, <2>2 DEF PendingShown, PendingOf
<1>3. GivenBefore(captured)
  <2>1. \A i \in 1 .. 0 : FALSE
    OBVIOUS
  <2> QED
    BY <1>2, <2>1 DEF GivenBefore
<1> QED
  BY <1>1, <1>3 DEF OrderInv

\* A step that gives no worker a task and runs none.
Quietly ==
    /\ UNCHANGED <<queue_, hand, processed, captured>>
    /\ \A w \in Worker : thread'[w] = "running" <=> thread[w] = "running"
    /\ main # "aborted" /\ main' # "aborted"
    /\ main = "exit" <=> main' = "exit"
    /\ \/ task' = EmptyTask
       \/ UNCHANGED <<task, index>> /\ main' \in {main, "push"}

LEMMA QuietlyServes ==
    ASSUME OrderInv, Quietly
    PROVE  OrderInv' /\ UNCHANGED Service!serviceVars
<1>1. Pending' = Pending
  BY PendingStays DEF Quietly
<1>2. OrderInv'
  BY <1>1 DEF Quietly, OrderInv, GivenBefore
<1> QED
  BY <1>1, <1>2 DEF Quietly, Service!serviceVars

\* A frame is captured, and may be copied for the worker of its flow.
LEMMA FrameServes ==
    ASSUME TypeInv, TaskInv, OrderInv, NEW f \in Frames, SkipFrame(f) \/ DispatchFrame(f)
    PROVE  OrderInv' /\ UNCHANGED Service!serviceVars
<1>1. /\ UNCHANGED <<queue_, thread, hand, processed>>
      /\ main = "loop" /\ main' \in {"loop", "check"}
      /\ captured' = captured + 1 /\ captured \in Nat
      /\ task = EmptyTask
  BY DEF SkipFrame, DispatchFrame, CopyFor, MainStep, queueVars, dispatcherVars, OrderInv,
     TypeInv, TypeOK
<1>2. Pending' = Pending
  BY <1>1, PendingStays
<1>3. ASSUME NEW w \in Worker
      PROVE  /\ \A i \in 1 .. Len(processed[w]) : processed[w][i].no \in Nat
             /\ \A i \in 1 .. Len(Pending[w]) : Pending[w][i].no \in Nat
  <2>1. processed[w] \in Seq(Task)
    BY DEF TypeInv, TypeOK
  <2>2. PendingShown
    BY <1>1, PendingIs DEF TaskInv
  <2>3. Pending[w] \in Seq(Task)
    BY <2>2 DEF PendingShown, PendingOf
  <2>4. ASSUME NEW t \in Task PROVE t.no \in Nat
    BY DEF Task
  <2>5. \A i \in 1 .. Len(processed[w]) : processed[w][i] \in Task
    BY <2>1
  <2>6. \A i \in 1 .. Len(Pending[w]) : Pending[w][i] \in Task
    BY <2>3
  <2> QED
    BY <2>4, <2>5, <2>6
<1>4. GivenBefore(captured)
  BY DEF OrderInv
<1>5. GivenBefore(captured)'
  <2>1. ASSUME NEW n \in Nat, n < captured PROVE n < captured'
    BY <1>1, <2>1
  <2> QED
    BY <1>1, <1>2, <1>3, <1>4, <2>1 DEF GivenBefore
<1>6. CASE SkipFrame(f)
  <2>1. task' = EmptyTask
    BY <1>1, <1>6 DEF SkipFrame, dispatcherVars
  <2> QED
    BY <1>1, <1>2, <1>5, <2>1 DEF OrderInv, Service!serviceVars
<1>7. CASE DispatchFrame(f)
  <2>1. PICK w \in Worker : CopyFor(w, captured, Parsed(f))
    BY <1>7 DEF DispatchFrame
  <2>2. /\ task' = [no |-> captured, packet |-> Parsed(f)] /\ index' = w
        /\ w \in Target(Parsed(f)) /\ main' = "check"
    BY <1>7, <2>1 DEF CopyFor, TaskOf, DispatchFrame, MainStep
  <2>3. task'.packet # Garbled => Shard[task'.packet] = index'
    BY <2>2 DEF Target
  <2>4. task'.no = captured /\ captured < captured'
    BY <1>1, <2>2
  <2>5. GivenBefore(task.no)'
    BY <1>1, <1>2, <1>4, <2>4 DEF GivenBefore
  <2> QED
    BY <1>1, <1>2, <1>5, <2>2, <2>3, <2>4, <2>5 DEF OrderInv, Service!serviceVars
<1> QED
  BY <1>6, <1>7

\* A task that is pushed is the last its worker is given.
LEMMA PushServes ==
    ASSUME TypeInv, TaskInv, OrderInv, TaskInv', TypeInv', PushTask
    PROVE  OrderInv' /\ Service!Give(index)
<1> DEFINE q == queue_[index]
           h == IF thread[index] = "running" THEN 1 ELSE 0
           all == h + Len(q)
<1>1. /\ queue_' = [queue_ EXCEPT ![index] = Append(@, task)]
      /\ UNCHANGED <<thread, hand, processed, captured, index>>
      /\ task' = EmptyTask
      /\ index \in Worker /\ task \in Task /\ task # EmptyTask
      /\ main = "push" /\ main' = "loop"
  BY DEF PushTask, Push, CountTask, MainStep, TypeInv, TypeOK
<1>2. \A v \in Worker : ~EmptyAtEnd(v)
  BY <1>1 DEF TaskInv, ClosedInOrder, Closed
<1>3. PendingShown /\ PendingShown'
  <2>1. TypeInv /\ EmptyIsLast /\ main # "aborted"
    BY <1>1 DEF TaskInv
  <2>2. (TypeInv /\ EmptyIsLast /\ main # "aborted")'
    BY <1>1 DEF TaskInv
  <2> QED
    BY <2>1, <2>2, PendingIs, PTL
<1>4. /\ q \in Seq(Task \cup {EmptyTask}) /\ Len(q) \in Nat
      /\ queue_'[index] = Append(q, task)
      /\ Len(queue_'[index]) = Len(q) + 1
      /\ queue_'[index][Len(q) + 1] = task
      /\ \A i \in 1 .. Len(q) : queue_'[index][i] = q[i]
  BY <1>1 DEF TypeInv, TypeOK
<1>5. Stored(index) = Len(q) /\ InHand(index) = h
  BY <1>1, <1>2 DEF Stored, InHand
<1>6. Stored(index)' = Len(q) + 1 /\ InHand(index)' = h
  <2>1. ~EmptyAtEnd(index)'
    BY <1>1, <1>4 DEF EmptyAtEnd
  <2> QED
    BY <1>1, <1>4, <2>1 DEF Stored, InHand
<1>7. h \in {0, 1} /\ all \in Nat /\ h + (Len(q) + 1) = all + 1
  <2>1. h \in {0, 1}
    OBVIOUS
  <2> HIDE DEF q, h
  <2> QED
    BY <1>4, <2>1
<1>8. /\ Pending[index] \in Seq(Task)
      /\ Len(Pending[index]) = all
      /\ \A i \in 1 .. all :
             Pending[index][i] = IF thread[index] # "running" THEN q[i]
                                 ELSE IF i = 1 THEN hand[index] ELSE q[i - 1]
  <2>1. PendingOf(index)
    BY <1>1, <1>3 DEF PendingShown
  <2>2. InHand(index) + Stored(index) = all
    BY <1>5
  <2> HIDE DEF h, all
  <2> QED
    BY <2>1, <2>2 DEF PendingOf
<1>9. /\ Pending'[index] \in Seq(Task)
      /\ Len(Pending'[index]) = all + 1
      /\ \A i \in 1 .. all + 1 :
             Pending'[index][i] = IF thread[index] # "running" THEN queue_'[index][i]
                                  ELSE IF i = 1 THEN hand[index] ELSE queue_'[index][i - 1]
  <2>1. PendingOf(index)'
    BY <1>1, <1>3 DEF PendingShown
  <2>2. InHand(index)' + Stored(index)' = all + 1
    BY <1>6, <1>7
  <2> HIDE DEF q, h, all
  <2>3. /\ Pending'[index] \in Seq(Task)
        /\ Len(Pending'[index]) = all + 1
        /\ \A i \in 1 .. all + 1 :
               Pending'[index][i] = IF thread'[index] # "running" THEN queue_'[index][i]
                                    ELSE IF i = 1 THEN hand'[index] ELSE queue_'[index][i - 1]
    BY <1>1, <2>1, <2>2 DEF PendingOf
  <2> QED
    BY <1>1, <2>3
<1>10. Pending'[index] = Append(Pending[index], task)
  <2> DEFINE p == Append(Pending[index], task)
  <2>1. /\ p \in Seq(Task) /\ Len(p) = all + 1 /\ p[all + 1] = task
        /\ \A i \in 1 .. all : p[i] = Pending[index][i]
    <3> HIDE DEF all
    <3> QED
      BY <1>1, <1>7, <1>8
  <2>2. ASSUME NEW i \in 1 .. all + 1 PROVE Pending'[index][i] = p[i]
    <3>1. CASE thread[index] = "running"
      <4>1. h = 1 /\ all = Len(q) + 1
        BY <1>4, <3>1
      <4> HIDE DEF p, q, h, all
      <4>2. CASE i = all + 1
        BY <1>4, <1>7, <1>9, <2>1, <3>1, <4>1, <4>2
      <4>3. CASE i # all + 1
        <5>1. i \in 1 .. all /\ (i = 1 \/ i - 1 \in 1 .. Len(q))
          BY <1>4, <1>7, <4>1, <4>3
        <5> QED
          BY <1>4, <1>7, <1>8, <1>9, <2>1, <3>1, <5>1
      <4> QED
        BY <4>2, <4>3
    <3>2. CASE thread[index] # "running"
      <4>1. h = 0 /\ all = Len(q)
        BY <1>4, <3>2
      <4> HIDE DEF p, q, h, all
      <4>2. CASE i = all + 1
        BY <1>4, <1>7, <1>9, <2>1, <3>2, <4>1, <4>2
      <4>3. CASE i # all + 1
        <5>1. i \in 1 .. all
          BY <1>7, <4>3
        <5> QED
          BY <1>4, <1>7, <1>8, <1>9, <2>1, <3>2, <4>1, <5>1
      <4> QED
        BY <4>2, <4>3
    <3> QED
      BY <3>1, <3>2
  <2> HIDE DEF p, all
  <2>3. Pending'[index] = p
    BY <1>7, <1>9, <2>1, <2>2, SameSequence
  <2> QED
    BY <2>3 DEF p
<1>11. ASSUME NEW v \in Worker \ {index} PROVE Pending'[v] = Pending[v]
  <2>1. queue_'[v] = queue_[v]
    BY <1>1 DEF TypeInv, TypeOK
  <2> QED
    BY <1>1, <2>1, WorkerStays
<1>12. Pending' = [Pending EXCEPT ![index] = Append(@, task)]
  <2>1. Pending = [v \in Worker |-> Pending[v]] /\ Pending' = [v \in Worker |-> Pending'[v]]
    BY DEF Pending
  <2> QED
    BY <1>1, <1>10, <1>11, <2>1
<1>13. /\ GivenBefore(task.no) /\ task.no < captured
       /\ task.packet # Garbled => Shard[task.packet] = index
  BY <1>1 DEF OrderInv
<1>14. /\ Len(Pending'[index]) = all + 1 /\ Pending'[index] # <<>>
       /\ Pending'[index][all + 1] = task
       /\ \A i \in 1 .. all : Pending'[index][i] = Pending[index][i]
  <2> HIDE DEF q, h, all
  <2>1. /\ Len(Pending'[index]) = all + 1
        /\ Pending'[index][all + 1] = task
        /\ \A i \in 1 .. all : Pending'[index][i] = Pending[index][i]
    <3> DEFINE p == Pending[index]
    <3>1. p \in Seq(Task) /\ Len(p) = all /\ task \in Task
      BY <1>1, <1>8
    <3>2. Pending'[index] = Append(p, task)
      BY <1>10
    <3> HIDE DEF p
    <3>3. /\ Len(Append(p, task)) = all + 1
          /\ Append(p, task)[all + 1] = task
          /\ \A i \in 1 .. all : Append(p, task)[i] = p[i]
      BY <1>7, <3>1
    <3> QED
      BY <3>2, <3>3 DEF p
  <2>2. Pending'[index] # <<>>
    <3> DEFINE p == Pending'[index]
    <3>1. p \in Seq(Task) /\ Len(p) > 0
      BY <1>7, <1>9
    <3> HIDE DEF p
    <3>2. p # <<>>
      BY <3>1, NotEmpty
    <3> QED
      BY <3>2 DEF p
  <2> QED
    BY <2>1, <2>2
<1>15. OrderInv'
  <2>1. GivenBefore(captured)
    BY DEF OrderInv
  <2> HIDE DEF q, h, all
  <2>2. ASSUME NEW v \in Worker, NEW i \in 1 .. Len(Pending'[v])
        PROVE  Pending'[v][i].no < captured
    <3>1. CASE v = index
      <4>1. i \in 1 .. all \/ i = all + 1
        BY <1>7, <1>14, <2>2, <3>1
      <4> QED
        BY <1>1, <1>8, <1>13, <1>14, <2>1, <3>1, <4>1 DEF GivenBefore
    <3>2. CASE v # index
      BY <1>11, <2>1, <2>2, <3>2 DEF GivenBefore
    <3> QED
      BY <3>1, <3>2
  <2> QED
    BY <1>1, <2>1, <2>2 DEF OrderInv, GivenBefore
<1>16. Service!Newest(task.no)
  <2> SUFFICES ASSUME NEW v \in Worker, NEW i \in DOMAIN (processed[v] \o Pending[v])
               PROVE  (processed[v] \o Pending[v])[i].no < task.no
    BY DEF Service!Newest
  <2> DEFINE a == processed[v]
             b == Pending[v]
  <2>1. a \in Seq(Task) /\ b \in Seq(Task) /\ i \in DOMAIN (a \o b)
    BY <1>3 DEF PendingShown, PendingOf, TypeInv, TypeOK
  <2>2. /\ \A j \in 1 .. Len(a) : a[j].no < task.no
        /\ \A j \in 1 .. Len(b) : b[j].no < task.no
    BY <1>13 DEF GivenBefore
  <2> HIDE DEF a, b
  <2>3. \/ \E j \in 1 .. Len(a) : (a \o b)[i] = a[j]
        \/ \E j \in 1 .. Len(b) : (a \o b)[i] = b[j]
    BY <2>1, OfEither
  <2>4. (a \o b)[i].no < task.no
    BY <2>2, <2>3
  <2> QED
    BY <2>4 DEF a, b
<1>17. Service!Give(index)
  <2> HIDE DEF q, h, all
  <2>1. Pending'[index][Len(Pending'[index])] = task /\ Pending'[index] # <<>>
    BY <1>14
  <2>2. task \in [no : Nat, packet : Packet \cup {Garbled}]
    BY <1>1 DEF Task
  <2> QED
    BY <1>1, <1>12, <1>13, <1>16, <2>1, <2>2 DEF Service!Give
<1> QED
  BY <1>15, <1>17

\* The empty task gives a worker nothing.
LEMMA PushEmptyServes ==
    ASSUME TypeInv, TaskInv, OrderInv, PushEmpty
    PROVE  OrderInv' /\ UNCHANGED Service!serviceVars
<1> DEFINE q == queue_[index]
<1>1. /\ queue_' = [queue_ EXCEPT ![index] = Append(@, EmptyTask)]
      /\ UNCHANGED <<thread, hand, processed, captured, index, task>>
      /\ index \in Worker /\ task = EmptyTask
      /\ main = "push" /\ main' = "join"
  BY DEF PushEmpty, Push, MainStep, dispatcherVars, TypeInv, TypeOK
<1>2. ~EmptyAtEnd(index)
  BY <1>1, TaskQueueAssumption DEF TaskInv, ClosedInOrder, Closed, Worker
<1>3. /\ q \in Seq(Task \cup {EmptyTask}) /\ Len(q) \in Nat
      /\ queue_'[index] = Append(q, EmptyTask)
  BY <1>1 DEF TypeInv, TypeOK
<1>4. /\ Len(queue_'[index]) = Len(q) + 1
      /\ queue_'[index][Len(q) + 1] = EmptyTask
      /\ queue_'[index] \in Seq(Task \cup {EmptyTask})
      /\ \A i \in 1 .. Len(q) : queue_'[index][i] = q[i]
  BY <1>3
<1>5. Waiting(index) = SubSeq(q, 1, Len(q))
  <2>1. ~(Len(q) > 0 /\ q[Len(q)] = EmptyTask)
    BY <1>2, <1>3, NotEmpty DEF EmptyAtEnd
  <2> QED
    BY <2>1 DEF Waiting
<1>6. Waiting(index)' = SubSeq(queue_'[index], 1, Len(q))
  <2>1. Len(queue_'[index]) > 0 /\ Len(queue_'[index]) - 1 = Len(q)
    BY <1>3, <1>4
  <2> QED
    BY <1>1, <1>4, <2>1 DEF Waiting
<1>7. Waiting(index)' = Waiting(index)
  BY <1>3, <1>4, <1>5, <1>6
<1>8. ASSUME NEW v \in Worker PROVE Pending'[v] = Pending[v]
  <2>1. CASE v = index
    <3>1. Pending[v] = (IF thread[v] = "running" THEN <<hand[v]>> ELSE <<>>) \o Waiting(v)
      BY <1>1 DEF Pending
    <3>2. Pending'[v] = (IF thread'[v] = "running" THEN <<hand'[v]>> ELSE <<>>) \o Waiting(v)'
      BY <1>1 DEF Pending
    <3>3. Waiting(v)' = Waiting(v)
      BY <1>1, <1>7, <2>1
    <3> QED
      BY <1>1, <3>1, <3>2, <3>3
  <2>2. CASE v # index
    <3>1. queue_'[v] = queue_[v]
      BY <1>1, <2>2 DEF TypeInv, TypeOK
    <3> QED
      BY <1>1, <3>1, WorkerStays
  <2> QED
    BY <2>1, <2>2
<1>9. Pending' = Pending
  BY <1>8 DEF Pending
<1> QED
  BY <1>1, <1>9 DEF OrderInv, GivenBefore, Service!serviceVars

\* A task that is taken is the first a worker has to run, and still to be run.
LEMMA TakeServes ==
    ASSUME TypeInv, TaskInv, OrderInv, TypeInv', TaskInv', NEW w \in Worker, Take(w),
           UNCHANGED <<processed, captured, main, index, task>>, main # "aborted"
    PROVE  OrderInv' /\ UNCHANGED Service!serviceVars
<1> DEFINE q == queue_[w]
<1>1. /\ queue_' = [queue_ EXCEPT ![w] = Tail(@)]
      /\ hand' = [hand EXCEPT ![w] = Head(q)]
      /\ thread[w] = "taking"
      /\ thread' = [thread EXCEPT ![w] = IF Head(q) = EmptyTask THEN "done" ELSE "running"]
      /\ q \in Seq(Task \cup {EmptyTask}) /\ q # <<>>
  BY DEF Take, TypeInv, TypeOK
<1>2. /\ Len(q) \in Nat /\ Len(q) >= 1
      /\ queue_'[w] = Tail(q) /\ hand'[w] = Head(q)
      /\ thread'[w] = IF Head(q) = EmptyTask THEN "done" ELSE "running"
      /\ Head(q) = q[1]
  BY <1>1 DEF TypeInv, TypeOK
<1>3. /\ Tail(q) \in Seq(Task \cup {EmptyTask})
      /\ Len(Tail(q)) = Len(q) - 1
      /\ \A i \in 1 .. Len(q) - 1 : Tail(q)[i] = q[i + 1]
  BY <1>1, <1>2
<1>4. PendingShown /\ PendingShown'
  <2>1. TypeInv /\ EmptyIsLast /\ main # "aborted"
    BY DEF TaskInv
  <2>2. (TypeInv /\ EmptyIsLast /\ main # "aborted")'
    BY DEF TaskInv
  <2> QED
    BY <2>1, <2>2, PendingIs, PTL
<1>5. InHand(w) = 0 /\ InHand(w)' = (IF Head(q) = EmptyTask THEN 0 ELSE 1)
  BY <1>1, <1>2 DEF InHand
<1>6. Stored(w) = (IF q[Len(q)] = EmptyTask THEN Len(q) - 1 ELSE Len(q))
  BY <1>1, <1>2 DEF Stored, EmptyAtEnd
<1>7. \A i \in 1 .. Len(q) - 1 : q[i] # EmptyTask
  BY DEF TaskInv, EmptyIsLast
<1> DEFINE l == Len(q)
<1>8. l = 1 \/ (l > 1 /\ 1 \in 1 .. l - 1 /\ l - 1 \in 1 .. l - 1 /\ l - 1 > 0)
  <2>1. l \in Nat /\ l >= 1
    BY <1>2
  <2> HIDE DEF l
  <2> QED
    BY <2>1
<1>9. l = 1 => Tail(q) = <<>>
  <2>1. l = 1 => Len(Tail(q)) = 0
    BY <1>3
  <2> QED
    BY <1>3, <2>1, EmptyWhenNone
<1>10. l > 1 => /\ Tail(q) # <<>> /\ Tail(q)[Len(Tail(q))] = q[l]
  <2> SUFFICES ASSUME l > 1 PROVE Tail(q) # <<>> /\ Tail(q)[Len(Tail(q))] = q[l]
    OBVIOUS
  <2>1. l \in Nat /\ l - 1 \in 1 .. l - 1 /\ l - 1 + 1 = l /\ l - 1 > 0
    BY <1>2
  <2>2. Len(Tail(q)) = l - 1
    BY <1>3
  <2>3. Tail(q) # <<>>
    BY <1>3, <2>1, <2>2, NotEmpty
  <2>4. Tail(q)[l - 1] = q[l]
    BY <1>3, <2>1
  <2> QED
    BY <2>2, <2>3, <2>4
<1>11. ASSUME Head(q) = EmptyTask PROVE Pending'[w] = Pending[w]
  <2>1. l = 1
    BY <1>2, <1>7, <1>8, <1>11
  <2>2. Stored(w) = 0
    BY <1>2, <1>6, <1>11, <2>1
  <2>3. Stored(w)' = 0
    BY <1>2, <1>9, <2>1 DEF Stored, EmptyAtEnd
  <2>4. /\ Pending[w] \in Seq(Task) /\ Len(Pending[w]) = 0
        /\ Pending'[w] \in Seq(Task) /\ Len(Pending'[w]) = 0
    <3>1. InHand(w) + Stored(w) = 0 /\ InHand(w)' + Stored(w)' = 0
      BY <1>5, <1>11, <2>2, <2>3
    <3> HIDE DEF q, l
    <3> QED
      BY <1>4, <3>1 DEF PendingShown, PendingOf
  <2> QED
    BY <2>4, EmptyWhenNone
<1>12. ASSUME Head(q) # EmptyTask PROVE Pending'[w] = Pending[w]
  <2> DEFINE n == Stored(w)
  <2>1. n \in Nat /\ n >= 1 /\ n <= l
    <3>1. q[l] = EmptyTask => l > 1
      BY <1>2, <1>8, <1>12
    <3>2. n = IF q[l] = EmptyTask THEN l - 1 ELSE l
      BY <1>6
    <3> HIDE DEF n
    <3> QED
      BY <1>2, <3>1, <3>2
  <2>2. Stored(w)' = n - 1
    <3>1. CASE l = 1
      <4>1. n = 1
        BY <1>2, <1>6, <1>12, <3>1
      <4>2. Stored(w)' = 0
        BY <1>2, <1>9, <3>1 DEF Stored, EmptyAtEnd
      <4> QED
        BY <4>1, <4>2
    <3>2. CASE l > 1
      <4>1. EmptyAtEnd(w)' <=> q[l] = EmptyTask
        BY <1>2, <1>10, <3>2 DEF EmptyAtEnd
      <4>2. Stored(w)' = IF q[l] = EmptyTask THEN l - 1 - 1 ELSE l - 1
        BY <1>2, <1>3, <4>1 DEF Stored
      <4>3. n = IF q[l] = EmptyTask THEN l - 1 ELSE l
        BY <1>6
      <4> HIDE DEF n, l
      <4> QED
        BY <4>2, <4>3
    <3> QED
      BY <1>8, <3>1, <3>2
  <2>3. InHand(w)' = 1 /\ thread'[w] = "running"
    BY <1>2, <1>5, <1>12
  <2>4. /\ Pending[w] \in Seq(Task)
        /\ Len(Pending[w]) = n
        /\ \A i \in 1 .. n : Pending[w][i] = q[i]
    <3>1. InHand(w) + Stored(w) = n
      BY <1>5, <2>1
    <3> HIDE DEF n, q
    <3>2. thread[w] # "running"
      BY <1>1
    <3> QED
      BY <1>4, <3>1, <3>2 DEF PendingShown, PendingOf, q
  <2>5. /\ Pending'[w] \in Seq(Task)
        /\ Len(Pending'[w]) = n
        /\ \A i \in 1 .. n : Pending'[w][i] = IF i = 1 THEN Head(q) ELSE Tail(q)[i - 1]
    <3>1. InHand(w)' + Stored(w)' = n
      BY <2>1, <2>2, <2>3
    <3> HIDE DEF n, q
    <3>2. PendingOf(w)' /\ queue_'[w] = Tail(q) /\ hand'[w] = Head(q)
      BY <1>2, <1>4 DEF PendingShown
    <3>3. /\ Pending'[w] \in Seq(Task)
          /\ Len(Pending'[w]) = n
          /\ \A i \in 1 .. n :
                 Pending'[w][i] = IF thread'[w] # "running" THEN queue_'[w][i]
                                  ELSE IF i = 1 THEN hand'[w] ELSE queue_'[w][i - 1]
      BY <3>1, <3>2 DEF PendingOf
    <3> QED
      BY <2>3, <3>2, <3>3
  <2>6. ASSUME NEW i \in 1 .. n PROVE Pending'[w][i] = Pending[w][i]
    <3> HIDE DEF n
    <3>1. i = 1 \/ (i - 1 \in 1 .. Len(q) - 1 /\ i - 1 + 1 = i /\ i # 1)
      BY <1>2, <2>1
    <3>2. i = 1 => Pending'[w][i] = q[i]
      BY <1>2, <2>5
    <3>3. i # 1 => Pending'[w][i] = q[i]
      BY <1>3, <2>5, <3>1
    <3> QED
      BY <2>4, <3>2, <3>3
  <2> HIDE DEF n
  <2> QED
    BY <2>4, <2>5, <2>6, SameSequence
<1>13. Pending'[w] = Pending[w]
  BY <1>11, <1>12
<1>14. ASSUME NEW v \in Worker \ {w} PROVE Pending'[v] = Pending[v]
  <2>1. queue_'[v] = queue_[v] /\ hand'[v] = hand[v] /\ thread'[v] = thread[v]
    BY <1>1 DEF TypeInv, TypeOK
  <2> QED
    BY <2>1, WorkerStays
<1>15. Pending' = Pending
  BY <1>13, <1>14 DEF Pending
<1> QED
  BY <1>15 DEF OrderInv, GivenBefore, Service!serviceVars

\* A task that has been run was the first its worker had to run.
LEMMA RunServes ==
    ASSUME TypeInv, TaskInv, OrderInv, TypeInv', TaskInv', NEW w \in Worker, ProcessTask(w)
    PROVE  OrderInv' /\ Service!Process(w)
<1>1. /\ thread[w] = "running" /\ main # "aborted" /\ hand[w] \in Task
      /\ thread' = [thread EXCEPT ![w] = "idle"]
      /\ hand' = [hand EXCEPT ![w] = EmptyTask]
      /\ processed' = [processed EXCEPT ![w] = Append(@, hand[w])]
      /\ UNCHANGED <<queue_, index, task, captured, main>>
  BY DEF ProcessTask, WorkerStep, RunTask, Run, TypeInv, HandsFull
<1>2. TypeInv /\ EmptyIsLast /\ main # "aborted" /\ EmptyIsLast' /\ TypeInv'
  BY <1>1 DEF TaskInv
<1>3. PendingShown /\ PendingShown'
  <2>1. (TypeInv /\ EmptyIsLast /\ main # "aborted")'
    BY <1>1, <1>2
  <2> QED
    BY <1>2, <2>1, PendingIs, PTL
<1> DEFINE n == Stored(w)
           p == Pending[w]
<1>4. n \in Nat /\ InHand(w) = 1 /\ InHand(w)' = 0 /\ Stored(w)' = n /\ thread'[w] = "idle"
  <2>1. queue_[w] \in Seq(Task \cup {EmptyTask}) /\ Len(queue_[w]) \in Nat
    <3>1. queue_[w] \in Seq(Task \cup {EmptyTask})
      BY DEF TypeInv, TypeOK
    <3> QED
      BY <3>1
  <2>2. EmptyAtEnd(w) => Len(queue_[w]) > 0
    BY <2>1 DEF EmptyAtEnd
  <2>3. n \in Nat
    BY <2>1, <2>2 DEF Stored
  <2>4. thread'[w] = "idle"
    BY <1>1 DEF TypeInv, TypeOK
  <2> QED
    BY <1>1, <2>3, <2>4 DEF InHand, Stored, EmptyAtEnd
<1> HIDE DEF n
<1>5. /\ p \in Seq(Task) /\ Len(p) = n + 1 /\ p[1] = hand[w]
      /\ \A i \in 2 .. n + 1 : p[i] = queue_[w][i - 1]
  <2>1. InHand(w) + Stored(w) = n + 1
    BY <1>4 DEF n
  <2>2. /\ p \in Seq(Task) /\ Len(p) = n + 1
        /\ \A i \in 1 .. n + 1 : p[i] = IF i = 1 THEN hand[w] ELSE queue_[w][i - 1]
    BY <1>1, <1>3, <2>1 DEF PendingShown, PendingOf
  <2>3. 1 \in 1 .. n + 1 /\ \A i \in 2 .. n + 1 : i \in 1 .. n + 1 /\ i # 1
    BY <1>4
  <2> QED
    BY <2>2, <2>3
<1>6. /\ Pending'[w] \in Seq(Task) /\ Len(Pending'[w]) = n
      /\ \A i \in 1 .. n : Pending'[w][i] = queue_[w][i]
  <2>1. InHand(w)' + Stored(w)' = n
    BY <1>4
  <2> QED
    BY <1>1, <1>3, <1>4, <2>1 DEF PendingShown, PendingOf
<1> HIDE DEF p
<1>7. p # <<>> /\ Head(p) = hand[w] /\ Pending'[w] = Tail(p)
  <2>1. p # <<>> /\ Head(p) = p[1]
    BY <1>4, <1>5, NotEmpty
  <2>2. /\ Tail(p) \in Seq(Task) /\ Len(Tail(p)) = n
        /\ \A i \in 1 .. n : Tail(p)[i] = p[i + 1]
    BY <1>4, <1>5, <2>1
  <2>3. \A i \in 1 .. n : i + 1 \in 2 .. n + 1 /\ i + 1 - 1 = i
    BY <1>4
  <2>4. ASSUME NEW i \in 1 .. n PROVE Pending'[w][i] = Tail(p)[i]
    <3>1. Pending'[w][i] = queue_[w][i] /\ Tail(p)[i] = p[i + 1]
      BY <1>6, <2>2
    <3>2. p[i + 1] = queue_[w][i]
      BY <1>5, <2>3
    <3> QED
      BY <3>1, <3>2
  <2>5. Pending'[w] = Tail(p)
    BY <1>6, <2>2, <2>4, SameSequence
  <2> QED
    BY <1>5, <2>1, <2>5
<1>8. ASSUME NEW v \in Worker \ {w} PROVE Pending'[v] = Pending[v] /\ processed'[v] = processed[v]
  <2>1. /\ queue_'[v] = queue_[v] /\ hand'[v] = hand[v] /\ thread'[v] = thread[v]
        /\ processed'[v] = processed[v]
    BY <1>1 DEF TypeInv, TypeOK
  <2> QED
    BY <1>1, <2>1, WorkerStays
<1>9. Service!Process(w)
  <2>1. Pending = [v \in Worker |-> Pending[v]] /\ Pending' = [v \in Worker |-> Pending'[v]]
    BY DEF Pending
  <2>2. Pending' = [Pending EXCEPT ![w] = Tail(@)]
    BY <1>7, <1>8, <2>1 DEF p
  <2> QED
    BY <1>1, <1>7, <2>2 DEF Service!Process, p
<1>10. ASSUME NEW no, GivenBefore(no)
       PROVE  /\ \A v \in Worker : \A i \in 1 .. Len(processed'[v]) : processed'[v][i].no < no
              /\ \A v \in Worker : \A i \in 1 .. Len(Pending'[v]) : Pending'[v][i].no < no
  <2>1. /\ \A v \in Worker : \A i \in 1 .. Len(processed[v]) : processed[v][i].no < no
        /\ \A v \in Worker : \A i \in 1 .. Len(Pending[v]) : Pending[v][i].no < no
    BY <1>10 DEF GivenBefore
  <2>2. 1 \in 1 .. n + 1 /\ \A i \in 1 .. n : i + 1 \in 1 .. n + 1
    BY <1>4
  <2>3. hand[w].no < no
    BY <1>5, <2>1, <2>2 DEF p
  <2>4. \A i \in 1 .. n : Pending'[w][i].no < no
    <3>1. \A i \in 1 .. n : i + 1 \in 2 .. n + 1 /\ i + 1 - 1 = i
      BY <1>4
    <3>2. \A i \in 1 .. n : Pending'[w][i] = p[i + 1]
      BY <1>5, <1>6, <3>1
    <3> QED
      BY <1>5, <2>1, <2>2, <3>2 DEF p
  <2>5. \A i \in 1 .. Len(processed'[w]) : processed'[w][i].no < no
    <3> DEFINE s == processed[w]
    <3>1. s \in Seq(Task) /\ processed'[w] = Append(s, hand[w])
      BY <1>1 DEF TypeInv, TypeOK
    <3> HIDE DEF s
    <3>2. \A i \in 1 .. Len(Append(s, hand[w])) :
              Append(s, hand[w])[i] = hand[w] \/ (i \in 1 .. Len(s) /\ Append(s, hand[w])[i] = s[i])
      BY <1>1, <3>1
    <3> QED
      BY <2>1, <2>3, <3>1, <3>2 DEF s
  <2> QED
    BY <1>6, <1>8, <2>1, <2>4, <2>5
<1>11. OrderInv'
  <2>1. GivenBefore(captured)'
    BY <1>1, <1>10 DEF OrderInv, GivenBefore
  <2>2. GivenBefore(task.no) => GivenBefore(task.no)'
    BY <1>1, <1>10 DEF GivenBefore
  <2> QED
    BY <1>1, <2>1, <2>2 DEF OrderInv
<1> QED
  BY <1>9, <1>11

\* Main leaves the last join when all that was given is run.
LEMMA EndServes ==
    ASSUME TypeInv, TaskInv, OrderInv, TypeInv', TaskInv', ThreadInv', Join, main' = "exit"
    PROVE  OrderInv' /\ Service!End
<1>1. /\ UNCHANGED <<queue_, thread, hand, processed, captured, task>>
      /\ main = "join" /\ main' = "exit" /\ task = EmptyTask
  BY DEF Join, MainStep, queueVars, TaskInv, ClosedInOrder
<1>2. Pending' = Pending
  BY <1>1, PendingStays
<1>3. ASSUME NEW w \in Worker PROVE Pending[w] = <<>>
  <2>1. thread[w] = "done"
    BY <1>1 DEF ThreadInv, JoinedInOrder
  <2>2. queue_[w] = <<>>
    BY <2>1 DEF TaskInv, EmptyIsLast
  <2>3. InHand(w) + Stored(w) = 0
    BY <2>1, <2>2 DEF InHand, Stored, EmptyAtEnd
  <2>4. PendingShown
    BY <1>1, PendingIs DEF TaskInv
  <2>5. Pending[w] \in Seq(Task) /\ Len(Pending[w]) = 0
    BY <2>3, <2>4 DEF PendingShown, PendingOf
  <2> QED
    BY <2>5, EmptyWhenNone
<1>4. OrderInv'
  BY <1>1, <1>2 DEF OrderInv, GivenBefore
<1> QED
  BY <1>1, <1>2, <1>3, <1>4 DEF Service!End

\* A failed assertion ends the program with what is pending.
LEMMA AbortServes ==
    ASSUME TypeInv, OrderInv, main' = "aborted",
           UNCHANGED <<processed, captured, task, index>>
    PROVE  OrderInv' /\ Service!Abort
<1>1. Pending' = [w \in Worker |-> <<>>]
  BY DEF Pending
<1>2. ASSUME NEW no, GivenBefore(no) PROVE \A w \in Worker :
          /\ \A i \in 1 .. Len(processed'[w]) : processed'[w][i].no < no
          /\ \A i \in 1 .. Len(Pending'[w]) : Pending'[w][i].no < no
  <2>1. \A w \in Worker : Len(Pending'[w]) = 0
    BY <1>1
  <2>2. \A i \in 1 .. 0 : FALSE
    OBVIOUS
  <2> QED
    BY <1>2, <2>1, <2>2 DEF GivenBefore
<1>3. OrderInv'
  <2>1. GivenBefore(captured)'
    BY <1>2 DEF OrderInv, GivenBefore
  <2>2. GivenBefore(task.no) => GivenBefore(task.no)'
    BY <1>2 DEF GivenBefore
  <2> QED
    BY <2>1, <2>2 DEF OrderInv
<1> QED
  BY <1>1, <1>3 DEF Service!Abort

\* Every step keeps the order and is one of the service or shows nothing.
LEMMA StepServes ==
    ASSUME IInv, OrderInv, IInv', [Next]_vars
    PROVE  OrderInv' /\ [Service!Next]_(Service!serviceVars)
<1>1. TypeInv /\ TaskInv /\ ThreadInv /\ TypeInv' /\ TaskInv' /\ ThreadInv'
  BY DEF IInv
<1>2. task # EmptyTask => main \in {"check", "push", "aborted"}
  BY DEF OrderInv
<1>3. ASSUME ConstructWorker PROVE Quietly
  <2>1. /\ UNCHANGED <<queue_, hand, processed, captured, task>>
        /\ main = "start" /\ main' \in {"start", "wait"}
        /\ thread[index] = "none" /\ thread' = [thread EXCEPT ![index] = "init"]
    BY <1>3 DEF ConstructWorker, MainStep, Start
  <2>2. \A w \in Worker : thread'[w] = "running" <=> thread[w] = "running"
    BY <1>1, <2>1 DEF TypeInv, TypeOK
  <2> QED
    BY <1>2, <2>1, <2>2 DEF Quietly
<1>4. ASSUME WaitForWorkers \/ BeginLoop \/ LoopBroken \/ LoopEnds \/ LeaveLoop PROVE Quietly
  <2>1. /\ UNCHANGED <<queue_, thread, hand, processed, captured, task>>
        /\ main \in {"wait", "ready", "loop", "ended"}
        /\ main' \in {"ready", "loop", "ended", "check"}
    BY <1>4 DEF WaitForWorkers, BeginLoop, LoopBroken, LoopEnds, LeaveLoop, MainStep,
       queueVars, dispatcherVars
  <2> QED
    BY <1>2, <2>1 DEF Quietly
<1>5. ASSUME FindRoom \/ Overloaded PROVE Quietly
  <2>1. /\ UNCHANGED <<queue_, thread, hand, processed, captured>>
        /\ main = "check" /\ main' \in {"push", "loop"}
        /\ \/ task' = EmptyTask
           \/ UNCHANGED <<task, index>> /\ main' = "push"
    BY <1>5 DEF FindRoom, Overloaded, GiveUp, MainStep, queueVars, dispatcherVars
  <2> QED
    BY <2>1 DEF Quietly
<1>6. ASSUME Join, main' # "exit" PROVE Quietly
  <2>1. /\ UNCHANGED <<queue_, thread, hand, processed, captured, task>>
        /\ main = "join" /\ main' = "check"
    BY <1>6 DEF Join, MainStep, queueVars
  <2> QED
    BY <1>2, <2>1 DEF Quietly
<1>7. ASSUME NEW w \in Worker,
             InitInThread(w) \/ (BeginTake(w) /\ WorkerStep(w) /\ UNCHANGED dispatcherVars)
      PROVE  Quietly
  <2>1. /\ UNCHANGED <<queue_, hand, processed, captured, task, index, main>>
        /\ main # "aborted"
        /\ \A v \in Worker : thread'[v] = "running" <=> thread[v] = "running"
    BY <1>1, <1>7 DEF InitInThread, ThreadInit, BeginTake, WorkerStep, dispatcherVars,
       TypeInv, TypeOK
  <2> QED
    BY <2>1 DEF Quietly
<1>8. ASSUME NEW s \in Signals, Raise(s) \/ PassAssertions(s) \/ BreakLoop(s) PROVE Quietly
  <2>1. /\ UNCHANGED <<queue_, thread, hand, processed, captured, task, index, main>>
        /\ main # "aborted"
    BY <1>8 DEF Raise, PassAssertions, BreakLoop, HandlerStep, queueVars, dispatcherVars
  <2> QED
    BY <2>1 DEF Quietly
<1>9. ASSUME Quietly PROVE OrderInv' /\ [Service!Next]_(Service!serviceVars)
  BY <1>9, QuietlyServes
<1>10. ASSUME NEW w \in Worker, TakeTask(w)
       PROVE  OrderInv' /\ [Service!Next]_(Service!serviceVars)
  <2>1. CASE BeginTake(w)
    BY <1>7, <1>9, <1>10, <2>1 DEF TakeTask
  <2>2. CASE Take(w)
    <3>1. UNCHANGED <<processed, captured, main, index, task>> /\ main # "aborted"
      BY <1>10 DEF TakeTask, WorkerStep, dispatcherVars
    <3> QED
      BY <1>1, <2>2, <3>1, TakeServes
  <2> QED
    BY <1>10, <2>1, <2>2 DEF TakeTask
<1>11. ASSUME NEW w \in Worker, ProcessTask(w)
       PROVE  OrderInv' /\ [Service!Next]_(Service!serviceVars)
  BY <1>1, <1>11, RunServes DEF Service!Next
<1>12. ASSUME PushTask PROVE OrderInv' /\ [Service!Next]_(Service!serviceVars)
  <2>1. index \in Worker
    BY <1>1 DEF TypeInv, TypeOK
  <2> QED
    BY <1>1, <1>12, <2>1, PushServes DEF Service!Next
<1>13. ASSUME PushEmpty PROVE OrderInv' /\ [Service!Next]_(Service!serviceVars)
  BY <1>1, <1>13, PushEmptyServes
<1>14. ASSUME NEW f \in Frames, SkipFrame(f) \/ DispatchFrame(f)
       PROVE  OrderInv' /\ [Service!Next]_(Service!serviceVars)
  BY <1>1, <1>14, FrameServes
<1>15. ASSUME Join, main' = "exit" PROVE OrderInv' /\ [Service!Next]_(Service!serviceVars)
  BY <1>1, <1>15, EndServes DEF Service!Next
<1>16. ASSUME NEW s \in Signals, FailAssertion(s)
       PROVE  OrderInv' /\ [Service!Next]_(Service!serviceVars)
  <2>1. main' = "aborted" /\ UNCHANGED <<processed, captured, task, index>>
    BY <1>16 DEF FailAssertion, dispatcherVars
  <2> QED
    BY <1>1, <2>1, AbortServes DEF Service!Next
<1>17. ASSUME UNCHANGED vars PROVE OrderInv' /\ [Service!Next]_(Service!serviceVars)
  <2>1. UNCHANGED <<queue_, thread, hand, processed, captured, task, index, main>>
    BY <1>17 DEF vars, queueVars, dispatcherVars, mainVars
  <2>2. Pending' = Pending
    BY <2>1 DEF Pending, Waiting
  <2> QED
    BY <2>1, <2>2 DEF OrderInv, GivenBefore, Service!serviceVars
<1> QED
  BY <1>3, <1>4, <1>5, <1>6, <1>7, <1>8, <1>9, <1>10, <1>11, <1>12, <1>13, <1>14, <1>15,
     <1>16, <1>17 DEF Next, MainProceeds, WorkerProceeds, HandlerProceeds, Terminated

LEMMA ServiceInit ==
    Init => Service!Init
<1> SUFFICES ASSUME Init PROVE Service!Init
  OBVIOUS
<1>1. /\ \A w \in Worker : queue_[w] = <<>> /\ thread[w] # "running"
      /\ main = "start" /\ processed = [w \in Worker |-> <<>>]
  BY DEF Init, QueueInit, DispatcherInit
<1>2. ASSUME NEW w \in Worker PROVE Pending[w] = <<>>
  <2>1. InHand(w) = 0 /\ Stored(w) = 0
    BY <1>1 DEF InHand, Stored, EmptyAtEnd
  <2>2. PendingShown
    <3>1. TypeInv /\ EmptyIsLast /\ main # "aborted"
      BY <1>1, TypeInit, TasksInit DEF TaskInv
    <3> QED
      BY <3>1, PendingIs
  <2>3. Pending[w] \in Seq(Task) /\ Len(Pending[w]) = 0
    BY <2>1, <2>2 DEF PendingShown, PendingOf
  <2> QED
    BY <2>3, EmptyWhenNone
<1>3. Pending = [w \in Worker |-> <<>>]
  BY <1>2 DEF Pending
<1> QED
  BY <1>1, <1>3 DEF Service!Init

\* For any number of workers, bound of the queues and signals at any time: each
\* worker runs the tasks Dispatcher pushed for it once each and in the order of
\* their capture, all of them before main returns, and only fragments of its own
\* flows (Dispatcher.cc:86-100, TaskQueue.cc:40-84).
THEOREM ServiceHolds ==
    Spec => Service!Spec
<1>1. Init => OrderInv /\ Service!Init
  BY OrderInit, ServiceInit
<1>2. IInv /\ OrderInv /\ IInv' /\ [Next]_vars =>
          OrderInv' /\ [Service!Next]_(Service!serviceVars)
  BY StepServes
<1> QED
  BY <1>1, <1>2, Invariance, PTL DEF Spec, Service!Spec

----------------------------------------------------------------------------
(***************************************************************************)
(* The copies of fragments.  A worker holds one of each task it was given  *)
(* and has not run.                                                        *)
(***************************************************************************)
\* How many tasks each worker was given and has not run.
Outstanding == [w \in Worker |-> taskCounter_[w] - Len(processed[w])]

\* The copy of the task main is about to push.
Carried == IF task = EmptyTask THEN 0 ELSE 1

CopyInv == allocated = Carried + Total(Outstanding) + overloaded

\* A number for each worker makes a sequence.
LEMMA OnePerWorker ==
    ASSUME NEW s \in [Worker -> Int]
    PROVE  s \in Seq(Int) /\ Len(s) = NWorkers /\ DOMAIN s = Worker
<1>1. NWorkers \in Nat
  BY TaskQueueAssumption
<1>2. s \in [1 .. NWorkers -> Int]
  BY DEF Worker
<1>3. s \in Seq(Int)
  BY <1>1, <1>2, SeqDef
<1>4. DOMAIN s = 1 .. Len(s) /\ Len(s) \in Nat
  BY <1>3
<1>5. 1 .. Len(s) = 1 .. NWorkers
  BY <1>2, <1>4
<1>6. Len(s) = NWorkers
  <2> DEFINE n == Len(s)
  <2>1. n \in Nat /\ NWorkers \in Nat \ {0} /\ 1 .. n = 1 .. NWorkers
    BY <1>4, <1>5, TaskQueueAssumption
  <2> HIDE DEF n
  <2>2. NWorkers \in 1 .. n /\ (n > NWorkers => n \in 1 .. NWorkers)
    BY <2>1
  <2>3. n = NWorkers
    BY <2>1, <2>2
  <2> QED
    BY <2>3 DEF n
<1> QED
  BY <1>2, <1>3, <1>6 DEF Worker

LEMMA OutstandingType ==
    ASSUME TypeInv
    PROVE  /\ Outstanding \in [Worker -> Int]
           /\ Total(Outstanding) \in Int
<1>1. ASSUME NEW w \in Worker PROVE taskCounter_[w] - Len(processed[w]) \in Int
  <2>1. taskCounter_[w] \in Nat /\ processed[w] \in Seq(Task)
    BY DEF TypeInv, TypeOK
  <2> QED
    BY <2>1
<1>2. Outstanding \in [Worker -> Int]
  BY <1>1 DEF Outstanding
<1> QED
  BY <1>2, OnePerWorker, TotalType

\* The sum follows the one worker whose tasks change.
LEMMA OneWorkerChanges ==
    ASSUME TypeInv, TypeInv', NEW w \in Worker,
           \A v \in Worker : v # w => taskCounter_'[v] = taskCounter_[v]
                                      /\ processed'[v] = processed[v]
    PROVE  Total(Outstanding)' = Total(Outstanding) + Outstanding'[w] - Outstanding[w]
<1>1. Outstanding \in [Worker -> Int]
  BY OutstandingType
<1>2. Outstanding' \in [Worker -> Int]
  <2>1. ASSUME NEW v \in Worker PROVE taskCounter_'[v] - Len(processed'[v]) \in Int
    <3>1. taskCounter_'[v] \in Nat /\ processed'[v] \in Seq(Task)
      BY DEF TypeInv, TypeOK
    <3> QED
      BY <3>1
  <2> QED
    BY <2>1 DEF Outstanding
<1> DEFINE s == Outstanding
           r == Outstanding'
<1>3. \A v \in Worker : v # w => r[v] = s[v]
  BY DEF Outstanding
<1>4. /\ s \in Seq(Int) /\ Len(s) = NWorkers
      /\ r \in Seq(Int) /\ Len(r) = NWorkers
  BY <1>1, <1>2, OnePerWorker
<1>5. w \in 1 .. Len(s) /\ \A i \in 1 .. Len(s) : i # w => r[i] = s[i]
  BY <1>3, <1>4 DEF Worker
<1>6. Total(r) = Total(s) + r[w] - s[w]
  <2> HIDE DEF s, r
  <2> QED
    BY <1>4, <1>5, TotalChange
<1> QED
  BY <1>6

LEMMA CopiesInit ==
    Init => CopyInv
<1> SUFFICES ASSUME Init PROVE CopyInv
  OBVIOUS
<1>1. allocated = 0 /\ overloaded = 0 /\ Carried = 0
  BY DEF Init, DispatcherInit, Carried
<1>2. Outstanding = [w \in Worker |-> 0]
  BY DEF Init, DispatcherInit, Outstanding
<1>3. Total(Outstanding) = 0
  <2>1. Outstanding \in [Worker -> Int]
    BY <1>2
  <2> DEFINE s == Outstanding
  <2>2. s \in Seq(Int) /\ Len(s) = NWorkers
    BY <2>1, OnePerWorker
  <2>3. \A i \in 1 .. Len(s) : s[i] = 0
    BY <1>2, <2>2 DEF Worker
  <2> HIDE DEF s
  <2>4. Total(s) = 0
    BY <2>2, <2>3, TotalZero
  <2> QED
    BY <2>4 DEF s
<1> QED
  BY <1>1, <1>3 DEF CopyInv

\* A step that leaves copies and tasks alone.
LEMMA CopiesKept ==
    ASSUME CopyInv, UNCHANGED <<allocated, overloaded, task, taskCounter_, processed>>
    PROVE  CopyInv'
<1>1. Outstanding' = Outstanding /\ Carried' = Carried
  BY DEF Outstanding, Carried
<1> QED
  BY <1>1 DEF CopyInv

LEMMA CopiesStep ==
    ASSUME TypeInv, TypeInv', OrderInv, CopyInv, [Next]_vars
    PROVE  CopyInv'
<1>1. Total(Outstanding) \in Int /\ allocated \in Int /\ overloaded \in Nat
  BY OutstandingType DEF TypeInv, TypeOK
<1>2. ASSUME NEW f \in Frames, DispatchFrame(f) PROVE CopyInv'
  <2>1. PICK w \in Worker : CopyFor(w, captured, Parsed(f))
    BY <1>2 DEF DispatchFrame
  <2>2. /\ allocated' = allocated + 1 /\ task' = TaskOf(captured, Parsed(f))
        /\ UNCHANGED <<taskCounter_, overloaded, processed>>
    BY <2>1 DEF CopyFor
  <2>3. Carried = 0
    BY <1>2 DEF OrderInv, DispatchFrame, MainStep, Carried
  <2>4. Carried' = 1
    BY <1>2, <2>2, TaskType, EmptyIsNoTask DEF Carried, TypeInv, TypeOK
  <2>5. Outstanding' = Outstanding
    BY <2>2 DEF Outstanding
  <2> QED
    BY <1>1, <2>2, <2>3, <2>4, <2>5 DEF CopyInv
<1>3. CASE Overloaded
  <2>1. /\ task # EmptyTask /\ task' = EmptyTask /\ overloaded' = overloaded + 1
        /\ UNCHANGED <<taskCounter_, allocated, processed>>
    BY <1>3 DEF Overloaded, GiveUp
  <2>2. Carried = 1 /\ Carried' = 0 /\ Outstanding' = Outstanding
    BY <2>1 DEF Carried, Outstanding
  <2> QED
    BY <1>1, <2>1, <2>2 DEF CopyInv
<1>4. CASE PushTask
  <2>1. /\ task # EmptyTask /\ task' = EmptyTask
        /\ taskCounter_' = [taskCounter_ EXCEPT ![index] = @ + 1]
        /\ UNCHANGED <<allocated, overloaded, processed>>
    BY <1>4 DEF PushTask, CountTask
  <2>2. index \in Worker /\ taskCounter_[index] \in Nat /\ processed[index] \in Seq(Task)
        /\ taskCounter_ \in [Worker -> Nat]
    BY DEF TypeInv, TypeOK
  <2>3. Outstanding'[index] = Outstanding[index] + 1
    <3>1. Len(processed[index]) \in Nat /\ taskCounter_'[index] = taskCounter_[index] + 1
      BY <2>1, <2>2
    <3>2. /\ Outstanding[index] = taskCounter_[index] - Len(processed[index])
          /\ Outstanding'[index] = taskCounter_'[index] - Len(processed[index])
      BY <2>1, <2>2 DEF Outstanding
    <3> QED
      BY <2>2, <3>1, <3>2
  <2>4. Total(Outstanding)' = Total(Outstanding) + Outstanding'[index] - Outstanding[index]
    BY <2>1, <2>2, OneWorkerChanges
  <2>5. Outstanding[index] \in Int
    BY <2>2, OutstandingType
  <2>6. Carried = 1 /\ Carried' = 0
    BY <2>1 DEF Carried
  <2> QED
    BY <1>1, <2>1, <2>3, <2>4, <2>5, <2>6 DEF CopyInv
<1>5. ASSUME NEW w \in Worker, ProcessTask(w) PROVE CopyInv'
  <2>1. /\ processed' = [processed EXCEPT ![w] = Append(@, hand[w])]
        /\ allocated' = allocated - 1
        /\ UNCHANGED <<task, taskCounter_, overloaded>>
    BY <1>5 DEF ProcessTask, RunTask
  <2>2. /\ taskCounter_[w] \in Nat /\ processed[w] \in Seq(Task)
        /\ processed \in [Worker -> Seq(Task)]
    BY DEF TypeInv, TypeOK
  <2>3. Outstanding'[w] = Outstanding[w] - 1
    <3>1. processed'[w] = Append(processed[w], hand[w]) /\ hand[w] \in Task
      BY <1>5, <2>1, <2>2 DEF ProcessTask, RunTask, Run, TypeInv, HandsFull
    <3>2. Len(processed[w]) \in Nat /\ Len(processed'[w]) = Len(processed[w]) + 1
      BY <2>2, <3>1
    <3>3. /\ Outstanding[w] = taskCounter_[w] - Len(processed[w])
          /\ Outstanding'[w] = taskCounter_[w] - Len(processed'[w])
      BY <2>1 DEF Outstanding
    <3> QED
      BY <2>2, <3>2, <3>3
  <2>4. Total(Outstanding)' = Total(Outstanding) + Outstanding'[w] - Outstanding[w]
    BY <2>1, <2>2, OneWorkerChanges
  <2>5. Outstanding[w] \in Int /\ Carried' = Carried /\ Carried \in {0, 1}
    BY <2>1, OutstandingType DEF Carried
  <2> QED
    BY <1>1, <2>1, <2>3, <2>4, <2>5 DEF CopyInv
<1>6. CASE ConstructWorker \/ WaitForWorkers \/ BeginLoop \/ FindRoom \/ LoopBroken
           \/ LeaveLoop \/ PushEmpty \/ Join \/ LoopEnds
  BY <1>6, CopiesKept DEF ConstructWorker, WaitForWorkers, BeginLoop, FindRoom, LoopBroken,
     LeaveLoop, PushEmpty, Join, LoopEnds, dispatcherVars
<1>7. ASSUME NEW f \in Frames, SkipFrame(f) PROVE CopyInv'
  BY <1>7, CopiesKept DEF SkipFrame, dispatcherVars
<1>8. ASSUME NEW w \in Worker, InitInThread(w) \/ TakeTask(w) PROVE CopyInv'
  BY <1>8, CopiesKept DEF InitInThread, TakeTask, dispatcherVars
<1>9. ASSUME NEW s \in Signals, Raise(s) \/ HandlerProceeds(s) PROVE CopyInv'
  BY <1>9, CopiesKept DEF Raise, HandlerProceeds, PassAssertions, FailAssertion, BreakLoop,
     HandlerStep, dispatcherVars
<1>10. CASE UNCHANGED vars
  BY <1>10, CopiesKept DEF vars, dispatcherVars
<1> QED
  BY <1>2, <1>3, <1>4, <1>5, <1>6, <1>7, <1>8, <1>9, <1>10
     DEF Next, MainProceeds, WorkerProceeds, Terminated

\* Of what it was counted for and has not run a worker has each in its queue or
\* in its hand.
LEMMA OutstandingIsPending ==
    ASSUME TypeInv, TaskInv, main # "aborted"
    PROVE  Outstanding = [w \in Worker |-> Len(Pending[w])]
<1>1. ASSUME NEW w \in Worker PROVE Outstanding[w] = Len(Pending[w])
  <2>1. taskCounter_[w] = Len(processed[w]) + InHand(w) + Stored(w)
    BY DEF TaskInv, TasksCounted
  <2>2. Len(Pending[w]) = InHand(w) + Stored(w)
    BY PendingIs DEF TaskInv, PendingShown, PendingOf
  <2>3. Len(processed[w]) \in Nat /\ InHand(w) \in Int /\ Stored(w) \in Int
    BY DEF InHand, Stored, TypeInv, TypeOK
  <2>4. Outstanding[w] = taskCounter_[w] - Len(processed[w])
    BY DEF Outstanding
  <2> QED
    BY <2>1, <2>2, <2>3, <2>4
<1> QED
  BY <1>1 DEF Outstanding

\* Whatever main, the workers and the handlers do, the copies that are not freed
\* are those of the tasks on their way, and one for each time a queue was full
\* (Dispatcher.cc:79-97): no copy is freed twice or before its task was run.
THEOREM CopiesAccountedHolds ==
    Spec => []CopiesAccounted
<1>1. Init => OrderInv /\ CopyInv
  BY OrderInit, CopiesInit
<1>2. IInv /\ IInv' /\ OrderInv /\ CopyInv /\ [Next]_vars => OrderInv' /\ CopyInv'
  BY StepServes, CopiesStep DEF IInv
<1>3. IInv /\ CopyInv => CopiesAccounted
  <2> SUFFICES ASSUME IInv, CopyInv, main # "aborted"
               PROVE  allocated = Carried + Total([w \in Worker |-> Len(Pending[w])])
                                  + overloaded
    BY DEF CopiesAccounted, Carried
  <2>1. Outstanding = [w \in Worker |-> Len(Pending[w])]
    BY OutstandingIsPending DEF IInv
  <2> QED
    BY <2>1 DEF CopyInv
<1> QED
  BY <1>1, <1>2, <1>3, Invariance, PTL DEF Spec
============================================================================
