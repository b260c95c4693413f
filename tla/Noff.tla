-------------------------------- MODULE Noff --------------------------------
(***************************************************************************)
(* The threads of noff (src/noff.cc, main with workers): the main thread   *)
(* starts the workers, waits until each has registered its callbacks,      *)
(* captures and dispatches, and then destroys the Dispatcher, which stops  *)
(* and joins one worker after the other.  A SIGINT runs sigHandler on any  *)
(* thread that lives, and that thread does nothing else meanwhile.         *)
(***************************************************************************)
EXTENDS Dispatcher, Sums

CONSTANTS
    Signals,    \* the SIGINTs that may come
    MaxFrames   \* bound: frames captured

ASSUME NoffAssumption == MaxFrames \in Nat

VARIABLES
    main,       \* where the main thread is
    latch,      \* the count of countDown
    handler,    \* where the handler of each signal is, and on which thread
    captured    \* how many frames pcap_loop has passed on

mainVars == <<main, latch, handler, captured>>

vars == <<queueVars, dispatcherVars, captureVars, mainVars>>

Main == 0

MainState == {"start", "wait", "ready", "loop", "check", "push", "ended", "join",
              "exit", "aborted"}

HandlerState == {"none", "entered", "asserted", "cleared", "done"}

TypeOK ==
    /\ queue_ \in [Worker -> Seq(Task \cup {EmptyTask})]
    /\ thread \in [Worker -> ThreadState]
    /\ hand \in [Worker -> Task \cup {EmptyTask}]
    /\ index \in Worker
    /\ task \in Task \cup {EmptyTask}
    /\ taskCounter_ \in [Worker -> Nat]
    /\ allocated \in Int
    /\ overloaded \in Nat
    /\ processed \in [Worker -> Seq(Task)]
    /\ running_ \in BOOLEAN
    /\ linkOffset_ \in {14, 16, 18}
    /\ breakFlag \in BOOLEAN
    /\ main \in MainState
    /\ latch \in Int
    /\ handler \in [Signals -> [at : HandlerState, on : {Main} \cup Worker]]
    /\ captured \in Nat

\* main has opened the capture and installed the handler (noff.cc:289-299).
Init ==
    /\ QueueInit
    /\ DispatcherInit
    /\ CaptureInit
    /\ main = "start"
    /\ latch = NWorkers
    /\ handler = [s \in Signals |-> [at |-> "none", on |-> Main]]
    /\ captured = 0

----------------------------------------------------------------------------
Active(s) == handler[s].at \in {"entered", "asserted", "cleared"}

\* A thread that is in a handler does not go on with what it was doing.
Suspended(t) == \E s \in Signals : Active(s) /\ handler[s].on = t

Alive(t) == IF t = Main THEN TRUE ELSE thread[t] \notin {"none", "done"}

\* A step of the main thread from one place to another.
MainStep(from, to) ==
    /\ main = from
    /\ ~Suspended(Main)
    /\ main' = to
    /\ UNCHANGED handler

\* The constructor of Dispatcher starts worker by worker.
ConstructWorker ==
    LET last == index = NWorkers IN
    /\ MainStep("start", IF last THEN "wait" ELSE "start")
    /\ Start(index)
    /\ index' = IF last THEN index ELSE index + 1
    /\ UNCHANGED <<task, taskCounter_, allocated, overloaded, processed, captureVars, latch,
                   captured>>

\* Defect: a latch for one worker.
LatchOpensAfterOne == latch < NWorkers

LatchOpen == latch <= 0

\* countDown->wait()
WaitForWorkers ==
    /\ MainStep("wait", "ready")
    /\ LatchOpen
    /\ UNCHANGED <<queueVars, dispatcherVars, captureVars, latch, captured>>

BeginLoop ==
    /\ MainStep("ready", "loop")
    /\ StartLoop
    /\ UNCHANGED <<queueVars, dispatcherVars, latch, captured>>

\* A frame that is no IP packet, or whose packet has no worker.
SkipFrame(f) ==
    /\ MainStep("loop", "loop")
    /\ captured < MaxFrames
    /\ ~breakFlag
    /\ ~Passes(f) \/ Refused \in Target(Parsed(f))
    /\ OnPacket(f)
    /\ captured' = captured + 1
    /\ UNCHANGED <<queueVars, dispatcherVars, latch>>

\* A frame whose packet is copied for a worker.
DispatchFrame(f) ==
    /\ MainStep("loop", "check")
    /\ captured < MaxFrames
    /\ ~breakFlag
    /\ Passes(f)
    /\ OnPacket(f)
    /\ \E w \in Worker : CopyFor(w, captured, Parsed(f))
    /\ captured' = captured + 1
    /\ UNCHANGED <<queueVars, latch>>

\* nonBlockingRun finds room.
FindRoom ==
    /\ MainStep("check", "push")
    /\ HasRoom(index)
    /\ UNCHANGED <<queueVars, dispatcherVars, captureVars, latch, captured>>

\* It finds none, and onIpFragment returns; stop would try again.
Overloaded ==
    /\ MainStep("check", "loop")
    /\ task # EmptyTask
    /\ ~HasRoom(index)
    /\ GiveUp
    /\ UNCHANGED <<queueVars, captureVars, latch, captured>>

PushTask ==
    /\ MainStep("push", "loop")
    /\ task # EmptyTask
    /\ Push(index, task)
    /\ CountTask
    /\ UNCHANGED <<thread, hand, captureVars, latch, captured>>

LoopBroken ==
    /\ MainStep("loop", "ended")
    /\ PcapLoopBroken
    /\ UNCHANGED <<queueVars, dispatcherVars, latch, captured>>

LoopEnds ==
    /\ MainStep("loop", "ended")
    /\ PcapLoopEnds
    /\ UNCHANGED <<queueVars, dispatcherVars, latch, captured>>

\* startLoop returns; disp goes out of scope, and so does its first queue.
LeaveLoop ==
    /\ MainStep("ended", "check")
    /\ EndLoop
    /\ index' = 1
    /\ UNCHANGED <<queueVars, task, taskCounter_, allocated, overloaded, processed, latch,
                   captured>>

\* stop() pushes the empty task.
PushEmpty ==
    /\ MainStep("push", "join")
    /\ task = EmptyTask
    /\ Push(index, EmptyTask)
    /\ UNCHANGED <<thread, hand, dispatcherVars, captureVars, latch, captured>>

\* Defect: the thread is not waited for.
JoinAtOnce ==
    LET last == index = NWorkers IN
    /\ MainStep("join", IF last THEN "exit" ELSE "check")
    /\ index' = IF last THEN index ELSE index + 1
    /\ UNCHANGED <<queueVars, task, taskCounter_, allocated, overloaded, processed,
                   captureVars, latch, captured>>

\* join() returns; the next queue is destroyed, or main returns.
Join ==
    LET last == index = NWorkers IN
    /\ MainStep("join", IF last THEN "exit" ELSE "check")
    /\ thread[index] = "done"
    /\ index' = IF last THEN index ELSE index + 1
    /\ UNCHANGED <<queueVars, task, taskCounter_, allocated, overloaded, processed,
                   captureVars, latch, captured>>

----------------------------------------------------------------------------
\* A step of a worker.
WorkerStep(w) ==
    /\ main # "aborted"
    /\ ~Suspended(w)
    /\ UNCHANGED <<captureVars, main, handler, captured>>

\* initInThread has registered the callbacks of this thread.
InitInThread(w) ==
    /\ WorkerStep(w)
    /\ ThreadInit(w)
    /\ latch' = latch - 1
    /\ UNCHANGED dispatcherVars

TakeTask(w) ==
    /\ WorkerStep(w)
    /\ BeginTake(w) \/ Take(w)
    /\ UNCHANGED <<dispatcherVars, latch>>

ProcessTask(w) ==
    /\ WorkerStep(w)
    /\ RunTask(w)
    /\ UNCHANGED latch

----------------------------------------------------------------------------
\* A SIGINT comes, on a thread that is not in the handler already.
Raise(s) ==
    /\ main # "aborted"
    /\ handler[s].at = "none"
    /\ \E t \in {Main} \cup Worker :
           /\ Alive(t)
           /\ ~Suspended(t)
           /\ handler' = [handler EXCEPT ![s] = [at |-> "entered", on |-> t]]
    /\ UNCHANGED <<queueVars, dispatcherVars, captureVars, main, latch, captured>>

HandlerStep(s, from, to) ==
    /\ main # "aborted"
    /\ handler[s].at = from
    /\ handler' = [handler EXCEPT ![s].at = to]
    /\ UNCHANGED <<queueVars, dispatcherVars, main, latch, captured>>

\* cap, a global, is gone once main has returned.
AssertionsHold == main # "exit" /\ running_

\* assert(cap != NULL) in sigHandler and assert(running_) in breakLoop.
PassAssertions(s) ==
    /\ HandlerStep(s, "entered", "asserted")
    /\ AssertionsHold
    /\ UNCHANGED captureVars

FailAssertion(s) ==
    /\ main # "aborted"
    /\ handler[s].at = "entered"
    /\ ~AssertionsHold
    /\ main' = "aborted"
    /\ UNCHANGED <<queueVars, dispatcherVars, captureVars, latch, handler, captured>>

\* Defect: the loop is not told.
BreakLoopSilently(s) ==
    \/ HandlerStep(s, "asserted", "cleared") /\ ClearRunning
    \/ HandlerStep(s, "cleared", "done") /\ UNCHANGED captureVars

BreakLoop(s) ==
    \/ HandlerStep(s, "asserted", "cleared") /\ ClearRunning
    \/ HandlerStep(s, "cleared", "done") /\ PcapBreakloop

\* The process is over.
Terminated == main \in {"exit", "aborted"} /\ UNCHANGED vars

----------------------------------------------------------------------------
\* What the main thread does by itself once it can; frames and the end of
\* the input come from outside.
MainProceeds ==
    \/ ConstructWorker
    \/ WaitForWorkers
    \/ BeginLoop
    \/ FindRoom
    \/ Overloaded
    \/ PushTask
    \/ LoopBroken
    \/ LeaveLoop
    \/ PushEmpty
    \/ Join

WorkerProceeds(w) == InitInThread(w) \/ TakeTask(w) \/ ProcessTask(w)

HandlerProceeds(s) == PassAssertions(s) \/ FailAssertion(s) \/ BreakLoop(s)

Next ==
    \/ MainProceeds
    \/ \E f \in Frames : SkipFrame(f) \/ DispatchFrame(f)
    \/ LoopEnds
    \/ \E w \in Worker : WorkerProceeds(w)
    \/ \E s \in Signals : Raise(s) \/ HandlerProceeds(s)
    \/ Terminated

\* Every thread is scheduled, and so is the handler on it.
Fairness ==
    /\ WF_vars(MainProceeds)
    /\ \A w \in Worker : WF_vars(WorkerProceeds(w))
    /\ \A s \in Signals : WF_vars(HandlerProceeds(s))

Spec == Init /\ [][Next]_vars

FairSpec == Spec /\ Fairness

----------------------------------------------------------------------------
\* A queue never holds more than its bound, although nonBlockingRun compares
\* in one step and pushes in another (TaskQueue.cc:44-45).
QueueBounded == \A w \in Worker : Size(w) <= MaxSize

\* When frames are dispatched every worker has registered its callbacks: the
\* latch of main opens only after the last initInThread (noff.cc:219, 321).
RegisteredBeforeCapture ==
    main \notin {"start", "wait", "aborted"} =>
        \A w \in Worker : thread[w] \notin {"none", "init"}

\* No handler uses the Capture after main has returned and destroyed it: a
\* worker does not end, and is not joined, while a handler runs on it
\* (noff.cc:58-62, TaskQueue.cc:34).
CaptureOutlivesHandlers ==
    main = "exit" => \A s \in Signals : handler[s].at \notin {"asserted", "cleared"}

\* A worker has ended only when it has run what Dispatcher counted for it
\* (Dispatcher.cc:99, TaskQueue.cc:75-84).
EndedWorkersAreDrained ==
    \A w \in Worker : thread[w] = "done" => Len(processed[w]) = taskCounter_[w]

\* Outside of startLoop running_ is not set, so that startLoop's assertion
\* holds and ~Capture never breaks the loop (Capture.cc:60, 71).
RunningOnlyInLoop ==
    running_ => main \in {"loop", "check", "push", "ended", "aborted"}


\* A SIGINT that passed the assertions ends the program (Capture.h:39).
SignalStops ==
    \A s \in Signals : handler[s].at = "asserted" ~> main \in {"exit", "aborted"}

\* When the capture loop ends so does the program: stop finds room for its
\* empty task, and every join returns (TaskQueue.cc:29-35).
LoopEndStops == main = "ended" ~> main \in {"exit", "aborted"}

----------------------------------------------------------------------------
\* The tasks stored for a worker; the empty task is behind all of them.
Waiting(w) ==
    LET n == Len(queue_[w])
        closed == n > 0 /\ queue_[w][n] = EmptyTask
    IN  SubSeq(queue_[w], 1, IF closed THEN n - 1 ELSE n)

\* The tasks a worker was given and has not run.
Pending ==
    [w \in Worker |->
        IF main = "aborted" THEN <<>>
        ELSE (IF thread[w] = "running" THEN <<hand[w]>> ELSE <<>>) \o Waiting(w)]

\* The copies that are not freed are those of the task main is about to push,
\* one of each task that waits or runs, and one of every fragment for which
\* the queue had no room: a task frees its copy once, when it was run, and of
\* a fragment without a task nobody does (Dispatcher.cc:79-97).  When the
\* program returns only the latter are left.
CopiesAccounted ==
    main # "aborted" =>
        allocated = (IF task = EmptyTask THEN 0 ELSE 1)
                    + Total([w \in Worker |-> Len(Pending[w])])
                    + overloaded

\* Main, queues and workers keep the promise of the dispatch.
Service == INSTANCE DispatchService WITH
    pending <- Pending, open <- main \notin {"exit", "aborted"}

ServiceSpec == Service!FairSpec
============================================================================
