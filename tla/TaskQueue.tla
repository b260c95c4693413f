----------------------------- MODULE TaskQueue -----------------------------
(***************************************************************************)
(* The task queues of the workers (src/dpi/TaskQueue.cc): a bounded queue  *)
(* of tbb and the thread that takes from it.  The module holds the steps   *)
(* of one queue; Noff composes them with the thread that fills the queues. *)
(*                                                                         *)
(* tbb::concurrent_bounded_queue counts a pop from the moment it draws its *)
(* ticket, before there is anything to take, so that size() is one less    *)
(* than what is stored while a pop is in progress, and -1 when it waits.   *)
(***************************************************************************)
EXTENDS Integers, Sequences

CONSTANTS
    NWorkers,   \* nWorkers of main (-t)
    MaxSize,    \* maxSize_, taskQueSize of main
    EmptyTask   \* a std::function without a target, which stops a thread

ASSUME TaskQueueAssumption == NWorkers \in Nat \ {0} /\ MaxSize \in Nat

Worker == 1 .. NWorkers

VARIABLES
    queue_,     \* what is stored in the queue of each worker
    thread,     \* where its thread is in runInThread
    hand        \* the task its thread has taken, EmptyTask when it has none

queueVars == <<queue_, thread, hand>>

ThreadState == {"none", "init", "idle", "taking", "running", "done"}

QueueInit ==
    /\ queue_ = [w \in Worker |-> <<>>]
    /\ thread = [w \in Worker |-> "none"]
    /\ hand = [w \in Worker |-> EmptyTask]

----------------------------------------------------------------------------
\* queue_.size()
Size(w) == Len(queue_[w]) - (IF thread[w] = "taking" THEN 1 ELSE 0)

\* Defect: one task more than the bound.
HasRoomForOneMore(w) == Size(w) <= MaxSize

\* The condition of nonBlockingRun; the push comes in a step of its own.
HasRoom(w) == Size(w) < MaxSize

Push(w, task) == queue_' = [queue_ EXCEPT ![w] = Append(@, task)]

\* start() creates the thread, which runs threadInitCallback_ first.
Start(w) ==
    /\ thread[w] = "none"
    /\ thread' = [thread EXCEPT ![w] = "init"]
    /\ UNCHANGED <<queue_, hand>>

\* threadInitCallback_ has returned.
ThreadInit(w) ==
    /\ thread[w] = "init"
    /\ thread' = [thread EXCEPT ![w] = "idle"]
    /\ UNCHANGED <<queue_, hand>>

\* take() calls pop, which draws a ticket and waits until there is a task.
BeginTake(w) ==
    /\ thread[w] = "idle"
    /\ thread' = [thread EXCEPT ![w] = "taking"]
    /\ UNCHANGED <<queue_, hand>>

\* Defect: the last task first.
TakeLast(w) ==
    LET last == Len(queue_[w]) IN
    /\ thread[w] = "taking"
    /\ queue_[w] # <<>>
    /\ queue_' = [queue_ EXCEPT ![w] = SubSeq(@, 1, last - 1)]
    /\ hand' = [hand EXCEPT ![w] = queue_[w][last]]
    /\ thread' = [thread EXCEPT ![w] =
                    IF queue_[w][last] = EmptyTask THEN "done" ELSE "running"]

\* Defect: an empty task is skipped.
TakeSkippingEmpty(w) ==
    /\ thread[w] = "taking"
    /\ queue_[w] # <<>>
    /\ queue_' = [queue_ EXCEPT ![w] = Tail(@)]
    /\ hand' = [hand EXCEPT ![w] = Head(queue_[w])]
    /\ thread' = [thread EXCEPT ![w] =
                    IF Head(queue_[w]) = EmptyTask THEN "idle" ELSE "running"]

\* The pop returns; an empty task ends the thread.
Take(w) ==
    /\ thread[w] = "taking"
    /\ queue_[w] # <<>>
    /\ queue_' = [queue_ EXCEPT ![w] = Tail(@)]
    /\ hand' = [hand EXCEPT ![w] = Head(queue_[w])]
    /\ thread' = [thread EXCEPT ![w] =
                    IF Head(queue_[w]) = EmptyTask THEN "done" ELSE "running"]

\* The task has been run.
Run(w) ==
    /\ thread[w] = "running"
    /\ thread' = [thread EXCEPT ![w] = "idle"]
    /\ hand' = [hand EXCEPT ![w] = EmptyTask]
    /\ UNCHANGED queue_
============================================================================
