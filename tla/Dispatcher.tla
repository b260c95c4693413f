----------------------------- MODULE Dispatcher -----------------------------
(***************************************************************************)
(* src/dpi/Dispatcher.cc: gives every IP fragment that is captured to the  *)
(* queue of the worker its flow belongs to, as a task that owns a copy of  *)
(* it.  The steps are those of the capture thread, for which Capture calls  *)
(* the Dispatcher, and RunTask, the task itself on the thread of a worker. *)
(***************************************************************************)
EXTENDS TaskQueue, Capture

CONSTANTS
    Refused,    \* no worker: Sharding throws, or the header is too short
    Shard       \* the worker of each packet, or Refused

\* The task of the fragment that was captured as number no.
TaskOf(no, p) == [no |-> no, packet |-> p]

Task == [no : Nat, packet : Packet \cup {Garbled}]

ASSUME DispatcherAssumption ==
    /\ Refused \notin Worker
    /\ Shard \in [Packet -> Worker \cup {Refused}]
    /\ EmptyTask \notin Task

VARIABLES
    index,          \* the worker the call in progress is about
    task,           \* the task it pushes
    taskCounter_,   \* how many tasks each worker was given
    allocated,      \* how many copies of fragments are not freed
    overloaded,     \* how often "overloaded" was logged for a full queue
    processed       \* the tasks each worker has run

dispatcherVars == <<index, task, taskCounter_, allocated, overloaded, processed>>

DispatcherInit ==
    /\ index = 1
    /\ task = EmptyTask
    /\ taskCounter_ = [w \in Worker |-> 0]
    /\ allocated = 0
    /\ overloaded = 0
    /\ processed = [w \in Worker |-> <<>>]

----------------------------------------------------------------------------
\* The worker of a packet; bytes that are no header go anywhere.
Target(p) == IF p = Garbled THEN Worker \cup {Refused} ELSE {Shard[p]}

\* onIpFragment up to the copy: the fragment has a worker.
CopyFor(w, no, p) ==
    /\ w \in Target(p) \ {Refused}
    /\ index' = w
    /\ task' = TaskOf(no, p)
    /\ allocated' = allocated + 1
    /\ UNCHANGED <<taskCounter_, overloaded, processed>>

\* Defect: the counter also counts what the queue had no room for.
GiveUpCounted ==
    /\ taskCounter_' = [taskCounter_ EXCEPT ![index] = @ + 1]
    /\ task' = EmptyTask
    /\ overloaded' = overloaded + 1
    /\ UNCHANGED <<index, allocated, processed>>

\* The worker is overloaded: onIpFragment returns, and the copy stays.
GiveUp ==
    /\ task' = EmptyTask
    /\ overloaded' = overloaded + 1
    /\ UNCHANGED <<index, taskCounter_, allocated, processed>>

\* Defect: the copy is freed behind the push, while the task still has it.
CountTaskFreeing ==
    /\ taskCounter_' = [taskCounter_ EXCEPT ![index] = @ + 1]
    /\ task' = EmptyTask
    /\ allocated' = allocated - 1
    /\ UNCHANGED <<index, overloaded, processed>>

\* The push succeeded.
CountTask ==
    /\ taskCounter_' = [taskCounter_ EXCEPT ![index] = @ + 1]
    /\ task' = EmptyTask
    /\ UNCHANGED <<index, allocated, overloaded, processed>>

\* The task: startIpfragProc of the worker's IpFragment, then free.
RunTask(w) ==
    /\ Run(w)
    /\ processed' = [processed EXCEPT ![w] = Append(@, hand[w])]
    /\ allocated' = allocated - 1
    /\ UNCHANGED <<index, task, taskCounter_, overloaded>>
============================================================================
