----------------------------- MODULE TaskQueue -----------------------------
(***************************************************************************)
(* The task queue of the distributed package (queue.py, models.py).        *)
(*                                                                         *)
(* A Task object and the task_id under which the queue registers it are    *)
(* different things: _all_tasks maps an id to the object pushed last under *)
(* it, the heap holds objects.  Every method below runs under the queue's  *)
(* lock and is therefore one step.                                         *)
(***************************************************************************)
EXTENDS Integers, FiniteSets

CONSTANTS
  Tasks,        \* the Task objects callers may submit
  Ids,          \* the values of task_id
  IdOf,         \* task.task_id (submit draws a uuid4 for an empty one)
  Priority,     \* task.priority, an IntEnum from LOW = 0 to CRITICAL = 3
  MaxRetries,   \* task.max_retries
  NoTask,       \* dict.get of an id that was never pushed
  MaxPushes     \* bound: callers stop submitting once counter reaches it

ASSUME QueueAssumption ==
  /\ IdOf \in [Tasks -> Ids]
  /\ Priority \in [Tasks -> 0..3]
  /\ MaxRetries \in [Tasks -> Nat]
  /\ NoTask \notin Tasks
  /\ MaxPushes \in Nat

VARIABLES
  state,        \* task.state of every object
  retry_count,  \* task.retry_count of every object
  heap,         \* _queue: entries (-priority, counter, task)
  counter,      \* _counter
  all_tasks,    \* _all_tasks: id -> object
  completed     \* the keys of _completed

queueVars == <<state, retry_count, heap, counter, all_tasks, completed>>

\* RETRY is a member of the enum that no code assigns.
TaskState ==
  {"PENDING", "ASSIGNED", "RUNNING", "COMPLETED", "FAILED", "CANCELLED", "RETRY"}

HeapEntry == [key : -3..0, seq : Nat, task : Tasks]

\* Two callers that share an id share its slot in _all_tasks.
UniqueIds == \A a, b \in Tasks : IdOf[a] = IdOf[b] => a = b

-----------------------------------------------------------------------------
QueueInit ==
  /\ state = [o \in Tasks |-> "PENDING"]
  /\ retry_count = [o \in Tasks |-> 0]
  /\ heap = {}
  /\ counter = 0
  /\ all_tasks = [i \in Ids |-> NoTask]
  /\ completed = {}

\* Mutants of the definitions that follow are named for the bug they hold; no
\* specification uses them.

\* A heap ordered by arrival only.
BeforeByArrival(e, f) == e.seq < f.seq

\* heapq orders entries as tuples; counter never repeats, so tasks are never
\* compared.
Before(e, f) == \/ e.key < f.key
                \/ e.key = f.key /\ e.seq < f.seq

\* The sign of the priority is lost: heapq is a min-heap.
NewEntryUnsigned(o) == [key |-> Priority[o], seq |-> counter + 1, task |-> o]

NewEntry(o) == [key |-> -Priority[o], seq |-> counter + 1, task |-> o]

Push(o) ==
  /\ counter' = counter + 1
  /\ heap' = heap \union {NewEntry(o)}
  /\ all_tasks' = [all_tasks EXCEPT ![IdOf[o]] = o]
  /\ UNCHANGED <<state, retry_count, completed>>

\* pop() skips cancelled tasks and hands out any other.
LiveEntriesUncancelled == {e \in heap : state[e.task] # "CANCELLED"}

LiveEntries == {e \in heap : state[e.task] = "PENDING"}

\* pop() drops entries until one belongs to a PENDING task, and hands that
\* task out as ASSIGNED: everything up to and including the first live entry
\* leaves the heap.
Pop(o) ==
  \E e \in LiveEntries :
    /\ e.task = o
    /\ \A f \in LiveEntries : f = e \/ Before(e, f)
    /\ heap' = {f \in heap : Before(e, f)}
    /\ state' = [state EXCEPT ![o] = "ASSIGNED"]
    /\ UNCHANGED <<retry_count, counter, all_tasks, completed>>

\* pop() on a heap without a PENDING task empties it and returns None.
PopNone ==
  /\ LiveEntries = {}
  /\ heap' = {}
  /\ UNCHANGED <<state, retry_count, counter, all_tasks, completed>>

Complete(i) ==
  /\ all_tasks[i] # NoTask
  /\ state' = [state EXCEPT ![all_tasks[i]] = "COMPLETED"]
  /\ completed' = completed \union {i}
  /\ UNCHANGED <<retry_count, heap, counter, all_tasks>>

\* fail() makes the task wait again and forgets to queue it.
FailRetryUnqueued(i) ==
  LET o == all_tasks[i] IN
  /\ o # NoTask
  /\ retry_count[o] < MaxRetries[o]
  /\ retry_count' = [retry_count EXCEPT ![o] = @ + 1]
  /\ state' = [state EXCEPT ![o] = "PENDING"]
  /\ UNCHANGED <<heap, counter, all_tasks, completed>>

\* fail() grants one retry too many.
FailRetryOneMore(i) ==
  LET o == all_tasks[i] IN
  /\ o # NoTask
  /\ retry_count[o] <= MaxRetries[o]
  /\ retry_count' = [retry_count EXCEPT ![o] = @ + 1]
  /\ state' = [state EXCEPT ![o] = "PENDING"]
  /\ counter' = counter + 1
  /\ heap' = heap \union {NewEntry(o)}
  /\ UNCHANGED <<all_tasks, completed>>

\* fail() with retries left puts the task back behind its priority class.
FailRetry(i) ==
  LET o == all_tasks[i] IN
  /\ o # NoTask
  /\ retry_count[o] < MaxRetries[o]
  /\ retry_count' = [retry_count EXCEPT ![o] = @ + 1]
  /\ state' = [state EXCEPT ![o] = "PENDING"]
  /\ counter' = counter + 1
  /\ heap' = heap \union {NewEntry(o)}
  /\ UNCHANGED <<all_tasks, completed>>

FailForGood(i) ==
  LET o == all_tasks[i] IN
  /\ o # NoTask
  /\ retry_count[o] >= MaxRetries[o]
  /\ state' = [state EXCEPT ![o] = "FAILED"]
  /\ UNCHANGED <<retry_count, heap, counter, all_tasks, completed>>

Fail(i) == FailRetry(i) \/ FailForGood(i)

\* cancel() without its test of the state.
CancelAny(i) ==
  /\ all_tasks[i] # NoTask
  /\ state' = [state EXCEPT ![all_tasks[i]] = "CANCELLED"]
  /\ UNCHANGED <<retry_count, heap, counter, all_tasks, completed>>

\* cancel() that returns True; it answers False, and changes nothing, in
\* every other state.  The entry stays in the heap until a pop drops it.
Cancel(i) ==
  /\ all_tasks[i] # NoTask
  /\ state[all_tasks[i]] \in {"PENDING", "ASSIGNED"}
  /\ state' = [state EXCEPT ![all_tasks[i]] = "CANCELLED"]
  /\ UNCHANGED <<retry_count, heap, counter, all_tasks, completed>>

ClearCompleted ==
  /\ completed' = {}
  /\ UNCHANGED <<state, retry_count, heap, counter, all_tasks>>

\* Scheduler.submit and Coordinator.submit hand the task to push.
Submit(o) == counter < MaxPushes /\ Push(o)

\* Clients of a bare queue call its methods in any order, with any id.  The
\* retries that follow a complete() are bounded by MaxRetries.
QueueNext ==
  \/ \E o \in Tasks : Submit(o) \/ Pop(o)
  \/ \E i \in Ids : Complete(i) \/ Fail(i) \/ Cancel(i)
  \/ PopNone
  \/ ClearCompleted

QueueSpec == QueueInit /\ [][QueueNext]_queueVars

-----------------------------------------------------------------------------
\* Every variable stays in the range the code gives it.
QueueTypeOK ==
  /\ state \in [Tasks -> TaskState]
  /\ retry_count \in [Tasks -> Nat]
  /\ heap \subseteq HeapEntry
  /\ counter \in Nat
  /\ all_tasks \in [Ids -> Tasks \union {NoTask}]
  /\ completed \subseteq Ids

Registered(o) == all_tasks[IdOf[o]] = o

Queued(o) == \E e \in heap : e.task = o

\* The order of the heap is total: an entry never ties with another, so that
\* heapq never falls through to comparing two Task objects, which it cannot
\* (queue.py: push and fail draw from one counter, pop compares the tuples).
HeapTotal ==
  /\ \A e \in heap : e.key = -Priority[e.task] /\ e.seq <= counter
  /\ \A e, f \in heap : e.seq = f.seq => e = f

\* A registered task that still waits is in the heap: neither a pop that
\* drops stale entries, a cancel, a retry nor a second push under the same id
\* ever strands it (queue.py, pop discards entries lazily).
NoLostTask == \A o \in Tasks : Registered(o) /\ state[o] = "PENDING" => Queued(o)

\* A task is handed out only when no waiting registered task has a higher
\* priority, whatever was cancelled, retried or pushed twice in between
\* (queue.py, the heap key and the lazy discarding of pop).
PopsHighestPriority ==
  [][\A o \in Tasks :
       state[o] = "PENDING" /\ state'[o] = "ASSIGNED" =>
         \A p \in Tasks :
           Registered(p) /\ state[p] = "PENDING" => Priority[p] <= Priority[o]]_queueVars
=============================================================================
