-------------------------- MODULE SchedulerProofs --------------------------
(***************************************************************************)
(* The queue and the scheduler for any number of callers, executors, tasks *)
(* and retries.  Part 1 is about the queue alone, ids shared or not: its   *)
(* types, that no waiting task is stranded, that pop respects priorities;  *)
(* its lemmas on single operations serve the scheduler too.  Part 2 needs  *)
(* no assumption on ids either; part 3, exclusive execution and what rests *)
(* on it, needs them to be unique; part 4 shows that every step of the     *)
(* scheduler is then a step of TaskLifecycle or a stutter.  Part 5 is the  *)
(* coordinator: it drives the scheduler by these rules, whatever its       *)
(* control thread and its run loops do, within two bounds on what runs at  *)
(* once, for any finite number of loops and ids.                           *)
(***************************************************************************)
EXTENDS SchedulerLifecycle, Coordinator, FiniteSetTheorems, TLAPS

-----------------------------------------------------------------------------
(* Part 1, the queue alone *)

\* One step of the queue, without the bound on submissions.
QueueStep ==
  \/ \E o \in Tasks : Push(o) \/ Pop(o)
  \/ \E i \in Ids : Complete(i) \/ Fail(i) \/ Cancel(i)
  \/ PopNone
  \/ ClearCompleted

\* Each operation keeps the queue's variables in their ranges.
LEMMA QueueStepType ==
  ASSUME QueueTypeOK, QueueStep
  PROVE  QueueTypeOK'
<1> USE QueueAssumption DEF QueueTypeOK, TaskState
<1>1. ASSUME NEW o \in Tasks PROVE NewEntry(o) \in HeapEntry
  BY <1>1 DEF NewEntry, HeapEntry
<1>2. ASSUME NEW o \in Tasks, Push(o) PROVE QueueTypeOK'
  BY <1>1, <1>2 DEF Push
<1>3. ASSUME NEW o \in Tasks, Pop(o) PROVE QueueTypeOK'
  BY <1>3 DEF Pop
<1>4. ASSUME NEW i \in Ids, Complete(i) PROVE QueueTypeOK'
  BY <1>4 DEF Complete
<1>5. ASSUME NEW i \in Ids, Fail(i) PROVE QueueTypeOK'
  <2>1. all_tasks[i] \in Tasks
    BY <1>5 DEF Fail, FailRetry, FailForGood
  <2>2. CASE FailRetry(i)
    BY <1>1, <2>1, <2>2 DEF FailRetry
  <2>3. CASE FailForGood(i)
    BY <2>1, <2>3 DEF FailForGood
  <2> QED BY <1>5, <2>2, <2>3 DEF Fail
<1>6. ASSUME NEW i \in Ids, Cancel(i) PROVE QueueTypeOK'
  BY <1>6 DEF Cancel
<1>7. CASE PopNone
  BY <1>7 DEF PopNone
<1>8. CASE ClearCompleted
  BY <1>8 DEF ClearCompleted
<1> QED BY <1>2, <1>3, <1>4, <1>5, <1>6, <1>7, <1>8 DEF QueueStep

\* No operation strands a waiting task.
LEMMA QueueStepKeeps ==
  ASSUME QueueTypeOK, NoLostTask, QueueStep
  PROVE  NoLostTask'
<1> SUFFICES ASSUME NEW p \in Tasks, Registered(p)', state'[p] = "PENDING"
             PROVE  Queued(p)'
  BY DEF NoLostTask
<1> USE QueueAssumption DEF QueueTypeOK, Registered, Queued
<1>1. ASSUME NEW o \in Tasks, Push(o) PROVE Queued(p)'
  <2>1. CASE p = o
    <3>1. NewEntry(o) \in heap' /\ NewEntry(o).task = o
      BY <1>1 DEF Push, NewEntry
    <3> QED BY <2>1, <3>1
  <2>2. CASE p # o
    BY <1>1, <2>2 DEF Push, NoLostTask
  <2> QED BY <2>1, <2>2
<1>2. ASSUME NEW o \in Tasks, Pop(o) PROVE Queued(p)'
  <2>1. PICK e \in LiveEntries :
          /\ e.task = o
          /\ \A f \in LiveEntries : f = e \/ Before(e, f)
          /\ heap' = {f \in heap : Before(e, f)}
          /\ state' = [state EXCEPT ![o] = "ASSIGNED"]
          /\ all_tasks' = all_tasks
    BY <1>2 DEF Pop
  <2>2. p # o /\ state[p] = "PENDING"
    BY <2>1
  <2>3. PICK f \in heap : f.task = p
    BY <2>1, <2>2 DEF NoLostTask
  <2>4. f \in LiveEntries /\ f # e
    BY <2>1, <2>2, <2>3 DEF LiveEntries
  <2> QED BY <2>1, <2>3, <2>4
<1>3. ASSUME NEW i \in Ids, Complete(i) PROVE Queued(p)'
  BY <1>3 DEF Complete, NoLostTask
<1>4. ASSUME NEW i \in Ids, Fail(i) PROVE Queued(p)'
  <2>1. all_tasks[i] \in Tasks
    BY <1>4 DEF Fail, FailRetry, FailForGood
  <2>2. CASE FailRetry(i)
    <3>1. CASE p = all_tasks[i]
      <4>1. NewEntry(p) \in heap' /\ NewEntry(p).task = p
        BY <2>2, <3>1 DEF FailRetry, NewEntry
      <4> QED BY <4>1
    <3>2. CASE p # all_tasks[i]
      BY <2>1, <2>2, <3>2 DEF FailRetry, NoLostTask
    <3> QED BY <3>1, <3>2
  <2>3. CASE FailForGood(i)
    BY <2>1, <2>3 DEF FailForGood, NoLostTask
  <2> QED BY <1>4, <2>2, <2>3 DEF Fail
<1>5. ASSUME NEW i \in Ids, Cancel(i) PROVE Queued(p)'
  BY <1>5 DEF Cancel, NoLostTask
<1>6. CASE PopNone
  BY <1>6 DEF PopNone, NoLostTask, LiveEntries
<1>7. CASE ClearCompleted
  BY <1>7 DEF ClearCompleted, NoLostTask
<1> QED BY <1>1, <1>2, <1>3, <1>4, <1>5, <1>6, <1>7 DEF QueueStep

\* The entries of the heap stay totally ordered by priority and arrival.
LEMMA QueueStepOrder ==
  ASSUME QueueTypeOK, HeapTotal, QueueStep
  PROVE  HeapTotal'
<1> USE QueueAssumption DEF QueueTypeOK
<1>1. ASSUME NEW o \in Tasks,
             heap' = heap \union {NewEntry(o)}, counter' = counter + 1
      PROVE  HeapTotal'
  <2> DEFINE n == NewEntry(o)
  <2>1. n.key = -Priority[o] /\ n.task = o /\ n.seq = counter + 1
    BY DEF NewEntry
  <2>2. \A e \in heap : e.seq \in Nat /\ e.seq <= counter
    BY DEF HeapTotal, HeapEntry
  <2>3. \A e \in heap' : e \in heap \/ e = n
    BY <1>1
  <2> HIDE DEF n
  <2>4. \A e \in heap' : e.key = -Priority[e.task] /\ e.seq <= counter'
    BY <1>1, <2>1, <2>2, <2>3 DEF HeapTotal
  <2>5. \A e, f \in heap' : e.seq = f.seq => e = f
    BY <2>1, <2>2, <2>3 DEF HeapTotal
  <2> QED BY <2>4, <2>5 DEF HeapTotal
<1>2. ASSUME heap' \subseteq heap, counter' = counter PROVE HeapTotal'
  BY <1>2 DEF HeapTotal
<1>3. ASSUME NEW o \in Tasks, Push(o) \/ Pop(o) PROVE HeapTotal'
  <2>1. CASE Push(o)
    BY <1>1, <2>1 DEF Push
  <2>2. CASE Pop(o)
    BY <1>2, <2>2 DEF Pop
  <2> QED BY <1>3, <2>1, <2>2
<1>4. ASSUME NEW i \in Ids, Complete(i) \/ Fail(i) \/ Cancel(i) PROVE HeapTotal'
  <2>1. CASE FailRetry(i)
    <3>1. all_tasks[i] \in Tasks
      BY <2>1 DEF FailRetry
    <3> QED BY <1>1, <2>1, <3>1 DEF FailRetry
  <2>2. CASE Complete(i) \/ FailForGood(i) \/ Cancel(i)
    BY <1>2, <2>2 DEF Complete, FailForGood, Cancel
  <2> QED BY <1>4, <2>1, <2>2 DEF Fail
<1>5. CASE PopNone \/ ClearCompleted
  BY <1>2, <1>5 DEF PopNone, ClearCompleted
<1> QED BY <1>3, <1>4, <1>5 DEF QueueStep

\* A pop hands out a task of the highest waiting priority.
LEMMA PopIsHighest ==
  ASSUME QueueTypeOK, HeapTotal, NoLostTask, NEW o \in Tasks, Pop(o),
         NEW p \in Tasks, Registered(p), state[p] = "PENDING"
  PROVE  Priority[p] <= Priority[o]
<1> USE QueueAssumption DEF QueueTypeOK
<1>1. PICK e \in LiveEntries :
        e.task = o /\ \A f \in LiveEntries : f = e \/ Before(e, f)
  BY DEF Pop
<1>2. PICK f \in heap : f.task = p
  BY DEF NoLostTask, Queued
<1>3. f \in LiveEntries
  BY <1>2 DEF LiveEntries
<1>4. e.key = -Priority[o] /\ f.key = -Priority[p]
  BY <1>1, <1>2 DEF LiveEntries, HeapTotal
<1>5. e.key <= f.key
  BY <1>1, <1>3, <1>4 DEF Before
<1> QED BY <1>4, <1>5

-----------------------------------------------------------------------------
\* The queue's invariant: types, the heap in its order, no task lost.
QueueInv == QueueTypeOK /\ HeapTotal /\ NoLostTask

\* An empty queue has the invariant.
LEMMA QueueInitInv == QueueInit => QueueInv
BY QueueAssumption
DEF QueueInit, QueueInv, QueueTypeOK, TaskState, HeapTotal, NoLostTask, Registered

\* Every operation of the queue keeps its invariant.
LEMMA QueueNextInv == QueueInv /\ [QueueNext]_queueVars => QueueInv'
<1> SUFFICES ASSUME QueueInv, [QueueNext]_queueVars PROVE QueueInv'
  OBVIOUS
<1>1. CASE QueueNext
  <2>1. QueueStep
    BY <1>1 DEF QueueNext, Submit, QueueStep
  <2> QED BY <2>1, QueueStepType, QueueStepOrder, QueueStepKeeps DEF QueueInv
<1>2. CASE UNCHANGED queueVars
  BY <1>2 DEF queueVars, QueueInv, QueueTypeOK, HeapTotal, NoLostTask,
              Registered, Queued
<1> QED BY <1>1, <1>2

\* The queue keeps its type invariant, strands no waiting task and keeps its
\* entries totally ordered, for any number of tasks, ids and priorities.
THEOREM QueueSafety == QueueSpec => [](QueueTypeOK /\ HeapTotal /\ NoLostTask)
<1>1. QueueSpec => []QueueInv
  BY QueueInitInv, QueueNextInv, PTL DEF QueueSpec
<1> QED BY <1>1, PTL DEF QueueInv

\* Every pop hands out a task of the highest waiting priority.
THEOREM QueuePriority == QueueSpec => PopsHighestPriority
<1> DEFINE A == \A o \in Tasks :
       state[o] = "PENDING" /\ state'[o] = "ASSIGNED" =>
         \A p \in Tasks :
           Registered(p) /\ state[p] = "PENDING" => Priority[p] <= Priority[o]
<1>1. QueueInv /\ [QueueNext]_queueVars => [A]_queueVars
  <2> SUFFICES ASSUME QueueInv, QueueNext,
                      NEW o \in Tasks, state[o] = "PENDING", state'[o] = "ASSIGNED",
                      NEW p \in Tasks, Registered(p), state[p] = "PENDING"
               PROVE  Priority[p] <= Priority[o]
    OBVIOUS
  <2>1. Pop(o)
    <3>1. \A q \in Tasks : Pop(q) => q = o
      BY DEF Pop, QueueInv, QueueTypeOK
    <3>2. \A q \in Tasks : ~Submit(q)
      BY DEF Submit, Push
    <3>3. \A i \in Ids : ~Complete(i) /\ ~Fail(i) /\ ~Cancel(i)
      BY DEF Complete, Fail, FailRetry, FailForGood, Cancel, QueueInv, QueueTypeOK
    <3>4. ~PopNone /\ ~ClearCompleted
      BY DEF PopNone, ClearCompleted
    <3> QED BY <3>1, <3>2, <3>3, <3>4 DEF QueueNext
  <2> QED BY <2>1, PopIsHighest DEF QueueInv
<1>2. QueueSpec => []QueueInv
  BY QueueInitInv, QueueNextInv, PTL DEF QueueSpec
<1> QED BY <1>1, <1>2, PTL DEF QueueSpec, PopsHighestPriority

-----------------------------------------------------------------------------
(* Part 2, the scheduler where ids may be shared *)

\* The scheduler's own invariant: types, the queue's heap and tasks, no entry left
\* behind.
BaseInv == SchedTypeOK /\ HeapTotal /\ NoLostTask /\ NoLeakedEntry

\* The scheduler starts with it.
LEMMA BaseInit == SchedInit => BaseInv
<1> SUFFICES ASSUME SchedInit PROVE BaseInv
  OBVIOUS
<1>1. QueueInv
  BY QueueInitInv DEF SchedInit
<1>2. SchedTypeOK
  BY <1>1, SchedulerAssumption
  DEF SchedInit, SchedTypeOK, QueueInv, CallerSteps, ThreadSteps
<1>3. NoLeakedEntry
  BY DEF SchedInit, NoLeakedEntry
<1> QED BY <1>1, <1>2, <1>3 DEF BaseInv, QueueInv

\* Each step of the scheduler keeps the variables in their ranges.
LEMMA SchedStepType ==
  ASSUME SchedTypeOK, SchedNext
  PROVE  SchedTypeOK'
<1> USE QueueAssumption, SchedulerAssumption
<1>1. CASE ClientStep
  <2>1. QueueStep
    BY <1>1 DEF ClientStep, Submit, QueueStep
  <2> QED BY <1>1, <2>1, QueueStepType DEF ClientStep, schedVars, SchedTypeOK
<1>2. ASSUME NEW c \in Callers, CallerStep(c) PROVE SchedTypeOK'
  <2> USE DEF SchedTypeOK, CallerSteps, ThreadSteps
  <2>1. CASE SchedulePop(c)
    <3>1. PICK o \in Tasks : Pop(o) /\ picked' = [picked EXCEPT ![c] = o]
      BY <2>1 DEF SchedulePop
    <3>2. QueueTypeOK'
      BY <3>1, QueueStepType DEF QueueStep
    <3> QED BY <2>1, <3>1, <3>2 DEF SchedulePop
  <2>2. CASE ScheduleNone(c)
    <3>1. QueueTypeOK'
      BY <2>2, QueueStepType DEF ScheduleNone, QueueStep
    <3> QED BY <2>2, <3>1 DEF ScheduleNone, schedVars
  <2>3. CASE ScheduleMark(c)
    BY <2>3 DEF ScheduleMark, QueueTypeOK, TaskState
  <2>4. ASSUME NEW t \in Threads, ScheduleRegister(c, t) PROVE SchedTypeOK'
    <3>1. QueueTypeOK'
      BY <2>4 DEF ScheduleRegister, queueVars, QueueTypeOK
    <3>2. picked[c] \in Tasks
      BY <2>4 DEF ScheduleRegister
    <3> QED BY <2>4, <3>1, <3>2 DEF ScheduleRegister
  <2> QED BY <1>2, <2>1, <2>2, <2>3, <2>4 DEF CallerStep
<1>3. ASSUME NEW t \in Threads, ExecutorStep(t) PROVE SchedTypeOK'
  <2> USE DEF SchedTypeOK, ThreadSteps
  <2>1. tpc[t] # "free" /\ job[t] \in Tasks
    BY <1>3 DEF ExecutorStep, RunBody, RaiseBody, CompleteJob, FailJob, Unregister
  <2>2. CASE RunBody(t) \/ RaiseBody(t) \/ Unregister(t)
    <3>1. QueueTypeOK'
      BY <2>2 DEF RunBody, RaiseBody, Unregister, queueVars, QueueTypeOK
    <3>2. CASE RunBody(t)
      BY <2>1, <3>1, <3>2 DEF RunBody
    <3>3. CASE RaiseBody(t)
      BY <2>1, <3>1, <3>3 DEF RaiseBody
    <3>4. CASE Unregister(t)
      BY <2>1, <3>1, <3>4 DEF Unregister
    <3> QED BY <2>2, <3>2, <3>3, <3>4
  <2>3. CASE CompleteJob(t) \/ FailJob(t)
    <3>1. QueueTypeOK'
      BY <2>1, <2>3, QueueStepType DEF CompleteJob, FailJob, QueueStep
    <3> QED BY <2>1, <2>3, <3>1 DEF CompleteJob, FailJob
  <2> QED BY <1>3, <2>2, <2>3 DEF ExecutorStep
<1> QED BY <1>1, <1>2, <1>3 DEF SchedNext

\* Every step is a step of the queue, leaves the queue alone, or only marks a
\* task RUNNING.
LEMMA SchedStepQueue ==
  ASSUME SchedTypeOK, SchedNext
  PROVE  \/ QueueStep
         \/ UNCHANGED queueVars
         \/ /\ \E o \in Tasks : state' = [state EXCEPT ![o] = "RUNNING"]
            /\ UNCHANGED <<retry_count, heap, counter, all_tasks, completed>>
<1> USE QueueAssumption
<1>1. CASE ClientStep
  BY <1>1 DEF ClientStep, Submit, QueueStep
<1>2. ASSUME NEW c \in Callers, CallerStep(c)
      PROVE  \/ QueueStep
             \/ UNCHANGED queueVars
             \/ /\ \E o \in Tasks : state' = [state EXCEPT ![o] = "RUNNING"]
                /\ UNCHANGED <<retry_count, heap, counter, all_tasks, completed>>
  <2>1. CASE SchedulePop(c) \/ ScheduleNone(c)
    BY <2>1 DEF SchedulePop, ScheduleNone, QueueStep
  <2>2. CASE ScheduleMark(c)
    <3>1. picked[c] \in Tasks
      BY <2>2 DEF ScheduleMark, SchedTypeOK
    <3> QED BY <2>2, <3>1 DEF ScheduleMark
  <2>3. CASE \E t \in Threads : ScheduleRegister(c, t)
    BY <2>3 DEF ScheduleRegister
  <2> QED BY <1>2, <2>1, <2>2, <2>3 DEF CallerStep
<1>3. ASSUME NEW t \in Threads, ExecutorStep(t)
      PROVE  QueueStep \/ UNCHANGED queueVars
  <2>1. CASE CompleteJob(t) \/ FailJob(t)
    <3>1. IdOf[job[t]] \in Ids
      BY <2>1 DEF CompleteJob, FailJob, SchedTypeOK
    <3> QED BY <2>1, <3>1 DEF CompleteJob, FailJob, QueueStep
  <2>2. CASE RunBody(t) \/ RaiseBody(t) \/ Unregister(t)
    BY <2>2 DEF RunBody, RaiseBody, Unregister
  <2> QED BY <1>3, <2>1, <2>2 DEF ExecutorStep
<1> QED BY <1>1, <1>2, <1>3 DEF SchedNext

\* The entries of _running stay those of live executors of their id.
LEMMA SchedStepEntries ==
  ASSUME SchedTypeOK, NoLeakedEntry, SchedNext
  PROVE  NoLeakedEntry'
<1> USE QueueAssumption, SchedulerAssumption DEF SchedTypeOK, NoLeakedEntry
<1>1. CASE UNCHANGED <<running, tpc, job>>
  BY <1>1
<1>2. ASSUME NEW c \in Callers, NEW t \in Threads, ScheduleRegister(c, t)
      PROVE  NoLeakedEntry'
  <2>1. \A i \in Ids : running[i] # t
    BY <1>2 DEF ScheduleRegister
  <2>2. picked[c] \in Tasks
    BY <1>2 DEF ScheduleRegister
  <2> QED BY <1>2, <2>1, <2>2 DEF ScheduleRegister
<1>3. ASSUME NEW t \in Threads, Unregister(t) PROVE NoLeakedEntry'
  BY <1>3 DEF Unregister
<1>4. ASSUME NEW t \in Threads,
             RunBody(t) \/ RaiseBody(t) \/ CompleteJob(t) \/ FailJob(t)
      PROVE  NoLeakedEntry'
  BY <1>4 DEF RunBody, RaiseBody, CompleteJob, FailJob
<1>5. CASE ClientStep
  BY <1>1, <1>5 DEF ClientStep, schedVars
<1>6. ASSUME NEW c \in Callers,
             SchedulePop(c) \/ ScheduleNone(c) \/ ScheduleMark(c)
      PROVE  UNCHANGED <<running, tpc, job>>
  BY <1>6 DEF SchedulePop, ScheduleNone, ScheduleMark, schedVars
<1> QED BY <1>1, <1>2, <1>3, <1>4, <1>5, <1>6 DEF SchedNext, CallerStep, ExecutorStep

\* Every step of every thread keeps it.
LEMMA BaseNext == BaseInv /\ [SchedNext]_vars => BaseInv'
<1> SUFFICES ASSUME BaseInv, [SchedNext]_vars PROVE BaseInv'
  OBVIOUS
<1>1. CASE SchedNext
  <2>1. SchedTypeOK' /\ NoLeakedEntry'
    BY <1>1, SchedStepType, SchedStepEntries DEF BaseInv
  <2>2. QueueTypeOK /\ HeapTotal /\ NoLostTask
    BY DEF BaseInv, SchedTypeOK
  <2>3. CASE QueueStep
    BY <2>1, <2>2, <2>3, QueueStepOrder, QueueStepKeeps DEF BaseInv
  <2>4. CASE UNCHANGED queueVars
    BY <2>1, <2>2, <2>4
    DEF BaseInv, queueVars, HeapTotal, NoLostTask, Registered, Queued
  <2>5. ASSUME NEW o \in Tasks, state' = [state EXCEPT ![o] = "RUNNING"],
               UNCHANGED <<retry_count, heap, counter, all_tasks, completed>>
        PROVE  BaseInv'
    BY <2>1, <2>2, <2>5
    DEF BaseInv, QueueTypeOK, HeapTotal, NoLostTask, Registered, Queued
  <2>6. SchedTypeOK
    BY DEF BaseInv
  <2> QED BY <1>1, <2>3, <2>4, <2>5, <2>6, SchedStepQueue
<1>2. CASE UNCHANGED vars
  BY <1>2 DEF vars, queueVars, schedVars, BaseInv, SchedTypeOK, QueueTypeOK,
              HeapTotal, NoLostTask, Registered, Queued, NoLeakedEntry
<1> QED BY <1>1, <1>2

\* Whatever the callers, executors and clients do, shared ids included: the
\* variables keep their types, no waiting task is stranded, the heap stays
\* totally ordered and _running only names executors still in _execute.
THEOREM SchedulerBase ==
  SchedSpec => [](SchedTypeOK /\ HeapTotal /\ NoLostTask /\ NoLeakedEntry)
<1>1. SchedSpec => []BaseInv
  BY BaseInit, BaseNext, PTL DEF SchedSpec
<1> QED BY <1>1, PTL DEF BaseInv

\* The types, and what they say beyond types: only a mark in flight has a task
\* picked, and only a thread at work has a job.
THEOREM SchedulerTypes == SchedSpec => []SchedTypeOK
BY SchedulerBase, PTL

-----------------------------------------------------------------------------
(* Part 3, the scheduler where ids are unique *)

\* Whatever the heap, a caller or an executor holds has been submitted and is
\* what its id stands for.
KnownInv ==
  /\ \A e \in heap : Registered(e.task)
  /\ \A c \in Callers : cpc[c] # "idle" => Registered(picked[c])
  /\ \A t \in Threads : tpc[t] # "free" => Registered(job[t])
  /\ \A i \in Ids : all_tasks[i] # NoTask => IdOf[all_tasks[i]] = i

\* What the state field says of a task while somebody holds it.
HeldInv ==
  /\ \A c \in Callers : cpc[c] = "mark" => state[picked[c]] \in {"ASSIGNED", "CANCELLED"}
  /\ \A c \in Callers : cpc[c] = "register" => state[picked[c]] = "RUNNING"
  /\ \A t \in Threads : Working(t) => state[job[t]] = "RUNNING"
  /\ \A t \in Threads : tpc[t] = "complete" => result[job[t]]

\* An executor that settled its task but has not yet removed its entry meets
\* another attempt only if that attempt is a retry.
SettledInv ==
  \A t \in Threads : tpc[t] = "unregister" =>
    state[job[t]] \in {"COMPLETED", "FAILED"} \/ retry_count[job[t]] > 0

\* _completed names settled tasks that were submitted.
CompletedInv ==
  /\ \A o \in Tasks : state[o] = "COMPLETED" => result[o]
  /\ \A i \in completed : all_tasks[i] # NoTask /\ state[all_tasks[i]] = "COMPLETED"

\* Who has which task in hand: what exclusive execution and the completed tasks rest
\* on.
HandsInv ==
  /\ SchedTypeOK
  /\ KnownInv
  /\ ExclusiveExecution
  /\ HeldInv
  /\ NoOrphan
  /\ CompletedInv
  /\ SettledInv
  /\ OnlyRetriesHide

\* What the steps on the hands leave alone.
Others == <<retry_count, counter, all_tasks, completed>>

\* At the beginning nobody has a task in hand.
LEMMA HandsInit == SchedInit => HandsInv
<1> SUFFICES ASSUME SchedInit PROVE HandsInv
  OBVIOUS
<1>1. SchedTypeOK
  BY BaseInit DEF BaseInv
<1>2. KnownInv /\ HeldInv /\ SettledInv /\ CompletedInv
  BY QueueAssumption
  DEF SchedInit, QueueInit, KnownInv, HeldInv, SettledInv, CompletedInv, Working
<1>3. ExclusiveExecution /\ NoOrphan /\ OnlyRetriesHide
  BY DEF SchedInit, QueueInit, ExclusiveExecution, NoOrphan, OnlyRetriesHide,
         Picks, Works, Working
<1> QED BY <1>1, <1>2, <1>3 DEF HandsInv

\* A client moves no task into or out of anybody's hands.
LEMMA HandsClient ==
  ASSUME UniqueIds, HandsInv, ClientStep
  PROVE  HandsInv'
<1> USE QueueAssumption, SchedulerAssumption DEF HandsInv
<1>0. SchedTypeOK'
  BY SchedStepType DEF SchedNext
<1>1. UNCHANGED <<result, running, cpc, picked, tpc, job>>
  BY DEF ClientStep, schedVars
<1>2. ASSUME NEW o \in Tasks, Push(o) PROVE HandsInv'
  <2> USE <1>1, <1>2 DEF Push, SchedTypeOK, QueueTypeOK
  <2>1. \A p \in Tasks : Registered(p) => Registered(p)'
    BY DEF UniqueIds, Registered
  <2>2. KnownInv'
    <3>1. \A e \in heap' : Registered(e.task)'
      <4>1. ASSUME NEW e \in heap PROVE Registered(e.task)'
        <5>1. e.task \in Tasks /\ Registered(e.task)
          BY <4>1 DEF KnownInv, HeapEntry
        <5> QED BY <2>1, <5>1
      <4>2. Registered(o)' /\ NewEntry(o).task = o
        BY DEF NewEntry, Registered
      <4>3. \A e \in heap' : e \in heap \/ e = NewEntry(o)
        OBVIOUS
      <4> QED BY <4>1, <4>2, <4>3
    <3>2. \A c \in Callers : cpc'[c] # "idle" => Registered(picked[c])'
      BY <2>1 DEF KnownInv
    <3>3. \A t \in Threads : tpc'[t] # "free" => Registered(job[t])'
      BY <2>1 DEF KnownInv
    <3>4. \A i \in Ids : all_tasks'[i] # NoTask => IdOf[all_tasks'[i]] = i
      BY DEF KnownInv
    <3> QED BY <3>1, <3>2, <3>3, <3>4, <1>1 DEF KnownInv, Registered
  <2>3. CompletedInv'
    BY DEF CompletedInv, KnownInv, UniqueIds
  <2>4. HeldInv' /\ SettledInv' /\ OnlyRetriesHide'
    BY DEF HeldInv, SettledInv, OnlyRetriesHide, Working
  <2>5. ExclusiveExecution' /\ NoOrphan'
    <3>1. \A u \in Threads : Working(u)' <=> Working(u)
      BY DEF Working
    <3>2. ExclusiveExecution'
      BY <3>1 DEF ExclusiveExecution, Picks, Works
    <3>3. \A p \in Tasks : Claimed(p) => Claimed(p)'
      BY <3>1 DEF Claimed, Picks, Works
    <3>4. NoOrphan'
      BY <3>3 DEF NoOrphan
    <3> QED BY <3>2, <3>4
  <2> QED BY <1>0, <2>2, <2>3, <2>4, <2>5
<1>3. ASSUME NEW i \in Ids, Cancel(i) PROVE HandsInv'
  <2> USE <1>1, <1>3 DEF Cancel, SchedTypeOK, QueueTypeOK
  <2>1. KnownInv'
    BY DEF KnownInv, Registered
  <2>2. CompletedInv'
    BY DEF CompletedInv
  <2>3. HeldInv' /\ SettledInv' /\ OnlyRetriesHide'
    BY DEF HeldInv, SettledInv, OnlyRetriesHide, Working
  <2>4. ExclusiveExecution' /\ NoOrphan'
    <3>1. \A u \in Threads : Working(u)' <=> Working(u)
      BY DEF Working
    <3>2. ExclusiveExecution'
      BY <3>1 DEF ExclusiveExecution, Picks, Works
    <3>3. \A p \in Tasks : Claimed(p) => Claimed(p)'
      BY <3>1 DEF Claimed, Picks, Works
    <3>4. NoOrphan'
      BY <3>3 DEF NoOrphan
    <3> QED BY <3>2, <3>4
  <2> QED BY <1>0, <2>1, <2>2, <2>3, <2>4
<1>4. CASE ClearCompleted
  <2> USE <1>1, <1>4 DEF ClearCompleted
  <2>1. KnownInv' /\ CompletedInv'
    BY DEF KnownInv, CompletedInv, Registered
  <2>2. HeldInv' /\ SettledInv' /\ OnlyRetriesHide'
    BY DEF HeldInv, SettledInv, OnlyRetriesHide, Working
  <2>3. ExclusiveExecution' /\ NoOrphan'
    <3>1. \A u \in Threads : Working(u)' <=> Working(u)
      BY DEF Working
    <3>2. ExclusiveExecution'
      BY <3>1 DEF ExclusiveExecution, Picks, Works
    <3>3. \A p \in Tasks : Claimed(p) => Claimed(p)'
      BY <3>1 DEF Claimed, Picks, Works
    <3>4. NoOrphan'
      BY <3>3 DEF NoOrphan
    <3> QED BY <3>2, <3>4
  <2> QED BY <1>0, <2>1, <2>2, <2>3
<1> QED BY <1>2, <1>3, <1>4 DEF ClientStep, Submit

\* A call of schedule() takes one waiting task through three steps.
LEMMA HandsCaller ==
  ASSUME UniqueIds, HandsInv, NEW c \in Callers, CallerStep(c)
  PROVE  HandsInv'
<1> USE QueueAssumption, SchedulerAssumption DEF HandsInv
<1>0. SchedTypeOK'
  BY SchedStepType DEF SchedNext
<1>1. CASE SchedulePop(c)
  <2>1. PICK o \in Tasks : Pop(o) /\ picked' = [picked EXCEPT ![c] = o]
    BY <1>1 DEF SchedulePop
  <2>2. /\ cpc[c] = "idle" /\ cpc' = [cpc EXCEPT ![c] = "mark"]
        /\ UNCHANGED <<result, running, tpc, job, Others>>
        /\ heap' \subseteq heap
        /\ state[o] = "PENDING" /\ state' = [state EXCEPT ![o] = "ASSIGNED"]
        /\ \E e \in heap : e.task = o
    BY <1>1, <2>1 DEF SchedulePop, Pop, Others, LiveEntries
  <2> USE <2>1, <2>2 DEF Others, SchedTypeOK, QueueTypeOK
  <2>3. KnownInv'
    BY DEF KnownInv, Registered
  <2>4. CompletedInv' /\ SettledInv' /\ OnlyRetriesHide'
    BY DEF CompletedInv, SettledInv, OnlyRetriesHide, Working
  <2>5. HeldInv'
    BY DEF HeldInv, Working
  <2>6. ~Claimed(o)
    BY DEF Claimed, Picks, Works, HeldInv, CallerSteps
  <2>7. ExclusiveExecution'
    BY <2>6 DEF ExclusiveExecution, Claimed, Picks, Works, Working
  <2>8. NoOrphan'
    BY DEF NoOrphan, Claimed, Picks, Works, Working
  <2> QED BY <1>0, <2>3, <2>4, <2>5, <2>7, <2>8
<1>2. CASE ScheduleNone(c)
  <2> USE <1>2 DEF ScheduleNone, PopNone, schedVars
  <2>1. KnownInv' /\ CompletedInv'
    BY DEF KnownInv, CompletedInv, Registered
  <2>2. HeldInv' /\ SettledInv' /\ OnlyRetriesHide'
    BY DEF HeldInv, SettledInv, OnlyRetriesHide, Working
  <2>3. ExclusiveExecution' /\ NoOrphan'
    <3>1. \A u \in Threads : Working(u)' <=> Working(u)
      BY DEF Working
    <3>2. ExclusiveExecution'
      BY <3>1 DEF ExclusiveExecution, Picks, Works
    <3>3. \A p \in Tasks : Claimed(p) => Claimed(p)'
      BY <3>1 DEF Claimed, Picks, Works
    <3>4. NoOrphan'
      BY <3>3 DEF NoOrphan
    <3> QED BY <3>2, <3>4
  <2> QED BY <1>0, <2>1, <2>2, <2>3
<1>3. CASE ScheduleMark(c)
  <2>0. PICK o \in Tasks : o = picked[c]
    BY <1>3 DEF ScheduleMark, SchedTypeOK
  <2>1. /\ o = picked[c] /\ Picks(c, o) /\ state[o] \in {"ASSIGNED", "CANCELLED"}
        /\ cpc[c] = "mark" /\ cpc' = [cpc EXCEPT ![c] = "register"]
        /\ state' = [state EXCEPT ![o] = "RUNNING"]
        /\ UNCHANGED <<result, running, picked, tpc, job, heap, Others>>
    BY <1>3, <2>0 DEF ScheduleMark, Others, SchedTypeOK, Picks, HeldInv
  <2> USE <2>1 DEF Others, SchedTypeOK, QueueTypeOK
  <2>2. KnownInv'
    BY DEF KnownInv, Registered
  <2>3. CompletedInv' /\ OnlyRetriesHide'
    BY DEF CompletedInv, OnlyRetriesHide, Working
  <2>4. SettledInv'
    BY DEF SettledInv
  <2>5. HeldInv'
    <3>1. \A d \in Callers : d # c /\ cpc[d] # "idle" => picked[d] # o
      BY DEF ExclusiveExecution, Picks
    <3>2. \A t \in Threads : Working(t) => job[t] # o
      BY DEF ExclusiveExecution, Works
    <3> QED BY <3>1, <3>2 DEF HeldInv, Working
  <2>6. ExclusiveExecution'
    BY DEF ExclusiveExecution, Picks, Works, Working
  <2>7. NoOrphan'
    BY DEF NoOrphan, Claimed, Picks, Works, Working
  <2> QED BY <1>0, <2>2, <2>3, <2>4, <2>5, <2>6, <2>7
<1>4. ASSUME NEW t \in Threads, ScheduleRegister(c, t) PROVE HandsInv'
  <2>0. PICK o \in Tasks : o = picked[c]
    BY <1>4 DEF ScheduleRegister, SchedTypeOK
  <2>1. /\ o = picked[c] /\ Picks(c, o) /\ state[o] = "RUNNING" /\ Registered(o)
        /\ cpc[c] = "register" /\ cpc' = [cpc EXCEPT ![c] = "idle"]
        /\ tpc[t] = "free" /\ tpc' = [tpc EXCEPT ![t] = "body"]
        /\ job' = [job EXCEPT ![t] = o]
        /\ picked' = [picked EXCEPT ![c] = NoTask]
        /\ running' = [running EXCEPT ![IdOf[o]] = t]
        /\ UNCHANGED <<result, state, heap, Others>>
    BY <1>4, <2>0 DEF ScheduleRegister, queueVars, Others, SchedTypeOK, Picks, HeldInv, KnownInv
  <2> USE <2>1 DEF Others, SchedTypeOK, QueueTypeOK
  <2>2. KnownInv'
    BY DEF KnownInv, Registered
  <2>3. CompletedInv' /\ SettledInv'
    BY DEF CompletedInv, SettledInv
  <2>4. HeldInv'
    BY DEF HeldInv, Working
  <2>5. \A u \in Threads : ~Works(u, o)
    BY DEF ExclusiveExecution
  <2>6. OnlyRetriesHide'
    BY <2>5 DEF OnlyRetriesHide, Working, Works, UniqueIds
  <2>7. ExclusiveExecution'
    BY <2>5 DEF ExclusiveExecution, Picks, Works, Working
  <2>8. NoOrphan'
    <3>1. Works(t, o)'
      BY DEF Works, Working
    <3>2. ASSUME NEW p \in Tasks, p # o, Claimed(p) PROVE Claimed(p)'
      BY <3>2 DEF Claimed, Picks, Works, Working
    <3> QED BY <3>1, <3>2 DEF NoOrphan, Claimed
  <2> QED BY <1>0, <2>2, <2>3, <2>4, <2>6, <2>7, <2>8
<1> QED BY <1>1, <1>2, <1>3, <1>4 DEF CallerStep

\* An executor settles the task it runs and no other, then lets go of it.
LEMMA HandsExecutor ==
  ASSUME UniqueIds, HandsInv, NEW t \in Threads, ExecutorStep(t)
  PROVE  HandsInv'
<1> USE QueueAssumption, SchedulerAssumption DEF HandsInv
<1>0. SchedTypeOK'
  BY SchedStepType DEF SchedNext
<1>1. PICK o \in Tasks : o = job[t] /\ Registered(o) /\ tpc[t] # "free"
  BY DEF ExecutorStep, RunBody, RaiseBody, CompleteJob, FailJob, Unregister,
         SchedTypeOK, KnownInv
<1> USE <1>1 DEF SchedTypeOK, QueueTypeOK
<1>2. CASE RunBody(t) \/ RaiseBody(t)
  <2>1. /\ tpc[t] = "body"
        /\ tpc' = [tpc EXCEPT ![t] = "complete"] \/ tpc' = [tpc EXCEPT ![t] = "fail"]
        /\ \A p \in Tasks : result[p] => result'[p]
        /\ tpc'[t] = "complete" => result'[o]
        /\ UNCHANGED <<state, heap, Others, running, cpc, picked, job>>
    BY <1>2 DEF RunBody, RaiseBody, queueVars, Others
  <2> USE <2>1 DEF Others
  <2>2. KnownInv' /\ CompletedInv' /\ SettledInv'
    BY DEF KnownInv, CompletedInv, SettledInv, Registered
  <2>3. HeldInv'
    BY DEF HeldInv, Working
  <2>4. OnlyRetriesHide'
    BY DEF OnlyRetriesHide, Working
  <2>5. \A u \in Threads : Working(u)' <=> Working(u)
    BY DEF Working
  <2>6. ExclusiveExecution'
    BY <2>5 DEF ExclusiveExecution, Picks, Works
  <2>7. NoOrphan'
    BY <2>5 DEF NoOrphan, Claimed, Picks, Works
  <2> QED BY <1>0, <2>2, <2>3, <2>4, <2>6, <2>7
<1>3. CASE CompleteJob(t) \/ FailJob(t)
  <2>1. /\ Works(t, o) /\ state[o] = "RUNNING"
        /\ tpc[t] \in {"complete", "fail"} /\ tpc' = [tpc EXCEPT ![t] = "unregister"]
        /\ all_tasks[IdOf[o]] = o
        /\ UNCHANGED <<result, running, cpc, picked, job, all_tasks>>
    BY <1>3 DEF CompleteJob, FailJob, Complete, Fail, FailRetry, FailForGood,
                Works, Working, HeldInv, Registered
  <2>2. \/ /\ state' = [state EXCEPT ![o] = "COMPLETED"]
           /\ completed' = completed \union {IdOf[o]}
           /\ tpc[t] = "complete"
           /\ UNCHANGED <<retry_count, heap>>
        \/ /\ state' = [state EXCEPT ![o] = "PENDING"]
           /\ retry_count' = [retry_count EXCEPT ![o] = @ + 1]
           /\ heap' = heap \union {NewEntry(o)}
           /\ UNCHANGED completed
        \/ /\ state' = [state EXCEPT ![o] = "FAILED"]
           /\ UNCHANGED <<retry_count, heap, completed>>
    BY <1>3, <2>1 DEF CompleteJob, FailJob, Complete, Fail, FailRetry, FailForGood
  <2>3. \A p \in Tasks : p # o => state'[p] = state[p] /\ retry_count'[p] = retry_count[p]
    BY <2>2
  <2>4. retry_count'[o] >= retry_count[o]
    BY <2>2
  <2>5. NewEntry(o).task = o
    BY DEF NewEntry
  <2>6. KnownInv'
    BY <2>1, <2>2, <2>5 DEF KnownInv, Registered
  <2>7. CompletedInv'
    BY <2>1, <2>2 DEF CompletedInv, HeldInv, KnownInv
  <2>8. \A c \in Callers : ~Picks(c, o)
    BY <2>1 DEF ExclusiveExecution
  <2>9. \A u \in Threads : u # t => ~Works(u, o)
    BY <2>1 DEF ExclusiveExecution
  <2>10. HeldInv'
    <3>1. \A c \in Callers : cpc[c] # "idle" => picked[c] \in Tasks /\ picked[c] # o
      BY <2>8 DEF Picks
    <3>2. \A u \in Threads : Working(u)' => Working(u) /\ job[u] \in Tasks /\ job[u] # o
      BY <2>1, <2>9 DEF Works, Working
    <3>3. \A u \in Threads : tpc'[u] = "complete" => tpc[u] = "complete"
      BY <2>1
    <3> QED BY <2>1, <2>3, <3>1, <3>2, <3>3 DEF HeldInv, CallerSteps
  <2>11. SettledInv'
    <3> SUFFICES ASSUME NEW u \in Threads, tpc'[u] = "unregister"
                 PROVE  state'[job[u]] \in {"COMPLETED", "FAILED"} \/ retry_count'[job[u]] > 0
      BY <2>1 DEF SettledInv
    <3>1. CASE job[u] = o
      <4>1. CASE state'[o] = "PENDING"
        BY <2>2, <3>1, <4>1
      <4> QED BY <2>2, <3>1, <4>1
    <3>2. CASE job[u] # o
      BY <2>1, <2>3, <3>2 DEF SettledInv
    <3> QED BY <3>1, <3>2
  <2>12. OnlyRetriesHide'
    <3> SUFFICES ASSUME NEW u \in Threads, Working(u)', running[IdOf[job[u]]] # u
                 PROVE  retry_count'[job[u]] > 0
      BY <2>1 DEF OnlyRetriesHide
    <3>1. Working(u) /\ job[u] \in Tasks
      BY <2>1 DEF Working
    <3>2. retry_count[job[u]] > 0
      BY <3>1 DEF OnlyRetriesHide
    <3>3. retry_count[job[u]] \in Nat /\ retry_count'[job[u]] \in Nat
      BY <1>0, <3>1
    <3>4. retry_count'[job[u]] >= retry_count[job[u]]
      BY <2>3, <2>4, <3>1, <3>3
    <3> QED BY <3>2, <3>3, <3>4
  <2>13. ExclusiveExecution'
    BY <2>1 DEF ExclusiveExecution, Picks, Works, Working
  <2>14. NoOrphan'
    <3>1. ASSUME NEW p \in Tasks, p # o, Claimed(p) PROVE Claimed(p)'
      BY <2>1, <3>1 DEF Claimed, Picks, Works, Working
    <3>2. state'[o] \notin {"ASSIGNED", "RUNNING"}
      BY <2>2
    <3> QED BY <2>3, <3>1, <3>2 DEF NoOrphan
  <2> QED BY <1>0, <2>6, <2>7, <2>10, <2>11, <2>12, <2>13, <2>14
<1>4. CASE Unregister(t)
  <2>1. /\ tpc[t] = "unregister" /\ tpc' = [tpc EXCEPT ![t] = "free"]
        /\ running' = [running EXCEPT ![IdOf[o]] = NoThread]
        /\ job' = [job EXCEPT ![t] = NoTask]
        /\ UNCHANGED <<state, heap, Others, result, cpc, picked>>
    BY <1>4 DEF Unregister, queueVars, Others
  <2> USE <2>1 DEF Others
  <2>2. KnownInv' /\ CompletedInv' /\ SettledInv'
    BY DEF KnownInv, CompletedInv, SettledInv, Registered
  <2>3. HeldInv'
    BY DEF HeldInv, Working
  <2>4. OnlyRetriesHide'
    <3> SUFFICES ASSUME NEW u \in Threads, Working(u)', running'[IdOf[job'[u]]] # u
                 PROVE  retry_count[job[u]] > 0
      BY DEF OnlyRetriesHide, Working
    <3>1. Working(u) /\ u # t /\ job'[u] = job[u] /\ job[u] \in Tasks
      BY DEF Working
    <3>2. CASE job[u] = o
      BY <3>1, <3>2 DEF SettledInv, HeldInv
    <3>3. CASE job[u] # o
      <4>1. IdOf[job[u]] # IdOf[o]
        BY <3>1, <3>3 DEF UniqueIds
      <4>2. running'[IdOf[job[u]]] = running[IdOf[job[u]]]
        BY <4>1
      <4> QED BY <3>1, <4>2 DEF OnlyRetriesHide
    <3> QED BY <3>2, <3>3
  <2>5. ExclusiveExecution' /\ NoOrphan'
    <3>1. \A u \in Threads : Working(u)' <=> Working(u)
      BY DEF Working
    <3>2. ExclusiveExecution'
      BY <3>1 DEF ExclusiveExecution, Picks, Works
    <3>3. \A p \in Tasks : Claimed(p) => Claimed(p)'
      <4>1. \A u \in Threads : Working(u) => job'[u] = job[u]
        BY DEF Working
      <4> QED BY <3>1, <4>1 DEF Claimed, Picks, Works
    <3>4. NoOrphan'
      BY <3>3 DEF NoOrphan
    <3> QED BY <3>2, <3>4
  <2> QED BY <1>0, <2>2, <2>3, <2>4, <2>5
<1> QED BY <1>2, <1>3, <1>4 DEF ExecutorStep

\* Every step keeps who has which task in hand, as long as the tasks have ids of their
\* own.
LEMMA HandsNext == UniqueIds /\ HandsInv /\ [SchedNext]_vars => HandsInv'
<1> SUFFICES ASSUME UniqueIds, HandsInv, [SchedNext]_vars PROVE HandsInv'
  OBVIOUS
<1>1. CASE SchedNext
  BY <1>1, HandsClient, HandsCaller, HandsExecutor DEF SchedNext
<1>2. CASE UNCHANGED vars
  <2> USE <1>2 DEF vars, queueVars, schedVars, HandsInv
  <2>1. SchedTypeOK'
    BY DEF SchedTypeOK, QueueTypeOK
  <2>2. KnownInv' /\ HeldInv' /\ CompletedInv' /\ SettledInv' /\ OnlyRetriesHide'
    BY DEF KnownInv, HeldInv, CompletedInv, SettledInv, OnlyRetriesHide,
           Registered, Working
  <2>3. ExclusiveExecution' /\ NoOrphan'
    <3>1. \A u \in Threads : Working(u)' <=> Working(u)
      BY DEF Working
    <3>2. ExclusiveExecution'
      BY <3>1 DEF ExclusiveExecution, Picks, Works
    <3>3. \A p \in Tasks : Claimed(p) => Claimed(p)'
      BY <3>1 DEF Claimed, Picks, Works
    <3>4. NoOrphan'
      BY <3>3 DEF NoOrphan
    <3> QED BY <3>2, <3>4
  <2> QED BY <2>1, <2>2, <2>3
<1> QED BY <1>1, <1>2

\* UniqueIds speaks of constants only.
LEMMA HandsAlways == ASSUME UniqueIds PROVE SchedSpec => []HandsInv
<1>1. HandsInv /\ [SchedNext]_vars => HandsInv'
  BY HandsNext
<1> QED BY <1>1, HandsInit, PTL DEF SchedSpec

\* With unique ids a task is never in two hands.
THEOREM SchedulerExclusive ==
  ASSUME UniqueIds PROVE SchedSpec => []ExclusiveExecution
<1>1. HandsInv => ExclusiveExecution
  BY DEF HandsInv
<1> QED BY <1>1, HandsAlways, PTL

\* With unique ids a task that left the queue is always in somebody's hands
\* until it is settled.
THEOREM SchedulerNoOrphan ==
  ASSUME UniqueIds PROVE SchedSpec => []NoOrphan
<1>1. HandsInv => NoOrphan
  BY DEF HandsInv
<1> QED BY <1>1, HandsAlways, PTL

\* With unique ids COMPLETED is earned by an attempt of that very task.
THEOREM SchedulerCompleted ==
  ASSUME UniqueIds PROVE SchedSpec => []CompletedMeansRan
<1>1. HandsInv => CompletedMeansRan
  BY DEF HandsInv, CompletedInv, CompletedMeansRan
<1> QED BY <1>1, HandsAlways, PTL

\* With unique ids only the executor of a retry can be missing from _running.
THEOREM SchedulerHides ==
  ASSUME UniqueIds PROVE SchedSpec => []OnlyRetriesHide
<1>1. HandsInv => OnlyRetriesHide
  BY DEF HandsInv
<1> QED BY <1>1, HandsAlways, PTL

\* With unique ids the table tells who is at work, up to retries.
THEOREM SchedulerTable ==
  ASSUME UniqueIds PROVE SchedSpec => []TableTruthful
<1> QED BY SchedulerBase, SchedulerHides, PTL DEF TableTruthful

\* With unique ids a settled task stays settled, the attempts never go back,
\* and only the pending RUNNING mark of a caller undoes a cancellation.
THEOREM SchedulerFinished ==
  ASSUME UniqueIds PROVE SchedSpec => FinishedStays
<1> DEFINE Stays(o) ==
      /\ retry_count'[o] >= retry_count[o]
      /\ state[o] \in {"COMPLETED", "FAILED"} => state'[o] = state[o]
      /\ state[o] = "CANCELLED" /\ state'[o] # "CANCELLED" =>
           \E c \in Callers : cpc[c] = "mark" /\ picked[c] = o
<1>1. HandsInv /\ [SchedNext]_vars => [\A o \in Tasks : Stays(o)]_vars
  <2> SUFFICES ASSUME HandsInv, SchedNext, NEW o \in Tasks PROVE Stays(o)
    OBVIOUS
  <2> USE QueueAssumption DEF SchedTypeOK, QueueTypeOK
  <2>0. SchedTypeOK /\ KnownInv /\ HeldInv
    BY DEF HandsInv
  <2>1. CASE ClientStep
    BY <2>0, <2>1 DEF ClientStep, Submit, Push, Cancel, ClearCompleted
  <2>2. ASSUME NEW c \in Callers, CallerStep(c) PROVE Stays(o)
    <3>1. CASE SchedulePop(c) \/ ScheduleNone(c)
      BY <2>0, <3>1 DEF SchedulePop, Pop, LiveEntries, ScheduleNone, PopNone
    <3>2. CASE ScheduleMark(c)
      BY <2>0, <3>2 DEF ScheduleMark, HeldInv
    <3>3. CASE \E t \in Threads : ScheduleRegister(c, t)
      BY <2>0, <3>3 DEF ScheduleRegister, queueVars
    <3> QED BY <2>2, <3>1, <3>2, <3>3 DEF CallerStep
  <2>3. ASSUME NEW t \in Threads, ExecutorStep(t) PROVE Stays(o)
    <3>1. CASE RunBody(t) \/ RaiseBody(t) \/ Unregister(t)
      BY <2>0, <3>1 DEF RunBody, RaiseBody, Unregister, queueVars
    <3>2. CASE CompleteJob(t) \/ FailJob(t)
      <4>1. /\ all_tasks[IdOf[job[t]]] = job[t] /\ job[t] \in Tasks
            /\ state[job[t]] = "RUNNING"
        BY <2>0, <3>2 DEF CompleteJob, FailJob, KnownInv, HeldInv, Working, Registered
      <4> QED BY <2>0, <3>2, <4>1
              DEF CompleteJob, FailJob, Complete, Fail, FailRetry, FailForGood
    <3> QED BY <2>3, <3>1, <3>2 DEF ExecutorStep
  <2> QED BY <2>1, <2>2, <2>3 DEF SchedNext
<1> QED BY <1>1, HandsAlways, PTL DEF SchedSpec, FinishedStays

-----------------------------------------------------------------------------
\* fail() never counts beyond max_retries.
RetriesBounded == \A o \in Tasks : retry_count[o] <= MaxRetries[o]

\* No step retries a task more often than it may be.
LEMMA RetriesStep ==
  ASSUME SchedTypeOK, RetriesBounded, SchedNext
  PROVE  RetriesBounded'
<1> USE QueueAssumption DEF SchedTypeOK, QueueTypeOK, RetriesBounded
<1>1. CASE QueueStep
  <2>1. ASSUME NEW o \in Tasks, Push(o) \/ Pop(o) PROVE RetriesBounded'
    BY <2>1 DEF Push, Pop
  <2>2. ASSUME NEW i \in Ids, Complete(i) \/ Fail(i) \/ Cancel(i) PROVE RetriesBounded'
    BY <2>2 DEF Complete, Fail, FailRetry, FailForGood, Cancel
  <2>3. CASE PopNone \/ ClearCompleted
    BY <2>3 DEF PopNone, ClearCompleted
  <2> QED BY <1>1, <2>1, <2>2, <2>3 DEF QueueStep
<1>2. CASE UNCHANGED retry_count
  BY <1>2
<1> QED BY <1>1, <1>2, SchedStepQueue DEF queueVars

\* What a task's life is read from.
LifeInv == HandsInv /\ RetriesBounded

\* It holds in every state.
LEMMA LifeAlways == ASSUME UniqueIds PROVE SchedSpec => []LifeInv
<1>1. SchedInit => LifeInv
  <2> SUFFICES ASSUME SchedInit PROVE RetriesBounded
    BY HandsInit DEF LifeInv
  <2> QED BY QueueAssumption DEF SchedInit, QueueInit, RetriesBounded
<1>2. LifeInv /\ [SchedNext]_vars => LifeInv'
  <2> SUFFICES ASSUME LifeInv, [SchedNext]_vars PROVE LifeInv'
    OBVIOUS
  <2>1. HandsInv'
    BY HandsNext DEF LifeInv
  <2>2. CASE SchedNext
    BY <2>1, <2>2, RetriesStep DEF LifeInv, HandsInv
  <2>3. CASE UNCHANGED vars
    BY <2>1, <2>3 DEF LifeInv, RetriesBounded, vars, queueVars
  <2> QED BY <2>2, <2>3
<1> QED BY <1>1, <1>2, PTL DEF SchedSpec

-----------------------------------------------------------------------------
(* Part 4, the scheduler implements the life of a task *)

\* Nothing changes for a task whose fields and holders do not change.
LEMMA SameLife ==
  ASSUME NEW o \in Tasks, Claimed(o)' <=> Claimed(o), state'[o] = state[o],
         retry_count'[o] = retry_count[o], Registered(o)' <=> Registered(o)
  PROVE  phaseOf(o)' = phaseOf(o) /\ attemptsOf(o)' = attemptsOf(o)
BY DEF phaseOf, attemptsOf

\* Registering a task makes it wait if it is new and changes nothing else.
LEMMA RegisterLife ==
  ASSUME NEW o \in Tasks, Claimed(o)' <=> Claimed(o), state'[o] = state[o], Registered(o)'
  PROVE  phaseOf(o)' = phaseOf(o) \/ (phaseOf(o) = "new" /\ phaseOf(o)' = "waiting")
BY DEF phaseOf

\* A step that leaves every task but o alone is a step of the lifecycle when
\* it is one for o.
LEMMA OneTask ==
  ASSUME NEW o \in Tasks,
         \A p \in Tasks : p # o => phaseOf(p)' = phaseOf(p) /\ attemptsOf(p)' = attemptsOf(p),
         \/ phaseOf(o)' = phaseOf(o) /\ attemptsOf(o)' = attemptsOf(o)
         \/ /\ phaseOf(o) = "new" /\ phaseOf(o)' = "waiting"
            /\ attemptsOf(o)' = attemptsOf(o)
         \/ /\ phaseOf(o) = "waiting" /\ phaseOf(o)' = "executing"
            /\ attemptsOf(o)' = attemptsOf(o) + 1
         \/ /\ phaseOf(o) = "executing" /\ phaseOf(o)' = "completed"
            /\ attemptsOf(o)' = attemptsOf(o)
         \/ /\ phaseOf(o) = "executing" /\ phaseOf(o)' = "waiting"
            /\ attemptsOf(o) <= MaxRetries[o]
            /\ attemptsOf(o)' = attemptsOf(o)
         \/ /\ phaseOf(o) = "executing" /\ phaseOf(o)' = "failed"
            /\ attemptsOf(o) = MaxRetries[o] + 1
            /\ attemptsOf(o)' = attemptsOf(o)
         \/ /\ phaseOf(o) = "waiting" /\ phaseOf(o)' = "cancelled"
            /\ attemptsOf(o)' = attemptsOf(o)
  PROVE  [Lifecycle!LifeNext]_(Lifecycle!lifeVars)
<1> DEFINE ph == [p \in Tasks |-> phaseOf(p)]
           at == [p \in Tasks |-> attemptsOf(p)]
<1>1. ph' = [ph EXCEPT ![o] = phaseOf(o)']
  OBVIOUS
<1>2. at' = [at EXCEPT ![o] = attemptsOf(o)']
  OBVIOUS
<1>3. ph[o] = phaseOf(o) /\ at[o] = attemptsOf(o)
  OBVIOUS
<1>4. phaseOf(o)' = phaseOf(o) => ph' = ph
  BY <1>1
<1>5. attemptsOf(o)' = attemptsOf(o) => at' = at
  BY <1>2
<1> HIDE DEF ph, at
<1> QED BY <1>1, <1>2, <1>3, <1>4, <1>5
    DEF Lifecycle!LifeNext, Lifecycle!lifeVars, Lifecycle!Enqueue, Lifecycle!Begin,
        Lifecycle!Succeed, Lifecycle!Retry, Lifecycle!GiveUp, Lifecycle!Withdraw, ph, at

-----------------------------------------------------------------------------
\* A step of every task's life, or none.
LifeStep == [Lifecycle!LifeNext]_(Lifecycle!lifeVars)

\* A step that changes no task's fields or holders is a stutter.
LEMMA LifeStutter ==
  ASSUME \A o \in Tasks : Claimed(o)' <=> Claimed(o),
         UNCHANGED <<state, retry_count, all_tasks>>
  PROVE  LifeStep
<1>1. \A o \in Tasks : phaseOf(o)' = phaseOf(o) /\ attemptsOf(o)' = attemptsOf(o)
  BY SameLife DEF Registered
<1> QED BY <1>1 DEF LifeStep, Lifecycle!lifeVars

\* What a client does is a step of the lives of the tasks.
LEMMA ClientLife ==
  ASSUME UniqueIds, LifeInv, ClientStep
  PROVE  LifeStep
<1> USE QueueAssumption DEF LifeInv, HandsInv, SchedTypeOK, QueueTypeOK
<1>1. \A o \in Tasks : Claimed(o)' <=> Claimed(o)
  BY DEF ClientStep, schedVars, Claimed, Picks, Works, Working
<1>2. ASSUME NEW o \in Tasks, Push(o) PROVE LifeStep
  <2>1. UNCHANGED <<state, retry_count>> /\ Registered(o)'
    BY <1>2 DEF Push, Registered
  <2>2. \A p \in Tasks : p # o => Registered(p)' <=> Registered(p)
    BY <1>2 DEF Push, Registered, UniqueIds
  <2>3. \A p \in Tasks : p # o => phaseOf(p)' = phaseOf(p) /\ attemptsOf(p)' = attemptsOf(p)
    BY <1>1, <2>1, <2>2, SameLife
  <2>4. attemptsOf(o)' = attemptsOf(o)
    BY <1>1, <2>1 DEF attemptsOf
  <2>5. phaseOf(o)' = phaseOf(o) \/ (phaseOf(o) = "new" /\ phaseOf(o)' = "waiting")
    BY <1>1, <2>1, RegisterLife
  <2> QED BY <2>3, <2>4, <2>5, OneTask DEF LifeStep
<1>3. ASSUME NEW i \in Ids, Cancel(i) PROVE LifeStep
  <2>1. PICK o \in Tasks : o = all_tasks[i] /\ Registered(o)
    BY <1>3 DEF Cancel, KnownInv, Registered
  <2>2. /\ state[o] \in {"PENDING", "ASSIGNED"}
        /\ state' = [state EXCEPT ![o] = "CANCELLED"]
        /\ UNCHANGED <<retry_count, all_tasks>>
    BY <1>3, <2>1 DEF Cancel
  <2>3. \A p \in Tasks : p # o => phaseOf(p)' = phaseOf(p) /\ attemptsOf(p)' = attemptsOf(p)
    BY <1>1, <2>2, SameLife DEF Registered
  <2>4. attemptsOf(o)' = attemptsOf(o)
    BY <1>1, <2>2 DEF attemptsOf
  <2>5. CASE Claimed(o)
    BY <1>1, <2>3, <2>4, <2>5, OneTask DEF LifeStep, phaseOf
  <2>6. CASE ~Claimed(o)
    <3>1. phaseOf(o) = "waiting"
      BY <2>1, <2>2, <2>6 DEF phaseOf, NoOrphan
    <3>2. phaseOf(o)' = "cancelled"
      BY <1>1, <2>2, <2>6 DEF phaseOf
    <3> QED BY <2>3, <2>4, <3>1, <3>2, OneTask DEF LifeStep
  <2> QED BY <2>5, <2>6
<1>4. CASE ClearCompleted
  BY <1>1, <1>4, LifeStutter DEF ClearCompleted
<1> QED BY <1>2, <1>3, <1>4 DEF ClientStep, Submit

\* What a caller of the scheduler does is one.
LEMMA CallerLife ==
  ASSUME UniqueIds, LifeInv, NEW c \in Callers, CallerStep(c)
  PROVE  LifeStep
<1> USE QueueAssumption DEF LifeInv, HandsInv, SchedTypeOK, QueueTypeOK
<1>1. CASE SchedulePop(c)
  <2>1. PICK o \in Tasks : Pop(o) /\ picked' = [picked EXCEPT ![c] = o]
    BY <1>1 DEF SchedulePop
  <2>2. /\ cpc[c] = "idle" /\ cpc' = [cpc EXCEPT ![c] = "mark"]
        /\ state[o] = "PENDING" /\ state' = [state EXCEPT ![o] = "ASSIGNED"]
        /\ Registered(o)
        /\ UNCHANGED <<tpc, job, retry_count, all_tasks>>
    BY <1>1, <2>1 DEF SchedulePop, Pop, LiveEntries, KnownInv
  <2>3. ~Claimed(o) /\ Claimed(o)'
    BY <2>1, <2>2 DEF Claimed, Picks, Works, HeldInv, CallerSteps
  <2>4. \A p \in Tasks : p # o => (Claimed(p)' <=> Claimed(p))
    BY <2>1, <2>2 DEF Claimed, Picks, Works, Working
  <2>5. \A p \in Tasks : p # o => phaseOf(p)' = phaseOf(p) /\ attemptsOf(p)' = attemptsOf(p)
    BY <2>2, <2>4, SameLife DEF Registered
  <2>6. phaseOf(o) = "waiting" /\ phaseOf(o)' = "executing"
    BY <2>2, <2>3 DEF phaseOf
  <2>7. attemptsOf(o)' = attemptsOf(o) + 1
    BY <2>2, <2>3 DEF attemptsOf
  <2> QED BY <2>5, <2>6, <2>7, OneTask DEF LifeStep
<1>2. CASE ScheduleNone(c)
  <2>1. \A o \in Tasks : Claimed(o)' <=> Claimed(o)
    BY <1>2 DEF ScheduleNone, schedVars, Claimed, Picks, Works, Working
  <2> QED BY <1>2, <2>1, LifeStutter DEF ScheduleNone, PopNone
<1>3. CASE ScheduleMark(c)
  <2>1. PICK o \in Tasks : o = picked[c]
    BY <1>3 DEF ScheduleMark
  <2>2. /\ cpc[c] = "mark" /\ cpc' = [cpc EXCEPT ![c] = "register"]
        /\ state[o] \in {"ASSIGNED", "CANCELLED"}
        /\ state' = [state EXCEPT ![o] = "RUNNING"]
        /\ UNCHANGED <<picked, tpc, job, retry_count, all_tasks>>
    BY <1>3, <2>1 DEF ScheduleMark, HeldInv
  <2>3. \A p \in Tasks : Claimed(p)' <=> Claimed(p)
    BY <2>2 DEF Claimed, Picks, Works, Working
  <2>4. \A p \in Tasks : p # o => phaseOf(p)' = phaseOf(p) /\ attemptsOf(p)' = attemptsOf(p)
    BY <2>2, <2>3, SameLife DEF Registered
  <2>5. Claimed(o)
    BY <2>1, <2>2 DEF Claimed, Picks
  <2>6. phaseOf(o)' = phaseOf(o) /\ attemptsOf(o)' = attemptsOf(o)
    BY <2>2, <2>3, <2>5 DEF phaseOf, attemptsOf
  <2> QED BY <2>4, <2>6, OneTask DEF LifeStep
<1>4. ASSUME NEW t \in Threads, ScheduleRegister(c, t) PROVE LifeStep
  <2>1. PICK o \in Tasks : o = picked[c]
    BY <1>4 DEF ScheduleRegister
  <2>2. /\ cpc[c] = "register" /\ cpc' = [cpc EXCEPT ![c] = "idle"]
        /\ picked' = [picked EXCEPT ![c] = NoTask]
        /\ tpc[t] = "free" /\ tpc' = [tpc EXCEPT ![t] = "body"]
        /\ job' = [job EXCEPT ![t] = o]
        /\ UNCHANGED <<state, retry_count, all_tasks>>
    BY <1>4, <2>1 DEF ScheduleRegister, queueVars
  <2>3. Claimed(o) /\ Works(t, o)'
    BY <2>1, <2>2 DEF Claimed, Picks, Works, Working
  <2>4. \A p \in Tasks : p # o => (Claimed(p)' <=> Claimed(p))
    BY <2>1, <2>2 DEF Claimed, Picks, Works, Working
  <2>5. \A p \in Tasks : Claimed(p)' <=> Claimed(p)
    BY <2>3, <2>4 DEF Claimed
  <2> QED BY <2>2, <2>5, LifeStutter
<1> QED BY <1>1, <1>2, <1>3, <1>4 DEF CallerStep

\* What an executing thread does is one.
LEMMA ExecutorLife ==
  ASSUME UniqueIds, LifeInv, NEW t \in Threads, ExecutorStep(t)
  PROVE  LifeStep
<1> USE QueueAssumption DEF LifeInv, HandsInv, SchedTypeOK, QueueTypeOK
<1>1. CASE RunBody(t) \/ RaiseBody(t) \/ Unregister(t)
  <2>1. /\ UNCHANGED <<state, retry_count, all_tasks, cpc, picked>>
        /\ \A u \in Threads : Working(u)' <=> Working(u)
        /\ \A u \in Threads : Working(u) => job'[u] = job[u]
    BY <1>1 DEF RunBody, RaiseBody, Unregister, queueVars, Working
  <2>2. \A o \in Tasks : Claimed(o)' <=> Claimed(o)
    BY <2>1 DEF Claimed, Picks, Works
  <2> QED BY <2>1, <2>2, LifeStutter
<1>2. CASE CompleteJob(t) \/ FailJob(t)
  <2>1. PICK o \in Tasks : o = job[t] /\ Registered(o)
    BY <1>2 DEF CompleteJob, FailJob, KnownInv
  <2>2. /\ Works(t, o) /\ state[o] = "RUNNING"
        /\ tpc' = [tpc EXCEPT ![t] = "unregister"]
        /\ UNCHANGED <<cpc, picked, job, all_tasks>>
    BY <1>2, <2>1 DEF CompleteJob, FailJob, Complete, Fail, FailRetry, FailForGood,
                      Works, Working, HeldInv
  <2>3. \/ /\ state' = [state EXCEPT ![o] = "COMPLETED"]
           /\ UNCHANGED retry_count
        \/ /\ state' = [state EXCEPT ![o] = "PENDING"]
           /\ retry_count[o] < MaxRetries[o]
           /\ retry_count' = [retry_count EXCEPT ![o] = @ + 1]
        \/ /\ state' = [state EXCEPT ![o] = "FAILED"]
           /\ retry_count[o] >= MaxRetries[o]
           /\ UNCHANGED retry_count
    BY <1>2, <2>1 DEF CompleteJob, FailJob, Complete, Fail, FailRetry, FailForGood,
                      Registered
  <2>4. Claimed(o) /\ ~Claimed(o)'
    <3>1. \A c \in Callers : ~Picks(c, o)'
      BY <2>2 DEF ExclusiveExecution, Picks
    <3>2. \A u \in Threads : ~Works(u, o)'
      BY <2>2 DEF ExclusiveExecution, Works, Working
    <3> QED BY <2>2, <3>1, <3>2 DEF Claimed
  <2>5. \A p \in Tasks : p # o => (Claimed(p)' <=> Claimed(p))
    BY <2>1, <2>2 DEF Claimed, Picks, Works, Working
  <2>6. \A p \in Tasks : p # o => phaseOf(p)' = phaseOf(p) /\ attemptsOf(p)' = attemptsOf(p)
    BY <2>2, <2>3, <2>5, SameLife DEF Registered
  <2>7. phaseOf(o) = "executing" /\ attemptsOf(o) = retry_count[o] + 1
    BY <2>4 DEF phaseOf, attemptsOf
  <2>8. retry_count[o] \in Nat /\ MaxRetries[o] \in Nat /\ retry_count[o] <= MaxRetries[o]
    BY DEF RetriesBounded
  <2>9. CASE state'[o] = "COMPLETED"
    <3>1. phaseOf(o)' = "completed" /\ attemptsOf(o)' = attemptsOf(o)
      BY <2>3, <2>4, <2>7, <2>9 DEF phaseOf, attemptsOf
    <3> QED BY <2>6, <2>7, <3>1, OneTask DEF LifeStep
  <2>10. CASE state'[o] = "PENDING"
    <3>1. phaseOf(o)' = "waiting"
      BY <2>1, <2>2, <2>4, <2>10 DEF phaseOf, Registered
    <3>2. attemptsOf(o)' = attemptsOf(o) /\ attemptsOf(o) <= MaxRetries[o]
      BY <2>3, <2>4, <2>7, <2>8, <2>10 DEF attemptsOf
    <3> QED BY <2>6, <2>7, <3>1, <3>2, OneTask DEF LifeStep
  <2>11. CASE state'[o] = "FAILED"
    <3>1. phaseOf(o)' = "failed" /\ attemptsOf(o)' = attemptsOf(o)
      BY <2>3, <2>4, <2>7, <2>11 DEF phaseOf, attemptsOf
    <3>2. attemptsOf(o) = MaxRetries[o] + 1
      BY <2>3, <2>7, <2>8, <2>11
    <3> QED BY <2>6, <2>7, <3>1, <3>2, OneTask DEF LifeStep
  <2> QED BY <2>3, <2>9, <2>10, <2>11
<1> QED BY <1>1, <1>2 DEF ExecutorStep

\* With unique ids the scheduler implements the lifecycle of a task: one
\* attempt at a time, at most MaxRetries + 1 of them, one end, and a
\* cancellation only while the task waits.
THEOREM SchedulerImplementsLifecycle ==
  ASSUME UniqueIds PROVE SchedSpec => ImplementsLifecycle
<1>1. SchedInit => Lifecycle!LifeInit
  <2> SUFFICES ASSUME SchedInit PROVE Lifecycle!LifeInit
    OBVIOUS
  <2>1. ASSUME NEW o \in Tasks PROVE phaseOf(o) = "new" /\ attemptsOf(o) = 0
    <3>1. ~Claimed(o) /\ ~Registered(o)
      BY QueueAssumption
      DEF SchedInit, QueueInit, Claimed, Picks, Works, Working, Registered
    <3>2. state[o] = "PENDING" /\ retry_count[o] = 0
      BY DEF SchedInit, QueueInit
    <3> QED BY <3>1, <3>2 DEF phaseOf, attemptsOf
  <2> QED BY <2>1 DEF Lifecycle!LifeInit
<1>2. LifeInv /\ [SchedNext]_vars => LifeStep
  <2>1. ASSUME LifeInv, SchedNext PROVE LifeStep
    BY <2>1, ClientLife, CallerLife, ExecutorLife DEF SchedNext
  <2>2. ASSUME UNCHANGED vars PROVE LifeStep
    <3>1. \A o \in Tasks : Claimed(o)' <=> Claimed(o)
      BY <2>2 DEF vars, schedVars, Claimed, Picks, Works, Working
    <3> QED BY <2>2, <3>1, LifeStutter DEF vars, queueVars
  <2> QED BY <2>1, <2>2
<1> QED BY <1>1, <1>2, LifeAlways, PTL DEF SchedSpec, LifeStep, Lifecycle!LifeSpec,
                                           ImplementsLifecycle

-----------------------------------------------------------------------------
(* Part 5, the coordinator *)

\* A step of a loop of the coordinator is a step of the caller it runs in, or leaves
\* the scheduler alone.
LEMMA LoopStepSched ==
  ASSUME NEW c \in Callers, LoopStep(c)
  PROVE  CallerStep(c) \/ UNCHANGED vars
BY DEF LoopStep, LoopCheck, LoopAdmit, LoopSchedule, CallerStep

\* So every step of the coordinator is a step of the scheduler or a stutter.
LEMMA CoordNextSched == [CoordNext]_allVars => [SchedNext]_vars
<1> SUFFICES ASSUME [CoordNext]_allVars PROVE [SchedNext]_vars
  OBVIOUS
<1>1. CASE ControlStep
  BY <1>1 DEF ControlStep, Start, Stop, StopReturn, StopTimeout, Pause, Resume, SetStatus
<1>2. ASSUME NEW c \in Callers, LoopStep(c) PROVE [SchedNext]_vars
  BY <1>2, LoopStepSched DEF SchedNext
<1>3. CASE ClientStep
  BY <1>3 DEF SchedNext
<1>4. ASSUME NEW t \in Threads, ExecutorStep(t) PROVE [SchedNext]_vars
  BY <1>4 DEF SchedNext
<1>5. CASE UNCHANGED allVars
  BY <1>5 DEF allVars
<1> QED BY <1>1, <1>2, <1>3, <1>4, <1>5 DEF CoordNext

\* Starting, stopping, pausing, resuming and any number of run loops only ever
\* drive the scheduler through the steps of its own specification.
THEOREM CoordinatorImplementsScheduler == CoordSpec => SchedSpec
<1>1. CoordInit => SchedInit
  BY DEF CoordInit
<1> QED BY <1>1, CoordNextSched, PTL DEF CoordSpec, SchedSpec

\* What is proved of the scheduler holds under the coordinator: a task is never
\* in two hands.
THEOREM CoordinatorExclusive ==
  ASSUME UniqueIds PROVE CoordSpec => []ExclusiveExecution
BY CoordinatorImplementsScheduler, SchedulerExclusive, PTL

-----------------------------------------------------------------------------
\* The types, the loops' places, and the bound on the running tasks.
LoopInv ==
  /\ SchedTypeOK
  /\ lpc \in [Callers -> LoopSteps]
  /\ RunningBound

\* What the coordinator counts is finite.
LEMMA FiniteCounts ==
  /\ IsFiniteSet(Entries) /\ running_count \in Nat
  /\ IsFiniteSet(Admitted) /\ Cardinality(Admitted) \in Nat
  /\ Cardinality(Admitted) <= Cardinality(Callers)
  /\ Cardinality(Callers) \in Nat
<1>1. Entries \in SUBSET Ids /\ Admitted \in SUBSET Callers
  BY DEF Entries, Admitted
<1> QED BY <1>1, CoordinatorAssumption, FS_Subset, FS_CardinalityType DEF running_count

\* A step that adds no entry and admits no loop keeps the bound.
LEMMA FewerCount ==
  ASSUME RunningBound, Entries' \subseteq Entries, Admitted' \subseteq Admitted
  PROVE  RunningBound'
<1>1. Cardinality(Entries') <= Cardinality(Entries) /\ Cardinality(Entries') \in Nat
  BY FiniteCounts, FS_Subset, FS_CardinalityType
<1>2. Cardinality(Admitted') <= Cardinality(Admitted) /\ Cardinality(Admitted') \in Nat
  BY FiniteCounts, FS_Subset, FS_CardinalityType
<1> QED BY <1>1, <1>2, FiniteCounts, CoordinatorAssumption DEF RunningBound, running_count

\* Every step keeps the invariant of the loops.
LEMMA LoopNextInv == LoopInv /\ [CoordNext]_allVars => LoopInv'
<1> SUFFICES ASSUME LoopInv, [CoordNext]_allVars PROVE LoopInv'
  OBVIOUS
<1> USE SchedulerAssumption DEF LoopInv
<1>1. SchedTypeOK'
  <2>1. CASE SchedNext
    BY <2>1, SchedStepType
  <2>2. CASE UNCHANGED vars
    BY <2>2 DEF vars, queueVars, schedVars, SchedTypeOK, QueueTypeOK
  <2> QED BY <2>1, <2>2, CoordNextSched
<1>2. CASE ControlStep
  <2>1. UNCHANGED vars /\ lpc' \in [Callers -> LoopSteps] /\ Admitted' \subseteq Admitted
    BY <1>2 DEF ControlStep, Start, Stop, StopReturn, StopTimeout, Pause, Resume,
                SetStatus, LoopSteps, Admitted
  <2>2. Entries' = Entries
    BY <2>1 DEF vars, schedVars, Entries
  <2> QED BY <1>1, <2>1, <2>2, FewerCount
<1>3. ASSUME NEW c \in Callers, LoopStep(c) PROVE LoopInv'
  <2>1. lpc' \in [Callers -> LoopSteps]
    BY <1>3 DEF LoopStep, LoopCheck, LoopAdmit, LoopSchedule, LoopSteps
  <2>2. CASE LoopCheck(c)
    <3>1. Entries' = Entries /\ Admitted' \subseteq Admitted
      BY <2>2 DEF LoopCheck, vars, schedVars, Entries, Admitted
    <3> QED BY <1>1, <2>1, <3>1, FewerCount
  <2>3. CASE LoopAdmit(c)
    <3>1. Entries' = Entries
      BY <2>3 DEF LoopAdmit, vars, schedVars, Entries
    <3>2. CASE running_count < MaxConcurrent
      <4>1. Cardinality(Admitted') <= Cardinality(Callers) /\ Cardinality(Admitted') \in Nat
        <5>1. Admitted' \in SUBSET Callers
          BY DEF Admitted
        <5> QED BY <5>1, CoordinatorAssumption, FS_Subset, FS_CardinalityType
      <4>2. running_count' = running_count
        BY <3>1 DEF running_count
      <4>3. RunningBound'
        BY <3>2, <4>1, <4>2, FiniteCounts, CoordinatorAssumption DEF RunningBound
      <4> QED BY <1>1, <2>1, <4>3
    <3>3. CASE ~(running_count < MaxConcurrent)
      <4>1. Admitted' \subseteq Admitted
        BY <2>3, <3>3 DEF LoopAdmit, Admitted
      <4> QED BY <1>1, <2>1, <3>1, <4>1, FewerCount
    <3> QED BY <3>2, <3>3
  <2>4. CASE LoopSchedule(c)
    <3>1. CASE SchedulePop(c) \/ ScheduleMark(c) \/ ScheduleNone(c)
      <4>1. Entries' = Entries
        BY <3>1 DEF SchedulePop, ScheduleMark, ScheduleNone, schedVars, Entries
      <4>2. Admitted' \subseteq Admitted
        BY <2>4 DEF LoopSchedule, Admitted
      <4> QED BY <1>1, <2>1, <4>1, <4>2, FewerCount
    <3>2. ASSUME NEW t \in Threads, ScheduleRegister(c, t),
                 lpc' = [lpc EXCEPT ![c] = "check"]
          PROVE  LoopInv'
      <4> DEFINE i == IdOf[picked[c]]
      <4>1. Entries' \subseteq Entries \union {i}
        BY <3>2 DEF ScheduleRegister, Entries, SchedTypeOK
      <4>2. Admitted' = Admitted \ {c} /\ c \in Admitted
        BY <2>4, <3>2 DEF LoopSchedule, Admitted
      <4>3. /\ IsFiniteSet(Entries \union {i})
            /\ Cardinality(Entries \union {i}) <= running_count + 1
        <5>1. IsFiniteSet(Entries) /\ Cardinality(Entries) \in Nat
          BY FiniteCounts DEF running_count
        <5> QED BY <5>1, FS_AddElement DEF running_count
      <4>4. Cardinality(Entries') <= Cardinality(Entries \union {i})
        BY <4>1, <4>3, FS_Subset
      <4>5. Cardinality(Admitted') = Cardinality(Admitted) - 1
        BY <4>2, FiniteCounts, FS_RemoveElement
      <4>6. Cardinality(Entries') \in Nat /\ Cardinality(Entries \union {i}) \in Nat
        BY <4>1, <4>3, FS_Subset, FS_CardinalityType
      <4>7. RunningBound'
        BY <4>3, <4>4, <4>5, <4>6, FiniteCounts, CoordinatorAssumption
        DEF RunningBound, running_count
      <4> QED BY <1>1, <2>1, <4>7
    <3> QED BY <2>4, <3>1, <3>2 DEF LoopSchedule
  <2> QED BY <1>3, <2>2, <2>3, <2>4 DEF LoopStep
<1>4. CASE ClientStep /\ UNCHANGED coordVars
  <2>1. Entries' = Entries /\ Admitted' = Admitted /\ lpc' = lpc
    BY <1>4 DEF ClientStep, schedVars, coordVars, Entries, Admitted
  <2> QED BY <1>1, <2>1, FewerCount
<1>5. ASSUME NEW t \in Threads, ExecutorStep(t), UNCHANGED coordVars PROVE LoopInv'
  <2>1. Entries' \subseteq Entries
    BY <1>5 DEF ExecutorStep, RunBody, RaiseBody, CompleteJob, FailJob, Unregister,
                Entries, SchedTypeOK
  <2>2. Admitted' = Admitted /\ lpc' = lpc
    BY <1>5 DEF coordVars, Admitted
  <2> QED BY <1>1, <2>1, <2>2, FewerCount
<1>6. CASE UNCHANGED allVars
  <2>1. Entries' = Entries /\ Admitted' = Admitted /\ lpc' = lpc
    BY <1>6 DEF allVars, vars, schedVars, coordVars, Entries, Admitted
  <2> QED BY <1>1, <2>1, FewerCount
<1> QED BY <1>2, <1>3, <1>4, <1>5, <1>6 DEF CoordNext

\* The invariant of the loops holds at the beginning.
LEMMA LoopInitInv == CoordInit => LoopInv
<1> SUFFICES ASSUME CoordInit PROVE LoopInv
  OBVIOUS
<1>1. SchedTypeOK
  BY BaseInit DEF CoordInit, BaseInv
<1>2. Entries = {} /\ Admitted = {}
  BY DEF CoordInit, SchedInit, Entries, Admitted
<1>3. RunningBound
  BY <1>2, FS_EmptySet, FiniteCounts, CoordinatorAssumption DEF RunningBound, running_count
<1> QED BY <1>1, <1>3 DEF LoopInv, CoordInit, LoopSteps

\* Only the loop that decided to schedule is inside schedule().
LEMMA CoordTypesNext ==
  ASSUME CoordTypeOK, [CoordNext]_allVars
  PROVE  CoordTypeOK'
<1> USE SchedulerAssumption DEF CoordTypeOK, Status, LoopSteps
<1>1. SchedTypeOK'
  <2>1. CASE SchedNext
    BY <2>1, SchedStepType
  <2>2. CASE UNCHANGED vars
    BY <2>2 DEF vars, queueVars, schedVars, SchedTypeOK, QueueTypeOK
  <2> QED BY <2>1, <2>2, CoordNextSched
<1>2. CASE ControlStep
  BY <1>1, <1>2 DEF ControlStep, Start, Stop, StopReturn, StopTimeout, Pause, Resume,
                    SetStatus, vars, schedVars
<1>3. ASSUME NEW c \in Callers, LoopStep(c) PROVE CoordTypeOK'
  <2>1. CASE LoopCheck(c) \/ LoopAdmit(c)
    BY <1>1, <2>1 DEF LoopCheck, LoopAdmit, vars, schedVars
  <2>2. CASE LoopSchedule(c)
    <3> USE <1>1, <2>2 DEF LoopSchedule, SchedTypeOK
    <3>1. CASE (SchedulePop(c) \/ ScheduleMark(c)) /\ UNCHANGED lpc
      BY <3>1 DEF SchedulePop, ScheduleMark
    <3>2. CASE ScheduleNone(c) /\ lpc' = [lpc EXCEPT ![c] = "check"]
      BY <3>2 DEF ScheduleNone, schedVars
    <3>3. ASSUME NEW t \in Threads, ScheduleRegister(c, t),
                 lpc' = [lpc EXCEPT ![c] = "check"]
          PROVE  CoordTypeOK'
      BY <3>3 DEF ScheduleRegister
    <3> QED BY <3>1, <3>2, <3>3
  <2> QED BY <1>3, <2>1, <2>2 DEF LoopStep
<1>4. CASE ClientStep /\ UNCHANGED coordVars
  BY <1>1, <1>4 DEF ClientStep, schedVars, coordVars
<1>5. ASSUME NEW t \in Threads, ExecutorStep(t), UNCHANGED coordVars
      PROVE  CoordTypeOK'
  BY <1>1, <1>5 DEF ExecutorStep, RunBody, RaiseBody, CompleteJob, FailJob, Unregister, coordVars
<1>6. CASE UNCHANGED allVars
  BY <1>1, <1>6 DEF allVars, vars, schedVars, coordVars
<1> QED BY <1>2, <1>3, <1>4, <1>5, <1>6 DEF CoordNext

\* A loop is inside schedule() only where its own check of the running count
\* sent it: no other thread schedules on its behalf.
THEOREM CoordinatorTypes == CoordSpec => []CoordTypeOK
<1>1. CoordInit => CoordTypeOK
  <2> SUFFICES ASSUME CoordInit PROVE CoordTypeOK
    OBVIOUS
  <2>1. SchedTypeOK
    BY BaseInit DEF CoordInit, BaseInv
  <2> QED BY <2>1 DEF CoordInit, SchedInit, CoordTypeOK, Status, LoopSteps
<1> QED BY <1>1, CoordTypesNext, PTL DEF CoordSpec

\* However many run loops restarts leave alive, the entries of _running exceed
\* max_concurrent by at most one for each further loop.
THEOREM CoordinatorRunningBound == CoordSpec => []RunningBound
<1>1. CoordSpec => []LoopInv
  BY LoopInitInv, LoopNextInv, PTL DEF CoordSpec
<1> QED BY <1>1, PTL DEF LoopInv

-----------------------------------------------------------------------------
\* No task was retried yet.
Fresh == \A o \in Tasks : retry_count[o] = 0

\* Until something is retried every executor at work has its entry in _running.
LEMMA NobodyHides ==
  ASSUME UniqueIds, Fresh, LifeInv
  PROVE  Cardinality(Workers) <= running_count /\ Cardinality(Workers) \in Nat
<1> USE DEF LifeInv, HandsInv, SchedTypeOK, QueueTypeOK
<1> DEFINE entry == [t \in Workers |-> IdOf[job[t]]]
<1>1. \A t \in Workers : t \in Threads /\ Working(t) /\ job[t] \in Tasks /\ Works(t, job[t])
  BY DEF Workers, Working, Works
<1>2. \A t \in Workers : running[IdOf[job[t]]] = t
  <2> SUFFICES ASSUME NEW t \in Workers, running[IdOf[job[t]]] # t PROVE FALSE
    OBVIOUS
  <2>1. retry_count[job[t]] > 0
    BY <1>1 DEF OnlyRetriesHide
  <2> QED BY <1>1, <2>1 DEF Fresh
<1>3. entry \in [Workers -> Entries]
  BY <1>1, <1>2, QueueAssumption, SchedulerAssumption DEF Entries
<1>4. entry \in Injection(Workers, Entries)
  <2>1. \A t, u \in Workers : entry[t] = entry[u] => t = u
    BY <1>2
  <2> QED BY <1>3, <2>1 DEF Injection, IsInjective
<1>5. IsFiniteSet(Workers) /\ Cardinality(Workers) <= Cardinality(Entries)
  BY <1>4, FiniteCounts, FS_Injection
<1> QED BY <1>5, FS_CardinalityType DEF running_count

\* With unique ids, and until something is retried, the bound holds for the
\* executors at work, not only for the table.
THEOREM CoordinatorWorkBound ==
  ASSUME UniqueIds PROVE CoordSpec => []WorkBound
<1>1. CoordSpec => []LifeInv
  BY CoordinatorImplementsScheduler, LifeAlways, PTL
<1>2. RunningBound /\ LifeInv => WorkBound
  <2> SUFFICES ASSUME RunningBound, LifeInv, Fresh
               PROVE  Cardinality(Workers) + Cardinality(Admitted)
                        <= MaxConcurrent - 1 + Cardinality(Callers)
    BY DEF WorkBound, Fresh
  <2> QED BY NobodyHides, FiniteCounts, CoordinatorAssumption DEF RunningBound
<1> QED BY <1>1, <1>2, CoordinatorRunningBound, PTL

=============================================================================
