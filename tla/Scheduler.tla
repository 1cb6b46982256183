----------------------------- MODULE Scheduler -----------------------------
(***************************************************************************)
(* The scheduler of the distributed package (scheduler.py) on its queue.   *)
(*                                                                         *)
(* schedule() may run in several threads at once: the callers below are    *)
(* the run loops of a coordinator or the threads of a client.  Each call   *)
(* pops a task under the queue's lock, marks it RUNNING under no lock, and *)
(* registers a new executor thread under the scheduler's lock.  The        *)
(* executor runs _execute: the body, complete() or fail(), and the removal *)
(* of its entry from _running, which is found by task id.                  *)
(***************************************************************************)
EXTENDS TaskQueue

CONSTANTS
  Callers,      \* threads that call schedule()
  Threads,      \* executor threads, a pool large enough for the bounds
  NoThread      \* no entry in _running

ASSUME SchedulerAssumption == NoThread \notin Threads

VARIABLES
  result,       \* task.result is set: some attempt ran to its end
  running,      \* _running: id -> executor thread
  cpc,          \* where each caller is inside schedule()
  picked,       \* the task a caller has popped
  tpc,          \* where each executor is inside _execute()
  job           \* the task of an executor

schedVars == <<result, running, cpc, picked, tpc, job>>
vars == <<queueVars, schedVars>>

CallerSteps == {"idle", "mark", "register"}
ThreadSteps == {"free", "body", "complete", "fail", "unregister"}

SchedInit ==
  /\ QueueInit
  /\ result = [o \in Tasks |-> FALSE]
  /\ running = [i \in Ids |-> NoThread]
  /\ cpc = [c \in Callers |-> "idle"]
  /\ picked = [c \in Callers |-> NoTask]
  /\ tpc = [t \in Threads |-> "free"]
  /\ job = [t \in Threads |-> NoTask]

-----------------------------------------------------------------------------
(* schedule() *)

SchedulePop(c) ==
  /\ cpc[c] = "idle"
  /\ \E o \in Tasks : Pop(o) /\ picked' = [picked EXCEPT ![c] = o]
  /\ cpc' = [cpc EXCEPT ![c] = "mark"]
  /\ UNCHANGED <<result, running, tpc, job>>

ScheduleNone(c) ==
  /\ cpc[c] = "idle"
  /\ PopNone
  /\ UNCHANGED schedVars

\* task.state = RUNNING is written whatever the state has become since pop.
ScheduleMark(c) ==
  /\ cpc[c] = "mark"
  /\ state' = [state EXCEPT ![picked[c]] = "RUNNING"]
  /\ cpc' = [cpc EXCEPT ![c] = "register"]
  /\ UNCHANGED <<retry_count, heap, counter, all_tasks, completed,
                 result, running, picked, tpc, job>>

\* Mutant: the executor is started and never registered.
ScheduleUnregistered(c, t) ==
  LET o == picked[c] IN
  /\ cpc[c] = "register"
  /\ tpc[t] = "free"
  /\ tpc' = [tpc EXCEPT ![t] = "body"]
  /\ job' = [job EXCEPT ![t] = o]
  /\ cpc' = [cpc EXCEPT ![c] = "idle"]
  /\ picked' = [picked EXCEPT ![c] = NoTask]
  /\ UNCHANGED <<queueVars, result, running>>

\* thread.start() belongs to this step: between the registration and the
\* start nobody can tell the thread from one that has not run yet.
ScheduleRegister(c, t) ==
  LET o == picked[c] IN
  /\ cpc[c] = "register"
  /\ tpc[t] = "free"
  /\ running' = [running EXCEPT ![IdOf[o]] = t]
  /\ tpc' = [tpc EXCEPT ![t] = "body"]
  /\ job' = [job EXCEPT ![t] = o]
  /\ cpc' = [cpc EXCEPT ![c] = "idle"]
  /\ picked' = [picked EXCEPT ![c] = NoTask]
  /\ UNCHANGED <<queueVars, result>>

-----------------------------------------------------------------------------
(* _execute() *)

RunBody(t) ==
  /\ tpc[t] = "body"
  /\ result' = [result EXCEPT ![job[t]] = TRUE]
  /\ tpc' = [tpc EXCEPT ![t] = "complete"]
  /\ UNCHANGED <<queueVars, running, cpc, picked, job>>

\* Mutant: an exception skips fail() and goes straight to the finally block.
RaiseUncaught(t) ==
  /\ tpc[t] = "body"
  /\ tpc' = [tpc EXCEPT ![t] = "unregister"]
  /\ UNCHANGED <<queueVars, result, running, cpc, picked, job>>

\* Mutant: an exception is swallowed and the attempt counts as a success.
RaiseSwallowed(t) ==
  /\ tpc[t] = "body"
  /\ tpc' = [tpc EXCEPT ![t] = "complete"]
  /\ UNCHANGED <<queueVars, result, running, cpc, picked, job>>

\* _run_task raises when params is not a mapping; params stays in the hands
\* of whoever submitted the task, so an attempt may fail and the next succeed.
RaiseBody(t) ==
  /\ tpc[t] = "body"
  /\ tpc' = [tpc EXCEPT ![t] = "fail"]
  /\ UNCHANGED <<queueVars, result, running, cpc, picked, job>>

CompleteJob(t) ==
  /\ tpc[t] = "complete"
  /\ Complete(IdOf[job[t]])
  /\ tpc' = [tpc EXCEPT ![t] = "unregister"]
  /\ UNCHANGED <<result, running, cpc, picked, job>>

FailJob(t) ==
  /\ tpc[t] = "fail"
  /\ Fail(IdOf[job[t]])
  /\ tpc' = [tpc EXCEPT ![t] = "unregister"]
  /\ UNCHANGED <<result, running, cpc, picked, job>>

\* Mutant: no finally block, so the entry stays.
UnregisterNothing(t) ==
  /\ tpc[t] = "unregister"
  /\ tpc' = [tpc EXCEPT ![t] = "free"]
  /\ job' = [job EXCEPT ![t] = NoTask]
  /\ UNCHANGED <<queueVars, running, result, cpc, picked>>

\* The finally block removes the entry of the task id, whoever put it there.
Unregister(t) ==
  /\ tpc[t] = "unregister"
  /\ running' = [running EXCEPT ![IdOf[job[t]]] = NoThread]
  /\ tpc' = [tpc EXCEPT ![t] = "free"]
  /\ job' = [job EXCEPT ![t] = NoTask]
  /\ UNCHANGED <<queueVars, result, cpc, picked>>

-----------------------------------------------------------------------------
(* The clients of the scheduler submit and cancel; ClearCompleted is open  *)
(* to them through the queue.                                              *)

ClientStep ==
  /\ \/ \E o \in Tasks : Submit(o)
     \/ \E i \in Ids : Cancel(i)
     \/ ClearCompleted
  /\ UNCHANGED schedVars

CallerStep(c) ==
  \/ SchedulePop(c)
  \/ ScheduleNone(c)
  \/ ScheduleMark(c)
  \/ \E t \in Threads : ScheduleRegister(c, t)

ExecutorStep(t) ==
  \/ RunBody(t)
  \/ RaiseBody(t)
  \/ CompleteJob(t)
  \/ FailJob(t)
  \/ Unregister(t)

SchedNext ==
  \/ ClientStep
  \/ \E c \in Callers : CallerStep(c)
  \/ \E t \in Threads : ExecutorStep(t)

SchedSpec == SchedInit /\ [][SchedNext]_vars

-----------------------------------------------------------------------------
SchedTypeOK ==
  /\ QueueTypeOK
  /\ result \in [Tasks -> BOOLEAN]
  /\ running \in [Ids -> Threads \union {NoThread}]
  /\ cpc \in [Callers -> CallerSteps]
  /\ picked \in [Callers -> Tasks \union {NoTask}]
  /\ tpc \in [Threads -> ThreadSteps]
  /\ job \in [Threads -> Tasks \union {NoTask}]
  /\ \A c \in Callers : picked[c] = NoTask <=> cpc[c] = "idle"
  /\ \A t \in Threads : job[t] = NoTask <=> tpc[t] = "free"

\* Who is answerable for a task: a caller that popped it, or an executor that
\* has not yet settled it.
Working(t) == tpc[t] \in {"body", "complete", "fail"}
Picks(c, o) == cpc[c] # "idle" /\ picked[c] = o
Works(t, o) == Working(t) /\ job[t] = o
Claimed(o) == (\E c \in Callers : Picks(c, o)) \/ (\E t \in Threads : Works(t, o))

\* running_count = 0, which is what wait_for_all and stop wait for.
TableEmpty == \A i \in Ids : running[i] = NoThread

\* A task is never in two hands: no two callers pop it, no two executors run
\* it, and nobody pops it while an executor still runs it, across retries,
\* resubmission and cancellation (scheduler.py, schedule and _execute).
ExclusiveExecution ==
  \A o \in Tasks :
    /\ \A c, d \in Callers : Picks(c, o) /\ Picks(d, o) => c = d
    /\ \A t, u \in Threads : Works(t, o) /\ Works(u, o) => t = u
    /\ \A c \in Callers, t \in Threads : ~(Picks(c, o) /\ Works(t, o))

\* A task that left the queue is in somebody's hands until it is settled: no
\* interleaving leaves it ASSIGNED or RUNNING with nobody to settle it.
NoOrphan == \A o \in Tasks : state[o] \in {"ASSIGNED", "RUNNING"} => Claimed(o)

\* COMPLETED is earned by an attempt of that very task, although complete()
\* looks the task up by id; and _completed holds only such tasks.
CompletedMeansRan ==
  /\ \A o \in Tasks : state[o] = "COMPLETED" => result[o]
  /\ \A i \in completed : state[all_tasks[i]] = "COMPLETED"

\* An entry of _running is a thread that is still inside _execute for that id,
\* although each executor removes whatever entry it finds (the finally block).
NoLeakedEntry ==
  \A i \in Ids : running[i] # NoThread =>
    /\ tpc[running[i]] # "free"
    /\ IdOf[job[running[i]]] = i

\* An executor is missing from _running only when it is a retry: the finally
\* block of the failed attempt removed the entry of the attempt that followed.
OnlyRetriesHide ==
  \A t \in Threads :
    Working(t) /\ running[IdOf[job[t]]] # t => retry_count[job[t]] > 0

\* The table _running tells who is at work, up to retries.
TableTruthful == NoLeakedEntry /\ OnlyRetriesHide

\* Settled tasks stay settled, and the counter of attempts never goes back,
\* except that a cancellation may land between pop and the RUNNING mark.
FinishedStays ==
  [][\A o \in Tasks :
       /\ retry_count'[o] >= retry_count[o]
       /\ state[o] \in {"COMPLETED", "FAILED"} => state'[o] = state[o]
       /\ state[o] = "CANCELLED" /\ state'[o] # "CANCELLED" =>
            \E c \in Callers : cpc[c] = "mark" /\ picked[c] = o]_vars

\* wait_for_all returns when _running is empty, and is meant to block until
\* idle: then no executor should be at work (test_wait_for_all_blocks_until_idle).
WaitSeesAll == TableEmpty => \A t \in Threads : ~Working(t)
=============================================================================
