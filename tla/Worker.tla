------------------------------- MODULE Worker -------------------------------
(***************************************************************************)
(* Worker (core/distributed/worker.py): threads that execute tasks in it,  *)
(* one that starts and stops it, and the heartbeat threads of its starts.  *)
(* No lock is held: every assignment of what the threads share is a step.  *)
(***************************************************************************)
EXTENDS Integers, Sequences, FiniteSets

CONSTANTS
    Executors,      \* threads that call execute, each with a task of its own
    BadTasks,       \* those whose params are none: the task type of theirs reads them
    NoExecutor,
    MaxStarts       \* bound on the starts

ASSUME WorkerAssumption ==
    MaxStarts \in Nat /\ NoExecutor \notin Executors /\ BadTasks \subseteq Executors

VARIABLES
    wstatus,        \* _status
    current,        \* _current_task: whose task it is
    exec,           \* thread -> where it is in execute
    task_state,     \* thread -> state of its task
    wresults,       \* _results: thread and success
    starts,
    beats           \* heartbeat threads that are alive

workerVars == <<wstatus, current, exec, task_state, wresults, starts, beats>>

WorkerIdle(threads) ==
    /\ wstatus = "STOPPED" /\ current = NoExecutor
    /\ exec = [t \in threads |-> "ready"] /\ task_state = [t \in threads |-> "PENDING"]
    /\ wresults = <<>> /\ beats = 0
WorkerInit == WorkerIdle(Executors) /\ starts = 0
WorkerOff == WorkerIdle({}) /\ starts = MaxStarts

-----------------------------------------------------------------------------
(* The control thread and the heartbeats *)

\* Every start has a thread of its own.
StartWorker ==
    /\ starts < MaxStarts
    /\ wstatus' = "IDLE" /\ starts' = starts + 1 /\ beats' = beats + 1
    /\ UNCHANGED <<current, exec, task_state, wresults>>

StopWorker ==
    /\ wstatus # "STOPPED"
    /\ wstatus' = "STOPPED"
    /\ UNCHANGED <<current, exec, task_state, wresults, starts, beats>>

\* A heartbeat thread looks at the status every five seconds.
BeatEnds ==
    /\ beats > 0 /\ wstatus = "STOPPED"
    /\ beats' = beats - 1
    /\ UNCHANGED <<wstatus, current, exec, task_state, wresults, starts>>

-----------------------------------------------------------------------------
(* execute *)

Moves_(t, from, to) == exec[t] = from /\ exec' = [exec EXCEPT ![t] = to]

TakeTask(t) ==
    /\ Moves_(t, "ready", "taken")
    /\ current' = t
    /\ UNCHANGED <<wstatus, task_state, wresults, starts, beats>>

SetBusy(t) ==
    /\ Moves_(t, "taken", "running")
    /\ wstatus' = "BUSY"
    /\ task_state' = [task_state EXCEPT ![t] = "RUNNING"]
    /\ UNCHANGED <<current, wresults, starts, beats>>

FinishTask(t) ==
    /\ Moves_(t, "running", "finished")
    /\ task_state' = [task_state EXCEPT ![t] = IF t \in BadTasks THEN "FAILED" ELSE "COMPLETED"]
    /\ wresults' = Append(wresults, [thread |-> t, success |-> t \notin BadTasks])
    /\ UNCHANGED <<wstatus, current, starts, beats>>

\* finally: first the task, then the status, whatever it is by now.  A worker that
\* was stopped meanwhile is idle then, and its heartbeats go on.
\* Mutant: the task stays where it is.
DropTaskNot(t) ==
    /\ Moves_(t, "finished", "dropped")
    /\ UNCHANGED <<wstatus, current, task_state, wresults, starts, beats>>

DropTask(t) ==
    /\ Moves_(t, "finished", "dropped")
    /\ current' = NoExecutor
    /\ UNCHANGED <<wstatus, task_state, wresults, starts, beats>>

SetIdle(t) ==
    /\ Moves_(t, "dropped", "returned")
    /\ wstatus' = "IDLE"
    /\ UNCHANGED <<current, task_state, wresults, starts, beats>>

Executing(t) == exec[t] \in {"taken", "running", "finished", "dropped"}
WorkerNext ==
    \/ StartWorker \/ StopWorker \/ BeatEnds
    \/ \E t \in DOMAIN exec :
        TakeTask(t) \/ SetBusy(t) \/ FinishTask(t) \/ DropTask(t) \/ SetIdle(t)

WorkerSpec == WorkerInit /\ [][WorkerNext]_workerVars

-----------------------------------------------------------------------------
(* Properties *)

\* Types.
WorkerTypeOK ==
    /\ wstatus \in {"IDLE", "BUSY", "STOPPED"} /\ current \in DOMAIN exec \union {NoExecutor}
    /\ starts \in 0..MaxStarts /\ beats \in 0..starts

\* Of every task that was finished there is one result, which says what became of
\* it; the first that finished is the first in the list.
OneResult ==
    /\ \A i, j \in DOMAIN wresults : wresults[i].thread = wresults[j].thread => i = j
    /\ \A t \in DOMAIN exec :
        LET over == exec[t] \in {"finished", "dropped", "returned"}
        IN  /\ over <=> \E i \in DOMAIN wresults : wresults[i].thread = t
            /\ over <=> task_state[t] \in {"COMPLETED", "FAILED"}
            /\ \A i \in DOMAIN wresults : wresults[i].thread = t =>
                (wresults[i].success <=> task_state[t] = "COMPLETED")

\* When nothing executes the worker has no task and is not busy, whatever was
\* executed side by side.
QuietWhenDone ==
    (\A t \in DOMAIN exec : ~Executing(t)) => current = NoExecutor /\ wstatus # "BUSY"

\* A worker that was only started and stopped has a heartbeat until it is stopped,
\* also when it is started again before the heartbeat of its last start has looked.
HeartbeatKept ==
    (wstatus # "STOPPED" /\ \A t \in DOMAIN exec : exec[t] = "ready") => beats > 0

\* Results, task and heartbeats are kept however executions overlap.  It does not
\* say that a stopped worker stays stopped: one that executes is idle afterwards.
WorkerRight == OneResult /\ QuietWhenDone /\ HeartbeatKept
=============================================================================
