------------------------ MODULE SchedulerLifecycle -------------------------
(***************************************************************************)
(* The scheduler implements TaskLifecycle when task ids are unique.  A     *)
(* task in somebody's hands is executing, whatever its state field says:   *)
(* a cancellation that lands between pop and the RUNNING mark is undone.   *)
(***************************************************************************)
EXTENDS Scheduler

phaseOf(o) ==
  IF Claimed(o) THEN "executing"
  ELSE CASE state[o] = "PENDING" -> IF Registered(o) THEN "waiting" ELSE "new"
         [] state[o] = "COMPLETED" -> "completed"
         [] state[o] = "FAILED" -> "failed"
         [] OTHER -> "cancelled"

\* Every attempt but the current or the last one was followed by a retry.
attemptsOf(o) ==
  retry_count[o] + IF Claimed(o) \/ state[o] \in {"COMPLETED", "FAILED"} THEN 1 ELSE 0

Lifecycle == INSTANCE TaskLifecycle WITH
  phase <- [o \in Tasks |-> phaseOf(o)],
  attempts <- [o \in Tasks |-> attemptsOf(o)]

\* With unique ids the threads of the scheduler together keep the promise of
\* TaskLifecycle to every task (queue.py and scheduler.py as a whole).
ImplementsLifecycle == Lifecycle!LifeSpec
=============================================================================
