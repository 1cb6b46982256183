---------------------------- MODULE Coordinator ----------------------------
(***************************************************************************)
(* The coordinator of the distributed package (coordinator.py): a control  *)
(* thread that starts, stops, pauses and resumes, and the run loops it     *)
(* starts.  A run loop reads the status, reads the running count and calls *)
(* schedule(), with no lock held from one to the next.  The loops are the  *)
(* callers of Scheduler.                                                   *)
(*                                                                         *)
(* One client thread controls the coordinator.                             *)
(***************************************************************************)
EXTENDS Scheduler

CONSTANT MaxConcurrent    \* scheduler._max_concurrent

ASSUME CoordinatorAssumption ==
  /\ MaxConcurrent \in Nat \ {0}
  /\ IsFiniteSet(Callers)
  /\ IsFiniteSet(Ids)

VARIABLES
  status,     \* _status
  lpc,        \* where each run loop is; "none" before its start and after its end
  ctl         \* the control thread; "stopped" once stop() saw an empty table

coordVars == <<status, lpc, ctl>>
allVars == <<vars, coordVars>>

Status == {"STOPPED", "RUNNING", "PAUSED"}
LoopSteps == {"none", "check", "admit", "schedule"}

CoordInit ==
  /\ SchedInit
  /\ status = "STOPPED"
  /\ lpc = [c \in Callers |-> "none"]
  /\ ctl = "ready"

Entries == {i \in Ids : running[i] # NoThread}
running_count == Cardinality(Entries)

-----------------------------------------------------------------------------
(* The control thread *)

\* start() returns at once when the status says RUNNING.
Start ==
  /\ ctl # "stopping"
  /\ status # "RUNNING"
  /\ status' = "RUNNING"
  /\ \E c \in Callers :
       /\ lpc[c] = "none"
       /\ lpc' = [lpc EXCEPT ![c] = "check"]
  /\ ctl' = "ready"
  /\ UNCHANGED vars

\* stop() ends in wait_for_all(timeout=10.0).
Stop ==
  /\ ctl # "stopping"
  /\ status' = "STOPPED"
  /\ ctl' = "stopping"
  /\ UNCHANGED <<vars, lpc>>

StopReturn ==
  /\ ctl = "stopping"
  /\ TableEmpty
  /\ ctl' = "stopped"
  /\ UNCHANGED <<vars, status, lpc>>

StopTimeout ==
  /\ ctl = "stopping"
  /\ ctl' = "ready"
  /\ UNCHANGED <<vars, status, lpc>>

SetStatus(s) ==
  /\ ctl # "stopping"
  /\ status' = s
  /\ ctl' = "ready"
  /\ UNCHANGED <<vars, lpc>>

Pause == SetStatus("PAUSED")

\* resume() starts no thread.
Resume == SetStatus("RUNNING")

ControlStep == Start \/ Stop \/ StopReturn \/ StopTimeout \/ Pause \/ Resume

-----------------------------------------------------------------------------
(* _run_loop() *)

\* Mutant: only STOPPED ends a loop.
LoopCheckStopped(c) ==
  /\ lpc[c] = "check"
  /\ lpc' = [lpc EXCEPT ![c] = IF status # "STOPPED" THEN "admit" ELSE "none"]
  /\ UNCHANGED <<vars, status, ctl>>

LoopCheck(c) ==
  /\ lpc[c] = "check"
  /\ lpc' = [lpc EXCEPT ![c] = IF status = "RUNNING" THEN "admit" ELSE "none"]
  /\ UNCHANGED <<vars, status, ctl>>

\* Mutant: the running count is not looked at.
LoopAdmitAlways(c) ==
  /\ lpc[c] = "admit"
  /\ lpc' = [lpc EXCEPT ![c] = "schedule"]
  /\ UNCHANGED <<vars, status, ctl>>

LoopAdmit(c) ==
  /\ lpc[c] = "admit"
  /\ lpc' = [lpc EXCEPT ![c] =
               IF running_count < MaxConcurrent THEN "schedule" ELSE "check"]
  /\ UNCHANGED <<vars, status, ctl>>

\* The call of schedule(); its last step takes the loop back to the check.
LoopSchedule(c) ==
  /\ lpc[c] = "schedule"
  /\ \/ /\ SchedulePop(c) \/ ScheduleMark(c)
        /\ UNCHANGED lpc
     \/ /\ ScheduleNone(c) \/ \E t \in Threads : ScheduleRegister(c, t)
        /\ lpc' = [lpc EXCEPT ![c] = "check"]
  /\ UNCHANGED <<status, ctl>>

LoopStep(c) == LoopCheck(c) \/ LoopAdmit(c) \/ LoopSchedule(c)

CoordNext ==
  \/ ControlStep
  \/ \E c \in Callers : LoopStep(c)
  \/ ClientStep /\ UNCHANGED coordVars
  \/ \E t \in Threads : ExecutorStep(t) /\ UNCHANGED coordVars

CoordSpec == CoordInit /\ [][CoordNext]_allVars

\* Threads are scheduled by the operating system, sleeps end and locks are
\* held for a bounded time.  Nothing obliges the client to do anything.
CoordFair ==
  /\ \A c \in Callers : WF_allVars(LoopStep(c))
  /\ \A t \in Threads : WF_allVars(ExecutorStep(t) /\ UNCHANGED coordVars)

FairCoordSpec == CoordSpec /\ CoordFair

-----------------------------------------------------------------------------
CoordTypeOK ==
  /\ SchedTypeOK
  /\ status \in Status
  /\ lpc \in [Callers -> LoopSteps]
  /\ ctl \in {"ready", "stopping", "stopped"}
  /\ \A c \in Callers : cpc[c] # "idle" => lpc[c] = "schedule"

Alive(c) == lpc[c] # "none"
Workers == {t \in Threads : Working(t)}
Admitted == {c \in Callers : lpc[c] = "schedule"}

\* The check of running_count and the registration are apart: each loop that
\* ever ran beside another may overrun max_concurrent by one entry, and no
\* interleaving of loops, restarts and retries does worse.
RunningBound ==
  running_count + Cardinality(Admitted) <= MaxConcurrent - 1 + Cardinality(Callers)

\* Until something is retried the table hides nobody, and the same bound holds
\* for the executors at work.
WorkBound ==
  (\A o \in Tasks : retry_count[o] = 0) =>
    Cardinality(Workers) + Cardinality(Admitted)
      <= MaxConcurrent - 1 + Cardinality(Callers)

Settled(o) == state[o] \in {"COMPLETED", "FAILED", "CANCELLED"}

\* While the status stays RUNNING and a loop is alive, every submitted task is
\* settled: no task starves behind retries, cancellations or a full table.
ServedWhileLooping ==
  <>[](status = "RUNNING" /\ \E c \in Callers : Alive(c)) =>
    \A o \in Tasks : Registered(o) ~> Settled(o)

\* A coordinator that stays stopped or paused comes to rest: the loops end and
\* what they launched, even after stop() returned, is settled or requeued.
StopsForGood ==
  <>[](status # "RUNNING") =>
    <>[](\A c \in Callers : ~Alive(c)) /\ <>[](\A t \in Threads : tpc[t] = "free")

\* RUNNING means that tasks are served: start() takes it as "already started"
\* and test_pause_resume as the outcome of resume().
RunningServes ==
  <>[](status = "RUNNING") => \A o \in Tasks : Registered(o) ~> Settled(o)
=============================================================================
