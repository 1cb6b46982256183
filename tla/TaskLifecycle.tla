--------------------------- MODULE TaskLifecycle ---------------------------
(***************************************************************************)
(* What the distributed package promises of one submitted task: it waits,  *)
(* is attempted by one executor at a time, at most MaxRetries + 1 times,   *)
(* and ends once.  A cancellation takes effect only while the task waits.  *)
(* Nothing is said of queues, locks or threads.                            *)
(***************************************************************************)
EXTENDS Integers

CONSTANTS Tasks, MaxRetries

VARIABLES
  phase,      \* where each task is in its life
  attempts    \* attempts begun so far

lifeVars == <<phase, attempts>>

Phases == {"new", "waiting", "executing", "completed", "failed", "cancelled"}

LifeInit ==
  /\ phase = [o \in Tasks |-> "new"]
  /\ attempts = [o \in Tasks |-> 0]

Enqueue(o) ==
  /\ phase[o] = "new"
  /\ phase' = [phase EXCEPT ![o] = "waiting"]
  /\ UNCHANGED attempts

Begin(o) ==
  /\ phase[o] = "waiting"
  /\ phase' = [phase EXCEPT ![o] = "executing"]
  /\ attempts' = [attempts EXCEPT ![o] = @ + 1]

Succeed(o) ==
  /\ phase[o] = "executing"
  /\ phase' = [phase EXCEPT ![o] = "completed"]
  /\ UNCHANGED attempts

Retry(o) ==
  /\ phase[o] = "executing"
  /\ attempts[o] <= MaxRetries[o]
  /\ phase' = [phase EXCEPT ![o] = "waiting"]
  /\ UNCHANGED attempts

GiveUp(o) ==
  /\ phase[o] = "executing"
  /\ attempts[o] = MaxRetries[o] + 1
  /\ phase' = [phase EXCEPT ![o] = "failed"]
  /\ UNCHANGED attempts

Withdraw(o) ==
  /\ phase[o] = "waiting"
  /\ phase' = [phase EXCEPT ![o] = "cancelled"]
  /\ UNCHANGED attempts

LifeNext ==
  \E o \in Tasks :
    Enqueue(o) \/ Begin(o) \/ Succeed(o) \/ Retry(o) \/ GiveUp(o) \/ Withdraw(o)

LifeSpec == LifeInit /\ [][LifeNext]_lifeVars
=============================================================================
