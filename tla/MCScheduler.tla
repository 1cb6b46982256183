---------------------------- MODULE MCScheduler ----------------------------
(* Two callers of schedule(), two tasks of distinct ids and
   priorities, retries. *)
EXTENDS SchedulerLifecycle, TLC

CONSTANTS t1, t2, i1, i2, c1, c2, x1, x2, x3, x4

MCTasks == {t1, t2}
MCIds == {i1, i2}
MCIdOf == t1 :> i1 @@ t2 :> i2
MCPriority == t1 :> 1 @@ t2 :> 2
MCMaxRetries == t1 :> 2 @@ t2 :> 1
MCCallers == {c1, c2}
MCThreads == {x1, x2, x3, x4}
Symmetry == Permutations(MCCallers) \union Permutations(MCThreads)
=============================================================================
