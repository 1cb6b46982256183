--------------------------- MODULE MCCoordinator ---------------------------
(* Two tasks, one of which may be retried, and up to two run loops. *)
EXTENDS Coordinator, TLC

CONSTANTS t1, t2, i1, i2, c1, c2, x1, x2, x3

MCTasks == {t1, t2}
MCIds == {i1, i2}
MCIdOf == t1 :> i1 @@ t2 :> i2
MCPriority == t1 :> 1 @@ t2 :> 1
MCMaxRetries == t1 :> 1 @@ t2 :> 0
MCCallers == {c1, c2}
MCThreads == {x1, x2, x3}
Symmetry == Permutations(MCCallers) \union Permutations(MCThreads)
=============================================================================
