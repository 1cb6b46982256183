---------------------------- MODULE Performance ----------------------------
(***************************************************************************)
(* core/performance: threads that ask a MemoryPressureGuard before they    *)
(* allocate (memory.py), runs of one ParallelAnalyzer (parallel.py), and   *)
(* a reader that indexes what is there bit by bit with an                  *)
(* IncrementalIndexer into a StreamingIndexer (incremental.py,             *)
(* streaming.py).                                                          *)
(***************************************************************************)
EXTENDS Integers, Sequences, FiniteSets, SequencesExt

CONSTANTS
    Amounts,        \* thread -> what it allocates
    MaxMemory,      \* max_memory_mb
    Analyses,       \* run -> its analyses, those of BadAnalyses raise
    BadAnalyses,
    Totals,         \* what there is to index, one call after the other
    Batch, Buffer   \* batch sizes of the two indexers

\* Every analysis of every run has a name of its own.
ASSUME PerformanceAssumption ==
    /\ MaxMemory \in Nat /\ Batch \in Nat \ {0} /\ Buffer \in Nat \ {0} /\ Totals \in Seq(Nat)
    /\ IsFiniteSet(DOMAIN Amounts) /\ \A t \in DOMAIN Amounts : Amounts[t] \in Nat
    /\ "none" \notin DOMAIN Analyses
    /\ \A r \in DOMAIN Analyses : "not begun" \notin Analyses[r]
    /\ \A r, q \in DOMAIN Analyses : r # q => Analyses[r] \intersect Analyses[q] = {}

VARIABLES
    usage, pressure_events,     \* MemoryPressureGuard
    alloc,                      \* thread -> "ready", "granted", "held", "refused" or "released"
    raced,                      \* a thread was granted between another's check and its record
    result_list,                \* ParallelAnalyzer._results: the run that has made it
    lists,                      \* run -> the list it has made
    running_,                   \* run -> analyses that have not ended, or <<>> before it begins
    given,                      \* run -> what it returned
    last_position, processed, buffered, calls_left

guardVars == <<usage, pressure_events, alloc, raced>>
parallelVars == <<result_list, lists, running_, given>>
indexerVars == <<last_position, processed, buffered, calls_left>>
performanceVars == <<guardVars, parallelVars, indexerVars>>

Runs == DOMAIN running_
NotBegun == {"not begun"}

-----------------------------------------------------------------------------
(* MemoryPressureGuard: check and record_allocation lock one after the other *)

GuardIdle(threads) ==
    usage = 0 /\ pressure_events = 0 /\ alloc = [t \in threads |-> "ready"] /\ raced = FALSE

Check(t) ==
    /\ alloc[t] = "ready"
    /\ LET fits == usage + Amounts[t] <= MaxMemory
       IN  /\ alloc' = [alloc EXCEPT ![t] = IF fits THEN "granted" ELSE "refused"]
           /\ pressure_events' = pressure_events + (IF fits THEN 0 ELSE 1)
           /\ raced' = (raced \/ (fits /\ \E u \in DOMAIN alloc : alloc[u] = "granted"))
    /\ UNCHANGED <<usage, parallelVars, indexerVars>>

RecordAllocation(t) ==
    /\ alloc[t] = "granted"
    /\ alloc' = [alloc EXCEPT ![t] = "held"]
    /\ usage' = usage + Amounts[t]
    /\ UNCHANGED <<pressure_events, raced, parallelVars, indexerVars>>

RecordRelease(t) ==
    /\ alloc[t] = "held"
    /\ alloc' = [alloc EXCEPT ![t] = "released"]
    /\ usage' = Max({0, usage - Amounts[t]})
    /\ UNCHANGED <<pressure_events, raced, parallelVars, indexerVars>>

-----------------------------------------------------------------------------
(* ParallelAnalyzer.run, called by several threads *)

ParallelIdle(runs) ==
    /\ result_list = "none" /\ lists = [r \in runs \union {"none"} |-> <<>>]
    /\ running_ = [r \in runs |-> NotBegun] /\ given = [r \in runs |-> <<>>]

BeginRun(r) ==
    /\ running_[r] = NotBegun
    /\ running_' = [running_ EXCEPT ![r] = Analyses[r]]
    /\ result_list' = r
    /\ UNCHANGED <<lists, given, guardVars, indexerVars>>

\* Results go to the list that was made last, whoever made it.
EndAnalysis(r, a) ==
    /\ a \in running_[r] \ NotBegun
    /\ running_' = [running_ EXCEPT ![r] = @ \ {a}]
    /\ lists' = IF a \in BadAnalyses THEN lists
                ELSE [lists EXCEPT ![result_list] = Append(@, a)]
    /\ UNCHANGED <<result_list, given, guardVars, indexerVars>>

\* A run returns the list that was made last, and not a copy.
EndRun(r) ==
    /\ running_[r] = {} /\ given[r] = <<>>
    /\ given' = [given EXCEPT ![r] = <<result_list>>]
    /\ UNCHANGED <<result_list, lists, running_, guardVars, indexerVars>>

-----------------------------------------------------------------------------
(* IncrementalIndexer and StreamingIndexer *)

IndexerIdle(totals) ==
    last_position = 0 /\ processed = 0 /\ buffered = 0 /\ calls_left = totals

\* add flushes a full batch.
AddItems(n) == LET full == ((buffered + n) \div Buffer) * Buffer IN [flushed |-> full, kept |-> buffered + n - full]

\* One batch of what is there by now, each added and then all marked.
IndexBatch ==
    /\ calls_left # <<>>
    /\ LET end   == Min({last_position + Batch, Head(calls_left)})
           count == Max({0, end - last_position})
       IN  /\ last_position' = last_position + count
           /\ processed' = processed + AddItems(count).flushed /\ buffered' = AddItems(count).kept
    /\ calls_left' = Tail(calls_left)
    /\ UNCHANGED <<guardVars, parallelVars>>

Flush ==
    /\ calls_left = <<>> /\ buffered > 0
    /\ processed' = processed + buffered /\ buffered' = 0
    /\ UNCHANGED <<last_position, calls_left, guardVars, parallelVars>>

-----------------------------------------------------------------------------
PerformanceInit == GuardIdle(DOMAIN Amounts) /\ ParallelIdle(DOMAIN Analyses) /\ IndexerIdle(Totals)
PerformanceOff == GuardIdle({}) /\ ParallelIdle({}) /\ IndexerIdle(<<>>)
PerformanceNext ==
    \/ \E t \in DOMAIN alloc : Check(t) \/ RecordAllocation(t) \/ RecordRelease(t)
    \/ \E r \in Runs : BeginRun(r) \/ EndRun(r) \/ \E a \in Analyses[r] : EndAnalysis(r, a)
    \/ IndexBatch \/ Flush

PerformanceSpec == PerformanceInit /\ [][PerformanceNext]_performanceVars

-----------------------------------------------------------------------------
(* Properties *)

\* Types.
PerformanceTypeOK ==
    /\ usage \in Nat /\ pressure_events \in 0..Cardinality(DOMAIN Amounts)
    /\ buffered \in 0..(Buffer - 1) /\ processed \in Nat /\ last_position \in Nat
    /\ \A r \in Runs : running_[r] = NotBegun \/ running_[r] \subseteq Analyses[r]

\* The memory in use is what the threads hold.  It stays below the limit unless a
\* thread was granted its memory while another had been granted its own and not
\* yet recorded it.
Holders == {t \in DOMAIN alloc : alloc[t] = "held"}
LimitHolds ==
    /\ usage = FoldSet(LAMBDA t, n : n + Amounts[t], 0, Holders)
    /\ ~raced => usage <= MaxMemory

\* Every analysis that succeeded is in one list, once.  A run that no other has
\* begun in returns its own; of two at once one may return both their results,
\* and the other the same list or only what it had before.
Succeeded(r) == IF running_[r] = NotBegun THEN {} ELSE Analyses[r] \ (running_[r] \union BadAnalyses)
ResultsKept ==
    /\ \A r, q \in DOMAIN lists : \A i \in DOMAIN lists[r], j \in DOMAIN lists[q] :
        lists[r][i] = lists[q][j] => r = q /\ i = j
    /\ UNION {ToSet(lists[r]) : r \in DOMAIN lists} = UNION {Succeeded(r) : r \in Runs}
    /\ \A r \in Runs : (given[r] # <<>> /\ \A q \in Runs \ {r} : running_[q] = NotBegun) =>
        given[r] = <<r>> /\ ToSet(lists[r]) = Analyses[r] \ BadAnalyses

\* What was marked is what was added, no item twice and none left out, whatever
\* there was at each call, and never more than there was.
IndexedOnce ==
    /\ processed + buffered = last_position
    /\ last_position <= Max({0} \union {Totals[i] : i \in 1..(Len(Totals) - Len(calls_left))})

\* The helpers keep count, also of threads and runs at once.
PerformanceRight == LimitHolds /\ ResultsKept /\ IndexedOnce
=============================================================================
