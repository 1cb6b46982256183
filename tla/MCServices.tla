----------------------------- MODULE MCServices -----------------------------
(***************************************************************************)
(* The components beside the scheduler and the filesystems, one at a time: *)
(* `part` is the one that runs, the others are off and stay as they are.   *)
(***************************************************************************)
EXTENDS Recovery, Index, Caches, Timeline, Correlation, Findings, Cases,
    Plugins, Worker, Acquisition, Performance, MCQuery, MCScanning, TLC

VARIABLES part
Parts == {"recovery", "index", "caches", "timeline", "correlation", "graph", "findings", "cases",
          "plugins", "worker", "acquisition", "performance", "query", "scanning"}

-----------------------------------------------------------------------------
(* Recovery, Index and Caches.                                                 *)

\* Two scans that carve up to two files each, in one directory or in two, one
\* after the other or side by side.
Find(e, d) == [ext |-> e, data |-> d]
Lists == {<<>>, <<Find("jpg", "x")>>, <<Find("jpg", "x"), Find("jpg", "y")>>,
          <<Find("jpg", "x"), Find("jpg", "x")>>, <<Find("png", "x"), Find("jpg", "y")>>}
MCWorlds ==
    {[finds |-> f, dir |-> d, overlap |-> o, faults |-> k] :
        f \in [1..2 -> Lists], d \in {<<1, 1>>, <<1, 2>>}, o \in BOOLEAN, k \in BOOLEAN}
NoWorld == [finds |-> <<>>, dir |-> <<>>, overlap |-> FALSE, faults |-> FALSE]

\* Batches that are full, that are left over, and that fail at their end.
Bulk(k, n, b, x) == [kind |-> k, rows |-> n, batch |-> b, bad |-> x]
MCRequests ==
    {Bulk("events", 3, 2, 0), Bulk("events", 3, 2, 3), Bulk("timeline", 2, 1, 2),
     [kind |-> "artifact"], [kind |-> "hash", sha |-> "h"]}

MCTtls == {0, 1, 3}
MCNoTtl == -1

Twins == Permutations(Conns)

RecoveryOff ==
    /\ world = NoWorld /\ stage = <<>> /\ at = <<>> /\ counter = <<>> /\ hashes = <<>>
    /\ hashdb = Missing /\ saved = NoHashes /\ added = <<>>
CachesOff ==
    /\ policy = "none" /\ max_size = 0 /\ cached = <<>> /\ cached_at = <<>> /\ ttl = <<>>
    /\ clock = 0 /\ used = <<>> /\ evicted = 0

-----------------------------------------------------------------------------
(* Evidence: events of two files with equal, different and no times.           *)

MCNoTime == -1

\* Timeline: one record of the MFT, up to two events of the journal, one more.
TimelineEvent(t, y, r, n) ==
    [ts |-> t, type |-> y, ref |-> r, name |-> n, prev |-> "", parent |-> 5, source |-> "USN", confidence |-> 80]
MftFiles ==
    {<<[number |-> 1, name |-> "a", dir |-> FALSE, parent |-> 5, created |-> c, modified |-> m, deleted |-> d]>> :
        c \in {-1, 2}, m \in {-1, 2, 6}, d \in BOOLEAN}
JournalEvents ==
    {TimelineEvent(2, "RENAMED", 1, "a"), TimelineEvent(4, "MODIFIED", 2, "b"), TimelineEvent(4, "DELETED", 1, "a"),
     [TimelineEvent(4, "MODIFIED", 2, "b") EXCEPT !.prev = "c", !.confidence = 95]}
MCCollections ==
    {<<CollectMft(f), u, v>> : f \in MftFiles, u \in UpTo(2, JournalEvents), v \in UpTo(1, JournalEvents)}
NoBound == [at |-> 0, zone |-> ""]
AnyEvent == [types |-> {}, sources |-> {}, ref |-> -1, since |-> NoBound, until |-> NoBound,
             confidence |-> 0, deleted |-> FALSE, limit |-> 0]
MCQuestions ==
    {AnyEvent, [AnyEvent EXCEPT !.limit = 1],
     [AnyEvent EXCEPT !.since = [at |-> 3, zone |-> "aware"], !.until = [at |-> 4, zone |-> "aware"]],
     [AnyEvent EXCEPT !.until = [at |-> 3, zone |-> "naive"], !.limit = 2],
     [AnyEvent EXCEPT !.since = [at |-> 3, zone |-> "bad"], !.types = {"DELETED"}],
     [AnyEvent EXCEPT !.ref = 1, !.confidence = 90, !.deleted = TRUE]}

\* Correlation: up to four events correlated once, twice, in part, and matched.
CorrelationEvent(t, y, n, p) ==
    [ts |-> t, type |-> y, ref |-> 1, name |-> n, prev |-> "", parent |-> p, source |-> "USN", id |-> 0]
CorrelationEvents ==
    {CorrelationEvent(2, "CREATED", "a", 5), CorrelationEvent(4, "DELETED", "a", 5),
     CorrelationEvent(6, "CREATED", "a", 7), CorrelationEvent(8, "MODIFIED", "b", 0),
     [CorrelationEvent(4, "CREATED", "c", 0) EXCEPT !.ref = 2],
     [CorrelationEvent(6, "MODIFIED", "b", 5) EXCEPT !.ref = 2],
     CorrelationEvent(8, "RENAMED", "b", 5), CorrelationEvent(-1, "DELETED", "a", 5),
     CorrelationEvent(12, "DELETED", "b", 5)}
WithIds(s) == [i \in DOMAIN s |-> [s[i] EXCEPT !.id = i]]
Correlates(ids) == [kind |-> "correlate", ids |-> ids, usn |-> <<>>]
Matches(ids, u) == [kind |-> "match", ids |-> ids, usn |-> u]
UpToId(n) == [i \in 1..n |-> i]
MCEvidence ==
    UNION {{[events |-> WithIds(s), calls |-> c] :
                s \in [1..n -> CorrelationEvents],
                c \in {<<Correlates(UpToId(n)), Correlates(UpToId(n))>>,
                       <<Correlates(UpToId(n - 1)), Matches(<<1>>, <<n>>), Correlates(<<n>>)>>}} : n \in 2..3}
    \cup {[events |-> WithIds(s), calls |-> <<Correlates(UpToId(4))>>] : s \in [1..4 -> CorrelationEvents]}

\* The graph: two lists of up to two events, one of four, two that share three.
GraphEvent(t, y, n, r, s) == [ts |-> t, type |-> y, ref |-> r, name |-> n, source |-> s]
GraphEvents ==
    {GraphEvent(1, "RENAMED", "b", 1, "USN"), GraphEvent(2, "RENAMED", "a", 1, "USN"),
     GraphEvent(2, "CREATED", "a", 1, "MFT"), GraphEvent(3, "DELETED", "a", 1, "USN"),
     GraphEvent(5, "CREATED", "a", 1, "USN"), GraphEvent(5, "RENAMED", "b", 2, "USN"),
     GraphEvent(-1, "DELETED", "b", 2, "MFT")}
Analyzes(s) == [op |-> "analyze", events |-> s]
Recreations ==
    {<<GraphEvent(2, "CREATED", "a", 1, "MFT"), GraphEvent(3, "DELETED", "a", 1, "USN"),
       GraphEvent(5, "CREATED", "a", 1, "USN"), x, y>> :
        x, y \in {GraphEvent(7, "DELETED", "a", 1, "USN"), GraphEvent(9, "CREATED", "a", 1, "USN"),
                  GraphEvent(8, "RENAMED", "b", 1, "USN"), GraphEvent(5, "RENAMED", "c", 2, "USN")}}
MCEventRuns ==
    {<<Analyzes(x), Analyzes(y)>> : x, y \in UpTo(2, GraphEvents) \ {<<>>}}
    \cup {<<Analyzes(x)>> : x \in [1..4 -> GraphEvents]}
    \cup {<<Analyzes(x), [op |-> "clear", events |-> <<>>], Analyzes(y)>> :
            x \in UpTo(2, GraphEvents), y \in [1..1 -> GraphEvents]}
    \cup {<<Analyzes(x), Analyzes(y)>> : x, y \in Recreations}

\* Findings: every analyzer over short lists and over long ones, that are in
\* order, in the other order, and mixed.
FindingEvent(t, y, n, r) == [ts |-> t, type |-> y, ref |-> r, name |-> n, source |-> "USN", parent |-> 5]
FindingEvents ==
    {FindingEvent(1, "RENAMED", "b", 1), FindingEvent(3, "RENAMED", "a", 1), FindingEvent(2, "RENAMED", "a", 2),
     FindingEvent(2, "CREATED", "a", 1), FindingEvent(3, "DELETED", "a", 1), FindingEvent(-1, "DELETED", "b", 2),
     [FindingEvent(4, "DELETED", "c", 0) EXCEPT !.parent = 0]}
Registers(a) == [op |-> "register", analyzer |-> a]
AllAnalyzers ==
    <<Registers("mass_delete"), Registers("suspicious_rename"), Registers("timestamp_anomaly"),
      Registers("duplicate_activity"), Registers("orphan_artifact")>>
LongLists ==
    {[i \in 1..n |-> FindingEvent(IF i % k = 0 THEN i ELSE 20 - i, t, "a", 1)] :
        n \in 4..11, t \in {"RENAMED", "DELETED", "CREATED"}, k \in {1, 2, 12}}
MCFindingRuns ==
    {AllAnalyzers \o <<Analyzes(s)>> : s \in UpTo(3, FindingEvents) \cup LongLists}
    \cup {AllAnalyzers \o <<Analyzes(s), Analyzes(s)>> : s \in LongLists}
    \cup {<<Registers("other"), Registers("mass_delete"), Analyzes(s), Registers("orphan_artifact"),
            Registers("mass_delete"), Analyzes(t), [op |-> "clear"], Analyzes(t)>> :
            s \in [1..1 -> FindingEvents], t \in [1..2 -> FindingEvents]}

-----------------------------------------------------------------------------
(* Plugins: three of one name, two of one type, one that cannot start; and         *)
(* directories with modules that load and modules that do not.                 *)

APlugin(i, n, t, r) == [id |-> i, name |-> n, type |-> t, raises |-> r]
PluginA == APlugin(1, "a", "ANALYZER", FALSE)
OtherA == APlugin(2, "a", "ANALYZER", FALSE)
Raising == APlugin(4, "b", "ANALYZER", TRUE)
MCPluginSet == {PluginA, OtherA, APlugin(3, "a", "EXPORTER", FALSE), Raising}
AClass(k, p) == [kind |-> k, plugin |-> p]
AModule(r, c) == [runs |-> r, classes |-> c]
MCDirectories ==
    {<<AModule(TRUE, <<AClass("plugin", PluginA), AClass("nameless", Raising)>>),
       AModule(TRUE, <<AClass("plugin", OtherA)>>)>>,
     <<AModule(TRUE, <<AClass("plugin", PluginA)>>),
       AModule(TRUE, <<AClass("plugin", Raising), AClass("raises", PluginA), AClass("plugin", OtherA)>>)>>,
     <<AModule(FALSE, <<>>), AModule(TRUE, <<AClass("plugin", Raising)>>)>>}

-----------------------------------------------------------------------------
(* Performance helpers.                                                        *)

MCAmounts == [t1 |-> 2, t2 |-> 2]
MCAnalyses == [r1 |-> {"a", "b"}, r2 |-> {"c", "d"}]
MCTotals == <<3, 5, 4, 5>>

-----------------------------------------------------------------------------
(* The component that runs.                                                    *)

MCInit ==
    /\ part \in Parts
    /\ IndexInit
    /\ IF part = "recovery" THEN RecoveryInit ELSE RecoveryOff
    /\ IF part = "caches" THEN CacheInit ELSE CachesOff
    /\ IF part = "timeline" THEN TimelineInit ELSE TimelineOff
    /\ IF part = "correlation" THEN CorrelationInit ELSE CorrelationOff /\ evidence = <<>>
    /\ IF part = "graph" THEN GraphInit ELSE GraphOff
    /\ IF part = "findings" THEN FindingsInit ELSE FindingsOff
    /\ IF part = "cases" THEN CasesInit ELSE CasesOff
    /\ IF part = "plugins" THEN PluginsInit ELSE PluginsOff
    /\ IF part = "worker" THEN WorkerInit ELSE WorkerOff
    /\ IF part = "acquisition" THEN AcquisitionInit ELSE AcquisitionOff
    /\ IF part = "performance" THEN PerformanceInit ELSE PerformanceOff
    /\ IF part = "query" THEN QueryInit ELSE QueryOff
    /\ IF part = "scanning" THEN ScanningInit ELSE ScanningOff

Steady(p, vars) == IF part = p THEN TRUE ELSE UNCHANGED vars
MCNext ==
    /\ UNCHANGED part
    /\ \/ part = "recovery" /\ RecoveryNext
       \/ part = "index" /\ IndexNext
       \/ part = "caches" /\ CacheNext
       \/ part = "timeline" /\ TimelineNext
       \/ part = "correlation" /\ CorrelationNext
       \/ part = "graph" /\ GraphNext
       \/ part = "findings" /\ FindingsNext
       \/ part = "cases" /\ CasesNext
       \/ part = "plugins" /\ PluginsNext
       \/ part = "worker" /\ WorkerNext
       \/ part = "acquisition" /\ AcquisitionNext
       \/ part = "performance" /\ PerformanceNext
       \/ part = "query" /\ QueryNext
       \/ part = "scanning" /\ ScanningNext
    /\ Steady("recovery", recoveryVars) /\ Steady("index", indexVars) /\ Steady("caches", cacheVars)
    /\ Steady("timeline", timelineVars) /\ Steady("correlation", corrVars) /\ Steady("graph", graphVars)
    /\ Steady("findings", findingVars) /\ Steady("cases", caseVars) /\ Steady("plugins", pluginVars)
    /\ Steady("worker", workerVars) /\ Steady("acquisition", acqVars)
    /\ Steady("performance", performanceVars) /\ Steady("query", queryVars) /\ Steady("scanning", scanningVars)
MCSpec ==
    MCInit /\ [][MCNext]_<<part, recoveryVars, indexVars, cacheVars, timelineVars, corrVars, graphVars,
                           findingVars, caseVars, pluginVars, workerVars, acqVars, performanceVars,
                           queryVars, scanningVars>>

\* Types of all of the components.
ServicesTypeOK ==
    /\ RecoveryTypeOK /\ IndexTypeOK /\ (part = "caches" => CacheTypeOK)
    /\ TimelineTypeOK /\ (part = "correlation" => CorrelationTypeOK) /\ GraphTypeOK /\ FindingsTypeOK
    /\ CasesTypeOK /\ PluginsTypeOK /\ WorkerTypeOK /\ AcquisitionTypeOK /\ PerformanceTypeOK
    /\ QueryTypeOK /\ ScanningTypeOK

\* Both correlation engines keep the rules of their results.
EvidenceRight == CorrelationRight /\ GraphRight

\* Objects that are called one call at a time are, after any order of calls, what
\* the calls have made of them: plugins, and sessions with their target.
CallsRight == PluginsRight /\ AcquisitionRight

\* Objects that threads share keep their promises however the threads overlap: the
\* worker, and the guard, analyzer and indexers of the performance helpers.
ThreadsRight == WorkerRight /\ PerformanceRight
=============================================================================
