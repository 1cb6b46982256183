------------------------------ MODULE Findings ------------------------------
(***************************************************************************)
(* FindingsEngine (core/findings/engine.py) with the analyzers of          *)
(* core/analyzers, and what `forensic findings` shows of it.               *)
(***************************************************************************)
EXTENDS CorrelationGraph, SequencesExt

CONSTANTS
    MassThreshold, DuplicateThreshold,  \* 10 and 5 events
    NormalRenames, NormalReversals,     \* 3 and 2
    FindingRuns                         \* sequences of calls of an engine

ASSUME AnalyzerAssumption ==
    /\ MassThreshold \in Nat \ {0} /\ DuplicateThreshold \in Nat \ {0}
    /\ NormalRenames \in Nat /\ NormalReversals \in Nat

VARIABLES
    orders,         \* the calls to come
    registered,     \* FindingsEngine._analyzers
    findings,       \* FindingsEngine._findings, in the order they were found
    new_findings,   \* what the last analyze returned
    examined        \* the list it was given

findingVars == <<orders, registered, findings, new_findings, examined>>

FindingsEmpty == registered = <<>> /\ findings = <<>> /\ new_findings = <<>> /\ examined = <<>>
FindingsInit == orders \in FindingRuns /\ FindingsEmpty
FindingsOff == orders = <<>> /\ FindingsEmpty

-----------------------------------------------------------------------------
(* Analyzers.  Severities are the scores, confidences hundredths.              *)

INFO == 10
LOW == 30
MEDIUM == 50
HIGH == 70
CRITICAL == 90

Result(analyzer, severity, confidence, refs, count) ==
    [analyzer |-> analyzer, severity |-> severity, confidence |-> confidence, refs |-> refs, count |-> count]
OfType(events, type) == SelectSeq(events, LAMBDA e : e.type = type)
CountOf(events, Test(_)) == Cardinality({i \in DOMAIN events : Test(events[i])})

MassDelete(events) ==
    LET deletes == OfType(events, "DELETED")
        n       == Len(deletes)
        parents == {deletes[i].parent : i \in DOMAIN deletes} \ {0}
        often(p) == CountOf(deletes, LAMBDA e : e.parent = p)
        first(p) == Min({i \in DOMAIN deletes : deletes[i].parent = p})
        top     == {p \in parents : \A q \in parents \ {p} :
                        often(q) < often(p) \/ (often(q) = often(p) /\ first(p) < first(q))}
    IN  IF n < MassThreshold THEN <<>>
        ELSE IF n >= 5 * MassThreshold THEN <<Result("mass_delete", CRITICAL, 95, top, n)>>
        ELSE IF n >= 3 * MassThreshold THEN <<Result("mass_delete", HIGH, 80, top, n)>>
        ELSE <<Result("mass_delete", MEDIUM, 60, top, n)>>

\* Every file with a rename; rapid ones are neighbours in the order given.
RenamesOf(events, ref) ==
    LET renames == OfType(OfFile(events, ref), "RENAMED")
        n       == Len(renames)
        rapid   == Cardinality({i \in 1..(n - 1) :
                        /\ Timed(renames[i]) /\ Timed(renames[i + 1])
                        /\ renames[i + 1].ts - renames[i].ts \in 1..(RapidGap - 1)})
        more    == IF rapid > 1 THEN 20 ELSE 0
    IN  IF n = 0 THEN <<>>
        ELSE IF n > 3 * NormalRenames THEN <<Result("suspicious_rename", HIGH, 80 + more, {ref}, n)>>
        ELSE IF n > 2 * NormalRenames THEN <<Result("suspicious_rename", MEDIUM, 60 + more, {ref}, n)>>
        ELSE <<Result("suspicious_rename", IF rapid > 1 THEN MEDIUM ELSE LOW,
                      (IF n > NormalRenames THEN 40 ELSE 30) + more, {ref}, n)>>
SuspiciousRename(events) ==
    LET files == FilesOf(events) IN FlattenSeq([k \in DOMAIN files |-> RenamesOf(events, files[k])])

\* Reversals between neighbours of a file; all of the files are named.
\* Mutant: neighbours of the list, whatever their file.
ReversalsMixed(events) ==
    Cardinality({i \in 2..Len(events) :
        /\ Timed(events[i]) /\ Timed(events[i - 1]) /\ events[i].ts < events[i - 1].ts})

Reversals(events) ==
    Cardinality({<<r, i>> \in ToSet(FilesOf(events)) \X (1..Len(events)) :
        LET own == OfFile(events, r)
        IN  /\ i < Len(own) /\ Timed(own[i]) /\ Timed(own[i + 1]) /\ own[i + 1].ts < own[i].ts})
TimestampAnomaly(events) ==
    LET n     == Reversals(events)
        files == ToSet(FilesOf(events))
    IN  IF n = 0 THEN <<>>
        ELSE IF n > 3 * NormalReversals THEN <<Result("timestamp_anomaly", HIGH, 85, files, n)>>
        ELSE IF n > 2 * NormalReversals THEN <<Result("timestamp_anomaly", MEDIUM, 65, files, n)>>
        ELSE IF n > NormalReversals THEN <<Result("timestamp_anomaly", LOW, 45, files, n)>>
        ELSE <<Result("timestamp_anomaly", INFO, 30, files, n)>>

\* Events of one type, name and file, at whatever times.
DuplicateActivity(events) ==
    LET key(e)   == <<e.type, e.name, e.ref>>
        often(e) == CountOf(events, LAMBDA f : key(f) = key(e))
        again    == SelectSeq(events, LAMBDA e : often(e) >= DuplicateThreshold)
        n        == Len(again)
        refs     == {again[i].ref : i \in DOMAIN again}
    IN  IF n = 0 THEN <<>>
        ELSE IF n >= 5 * DuplicateThreshold THEN <<Result("duplicate_activity", HIGH, 80, refs, n)>>
        ELSE IF n >= 3 * DuplicateThreshold THEN <<Result("duplicate_activity", MEDIUM, 60, refs, n)>>
        ELSE <<Result("duplicate_activity", LOW, 40, refs, n)>>

RefsOf(events, type) == {e.ref : e \in ToSet(OfType(events, type))}
Orphans(events) == ToSet(FilesOf(events)) \ RefsOf(events, "CREATED")
OrphanDeletes(events) == (RefsOf(events, "DELETED") \ {0}) \ RefsOf(events, "CREATED")
OrphanArtifact(events) ==
    LET result(severity, confidence, refs) ==
            IF refs = {} THEN <<>>
            ELSE <<Result("orphan_artifact", severity, confidence, refs, Cardinality(refs))>>
    IN  result(MEDIUM, 70, Orphans(events)) \o result(HIGH, 85, OrphanDeletes(events))

\* An analyzer of another kind raises, and nothing is found by it.
ResultsOf(analyzer, events) ==
    CASE analyzer = "mass_delete"        -> MassDelete(events)
      [] analyzer = "suspicious_rename"  -> SuspiciousRename(events)
      [] analyzer = "timestamp_anomaly"  -> TimestampAnomaly(events)
      [] analyzer = "duplicate_activity" -> DuplicateActivity(events)
      [] analyzer = "orphan_artifact"    -> OrphanArtifact(events)
      [] OTHER                           -> <<>>

-----------------------------------------------------------------------------
(* FindingsEngine *)

CategoryOf(analyzer) ==
    CASE analyzer = "mass_delete"        -> "BULK_DELETION"
      [] analyzer = "timestamp_anomaly"  -> "TIMESTAMP_TAMPERING"
      [] analyzer = "duplicate_activity" -> "DUPLICATE_ACTIVITY"
      [] analyzer = "orphan_artifact"    -> "ORPHAN_ACTIVITY"
      [] OTHER                           -> "SUSPICIOUS_ACTIVITY"

Order(op) == orders # <<>> /\ Head(orders).op = op

RegisterAnalyzer ==
    /\ Order("register")
    /\ registered' = Append(registered, Head(orders).analyzer)
    /\ orders' = Tail(orders)
    /\ UNCHANGED <<findings, new_findings, examined>>

\* Each finding has an id of its own, so that none takes the place of another;
\* an analyzer that raises is passed over.
AnalyzeFindings ==
    /\ Order("analyze")
    /\ \E found \in {FlattenSeq([k \in DOMAIN registered |-> ResultsOf(registered[k], Head(orders).events)])} :
        findings' = findings \o found /\ new_findings' = found
    /\ examined' = Head(orders).events
    /\ orders' = Tail(orders)
    /\ UNCHANGED registered

ClearFindings ==
    /\ Order("clear")
    /\ findings' = <<>> /\ new_findings' = <<>> /\ examined' = <<>>
    /\ orders' = Tail(orders)
    /\ UNCHANGED registered

FindingsNext == RegisterAnalyzer \/ AnalyzeFindings \/ ClearFindings

Composite(f) == f.severity * f.confidence
AtLeast(list, severity) == SelectSeq(list, LAMBDA f : f.severity >= severity)

\* get_findings: the highest first.
GetFindings(severity, category) ==
    StableSort(SelectSeq(AtLeast(findings, severity),
                         LAMBDA f : category = "" \/ CategoryOf(f.analyzer) = category),
               LAMBDA f, g : Composite(f) > Composite(g))

\* The command shows the first of those it has found, in the order of analyzers,
\* whatever their weight.
Shown(severity, limit) ==
    LET enough == AtLeast(new_findings, severity)
    IN  IF limit > 0 THEN SubSeq(enough, 1, Min({limit, Len(enough)})) ELSE enough

-----------------------------------------------------------------------------
(* Properties *)

Severities == {INFO, LOW, MEDIUM, HIGH, CRITICAL}
Categories == {CategoryOf(a) : a \in {"mass_delete", "timestamp_anomaly", "duplicate_activity",
                                      "orphan_artifact", "suspicious_rename"}}

\* Types; the findings of the last analysis are the last findings.
FindingsTypeOK ==
    /\ IsSuffix(new_findings, findings)
    /\ \A i \in DOMAIN findings :
        findings[i].severity \in Severities /\ findings[i].confidence \in 10..100 /\ findings[i].count > 0

By(list, analyzer) == SelectSeq(list, LAMBDA f : f.analyzer = analyzer)
OnceRegistered(analyzer) == CountOf(registered, LAMBDA a : a = analyzer) = 1

\* The three engines agree on a list: a reversal is found when the graph's
\* detector sees one in some file, and not in a list that is in order; a file with
\* an orphan deletion is an orphan; a mass deletion is one for the heuristics.
EnginesAgree ==
    /\ OnceRegistered("timestamp_anomaly") =>
        ((By(new_findings, "timestamp_anomaly") # <<>>) <=>
            (\E x \in Anomalies(examined) : x[1] = "reversal"))
    /\ Chronological(examined) => By(new_findings, "timestamp_anomaly") = <<>>
    /\ OnceRegistered("orphan_artifact") => OrphanDeletes(examined) \subseteq Orphans(examined)
    /\ (OnceRegistered("mass_delete") /\ MassThreshold = MassDeletes) =>
        ((By(new_findings, "mass_delete") # <<>>) <=> (Heuristic(examined, "DELETED", MassDeletes) # {}))

\* More events of one file never make a finding about it weaker: of all starts of
\* the list, none gives a heavier finding of this kind than the whole list does.
Weight(list, ref) == Max({0} \union {Composite(list[i]) : i \in {j \in DOMAIN list : ref \in list[j].refs}})
NeverWeaker ==
    new_findings # <<>> =>
        \A n \in 1..Len(examined) :
            LET start == SubSeq(examined, 1, n)
            IN  \A r \in ToSet(FilesOf(examined)) :
                    /\ Weight(SuspiciousRename(start), r) <= Weight(SuspiciousRename(examined), r)
                    /\ Weight(TimestampAnomaly(start), r) <= Weight(TimestampAnomaly(examined), r)
                    /\ Weight(DuplicateActivity(start), r) <= Weight(DuplicateActivity(examined), r)

\* What get_findings gives is heaviest first and, by its categories, all there is;
\* what the command shows is among it.
GivenRight ==
    findings # <<>> =>
        /\ \A s \in Severities : \A c \in Categories \union {""} :
            LET given == GetFindings(s, c)
            IN  \A i, j \in DOMAIN given : i < j => Composite(given[i]) >= Composite(given[j])
        /\ \A s \in Severities :
            Len(GetFindings(s, "")) =
                FoldSet(LAMBDA c, n : n + Len(GetFindings(s, c)), 0, Categories)
        /\ \A s \in Severities : \A n \in 0..2 :
            /\ ToSet(Shown(s, n)) \subseteq ToSet(GetFindings(s, ""))
            /\ Len(Shown(s, n)) = IF n = 0 THEN Len(AtLeast(new_findings, s)) ELSE Min({n, Len(Shown(s, 0))})

\* The findings are those of the events examined, whatever another analyzer does.
FindingsRight == EnginesAgree /\ NeverWeaker /\ GivenRight
=============================================================================
