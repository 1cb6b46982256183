-------------------------- MODULE CorrelationGraph --------------------------
(***************************************************************************)
(* CorrelationEngineV2 (core/correlation): chains of renames and of        *)
(* deletions, anomalies and heuristics become a graph of events and a      *)
(* score for each file.  One engine analyzes several lists; it keeps the   *)
(* chains and scores of earlier ones.                                      *)
(***************************************************************************)
EXTENDS EventLists, SequencesExt

CONSTANTS
    RapidGap,                       \* 5 seconds
    MassDeletes, ManyRenames,       \* 10 and 5 events
    EventRuns                       \* sequences of calls

ASSUME ThresholdAssumption ==
    RapidGap \in Nat /\ MassDeletes \in Nat \ {0} /\ ManyRenames \in Nat \ {0}

VARIABLES
    run,            \* the calls to come: analyze with its events, or clear
    seen_lists,     \* those analyzed since the engine was cleared
    rename_of,      \* ChainBuilder._rename_chains: by file
    recreate_of,    \* ChainBuilder._delete_recreate: by file and first name
    nodes,          \* <<file, time>> -> the event told there last
    edges,          \* in order: from, to and type
    scores,         \* file -> scores in hundredths, tags
    report          \* of the last analysis: its chains, anomalies and heuristics

graphVars == <<run, seen_lists, rename_of, recreate_of, nodes, edges, scores, report>>

NoReport == [anomalies |-> {}, heuristics |-> {}, ok |-> TRUE]
GraphEmpty ==
    /\ seen_lists = <<>> /\ rename_of = <<>> /\ recreate_of = <<>> /\ nodes = <<>> /\ edges = <<>>
    /\ scores = <<>> /\ report = NoReport
GraphInit == run \in EventRuns /\ GraphEmpty
GraphOff == run = <<>> /\ GraphEmpty

-----------------------------------------------------------------------------
(* ChainBuilder *)

\* A rename, or an event of another name than the last new one, is in the chain.
\* Mutant: the last name is that of the last event, new or not.
ChainStepLast(chain, e) ==
    IF e.type = "RENAMED" \/ (chain.names # <<>> /\ e.name # Last(chain.names))
    THEN [events |-> Append(chain.events, e), names |-> Append(chain.names, e.name)]
    ELSE chain

ChainStep(chain, e) ==
    IF e.type = "RENAMED" \/ (chain.names # <<>> /\ e.name # Last(chain.names))
    THEN [events |-> Append(chain.events, e),
          names |-> IF e.name \in ToSet(chain.names) THEN chain.names ELSE Append(chain.names, e.name)]
    ELSE chain
RenameChain(events, ref) ==
    FoldLeft(ChainStep, [events |-> <<>>, names |-> <<>>], ByTime(OfFile(events, ref)))
RenameCount(chain) == IF chain.names = <<>> THEN 0 ELSE Len(chain.names) - 1
IsChain(chain) == RenameCount(chain) > 0 \/ Len(chain.events) > 1

\* A deletion and the creation right behind it, however long after.
RecreateChain(events, ref) ==
    LET sorted == ByTime(OfFile(events, ref))
        pair(i) == /\ sorted[i].type = "DELETED" /\ sorted[i + 1].type = "CREATED"
                   /\ Timed(sorted[i]) /\ Timed(sorted[i + 1]) /\ sorted[i].name = sorted[i + 1].name
        first  == SelectSeq([i \in 1..(Len(sorted) - 1) |-> i], pair)
    IN  [k \in DOMAIN first |-> <<sorted[first[k]], sorted[first[k] + 1]>>]
FirstName(events, ref) == ByTime(OfFile(events, ref))[1].name

\* The tables, in the order of their first entries, keep what earlier lists had.
Put(table, key, chain) ==
    IF \E i \in DOMAIN table : table[i].key = key
    THEN [i \in DOMAIN table |-> IF table[i].key = key THEN [key |-> key, chain |-> chain] ELSE table[i]]
    ELSE Append(table, [key |-> key, chain |-> chain])
PutRename(events, table, r) ==
    IF IsChain(RenameChain(events, r)) THEN Put(table, r, RenameChain(events, r)) ELSE table
PutRecreate(events, table, r) ==
    IF RecreateChain(events, r) = <<>> THEN table
    ELSE Put(table, <<r, FirstName(events, r)>>, RecreateChain(events, r))
RenamesAfter(events, files) == FoldLeft(LAMBDA t, r : PutRename(events, t, r), rename_of, files)
RecreatesAfter(events) == FoldLeft(LAMBDA t, r : PutRecreate(events, t, r), recreate_of, FilesOf(events))

-----------------------------------------------------------------------------
(* AnomalyDetector and HeuristicEngine, with severities in hundredths *)

Anomalies(events) ==
    LET files == ToSet(FilesOf(events))
        of(r) == OfFile(events, r)
        back(a, b) == Timed(a) /\ Timed(b) /\ b.ts < a.ts
        same(a, b) == Timed(a) /\ Timed(b) /\ a.ts = b.ts
        renames == SelectSeq(events, LAMBDA e : e.type = "RENAMED")
        rapid(i) == LET a == renames[i]  b == renames[i + 1]
                    IN  a.ref = b.ref /\ Timed(a) /\ Timed(b) /\ b.ts - a.ts \in 1..(RapidGap - 1)
    IN  {<<"reversal", r, 80>> : r \in
            {f \in files : \E i \in 1..(Len(of(f)) - 1) : back(of(f)[i], of(f)[i + 1])}}
        \union {<<"burst", r, 60>> : r \in {f \in files : \E i \in 1..(Len(of(f)) - 2) :
                    same(of(f)[i], of(f)[i + 1]) /\ same(of(f)[i + 1], of(f)[i + 2])}}
        \union {<<"rapid", renames[i].ref, 70>> : i \in {j \in 1..(Len(renames) - 1) : rapid(j)}}
        \union {<<"interleaved", r, 40>> : r \in
            {f \in files : Cardinality({of(f)[i].source : i \in DOMAIN of(f)}) > 1}}

\* Ten or more deletions, five or more renames, whenever they were; the files of
\* the first ten are named.
Heuristic(events, type, threshold) ==
    LET found == SelectSeq(events, LAMBDA e : e.type = type)
        score == Min({100, (100 * Len(found)) \div (2 * threshold)})
    IN  IF Len(found) < threshold THEN {}
        ELSE {<<type, found[i].ref, score>> : i \in 1..Min({10, Len(found)})}
Heuristics(events) ==
    Heuristic(events, "DELETED", MassDeletes) \union Heuristic(events, "RENAMED", ManyRenames)

-----------------------------------------------------------------------------
(* CorrelationScorer *)

Unscored == [anomaly |-> 0, heuristic |-> 0, rename |-> 0, recreate |-> 0, tags |-> <<>>]
Highest(found, ref, old) == Max({old} \union {x[3] : x \in {y \in found : y[2] = ref}})

Tags(s) ==
    (IF s.anomaly > 50 THEN <<"anomaly">> ELSE <<>>)
        \o (IF s.heuristic > 50 THEN <<"suspicious">> ELSE <<>>)
        \o (IF s.rename > 50 THEN <<"frequent_rename">> ELSE <<>>)
        \o (IF s.recreate > 50 THEN <<"delete_recreate">> ELSE <<>>)

\* Every file of an event has scores from its first analysis on; of several
\* chains of a file the last one counts, and each analysis adds its tags.
LastScore(table, FileOf(_), Score(_), r, old) ==
    LET own == SelectSeq(table, LAMBDA x : FileOf(x.key) = r)
    IN  IF own = <<>> THEN old ELSE Min({100, Score(Last(own).chain)})
Scored(r, old, anomalies, heuristics, renames, recreates) ==
    [anomaly   |-> Highest(anomalies, r, old.anomaly),
     heuristic |-> Highest(heuristics, r, old.heuristic),
     rename    |-> LastScore(renames, LAMBDA k : k, LAMBDA c : 10 * RenameCount(c), r, old.rename),
     recreate  |-> LastScore(recreates, LAMBDA k : k[1], LAMBDA c : 20 * Len(c), r, old.recreate),
     tags      |-> old.tags]
ScoresAfter(events, anomalies, heuristics, renames, recreates) ==
    [r \in DOMAIN scores \union {events[i].ref : i \in DOMAIN events} |->
        LET new == Scored(r, IF r \in DOMAIN scores THEN scores[r] ELSE Unscored,
                          anomalies, heuristics, renames, recreates)
        IN  [new EXCEPT !.tags = @ \o Tags(new)]]

-----------------------------------------------------------------------------
(* CorrelationGraph *)

NodeOf(e) == <<e.ref, e.ts>>
AddNode(table, e) == [n \in DOMAIN table \union {NodeOf(e)} |-> IF n = NodeOf(e) THEN e ELSE table[n]]
LinkOf(a, b, type) == [from |-> NodeOf(a), to |-> NodeOf(b), type |-> type, ends |-> <<a, b>>]

\* Neighbours in a chain of renames; each deletion with each creation.
Links(renames, recreates) ==
    LET chain(c) == [i \in 1..(Len(c.events) - 1) |-> LinkOf(c.events[i], c.events[i + 1], "rename")]
        cross(c) == [i \in 1..(Len(c) * Len(c)) |->
                        LinkOf(c[((i - 1) \div Len(c)) + 1][1], c[((i - 1) % Len(c)) + 1][2], "recreate")]
    IN  FlattenSeq([k \in DOMAIN renames |-> chain(renames[k].chain)])
        \o FlattenSeq([k \in DOMAIN recreates |-> cross(recreates[k].chain)])

\* Events of one file and time share a node, which tells the last of them; an
\* end of a link that has no node gets one.
NodesOf(events, links) ==
    LET listed == FoldLeft(AddNode, <<>>, events)
        add(t, e) == IF NodeOf(e) \in DOMAIN t THEN t ELSE AddNode(t, e)
    IN  FoldLeft(LAMBDA t, l : add(add(t, l.ends[1]), l.ends[2]), listed, links)
EdgesOf(links) == [k \in DOMAIN links |-> [from |-> links[k].from, to |-> links[k].to, type |-> links[k].type]]

\* The other ends of the edges of a node, in the order of the edges.
NeighboursOf(n) ==
    LET own == SelectSeq(edges, LAMBDA e : n \in {e.from, e.to})
    IN  [k \in DOMAIN own |-> IF own[k].from = n THEN own[k].to ELSE own[k].from]

\* traverse_from: a queue of nodes with their depth.  max_depth also bounds the
\* number of nodes.
Traversal(start, max_depth) ==
    LET step(s, i) ==
            IF s.queue = <<>> \/ Len(s.result) >= max_depth THEN s
            ELSE LET n == Head(s.queue)[1]  d == Head(s.queue)[2]
                     next == SelectSeq(NeighboursOf(n), LAMBDA m : m \notin s.visited \union {n})
                 IN  IF n \in s.visited \/ d > max_depth THEN [s EXCEPT !.queue = Tail(@)]
                     ELSE [queue   |-> Tail(s.queue) \o [k \in DOMAIN next |-> <<next[k], d + 1>>],
                           visited |-> s.visited \union {n},
                           result  |-> IF n \in DOMAIN nodes THEN Append(s.result, n) ELSE s.result]
        first == [queue |-> <<<<start, 0>>>>, visited |-> {}, result |-> <<>>]
    IN  FoldLeft(step, first, [i \in 1..(2 * Len(edges) + 1) |-> i]).result

\* find_path: a queue of nodes, each with the nodes on the way to it.
FindPath(from, to) ==
    LET step(s, i) ==
            IF s.found \/ s.queue = <<>> THEN s
            ELSE LET n == Last(Head(s.queue))
                     next == SelectSeq(NeighboursOf(n), LAMBDA m : m \notin s.visited \union {n})
                 IN  IF n = to THEN [s EXCEPT !.found = TRUE]
                     ELSE IF n \in s.visited THEN [s EXCEPT !.queue = Tail(@)]
                     ELSE [s EXCEPT !.queue = Tail(@) \o [k \in DOMAIN next |-> Append(Head(@), next[k])],
                                    !.visited = @ \union {n}]
        last == FoldLeft(step, [queue |-> <<<<from>>>>, visited |-> {}, found |-> FALSE],
                         [i \in 1..(2 * Len(edges) + 2) |-> i])
    IN  IF last.found THEN Tail(Head(last.queue)) ELSE <<>>

-----------------------------------------------------------------------------
(* CorrelationEngineV2 *)

Unsorted(events) == {k \in DOMAIN FilesOf(events) : Mixed(OfFile(events, FilesOf(events)[k]))}
Analyzing == run # <<>> /\ Head(run).op = "analyze"
Analyzed == Head(run).events

Analyze ==
    /\ Analyzing /\ Unsorted(Analyzed) = {}
    /\ LET events == Analyzed
       IN  \E renames \in {RenamesAfter(events, FilesOf(events))} :
           \E recreates \in {RecreatesAfter(events)} :
           \E anomalies \in {Anomalies(events)} : \E links \in {Links(renames, recreates)} :
            /\ rename_of' = renames /\ recreate_of' = recreates
            /\ scores' = ScoresAfter(events, anomalies, Heuristics(events), renames, recreates)
            /\ nodes' = NodesOf(events, links) /\ edges' = EdgesOf(links)
            /\ report' = [anomalies |-> anomalies, heuristics |-> Heuristics(events), ok |-> TRUE]
            /\ seen_lists' = Append(seen_lists, events)
    /\ run' = Tail(run)

\* The chains of the files before the one that cannot be sorted stay.
AnalyzeRaises ==
    /\ Analyzing /\ Unsorted(Analyzed) # {}
    /\ LET files == FilesOf(Analyzed)
       IN  rename_of' = RenamesAfter(Analyzed, SubSeq(files, 1, Min(Unsorted(Analyzed)) - 1))
    /\ report' = [NoReport EXCEPT !.ok = FALSE]
    /\ seen_lists' = Append(seen_lists, Analyzed)
    /\ run' = Tail(run)
    /\ UNCHANGED <<recreate_of, nodes, edges, scores>>

ClearEngine ==
    /\ run # <<>> /\ Head(run).op = "clear"
    /\ run' = Tail(run)
    /\ seen_lists' = <<>> /\ rename_of' = <<>> /\ recreate_of' = <<>> /\ nodes' = <<>>
    /\ edges' = <<>> /\ scores' = <<>> /\ report' = NoReport

GraphNext == Analyze \/ AnalyzeRaises \/ ClearEngine

-----------------------------------------------------------------------------
(* Properties *)

AllSeen == UNION {ToSet(seen_lists[k]) : k \in DOMAIN seen_lists}

\* Types; every node is of an event of some list analyzed since the last clear.
GraphTypeOK ==
    /\ DOMAIN nodes \subseteq {NodeOf(e) : e \in AllSeen}
    /\ \A n \in DOMAIN nodes : NodeOf(nodes[n]) = n
    /\ DOMAIN scores \subseteq {e.ref : e \in AllSeen}
    /\ \A r \in DOMAIN scores : Len(scores[r].tags) <= 4 * Len(seen_lists)

\* A chain has each name once and its events in order; it has two names or two
\* events, and no more changes of name than events but one.
ChainsRight ==
    \A k \in DOMAIN rename_of :
        LET c == rename_of[k].chain
        IN  /\ IsInjective(c.names) /\ Chronological(c.events) /\ IsChain(c)
            /\ \A i \in DOMAIN c.events : c.events[i].ref = rename_of[k].key
            /\ RenameCount(c) < Len(c.events)

\* Edges join nodes of one file, renames forward in time.  The events of the last
\* list have their nodes; other nodes are ends of chains of earlier lists.
Ends == {edges[k].from : k \in DOMAIN edges} \union {edges[k].to : k \in DOMAIN edges}
EdgesRight ==
    /\ Ends \subseteq DOMAIN nodes
    /\ \A k \in DOMAIN edges :
        /\ edges[k].from[1] = edges[k].to[1]
        /\ edges[k].type = "rename" => edges[k].from[2] <= edges[k].to[2]
    /\ (seen_lists # <<>> /\ report.ok) =>
        LET own == {NodeOf(e) : e \in ToSet(Last(seen_lists))}
        IN  /\ own \subseteq DOMAIN nodes /\ DOMAIN nodes \ own \subseteq Ends
            /\ Len(seen_lists) = 1 => DOMAIN nodes = own

\* Nodes within n edges of a node, and all that can be reached.
Within(start, n) ==
    FoldLeft(LAMBDA ball, i : ball \union UNION {ToSet(NeighboursOf(m)) : m \in ball},
             {start}, [i \in 1..n |-> i])
Reached(start) == Within(start, Cardinality(DOMAIN nodes))

\* A traversal gives nodes that can be reached, each once, and as many as it may.
TraversalRight ==
    \A start \in DOMAIN nodes : \A depth \in {1, 2, 10} :
        LET found == Traversal(start, depth)
        IN  /\ IsInjective(found) /\ ToSet(found) \subseteq Reached(start)
            /\ Len(found) = Min({depth, Cardinality(Reached(start))})

\* A path goes from edge to edge, there is one if the end can be reached, and no
\* other is shorter.
PathRight ==
    \A from, to \in DOMAIN nodes :
        LET path == <<from>> \o FindPath(from, to)
        IN  /\ \A i \in 1..(Len(path) - 1) : path[i + 1] \in ToSet(NeighboursOf(path[i]))
            /\ to \in Reached(from) => Last(path) = to
            /\ to \notin Reached(from) => Len(path) = 1
            /\ Len(path) > 1 => to \notin Within(from, Len(path) - 2)

\* Scores show the anomalies and heuristics of the last list at least, each named
\* file has one, and what was found of a file before is not forgotten.
ScoresRight ==
    report.ok =>
        /\ \A x \in report.anomalies : x[2] \in DOMAIN scores /\ scores[x[2]].anomaly >= x[3]
        /\ \A x \in report.heuristics : x[2] \in DOMAIN scores /\ scores[x[2]].heuristic >= x[3]
        /\ \A k \in DOMAIN seen_lists : Unsorted(seen_lists[k]) = {} =>
            \A x \in Anomalies(seen_lists[k]) : x[2] \in DOMAIN scores /\ scores[x[2]].anomaly >= x[3]

\* A list in order of time, as the timeline gives it, shows no reversal: the one
\* anomaly of tampering cannot be found behind the timeline.
NoReversalInOrder ==
    (report.ok /\ seen_lists # <<>> /\ Chronological(Last(seen_lists))) =>
        \A x \in report.anomalies : x[1] # "reversal"

\* The graph, the chains and the scores are those of the events.
GraphRight ==
    ChainsRight /\ EdgesRight /\ TraversalRight /\ PathRight /\ ScoresRight /\ NoReversalInOrder
=============================================================================
