---------------------------- MODULE Correlation ----------------------------
(***************************************************************************)
(* CorrelationEngine (forensics/correlation.py): one engine that is called *)
(* with several lists of events.  The calls share the events, which carry  *)
(* the notes, and the engine's four tables.                                *)
(***************************************************************************)
EXTENDS EventLists, SequencesExt

CONSTANTS
    RenameGap, RecreateGap, MatchGap,   \* 5, 60 and 5 seconds
    Evidence                            \* the events and the calls, see below

\* The events of the calls carry their number in `id`; their times are even, so
\* that there is one half way.
ASSUME EvidenceAssumption ==
    \A x \in Evidence :
        /\ \A i \in DOMAIN x.events :
            x.events[i].id = i /\ (Timed(x.events[i]) => x.events[i].ts % 2 = 0)
        /\ \A c \in DOMAIN x.calls :
            /\ x.calls[c].kind \in {"correlate", "match"}
            /\ x.calls[c].ids \in Seq(DOMAIN x.events) /\ x.calls[c].usn \in Seq(DOMAIN x.events)

VARIABLES
    evidence,
    call_count,     \* how many calls are over
    cstep,          \* "idle" or "calling"
    notes,          \* event -> its notes
    confident,      \* events whose confidence match_mft_usn has raised
    rename_chains, file_history,    \* file -> events, set by the last call
    delete_recreate, parent_moves,  \* file -> pairs and events of all calls
    correlated        \* what the last call returned, <<>> if it raised

corrVars == <<evidence, call_count, cstep, notes, confident, rename_chains, file_history,
              delete_recreate, parent_moves, correlated>>

CorrelationEmpty ==
    /\ call_count = 0 /\ confident = {} /\ correlated = <<>>
    /\ rename_chains = <<>> /\ file_history = <<>> /\ delete_recreate = <<>> /\ parent_moves = <<>>
CorrelationInit ==
    /\ evidence \in Evidence /\ cstep = "calling" /\ CorrelationEmpty
    /\ notes = [i \in DOMAIN evidence.events |-> <<>>]
CorrelationOff == cstep = "idle" /\ CorrelationEmpty /\ notes = <<>>

Call == evidence.calls[call_count + 1]
Given == [k \in DOMAIN Call.ids |-> evidence.events[Call.ids[k]]]
Calling(kind) == cstep = "calling" /\ call_count < Len(evidence.calls) /\ Call.kind = kind

-----------------------------------------------------------------------------
(* _correlate_renames *)

Kept(events) == SelectSeq(events, LAMBDA e : e.type # "DELETED")
Chain_(events, ref) == Kept(ByTime(OfFile(events, ref)))

\* Two names one after the other, deletions between them or not, and no rename
\* that says so: one is inferred half way.  (Times are in halves, see above.)
InferredBetween(a, b) ==
    IF a.name # b.name /\ b.type # "RENAMED" /\ Timed(a) /\ Timed(b) /\ b.ts - a.ts \in 1..(RenameGap - 1)
    THEN <<[ts |-> a.ts + (b.ts - a.ts) \div 2, type |-> "RENAMED", ref |-> a.ref, name |-> b.name,
            prev |-> a.name, parent |-> 0, source |-> "CORRELATION", id |-> 0]>>
    ELSE <<>>
Inferred(events) ==
    LET files == FilesOf(events)
        of(ref) == LET chain == Chain_(events, ref)
                   IN  FlattenSeq([i \in 1..(Len(chain) - 1) |-> InferredBetween(chain[i], chain[i + 1])])
    IN  FlattenSeq([k \in DOMAIN files |-> of(files[k])])

\* The files before the first one whose events cannot be sorted.
Unsortable(events) == {k \in DOMAIN FilesOf(events) : Mixed(OfFile(events, FilesOf(events)[k]))}
Sortable(events) ==
    LET files == FilesOf(events)
        last  == IF Unsortable(events) = {} THEN Len(files) ELSE Min(Unsortable(events)) - 1
    IN  {files[k] : k \in 1..last}
Over(new, old) == [r \in DOMAIN new \union DOMAIN old |-> IF r \in DOMAIN new THEN new[r] ELSE old[r]]
Histories ==
    /\ rename_chains' = Over([r \in Sortable(Given) |-> Chain_(Given, r)], rename_chains)
    /\ file_history' = Over([r \in Sortable(Given) |-> ByTime(OfFile(Given, r))], file_history)

-----------------------------------------------------------------------------
(* _detect_delete_recreate and _track_parent_movement *)

Again(d, c) ==
    /\ d.type = "DELETED" /\ c.type = "CREATED" /\ d.ref > 0 /\ c.ref = d.ref
    /\ Timed(d) /\ Timed(c) /\ c.ts - d.ts \in 1..(RecreateGap - 1) /\ c.name = d.name

\* Every deletion with every creation behind it.
Pairs(events, ref) ==
    LET sorted == ByTime(OfFile(events, ref))
        of(d) == LET creates == SelectSeq(sorted, LAMBDA c : Again(d, c))
                 IN  [k \in DOMAIN creates |-> <<d.id, creates[k].id>>]
    IN  FlattenSeq([i \in DOMAIN sorted |-> of(sorted[i])])

\* An event whose directory is another than that of the last event that has one.
Moves(events, ref) ==
    LET placed == SelectSeq(ByTime(OfFile(events, ref)), LAMBDA e : e.parent # 0)
        moved  == SelectSeq([i \in DOMAIN placed |-> i],
                            LAMBDA i : i > 1 /\ placed[i].parent # placed[i - 1].parent)
    IN  [k \in DOMAIN moved |-> placed[moved[k]].id]

Extended(table, Of(_, _), events) ==
    LET new == [r \in {f \in Sortable(events) : Of(events, f) # <<>>} |-> Of(events, r)]
    IN  [r \in DOMAIN table \union DOMAIN new |->
            (IF r \in DOMAIN table THEN table[r] ELSE <<>>) \o (IF r \in DOMAIN new THEN new[r] ELSE <<>>)]

-----------------------------------------------------------------------------
(* The notes of one call.  The list is that of the call, and the renames       *)
(* inferred behind it.                                                         *)

Times_(tag, n) == [k \in 1..n |-> tag]

Recreated(events, e) ==
    Times_("recreated", Cardinality({i \in DOMAIN events : Again(e, events[i]) \/ Again(events[i], e)}))

Moved(events, e) == IF e.ref > 0 /\ e.id \in ToSet(Moves(events, e.ref)) THEN <<"moved">> ELSE <<>>

\* _detect_timestamp_anomalies compares an event with the one of its file before
\* it in the list.
Anomalous(events, i) ==
    LET e      == events[i]
        before == {j \in 1..(i - 1) : events[j].ref = e.ref}
        p      == events[Max(before)]
    IN  IF e.ref = 0 \/ before = {} THEN <<>>
        ELSE IF ~Timed(e) \/ ~Timed(p) THEN <<>>
        ELSE IF e.ts < p.ts THEN <<"reversed">>
        ELSE IF e.ts = p.ts /\ e.type # p.type THEN <<"burst">> ELSE <<>>

Created(events) == {events[i].ref : i \in {j \in DOMAIN events : events[j].type = "CREATED"}}
Orphaned(events, e, noted) ==
    LET orphan == e.ref \notin Created(events)
        said   == \E k \in DOMAIN noted : noted[k] \in {"orphan", "orphan deletion"}
    IN  (IF orphan /\ e.ref > 0 /\ ~said THEN <<"orphan">> ELSE <<>>)
        \o (IF orphan /\ e.type = "DELETED" THEN <<"orphan deletion">> ELSE <<>>)

NotesOf(events, i, noted) ==
    Recreated(events, events[i]) \o Moved(events, events[i]) \o Anomalous(events, i)
        \o Orphaned(events, events[i], noted)

-----------------------------------------------------------------------------
(* Calls *)

Correlate ==
    /\ Calling("correlate") /\ Unsortable(Given) = {}
    /\ \E list \in {Given \o Inferred(Given)} :
        /\ notes' = [i \in DOMAIN notes |->
                        notes[i] \o (IF i \in ToSet(Call.ids)
                                     THEN NotesOf(list, CHOOSE k \in DOMAIN Call.ids : Call.ids[k] = i, notes[i])
                                     ELSE <<>>)]
        /\ Histories
        /\ delete_recreate' = Extended(delete_recreate, Pairs, list)
        /\ parent_moves' = Extended(parent_moves, Moves, list)
        /\ correlated' = Deduplicate(list)
    /\ call_count' = call_count + 1
    /\ UNCHANGED <<evidence, cstep, confident>>

\* A file with a deletion that has no time stops the call; the histories of the
\* files before it are set.  The engine can be called again.
CorrelateRaises ==
    /\ Calling("correlate") /\ Unsortable(Given) # {}
    /\ Histories
    /\ call_count' = call_count + 1 /\ correlated' = <<>>
    /\ UNCHANGED <<evidence, cstep, notes, confident, delete_recreate, parent_moves>>

Near(u, m) == u.ref = m.ref /\ Timed(u) /\ Timed(m) /\ u.ts - m.ts \in -MatchGap..MatchGap

\* match_mft_usn: journal events near an MFT event become certain, with a note
\* for each of these.
Match ==
    /\ Calling("match")
    /\ LET near(i) == {k \in DOMAIN Given : Near(evidence.events[i], Given[k])}
           usn     == ToSet(Call.usn)
       IN  /\ confident' = confident \union {i \in usn : near(i) # {}}
           /\ notes' = [i \in DOMAIN notes |->
                           notes[i] \o (IF i \in usn THEN Times_("matched", Cardinality(near(i))) ELSE <<>>)]
    /\ correlated' = Given \o [k \in DOMAIN Call.usn |-> evidence.events[Call.usn[k]]]
    /\ call_count' = call_count + 1
    /\ UNCHANGED <<evidence, cstep, rename_chains, file_history, delete_recreate, parent_moves>>

CorrelationNext == Correlate \/ CorrelateRaises \/ Match

-----------------------------------------------------------------------------
(* Properties *)

NoteKinds == {"recreated", "moved", "reversed", "burst", "orphan", "orphan deletion", "matched"}

\* Types; an event is called an orphan at most once.
CorrelationTypeOK ==
    /\ cstep \in {"idle", "calling"}
    /\ \A i \in DOMAIN notes :
        /\ ToSet(notes[i]) \subseteq NoteKinds
        /\ Cardinality({k \in DOMAIN notes[i] : notes[i][k] = "orphan"}) <= 1
    /\ DOMAIN rename_chains = DOMAIN file_history

Noted(ids, tag) == FoldSet(LAMBDA i, n : n + Cardinality({k \in DOMAIN notes[i] : notes[i][k] = tag}), 0, ids)
IdsOf(ref, type) ==
    {i \in DOMAIN notes : evidence.events[i].ref = ref /\ evidence.events[i].type = type}

\* Through all calls, the deletions of a file have as many notes of a creation
\* that followed as its creations have of a deletion before, and the table as
\* many pairs; and it has as many moves as its events have notes of one.
NotesMatchTables ==
    \A r \in {evidence.events[i].ref : i \in DOMAIN notes} \ {0} :
        LET pairs == IF r \in DOMAIN delete_recreate THEN Len(delete_recreate[r]) ELSE 0
            moves == IF r \in DOMAIN parent_moves THEN Len(parent_moves[r]) ELSE 0
        IN  /\ Noted(IdsOf(r, "DELETED"), "recreated") = pairs
            /\ Noted(IdsOf(r, "CREATED"), "recreated") = pairs
            /\ Noted({i \in DOMAIN notes : evidence.events[i].ref = r}, "moved") = moves

\* A call gives back every event it was given, or one before it with its key, and
\* what it adds are renames between two of them.  Correlated again, nothing is
\* inferred any more: an inferred rename explains the pair it was made from.
LastCall == evidence.calls[call_count]
ReturnedRight ==
    (call_count > 0 /\ LastCall.kind = "correlate" /\ correlated # <<>>) =>
        /\ \A k \in DOMAIN LastCall.ids : Key(evidence.events[LastCall.ids[k]]) \in KeysOf(correlated)
        /\ \A i \in DOMAIN correlated : correlated[i].id = 0 =>
            \E k, l \in DOMAIN correlated :
                /\ correlated[k].id # 0 /\ correlated[l].id # 0
                /\ correlated[k].ref = correlated[i].ref /\ correlated[l].ref = correlated[i].ref
                /\ correlated[k].name = correlated[i].prev /\ correlated[l].name = correlated[i].name
                /\ correlated[k].ts < correlated[i].ts /\ correlated[i].ts < correlated[l].ts
        /\ Unsortable(correlated) = {} => Inferred(correlated) = <<>>

\* The history of a file is in order and is its chain and its deletions, also
\* after a call that raised.
HistoriesRight ==
    \A r \in DOMAIN file_history :
        /\ Chronological(file_history[r])
        /\ Kept(file_history[r]) = rename_chains[r]

\* In lists that are in order, no event that was given is noted for its time:
\* only renames the engine itself has put behind the list are.
OrderedCalls ==
    \A c \in 1..call_count : \A k, l \in DOMAIN evidence.calls[c].ids :
        k < l => evidence.events[evidence.calls[c].ids[k]].ts <= evidence.events[evidence.calls[c].ids[l]].ts
OnlyDisorderIsNoted == OrderedCalls => Noted(DOMAIN notes, "reversed") = 0

\* What the engine says of the events it was given.
CorrelationRight == NotesMatchTables /\ ReturnedRight /\ HistoriesRight /\ OnlyDisorderIsNoted
=============================================================================
