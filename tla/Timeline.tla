------------------------------ MODULE Timeline ------------------------------
(***************************************************************************)
(* Timeline (forensics/timeline.py) and the commands that fill it from the *)
(* MFT and the change journal and read it: `forensic timeline`, `export`   *)
(* and `summary` (cli/commands/forensic.py, sources.py).                   *)
(***************************************************************************)
EXTENDS EventLists, SequencesExt

CONSTANTS
    Collections,    \* sequences of the lists that are added one after the other
    Questions       \* filters, see QuestionAssumption

\* A bound on the time may be written with a time zone or without, or be none
\* ("") or not readable ("bad").
ASSUME QuestionAssumption ==
    \A q \in Questions :
        /\ q.since.zone \in {"", "bad", "naive", "aware"}
        /\ q.until.zone \in {"", "bad", "naive", "aware"}
        /\ q.limit \in Nat /\ q.deleted \in BOOLEAN /\ q.confidence \in Nat

VARIABLES
    pending,    \* lists still to be added
    collected,      \* all events added, in that order
    timeline,   \* Timeline._events
    built,      \* Timeline._built
    tstep,      \* "idle", "collect", "raised" or "told"
    told        \* the answer

timelineVars == <<pending, collected, timeline, built, tstep, told>>
NoAnswer == [filtered |-> <<>>, listed |-> <<>>, sources |-> <<>>, types |-> <<>>, range |-> <<>>]

TimelineOff == tstep = "idle" /\ pending = <<>> /\ collected = <<>> /\ timeline = <<>> /\ built = FALSE /\ told = NoAnswer
TimelineInit ==
    /\ pending \in Collections
    /\ collected = <<>> /\ timeline = <<>> /\ built = FALSE /\ told = NoAnswer /\ tstep = "collect"

-----------------------------------------------------------------------------
(* collect_mft_events: what a record of the MFT becomes *)

\* A file that is deleted has no time of deletion.
RecordEvents(r) ==
    LET event(t, type, parent) ==
            [ts |-> t, type |-> type, ref |-> r.number, name |-> r.name, prev |-> "",
             parent |-> parent, source |-> "MFT", confidence |-> 80]
    IN  IF r.dir THEN <<>>
        ELSE (IF r.created # NoTime THEN <<event(r.created, "CREATED", r.parent)>> ELSE <<>>)
          \o (IF r.modified # NoTime /\ r.modified # r.created
              THEN <<event(r.modified, "MODIFIED", 0)>> ELSE <<>>)
          \o (IF r.deleted THEN <<event(NoTime, "DELETED", r.parent)>> ELSE <<>>)
CollectMft(records) == FlattenSeq([i \in DOMAIN records |-> RecordEvents(records[i])])

-----------------------------------------------------------------------------
(* Timeline *)

Precedes(a, b) ==
    IF a.ts = b.ts THEN a.ref < b.ref ELSE Timed(a) /\ (~Timed(b) \/ a.ts < b.ts)
Build(events) == Deduplicate(StableSort(events, Precedes))

\* Mutant: what was built stays built.
AddListBuilt ==
    /\ tstep = "collect" /\ pending # <<>>
    /\ pending' = Tail(pending)
    /\ collected' = collected \o Head(pending) /\ timeline' = timeline \o Head(pending)
    /\ built' = built
    /\ UNCHANGED <<tstep, told>>

AddList ==
    /\ tstep = "collect" /\ pending # <<>>
    /\ pending' = Tail(pending)
    /\ collected' = collected \o Head(pending) /\ timeline' = timeline \o Head(pending)
    /\ built' = FALSE
    /\ UNCHANGED <<tstep, told>>

\* The property `events` builds when something was added since it last did.
Readable_ == built \/ ~Mixed(timeline)
Events_ == IF built THEN timeline ELSE Build(timeline)

ReadEvents ==
    /\ tstep = "collect" /\ ~built /\ Readable_
    /\ timeline' = Events_ /\ built' = TRUE
    /\ UNCHANGED <<pending, collected, tstep, told>>

\* sort raises, and no command catches it.
ReadRaises ==
    /\ tstep = "collect" /\ ~Readable_
    /\ tstep' = "raised"
    /\ UNCHANGED <<pending, collected, timeline, built, told>>

Filter(events, q) ==
    SelectSeq(events, LAMBDA e :
        /\ q.types # {} => e.type \in q.types
        /\ q.sources # {} => e.source \in q.sources
        /\ q.ref # -1 => e.ref = q.ref
        /\ q.since.zone \in {"naive", "aware"} => Timed(e) /\ e.ts >= q.since.at
        /\ q.until.zone \in {"naive", "aware"} => Timed(e) /\ e.ts <= q.until.at
        /\ e.confidence >= q.confidence
        /\ q.deleted => e.type = "DELETED")

\* The commands have filters of their own; a bound that is not readable is none.
WithinBounds(events, q) ==
    SelectSeq(events, LAMBDA e :
        /\ q.since.zone \in {"naive", "aware"} => Timed(e) /\ e.ts >= q.since.at
        /\ q.until.zone \in {"naive", "aware"} => Timed(e) /\ e.ts <= q.until.at)
Listed(events, q) ==
    IF q.limit > 0 THEN SubSeq(WithinBounds(events, q), 1, Min({q.limit, Len(WithinBounds(events, q))}))
    ELSE WithinBounds(events, q)

\* A bound without a time zone is compared with times that have one.
BoundRaises(events, q) ==
    \/ q.since.zone = "naive" /\ \E i \in DOMAIN events : Timed(events[i])
    \/ q.until.zone = "naive" /\ \E i \in DOMAIN WithinBounds(events, [q EXCEPT !.until.zone = ""]) :
            Timed(WithinBounds(events, [q EXCEPT !.until.zone = ""])[i])

Tally(events, Field(_)) ==
    LET values == {Field(events[i]) : i \in DOMAIN events}
    IN  [v \in values |-> Cardinality({i \in DOMAIN events : Field(events[i]) = v})]
TimesOf(events) == {events[i].ts : i \in {j \in DOMAIN events : Timed(events[j])}}
Span(events) == IF TimesOf(events) = {} THEN <<>> ELSE <<Min(TimesOf(events)), Max(TimesOf(events))>>

\* Listing and metadata: the metadata are those of the whole timeline.
Answer(q) ==
    /\ tstep = "collect" /\ pending = <<>> /\ Readable_ /\ ~BoundRaises(Events_, q)
    /\ timeline' = Events_ /\ built' = TRUE
    /\ told' = [filtered |-> Filter(Events_, q), listed |-> Listed(Events_, q),
                sources |-> Tally(Events_, LAMBDA e : e.source),
                types |-> Tally(Events_, LAMBDA e : e.type), range |-> Span(Events_)]
    /\ tstep' = "told"
    /\ UNCHANGED <<pending, collected>>

AnswerRaises(q) ==
    /\ tstep = "collect" /\ pending = <<>> /\ Readable_ /\ BoundRaises(Events_, q)
    /\ timeline' = Events_ /\ built' = TRUE
    /\ tstep' = "raised"
    /\ UNCHANGED <<pending, collected, told>>

TimelineNext ==
    \/ AddList \/ ReadEvents \/ ReadRaises
    \/ \E q \in Questions : Answer(q) \/ AnswerRaises(q)

-----------------------------------------------------------------------------
(* Properties *)

\* Types; once built, the timeline has no two events with one key.
TimelineTypeOK ==
    /\ tstep \in {"idle", "collect", "raised", "told"} /\ built \in BOOLEAN
    /\ Len(timeline) <= Len(collected)
    /\ built => Cardinality(KeysOf(timeline)) = Len(timeline)

\* A built timeline is in order of time, events without a time at its end, and
\* has exactly the events added, of copies the one added first.
InOrder ==
    built =>
        /\ \A i, j \in DOMAIN timeline : i < j => ~Precedes(timeline[j], timeline[i])
        /\ \A k \in DOMAIN collected : \E i \in DOMAIN timeline :
            /\ Key(timeline[i]) = Key(collected[k])
            /\ \A l \in DOMAIN collected : Key(collected[l]) = Key(collected[k]) =>
                \E m \in 1..l : collected[m] = timeline[i]

\* Reading between two additions changes nothing of the timeline read later.
SameHoweverRead == built => timeline = Build(collected)

\* What is told is of the timeline: the filter of Timeline and that of the
\* commands agree on bounds, a limit takes the earliest, every event is counted
\* once by source and once by type, and none listed is outside of the range.
Agreeing(q) ==
    q.types = {} /\ q.sources = {} /\ q.ref = -1 /\ q.confidence = 0 /\ ~q.deleted
Total_(tally) == FoldSet(LAMBDA v, n : n + tally[v], 0, DOMAIN tally)
ToldRight ==
    tstep = "told" =>
        /\ \A i \in DOMAIN told.filtered : told.filtered[i] \in ToSet(timeline)
        /\ \E q \in Questions :
            /\ told.filtered = Filter(timeline, q) /\ told.listed = Listed(timeline, q)
            /\ Agreeing(q) => IsPrefix(told.listed, told.filtered)
                                /\ (q.limit = 0 => told.listed = told.filtered)
        /\ Total_(told.sources) = Len(timeline) /\ Total_(told.types) = Len(timeline)
        /\ \A i \in DOMAIN told.listed : Timed(told.listed[i]) =>
            told.range[1] <= told.listed[i].ts /\ told.listed[i].ts <= told.range[2]

\* The timeline is what was added, however and whenever it is read.
TimelineRight == InOrder /\ SameHoweverRead /\ ToldRight
=============================================================================
