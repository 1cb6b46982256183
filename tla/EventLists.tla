----------------------------- MODULE EventLists -----------------------------
(***************************************************************************)
(* Forensic events (forensics/models.py) and what the timeline and the     *)
(* correlation engines do with lists of them: group them by file, sort     *)
(* them by time, drop the copies.  An event has its time in half seconds   *)
(* with time zone, or none, its type, its file (the MFT reference, 0 for   *)
(* none), the names, the directory and the source.                         *)
(***************************************************************************)
EXTENDS Integers, Sequences, FiniteSets

CONSTANTS
    NoTime      \* the time of an event without a timestamp, less than any time
ASSUME NoTimeAssumption == NoTime \in Int /\ NoTime < 0

Timed(e) == e.ts # NoTime

\* Without a time an event is compared by datetime.max or datetime.min, which
\* have no time zone: Python compares them with no time that has one.
Mixed(events) == \E i, j \in DOMAIN events : Timed(events[i]) /\ ~Timed(events[j])

\* list.sort and sorted: stable.
StableSort(events, Less(_, _)) ==
    LET before(i) == {j \in DOMAIN events : \/ Less(events[j], events[i])
                                            \/ j < i /\ ~Less(events[i], events[j])}
    IN  [k \in DOMAIN events |-> events[CHOOSE i \in DOMAIN events : Cardinality(before(i)) = k - 1]]

Earlier(a, b) == a.ts < b.ts
ByTime(events) == StableSort(events, Earlier)

\* The events of a file in the order given, and the files in the order of their
\* first event.
OfFile(events, ref) == SelectSeq(events, LAMBDA e : e.ref = ref)
FirstOf(events, i) == \A j \in 1..(i - 1) : events[j].ref # events[i].ref
FilesOf(events) ==
    LET first == SelectSeq([i \in DOMAIN events |-> i], LAMBDA i : events[i].ref > 0 /\ FirstOf(events, i))
    IN  [k \in DOMAIN first |-> events[first[k]].ref]

\* _deduplicate: of the events with one key the first stays.
Key(e) == <<e.ts, e.type, e.ref, e.name, e.source>>
Deduplicate(events) ==
    LET first == SelectSeq([i \in DOMAIN events |-> i],
                           LAMBDA i : \A j \in 1..(i - 1) : Key(events[j]) # Key(events[i]))
    IN  [k \in DOMAIN first |-> events[first[k]]]

KeysOf(events) == {Key(events[i]) : i \in DOMAIN events}
Chronological(events) == \A i, j \in DOMAIN events : i < j => events[i].ts <= events[j].ts
=============================================================================
