----------------------------- MODULE UsnJournal -----------------------------
(***************************************************************************)
(* The change journal of NTFS (filesystems/ntfs/usn): records are looked   *)
(* for in the bytes of $J (records.py), then made into events, an old name *)
(* with the new one that follows it (mapping.py).  Lengths and positions   *)
(* are in the words of four bytes that the search moves by.                *)
(***************************************************************************)
EXTENDS Integers, Sequences, FiniteSets, SequencesExt

CONSTANTS
    MinRecord,      \* 24 bytes
    HeaderEnd,      \* 60 bytes: the fields that are read before the name
    Journals        \* the journals to read, see JournalAssumption

\* A journal has its length and, at some positions, a record with its length,
\* its file reference and its reason flags.
Flags == {"create", "delete", "close", "old", "new", "data", "security", "basic", "ea"}

ASSUME JournalAssumption ==
    /\ MinRecord \in Nat \ {0} /\ HeaderEnd \in Nat
    /\ \A j \in Journals :
        /\ j.len \in Nat /\ DOMAIN j.heads \subseteq 0..(j.len - 1)
        /\ \A p \in DOMAIN j.heads : j.heads[p].len \in Nat /\ j.heads[p].reason \subseteq Flags

VARIABLES
    journal,
    ustep,          \* "idle", "scan", "map", "left" or "done"
    upos, iterations,
    found,          \* positions of the records found
    at_record,      \* the record being mapped
    rename_pairs,   \* a dict in order of insertion: <<reference, position>>
    events          \* with the record of each, and that of previous_filename

usnVars == <<journal, ustep, upos, iterations, found, at_record, rename_pairs, events>>

UsnOff ==
    /\ upos = 0 /\ iterations = 0 /\ found = <<>>
    /\ at_record = 1 /\ rename_pairs = <<>> /\ events = <<>>

UsnInit == journal \in Journals /\ ustep = "scan" /\ UsnOff
UsnIdle == ustep = "idle" /\ UsnOff

None == -1
Head_(p) == journal.heads[p]

-----------------------------------------------------------------------------
(* parse_usn_records *)

\* parse_usn_record finds one: long enough, and it and its fields are inside
\* the data.
RecordAt(p) ==
    /\ p \in DOMAIN journal.heads
    /\ Head_(p).len \in MinRecord..(journal.len - p)
    /\ p + HeaderEnd <= journal.len

MaxIterations == journal.len \div MinRecord

Searching == ustep = "scan" /\ upos + MinRecord <= journal.len /\ iterations < MaxIterations

TakeRecord ==
    /\ Searching /\ RecordAt(upos)
    /\ found' = Append(found, upos)
    /\ upos' = upos + Head_(upos).len /\ iterations' = iterations + 1
    /\ UNCHANGED <<journal, ustep, at_record, rename_pairs, events>>

\* A word that begins no record counts as an iteration like a record.
SkipWord ==
    /\ Searching /\ ~RecordAt(upos)
    /\ upos' = upos + 1 /\ iterations' = iterations + 1
    /\ UNCHANGED <<journal, ustep, found, at_record, rename_pairs, events>>

ScanOver ==
    /\ ustep = "scan" /\ ~Searching
    /\ ustep' = "map"
    /\ UNCHANGED <<journal, upos, iterations, found, at_record, rename_pairs, events>>

-----------------------------------------------------------------------------
(* map_usn_records, usn_to_event *)

Rec == found[at_record]
Old(p) == "old" \in Head_(p).reason
New(p) == "new" \in Head_(p).reason /\ ~Old(p)
PairOf(ref) == SelectInSeq(rename_pairs, LAMBDA pair : pair[1] = ref)
Pair == PairOf(Head_(Rec).ref)

\* The type of an event; a deletion that closes the file is no deletion, and
\* what comes after "data" in the code (overwritten, truncated) is never reached.
EventType(reason) ==
    CASE "create" \in reason -> "FILE_CREATED"
      [] "create" \notin reason /\ "delete" \in reason /\ "close" \notin reason -> "FILE_DELETED"
      [] OTHER ->
        IF reason \cap {"old", "new"} # {} THEN "FILE_RENAMED"
        ELSE IF "data" \in reason THEN "FILE_MODIFIED"
        ELSE IF reason \cap {"security", "basic", "ea"} # {} THEN "ATTRIBUTE_CHANGED"
        ELSE "JOURNAL_ENTRY"

Event(p, previous) == [record |-> p, type |-> EventType(Head_(p).reason), previous |-> previous]
NextRecord == at_record' = at_record + 1

\* Mutant: an old name that waits already is kept.
MapOldFirst ==
    /\ ustep = "map" /\ at_record \in DOMAIN found /\ Old(Rec)
    /\ rename_pairs' = IF Pair = 0 THEN Append(rename_pairs, <<Head_(Rec).ref, Rec>>) ELSE rename_pairs
    /\ events' = Append(events, Event(Rec, None))
    /\ NextRecord
    /\ UNCHANGED <<journal, ustep, upos, iterations, found>>

\* An old name waits for its new one, in the place of one that waits already,
\* and is told at once all the same.
MapOld ==
    /\ ustep = "map" /\ at_record \in DOMAIN found /\ Old(Rec)
    /\ rename_pairs' = IF Pair = 0 THEN Append(rename_pairs, <<Head_(Rec).ref, Rec>>)
                       ELSE [rename_pairs EXCEPT ![Pair] = <<Head_(Rec).ref, Rec>>]
    /\ events' = Append(events, Event(Rec, None))
    /\ NextRecord
    /\ UNCHANGED <<journal, ustep, upos, iterations, found>>

MapNew ==
    /\ ustep = "map" /\ at_record \in DOMAIN found /\ New(Rec) /\ Pair # 0
    /\ rename_pairs' = RemoveAt(rename_pairs, Pair)
    /\ LET old == rename_pairs[Pair][2]
       IN  events' = events \o <<Event(old, None), Event(Rec, old)>>
    /\ NextRecord
    /\ UNCHANGED <<journal, ustep, upos, iterations, found>>

MapOther ==
    /\ ustep = "map" /\ at_record \in DOMAIN found /\ ~Old(Rec) /\ ~(New(Rec) /\ Pair # 0)
    /\ events' = Append(events, Event(Rec, None))
    /\ NextRecord
    /\ UNCHANGED <<journal, ustep, upos, iterations, found, rename_pairs>>

\* What still waits is told once more.
MapLeft ==
    /\ ustep = "map" /\ at_record \notin DOMAIN found
    /\ events' = events \o [i \in DOMAIN rename_pairs |-> Event(rename_pairs[i][2], None)]
    /\ ustep' = "done"
    /\ UNCHANGED <<journal, upos, iterations, found, at_record, rename_pairs>>

UsnNext == TakeRecord \/ SkipWord \/ ScanOver \/ MapOld \/ MapNew \/ MapOther \/ MapLeft
UsnSpec == UsnInit /\ [][UsnNext]_usnVars
FairUsnSpec == UsnSpec /\ WF_usnVars(UsnNext)

-----------------------------------------------------------------------------
(* Properties *)

\* Types.
UsnTypeOK ==
    /\ ustep \in {"idle", "scan", "map", "done"}
    /\ iterations \in 0..MaxIterations /\ upos \in 0..journal.len
    /\ at_record \in 1..Len(found) + 1

\* Records that were found do not overlap and come in the order of the journal.
RecordsApart ==
    \A i \in 1..(Len(found) - 1) : found[i] + Head_(found[i]).len <= found[i + 1]

\* Records of the journal in the sense of the format: one after the other from
\* the first on, with words in between that begin none.
Chained ==
    {p \in 0..(journal.len - 1) :
        RecordAt(p) /\ \A q \in 0..(p - 1) : RecordAt(q) => q + Head_(q).len <= p}
Between == journal.len - Cardinality(UNION {p..(p + Head_(p).len - 1) : p \in Chained})

\* A journal whose records and gaps fit the bound of the loop is read whole;
\* the gap of a journal's released front does not fit it.
GapsAreCrossed ==
    (ustep = "map" /\ Cardinality(Chained) + Between <= MaxIterations) => Chained \subseteq {found[i] : i \in DOMAIN found}

\* The search finds the records of the journal.
JournalIsRead == RecordsApart /\ GapsAreCrossed

Times(p) == Cardinality({i \in DOMAIN events : events[i].record = p})

\* Every record has an event, and only an old name has two.
EveryRecordTold ==
    ustep = "done" =>
        \A i \in DOMAIN found : Times(found[i]) \in (IF Old(found[i]) THEN 1..2 ELSE {1})

\* The old name a new one is paired with is the last one of its file, and no
\* other new name of the file is between them.  The flags of a file add up until
\* it is closed: a pair is told as a rename unless it was created or deleted.
RenamesPaired ==
    \A i \in DOMAIN events : events[i].previous # None =>
        LET old == events[i].previous
            new == events[i].record
        IN  /\ Old(old) /\ New(new) /\ old < new
            /\ Head_(old).ref = Head_(new).ref
            /\ Head_(new).reason \cap {"create", "delete"} = {} => events[i].type = "FILE_RENAMED"
            /\ \A k \in DOMAIN found :
                (old < found[k] /\ found[k] < new /\ Head_(found[k]).ref = Head_(old).ref)
                    => ~Old(found[k]) /\ ~New(found[k])

\* The events of a journal tell its records and its renames.
EventsRight == EveryRecordTold /\ RenamesPaired

\* The journal is searched and told.
UsnRight == JournalIsRead /\ EventsRight

\* The search ends for any bytes ("no infinite loops", CHANGELOG.md:107).
UsnEnds == <>(ustep \in {"idle", "done"})
=============================================================================
