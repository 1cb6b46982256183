------------------------------ MODULE LogFile ------------------------------
(***************************************************************************)
(* The transaction log of NTFS (filesystems/ntfs/logfile): the pages with  *)
(* the magic RCRD are looked for in the bytes of $LogFile, and from behind *)
(* the header of each the records are read one after the other (parser.py, *)
(* records.py).  Nothing stops a pass at the end of its page.              *)
(***************************************************************************)
EXTENDS Integers, Sequences, FiniteSets, SequencesExt

CONSTANTS
    PageSize,       \* 4096 bytes
    PageHeader,     \* 32
    MinLog,         \* 48
    MaxLog,         \* 65536: what a bad length is cut to
    Logs            \* the logs to read, see LogAssumption

\* A log has its length, the pages that begin with the magic, the length field
\* at some positions (zero at the others) and the max_records it is read with.
ASSUME LogAssumption ==
    /\ {PageSize, PageHeader, MinLog, MaxLog} \subseteq Nat \ {0}
    /\ MinLog <= MaxLog
    /\ \A g \in Logs :
        /\ g.len \in Nat /\ g.max \in Nat
        /\ g.magic \subseteq {i * PageSize : i \in 0..g.len}
        /\ DOMAIN g.lengths \subseteq 0..g.len
        /\ \A p \in DOMAIN g.lengths : g.lengths[p] \in Nat

VARIABLES
    log,
    lstep,          \* "idle", "pages", "pass" or "done"
    pages,          \* the offsets of _find_record_pages
    at_page,
    lpos, tries,    \* pos and iterations of parse_log_records
    entries         \* the records: where each is, its length and its page

logVars == <<log, lstep, pages, at_page, lpos, tries, entries>>

LogOff == pages = <<>> /\ at_page = 1 /\ lpos = 0 /\ tries = 0 /\ entries = <<>>
LogInit == log \in Logs /\ lstep = "pages" /\ LogOff
LogIdle == lstep = "idle" /\ LogOff

-----------------------------------------------------------------------------

Smaller(a, b) == IF a <= b THEN a ELSE b

\* parse_log_record: a length that cannot be is cut to what is left.
RecordLength(p) ==
    LET remaining == log.len - p
        length    == IF p \in DOMAIN log.lengths THEN log.lengths[p] ELSE 0
    IN  IF length < MinLog \/ length > remaining THEN Smaller(remaining, MaxLog) ELSE length

\* _find_record_pages: the pages in order, those with the magic; a magic cut by the
\* end of the data is none.
RecordPages ==
    LET upto[i \in 0..log.len] ==
            IF i = 0 THEN <<>>
            ELSE IF (i - 1) * PageSize \in log.magic THEN Append(upto[i - 1], (i - 1) * PageSize)
            ELSE upto[i - 1]
    IN  upto[log.len]

FindPages ==
    /\ lstep = "pages"
    /\ pages' = RecordPages
    /\ lstep' = "pass"
    /\ UNCHANGED <<log, at_page, lpos, tries, entries>>

\* _parse_page_records: before a page, what is left of max_records; none left
\* ends the loop, and zero means no limit.
Left == log.max - Len(entries)
Starting == lstep = "pass" /\ at_page \in DOMAIN pages /\ lpos = 0 /\ (log.max = 0 \/ Left > 0)

StartPage ==
    /\ Starting
    /\ lpos' = pages[at_page] + PageHeader
    /\ tries' = IF log.max = 0 THEN log.len \div MinLog ELSE Left
    /\ UNCHANGED <<log, lstep, pages, at_page, entries>>

\* A pass of parse_log_records; tries is what its iterations may still be.
Passing == lstep = "pass" /\ lpos > 0
MoreLog == lpos + MinLog <= log.len /\ tries > 0

NewEntry == [at |-> lpos, len |-> RecordLength(lpos), page |-> at_page]

ReadEntry ==
    /\ Passing /\ MoreLog
    /\ entries' = Append(entries, NewEntry)
    /\ lpos' = lpos + RecordLength(lpos)
    /\ tries' = tries - 1
    /\ UNCHANGED <<log, lstep, pages, at_page>>

PassOver ==
    /\ Passing /\ ~MoreLog
    /\ at_page' = at_page + 1 /\ lpos' = 0 /\ tries' = 0
    /\ UNCHANGED <<log, lstep, pages, entries>>

LogOver ==
    /\ lstep = "pass" /\ lpos = 0 /\ ~Starting
    /\ lstep' = "done"
    /\ UNCHANGED <<log, pages, at_page, lpos, tries, entries>>

LogNext == FindPages \/ StartPage \/ ReadEntry \/ PassOver \/ LogOver
LogSpec == LogInit /\ [][LogNext]_logVars
FairLogSpec == LogSpec /\ WF_logVars(LogNext)

-----------------------------------------------------------------------------
(* Properties *)

\* Types; never more records than were asked for.
LogTypeOK ==
    /\ lstep \in {"idle", "pages", "pass", "done"}
    /\ at_page \in 1..Len(pages) + 1
    /\ log.max > 0 => Len(entries) <= log.max

\* However the length fields are damaged, every record is inside the data and
\* the records of a pass do not overlap.
EntriesInside ==
    \A i \in DOMAIN entries :
        /\ entries[i].at + entries[i].len <= log.len
        /\ (i > 1 /\ entries[i - 1].page = entries[i].page) =>
            entries[i - 1].at + entries[i - 1].len <= entries[i].at

\* A pass goes on through the pages behind its own, so a record is read once
\* for every page at or before it, and never more often.
OncePerPage ==
    \A i \in DOMAIN entries :
        LET same == {j \in DOMAIN entries : entries[j].at = entries[i].at}
        IN  /\ \A j, k \in same : j # k => entries[j].page # entries[k].page
            /\ Cardinality(same) <= Cardinality({n \in DOMAIN pages : pages[n] < entries[i].at})

\* The passes over a damaged log read records of it, and none too often.
LogIsRead == EntriesInside /\ OncePerPage

\* Reading the log ends ("no infinite loops", CHANGELOG.md:107).
LogEnds == <>(lstep \in {"idle", "done"})
=============================================================================
