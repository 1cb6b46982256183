-------------------------- MODULE ThreadedScanner --------------------------
(***************************************************************************)
(* core/scanner/threaded_scanner.py: the source is cut into overlapping    *)
(* regions, one thread scans each, and the results are merged in the order *)
(* of the regions.  The threads share one RawReader, whose read_at is a    *)
(* seek and a read of the same file handle.                                *)
(***************************************************************************)
EXTENDS Carving, SequencesExt

CONSTANTS
    ThreadSetups,   \* the sources and scanners to look at, see ThreadedAssumption
    REGION_OVERLAP, \* what a thread keeps of a window, whatever self.overlap
    ReadSize        \* the 4 MB a thread reads at a time

ASSUME ThreadedAssumption ==
    /\ \A s \in ThreadSetups :
        /\ s.image \in Seq(Byte) /\ s.carvers \in Seq(Kinds)
        /\ s.num_threads \in Nat \ {0} /\ s.overlap \in Nat \ {0}
        /\ s.faults \in BOOLEAN
    /\ ReadSize \in Nat \ {0} /\ REGION_OVERLAP \in Nat \ {0}

VARIABLES
    source, region_carvers, num_threads, region_overlap,    \* of the scanner
    faults,     \* whether a read may raise
    handle,     \* the position of the shared file handle
    pc,         \* region -> "seek", "read", "done" or "dead"
    pos, buffers, local_results, last_found_ends,   \* region -> its locals
    completed,  \* the counter of _progress
    all_files, joined

setup == <<source, region_carvers, num_threads, region_overlap, faults>>
locals == <<pos, buffers, local_results, last_found_ends>>
threadVars == <<setup, handle, pc, locals, completed, all_files, joined>>

source_size == Len(source)

-----------------------------------------------------------------------------
(* _partition, of n bytes among t threads with overlap o *)

Lesser(a, b) == IF a <= b THEN a ELSE b

ChunkOf(n, t, o) == IF n \div t < o THEN o ELSE n \div t

RegionEndOf(n, t, o, i) ==
    IF i < t - 1 THEN Lesser(i * ChunkOf(n, t, o) + ChunkOf(n, t, o) + o, n) ELSE n

\* Regions that only touch.
RegionsApart(n, t, o) ==
    IF n = 0 THEN {}
    ELSE IF t = 1 \/ n < 2 * o THEN {[id |-> 0, start |-> 0, end |-> n]}
    ELSE {[id |-> i, start |-> i * ChunkOf(n, t, o), end |-> Lesser((i + 1) * ChunkOf(n, t, o), n)] :
              i \in {j \in 0..t - 1 : j * ChunkOf(n, t, o) < n}}

\* Region i begins at i chunks and reaches an overlap into its successor; the
\* regions that would begin at or after the end are left out.
Regions(n, t, o) ==
    IF n = 0 THEN {}
    ELSE IF t = 1 \/ n < 2 * o THEN {[id |-> 0, start |-> 0, end |-> n]}
    ELSE {[id |-> i, start |-> i * ChunkOf(n, t, o), end |-> RegionEndOf(n, t, o, i)] :
              i \in {j \in 0..t - 1 : j * ChunkOf(n, t, o) < n}}

regions == Regions(source_size, num_threads, region_overlap)
RegionIds == {r.id : r \in regions}
Region(i) == CHOOSE r \in regions : r.id = i

ThreadInit ==
    /\ \E s \in ThreadSetups :
        /\ source = s.image /\ region_carvers = s.carvers
        /\ num_threads = s.num_threads /\ region_overlap = s.overlap /\ faults = s.faults
    /\ handle = 0
    /\ pc = [i \in RegionIds |-> "seek"]
    /\ pos = [i \in RegionIds |-> Region(i).start]
    /\ buffers = [i \in RegionIds |-> <<>>]
    /\ local_results = [i \in RegionIds |-> <<>>]
    /\ last_found_ends = [i \in RegionIds |-> Region(i).start]
    /\ completed = 0 /\ all_files = <<>> /\ joined = FALSE

-----------------------------------------------------------------------------
(* _scan_region_data *)

\* The first half of read_at: the handle is moved where this thread wants it.
SeekTo(i) ==
    /\ pc[i] = "seek"
    /\ pos[i] < Region(i).end
    /\ handle' = pos[i]
    /\ pc' = [pc EXCEPT ![i] = "read"]
    /\ UNCHANGED <<setup, locals, completed, all_files, joined>>

\* One result of a carver, moved by the start of the region.
KeepInRegion(region, found, result) ==
    LET file == [result EXCEPT !.start = region.start + result.start,
                               !.end = region.start + result.end]
    IN  IF file.start < found.end \/ file.end > region.end THEN found
        ELSE [files |-> Append(found.files, file), end |-> file.end]

KeepEachInRegion(region, found, results) ==
    FoldLeft(LAMBDA acc, r : KeepInRegion(region, acc, r), found, results)

RegionResults(data) ==
    FlattenSeq([i \in DOMAIN region_carvers |-> Carve(region_carvers[i], data)])

\* A tail one byte short.
LastBytesShort(data, n) ==
    IF Len(data) > n - 1 THEN Slice(data, Len(data) - n + 1, Len(data)) ELSE data

LastBytes(data, n) ==
    IF Len(data) > n THEN Slice(data, Len(data) - n, Len(data)) ELSE data

\* _progress takes the position in the file while the counter is short of the
\* size, and adds the position to it afterwards.
Progress(old, p) == IF old < source_size THEN p ELSE old + p

\* The second half: the bytes where the handle is now, and the rest of the
\* iteration, which touches locals of the thread and the locked counter only.
ReadWindow(i) ==
    /\ pc[i] = "read"
    /\ LET region == Region(i)
           chunk  == Slice(source, handle, Lesser(handle + Lesser(ReadSize, region.end - pos[i]), source_size))
       IN  /\ chunk # <<>>
           /\ \E data \in {buffers[i] \o chunk} : \E results \in {RegionResults(data)} :
              LET found == KeepEachInRegion(region, [files |-> local_results[i], end |-> last_found_ends[i]],
                                    results)
              IN  /\ local_results' = [local_results EXCEPT ![i] = found.files]
                  /\ last_found_ends' = [last_found_ends EXCEPT ![i] = found.end]
                  /\ buffers' = [buffers EXCEPT ![i] = LastBytes(data, REGION_OVERLAP)]
           /\ handle' = handle + Len(chunk)
           /\ pos' = [pos EXCEPT ![i] = @ + Len(chunk)]
           /\ completed' = Progress(completed, pos[i] + Len(chunk))
    /\ pc' = [pc EXCEPT ![i] = "seek"]
    /\ UNCHANGED <<setup, all_files, joined>>

\* Another thread left the handle at the end of the file: this one stops early.
ReadNothing(i) ==
    /\ pc[i] = "read"
    /\ handle >= source_size
    /\ pc' = [pc EXCEPT ![i] = "done"]
    /\ UNCHANGED <<setup, handle, locals, completed, all_files, joined>>

\* An error of the reader ends the thread before it stores a RegionResult.
ReadRaises(i) ==
    /\ faults
    /\ pc[i] = "read"
    /\ pc' = [pc EXCEPT ![i] = "dead"]
    /\ UNCHANGED <<setup, handle, locals, completed, all_files, joined>>

\* A loop that wants to pass the end of its region.
RegionEndPast(i) ==
    /\ pc[i] = "seek"
    /\ pos[i] > Region(i).end
    /\ pc' = [pc EXCEPT ![i] = "done"]
    /\ UNCHANGED <<setup, handle, locals, completed, all_files, joined>>

RegionEnd(i) ==
    /\ pc[i] = "seek"
    /\ pos[i] >= Region(i).end
    /\ pc' = [pc EXCEPT ![i] = "done"]
    /\ UNCHANGED <<setup, handle, locals, completed, all_files, joined>>

-----------------------------------------------------------------------------
(* The end of scan(): join and merge *)

\* A file that begins before the last one kept ends is dropped.
Merge(kept, file) ==
    IF kept # <<>> /\ file.start < kept[Len(kept)].end THEN kept ELSE Append(kept, file)

Merged(files) == FoldLeft(LAMBDA kept, f : Merge(kept, f), <<>>, files)

\* The stable sort by offset_start.
ByStart(files) ==
    LET order == CHOOSE p \in [DOMAIN files -> DOMAIN files] :
                    \A i, j \in DOMAIN files : i < j =>
                        \/ files[p[i]].start < files[p[j]].start
                        \/ files[p[i]].start = files[p[j]].start /\ p[i] < p[j]
    IN  [i \in DOMAIN files |-> files[order[i]]]

\* Threads that died left None.
Reported(i) == IF pc[i] = "done" THEN local_results[i] ELSE <<>>

Join ==
    /\ ~joined
    /\ \A i \in RegionIds : pc[i] \in {"done", "dead"}
    /\ joined' = TRUE
    /\ LET inOrder == [n \in 1..Cardinality(RegionIds) |-> Reported(n - 1)]
       IN  all_files' = ByStart(Merged(FlattenSeq(inOrder)))
    /\ UNCHANGED <<setup, handle, pc, locals, completed>>

Thread(i) ==
    SeekTo(i) \/ ReadWindow(i) \/ ReadNothing(i) \/ ReadRaises(i) \/ RegionEnd(i)

ThreadNext == (\E i \in RegionIds : Thread(i)) \/ Join

ThreadSpec == ThreadInit /\ [][ThreadNext]_threadVars

-----------------------------------------------------------------------------
(* Properties *)

\* Types; the locals of a thread stay inside its region.
ThreadTypeOK ==
    /\ handle \in 0..source_size
    /\ \A i \in RegionIds :
        /\ pc[i] \in {"seek", "read", "done", "dead"}
        /\ pos[i] \in Region(i).start..Region(i).end
        /\ last_found_ends[i] \in Region(i).start..Region(i).end
        /\ Len(buffers[i]) <= REGION_OVERLAP

\* Every span of one byte more than the overlap lies inside one region, so a
\* file of that size is seen whole by some thread (_partition).
RegionsCover ==
    \A s \in 0..source_size - 1 :
        \E r \in regions : r.start <= s /\ Lesser(s + region_overlap + 1, source_size) <= r.end

\* The merged files ascend and share no byte, whatever the threads read.
MergedDisjoint ==
    \A i, j \in DOMAIN all_files : i < j => all_files[i].end <= all_files[j].start

\* A source scanned as one region of at most two reads yields what a carver that
\* looks for footers finds in the whole image (_scan_region_data, before a window
\* is ever cut).  One that reads a size may find more in the first read alone.
OneRegionExact ==
    (joined /\ Cardinality(RegionIds) = 1 /\ Len(region_carvers) = 1 /\ region_carvers[1] \notin Sized
        /\ source_size <= 2 * ReadSize /\ REGION_OVERLAP >= ReadSize /\ pc[0] = "done") =>
        all_files = Carve(region_carvers[1], source)

\* What scan() returns, in any interleaving.
MergedRight == MergedDisjoint /\ OneRegionExact

\* Every thread ends and scan() returns, faults and stolen reads included.
ScanReturns == <>joined

\* The bytes of a reported file are those of the source at the offsets reported
\* for it (CarvedFile.offset_start and offset_end).
GenuineOffsets ==
    \A i \in DOMAIN all_files :
        all_files[i].data = Slice(source, all_files[i].start, all_files[i].end)

=============================================================================
