-------------------------- MODULE StreamingScanner --------------------------
(***************************************************************************)
(* The chunked scan of core/carving/streaming.py, and of                   *)
(* core/scanner/mmap_scanner.py in front of it: read a chunk behind what   *)
(* is kept of the last window, run every carver over the window, keep its  *)
(* tail.  The two loops are the same but for the way a chunk is obtained.  *)
(***************************************************************************)
EXTENDS Carving, SequencesExt

CONSTANTS
    Setups,     \* the sources and scanners to look at, see ScannerAssumption
    Page,       \* mmap wants its offset to be a multiple of this
    MmapFaults  \* whether a mapping may fail for a reason of the system's

\* reader.size is taken at open(): a file cut short later leaves it behind.
ASSUME ScannerAssumption ==
    /\ \A s \in Setups :
        /\ s.image \in Seq(Byte) /\ s.carvers \in Seq(Kinds)
        /\ s.size \in Nat /\ s.size >= Len(s.image)
        /\ s.chunk_size \in Nat \ {0} /\ s.overlap \in Nat
        /\ s.mode \in {"mmap", "streaming"}
    /\ Page \in Nat \ {0} /\ MmapFaults \in BOOLEAN

VARIABLES
    image, size,    \* the bytes there are, and reader.size
    carvers, chunk_size, overlap,
    mode,           \* "mmap", "streaming" or "done"
    buffer, buffer_base,
    file_cursor,    \* file_pos in MmapScanner
    all_results, last_found_end

config == <<image, size, carvers, chunk_size, overlap>>
window == <<buffer, buffer_base, file_cursor, all_results, last_found_end>>
scanVars == <<config, mode, window>>

Least(a, b) == IF a <= b THEN a ELSE b

ScanInit ==
    /\ \E s \in Setups :
        /\ image = s.image /\ size = s.size /\ carvers = s.carvers
        /\ chunk_size = s.chunk_size /\ overlap = s.overlap /\ mode = s.mode
    /\ buffer = <<>> /\ buffer_base = 0 /\ file_cursor = 0
    /\ all_results = <<>> /\ last_found_end = 0

-----------------------------------------------------------------------------
(* One iteration of the loop, once the chunk is there *)

\* The test for a file already found, forgotten.
KeepAll(base, found, result) ==
    LET file == [result EXCEPT !.start = base + result.start, !.end = base + result.end]
    IN  [files |-> Append(found.files, file), end |-> file.end]

\* One result of a carver, moved to offsets of the file, against what was found.
Keep(base, found, result) ==
    LET file == [result EXCEPT !.start = base + result.start, !.end = base + result.end]
    IN  IF file.start < found.end THEN found
        ELSE [files |-> Append(found.files, file), end |-> file.end]

KeepEach(base, found, results) == FoldLeft(LAMBDA acc, r : Keep(base, acc, r), found, results)

\* What every carver finds in a window, one carver after the other.
WindowResults(data) ==
    FlattenSeq([i \in DOMAIN carvers |-> Carve(carvers[i], data)])

\* The end of the window, one byte short.
KeepTailShort(data, n) == IF n = 0 THEN data ELSE Slice(data, Len(data) - n + 1, Len(data))

\* Nothing is dropped.
KeepTailWhole(data, n) == data

\* buffer[-overlap:], which is the whole buffer when overlap is zero.
KeepTail(data, n) == IF n = 0 THEN data ELSE Slice(data, Len(data) - n, Len(data))

Absorb(chunk) ==
    \E data \in {buffer \o chunk} : \E results \in {WindowResults(data)} :
    LET cursor == file_cursor + Len(chunk)
        found  == KeepEach(buffer_base, [files |-> all_results, end |-> last_found_end], results)
    IN  /\ file_cursor' = cursor
        /\ all_results' = found.files
        /\ last_found_end' = found.end
        /\ IF Len(data) > overlap
           THEN /\ buffer' = KeepTail(data, overlap)
                /\ buffer_base' = IF cursor > overlap THEN cursor - overlap ELSE 0
           ELSE /\ buffer' = data
                /\ UNCHANGED buffer_base

-----------------------------------------------------------------------------
(* StreamingScanner.scan *)

ReadAt(offset, n) == Slice(image, offset, Least(offset + n, Len(image)))
ToRead == Least(chunk_size, size - file_cursor)

StreamChunk ==
    /\ mode = "streaming"
    /\ file_cursor < size
    /\ LET chunk == ReadAt(file_cursor, ToRead)
       IN  /\ chunk # <<>>
           /\ Absorb(chunk)
    /\ UNCHANGED <<config, mode>>

\* The loop without its early end.
StreamEndAtSize ==
    /\ mode = "streaming"
    /\ file_cursor >= size
    /\ mode' = "done"
    /\ UNCHANGED <<config, window>>

\* The loop ends at reader.size, or earlier where the reader has no more bytes.
StreamEnd ==
    /\ mode = "streaming"
    /\ \/ file_cursor >= size
       \/ ReadAt(file_cursor, ToRead) = <<>>
    /\ mode' = "done"
    /\ UNCHANGED <<config, window>>

-----------------------------------------------------------------------------
(* MmapScanner.scan *)

InFile == file_cursor + ToRead <= Len(image)

MapChunk ==
    /\ mode = "mmap"
    /\ file_cursor < size
    /\ InFile /\ file_cursor % Page = 0
    /\ Absorb(ReadAt(file_cursor, ToRead))
    /\ UNCHANGED <<config, mode>>

\* OSError, for one at an offset that no page starts at: the chunk is read.
MapRetry ==
    /\ mode = "mmap"
    /\ file_cursor < size
    /\ InFile /\ (file_cursor % Page # 0 \/ MmapFaults)
    /\ Absorb(ReadAt(file_cursor, ToRead))
    /\ UNCHANGED <<config, mode>>

\* ValueError, a mapping longer than the file: everything found so far is
\* dropped and a StreamingScanner starts again from the beginning.
MapFallback ==
    /\ mode = "mmap"
    /\ file_cursor < size
    /\ ~InFile
    /\ mode' = "streaming"
    /\ buffer' = <<>> /\ buffer_base' = 0 /\ file_cursor' = 0
    /\ all_results' = <<>> /\ last_found_end' = 0
    /\ UNCHANGED config

MapEnd ==
    /\ mode = "mmap"
    /\ file_cursor >= size
    /\ mode' = "done"
    /\ UNCHANGED <<config, window>>

ScanNext ==
    \/ StreamChunk \/ StreamEnd
    \/ MapChunk \/ MapRetry \/ MapFallback \/ MapEnd

ScanSpec == ScanInit /\ [][ScanNext]_scanVars

-----------------------------------------------------------------------------
(* Properties *)

\* Types; between two chunks a window is no longer than the overlap (the bounded
\* memory use the scanner is for).
ScanTypeOK ==
    /\ mode \in {"mmap", "streaming", "done"}
    /\ buffer_base \in Nat /\ file_cursor \in 0..size
    /\ last_found_end \in 0..Len(image)
    /\ overlap > 0 => Len(buffer) <= overlap

\* Every reported file holds the bytes of the source between the offsets
\* reported for it (the data and offset_start of a CarvedFile agree).
Genuine ==
    \A i \in DOMAIN all_results :
        LET f == all_results[i]
        IN  f.data = Slice(image, f.start, f.end) /\ f.end - f.start = Len(f.data)

\* Reported files ascend and share no byte, whatever the carvers disagree on
\* and however often a window shows the same file again.
Disjoint ==
    \A i, j \in DOMAIN all_results : i < j => all_results[i].end <= all_results[j].start

\* What is reported is in the source, in order and no byte twice.
ReportedRight == Genuine /\ Disjoint

InMemory(k) == Range(Carve(k, image))

\* No footer of k can share bytes with a header of k.  Those of JPEG can (FF D8 FF
\* and FF D9): a header at the end of a file that runs into its footer is, to a
\* window that begins there, the header of a longer file.
SignaturesApart(k) ==
    \A h \in Headers[k] : \A d \in 1 - Len(Footer[k])..Len(h) - 1 :
        \E i \in 1..Len(h) : i - d \in 1..Len(Footer[k]) /\ h[i] # Footer[k][i - d]

\* One carver, which looks for footers.
LoneCarver == Len(carvers) = 1 /\ carvers[1] \notin Sized /\ SignaturesApart(carvers[1])

\* A lone carver misses no file of the whole image that fits in the overlap
\* and one byte, wherever the chunk borders fall, even where the overlap is too
\* small for other files and reports pieces of them.
SpanningFound ==
    (mode = "done" /\ LoneCarver) =>
        \A f \in InMemory(carvers[1]) :
            f.end - f.start <= overlap + 1 => f \in Range(all_results)

\* The overlap that hides no chunk border from a lone footer carver.
OverlapSuffices ==
    /\ LoneCarver
    /\ carvers[1] \notin Unlimited
    /\ overlap >= Lookback[carvers[1]] + Len(Footer[carvers[1]]) - 1

\* With such an overlap the scan reports what the carver finds in the whole
\* image at once, in the same order and nothing else, through a fallback or not.
SameWithOverlap ==
    (mode = "done" /\ OverlapSuffices) => all_results = Carve(carvers[1], image)

\* No chunk border hides a file of a lone carver.
BordersHideNothing == SpanningFound /\ SameWithOverlap

\* The same with no condition on carvers and overlap.
SameAsInMemory ==
    mode = "done" =>
        Range(all_results) = UNION {InMemory(carvers[i]) : i \in DOMAIN carvers}

\* The loops end: every window moves the cursor or ends the scan.
ScanEnds == <>(mode = "done")

=============================================================================
