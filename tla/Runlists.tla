------------------------------ MODULE Runlists ------------------------------
(***************************************************************************)
(* Non-resident data of NTFS (filesystems/ntfs): the run list of an        *)
(* attribute is parsed (attributes.py), resolved to clusters (runlists/    *)
(* mapping.py) and read run by run (runlists/executor.py) by               *)
(* recover_non_resident_file (recovery.py), or chunk by chunk.  A byte of  *)
(* the image is its offset, a byte of a hole is Hole.                      *)
(***************************************************************************)
EXTENDS Integers, Sequences, FiniteSets, SequencesExt

CONSTANTS
    RunClusterSize,
    Hole,           \* a zero byte of a sparse run
    Attributes      \* the attributes to recover, see RunAssumption

ASSUME RunAssumption ==
    /\ RunClusterSize \in Nat \ {0} /\ Hole \notin Nat
    /\ \A a \in Attributes :
        /\ a.bytes \in Seq(0..255)          \* from the run list's offset on
        /\ a.image \in Nat                  \* reader.size
        /\ a.real_size \in Nat /\ a.max_bytes \in Nat
        /\ a.clusters \in Nat               \* last_vcn - starting_vcn + 1
        /\ a.reader \in {"all", "chunks"}
        /\ a.chunk_size \in Nat \ {0}
        /\ a.runs \in Seq([count : Nat, offset : Int, sparse : BOOLEAN])
        /\ a.width \in 1..8                \* what its runs were written with

VARIABLES
    attr,           \* the attribute and the image
    rstep,          \* "idle", "parse", "read", "done" or "error"
    data_runs,      \* what parse_runlist returns
    resolved,       \* the DataRuns
    at_run, pos,    \* the run being read, and pos of _read_chunked
    remaining,
    data            \* the bytes read so far

runVars == <<attr, rstep, data_runs, resolved, at_run, pos, remaining, data>>

RunIdle ==
    /\ rstep = "idle"
    /\ data_runs = <<>> /\ resolved = <<>> /\ at_run = 1 /\ pos = 0
    /\ remaining = 0 /\ data = <<>>

RunInit ==
    /\ attr \in Attributes /\ rstep = "parse"
    /\ data_runs = <<>> /\ resolved = <<>> /\ at_run = 1 /\ pos = 0
    /\ remaining = 0 /\ data = <<>>

Lesser(a, b) == IF a <= b THEN a ELSE b
Greater(a, b) == IF a >= b THEN a ELSE b

-----------------------------------------------------------------------------
(* parse_runlist; decode_runlist_entry does the same for one entry *)

LittleEndian(bytes) ==
    LET from[i \in 1..(Len(bytes) + 1)] == IF i > Len(bytes) THEN 0 ELSE bytes[i] + 256 * from[i + 1]
    IN  from[1]

\* The numbers that n bytes can hold.
Numbers[n \in Nat] == IF n = 0 THEN 1 ELSE 256 * Numbers[n - 1]

\* The two's complement of a field of Len(bytes) bytes.
Signed(bytes) ==
    LET value == LittleEndian(bytes)
    IN  IF value >= Numbers[Len(bytes)] \div 2 THEN value - Numbers[Len(bytes)] ELSE value

\* An entry is a header with the widths of both fields, the count and the
\* offset.  Without an offset it is a hole.
CountWidth(header) == header % 16
OffsetWidth(header) == header \div 16
EntryEnd(bytes, p) == p + 1 + CountWidth(bytes[p]) + OffsetWidth(bytes[p])

EntryAt(bytes, p) ==
    LET offset_at == p + 1 + CountWidth(bytes[p])
        sparse    == OffsetWidth(bytes[p]) = 0
    IN  [count  |-> LittleEndian(SubSeq(bytes, p + 1, offset_at - 1)),
         offset |-> IF sparse THEN 0 ELSE Signed(SubSeq(bytes, offset_at, EntryEnd(bytes, p) - 1)),
         sparse |-> sparse]

\* The list ends at a header of zero, or where an entry does not fit.
ParseRunlist(bytes) ==
    LET from[p \in 1..(Len(bytes) + 1)] ==
            IF p > Len(bytes) \/ bytes[p] = 0 THEN <<>>
            ELSE IF EntryEnd(bytes, p) > Len(bytes) + 1 THEN <<>>
            ELSE <<EntryAt(bytes, p)>> \o from[EntryEnd(bytes, p)]
    IN  from[1]

-----------------------------------------------------------------------------
(* resolve_runlist *)

\* Mutant: a hole starts the offsets again from zero.
ResolveReset(acc, run) ==
    LET lcn == IF run.sparse THEN 0 ELSE acc.lcn + run.offset
    IN  [runs |-> Append(acc.runs, [vcn |-> acc.vcn, lcn |-> IF run.sparse THEN -1 ELSE lcn,
                                    count |-> run.count, sparse |-> run.sparse]),
         vcn |-> acc.vcn + run.count, lcn |-> lcn]

\* Offsets are relative to the last run that is no hole.
ResolveRun(acc, run) ==
    LET lcn == IF run.sparse THEN acc.lcn ELSE acc.lcn + run.offset
    IN  [runs |-> Append(acc.runs, [vcn |-> acc.vcn, lcn |-> IF run.sparse THEN -1 ELSE lcn,
                                    count |-> run.count, sparse |-> run.sparse]),
         vcn |-> acc.vcn + run.count, lcn |-> lcn]

ResolveRunlist(runs) == FoldLeft(ResolveRun, [runs |-> <<>>, vcn |-> 0, lcn |-> 0], runs).runs

LastVcn(run) == run.vcn + run.count - 1
RunBytes(run) == run.count * RunClusterSize

\* vcn_to_lcn: -1 in a hole, -2 outside.
VcnToLcn(vcn) ==
    LET i == SelectInSeq(resolved, LAMBDA r : r.vcn <= vcn /\ vcn <= LastVcn(r))
    IN  IF i = 0 THEN -2
        ELSE IF resolved[i].sparse THEN -1
        ELSE resolved[i].lcn + (vcn - resolved[i].vcn)

-----------------------------------------------------------------------------
(* The executor *)

\* reader.read_at at a position that is not negative.
ImageBytes(offset, n) ==
    [i \in 1..Greater(0, Lesser(offset + n, attr.image) - offset) |-> offset + i - 1]

Holes(n) == [i \in 1..n |-> Hole]

\* is_sparse_runlist chooses the reader.
SparseAware == \E i \in DOMAIN data_runs : data_runs[i].sparse
Limit == IF attr.reader = "all" /\ attr.max_bytes > 0 THEN attr.max_bytes ELSE attr.real_size

Resolve ==
    /\ rstep = "parse"
    /\ data_runs' = ParseRunlist(attr.bytes)
    /\ resolved' = ResolveRunlist(data_runs')
    /\ remaining' = Limit
    /\ rstep' = "read"
    /\ UNCHANGED <<attr, at_run, pos, data>>

Reading == rstep = "read" /\ remaining > 0 /\ at_run \in DOMAIN resolved
Run == resolved[at_run]
Wanted == Lesser(RunBytes(Run), remaining)
Took(bytes) == data' = data \o bytes /\ remaining' = remaining - Len(bytes)

FillHole ==
    /\ Reading /\ Run.sparse
    /\ Took(Holes(Wanted))
    /\ at_run' = at_run + 1
    /\ UNCHANGED <<attr, rstep, data_runs, resolved, pos>>

\* Where the image is shorter than the run, the next run follows at once.
ReadRun ==
    /\ Reading /\ ~Run.sparse /\ Run.lcn >= 0 /\ attr.reader = "all"
    /\ Took(ImageBytes(Run.lcn * RunClusterSize, Wanted))
    /\ at_run' = at_run + 1
    /\ UNCHANGED <<attr, rstep, data_runs, resolved, pos>>

\* A run before the image: the sparse reader leaves it out, the others seek to
\* a negative position, which raises.
SkipBefore ==
    /\ Reading /\ ~Run.sparse /\ Run.lcn < 0 /\ attr.reader = "all" /\ SparseAware
    /\ at_run' = at_run + 1
    /\ UNCHANGED <<attr, rstep, data_runs, resolved, pos, remaining, data>>

SeekFails ==
    /\ Reading /\ ~Run.sparse
    /\ attr.reader = "chunks" => pos < Wanted
    /\ Run.lcn * RunClusterSize + pos < 0 /\ ~(attr.reader = "all" /\ SparseAware)
    /\ rstep' = "error" /\ data' = <<>>
    /\ UNCHANGED <<attr, data_runs, resolved, at_run, pos, remaining>>

\* _read_chunked, where remaining goes down at the end of a run.

\* Mutant: a chunk is never cut to the end of its run.
ChunkWhole == ImageBytes(Run.lcn * RunClusterSize + pos, attr.chunk_size)

Chunk == ImageBytes(Run.lcn * RunClusterSize + pos, Lesser(attr.chunk_size, Wanted - pos))

ReadChunk ==
    /\ Reading /\ ~Run.sparse /\ Run.lcn >= 0 /\ attr.reader = "chunks"
    /\ pos < Wanted
    /\ data' = data \o Chunk
    /\ pos' = pos + Len(Chunk)
    /\ UNCHANGED <<attr, rstep, data_runs, resolved, at_run, remaining>>

ChunksOver ==
    /\ Reading /\ ~Run.sparse /\ attr.reader = "chunks"
    /\ pos >= Wanted
    /\ remaining' = remaining - Wanted /\ at_run' = at_run + 1 /\ pos' = 0
    /\ UNCHANGED <<attr, rstep, data_runs, resolved, data>>

RunEnd ==
    /\ rstep = "read" /\ (remaining <= 0 \/ at_run \notin DOMAIN resolved)
    /\ rstep' = "done"
    /\ data' = IF attr.reader = "all" THEN SubSeq(data, 1, Lesser(Len(data), attr.real_size)) ELSE data
    /\ UNCHANGED <<attr, data_runs, resolved, at_run, pos, remaining>>

RunNext ==
    \/ Resolve \/ FillHole \/ ReadRun \/ SkipBefore \/ SeekFails
    \/ ReadChunk \/ ChunksOver \/ RunEnd

RunSpec == RunInit /\ [][RunNext]_runVars
FairRunSpec == RunSpec /\ WF_runVars(RunNext)

-----------------------------------------------------------------------------
(* read_vcn_range, estimate_recoverable_bytes, validate_runlist, check_circular_runs, classify_recoverability *)

VcnRangePart(run, first, last) ==
    LET from == Greater(run.vcn, first)
        n    == Lesser(LastVcn(run), last) - from + 1
    IN  IF n <= 0 THEN <<>>
        ELSE IF run.sparse THEN Holes(n * RunClusterSize)
        ELSE ImageBytes((run.lcn + (from - run.vcn)) * RunClusterSize, n * RunClusterSize)
ReadVcnRange(first, last) ==
    FlattenSeq([i \in DOMAIN resolved |-> VcnRangePart(resolved[i], first, last)])

\* Bytes of a run that the image has.
Available(run) ==
    IF run.sparse THEN RunBytes(run)
    ELSE IF run.lcn < 0 THEN 0
    ELSE Lesser(RunBytes(run), Greater(0, attr.image - run.lcn * RunClusterSize))

Total(F(_)) == FoldLeft(LAMBDA sum, r : sum + F(r), 0, resolved)
Recoverable == Lesser(Total(Available), Lesser(attr.real_size, Total(RunBytes)))
Lost == Total(RunBytes) - Total(Available)

Clusters(run) == run.lcn..(run.lcn + run.count - 1)
Allocated == {i \in DOMAIN resolved : ~resolved[i].sparse /\ resolved[i].count > 0}

\* Mutant: ranges that share one cluster at their ends do not overlap.
OverlapsStrict ==
    \E i, j \in Allocated :
        /\ i < j
        /\ resolved[j].lcn < resolved[i].lcn + resolved[i].count - 1
        /\ resolved[j].lcn + resolved[j].count - 1 > resolved[i].lcn

\* LCN_OVERLAP compares the ends of the ranges.
Overlaps ==
    \E i, j \in Allocated :
        /\ i < j
        /\ resolved[j].lcn <= resolved[i].lcn + resolved[i].count - 1
        /\ resolved[j].lcn + resolved[j].count - 1 >= resolved[i].lcn

\* CIRCULAR_RUN: a cluster is in two runs.
Circular ==
    \E i, j \in {k \in Allocated : resolved[k].lcn >= 0} :
        i < j /\ Clusters(resolved[i]) \cap Clusters(resolved[j]) # {}

\* Some issue of severity error; the runs of resolve_runlist never overlap in VCNs.
HasErrors ==
    LET volume_clusters == attr.image \div RunClusterSize
    IN  \/ resolved = <<>>
        \/ \E i \in DOMAIN resolved : resolved[i].count = 0 \/ resolved[i].count > 1000000
        \/ \E i \in Allocated :
            \/ resolved[i].lcn < 0
            \/ volume_clusters > 0 /\ resolved[i].lcn + resolved[i].count - 1 >= volume_clusters
        \/ Overlaps
        \/ attr.clusters > 0 /\ LastVcn(Last(resolved)) >= attr.clusters

Classification ==
    IF HasErrors THEN "corrupted"
    ELSE IF Lost > 0 /\ Recoverable > 0 THEN "partially_recoverable"
    ELSE IF Recoverable = 0 THEN "corrupted"
    ELSE "recoverable"

-----------------------------------------------------------------------------
(* Properties *)

\* Types; the reader never holds more than it was asked for.
RunTypeOK ==
    /\ rstep \in {"idle", "parse", "read", "done", "error"}
    /\ at_run \in 1..Len(resolved) + 1 /\ Len(resolved) = Len(data_runs)
    /\ pos >= 0 /\ remaining \in 0..Limit
    /\ Len(data) <= Limit

\* The format of NTFS: both fields little-endian and of `width` bytes.
Field(value, width) ==
    [i \in 1..width |-> ((IF value < 0 THEN value + Numbers[width] ELSE value) \div Numbers[i - 1]) % 256]
Encode(run, width) ==
    IF run.sparse THEN <<width>> \o Field(run.count, width)
    ELSE <<16 * width + width>> \o Field(run.count, width) \o Field(run.offset, width)
EncodeAll(runs, width) == FlattenSeq([i \in DOMAIN runs |-> Encode(runs[i], width)])

\* The bytes are runs in that format, whole or cut, and their fields have room.
InFormat ==
    LET limit == Numbers[attr.width]
    IN  /\ attr.bytes = SubSeq(EncodeAll(attr.runs, attr.width), 1, Len(attr.bytes))
        /\ Len(attr.bytes) <= Len(EncodeAll(attr.runs, attr.width))
        /\ \A i \in DOMAIN attr.runs :
            /\ attr.runs[i].count < limit
            /\ attr.runs[i].offset \in -(limit \div 2)..(limit \div 2 - 1)
            /\ attr.runs[i].sparse => attr.runs[i].offset = 0

\* A run list in the format is parsed back to its runs, with the sign and the
\* width of every field; one that is cut is parsed to its whole entries.
ParsesBack ==
    (rstep = "read" /\ InFormat) =>
        LET runs == attr.runs
            kept == CHOOSE n \in 0..Len(runs) :
                        /\ Len(EncodeAll(SubSeq(runs, 1, n), attr.width)) <= Len(attr.bytes)
                        /\ n < Len(runs) =>
                            Len(EncodeAll(SubSeq(runs, 1, n + 1), attr.width)) > Len(attr.bytes)
        IN  data_runs = SubSeq(runs, 1, kept)

\* The sum of the offsets up to a run, holes apart.
LcnOf(i) == FoldLeft(LAMBDA sum, r : sum + r.offset, 0, SubSeq(data_runs, 1, i))

\* The runs tile the file: every cluster of it is in one run, at the sum of the
\* offsets before it, and none is outside.
RunsTile ==
    rstep = "read" =>
        /\ Total(LAMBDA r : r.count) = IF resolved = <<>> THEN 0 ELSE LastVcn(Last(resolved)) + 1
        /\ \A i \in DOMAIN resolved, k \in 0..2 :
            k < resolved[i].count =>
                VcnToLcn(resolved[i].vcn + k) = IF resolved[i].sparse THEN -1 ELSE LcnOf(i) + k

\* The bytes of a run list become the clusters of the file.
RunsDescribeFile == ParsesBack /\ RunsTile

InImage(run) == Available(run) = RunBytes(run) /\ (run.sparse \/ run.lcn >= 0)

\* Byte p of the file, counted from zero, by the clusters of the file.
ByteAt(p) ==
    LET lcn == VcnToLcn(p \div RunClusterSize)
    IN  IF lcn = -1 THEN Hole ELSE lcn * RunClusterSize + (p % RunClusterSize)

\* While the image has all of the runs before the one at hand, every byte read
\* is the one the clusters of the file name, whichever reader read it.
ReadInPlace ==
    (\A i \in 1..(at_run - 2) : InImage(resolved[i])) =>
        \A p \in DOMAIN data : data[p] = ByteAt(p - 1)

\* A range of clusters read on its own is that part of the file.
RangeInPlace ==
    (rstep = "read" /\ at_run = 1 /\ \A i \in DOMAIN resolved : InImage(resolved[i])) =>
        \A f, l \in 0..3 :
            LET bytes == ReadVcnRange(f, l)
            IN  \A p \in DOMAIN bytes : bytes[p] = ByteAt(f * RunClusterSize + p - 1)

\* All three readers and the range reader read the clusters of the file.
ReadersRight == ReadInPlace /\ RangeInPlace

\* What is parsed is the file, and what is read is what was parsed.
RunsRight == RunsDescribeFile /\ ReadersRight

Finished == rstep = "done" /\ attr.reader = "all" /\ attr.max_bytes = 0

\* The estimate made without reading is what reading the file yields.
EstimateIsExact == Finished => Recoverable = Len(data)

\* A file classified as recoverable is read without an error, to its size or
\* to the end of its runs, without a byte of the image in it twice.
RecoverableIsWhole ==
    (rstep \in {"done", "error"} /\ Classification = "recoverable") =>
        /\ rstep = "done"
        /\ Finished =>
            /\ Len(data) = Lesser(attr.real_size, Total(RunBytes))
            /\ \A p, q \in DOMAIN data : (p # q /\ data[p] # Hole) => data[p] # data[q]

\* The two tests for a cluster used twice agree on runs inside the volume.
DetectorsAgree ==
    (rstep = "read" /\ \A i \in Allocated : resolved[i].lcn >= 0) => (Circular <=> Overlaps)

\* What is said of a file before it is read agrees with reading it.
ClassifiedRight == EstimateIsExact /\ RecoverableIsWhole /\ DetectorsAgree

\* Reading ends, except for _read_chunked behind the end of the image: a chunk
\* is empty there and does not move it on.
ReadingEnds ==
    (rstep = "read" /\ (attr.reader = "all" \/ \A i \in DOMAIN resolved : InImage(resolved[i])))
        ~> (rstep \in {"done", "error"})
=============================================================================
