--------------------------- MODULE MCFilesystems ---------------------------
EXTENDS FatDirectory, Runlists, UsnJournal, LogFile, MftRecords, Detection, TLC

MCHole == -1
MCOutputName == "a" :> "A" @@ "b" :> "A" @@ "c" :> "C"

File(n, s, z) == [name |-> n, dir |-> FALSE, start |-> s, size |-> z]
Blank == [fat |-> <<>>, bytes |-> 0, targets |-> <<>>, root |-> 2, slots |-> <<>>]

\* Every table of two or three clusters; two deleted files saved under one name.
Tables == UNION {[2..n -> Values] : n \in {3, 4}}
Undelete ==
    {[Blank EXCEPT !.fat = t, !.bytes = b,
        !.targets = <<File("a", s, 3), [File("b", 3, 0) EXCEPT !.dir = d]>>] :
        t \in Tables, b \in {3, 6}, s \in {0, 2}, d \in BOOLEAN}
    \union {[Blank EXCEPT !.fat = t, !.bytes = 6, !.targets = <<File("c", s, 0), File("a", 2, 1)>>] :
        t \in [2..3 -> Values], s \in 4..Over}

Slot(k, n) == [kind |-> k, name |-> n, deleted |-> FALSE, dir |-> FALSE, dot |-> FALSE, start |-> 0]
Sub(n, s) == [Slot("entry", n) EXCEPT !.dir = TRUE, !.start = s]
Slots == {Slot("free", ""), Slot("lfn", "p"), Slot("lfn", "q"), Slot("label", "v"), Slot("entry", "f"),
          [Slot("entry", "g") EXCEPT !.deleted = TRUE]}
Names ==
    {[Blank EXCEPT !.fat = 2 :> 3 @@ 3 :> Eoc, !.slots = 2 :> x @@ 3 :> y] :
        x \in [1..2 -> Slots], y \in [1..2 -> Slots]}

\* Directories in three clusters that lead to each other and to the root.
Up == [Sub("..", 2) EXCEPT !.dot = TRUE]
Gone == [Sub("x", 4) EXCEPT !.deleted = TRUE]
Entries(a) == {Sub(a, 2), Sub(a, 3), Sub(a, 4), Slot("entry", a), Gone}
Cycles ==
    {[Blank EXCEPT !.fat = [c \in 2..4 |-> Eoc],
        !.slots = 2 :> <<x, y>> @@ 3 :> <<Up, z>> @@ 4 :> <<Sub("e", 0), u>>] :
        x \in Entries("a"), y \in Entries("b"), z \in Entries("c"), u \in Entries("d")}

Walks == Names \union Cycles

Run1(n, o) == [count |-> n, offset |-> o, sparse |-> FALSE]
HoleOf(n) == [count |-> n, offset |-> 0, sparse |-> TRUE]
Attribute(runs, width, cut) ==
    LET bytes == EncodeAll(runs, width)
    IN  [runs |-> runs, width |-> width, bytes |-> SubSeq(bytes, 1, Len(bytes) - cut),
         image |-> 7, real_size |-> 12, max_bytes |-> 0, clusters |-> 5,
         reader |-> "all", chunk_size |-> 3]

\* Up to three runs, before, in and behind an image of three clusters and a half.
SomeRuns == {Run1(1, 0), Run1(2, 1), Run1(1, -1), Run1(1, 2), Run1(2, 3), Run1(0, 1), HoleOf(1), HoleOf(2)}
RunLists == UNION {[1..n -> SomeRuns] : n \in 0..3}
Readable ==
    {Attribute(r, 1, 0) : r \in RunLists}
    \union {[Attribute(r, 1, 0) EXCEPT !.real_size = 3, !.reader = x] : r \in RunLists, x \in {"all", "chunks"}}
    \union {[Attribute(r, 1, 0) EXCEPT !.max_bytes = 5] : r \in [1..2 -> SomeRuns]}
    \union {[Attribute(r, 1, 0) EXCEPT !.reader = "chunks"] : r \in RunLists}

\* The ends of the ranges of a field, and lists that are cut.
Ends(width) ==
    {Run1(n, o) : n \in {1, 256 ^ width - 1}, o \in {-(256 ^ width \div 2), -1, 1, 256 ^ width \div 2 - 1}}
        \union {HoleOf(256 ^ width - 1)}
Parsable ==
    UNION {{[Attribute(r, w, c) EXCEPT !.real_size = 1] :
        r \in [1..2 -> Ends(w)], c \in 0..2} : w \in {1, 2}}

MCAttributes == Readable \union Parsable
NoAttribute == Attribute(<<>>, 1, 0)

\* Journals of up to four pieces: words that begin no record, a record whose
\* name holds what looks like one, a record too short or cut by the end.
Rec_(n, ref, reason) == [len |-> n, heads |-> 0 :> [len |-> n, ref |-> ref, reason |-> reason]]
JournalPieces ==
    {[len |-> 1, heads |-> <<>>], Rec_(1, 1, {"old"}), Rec_(4, 2, {"security"})}
    \union {Rec_(2, r, {f}) : r \in {1, 2}, f \in {"old", "new"}}
    \union {Rec_(2, 1, {"create", "new"}), Rec_(2, 2, {"delete", "close"}),
            [Rec_(3, 2, {"data"}) EXCEPT !.heads = @ @@ 1 :> [len |-> 2, ref |-> 1, reason |-> {"new"}]]}
Written(pieces) ==
    LET put(j, piece) == [len |-> j.len + piece.len,
                          heads |-> j.heads @@ [p \in {j.len + q : q \in DOMAIN piece.heads} |->
                                                    piece.heads[p - j.len]]]
        upto[i \in 0..Len(pieces)] ==
            IF i = 0 THEN [len |-> 0, heads |-> <<>>] ELSE put(upto[i - 1], pieces[i])
    IN  upto[Len(pieces)]
Cut(j) == [j EXCEPT !.len = Greater(@ - 1, 0),
                    !.heads = [p \in {q \in DOMAIN @ : q < j.len - 1} |-> @[p]]]
MCJournals ==
    LET whole == {Written(p) : p \in UNION {[1..n -> JournalPieces] : n \in 0..3}}
    IN  whole \union {Cut(j) : j \in whole}
            \union {Written(p) : p \in [1..4 -> {Rec_(2, 1, {"old"}), Rec_(2, 1, {"new"}), Rec_(2, 2, {"old"})}]}
NoJournal == [len |-> 0, heads |-> <<>>]

\* Logs of up to three pages, the last one cut.
MCLogs ==
    {[len |-> n, magic |-> m, max |-> x, lengths |-> l] :
        n \in {9, 10}, m \in SUBSET {0, 4, 8}, x \in {0, 3},
        l \in UNION {[s -> {1, 2, 3, 9}] : s \in SUBSET {1, 3, 5}}}
NoLog == [len |-> 0, magic |-> {}, max |-> 0, lengths |-> <<>>]

\* Records of up to three attributes end to end, the last one cut or of length
\* zero, and sector ends in their values.
MCSafeName == "x:" :> "x_" @@ "x?" :> "x_" @@ "y" :> "y"
AttrOf(type, res, count) ==
    [type |-> type, resident |-> res, len |-> IF res THEN 1 + count ELSE 2, count |-> count,
     name |-> "y", reads |-> TRUE]
FileName(n) == [AttrOf("name", TRUE, 1) EXCEPT !.name = n]
Stream == {AttrOf("data", TRUE, 1), AttrOf("data", TRUE, 2), AttrOf("data", FALSE, 2),
           [AttrOf("data", FALSE, 1) EXCEPT !.reads = FALSE]}
MftAttrs == Stream \union {FileName("y"), AttrOf("other", FALSE, 1)}
Laid(attrs) ==
    LET places[i \in 1..Len(attrs)] == IF i = 1 THEN 0 ELSE places[i - 1] + attrs[i - 1].len
    IN  [p \in {places[i] : i \in DOMAIN attrs} |-> attrs[CHOOSE i \in DOMAIN attrs : places[i] = p]]
Record(attrs) ==
    [state |-> "good", number |-> 7, deleted |-> FALSE, dir |-> FALSE, used |-> 8, array |-> TRUE,
     ends |-> {}, heads |-> Laid(attrs)]
Volume(rs) ==
    [cluster |-> 8, raw |-> 0, words |-> 8 * Len(rs), command |-> "recover", limit |-> 0,
     deleted_only |-> FALSE, non_resident_only |-> FALSE, threads |-> 1, faults |-> FALSE, records |-> rs]

AttrLists == UNION {[1..n -> MftAttrs] : n \in 0..3}
Sounds == {Record(a) : a \in AttrLists}
Damaged ==
    {[Record(a) EXCEPT !.used = u, !.ends = {3}, !.array = x] :
        a \in [1..2 -> MftAttrs], u \in {2, 4, 5, 8}, x \in BOOLEAN}
    \union {[Record(a) EXCEPT !.heads[0].len = n] : a \in [1..2 -> MftAttrs], n \in {0, 5, 9}}
OneRecord ==
    {[Volume(<<r>>) EXCEPT !.command = c] : r \in Sounds, c \in {"recover", "resident"}}
    \union {Volume(<<r>>) : r \in Damaged}

\* Walks: bad records between good ones, limits and wrong record sizes.
Kind(state, deleted, dir) ==
    [Record(<<AttrOf("data", TRUE, 1)>>) EXCEPT !.state = state, !.deleted = deleted, !.dir = dir]
RecordKinds == {Kind("good", FALSE, FALSE), Kind("good", TRUE, FALSE), Kind("good", FALSE, TRUE),
           Kind("zeroed", FALSE, FALSE), Kind("unreadable", FALSE, FALSE)}
LastKinds == {Kind("good", FALSE, FALSE), Kind("zeroed", FALSE, FALSE)}
WalkTables ==
    {[Volume(<<x, y, z>>) EXCEPT !.cluster = s[1], !.raw = s[2], !.words = w, !.limit = l] :
        x \in RecordKinds, y \in RecordKinds, z \in LastKinds, w \in {23, 24}, l \in {0, 2},
        s \in {<<8, 0>>, <<16, 129>>}}
    \union {[Volume(<<x, y, z>>) EXCEPT !.cluster = 8, !.raw = r, !.limit = l, !.deleted_only = TRUE] :
        x \in RecordKinds, y \in RecordKinds, z \in LastKinds, l \in {0, 2}, r \in {1, 129, 253}}

\* Threads that save files under one name or two.
Saving(n, count, res, gone) ==
    [Record(<<FileName(n), AttrOf("data", res, count)>>) EXCEPT !.deleted = gone]
ToSave == {Saving("x:", 1, TRUE, FALSE), Saving("x?", 3, TRUE, FALSE), Saving("x:", 2, FALSE, TRUE),
           [Saving("y", 2, TRUE, FALSE) EXCEPT !.heads = Laid(<<AttrOf("data", TRUE, 2)>>)],
           [Saving("y", 2, FALSE, FALSE) EXCEPT !.heads[2].reads = FALSE]}
Pools ==
    {[Volume(<<x, y, Saving("x?", 3, TRUE, FALSE)>>) EXCEPT !.threads = t, !.faults = f] :
        x \in ToSave, y \in ToSave, t \in 1..3, f \in BOOLEAN}
    \union {[Volume(<<x, y>>) EXCEPT !.non_resident_only = TRUE] : x \in ToSave, y \in ToSave}

MCTables == OneRecord \union WalkTables \union Pools
NoTable == Volume(<<>>)

\* A volume made as the format says: one record of eight words (253 is -3).
Formatted == {[Volume(<<Kind("good", FALSE, FALSE)>>) EXCEPT !.raw = 253, !.limit = 1]}

\* Boot sectors: FAT volumes around the limits of their types, with fields of
\* FAT16, with sectors and clusters of no bytes; other volumes; ends of a device.
Boot ==
    [size |-> 4096, ext |-> FALSE, block |-> 1024, blocks |-> 3, oem |-> "FAT", jump |-> TRUE, sector |-> 512,
     shifted |-> 512, cluster |-> 1, reserved |-> 1, fats |-> 2, entries |-> 0, total16 |-> 0, total32 |-> 12,
     fat16 |-> 0, fat32 |-> 2, total64 |-> 9, root |-> 2, mft |-> 1, signed |-> TRUE]
MCCandidates ==
    {[Boot EXCEPT !.oem = o, !.sector = s, !.cluster = c, !.entries = e, !.total16 = t, !.total32 = u,
                  !.fat32 = f, !.fat16 = g] :
        o \in {"FAT", "NTFS"}, s \in {0, 512}, c \in 0..2, e \in {0, 16}, t \in {0, 10},
        u \in {0, 9, 10, 11, 17}, f \in {0, 2}, g \in {0, 1}}
    \union {[Boot EXCEPT !.size = s, !.oem = o, !.jump = j, !.ext = x] :
        s \in {100, 512, 1080, 4096}, o \in {"FAT", "EXFAT", "other", "NTFS"}, j \in BOOLEAN, x \in BOOLEAN}
    \union {[Boot EXCEPT !.fats = f, !.root = r, !.signed = g, !.cluster = c, !.mft = m] :
        f \in {0, 1, 3}, r \in 0..2, g \in BOOLEAN, c \in {3, 4}, m \in 0..1}

FatOff ==
    /\ volume = Blank /\ step = "idle" /\ at = 1 /\ chain = <<>> /\ cluster = 0 /\ status = "ok"
    /\ reports = <<>> /\ files = <<>>
RunsOff == attr = NoAttribute /\ RunIdle
JournalOff == journal = NoJournal /\ UsnIdle /\ UsnOff
LoggingOff == log = NoLog /\ LogIdle
TableOff == table = NoTable /\ MftIdle

\* One component at a time; the others are off.
MCInit ==
    \/ FatInit /\ DirIdle /\ RunsOff /\ JournalOff /\ LoggingOff /\ TableOff /\ DetectionOff
    \/ WalkInit /\ RunsOff /\ JournalOff /\ LoggingOff /\ TableOff /\ DetectionOff
    \/ FatOff /\ DirIdle /\ RunInit /\ JournalOff /\ LoggingOff /\ TableOff /\ DetectionOff
    \/ FatOff /\ DirIdle /\ RunsOff /\ UsnInit /\ LoggingOff /\ TableOff /\ DetectionOff
    \/ FatOff /\ DirIdle /\ RunsOff /\ JournalOff /\ LogInit /\ TableOff /\ DetectionOff
    \/ FatOff /\ DirIdle /\ RunsOff /\ JournalOff /\ LoggingOff /\ MftInit /\ DetectionOff
    \/ FatOff /\ DirIdle /\ RunsOff /\ JournalOff /\ LoggingOff /\ TableOff /\ DetectionInit
MCVars == <<allVars, runVars, usnVars, logVars, mftVars, detectionVars>>
\* The loops over the bytes of an image.
Loops ==
    /\ \/ FatNext /\ UNCHANGED <<dirVars, runVars, usnVars, logVars>>
       \/ WalkNext /\ UNCHANGED <<runVars, usnVars, logVars>>
       \/ RunNext /\ UNCHANGED <<allVars, usnVars, logVars>>
       \/ UsnNext /\ UNCHANGED <<allVars, runVars, logVars>>
       \/ LogNext /\ UNCHANGED <<allVars, runVars, usnVars>>
    /\ UNCHANGED <<mftVars, detectionVars>>
MCNext ==
    \/ Loops
    \/ MftNext /\ UNCHANGED <<allVars, runVars, usnVars, logVars, detectionVars>>
    \/ DetectionNext /\ UNCHANGED <<allVars, runVars, usnVars, logVars, mftVars>>
MCSpec == MCInit /\ [][MCNext]_MCVars /\ WF_MCVars(Loops)

\* Types of all of the components.
AllTypesOK ==
    FatTypeOK /\ WalkTypeOK /\ RunTypeOK /\ UsnTypeOK /\ LogTypeOK /\ MftTypeOK /\ DetectionTypeOK

\* A volume is taken for what its reader takes it for, and a FAT volume gives its
\* deleted files and its directories.
VolumesRight == DetectionRight /\ UndeletedRight /\ DirectoriesRight

\* The journal and the transaction log are read as they were written.
JournalsRight == UsnRight /\ LogIsRead

\* Every loop over the bytes of an image ends, whatever they are, save the one
\* that ReadingEnds names ("no infinite loops", CHANGELOG.md:107).
AllEnd == FatEnds /\ WalkEnds /\ ReadingEnds /\ UsnEnds /\ LogEnds
=============================================================================
