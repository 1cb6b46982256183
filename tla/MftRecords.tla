---------------------------- MODULE MftRecords ----------------------------
(***************************************************************************)
(* The master file table of NTFS: the record size of the boot sector, the  *)
(* walk over the records (mft.py, attributes.py, recovery.py), the stream  *)
(* each reader takes from a record, and `ntfs recover` and `ntfs resident` *)
(* (cli/commands/ntfs.py), which save files with a pool of threads.        *)
(* Sizes and positions are in words; a word of a stream is named by the    *)
(* record and the place it comes from.                                     *)
(***************************************************************************)
EXTENDS Integers, Sequences, FiniteSets, SequencesExt

CONSTANTS
    RecordWords,        \* from the start of one record to the next
    MaxRecords,         \* 100000
    ResidentHeader, NonResidentHeader,  \* 24 and 64 bytes
    SafeName,           \* name -> name with its odd characters replaced
    MftTables           \* the volumes and commands, see TableAssumption

\* An attribute has its place in the record, its length, and its value, inside
\* the record or (non-resident) elsewhere.  A record has its attributes by
\* place, the used size, and the places whose words the update sequence holds.
ASSUME TableAssumption ==
    /\ RecordWords \in Nat \ {0} /\ MaxRecords \in Nat \ {0}
    /\ ResidentHeader \in Nat \ {0} /\ NonResidentHeader \in Nat \ {0}
    /\ \A t \in MftTables :
        /\ DOMAIN t.records \subseteq Nat \ {0}
        /\ t.cluster \in Nat \ {0} /\ t.raw \in 0..255 /\ t.words \in Nat
        /\ t.command \in {"recover", "resident"}
        /\ t.limit \in Nat /\ t.threads \in Nat \ {0} /\ t.faults \in BOOLEAN
        /\ \A i \in DOMAIN t.records :
            LET r == t.records[i]
            IN  /\ r.state \in {"good", "zeroed", "unreadable"} /\ r.used \in Nat
                /\ \A p \in DOMAIN r.heads :
                    /\ p \in Nat /\ r.heads[p].resident \in BOOLEAN
                    /\ r.heads[p].type \in {"name", "data", "other"}
                    /\ r.heads[p].len \in Nat /\ r.heads[p].count \in Nat

VARIABLES
    table,      \* the volume and the command
    mstep,      \* "idle", "walk", "recover", "raised" or "done"
    records,    \* what walk_mft returns
    chosen,     \* the candidates
    pool,       \* candidate -> what became of it
    disk,       \* path -> the words of the file
    recovered_list  \* the candidates reported, in that order

mftVars == <<table, mstep, records, chosen, pool, disk, recovered_list>>

MftOff == records = <<>> /\ chosen = <<>> /\ pool = <<>> /\ disk = <<>> /\ recovered_list = <<>>
MftInit == table \in MftTables /\ mstep = "walk" /\ MftOff
MftIdle == mstep = "idle" /\ MftOff

LowerOf(a, b) == IF a <= b THEN a ELSE b

\* The elements of a list that are in a set, in order.
Those(list, set) ==
    LET kept[i \in 0..Len(list)] ==
            IF i = 0 THEN <<>>
            ELSE IF list[i] \in set THEN Append(kept[i - 1], list[i]) ELSE kept[i - 1]
    IN  kept[Len(list)]

-----------------------------------------------------------------------------
(* parse_boot_sector and bytes_per_file_record *)

\* The byte is a sign and seven bits, and the size the cluster shifted by it.
\* (A cluster has less than 2^30 bytes.)
TwoTo[n \in Nat] == IF n = 0 THEN 1 ELSE 2 * TwoTo[n - 1]
ShiftRight(n, by) == IF by > 30 THEN 0 ELSE n \div TwoTo[by]
RecordSize(t) == IF t.raw < 128 THEN t.cluster * TwoTo[t.raw] ELSE ShiftRight(t.cluster, t.raw - 128)

\* The rule of NTFS: so many clusters, or 2^n bytes (here words) for -n.
NtfsRecordSize(t) == IF t.raw < 128 THEN t.cluster * t.raw ELSE TwoTo[256 - t.raw]

-----------------------------------------------------------------------------
(* parse_mft_record and parse_attributes, of n words of a record *)

HeaderFits(rec, p, n) ==
    /\ p \in DOMAIN rec.heads
    /\ p + (IF rec.heads[p].resident THEN ResidentHeader ELSE NonResidentHeader) <= n

\* The places of the attributes: each length leads to the next one, until there
\* is none, or a length of zero.
AttributePlaces(rec, n) ==
    LET from[p \in 0..n] ==
            IF ~HeaderFits(rec, p, n) THEN <<>>
            ELSE IF rec.heads[p].len \in 1..(n - p) THEN <<p>> \o from[p + rec.heads[p].len]
            ELSE <<p>>
    IN  from[0]

\* The words that the update sequence holds are put back, where its array is
\* inside the record; nothing is compared.
FixedWord(i, rec, p) == IF p \in rec.ends /\ ~rec.array THEN <<i, "update">> ELSE <<i, p>>

\* A value is cut where the used words end; a run list leads elsewhere.
Value(i, rec, p, n) ==
    LET a == rec.heads[p]
    IN  IF a.resident
        THEN [k \in 1..LowerOf(a.count, n - p - ResidentHeader) |->
                  FixedWord(i, rec, p + ResidentHeader + k - 1)]
        ELSE [k \in 1..a.count |-> <<i, p, k>>]

PlacesOf(rec, n, type, resident) ==
    Those(AttributePlaces(rec, n), {p \in DOMAIN rec.heads : rec.heads[p].type = type /\ rec.heads[p].resident = resident})
LastIn(places) == IF places = <<>> THEN -1 ELSE Last(places)

\* The last attribute of a kind counts, whatever the name of a stream.
ParseMftRecord(i, rec, n) ==
    LET used  == LowerOf(rec.used, n)
        datas == Those(AttributePlaces(rec, used), {p \in DOMAIN rec.heads : rec.heads[p].type = "data"})
        value == LastIn(PlacesOf(rec, used, "data", TRUE))
        runs  == LastIn(PlacesOf(rec, used, "data", FALSE))
        named == Those(PlacesOf(rec, used, "name", TRUE),
                       {p \in DOMAIN rec.heads : Len(Value(i, rec, p, used)) = rec.heads[p].count})
    IN  [at |-> i, number |-> rec.number, deleted |-> rec.deleted, dir |-> rec.dir,
         name |-> IF named = <<>> THEN "" ELSE rec.heads[Last(named)].name,
         resident |-> datas = <<>> \/ rec.heads[Last(datas)].resident,
         data_resident |-> IF value = -1 THEN <<>> ELSE Value(i, rec, value, used),
         data_non_resident |-> runs]

-----------------------------------------------------------------------------
(* walk_mft and the choice of candidates *)

Size == RecordSize(table)
TotalRecords == IF table.limit > 0 THEN table.limit ELSE table.words \div Size

Walkable(i) == i * Size + Size <= table.words

\* The record that begins where the walk reads, if one does.
RecordAtSlot(i) == IF (i * Size) % RecordWords = 0 THEN (i * Size) \div RecordWords + 1 ELSE 0
IsRecord(i) ==
    /\ Size > 0 /\ Walkable(i)
    /\ RecordAtSlot(i) \in DOMAIN table.records
    /\ table.records[RecordAtSlot(i)].state = "good"

\* The limit counts the places that are looked at, not the records found.
SlotsWalked == [i \in 1..LowerOf(TotalRecords, MaxRecords) |-> i - 1]
WalkMft ==
    LET slots == Those(SlotsWalked, {i \in 0..MaxRecords : IsRecord(i)})
    IN  [k \in DOMAIN slots |->
            ParseMftRecord(RecordAtSlot(slots[k]), table.records[RecordAtSlot(slots[k])], Size)]

HasRuns(r) == r.data_non_resident # -1

Candidate(r) ==
    /\ ~r.dir
    /\ table.command = "resident" => r.resident /\ r.data_resident # <<>>
    /\ table.command = "recover" =>
        /\ table.deleted_only => r.deleted
        /\ IF table.non_resident_only THEN HasRuns(r)
           ELSE (r.resident /\ r.data_resident # <<>>) \/ HasRuns(r)

\* A record size of zero divides the size of the image, unless a limit is given.
WalkRaises ==
    /\ mstep = "walk" /\ Size = 0 /\ table.limit = 0
    /\ mstep' = "raised"
    /\ UNCHANGED <<table, records, chosen, pool, disk, recovered_list>>

Walk ==
    /\ mstep = "walk" /\ (Size > 0 \/ table.limit > 0)
    /\ \E walked \in {WalkMft} : \E candidates \in {Those(walked, {r \in Range(walked) : Candidate(r)})} :
        /\ records' = walked
        /\ chosen' = candidates
        /\ pool' = [i \in DOMAIN candidates |-> "waiting"]
        /\ mstep' = IF candidates = <<>> THEN "done" ELSE "recover"
    /\ UNCHANGED <<table, disk, recovered_list>>

-----------------------------------------------------------------------------
(* _recover_single_file and save_recovered *)

RunsData(i) ==
    LET a == table.records[chosen[i].at].heads[chosen[i].data_non_resident]
    IN  IF a.reads THEN Value(chosen[i].at, table.records[chosen[i].at], chosen[i].data_non_resident, 0)
        ELSE <<>>

\* The last stream of the record, and nothing when reading its runs fails.
FileData(i) ==
    IF chosen[i].resident /\ chosen[i].data_resident # <<>> THEN chosen[i].data_resident ELSE RunsData(i)

SavedPath(i) ==
    <<chosen[i].deleted, IF chosen[i].name = "" THEN <<"mft", chosen[i].number>>
                         ELSE <<"file", SafeName[chosen[i].name]>>>>

Working == {i \in DOMAIN pool : pool[i] = "open"}
Submitted == mstep = "recover" \/ (mstep = "raised" /\ table.threads > 1)
MoveTo(i, state) == pool' = [pool EXCEPT ![i] = state]

\* The threads take the candidates in order; without a pool each is reported
\* before the next is taken.
NextFile(i) ==
    /\ Submitted /\ i \in DOMAIN pool /\ pool[i] = "waiting"
    /\ \A j \in 1..(i - 1) : pool[j] # "waiting"
    /\ Cardinality(Working) < table.threads
    /\ table.threads = 1 => \A j \in 1..(i - 1) : pool[j] \in {"listed", "passed"}

SkipFile(i) ==
    /\ NextFile(i) /\ FileData(i) = <<>>
    /\ MoveTo(i, "skipped")
    /\ UNCHANGED <<table, mstep, records, chosen, disk, recovered_list>>

\* write_bytes empties the file, then writes.
OpenFile(i) ==
    /\ NextFile(i) /\ FileData(i) # <<>>
    /\ MoveTo(i, "open")
    /\ disk' = [p \in DOMAIN disk \union {SavedPath(i)} |-> IF p = SavedPath(i) THEN <<>> ELSE disk[p]]
    /\ UNCHANGED <<table, mstep, records, chosen, recovered_list>>

\* Mutant: the file is appended to.
WriteFileBehind(i) ==
    /\ i \in Working
    /\ disk' = [disk EXCEPT ![SavedPath(i)] = @ \o FileData(i)]
    /\ MoveTo(i, "saved")
    /\ UNCHANGED <<table, mstep, records, chosen, recovered_list>>

\* What another thread has written to the same file meanwhile stays behind.
WriteFile(i) ==
    /\ i \in Working
    /\ disk' = [disk EXCEPT ![SavedPath(i)] =
                    FileData(i) \o SubSeq(@, Len(FileData(i)) + 1, Len(@))]
    /\ MoveTo(i, "saved")
    /\ UNCHANGED <<table, mstep, records, chosen, recovered_list>>

SaveFails(i) ==
    /\ table.faults
    /\ i \in Working
    /\ MoveTo(i, "failed")
    /\ UNCHANGED <<table, mstep, records, chosen, disk, recovered_list>>

-----------------------------------------------------------------------------
(* _recover_files and _recover_resident: results in the order they come *)

List(i) ==
    /\ mstep = "recover" /\ i \in DOMAIN pool /\ pool[i] = "saved"
    /\ recovered_list' = Append(recovered_list, i)
    /\ MoveTo(i, "listed")
    /\ UNCHANGED <<table, mstep, records, chosen, disk>>

Pass(i) ==
    /\ mstep = "recover" /\ i \in DOMAIN pool /\ pool[i] = "skipped"
    /\ MoveTo(i, "passed")
    /\ UNCHANGED <<table, mstep, records, chosen, disk, recovered_list>>

\* The exception of a save reaches the command; the pool works on to the end.
RecoverRaises(i) ==
    /\ mstep = "recover" /\ i \in DOMAIN pool /\ pool[i] = "failed"
    /\ mstep' = "raised"
    /\ UNCHANGED <<table, records, chosen, pool, disk, recovered_list>>

RecoverOver ==
    /\ mstep = "recover" /\ \A i \in DOMAIN pool : pool[i] \in {"listed", "passed"}
    /\ mstep' = "done"
    /\ UNCHANGED <<table, records, chosen, pool, disk, recovered_list>>

FileStep(i) ==
    \/ SkipFile(i) \/ OpenFile(i) \/ WriteFile(i) \/ SaveFails(i)
    \/ List(i) \/ Pass(i) \/ RecoverRaises(i)
MftNext == WalkRaises \/ Walk \/ (\E i \in 1..MaxRecords : FileStep(i)) \/ RecoverOver
MftSpec == MftInit /\ [][MftNext]_mftVars

-----------------------------------------------------------------------------
(* The other readers of a record: usn/parser.py and logfile/parser.py *)

\* $J is the first stream with runs, $Max the last, $LogFile the last or, when
\* there is none, the last value.
JData(i, rec, n) ==
    LET runs == PlacesOf(rec, LowerOf(rec.used, n), "data", FALSE)
    IN  IF runs = <<>> THEN <<>> ELSE Value(i, rec, Head(runs), n)
MaxData(i, rec, n) ==
    LET r == ParseMftRecord(i, rec, n)
    IN  IF HasRuns(r) THEN Value(i, rec, r.data_non_resident, n) ELSE <<>>
LogFileData(i, rec, n) ==
    IF MaxData(i, rec, n) # <<>> THEN MaxData(i, rec, n) ELSE ParseMftRecord(i, rec, n).data_resident

-----------------------------------------------------------------------------
(* Properties *)

\* Types; no more threads write than there are.
MftTypeOK ==
    /\ mstep \in {"idle", "walk", "recover", "raised", "done"}
    /\ DOMAIN pool = DOMAIN chosen /\ IsInjective(recovered_list)
    /\ Range(pool) \subseteq {"waiting", "open", "saved", "skipped", "failed", "listed", "passed"}
    /\ Cardinality(Working) <= IF mstep = "idle" THEN 0 ELSE table.threads

MftWalked == mstep \in {"recover", "done"}
LimitOnRecords == LowerOf(IF table.limit > 0 THEN table.limit ELSE MaxRecords, MaxRecords)

\* Where the size is right, the walk finds the records that begin before the
\* limit and are whole in the image, and no bad one hides a later one; where it
\* is wrong, it still takes nothing for a record that is none, in order.
WalkRight ==
    MftWalked =>
        /\ \A i, j \in DOMAIN records : i < j => records[i].at < records[j].at
        /\ Size = RecordWords =>
            {records[i].at : i \in DOMAIN records} =
                {i \in DOMAIN table.records : /\ table.records[i].state = "good"
                                              /\ i <= LimitOnRecords /\ i * RecordWords <= table.words}

\* The streams of a record as the format has them: the DATA attributes from the
\* first to the end mark.
Streams(rec) ==
    {p \in DOMAIN rec.heads : rec.heads[p].type = "data" /\
        \A q \in DOMAIN rec.heads : (q < p) => (rec.heads[q].len > 0 /\ q + rec.heads[q].len <= p)}
Contiguous(rec) ==
    /\ DOMAIN rec.heads = {} \/ 0 \in DOMAIN rec.heads
    /\ \A p, q \in DOMAIN rec.heads : (p < q /\ rec.heads[p].len > 0) =>
        p + rec.heads[p].len \in DOMAIN rec.heads /\ p + rec.heads[p].len <= q
WholeStream(rec, p) ==
    [k \in 1..rec.heads[p].count |->
        IF rec.heads[p].resident THEN <<p + ResidentHeader + k - 1>> ELSE <<p, k>>]
Tails(words) == [k \in DOMAIN words |-> Tail(words[k])]

\* A sound record has its attributes end to end, and room for all of them.
Sound(rec) ==
    /\ Contiguous(rec) /\ rec.used <= Size
    /\ \A p \in DOMAIN rec.heads : HeaderFits(rec, p, rec.used)
    /\ \A p \in Streams(rec) : rec.heads[p].resident =>
        p + ResidentHeader + rec.heads[p].count <= rec.used
    /\ rec.array \/ rec.ends = {}

\* Of a sound record every reader takes a stream whole and mixes no two of them,
\* and of a record with one stream they take the same.
StreamsRight ==
    MftWalked => \A k \in DOMAIN records :
        LET i    == records[k].at
            rec  == table.records[i]
            runs == {p \in Streams(rec) : ~rec.heads[p].resident}
            whole(ps) == {WholeStream(rec, p) : p \in ps}
            r    == records[k]
        IN  Sound(rec) =>
            /\ Tails(r.data_resident) \in whole(Streams(rec) \ runs) \union {<<>>}
            /\ Tails(JData(i, rec, Size)) \in whole(runs) \union {<<>>}
            /\ Tails(LogFileData(i, rec, Size)) \in whole(Streams(rec)) \union {<<>>}
            /\ \A p \in Streams(rec) : Streams(rec) = {p} =>
                /\ Tails(LogFileData(i, rec, Size)) = WholeStream(rec, p)
                /\ IF p \in runs THEN JData(i, rec, Size) = MaxData(i, rec, Size) /\ ~r.resident
                   ELSE Tails(r.data_resident) = WholeStream(rec, p) /\ r.resident

Wrote(i) == pool[i] \in {"saved", "listed"}
Sharing(i) == {j \in DOMAIN pool : SavedPath(j) = SavedPath(i) /\ pool[j] # "waiting"}

\* What was saved is there: a file of its own path is whole, the last one saved
\* without threads wins its path, and with threads the words of a path come from
\* the files saved under it, one of them whole from the start.
SavedRight ==
    (MftWalked /\ Working = {}) => \A i \in DOMAIN pool :
        (Wrote(i) /\ \A j \in Sharing(i) : pool[j] # "failed") =>
            LET file == disk[SavedPath(i)]
                same == {j \in Sharing(i) : Wrote(j)}
            IN  /\ \E j \in same : IsPrefix(FileData(j), file)
                /\ \A n \in DOMAIN file : \E j \in same : n <= Len(FileData(j)) /\ file[n] = FileData(j)[n]
                /\ table.threads = 1 =>
                    \E j \in same : file = FileData(j) /\ \A l \in same : l <= j

\* Records are found, read and saved as they are on the volume.
MftRight == WalkRight /\ StreamsRight /\ SavedRight

\* A volume whose records have the size its boot sector gives has them found
\* ("NTFS MFT walker - sequential record iteration", CHANGELOG.md:146).
WalkerIterates ==
    (MftWalked /\ NtfsRecordSize(table) = RecordWords) =>
        {i \in DOMAIN table.records : table.records[i].state = "good" /\ i <= LimitOnRecords}
            \subseteq {records[k].at : k \in DOMAIN records}
=============================================================================
