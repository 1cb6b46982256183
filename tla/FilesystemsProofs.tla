------------------------- MODULE FilesystemsProofs -------------------------
(***************************************************************************)
(* Proofs about the readers of a volume.  NTFS among the others: its log,  *)
(* its journal and its run lists (NtfsProofs).  FAT32: that a deleted file *)
(* is the bytes of its chain, and that directories are read and walked as  *)
(* they were written; and what a volume is taken for.                      *)
(***************************************************************************)
EXTENDS MCFilesystems, NtfsProofs

-----------------------------------------------------------------------------
(* Part 1: the readers among the others.                                    *)

\* A reader that is off has read nothing.
LEMMA OffReadsNothing ==
  /\ LogIdle => LogIsRead
  /\ UsnIdle /\ UsnOff => UsnRight
<1>1. ASSUME LogIdle PROVE LogIsRead
  <2>1. DOMAIN entries = {}
    BY <1>1 DEF LogIdle, LogOff
  <2> QED BY <2>1 DEF LogIsRead, EntriesInside, OncePerPage
<1>2. ASSUME UsnIdle, UsnOff PROVE UsnRight
  <2>1. ustep = "idle" /\ found = <<>> /\ events = <<>>
    BY <1>2 DEF UsnIdle, UsnOff
  <2>2. DOMAIN events = {} /\ Len(found) = 0
    BY <2>1
  <2>3. RecordsApart
    BY <2>2 DEF RecordsApart
  <2>4. GapsAreCrossed /\ EveryRecordTold /\ RenamesPaired
    BY <2>1, <2>2 DEF GapsAreCrossed, EveryRecordTold, RenamesPaired
  <2> QED BY <2>3, <2>4 DEF UsnRight, JournalIsRead, EventsRight
<1> QED BY <1>1, <1>2

\* A reader that is off stays off.
LEMMA OffStays ==
  /\ LogIdle /\ [LogNext]_logVars => LogIdle'
  /\ UsnIdle /\ UsnOff /\ [UsnNext]_usnVars => (UsnIdle /\ UsnOff)'
<1>1. ASSUME LogIdle, [LogNext]_logVars PROVE LogIdle'
  <2>1. ~LogNext
    BY <1>1 DEF LogNext, FindPages, StartPage, Starting, ReadEntry, PassOver, Passing, LogOver, LogIdle
  <2> QED BY <1>1, <2>1 DEF logVars, LogIdle, LogOff
<1>2. ASSUME UsnIdle, UsnOff, [UsnNext]_usnVars PROVE (UsnIdle /\ UsnOff)'
  <2>1. ~UsnNext
    BY <1>2 DEF UsnNext, TakeRecord, SkipWord, Searching, ScanOver, MapOld, MapNew, MapOther, MapLeft, UsnIdle
  <2> QED BY <1>2, <2>1 DEF usnVars, UsnIdle, UsnOff
<1> QED BY <1>1, <1>2

\* A step of the readers is one of each or none of it.
LEMMA ReadersStep == [MCNext]_MCVars => [LogNext]_logVars /\ [UsnNext]_usnVars
BY DEF MCNext, Loops, MCVars, logVars, usnVars

JournalsInv == (LogIdle \/ LogInv) /\ ((UsnIdle /\ UsnOff) \/ UsnInv)

\* Whatever the other readers of a volume do, the change journal and the transaction log are
\* read as they were written.
THEOREM JournalsAreRead == MCSpec => []JournalsRight
<1>1. MCInit => JournalsInv
  <2>1. MCInit => (LogIdle \/ LogInit) /\ ((UsnIdle /\ UsnOff) \/ UsnInit)
    BY DEF MCInit, JournalOff, LoggingOff, WalkInit
  <2> QED BY <2>1, LogStarts, UsnStarts DEF JournalsInv
<1>2. JournalsInv /\ [MCNext]_MCVars => JournalsInv'
  BY ReadersStep, OffStays, LogSteps, UsnSteps DEF JournalsInv
<1>3. JournalsInv => JournalsRight
  BY OffReadsNothing, LogInvReads, UsnInvRight DEF JournalsInv, JournalsRight
<1>4. MCSpec => []JournalsInv
  BY <1>1, <1>2, PTL DEF MCSpec
<1> QED BY <1>3, <1>4, PTL

\* A reader of runs that is off has read nothing and stays off.
LEMMA RunsOffStay ==
  /\ RunIdle => ClassifiedRight
  /\ RunIdle /\ [RunNext]_runVars => RunIdle'
<1>1. RunIdle => ClassifiedRight
  <2>1. RunIdle => ~(rstep \in {"done", "error", "read"})
    BY DEF RunIdle
  <2> QED BY <2>1 DEF ClassifiedRight, EstimateIsExact, RecoverableIsWhole, DetectorsAgree, Finished
<1>2. ASSUME RunIdle, [RunNext]_runVars PROVE RunIdle'
  <2>1. ~RunNext
    BY <1>2 DEF RunNext, Resolve, FillHole, ReadRun, SkipBefore, SeekFails, ReadChunk, ChunksOver, RunEnd,
                Reading, RunIdle
  <2> QED BY <1>2, <2>1 DEF runVars, RunIdle
<1> QED BY <1>1, <1>2

\* Whatever the other readers of a volume do, what is said of a file before it is read agrees with
\* reading it.
THEOREM RunsAreClassified == MCSpec => []ClassifiedRight
<1> DEFINE Inv == RunIdle \/ RunInv
<1>1. MCInit => Inv
  <2>1. MCInit => RunIdle \/ RunInit
    BY DEF MCInit, RunsOff
  <2> QED BY <2>1, RunStarts
<1>2. Inv /\ [MCNext]_MCVars => Inv'
  <2>1. [MCNext]_MCVars => [RunNext]_runVars
    BY DEF MCNext, Loops, MCVars, runVars
  <2> QED BY <2>1, RunsOffStay, RunSteps
<1>3. Inv => ClassifiedRight
  BY RunsOffStay, InvClassifies, InvDetects DEF ClassifiedRight
<1> HIDE DEF Inv
<1>4. MCSpec => []Inv
  BY <1>1, <1>2, PTL DEF MCSpec
<1> QED BY <1>3, <1>4, PTL

\* Whatever the other readers of a volume do, a run list in the format of NTFS is parsed back to
\* its runs, the runs tile the file, and all readers have the bytes that its clusters name.
THEOREM RunsAreDescribed == MCSpec => []RunsRight
<1> DEFINE Inv == RunIdle \/ RunsKept
<1>1. MCInit => Inv
  <2>1. MCInit => RunIdle \/ RunInit
    BY DEF MCInit, RunsOff
  <2> QED BY <2>1, RunsKeptStarts
<1>2. Inv /\ [MCNext]_MCVars => Inv'
  <2>1. [MCNext]_MCVars => [RunNext]_runVars
    BY DEF MCNext, Loops, MCVars, runVars
  <2> QED BY <2>1, RunsOffStay, RunsKeptSteps
<1>3. Inv => RunsRight
  <2>1. ASSUME RunIdle PROVE RunsRight
    <3>1. rstep # "read" /\ DOMAIN data = {}
      BY <2>1 DEF RunIdle
    <3> QED BY <3>1 DEF RunsRight, RunsDescribeFile, ReadersRight, ParsesBack, RunsTile, ReadInPlace, RangeInPlace
  <2> QED BY <2>1, RunsKeptRight
<1> HIDE DEF Inv
<1>4. MCSpec => []Inv
  BY <1>1, <1>2, PTL DEF MCSpec
<1> QED BY <1>3, <1>4, PTL

-----------------------------------------------------------------------------
(* Part 2: what a volume is taken for.                                      *)

\* What was said of a volume so far is what the detector and the two readers say of it.
Sayings == <<DetectFilesystem(candidate), FatInfo(candidate), NtfsInfo(candidate)>>

\* What was said of a volume so far is what each looks at it would say.
DetectionInv ==
  /\ candidate \in VolumeType
  /\ probed \in {<<>>, <<Sayings[1]>>, <<Sayings[1], Sayings[2]>>, Sayings}

\* The answers, by what they depend on.
LEMMA DetectorSays ==
  ASSUME NEW v \in VolumeType, NEW d, d = DetectFilesystem(v)
  PROVE  /\ d.type \in {"FAT12", "FAT16", "FAT32"} =>
              /\ v.size >= 512 /\ v.sector # 0 /\ d.type = FatType(FatClusters(v))
              /\ d.total = FatTotal(v) * v.sector
         /\ d.type = "NTFS" => v.size >= 512 /\ v.oem = "NTFS" /\ d.total = v.total64 * v.sector
         /\ v.size >= 512 /\ v.oem = "NTFS" /\ d.type # "raises" /\ ~IsExt(v) => d.type = "NTFS"
         /\ d.type = "raises" => ExtEnds(v) \/ (v.sector = 0 /\ v.oem \notin {"NTFS", "EXFAT"})
<1>1. FatType(FatClusters(v)) \in {"FAT12", "FAT16", "FAT32"}
  BY DEF FatType
<1> DEFINE ft == FatType(FatClusters(v))
           fo == FatTotal(v)
<1> HIDE DEF ft, fo
<1>2. ft \in {"FAT12", "FAT16", "FAT32"}
  BY <1>1 DEF ft
<1>3. CheckFat(v) = IF v.sector = 0 THEN [type |-> "raises"]
                    ELSE [type |-> ft, sector |-> v.sector, total |-> fo * v.sector]
  BY DEF CheckFat, Raises, Found, ft, fo
<1>4. d = IF v.size < 512 THEN [type |-> "unknown", sector |-> 1, total |-> v.size * 1]
          ELSE IF ExtEnds(v) THEN [type |-> "raises"]
          ELSE IF IsExt(v) THEN [type |-> "ext2/3/4", sector |-> v.block, total |-> v.blocks * v.block]
          ELSE IF v.oem = "NTFS" THEN [type |-> "NTFS", sector |-> v.sector, total |-> v.total64 * v.sector]
          ELSE IF v.oem = "EXFAT" THEN [type |-> "exFAT", sector |-> v.shifted, total |-> v.total64 * v.shifted]
          ELSE IF v.jump \/ v.oem = "FAT" THEN CheckFat(v)
          ELSE [type |-> "unknown", sector |-> 1, total |-> v.size * 1]
  BY DEF DetectFilesystem, Raises, Found
<1>5. v.size \in Nat
  BY DEF VolumeType
<1>6. v.size < 512 => d = [type |-> "unknown", sector |-> 1, total |-> v.size * 1]
  BY <1>4
<1> QED BY <1>2, <1>3, <1>4, <1>5, <1>6 DEF ft, fo

\* A volume with one total and no fields of FAT16 has the clusters that its reader counts.
LEMMA ClustersAgree ==
  ASSUME NEW v \in VolumeType, v.entries = 0, v.fat16 = 0, 0 \in {v.total16, v.total32}
  PROVE  /\ FatTotal(v) = ReadTotal(v)
         /\ v.sector # 0 /\ v.cluster # 0 => FatClusters(v) = ReadClusters(v)
         /\ v.cluster = 0 => FatClusters(v) = 0
         /\ v.cluster # 0 => ReadClusters(v) \in Int
<1>1. /\ v.sector \in Nat /\ v.cluster \in Nat /\ v.total16 \in Nat /\ v.total32 \in Nat
      /\ v.reserved \in Nat /\ v.fats \in Nat /\ v.fat32 \in Nat
  BY DEF VolumeType
<1>2. FatTotal(v) = ReadTotal(v) /\ ReadTotal(v) \in Nat
  BY <1>1 DEF FatTotal, ReadTotal
<1>3. FatSize(v) = v.fat32
  BY DEF FatSize
<1>4. PICK f : f = v.fats * v.fat32 /\ f \in Nat
  <2>1. \A a, b \in Nat : a * b \in Nat
    OBVIOUS
  <2> QED BY <1>1, <2>1
<1>5. v.sector # 0 => (v.entries * 32 + v.sector - 1) \div v.sector = 0
  <2>1. v.entries * 32 + v.sector - 1 = v.sector - 1
    BY <1>1
  <2> QED BY <1>1, <2>1, DivisionOfLess
<1>6. ASSUME v.sector # 0, v.cluster # 0 PROVE FatClusters(v) = ReadClusters(v)
  <2>1. v.cluster > 0
    BY <1>1, <1>6
  <2>2. FatClusters(v) = (ReadTotal(v) - (v.reserved + f + 0)) \div v.cluster
    BY <1>2, <1>3, <1>4, <1>5, <1>6, <2>1 DEF FatClusters
  <2>3. v.reserved + f + 0 = v.reserved + f
    BY <1>1, <1>4
  <2> QED BY <1>4, <2>2, <2>3 DEF ReadClusters
<1>7. v.cluster = 0 => FatClusters(v) = 0
  BY DEF FatClusters
<1>8. v.cluster # 0 => ReadClusters(v) \in Int
  <2>1. \A a \in Int, b \in Nat : b # 0 => a \div b \in Int
    OBVIOUS
  <2>2. ReadTotal(v) - (v.reserved + v.fats * v.fat32) \in Int
    BY <1>1, <1>2, <1>4
  <2> QED BY <1>1, <2>1, <2>2 DEF ReadClusters
<1> QED BY <1>2, <1>6, <1>7, <1>8

\* The answers agree.
LEMMA SayingsRight == DetectionInv => DetectionRight
<1> SUFFICES ASSUME DetectionInv PROVE DetectionRight
  OBVIOUS
<1> DEFINE d == DetectFilesystem(candidate)
           f == FatInfo(candidate)
           n == NtfsInfo(candidate)
<1>1. candidate \in VolumeType /\ probed \in {<<>>, <<d>>, <<d, f>>, <<d, f, n>>}
  BY DEF DetectionInv, Sayings
<1>2. /\ probed # <<>> => probed[1] = d
      /\ Len(probed) >= 2 => probed # <<>> /\ probed[2] = f
      /\ Len(probed) = 3 => probed # <<>> /\ probed[3] = n
  <2> HIDE DEF d, f, n
  <2> QED BY <1>1
<1>3. FatAgrees
  <2> SUFFICES ASSUME Len(probed) >= 2, candidate.entries = 0, candidate.fat16 = 0,
                      0 \in {candidate.total16, candidate.total32}
               PROVE  /\ (d.type = "FAT32" /\ candidate.fat32 # 0) =>
                            f.type = "FAT32" /\ "clusters" \notin f.issues /\ f.total = d.total
                      /\ (d.type \in {"FAT12", "FAT16"} /\ f.type = "FAT32") => "clusters" \in f.issues
    BY <1>2 DEF FatAgrees
  <2>1. Fat16From \in Nat /\ Fat32From \in Nat /\ Fat16From < Fat32From
    BY DetectionAssumption
  <2>2. /\ d.type \in {"FAT12", "FAT16", "FAT32"} =>
              /\ candidate.size >= 512 /\ candidate.sector # 0 /\ d.type = FatType(FatClusters(candidate))
              /\ d.total = FatTotal(candidate) * candidate.sector
    BY <1>1, DetectorSays
  <2>3. /\ FatTotal(candidate) = ReadTotal(candidate)
        /\ candidate.sector # 0 /\ candidate.cluster # 0 => FatClusters(candidate) = ReadClusters(candidate)
        /\ candidate.cluster = 0 => FatClusters(candidate) = 0
        /\ candidate.cluster # 0 => ReadClusters(candidate) \in Int
    BY <1>1, ClustersAgree
  <2>4. candidate.size \in Nat
    BY <1>1 DEF VolumeType
  <2> DEFINE c == FatClusters(candidate)
             r == ReadClusters(candidate)
             i == FatIssues(candidate)
             t == ReadTotal(candidate) * candidate.sector
  <2>5. "clusters" \in i <=> (candidate.cluster # 0 /\ r < Fat32From)
    BY DEF FatIssues
  <2>6. f = IF candidate.size < 512 \/ candidate.fat32 = 0 THEN [type |-> "refused"]
            ELSE IF candidate.cluster = 0 THEN [type |-> "raises"]
            ELSE [type |-> "FAT32", issues |-> i, clusters |-> r, total |-> t]
    BY DEF FatInfo, Raises
  <2>7. d.type \in {"FAT12", "FAT16", "FAT32"} => d.total = t
    BY <2>2, <2>3
  <2> HIDE DEF c, r, i, t, f, d
  <2>8. FatType(c) = IF c < Fat16From THEN "FAT12" ELSE IF c < Fat32From THEN "FAT16" ELSE "FAT32"
    BY DEF FatType
  <2>9. /\ candidate.sector # 0 /\ candidate.cluster # 0 => c = r /\ r \in Int
        /\ candidate.cluster = 0 => c = 0
        /\ d.type \in {"FAT12", "FAT16", "FAT32"} =>
              candidate.size >= 512 /\ candidate.sector # 0 /\ d.type = FatType(c)
    BY <2>2, <2>3 DEF c, r
  <2>10. (d.type = "FAT32" /\ candidate.fat32 # 0) =>
                            f.type = "FAT32" /\ "clusters" \notin f.issues /\ f.total = d.total
    BY <2>1, <2>4, <2>5, <2>6, <2>7, <2>8, <2>9
  <2>11. (d.type \in {"FAT12", "FAT16"} /\ f.type = "FAT32") => "clusters" \in f.issues
    BY <2>1, <2>4, <2>5, <2>6, <2>7, <2>8, <2>9
  <2> QED BY <2>10, <2>11
<1>4. NtfsAgrees
  <2>1. candidate.size \in Nat
    BY <1>1 DEF VolumeType
  <2>2. /\ d.type = "NTFS" =>
              candidate.size >= 512 /\ candidate.oem = "NTFS" /\ d.total = candidate.total64 * candidate.sector
        /\ candidate.size >= 512 /\ candidate.oem = "NTFS" /\ d.type # "raises" /\ ~IsExt(candidate)
              => d.type = "NTFS"
    BY <1>1, DetectorSays
  <2>3. n.type = "NTFS" <=> (candidate.size >= 512 /\ candidate.oem = "NTFS")
    BY <2>1 DEF NtfsInfo
  <2>4. n.type = "NTFS" => n.total = candidate.total64 * candidate.sector
    BY <2>1 DEF NtfsInfo
  <2> HIDE DEF d, n
  <2> QED BY <1>2, <2>2, <2>3, <2>4 DEF NtfsAgrees
<1>5. DetectorEnds
  BY <1>1, <1>2, DetectorSays DEF DetectorEnds, ExtEnds
<1> QED BY <1>3, <1>4, <1>5 DEF DetectionRight

\* A volume is looked at in three steps.
LEMMA DetectionSteps ==
  /\ DetectionInit => DetectionInv
  /\ DetectionInv /\ [DetectionNext]_detectionVars => DetectionInv'
<1>1. DetectionInit => DetectionInv
  BY DetectionAssumption DEF DetectionInit, DetectionInv
<1>2. ASSUME DetectionInv, [DetectionNext]_detectionVars PROVE DetectionInv'
  <2> DEFINE d == DetectFilesystem(candidate)
             f == FatInfo(candidate)
             n == NtfsInfo(candidate)
  <2>1. candidate' = candidate
    BY <1>2 DEF DetectionNext, Probe, ReadFat, ReadNtfs, detectionVars
  <2>2. probed \in {<<>>, <<d>>, <<d, f>>, <<d, f, n>>}
    BY <1>2 DEF DetectionInv, Sayings
  <2>3. \/ probed' = probed
        \/ Len(probed) = 0 /\ probed' = <<d>>
        \/ Len(probed) = 1 /\ probed' = Append(probed, f)
        \/ Len(probed) = 2 /\ probed' = Append(probed, n)
    BY <1>2 DEF DetectionNext, Probe, ReadFat, ReadNtfs, detectionVars
  <2>4. /\ DetectFilesystem(candidate)' = d /\ FatInfo(candidate)' = f /\ NtfsInfo(candidate)' = n
    BY <2>1
  <2> HIDE DEF d, f, n
  <2>5. probed' \in {<<>>, <<d>>, <<d, f>>, <<d, f, n>>}
    <3>1. /\ Len(<<>>) = 0 /\ Len(<<d>>) = 1 /\ Len(<<d, f>>) = 2 /\ Len(<<d, f, n>>) = 3
          /\ Append(<<d>>, f) = <<d, f>> /\ Append(<<d, f>>, n) = <<d, f, n>>
      <4>1. Len(<<>>) = 0 /\ Len(<<d>>) = 1 /\ Len(<<d, f>>) = 2 /\ Len(<<d, f, n>>) = 3
        OBVIOUS
      <4> QED BY <4>1, AppendTuples
    <3>2. CASE probed = <<>>
      BY <2>3, <3>1, <3>2
    <3>3. CASE probed = <<d>>
      BY <2>3, <3>1, <3>3
    <3>4. CASE probed = <<d, f>>
      BY <2>3, <3>1, <3>4
    <3>5. CASE probed = <<d, f, n>>
      BY <2>3, <3>1, <3>5
    <3> QED BY <2>2, <3>2, <3>3, <3>4, <3>5
  <2> QED BY <1>2, <2>1, <2>4, <2>5 DEF DetectionInv, Sayings
<1> QED BY <1>1, <1>2

-----------------------------------------------------------------------------
(* Part 3: recovery of deleted files.                                       *)

\* A table: its entries hold values of the table.
TableOK == \A c \in DOMAIN volume.fat : volume.fat[c] \in Values

\* The next cluster is a value of the table.
LEMMA NextIsValue ==
  ASSUME TableOK, NEW c PROVE NextCluster(c) \in Values /\ NextCluster(c) \in 0..Over
<1>1. Eoc \in Values /\ \A x \in Values : x \in 0..Over
  BY FatAssumption DEF Values, Eoc, Over
<1> QED BY <1>1 DEF TableOK, NextCluster

\* f goes from a start where the table leads, and stays where it is no data cluster.
Follows(f, start) ==
  /\ f \in [Nat -> 0..Over] /\ f[0] = start
  /\ \A n \in Nat \ {0} : f[n] = IF f[n - 1] \in DataClusters THEN NextCluster(f[n - 1]) ELSE f[n - 1]

\* The orbit follows the table.
LEMMA OrbitFollows ==
  ASSUME TableOK, NEW start \in 0..Over
  PROVE  Follows(Orbit(start), start)
<1> DEFINE V == 0..Over
           next == [c \in V |-> IF c \in DataClusters THEN NextCluster(c) ELSE c]
           Equation(f) == f = [n \in Nat |->
              IF n = 0 THEN start
              ELSE IF f[n - 1] \in DataClusters THEN NextCluster(f[n - 1]) ELSE f[n - 1]]
<1>1. next \in [V -> V] /\ \A c \in V : next[c] = IF c \in DataClusters THEN NextCluster(c) ELSE c
  BY NextIsValue
<1> HIDE DEF next, V
<1>2. PICK g : g \in [Nat -> V] /\ g[0] = start /\ \A n \in Nat \ {0} : g[n] = next[g[n - 1]]
  <2> HIDE DEF Equation
  <2>1. start \in V
    BY DEF V
  <2>2. \E g : Endless(g, V, start, next)
    BY <1>1, <2>1, EndlessRecursion
  <2> QED BY <2>2 DEF Endless
<1>3. \A n \in Nat : g[n] = IF n = 0 THEN start
                            ELSE IF g[n - 1] \in DataClusters THEN NextCluster(g[n - 1]) ELSE g[n - 1]
  <2>1. \A n \in Nat \ {0} : n - 1 \in Nat /\ g[n - 1] \in V
    <3>1. \A n \in Nat \ {0} : n - 1 \in Nat
      OBVIOUS
    <3> QED BY <1>2, <3>1
  <2> QED BY <1>1, <1>2, <2>1
<1>4. Equation(g)
  BY <1>2, <1>3
<1>5. PICK f : Equation(f) /\ Orbit(start) = f
  <2> HIDE DEF Equation
  <2>1. Equation(CHOOSE f : Equation(f))
    BY <1>4
  <2>2. Orbit(start) = CHOOSE f : Equation(f)
    BY DEF Orbit, Equation
  <2> QED BY <2>1, <2>2
<1>6. \A n \in Nat : f[n] = IF n = 0 THEN start
                            ELSE IF f[n - 1] \in DataClusters THEN NextCluster(f[n - 1]) ELSE f[n - 1]
  BY <1>5
<1>7. \A n \in Nat : f[n] = g[n]
  <2> DEFINE P == {n \in Nat : f[n] = g[n]}
  <2>1. 0 \in P
    BY <1>3, <1>6
  <2>2. ASSUME NEW n \in Nat, n \in P PROVE n + 1 \in P
    <3>1. n + 1 \in Nat /\ (n + 1) - 1 = n /\ n + 1 # 0
      OBVIOUS
    <3> QED BY <1>3, <1>6, <2>2, <3>1
  <2> HIDE DEF P
  <2>3. ASSUME NEW n \in Nat PROVE n \in P
    <3>1. \A i \in 1..n : i - 1 \in P => i \in P
      <4>1. \A i \in 1..n : i - 1 \in Nat /\ (i - 1) + 1 = i
        OBVIOUS
      <4> QED BY <2>2, <4>1
    <3>2. \A i \in 0..n : i \in P
      BY <2>1, <3>1, UpTo
    <3> QED BY <3>2
  <2> QED BY <2>3 DEF P
<1>8. f = g
  BY <1>2, <1>5, <1>7
<1> QED BY <1>2, <1>3, <1>5, <1>8 DEF Follows, V

\* Where an orbit ends for the first time.
EndsAt(f, k) == f[k] \notin DataClusters \/ \E j \in 0..(k - 1) : f[j] = f[k]
FirstEnd(f, n) == EndsAt(f, n) /\ \A k \in 0..(n - 1) : ~EndsAt(f, k)

\* There are fewer clusters than steps, so an orbit ends.
LEMMA OrbitLenRight ==
  ASSUME TableOK, NEW start \in 0..Over
  PROVE  OrbitLen(start) \in 0..(Top + 1) /\ FirstEnd(Orbit(start), OrbitLen(start))
<1> DEFINE f == Orbit(start)
<1>1. Follows(f, start) /\ Top \in Nat /\ Top >= 2
  BY OrbitFollows, FatAssumption
<1> HIDE DEF f
<1>2. \E k \in 0..Top : EndsAt(f, k)
  <2> SUFFICES ASSUME \A k \in 0..Top : ~EndsAt(f, k) PROVE FALSE
    OBVIOUS
  <2> DEFINE g == [k \in 0..Top |-> f[k]]
             S == 0..Top
             T == 1..Top
  <2>1. g \in [S -> T]
    <3>1. \A k \in 0..Top : f[k] \in DataClusters
      BY DEF EndsAt
    <3>2. \A x \in DataClusters : x \in T
      BY <1>1 DEF DataClusters
    <3> QED BY <3>1, <3>2
  <2>2. IsFiniteSet(S) /\ Cardinality(S) = Top + 1 /\ IsFiniteSet(T) /\ Cardinality(T) = Top
    BY <1>1, FS_Interval
  <2>3. Cardinality(T) < Cardinality(S)
    BY <1>1, <2>2
  <2> HIDE DEF g, T, S
  <2>4. PICK x \in S, y \in S : x # y /\ g[x] = g[y]
    BY <2>1, <2>2, <2>3, FS_PigeonHole
  <2>5. f[x] = f[y] /\ x \in 0..Top /\ y \in 0..Top
    BY <2>4 DEF g, S
  <2>6. CASE x < y
    <3>1. x \in 0..(y - 1)
      BY <2>5, <2>6
    <3> QED BY <2>5, <3>1 DEF EndsAt
  <2>7. CASE y < x
    <3>1. y \in 0..(x - 1)
      BY <2>5, <2>7
    <3> QED BY <2>5, <3>1 DEF EndsAt
  <2> QED BY <2>4, <2>5, <2>6, <2>7
<1>3. \E n \in 0..(Top + 1) : FirstEnd(f, n)
  <2> DEFINE K == {k \in 0..Top : EndsAt(f, k)}
  <2>1. K \in SUBSET Nat /\ K # {}
    BY <1>1, <1>2
  <2>2. PICK n \in K : \A k \in K : n <= k
    BY <2>1, LeastNatural
  <2>3. n \in 0..(Top + 1) /\ \A k \in 0..(n - 1) : k \in 0..Top /\ ~(n <= k)
    BY <1>1
  <2> QED BY <2>2, <2>3 DEF FirstEnd
<1>4. OrbitLen(start) = CHOOSE n \in 0..(Top + 1) : FirstEnd(f, n)
  BY DEF OrbitLen, FirstEnd, EndsAt, f
<1>5. OrbitLen(start) \in 0..(Top + 1) /\ FirstEnd(f, OrbitLen(start))
  BY <1>3, <1>4
<1> QED BY <1>5 DEF f

\* An orbit ends for the first time once.
LEMMA FirstEndOnce ==
  ASSUME NEW f, NEW m \in Nat, NEW n \in Nat, FirstEnd(f, m), FirstEnd(f, n)
  PROVE  m = n
<1>1. m < n => m \in 0..(n - 1)
  OBVIOUS
<1>2. n < m => n \in 0..(m - 1)
  OBVIOUS
<1>3. ~(m < n) /\ ~(n < m)
  BY <1>1, <1>2 DEF FirstEnd
<1> QED BY <1>3

-----------------------------------------------------------------------------

\* What is read of a cluster: the bytes from its first on.
LEMMA ClusterDataRight ==
  ASSUME volume.bytes \in Nat, NEW c \in DataClusters
  PROVE  /\ ClusterData(c) \in Seq(Nat) /\ Len(ClusterData(c)) \in 0..ClusterSize
         /\ \A i \in 1..Len(ClusterData(c)) : ClusterData(c)[i] = (c - 2) * ClusterSize + (i - 1)
<1>1. c - 2 \in Nat /\ ClusterSize \in Nat /\ ClusterSize > 0
  BY FatAssumption DEF DataClusters
<1>2. PICK first : first = (c - 2) * ClusterSize /\ first \in Nat
  <2>1. \A a, b \in Nat : a * b \in Nat
    OBVIOUS
  <2> QED BY <1>1, <2>1
<1> DEFINE last == IF first + ClusterSize <= volume.bytes THEN first + ClusterSize ELSE volume.bytes
           n == IF last > first THEN last - first ELSE 0
           d == [i \in 1..n |-> first + i - 1]
<1>3. ClusterData(c) = d
  BY <1>2 DEF ClusterData
<1>4. n \in 0..ClusterSize
  <2>1. \A f, z, b, e \in Nat :
          e = (IF f + z <= b THEN f + z ELSE b) => (IF e > f THEN e - f ELSE 0) \in 0..z
    OBVIOUS
  <2>2. last \in Nat
    BY <1>1, <1>2
  <2> QED BY <1>1, <1>2, <2>1, <2>2
<1> HIDE DEF n
<1>5. d \in Seq(Nat) /\ Len(d) = n
  <2>1. \A i \in 1..n : first + i - 1 \in Nat
    BY <1>2, <1>4
  <2> QED BY <1>4, <2>1
<1>6. \A i \in 1..n : d[i] = first + (i - 1)
  OBVIOUS
<1> QED BY <1>2, <1>3, <1>4, <1>5, <1>6

\* A chain: clusters, none of them twice.
IsChain(clusters) ==
  /\ clusters \in Seq(DataClusters)
  /\ \A i, j \in 1..Len(clusters) : i # j => clusters[i] # clusters[j]

\* Bytes of the first n clusters of a chain, none of them twice and each at its place.
BytesOf(s, clusters, n) ==
  /\ s \in Seq(Nat)
  /\ \A k \in 1..Len(s) : \E j \in 1..n, o \in 0..(ClusterSize - 1) :
        s[k] = (clusters[j] - 2) * ClusterSize + o
  /\ \A k, l \in 1..Len(s) : k # l => s[k] # s[l]

\* The first n clusters are read, each whole and at its place.
PlacedUpTo(s, clusters, n) ==
  /\ n < Len(clusters) => Len(s) = n * ClusterSize
  /\ \A k \in 1..Len(s) : s[k] = FileByte(clusters, k)

\* The next cluster is put behind them.
LEMMA NextBytes ==
  ASSUME volume.bytes \in Nat, NEW clusters, IsChain(clusters), NEW n \in 1..Len(clusters),
         NEW s, BytesOf(s, clusters, n - 1)
  PROVE  BytesOf(s \o ClusterData(clusters[n]), clusters, n)
<1> DEFINE d == ClusterData(clusters[n])
           t == s \o d
<1>1. clusters \in Seq(DataClusters) /\ Len(clusters) \in Nat /\ n \in Nat /\ n >= 1
      /\ \A j \in 1..Len(clusters) : clusters[j] \in DataClusters /\ clusters[j] - 2 \in Nat
  <2>1. clusters \in Seq(DataClusters)
    BY DEF IsChain
  <2>2. Len(clusters) \in Nat /\ \A j \in 1..Len(clusters) : clusters[j] \in DataClusters
    BY <2>1
  <2>3. \A c \in DataClusters : c - 2 \in Nat
    BY FatAssumption DEF DataClusters
  <2> QED BY <2>1, <2>2, <2>3
<1>2. clusters[n] \in DataClusters
  BY <1>1
<1>3. /\ d \in Seq(Nat) /\ Len(d) \in 0..ClusterSize
      /\ \A i \in 1..Len(d) : d[i] = (clusters[n] - 2) * ClusterSize + (i - 1)
  BY <1>2, ClusterDataRight
<1> HIDE DEF d
<1>4. s \in Seq(Nat) /\ Len(s) \in Nat /\ ClusterSize \in Nat /\ ClusterSize > 0
  BY FatAssumption DEF BytesOf
<1>5. /\ t \in Seq(Nat) /\ Len(t) = Len(s) + Len(d)
      /\ \A k \in 1..Len(s) : t[k] = s[k]
      /\ \A k \in (Len(s) + 1)..(Len(s) + Len(d)) : t[k] = d[k - Len(s)]
  <2>1. /\ t \in Seq(Nat) /\ Len(t) = Len(s) + Len(d)
        /\ \A k \in 1..(Len(s) + Len(d)) : t[k] = IF k <= Len(s) THEN s[k] ELSE d[k - Len(s)]
    BY <1>3, <1>4, ConcatProperties
  <2>2. \A a, b \in Nat :
          (\A k \in 1..a : k \in 1..(a + b) /\ k <= a)
            /\ \A k \in (a + 1)..(a + b) : k \in 1..(a + b) /\ ~(k <= a)
    OBVIOUS
  <2>3. Len(d) \in Nat
    BY <1>3, <1>4
  <2> HIDE DEF t
  <2>4. /\ \A k \in 1..Len(s) : k \in 1..(Len(s) + Len(d)) /\ k <= Len(s)
        /\ \A k \in (Len(s) + 1)..(Len(s) + Len(d)) : k \in 1..(Len(s) + Len(d)) /\ ~(k <= Len(s))
    BY <1>4, <2>2, <2>3
  <2> QED BY <2>1, <2>4
<1> HIDE DEF t
<1> DEFINE First == 1..Len(s)
           Added == (Len(s) + 1)..(Len(s) + Len(d))
<1>6. \A k \in 1..Len(t) : k \in First \/ k \in Added
  BY <1>3, <1>4, <1>5
<1>7. ASSUME NEW k \in Added
      PROVE  \E o \in 0..(ClusterSize - 1) :
                t[k] = (clusters[n] - 2) * ClusterSize + o /\ o = (k - Len(s)) - 1
  <2>1. k - Len(s) \in 1..Len(d) /\ (k - Len(s)) - 1 \in 0..(ClusterSize - 1)
    BY <1>3, <1>4
  <2>2. t[k] = d[k - Len(s)]
    BY <1>5
  <2> QED BY <1>3, <2>1, <2>2
<1>8. ASSUME NEW k \in First
      PROVE  t[k] = s[k] /\ \E j \in 1..(n - 1), o \in 0..(ClusterSize - 1) :
                t[k] = (clusters[j] - 2) * ClusterSize + o
  <2>1. t[k] = s[k]
    BY <1>5
  <2>2. \E j \in 1..(n - 1), o \in 0..(ClusterSize - 1) : s[k] = (clusters[j] - 2) * ClusterSize + o
    BY DEF BytesOf
  <2> QED BY <2>1, <2>2
<1>9. ASSUME NEW k \in 1..Len(t)
      PROVE  \E j \in 1..n, o \in 0..(ClusterSize - 1) : t[k] = (clusters[j] - 2) * ClusterSize + o
  <2>1. n \in 1..n /\ \A j \in 1..(n - 1) : j \in 1..n
    BY <1>1
  <2> HIDE DEF First, Added
  <2> QED BY <1>6, <1>7, <1>8, <2>1
<1>10. ASSUME NEW k \in First, NEW l \in Added PROVE t[k] # t[l]
  <2>1. PICK j \in 1..(n - 1), o \in 0..(ClusterSize - 1) : t[k] = (clusters[j] - 2) * ClusterSize + o
    BY <1>8
  <2>2. PICK p \in 0..(ClusterSize - 1) : t[l] = (clusters[n] - 2) * ClusterSize + p
    BY <1>7
  <2>3. j \in 1..Len(clusters) /\ j # n
    BY <1>1
  <2>4. clusters[j] # clusters[n]
    BY <2>3 DEF IsChain
  <2>5. clusters[j] - 2 \in Nat /\ clusters[n] - 2 \in Nat /\ clusters[j] - 2 # clusters[n] - 2
    <3>1. \A x, y \in DataClusters : x # y => x - 2 # y - 2
      BY FatAssumption DEF DataClusters
    <3> QED BY <1>1, <2>3, <2>4, <3>1
  <2>6. PICK a \in Nat, b \in Nat : a = clusters[j] - 2 /\ b = clusters[n] - 2
    BY <2>5
  <2>7. a # b /\ t[k] = a * ClusterSize + o /\ t[l] = b * ClusterSize + p
    BY <2>1, <2>2, <2>5, <2>6
  <2>8. a * ClusterSize + o # b * ClusterSize + p
    <3>1. ASSUME a * ClusterSize + o = b * ClusterSize + p PROVE a = b
      BY <1>4, <3>1, MultiplesApart
    <3> QED BY <2>7, <3>1
  <2> QED BY <2>7, <2>8
<1>11. ASSUME NEW k \in Added, NEW l \in Added, k # l PROVE t[k] # t[l]
  <2>1. PICK o \in 0..(ClusterSize - 1) :
          t[k] = (clusters[n] - 2) * ClusterSize + o /\ o = (k - Len(s)) - 1
    BY <1>7
  <2>4. PICK p \in 0..(ClusterSize - 1) :
          t[l] = (clusters[n] - 2) * ClusterSize + p /\ p = (l - Len(s)) - 1
    BY <1>7
  <2>2. PICK a \in Nat : a = (clusters[n] - 2) * ClusterSize
    <3>1. \A x, y \in Nat : x * y \in Nat
      OBVIOUS
    <3> QED BY <1>1, <1>4, <3>1
  <2>3. k \in Int /\ l \in Int
    BY <1>4
  <2>5. o # p /\ o \in Int /\ p \in Int
    <3>1. \A x, y, z \in Int : x # y => (x - z) - 1 # (y - z) - 1
      OBVIOUS
    <3> QED BY <1>4, <1>11, <2>1, <2>3, <2>4, <3>1
  <2>6. a + o # a + p
    BY <2>5
  <2> QED BY <2>1, <2>2, <2>4, <2>6
<1>12. ASSUME NEW k \in First, NEW l \in First, k # l PROVE t[k] # t[l]
  BY <1>8, <1>12 DEF BytesOf
<1>13. \A k, l \in 1..Len(t) : k # l => t[k] # t[l]
  <2> HIDE DEF First, Added
  <2> QED BY <1>6, <1>10, <1>11, <1>12
<1>14. BytesOf(t, clusters, n)
  BY <1>5, <1>9, <1>13 DEF BytesOf
<1> QED BY <1>14 DEF t, d

\* And at its place, if those before it are whole.
LEMMA NextPlaced ==
  ASSUME volume.bytes \in Nat, NEW clusters, IsChain(clusters), NEW n \in 1..Len(clusters),
         NEW s, BytesOf(s, clusters, n - 1), PlacedUpTo(s, clusters, n - 1), WholeClusters(clusters)
  PROVE  PlacedUpTo(s \o ClusterData(clusters[n]), clusters, n)
<1> DEFINE d == ClusterData(clusters[n])
           t == s \o d
<1>1. clusters \in Seq(DataClusters) /\ Len(clusters) \in Nat /\ n \in Nat /\ n >= 1
      /\ \A j \in 1..Len(clusters) : clusters[j] \in DataClusters
  <2>1. clusters \in Seq(DataClusters)
    BY DEF IsChain
  <2> QED BY <2>1
<1>2. /\ d \in Seq(Nat) /\ Len(d) \in 0..ClusterSize
      /\ \A i \in 1..Len(d) : d[i] = (clusters[n] - 2) * ClusterSize + (i - 1)
  BY <1>1, ClusterDataRight
<1>3. n < Len(clusters) => Len(d) = ClusterSize
  <2>1. n < Len(clusters) => n \in 1..(Len(clusters) - 1)
    BY <1>1
  <2> QED BY <2>1 DEF WholeClusters
<1> HIDE DEF d
<1>4. s \in Seq(Nat) /\ Len(s) \in Nat /\ ClusterSize \in Nat /\ ClusterSize > 0
  BY FatAssumption DEF BytesOf
<1>5. /\ Len(t) = Len(s) + Len(d)
      /\ \A k \in 1..Len(s) : t[k] = s[k]
      /\ \A k \in (Len(s) + 1)..(Len(s) + Len(d)) : t[k] = d[k - Len(s)]
  <2>1. /\ t \in Seq(Nat) /\ Len(t) = Len(s) + Len(d)
        /\ \A k \in 1..(Len(s) + Len(d)) : t[k] = IF k <= Len(s) THEN s[k] ELSE d[k - Len(s)]
    BY <1>2, <1>4, ConcatProperties
  <2>2. \A a, b \in Nat :
          (\A k \in 1..a : k \in 1..(a + b) /\ k <= a)
            /\ \A k \in (a + 1)..(a + b) : k \in 1..(a + b) /\ ~(k <= a)
    OBVIOUS
  <2>3. Len(d) \in Nat
    BY <1>2, <1>4
  <2> HIDE DEF t
  <2>4. /\ \A k \in 1..Len(s) : k \in 1..(Len(s) + Len(d)) /\ k <= Len(s)
        /\ \A k \in (Len(s) + 1)..(Len(s) + Len(d)) : k \in 1..(Len(s) + Len(d)) /\ ~(k <= Len(s))
    BY <1>4, <2>2, <2>3
  <2> QED BY <2>1, <2>4
<1> HIDE DEF t
<1>6. Len(s) = (n - 1) * ClusterSize
  <2>1. n - 1 < Len(clusters)
    BY <1>1
  <2> QED BY <2>1 DEF PlacedUpTo
<1>7. n < Len(clusters) => Len(t) = n * ClusterSize
  <2>1. \A m, z \in Nat : m >= 1 => (m - 1) * z + z = m * z
    OBVIOUS
  <2> QED BY <1>1, <1>3, <1>4, <1>5, <1>6, <2>1
<1>8. ASSUME NEW k \in 1..Len(t) PROVE t[k] = FileByte(clusters, k)
  <2>1. CASE k <= Len(s)
    <3>1. k \in 1..Len(s)
      BY <1>4, <2>1
    <3> QED BY <1>5, <3>1 DEF PlacedUpTo
  <2>2. CASE ~(k <= Len(s))
    <3>1. k \in (Len(s) + 1)..(Len(s) + Len(d)) /\ k \in Nat
      BY <1>2, <1>4, <1>5, <2>2
    <3>2. PICK o \in Nat : o = (k - Len(s)) - 1
      <4>1. \A a, b \in Nat, x \in Nat : x \in (a + 1)..(a + b) => (x - a) - 1 \in Nat
        OBVIOUS
      <4>2. Len(d) \in Nat
        BY <1>2, <1>4
      <4>3. (k - Len(s)) - 1 \in Nat
        BY <1>4, <3>1, <4>1, <4>2
      <4> QED BY <4>3
    <3>3. /\ o \in 0..(ClusterSize - 1) /\ k - Len(s) \in 1..Len(d)
          /\ (k - Len(s)) - 1 = o /\ k - 1 = Len(s) + o
      BY <1>2, <1>4, <3>1, <3>2
    <3>4. t[k] = (clusters[n] - 2) * ClusterSize + o
      BY <1>2, <1>5, <3>1, <3>3
    <3>5. (k - 1) \div ClusterSize = n - 1 /\ (k - 1) % ClusterSize = o
      <4>1. n - 1 \in Nat /\ k - 1 = (n - 1) * ClusterSize + o
        BY <1>1, <1>6, <3>3
      <4>2. PICK q \in Nat : q = n - 1
        BY <4>1
      <4>3. (q * ClusterSize + o) \div ClusterSize = q /\ (q * ClusterSize + o) % ClusterSize = o
        BY <1>4, <3>3, RestBelow
      <4> QED BY <4>1, <4>2, <4>3
    <3>6. 1 + (n - 1) = n
      BY <1>1
    <3> QED BY <3>4, <3>5, <3>6 DEF FileByte
  <2>3. k \in Nat
    BY <1>2, <1>4, <1>5
  <2> QED BY <2>1, <2>2
<1>9. PlacedUpTo(t, clusters, n)
  BY <1>7, <1>8 DEF PlacedUpTo
<1> QED BY <1>9 DEF t, d

\* What is read of a chain: no byte twice, and each at its place unless a cluster before the
\* last is cut.
LEMMA ChainDataRight ==
  ASSUME volume.bytes \in Nat, NEW clusters, IsChain(clusters)
  PROVE  /\ BytesOf(ChainData(clusters), clusters, Len(clusters))
         /\ WholeClusters(clusters) => PlacedUpTo(ChainData(clusters), clusters, Len(clusters))
<1> DEFINE n == Len(clusters)
           seqs == [i \in DOMAIN clusters |-> ClusterData(clusters[i])]
           Good(s, i) == BytesOf(s, clusters, i) /\ (WholeClusters(clusters) => PlacedUpTo(s, clusters, i))
<1>1. clusters \in Seq(DataClusters) /\ n \in Nat /\ DOMAIN clusters = 1..n
      /\ \A i \in 1..n : clusters[i] \in DataClusters
  <2>1. clusters \in Seq(DataClusters)
    BY DEF IsChain
  <2> QED BY <2>1
<1>2. Good(<<>>, 0)
  <2>1. <<>> \in Seq(Nat) /\ Len(<<>>) = 0 /\ \A k \in 1..0 : FALSE
    OBVIOUS
  <2>2. 0 * ClusterSize = 0
    BY FatAssumption
  <2> QED BY <2>1, <2>2 DEF BytesOf, PlacedUpTo
<1>3. ASSUME NEW i \in 1..n, NEW s, Good(s, i - 1) PROVE Good(s \o ClusterData(clusters[i]), i)
  BY <1>3, NextBytes, NextPlaced
<1>4. \A i \in 1..n : ClusterData(clusters[i]) \in Seq(Nat)
  BY <1>1, ClusterDataRight
<1>5. seqs \in Seq(Seq(Nat)) /\ Len(seqs) = n /\ \A i \in 1..n : seqs[i] = ClusterData(clusters[i])
  BY <1>1, <1>4
<1>6. ChainData(clusters) = FlattenSeq(seqs)
  BY DEF ChainData
<1> HIDE DEF n, seqs, Good
<1>7. CASE n = 0
  <2>1. FlattenSeq(seqs) = <<>>
    <3>1. seqs = <<>>
      BY <1>5, <1>7, EmptySeq
    <3> QED BY <3>1 DEF FlattenSeq
  <2>2. Good(ChainData(clusters), n)
    BY <1>2, <1>6, <1>7, <2>1
  <2> QED BY <2>2 DEF Good, n
<1>8. CASE n # 0
  <2>1. seqs # <<>> /\ n \in 1..n /\ n \in Nat
    BY <1>1, <1>5, <1>8, EmptySeq
  <2>2. PICK g \in [1..n -> Seq(Nat)] : Joined(g, seqs) /\ FlattenSeq(seqs) = g[n]
    BY <1>5, <2>1, FlattenUnfolds
  <2>3. g[1] = seqs[1] /\ \A i \in 2..n : g[i] = g[i - 1] \o seqs[i]
    BY <1>5, <2>2 DEF Joined
  <2> DEFINE P == {0} \union {i \in 1..n : Good(g[i], i)}
  <2>4. ASSUME NEW i \in 1..n, i - 1 \in P PROVE i \in P
    <3>1. CASE i = 1
      <4>1. Good(<<>> \o ClusterData(clusters[1]), 1)
        <5>1. 1 \in 1..n /\ 1 - 1 = 0
          BY <3>1
        <5>2. Good(<<>>, 1 - 1)
          BY <1>2, <5>1
        <5> QED BY <1>3, <5>1, <5>2
      <4>2. <<>> \o ClusterData(clusters[1]) = ClusterData(clusters[1])
        <5>1. ClusterData(clusters[1]) \in Seq(Nat)
          BY <1>4, <3>1
        <5> QED BY <5>1, ConcatEmptySeq
      <4>3. g[1] = ClusterData(clusters[1])
        BY <1>5, <2>3, <3>1
      <4> QED BY <3>1, <4>1, <4>2, <4>3
    <3>2. CASE i # 1
      <4>1. i \in 2..n /\ i - 1 # 0
        BY <3>2
      <4>2. Good(g[i - 1], i - 1)
        BY <2>4, <4>1
      <4>3. g[i] = g[i - 1] \o ClusterData(clusters[i])
        BY <1>5, <2>3, <4>1
      <4>4. Good(g[i], i)
        BY <1>3, <4>2, <4>3
      <4> QED BY <4>4
    <3> QED BY <3>1, <3>2
  <2>5. 0 \in P
    OBVIOUS
  <2> HIDE DEF P
  <2>6. n \in P
    <3>1. n \in 0..n
      BY <2>1
    <3> QED BY <2>1, <2>4, <2>5, <3>1, UpTo
  <2>7. Good(ChainData(clusters), n)
    BY <1>6, <1>8, <2>2, <2>6 DEF P
  <2> QED BY <2>7 DEF Good, n
<1> QED BY <1>7, <1>8

-----------------------------------------------------------------------------

\* A volume to recover from: its table, its size and its deleted files.
VolumeOK ==
  /\ TableOK
  /\ volume.bytes \in Nat
  /\ \A i \in DOMAIN volume.targets : volume.targets[i] \in Entry

\* What a chain, and what a file, may end as.
Statuses == {"ok", "zero_next", "free_start", "truncated_free", "bad_cluster", "invalid_cluster", "loop_detected"}

\* The chain so far is the beginning of the orbit of the start of the file.
Following ==
  LET f == Orbit(Targets[at].start)
  IN  /\ at \in DOMAIN Targets
      /\ Targets[at].start \in 0..Over
      /\ IsChain(chain)
      /\ Len(chain) <= MaxHops
      /\ \A i \in 1..Len(chain) : chain[i] = f[i - 1]
      /\ cluster = f[Len(chain)]

\* While it is followed nothing was wrong, and it stops where the orbit ends or the bound is.
Stopped ==
  /\ step = "chain" => status = "ok" /\ (Len(chain) > 0 => cluster # 0)
  /\ step = "recover" =>
       \/ Len(chain) >= MaxHops
       \/ /\ cluster \notin DataClusters \/ Seen(cluster)
          /\ cluster \in DataClusters <=> status = "loop_detected"
          /\ cluster = Eoc <=> status = "ok"
          /\ cluster = 0 <=> status \in {"zero_next", "free_start"}

\* What a report holds.
ReportOK(r) ==
  /\ r.name \in DOMAIN OutputName
  /\ r.data \in Seq(Nat)
  /\ \A k, l \in 1..Len(r.data) : k # l => r.data[k] # r.data[l]
  /\ r.size > 0 => Len(r.data) <= r.size
  /\ WholeClusters(r.chain) => \A k \in 1..Len(r.data) : r.data[k] = FileByte(r.chain, k)

ReportStatus == {"skipped_directory", "no_start_cluster", "empty_chain", "truncated", "recovered"}

\* A report of a file.
Reported == [entry : Nat, name : DOMAIN OutputName, size : Nat, status : ReportStatus, chain : Seq(DataClusters),
             data : Seq(Nat)]

ReportsOK == \A i \in 1..Len(reports) : ReportOK(reports[i])

\* The command reads the chain of its file, and what it reported of the ones before stands.
FatInv ==
  /\ VolumeOK /\ at \in Nat
  /\ step \in {"next", "chain", "recover", "done", "aborted"}
  /\ step \in {"chain", "recover"} => Following /\ Stopped
  /\ reports \in Seq(Reported)
  /\ ReportsOK
  /\ SavedIsLatest

\* It starts with nothing reported.
LEMMA FatStarts == FatInit => FatInv
<1> SUFFICES ASSUME FatInit PROVE FatInv
  OBVIOUS
<1>1. volume \in Volumes /\ step = "next" /\ reports = <<>> /\ files = <<>> /\ at = 1
  BY DEF FatInit
<1>2. VolumeOK
  BY <1>1, FatAssumption DEF VolumeOK, TableOK
<1>3. reports \in Seq(Reported) /\ Len(reports) = 0 /\ DOMAIN files = {} /\ DOMAIN reports = {}
  BY <1>1
<1>4. SavedIsLatest
  BY <1>3 DEF SavedIsLatest
<1> QED BY <1>1, <1>2, <1>3, <1>4 DEF FatInv, ReportsOK

\* A chain that goes on stays on the orbit.
LEMMA HopKeeps ==
  ASSUME VolumeOK, Following, Stopped, Hop
  PROVE  Following' /\ Stopped'
<1> DEFINE e == Targets[at]
           f == Orbit(e.start)
           n == Len(chain)
<1>1. /\ step = "chain" /\ n < MaxHops /\ cluster \in DataClusters /\ cluster \notin Range(chain)
      /\ chain' = Append(chain, cluster) /\ cluster' = NextCluster(cluster)
      /\ volume' = volume /\ at' = at
  BY DEF Hop, GoesOn, Seen
<1>2. /\ at \in DOMAIN Targets /\ e.start \in 0..Over /\ IsChain(chain)
      /\ (\A i \in 1..n : chain[i] = f[i - 1]) /\ cluster = f[n] /\ n <= MaxHops
  BY DEF Following
<1>3. Follows(f, e.start)
  BY <1>2, OrbitFollows DEF VolumeOK
<1>4. chain \in Seq(DataClusters) /\ n \in Nat
  BY <1>2 DEF IsChain
<1>5. Targets' = Targets /\ Orbit(e.start)' = f
  BY <1>1 DEF Targets, Orbit, NextCluster
<1> HIDE DEF f, n
<1>6. /\ chain' \in Seq(DataClusters) /\ Len(chain') = n + 1
      /\ (\A i \in 1..n : chain'[i] = chain[i]) /\ chain'[n + 1] = cluster
  BY <1>1, <1>4, AppendProperties DEF n
<1>7. \A i \in 1..n : chain[i] # cluster
  <2>1. \A i \in 1..n : chain[i] \in Range(chain)
    BY <1>4 DEF Range, n
  <2> QED BY <1>1, <2>1
<1>8. \A i \in 1..(n + 1) : i \in 1..n \/ i = n + 1
  BY <1>4
<1>9. IsChain(chain')
  <2>1. \A i, j \in 1..n : i # j => chain[i] # chain[j]
    BY <1>2 DEF IsChain, n
  <2>2. \A i, j \in 1..(n + 1) : i # j => chain'[i] # chain'[j]
    BY <1>6, <1>7, <1>8, <2>1
  <2> QED BY <1>6, <2>2 DEF IsChain
<1>10. \A i \in 1..(n + 1) : chain'[i] = f[i - 1]
  <2>1. (n + 1) - 1 = n
    BY <1>4
  <2> QED BY <1>2, <1>6, <1>8, <2>1
<1>11. f[n + 1] = NextCluster(cluster)
  <2>1. n + 1 \in Nat \ {0} /\ (n + 1) - 1 = n
    BY <1>4
  <2> QED BY <1>1, <1>2, <1>3, <2>1 DEF Follows
<1>12. Following'
  <2>1. n + 1 <= MaxHops
    BY <1>1, <1>4, FatAssumption
  <2>2. at' \in DOMAIN Targets' /\ Targets'[at'] = e
    BY <1>1, <1>2, <1>5
  <2>3. Orbit(Targets[at].start)' = f
    BY <1>1, <1>5
  <2>4. Following' <=>
          /\ at' \in DOMAIN Targets' /\ Targets'[at'].start \in 0..Over /\ IsChain(chain') /\ Len(chain') <= MaxHops
          /\ (\A i \in 1..Len(chain') : chain'[i] = Orbit(Targets[at].start)'[i - 1])
          /\ cluster' = Orbit(Targets[at].start)'[Len(chain')]
    BY DEF Following
  <2> QED BY <1>1, <1>2, <1>6, <1>9, <1>10, <1>11, <2>1, <2>2, <2>3, <2>4
<1>13. Stopped'
  <2>1. status = "ok"
    BY <1>1 DEF Stopped
  <2>2. CASE cluster' = 0
    <3>1. status' = "zero_next" /\ step' = "recover"
      BY <2>2 DEF Hop
    <3>2. 0 \notin DataClusters /\ 0 # Eoc
      BY FatAssumption DEF DataClusters, Eoc
    <3> QED BY <2>2, <3>1, <3>2 DEF Stopped
  <2>3. CASE cluster' # 0
    <3>1. status' = status /\ step' = step
      BY <2>3 DEF Hop
    <3> QED BY <1>1, <2>1, <2>3, <3>1 DEF Stopped
  <2> QED BY <2>2, <2>3
<1> QED BY <1>12, <1>13

\* The orbit is that of the image and of the file.
LEMMA SameFollowing ==
  ASSUME UNCHANGED <<volume, at, chain, cluster>>
  PROVE  Following' <=> Following
<1>1. Targets' = Targets /\ (Targets[at])' = Targets[at]
  BY DEF Targets
<1>2. Orbit(Targets[at].start)' = Orbit(Targets[at].start)
  BY <1>1 DEF Orbit, NextCluster
<1> DEFINE f == Orbit(Targets[at].start)
<1>3. Following <=>
        /\ at \in DOMAIN Targets /\ Targets[at].start \in 0..Over /\ IsChain(chain) /\ Len(chain) <= MaxHops
        /\ (\A i \in 1..Len(chain) : chain[i] = f[i - 1])
        /\ cluster = f[Len(chain)]
  BY DEF Following
<1>4. Following' <=>
        /\ at' \in DOMAIN Targets' /\ (Targets[at])'.start \in 0..Over /\ IsChain(chain') /\ Len(chain') <= MaxHops
        /\ (\A i \in 1..Len(chain') : chain'[i] = f'[i - 1])
        /\ cluster' = f'[Len(chain')]
  BY DEF Following
<1>5. IsChain(chain') <=> IsChain(chain)
  OBVIOUS
<1>6. f' = f
  BY <1>2
<1> HIDE DEF f
<1> QED BY <1>1, <1>3, <1>4, <1>5, <1>6

\* Where it stops the status says why.
LEMMA StopKeeps ==
  ASSUME VolumeOK, Following, Stopped, Stop
  PROVE  Following' /\ Stopped'
<1>1. /\ step = "chain" /\ ~GoesOn /\ status' = StopStatus /\ step' = "recover"
      /\ UNCHANGED <<volume, at, chain, cluster>>
  BY DEF Stop
<1>2. Following'
  BY <1>1, SameFollowing
<1>3. Stopped'
  <2>1. status = "ok" /\ (Len(chain) > 0 => cluster # 0)
    BY <1>1 DEF Stopped
  <2>2. chain \in Seq(DataClusters) /\ Len(chain) \in Nat /\ MaxHops \in Nat
    BY FatAssumption DEF Following, IsChain
  <2>3. SUFFICES ASSUME ~(Len(chain) >= MaxHops)
                 PROVE  /\ cluster \notin DataClusters \/ Seen(cluster)
                        /\ cluster \in DataClusters <=> StopStatus = "loop_detected"
                        /\ cluster = Eoc <=> StopStatus = "ok"
                        /\ cluster = 0 <=> StopStatus \in {"zero_next", "free_start"}
    BY <1>1 DEF Stopped, Seen
  <2>4. cluster \notin DataClusters \/ Seen(cluster)
    BY <1>1, <2>2, <2>3 DEF GoesOn
  <2>5. cluster \in 0..Over
    <3>1. Follows(Orbit(Targets[at].start), Targets[at].start)
      BY OrbitFollows DEF VolumeOK, Following
    <3> QED BY <2>2, <3>1 DEF Following, Follows
  <2>6. cluster = 0 => chain = <<>>
    BY <2>1, <2>2, EmptySeq
  <2>7. StopStatus = CASE cluster = Eoc -> "ok"
                       [] cluster = Bad -> "bad_cluster"
                       [] cluster = 0 -> IF chain # <<>> THEN "truncated_free" ELSE "free_start"
                       [] cluster \in {1, Over} -> "invalid_cluster"
                       [] OTHER -> "loop_detected"
    <3> DEFINE c == cluster
    <3>1. Top \in Nat /\ Top >= 2 /\ Eoc # Bad /\ Eoc # 0 /\ Bad # 0 /\ Bad # 1 /\ Bad # Over /\ Eoc # 1 /\ Eoc # Over
          /\ Over # 0
      BY FatAssumption DEF Eoc, Bad, Over
    <3> QED BY <2>1, <2>3, <3>1 DEF StopStatus
  <2>8. /\ Eoc \notin DataClusters /\ Bad \notin DataClusters /\ 0 \notin DataClusters /\ 1 \notin DataClusters
        /\ Over \notin DataClusters /\ Eoc # 0 /\ Bad # Eoc /\ Bad # 0 /\ Eoc \notin {1, Over} /\ 0 \notin {1, Over}
        /\ Bad \notin {1, Over}
    BY FatAssumption DEF Eoc, Bad, Over, DataClusters
  <2>9. cluster \in DataClusters \/ cluster \in {0, 1, Bad, Eoc, Over}
    BY <2>5, FatAssumption DEF Eoc, Bad, Over, DataClusters
  <2>10. CASE cluster = Eoc
    BY <2>4, <2>7, <2>8, <2>10
  <2>11. CASE cluster = Bad
    BY <2>4, <2>7, <2>8, <2>11
  <2>12. CASE cluster = 0
    BY <2>4, <2>6, <2>7, <2>8, <2>12
  <2>13. CASE cluster \in {1, Over}
    BY <2>4, <2>7, <2>8, <2>13
  <2>14. CASE cluster \in DataClusters
    BY <2>4, <2>7, <2>8, <2>14
  <2> QED BY <2>9, <2>10, <2>11, <2>12, <2>13, <2>14
<1> QED BY <1>2, <1>3

\* A chain is followed from the start of its file.
LEMMA BeginKeeps ==
  ASSUME VolumeOK, Begin
  PROVE  Following' /\ Stopped'
<1> DEFINE e == Targets[at]
           f == Orbit(e.start)
<1>1. /\ at \in DOMAIN Targets /\ e.start >= 2 /\ step' = "chain" /\ chain' = <<>> /\ cluster' = e.start
      /\ status' = "ok" /\ volume' = volume /\ at' = at
  BY DEF Begin
<1>2. e \in Entry /\ e.start \in 0..Over
  BY <1>1 DEF VolumeOK, Targets, Entry
<1>3. f[0] = e.start
  BY <1>2, OrbitFollows DEF Follows, VolumeOK
<1>4. Targets' = Targets /\ (Targets[at])' = e
  BY <1>1 DEF Targets
<1>5. f' = f
  BY <1>1, <1>4 DEF Orbit, NextCluster
<1>6. /\ chain' \in Seq(DataClusters) /\ Len(chain') = 0 /\ \A i \in 1..0 : FALSE
  BY <1>1
<1>7. IsChain(chain')
  BY <1>6 DEF IsChain
<1>8. Following' <=>
        /\ at' \in DOMAIN Targets' /\ (Targets[at])'.start \in 0..Over /\ IsChain(chain') /\ Len(chain') <= MaxHops
        /\ (\A i \in 1..Len(chain') : chain'[i] = f'[i - 1])
        /\ cluster' = f'[Len(chain')]
  BY DEF Following
<1>9. MaxHops \in Nat
  BY FatAssumption
<1> HIDE DEF f, e
<1>10. Following'
  BY <1>1, <1>2, <1>3, <1>4, <1>5, <1>6, <1>7, <1>8, <1>9
<1>11. Stopped'
  BY <1>1, <1>6 DEF Stopped
<1> QED BY <1>10, <1>11

\* A file without data is as it should be, whatever else is said of it.
LEMMA EmptyReport ==
  ASSUME NEW r, r.name \in DOMAIN OutputName, r.data = <<>>, r.size \in Nat
  PROVE  ReportOK(r)
<1>1. r.data \in Seq(Nat) /\ Len(r.data) = 0 /\ \A k \in 1..0 : FALSE
  OBVIOUS
<1> QED BY <1>1 DEF ReportOK

\* What is recovered by a chain.
LEMMA RecoveredRight ==
  ASSUME VolumeOK, IsChain(chain), NEW e \in Entry
  PROVE  ReportOK(Recovered(e))
<1> DEFINE all == ChainData(chain)
           saved == IF e.size > 0 /\ Len(all) > e.size THEN SubSeq(all, 1, e.size) ELSE all
           r == Recovered(e)
<1>1. BytesOf(all, chain, Len(chain)) /\ (WholeClusters(chain) => PlacedUpTo(all, chain, Len(chain)))
  BY ChainDataRight DEF VolumeOK
<1>2. r.name = e.name /\ r.size = e.size /\ r.chain = chain /\ r.data = saved
  BY DEF Recovered, Report
<1>3. e.name \in DOMAIN OutputName /\ e.size \in Nat
  BY DEF Entry
<1> HIDE DEF all, r
<1>4. all \in Seq(Nat) /\ Len(all) \in Nat
  BY <1>1 DEF BytesOf
<1>5. /\ saved \in Seq(Nat) /\ Len(saved) \in Nat /\ Len(saved) <= Len(all)
      /\ \A k \in 1..Len(saved) : saved[k] = all[k]
      /\ e.size > 0 => Len(saved) <= e.size
  <2>1. CASE e.size > 0 /\ Len(all) > e.size
    <3>1. e.size \in 1..Len(all) /\ 1 \in 1..Len(all) + 1 /\ e.size \in 0..Len(all)
      BY <1>3, <1>4, <2>1
    <3>2. /\ SubSeq(all, 1, e.size) \in Seq(Nat) /\ Len(SubSeq(all, 1, e.size)) = e.size
          /\ \A k \in 1..e.size : SubSeq(all, 1, e.size)[k] = all[k]
      <4>1. \A k \in 1..e.size : k \in 1..Len(all) /\ 1 + k - 1 = k
        BY <1>3, <1>4, <2>1
      <4> QED BY <1>3, <1>4, <3>1, <4>1
    <3> QED BY <1>3, <1>4, <2>1, <3>2
  <2>2. CASE ~(e.size > 0 /\ Len(all) > e.size)
    BY <1>3, <1>4, <2>2
  <2> QED BY <2>1, <2>2
<1> HIDE DEF saved
<1>6. \A k \in 1..Len(saved) : k \in 1..Len(all)
  BY <1>4, <1>5
<1>7. \A k, l \in 1..Len(saved) : k # l => saved[k] # saved[l]
  BY <1>1, <1>5, <1>6 DEF BytesOf
<1>8. WholeClusters(chain) => \A k \in 1..Len(saved) : saved[k] = FileByte(chain, k)
  BY <1>1, <1>5, <1>6 DEF PlacedUpTo
<1> QED BY <1>2, <1>3, <1>5, <1>7, <1>8 DEF ReportOK, r


\* What is said of the reports depends on the size of the image alone.
LEMMA SameReports ==
  ASSUME volume' = volume
  PROVE  ReportsOK' <=> \A i \in 1..Len(reports') : ReportOK(reports'[i])
BY DEF ReportsOK, ReportOK, WholeClusters, ClusterData, FileByte

\* One more report, and the directory with it: the last file of each name is in it.
LEMMA AnswerKeeps ==
  ASSUME FatInv, NEW r \in Reported, ReportOK(r), reports' = Append(reports, r), Save(r), volume' = volume
  PROVE  /\ reports' \in Seq(Reported) /\ ReportsOK'
         /\ SavedIsLatest'
<1> DEFINE n == Len(reports)
           saved == r.data
           name == OutputName[r.name]
<1>1. reports \in Seq(Reported) /\ n \in Nat /\ DOMAIN reports = 1..n
  BY DEF FatInv
<1>2. /\ reports' \in Seq(Reported) /\ Len(reports') = n + 1 /\ DOMAIN reports' = 1..(n + 1)
      /\ (\A i \in 1..n : reports'[i] = reports[i]) /\ reports'[n + 1] = r
  <2>1. /\ reports' \in Seq(Reported) /\ Len(reports') = n + 1
        /\ (\A i \in 1..n : reports'[i] = reports[i]) /\ reports'[n + 1] = r
    BY <1>1, AppendProperties
  <2>2. DOMAIN reports' = 1..(n + 1)
    BY <2>1
  <2> QED BY <2>1, <2>2
<1>3. \A i \in 1..(n + 1) : i \in 1..n \/ i = n + 1
  BY <1>1
<1>4. ReportsOK'
  <2>2. \A i \in 1..(n + 1) : ReportOK(reports'[i])
    BY <1>2, <1>3 DEF FatInv, ReportsOK
  <2> QED BY <1>2, <2>2, SameReports
<1>5. SavedIsLatest
  BY DEF FatInv
<1> DEFINE Earlier(m) == Named(m)
           Fresh(m) == {i \in DOMAIN reports' : reports'[i].data # <<>> /\ OutputName[reports'[i].name] = m}
<1>6. ASSUME NEW m PROVE Earlier(m) = {i \in 1..n : reports[i].data # <<>> /\ OutputName[reports[i].name] = m}
  BY <1>1, <1>2 DEF Named
<1>7. ASSUME NEW m
      PROVE  /\ \A i \in 1..n : i \in Fresh(m) <=> i \in Earlier(m)
             /\ n + 1 \in Fresh(m) <=> (saved # <<>> /\ name = m)
             /\ \A i \in Fresh(m) : i \in 1..n \/ i = n + 1
  <2>1. \A i \in 1..n : i \in 1..(n + 1)
    BY <1>1
  <2>2. n + 1 \in 1..(n + 1)
    BY <1>1
  <2> QED BY <1>2, <1>3, <1>6, <2>1, <2>2
<1>8. /\ \A m \in DOMAIN files : \E i \in Earlier(m) : files[m] = reports[i].data /\ \A j \in Earlier(m) : j <= i
      /\ \A i \in 1..n : reports[i].data # <<>> => OutputName[reports[i].name] \in DOMAIN files
  BY <1>1, <1>5 DEF SavedIsLatest
<1>9. \A m : Earlier(m) \subseteq 1..n
  BY <1>1 DEF Named
<1>10. SavedIsLatest' <=>
         /\ \A m \in DOMAIN files' : \E i \in Fresh(m) : files'[m] = reports'[i].data /\ \A j \in Fresh(m) : j <= i
         /\ \A i \in 1..(n + 1) : reports'[i].data # <<>> => OutputName[reports'[i].name] \in DOMAIN files'
  <2>1. SavedIsLatest' <=>
         /\ \A m \in DOMAIN files' : \E i \in Fresh(m) : files'[m] = reports'[i].data /\ \A j \in Fresh(m) : j <= i
         /\ \A i \in DOMAIN reports' : reports'[i].data # <<>> => OutputName[reports'[i].name] \in DOMAIN files'
    BY DEF SavedIsLatest, Named
  <2> HIDE DEF Fresh
  <2> QED BY <1>2, <2>1
<1>11. saved = <<>> => files' = files
  BY DEF Save
<1>12. saved # <<>> =>
          /\ DOMAIN files' = DOMAIN files \union {name}
          /\ \A m \in DOMAIN files' : files'[m] = IF m = name THEN saved ELSE files[m]
  BY DEF Save
<1> HIDE DEF Earlier, Fresh, n, saved, name
<1>13. ASSUME NEW m \in DOMAIN files, ~(saved # <<>> /\ name = m)
       PROVE  \E i \in Fresh(m) : files[m] = reports'[i].data /\ \A j \in Fresh(m) : j <= i
  <2>1. PICK i \in Earlier(m) : files[m] = reports[i].data /\ \A j \in Earlier(m) : j <= i
    BY <1>8
  <2>2. i \in 1..n /\ i \in Fresh(m) /\ reports'[i] = reports[i]
    BY <1>2, <1>7, <1>9, <2>1
  <2>3. \A j \in Fresh(m) : j \in Earlier(m)
    BY <1>7, <1>13
  <2> QED BY <2>1, <2>2, <2>3
<1>14. \A m \in DOMAIN files' : \E i \in Fresh(m) : files'[m] = reports'[i].data /\ \A j \in Fresh(m) : j <= i
  <2> SUFFICES ASSUME NEW m \in DOMAIN files'
               PROVE  \E i \in Fresh(m) : files'[m] = reports'[i].data /\ \A j \in Fresh(m) : j <= i
    OBVIOUS
  <2>1. CASE saved # <<>> /\ name = m
    <3>1. n + 1 \in Fresh(m) /\ files'[m] = saved /\ reports'[n + 1].data = saved
      BY <1>2, <1>7, <1>12, <2>1 DEF saved
    <3>2. \A j \in Fresh(m) : j <= n + 1
      BY <1>1, <1>7
    <3> QED BY <3>1, <3>2
  <2>2. CASE ~(saved # <<>> /\ name = m)
    <3>1. m \in DOMAIN files /\ files'[m] = files[m]
      BY <1>11, <1>12, <2>2
    <3> QED BY <1>13, <2>2, <3>1
  <2> QED BY <2>1, <2>2
<1>15. \A i \in 1..(n + 1) : reports'[i].data # <<>> => OutputName[reports'[i].name] \in DOMAIN files'
  <2> SUFFICES ASSUME NEW i \in 1..(n + 1), reports'[i].data # <<>> PROVE OutputName[reports'[i].name] \in DOMAIN files'
    OBVIOUS
  <2>1. DOMAIN files \subseteq DOMAIN files'
    BY <1>11, <1>12
  <2>2. CASE i = n + 1
    BY <1>2, <1>12, <2>2 DEF saved, name
  <2>3. CASE i \in 1..n
    BY <1>2, <1>8, <2>1, <2>3
  <2> QED BY <1>3, <2>2, <2>3
<1> QED BY <1>2, <1>4, <1>10, <1>14, <1>15

\* Every step keeps the invariant.
LEMMA FatKeeps == FatInv /\ [FatNext]_fatVars => FatInv'
<1> SUFFICES ASSUME FatInv, [FatNext]_fatVars PROVE FatInv'
  OBVIOUS
<1>1. /\ VolumeOK /\ at \in Nat /\ (step \in {"chain", "recover"} => Following /\ Stopped)
      /\ reports \in Seq(Reported) /\ ReportsOK /\ SavedIsLatest
  BY DEF FatInv
<1>2. volume' = volume /\ VolumeOK'
  <2>1. volume' = volume
    BY DEF FatNext, Hop, Stop, Refuse, Begin, Recover, WriteFails, FatEnd, fatVars
  <2> QED BY <1>1, <2>1 DEF VolumeOK, TableOK
<1>3. ASSUME UNCHANGED <<reports, files>>
      PROVE  reports' \in Seq(Reported) /\ ReportsOK' /\ SavedIsLatest'
  <2>2. SavedIsLatest'
    BY <1>1, <1>3 DEF SavedIsLatest, Named
  <2>3. ReportsOK'
    BY <1>1, <1>2, <1>3, SameReports DEF ReportsOK
  <2> QED BY <1>1, <1>3, <2>2, <2>3
<1>4. CASE Hop
  <2>1. step = "chain" /\ step' \in {"chain", "recover"} /\ at' = at /\ UNCHANGED <<reports, files>>
    BY <1>4 DEF Hop
  <2> QED BY <1>1, <1>2, <1>3, <1>4, <2>1, HopKeeps DEF FatInv
<1>5. CASE Stop
  <2>1. step = "chain" /\ step' = "recover" /\ at' = at /\ UNCHANGED <<reports, files>>
    BY <1>5 DEF Stop
  <2> QED BY <1>1, <1>2, <1>3, <1>5, <2>1, StopKeeps DEF FatInv
<1>6. CASE Begin
  <2>1. step' = "chain" /\ at' = at /\ UNCHANGED <<reports, files>>
    BY <1>6 DEF Begin
  <2> QED BY <1>1, <1>2, <1>3, <1>6, <2>1, BeginKeeps DEF FatInv
<1>7. CASE Refuse
  <2> DEFINE e == Targets[at]
             st == IF e.dir THEN "skipped_directory" ELSE "no_start_cluster"
             r == Report(e, st, <<>>, <<>>)
  <2>1. at \in DOMAIN Targets /\ reports' = Append(reports, r) /\ at' = at + 1 /\ step' = "next" /\ files' = files
    BY <1>7 DEF Refuse, Answer
  <2>2. e \in Entry
    BY <1>1, <2>1 DEF VolumeOK, Targets
  <2>3. e.name \in DOMAIN OutputName /\ e.size \in Nat /\ <<>> \in Seq(DataClusters) /\ <<>> \in Seq(Nat) /\ st \in ReportStatus
    <3>1. <<>> \in Seq(DataClusters) /\ <<>> \in Seq(Nat)
      BY EmptySeq
    <3>2. st \in ReportStatus
      BY DEF ReportStatus
    <3> QED BY <2>2, <3>1, <3>2 DEF Entry
  <2>4. r \in Reported /\ r.name \in DOMAIN OutputName /\ r.data = <<>> /\ r.size \in Nat
    BY <1>1, <2>3 DEF Report, Reported
  <2>5. ReportOK(r)
    BY <2>4, EmptyReport
  <2>6. Save(r)
    BY <2>1, <2>4 DEF Save
  <2> HIDE DEF r
  <2>7. reports' \in Seq(Reported) /\ ReportsOK' /\ SavedIsLatest'
    BY <1>2, <2>1, <2>4, <2>5, <2>6, AnswerKeeps
  <2> QED BY <1>1, <1>2, <2>1, <2>7 DEF FatInv
<1>8. CASE Recover
  <2> DEFINE e == Targets[at]
             r == Recovered(e)
  <2>1. step = "recover" /\ reports' = Append(reports, r) /\ Save(r) /\ at' = at + 1 /\ step' = "next"
    BY <1>8 DEF Recover, Answer
  <2>2. at \in DOMAIN Targets /\ IsChain(chain)
    BY <1>1, <2>1 DEF Following
  <2>3. e \in Entry
    BY <1>1, <2>2 DEF VolumeOK, Targets
  <2>4. ReportOK(r)
    BY <1>1, <2>2, <2>3, RecoveredRight
  <2>5. r \in Reported
    <3>1. e.name \in DOMAIN OutputName /\ e.size \in Nat /\ chain \in Seq(DataClusters)
      BY <2>2, <2>3 DEF Entry, IsChain
    <3> DEFINE all == ChainData(chain)
               saved == IF e.size > 0 /\ Len(all) > e.size THEN SubSeq(all, 1, e.size) ELSE all
               st == IF chain = <<>> THEN "empty_chain"
                     ELSE IF e.size > 0 /\ Len(saved) < e.size THEN "truncated" ELSE "recovered"
    <3>2. r = [entry |-> at, name |-> e.name, size |-> e.size, status |-> st, chain |-> chain, data |-> saved]
      BY DEF Recovered, Report
    <3>3. st \in ReportStatus
      BY DEF ReportStatus
    <3> HIDE DEF saved, st, r
    <3>4. saved \in Seq(Nat)
      BY <2>4, <3>2 DEF ReportOK
    <3> QED BY <1>1, <3>1, <3>2, <3>3, <3>4 DEF Reported
  <2> HIDE DEF r
  <2>6. reports' \in Seq(Reported) /\ ReportsOK' /\ SavedIsLatest'
    BY <1>2, <2>1, <2>4, <2>5, AnswerKeeps
  <2> QED BY <1>1, <1>2, <2>1, <2>6 DEF FatInv
<1>9. CASE WriteFails \/ FatEnd
  <2>1. step' \in {"aborted", "done"} /\ at' = at /\ UNCHANGED <<reports, files>>
    BY <1>9 DEF WriteFails, FatEnd
  <2> QED BY <1>1, <1>2, <1>3, <2>1 DEF FatInv
<1>10. CASE UNCHANGED fatVars
  <2>1. UNCHANGED <<volume, step, at, chain, cluster, status, reports, files>>
    BY <1>10 DEF fatVars, walk
  <2>2. (Following' <=> Following) /\ (Stopped' <=> Stopped)
    BY <2>1, SameFollowing DEF Stopped, Seen
  <2> QED BY <1>1, <1>2, <1>3, <2>1, <2>2 DEF FatInv
<1> QED BY <1>4, <1>5, <1>6, <1>7, <1>8, <1>9, <1>10 DEF FatNext

\* A finished chain is the orbit of its start.
LEMMA ChainRight == FatInv => ChainIsOrbit
<1> SUFFICES ASSUME FatInv, step = "recover", OrbitLen(Targets[at].start) < MaxHops
             PROVE  LET f == Orbit(Targets[at].start)
                        n == OrbitLen(Targets[at].start)
                    IN  /\ chain = [i \in 1..n |-> f[i - 1]]
                        /\ f[n] \in DataClusters <=> status = "loop_detected"
                        /\ f[n] = Eoc <=> status = "ok"
                        /\ f[n] = 0 <=> status \in {"zero_next", "free_start"}
  BY DEF ChainIsOrbit
<1> DEFINE f == Orbit(Targets[at].start)
           n == OrbitLen(Targets[at].start)
           k == Len(chain)
<1>1. VolumeOK /\ Following /\ Stopped
  BY DEF FatInv
<1>2. /\ Targets[at].start \in 0..Over /\ IsChain(chain)
      /\ (\A i \in 1..k : chain[i] = f[i - 1]) /\ cluster = f[k]
  BY <1>1 DEF Following
<1>3. n \in 0..(Top + 1) /\ FirstEnd(f, n)
  BY <1>1, <1>2, OrbitLenRight DEF VolumeOK
<1>4. n < MaxHops /\ n \in Nat /\ MaxHops \in Nat
  BY <1>3, FatAssumption
<1>5. chain \in Seq(DataClusters) /\ k \in Nat /\ \A i, j \in 1..k : i # j => chain[i] # chain[j]
  BY <1>2 DEF IsChain
<1> HIDE DEF f, n, k
<1>6. \A j \in 0..(k - 1) : f[j] = chain[j + 1] /\ j + 1 \in 1..k
  <2>1. \A j \in 0..(k - 1) : j + 1 \in 1..k /\ (j + 1) - 1 = j
    BY <1>5
  <2> QED BY <1>2, <2>1
<1>7. \A j \in 0..(k - 1) : ~EndsAt(f, j)
  <2> SUFFICES ASSUME NEW j \in 0..(k - 1), EndsAt(f, j) PROVE FALSE
    OBVIOUS
  <2>1. f[j] \in DataClusters
    <3>1. f[j] = chain[j + 1] /\ j + 1 \in 1..k
      BY <1>6
    <3> QED BY <1>5, <3>1 DEF k
  <2>2. PICK l \in 0..(j - 1) : f[l] = f[j]
    BY <2>1 DEF EndsAt
  <2>3. l \in 0..(k - 1) /\ l + 1 # j + 1
    BY <1>5
  <2> QED BY <1>5, <1>6, <2>2, <2>3
<1>8. ~(n \in 0..(k - 1))
  BY <1>3, <1>7 DEF FirstEnd
<1>9. k <= n
  BY <1>4, <1>5, <1>8
<1>10. ~(k >= MaxHops)
  BY <1>4, <1>5, <1>9
<1>11. /\ cluster \notin DataClusters \/ Seen(cluster)
       /\ cluster \in DataClusters <=> status = "loop_detected"
       /\ cluster = Eoc <=> status = "ok"
       /\ cluster = 0 <=> status \in {"zero_next", "free_start"}
  BY <1>1, <1>10 DEF Stopped, k
<1>12. EndsAt(f, k)
  <2>1. CASE cluster \notin DataClusters
    BY <1>2, <2>1 DEF EndsAt, k
  <2>2. CASE Seen(cluster)
    <3>1. PICK i \in 1..k : chain[i] = cluster
      BY <1>5, <2>2 DEF Seen, Range, k
    <3>2. i - 1 \in 0..(k - 1) /\ f[i - 1] = cluster
      BY <1>2, <1>5, <3>1
    <3> QED BY <1>2, <3>2 DEF EndsAt, k
  <2> QED BY <1>11, <2>1, <2>2
<1>13. FirstEnd(f, k)
  BY <1>7, <1>12 DEF FirstEnd
<1>14. n = k
  BY <1>3, <1>4, <1>5, <1>13, FirstEndOnce
<1>15. chain = [i \in 1..n |-> f[i - 1]]
  <2>1. chain = [i \in 1..k |-> chain[i]]
    BY <1>5 DEF k
  <2> QED BY <1>2, <1>14, <2>1
<1>16. cluster = f[n]
  BY <1>2, <1>14 DEF k
<1> QED BY <1>11, <1>15, <1>16 DEF f, n

\* What is recovered is in place.
LEMMA PlacesRight == FatInv => RecoveredInPlace
<1> SUFFICES ASSUME FatInv, NEW i \in DOMAIN reports
             PROVE  LET r == reports[i]
                    IN  /\ Cardinality(Range(r.data)) = Len(r.data)
                        /\ r.size > 0 => Len(r.data) <= r.size
                        /\ WholeClusters(r.chain) => \A k \in DOMAIN r.data : r.data[k] = FileByte(r.chain, k)
  BY DEF RecoveredInPlace
<1> DEFINE r == reports[i]
<1>1. ReportOK(r)
  <2>1. reports \in Seq(Reported) /\ DOMAIN reports = 1..Len(reports)
    BY DEF FatInv
  <2> QED BY <2>1 DEF FatInv, ReportsOK
<1> HIDE DEF r
<1>2. Cardinality(Range(r.data)) = Len(r.data)
  BY <1>1, CountDistinct DEF ReportOK
<1>3. DOMAIN r.data = 1..Len(r.data)
  BY <1>1 DEF ReportOK
<1> QED BY <1>1, <1>2, <1>3 DEF ReportOK, r

\* Undeleting reads the right chains, puts their bytes in place and keeps them, whatever the table holds.
THEOREM UndeletedKept == FatSpec => []UndeletedRight
<1>1. FatSpec => []FatInv
  BY FatStarts, FatKeeps, PTL DEF FatSpec
<1>2. FatInv => UndeletedRight
  BY ChainRight, PlacesRight DEF UndeletedRight, FatInv
<1> QED BY <1>1, <1>2, PTL

-----------------------------------------------------------------------------
(* Part 4: the entries of a directory.                                      *)

\* An entry with the long name it was given; what parsing keeps, and starts with.
DirEntry ==
  [kind : {"free", "lfn", "label", "entry"}, name : STRING, deleted : BOOLEAN, dir : BOOLEAN, dot : BOOLEAN,
   start : 0..Over, long : Seq(STRING)]
Parsing == [entries : Seq(DirEntry), lfn : Seq(STRING), open : BOOLEAN]
NoEntries == [entries |-> <<>>, lfn |-> <<>>, open |-> TRUE]

\* What one slot does: the four kinds, and all behind the end.
LEMMA TakeSlotRight ==
  ASSUME NEW acc \in Parsing, NEW s \in SlotType
  PROVE  /\ TakeSlot(acc, s) \in Parsing
         /\ ~acc.open => TakeSlot(acc, s) = acc
         /\ acc.open /\ s.kind = "free" => TakeSlot(acc, s) = [acc EXCEPT !.open = FALSE]
         /\ acc.open /\ s.kind = "lfn" => TakeSlot(acc, s) = [acc EXCEPT !.lfn = Append(acc.lfn, s.name)]
         /\ acc.open /\ s.kind = "label" =>
              TakeSlot(acc, s) = [acc EXCEPT !.entries = Append(acc.entries, WithLong(s, <<>>)), !.lfn = <<>>]
         /\ acc.open /\ s.kind = "entry" =>
              TakeSlot(acc, s) = [acc EXCEPT !.entries = Append(acc.entries, WithLong(s, acc.lfn)), !.lfn = <<>>]
<1>1. s.kind \in {"free", "lfn", "label", "entry"} /\ s.name \in STRING
  BY DEF SlotType
<1>2. <<>> \in Seq(STRING)
  BY EmptySeq
<1>3. ASSUME NEW l \in Seq(STRING) PROVE WithLong(s, l) \in DirEntry
  BY DEF WithLong, DirEntry, SlotType
<1>4. acc.lfn \in Seq(STRING) /\ acc.entries \in Seq(DirEntry) /\ acc.open \in BOOLEAN
  BY DEF Parsing
<1>5. /\ ~acc.open => TakeSlot(acc, s) = acc
      /\ acc.open /\ s.kind = "free" => TakeSlot(acc, s) = [acc EXCEPT !.open = FALSE]
      /\ acc.open /\ s.kind = "lfn" => TakeSlot(acc, s) = [acc EXCEPT !.lfn = Append(acc.lfn, s.name)]
      /\ acc.open /\ s.kind = "label" =>
           TakeSlot(acc, s) = [acc EXCEPT !.entries = Append(acc.entries, WithLong(s, <<>>)), !.lfn = <<>>]
      /\ acc.open /\ s.kind = "entry" =>
           TakeSlot(acc, s) = [acc EXCEPT !.entries = Append(acc.entries, WithLong(s, acc.lfn)), !.lfn = <<>>]
  <2>1. CASE ~acc.open
    BY <2>1 DEF TakeSlot
  <2>2. CASE acc.open /\ s.kind = "free"
    BY <2>2 DEF TakeSlot
  <2>3. CASE acc.open /\ s.kind = "lfn"
    BY <2>3 DEF TakeSlot
  <2>4. CASE acc.open /\ s.kind = "label"
    BY <2>4 DEF TakeSlot
  <2>5. CASE acc.open /\ s.kind = "entry"
    BY <2>5 DEF TakeSlot
  <2> QED BY <1>1, <1>4, <2>1, <2>2, <2>3, <2>4, <2>5
<1>6. /\ Append(acc.lfn, s.name) \in Seq(STRING)
      /\ Append(acc.entries, WithLong(s, <<>>)) \in Seq(DirEntry)
      /\ Append(acc.entries, WithLong(s, acc.lfn)) \in Seq(DirEntry)
  BY <1>1, <1>2, <1>3, <1>4, AppendProperties
<1>7. TakeSlot(acc, s) \in Parsing
  <2>1. CASE ~acc.open
    BY <1>5, <2>1
  <2>2. CASE acc.open
    BY <1>1, <1>2, <1>5, <1>6, <2>2 DEF Parsing
  <2> QED BY <2>1, <2>2
<1> QED BY <1>5, <1>7

\* h is what the slots leave, one after the other.
Parses(h, slots) ==
  /\ h \in [0..Len(slots) -> Parsing] /\ h[0] = NoEntries
  /\ \A i \in 1..Len(slots) : h[i] = TakeSlot(h[i - 1], slots[i])

\* Parsing takes the slots in their order.
LEMMA ParseUnfolds ==
  ASSUME NEW slots \in Seq(SlotType)
  PROVE  \E h : Parses(h, slots) /\ ParseEntries(slots) = h[Len(slots)].entries
<1> DEFINE n == Len(slots)
           V == Parsing
           next == [p \in (1..n) \X V |-> TakeSlot(p[2], slots[p[1]])]
           Equation(g) == g = [s \in SUBSET (1..n) |->
                                 IF s = {} THEN NoEntries ELSE TakeSlot(g[s \ {Max(s)}], slots[Max(s)])]
<1>1. n \in Nat /\ DOMAIN slots = 1..n /\ \A i \in 1..n : slots[i] \in SlotType
  BY LenProperties, ElementOfSeq
<1>2. NoEntries \in V
  <2>1. <<>> \in Seq(DirEntry) /\ <<>> \in Seq(STRING)
    BY EmptySeq
  <2> QED BY <2>1 DEF NoEntries, Parsing
<1>3. \A i \in 1..n, v \in V : TakeSlot(v, slots[i]) \in V
  BY <1>1, TakeSlotRight
<1> HIDE DEF n, V
<1>4. next \in [(1..n) \X V -> V] /\ \A i \in 1..n, v \in V : next[<<i, v>>] = TakeSlot(v, slots[i])
  BY <1>3
<1> HIDE DEF next
<1>5. PICK g0 : Folds(g0, n, V, NoEntries, next)
  BY <1>1, <1>2, <1>4, FoldRecursion
<1>6. /\ g0 \in [SUBSET (1..n) -> V]
      /\ \A s \in SUBSET (1..n) : g0[s] = IF s = {} THEN NoEntries ELSE next[<<Max(s), g0[s \ {Max(s)}]>>]
  BY <1>5 DEF Folds
<1>7. Equation(g0)
  <2>1. ASSUME NEW s \in SUBSET (1..n), s # {} PROVE g0[s] = TakeSlot(g0[s \ {Max(s)}], slots[Max(s)])
    <3>1. Max(s) \in 1..n /\ g0[s \ {Max(s)}] \in V
      BY <1>1, <1>6, <2>1, MaxRight
    <3> QED BY <1>4, <1>6, <2>1, <3>1
  <2> QED BY <1>6, <2>1
<1>8. PICK g : Equation(g) /\ ParseEntries(slots) = g[1..n].entries
  <2> HIDE DEF Equation
  <2>1. Equation(CHOOSE g : Equation(g))
    BY <1>7
  <2>2. ParseEntries(slots) = (CHOOSE g : Equation(g))[1..n].entries
    BY <1>1 DEF ParseEntries, FoldLeft, MapThenFoldSet, Equation, NoEntries
  <2> QED BY <2>1, <2>2
<1>9. \A s \in SUBSET (1..n) : g[s] = IF s = {} THEN NoEntries ELSE TakeSlot(g[s \ {Max(s)}], slots[Max(s)])
  BY <1>8
<1> HIDE DEF Equation
<1> DEFINE h == [i \in 0..n |-> g0[1..i]]
<1>10. h \in [0..n -> V] /\ h[0] = NoEntries /\ \A i \in 1..n : h[i] = next[<<i, h[i - 1]>>]
  <2>1. Recurs(h, n, V, NoEntries, next)
    BY <1>1, <1>5, FoldOrder
  <2> HIDE DEF h
  <2> QED BY <2>1 DEF Recurs
<1> HIDE DEF h
<1>11. \A i \in 1..n : h[i] = TakeSlot(h[i - 1], slots[i])
  <2>1. \A i \in 1..n : i - 1 \in 0..n
    BY <1>1
  <2> QED BY <1>4, <1>10, <2>1
<1> DEFINE P == {i \in 0..n : g[1..i] = h[i]}
<1>12. 0 \in P
  <2>1. 1..0 = {} /\ 0 \in 0..n /\ {} \in SUBSET (1..n)
    BY <1>1
  <2>2. g[1..0] = NoEntries
    BY <1>9, <2>1
  <2> QED BY <1>10, <2>1, <2>2
<1>13. ASSUME NEW i \in 1..n, i - 1 \in P PROVE i \in P
  <2>1. 1..i \in SUBSET (1..n) /\ 1..i # {} /\ Max(1..i) = i /\ (1..i) \ {i} = 1..(i - 1) /\ i \in 0..n
    BY <1>1, MaxUpTo
  <2>2. g[1..i] = TakeSlot(g[1..(i - 1)], slots[i])
    BY <1>9, <2>1
  <2>3. g[1..(i - 1)] = h[i - 1]
    BY <1>13
  <2> QED BY <1>11, <2>1, <2>2, <2>3
<1> HIDE DEF P
<1>14. n \in P
  <2>1. n \in 0..n
    BY <1>1
  <2> QED BY <1>1, <1>12, <1>13, <2>1, UpTo
<1>15. ParseEntries(slots) = h[n].entries
  BY <1>8, <1>14 DEF P
<1> QED BY <1>10, <1>11, <1>15 DEF Parses, n, V

\* The run of pieces in front of a slot starts at one place.
RunFrom(slots, i, j) ==
  /\ j \in 1..i
  /\ \A k \in j..(i - 1) : slots[k].kind = "lfn"
  /\ j > 1 => slots[j - 1].kind # "lfn"

\* A run of pieces starts at one place only.
LEMMA RunStartsOnce ==
  ASSUME NEW slots, NEW i \in Nat, NEW j, NEW l, RunFrom(slots, i, j), RunFrom(slots, i, l)
  PROVE  j = l
<1>1. j \in 1..i /\ l \in 1..i
  BY DEF RunFrom
<1>2. j < l => l - 1 \in j..(i - 1) /\ l > 1
  BY <1>1
<1>3. l < j => j - 1 \in l..(i - 1) /\ j > 1
  BY <1>1
<1>4. ~(j < l)
  BY <1>2 DEF RunFrom
<1>5. ~(l < j)
  BY <1>3 DEF RunFrom
<1> QED BY <1>1, <1>4, <1>5

\* The pieces, by where they start.
LEMMA PiecesAre ==
  ASSUME NEW slots, NEW i \in Nat, NEW j, RunFrom(slots, i, j)
  PROVE  Pieces(slots, i) = [k \in 1..(i - j) |-> slots[j + k - 1].name]
<1> DEFINE from == CHOOSE l \in 1..i : /\ \A k \in l..(i - 1) : slots[k].kind = "lfn"
                                       /\ l > 1 => slots[l - 1].kind # "lfn"
<1>1. RunFrom(slots, i, from)
  <2>1. \E l \in 1..i : /\ \A k \in l..(i - 1) : slots[k].kind = "lfn"
                        /\ l > 1 => slots[l - 1].kind # "lfn"
    BY DEF RunFrom
  <2> QED BY <2>1 DEF RunFrom
<1>2. Pieces(slots, i) = [k \in 1..(i - from) |-> slots[from + k - 1].name]
  BY DEF Pieces
<1> HIDE DEF from
<1>3. from = j
  BY <1>1, RunStartsOnce
<1> QED BY <1>2, <1>3

\* What a slot does to the pieces in front of the next.
LEMMA PiecesGrow ==
  ASSUME NEW slots \in Seq(SlotType), NEW i \in 1..Len(slots), NEW j, RunFrom(slots, i, j)
  PROVE  /\ slots[i].kind = "lfn" =>
              RunFrom(slots, i + 1, j) /\ Pieces(slots, i + 1) = Append(Pieces(slots, i), slots[i].name)
         /\ slots[i].kind # "lfn" => RunFrom(slots, i + 1, i + 1) /\ Pieces(slots, i + 1) = <<>>
<1>1. Len(slots) \in Nat /\ i \in Nat /\ i + 1 \in Nat /\ j \in 1..i /\ (i + 1) - 1 = i
      /\ \A k \in 1..Len(slots) : slots[k].name \in STRING
  <2>1. \A k \in 1..Len(slots) : slots[k] \in SlotType
    BY LenProperties, ElementOfSeq
  <2> QED BY <2>1 DEF RunFrom, SlotType
<1>2. ASSUME slots[i].kind = "lfn"
      PROVE  RunFrom(slots, i + 1, j) /\ Pieces(slots, i + 1) = Append(Pieces(slots, i), slots[i].name)
  <2>1. RunFrom(slots, i + 1, j)
    <3>1. \A k \in j..i : k \in j..(i - 1) \/ k = i
      BY <1>1
    <3>2. j \in 1..(i + 1)
      BY <1>1
    <3> QED BY <1>1, <1>2, <3>1, <3>2 DEF RunFrom
  <2> DEFINE a == [k \in 1..(i - j) |-> slots[j + k - 1].name]
             b == [k \in 1..((i + 1) - j) |-> slots[j + k - 1].name]
  <2>2. Pieces(slots, i) = a /\ Pieces(slots, i + 1) = b
    <3>1. Pieces(slots, i) = [k \in 1..(i - j) |-> slots[j + k - 1].name]
      BY <1>1, PiecesAre
    <3>2. Pieces(slots, i + 1) = [k \in 1..((i + 1) - j) |-> slots[j + k - 1].name]
      <4>1. PICK q \in Nat : q = i + 1
        BY <1>1
      <4>2. RunFrom(slots, q, j)
        BY <2>1, <4>1
      <4>3. Pieces(slots, q) = [k \in 1..(q - j) |-> slots[j + k - 1].name]
        BY <4>2, PiecesAre
      <4> QED BY <4>1, <4>3
    <3> QED BY <3>1, <3>2
  <2>3. PICK m \in Nat : m = i - j /\ (i + 1) - j = m + 1 /\ j + (m + 1) - 1 = i
    BY <1>1
  <2>4. a \in Seq(STRING) /\ Len(a) = m
    <3>1. \A k \in 1..m : j + k - 1 \in 1..Len(slots)
      BY <1>1, <2>3
    <3>2. \A k \in 1..m : slots[j + k - 1].name \in STRING
      BY <1>1, <3>1
    <3> QED BY <2>3, <3>2
  <2>5. b \in Seq(STRING) /\ Len(b) = m + 1
    <3>1. \A k \in 1..(m + 1) : j + k - 1 \in 1..Len(slots)
      BY <1>1, <2>3
    <3>2. \A k \in 1..(m + 1) : slots[j + k - 1].name \in STRING
      BY <1>1, <3>1
    <3> QED BY <2>3, <3>2
  <2>6. slots[i].name \in STRING
    BY <1>1
  <2>7. /\ \A k \in 1..m : b[k] = a[k]
        /\ b[m + 1] = slots[i].name
    <3>1. \A k \in 1..m : k \in 1..(m + 1) /\ k \in 1..(i - j) /\ k \in 1..((i + 1) - j)
      BY <2>3
    <3>2. m + 1 \in 1..((i + 1) - j)
      BY <2>3
    <3> QED BY <2>3, <3>1, <3>2
  <2> HIDE DEF a, b
  <2>8. /\ Append(a, slots[i].name) \in Seq(STRING) /\ Len(Append(a, slots[i].name)) = m + 1
        /\ (\A k \in 1..m : Append(a, slots[i].name)[k] = a[k]) /\ Append(a, slots[i].name)[m + 1] = slots[i].name
    BY <2>4, <2>6, AppendProperties
  <2>9. \A k \in 1..(m + 1) : k \in 1..m \/ k = m + 1
    OBVIOUS
  <2>10. \A k \in 1..Len(b) : b[k] = Append(a, slots[i].name)[k]
    BY <2>5, <2>7, <2>8, <2>9
  <2>11. b = Append(a, slots[i].name)
    BY <2>5, <2>8, <2>10, SeqEqual
  <2> QED BY <2>1, <2>2, <2>11
<1>3. ASSUME slots[i].kind # "lfn" PROVE RunFrom(slots, i + 1, i + 1) /\ Pieces(slots, i + 1) = <<>>
  <2>1. RunFrom(slots, i + 1, i + 1)
    <3>1. (i + 1)..i = {} /\ i + 1 \in 1..(i + 1)
      BY <1>1
    <3> QED BY <1>1, <1>3, <3>1 DEF RunFrom
  <2>2. Pieces(slots, i + 1) = [k \in 1..((i + 1) - (i + 1)) |-> slots[(i + 1) + k - 1].name]
    BY <1>1, <2>1, PiecesAre
  <2>3. 1..((i + 1) - (i + 1)) = {}
    BY <1>1
  <2>4. [k \in {} |-> slots[(i + 1) + k - 1].name] = <<>>
    OBVIOUS
  <2> QED BY <2>1, <2>2, <2>3, <2>4
<1> QED BY <1>2, <1>3

\* The entries with their long names, and those that the slots up to i hold.
Pairs(read) == {<<e.name, e.long>> : e \in {x \in Range(read) : x.kind = "entry"}}
Used(slots, i) == \E k \in 1..i : slots[k].kind = "free"
Owned(slots, i) == {<<slots[k].name, Pieces(slots, k)>> : k \in {l \in 1..i : slots[l].kind = "entry" /\ ~Used(slots, l)}}

\* One more entry is one more pair, or none.
LEMMA PairsAppend ==
  ASSUME NEW S, NEW read \in Seq(S), NEW e \in S
  PROVE  Pairs(Append(read, e)) = Pairs(read) \union IF e.kind = "entry" THEN {<<e.name, e.long>>} ELSE {}
<1>1. Range(Append(read, e)) = Range(read) \union {e}
  <2>1. /\ Len(read) \in Nat /\ DOMAIN read = 1..Len(read)
        /\ Append(read, e) \in Seq(S) /\ Len(Append(read, e)) = Len(read) + 1
        /\ (\A k \in 1..Len(read) : Append(read, e)[k] = read[k]) /\ Append(read, e)[Len(read) + 1] = e
    BY AppendProperties
  <2>2. DOMAIN Append(read, e) = 1..(Len(read) + 1)
    BY <2>1
  <2> DEFINE t == Append(read, e)
  <2> HIDE DEF t
  <2>3. \A k \in 1..(Len(read) + 1) : k \in 1..Len(read) \/ k = Len(read) + 1
    BY <2>1
  <2>4. Len(read) + 1 \in 1..(Len(read) + 1) /\ \A k \in 1..Len(read) : k \in 1..(Len(read) + 1)
    BY <2>1
  <2>5. Range(t) = Range(read) \union {e}
    BY <2>1, <2>2, <2>3, <2>4 DEF Range, t
  <2> QED BY <2>5 DEF t
<1> DEFINE R == Range(read)
<1> HIDE DEF R
<1>2. {<<x.name, x.long>> : x \in {y \in R \union {e} : y.kind = "entry"}}
        = {<<x.name, x.long>> : x \in {y \in R : y.kind = "entry"}}
            \union IF e.kind = "entry" THEN {<<e.name, e.long>>} ELSE {}
  OBVIOUS
<1> QED BY <1>1, <1>2 DEF Pairs, R

\* One more slot is one more entry with its pieces, or none.
LEMMA OwnedStep ==
  ASSUME NEW slots, NEW i \in Nat, i >= 1
  PROVE  Owned(slots, i) = Owned(slots, i - 1)
           \union IF slots[i].kind = "entry" /\ ~Used(slots, i) THEN {<<slots[i].name, Pieces(slots, i)>>} ELSE {}
<1>1. \A l : l \in 1..i <=> (l \in 1..(i - 1) \/ l = i)
  OBVIOUS
<1> QED BY <1>1 DEF Owned

\* What the slots so far leave: the entries with the pieces in front of them, and the pieces
\* for the next.
ParsedTo(acc, slots, i) ==
  /\ acc \in Parsing
  /\ acc.open <=> ~Used(slots, i)
  /\ \E j : RunFrom(slots, i + 1, j)
  /\ acc.open => acc.lfn = Pieces(slots, i + 1)
  /\ Pairs(acc.entries) = Owned(slots, i)

\* Nothing is parsed in front of the first slot.
LEMMA ParseStarts ==
  ASSUME NEW slots
  PROVE  ParsedTo(NoEntries, slots, 0)
<1>1. <<>> \in Seq(DirEntry) /\ <<>> \in Seq(STRING)
  BY EmptySeq
<1>2. RunFrom(slots, 1, 1)
  <2>1. 1 \in 1..1 /\ 1..(1 - 1) = {}
    OBVIOUS
  <2> QED BY <2>1 DEF RunFrom
<1>3. Pieces(slots, 1) = <<>>
  <2>1. Pieces(slots, 1) = [k \in 1..(1 - 1) |-> slots[1 + k - 1].name]
    BY <1>2, PiecesAre
  <2>2. 1..(1 - 1) = {}
    OBVIOUS
  <2>3. [k \in {} |-> slots[1 + k - 1].name] = <<>>
    OBVIOUS
  <2> QED BY <2>1, <2>2, <2>3
<1>4. ~Used(slots, 0) /\ Owned(slots, 0) = {}
  <2>1. 1..0 = {}
    OBVIOUS
  <2> QED BY <2>1 DEF Used, Owned
<1>5. Pairs(<<>>) = {}
  <2>1. DOMAIN <<>> = {}
    OBVIOUS
  <2> QED BY <2>1 DEF Pairs, Range
<1>6. 0 + 1 = 1
  OBVIOUS
<1> QED BY <1>1, <1>2, <1>3, <1>4, <1>5, <1>6 DEF ParsedTo, NoEntries, Parsing

\* One slot more is parsed.
LEMMA ParseStep ==
  ASSUME NEW slots \in Seq(SlotType), NEW i \in 1..Len(slots), NEW acc, ParsedTo(acc, slots, i - 1)
  PROVE  ParsedTo(TakeSlot(acc, slots[i]), slots, i)
<1> DEFINE s == slots[i]
           t == TakeSlot(acc, s)
<1>1. s \in SlotType /\ i \in Nat /\ i >= 1 /\ (i - 1) + 1 = i
      /\ s.kind \in {"free", "lfn", "label", "entry"} /\ s.name \in STRING
  <2>1. s \in SlotType
    BY LenProperties, ElementOfSeq
  <2> QED BY <2>1 DEF SlotType
<1>2. /\ acc \in Parsing /\ (acc.open <=> ~Used(slots, i - 1)) /\ (acc.open => acc.lfn = Pieces(slots, i))
      /\ Pairs(acc.entries) = Owned(slots, i - 1)
  BY <1>1 DEF ParsedTo
<1>3. PICK j : RunFrom(slots, i, j)
  BY <1>1 DEF ParsedTo
<1>4. /\ s.kind = "lfn" =>
           RunFrom(slots, i + 1, j) /\ Pieces(slots, i + 1) = Append(Pieces(slots, i), s.name)
      /\ s.kind # "lfn" => RunFrom(slots, i + 1, i + 1) /\ Pieces(slots, i + 1) = <<>>
  BY <1>3, PiecesGrow
<1>5. \E l : RunFrom(slots, i + 1, l)
  BY <1>4
<1>6. Used(slots, i) <=> (Used(slots, i - 1) \/ s.kind = "free")
  <2>1. \A l : l \in 1..i <=> (l \in 1..(i - 1) \/ l = i)
    BY <1>1
  <2> QED BY <2>1 DEF Used
<1>7. Owned(slots, i) = Owned(slots, i - 1)
         \union IF s.kind = "entry" /\ ~Used(slots, i) THEN {<<s.name, Pieces(slots, i)>>} ELSE {}
  BY <1>1, OwnedStep
<1>8. /\ t \in Parsing
      /\ ~acc.open => t = acc
      /\ acc.open /\ s.kind = "free" => t = [acc EXCEPT !.open = FALSE]
      /\ acc.open /\ s.kind = "lfn" => t = [acc EXCEPT !.lfn = Append(acc.lfn, s.name)]
      /\ acc.open /\ s.kind = "label" =>
           t = [acc EXCEPT !.entries = Append(acc.entries, WithLong(s, <<>>)), !.lfn = <<>>]
      /\ acc.open /\ s.kind = "entry" =>
           t = [acc EXCEPT !.entries = Append(acc.entries, WithLong(s, acc.lfn)), !.lfn = <<>>]
  BY <1>1, <1>2, TakeSlotRight
<1>9. acc.entries \in Seq(DirEntry) /\ acc.lfn \in Seq(STRING) /\ acc.open \in BOOLEAN /\ <<>> \in Seq(STRING)
  BY <1>2, EmptySeq DEF Parsing
<1>10. ASSUME NEW l \in Seq(STRING)
       PROVE  /\ WithLong(s, l) \in DirEntry /\ WithLong(s, l).kind = s.kind
              /\ WithLong(s, l).name = s.name /\ WithLong(s, l).long = l
  BY <1>1 DEF WithLong, DirEntry, SlotType
<1> HIDE DEF t, s
<1>11. CASE ~acc.open
  <2>1. t = acc /\ Used(slots, i) /\ Owned(slots, i) = Owned(slots, i - 1)
    BY <1>2, <1>6, <1>7, <1>8, <1>11
  <2> QED BY <1>2, <1>5, <1>11, <2>1 DEF ParsedTo, t, s
<1>12. CASE acc.open /\ s.kind = "free"
  <2>1. t = [acc EXCEPT !.open = FALSE] /\ Used(slots, i) /\ Owned(slots, i) = Owned(slots, i - 1)
    BY <1>2, <1>6, <1>7, <1>8, <1>12
  <2>2. t.open = FALSE /\ t.entries = acc.entries
    BY <1>2, <2>1 DEF Parsing
  <2> QED BY <1>2, <1>5, <1>8, <2>1, <2>2 DEF ParsedTo, t, s
<1>13. CASE acc.open /\ s.kind = "lfn"
  <2>1. /\ t = [acc EXCEPT !.lfn = Append(acc.lfn, s.name)] /\ ~Used(slots, i)
        /\ Owned(slots, i) = Owned(slots, i - 1)
    BY <1>2, <1>6, <1>7, <1>8, <1>13
  <2>2. t.open /\ t.entries = acc.entries /\ t.lfn = Append(acc.lfn, s.name)
    BY <1>2, <1>13, <2>1 DEF Parsing
  <2>3. t.lfn = Pieces(slots, i + 1)
    BY <1>2, <1>4, <1>13, <2>2
  <2> QED BY <1>2, <1>5, <1>8, <2>1, <2>2, <2>3 DEF ParsedTo, t, s
<1>14. CASE acc.open /\ s.kind = "label"
  <2>1. /\ t = [acc EXCEPT !.entries = Append(acc.entries, WithLong(s, <<>>)), !.lfn = <<>>] /\ ~Used(slots, i)
        /\ Owned(slots, i) = Owned(slots, i - 1)
    BY <1>2, <1>6, <1>7, <1>8, <1>14
  <2>2. t.open /\ t.entries = Append(acc.entries, WithLong(s, <<>>)) /\ t.lfn = <<>>
    BY <1>2, <1>14, <2>1 DEF Parsing
  <2>3. Pairs(t.entries) = Pairs(acc.entries)
    <3>1. WithLong(s, <<>>) \in DirEntry /\ WithLong(s, <<>>).kind # "entry"
      BY <1>9, <1>10, <1>14
    <3>2. Pairs(Append(acc.entries, WithLong(s, <<>>))) = Pairs(acc.entries) \union {}
      <4> DEFINE w == WithLong(s, <<>>)
      <4> HIDE DEF w
      <4>1. w \in DirEntry /\ w.kind # "entry"
        BY <3>1 DEF w
      <4>2. Pairs(Append(acc.entries, w)) = Pairs(acc.entries) \union {}
        BY <1>9, <4>1, PairsAppend
      <4> QED BY <4>2 DEF w
    <3> QED BY <2>2, <3>2
  <2> QED BY <1>2, <1>4, <1>5, <1>8, <1>14, <2>1, <2>2, <2>3 DEF ParsedTo, t, s
<1>15. CASE acc.open /\ s.kind = "entry"
  <2>1. /\ t = [acc EXCEPT !.entries = Append(acc.entries, WithLong(s, acc.lfn)), !.lfn = <<>>] /\ ~Used(slots, i)
        /\ Owned(slots, i) = Owned(slots, i - 1) \union {<<s.name, Pieces(slots, i)>>}
    BY <1>2, <1>6, <1>7, <1>8, <1>15
  <2>2. t.open /\ t.entries = Append(acc.entries, WithLong(s, acc.lfn)) /\ t.lfn = <<>>
    BY <1>2, <1>15, <2>1 DEF Parsing
  <2>3. Pairs(t.entries) = Pairs(acc.entries) \union {<<s.name, acc.lfn>>}
    <3>1. /\ WithLong(s, acc.lfn) \in DirEntry /\ WithLong(s, acc.lfn).kind = "entry"
          /\ WithLong(s, acc.lfn).name = s.name /\ WithLong(s, acc.lfn).long = acc.lfn
      BY <1>9, <1>10, <1>15
    <3> QED BY <1>9, <2>2, <3>1, PairsAppend
  <2> QED BY <1>2, <1>4, <1>5, <1>8, <1>15, <2>1, <2>2, <2>3 DEF ParsedTo, t, s
<1> QED
  <2>1. s.kind \in {"free", "lfn", "label", "entry"}
    BY <1>1 DEF s
  <2>2. acc.open \/ ~acc.open
    OBVIOUS
  <2> QED BY <1>11, <1>12, <1>13, <1>14, <1>15, <2>1, <2>2

\* The entries of a directory, each with the pieces of a long name that are right in front of it.
LEMMA ParseRight ==
  ASSUME NEW slots \in Seq(SlotType)
  PROVE  /\ ParseEntries(slots) \in Seq(DirEntry)
         /\ Pairs(ParseEntries(slots)) = Owned(slots, Len(slots))
<1> DEFINE n == Len(slots)
<1>1. n \in Nat
  BY LenProperties
<1>2. PICK h : Parses(h, slots) /\ ParseEntries(slots) = h[n].entries
  BY ParseUnfolds
<1> HIDE DEF n
<1> DEFINE P == {i \in 0..n : ParsedTo(h[i], slots, i)}
<1>3. 0 \in P
  BY <1>1, <1>2, ParseStarts DEF Parses
<1>4. ASSUME NEW i \in 1..n, i - 1 \in P PROVE i \in P
  <2>1. ParsedTo(h[i - 1], slots, i - 1) /\ h[i] = TakeSlot(h[i - 1], slots[i])
    BY <1>2, <1>4 DEF Parses, n
  <2>2. ParsedTo(h[i], slots, i)
    BY <2>1, ParseStep DEF n
  <2>3. i \in 0..n
    BY <1>1
  <2> QED BY <2>2, <2>3
<1> HIDE DEF P
<1>5. n \in P
  <2>1. n \in 0..n
    BY <1>1
  <2> QED BY <1>1, <1>3, <1>4, <2>1, UpTo
<1>6. ParsedTo(h[n], slots, n)
  BY <1>5 DEF P
<1> QED BY <1>2, <1>6 DEF ParsedTo, Parsing, n

-----------------------------------------------------------------------------

\* A volume with a table and directories.
DirVolumeOK ==
  /\ TableOK
  /\ DOMAIN volume.slots \subseteq DataClusters
  /\ \A c \in DOMAIN volume.slots : volume.slots[c] \in Seq(SlotType)

\* The slots of a directory; a cluster that is none has none.
LEMMA SlotsType ==
  ASSUME DirVolumeOK, NEW c \in 0..Over
  PROVE  DirectorySlots(c) \in Seq(SlotType) /\ (c \notin DataClusters => DirectorySlots(c) = <<>>)
<1> DEFINE n == OrbitLen(c)
           f == Orbit(c)
           seqs == [i \in 1..n |-> SlotsOf(f[i - 1])]
<1>1. n \in Nat /\ FirstEnd(f, n) /\ f[0] = c
  <2>1. n \in 0..(Top + 1) /\ FirstEnd(f, n)
    BY OrbitLenRight DEF DirVolumeOK
  <2>2. n \in Nat
    BY <2>1, FatAssumption
  <2> QED BY <2>1, <2>2, OrbitFollows DEF DirVolumeOK, Follows
<1>2. \A x : SlotsOf(x) \in Seq(SlotType)
  BY EmptySeq DEF SlotsOf, DirVolumeOK
<1>3. DirectorySlots(c) = FlattenSeq(seqs)
  BY DEF DirectorySlots
<1> HIDE DEF n, f
<1>4. seqs \in Seq(Seq(SlotType))
  BY <1>1, <1>2
<1>5. DirectorySlots(c) \in Seq(SlotType)
  BY <1>3, <1>4, FlattenType
<1>6. ASSUME c \notin DataClusters PROVE DirectorySlots(c) = <<>>
  <2>1. EndsAt(f, 0)
    BY <1>1, <1>6 DEF EndsAt
  <2>2. n = 0
    <3>1. n # 0 => 0 \in 0..(n - 1)
      BY <1>1
    <3> QED BY <1>1, <2>1, <3>1 DEF FirstEnd
  <2>3. seqs = <<>>
    <3>1. 1..n = {}
      BY <2>2
    <3> QED BY <3>1
  <2> QED BY <1>3, <2>3 DEF FlattenSeq
<1> QED BY <1>5, <1>6

\* A directory is read as entries, and what is no data cluster as none.
LEMMA DirectoryType ==
  ASSUME DirVolumeOK, NEW c \in 0..Over
  PROVE  ReadDirectory(c) \in Seq(DirEntry) /\ (c \notin DataClusters => ReadDirectory(c) = <<>>)
<1>1. DirectorySlots(c) \in Seq(SlotType)
  BY SlotsType
<1>2. ReadDirectory(c) \in Seq(DirEntry)
  BY <1>1, ParseRight DEF ReadDirectory
<1>3. ASSUME c \notin DataClusters PROVE ReadDirectory(c) = <<>>
  <2>1. DirectorySlots(c) = <<>> /\ Len(<<>>) = 0 /\ <<>> \in Seq(SlotType)
    BY <1>3, SlotsType, EmptySeq
  <2>2. PICK h : Parses(h, <<>>) /\ ParseEntries(<<>>) = h[Len(<<>>)].entries
    BY <2>1, ParseUnfolds
  <2> QED BY <2>1, <2>2 DEF Parses, NoEntries, ReadDirectory
<1> QED BY <1>2, <1>3

\* The first free slot is where the directory ends.
LEMMA FirstFree ==
  ASSUME NEW slots \in Seq(SlotType), NEW i \in 1..Len(slots)
  PROVE  LET used == SelectInSeq(slots, LAMBDA s : s.kind = "free")
         IN  (used > 0 => i < used) <=> ~Used(slots, i)
<1> DEFINE I == {k \in 1..Len(slots) : slots[k].kind = "free"}
           used == IF I # {} THEN Min(I) ELSE 0
<1>1. SelectInSeq(slots, LAMBDA s : s.kind = "free") = used
  BY DEF SelectInSeq
<1>2. Len(slots) \in Nat /\ I \in SUBSET (1..Len(slots))
  BY LenProperties
<1>3. I # {} => Min(I) \in I /\ Min(I) \in 1..Len(slots) /\ \A k \in I : Min(I) <= k
  BY <1>2, MinRight
<1>4. Used(slots, i) <=> \E k \in I : k <= i
  <2>1. \A k \in 1..i : k \in 1..Len(slots) /\ k <= i
    BY <1>2
  <2>2. \A k \in I : k <= i => k \in 1..i
    BY <1>2
  <2> QED BY <2>1, <2>2 DEF Used
<1>5. \A k \in I : k \in Nat
  BY <1>2
<1> HIDE DEF I
<1>6. (used > 0 => i < used) <=> ~Used(slots, i)
  <2>1. CASE I = {}
    BY <1>4, <2>1
  <2>2. CASE I # {}
    <3>1. PICK m \in Nat : m = Min(I) /\ m > 0 /\ m \in I /\ \A k \in I : m <= k
      BY <1>2, <1>3, <2>2
    <3>2. (\E k \in I : k <= i) <=> m <= i
      BY <1>5, <3>1
    <3> QED BY <1>4, <2>2, <3>1, <3>2
  <2> QED BY <2>1, <2>2
<1> QED BY <1>1, <1>6

\* Long names belong to the entries that have them.
LEMMA LongNamesRight == DirVolumeOK => LongNameBelongs
<1> SUFFICES ASSUME DirVolumeOK, NEW c \in DOMAIN volume.slots
             PROVE  LET slots == DirectorySlots(c)
                        used  == SelectInSeq(slots, LAMBDA s : s.kind = "free")
                        own   == {i \in DOMAIN slots : slots[i].kind = "entry" /\ (used > 0 => i < used)}
                    IN  {<<e.name, e.long>> : e \in {x \in Range(ReadDirectory(c)) : x.kind = "entry"}}
                          = {<<slots[i].name, Pieces(slots, i)>> : i \in own}
  BY DEF LongNameBelongs
<1> DEFINE slots == DirectorySlots(c)
           used  == SelectInSeq(slots, LAMBDA s : s.kind = "free")
<1>1. c \in 0..Over
  BY FatAssumption DEF DirVolumeOK, DataClusters, Over
<1>2. slots \in Seq(SlotType) /\ DOMAIN slots = 1..Len(slots)
  BY <1>1, SlotsType
<1>3. Pairs(ReadDirectory(c)) = Owned(slots, Len(slots))
  BY <1>2, ParseRight DEF ReadDirectory
<1>4. \A i \in DOMAIN slots : (used > 0 => i < used) <=> ~Used(slots, i)
  BY <1>2, FirstFree
<1> HIDE DEF used, slots
<1>5. {i \in DOMAIN slots : slots[i].kind = "entry" /\ (used > 0 => i < used)}
        = {l \in 1..Len(slots) : slots[l].kind = "entry" /\ ~Used(slots, l)}
  BY <1>2, <1>4
<1> QED BY <1>3, <1>5 DEF Pairs, Owned, slots, used

-----------------------------------------------------------------------------
(* Part 5: the walk through the directories.                                *)

\* The live entries of what is read of a directory, and that they can be told apart.
LiveIn(read) == {e \in Range(read) : ~Skipped(e)}
Apart(read) ==
  \A i, j \in 1..Len(read) : i # j /\ ~Skipped(read[i]) /\ ~Skipped(read[j]) =>
    /\ read[i].name # read[j].name
    /\ read[i].dir /\ read[j].dir => read[i].start # read[j].start

\* Taking the first entry: the live entries left differ from it.
LEMMA TakeOne ==
  ASSUME NEW read \in Seq(DirEntry), read # <<>>
  PROVE  /\ Head(read) \in DirEntry /\ Tail(read) \in Seq(DirEntry)
         /\ Range(read) = {Head(read)} \union Range(Tail(read))
         /\ Apart(read) => Apart(Tail(read))
         /\ Apart(read) /\ ~Skipped(Head(read)) => \A e \in LiveIn(Tail(read)) :
              /\ e.name # Head(read).name
              /\ e.dir /\ Head(read).dir => e.start # Head(read).start
<1> DEFINE n == Len(read)
           h == Head(read)
           t == Tail(read)
<1>1. /\ n \in Nat /\ n >= 1 /\ DOMAIN read = 1..n /\ \A i \in 1..n : read[i] \in DirEntry
      /\ h = read[1] /\ t \in Seq(DirEntry) /\ Len(t) = n - 1 /\ DOMAIN t = 1..(n - 1)
      /\ \A i \in 1..(n - 1) : t[i] = read[i + 1]
  OBVIOUS
<1> HIDE DEF h, t, n
<1>2. 1 \in 1..n /\ (\A i \in 1..(n - 1) : i + 1 \in 1..n /\ i + 1 # 1)
      /\ (\A i \in 1..n : i # 1 => i - 1 \in 1..(n - 1) /\ (i - 1) + 1 = i)
  BY <1>1
<1>3. Range(read) = {h} \union Range(t)
  <2>1. \A i \in 1..n : read[i] = h \/ read[i] \in Range(t)
    <3>1. \A i \in 1..n : i # 1 => read[i] = t[i - 1]
      BY <1>1, <1>2
    <3> QED BY <1>1, <1>2, <3>1 DEF Range
  <2>2. h \in Range(read) /\ \A i \in 1..(n - 1) : t[i] \in Range(read)
    BY <1>1, <1>2 DEF Range
  <2> QED BY <1>1, <2>1, <2>2 DEF Range
<1>4. Apart(read) => Apart(t)
  <2>1. \A i, j \in 1..(n - 1) : i # j => i + 1 # j + 1
    BY <1>1
  <2> QED BY <1>1, <1>2, <2>1 DEF Apart, n
<1>5. Apart(read) /\ ~Skipped(h) => \A e \in LiveIn(t) : e.name # h.name /\ (e.dir /\ h.dir => e.start # h.start)
  BY <1>1, <1>2 DEF Apart, LiveIn, Range, n
<1>6. h \in DirEntry
  BY <1>1, <1>2
<1> QED BY <1>1, <1>3, <1>4, <1>5, <1>6 DEF h, t

\* Every directory has names that differ.
AllDistinct == \A c \in DataClusters : Distinct(c)

\* Where the directories differ their entries are apart, and a name is of one of them.
LEMMA DistinctApart ==
  ASSUME DirVolumeOK, AllDistinct, NEW c \in 0..Over
  PROVE  /\ ReadDirectory(c) \in Seq(DirEntry)
         /\ Apart(ReadDirectory(c))
         /\ \A e, f \in Live(c) : e.name = f.name => e = f
         /\ Live(c) \in SUBSET DirEntry
         /\ Live(c) = LiveIn(ReadDirectory(c))
<1> DEFINE read == ReadDirectory(c)
<1>1. read \in Seq(DirEntry) /\ (c \notin DataClusters => read = <<>>)
  BY DirectoryType
<1>2. DOMAIN read = 1..Len(read) /\ Len(read) \in Nat /\ \A i \in 1..Len(read) : read[i] \in DirEntry
  BY <1>1
<1>3. Apart(read)
  <2>1. CASE c \in DataClusters
    <3>1. Distinct(c)
      BY <2>1 DEF AllDistinct
    <3> QED BY <1>2, <3>1 DEF Distinct, Apart
  <2>2. CASE c \notin DataClusters
    <3>1. 1..Len(<<>>) = {}
      OBVIOUS
    <3> QED BY <1>1, <2>2, <3>1 DEF Apart
  <2> QED BY <2>1, <2>2
<1>4. Live(c) = LiveIn(read)
  BY DEF Live, LiveIn
<1> HIDE DEF read
<1>5. \A e, f \in LiveIn(read) : e.name = f.name => e = f
  BY <1>2, <1>3 DEF LiveIn, Range, Apart
<1>6. LiveIn(read) \in SUBSET DirEntry
  BY <1>2 DEF LiveIn, Range
<1> QED BY <1>1, <1>3, <1>4, <1>5, <1>6 DEF read

-----------------------------------------------------------------------------

\* The first n directories that the names q lead through from the root.
Leads(q, n, D) ==
  /\ D \in [Nat -> 0..Over] /\ D[1] = volume.root
  /\ \A j \in 1..(n - 1) : \E e \in Live(D[j]) :
        e.name = q[j] /\ e.dir /\ e.start >= 2 /\ D[j + 1] = e.start

\* A path of live entries, no deeper than max_depth.
LivePath(p) ==
  /\ p \in Seq(STRING) /\ Len(p) \in 1..(MaxDepth + 1)
  /\ \E D : Leads(p, Len(p), D) /\ \E e \in Live(D[Len(p)]) : e.name = p[Len(p)]

\* The same names lead to the same directory.
LEMMA SameDirectory ==
  ASSUME DirVolumeOK, AllDistinct, NEW p, NEW n \in Nat, NEW D, Leads(p, n, D),
         NEW q, NEW m \in Nat, NEW E, Leads(q, m, E),
         NEW i \in Nat, i >= 1, i <= n, i <= m, \A j \in 1..(i - 1) : p[j] = q[j]
  PROVE  D[i] = E[i]
<1> DEFINE S == {j \in 0..(i - 1) : D[j + 1] = E[j + 1]}
<1>1. 0 \in S
  <2>1. 0 + 1 = 1 /\ 0 \in 0..(i - 1)
    OBVIOUS
  <2> QED BY <2>1 DEF Leads
<1>2. ASSUME NEW j \in 1..(i - 1), j - 1 \in S PROVE j \in S
  <2>1. (j - 1) + 1 = j /\ j \in 1..(n - 1) /\ j \in 1..(m - 1) /\ j \in 0..(i - 1) /\ j \in Nat
    OBVIOUS
  <2>2. D[j] = E[j] /\ p[j] = q[j]
    BY <1>2, <2>1
  <2>3. PICK e \in Live(D[j]) : e.name = p[j] /\ D[j + 1] = e.start
    BY <2>1 DEF Leads
  <2>4. PICK f \in Live(E[j]) : f.name = q[j] /\ E[j + 1] = f.start
    BY <2>1 DEF Leads
  <2>5. D[j] \in 0..Over
    BY <2>1 DEF Leads
  <2>6. e = f
    BY <2>2, <2>3, <2>4, <2>5, DistinctApart
  <2> QED BY <2>1, <2>3, <2>4, <2>6
<1> HIDE DEF S
<1>3. i - 1 \in S
  <2>1. i - 1 \in Nat /\ i - 1 \in 0..(i - 1)
    OBVIOUS
  <2>2. \A k \in 0..(i - 1) : k \in S
    BY <1>1, <1>2, <2>1, UpTo
  <2> QED BY <2>1, <2>2
<1>4. (i - 1) + 1 = i
  OBVIOUS
<1> QED BY <1>3, <1>4 DEF S

-----------------------------------------------------------------------------

\* A name of the path of a call, or none yet.
SomeName == STRING \union {0}

\* A call of _walk.
CallType == [rest : Seq(DirEntry), visited : SUBSET (2..Over), path : Seq(STRING)]

\* A call of level i does the directory that the names P lead to.
CallOK(f, i, P, C) ==
  /\ Len(f.path) = i - 1 /\ \A j \in 1..(i - 1) : f.path[j] = P[j]
  /\ Range(f.rest) \subseteq Range(ReadDirectory(C[i]))
  /\ Apart(f.rest)
  /\ \A e \in LiveIn(f.rest) : e.dir => e.start \notin f.visited

\* The calls do the directories C on the way along P, and have P behind them.
Walking(s, P, C) ==
  /\ s \in Seq(CallType) /\ Len(s) <= MaxDepth + 1
  /\ P \in [Nat -> SomeName] /\ Leads(P, Len(s), C)
  /\ \A i \in 1..Len(s) : CallOK(s[i], i, P, C)
  /\ \A i \in 1..(Len(s) - 1) : \A e \in LiveIn(s[i].rest) : e.name # P[i]

\* A path that a call has still to come to.
Leaves(f, i, P, p) ==
  /\ i <= Len(p) /\ \A j \in 1..(i - 1) : p[j] = P[j]
  /\ \E e \in LiveIn(f.rest) : e.name = p[i]
Pending(s, P, p) == \E i \in 1..Len(s) : Leaves(s[i], i, P, p)

\* What is listed is what no call has still to come to.
Listing(l, s, P) ==
  /\ l \in Seq(Seq(STRING))
  /\ \A j, k \in 1..Len(l) : j # k => l[j] # l[k]
  /\ \A p : p \in Range(l) <=> LivePath(p) /\ ~Pending(s, P, p)

\* The paths that begin with the entry at the head of a call.
Begins(e, m, P, p) ==
  /\ ~Skipped(e) /\ m <= Len(p) /\ (\A j \in 1..(m - 1) : p[j] = P[j]) /\ p[m] = e.name

\* What a call goes on with.
GoneOn(f, v) == [f EXCEPT !.rest = Tail(f.rest), !.visited = v]

\* What the visited clusters of a call become: the same, or with the directory it goes down to.
GoesBy(f, v) ==
  /\ v \in SUBSET (2..Over)
  /\ \/ v = f.visited
     \/ Head(f.rest).dir /\ ~Skipped(Head(f.rest)) /\ v = f.visited \union {Head(f.rest).start}

\* A call that goes on has one entry less to come to.
LEMMA CallGoesOn ==
  ASSUME DirVolumeOK, NEW f \in CallType, NEW m, NEW P, NEW C, CallOK(f, m, P, C), f.rest # <<>>,
         NEW v, GoesBy(f, v)
  PROVE  /\ GoneOn(f, v) \in CallType /\ CallOK(GoneOn(f, v), m, P, C)
         /\ LiveIn(GoneOn(f, v).rest) \subseteq LiveIn(f.rest)
         /\ \A p : Leaves(f, m, P, p) <=> Leaves(GoneOn(f, v), m, P, p) \/ Begins(Head(f.rest), m, P, p)
         /\ \A p : Begins(Head(f.rest), m, P, p) => ~Leaves(GoneOn(f, v), m, P, p)
<1> DEFINE e == Head(f.rest)
           t == Tail(f.rest)
           g == GoneOn(f, v)
<1>1. f.rest \in Seq(DirEntry) /\ f.path \in Seq(STRING)
  BY DEF CallType
<1>2. /\ e \in DirEntry /\ t \in Seq(DirEntry) /\ Range(f.rest) = {e} \union Range(t)
      /\ Apart(t)
      /\ ~Skipped(e) => \A x \in LiveIn(t) : x.name # e.name /\ (x.dir /\ e.dir => x.start # e.start)
  BY <1>1, TakeOne DEF CallOK
<1> HIDE DEF e, t
<1>3. g.rest = t /\ g.visited = v /\ g.path = f.path /\ g \in CallType
  BY <1>2 DEF GoneOn, CallType, t, GoesBy
<1> HIDE DEF g
<1>4. LiveIn(f.rest) = LiveIn(t) \union IF Skipped(e) THEN {} ELSE {e}
  BY <1>2 DEF LiveIn
<1>5. \A x \in LiveIn(t) : x.dir => x.start \notin v
  <2>1. \A x \in LiveIn(t) : x.dir => x.start \notin f.visited
    BY <1>4 DEF CallOK
  <2> QED BY <1>2, <2>1 DEF e, GoesBy
<1>6. CallOK(g, m, P, C)
  BY <1>2, <1>3, <1>5 DEF CallOK
<1>7. \A p : Leaves(f, m, P, p) <=> Leaves(g, m, P, p) \/ Begins(e, m, P, p)
  BY <1>3, <1>4 DEF Leaves, Begins
<1>8. \A p : Begins(e, m, P, p) => ~Leaves(g, m, P, p)
  BY <1>2, <1>3 DEF Leaves, Begins
<1> QED BY <1>3, <1>4, <1>6, <1>7, <1>8 DEF g, e

\* What going on does to the stack: the paths through the entry at the head are no more to come.
WentOn(s, m, P, C, u) ==
  /\ Walking(u, P, C) /\ Len(u) = m
  /\ \A i \in 1..m : i # m => u[i] = s[i]
  /\ \A e \in LiveIn(u[m].rest) : ~Skipped(Head(s[m].rest)) => e.name # Head(s[m].rest).name
  /\ \A p : Pending(s, P, p) <=> Pending(u, P, p) \/ Begins(Head(s[m].rest), m, P, p)
  /\ \A p : Begins(Head(s[m].rest), m, P, p) => ~Pending(u, P, p)

\* The stack with its last call gone on.
LEMMA StackGoesOn ==
  ASSUME DirVolumeOK, NEW s, NEW P, NEW C, Walking(s, P, C), NEW m \in Nat, m = Len(s), m >= 1, s[m].rest # <<>>,
         NEW v, GoesBy(s[m], v),
         NEW u, u = [s EXCEPT ![m] = GoneOn(s[m], v)]
  PROVE  WentOn(s, m, P, C, u)
<1> DEFINE f == s[m]
           g == GoneOn(f, v)
           e == Head(f.rest)
<1>1. /\ s \in Seq(CallType) /\ m <= MaxDepth + 1 /\ P \in [Nat -> SomeName] /\ Leads(P, m, C)
      /\ \A i \in 1..m : CallOK(s[i], i, P, C)
      /\ \A i \in 1..(m - 1) : \A x \in LiveIn(s[i].rest) : x.name # P[i]
  BY DEF Walking
<1>2. m \in 1..m /\ DOMAIN s = 1..m /\ f \in CallType /\ CallOK(f, m, P, C)
      /\ (\A i \in 1..(m - 1) : i # m /\ i \in 1..m) /\ (\A i \in 1..m : i # m => i \in 1..(m - 1))
  BY <1>1
<1>3. /\ g \in CallType /\ CallOK(g, m, P, C)
      /\ \A p : Leaves(f, m, P, p) <=> Leaves(g, m, P, p) \/ Begins(e, m, P, p)
      /\ \A p : Begins(e, m, P, p) => ~Leaves(g, m, P, p)
  BY <1>2, CallGoesOn
<1>4. u \in Seq(CallType) /\ Len(u) = m /\ u[m] = g /\ \A i \in 1..m : i # m => u[i] = s[i]
  <2> HIDE DEF g
  <2>1. u = [s EXCEPT ![m] = g]
    BY DEF g
  <2> HIDE DEF f
  <2> QED BY <1>1, <1>2, <1>3, <2>1, ExceptSeq
<1>5. \A x \in LiveIn(g.rest) : ~Skipped(e) => x.name # e.name
  <2>1. f.rest \in Seq(DirEntry) /\ Apart(f.rest)
    BY <1>2 DEF CallType, CallOK
  <2>2. g.rest = Tail(f.rest)
    BY <1>2 DEF GoneOn, CallType
  <2> QED BY <2>1, <2>2, TakeOne
<1> HIDE DEF f, g, e
<1>6. \A i \in 1..m : CallOK(u[i], i, P, C)
  BY <1>1, <1>3, <1>4
<1>7. \A i \in 1..(m - 1) : \A x \in LiveIn(u[i].rest) : x.name # P[i]
  BY <1>1, <1>2, <1>4
<1>8. Walking(u, P, C)
  BY <1>1, <1>4, <1>6, <1>7 DEF Walking
<1>9. \A p : Pending(s, P, p) <=> Pending(u, P, p) \/ Begins(e, m, P, p)
  BY <1>2, <1>3, <1>4 DEF Pending, f
<1>10. ASSUME NEW p, Begins(e, m, P, p) PROVE ~Pending(u, P, p)
  <2>1. ~Leaves(u[m], m, P, p)
    BY <1>3, <1>4, <1>10
  <2>2. ASSUME NEW i \in 1..(m - 1) PROVE ~Leaves(u[i], i, P, p)
    <3>1. p[i] = P[i]
      BY <1>10 DEF Begins
    <3> QED BY <1>7, <3>1 DEF Leaves
  <2> QED BY <1>2, <1>4, <2>1, <2>2 DEF Pending
<1> QED BY <1>4, <1>5, <1>8, <1>9, <1>10 DEF e, f, WentOn

\* The paths through an entry, of which q ends there.
Through(e, m, P, C, q) ==
  /\ e \in DirEntry /\ C[m] \in 0..Over
  /\ LivePath(q) /\ Begins(e, m, P, q) /\ Len(q) = m
  /\ \A p : LivePath(p) /\ Begins(e, m, P, p) /\ Len(p) = m => p = q
  /\ \A p : LivePath(p) /\ Begins(e, m, P, p) /\ Len(p) # m =>
       /\ e.dir /\ e.start >= 2 /\ m <= MaxDepth /\ m + 1 <= Len(p)
       /\ \E x \in Live(e.start) : x.name = p[m + 1]

\* The paths through the entry a call is at: one ends there, and the longer ones go on below.
LEMMA PathsThrough ==
  ASSUME DirVolumeOK, AllDistinct, NEW s, NEW P, NEW C, Walking(s, P, C), NEW m \in Nat, m = Len(s), m >= 1,
         NEW e \in Live(C[m])
  PROVE  Through(e, m, P, C, Append(s[m].path, e.name))
<1> DEFINE q == Append(s[m].path, e.name)
<1>1. /\ s \in Seq(CallType) /\ m <= MaxDepth + 1 /\ P \in [Nat -> SomeName] /\ Leads(P, m, C)
      /\ CallOK(s[m], m, P, C) /\ m \in 1..m /\ s[m] \in CallType /\ MaxDepth \in Nat
  <2>1. m \in 1..m
    OBVIOUS
  <2> QED BY <2>1, DirectoryAssumption DEF Walking
<1>2. C[m] \in 0..Over /\ C \in [Nat -> 0..Over]
  BY <1>1 DEF Leads
<1>3. e \in DirEntry /\ ~Skipped(e) /\ \A f, g \in Live(C[m]) : f.name = g.name => f = g
  <2>1. ~Skipped(e)
    BY DEF Live
  <2> QED BY <1>2, <2>1, DistinctApart
<1>4. /\ q \in Seq(STRING) /\ Len(q) = m /\ q[m] = e.name
      /\ \A j \in 1..(m - 1) : q[j] = P[j]
  <2>1. s[m].path \in Seq(STRING) /\ Len(s[m].path) = m - 1 /\ e.name \in STRING
        /\ \A j \in 1..(m - 1) : s[m].path[j] = P[j]
    BY <1>1, <1>3 DEF CallOK, CallType, DirEntry
  <2>2. /\ q \in Seq(STRING) /\ Len(q) = (m - 1) + 1 /\ q[(m - 1) + 1] = e.name
        /\ \A j \in 1..(m - 1) : q[j] = s[m].path[j]
    BY <2>1, AppendProperties
  <2>3. (m - 1) + 1 = m
    OBVIOUS
  <2> QED BY <2>1, <2>2, <2>3
<1> HIDE DEF q
<1>5. Begins(e, m, P, q)
  BY <1>3, <1>4 DEF Begins
<1>6. LivePath(q)
  <2>1. Leads(q, m, C)
    <3>1. ASSUME NEW j \in 1..(m - 1)
          PROVE  \E x \in Live(C[j]) : x.name = q[j] /\ x.dir /\ x.start >= 2 /\ C[j + 1] = x.start
      <4>1. PICK x \in Live(C[j]) : x.name = P[j] /\ x.dir /\ x.start >= 2 /\ C[j + 1] = x.start
        BY <1>1 DEF Leads
      <4>2. q[j] = P[j]
        BY <1>4
      <4> QED BY <4>1, <4>2
    <3> QED BY <1>1, <3>1 DEF Leads
  <2>2. m \in 1..(MaxDepth + 1)
    BY <1>1
  <2> QED BY <1>4, <2>1, <2>2 DEF LivePath
<1>7. ASSUME NEW p, LivePath(p), Begins(e, m, P, p), Len(p) = m PROVE p = q
  <2>1. p \in Seq(STRING)
    BY <1>7 DEF LivePath
  <2>2. \A j \in 1..m : j \in 1..(m - 1) \/ j = m
    OBVIOUS
  <2>3. \A j \in 1..m : p[j] = q[j]
    BY <1>4, <1>7, <2>2 DEF Begins
  <2> QED BY <1>4, <1>7, <2>1, <2>3, SeqEqual
<1>8. ASSUME NEW p, LivePath(p), Begins(e, m, P, p), Len(p) # m
      PROVE  /\ e.dir /\ e.start >= 2 /\ m <= MaxDepth /\ m + 1 <= Len(p)
             /\ \E x \in Live(e.start) : x.name = p[m + 1]
  <2>1. PICK n \in Nat : n = Len(p) /\ n \in 1..(MaxDepth + 1)
    BY <1>1, <1>8 DEF LivePath
  <2>2. PICK D : Leads(p, n, D) /\ \E x \in Live(D[n]) : x.name = p[n]
    BY <1>8, <2>1 DEF LivePath
  <2>3. n > m /\ m <= n /\ m <= MaxDepth /\ m + 1 <= n /\ m \in 1..(n - 1)
    BY <1>1, <1>8, <2>1 DEF Begins
  <2>4. D[m] = C[m]
    <3>1. \A j \in 1..(m - 1) : p[j] = P[j]
      BY <1>8 DEF Begins
    <3>2. m <= m
      OBVIOUS
    <3> QED BY <1>1, <2>2, <2>3, <3>1, <3>2, SameDirectory
  <2>5. PICK x \in Live(D[m]) : x.name = p[m] /\ x.dir /\ x.start >= 2 /\ D[m + 1] = x.start
    BY <2>2, <2>3 DEF Leads
  <2>6. x = e
    BY <1>3, <1>8, <2>4, <2>5 DEF Begins
  <2>7. \E y \in Live(D[m + 1]) : y.name = p[m + 1]
    <3>1. CASE n = m + 1
      BY <2>2, <3>1
    <3>2. CASE n # m + 1
      <4>1. m + 1 \in 1..(n - 1)
        BY <2>1, <2>3, <3>2
      <4> QED BY <2>2, <4>1 DEF Leads
    <3> QED BY <3>1, <3>2
  <2> QED BY <2>1, <2>3, <2>5, <2>6, <2>7
<1> QED BY <1>2, <1>3, <1>4, <1>5, <1>6, <1>7, <1>8 DEF q, Through

\* A live entry at the head of the last call is of its directory.
LEMMA HeadLives ==
  ASSUME DirVolumeOK, NEW s, NEW P, NEW C, Walking(s, P, C), NEW m \in Nat, m = Len(s), m >= 1, s[m].rest # <<>>
  PROVE  /\ s[m] \in CallType /\ Head(s[m].rest) \in DirEntry
         /\ ~Skipped(Head(s[m].rest)) => /\ Head(s[m].rest) \in Live(C[m])
                                         /\ Head(s[m].rest) \in LiveIn(s[m].rest)
<1>1. s[m] \in CallType /\ CallOK(s[m], m, P, C)
  <2>1. m \in 1..m
    OBVIOUS
  <2> QED BY <2>1 DEF Walking
<1>2. s[m].rest \in Seq(DirEntry) /\ Range(s[m].rest) \subseteq Range(ReadDirectory(C[m]))
  BY <1>1 DEF CallType, CallOK
<1>3. Head(s[m].rest) \in DirEntry /\ Head(s[m].rest) \in Range(s[m].rest)
  BY <1>2, TakeOne
<1> QED BY <1>1, <1>2, <1>3 DEF Live, LiveIn

\* A skipped entry is on no path.
LEMMA SkipWalks ==
  ASSUME DirVolumeOK, NEW s, NEW P, NEW C, NEW l, Walking(s, P, C), Listing(l, s, P),
         NEW m \in Nat, m = Len(s), m >= 1, s[m].rest # <<>>, Skipped(Head(s[m].rest)),
         NEW u, u = [s EXCEPT ![m] = GoneOn(s[m], s[m].visited)]
  PROVE  Walking(u, P, C) /\ Listing(l, u, P)
<1>1. GoesBy(s[m], s[m].visited)
  BY HeadLives DEF CallType, GoesBy
<1>2. /\ Walking(u, P, C)
      /\ \A p : Pending(s, P, p) <=> Pending(u, P, p) \/ Begins(Head(s[m].rest), m, P, p)
  <2>1. WentOn(s, m, P, C, u)
    BY <1>1, StackGoesOn, Zenon
  <2> QED BY <2>1 DEF WentOn
<1>3. \A p : Pending(s, P, p) <=> Pending(u, P, p)
  BY <1>2 DEF Begins
<1> QED BY <1>2, <1>3 DEF Listing

\* An entry that nothing is below of is one path.
LEMMA ListWalks ==
  ASSUME DirVolumeOK, AllDistinct, NEW s, NEW P, NEW C, NEW l, Walking(s, P, C), Listing(l, s, P),
         NEW m \in Nat, m = Len(s), m >= 1, s[m].rest # <<>>, NEW e, e = Head(s[m].rest), ~Skipped(e),
         ~(e.dir /\ e.start >= 2) \/ m > MaxDepth,
         NEW v, GoesBy(s[m], v),
         NEW u, u = [s EXCEPT ![m] = GoneOn(s[m], v)]
  PROVE  Walking(u, P, C) /\ Listing(Append(l, Append(s[m].path, e.name)), u, P)
<1> DEFINE q == Append(s[m].path, e.name)
<1>1. /\ Walking(u, P, C)
      /\ \A p : Pending(s, P, p) <=> Pending(u, P, p) \/ Begins(e, m, P, p)
      /\ \A p : Begins(e, m, P, p) => ~Pending(u, P, p)
  <2>1. WentOn(s, m, P, C, u)
    BY StackGoesOn, Zenon
  <2> QED BY <2>1 DEF WentOn
<1>2. e \in Live(C[m])
  BY HeadLives
<1>3. MaxDepth \in Nat
  BY DirectoryAssumption
<1>4. /\ LivePath(q) /\ Begins(e, m, P, q)
      /\ \A p : LivePath(p) /\ Begins(e, m, P, p) /\ Len(p) = m => p = q
      /\ \A p : LivePath(p) /\ Begins(e, m, P, p) /\ Len(p) # m => e.dir /\ e.start >= 2 /\ m <= MaxDepth
  <2>1. Through(e, m, P, C, q)
    BY <1>2, PathsThrough, Zenon
  <2> QED BY <2>1 DEF Through
<1> HIDE DEF q
<1>5. \A p : LivePath(p) /\ Begins(e, m, P, p) <=> p = q
  BY <1>3, <1>4
<1>6. q \notin Range(l) /\ q \in Seq(STRING)
  BY <1>1, <1>4 DEF Listing, LivePath
<1>7. /\ Append(l, q) \in Seq(Seq(STRING)) /\ Range(Append(l, q)) = Range(l) \union {q}
      /\ \A j, k \in 1..Len(Append(l, q)) : j # k => Append(l, q)[j] # Append(l, q)[k]
  <2>1. l \in Seq(Seq(STRING)) /\ \A j, k \in 1..Len(l) : j # k => l[j] # l[k]
    BY DEF Listing
  <2> QED BY <1>6, <2>1, ListsOne
<1>8. \A p : p \in Range(Append(l, q)) <=> LivePath(p) /\ ~Pending(u, P, p)
  <2>1. \A p : p \in Range(l) <=> LivePath(p) /\ ~Pending(s, P, p)
    BY DEF Listing
  <2> QED BY <1>1, <1>5, <1>7, <2>1
<1> QED BY <1>1, <1>7, <1>8 DEF Listing, q

\* A call with nothing left has no path to come to.
LEMMA ReturnWalks ==
  ASSUME DirVolumeOK, NEW s, NEW P, NEW C, NEW l, Walking(s, P, C), Listing(l, s, P),
         NEW m \in Nat, m = Len(s), m >= 1, s[m].rest = <<>>
  PROVE  Walking(Front(s), P, C) /\ Listing(l, Front(s), P)
<1> DEFINE u == Front(s)
<1>1. /\ s \in Seq(CallType) /\ m <= MaxDepth + 1 /\ P \in [Nat -> SomeName] /\ Leads(P, m, C)
      /\ \A i \in 1..m : CallOK(s[i], i, P, C)
      /\ \A i \in 1..(m - 1) : \A x \in LiveIn(s[i].rest) : x.name # P[i]
      /\ MaxDepth \in Nat
  BY DirectoryAssumption DEF Walking
<1>2. u \in Seq(CallType) /\ Len(u) = m - 1 /\ \A i \in 1..(m - 1) : u[i] = s[i]
  BY <1>1 DEF Front
<1> HIDE DEF u
<1>3. /\ m - 1 \in Nat /\ m - 1 <= MaxDepth + 1 /\ (\A i \in 1..(m - 1) : i \in 1..m)
      /\ (\A i \in 1..((m - 1) - 1) : i \in 1..(m - 1)) /\ \A i \in 1..m : i \in 1..(m - 1) \/ i = m
  BY <1>1
<1>4. Leads(P, m - 1, C)
  BY <1>1, <1>3 DEF Leads
<1>5. Walking(u, P, C)
  <2>1. \A i \in 1..Len(u) : CallOK(u[i], i, P, C)
    BY <1>1, <1>2, <1>3
  <2>2. \A i \in 1..(Len(u) - 1) : \A x \in LiveIn(u[i].rest) : x.name # P[i]
    BY <1>1, <1>2, <1>3
  <2> QED BY <1>1, <1>2, <1>3, <1>4, <2>1, <2>2 DEF Walking
<1>6. LiveIn(<<>>) = {}
  BY DEF LiveIn, Range
<1>7. \A p : Pending(s, P, p) <=> Pending(u, P, p)
  <2>1. \A p : ~Leaves(s[m], m, P, p)
    BY <1>6 DEF Leaves
  <2> QED BY <1>2, <1>3, <2>1 DEF Pending
<1> QED BY <1>5, <1>7 DEF Listing, u

\* A stack and a list of some walk along names and directories.
WalkOf(s, l) == \E P, C : Walking(s, P, C) /\ Listing(l, s, P)

\* A directory to go down into is one path, and what is below is left to the call below.
LEMMA DescendWalks ==
  ASSUME DirVolumeOK, AllDistinct, NEW s, NEW P, NEW C, NEW l, Walking(s, P, C), Listing(l, s, P),
         NEW m \in Nat, m = Len(s), m >= 1, s[m].rest # <<>>, NEW e, e = Head(s[m].rest), ~Skipped(e),
         e.dir, e.start >= 2, m <= MaxDepth,
         NEW v, GoesBy(s[m], v),
         NEW u, u = [s EXCEPT ![m] = GoneOn(s[m], v)]
  PROVE  WalkOf(Append(u, Frame(e.start, Append(s[m].path, e.name))), Append(l, Append(s[m].path, e.name)))
<1> DEFINE q == Append(s[m].path, e.name)
           c == e.start
           g == Frame(c, q)
           w == Append(u, g)
           P2 == [P EXCEPT ![m] = e.name]
           C2 == [C EXCEPT ![m + 1] = c]
<1>1. /\ Walking(u, P, C) /\ Len(u) = m
      /\ \A x \in LiveIn(u[m].rest) : x.name # e.name
      /\ \A p : Pending(s, P, p) <=> Pending(u, P, p) \/ Begins(e, m, P, p)
      /\ \A p : Begins(e, m, P, p) => ~Pending(u, P, p)
  <2>1. WentOn(s, m, P, C, u)
    BY StackGoesOn, Zenon
  <2> QED BY <2>1 DEF WentOn
<1>2. e \in Live(C[m])
  BY HeadLives
<1>3. MaxDepth \in Nat
  BY DirectoryAssumption
<1>4. /\ e \in DirEntry /\ C[m] \in 0..Over
      /\ LivePath(q) /\ Begins(e, m, P, q) /\ Len(q) = m
      /\ \A p : LivePath(p) /\ Begins(e, m, P, p) /\ Len(p) = m => p = q
      /\ \A p : LivePath(p) /\ Begins(e, m, P, p) /\ Len(p) # m =>
           m + 1 <= Len(p) /\ \E x \in Live(c) : x.name = p[m + 1]
  <2>1. Through(e, m, P, C, q)
    BY <1>2, PathsThrough, Zenon
  <2> QED BY <2>1 DEF Through
<1>5. e.name \in STRING /\ c \in 0..Over /\ q \in Seq(STRING)
  BY <1>4 DEF DirEntry, LivePath
<1>6. /\ ReadDirectory(c) \in Seq(DirEntry) /\ Apart(ReadDirectory(c)) /\ Live(c) = LiveIn(ReadDirectory(c))
  BY <1>5, DistinctApart
<1>7. /\ g \in CallType /\ g.rest = ReadDirectory(c) /\ g.visited = {} /\ g.path = q
  BY <1>5, <1>6 DEF Frame, CallType
<1> HIDE DEF q, g, c
<1>8. /\ u \in Seq(CallType) /\ P \in [Nat -> SomeName] /\ C \in [Nat -> 0..Over] /\ C[1] = volume.root
      /\ (\A j \in 1..(m - 1) : \E x \in Live(C[j]) : x.name = P[j] /\ x.dir /\ x.start >= 2 /\ C[j + 1] = x.start)
      /\ (\A i \in 1..m : CallOK(u[i], i, P, C))
      /\ \A i \in 1..(m - 1) : \A x \in LiveIn(u[i].rest) : x.name # P[i]
  BY <1>1 DEF Walking, Leads
<1>9. w \in Seq(CallType) /\ Len(w) = m + 1 /\ (\A i \in 1..m : w[i] = u[i]) /\ w[m + 1] = g
  BY <1>1, <1>7, <1>8, AppendProperties
<1>10. P2 \in [Nat -> SomeName] /\ P2[m] = e.name /\ \A j \in Nat : j # m => P2[j] = P[j]
  <2>1. e.name \in SomeName
    BY <1>5 DEF SomeName
  <2> QED BY <1>8, <2>1
<1>11. C2 \in [Nat -> 0..Over] /\ C2[m + 1] = c /\ \A j \in Nat : j # m + 1 => C2[j] = C[j]
  <2>1. PICK k \in Nat : k = m + 1
    OBVIOUS
  <2>2. C2 = [C EXCEPT ![k] = c]
    BY <2>1
  <2> HIDE DEF C2
  <2>3. C2 \in [Nat -> 0..Over] /\ C2[k] = c /\ \A j \in Nat : j # k => C2[j] = C[j]
    BY <1>5, <1>8, <2>2
  <2> QED BY <2>1, <2>3
<1> HIDE DEF w, P2, C2
<1>12. /\ (\A i \in 1..m : i \in Nat /\ i # m + 1 /\ \A j \in 1..(i - 1) : j \in Nat /\ j # m)
       /\ (\A i \in 1..(m + 1) : i \in 1..m \/ i = m + 1)
       /\ (\A i \in 1..m : i \in 1..(m - 1) \/ i = m)
       /\ (\A i \in 1..(m - 1) : i \in Nat /\ i # m /\ i # m + 1 /\ i + 1 # m + 1 /\ i + 1 \in Nat /\ i \in 1..m)
       /\ (m + 1) - 1 = m /\ m + 1 \in Nat /\ 1 \in Nat /\ 1 # m + 1 /\ m # m + 1 /\ m \in 1..m /\ m + 1 \in 1..(m + 1)
       /\ (\A i \in 1..m : i \in 1..(m + 1)) /\ m + 1 <= MaxDepth + 1
  BY <1>3
<1>13. Leads(P2, m + 1, C2)
  <2>1. ASSUME NEW j \in 1..(m - 1)
        PROVE  \E x \in Live(C2[j]) : x.name = P2[j] /\ x.dir /\ x.start >= 2 /\ C2[j + 1] = x.start
    <3>1. C2[j] = C[j] /\ C2[j + 1] = C[j + 1] /\ P2[j] = P[j]
      BY <1>10, <1>11, <1>12
    <3> QED BY <1>8, <3>1
  <2>2. \E x \in Live(C2[m]) : x.name = P2[m] /\ x.dir /\ x.start >= 2 /\ C2[m + 1] = x.start
    <3>1. C2[m] = C[m]
      BY <1>11, <1>12
    <3> QED BY <1>2, <1>10, <1>11, <3>1 DEF c
  <2>3. \A j \in 1..((m + 1) - 1) :
          \E x \in Live(C2[j]) : x.name = P2[j] /\ x.dir /\ x.start >= 2 /\ C2[j + 1] = x.start
    BY <1>12, <2>1, <2>2
  <2>4. C2[1] = volume.root
    BY <1>8, <1>11, <1>12
  <2> QED BY <1>11, <2>3, <2>4 DEF Leads
<1>14. \A j \in 1..m : q[j] = P2[j]
  <2>1. (\A j \in 1..(m - 1) : q[j] = P[j]) /\ q[m] = e.name
    BY <1>4 DEF Begins
  <2> QED BY <1>10, <1>12, <2>1
<1>15. \A i \in 1..(m + 1) : CallOK(w[i], i, P2, C2)
  <2>1. ASSUME NEW i \in 1..m PROVE CallOK(w[i], i, P2, C2)
    <3>1. w[i] = u[i] /\ C2[i] = C[i] /\ \A j \in 1..(i - 1) : P2[j] = P[j]
      BY <1>9, <1>10, <1>11, <1>12
    <3>2. CallOK(u[i], i, P, C)
      BY <1>8
    <3> QED BY <3>1, <3>2 DEF CallOK
  <2>2. CallOK(w[m + 1], m + 1, P2, C2)
    BY <1>4, <1>6, <1>7, <1>9, <1>11, <1>12, <1>14 DEF CallOK
  <2> QED BY <1>12, <2>1, <2>2
<1>16. \A i \in 1..m : \A x \in LiveIn(w[i].rest) : x.name # P2[i]
  <2>1. \A x \in LiveIn(w[m].rest) : x.name # P2[m]
    BY <1>1, <1>9, <1>10, <1>12
  <2>2. ASSUME NEW i \in 1..(m - 1) PROVE \A x \in LiveIn(w[i].rest) : x.name # P2[i]
    <3>1. w[i] = u[i] /\ P2[i] = P[i]
      BY <1>9, <1>10, <1>12
    <3>2. \A x \in LiveIn(u[i].rest) : x.name # P[i]
      BY <1>8
    <3> QED BY <3>1, <3>2
  <2> QED BY <1>12, <2>1, <2>2
<1>17. Walking(w, P2, C2)
  BY <1>9, <1>10, <1>12, <1>13, <1>15, <1>16 DEF Walking
<1>18. \A p : Begins(e, m, P, p) <=> m <= Len(p) /\ \A j \in 1..m : p[j] = P2[j]
  <2>1. \A p : (\A j \in 1..m : p[j] = P2[j]) <=> p[m] = e.name /\ \A j \in 1..(m - 1) : p[j] = P[j]
    BY <1>10, <1>12
  <2> QED BY <2>1 DEF Begins
<1>19. \A p : Pending(w, P2, p) <=> Pending(u, P, p) \/ Leaves(g, m + 1, P2, p)
  <2>1. ASSUME NEW p, NEW i \in 1..m PROVE Leaves(w[i], i, P2, p) <=> Leaves(u[i], i, P, p)
    <3>1. w[i] = u[i] /\ \A j \in 1..(i - 1) : P2[j] = P[j]
      BY <1>9, <1>10, <1>12
    <3> QED BY <3>1 DEF Leaves
  <2> QED BY <1>1, <1>9, <1>12, <2>1 DEF Pending
<1>20. ASSUME NEW p, LivePath(p)
       PROVE  Leaves(g, m + 1, P2, p) <=> Begins(e, m, P, p) /\ Len(p) # m
  <2>1. Len(p) \in Nat
    BY <1>20 DEF LivePath
  <2>2. m + 1 <= Len(p) => m <= Len(p) /\ Len(p) # m
    BY <2>1
  <2>3. Leaves(g, m + 1, P2, p) <=>
          m + 1 <= Len(p) /\ (\A j \in 1..m : p[j] = P2[j]) /\ \E x \in Live(c) : x.name = p[m + 1]
    BY <1>6, <1>7, <1>12 DEF Leaves
  <2> QED BY <1>4, <1>18, <1>20, <2>2, <2>3
<1>21. q \notin Range(l) /\ q \in Seq(STRING)
  BY <1>1, <1>4, <1>5 DEF Listing
<1>22. /\ Append(l, q) \in Seq(Seq(STRING)) /\ Range(Append(l, q)) = Range(l) \union {q}
       /\ \A j, k \in 1..Len(Append(l, q)) : j # k => Append(l, q)[j] # Append(l, q)[k]
  <2>1. l \in Seq(Seq(STRING)) /\ \A j, k \in 1..Len(l) : j # k => l[j] # l[k]
    BY DEF Listing
  <2> QED BY <1>21, <2>1, ListsOne
<1>23. ASSUME NEW p PROVE p \in Range(Append(l, q)) <=> LivePath(p) /\ ~Pending(w, P2, p)
  <2>1. p \in Range(l) <=> LivePath(p) /\ ~Pending(s, P, p)
    BY DEF Listing
  <2>2. p \in Range(Append(l, q)) <=> p \in Range(l) \/ p = q
    BY <1>22
  <2> QED BY <1>1, <1>4, <1>19, <1>20, <2>1, <2>2
<1>24. Listing(Append(l, q), w, P2)
  BY <1>22, <1>23 DEF Listing
<1> QED BY <1>17, <1>24 DEF WalkOf, w, g, q, c

\* What a directory holds is of the volume alone.
LEMMA SameEntries ==
  ASSUME volume' = volume
  PROVE  \A c : ReadDirectory(c)' = ReadDirectory(c) /\ Live(c)' = Live(c)
<1>1. \A c : Orbit(c)' = Orbit(c)
  BY DEF Orbit, NextCluster
<1>2. \A c : OrbitLen(c)' = OrbitLen(c)
  BY <1>1 DEF OrbitLen
<1>3. \A c : SlotsOf(c)' = SlotsOf(c)
  BY DEF SlotsOf
<1>4. \A c : DirectorySlots(c)' = DirectorySlots(c)
  BY <1>1, <1>2, <1>3 DEF DirectorySlots
<1>5. \A c : ReadDirectory(c)' = ReadDirectory(c)
  BY <1>4 DEF ReadDirectory
<1> QED BY <1>5 DEF Live

\* Every step of a walk keeps what is listed and what is to come.
LEMMA WalkSteps ==
  ASSUME DirVolumeOK, AllDistinct, WalkOf(stack, listed), WalkNext
  PROVE  WalkOf(stack', listed')
<1> DEFINE m == Len(stack)
           e == Head(stack[m].rest)
<1>1. PICK P, C : Walking(stack, P, C) /\ Listing(listed, stack, P)
  BY DEF WalkOf
<1>2. stack \in Seq(CallType) /\ m \in Nat
  BY <1>1 DEF Walking
<1>3. Call = stack[m]
  BY DEF Call, Last
<1>4. stack # <<>> => m >= 1
  BY <1>2
<1>5. \A v : GoOn(v) = [stack EXCEPT ![m] = GoneOn(stack[m], v)]
  BY <1>3 DEF GoOn, GoneOn
<1>6. ASSUME More
      PROVE  /\ m >= 1 /\ stack[m].rest # <<>> /\ TopEntry = e /\ Path(e) = Append(stack[m].path, e.name)
             /\ GoesBy(stack[m], Call.visited)
             /\ stack[m] \in CallType /\ e \in DirEntry
             /\ ~Skipped(e) => e \in LiveIn(stack[m].rest) /\ e \in Live(C[m])
  <2>1. m >= 1 /\ stack[m].rest # <<>> /\ TopEntry = e /\ Path(e) = Append(stack[m].path, e.name)
    BY <1>3, <1>4, <1>6 DEF More, TopEntry, Path
  <2>2. /\ stack[m] \in CallType /\ e \in DirEntry
        /\ ~Skipped(e) => e \in LiveIn(stack[m].rest) /\ e \in Live(C[m])
    BY <1>1, <1>2, <2>1, HeadLives
  <2>3. GoesBy(stack[m], Call.visited)
    BY <1>3, <2>2 DEF CallType, GoesBy
  <2> QED BY <2>1, <2>2, <2>3
<1> HIDE DEF m, e
<1>7. CASE SkipEntry
  <2>1. More /\ Skipped(e) /\ stack' = [stack EXCEPT ![m] = GoneOn(stack[m], stack[m].visited)] /\ listed' = listed
    BY <1>3, <1>5, <1>6, <1>7 DEF SkipEntry
  <2>2. Walking(stack', P, C) /\ Listing(listed, stack', P)
    BY <1>1, <1>2, <1>6, <2>1, SkipWalks DEF m, e
  <2> QED BY <2>1, <2>2 DEF WalkOf
<1>8. ASSUME NEW v, More, ~Skipped(e), GoesBy(stack[m], v), ~(e.dir /\ e.start >= 2) \/ m > MaxDepth,
             stack' = GoOn(v), listed' = Append(listed, Path(e))
      PROVE  WalkOf(stack', listed')
  <2>1. Walking(stack', P, C) /\ Listing(Append(listed, Append(stack[m].path, e.name)), stack', P)
    <3>1. stack' = [stack EXCEPT ![m] = GoneOn(stack[m], v)]
      BY <1>5, <1>8
    <3>2. m = Len(stack) /\ e = Head(stack[m].rest)
      BY DEF m, e
    <3>3. m >= 1 /\ stack[m].rest # <<>>
      BY <1>6, <1>8
    <3> QED BY <1>1, <1>2, <1>8, <3>1, <3>2, <3>3, ListWalks, Zenon
  <2> QED BY <1>6, <1>8, <2>1 DEF WalkOf
<1>9. CASE ListFile
  <2>1. More /\ ~Skipped(e) /\ ~e.dir /\ stack' = GoOn(Call.visited) /\ listed' = Append(listed, Path(e))
    BY <1>6, <1>9 DEF ListFile
  <2> QED BY <1>6, <1>8, <2>1
<1>10. CASE ListOnly
  <2>1. /\ More /\ ~Skipped(e) /\ e.dir /\ ~Followed(e)
        /\ stack' = GoOn(Call.visited) /\ listed' = Append(listed, Path(e))
    BY <1>6, <1>10 DEF ListOnly
  <2>2. ~(e.start >= 2)
    <3>1. CallOK(stack[m], m, P, C)
      <4>1. m \in 1..m
        BY <1>2, <1>6, <2>1
      <4> QED BY <1>1, <4>1 DEF Walking, m
    <3>2. e.start \notin Call.visited
      BY <1>3, <1>6, <2>1, <3>1 DEF CallOK, m
    <3> QED BY <2>1, <3>2 DEF Followed
  <2> QED BY <1>6, <1>8, <2>1, <2>2
<1>11. CASE Descend
  <2> DEFINE v == Call.visited \union {e.start}
  <2>1. /\ More /\ ~Skipped(e) /\ e.dir /\ Followed(e) /\ listed' = Append(listed, Path(e))
        /\ stack' = IF m > MaxDepth THEN GoOn(v) ELSE Append(GoOn(v), Below(e))
    BY <1>6, <1>11 DEF Descend, m
  <2>2. GoesBy(stack[m], v)
    <3>1. e.start \in 2..Over
      <4>1. e.start \in 0..Over /\ e.start >= 2
        BY <1>6, <2>1 DEF DirEntry, Followed
      <4>2. Over \in Nat
        BY FatAssumption DEF Over
      <4> QED BY <4>1, <4>2
    <3>2. stack[m].visited \in SUBSET (2..Over)
      BY <1>6, <2>1 DEF CallType
    <3> QED BY <1>3, <2>1, <3>1, <3>2 DEF GoesBy, e
  <2> HIDE DEF v
  <2>3. CASE m > MaxDepth
    BY <1>8, <2>1, <2>2, <2>3
  <2>4. CASE ~(m > MaxDepth)
    <3>1. m <= MaxDepth /\ MaxDepth \in Nat
      BY <1>2, <2>4, DirectoryAssumption
    <3>2. stack' = Append(GoOn(v), Frame(e.start, Append(stack[m].path, e.name)))
      BY <1>6, <2>1, <2>4 DEF Below
    <3>3. GoOn(v) = [stack EXCEPT ![m] = GoneOn(stack[m], v)]
      BY <1>5
    <3>4. m = Len(stack) /\ e = Head(stack[m].rest) /\ m >= 1 /\ stack[m].rest # <<>> /\ e.start >= 2
      BY <1>6, <2>1 DEF m, e, Followed
    <3>5. WalkOf(Append(GoOn(v), Frame(e.start, Append(stack[m].path, e.name))),
                Append(listed, Append(stack[m].path, e.name)))
      BY <1>1, <1>2, <2>1, <2>2, <3>1, <3>3, <3>4, DescendWalks, Zenon
    <3> QED BY <1>6, <2>1, <3>2, <3>5
  <2> QED BY <2>3, <2>4
<1>12. CASE Return
  <2>1. m >= 1 /\ stack[m].rest = <<>> /\ stack' = Front(stack) /\ listed' = listed
    BY <1>3, <1>4, <1>12 DEF Return, m
  <2>2. Walking(stack', P, C) /\ Listing(listed, stack', P)
    BY <1>1, <1>2, <2>1, ReturnWalks DEF m
  <2> QED BY <2>1, <2>2 DEF WalkOf
<1> QED BY <1>7, <1>9, <1>10, <1>11, <1>12 DEF WalkNext

-----------------------------------------------------------------------------

\* The pairs of a path and its entry, one name longer.
Deeper(X) ==
  UNION {{<<Append(r[1], e.name), e>> : e \in Live(r[2].start)} : r \in {x \in X : x[2].dir /\ x[2].start >= 2}}

\* What one name reaches, and the pairs of a path and an entry.
Shallow(c) == {<< <<e.name>>, e >> : e \in Live(c)}
Places == Seq(STRING) \X DirEntry

\* f holds what is reached, one name more at a time.
Deepens(f, c) ==
  f \in [Nat -> SUBSET Places] /\ f[0] = Shallow(c) /\ \A n \in Nat \ {0} : f[n] = Deeper(f[n - 1])

\* What is reached of a directory, one name after the other.
LEMMA ReachedDeepens ==
  ASSUME DirVolumeOK, AllDistinct, NEW c \in 0..Over
  PROVE  Deepens(Reached(c), c)
<1> DEFINE V == SUBSET Places
           next == [X \in V |-> Deeper(X)]
           Equation(f) == f = [n \in Nat |->
              IF n = 0 THEN {<< <<e.name>>, e >> : e \in Live(c)}
              ELSE LET below == {r \in f[n - 1] : r[2].dir /\ r[2].start >= 2}
                   IN  UNION {{<<Append(r[1], e.name), e>> : e \in Live(r[2].start)} : r \in below}]
<1>1. ASSUME NEW X \in V PROVE Deeper(X) \in V
  <2>1. ASSUME NEW r \in X, NEW e \in Live(r[2].start) PROVE <<Append(r[1], e.name), e>> \in Places
    <3>1. r[1] \in Seq(STRING) /\ r[2] \in DirEntry
      BY <2>1 DEF Places
    <3>2. r[2].start \in 0..Over
      BY <3>1 DEF DirEntry
    <3>3. e \in DirEntry
      BY <3>2, DistinctApart
    <3>4. e.name \in STRING
      BY <3>3 DEF DirEntry
    <3>5. Append(r[1], e.name) \in Seq(STRING)
      BY <3>1, <3>4, AppendProperties
    <3> QED BY <3>3, <3>5 DEF Places
  <2> QED BY <2>1 DEF Deeper
<1>2. Shallow(c) \in V
  <2>1. ASSUME NEW e \in Live(c) PROVE << <<e.name>>, e >> \in Places
    <3>1. e \in DirEntry
      BY DistinctApart
    <3>2. e.name \in STRING
      BY <3>1 DEF DirEntry
    <3>3. <<e.name>> \in Seq(STRING)
      BY <3>2
    <3> QED BY <3>1, <3>3 DEF Places
  <2> QED BY <2>1 DEF Shallow
<1>3. next \in [V -> V] /\ \A X \in V : next[X] = Deeper(X)
  BY <1>1
<1> HIDE DEF next, V
<1>4. PICK g : g \in [Nat -> V] /\ g[0] = Shallow(c) /\ \A n \in Nat \ {0} : g[n] = next[g[n - 1]]
  <2> HIDE DEF Equation
  <2>1. \E g : Endless(g, V, Shallow(c), next)
    BY <1>2, <1>3, EndlessRecursion
  <2> QED BY <2>1 DEF Endless
<1>5. \A n \in Nat : g[n] = IF n = 0 THEN Shallow(c) ELSE Deeper(g[n - 1])
  <2>1. \A n \in Nat \ {0} : n - 1 \in Nat /\ g[n - 1] \in V
    <3>1. \A n \in Nat \ {0} : n - 1 \in Nat
      OBVIOUS
    <3> QED BY <1>4, <3>1
  <2> QED BY <1>3, <1>4, <2>1
<1>6. Equation(g)
  <2>1. g = [n \in Nat |-> g[n]]
    BY <1>4
  <2> QED BY <1>5, <2>1 DEF Shallow, Deeper
<1>7. PICK f : Equation(f) /\ Reached(c) = f
  <2> HIDE DEF Equation
  <2>1. Equation(CHOOSE f : Equation(f))
    BY <1>6
  <2>2. Reached(c) = CHOOSE f : Equation(f)
    BY DEF Reached, Equation
  <2> QED BY <2>1, <2>2
<1>8. \A n \in Nat : f[n] = IF n = 0 THEN Shallow(c) ELSE Deeper(f[n - 1])
  BY <1>7 DEF Shallow, Deeper
<1>9. \A n \in Nat : f[n] = g[n]
  <2> DEFINE P == {n \in Nat : f[n] = g[n]}
  <2>1. 0 \in P
    BY <1>5, <1>8
  <2>2. ASSUME NEW n \in Nat, n \in P PROVE n + 1 \in P
    <3>1. n + 1 \in Nat /\ (n + 1) - 1 = n /\ n + 1 # 0
      OBVIOUS
    <3> QED BY <1>5, <1>8, <2>2, <3>1
  <2> HIDE DEF P
  <2>3. ASSUME NEW n \in Nat PROVE n \in P
    <3>1. \A i \in 1..n : i - 1 \in P => i \in P
      <4>1. \A i \in 1..n : i - 1 \in Nat /\ (i - 1) + 1 = i
        OBVIOUS
      <4> QED BY <2>2, <4>1
    <3>2. \A i \in 0..n : i \in P
      BY <2>1, <3>1, UpTo
    <3> QED BY <3>2
  <2> QED BY <2>3 DEF P
<1>10. f = [n \in Nat |-> f[n]] /\ g = [n \in Nat |-> g[n]]
  BY <1>4, <1>7
<1> HIDE DEF Equation
<1>11. f = g
  BY <1>9, <1>10
<1> QED BY <1>4, <1>5, <1>7, <1>11 DEF Deepens, V

\* The names p lead to the entry e, n names below a directory of the root.
Reaches(p, e, n) ==
  /\ p \in Seq(STRING) /\ Len(p) = n + 1 /\ e.name = p[n + 1]
  /\ \E D : Leads(p, n + 1, D) /\ e \in Live(D[n + 1])

\* What is reached at a depth is what names of that number lead to.
LEMMA ReachedIs ==
  ASSUME DirVolumeOK, AllDistinct, volume.root \in 0..Over, NEW N \in Nat, NEW f, Deepens(f, volume.root)
  PROVE  \A n \in 0..N : \A p, e : <<p, e>> \in f[n] <=> Reaches(p, e, n)
<1> DEFINE S == {n \in Nat : \A p, e : <<p, e>> \in f[n] <=> Reaches(p, e, n)}
<1>1. /\ f \in [Nat -> SUBSET Places] /\ f[0] = Shallow(volume.root)
      /\ \A n \in Nat \ {0} : f[n] = Deeper(f[n - 1])
  BY DEF Deepens
<1>2. ASSUME NEW p, NEW e PROVE <<p, e>> \in f[0] <=> Reaches(p, e, 0)
  <2>1. <<p, e>> \in f[0] <=> e \in Live(volume.root) /\ p = <<e.name>>
    BY <1>1 DEF Shallow
  <2>2. ASSUME e \in Live(volume.root), p = <<e.name>> PROVE Reaches(p, e, 0)
    <3>1. e \in DirEntry
      BY <2>2, DistinctApart
    <3>2. e.name \in STRING
      BY <3>1 DEF DirEntry
    <3>3. p \in Seq(STRING) /\ Len(p) = 0 + 1 /\ p[0 + 1] = e.name
      BY <2>2, <3>2
    <3> DEFINE D == [k \in Nat |-> volume.root]
    <3>4. D \in [Nat -> 0..Over] /\ D[1] = volume.root /\ D[0 + 1] = volume.root /\ 1..((0 + 1) - 1) = {}
      OBVIOUS
    <3> HIDE DEF D
    <3>5. Leads(p, 0 + 1, D)
      BY <3>4 DEF Leads
    <3> QED BY <2>2, <3>3, <3>4, <3>5 DEF Reaches
  <2>3. ASSUME Reaches(p, e, 0) PROVE e \in Live(volume.root) /\ p = <<e.name>>
    <3>1. 0 + 1 = 1
      OBVIOUS
    <3>2. p \in Seq(STRING) /\ Len(p) = 1 /\ e.name = p[1] /\ \E D : D[1] = volume.root /\ e \in Live(D[1])
      BY <2>3, <3>1 DEF Reaches, Leads
    <3>3. p = <<p[1]>>
      BY <3>2
    <3> QED BY <3>2, <3>3
  <2> QED BY <2>1, <2>2, <2>3
<1>3. 0 \in S
  BY <1>2
<1>4. ASSUME NEW n \in Nat \ {0}, n - 1 \in S, NEW p, NEW e, <<p, e>> \in f[n] PROVE Reaches(p, e, n)
  <2>1. n \in Nat /\ n - 1 \in Nat /\ (n - 1) + 1 = n /\ n + 1 \in Nat /\ (n + 1) - 1 = n /\ n # n + 1 /\ n >= 1
        /\ n \in 1..n /\ (\A j \in 1..n : j \in 1..(n - 1) \/ j = n) /\ 1 # n + 1 /\ 1 \in Nat
        /\ \A j \in 1..(n - 1) : j \in 1..n /\ j \in Nat /\ j + 1 \in Nat /\ j # n + 1 /\ j + 1 # n + 1
    OBVIOUS
  <2>2. PICK r \in f[n - 1] : r[2].dir /\ r[2].start >= 2 /\ e \in Live(r[2].start) /\ p = Append(r[1], e.name)
    BY <1>1, <1>4 DEF Deeper
  <2>3. f[n - 1] \in SUBSET Places
    BY <1>1, <2>1
  <2>4. PICK q, x : r = <<q, x>> /\ q \in Seq(STRING) /\ x \in DirEntry
    BY <2>2, <2>3 DEF Places
  <2>5. x.dir /\ x.start >= 2 /\ e \in Live(x.start) /\ p = Append(q, e.name) /\ <<q, x>> \in f[n - 1]
    BY <2>2, <2>4
  <2>6. Reaches(q, x, n - 1)
    BY <1>4, <2>5
  <2>7. Len(q) = n /\ x.name = q[n]
    BY <2>1, <2>6 DEF Reaches
  <2>8. PICK D : Leads(q, n, D) /\ x \in Live(D[n])
    BY <2>1, <2>6 DEF Reaches
  <2>9. x.start \in 0..Over
    BY <2>4 DEF DirEntry
  <2>10. e \in DirEntry
    BY <2>5, <2>9, DistinctApart
  <2>11. e.name \in STRING
    BY <2>10 DEF DirEntry
  <2>12. p \in Seq(STRING) /\ Len(p) = n + 1 /\ (\A j \in 1..n : p[j] = q[j]) /\ p[n + 1] = e.name
    BY <2>4, <2>5, <2>7, <2>11, AppendProperties
  <2>13. PICK D2 : D2 \in [Nat -> 0..Over] /\ D2[n + 1] = x.start /\ \A j \in Nat : j # n + 1 => D2[j] = D[j]
    <3>1. PICK k \in Nat : k = n + 1
      BY <2>1
    <3>2. D \in [Nat -> 0..Over]
      BY <2>8 DEF Leads
    <3> DEFINE E == [D EXCEPT ![k] = x.start]
    <3>3. E \in [Nat -> 0..Over] /\ E[k] = x.start /\ \A j \in Nat : j # k => E[j] = D[j]
      BY <2>9, <3>2
    <3> HIDE DEF E
    <3> QED BY <3>1, <3>3
  <2>14. Leads(p, n + 1, D2)
    <3>1. ASSUME NEW j \in 1..(n - 1)
          PROVE  \E y \in Live(D2[j]) : y.name = p[j] /\ y.dir /\ y.start >= 2 /\ D2[j + 1] = y.start
      <4>1. PICK y \in Live(D[j]) : y.name = q[j] /\ y.dir /\ y.start >= 2 /\ D[j + 1] = y.start
        BY <2>8 DEF Leads
      <4>2. D2[j] = D[j] /\ D2[j + 1] = D[j + 1] /\ p[j] = q[j]
        BY <2>1, <2>12, <2>13
      <4> QED BY <4>1, <4>2
    <3>2. \E y \in Live(D2[n]) : y.name = p[n] /\ y.dir /\ y.start >= 2 /\ D2[n + 1] = y.start
      <4>1. D2[n] = D[n] /\ p[n] = q[n]
        BY <2>1, <2>12, <2>13
      <4> QED BY <2>5, <2>7, <2>8, <2>13, <4>1
    <3>3. D2[1] = volume.root
      <4>1. D[1] = volume.root
        BY <2>8 DEF Leads
      <4> QED BY <2>1, <2>13, <4>1
    <3>4. \A j \in 1..((n + 1) - 1) : \E y \in Live(D2[j]) :
             y.name = p[j] /\ y.dir /\ y.start >= 2 /\ D2[j + 1] = y.start
      BY <2>1, <3>1, <3>2
    <3> QED BY <2>13, <3>3, <3>4 DEF Leads
  <2>15. e \in Live(D2[n + 1])
    BY <2>5, <2>13
  <2> QED BY <2>12, <2>14, <2>15 DEF Reaches
<1>5. ASSUME NEW n \in Nat \ {0}, n - 1 \in S, NEW p, NEW e, Reaches(p, e, n) PROVE <<p, e>> \in f[n]
  <2>1. n \in Nat /\ n - 1 \in Nat /\ (n - 1) + 1 = n /\ n + 1 \in Nat /\ (n + 1) - 1 = n /\ n >= 1
        /\ n \in 1..n /\ \A j \in 1..(n - 1) : j \in 1..n
    OBVIOUS
  <2>2. p \in Seq(STRING) /\ Len(p) = n + 1 /\ e.name = p[n + 1]
    BY <1>5 DEF Reaches
  <2>3. PICK D : Leads(p, n + 1, D) /\ e \in Live(D[n + 1])
    BY <1>5 DEF Reaches
  <2>4. PICK x \in Live(D[n]) : x.name = p[n] /\ x.dir /\ x.start >= 2 /\ D[n + 1] = x.start
    BY <2>1, <2>3 DEF Leads
  <2> DEFINE q == Front(p)
  <2>5. q \in Seq(STRING) /\ Len(q) = n /\ \A j \in 1..n : q[j] = p[j]
    BY <2>1, <2>2 DEF Front
  <2> HIDE DEF q
  <2>6. Leads(q, n, D)
    <3>1. ASSUME NEW j \in 1..(n - 1)
          PROVE  \E y \in Live(D[j]) : y.name = q[j] /\ y.dir /\ y.start >= 2 /\ D[j + 1] = y.start
      <4>1. \E y \in Live(D[j]) : y.name = p[j] /\ y.dir /\ y.start >= 2 /\ D[j + 1] = y.start
        BY <2>1, <2>3 DEF Leads
      <4>2. q[j] = p[j]
        BY <2>1, <2>5
      <4> QED BY <4>1, <4>2
    <3>2. D \in [Nat -> 0..Over] /\ D[1] = volume.root
      BY <2>3 DEF Leads
    <3> QED BY <3>1, <3>2 DEF Leads
  <2>7. x.name = q[n]
    BY <2>1, <2>4, <2>5
  <2>8. Reaches(q, x, n - 1)
    BY <2>1, <2>4, <2>5, <2>6, <2>7 DEF Reaches
  <2>9. <<q, x>> \in f[n - 1]
    BY <1>5, <2>8
  <2>10. e.name \in STRING
    <3>1. D[n + 1] \in 0..Over
      BY <2>1, <2>3 DEF Leads
    <3>2. e \in DirEntry
      BY <2>3, <3>1, DistinctApart
    <3> QED BY <3>2 DEF DirEntry
  <2>11. p = Append(q, e.name)
    <3>1. /\ Append(q, e.name) \in Seq(STRING) /\ Len(Append(q, e.name)) = n + 1
          /\ (\A j \in 1..n : Append(q, e.name)[j] = q[j]) /\ Append(q, e.name)[n + 1] = e.name
      BY <2>5, <2>10, AppendProperties
    <3>2. \A j \in 1..(n + 1) : j \in 1..n \/ j = n + 1
      BY <2>1
    <3>3. \A j \in 1..Len(p) : p[j] = Append(q, e.name)[j]
      BY <2>2, <2>5, <3>1, <3>2
    <3> QED BY <2>2, <3>1, <3>3, SeqEqual
  <2>12. <<p, e>> \in Deeper(f[n - 1])
    <3> DEFINE r == <<q, x>>
    <3>1. r \in f[n - 1] /\ r[2].dir /\ r[2].start >= 2 /\ e \in Live(r[2].start) /\ p = Append(r[1], e.name)
      BY <2>3, <2>4, <2>9, <2>11
    <3> HIDE DEF r
    <3> QED BY <3>1 DEF Deeper
  <2> QED BY <1>1, <2>12
<1>6. ASSUME NEW n \in Nat \ {0}, n - 1 \in S PROVE n \in S
  BY <1>4, <1>5, <1>6
<1> HIDE DEF S
<1>7. \A n \in 0..N : n \in S
  <2>1. \A n \in 1..N : n \in Nat \ {0}
    OBVIOUS
  <2>2. \A n \in 1..N : n - 1 \in S => n \in S
    BY <1>6, <2>1
  <2> QED BY <1>3, <2>2, UpTo
<1> QED BY <1>7 DEF S

\* The live paths are the paths of live entries.
LEMMA LivePathsAre ==
  ASSUME DirVolumeOK, AllDistinct, volume.root \in 0..Over
  PROVE  \A p : p \in LivePaths <=> LivePath(p)
<1> DEFINE f == Reached(volume.root)
<1>1. MaxDepth \in Nat
  BY DirectoryAssumption
<1>2. Deepens(f, volume.root)
  BY ReachedDeepens
<1> HIDE DEF f
<1>3. \A n \in 0..MaxDepth : \A p, e : <<p, e>> \in f[n] <=> Reaches(p, e, n)
  BY <1>1, <1>2, ReachedIs
<1>4. \A n \in 0..MaxDepth : f[n] \in SUBSET Places
  <2>1. \A n \in 0..MaxDepth : n \in Nat
    BY <1>1
  <2> QED BY <1>2, <2>1 DEF Deepens
<1>5. ASSUME NEW p PROVE p \in LivePaths <=> \E n \in 0..MaxDepth : \E e : <<p, e>> \in f[n]
  <2>1. p \in LivePaths <=> \E n \in 0..MaxDepth : \E r \in f[n] : p = r[1]
    BY DEF LivePaths, f
  <2>2. \A n \in 0..MaxDepth : \A r \in f[n] : r = <<r[1], r[2]>>
    BY <1>4 DEF Places
  <2>3. ASSUME NEW n \in 0..MaxDepth, NEW r \in f[n], p = r[1] PROVE \E e : <<p, e>> \in f[n]
    <3>1. r = <<p, r[2]>>
      BY <2>2, <2>3
    <3>2. <<p, r[2]>> \in f[n]
      BY <3>1
    <3> QED BY <3>2
  <2>4. ASSUME NEW n \in 0..MaxDepth, NEW e, <<p, e>> \in f[n] PROVE \E r \in f[n] : p = r[1]
    <3>1. <<p, e>>[1] = p
      OBVIOUS
    <3> QED BY <2>4, <3>1
  <2> QED BY <2>1, <2>3, <2>4
<1>6. ASSUME NEW p PROVE LivePath(p) <=> \E n \in 0..MaxDepth : \E e : Reaches(p, e, n)
  <2>1. ASSUME LivePath(p) PROVE \E n \in 0..MaxDepth : \E e : Reaches(p, e, n)
    <3>1. PICK n \in 0..MaxDepth : Len(p) = n + 1
      <4>1. Len(p) \in 1..(MaxDepth + 1)
        BY <2>1 DEF LivePath
      <4>2. Len(p) - 1 \in 0..MaxDepth /\ Len(p) = (Len(p) - 1) + 1
        BY <1>1, <4>1
      <4> QED BY <4>2
    <3> QED BY <2>1, <3>1 DEF LivePath, Reaches
  <2>2. ASSUME NEW n \in 0..MaxDepth, NEW e, Reaches(p, e, n) PROVE LivePath(p)
    <3>1. n + 1 \in 1..(MaxDepth + 1)
      BY <1>1
    <3> QED BY <2>2, <3>1 DEF LivePath, Reaches
  <2> QED BY <2>1, <2>2
<1> QED BY <1>3, <1>5, <1>6

-----------------------------------------------------------------------------

\* Where a walk is: what is listed and what is to come is all there is.
WalkInv ==
  /\ volume.root \in 0..Over
  /\ step = "idle" /\ reports = <<>> /\ files = <<>>
  /\ AllDistinct => WalkOf(stack, listed)

\* With no call at work everything is listed, once.
LEMMA WalkedRight == DirVolumeOK /\ WalkInv => WalkIsComplete /\ WalkListsOnce
<1> SUFFICES ASSUME DirVolumeOK, WalkInv, Walked, AllDistinct
             PROVE  Range(listed) = LivePaths /\ Len(listed) = Cardinality(Range(listed))
  BY DEF WalkIsComplete, WalkListsOnce, AllDistinct
<1>1. PICK P, C : Walking(stack, P, C) /\ Listing(listed, stack, P)
  BY DEF WalkInv, WalkOf
<1>2. 1..Len(stack) = {}
  BY DEF Walked
<1>3. \A p : ~Pending(stack, P, p)
  BY <1>2 DEF Pending
<1>4. \A p : p \in Range(listed) <=> LivePath(p)
  BY <1>1, <1>3 DEF Listing
<1>5. \A p : p \in LivePaths <=> LivePath(p)
  BY LivePathsAre DEF WalkInv
<1>6. Range(listed) = LivePaths
  BY <1>4, <1>5
<1>7. listed \in Seq(Seq(STRING)) /\ \A j, k \in 1..Len(listed) : j # k => listed[j] # listed[k]
  BY <1>1 DEF Listing
<1>8. Cardinality(Range(listed)) = Len(listed)
  BY <1>7, CountDistinct
<1> QED BY <1>6, <1>8

\* A walk starts with everything to come.
LEMMA WalkStarts == WalkInit => DirVolumeOK /\ WalkInv
<1> SUFFICES ASSUME WalkInit PROVE DirVolumeOK /\ WalkInv
  OBVIOUS
<1>1. /\ volume \in Trees /\ step = "idle" /\ reports = <<>> /\ files = <<>>
      /\ stack = <<Frame(volume.root, <<>>)>> /\ listed = <<>>
  BY DEF WalkInit
<1>2. DirVolumeOK
  BY <1>1, DirectoryAssumption DEF DirVolumeOK, TableOK
<1>3. volume.root \in 0..Over
  BY <1>1, DirectoryAssumption, FatAssumption DEF DataClusters, Over
<1>4. ASSUME AllDistinct PROVE WalkOf(stack, listed)
  <2> DEFINE root == volume.root
             g == Frame(root, <<>>)
             P == [j \in Nat |-> 0]
             C == [j \in Nat |-> root]
  <2>1. /\ ReadDirectory(root) \in Seq(DirEntry) /\ Apart(ReadDirectory(root))
        /\ Live(root) = LiveIn(ReadDirectory(root))
    BY <1>2, <1>3, <1>4, DistinctApart
  <2>2. g \in CallType /\ g.rest = ReadDirectory(root) /\ g.visited = {} /\ g.path = <<>>
    BY <2>1 DEF Frame, CallType
  <2> HIDE DEF g
  <2>3. stack = <<g>>
    BY <1>1 DEF g
  <2>4. stack \in Seq(CallType) /\ Len(stack) = 1 /\ stack[1] = g
    BY <2>2, <2>3
  <2>5. P \in [Nat -> SomeName] /\ C \in [Nat -> 0..Over] /\ C[1] = root
    <3>1. 0 \in SomeName
      BY DEF SomeName
    <3> QED BY <1>3, <3>1
  <2> HIDE DEF P, C
  <2>6. 1..1 = {1} /\ 1..(1 - 1) = {} /\ 1 - 1 = 0 /\ Len(<<>>) = 0 /\ MaxDepth \in Nat /\ 1 <= MaxDepth + 1
    BY DirectoryAssumption
  <2>7. Leads(P, 1, C)
    BY <2>5, <2>6 DEF Leads
  <2>8. CallOK(g, 1, P, C)
    BY <2>1, <2>2, <2>5, <2>6 DEF CallOK
  <2>9. Walking(stack, P, C)
    BY <2>4, <2>5, <2>6, <2>7, <2>8 DEF Walking
  <2>10. ASSUME NEW p, LivePath(p) PROVE Pending(stack, P, p)
    <3>1. PICK n \in Nat : n = Len(p) /\ n >= 1
      BY <2>6, <2>10 DEF LivePath
    <3>2. PICK D : Leads(p, n, D) /\ \E e \in Live(D[n]) : e.name = p[n]
      BY <2>10, <3>1 DEF LivePath
    <3>3. D[1] = root
      BY <3>2 DEF Leads
    <3>4. \E e \in Live(D[1]) : e.name = p[1]
      <4>1. n = 1 \/ 1 \in 1..(n - 1)
        BY <3>1
      <4> QED BY <3>2, <4>1 DEF Leads
    <3>5. Leaves(g, 1, P, p)
      BY <2>1, <2>2, <2>6, <3>1, <3>3, <3>4 DEF Leaves
    <3> QED BY <2>4, <2>6, <3>5 DEF Pending
  <2>11. Listing(listed, stack, P)
    <3>1. listed \in Seq(Seq(STRING)) /\ Len(listed) = 0 /\ 1..0 = {} /\ DOMAIN listed = {}
      BY <1>1
    <3>2. Range(listed) = {}
      BY <3>1 DEF Range
    <3> QED BY <2>10, <3>1, <3>2 DEF Listing
  <2> QED BY <2>9, <2>11 DEF WalkOf
<1> QED BY <1>1, <1>2, <1>3, <1>4 DEF WalkInv

\* A volume without a table and directories has no paths.
LEMMA BlankWalked ==
  ASSUME volume = Blank, step = "idle", reports = <<>>, files = <<>>, stack = <<>>, listed = <<>>
  PROVE  DirVolumeOK /\ WalkInv
<1>1. volume.fat = <<>> /\ volume.slots = <<>> /\ volume.root = 2
  BY DEF Blank
<1>2. DOMAIN <<>> = {}
  OBVIOUS
<1>3. DirVolumeOK
  BY <1>1, <1>2 DEF DirVolumeOK, TableOK
<1>4. volume.root \in 0..Over
  BY <1>1, FatAssumption DEF Over
<1>5. ASSUME NEW c \in 0..Over PROVE Live(c) = {}
  <2> DEFINE n == OrbitLen(c)
             f == Orbit(c)
             seqs == [i \in 1..n |-> SlotsOf(f[i - 1])]
  <2>1. \A x : SlotsOf(x) = <<>>
    BY <1>1, <1>2 DEF SlotsOf
  <2>2. DirectorySlots(c) = FlattenSeq(seqs)
    BY DEF DirectorySlots
  <2>3. n \in Nat
    <3>1. n \in 0..(Top + 1)
      BY <1>3, OrbitLenRight DEF DirVolumeOK
    <3> QED BY <3>1, FatAssumption
  <2> HIDE DEF n, f
  <2>4. seqs \in Seq(Seq({}))
    <3> DEFINE T == Seq({})
    <3>1. <<>> \in T
      BY EmptySeq
    <3> HIDE DEF T
    <3>2. seqs \in Seq(T)
      BY <2>1, <2>3, <3>1
    <3> QED BY <3>2 DEF T
  <2> HIDE DEF seqs
  <2>5. FlattenSeq(seqs) \in Seq({})
    BY <2>4, FlattenType
  <2>6. \A s \in Seq({}) : s = <<>>
    <3> SUFFICES ASSUME NEW s \in Seq({}) PROVE s = <<>>
      OBVIOUS
    <3>1. Len(s) \in Nat /\ \A i \in 1..Len(s) : s[i] \in {}
      OBVIOUS
    <3>2. Len(s) = 0
      <4>1. Len(s) # 0 => 1 \in 1..Len(s)
        BY <3>1
      <4> QED BY <3>1, <4>1
    <3> QED BY <3>2, EmptySeq
  <2>7. DirectorySlots(c) = <<>>
    BY <2>2, <2>5, <2>6
  <2>8. ReadDirectory(c) = <<>>
    <3>1. <<>> \in Seq(SlotType) /\ Len(<<>>) = 0
      BY EmptySeq
    <3>2. PICK h : Parses(h, <<>>) /\ ParseEntries(<<>>) = h[Len(<<>>)].entries
      BY <3>1, ParseUnfolds
    <3> QED BY <2>7, <3>1, <3>2 DEF Parses, NoEntries, ReadDirectory
  <2> QED BY <2>8 DEF Live, Range
<1>6. \A p : ~LivePath(p)
  <2> SUFFICES ASSUME NEW p, LivePath(p) PROVE FALSE
    OBVIOUS
  <2>1. Len(p) \in Nat
    BY DEF LivePath
  <2>2. PICK D : D \in [Nat -> 0..Over] /\ Live(D[Len(p)]) # {}
    BY DEF LivePath, Leads
  <2> QED BY <1>5, <2>1, <2>2
<1>7. WalkOf(stack, listed)
  <2> DEFINE P == [j \in Nat |-> 0]
             C == [j \in Nat |-> volume.root]
  <2>1. P \in [Nat -> SomeName] /\ C \in [Nat -> 0..Over] /\ C[1] = volume.root
    <3>1. 0 \in SomeName
      BY DEF SomeName
    <3> QED BY <1>4, <3>1
  <2> HIDE DEF P, C
  <2>2. /\ stack \in Seq(CallType) /\ Len(stack) = 0 /\ 1..0 = {} /\ 1..(0 - 1) = {}
        /\ MaxDepth \in Nat /\ 0 <= MaxDepth + 1
    BY DirectoryAssumption, EmptySeq
  <2>3. Leads(P, 0, C)
    BY <2>1, <2>2 DEF Leads
  <2>4. Walking(stack, P, C)
    BY <2>1, <2>2, <2>3 DEF Walking
  <2>5. listed \in Seq(Seq(STRING)) /\ Len(listed) = 0 /\ DOMAIN listed = {}
    OBVIOUS
  <2>6. Range(listed) = {}
    BY <2>5 DEF Range
  <2>7. Listing(listed, stack, P)
    BY <1>6, <2>2, <2>5, <2>6 DEF Listing
  <2> QED BY <2>4, <2>7 DEF WalkOf
<1> QED BY <1>3, <1>4, <1>7 DEF WalkInv

-----------------------------------------------------------------------------
(* Part 6: volumes, whatever reads them.                                    *)

\* A probe that is off has said nothing and stays off.
LEMMA DetectionOffStays ==
  /\ DetectionOff => DetectionRight
  /\ DetectionOff /\ [DetectionNext]_detectionVars => DetectionOff'
<1>1. DetectionOff => DetectionRight
  <2>1. DetectionOff => candidate.size = 0 /\ DOMAIN probed = {} /\ Len(probed) = 0
    BY DEF DetectionOff
  <2> QED BY <2>1 DEF DetectionRight, FatAgrees, NtfsAgrees, DetectorEnds
<1>2. ASSUME DetectionOff, [DetectionNext]_detectionVars PROVE DetectionOff'
  <2>1. candidate.size = 0
    BY <1>2 DEF DetectionOff
  <2>2. ~(candidate.size > 0)
    BY <2>1
  <2>3. UNCHANGED detectionVars
    BY <1>2, <2>2 DEF DetectionNext
  <2> QED BY <1>2, <2>3 DEF DetectionOff, detectionVars
<1> QED BY <1>1, <1>2

\* What holds of a volume, whatever reads it.
VolumeInv == DirVolumeOK /\ ((FatInv /\ DirIdle) \/ WalkInv)

\* It holds at the start of each reader.
LEMMA VolumeStarts ==
  /\ FatInit /\ DirIdle => VolumeInv
  /\ WalkInit => VolumeInv
  /\ FatOff /\ DirIdle => VolumeInv
<1>1. ASSUME FatInit, DirIdle PROVE VolumeInv
  <2>1. volume \in Volumes
    BY <1>1 DEF FatInit
  <2>2. DirVolumeOK
    BY <2>1, DirectoryAssumption DEF DirVolumeOK, TableOK
  <2> QED BY <1>1, <2>2, FatStarts DEF VolumeInv
<1>2. WalkInit => VolumeInv
  BY WalkStarts DEF VolumeInv
<1>3. FatOff /\ DirIdle => VolumeInv
  BY BlankWalked DEF FatOff, DirIdle, VolumeInv
<1> QED BY <1>1, <1>2, <1>3

\* What a step may do to a volume.
VolumeStep == (FatNext /\ UNCHANGED dirVars) \/ WalkNext \/ UNCHANGED allVars

\* And every step keeps it.
LEMMA VolumeSteps == VolumeInv /\ VolumeStep => VolumeInv'
<1> SUFFICES ASSUME VolumeInv, VolumeStep PROVE VolumeInv'
  OBVIOUS
<1>1. WalkNext => UNCHANGED fatVars
  BY DEF WalkNext, SkipEntry, ListFile, ListOnly, Descend, Return
<1>2. volume' = volume
  <2>1. FatNext => volume' = volume
    BY DEF FatNext, Hop, Stop, Refuse, Begin, Recover, WriteFails, FatEnd
  <2> QED BY <1>1, <2>1 DEF VolumeStep, allVars, fatVars
<1>3. DirVolumeOK'
  BY <1>2 DEF VolumeInv, DirVolumeOK, TableOK
<1>4. CASE FatInv /\ DirIdle
  <2>1. ~WalkNext
    BY <1>4 DEF DirIdle, WalkNext, SkipEntry, ListFile, ListOnly, Descend, Return, More
  <2>2. [FatNext]_fatVars /\ UNCHANGED dirVars
    BY <2>1 DEF VolumeStep, allVars
  <2>3. FatInv'
    BY <1>4, <2>2, FatKeeps
  <2>4. DirIdle'
    BY <1>4, <2>2 DEF DirIdle, dirVars
  <2> QED BY <1>3, <2>3, <2>4 DEF VolumeInv
<1>5. CASE WalkInv
  <2>1. ~FatNext
    BY <1>5 DEF WalkInv, FatNext, Hop, Stop, Refuse, Begin, Recover, WriteFails, FatEnd
  <2>2. UNCHANGED fatVars
    BY <1>1, <2>1 DEF VolumeStep, allVars
  <2>3. /\ volume' = volume /\ (volume.root)' = volume.root /\ step' = step
        /\ reports' = reports /\ files' = files
    BY <2>2 DEF fatVars
  <2>4. AllDistinct' <=> AllDistinct
    <3>1. \A c : Distinct(c)' <=> Distinct(c)
      BY <1>2, SameEntries DEF Distinct
    <3> QED BY <3>1 DEF AllDistinct
  <2>5. ASSUME AllDistinct PROVE WalkOf(stack', listed')
    <3>1. WalkOf(stack, listed)
      BY <1>5, <2>5 DEF WalkInv
    <3>2. CASE WalkNext
      BY <2>5, <3>1, <3>2, WalkSteps DEF VolumeInv
    <3>3. CASE ~WalkNext
      BY <2>1, <3>1, <3>3 DEF VolumeStep, allVars, dirVars
    <3> QED BY <3>2, <3>3
  <2>6. \A s, l : WalkOf(s, l)' <=> WalkOf(s, l)
    <3>1. \A c : ReadDirectory(c)' = ReadDirectory(c) /\ Live(c)' = Live(c)
      BY <1>2, SameEntries
    <3>2. \A q, n, D : Leads(q, n, D)' <=> Leads(q, n, D)
      BY <2>3, <3>1 DEF Leads
    <3>3. \A p : LivePath(p)' <=> LivePath(p)
      BY <3>1, <3>2 DEF LivePath
    <3>4. \A f, i, P, C : CallOK(f, i, P, C)' <=> CallOK(f, i, P, C)
      BY <3>1 DEF CallOK
    <3>5. \A s, P, C : Walking(s, P, C)' <=> Walking(s, P, C)
      BY <3>2, <3>4 DEF Walking
    <3>6. \A l, s, P : Listing(l, s, P)' <=> Listing(l, s, P)
      BY <3>3 DEF Listing
    <3> QED BY <3>5, <3>6 DEF WalkOf
  <2>7. AllDistinct' => WalkOf(stack, listed)'
    <3>1. AllDistinct' => WalkOf(stack', listed')
      BY <2>4, <2>5
    <3> QED BY <2>6, <3>1
  <2>8. WalkInv'
    BY <1>5, <2>3, <2>7 DEF WalkInv
  <2> QED BY <1>3, <2>8 DEF VolumeInv
<1> QED BY <1>4, <1>5 DEF VolumeInv

\* It says that the files and the directories are right.
LEMMA VolumeInvRight == VolumeInv => UndeletedRight /\ DirectoriesRight
<1> SUFFICES ASSUME VolumeInv PROVE UndeletedRight /\ DirectoriesRight
  OBVIOUS
<1>1. LongNameBelongs
  BY LongNamesRight DEF VolumeInv
<1>2. CASE FatInv /\ DirIdle
  <2>1. UndeletedRight
    BY <1>2, ChainRight, PlacesRight DEF UndeletedRight, FatInv
  <2>2. ~Walked
    BY <1>2 DEF FatInv, Walked
  <2> QED BY <1>1, <2>1, <2>2 DEF DirectoriesRight, WalkIsComplete, WalkListsOnce
<1>3. CASE WalkInv
  <2>1. UndeletedRight
    <3>1. step = "idle" /\ DOMAIN reports = {} /\ DOMAIN files = {}
      BY <1>3 DEF WalkInv
    <3> QED BY <3>1 DEF UndeletedRight, ChainIsOrbit, RecoveredInPlace, SavedIsLatest
  <2> QED BY <1>1, <1>3, <2>1, WalkedRight DEF VolumeInv, DirectoriesRight
<1> QED BY <1>2, <1>3 DEF VolumeInv

\* Whatever the other readers of a volume do: a volume is taken for what its reader takes it
\* for, its deleted files are the bytes of their chains, and its directories are read and
\* walked as they were written.
THEOREM VolumesAreRight == MCSpec => []VolumesRight
<1> DEFINE Inv == (DetectionOff \/ DetectionInv) /\ VolumeInv
<1>1. MCInit => Inv
  <2>1. MCInit => DetectionOff \/ DetectionInit
    BY DEF MCInit
  <2>2. MCInit => (FatInit /\ DirIdle) \/ WalkInit \/ (FatOff /\ DirIdle)
    BY DEF MCInit
  <2> QED BY <2>1, <2>2, DetectionSteps, VolumeStarts
<1>2. Inv /\ [MCNext]_MCVars => Inv'
  <2>1. [MCNext]_MCVars => [DetectionNext]_detectionVars /\ VolumeStep
    BY DEF MCNext, Loops, MCVars, VolumeStep
  <2> QED BY <2>1, DetectionOffStays, DetectionSteps, VolumeSteps
<1>3. Inv => VolumesRight
  BY DetectionOffStays, SayingsRight, VolumeInvRight DEF VolumesRight
<1> HIDE DEF Inv
<1>4. MCSpec => []Inv
  BY <1>1, <1>2, PTL DEF MCSpec
<1> QED BY <1>3, <1>4, PTL

-----------------------------------------------------------------------------
(* Part 7: types of all of the readers.                                     *)

\* Appending an element makes a list one longer.
LEMMA OneLonger ==
  ASSUME NEW S, NEW s \in Seq(S), NEW e PROVE Len(Append(s, e)) = Len(s) + 1
<1>1. s \in Seq(S \union {e}) /\ e \in S \union {e}
  OBVIOUS
<1> QED BY <1>1, AppendProperties

\* What the recovery of files keeps.
FatTypes ==
  /\ TableOK /\ volume.targets \in Seq(Entry) /\ reports \in Seq(Reported)
  /\ FatTypeOK
  /\ step \in {"chain", "recover"} => at \in DOMAIN Targets

\* What is left of the entries of a call are entries.
WalkTypes == DirVolumeOK /\ stack \in Seq(CallType) /\ WalkTypeOK

\* Recovery of files keeps its types.
LEMMA FatTypesKept == FatTypes /\ [FatNext]_fatVars /\ reports' \in Seq(Reported) => FatTypes'
<1> SUFFICES ASSUME FatTypes, [FatNext]_fatVars, reports' \in Seq(Reported) PROVE FatTypes'
  OBVIOUS
<1>1. /\ TableOK /\ volume.targets \in Seq(Entry) /\ reports \in Seq(Reported)
      /\ step \in FatSteps /\ at \in 1..Len(Targets) + 1 /\ Len(reports) = at - 1
      /\ chain \in Seq(DataClusters) /\ cluster \in 0..Over /\ DOMAIN files \subseteq Range(OutputName)
      /\ step \in {"chain", "recover"} => at \in DOMAIN Targets
  BY DEF FatTypes, FatTypeOK
<1>2. volume' = volume /\ Targets' = Targets /\ TableOK'
  <2>1. volume' = volume
    BY DEF FatNext, Hop, Stop, Refuse, Begin, Recover, WriteFails, FatEnd, fatVars
  <2> QED BY <1>1, <2>1 DEF TableOK, Targets
<1>3. /\ Targets \in Seq(Entry) /\ Len(Targets) \in Nat /\ DOMAIN Targets = 1..Len(Targets)
      /\ \A i \in DOMAIN Targets : Targets[i] \in Entry
  BY <1>1, LenProperties, ElementOfSeq DEF Targets
<1>4. \A r : Len(Append(reports, r)) = Len(reports) + 1
  BY <1>1, OneLonger
<1>5. SUFFICES /\ step' \in FatSteps /\ at' \in 1..Len(Targets) + 1 /\ Len(reports') = at' - 1
               /\ chain' \in Seq(DataClusters) /\ cluster' \in 0..Over
               /\ DOMAIN files' \subseteq Range(OutputName)
               /\ step' \in {"chain", "recover"} => at' \in DOMAIN Targets
  BY <1>1, <1>2 DEF FatTypes, FatTypeOK, FatSteps, Over
<1>6. ASSUME NEW r, Answer(r), at \in DOMAIN Targets
      PROVE  at' \in 1..Len(Targets) + 1 /\ Len(reports') = at' - 1
  <2>1. reports' = Append(reports, r) /\ at' = at + 1
    BY <1>6 DEF Answer
  <2>2. Len(reports') = Len(reports) + 1
    BY <1>4, <2>1
  <2> QED BY <1>1, <1>3, <1>6, <2>1, <2>2
<1>7. CASE Hop
  <2>1. /\ step = "chain" /\ cluster \in DataClusters /\ chain' = Append(chain, cluster)
        /\ cluster' = NextCluster(cluster) /\ step' \in {"chain", "recover"} /\ UNCHANGED <<at, reports, files>>
    BY <1>7 DEF Hop, GoesOn
  <2>2. chain' \in Seq(DataClusters)
    BY <1>1, <2>1, AppendProperties
  <2> QED BY <1>1, <2>1, <2>2, NextIsValue DEF FatSteps
<1>8. CASE Stop \/ WriteFails \/ FatEnd
  <2>1. /\ step' \in {"recover", "aborted", "done"} /\ UNCHANGED <<at, reports, files, chain, cluster>>
        /\ step' = "recover" => step = "chain"
    BY <1>8 DEF Stop, WriteFails, FatEnd, walk
  <2> QED BY <1>1, <2>1 DEF FatSteps
<1>9. CASE Refuse
  <2>1. PICK r : Answer(r) /\ at \in DOMAIN Targets /\ step = "next" /\ UNCHANGED <<step, chain, cluster, files>>
    BY <1>9 DEF Refuse, walk
  <2> QED BY <1>1, <1>6, <2>1
<1>10. CASE Begin
  <2>1. /\ at \in DOMAIN Targets /\ step' = "chain" /\ chain' = <<>> /\ cluster' = Targets[at].start
        /\ UNCHANGED <<at, reports, files>>
    BY <1>10 DEF Begin
  <2>2. cluster' \in 0..Over /\ chain' \in Seq(DataClusters)
    BY <1>3, <2>1, EmptySeq DEF Entry
  <2> QED BY <1>1, <2>1, <2>2 DEF FatSteps
<1>11. CASE Recover
  <2> DEFINE r == Recovered(Targets[at])
  <2>1. /\ Answer(r) /\ Save(r) /\ at \in DOMAIN Targets /\ step' = "next" /\ UNCHANGED <<chain, cluster>>
    BY <1>1, <1>11 DEF Recover, walk
  <2>2. r.name = Targets[at].name /\ r.name \in DOMAIN OutputName
    BY <1>3, <2>1 DEF Recovered, Report, Entry
  <2> HIDE DEF r
  <2>3. OutputName[r.name] \in Range(OutputName)
    BY <2>2 DEF Range
  <2>4. DOMAIN files' \subseteq Range(OutputName)
    BY <1>1, <2>1, <2>3 DEF Save
  <2> QED BY <1>1, <1>6, <2>1, <2>4 DEF FatSteps
<1>12. CASE UNCHANGED fatVars
  BY <1>1, <1>12 DEF fatVars, walk
<1> QED BY <1>7, <1>8, <1>9, <1>10, <1>11, <1>12 DEF FatNext

\* The walk keeps its types: a call of level i has i - 1 names behind it.
LEMMA WalkTypesKept == WalkTypes /\ WalkNext => WalkTypes'
<1> SUFFICES ASSUME WalkTypes, WalkNext PROVE WalkTypes'
  OBVIOUS
<1> DEFINE m == Len(stack)
<1>1. /\ DirVolumeOK /\ stack \in Seq(CallType) /\ m \in Nat /\ m <= MaxDepth + 1 /\ DOMAIN stack = 1..m
      /\ \A i \in 1..m : /\ stack[i] \in CallType
                         /\ stack[i].visited \subseteq 2..Over /\ Len(stack[i].path) = i - 1
  BY LenProperties, ElementOfSeq DEF WalkTypes, WalkTypeOK
<1>2. volume' = volume /\ DirVolumeOK'
  <2>1. volume' = volume
    BY DEF WalkNext, SkipEntry, ListFile, ListOnly, Descend, Return, fatVars
  <2> QED BY <1>1, <2>1 DEF DirVolumeOK, TableOK
<1>3. Call = stack[m] /\ (stack # <<>> => m \in 1..m)
  <2>1. stack # <<>> => m # 0
    BY <1>1, EmptySeq
  <2> QED BY <1>1, <2>1 DEF Call, Last
<1>4. MaxDepth \in Nat /\ Over \in Nat
  BY DirectoryAssumption, FatAssumption DEF Over
<1> HIDE DEF m
<1>5. ASSUME More, NEW v \in SUBSET (2..Over)
      PROVE  /\ GoOn(v) \in Seq(CallType) /\ Len(GoOn(v)) = m
             /\ \A i \in 1..m : GoOn(v)[i].visited \subseteq 2..Over /\ Len(GoOn(v)[i].path) = i - 1
             /\ m \in 1..m /\ TopEntry \in DirEntry /\ Path(TopEntry) \in Seq(STRING)
             /\ Len(Path(TopEntry)) = m /\ Call.visited \subseteq 2..Over
  <2>1. m \in 1..m /\ stack[m] \in CallType /\ stack[m].rest # <<>> /\ Len(stack[m].path) = m - 1
    BY <1>1, <1>3, <1>5 DEF More
  <2>2. TopEntry \in DirEntry /\ Tail(stack[m].rest) \in Seq(DirEntry)
    BY <1>3, <2>1, TakeOne DEF TopEntry, CallType
  <2> DEFINE f == [stack[m] EXCEPT !.rest = Tail(stack[m].rest), !.visited = v]
  <2>3. f \in CallType /\ f.visited = v /\ f.path = stack[m].path
    BY <2>1, <2>2 DEF CallType
  <2> HIDE DEF f
  <2>4. GoOn(v) = [stack EXCEPT ![m] = f]
    BY <1>3 DEF GoOn, f, m
  <2>5. GoOn(v) \in Seq(CallType) /\ Len(GoOn(v)) = m
    <3>1. GoOn(v) = [i \in 1..m |-> IF i = m THEN f ELSE stack[i]]
      BY <1>1, <2>1, <2>4
    <3>2. \A i \in 1..m : (IF i = m THEN f ELSE stack[i]) \in CallType
      BY <1>1, <2>3
    <3> QED BY <1>1, <3>1, <3>2
  <2>6. \A i \in 1..m : GoOn(v)[i] = IF i = m THEN f ELSE stack[i]
    BY <1>1, <2>1, <2>4
  <2>7. Path(TopEntry) \in Seq(STRING) /\ Len(Path(TopEntry)) = m
    <3>1. TopEntry.name \in STRING /\ stack[m].path \in Seq(STRING)
      BY <2>1, <2>2 DEF DirEntry, CallType
    <3>2. Path(TopEntry) = Append(stack[m].path, TopEntry.name)
      BY <1>3 DEF Path
    <3> QED BY <1>1, <2>1, <3>1, <3>2, AppendProperties
  <2> QED BY <1>1, <1>3, <2>1, <2>2, <2>3, <2>5, <2>6, <2>7
<1>6. SUFFICES /\ stack' \in Seq(CallType) /\ Len(stack') <= MaxDepth + 1
               /\ \A i \in 1..Len(stack') : stack'[i].visited \subseteq 2..Over /\ Len(stack'[i].path) = i - 1
  <2>1. stack' \in Seq(CallType) => DOMAIN stack' = 1..Len(stack')
    BY LenProperties
  <2> QED BY <1>2, <2>1 DEF WalkTypes, WalkTypeOK, Over
<1>7. ASSUME More, NEW v \in SUBSET (2..Over), stack' = GoOn(v)
      PROVE  /\ stack' \in Seq(CallType) /\ Len(stack') <= MaxDepth + 1
             /\ \A i \in 1..Len(stack') : stack'[i].visited \subseteq 2..Over /\ Len(stack'[i].path) = i - 1
  BY <1>1, <1>5, <1>7 DEF m
<1>8. CASE SkipEntry \/ ListFile \/ ListOnly
  <2>1. More /\ stack' = GoOn(Call.visited)
    BY <1>8 DEF SkipEntry, ListFile, ListOnly
  <2>2. Call.visited \in SUBSET (2..Over)
    <3>1. stack # <<>>
      BY <2>1 DEF More
    <3> QED BY <1>1, <1>3, <3>1
  <2> QED BY <1>7, <2>1, <2>2
<1>9. CASE Descend
  <2> DEFINE v == Call.visited \union {TopEntry.start}
             g == Below(TopEntry)
  <2>1. /\ More /\ TopEntry.start >= 2
        /\ stack' = IF m > MaxDepth THEN GoOn(v) ELSE Append(GoOn(v), g)
    BY <1>9 DEF Descend, Followed, m
  <2>2. Call.visited \in SUBSET (2..Over)
    <3>1. stack # <<>>
      BY <2>1 DEF More
    <3> QED BY <1>1, <1>3, <3>1
  <2>3. TopEntry \in DirEntry /\ Path(TopEntry) \in Seq(STRING) /\ Len(Path(TopEntry)) = m
    BY <1>5, <2>1, <2>2
  <2>4. TopEntry.start \in 0..Over /\ v \in SUBSET (2..Over)
    BY <1>4, <2>1, <2>2, <2>3 DEF DirEntry
  <2>5. g \in CallType /\ g.visited = {} /\ g.path = Path(TopEntry)
    <3>1. ReadDirectory(TopEntry.start) \in Seq(DirEntry)
      BY <1>1, <2>4, DirectoryType
    <3> QED BY <2>3, <3>1 DEF Below, Frame, CallType
  <2> HIDE DEF v, g
  <2>6. CASE m > MaxDepth
    BY <1>7, <2>1, <2>4, <2>6
  <2>7. CASE ~(m > MaxDepth)
    <3>1. /\ GoOn(v) \in Seq(CallType) /\ Len(GoOn(v)) = m
          /\ \A i \in 1..m : GoOn(v)[i].visited \subseteq 2..Over /\ Len(GoOn(v)[i].path) = i - 1
      BY <1>5, <2>1, <2>4
    <3>2. /\ stack' \in Seq(CallType) /\ Len(stack') = m + 1
          /\ (\A i \in 1..m : stack'[i] = GoOn(v)[i]) /\ stack'[m + 1] = g
      BY <2>1, <2>5, <2>7, <3>1, AppendProperties
    <3>3. \A i \in 1..(m + 1) : i \in 1..m \/ i = m + 1
      BY <1>1
    <3>4. m + 1 <= MaxDepth + 1 /\ (m + 1) - 1 = m
      BY <1>1, <1>4, <2>7
    <3> QED BY <2>3, <2>5, <3>1, <3>2, <3>3, <3>4
  <2> QED BY <2>6, <2>7
<1>10. CASE Return
  <2>1. m \in 1..m /\ stack' = Front(stack)
    BY <1>3, <1>10 DEF Return
  <2>2. Front(stack) = SubSeq(stack, 1, m - 1)
    BY DEF Front, m
  <2>3. stack' \in Seq(CallType) /\ Len(stack') = m - 1 /\ \A i \in 1..(m - 1) : stack'[i] = stack[i]
    BY <1>1, <2>1, <2>2
  <2>4. m - 1 <= MaxDepth + 1 /\ \A i \in 1..(m - 1) : i \in 1..m
    BY <1>1, <1>4
  <2> QED BY <1>1, <2>3, <2>4
<1> QED BY <1>8, <1>9, <1>10 DEF WalkNext

\* A FAT volume is recovered from or walked, or nothing reads it.
FatShape == FatTypes /\ WalkTypes

\* It starts so, and every step keeps it.
LEMMA FatShapeKept ==
  /\ FatInit /\ DirIdle => FatShape
  /\ WalkInit => FatShape
  /\ FatOff /\ DirIdle => FatShape
  /\ FatShape /\ VolumeInv /\ VolumeInv' /\ VolumeStep => FatShape'
<1>1. /\ <<>> \in Seq(CallType) /\ <<>> \in Seq(DataClusters) /\ <<>> \in Seq(Reported) /\ <<>> \in Seq(Entry)
      /\ Len(<<>>) = 0 /\ DOMAIN <<>> = {} /\ 0 \in 0..Over /\ MaxDepth \in Nat
  BY DirectoryAssumption, FatAssumption, EmptySeq DEF Over
<1>2. ASSUME volume.targets \in Seq(Entry), step \in {"idle", "next"}, at = 1, chain = <<>>, cluster = 0,
             reports = <<>>, files = <<>>, DirVolumeOK
      PROVE  FatTypes
  <2>1. Len(Targets) \in Nat
    BY <1>2, LenProperties DEF Targets
  <2>2. FatTypeOK
    BY <1>1, <1>2, <2>1 DEF FatTypeOK, FatSteps
  <2> QED BY <1>1, <1>2, <2>2 DEF FatTypes, DirVolumeOK
<1>3. DirIdle /\ DirVolumeOK => WalkTypes
  BY <1>1 DEF DirIdle, WalkTypes, WalkTypeOK
<1>4. ASSUME FatInit, DirIdle PROVE FatShape
  <2>1. volume \in Volumes /\ DirVolumeOK
    BY <1>4, DirectoryAssumption DEF FatInit, DirVolumeOK, TableOK
  <2> QED BY <1>2, <1>3, <1>4, <2>1, FatAssumption DEF FatInit, FatShape
<1>5. ASSUME WalkInit PROVE FatShape
  <2>1. volume \in Trees /\ DirVolumeOK /\ volume.targets = <<>> /\ volume.root \in 0..Over
    BY <1>5, WalkStarts, DirectoryAssumption DEF WalkInit, WalkInv
  <2>2. FatTypes
    BY <1>1, <1>2, <1>5, <2>1 DEF WalkInit
  <2> DEFINE g == Frame(volume.root, <<>>)
  <2>3. g \in CallType /\ g.visited = {} /\ g.path = <<>>
    <3>1. ReadDirectory(volume.root) \in Seq(DirEntry) /\ <<>> \in Seq(STRING)
      BY <2>1, DirectoryType, EmptySeq
    <3> QED BY <3>1 DEF Frame, CallType
  <2>4. stack = <<g>>
    BY <1>5 DEF WalkInit
  <2> HIDE DEF g
  <2>5. stack \in Seq(CallType) /\ Len(stack) = 1 /\ DOMAIN stack = {1} /\ stack[1] = g
    BY <2>3, <2>4
  <2>6. WalkTypeOK
    BY <1>1, <2>3, <2>5 DEF WalkTypeOK
  <2> QED BY <2>1, <2>2, <2>5, <2>6 DEF WalkTypes, FatShape
<1>6. ASSUME FatOff, DirIdle PROVE FatShape
  <2>1. DirVolumeOK /\ volume.targets = <<>>
    BY <1>6, BlankWalked DEF FatOff, DirIdle, Blank
  <2> QED BY <1>1, <1>2, <1>3, <1>6, <2>1 DEF FatOff, FatShape
<1>7. ASSUME FatShape, VolumeInv, VolumeInv', VolumeStep PROVE FatShape'
  <2>1. DirVolumeOK' /\ reports' \in Seq(Reported)
    BY <1>1, <1>7 DEF VolumeInv, FatInv, WalkInv
  <2>2. CASE FatNext /\ UNCHANGED dirVars
    <3>1. FatTypes'
      BY <1>7, <2>1, <2>2, FatTypesKept DEF FatShape
    <3>2. WalkTypes'
      BY <1>7, <2>1, <2>2 DEF dirVars, FatShape, WalkTypes, WalkTypeOK
    <3> QED BY <3>1, <3>2 DEF FatShape
  <2>3. CASE WalkNext \/ UNCHANGED allVars
    <3>1. UNCHANGED fatVars
      BY <2>3 DEF WalkNext, SkipEntry, ListFile, ListOnly, Descend, Return, allVars
    <3>2. FatTypes'
      BY <1>7, <2>1, <3>1, FatTypesKept DEF FatShape
    <3>3. WalkTypes'
      <4>1. CASE WalkNext
        BY <1>7, <4>1, WalkTypesKept DEF FatShape
      <4>2. CASE UNCHANGED allVars
        BY <1>7, <2>1, <4>2 DEF allVars, dirVars, FatShape, WalkTypes, WalkTypeOK
      <4> QED BY <2>3, <4>1, <4>2
    <3> QED BY <3>2, <3>3 DEF FatShape
  <2> QED BY <1>7, <2>2, <2>3 DEF VolumeStep
<1> QED BY <1>4, <1>5, <1>6, <1>7

-----------------------------------------------------------------------------

\* The search of a journal counts no more than it may.
SearchTypes == journal.len \in Nat /\ UsnTypeOK

\* It is so from the beginning, and every step of the search keeps it.
LEMMA SearchTypesKept ==
  /\ UsnInit \/ (JournalOff /\ UsnOff) => SearchTypes
  /\ SearchTypes /\ UsnIdle /\ UsnOff /\ [UsnNext]_usnVars => SearchTypes'
  /\ SearchTypes /\ UsnInv /\ UsnInv' /\ [UsnNext]_usnVars => SearchTypes'
<1>1. MinRecord \in Nat \ {0} /\ \A n \in Nat : n \div MinRecord \in Nat
  BY JournalAssumption
<1>2. ASSUME journal.len \in Nat, ustep \in {"idle", "scan"}, UsnOff PROVE SearchTypes
  <2>1. MaxIterations \in Nat
    BY <1>1, <1>2 DEF MaxIterations
  <2> QED BY <1>2, <2>1 DEF UsnOff, SearchTypes, UsnTypeOK
<1>3. ASSUME UsnInit \/ (JournalOff /\ UsnOff) PROVE SearchTypes
  <2>1. journal.len \in Nat
    BY <1>3, JournalAssumption DEF UsnInit, JournalOff, NoJournal
  <2> QED BY <1>2, <1>3, <2>1 DEF UsnInit, JournalOff, UsnIdle
<1>4. ASSUME SearchTypes, UNCHANGED usnVars PROVE SearchTypes'
  BY <1>4 DEF SearchTypes, UsnTypeOK, usnVars, MaxIterations
<1>5. ASSUME SearchTypes, UsnIdle, [UsnNext]_usnVars PROVE SearchTypes'
  <2>1. ~UsnNext
    BY <1>5 DEF UsnNext, TakeRecord, SkipWord, Searching, ScanOver, MapOld, MapNew, MapOther, MapLeft, UsnIdle
  <2> QED BY <1>4, <1>5, <2>1
<1>6. ASSUME SearchTypes, UsnInv, UsnInv', UsnNext PROVE SearchTypes'
  <2>1. journal' = journal /\ journal \in Journals
    BY <1>6 DEF UsnNext, TakeRecord, SkipWord, ScanOver, MapOld, MapNew, MapOther, MapLeft, UsnInv, SearchInv
  <2>2. MaxIterations' = MaxIterations /\ MaxIterations \in Nat /\ journal.len \in Nat
    BY <1>1, <1>6, <2>1 DEF MaxIterations, SearchTypes
  <2>3. iterations \in 0..MaxIterations /\ upos \in 0..journal.len
    BY <1>6 DEF SearchTypes, UsnTypeOK
  <2>4. ustep' \in {"scan", "map", "done"} /\ at_record' \in 1..Len(found') + 1
    BY <1>6 DEF UsnInv, MapTypes
  <2>5. iterations' \in 0..MaxIterations /\ upos' \in 0..journal.len
    <3>1. CASE TakeRecord
      <4>1. RecordAt(upos) /\ iterations < MaxIterations /\ upos' = EndOf(upos) /\ iterations' = iterations + 1
        BY <3>1 DEF TakeRecord, Searching, EndOf
      <4>2. EndOf(upos) \in Nat /\ EndOf(upos) <= journal.len
        BY <2>1, <4>1, RecordInside
      <4> QED BY <2>2, <2>3, <4>1, <4>2
    <3>2. CASE SkipWord
      <4>1. upos + MinRecord <= journal.len /\ iterations < MaxIterations /\ upos' = upos + 1 /\ iterations' = iterations + 1
        BY <3>2 DEF SkipWord, Searching
      <4> QED BY <1>1, <2>2, <2>3, <4>1
    <3>3. CASE ~TakeRecord /\ ~SkipWord
      <4>1. UNCHANGED <<upos, iterations>>
        BY <1>6, <3>3 DEF UsnNext, ScanOver, MapOld, MapNew, MapOther, MapLeft
      <4> QED BY <2>3, <4>1
    <3> QED BY <3>1, <3>2, <3>3
  <2> QED BY <2>1, <2>2, <2>4, <2>5 DEF SearchTypes, UsnTypeOK
<1> QED BY <1>3, <1>4, <1>5, <1>6

-----------------------------------------------------------------------------

\* The states a file may be in.
FileStates == {"waiting", "open", "saved", "skipped", "failed", "listed", "passed"}

\* What the command over the master file table keeps: a file is listed once, when it is saved,
\* and as many threads at most as there are have one open.
MftTypes ==
  /\ table \in MftTables \/ mstep = "idle"
  /\ mstep \in {"idle", "walk", "recover", "raised", "done"}
  /\ mstep \in {"idle", "walk"} => MftOff
  /\ DOMAIN pool = DOMAIN chosen /\ \A i \in DOMAIN pool : pool[i] \in FileStates
  /\ recovered_list \in Seq(DOMAIN pool) /\ IsInjective(recovered_list)
  /\ \A k \in DOMAIN recovered_list : pool[recovered_list[k]] = "listed"
  /\ IsFiniteSet(Working) /\ (Working # {} => Cardinality(Working) <= table.threads)

\* They are types, as a number of threads is none without them.
LEMMA MftTypesRight == MftTypes => MftTypeOK
<1> SUFFICES ASSUME MftTypes PROVE MftTypeOK
  OBVIOUS
<1>1. Range(pool) \subseteq FileStates
  BY DEF MftTypes, Range
<1>2. Cardinality(Working) <= IF mstep = "idle" THEN 0 ELSE table.threads
  <2>1. CASE Working = {}
    <3>1. mstep # "idle" => table.threads \in Nat
      BY TableAssumption DEF MftTypes
    <3> QED BY <2>1, <3>1, FS_EmptySet
  <2>2. CASE Working # {}
    <3>1. mstep # "idle"
      BY <2>2 DEF MftTypes, MftOff, Working
    <3> QED BY <2>2, <3>1 DEF MftTypes
  <2> QED BY <2>1, <2>2
<1> QED BY <1>1, <1>2 DEF MftTypes, MftTypeOK, FileStates

\* Nothing is open at the start.
LEMMA MftTypesStart == MftInit \/ MftIdle => MftTypes
<1> SUFFICES ASSUME MftInit \/ MftIdle PROVE MftTypes
  OBVIOUS
<1>1. MftOff /\ mstep \in {"walk", "idle"} /\ (table \in MftTables \/ mstep = "idle")
  BY DEF MftInit, MftIdle
<1>2. DOMAIN pool = {} /\ DOMAIN chosen = {} /\ recovered_list = <<>> /\ DOMAIN recovered_list = {}
  BY <1>1 DEF MftOff
<1>3. recovered_list \in Seq(DOMAIN pool) /\ IsInjective(recovered_list) /\ Working = {}
  BY <1>2, EmptySeq DEF IsInjective, Working
<1> QED BY <1>1, <1>2, <1>3, FS_EmptySet DEF MftTypes

\* A file goes from one state to another one.
LEMMA FileMoves ==
  ASSUME MftTypes, NEW i \in DOMAIN pool, NEW state \in FileStates, MoveTo(i, state),
         UNCHANGED <<table, mstep, chosen>>, mstep \notin {"idle", "walk"},
         state = "open" => Cardinality(Working) < table.threads,
         \/ pool[i] # "listed" /\ state # "listed" /\ recovered_list' = recovered_list
         \/ pool[i] # "listed" /\ state = "listed" /\ recovered_list' = Append(recovered_list, i)
  PROVE  MftTypes'
<1> DEFINE n == Len(recovered_list)
<1>1. /\ DOMAIN pool' = DOMAIN pool /\ pool'[i] = state /\ \A j \in DOMAIN pool : j # i => pool'[j] = pool[j]
  BY DEF MoveTo
<1>2. DOMAIN pool' = DOMAIN chosen' /\ \A j \in DOMAIN pool' : pool'[j] \in FileStates
  BY <1>1 DEF MftTypes
<1>3. /\ recovered_list \in Seq(DOMAIN pool) /\ n \in Nat /\ DOMAIN recovered_list = 1..n
      /\ \A k \in 1..n : recovered_list[k] \in DOMAIN pool /\ pool[recovered_list[k]] = "listed"
      /\ \A k, l \in 1..n : recovered_list[k] = recovered_list[l] => k = l
  BY LenProperties, ElementOfSeq DEF MftTypes, IsInjective
<1>4. \A k \in 1..n : recovered_list[k] # i
  BY <1>3
<1>5. /\ recovered_list' \in Seq(DOMAIN pool') /\ IsInjective(recovered_list')
      /\ \A k \in DOMAIN recovered_list' : pool'[recovered_list'[k]] = "listed"
  <2>1. CASE recovered_list' = recovered_list
    BY <1>1, <1>3, <1>4, <2>1 DEF IsInjective
  <2>2. CASE state = "listed" /\ recovered_list' = Append(recovered_list, i)
    <3>1. /\ recovered_list' \in Seq(DOMAIN pool) /\ Len(recovered_list') = n + 1
          /\ (\A k \in 1..n : recovered_list'[k] = recovered_list[k]) /\ recovered_list'[n + 1] = i
      BY <1>3, <2>2, AppendProperties
    <3>2. DOMAIN recovered_list' = 1..(n + 1) /\ \A k \in 1..(n + 1) : k \in 1..n \/ k = n + 1
      BY <1>3, <3>1
    <3>3. \A k, l \in 1..(n + 1) : recovered_list'[k] = recovered_list'[l] => k = l
      BY <1>3, <1>4, <3>1, <3>2
    <3>4. \A k \in 1..(n + 1) : pool'[recovered_list'[k]] = "listed"
      BY <1>1, <1>3, <1>4, <2>2, <3>1, <3>2
    <3> QED BY <1>1, <3>1, <3>2, <3>3, <3>4 DEF IsInjective
  <2> QED BY <2>1, <2>2
<1>6. IsFiniteSet(Working') /\ (Working' # {} => Cardinality(Working') <= table.threads)
  <2>1. IsFiniteSet(Working) /\ (Working # {} => Cardinality(Working) <= table.threads)
    BY DEF MftTypes
  <2>2. CASE state = "open"
    <3>1. Working' = Working \union {i}
      BY <1>1, <2>2 DEF Working
    <3>2. IsFiniteSet(Working') /\ Cardinality(Working') <= Cardinality(Working) + 1 /\ Cardinality(Working) \in Nat
      <4>1. Cardinality(Working) \in Nat
        BY <2>1, FS_CardinalityType
      <4>2. /\ IsFiniteSet(Working \union {i})
            /\ \/ Cardinality(Working \union {i}) = Cardinality(Working)
               \/ Cardinality(Working \union {i}) = Cardinality(Working) + 1
        BY <2>1, FS_AddElement
      <4> QED BY <3>1, <4>1, <4>2
    <3>3. table.threads \in Nat
      BY TableAssumption DEF MftTypes
    <3>4. Cardinality(Working') \in Nat
      BY <3>2, FS_CardinalityType
    <3> QED BY <2>2, <3>2, <3>3, <3>4
  <2>3. CASE state # "open"
    <3>1. Working' \subseteq Working
      BY <1>1, <2>3 DEF Working
    <3>2. IsFiniteSet(Working') /\ Cardinality(Working') <= Cardinality(Working)
      BY <2>1, <3>1, FS_Subset
    <3>3. table.threads \in Nat /\ Cardinality(Working') \in Nat /\ Cardinality(Working) \in Nat
      BY <2>1, <3>2, TableAssumption, FS_CardinalityType DEF MftTypes
    <3> QED BY <2>1, <3>1, <3>2, <3>3
  <2> QED BY <2>2, <2>3
<1> QED BY <1>2, <1>5, <1>6 DEF MftTypes

\* Every step of the command keeps them.
LEMMA MftTypesKept == MftTypes /\ [MftNext]_mftVars => MftTypes'
<1> SUFFICES ASSUME MftTypes, [MftNext]_mftVars PROVE MftTypes'
  OBVIOUS
<1>1. CASE UNCHANGED mftVars
  BY <1>1 DEF mftVars, MftTypes, MftOff, Working
<1>2. CASE WalkRaises
  <2>1. mstep = "walk" /\ mstep' = "raised" /\ UNCHANGED <<table, records, chosen, pool, disk, recovered_list>>
    BY <1>2 DEF WalkRaises
  <2> QED BY <2>1 DEF MftTypes, Working
<1>3. CASE Walk
  <2>1. mstep = "walk" /\ mstep' \in {"done", "recover"} /\ UNCHANGED <<table, disk, recovered_list>>
    BY <1>3 DEF Walk
  <2>2. pool' = [i \in DOMAIN chosen' |-> "waiting"]
    BY <1>3 DEF Walk
  <2>3. recovered_list' = <<>> /\ DOMAIN recovered_list' = {}
    BY <2>1 DEF MftTypes, MftOff
  <2>4. recovered_list' \in Seq(DOMAIN pool') /\ IsInjective(recovered_list')
    BY <2>3, EmptySeq DEF IsInjective
  <2>5. Working' = {}
    BY <2>2 DEF Working
  <2> QED BY <2>1, <2>2, <2>3, <2>4, <2>5, FS_EmptySet DEF MftTypes, FileStates
<1>4. CASE RecoverOver
  <2>1. mstep = "recover" /\ mstep' = "done" /\ UNCHANGED <<table, records, chosen, pool, disk, recovered_list>>
    BY <1>4 DEF RecoverOver
  <2> QED BY <2>1 DEF MftTypes, Working
<1>5. ASSUME NEW i \in 1..MaxRecords, FileStep(i) PROVE MftTypes'
  <2>1. NextFile(i) => /\ i \in DOMAIN pool /\ pool[i] = "waiting" /\ mstep \notin {"idle", "walk"}
                       /\ Cardinality(Working) < table.threads
    BY DEF NextFile, Submitted
  <2>2. i \in Working => i \in DOMAIN pool /\ pool[i] = "open" /\ mstep \notin {"idle", "walk"}
    BY DEF Working, MftTypes, MftOff
  <2>3. CASE SkipFile(i)
    <3>1. /\ NextFile(i) /\ MoveTo(i, "skipped") /\ UNCHANGED <<table, mstep, chosen, recovered_list>>
      BY <2>3 DEF SkipFile
    <3> QED BY <2>1, <3>1, FileMoves DEF FileStates
  <2>4. CASE OpenFile(i)
    <3>1. /\ NextFile(i) /\ MoveTo(i, "open") /\ UNCHANGED <<table, mstep, chosen, recovered_list>>
      BY <2>4 DEF OpenFile
    <3> QED BY <2>1, <3>1, FileMoves DEF FileStates
  <2>5. CASE WriteFile(i)
    <3>1. i \in Working /\ MoveTo(i, "saved") /\ UNCHANGED <<table, mstep, chosen, recovered_list>>
      BY <2>5 DEF WriteFile
    <3> QED BY <2>2, <3>1, FileMoves DEF FileStates
  <2>6. CASE SaveFails(i)
    <3>1. i \in Working /\ MoveTo(i, "failed") /\ UNCHANGED <<table, mstep, chosen, recovered_list>>
      BY <2>6 DEF SaveFails
    <3> QED BY <2>2, <3>1, FileMoves DEF FileStates
  <2>7. CASE List(i)
    <3>1. /\ mstep = "recover" /\ i \in DOMAIN pool /\ pool[i] = "saved" /\ MoveTo(i, "listed")
          /\ recovered_list' = Append(recovered_list, i) /\ UNCHANGED <<table, mstep, chosen>>
      BY <2>7 DEF List
    <3> QED BY <3>1, FileMoves DEF FileStates
  <2>8. CASE Pass(i)
    <3>1. /\ mstep = "recover" /\ i \in DOMAIN pool /\ pool[i] = "skipped" /\ MoveTo(i, "passed")
          /\ UNCHANGED <<table, mstep, chosen, recovered_list>>
      BY <2>8 DEF Pass
    <3> QED BY <3>1, FileMoves DEF FileStates
  <2>9. CASE RecoverRaises(i)
    <3>1. mstep = "recover" /\ mstep' = "raised" /\ UNCHANGED <<table, records, chosen, pool, disk, recovered_list>>
      BY <2>9 DEF RecoverRaises
    <3> QED BY <3>1 DEF MftTypes, Working
  <2> QED BY <1>5, <2>3, <2>4, <2>5, <2>6, <2>7, <2>8, <2>9 DEF FileStep
<1> QED BY <1>1, <1>2, <1>3, <1>4, <1>5 DEF MftNext

-----------------------------------------------------------------------------

\* What was said of a volume is of one of these types.
LEMMA SayingsTyped == DetectionOff \/ DetectionInv => DetectionTypeOK
<1> DEFINE d == DetectFilesystem(candidate)
           f == FatInfo(candidate)
           n == NtfsInfo(candidate)
           T == {"unknown", "ext2/3/4", "NTFS", "exFAT", "FAT12", "FAT16", "FAT32", "raises", "refused"}
<1>1. d.type \in T
  <2> DEFINE ft == FatType(FatClusters(candidate))
  <2>1. ft \in T
    BY DEF FatType
  <2> HIDE DEF ft
  <2>2. CheckFat(candidate).type \in T
    BY <2>1 DEF CheckFat, Raises, Found, ft
  <2> QED BY <2>2 DEF DetectFilesystem, Raises, Found
<1>2. f.type \in T /\ n.type \in T
  BY DEF FatInfo, NtfsInfo, Raises
<1> HIDE DEF d, f, n, T
<1>3. ASSUME DetectionOff \/ DetectionInv PROVE Len(probed) \in 0..3 /\ \A i \in DOMAIN probed : probed[i].type \in T
  <2>1. probed \in {<<>>, <<d>>, <<d, f>>, <<d, f, n>>}
    BY <1>3 DEF DetectionOff, DetectionInv, Sayings, d, f, n
  <2> QED BY <1>1, <1>2, <2>1
<1> QED BY <1>3 DEF DetectionTypeOK, T

\* What is kept of each reader, on or off.
AllTypes ==
  /\ FatShape /\ VolumeInv
  /\ RunsOff \/ RunInv
  /\ SearchTypes /\ ((UsnIdle /\ UsnOff) \/ UsnInv)
  /\ LoggingOff \/ LogInv
  /\ MftTypes
  /\ DetectionOff \/ DetectionInv

\* Whatever they read, all of the readers of a volume keep their types and their bounds: no reader
\* has more than it was asked for, no search counts or goes further than it may, no walk is deeper
\* than max_depth, and no more files are open than there are threads.
THEOREM ReadersKeepTypes == MCSpec => []AllTypesOK
<1>1. MCInit => AllTypes
  <2> SUFFICES ASSUME MCInit PROVE AllTypes
    OBVIOUS
  <2>1. /\ (FatInit /\ DirIdle) \/ WalkInit \/ (FatOff /\ DirIdle)
        /\ RunsOff \/ RunInit
        /\ JournalOff \/ UsnInit
        /\ LoggingOff \/ LogInit
        /\ MftIdle \/ MftInit
        /\ DetectionOff \/ DetectionInit
    BY DEF MCInit, TableOff
  <2>2. FatShape /\ VolumeInv
    BY <2>1, FatShapeKept, VolumeStarts
  <2>3. SearchTypes /\ ((UsnIdle /\ UsnOff) \/ UsnInv)
    BY <2>1, SearchTypesKept, UsnStarts DEF JournalOff
  <2> QED BY <2>1, <2>2, <2>3, RunStarts, LogStarts, MftTypesStart, DetectionSteps DEF AllTypes
<1>2. AllTypes /\ [MCNext]_MCVars => AllTypes'
  <2> SUFFICES ASSUME AllTypes, [MCNext]_MCVars PROVE AllTypes'
    OBVIOUS
  <2>1. /\ VolumeStep /\ [RunNext]_runVars /\ [UsnNext]_usnVars /\ [LogNext]_logVars
        /\ [MftNext]_mftVars /\ [DetectionNext]_detectionVars
    BY DEF MCNext, Loops, MCVars, VolumeStep
  <2>2. VolumeInv' /\ FatShape'
    BY <2>1, VolumeSteps, FatShapeKept DEF AllTypes
  <2>3. (RunsOff \/ RunInv)'
    <3>1. CASE RunsOff
      <4>1. ~RunNext
        BY <3>1 DEF RunsOff, RunNext, Resolve, FillHole, ReadRun, SkipBefore, SeekFails, ReadChunk, ChunksOver,
                    RunEnd, Reading, RunIdle
      <4> QED BY <2>1, <3>1, <4>1 DEF runVars, RunsOff, RunIdle
    <3> QED BY <2>1, <3>1, RunSteps DEF AllTypes
  <2>4. ((UsnIdle /\ UsnOff) \/ UsnInv)' /\ SearchTypes'
    BY <2>1, OffStays, UsnSteps, SearchTypesKept DEF AllTypes
  <2>5. (LoggingOff \/ LogInv)'
    <3>1. CASE LoggingOff
      <4>1. ~LogNext
        BY <3>1 DEF LoggingOff, LogNext, FindPages, StartPage, Starting, ReadEntry, PassOver, Passing, LogOver, LogIdle
      <4> QED BY <2>1, <3>1, <4>1 DEF logVars, LoggingOff, LogIdle, LogOff
    <3> QED BY <2>1, <3>1, LogSteps DEF AllTypes
  <2>6. MftTypes' /\ (DetectionOff \/ DetectionInv)'
    BY <2>1, MftTypesKept, DetectionOffStays, DetectionSteps DEF AllTypes
  <2> QED BY <2>2, <2>3, <2>4, <2>5, <2>6 DEF AllTypes
<1>3. AllTypes => AllTypesOK
  <2> SUFFICES ASSUME AllTypes PROVE AllTypesOK
    OBVIOUS
  <2>1. FatTypeOK /\ WalkTypeOK /\ UsnTypeOK /\ MftTypeOK /\ DetectionTypeOK
    BY MftTypesRight, SayingsTyped DEF AllTypes, FatShape, FatTypes, WalkTypes, SearchTypes
  <2>2. RunTypeOK
    <3>1. CASE RunsOff
      <4>1. Limit = 12
        BY <3>1 DEF RunsOff, NoAttribute, Attribute, Limit
      <4> QED BY <3>1, <4>1 DEF RunsOff, RunIdle, RunTypeOK
    <3>2. CASE RunInv
      BY <3>2 DEF RunInv, RunTypes, RunTypeOK
    <3> QED BY <3>1, <3>2 DEF AllTypes
  <2>3. LogTypeOK
    <3>1. CASE LoggingOff
      BY <3>1 DEF LoggingOff, NoLog, LogIdle, LogOff, LogTypeOK
    <3>2. CASE LogInv
      BY <3>2 DEF LogInv, LogTypes, LogTypeOK
    <3> QED BY <3>1, <3>2 DEF AllTypes
  <2> QED BY <2>1, <2>2, <2>3 DEF AllTypesOK
<1>4. MCSpec => []AllTypes
  BY <1>1, <1>2, PTL DEF MCSpec
<1> QED BY <1>3, <1>4, PTL

\* The records of the master file table are found, read and saved as they are on the volume, whatever
\* else is read.
THEOREM RecordsAreRecovered == MCSpec => []MftRight
<1>1. MCInit => MftKept
  <2>1. MCInit => MftIdle \/ MftInit
    BY DEF MCInit, TableOff
  <2> QED BY <2>1 DEF MftIdle, MftInit, MftKept, MftWalked
<1>2. [MCNext]_MCVars => [MftNext]_mftVars
  BY DEF MCNext, Loops, MCVars
<1>3. MCSpec => []MftKept
  BY <1>1, <1>2, MftKeptSteps, PTL DEF MCSpec
<1> QED BY <1>3, MftKeptRight, PTL

=============================================================================
