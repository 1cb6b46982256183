------------------------------ MODULE Detection ------------------------------
(***************************************************************************)
(* What a volume is taken for: detect_filesystem                           *)
(* (core/filesystems/detector.py), which `devices` shows, and the readers  *)
(* that `fat32 info` and `ntfs info` start from                            *)
(* (fat32/boot_sector.py, ntfs/boot_sector.py).                            *)
(*                                                                         *)
(* A volume is its size and the fields of its first sector; an error that  *)
(* no except clause of the function names is the result "raises".          *)
(***************************************************************************)
EXTENDS Integers, Sequences, FiniteSets

CONSTANTS
    Candidates,             \* the volumes looked at
    Fat16From, Fat32From,   \* 4085 and 65525 clusters
    SectorSizes             \* those a FAT32 volume may have: 512, 1024, 2048, 4096

\* The fields of its first sectors and of its superblock, and how long it is.
VolumeType ==
    [size : Nat, ext : BOOLEAN, block : Nat, blocks : Nat, oem : STRING, jump : BOOLEAN, sector : Nat,
     shifted : Nat, cluster : Nat, reserved : Nat, fats : Nat, entries : Nat, total16 : Nat, total32 : Nat,
     fat16 : Nat, fat32 : Nat, total64 : Nat, root : Nat, mft : Nat, signed : BOOLEAN]

ASSUME DetectionAssumption ==
    /\ Fat16From \in Nat /\ Fat32From \in Nat /\ Fat16From < Fat32From /\ SectorSizes \subseteq Nat \ {0}
    /\ Candidates \subseteq VolumeType

VARIABLES
    candidate,      \* the volume
    probed          \* what detect_filesystem, fat32 info and ntfs info said of it

detectionVars == <<candidate, probed>>

DetectionInit == candidate \in Candidates /\ probed = <<>>
DetectionOff == candidate = [size |-> 0] /\ probed = <<>>

-----------------------------------------------------------------------------
(* detect_filesystem.                                                          *)

Raises == [type |-> "raises"]
Found(type, sector, sectors) == [type |-> type, sector |-> sector, total |-> sectors * sector]

\* _check_ext4: the magic is read at 1080, two bytes past the size asked for.
ExtEnds(v) == v.size \in 1080..1081
IsExt(v) == v.size >= 1082 /\ v.ext

\* _check_fat.  The 16-bit fields come first, and the root directory counts.
FatTotal(v) == IF v.total16 # 0 THEN v.total16 ELSE v.total32
FatSize(v) == IF v.fat16 # 0 THEN v.fat16 ELSE v.fat32
FatClusters(v) ==
    LET root == (v.entries * 32 + v.sector - 1) \div v.sector
        data == FatTotal(v) - (v.reserved + v.fats * FatSize(v) + root)
    IN  IF v.cluster > 0 THEN data \div v.cluster ELSE 0
FatTypePast(n) == IF n < Fat16From THEN "FAT12" ELSE IF n <= Fat32From THEN "FAT16" ELSE "FAT32"
FatType(n) == IF n < Fat16From THEN "FAT12" ELSE IF n < Fat32From THEN "FAT16" ELSE "FAT32"
CheckFat(v) ==
    IF v.sector = 0 THEN Raises ELSE Found(FatType(FatClusters(v)), v.sector, FatTotal(v))

DetectFilesystem(v) ==
    IF v.size < 512 THEN Found("unknown", 1, v.size)
    ELSE IF ExtEnds(v) THEN Raises
    ELSE IF IsExt(v) THEN Found("ext2/3/4", v.block, v.blocks)
    ELSE IF v.oem = "NTFS" THEN Found("NTFS", v.sector, v.total64)
    ELSE IF v.oem = "EXFAT" THEN Found("exFAT", v.shifted, v.total64)
    ELSE IF v.jump \/ v.oem = "FAT" THEN CheckFat(v)
    ELSE Found("unknown", 1, v.size)

-----------------------------------------------------------------------------
(* The readers: what `info` shows.  The issues are those of                    *)
(* validate_boot_sector; a volume they name is shown all the same.             *)

PowerOfTwo(n) == \E k \in 0..7 : n = 2 ^ k
ReadTotal(v) == IF v.total32 # 0 THEN v.total32 ELSE v.total16
ReadClusters(v) == (ReadTotal(v) - (v.reserved + v.fats * v.fat32)) \div v.cluster
Root(v) == IF v.root = 0 THEN 2 ELSE v.root

FatIssues(v) ==
    {i \in {"sector", "cluster", "fats", "root", "signature", "clusters"} :
        \/ i = "sector" /\ v.sector \notin SectorSizes
        \/ i = "cluster" /\ ~PowerOfTwo(v.cluster)
        \/ i = "fats" /\ v.fats \notin 1..2
        \/ i = "root" /\ Root(v) < 2
        \/ i = "signature" /\ ~v.signed
        \/ i = "clusters" /\ v.cluster # 0 /\ ReadClusters(v) < Fat32From}

\* total_clusters is shown after the issues: it divides by the cluster size.
FatInfo(v) ==
    IF v.size < 512 \/ v.fat32 = 0 THEN [type |-> "refused"]
    ELSE IF v.cluster = 0 THEN Raises
    ELSE [type |-> "FAT32", issues |-> FatIssues(v), clusters |-> ReadClusters(v),
          total |-> ReadTotal(v) * v.sector]

NtfsIssues(v) ==
    {i \in {"sector", "cluster", "signature", "mft", "total"} :
        \/ i = "sector" /\ v.sector \notin SectorSizes \cup {256}
        \/ i = "cluster" /\ ~PowerOfTwo(v.cluster)
        \/ i = "signature" /\ ~v.signed
        \/ i = "mft" /\ v.mft = 0
        \/ i = "total" /\ v.total64 = 0}
NtfsInfo(v) ==
    IF v.size < 512 \/ v.oem # "NTFS" THEN [type |-> "refused"]
    ELSE [type |-> "NTFS", issues |-> NtfsIssues(v), total |-> v.total64 * v.sector]

Probe == Len(probed) = 0 /\ probed' = <<DetectFilesystem(candidate)>> /\ UNCHANGED candidate
ReadFat == Len(probed) = 1 /\ probed' = Append(probed, FatInfo(candidate)) /\ UNCHANGED candidate
ReadNtfs == Len(probed) = 2 /\ probed' = Append(probed, NtfsInfo(candidate)) /\ UNCHANGED candidate
DetectionNext == candidate.size > 0 /\ (Probe \/ ReadFat \/ ReadNtfs)

-----------------------------------------------------------------------------
(* Properties.                                                                 *)

DetectionTypeOK ==
    /\ Len(probed) \in 0..3
    /\ \A i \in DOMAIN probed :
         probed[i].type \in {"unknown", "ext2/3/4", "NTFS", "exFAT", "FAT12", "FAT16", "FAT32", "raises", "refused"}

\* The detector and the FAT32 reader agree about a FAT32 volume with one total
\* and no FAT16 fields: it has the clusters, unless its table has no sectors,
\* and both tell the same size.
FatAgrees ==
    (Len(probed) >= 2 /\ candidate.entries = 0 /\ candidate.fat16 = 0 /\ 0 \in {candidate.total16, candidate.total32}) =>
        /\ (probed[1].type = "FAT32" /\ candidate.fat32 # 0) =>
               probed[2].type = "FAT32" /\ "clusters" \notin probed[2].issues /\ probed[2].total = probed[1].total
        /\ (probed[1].type \in {"FAT12", "FAT16"} /\ probed[2].type = "FAT32") => "clusters" \in probed[2].issues

\* The detector and the NTFS reader agree about every volume, but one that has
\* the magic of ext too.
NtfsAgrees ==
    (Len(probed) = 3 /\ probed[1].type # "raises" /\ ~IsExt(candidate)) =>
        /\ probed[1].type = "NTFS" <=> probed[3].type = "NTFS"
        /\ probed[1].type = "NTFS" => probed[3].total = probed[1].total

\* No volume of at least 1082 bytes stops the detector, but one that looks like
\* FAT with sectors of no bytes.
DetectorEnds ==
    (probed # <<>> /\ probed[1].type = "raises") =>
        \/ candidate.size \in 1080..1081
        \/ candidate.sector = 0 /\ candidate.oem \notin {"NTFS", "EXFAT"}

\* What a volume is taken for is what its reader takes it for.
DetectionRight == FatAgrees /\ NtfsAgrees /\ DetectorEnds
=============================================================================
