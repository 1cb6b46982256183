------------------------------ MODULE FatTable ------------------------------
(***************************************************************************)
(* Cluster chains of filesystems/fat32/fat_table.py, recovery of deleted   *)
(* files (fat32/recovery.py) and the loop of the fat32 recover command     *)
(* around them.  A byte of the image is its offset in the data area.       *)
(***************************************************************************)
EXTENDS Integers, Sequences, FiniteSets, SequencesExt

CONSTANTS
    Top,            \* the last valid data cluster, 0x0FFFFFF6
    ClusterSize,
    MaxHops,        \* the bound of the loop, 10_000_000
    OutputName,     \* the name of an entry, or its cluster -> the name of the saved file
    Volumes         \* the volumes to recover from, see FatAssumption

\* The values of an entry of the table: 0 is free, 1 is reserved, then data.
\* A start cluster comes from a directory with all its 32 bits: Over is one
\* that no masked value of the table can be.
Bad  == Top + 1
Eoc  == Top + 2
Over == Top + 3
DataClusters == 2..Top
Values == 0..Eoc

Entry == [name : DOMAIN OutputName, dir : BOOLEAN, start : 0..Over, size : Nat]

ASSUME FatAssumption ==
    /\ Top \in Nat \ {0, 1} /\ ClusterSize \in Nat \ {0} /\ MaxHops \in Nat
    /\ \A v \in Volumes :
        /\ DOMAIN v.fat \subseteq DataClusters  \* entries inside the image
        /\ \A c \in DOMAIN v.fat : v.fat[c] \in Values
        /\ v.bytes \in Nat                      \* of the data area, in the image
        /\ v.targets \in Seq(Entry)            \* the deleted files

VARIABLES
    volume,     \* the image; never written
    step,       \* where the command is, see FatSteps
    at,         \* the entry of targets it is at
    chain, cluster, status,     \* locals of read_cluster_chain
    reports,    \* what recover_deleted_file returned so far
    files       \* the output directory: name -> bytes

walk == <<chain, cluster, status>>
fatVars == <<volume, step, at, walk, reports, files>>

FatSteps == {"idle", "next", "chain", "recover", "done", "aborted"}
Targets == volume.targets

FatInit ==
    /\ volume \in Volumes
    /\ step = "next" /\ at = 1
    /\ chain = <<>> /\ cluster = 0 /\ status = "ok"
    /\ reports = <<>> /\ files = <<>>

-----------------------------------------------------------------------------
(* The volume *)

\* get_next_cluster; an entry outside the image ends the chain.
NextCluster(c) == IF c \in DOMAIN volume.fat THEN volume.fat[c] ELSE Eoc

\* read_cluster_data, short or empty past the end of the image.
ClusterData(c) ==
    LET first == (c - 2) * ClusterSize
        last  == IF first + ClusterSize <= volume.bytes THEN first + ClusterSize ELSE volume.bytes
    IN  [i \in 1..(IF last > first THEN last - first ELSE 0) |-> first + i - 1]

ChainData(clusters) == FlattenSeq([i \in DOMAIN clusters |-> ClusterData(clusters[i])])

-----------------------------------------------------------------------------
(* read_cluster_chain *)

Seen(c) == c \in Range(chain)

\* The loop goes on at a data cluster it has not been at.
GoesOn == Len(chain) < MaxHops /\ cluster \in DataClusters /\ ~Seen(cluster)

\* A free entry ends the chain behind the cluster that was just added.
Hop ==
    /\ step = "chain" /\ GoesOn
    /\ chain' = Append(chain, cluster)
    /\ cluster' = NextCluster(cluster)
    /\ IF cluster' = 0
       THEN status' = "zero_next" /\ step' = "recover"
       ELSE UNCHANGED <<status, step>>
    /\ UNCHANGED <<volume, at, reports, files>>

\* The order of the tests; "truncated_free" is never reached, as a free entry
\* behind a cluster is met by Hop.
StopStatus ==
    CASE Len(chain) >= MaxHops -> status
      [] cluster = Eoc -> status
      [] cluster = Bad -> "bad_cluster"
      [] cluster = 0 -> IF chain # <<>> THEN "truncated_free" ELSE "free_start"
      [] cluster \in {1, Over} -> "invalid_cluster"
      [] OTHER -> "loop_detected"

\* Mutant: the loop is left behind the last cluster of a chain only.
StopAtEnd ==
    /\ step = "chain" /\ cluster \notin DataClusters
    /\ status' = StopStatus
    /\ step' = "recover"
    /\ UNCHANGED <<volume, at, chain, cluster, reports, files>>

Stop ==
    /\ step = "chain" /\ ~GoesOn
    /\ status' = StopStatus
    /\ step' = "recover"
    /\ UNCHANGED <<volume, at, chain, cluster, reports, files>>

-----------------------------------------------------------------------------
(* recover_deleted_file, and save_recovered where there is data *)

Report(e, st, clusters, data) ==
    [entry |-> at, name |-> e.name, size |-> e.size, status |-> st, chain |-> clusters, data |-> data]

Answer(report) == reports' = Append(reports, report) /\ at' = at + 1

Refuse ==
    /\ step = "next" /\ at \in DOMAIN Targets
    /\ Targets[at].dir \/ Targets[at].start < 2
    /\ LET st == IF Targets[at].dir THEN "skipped_directory" ELSE "no_start_cluster"
       IN  Answer(Report(Targets[at], st, <<>>, <<>>))
    /\ UNCHANGED <<volume, step, walk, files>>

Begin ==
    /\ step = "next" /\ at \in DOMAIN Targets
    /\ ~Targets[at].dir /\ Targets[at].start >= 2
    /\ step' = "chain"
    /\ chain' = <<>> /\ cluster' = Targets[at].start /\ status' = "ok"
    /\ UNCHANGED <<volume, at, reports, files>>

\* Data is cut to the size of the entry, if it has one; the status of the
\* chain is in no report that has data.
Recovered(e) ==
    LET all  == ChainData(chain)
        data == IF e.size > 0 /\ Len(all) > e.size THEN SubSeq(all, 1, e.size) ELSE all
        st   == IF chain = <<>> THEN "empty_chain"
                ELSE IF e.size > 0 /\ Len(data) < e.size THEN "truncated"
                ELSE "recovered"
    IN  Report(e, st, chain, data)

\* A file without bytes is not written; one with bytes replaces any of its name.
Save(report) ==
    IF report.data = <<>> THEN UNCHANGED files
    ELSE files' = [n \in DOMAIN files \union {OutputName[report.name]} |->
                    IF n = OutputName[report.name] THEN report.data ELSE files[n]]

Recover ==
    /\ step = "recover"
    /\ LET report == Recovered(Targets[at]) IN Answer(report) /\ Save(report)
    /\ step' = "next"
    /\ UNCHANGED <<volume, walk>>

\* Nothing around the loop catches an error of write_bytes.
WriteFails ==
    /\ step = "recover"
    /\ Recovered(Targets[at]).data # <<>>
    /\ step' = "aborted"
    /\ UNCHANGED <<volume, at, walk, reports, files>>

FatEnd ==
    /\ step = "next" /\ at \notin DOMAIN Targets
    /\ step' = "done"
    /\ UNCHANGED <<volume, at, walk, reports, files>>

FatNext == Hop \/ Stop \/ Refuse \/ Begin \/ Recover \/ WriteFails \/ FatEnd

FatSpec == FatInit /\ [][FatNext]_fatVars
FairFatSpec == FatSpec /\ WF_fatVars(FatNext)

-----------------------------------------------------------------------------
(* Properties *)

\* Types.
FatTypeOK ==
    /\ step \in FatSteps
    /\ at \in 1..Len(Targets) + 1 /\ Len(reports) = at - 1
    /\ chain \in Seq(DataClusters) /\ cluster \in 0..Over
    /\ DOMAIN files \subseteq Range(OutputName)

\* The clusters met by following the table from a start, without a bound and
\* without a memory of where it has been.
Orbit(start) ==
    LET f[n \in Nat] ==
        IF n = 0 THEN start
        ELSE IF f[n - 1] \in DataClusters THEN NextCluster(f[n - 1]) ELSE f[n - 1]
    IN  f

\* Where a chain ends: at the first value that is no data cluster, or that
\* was met before.
OrbitLen(start) ==
    CHOOSE n \in 0..(Top + 1) :
        LET f == Orbit(start)
            Ends(k) == f[k] \notin DataClusters \/ \E j \in 0..(k - 1) : f[j] = f[k]
        IN  Ends(n) /\ \A k \in 0..(n - 1) : ~Ends(k)

\* A finished chain is all of the orbit of its start, in order and no cluster
\* twice, and its status tells how the orbit goes on.
ChainIsOrbit ==
    (step = "recover" /\ OrbitLen(Targets[at].start) < MaxHops) =>
        LET f == Orbit(Targets[at].start)
            n == OrbitLen(Targets[at].start)
        IN  /\ chain = [i \in 1..n |-> f[i - 1]]
            /\ f[n] \in DataClusters <=> status = "loop_detected"
            /\ f[n] = Eoc <=> status = "ok"
            /\ f[n] = 0 <=> status \in {"zero_next", "free_start"}

\* Where byte i of a file is, by its chain.
FileByte(clusters, i) ==
    (clusters[1 + ((i - 1) \div ClusterSize)] - 2) * ClusterSize + ((i - 1) % ClusterSize)

WholeClusters(clusters) ==
    \A i \in 1..(Len(clusters) - 1) : Len(ClusterData(clusters[i])) = ClusterSize

\* No file repeats a byte of the image, no file is longer than its entry says,
\* and unless the image cuts a cluster before the last, every byte is at its
\* place in the file.
RecoveredInPlace ==
    \A i \in DOMAIN reports :
        LET r == reports[i]
        IN  /\ Cardinality(Range(r.data)) = Len(r.data)
            /\ r.size > 0 => Len(r.data) <= r.size
            /\ WholeClusters(r.chain) => \A k \in DOMAIN r.data : r.data[k] = FileByte(r.chain, k)

Named(n) == {i \in DOMAIN reports : reports[i].data # <<>> /\ OutputName[reports[i].name] = n}

\* The output directory holds the last file recovered under each name, and
\* nothing that was recovered is replaced by a file without bytes.
SavedIsLatest ==
    /\ \A n \in DOMAIN files : \E i \in Named(n) :
        files[n] = reports[i].data /\ \A j \in Named(n) : j <= i
    /\ \A i \in DOMAIN reports : reports[i].data # <<>> => OutputName[reports[i].name] \in DOMAIN files

\* Undeleting reads the right chains, puts their bytes in place and keeps them.
UndeletedRight == ChainIsOrbit /\ RecoveredInPlace /\ SavedIsLatest

\* Every chain ends, whatever the table holds, and the command with it.
FatEnds == <>(step \in {"idle", "done", "aborted"})
=============================================================================
