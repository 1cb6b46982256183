--------------------------- MODULE ThreadedProofs ---------------------------
(***************************************************************************)
(* Proofs about ThreadedScanner: the regions cover the source, the locals  *)
(* of a thread stay in its region whatever the shared handle does, and the *)
(* merged files ascend without sharing a byte.                             *)
(***************************************************************************)
EXTENDS ThreadedScanner, CarvingProofs

-----------------------------------------------------------------------------
(* _partition                                                                *)

\* A chunk is no shorter than the overlap.
LEMMA ChunkRight ==
  ASSUME NEW n \in Nat, NEW t \in Nat \ {0}, NEW o \in Nat \ {0}
  PROVE  ChunkOf(n, t, o) \in Nat /\ ChunkOf(n, t, o) >= o
<1>1. n \div t \in Nat
  OBVIOUS
<1> QED BY <1>1 DEF ChunkOf

\* Where the chunks begin.
LEMMA Products ==
  ASSUME NEW c \in Nat \ {0}, NEW i \in Nat, NEW j \in Nat
  PROVE  /\ i * c \in Nat /\ i <= i * c
         /\ (i + 1) * c = i * c + c
         /\ i <= j => i * c <= j * c
<1>1. i * c \in Nat /\ j * c \in Nat /\ (i + 1) * c = i * c + c
  OBVIOUS
<1>2. i <= i * c
  OBVIOUS
<1>3. ASSUME i <= j PROVE i * c <= j * c
  <2>1. PICK d \in Nat : j = i + d
    BY <1>3
  <2>2. j * c = i * c + d * c /\ d * c \in Nat
    BY <2>1
  <2> QED BY <1>1, <2>2
<1> QED BY <1>1, <1>2, <1>3

\* Every span of one byte more than the overlap lies inside one region: the last
\* one that begins at or before it.
LEMMA Covers ==
  ASSUME NEW n \in Nat, NEW t \in Nat \ {0}, NEW o \in Nat \ {0}, NEW s \in 0..n - 1
  PROVE  \E r \in Regions(n, t, o) : r.start <= s /\ Lesser(s + o + 1, n) <= r.end
<1>0. n # 0 /\ Lesser(s + o + 1, n) <= n
  BY DEF Lesser
<1>1. CASE t = 1 \/ n < 2 * o
  <2>1. [id |-> 0, start |-> 0, end |-> n] \in Regions(n, t, o)
    BY <1>0, <1>1 DEF Regions
  <2> QED BY <1>0, <2>1
<1>2. CASE ~(t = 1 \/ n < 2 * o)
  <2> DEFINE c == ChunkOf(n, t, o)
  <2>1. c \in Nat \ {0} /\ c >= o
    BY ChunkRight
  <2> HIDE DEF c
  <2> DEFINE Before == {j \in 0..t - 1 : j * c <= s}
  <2>2. PICK i \in Before : \A j \in Before : i >= j
    <3>1. 0 \in Before
      BY <2>1
    <3>2. Before \in SUBSET Nat /\ t \in Nat /\ \A j \in Before : j <= t
      OBVIOUS
    <3> HIDE DEF Before
    <3> QED BY <3>1, <3>2, GreatestNatural
  <2>3. i \in 0..t - 1 /\ i * c <= s /\ i * c \in Nat /\ i * c < n
    BY <2>1, <2>2
  <2>4. [id |-> i, start |-> i * c, end |-> RegionEndOf(n, t, o, i)] \in Regions(n, t, o)
    BY <1>0, <1>2, <2>3 DEF Regions, c
  <2>5. CASE i = t - 1
    <3>1. RegionEndOf(n, t, o, i) = n
      BY <2>5 DEF RegionEndOf
    <3> QED BY <1>0, <2>3, <2>4, <3>1
  <2>6. CASE i < t - 1
    <3>1. (i + 1) * c > s
      <4>1. i + 1 \notin Before /\ i + 1 \in 0..t - 1
        BY <2>2, <2>3, <2>6
      <4>2. (i + 1) * c \in Int
        BY <2>1, <2>3
      <4> QED BY <4>1, <4>2
    <3>2. (i + 1) * c = i * c + c
      BY <2>1, <2>3, Products
    <3>3. RegionEndOf(n, t, o, i) = Lesser(i * c + c + o, n)
      BY <2>6 DEF RegionEndOf, c
    <3>4. Lesser(s + o + 1, n) <= Lesser(i * c + c + o, n)
      BY <2>1, <2>3, <3>1, <3>2 DEF Lesser
    <3> QED BY <2>3, <2>4, <3>3, <3>4
  <2> QED BY <2>3, <2>5, <2>6
<1> QED BY <1>1, <1>2

\* The source and the settings a thread never changes.
SetupRight ==
  /\ source \in Seq(Byte) /\ region_carvers \in Seq(Kinds)
  /\ num_threads \in Nat \ {0} /\ region_overlap \in Nat \ {0} /\ faults \in BOOLEAN

\* A region lies inside the source.
LEMMA RegionBounds ==
  ASSUME NEW n \in Nat, NEW t \in Nat \ {0}, NEW o \in Nat \ {0}, NEW r \in Regions(n, t, o)
  PROVE  r.id \in Nat /\ r.start \in 0..n /\ r.end \in r.start..n
<1>1. CASE n = 0
  BY <1>1 DEF Regions
<1>2. CASE n # 0 /\ (t = 1 \/ n < 2 * o)
  BY <1>2 DEF Regions
<1>3. CASE n # 0 /\ ~(t = 1 \/ n < 2 * o)
  <2> DEFINE c == ChunkOf(n, t, o)
  <2>1. c \in Nat \ {0}
    BY ChunkRight
  <2>2. PICK i \in {j \in 0..t - 1 : j * ChunkOf(n, t, o) < n} :
            r = [id |-> i, start |-> i * ChunkOf(n, t, o), end |-> RegionEndOf(n, t, o, i)]
    BY <1>3 DEF Regions
  <2>3. i \in Nat /\ i * c < n /\ r.id = i /\ r.start = i * c /\ r.end = RegionEndOf(n, t, o, i)
    BY <2>2
  <2>4. RegionEndOf(n, t, o, i) = n \/ RegionEndOf(n, t, o, i) = Lesser(i * c + c + o, n)
    BY DEF RegionEndOf
  <2> HIDE DEF c
  <2>5. i * c \in Nat
    BY <2>1, <2>3
  <2> QED BY <2>1, <2>3, <2>4, <2>5 DEF Lesser
<1> QED BY <1>1, <1>2, <1>3

\* A region has the number it is asked for and lies within the source.
LEMMA RegionRight ==
  ASSUME SetupRight, NEW i \in RegionIds
  PROVE  /\ Region(i) \in regions /\ Region(i).id = i
         /\ Region(i).start \in 0..source_size /\ Region(i).end \in Region(i).start..source_size
<1>1. Region(i) \in regions /\ Region(i).id = i
  BY DEF RegionIds, Region
<1>2. source_size \in Nat /\ num_threads \in Nat \ {0} /\ region_overlap \in Nat \ {0}
  BY LenProperties DEF SetupRight, source_size
<1> QED BY <1>1, <1>2, RegionBounds DEF regions

\* The regions are numbered from 0 without a gap.
LEMMA IdsRight ==
  ASSUME SetupRight
  PROVE  \E m \in Nat : RegionIds = 0..m - 1 /\ Cardinality(RegionIds) = m
<1>1. source_size \in Nat /\ num_threads \in Nat \ {0} /\ region_overlap \in Nat \ {0}
  BY LenProperties DEF SetupRight, source_size
<1>2. SUFFICES \E m \in Nat : RegionIds = 0..m - 1
  <2>1. ASSUME NEW m \in Nat, RegionIds = 0..m - 1 PROVE Cardinality(RegionIds) = m
    <3>1. 0 \in Int /\ m - 1 \in Int
      OBVIOUS
    <3>2. Cardinality(0..m - 1) = IF 0 > m - 1 THEN 0 ELSE m - 1 - 0 + 1
      BY <3>1, FS_Interval
    <3> QED BY <2>1, <3>2
  <2> QED BY <2>1
<1>3. CASE source_size = 0
  <2>1. RegionIds = 0..0 - 1
    BY <1>3 DEF RegionIds, regions, Regions
  <2> QED BY <2>1
<1>4. CASE source_size # 0 /\ (num_threads = 1 \/ source_size < 2 * region_overlap)
  <2>1. regions = {[id |-> 0, start |-> 0, end |-> source_size]}
    BY <1>4 DEF regions, Regions
  <2>2. \A i : i \in RegionIds <=> i = 0
    BY <2>1 DEF RegionIds
  <2>3. RegionIds = 0..1 - 1
    BY <2>2
  <2> QED BY <2>3
<1>5. CASE source_size # 0 /\ ~(num_threads = 1 \/ source_size < 2 * region_overlap)
  <2> DEFINE c == ChunkOf(source_size, num_threads, region_overlap)
             Starts == {j \in 0..num_threads - 1 : j * c < source_size}
  <2>1. RegionIds = Starts
    <3>1. regions = {[id |-> i, start |-> i * c, end |-> RegionEndOf(source_size, num_threads, region_overlap, i)] :
                        i \in Starts}
      BY <1>5 DEF regions, Regions
    <3> HIDE DEF Starts, c
    <3>2. \A i \in RegionIds : i \in Starts
      BY <3>1 DEF RegionIds
    <3>3. ASSUME NEW i \in Starts PROVE i \in RegionIds
      <4> DEFINE r == [id |-> i, start |-> i * c, end |-> RegionEndOf(source_size, num_threads, region_overlap, i)]
      <4>1. r \in regions /\ r.id = i
        BY <3>1
      <4> HIDE DEF r
      <4> QED BY <4>1 DEF RegionIds
    <3> QED BY <3>2, <3>3
  <2>2. c \in Nat \ {0}
    BY <1>1, ChunkRight
  <2> HIDE DEF c
  <2>3. PICK top \in Starts : \A j \in Starts : top >= j
    <3>1. 0 \in Starts
      BY <1>1, <1>5, <2>2
    <3>2. Starts \in SUBSET Nat /\ num_threads \in Nat /\ \A j \in Starts : j <= num_threads
      BY <1>1
    <3> HIDE DEF Starts
    <3> QED BY <3>1, <3>2, GreatestNatural
  <2>4. Starts = 0..top
    <3>1. \A j \in Starts : j \in 0..top
      BY <1>1, <2>3
    <3>2. ASSUME NEW j \in 0..top PROVE j \in Starts
      <4>1. j \in Nat /\ top \in Nat /\ j <= top /\ top <= num_threads - 1 /\ top * c < source_size
        BY <1>1, <2>3
      <4>2. j * c <= top * c /\ j * c \in Nat /\ top * c \in Nat
        BY <2>2, <4>1, Products
      <4> QED BY <1>1, <4>1, <4>2
    <3> HIDE DEF Starts
    <3> QED BY <3>1, <3>2
  <2>5. top + 1 \in Nat /\ (top + 1) - 1 = top
    BY <1>1, <2>3
  <2> HIDE DEF Starts
  <2>6. RegionIds = 0..(top + 1) - 1
    BY <2>1, <2>4, <2>5
  <2> QED BY <2>5, <2>6
<1> QED BY <1>3, <1>4, <1>5

\* _partition covers the source in every state, whatever its size, the threads and
\* the overlap.
THEOREM ThreadedCover == ThreadSpec => []RegionsCover
<1>1. ThreadInit => SetupRight
  BY ThreadedAssumption DEF ThreadInit, SetupRight
<1>2. SetupRight /\ [ThreadNext]_threadVars => SetupRight'
  <2> SUFFICES ASSUME SetupRight, [ThreadNext]_threadVars PROVE SetupRight'
    OBVIOUS
  <2>1. UNCHANGED setup
    BY DEF threadVars, ThreadNext, Thread, SeekTo, ReadWindow, ReadNothing, ReadRaises, RegionEnd, Join
  <2> QED BY <2>1 DEF setup, SetupRight
<1>3. SetupRight => RegionsCover
  <2> SUFFICES ASSUME SetupRight, NEW s \in 0..source_size - 1
               PROVE  \E r \in regions : r.start <= s /\ Lesser(s + region_overlap + 1, source_size) <= r.end
    BY DEF RegionsCover
  <2>1. source_size \in Nat /\ num_threads \in Nat \ {0} /\ region_overlap \in Nat \ {0}
    BY LenProperties DEF SetupRight, source_size
  <2> QED BY <2>1, Covers DEF regions
<1> QED BY <1>1, <1>2, <1>3, PTL DEF ThreadSpec

-----------------------------------------------------------------------------
(* What one thread keeps                                                     *)

\* A carved file under the offsets a thread gives it: its place in a buffer that
\* may begin anywhere, moved by the start of the region.
MovedFile ==
  {f \in [kind : Kinds, start : Nat, end : Nat, data : Seq(Byte)] : f.start < f.end}

\* What a thread may hold of its region: files, and a last end within the region.
RegionReports(region) == [files : Seq(MovedFile), end : region.start..region.end]

\* A carved file that is moved is a file with bounds, moved by as much.
LEMMA MovedType ==
  ASSUME NEW base \in Nat, NEW data \in Seq(Byte), NEW f \in CarvedFile(data)
  PROVE  /\ Moved(base, f) \in MovedFile /\ f \in MovedFile
         /\ Moved(base, f).start = base + f.start /\ Moved(base, f).end = base + f.end
<1>1. f \in [kind : Kinds, start : Nat, end : Nat, data : Seq(Byte)] /\ f.start < f.end
  BY DEF CarvedFile
<1> DEFINE g == [f EXCEPT !.start = base + f.start]
<1>2. g \in [kind : Kinds, start : Nat, end : Nat, data : Seq(Byte)] /\ g.start = base + f.start
  BY <1>1
<1>3. Moved(base, f) = [g EXCEPT !.end = base + f.end]
  BY DEF Moved
<1> HIDE DEF g
<1>4. base + f.end \in Nat /\ base + f.start < base + f.end
  BY <1>1
<1>5. /\ Moved(base, f) \in [kind : Kinds, start : Nat, end : Nat, data : Seq(Byte)]
      /\ Moved(base, f).start = base + f.start /\ Moved(base, f).end = base + f.end
  BY <1>2, <1>3, <1>4
<1> QED BY <1>1, <1>4, <1>5 DEF MovedFile

\* Keep leaves the last end inside the region.
LEMMA KeepRight ==
  ASSUME NEW region, region.start \in Nat, region.end \in Nat, NEW found \in RegionReports(region),
         NEW data \in Seq(Byte), NEW result \in CarvedFile(data)
  PROVE  KeepInRegion(region, found, result) \in RegionReports(region)
<1> DEFINE file == Moved(region.start, result)
<1>1. file \in MovedFile
  BY MovedType
<1>2. KeepInRegion(region, found, result) =
        IF file.start < found.end \/ file.end > region.end THEN found
        ELSE [files |-> Append(found.files, file), end |-> file.end]
  BY DEF KeepInRegion, Moved
<1> HIDE DEF file
<1>3. found.files \in Seq(MovedFile) /\ found.end \in region.start..region.end
  BY DEF RegionReports
<1>4. CASE file.start < found.end \/ file.end > region.end
  BY <1>2, <1>4
<1>5. CASE ~(file.start < found.end \/ file.end > region.end)
  <2>1. file.start \in Nat /\ file.end \in Nat /\ file.start < file.end
    BY <1>1 DEF MovedFile
  <2>2. file.end \in region.start..region.end
    BY <1>3, <1>5, <2>1
  <2>3. Append(found.files, file) \in Seq(MovedFile)
    BY <1>1, <1>3, AppendProperties
  <2> QED BY <1>2, <1>5, <2>2, <2>3 DEF RegionReports
<1> QED BY <1>4, <1>5

\* The files of a window, one after the other.
KeepStep(region, results) ==
  [p \in (1..Len(results)) \X RegionReports(region) |-> KeepInRegion(region, p[2], results[p[1]])]

\* KeepEach takes the results one by one.
LEMMA KeepUnfolds ==
  ASSUME NEW region, region.start \in Nat, region.end \in Nat, NEW r \in RegionReports(region),
         NEW data \in Seq(Byte), NEW results \in Seq(CarvedFile(data))
  PROVE  \E h : /\ Recurs(h, Len(results), RegionReports(region), r, KeepStep(region, results))
                /\ KeepEachInRegion(region, r, results) = h[Len(results)]
<1> DEFINE n == Len(results)
           V == RegionReports(region)
           step == KeepStep(region, results)
           Equation(g) == g = [s \in SUBSET (1..n) |->
                                 IF s = {} THEN r ELSE KeepInRegion(region, g[s \ {Max(s)}], results[Max(s)])]
<1>1. n \in Nat /\ DOMAIN results = 1..n /\ \A i \in 1..n : results[i] \in CarvedFile(data)
  BY LenProperties, ElementOfSeq
<1>2. step \in [(1..n) \X V -> V]
  BY <1>1, KeepRight DEF KeepStep
<1>3. \A i \in 1..n, v \in V : step[<<i, v>>] = KeepInRegion(region, v, results[i])
  BY DEF KeepStep
<1> HIDE DEF n, V, step
<1>4. PICK g0 : Folds(g0, n, V, r, step)
  <2>1. r \in V
    BY DEF V
  <2> QED BY <1>1, <1>2, <2>1, FoldRecursion, Zenon
<1>5. Equation(g0)
  <2>1. g0 \in [SUBSET (1..n) -> V]
        /\ \A s \in SUBSET (1..n) : g0[s] = IF s = {} THEN r ELSE step[<<Max(s), g0[s \ {Max(s)}]>>]
    BY <1>4 DEF Folds
  <2>2. ASSUME NEW s \in SUBSET (1..n)
        PROVE  g0[s] = IF s = {} THEN r ELSE KeepInRegion(region, g0[s \ {Max(s)}], results[Max(s)])
    <3>1. s # {} => Max(s) \in 1..n
      BY <1>1, MaxRight
    <3>2. g0[s \ {Max(s)}] \in V
      BY <2>1
    <3> QED BY <1>3, <2>1, <3>1, <3>2
  <2> QED BY <2>1, <2>2
<1>6. PICK g : Equation(g) /\ KeepEachInRegion(region, r, results) = g[1..n]
  <2> HIDE DEF Equation
  <2>1. Equation(CHOOSE g : Equation(g))
    BY <1>5
  <2>2. KeepEachInRegion(region, r, results) = (CHOOSE g : Equation(g))[1..n]
    BY <1>1 DEF KeepEachInRegion, FoldLeft, MapThenFoldSet, Equation
  <2> QED BY <2>1, <2>2
<1>7. \A s \in SUBSET (1..n) :
        g[s] = IF s = {} THEN r ELSE KeepInRegion(region, g[s \ {Max(s)}], results[Max(s)])
  BY <1>6
<1> HIDE DEF Equation
<1> DEFINE h == [i \in 0..n |-> g0[1..i]]
<1>8. Recurs(h, n, V, r, step)
  BY <1>1, <1>4, FoldOrder
<1>9. h \in [0..n -> V] /\ h[0] = r /\ \A i \in 1..n : h[i] = step[<<i, h[i - 1]>>]
  BY <1>8 DEF Recurs
<1> HIDE DEF h
<1> DEFINE P == {i \in 0..n : g[1..i] = h[i]}
<1>10. 0 \in P
  <2>1. 1..0 = {} /\ 0 \in 0..n /\ {} \in SUBSET (1..n)
    BY <1>1
  <2>2. g[{}] = r
    BY <1>7, <2>1
  <2> QED BY <1>9, <2>1, <2>2
<1>11. ASSUME NEW i \in 1..n, i - 1 \in P PROVE i \in P
  <2>1. 1..i \in SUBSET (1..n) /\ 1..i # {} /\ Max(1..i) = i /\ (1..i) \ {i} = 1..(i - 1)
    BY <1>1, MaxUpTo
  <2>2. g[1..i] = KeepInRegion(region, g[1..(i - 1)], results[i])
    BY <1>7, <2>1
  <2>3. h[i - 1] \in V /\ g[1..(i - 1)] = h[i - 1]
    BY <1>1, <1>9, <1>11
  <2>4. g[1..i] = h[i]
    BY <1>3, <1>9, <2>2, <2>3
  <2> QED BY <1>1, <2>4
<1> HIDE DEF P
<1>12. n \in P
  <2>1. n \in Nat /\ n \in 0..n
    BY <1>1
  <2> QED BY <1>10, <1>11, <2>1, UpTo
<1>13. KeepEachInRegion(region, r, results) = h[n]
  BY <1>6, <1>12 DEF P
<1> QED BY <1>8, <1>13 DEF n, V, step

\* A thread that goes through a window's files keeps its last end within its region.
LEMMA KeepType ==
  ASSUME NEW region, region.start \in Nat, region.end \in Nat, NEW r \in RegionReports(region),
         NEW data \in Seq(Byte), NEW results \in Seq(CarvedFile(data))
  PROVE  KeepEachInRegion(region, r, results) \in RegionReports(region)
<1>1. PICK h : /\ Recurs(h, Len(results), RegionReports(region), r, KeepStep(region, results))
               /\ KeepEachInRegion(region, r, results) = h[Len(results)]
  BY KeepUnfolds
<1>2. Len(results) \in 0..Len(results)
  BY LenProperties
<1> QED BY <1>1, <1>2 DEF Recurs

-----------------------------------------------------------------------------
(* The merge                                                                 *)

\* Files that ascend without sharing a byte.
AscendingFiles == {files \in Seq(MovedFile) : Ascending(files)}

\* A file that is merged is dropped when it starts before the end of the last: the
\* merged files ascend.
LEMMA MergeRight ==
  ASSUME NEW kept \in AscendingFiles, NEW file \in MovedFile
  PROVE  Merge(kept, file) \in AscendingFiles
<1> DEFINE files == Append(kept, file)
           n == Len(kept)
<1>1. /\ kept \in Seq(MovedFile) /\ Ascending(kept)
      /\ file.start \in Nat /\ file.end \in Nat /\ file.start < file.end
  BY DEF AscendingFiles, MovedFile
<1>2. /\ files \in Seq(MovedFile) /\ n \in Nat /\ DOMAIN kept = 1..n /\ DOMAIN files = 1..(n + 1)
      /\ files[n + 1] = file /\ \A i \in 1..n : files[i] = kept[i]
  BY <1>1, AppendProperties, LenProperties
<1>3. \A i \in 1..n : kept[i] \in MovedFile
  BY <1>1, <1>2, ElementOfSeq
<1>4. CASE kept # <<>> /\ file.start < kept[n].end
  BY <1>4 DEF Merge
<1>5. CASE ~(kept # <<>> /\ file.start < kept[n].end)
  <2>1. Merge(kept, file) = files
    BY <1>5 DEF Merge
  <2> HIDE DEF files
  <2>2. \A i \in 1..n : kept[i].end <= file.start
    <3>1. SUFFICES ASSUME NEW i \in 1..n PROVE kept[i].end <= file.start
      OBVIOUS
    <3>2. kept # <<>> /\ n \in 1..n
      BY <1>1, <1>2, EmptySeq
    <3>3. kept[i].end \in Nat /\ kept[n].end \in Nat /\ kept[n].start \in Nat
          /\ kept[n].start < kept[n].end /\ kept[n].end <= file.start
      <4>1. kept[i] \in MovedFile /\ kept[n] \in MovedFile
        BY <1>3, <3>2
      <4>2. /\ kept[i].end \in Nat /\ kept[n].end \in Nat /\ kept[n].start \in Nat
            /\ kept[n].start < kept[n].end
        BY <4>1 DEF MovedFile
      <4>3. ~(file.start < kept[n].end)
        BY <1>5, <3>2
      <4> QED BY <1>1, <4>2, <4>3
    <3> HIDE DEF n
    <3>4. i = n \/ kept[i].end <= kept[n].start
      BY <1>1, <1>2, <3>2 DEF Ascending
    <3> QED BY <1>1, <3>3, <3>4
  <2>3. Ascending(files)
    <3> SUFFICES ASSUME NEW i \in 1..(n + 1), NEW j \in 1..(n + 1), i < j
                 PROVE  files[i].end <= files[j].start
      BY <1>2 DEF Ascending
    <3> HIDE DEF n
    <3>1. i \in 1..n
      BY <1>2
    <3>2. CASE j \in 1..n
      BY <1>1, <1>2, <3>1, <3>2 DEF Ascending
    <3>3. CASE j = n + 1
      BY <1>2, <2>2, <3>1, <3>3
    <3> QED BY <1>2, <3>2, <3>3
  <2> QED BY <1>2, <2>1, <2>3 DEF AscendingFiles
<1> QED BY <1>4, <1>5

\* The files, merged one after the other.
MergeStep(files) == [p \in (1..Len(files)) \X AscendingFiles |-> Merge(p[2], files[p[1]])]

\* Merged takes the files one by one.
LEMMA MergedUnfolds ==
  ASSUME NEW files \in Seq(MovedFile)
  PROVE  \E h : /\ Recurs(h, Len(files), AscendingFiles, <<>>, MergeStep(files))
                /\ Merged(files) = h[Len(files)]
<1> DEFINE n == Len(files)
           V == AscendingFiles
           step == MergeStep(files)
           Equation(g) == g = [s \in SUBSET (1..n) |->
                                 IF s = {} THEN <<>> ELSE Merge(g[s \ {Max(s)}], files[Max(s)])]
<1>1. n \in Nat /\ DOMAIN files = 1..n /\ \A i \in 1..n : files[i] \in MovedFile
  BY LenProperties, ElementOfSeq
<1>2. step \in [(1..n) \X V -> V]
  BY <1>1, MergeRight DEF MergeStep
<1>3. \A i \in 1..n, v \in V : step[<<i, v>>] = Merge(v, files[i])
  BY DEF MergeStep
<1>4. <<>> \in V
  BY EmptySeq DEF AscendingFiles, Ascending
<1> HIDE DEF n, V, step
<1>5. PICK g0 : Folds(g0, n, V, <<>>, step)
  BY <1>1, <1>2, <1>4, FoldRecursion, Zenon
<1>6. Equation(g0)
  <2>1. g0 \in [SUBSET (1..n) -> V]
        /\ \A s \in SUBSET (1..n) : g0[s] = IF s = {} THEN <<>> ELSE step[<<Max(s), g0[s \ {Max(s)}]>>]
    BY <1>5 DEF Folds
  <2>2. ASSUME NEW s \in SUBSET (1..n)
        PROVE  g0[s] = IF s = {} THEN <<>> ELSE Merge(g0[s \ {Max(s)}], files[Max(s)])
    <3>1. s # {} => Max(s) \in 1..n
      BY <1>1, MaxRight
    <3>2. g0[s \ {Max(s)}] \in V
      BY <2>1
    <3> QED BY <1>3, <2>1, <3>1, <3>2
  <2> QED BY <2>1, <2>2
<1>7. PICK g : Equation(g) /\ Merged(files) = g[1..n]
  <2> HIDE DEF Equation
  <2>1. Equation(CHOOSE g : Equation(g))
    BY <1>6
  <2>2. Merged(files) = (CHOOSE g : Equation(g))[1..n]
    BY <1>1 DEF Merged, FoldLeft, MapThenFoldSet, Equation
  <2> QED BY <2>1, <2>2
<1>8. \A s \in SUBSET (1..n) :
        g[s] = IF s = {} THEN <<>> ELSE Merge(g[s \ {Max(s)}], files[Max(s)])
  BY <1>7
<1> HIDE DEF Equation
<1> DEFINE h == [i \in 0..n |-> g0[1..i]]
<1>9. Recurs(h, n, V, <<>>, step)
  BY <1>1, <1>5, FoldOrder
<1>10. h \in [0..n -> V] /\ h[0] = <<>> /\ \A i \in 1..n : h[i] = step[<<i, h[i - 1]>>]
  BY <1>9 DEF Recurs
<1> HIDE DEF h
<1> DEFINE P == {i \in 0..n : g[1..i] = h[i]}
<1>11. 0 \in P
  <2>1. 1..0 = {} /\ 0 \in 0..n /\ {} \in SUBSET (1..n)
    BY <1>1
  <2>2. g[{}] = <<>>
    BY <1>8, <2>1
  <2> QED BY <1>10, <2>1, <2>2
<1>12. ASSUME NEW i \in 1..n, i - 1 \in P PROVE i \in P
  <2>1. 1..i \in SUBSET (1..n) /\ 1..i # {} /\ Max(1..i) = i /\ (1..i) \ {i} = 1..(i - 1)
    BY <1>1, MaxUpTo
  <2>2. g[1..i] = Merge(g[1..(i - 1)], files[i])
    BY <1>8, <2>1
  <2>3. h[i - 1] \in V /\ g[1..(i - 1)] = h[i - 1]
    BY <1>1, <1>10, <1>12
  <2>4. g[1..i] = h[i]
    BY <1>3, <1>10, <2>2, <2>3
  <2> QED BY <1>1, <2>4
<1> HIDE DEF P
<1>13. n \in P
  <2>1. n \in Nat /\ n \in 0..n
    BY <1>1
  <2> QED BY <1>11, <1>12, <2>1, UpTo
<1>14. Merged(files) = h[n]
  BY <1>7, <1>13 DEF P
<1> QED BY <1>9, <1>14 DEF n, V, step

\* Merged files ascend, whatever is merged.
LEMMA MergedType ==
  ASSUME NEW files \in Seq(MovedFile)
  PROVE  Merged(files) \in AscendingFiles
<1>1. PICK h : /\ Recurs(h, Len(files), AscendingFiles, <<>>, MergeStep(files))
               /\ Merged(files) = h[Len(files)]
  BY MergedUnfolds
<1>2. Len(files) \in 0..Len(files)
  BY LenProperties
<1> QED BY <1>1, <1>2 DEF Recurs

\* Files that ascend are in the order of their starts: the sort returns them.
LEMMA ByStartRight ==
  ASSUME NEW files \in AscendingFiles
  PROVE  ByStart(files) = files
<1> DEFINE n == Len(files)
           Ordered(p) == /\ p \in [DOMAIN files -> DOMAIN files]
                         /\ \A i, j \in DOMAIN files : i < j =>
                               \/ files[p[i]].start < files[p[j]].start
                               \/ files[p[i]].start = files[p[j]].start /\ p[i] < p[j]
<1>1. n \in Nat /\ DOMAIN files = 1..n /\ files \in Seq(MovedFile) /\ files = [i \in 1..n |-> files[i]]
  BY LenProperties DEF AscendingFiles
<1>2. \A i \in 1..n : files[i].start \in Nat /\ files[i].end \in Nat /\ files[i].start < files[i].end
  BY <1>1, ElementOfSeq DEF MovedFile
<1>3. \A i, j \in 1..n : i < j => files[i].end <= files[j].start
  BY <1>1 DEF AscendingFiles, Ascending
<1> HIDE DEF n
<1>4. Ordered([i \in 1..n |-> i])
  BY <1>1, <1>2, <1>3
<1>5. PICK p : Ordered(p) /\ ByStart(files) = [i \in DOMAIN files |-> files[p[i]]]
  <2> HIDE DEF Ordered
  <2>1. Ordered(CHOOSE p : Ordered(p))
    BY <1>4
  <2>2. ByStart(files) = [i \in DOMAIN files |-> files[(CHOOSE p : Ordered(p))[i]]]
    BY DEF ByStart, Ordered
  <2> QED BY <2>1, <2>2
<1>6. p \in [1..n -> 1..n] /\ \A i, j \in 1..n : i < j => p[i] < p[j]
  <2> SUFFICES ASSUME NEW i \in 1..n, NEW j \in 1..n, i < j, ~(p[i] < p[j]) PROVE FALSE
    BY <1>1, <1>5
  <2>0. p[i] \in 1..n /\ p[j] \in 1..n
    BY <1>1, <1>5
  <2>1. files[p[i]].start < files[p[j]].start
    <3>1. i \in DOMAIN files /\ j \in DOMAIN files
      BY <1>1
    <3> QED BY <1>5, <3>1
  <2>2. p[j] < p[i] /\ files[p[j]].end <= files[p[i]].start
    <3>1. p[i] # p[j]
      BY <1>2, <2>0, <2>1
    <3> QED BY <1>1, <1>3, <2>0, <3>1
  <2> QED BY <1>2, <2>0, <2>1, <2>2
<1> HIDE DEF Ordered
<1>7. \A i \in 1..n : p[i] >= i
  <2> DEFINE P == {i \in 0..n : i = 0 \/ p[i] >= i}
  <2>1. 0 \in P
    BY <1>1
  <2>2. ASSUME NEW i \in 1..n, i - 1 \in P PROVE i \in P
    BY <1>1, <1>6, <2>2
  <2> HIDE DEF P
  <2>3. \A i \in 0..n : i \in P
    BY <1>1, <2>1, <2>2, UpTo
  <2> QED BY <1>1, <2>3 DEF P
<1>8. \A i \in 1..n : p[i] <= i
  <2> DEFINE Bad == {i \in 1..n : p[i] > i}
  <2> SUFFICES ASSUME Bad # {} PROVE FALSE
    BY <1>1, <1>6
  <2>1. PICK i \in Bad : \A j \in Bad : i >= j
    <3>1. Bad \in SUBSET Nat /\ \A j \in Bad : j <= n
      BY <1>1
    <3> HIDE DEF Bad
    <3> QED BY <1>1, <3>1, GreatestNatural
  <2>2. i \in 1..n /\ p[i] \in (i + 1)..n
    BY <1>1, <1>6, <2>1
  <2>3. i + 1 \in 1..n /\ p[i + 1] > p[i] /\ i + 1 \notin Bad
    BY <1>1, <1>6, <2>1, <2>2
  <2> QED BY <1>1, <1>6, <2>2, <2>3
<1>9. \A i \in 1..n : p[i] = i
  BY <1>1, <1>6, <1>7, <1>8
<1> QED BY <1>1, <1>5, <1>9

-----------------------------------------------------------------------------
(* The invariant of the threads                                              *)

\* The locals of a thread lie within its region.
InRegion(i) ==
  /\ pos[i] \in Region(i).start..Region(i).end
  /\ last_found_ends[i] \in Region(i).start..Region(i).end
  /\ Len(buffers[i]) <= REGION_OVERLAP

\* The invariant of the threads. The handle is anywhere in the source, since every
\* thread moves it.
ThreadInv ==
  /\ SetupRight
  /\ handle \in 0..source_size
  /\ pc \in [RegionIds -> {"seek", "read", "done", "dead"}]
  /\ pos \in [RegionIds -> Nat] /\ last_found_ends \in [RegionIds -> Nat]
  /\ buffers \in [RegionIds -> Seq(Byte)] /\ local_results \in [RegionIds -> Seq(MovedFile)]
  /\ \A i \in RegionIds : InRegion(i)
  /\ all_files \in AscendingFiles

\* The regions are those of the start.
LEMMA SameRegions ==
  ASSUME UNCHANGED setup
  PROVE  /\ source' = source /\ region_carvers' = region_carvers /\ source_size' = source_size /\ regions' = regions
         /\ RegionIds' = RegionIds /\ \A i : Region(i)' = Region(i)
         /\ (SetupRight => SetupRight')
<1>1. source' = source /\ region_carvers' = region_carvers /\ num_threads' = num_threads /\ region_overlap' = region_overlap /\ faults' = faults
  BY DEF setup
<1>2. source_size' = source_size
  BY <1>1 DEF source_size
<1>3. regions' = regions
  BY <1>1, <1>2 DEF regions
<1> QED BY <1>1, <1>2, <1>3 DEF RegionIds, Region, SetupRight

\* The invariant holds before the threads start.
LEMMA ThreadInitInv == ThreadInit => ThreadInv
<1> SUFFICES ASSUME ThreadInit PROVE ThreadInv
  OBVIOUS
<1>1. SetupRight
  BY ThreadedAssumption DEF ThreadInit, SetupRight
<1>2. source_size \in Nat
  BY <1>1, LenProperties DEF SetupRight, source_size
<1>3. ASSUME NEW i \in RegionIds
      PROVE  /\ pos[i] = Region(i).start /\ last_found_ends[i] = Region(i).start
             /\ buffers[i] = <<>> /\ local_results[i] = <<>>
             /\ Region(i).start \in Nat /\ Region(i).end \in Nat /\ Region(i).start <= Region(i).end
  BY <1>1, <1>2, RegionRight DEF ThreadInit
<1>4. pos \in [RegionIds -> Nat] /\ last_found_ends \in [RegionIds -> Nat]
  BY <1>3 DEF ThreadInit
<1>5. buffers \in [RegionIds -> Seq(Byte)] /\ local_results \in [RegionIds -> Seq(MovedFile)]
  BY EmptySeq DEF ThreadInit
<1>6. \A i \in RegionIds : InRegion(i)
  BY <1>3, EmptySeq, ThreadedAssumption DEF InRegion
<1>7. all_files \in AscendingFiles
  BY EmptySeq DEF ThreadInit, AscendingFiles, Ascending
<1>8. handle \in 0..source_size /\ pc \in [RegionIds -> {"seek", "read", "done", "dead"}]
  BY <1>2 DEF ThreadInit
<1> QED BY <1>1, <1>4, <1>5, <1>6, <1>7, <1>8 DEF ThreadInv

\* What the carvers find in a window are files of the window.
LEMMA WindowRight ==
  ASSUME SetupRight, NEW data \in Seq(Byte)
  PROVE  RegionResults(data) \in Seq(CarvedFile(data))
<1> DEFINE lists == [i \in DOMAIN region_carvers |-> Carve(region_carvers[i], data)]
<1>1. Len(region_carvers) \in Nat /\ DOMAIN region_carvers = 1..Len(region_carvers) /\ \A i \in DOMAIN region_carvers : region_carvers[i] \in Kinds
  BY LenProperties, ElementOfSeq DEF SetupRight
<1>2. \A i \in DOMAIN region_carvers : Carve(region_carvers[i], data) \in Seq(CarvedFile(data))
  BY <1>1, CarveRight
<1>3. lists \in Seq(Seq(CarvedFile(data)))
  BY <1>1, <1>2
<1> QED BY <1>3, FlattenType DEF RegionResults

\* What one read does to the locals of a thread.
Chunk(i) ==
  Slice(source, handle, Lesser(handle + Lesser(ReadSize, Region(i).end - pos[i]), source_size))
\* What a thread holds after its next window.
Found(i) ==
  KeepEachInRegion(Region(i), [files |-> local_results[i], end |-> last_found_ends[i]],
           RegionResults(buffers[i] \o Chunk(i)))

\* What one read does: the bytes come from where the handle is by now, the locals stay
\* within the region.
LEMMA ReadRight ==
  ASSUME ThreadInv, NEW i \in RegionIds, ReadWindow(i)
  PROVE  /\ pc[i] = "read" /\ handle < source_size
         /\ Chunk(i) \in Seq(Byte) /\ Len(Chunk(i)) \in 0..(Region(i).end - pos[i])
         /\ handle + Len(Chunk(i)) = Lesser(handle + Lesser(ReadSize, Region(i).end - pos[i]), source_size)
         /\ Found(i) \in RegionReports(Region(i))
         /\ local_results' = [local_results EXCEPT ![i] = Found(i).files]
         /\ last_found_ends' = [last_found_ends EXCEPT ![i] = Found(i).end]
         /\ buffers' = [buffers EXCEPT ![i] = LastBytes(buffers[i] \o Chunk(i), REGION_OVERLAP)]
         /\ handle' = handle + Len(Chunk(i)) /\ pos' = [pos EXCEPT ![i] = @ + Len(Chunk(i))]
         /\ pc' = [pc EXCEPT ![i] = "seek"] /\ UNCHANGED <<setup, all_files, joined>>
<1> DEFINE region == Region(i)
           top == Lesser(handle + Lesser(ReadSize, region.end - pos[i]), source_size)
<1>1. /\ region.start \in Nat /\ region.end \in Nat /\ region.start <= region.end /\ region.end <= source_size
      /\ source_size \in Nat /\ source \in Seq(Byte) /\ Len(source) = source_size
  BY RegionRight, LenProperties DEF ThreadInv, SetupRight, source_size
<1>2. /\ handle \in 0..source_size /\ pos[i] \in region.start..region.end
      /\ last_found_ends[i] \in region.start..region.end
      /\ buffers[i] \in Seq(Byte) /\ local_results[i] \in Seq(MovedFile)
  BY DEF ThreadInv, InRegion
<1>3. /\ pc[i] = "read" /\ Chunk(i) # <<>>
      /\ handle' = handle + Len(Chunk(i)) /\ pos' = [pos EXCEPT ![i] = @ + Len(Chunk(i))]
      /\ pc' = [pc EXCEPT ![i] = "seek"] /\ UNCHANGED <<setup, all_files, joined>>
  BY DEF ReadWindow, Chunk
<1>4. /\ local_results' = [local_results EXCEPT ![i] = Found(i).files]
      /\ last_found_ends' = [last_found_ends EXCEPT ![i] = Found(i).end]
      /\ buffers' = [buffers EXCEPT ![i] = LastBytes(buffers[i] \o Chunk(i), REGION_OVERLAP)]
  BY DEF ReadWindow, Chunk, Found
<1> HIDE DEF region
<1>5. top \in handle..source_size /\ top - handle <= region.end - pos[i]
  <2> DEFINE wanted == Lesser(ReadSize, region.end - pos[i])
  <2>1. region.end \in Nat /\ pos[i] \in Nat /\ pos[i] <= region.end /\ handle \in Nat /\ handle <= source_size /\ source_size \in Nat
    BY <1>1, <1>2
  <2>2. wanted \in Nat /\ wanted <= region.end - pos[i]
    BY <2>1, ThreadedAssumption DEF Lesser
  <2> HIDE DEF wanted
  <2>3. top = Lesser(handle + wanted, source_size)
    BY DEF wanted
  <2> HIDE DEF top
  <2>4. top \in handle..source_size /\ top <= handle + wanted
    BY <2>1, <2>2, <2>3 DEF Lesser
  <2> QED BY <2>1, <2>2, <2>4
<1>6. Chunk(i) = Slice(source, handle, top)
  BY DEF Chunk, region
<1> HIDE DEF top
<1>7. Chunk(i) \in Seq(Byte) /\ Len(Chunk(i)) = top - handle
  <2>1. handle \in Nat /\ top \in handle..Len(source) /\ source \in Seq(Byte)
    BY <1>1, <1>2, <1>5
  <2>2. Slice(source, handle, top) \in Seq(Byte) /\ Len(Slice(source, handle, top)) = top - handle
    BY <2>1, SliceRight
  <2> QED BY <1>6, <2>2
<1>8. handle < source_size
  <2>1. Len(Chunk(i)) # 0
    BY <1>3, <1>7, EmptySeq
  <2> QED BY <1>1, <1>2, <1>5, <1>7, <2>1
<1>9. Found(i) \in RegionReports(region)
  <2> DEFINE r == [files |-> local_results[i], end |-> last_found_ends[i]]
             data == buffers[i] \o Chunk(i)
  <2>1. r \in RegionReports(region)
    BY <1>2 DEF RegionReports
  <2>2. data \in Seq(Byte)
    BY <1>2, <1>7, ConcatProperties
  <2> HIDE DEF data, r
  <2>3. RegionResults(data) \in Seq(CarvedFile(data))
    BY <2>2, WindowRight DEF ThreadInv
  <2>4. KeepEachInRegion(region, r, RegionResults(data)) \in RegionReports(region)
    BY <1>1, <2>1, <2>2, <2>3, KeepType
  <2> QED BY <2>4 DEF Found, region, r, data
<1>10. Len(Chunk(i)) \in 0..(region.end - pos[i]) /\ handle + Len(Chunk(i)) = top
  BY <1>1, <1>2, <1>5, <1>7
<1> QED BY <1>3, <1>4, <1>7, <1>8, <1>9, <1>10 DEF region, top

\* A read keeps the invariant, wherever the other threads have moved the handle.
LEMMA ReadInv ==
  ASSUME ThreadInv, NEW i \in RegionIds, ReadWindow(i)
  PROVE  ThreadInv'
<1>1. /\ Chunk(i) \in Seq(Byte) /\ Len(Chunk(i)) \in 0..(Region(i).end - pos[i])
      /\ handle + Len(Chunk(i)) = Lesser(handle + Lesser(ReadSize, Region(i).end - pos[i]), source_size)
      /\ Found(i) \in RegionReports(Region(i))
      /\ local_results' = [local_results EXCEPT ![i] = Found(i).files]
      /\ last_found_ends' = [last_found_ends EXCEPT ![i] = Found(i).end]
      /\ buffers' = [buffers EXCEPT ![i] = LastBytes(buffers[i] \o Chunk(i), REGION_OVERLAP)]
      /\ handle' = handle + Len(Chunk(i)) /\ pos' = [pos EXCEPT ![i] = @ + Len(Chunk(i))]
      /\ pc' = [pc EXCEPT ![i] = "seek"] /\ all_files' = all_files /\ UNCHANGED setup
  BY ReadRight
<1>2. /\ source_size' = source_size /\ RegionIds' = RegionIds /\ \A j : Region(j)' = Region(j) /\ SetupRight'
  BY <1>1, SameRegions DEF ThreadInv
<1>3. /\ Region(i).start \in Nat /\ Region(i).end \in Nat
      /\ source_size \in Nat /\ handle \in 0..source_size /\ pos[i] \in Region(i).start..Region(i).end
      /\ buffers[i] \in Seq(Byte)
  BY RegionRight, LenProperties DEF ThreadInv, SetupRight, source_size, InRegion
<1>4. handle' \in 0..source_size
  BY <1>1, <1>3, ThreadedAssumption DEF Lesser
<1>5. pos[i] + Len(Chunk(i)) \in Region(i).start..Region(i).end
  <2>1. ASSUME NEW first \in Nat, NEW end \in Nat, NEW p \in first..end, NEW l \in 0..(end - p)
        PROVE  p + l \in first..end
    OBVIOUS
  <2>2. /\ Region(i).start \in Nat /\ Region(i).end \in Nat /\ pos[i] \in Region(i).start..Region(i).end
        /\ Len(Chunk(i)) \in 0..(Region(i).end - pos[i])
    BY <1>1, <1>3
  <2> QED BY <2>1, <2>2
<1>6. Found(i).files \in Seq(MovedFile) /\ Found(i).end \in Region(i).start..Region(i).end
  BY <1>1 DEF RegionReports
<1> DEFINE data == buffers[i] \o Chunk(i)
           kept == LastBytes(data, REGION_OVERLAP)
<1>7. kept \in Seq(Byte) /\ Len(kept) <= REGION_OVERLAP
  <2>1. data \in Seq(Byte) /\ Len(data) \in Nat
    BY <1>1, <1>3, ConcatProperties, LenProperties
  <2> HIDE DEF data
  <2>2. CASE Len(data) > REGION_OVERLAP
    <3>1. kept = Slice(data, Len(data) - REGION_OVERLAP, Len(data))
      BY <2>2 DEF LastBytes
    <3>2. Len(data) - REGION_OVERLAP \in Nat /\ Len(data) \in (Len(data) - REGION_OVERLAP)..Len(data)
          /\ Len(data) - (Len(data) - REGION_OVERLAP) = REGION_OVERLAP
          /\ REGION_OVERLAP \in Nat
      BY <2>1, <2>2, ThreadedAssumption
    <3> HIDE DEF kept
    <3>3. /\ Slice(data, Len(data) - REGION_OVERLAP, Len(data)) \in Seq(Byte)
          /\ Len(Slice(data, Len(data) - REGION_OVERLAP, Len(data))) = Len(data) - (Len(data) - REGION_OVERLAP)
      <4> DEFINE first == Len(data) - REGION_OVERLAP
      <4>1. data \in Seq(Byte) /\ first \in Nat /\ Len(data) \in first..Len(data)
        BY <2>1, <3>2
      <4> HIDE DEF first
      <4>2. Slice(data, first, Len(data)) \in Seq(Byte) /\ Len(Slice(data, first, Len(data))) = Len(data) - first
        BY <4>1, SliceRight
      <4> QED BY <4>2 DEF first
    <3> QED BY <3>1, <3>2, <3>3
  <2>3. CASE ~(Len(data) > REGION_OVERLAP)
    BY <2>1, <2>3, ThreadedAssumption DEF LastBytes
  <2> QED BY <2>2, <2>3
<1>8. /\ pos' \in [RegionIds -> Nat] /\ last_found_ends' \in [RegionIds -> Nat]
      /\ buffers' \in [RegionIds -> Seq(Byte)] /\ local_results' \in [RegionIds -> Seq(MovedFile)]
      /\ pc' \in [RegionIds -> {"seek", "read", "done", "dead"}]
  <2> HIDE DEF kept
  <2>1. pos[i] + Len(Chunk(i)) \in Nat /\ Found(i).end \in Nat
    BY <1>3, <1>5, <1>6
  <2>2. pos' \in [RegionIds -> Nat]
    BY <1>1, <2>1 DEF ThreadInv
  <2>3. last_found_ends' \in [RegionIds -> Nat]
    BY <1>1, <2>1 DEF ThreadInv
  <2>4. buffers' \in [RegionIds -> Seq(Byte)]
    BY <1>1, <1>7 DEF ThreadInv, kept
  <2>5. local_results' \in [RegionIds -> Seq(MovedFile)]
    BY <1>1, <1>6 DEF ThreadInv
  <2>6. pc' \in [RegionIds -> {"seek", "read", "done", "dead"}]
    BY <1>1 DEF ThreadInv
  <2> QED BY <2>2, <2>3, <2>4, <2>5, <2>6
<1>9. ASSUME NEW j \in RegionIds PROVE InRegion(j)'
  <2> HIDE DEF kept
  <2>1. CASE j = i
    <3>1. pos'[i] = pos[i] + Len(Chunk(i)) /\ last_found_ends'[i] = Found(i).end /\ buffers'[i] = kept
      BY <1>1 DEF ThreadInv, kept
    <3> QED BY <1>2, <1>5, <1>6, <1>7, <2>1, <3>1 DEF InRegion
  <2>2. CASE j # i
    <3>1. pos'[j] = pos[j] /\ last_found_ends'[j] = last_found_ends[j] /\ buffers'[j] = buffers[j] /\ InRegion(j)
      BY <1>1, <2>2 DEF ThreadInv
    <3> QED BY <1>2, <3>1 DEF InRegion
  <2> QED BY <2>1, <2>2
<1>10. all_files' \in AscendingFiles
  BY <1>1 DEF ThreadInv
<1> QED BY <1>2, <1>4, <1>8, <1>9, <1>10 DEF ThreadInv

\* The files of the merge, before the sort.
InOrder == [n \in 1..Cardinality(RegionIds) |-> Reported(n - 1)]

\* What the main thread joins is a list of files, which it merges into one that
\* ascends; sorting it afterwards changes nothing.
LEMMA JoinRight ==
  ASSUME ThreadInv
  PROVE  /\ InOrder \in Seq(Seq(MovedFile)) /\ FlattenSeq(InOrder) \in Seq(MovedFile)
         /\ Merged(FlattenSeq(InOrder)) \in AscendingFiles
         /\ ByStart(Merged(FlattenSeq(InOrder))) = Merged(FlattenSeq(InOrder))
<1>1. PICK m \in Nat : RegionIds = 0..m - 1 /\ Cardinality(RegionIds) = m
  BY IdsRight DEF ThreadInv
<1>2. \A n \in 1..m : Reported(n - 1) \in Seq(MovedFile)
  <2> SUFFICES ASSUME NEW n \in 1..m PROVE Reported(n - 1) \in Seq(MovedFile)
    OBVIOUS
  <2>1. n - 1 \in RegionIds
    BY <1>1
  <2>2. local_results[n - 1] \in Seq(MovedFile)
    BY <2>1 DEF ThreadInv
  <2> QED BY <2>2, EmptySeq DEF Reported
<1>3. InOrder \in Seq(Seq(MovedFile))
  BY <1>1, <1>2 DEF InOrder
<1>4. FlattenSeq(InOrder) \in Seq(MovedFile)
  BY <1>3, FlattenType
<1>5. Merged(FlattenSeq(InOrder)) \in AscendingFiles
  BY <1>4, MergedType
<1> QED BY <1>3, <1>4, <1>5, ByStartRight

\* Every step of every thread keeps the invariant.
LEMMA ThreadNextInv == ThreadInv /\ [ThreadNext]_threadVars => ThreadInv'
<1> SUFFICES ASSUME ThreadInv, [ThreadNext]_threadVars PROVE ThreadInv'
  OBVIOUS
<1>1. ASSUME UNCHANGED <<setup, locals, all_files>>, handle' \in 0..source_size,
             pc' \in [RegionIds -> {"seek", "read", "done", "dead"}]
      PROVE  ThreadInv'
  <2>1. /\ source_size' = source_size /\ RegionIds' = RegionIds /\ \A i : Region(i)' = Region(i) /\ SetupRight'
    BY <1>1, SameRegions DEF ThreadInv
  <2>2. pos' = pos /\ buffers' = buffers /\ local_results' = local_results
        /\ last_found_ends' = last_found_ends /\ all_files' = all_files
    BY <1>1 DEF locals
  <2>3. \A i \in RegionIds : InRegion(i)'
    BY <2>1, <2>2 DEF ThreadInv, InRegion
  <2> QED BY <1>1, <2>1, <2>2, <2>3 DEF ThreadInv
<1>2. ASSUME NEW i \in RegionIds, NEW place \in {"read", "done", "dead"},
             pc' = [pc EXCEPT ![i] = place]
      PROVE  pc' \in [RegionIds -> {"seek", "read", "done", "dead"}]
  BY <1>2 DEF ThreadInv
<1>3. handle \in 0..source_size /\ \A i \in RegionIds : pos[i] \in 0..source_size
  <2> SUFFICES ASSUME NEW i \in RegionIds PROVE pos[i] \in 0..source_size
    BY DEF ThreadInv
  <2>1. SetupRight /\ InRegion(i)
    BY DEF ThreadInv
  <2>2. source_size \in Nat
    BY <2>1, LenProperties DEF SetupRight, source_size
  <2> QED BY <2>1, <2>2, RegionRight DEF InRegion
<1>4. ASSUME NEW i \in RegionIds, SeekTo(i) PROVE ThreadInv'
  BY <1>1, <1>2, <1>3, <1>4 DEF SeekTo
<1>5. ASSUME NEW i \in RegionIds, ReadWindow(i) PROVE ThreadInv'
  BY <1>5, ReadInv
<1>6. ASSUME NEW i \in RegionIds, ReadNothing(i) \/ ReadRaises(i) \/ RegionEnd(i) PROVE ThreadInv'
  BY <1>1, <1>2, <1>3, <1>6 DEF ReadNothing, ReadRaises, RegionEnd
<1>7. CASE Join
  <2>1. all_files' = ByStart(Merged(FlattenSeq(InOrder)))
    BY <1>7 DEF Join, InOrder
  <2>2. all_files' \in AscendingFiles
    BY <2>1, JoinRight
  <2>3. UNCHANGED <<setup, handle, pc, locals>>
    BY <1>7 DEF Join
  <2>4. /\ source_size' = source_size /\ RegionIds' = RegionIds /\ \A i : Region(i)' = Region(i) /\ SetupRight'
    BY <2>3, SameRegions DEF ThreadInv
  <2>5. pos' = pos /\ buffers' = buffers /\ local_results' = local_results
        /\ last_found_ends' = last_found_ends /\ handle' = handle /\ pc' = pc
    BY <2>3 DEF locals
  <2>6. \A i \in RegionIds : InRegion(i)'
    BY <2>4, <2>5 DEF ThreadInv, InRegion
  <2> QED BY <2>2, <2>4, <2>5, <2>6 DEF ThreadInv
<1>8. CASE UNCHANGED threadVars
  BY <1>1, <1>8 DEF threadVars, ThreadInv
<1> QED BY <1>4, <1>5, <1>6, <1>7, <1>8 DEF ThreadNext, Thread

\* A thread keeps its locals inside its region and its buffer under the overlap,
\* whatever the other threads do to the handle they share.
THEOREM ThreadedTypes == ThreadSpec => []ThreadTypeOK
<1>1. ThreadInv => ThreadTypeOK
  BY DEF ThreadInv, InRegion, ThreadTypeOK
<1> QED BY <1>1, ThreadInitInv, ThreadNextInv, PTL DEF ThreadSpec

-----------------------------------------------------------------------------
(* One region of at most two reads                                           *)

\* What a thread has kept when its results are exactly the files.
Kept(files) == [files |-> files, end |-> IF files = <<>> THEN 0 ELSE files[Len(files)].end]

\* The results of a longer window begin with those of the shorter one, which are
\* dropped again; the rest is kept.
LEMMA KeepExact ==
  ASSUME NEW k \in Kinds \ Sized, NEW whole \in Seq(Byte), NEW a \in 0..Len(whole),
         NEW region, region.start = 0, region.end \in Nat, Len(whole) <= region.end
  PROVE  KeepEachInRegion(region, Kept(Carve(k, Slice(whole, 0, a))), Carve(k, whole)) = Kept(Carve(k, whole))
<1> DEFINE part == Slice(whole, 0, a)
           C == Carve(k, whole)
           c == Carve(k, part)
           n == Len(C)
           m == Len(c)
           V == RegionReports(region)
<1>1. part \in Seq(Byte) /\ Len(part) = a /\ Len(whole) \in Nat
  BY SliceRight, LenProperties
<1>2. C \in Seq(CarvedFile(whole)) /\ Ascending(C)
  BY CarveRight
<1>3. c \in Seq(CarvedFile(part)) /\ Ascending(c)
  BY <1>1, CarveRight
<1>4. PICK rest \in Seq(AnyFile) : C = c \o rest
  BY CarvePrefix
<1> HIDE DEF part, C, c
<1>5. n \in Nat /\ m \in Nat /\ DOMAIN C = 1..n /\ DOMAIN c = 1..m /\ (C = <<>> <=> n = 0) /\ (c = <<>> <=> m = 0)
  BY <1>2, <1>3, LenProperties, EmptySeq
<1>6. \A i \in 1..n : C[i] \in CarvedFile(whole)
  BY <1>2, <1>5, ElementOfSeq
<1>7. \A i \in 1..n : /\ C[i].start \in Nat /\ C[i].end \in Nat /\ C[i].start < C[i].end
                       /\ C[i].end <= region.end /\ C[i] \in MovedFile
  BY <1>1, <1>6 DEF CarvedFile, MovedFile
<1>8. m <= n /\ \A i \in 1..m : C[i] = c[i]
  <2>1. c \in Seq(AnyFile)
    <3>1. CarvedFile(part) \subseteq AnyFile
      BY DEF CarvedFile, AnyFile
    <3> QED BY <1>3, <3>1, SeqMonotonic
  <2>2. n = m + Len(rest) /\ Len(rest) \in Nat
    BY <1>4, <2>1, ConcatProperties, LenProperties
  <2>3. \A i \in 1..(m + Len(rest)) : C[i] = IF i <= m THEN c[i] ELSE rest[i - m]
    BY <1>4, <2>1, ConcatProperties
  <2> HIDE DEF n, m
  <2> QED BY <1>5, <2>2, <2>3
<1>9. \A i, j \in 1..n : i < j => C[i].end <= C[j].start
  BY <1>2, <1>5 DEF Ascending
<1> DEFINE upTo(i) == SubSeq(C, 1, i)
<1>10. ASSUME NEW i \in 0..n
       PROVE  upTo(i) \in Seq(MovedFile) /\ Len(upTo(i)) = i /\ \A j \in 1..i : upTo(i)[j] = C[j]
  <2>1. 1 \in Int /\ i \in Int /\ \A j \in 1..i : C[j] \in MovedFile
    BY <1>5, <1>7
  <2>2. /\ SubSeq(C, 1, i) \in Seq(MovedFile)
        /\ Len(SubSeq(C, 1, i)) = IF 1 <= i THEN i - 1 + 1 ELSE 0
        /\ \A j \in 1..(i - 1 + 1) : SubSeq(C, 1, i)[j] = C[1 + j - 1]
    BY <2>1, SubSeqProperties
  <2> HIDE DEF n
  <2> QED BY <1>5, <2>1, <2>2
<1> HIDE DEF upTo
<1>11. ASSUME NEW i \in 0..n
       PROVE  /\ Kept(upTo(i)) \in V /\ Kept(upTo(i)).files = upTo(i)
              /\ Kept(upTo(i)).end = IF i = 0 THEN 0 ELSE C[i].end
  <2>1. upTo(i) = <<>> <=> i = 0
    BY <1>5, <1>10, EmptySeq
  <2>2. upTo(i) # <<>> => upTo(i)[Len(upTo(i))] = C[i] /\ i \in 1..n
    BY <1>5, <1>10, <2>1
  <2>3. Kept(upTo(i)).files = upTo(i) /\ Kept(upTo(i)).end = IF i = 0 THEN 0 ELSE C[i].end
    BY <2>1, <2>2 DEF Kept
  <2>4. (IF i = 0 THEN 0 ELSE C[i].end) \in region.start..region.end
    BY <1>5, <1>7, <2>1, <2>2
  <2>5. Kept(upTo(i)) = [files |-> upTo(i), end |-> IF i = 0 THEN 0 ELSE C[i].end]
    BY <2>1, <2>2 DEF Kept
  <2>6. Kept(upTo(i)) \in V
    BY <1>10, <2>4, <2>5 DEF RegionReports
  <2> QED BY <2>3, <2>6
<1>12. c = upTo(m)
  <2>1. m \in 0..n
    BY <1>5, <1>8
  <2>2. c \in Seq(MovedFile)
    <3>1. CarvedFile(part) \subseteq MovedFile
      BY DEF CarvedFile, MovedFile
    <3> QED BY <1>3, <3>1, SeqMonotonic
  <2>3. upTo(m) \in Seq(MovedFile) /\ Len(upTo(m)) = m /\ \A j \in 1..m : upTo(m)[j] = C[j]
    BY <1>10, <2>1
  <2>4. \A j \in 1..Len(c) : c[j] = upTo(m)[j]
    BY <1>8, <2>3
  <2> QED BY <2>2, <2>3, <2>4, SeqEqual
<1>13. C = upTo(n)
  BY <1>2, SubSeqFull DEF upTo
<1>14. ASSUME NEW i \in 1..n PROVE Moved(0, C[i]) = C[i]
  <2>1. C[i] \in [kind : Kinds, start : Nat, end : Nat, data : Seq(Byte)]
    BY <1>6 DEF CarvedFile
  <2> DEFINE g == [C[i] EXCEPT !.start = 0 + C[i].start]
  <2>2. g = C[i]
    BY <2>1
  <2>3. Moved(0, C[i]) = [g EXCEPT !.end = 0 + C[i].end]
    BY DEF Moved
  <2> HIDE DEF g
  <2> QED BY <2>1, <2>2, <2>3
<1>15. ASSUME NEW i \in 1..n, NEW found
       PROVE  KeepInRegion(region, found, C[i]) = IF C[i].start < found.end THEN found
                                          ELSE [files |-> Append(found.files, C[i]), end |-> C[i].end]
  <2>1. KeepInRegion(region, found, C[i]) =
          IF Moved(region.start, C[i]).start < found.end \/ Moved(region.start, C[i]).end > region.end
          THEN found
          ELSE [files |-> Append(found.files, Moved(region.start, C[i])),
                end |-> Moved(region.start, C[i]).end]
    BY DEF KeepInRegion, Moved
  <2>2. Moved(region.start, C[i]) = C[i]
    BY <1>14
  <2>3. ~(C[i].end > region.end)
    BY <1>7
  <2> QED BY <2>1, <2>2, <2>3
<1>16. PICK h : Recurs(h, n, V, Kept(c), KeepStep(region, C)) /\ KeepEachInRegion(region, Kept(c), C) = h[n]
  <2>1. Kept(c) \in V /\ region.start \in Nat
    <3>1. m \in 0..n
      BY <1>5, <1>8
    <3> QED BY <1>11, <1>12, <3>1
  <2> QED BY <1>2, <2>1, KeepUnfolds
<1>17. h \in [0..n -> V] /\ h[0] = Kept(c) /\ \A i \in 1..n : h[i] = KeepInRegion(region, h[i - 1], C[i])
  <2>1. h \in [0..n -> V] /\ h[0] = Kept(c) /\ \A i \in 1..n : h[i] = KeepStep(region, C)[<<i, h[i - 1]>>]
    BY <1>16 DEF Recurs
  <2>2. ASSUME NEW i \in 1..n PROVE h[i] = KeepInRegion(region, h[i - 1], C[i])
    <3>1. h[i - 1] \in V
      <4>1. i - 1 \in 0..n
        BY <1>5
      <4> QED BY <2>1, <4>1
    <3>2. KeepStep(region, C)[<<i, h[i - 1]>>] = KeepInRegion(region, h[i - 1], C[i])
      BY <3>1 DEF KeepStep
    <3> QED BY <2>1, <3>2
  <2> QED BY <2>1, <2>2
<1> HIDE DEF n, m, V
<1> DEFINE P == {i \in 0..n : h[i] = IF i <= m THEN Kept(upTo(m)) ELSE Kept(upTo(i))}
<1>18. 0 \in P
  BY <1>5, <1>12, <1>17
<1>19. ASSUME NEW i \in 1..n, i - 1 \in P PROVE i \in P
  <2>1. h[i] = KeepInRegion(region, h[i - 1], C[i]) /\ i \in 0..n /\ i - 1 \in 0..n
    BY <1>5, <1>17
  <2>2. CASE i <= m
    <3>1. h[i - 1] = Kept(upTo(m))
      BY <1>5, <1>19, <2>1, <2>2
    <3>2. m \in 1..n /\ Kept(upTo(m)).end = C[m].end
      BY <1>5, <1>8, <1>11, <2>2
    <3>3. C[i].start < C[m].end
      <4>1. i = m \/ C[i].end <= C[m].start
        BY <1>5, <1>9, <2>2, <3>2
      <4> QED BY <1>7, <3>2, <4>1
    <3>4. h[i] = Kept(upTo(m))
      BY <1>15, <2>1, <3>1, <3>2, <3>3
    <3> QED BY <2>1, <2>2, <3>4
  <2>3. CASE ~(i <= m)
    <3>1. h[i - 1] = Kept(upTo(i - 1))
      <4>1. i - 1 <= m => i - 1 = m
        BY <1>5, <2>3
      <4> QED BY <1>19, <4>1
    <3>2. ~(C[i].start < Kept(upTo(i - 1)).end)
      <4>1. Kept(upTo(i - 1)).end = IF i - 1 = 0 THEN 0 ELSE C[i - 1].end
        BY <1>11, <2>1
      <4>2. i - 1 # 0 => C[i - 1].end <= C[i].start /\ C[i - 1].end \in Nat
        BY <1>5, <1>7, <1>9
      <4> QED BY <1>7, <4>1, <4>2
    <3>3. h[i] = [files |-> Append(upTo(i - 1), C[i]), end |-> C[i].end]
      <4> DEFINE found == Kept(upTo(i - 1))
      <4>1. found.files = upTo(i - 1) /\ h[i] = KeepInRegion(region, found, C[i]) /\ ~(C[i].start < found.end)
        BY <1>11, <2>1, <3>1, <3>2
      <4> HIDE DEF found
      <4>2. h[i] = [files |-> Append(found.files, C[i]), end |-> C[i].end]
        BY <1>15, <4>1
      <4> QED BY <4>1, <4>2
    <3>4. Append(upTo(i - 1), C[i]) = upTo(i)
      <4>1. /\ upTo(i - 1) \in Seq(MovedFile) /\ Len(upTo(i - 1)) = i - 1
            /\ \A j \in 1..(i - 1) : upTo(i - 1)[j] = C[j]
        BY <1>10, <2>1
      <4>2. upTo(i) \in Seq(MovedFile) /\ Len(upTo(i)) = i /\ \A j \in 1..i : upTo(i)[j] = C[j]
        BY <1>10, <2>1
      <4> DEFINE left == Append(upTo(i - 1), C[i])
      <4>3. /\ left \in Seq(MovedFile) /\ Len(left) = Len(upTo(i - 1)) + 1
            /\ \A j \in 1..Len(upTo(i - 1)) : left[j] = upTo(i - 1)[j]
            /\ left[Len(upTo(i - 1)) + 1] = C[i]
        BY <1>7, <4>1, AppendProperties
      <4> HIDE DEF left
      <4>4. Len(left) = i /\ \A j \in 1..Len(left) : left[j] = upTo(i)[j]
        <5>1. i \in Nat \ {0} /\ Len(left) = i
          BY <1>5, <4>1, <4>3
        <5>2. ASSUME NEW j \in 1..i PROVE left[j] = upTo(i)[j]
          <6>1. upTo(i)[j] = C[j]
            BY <4>2
          <6>2. j \in 1..(i - 1) \/ j = (i - 1) + 1
            BY <5>1
          <6> QED BY <4>1, <4>3, <6>1, <6>2
        <5> QED BY <5>1, <5>2
      <4>5. left = upTo(i)
        BY <4>2, <4>3, <4>4, SeqEqual
      <4> QED BY <4>5 DEF left
    <3>5. Kept(upTo(i)) = [files |-> upTo(i), end |-> C[i].end]
      <4>1. Kept(upTo(i)).end = C[i].end
        BY <1>5, <1>11, <2>1
      <4> QED BY <4>1 DEF Kept
    <3> QED BY <2>1, <2>3, <3>3, <3>4, <3>5
  <2> QED BY <2>2, <2>3
<1> HIDE DEF P
<1>20. n \in P
  <2>1. n \in 0..n
    BY <1>5
  <2> QED BY <1>5, <1>18, <1>19, <2>1, UpTo
<1>21. h[n] = Kept(C)
  <2>1. h[n] = IF n <= m THEN Kept(upTo(m)) ELSE Kept(upTo(n))
    BY <1>20 DEF P
  <2>2. n <= m => n = m
    BY <1>5, <1>8
  <2> QED BY <1>13, <2>1, <2>2
<1> QED BY <1>16, <1>21 DEF C, c, part

\* Files that ascend are all kept by the merge.
LEMMA MergedSame ==
  ASSUME NEW files \in AscendingFiles
  PROVE  Merged(files) = files
<1> DEFINE n == Len(files)
           upTo(i) == SubSeq(files, 1, i)
<1>1. /\ n \in Nat /\ DOMAIN files = 1..n /\ files \in Seq(MovedFile) /\ Ascending(files)
      /\ \A i \in 1..n : files[i] \in MovedFile
  BY LenProperties, ElementOfSeq DEF AscendingFiles
<1>2. \A i \in 1..n : files[i].start \in Nat /\ files[i].end \in Nat
  BY <1>1 DEF MovedFile
<1>3. ASSUME NEW i \in 0..n
      PROVE  upTo(i) \in Seq(MovedFile) /\ Len(upTo(i)) = i /\ \A j \in 1..i : upTo(i)[j] = files[j]
  <2>1. 1 \in Int /\ i \in Int /\ \A j \in 1..i : files[j] \in MovedFile
    BY <1>1
  <2>2. /\ SubSeq(files, 1, i) \in Seq(MovedFile)
        /\ Len(SubSeq(files, 1, i)) = IF 1 <= i THEN i - 1 + 1 ELSE 0
        /\ \A j \in 1..(i - 1 + 1) : SubSeq(files, 1, i)[j] = files[1 + j - 1]
    BY <2>1, SubSeqProperties
  <2> HIDE DEF n
  <2> QED BY <1>1, <2>1, <2>2
<1> HIDE DEF upTo
<1>4. PICK h : Recurs(h, n, AscendingFiles, <<>>, MergeStep(files)) /\ Merged(files) = h[n]
  BY <1>1, MergedUnfolds
<1>5. h[0] = <<>> /\ \A i \in 1..n : h[i] = Merge(h[i - 1], files[i])
  <2>1. h \in [0..n -> AscendingFiles] /\ h[0] = <<>>
        /\ \A i \in 1..n : h[i] = MergeStep(files)[<<i, h[i - 1]>>]
    BY <1>4 DEF Recurs
  <2>2. ASSUME NEW i \in 1..n PROVE h[i] = Merge(h[i - 1], files[i])
    <3>1. h[i - 1] \in AscendingFiles
      <4>1. i - 1 \in 0..n
        BY <1>1
      <4> QED BY <2>1, <4>1
    <3>2. MergeStep(files)[<<i, h[i - 1]>>] = Merge(h[i - 1], files[i])
      BY <3>1 DEF MergeStep
    <3> QED BY <2>1, <3>2
  <2> QED BY <2>1, <2>2
<1> HIDE DEF n
<1> DEFINE P == {i \in 0..n : h[i] = upTo(i)}
<1>6. 0 \in P
  <2>1. 0 \in 0..n
    BY <1>1
  <2>2. upTo(0) = <<>>
    BY <1>3, <2>1, EmptySeq
  <2> QED BY <1>5, <2>1, <2>2
<1>7. ASSUME NEW i \in 1..n, i - 1 \in P PROVE i \in P
  <2> DEFINE before == upTo(i - 1)
             left == Append(before, files[i])
  <2>0. i - 1 \in 0..n /\ i \in 0..n
    BY <1>1
  <2>1. before \in Seq(MovedFile) /\ Len(before) = i - 1 /\ \A j \in 1..(i - 1) : before[j] = files[j]
    BY <1>3, <2>0
  <2>2. upTo(i) \in Seq(MovedFile) /\ Len(upTo(i)) = i /\ \A j \in 1..i : upTo(i)[j] = files[j]
    BY <1>3, <2>0
  <2>3. h[i - 1] = before /\ h[i] = Merge(before, files[i])
    BY <1>5, <1>7
  <2> HIDE DEF before
  <2>4. h[i] = left
    <3>1. before # <<>> => i - 1 \in 1..n /\ before[Len(before)] = files[i - 1]
      BY <1>1, <2>1, EmptySeq
    <3>2. i - 1 \in 1..n => files[i - 1].end <= files[i].start
      BY <1>1 DEF Ascending
    <3>3. ~(before # <<>> /\ files[i].start < before[Len(before)].end)
      BY <1>2, <3>1, <3>2
    <3> QED BY <2>3, <3>3 DEF Merge
  <2>5. /\ left \in Seq(MovedFile) /\ Len(left) = Len(before) + 1
        /\ \A j \in 1..Len(before) : left[j] = before[j]
        /\ left[Len(before) + 1] = files[i]
    BY <1>1, <2>1, AppendProperties
  <2> HIDE DEF left
  <2>6. Len(left) = i /\ \A j \in 1..Len(left) : left[j] = upTo(i)[j]
    BY <1>1, <2>1, <2>2, <2>5
  <2>7. left = upTo(i)
    BY <2>2, <2>5, <2>6, SeqEqual
  <2> QED BY <2>0, <2>4, <2>7
<1> HIDE DEF P
<1>8. n \in P
  <2>1. n \in 0..n
    BY <1>1
  <2> QED BY <1>1, <1>6, <1>7, <2>1, UpTo
<1>9. upTo(n) = files
  BY <1>1, SubSeqFull DEF upTo, n
<1> QED BY <1>4, <1>8, <1>9 DEF P

\* One region, one carver that looks for a footer, a source of at most two reads.
Lone ==
  /\ Cardinality(RegionIds) = 1 /\ Len(region_carvers) = 1 /\ region_carvers[1] \notin Sized
  /\ source_size <= 2 * ReadSize /\ REGION_OVERLAP >= ReadSize

\* Its region is the source, its results are those of the carver.
LEMMA LoneRegion ==
  ASSUME SetupRight, Lone
  PROVE  /\ RegionIds = {0} /\ Region(0).start = 0 /\ Region(0).end = source_size
         /\ region_carvers[1] \in Kinds \ Sized
         /\ \A data \in Seq(Byte) : RegionResults(data) = Carve(region_carvers[1], data)
<1>1. RegionIds = {0}
  <2>1. PICK m \in Nat : RegionIds = 0..m - 1 /\ Cardinality(RegionIds) = m
    BY IdsRight
  <2>2. m = 1
    BY <2>1 DEF Lone
  <2> QED BY <2>1, <2>2
<1>2. source_size \in Nat /\ num_threads \in Nat \ {0} /\ region_overlap \in Nat \ {0}
  BY LenProperties DEF SetupRight, source_size
<1>3. Region(0) \in regions /\ Region(0).id = 0
  BY <1>1, RegionRight
<1>4. Region(0).start = 0 /\ Region(0).end = source_size
  <2>1. CASE source_size = 0
    BY <1>3, <2>1 DEF regions, Regions
  <2>2. CASE source_size # 0 /\ (num_threads = 1 \/ source_size < 2 * region_overlap)
    BY <1>3, <2>2 DEF regions, Regions
  <2>3. CASE source_size # 0 /\ ~(num_threads = 1 \/ source_size < 2 * region_overlap)
    <3> DEFINE c == ChunkOf(source_size, num_threads, region_overlap)
    <3>1. c \in Nat /\ c >= region_overlap
      BY <1>2, ChunkRight
    <3>2. regions = {[id |-> i, start |-> i * c, end |-> RegionEndOf(source_size, num_threads, region_overlap, i)] :
                        i \in {j \in 0..num_threads - 1 : j * c < source_size}}
      BY <2>3 DEF regions, Regions
    <3>3. RegionEndOf(source_size, num_threads, region_overlap, 0) = Lesser(0 * c + c + region_overlap, source_size)
      BY <1>2, <2>3 DEF RegionEndOf
    <3> HIDE DEF c
    <3>4. PICK i \in 0..num_threads - 1 :
            Region(0) = [id |-> i, start |-> i * c, end |-> RegionEndOf(source_size, num_threads, region_overlap, i)]
      BY <1>3, <3>2
    <3>5. Region(0).start = 0 /\ Region(0).end = Lesser(0 * c + c + region_overlap, source_size)
      <4>1. i = 0
        BY <1>3, <3>4
      <4>2. Region(0) = [id |-> 0, start |-> 0 * c, end |-> RegionEndOf(source_size, num_threads, region_overlap, 0)]
        BY <3>4, <4>1
      <4>3. 0 * c = 0
        BY <3>1
      <4> QED BY <3>3, <4>2, <4>3
    <3>6. ~(1 * c < source_size)
      <4> SUFFICES ASSUME 1 * c < source_size PROVE FALSE
        OBVIOUS
      <4> DEFINE r == [id |-> 1, start |-> 1 * c, end |-> RegionEndOf(source_size, num_threads, region_overlap, 1)]
      <4>1. 1 \in {j \in 0..num_threads - 1 : j * c < source_size}
        BY <1>2, <2>3
      <4>2. r \in regions /\ r.id = 1
        BY <3>2, <4>1
      <4> HIDE DEF r
      <4>3. 1 \in RegionIds
        BY <4>2 DEF RegionIds
      <4> QED BY <1>1, <4>3
    <3> QED BY <1>2, <3>1, <3>5, <3>6 DEF Lesser
  <2> QED BY <2>1, <2>2, <2>3
<1>5. DOMAIN region_carvers = 1..1 /\ region_carvers[1] \in Kinds \ Sized
  <2>1. region_carvers \in Seq(Kinds) /\ Len(region_carvers) = 1 /\ region_carvers[1] \notin Sized
    BY DEF SetupRight, Lone
  <2>2. DOMAIN region_carvers = 1..1
    BY <2>1, LenProperties
  <2>3. region_carvers[1] \in Kinds
    <3>1. \A i \in 1..Len(region_carvers) : region_carvers[i] \in Kinds
      BY <2>1, ElementOfSeq
    <3> QED BY <2>1, <3>1
  <2> QED BY <2>1, <2>2, <2>3
<1>6. ASSUME NEW data \in Seq(Byte) PROVE RegionResults(data) = Carve(region_carvers[1], data)
  <2> DEFINE lists == [i \in 1..1 |-> Carve(region_carvers[i], data)]
             T == CarvedFile(data)
  <2>1. Carve(region_carvers[1], data) \in Seq(T)
    BY <1>5, CarveRight
  <2> HIDE DEF T
  <2>2. lists \in Seq(Seq(T)) /\ Len(lists) = 1 /\ lists[1] = Carve(region_carvers[1], data)
    <3>1. \A i \in 1..1 : Carve(region_carvers[i], data) \in Seq(T)
      BY <2>1
    <3> QED BY <3>1
  <2>3. RegionResults(data) = FlattenSeq(lists)
    BY <1>5 DEF RegionResults
  <2> HIDE DEF lists
  <2> QED BY <2>2, <2>3, FlattenOne
<1> QED BY <1>1, <1>4, <1>5, <1>6

\* What the carver finds in the first p bytes.
FoundIn(p) == Carve(region_carvers[1], Slice(source, 0, p))

\* With one region nobody else moves the handle: the thread has carved what the carver
\* finds up to where it has read.
LoneInv ==
  Lone =>
    /\ pos[0] \in {0, ReadSize, source_size}
    /\ pc[0] = "read" => handle = pos[0] /\ pos[0] < source_size
    /\ pc[0] = "done" => pos[0] = source_size
    /\ joined => pc[0] \in {"done", "dead"}
    /\ [files |-> local_results[0], end |-> last_found_ends[0]] = Kept(FoundIn(pos[0]))
    /\ pos[0] <= ReadSize => buffers[0] = Slice(source, 0, pos[0])
    /\ joined /\ pc[0] = "done" => all_files = FoundIn(source_size)

\* It has found nothing before it starts.
LEMMA LoneInit == ThreadInit => LoneInv
<1> SUFFICES ASSUME ThreadInit, Lone PROVE LoneInv
  BY DEF LoneInv
<1>1. SetupRight
  BY ThreadInitInv DEF ThreadInv
<1>2. /\ RegionIds = {0} /\ Region(0).start = 0 /\ region_carvers[1] \in Kinds \ Sized
      /\ source \in Seq(Byte) /\ Len(source) \in Nat
  BY <1>1, LoneRegion, LenProperties DEF SetupRight
<1>3. /\ pos[0] = 0 /\ pc[0] = "seek" /\ joined = FALSE /\ buffers[0] = <<>>
      /\ local_results[0] = <<>> /\ last_found_ends[0] = 0
  BY <1>2 DEF ThreadInit
<1>4. Slice(source, 0, 0) = <<>>
  BY SubSeqEmpty DEF Slice
<1>5. FoundIn(0) = <<>>
  <2>1. Carve(region_carvers[1], <<>>) \in Seq(CarvedFile(<<>>))
    BY <1>2, EmptySeq, CarveRight
  <2>2. CarvedFile(<<>>) = {}
    BY EmptySeq DEF CarvedFile
  <2>3. Carve(region_carvers[1], <<>>) = <<>>
    <3>1. SUFFICES ASSUME NEW s \in Seq({}) PROVE s = <<>>
      BY <2>1, <2>2
    <3>2. Len(s) \in Nat /\ \A i \in 1..Len(s) : s[i] \in {}
      BY LenProperties, ElementOfSeq
    <3>3. Len(s) = 0
      BY <3>2
    <3> QED BY <3>3, EmptySeq
  <2> QED BY <1>4, <2>3 DEF FoundIn
<1> QED BY <1>3, <1>4, <1>5 DEF LoneInv, Kept

\* A window of the prefix that ends where the second read does.
LEMMA LoneRead ==
  ASSUME ThreadInv, LoneInv, Lone, ReadWindow(0)
  PROVE  LoneInv'
<1> DEFINE p == pos[0]
           q == p + Len(Chunk(0))
           whole == Slice(source, 0, q)
<1>1. /\ RegionIds = {0} /\ Region(0).start = 0 /\ Region(0).end = source_size
      /\ region_carvers[1] \in Kinds \ Sized
      /\ \A data \in Seq(Byte) : RegionResults(data) = Carve(region_carvers[1], data)
  BY LoneRegion DEF ThreadInv
<1>2. /\ pc[0] = "read" /\ handle < source_size
      /\ Len(Chunk(0)) \in 0..(Region(0).end - pos[0])
      /\ handle + Len(Chunk(0)) = Lesser(handle + Lesser(ReadSize, Region(0).end - pos[0]), source_size)
      /\ local_results' = [local_results EXCEPT ![0] = Found(0).files]
      /\ last_found_ends' = [last_found_ends EXCEPT ![0] = Found(0).end]
      /\ buffers' = [buffers EXCEPT ![0] = LastBytes(buffers[0] \o Chunk(0), REGION_OVERLAP)]
      /\ pos' = [pos EXCEPT ![0] = @ + Len(Chunk(0))]
      /\ pc' = [pc EXCEPT ![0] = "seek"] /\ UNCHANGED <<setup, all_files, joined>>
  BY <1>1, ReadRight
<1>3. /\ source \in Seq(Byte) /\ Len(source) = source_size /\ source_size \in Nat /\ p \in Nat
      /\ ReadSize \in Nat \ {0} /\ REGION_OVERLAP \in Nat
  BY <1>1, LenProperties, ThreadedAssumption DEF ThreadInv, SetupRight, source_size
<1>4. /\ p \in {0, ReadSize, source_size} /\ handle = p /\ p < source_size
      /\ [files |-> local_results[0], end |-> last_found_ends[0]] = Kept(FoundIn(p))
      /\ p <= ReadSize => buffers[0] = Slice(source, 0, p)
      /\ (joined => pc[0] \in {"done", "dead"})
  BY <1>2 DEF LoneInv
<1>5. source_size <= 2 * ReadSize /\ REGION_OVERLAP >= ReadSize
  BY DEF Lone
<1> HIDE DEF p
<1>6. /\ q \in Nat /\ p <= ReadSize /\ p <= q /\ q <= source_size
      /\ q = Lesser(p + Lesser(ReadSize, source_size - p), source_size)
  <2>1. Len(Chunk(0)) \in Nat
    BY <1>1, <1>2, <1>3, <1>4 DEF p
  <2>2. q = Lesser(p + Lesser(ReadSize, source_size - p), source_size)
    BY <1>1, <1>2, <1>4 DEF p
  <2> HIDE DEF q
  <2>3. p <= ReadSize
    BY <1>3, <1>4, <1>5
  <2>4. q \in Nat /\ p <= q /\ q <= source_size
    BY <1>3, <1>4, <2>2, <2>3 DEF Lesser
  <2> QED BY <2>2, <2>3, <2>4
<1>7. q \in {0, ReadSize, source_size}
  <2> HIDE DEF q
  <2> QED BY <1>3, <1>4, <1>5, <1>6 DEF Lesser
<1>8. buffers[0] \o Chunk(0) = whole
  <2>1. Chunk(0) = Slice(source, p, q)
    BY <1>1, <1>4, <1>6 DEF Chunk, p
  <2>2. p \in 0..Len(source) /\ q \in p..Len(source)
    BY <1>3, <1>4, <1>6
  <2> HIDE DEF q
  <2>3. Slice(source, 0, p) \o Slice(source, p, q) = Slice(source, 0, q)
    BY <1>3, <2>2, SliceJoin
  <2> QED BY <1>4, <1>6, <2>1, <2>3
<1> HIDE DEF q
<1>9. whole \in Seq(Byte) /\ Len(whole) = q /\ p \in 0..Len(whole) /\ Slice(whole, 0, p) = Slice(source, 0, p)
  <2>1. q \in 0..Len(source)
    BY <1>3, <1>6
  <2>2. whole \in Seq(Byte) /\ Len(whole) = q - 0
    BY <1>3, <2>1, SliceRight
  <2>3. 0 \in 0..(q - 0) /\ p \in 0..(q - 0)
    BY <1>3, <1>6
  <2>4. Slice(Slice(source, 0, q), 0, p) = Slice(source, 0 + 0, 0 + p)
    BY <1>3, <2>1, <2>3, SliceSlice
  <2> QED BY <1>3, <1>6, <2>2, <2>4
<1> HIDE DEF whole
<1>10. Found(0) = Kept(FoundIn(q))
  <2>1. KeepEachInRegion(Region(0), Kept(Carve(region_carvers[1], Slice(whole, 0, p))), Carve(region_carvers[1], whole))
          = Kept(Carve(region_carvers[1], whole))
    <3>1. Region(0).end \in Nat /\ Len(whole) <= Region(0).end
      BY <1>1, <1>3, <1>6, <1>9
    <3> QED BY <1>1, <1>9, <3>1, KeepExact
  <2>2. Found(0) = KeepEachInRegion(Region(0), Kept(FoundIn(p)), Carve(region_carvers[1], whole))
    BY <1>1, <1>4, <1>8, <1>9 DEF Found
  <2> QED BY <1>9, <2>1, <2>2 DEF FoundIn, whole
<1>11. /\ pos'[0] = q /\ pc'[0] = "seek" /\ local_results'[0] = Found(0).files
       /\ last_found_ends'[0] = Found(0).end /\ buffers'[0] = LastBytes(whole, REGION_OVERLAP)
  BY <1>1, <1>2, <1>8 DEF ThreadInv, q, p
<1>12. [files |-> local_results'[0], end |-> last_found_ends'[0]] = Kept(FoundIn(q))
  BY <1>10, <1>11 DEF Kept
<1>13. q <= ReadSize => buffers'[0] = Slice(source, 0, q)
  BY <1>3, <1>5, <1>6, <1>9, <1>11 DEF LastBytes, whole
<1>14. source' = source /\ region_carvers' = region_carvers /\ source_size' = source_size /\ joined' = joined
  BY <1>2 DEF setup, source_size
<1>15. ~joined'
  BY <1>2, <1>4, <1>14
<1> QED BY <1>7, <1>11, <1>12, <1>13, <1>14, <1>15 DEF LoneInv, FoundIn

\* Every step of the one thread carves up to where it has read.
LEMMA LoneNext == ThreadInv /\ LoneInv /\ [ThreadNext]_threadVars => LoneInv'
<1> SUFFICES ASSUME ThreadInv, LoneInv, [ThreadNext]_threadVars, Lone' PROVE LoneInv'
  BY DEF LoneInv
<1>1. UNCHANGED setup
  BY DEF threadVars, ThreadNext, Thread, SeekTo, ReadWindow, ReadNothing, ReadRaises, RegionEnd, Join
<1>2. source' = source /\ region_carvers' = region_carvers /\ source_size' = source_size /\ RegionIds' = RegionIds /\ Lone
  BY <1>1, SameRegions DEF Lone
<1>3. /\ RegionIds = {0} /\ Region(0).start = 0 /\ Region(0).end = source_size /\ source_size \in Nat
      /\ region_carvers[1] \in Kinds \ Sized /\ source \in Seq(Byte) /\ Len(source) = source_size
  BY <1>2, LoneRegion, LenProperties DEF ThreadInv, SetupRight, source_size
<1>4. /\ pos[0] \in {0, ReadSize, source_size}
      /\ pc[0] = "read" => handle = pos[0] /\ pos[0] < source_size
      /\ pc[0] = "done" => pos[0] = source_size
      /\ joined => pc[0] \in {"done", "dead"}
      /\ [files |-> local_results[0], end |-> last_found_ends[0]] = Kept(FoundIn(pos[0]))
      /\ pos[0] <= ReadSize => buffers[0] = Slice(source, 0, pos[0])
      /\ joined /\ pc[0] = "done" => all_files = FoundIn(source_size)
  BY <1>2 DEF LoneInv
<1>5. pos[0] \in 0..source_size /\ pc[0] \in {"seek", "read", "done", "dead"} /\ DOMAIN pc = {0}
  BY <1>3 DEF ThreadInv, InRegion
<1>6. \A p : FoundIn(p)' = FoundIn(p)
  BY <1>2 DEF FoundIn
<1>7. CASE SeekTo(0)
  <2>1. /\ pc[0] = "seek" /\ pos[0] < source_size /\ handle' = pos[0] /\ pc'[0] = "read"
        /\ pos' = pos /\ buffers' = buffers /\ local_results' = local_results
        /\ last_found_ends' = last_found_ends /\ joined' = joined
    BY <1>3, <1>5, <1>7 DEF SeekTo, locals
  <2> QED BY <1>2, <1>4, <2>1 DEF LoneInv, FoundIn
<1>8. CASE ReadWindow(0)
  BY <1>2, <1>8, LoneRead
<1>9. CASE ReadNothing(0)
  BY <1>3, <1>4, <1>5, <1>9 DEF ReadNothing
<1>10. CASE ReadRaises(0) \/ RegionEnd(0)
  <2>1. /\ pc[0] \in {"seek", "read"} /\ pc'[0] \in {"done", "dead"}
        /\ pc'[0] = "done" => pos[0] = source_size
        /\ pos' = pos /\ buffers' = buffers /\ local_results' = local_results
        /\ last_found_ends' = last_found_ends /\ joined' = joined
    BY <1>3, <1>5, <1>10 DEF ReadRaises, RegionEnd, locals
  <2> QED BY <1>2, <1>4, <2>1 DEF LoneInv, FoundIn
<1>11. CASE Join
  <2>1. /\ pc[0] \in {"done", "dead"} /\ pc' = pc /\ pos' = pos /\ buffers' = buffers
        /\ local_results' = local_results /\ last_found_ends' = last_found_ends /\ handle' = handle
        /\ all_files' = ByStart(Merged(FlattenSeq(InOrder)))
    BY <1>3, <1>11 DEF Join, locals, InOrder
  <2>2. ASSUME pc[0] = "done" PROVE all_files' = FoundIn(source_size)
    <3>1. all_files' = Merged(FlattenSeq(InOrder)) /\ InOrder \in Seq(Seq(MovedFile))
      BY <2>1, JoinRight
    <3>2. Len(InOrder) = 1 /\ InOrder[1] = local_results[0]
      <4>1. InOrder = [n \in 1..1 |-> Reported(n - 1)]
        BY <1>2 DEF InOrder, Lone
      <4>2. Reported(1 - 1) = local_results[0]
        BY <2>2 DEF Reported
      <4> QED BY <4>1, <4>2
    <3>3. FlattenSeq(InOrder) = local_results[0]
      BY <3>1, <3>2, FlattenOne
    <3>4. local_results[0] = FoundIn(source_size)
      BY <1>4, <2>2 DEF Kept
    <3>5. FoundIn(source_size) \in AscendingFiles
      <4> DEFINE all == Slice(source, 0, source_size)
      <4>1. all \in Seq(Byte)
        BY <1>3, SliceRight
      <4> HIDE DEF all
      <4>2. Carve(region_carvers[1], all) \in Seq(CarvedFile(all)) /\ Ascending(Carve(region_carvers[1], all))
        BY <1>3, <4>1, CarveRight
      <4>3. CarvedFile(all) \subseteq MovedFile
        BY DEF CarvedFile, MovedFile
      <4>4. Carve(region_carvers[1], all) \in Seq(MovedFile)
        BY <4>2, <4>3, SeqMonotonic
      <4> QED BY <4>2, <4>4 DEF AscendingFiles, FoundIn, all
    <3> QED BY <3>1, <3>3, <3>4, <3>5, MergedSame
  <2> QED BY <1>2, <1>4, <2>1, <2>2 DEF LoneInv, FoundIn
<1>12. CASE UNCHANGED threadVars
  <2>1. /\ pc' = pc /\ pos' = pos /\ buffers' = buffers /\ local_results' = local_results
        /\ last_found_ends' = last_found_ends /\ handle' = handle /\ joined' = joined /\ all_files' = all_files
    BY <1>12 DEF threadVars, locals
  <2> QED BY <1>2, <1>4, <2>1 DEF LoneInv, FoundIn
<1> QED BY <1>3, <1>7, <1>8, <1>9, <1>10, <1>11, <1>12 DEF ThreadNext, Thread

\* What scan() returns: files that share no byte in every interleaving, and for one
\* region of at most two reads exactly what the carver finds in the source.
THEOREM ThreadedMerged == ThreadSpec => []MergedRight
<1>1. ThreadInit => ThreadInv /\ LoneInv
  BY ThreadInitInv, LoneInit
<1>2. ThreadInv /\ LoneInv /\ [ThreadNext]_threadVars => (ThreadInv /\ LoneInv)'
  BY ThreadNextInv, LoneNext
<1>3. ThreadInv /\ LoneInv => MergedRight
  <2> SUFFICES ASSUME ThreadInv, LoneInv PROVE MergedDisjoint /\ OneRegionExact
    BY DEF MergedRight
  <2>1. MergedDisjoint
    BY DEF ThreadInv, AscendingFiles, Ascending, MergedDisjoint
  <2>2. Slice(source, 0, source_size) = source
    BY SubSeqFull DEF ThreadInv, SetupRight, Slice, source_size
  <2>3. OneRegionExact
    BY <2>2 DEF LoneInv, Lone, OneRegionExact, FoundIn
  <2> QED BY <2>1, <2>3
<1> QED BY <1>1, <1>2, <1>3, PTL DEF ThreadSpec
=============================================================================
