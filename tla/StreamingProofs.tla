-------------------------- MODULE StreamingProofs --------------------------
(***************************************************************************)
(* What a streaming scan reports (StreamingScanner), for any image, chunk  *)
(* size and overlap: types, files that are right and do not share a byte,  *)
(* and, for one carver, all that is found in the whole image and is not    *)
(* longer than the overlap.                                                *)
(***************************************************************************)
EXTENDS StreamingScanner, CarvingProofs

\* What the scanner may report of its image: files of the image that ascend without
\* sharing a byte, none of which ends behind the last end.
Reports ==
  {r \in [files : Seq(CarvedFile(image)), end : 0..Len(image)] :
     Ascending(r.files) /\ \A i \in DOMAIN r.files : r.files[i].end <= r.end}

\* A file carved from a window is reported at its place in the image, or dropped when
\* it starts before the last end: both leave a report.
LEMMA KeepRight ==
  ASSUME image \in Seq(Byte), NEW a \in Nat, NEW b \in a..Len(image),
         NEW r \in Reports, NEW f \in CarvedFile(Slice(image, a, b))
  PROVE  Keep(a, r, f) \in Reports
<1> DEFINE file == Moved(a, f)
<1>0. Len(image) \in Nat
  BY LenProperties
<1>1. file \in CarvedFile(image) /\ file.end <= b
  BY MovedRight
<1>2. Keep(a, r, f) = IF file.start < r.end THEN r ELSE [files |-> Append(r.files, file), end |-> file.end]
  BY DEF Keep, Moved
<1> HIDE DEF file
<1>3. CASE file.start < r.end
  BY <1>2, <1>3
<1>4. CASE ~(file.start < r.end)
  <2> DEFINE files == Append(r.files, file)
             n == Len(r.files)
  <2>1. /\ r.files \in Seq(CarvedFile(image)) /\ r.end \in 0..Len(image) /\ Ascending(r.files)
        /\ \A i \in DOMAIN r.files : r.files[i].end <= r.end
    BY DEF Reports
  <2>2. /\ file.start \in Nat /\ file.end \in Nat /\ file.start < file.end
    BY <1>1 DEF CarvedFile
  <2>3. /\ files \in Seq(CarvedFile(image)) /\ n \in Nat /\ DOMAIN r.files = 1..n /\ DOMAIN files = 1..(n + 1)
        /\ files[n + 1] = file /\ \A i \in 1..n : files[i] = r.files[i]
    BY <1>1, <2>1, AppendProperties, LenProperties
  <2>4. \A i \in 1..n : files[i].end \in Nat /\ files[i].end <= r.end
    <3>1. \A i \in 1..n : files[i] \in CarvedFile(image)
      BY <2>1, <2>3, ElementOfSeq
    <3> QED BY <2>1, <2>3, <3>1 DEF CarvedFile
  <2>5. r.end <= file.start
    BY <1>4, <2>1, <2>2
  <2> HIDE DEF files, n
  <2>6. Ascending(files)
    <3> SUFFICES ASSUME NEW i \in 1..(n + 1), NEW j \in 1..(n + 1), i < j
                 PROVE  files[i].end <= files[j].start
      BY <2>3 DEF Ascending
    <3>1. i \in 1..n
      BY <2>3
    <3>2. CASE j \in 1..n
      BY <2>1, <2>3, <3>1, <3>2 DEF Ascending
    <3>3. CASE j = n + 1
      BY <2>1, <2>2, <2>3, <2>4, <2>5, <3>1, <3>3
    <3> QED BY <2>3, <3>2, <3>3
  <2>7. \A i \in DOMAIN files : files[i].end <= file.end
    <3> SUFFICES ASSUME NEW i \in 1..(n + 1) PROVE files[i].end <= file.end
      BY <2>3
    <3>1. CASE i \in 1..n
      BY <2>1, <2>2, <2>4, <2>5, <3>1
    <3>2. CASE i = n + 1
      BY <2>2, <2>3, <3>2
    <3> QED BY <2>3, <3>1, <3>2
  <2>8. file.end \in 0..Len(image)
    BY <1>0, <1>1, <2>2
  <2>9. Keep(a, r, f) = [files |-> files, end |-> file.end]
    BY <1>2, <1>4 DEF files
  <2> DEFINE report == [files |-> files, end |-> file.end]
  <2>10. report.files = files /\ report.end = file.end
         /\ report \in [files : Seq(CarvedFile(image)), end : 0..Len(image)]
    BY <2>3, <2>8
  <2> HIDE DEF report
  <2>11. report \in Reports
    BY <2>6, <2>7, <2>10 DEF Reports
  <2> QED BY <2>9, <2>11 DEF report
<1> QED BY <1>3, <1>4

\* The window's files, one after the other.
KeepStep(a, results) ==
  [p \in (1..Len(results)) \X Reports |-> Keep(a, p[2], results[p[1]])]

\* KeepEach takes the results one by one.
LEMMA KeepUnfolds ==
  ASSUME image \in Seq(Byte), NEW a \in Nat, NEW b \in a..Len(image),
         NEW r \in Reports, NEW results \in Seq(CarvedFile(Slice(image, a, b)))
  PROVE  \E h : /\ Recurs(h, Len(results), Reports, r, KeepStep(a, results))
                /\ KeepEach(a, r, results) = h[Len(results)]
<1> DEFINE n == Len(results)
           V == Reports
           step == KeepStep(a, results)
           Equation(g) == g = [s \in SUBSET (1..n) |->
                                 IF s = {} THEN r ELSE Keep(a, g[s \ {Max(s)}], results[Max(s)])]
<1>1. n \in Nat /\ DOMAIN results = 1..n /\ \A i \in 1..n : results[i] \in CarvedFile(Slice(image, a, b))
  BY LenProperties, ElementOfSeq
<1>2. step \in [(1..n) \X V -> V]
  BY <1>1, KeepRight DEF KeepStep
<1>3. \A i \in 1..n, v \in V : step[<<i, v>>] = Keep(a, v, results[i])
  BY DEF KeepStep
<1> HIDE DEF n, V, step
<1>4. PICK g0 : Folds(g0, n, V, r, step)
  <2>1. r \in V
    BY DEF V
  <2> QED BY <1>1, <1>2, <2>1, FoldRecursion, Zenon
<1>5. Equation(g0)
  <2>1. g0 \in [SUBSET (1..n) -> V]
        /\ \A s \in SUBSET (1..n) : g0[s] = IF s = {} THEN r ELSE step[<<Max(s), g0[s \ {Max(s)}]>>]
    BY <1>4 DEF Folds
  <2>2. ASSUME NEW s \in SUBSET (1..n)
        PROVE  g0[s] = IF s = {} THEN r ELSE Keep(a, g0[s \ {Max(s)}], results[Max(s)])
    <3>1. s # {} => Max(s) \in 1..n
      BY <1>1, MaxRight
    <3>2. g0[s \ {Max(s)}] \in V
      BY <2>1
    <3> QED BY <1>3, <2>1, <3>1, <3>2
  <2> QED BY <2>1, <2>2
<1>6. PICK g : Equation(g) /\ KeepEach(a, r, results) = g[1..n]
  <2> HIDE DEF Equation
  <2>1. Equation(CHOOSE g : Equation(g))
    BY <1>5
  <2>2. KeepEach(a, r, results) = (CHOOSE g : Equation(g))[1..n]
    BY <1>1 DEF KeepEach, FoldLeft, MapThenFoldSet, Equation
  <2> QED BY <2>1, <2>2
<1>7. \A s \in SUBSET (1..n) :
        g[s] = IF s = {} THEN r ELSE Keep(a, g[s \ {Max(s)}], results[Max(s)])
  BY <1>6
<1> HIDE DEF Equation
<1> DEFINE h == [i \in 0..n |-> g0[1..i]]
<1>8. Recurs(h, n, V, r, step)
  BY <1>1, <1>4, FoldOrder
<1>9. h \in [0..n -> V] /\ h[0] = r /\ \A i \in 1..n : h[i] = step[<<i, h[i - 1]>>]
  BY <1>8 DEF Recurs
<1> HIDE DEF h
<1> DEFINE P == {i \in 0..n : g[1..i] = h[i]}
<1>10. 0 \in P
  <2>1. 1..0 = {} /\ 0 \in 0..n /\ {} \in SUBSET (1..n)
    BY <1>1
  <2>2. g[{}] = r
    BY <1>7, <2>1
  <2> QED BY <1>9, <2>1, <2>2
<1>11. ASSUME NEW i \in 1..n, i - 1 \in P PROVE i \in P
  <2>1. 1..i \in SUBSET (1..n) /\ 1..i # {} /\ Max(1..i) = i /\ (1..i) \ {i} = 1..(i - 1)
    BY <1>1, MaxUpTo
  <2>2. g[1..i] = Keep(a, g[1..(i - 1)], results[i])
    BY <1>7, <2>1
  <2>3. h[i - 1] \in V /\ g[1..(i - 1)] = h[i - 1]
    BY <1>1, <1>9, <1>11
  <2>4. g[1..i] = h[i]
    BY <1>3, <1>9, <2>2, <2>3
  <2> QED BY <1>1, <2>4
<1> HIDE DEF P
<1>12. n \in P
  <2>1. n \in Nat /\ n \in 0..n
    BY <1>1
  <2> QED BY <1>10, <1>11, <2>1, UpTo
<1>13. KeepEach(a, r, results) = h[n]
  BY <1>6, <1>12 DEF P
<1> QED BY <1>8, <1>13 DEF n, V, step

\* and what it keeps is a report again.
LEMMA KeepFold ==
  ASSUME image \in Seq(Byte), NEW a \in Nat, NEW b \in a..Len(image),
         NEW r \in Reports, NEW results \in Seq(CarvedFile(Slice(image, a, b)))
  PROVE  KeepEach(a, r, results) \in Reports
<1>1. Len(results) \in 0..Len(results)
  BY LenProperties
<1>2. PICK h : Recurs(h, Len(results), Reports, r, KeepStep(a, results))
               /\ KeepEach(a, r, results) = h[Len(results)]
  BY KeepUnfolds
<1> QED BY <1>1, <1>2 DEF Recurs

\* What the carvers find in a window are files of the window.
LEMMA WindowRight ==
  ASSUME carvers \in Seq(Kinds), NEW data \in Seq(Byte)
  PROVE  WindowResults(data) \in Seq(CarvedFile(data))
<1> DEFINE lists == [i \in DOMAIN carvers |-> Carve(carvers[i], data)]
<1>1. Len(carvers) \in Nat /\ DOMAIN carvers = 1..Len(carvers) /\ \A i \in DOMAIN carvers : carvers[i] \in Kinds
  BY LenProperties, ElementOfSeq
<1>2. \A i \in DOMAIN carvers : Carve(carvers[i], data) \in Seq(CarvedFile(data))
  BY <1>1, CarveRight
<1>3. lists \in Seq(Seq(CarvedFile(data)))
  BY <1>1, <1>2
<1> QED BY <1>3, FlattenType DEF WindowResults

\* The invariant of the scan: the buffer holds the image's bytes from its base to the
\* cursor, never more than the overlap of them, and what is reported so far is a
\* report.
ScanInv ==
  /\ image \in Seq(Byte) /\ carvers \in Seq(Kinds)
  /\ size \in Nat /\ size >= Len(image) /\ chunk_size \in Nat \ {0} /\ overlap \in Nat \ {0}
  /\ mode \in {"mmap", "streaming", "done"}
  /\ file_cursor \in 0..Len(image) /\ buffer_base \in 0..file_cursor
  /\ file_cursor - buffer_base <= overlap
  /\ buffer = Slice(image, buffer_base, file_cursor)
  /\ [files |-> all_results, end |-> last_found_end] \in Reports

\* A scan that is given an overlap starts with the invariant.
LEMMA ScanInitInv == ScanInit /\ (\A s \in Setups : s.overlap # 0) => ScanInv
<1> SUFFICES ASSUME ScanInit, \A s \in Setups : s.overlap # 0 PROVE ScanInv
  OBVIOUS
<1>1. /\ image \in Seq(Byte) /\ carvers \in Seq(Kinds)
      /\ size \in Nat /\ size >= Len(image) /\ chunk_size \in Nat \ {0} /\ overlap \in Nat \ {0}
      /\ mode \in {"mmap", "streaming", "done"}
  BY ScannerAssumption DEF ScanInit
<1>2. buffer = <<>> /\ buffer_base = 0 /\ file_cursor = 0 /\ all_results = <<>> /\ last_found_end = 0
  BY DEF ScanInit
<1>3. Slice(image, 0, 0) = <<>> /\ Len(image) \in Nat
  BY <1>1, SubSeqEmpty, LenProperties DEF Slice
<1>4. [files |-> <<>>, end |-> 0] \in Reports
  BY <1>3, EmptySeq DEF Reports, Ascending
<1> QED BY <1>1, <1>2, <1>3, <1>4 DEF ScanInv

\* The window up to c, what was reported before and what is after it.
Window(c) == Slice(image, buffer_base, c)
\* What is reported so far, and with the window up to c.
Report == [files |-> all_results, end |-> last_found_end]
FoundBy(c) == KeepEach(buffer_base, Report, WindowResults(Window(c)))

\* What an iteration does that reads up to c.
LEMMA AbsorbEffect ==
  ASSUME ScanInv, NEW c \in file_cursor..Len(image), Absorb(Slice(image, file_cursor, c))
  PROVE  /\ Window(c) \in Seq(Byte) /\ Len(Window(c)) = c - buffer_base
         /\ FoundBy(c) \in Reports
         /\ file_cursor' = c /\ all_results' = FoundBy(c).files /\ last_found_end' = FoundBy(c).end
         /\ IF c - buffer_base > overlap
            THEN /\ buffer' = KeepTail(Window(c), overlap)
                 /\ buffer_base' = IF c > overlap THEN c - overlap ELSE 0
            ELSE buffer' = Window(c) /\ buffer_base' = buffer_base
<1> DEFINE chunk == Slice(image, file_cursor, c)
           data == Slice(image, buffer_base, c)
           r0 == [files |-> all_results, end |-> last_found_end]
           found == KeepEach(buffer_base, r0, WindowResults(data))
<1>0. /\ Len(image) \in Nat /\ file_cursor \in Nat /\ buffer_base \in Nat /\ c \in Nat
      /\ buffer_base <= file_cursor /\ file_cursor <= c /\ c <= Len(image)
      /\ overlap \in Nat \ {0} /\ image \in Seq(Byte) /\ r0 \in Reports
  BY LenProperties DEF ScanInv
<1>1. /\ Len(chunk) = c - file_cursor /\ buffer \o chunk = data
      /\ data \in Seq(Byte) /\ Len(data) = c - buffer_base
  <2>1. Len(chunk) = c - file_cursor
    BY <1>0, SliceRight
  <2>2. buffer = Slice(image, buffer_base, file_cursor)
    BY DEF ScanInv
  <2>3. buffer \o chunk = data
    <3>1. file_cursor \in buffer_base..Len(image)
      BY <1>0
    <3> QED BY <1>0, <2>2, <3>1, SliceJoin
  <2>4. data \in Seq(Byte) /\ Len(data) = c - buffer_base
    <3>1. c \in buffer_base..Len(image)
      BY <1>0
    <3> QED BY <1>0, <3>1, SliceRight
  <2> QED BY <2>1, <2>3, <2>4
<1>2. found \in Reports
  <2>1. WindowResults(data) \in Seq(CarvedFile(data))
    BY <1>1, WindowRight DEF ScanInv
  <2>2. c \in buffer_base..Len(image)
    BY <1>0
  <2> QED BY <1>0, <2>1, <2>2, KeepFold
<1>3. /\ file_cursor' = file_cursor + Len(chunk)
      /\ all_results' = found.files /\ last_found_end' = found.end
      /\ IF Len(data) > overlap
         THEN /\ buffer' = KeepTail(data, overlap)
              /\ buffer_base' = IF file_cursor + Len(chunk) > overlap
                                THEN (file_cursor + Len(chunk)) - overlap ELSE 0
         ELSE buffer' = data /\ buffer_base' = buffer_base
  <2> HIDE DEF found
  <2>1. \E results \in {WindowResults(data)} :
          LET cursor == file_cursor + Len(chunk)
              f == KeepEach(buffer_base, r0, results)
          IN  /\ file_cursor' = cursor
              /\ all_results' = f.files
              /\ last_found_end' = f.end
              /\ IF Len(data) > overlap
                 THEN /\ buffer' = KeepTail(data, overlap)
                      /\ buffer_base' = IF cursor > overlap THEN cursor - overlap ELSE 0
                 ELSE /\ buffer' = data
                      /\ UNCHANGED buffer_base
    BY <1>1 DEF Absorb
  <2> HIDE DEF data, chunk, r0
  <2>2. PICK results \in {WindowResults(data)} :
          LET cursor == file_cursor + Len(chunk)
              f == KeepEach(buffer_base, r0, results)
          IN  /\ file_cursor' = cursor
              /\ all_results' = f.files
              /\ last_found_end' = f.end
              /\ IF Len(data) > overlap
                 THEN /\ buffer' = KeepTail(data, overlap)
                      /\ buffer_base' = IF cursor > overlap THEN cursor - overlap ELSE 0
                 ELSE /\ buffer' = data
                      /\ UNCHANGED buffer_base
    BY <2>1
  <2>3. KeepEach(buffer_base, r0, results) = found
    BY DEF found
  <2>4. file_cursor' = file_cursor + Len(chunk)
    BY <2>2
  <2>5. all_results' = found.files /\ last_found_end' = found.end
    BY <2>2, <2>3
  <2>6. Len(data) > overlap => buffer' = KeepTail(data, overlap)
    BY <2>2
  <2>7. Len(data) > overlap => buffer_base' = IF file_cursor + Len(chunk) > overlap
                                THEN (file_cursor + Len(chunk)) - overlap ELSE 0
    <3>1. Len(chunk) \in Int /\ file_cursor \in Int /\ overlap \in Int
      BY <1>0, <1>1
    <3> QED BY <2>2, <3>1
  <2>8. ~(Len(data) > overlap) => buffer' = data /\ buffer_base' = buffer_base
    BY <2>2
  <2> QED BY <2>4, <2>5, <2>6, <2>7, <2>8
<1> HIDE DEF found
<1>4. file_cursor' = c /\ file_cursor + Len(chunk) = c
  BY <1>0, <1>1, <1>3
<1> HIDE DEF data, chunk
<1>5. CASE c - buffer_base > overlap
  <2> DEFINE e == file_cursor + Len(chunk)
  <2>2. Len(data) > overlap
    BY <1>1, <1>5
  <2>3. buffer' = KeepTail(data, overlap) /\ buffer_base' = IF e > overlap THEN e - overlap ELSE 0
    BY <1>3, <2>2, Zenon
  <2>4. e = c
    BY <1>4
  <2> HIDE DEF e
  <2>1. buffer' = KeepTail(data, overlap) /\ buffer_base' = IF c > overlap THEN c - overlap ELSE 0
    BY <2>3, <2>4
  <2> QED BY <1>1, <1>2, <1>3, <1>4, <1>5, <2>1 DEF data, found, Window, Report, FoundBy
<1>6. CASE ~(c - buffer_base > overlap)
  <2>1. buffer' = data /\ buffer_base' = buffer_base
    BY <1>1, <1>3, <1>6
  <2> QED BY <1>1, <1>2, <1>3, <1>4, <1>6, <2>1 DEF data, found, Window, Report, FoundBy
<1> QED BY <1>5, <1>6

\* It keeps the invariant.
LEMMA AbsorbRight ==
  ASSUME ScanInv, NEW c \in file_cursor..Len(image),
         Absorb(Slice(image, file_cursor, c)), UNCHANGED <<config, mode>>
  PROVE  ScanInv'
<1> DEFINE data == Window(c)
           found == FoundBy(c)
<1>0. /\ Len(image) \in Nat /\ file_cursor \in Nat /\ buffer_base \in Nat /\ c \in Nat
      /\ buffer_base <= file_cursor /\ file_cursor <= c /\ c <= Len(image)
      /\ overlap \in Nat \ {0} /\ image \in Seq(Byte)
  BY LenProperties DEF ScanInv
<1>1. data \in Seq(Byte) /\ Len(data) = c - buffer_base
  BY AbsorbEffect
<1>2. found \in Reports
  BY AbsorbEffect
<1>3. /\ all_results' = found.files /\ last_found_end' = found.end
      /\ IF Len(data) > overlap
         THEN /\ buffer' = KeepTail(data, overlap)
              /\ buffer_base' = IF c > overlap THEN c - overlap ELSE 0
         ELSE buffer' = data /\ buffer_base' = buffer_base
  BY <1>1, AbsorbEffect
<1>4. file_cursor' = c
  BY AbsorbEffect
<1> HIDE DEF found, data
<1>5. image' = image /\ carvers' = carvers /\ size' = size /\ chunk_size' = chunk_size
      /\ overlap' = overlap /\ mode' = mode
  BY DEF config
<1>6. [files |-> all_results', end |-> last_found_end'] \in Reports
  <2>1. found = [files |-> found.files, end |-> found.end]
    BY <1>2 DEF Reports
  <2> QED BY <1>2, <1>3, <2>1
<1>7. Reports' = Reports
  BY <1>5 DEF Reports, CarvedFile
<1>8. /\ buffer_base' \in 0..c /\ c - buffer_base' <= overlap
      /\ buffer' = Slice(image, buffer_base', c)
  <2>1. CASE Len(data) > overlap
    <3>1. c > overlap /\ buffer_base' = c - overlap /\ buffer' = Slice(data, Len(data) - overlap, Len(data))
      BY <1>0, <1>1, <1>3, <2>1 DEF KeepTail
    <3>2. Slice(data, Len(data) - overlap, Len(data)) = Slice(image, c - overlap, c)
      <4>1. /\ c \in buffer_base..Len(image)
            /\ Len(data) - overlap \in 0..(c - buffer_base)
            /\ Len(data) \in (Len(data) - overlap)..(c - buffer_base)
            /\ buffer_base + (Len(data) - overlap) = c - overlap /\ buffer_base + Len(data) = c
        BY <1>0, <1>1, <2>1
      <4>2. Slice(Slice(image, buffer_base, c), Len(data) - overlap, Len(data))
              = Slice(image, buffer_base + (Len(data) - overlap), buffer_base + Len(data))
        BY <1>0, <4>1, SliceSlice
      <4>3. data = Slice(image, buffer_base, c)
        BY DEF data, Window
      <4> QED BY <4>1, <4>2, <4>3
    <3> QED BY <1>0, <3>1, <3>2
  <2>2. CASE ~(Len(data) > overlap)
    <3>1. buffer_base' = buffer_base /\ buffer' = data
      BY <1>3, <2>2
    <3>2. data = Slice(image, buffer_base, c)
      BY DEF data, Window
    <3> QED BY <1>0, <1>1, <2>2, <3>1, <3>2
  <2> QED BY <2>1, <2>2
<1>9. file_cursor' \in 0..Len(image')
  BY <1>0, <1>4, <1>5
<1> QED BY <1>4, <1>5, <1>6, <1>7, <1>8, <1>9 DEF ScanInv

\* Every window keeps the invariant, and so does the scan of the whole mapped image.
LEMMA ScanNextInv == ScanInv /\ [ScanNext]_scanVars => ScanInv'
<1> SUFFICES ASSUME ScanInv, [ScanNext]_scanVars PROVE ScanInv'
  OBVIOUS
<1>0. /\ Len(image) \in Nat /\ file_cursor \in 0..Len(image) /\ size \in Nat /\ size >= Len(image)
      /\ chunk_size \in Nat \ {0} /\ image \in Seq(Byte)
  BY LenProperties DEF ScanInv
<1>1. ASSUME file_cursor < size
      PROVE  /\ Least(file_cursor + ToRead, Len(image)) \in file_cursor..Len(image)
             /\ ReadAt(file_cursor, ToRead)
                   = Slice(image, file_cursor, Least(file_cursor + ToRead, Len(image)))
  BY <1>0, <1>1 DEF Least, ToRead, ReadAt
<1>2. ASSUME file_cursor < size, Absorb(ReadAt(file_cursor, ToRead)), UNCHANGED <<config, mode>>
      PROVE  ScanInv'
  <2> DEFINE c == Least(file_cursor + ToRead, Len(image))
  <2>1. c \in file_cursor..Len(image) /\ Absorb(Slice(image, file_cursor, c))
    BY <1>1, <1>2
  <2> HIDE DEF c
  <2> QED BY <1>2, <2>1, AbsorbRight
<1>3. CASE StreamChunk
  BY <1>2, <1>3 DEF StreamChunk
<1>4. CASE MapChunk
  BY <1>2, <1>4 DEF MapChunk
<1>5. CASE MapRetry
  BY <1>2, <1>5 DEF MapRetry
<1>6. ASSUME mode' \in {"mmap", "streaming", "done"}, UNCHANGED <<config, window>> PROVE ScanInv'
  BY <1>6 DEF ScanInv, config, window, Reports, CarvedFile
<1>7. CASE StreamEnd \/ MapEnd \/ UNCHANGED scanVars
  BY <1>6, <1>7 DEF StreamEnd, MapEnd, scanVars, ScanInv
<1>8. CASE MapFallback
  <2>1. /\ image' = image /\ carvers' = carvers /\ size' = size /\ chunk_size' = chunk_size
        /\ overlap' = overlap /\ mode' = "streaming" /\ buffer' = <<>> /\ buffer_base' = 0
        /\ file_cursor' = 0 /\ all_results' = <<>> /\ last_found_end' = 0
    BY <1>8 DEF MapFallback, config
  <2>2. Slice(image, 0, 0) = <<>>
    BY <1>0, SubSeqEmpty DEF Slice
  <2>3. [files |-> <<>>, end |-> 0] \in Reports /\ Reports' = Reports
    BY <1>0, <2>1, EmptySeq DEF Reports, Ascending, CarvedFile
  <2> QED BY <1>0, <2>1, <2>2, <2>3 DEF ScanInv
<1> QED BY <1>3, <1>4, <1>5, <1>7, <1>8 DEF ScanNext

\* The types of the scan, for every image, set of carvers, chunk size and overlap. The
\* overlap is not 0: buffer[-0:] would keep everything, and no caller gives 0.
THEOREM StreamingTypes ==
  (\A s \in Setups : s.overlap # 0) => (ScanSpec => []ScanTypeOK)
<1> SUFFICES ASSUME \A s \in Setups : s.overlap # 0 PROVE ScanSpec => []ScanTypeOK
  OBVIOUS
<1>1. ScanSpec => []ScanInv
  BY ScanInitInv, ScanNextInv, PTL DEF ScanSpec
<1>2. ScanInv => ScanTypeOK
  <2> SUFFICES ASSUME ScanInv PROVE ScanTypeOK
    OBVIOUS
  <2>1. /\ Len(image) \in Nat /\ file_cursor \in 0..Len(image) /\ buffer_base \in 0..file_cursor
        /\ size \in Nat /\ size >= Len(image) /\ image \in Seq(Byte)
        /\ file_cursor - buffer_base <= overlap
    BY LenProperties DEF ScanInv
  <2>2. Len(buffer) = file_cursor - buffer_base
    <3>1. buffer_base \in Nat /\ file_cursor \in buffer_base..Len(image)
      BY <2>1
    <3>2. Len(Slice(image, buffer_base, file_cursor)) = file_cursor - buffer_base
      BY <2>1, <3>1, SliceRight
    <3> QED BY <3>2 DEF ScanInv
  <2>3. last_found_end \in 0..Len(image)
    BY DEF ScanInv, Reports
  <2> QED BY <2>1, <2>2, <2>3 DEF ScanInv, ScanTypeOK
<1> QED BY <1>1, <1>2, PTL

\* What a streaming scan reports (streaming/scanner.py), for every image, set of
\* carvers, chunk size and overlap: every file lies at its place in the image with the
\* bytes that are there, and no two files share a byte, whichever windows they were
\* carved from.
THEOREM StreamingReported ==
  (\A s \in Setups : s.overlap # 0) => (ScanSpec => []ReportedRight)
<1> SUFFICES ASSUME \A s \in Setups : s.overlap # 0 PROVE ScanSpec => []ReportedRight
  OBVIOUS
<1>1. ScanSpec => []ScanInv
  BY ScanInitInv, ScanNextInv, PTL DEF ScanSpec
<1>2. ScanInv => ReportedRight
  <2> SUFFICES ASSUME ScanInv PROVE ReportedRight
    OBVIOUS
  <2> DEFINE r == [files |-> all_results, end |-> last_found_end]
  <2>1. r \in Reports /\ r.files = all_results /\ image \in Seq(Byte)
    BY DEF ScanInv
  <2>2. all_results \in Seq(CarvedFile(image)) /\ Ascending(all_results)
    BY <2>1 DEF Reports
  <2>3. ASSUME NEW i \in DOMAIN all_results
        PROVE  LET f == all_results[i]
               IN  f.data = Slice(image, f.start, f.end) /\ f.end - f.start = Len(f.data)
    <3> DEFINE f == all_results[i]
    <3>1. f \in CarvedFile(image)
      BY <2>2, LenProperties, ElementOfSeq
    <3>2. f.start \in Nat /\ f.end \in f.start..Len(image) /\ f.data = Slice(image, f.start, f.end)
      BY <2>1, <3>1, LenProperties DEF CarvedFile
    <3> HIDE DEF f
    <3>3. Len(Slice(image, f.start, f.end)) = f.end - f.start
      <4>1. f.start \in Nat /\ f.end \in f.start..Len(image)
        BY <3>2
      <4>2. image \in Seq(Byte)
        BY <2>1
      <4>3. \A S : \A s \in Seq(S) : \A x \in Nat : \A y \in x..Len(s) : Len(Slice(s, x, y)) = y - x
        BY SliceRight
      <4> QED BY <4>1, <4>2, <4>3, Zenon
    <3> QED BY <3>2, <3>3 DEF f
  <2> QED BY <2>2, <2>3 DEF ReportedRight, Genuine, Disjoint, Ascending
<1> QED BY <1>1, <1>2, PTL

-----------------------------------------------------------------------------
(* Where a carver that looks for footers ends a file.                         *)

\* A footer of k begins at j.
FooterAt(k, data, j) == HitAt(data, {Footer[k]}, j)

\* The first footer after a header at start begins at j, near enough.
EndBy(k, data, start, j) ==
  /\ j \in start + HeaderLen(k)..Len(data) - 1 /\ FooterAt(k, data, j)
  /\ \A i \in start + HeaderLen(k)..j - 1 : ~FooterAt(k, data, i)
  /\ k \in Unlimited \/ j <= start + Lookback[k]

\* What a hit of a footer means.
LEMMA FooterHit ==
  ASSUME NEW k, NEW data, NEW j
  PROVE  HitAt(data, {Footer[k]}, j) <=>
           j + Len(Footer[k]) <= Len(data) /\ Slice(data, j, j + Len(Footer[k])) = Footer[k]
BY DEF HitAt

\* The numbers that the arguments about ends compare.
LEMMA Lengths ==
  ASSUME NEW k \in Kinds \ Sized, NEW data \in Seq(Byte)
  PROVE  /\ Len(data) \in Nat /\ Len(Footer[k]) \in Nat \ {0} /\ Lookback[k] \in Nat /\ MinSize[k] \in Nat
         /\ Footer[k] \in Seq(Byte)
         /\ Headers[k] # {} => HeaderLen(k) \in Nat \ {0}
         /\ \A h \in Headers[k] : h \in Seq(Byte) /\ Len(h) = HeaderLen(k)
<1>1. Len(data) \in Nat /\ Footer[k] \in Seq(Byte) /\ Len(Footer[k]) \in Nat \ {0}
      /\ Lookback[k] \in Nat /\ MinSize[k] \in Nat
  BY CarvingAssumption, LenProperties
<1>2. \A h \in Headers[k] : h \in Seq(Byte) /\ Len(h) \in Nat \ {0} /\ Len(h) = HeaderLen(k)
  <2>1. ASSUME NEW h \in Headers[k] PROVE (CHOOSE g \in Headers[k] : TRUE) \in Headers[k]
    BY <2>1
  <2> QED BY <2>1, CarvingAssumption, LenProperties DEF HeaderLen
<1> QED BY <1>1, <1>2

\* FooterEnd ends a file behind the footer that EndBy describes, if there is one.
LEMMA EndIs ==
  ASSUME NEW k \in Kinds \ Sized, Headers[k] # {}, NEW data \in Seq(Byte), NEW start \in Nat
  PROVE  /\ \A j : EndBy(k, data, start, j) =>
                     EndOf(k, data, start) = j + Len(Footer[k]) /\ EndOf(k, data, start) # NotFound
         /\ EndOf(k, data, start) # NotFound => \E j : EndBy(k, data, start, j)
<1> DEFINE from == start + HeaderLen(k)
           f == Find(data, {Footer[k]}, from)
<1>0. /\ Len(data) \in Nat /\ Len(Footer[k]) \in Nat \ {0} /\ Lookback[k] \in Nat
      /\ HeaderLen(k) \in Nat /\ from \in Nat
  BY Lengths
<1>1. EndOf(k, data, start) = IF f = NotFound \/ (k \notin Unlimited /\ f > start + Lookback[k])
                              THEN NotFound ELSE f + Len(Footer[k])
  BY DEF EndOf, FooterEnd
<1>2. /\ f = NotFound => \A i \in from..Len(data) - 1 : ~FooterAt(k, data, i)
      /\ f # NotFound => /\ f \in from..Len(data) - 1 /\ FooterAt(k, data, f)
                         /\ \A i \in from..f - 1 : ~FooterAt(k, data, i)
  BY <1>0, FindLeast DEF FooterAt
<1> HIDE DEF f
<1>3. ASSUME NEW j, EndBy(k, data, start, j)
      PROVE  EndOf(k, data, start) = j + Len(Footer[k]) /\ EndOf(k, data, start) # NotFound
  <2>1. /\ j \in from..Len(data) - 1 /\ FooterAt(k, data, j)
        /\ \A i \in from..j - 1 : ~FooterAt(k, data, i)
        /\ k \in Unlimited \/ j <= start + Lookback[k]
    BY <1>3 DEF EndBy
  <2>2. f # NotFound
    BY <1>2, <2>1
  <2> HIDE DEF from
  <2>3. f = j
    <3>1. f \in from..Len(data) - 1 /\ FooterAt(k, data, f) /\ \A i \in from..f - 1 : ~FooterAt(k, data, i)
      BY <1>2, <2>2
    <3>2. f \in Int /\ j \in Int /\ from <= f /\ from <= j
      BY <1>0, <2>1, <3>1
    <3>5. FooterAt(k, data, j) /\ \A i \in from..j - 1 : ~FooterAt(k, data, i)
      BY <2>1
    <3>3. ~(f < j)
      BY <1>0, <3>1, <3>2, <3>5
    <3>4. ~(j < f)
      BY <1>0, <3>1, <3>2, <3>5
    <3> QED BY <3>2, <3>3, <3>4
  <2> QED BY <1>0, <1>1, <2>1, <2>2, <2>3 DEF NotFound
<1>4. ASSUME EndOf(k, data, start) # NotFound PROVE EndBy(k, data, start, f)
  <2>1. f # NotFound /\ ~(k \notin Unlimited /\ f > start + Lookback[k])
    BY <1>1, <1>4
  <2>2. f \in from..Len(data) - 1
    BY <1>2, <2>1
  <2>3. k \in Unlimited \/ f <= start + Lookback[k]
    BY <1>0, <2>1, <2>2
  <2> QED BY <1>2, <2>1, <2>3 DEF EndBy
<1> QED BY <1>3, <1>4

\* The bytes of a slice of a given length.
LEMMA SliceBytes ==
  ASSUME NEW S, NEW data \in Seq(S), NEW a \in Nat, NEW m \in Nat, a + m <= Len(data)
  PROVE  \A i \in 1..m : Slice(data, a, a + m)[i] = data[a + i]
<1> DEFINE b == a + m
<1>1. b \in a..Len(data) /\ b - a = m
  BY LenProperties
<1> HIDE DEF b
<1>2. \A i \in 1..(b - a) : Slice(data, a, b)[i] = data[a + i]
  BY <1>1, SliceRight
<1> QED BY <1>1, <1>2 DEF b

\* Where no footer can share bytes with a header, none does.
LEMMA ApartRight ==
  ASSUME NEW k \in Kinds \ Sized, SignaturesApart(k), NEW data \in Seq(Byte), NEW s \in Nat, NEW j \in Nat,
         HitAt(data, Headers[k], s), FooterAt(k, data, j)
  PROVE  s + HeaderLen(k) <= j \/ j + Len(Footer[k]) <= s
<1>1. PICK h \in Headers[k] : s + Len(h) <= Len(data) /\ Slice(data, s, s + Len(h)) = h
  BY DEF HitAt
<1> DEFINE F == Footer[k]
           d == j - s
<1>2. /\ Len(data) \in Nat /\ F \in Seq(Byte) /\ Len(F) \in Nat \ {0}
      /\ HeaderLen(k) \in Nat \ {0} /\ Len(h) = HeaderLen(k)
  <2>1. Headers[k] # {}
    OBVIOUS
  <2> QED BY <2>1, Lengths
<1>3. j + Len(F) <= Len(data) /\ Slice(data, j, j + Len(F)) = F
  BY FooterHit DEF FooterAt
<1> HIDE DEF F
<1>4. \A i \in 1..Len(h) : h[i] = data[s + i]
  <2>1. \A i \in 1..Len(h) : Slice(data, s, s + Len(h))[i] = data[s + i]
    <3>1. s + Len(h) <= Len(data) /\ Len(h) \in Nat
      BY <1>1, <1>2
    <3> QED BY <3>1, SliceBytes
  <2> QED BY <1>1, <2>1
<1>5. \A i \in 1..Len(F) : F[i] = data[j + i]
  <2>1. \A i \in 1..Len(F) : Slice(data, j, j + Len(F))[i] = data[j + i]
    BY <1>2, <1>3, SliceBytes
  <2> QED BY <1>3, <2>1
<1>6. ASSUME ~(s + HeaderLen(k) <= j), ~(j + Len(F) <= s) PROVE FALSE
  <2>1. d \in 1 - Len(F)..Len(h) - 1
    BY <1>2, <1>6
  <2>2. PICK i \in 1..Len(h) : i - d \in 1..Len(F) /\ h[i] # F[i - d]
    BY <2>1 DEF SignaturesApart, F
  <2>3. j + (i - d) = s + i
    BY <1>2, <2>2
  <2> QED BY <1>4, <1>5, <2>2, <2>3
<1> QED BY <1>6 DEF F

\* A header inside a file ends where the file ends.
LEMMA SameEnd ==
  ASSUME NEW k \in Kinds \ Sized, SignaturesApart(k), NEW data \in Seq(Byte),
         NEW s \in Nat, NEW t \in Nat, t < s,
         HitAt(data, Headers[k], s),
         EndOf(k, data, t) # NotFound, EndOf(k, data, t) > s
  PROVE  EndOf(k, data, s) = EndOf(k, data, t)
<1>0. Headers[k] # {}
  BY DEF HitAt
<1>1. /\ Len(data) \in Nat /\ Len(Footer[k]) \in Nat \ {0} /\ Lookback[k] \in Nat
      /\ HeaderLen(k) \in Nat \ {0}
  BY <1>0, Lengths
<1>2. PICK j : EndBy(k, data, t, j)
  BY <1>0, EndIs
<1>3. EndOf(k, data, t) = j + Len(Footer[k])
  BY <1>0, <1>2, EndIs
<1>4. /\ j \in t + HeaderLen(k)..Len(data) - 1 /\ FooterAt(k, data, j)
      /\ \A i \in t + HeaderLen(k)..j - 1 : ~FooterAt(k, data, i)
      /\ k \in Unlimited \/ j <= t + Lookback[k]
  BY <1>2 DEF EndBy
<1>5. s + HeaderLen(k) <= j
  <2>1. j \in Nat
    BY <1>1, <1>4
  <2> QED BY <1>1, <1>3, <1>4, <2>1, ApartRight
<1>6. EndBy(k, data, s, j)
  <2>1. j \in s + HeaderLen(k)..Len(data) - 1 /\ (k \in Unlimited \/ j <= s + Lookback[k])
    BY <1>1, <1>4, <1>5
  <2>2. \A i \in s + HeaderLen(k)..j - 1 : i \in t + HeaderLen(k)..j - 1
    BY <1>1, <1>4
  <2> QED BY <1>4, <2>1, <2>2 DEF EndBy
<1> QED BY <1>0, <1>3, <1>6, EndIs

\* An end lies behind its start, inside the data, and within the lookback.
LEMMA EndBounds ==
  ASSUME NEW k \in Kinds \ Sized, Headers[k] # {}, NEW data \in Seq(Byte), NEW start \in Nat,
         EndOf(k, data, start) # NotFound
  PROVE  /\ EndOf(k, data, start) \in Nat
         /\ start < EndOf(k, data, start) /\ EndOf(k, data, start) <= Len(data)
         /\ start + HeaderLen(k) <= EndOf(k, data, start)
         /\ k \notin Unlimited => EndOf(k, data, start) - start <= Lookback[k] + Len(Footer[k])
<1>1. PICK j : EndBy(k, data, start, j)
  BY EndIs
<1>2. EndOf(k, data, start) = j + Len(Footer[k])
  BY <1>1, EndIs
<1>3. j \in start + HeaderLen(k)..Len(data) - 1 /\ (k \in Unlimited \/ j <= start + Lookback[k])
      /\ j + Len(Footer[k]) <= Len(data)
  BY <1>1, FooterHit DEF EndBy, FooterAt
<1>4. Len(data) \in Nat /\ Len(Footer[k]) \in Nat \ {0} /\ Lookback[k] \in Nat /\ HeaderLen(k) \in Nat \ {0}
  BY Lengths
<1> DEFINE FL == Len(Footer[k])
           HL == HeaderLen(k)
           n == Len(data)
           B == Lookback[k]
<1>5. /\ EndOf(k, data, start) = j + FL /\ j \in start + HL..n - 1 /\ j + FL <= n
      /\ k \notin Unlimited => j <= start + B
      /\ n \in Nat /\ FL \in Nat \ {0} /\ B \in Nat /\ HL \in Nat \ {0}
  BY <1>2, <1>3, <1>4
<1> HIDE DEF FL, HL, n, B
<1>6. j \in Nat /\ start + HL <= j
  BY <1>5
<1>7. j + FL \in Nat /\ start < j + FL /\ j + FL <= n /\ start + HL <= j + FL
  BY <1>5, <1>6
<1>8. k \notin Unlimited => (j + FL) - start <= B + FL
  BY <1>5, <1>6
<1> QED BY <1>5, <1>7, <1>8 DEF FL, HL, n, B
-----------------------------------------------------------------------------
(* Which headers a carver takes, if footers and headers do not share bytes:    *)
(* the one of every file that no earlier file runs into.                      *)

\* A header at s begins a file worth recording that ends at most at y.
FileStarts(k, data, s, y) ==
  /\ HitAt(data, Headers[k], s)
  /\ EndOf(k, data, s) # NotFound /\ EndOf(k, data, s) <= y
  /\ EndOf(k, data, s) - s >= MinSize[k]

\* No header from x up to s begins a file that runs past s.
Clear(k, data, x, s) ==
  \A t \in x..s - 1 :
     HitAt(data, Headers[k], t) /\ EndOf(k, data, t) # NotFound => EndOf(k, data, t) <= s

\* The files that a carver takes between x and y begin here.
Starts(k, data, x, y) ==
  {s \in x..y - 1 : FileStarts(k, data, s, y) /\ Clear(k, data, x, s)}

\* The files at these places.
FilesAt(k, data, places) == {FileAt(k, data, s) : s \in places}

\* One step of the carver: the header at a is the first from o on.
LEMMA StartsStep ==
  ASSUME NEW k \in Kinds \ Sized, SignaturesApart(k), NEW data \in Seq(Byte), NEW o \in 0..Len(data),
         NEW a \in o..Len(data) - 1, HitAt(data, Headers[k], a),
         \A i \in o..a - 1 : ~HitAt(data, Headers[k], i)
  PROVE  Starts(k, data, o, Len(data)) =
           {s \in {a} : FileStarts(k, data, a, Len(data))}
             \union Starts(k, data, ResumeAt(k, data, a), Len(data))
<1> DEFINE n == Len(data)
           E(i) == EndOf(k, data, i)
           Opens(i) == HitAt(data, Headers[k], i)
           r == ResumeAt(k, data, a)
<1>0. n \in Nat /\ a \in Nat /\ o \in Nat /\ o <= a /\ a < n /\ Headers[k] # {} /\ MinSize[k] \in Nat
  BY Lengths DEF HitAt
<1>1. r \in a + 1..n /\ (E(a) # NotFound => r = E(a)) /\ (E(a) = NotFound => r = a + 1)
  <2>1. a \in 0..n - 1
    BY <1>0
  <2> QED BY <1>0, <2>1, FoundRight DEF ResumeAt
<1>2. ASSUME NEW i \in o..n - 1, Opens(i), i # a PROVE i > a
  BY <1>0, <1>2
<1>3. ASSUME NEW i \in a + 1..n - 1, Opens(i), E(a) # NotFound, E(a) > i PROVE E(i) = E(a)
  <2>1. i \in Nat /\ a < i
    BY <1>0
  <2> QED BY <1>0, <1>3, <2>1, SameEnd
<1>4. ASSUME NEW i \in o..n - 1, Opens(i), E(i) # NotFound PROVE E(i) \in Nat /\ i < E(i) /\ E(i) <= n
  BY <1>0, <1>4, EndBounds
<1> HIDE DEF r
<1>5. ASSUME NEW s \in Starts(k, data, o, n)
      PROVE  s \in {x \in {a} : FileStarts(k, data, a, n)} \/ s \in Starts(k, data, r, n)
  <2>1. s \in o..n - 1 /\ FileStarts(k, data, s, n) /\ Clear(k, data, o, s)
    BY <1>5 DEF Starts
  <2>2. CASE s = a
    BY <2>1, <2>2
  <2>3. CASE s # a
    <3>1. s > a
      BY <1>2, <2>1, <2>3 DEF FileStarts
    <3>2. s >= r
      <4>1. CASE E(a) = NotFound
        BY <1>0, <1>1, <2>1, <3>1, <4>1
      <4>2. CASE E(a) # NotFound
        <5>1. a \in o..s - 1
          BY <1>0, <2>1, <3>1
        <5> QED BY <1>1, <2>1, <4>2, <5>1 DEF Clear
      <4> QED BY <4>1, <4>2
    <3>3. Clear(k, data, r, s)
      <4>1. \A t \in r..s - 1 : t \in o..s - 1
        BY <1>0, <1>1
      <4> QED BY <2>1, <4>1 DEF Clear
    <3>4. s \in r..n - 1
      BY <1>0, <1>1, <2>1, <3>2
    <3> QED BY <2>1, <3>3, <3>4 DEF Starts
  <2> QED BY <2>2, <2>3
<1>6. ASSUME FileStarts(k, data, a, n) PROVE a \in Starts(k, data, o, n)
  <2>1. Clear(k, data, o, a)
    BY DEF Clear
  <2> QED BY <1>0, <1>6, <2>1 DEF Starts
<1>7. ASSUME NEW s \in Starts(k, data, r, n) PROVE s \in Starts(k, data, o, n)
  <2>1. s \in r..n - 1 /\ FileStarts(k, data, s, n) /\ Clear(k, data, r, s)
    BY <1>7 DEF Starts
  <2>2. s \in o..n - 1 /\ s > a
    BY <1>0, <1>1, <2>1
  <2>3. ASSUME NEW t \in o..s - 1, Opens(t), E(t) # NotFound PROVE E(t) <= s
    <3>0. t \in o..n - 1
      BY <1>0, <2>2
    <3>1. CASE t = a
      BY <1>1, <2>1, <2>3, <3>1
    <3>2. CASE t # a /\ t < r
      <4>1. t > a
        BY <1>2, <2>3, <3>0, <3>2
      <4>2. E(a) # NotFound /\ r = E(a) /\ E(a) > t
        BY <1>0, <1>1, <3>0, <3>2, <4>1
      <4>3. t \in a + 1..n - 1
        BY <1>0, <3>0, <4>1
      <4>4. E(t) = E(a)
        BY <1>3, <2>3, <4>2, <4>3
      <4> QED BY <2>1, <4>2, <4>4
    <3>3. CASE t >= r
      <4>1. t \in r..s - 1
        BY <1>1, <3>0, <3>3
      <4> QED BY <2>1, <2>3, <4>1 DEF Clear
    <3> QED BY <1>1, <3>0, <3>1, <3>2, <3>3
  <2> QED BY <2>1, <2>2, <2>3 DEF Starts, Clear
<1> QED BY <1>5, <1>6, <1>7 DEF r

\* A carver finds the files that begin at Starts.
LEMMA CarveSet ==
  ASSUME NEW k \in Kinds \ Sized, SignaturesApart(k), NEW data \in Seq(Byte)
  PROVE  Range(Carve(k, data)) = FilesAt(k, data, Starts(k, data, 0, Len(data)))
<1> DEFINE n == Len(data)
           V == Seq(CarvedFile(data))
           at(o) == Find(data, Headers[k], o)
           S(o) == FilesAt(k, data, Starts(k, data, o, n))
<1>1. PICK F \in [0..n -> V] : CarveFrom(F, k, data) /\ F[0] = Carve(k, data)
  BY CarveUnfolds
<1>2. n \in Nat
  BY LenProperties
<1> DEFINE Good(o) == Range(F[o]) = S(o)
           Bad == {o \in 0..n : ~Good(o)}
<1>3. Bad = {}
  <2> SUFFICES ASSUME Bad # {} PROVE FALSE
    OBVIOUS
  <2>1. PICK o \in Bad : \A p \in Bad : o >= p
    <3>1. Bad \in SUBSET Nat /\ \A p \in Bad : p <= n
      BY <1>2
    <3> HIDE DEF Bad, n
    <3> QED BY <1>2, <3>1, GreatestNatural
  <2>2. o \in 0..n /\ F[o] \in V /\ ~Good(o)
    BY <1>1, <2>1
  <2>3. \A p \in 0..n : p > o => Good(p)
    <3> HIDE DEF Good, n
    <3> QED BY <1>2, <2>1, <2>2
  <2> HIDE DEF Bad
  <2>4. F[o] = IF at(o) = NotFound THEN <<>> ELSE FoundAt(k, data, at(o)) \o F[ResumeAt(k, data, at(o))]
    BY <1>1, <2>2 DEF CarveFrom
  <2>5. CASE at(o) = NotFound
    <3>1. \A i \in o..n - 1 : ~HitAt(data, Headers[k], i)
      BY <2>2, <2>5, FindLeast
    <3>2. Starts(k, data, o, n) = {}
      BY <3>1 DEF Starts, FileStarts
    <3>3. Range(F[o]) = {}
      BY <2>4, <2>5 DEF Range
    <3> QED BY <2>2, <3>2, <3>3 DEF FilesAt
  <2>6. CASE at(o) # NotFound
    <3> DEFINE a == at(o)
               r == ResumeAt(k, data, a)
               out == FoundAt(k, data, a)
    <3>1. a \in o..n - 1 /\ HitAt(data, Headers[k], a) /\ \A i \in o..a - 1 : ~HitAt(data, Headers[k], i)
      BY <2>2, <2>6, FindLeast
    <3> HIDE DEF a
    <3>2. a \in 0..n - 1 /\ Headers[k] # {}
      BY <2>2, <3>1 DEF HitAt
    <3>3. /\ out \in V /\ r \in a + 1..n
          /\ out = <<>> \/ out = <<FileAt(k, data, a)>>
      BY <3>2, FoundRight
    <3>4. out # <<>> <=> FileStarts(k, data, a, n)
      <4>1. out = <<>> <=> EndOf(k, data, a) = NotFound \/ EndOf(k, data, a) - a < MinSize[k]
        BY DEF FoundAt
      <4>2. EndOf(k, data, a) # NotFound => EndOf(k, data, a) \in Nat /\ EndOf(k, data, a) <= n
        BY <3>2, EndBounds
      <4>3. MinSize[k] \in Nat /\ a \in Nat
        BY <3>2, Lengths
      <4> QED BY <3>1, <4>1, <4>2, <4>3 DEF FileStarts
    <3>5. Starts(k, data, o, n) = {s \in {a} : FileStarts(k, data, a, n)} \union Starts(k, data, r, n)
      BY <2>2, <3>1, StartsStep
    <3>6. F[o] = out \o F[r]
      BY <2>4, <2>6 DEF a
    <3> HIDE DEF out, r
    <3>7. r \in 0..n /\ r > o
      BY <1>2, <2>2, <3>1, <3>3
    <3>8. F[r] \in V /\ Range(F[r]) = S(r)
      BY <1>1, <2>3, <3>7
    <3>9. Range(F[o]) = Range(out) \union Range(F[r])
      BY <3>3, <3>6, <3>8, RangeConcatenation
    <3>10. Range(out) = {FileAt(k, data, s) : s \in {x \in {a} : FileStarts(k, data, a, n)}}
      <4>1. CASE out = <<>>
        BY <3>4, <4>1 DEF Range
      <4>2. CASE out # <<>>
        <5>1. out = <<FileAt(k, data, a)>>
          BY <3>3, <4>2
        <5>2. Range(out) = {FileAt(k, data, a)}
          BY <5>1 DEF Range
        <5> QED BY <3>4, <4>2, <5>2
      <4> QED BY <4>1, <4>2
    <3>11. Range(F[o]) = S(o)
      BY <3>5, <3>8, <3>9, <3>10 DEF FilesAt
    <3> QED BY <2>2, <3>11
  <2> QED BY <2>5, <2>6
<1>4. Good(0)
  <2> HIDE DEF Good
  <2>1. 0 \in 0..n
    BY <1>2
  <2>2. 0 \notin Bad
    BY <1>3, Zenon
  <2> QED BY <2>1, <2>2
<1> QED BY <1>1, <1>4
-----------------------------------------------------------------------------
(* The same in a window of the data, moved to where the window is.            *)

\* A pattern occurs in a window where it occurs in the data and fits.
LEMMA WindowHit ==
  ASSUME NEW data \in Seq(Byte), NEW x \in Nat, NEW y \in x..Len(data), NEW patterns, NEW m \in Nat,
         \A p \in patterns : p \in Seq(Byte) /\ Len(p) = m, NEW i \in Nat
  PROVE  HitAt(Slice(data, x, y), patterns, i) <=>
           HitAt(data, patterns, x + i) /\ x + i + m <= y
<1> DEFINE W == Slice(data, x, y)
<1>0. Len(data) \in Nat /\ Len(W) = y - x /\ y \in Nat /\ y <= Len(data)
  <2>1. Len(data) \in Nat /\ Len(W) = y - x
    BY LenProperties, SliceRight
  <2> QED BY <2>1
<1>1. ASSUME i + m <= y - x PROVE Slice(W, i, i + m) = Slice(data, x + i, x + i + m)
  <2>1. i \in 0..y - x /\ i + m \in i..y - x
    BY <1>0, <1>1
  <2>2. Slice(Slice(data, x, y), i, i + m) = Slice(data, x + i, x + (i + m))
    BY <2>1, SliceSlice
  <2> QED BY <1>0, <2>2
<1> HIDE DEF W
<1>2. HitAt(W, patterns, i) <=> \E p \in patterns : i + m <= y - x /\ Slice(W, i, i + m) = p
  BY <1>0 DEF HitAt
<1>3. HitAt(data, patterns, x + i)
        <=> \E p \in patterns : x + i + m <= Len(data) /\ Slice(data, x + i, x + i + m) = p
  BY DEF HitAt
<1>4. i + m <= y - x <=> x + i + m <= y
  BY <1>0
<1>5. x + i + m <= y => x + i + m <= Len(data)
  BY <1>0
<1> QED BY <1>1, <1>2, <1>3, <1>4, <1>5 DEF W

\* A file of the data that ends inside the window is a file of the window.
LEMMA WindowEnd ==
  ASSUME NEW k \in Kinds \ Sized, Headers[k] # {}, NEW data \in Seq(Byte), NEW x \in Nat, NEW y \in x..Len(data),
         NEW i \in Nat
  PROVE  /\ EndOf(k, Slice(data, x, y), i) # NotFound
              <=> EndOf(k, data, x + i) # NotFound /\ EndOf(k, data, x + i) <= y
         /\ EndOf(k, Slice(data, x, y), i) # NotFound =>
              EndOf(k, Slice(data, x, y), i) = EndOf(k, data, x + i) - x
<1> DEFINE W == Slice(data, x, y)
           HL == HeaderLen(k)
           FL == Len(Footer[k])
<1>0. /\ Len(data) \in Nat /\ W \in Seq(Byte) /\ Len(W) = y - x /\ y \in Nat /\ y <= Len(data)
      /\ HL \in Nat \ {0} /\ FL \in Nat \ {0} /\ Lookback[k] \in Nat /\ x + i \in Nat
  <2>1. HL \in Nat \ {0} /\ FL \in Nat \ {0} /\ Lookback[k] \in Nat /\ Len(data) \in Nat
    BY Lengths
  <2>2. W \in Seq(Byte) /\ Len(W) = y - x
    BY SliceRight
  <2> QED BY <2>1, <2>2
<1>1. ASSUME NEW j \in Nat PROVE FooterAt(k, W, j) <=> FooterAt(k, data, x + j) /\ x + j + FL <= y
  <2>1. \A p \in {Footer[k]} : p \in Seq(Byte) /\ Len(p) = FL
    BY Lengths
  <2>2. FL \in Nat
    BY <1>0
  <2> QED BY <2>1, <2>2, WindowHit DEF FooterAt
<1>2. ASSUME NEW j, EndBy(k, W, i, j) PROVE EndBy(k, data, x + i, x + j) /\ x + j + FL <= y /\ j \in Nat
  <2>1. /\ j \in i + HL..Len(W) - 1 /\ FooterAt(k, W, j)
        /\ \A h \in i + HL..j - 1 : ~FooterAt(k, W, h)
        /\ k \in Unlimited \/ j <= i + Lookback[k]
    BY <1>2 DEF EndBy
  <2>7. j \in i + HL..Len(W) - 1 /\ (k \in Unlimited \/ j <= i + Lookback[k])
    BY <2>1
  <2>0. j \in Nat
    <3> HIDE DEF HL, FL, W
    <3> QED BY <1>0, <2>7
  <2>2. FooterAt(k, data, x + j) /\ x + j + FL <= y
    BY <1>1, <2>0, <2>1
  <2> HIDE DEF HL, FL, W
  <2>3. x + j \in x + i + HL..Len(data) - 1
    <3>1. x + i + HL \in Int /\ Len(data) - 1 \in Int /\ x + j \in Int
      BY <1>0, <2>0
    <3>2. x + i + HL <= x + j
      BY <1>0, <2>0, <2>7
    <3>3. x + j <= Len(data) - 1
      BY <1>0, <2>0, <2>2
    <3> QED BY <3>1, <3>2, <3>3
  <2>5. k \in Unlimited \/ x + j <= x + i + Lookback[k]
    <3>1. CASE k \in Unlimited
      BY <3>1
    <3>2. CASE k \notin Unlimited
      <4>1. j <= i + Lookback[k]
        BY <2>7, <3>2
      <4>2. x \in Nat /\ i \in Nat /\ Lookback[k] \in Nat
        BY <1>0
      <4>3. x + j <= x + i + Lookback[k]
        BY <2>0, <4>1, <4>2
      <4> QED BY <4>3
    <3> QED BY <3>1, <3>2
  <2>4. ASSUME NEW h \in x + i + HL..(x + j) - 1 PROVE ~FooterAt(k, data, h)
    <3>1. h - x \in i + HL..j - 1 /\ x + (h - x) = h /\ h - x \in Nat /\ h + FL <= y
      BY <1>0, <2>0, <2>2
    <3> QED BY <1>1, <2>1, <3>1
  <2>6. EndBy(k, data, x + i, x + j)
    BY <2>2, <2>3, <2>4, <2>5 DEF EndBy, HL
  <2> QED BY <2>0, <2>2, <2>6
<1>3. ASSUME NEW j, EndBy(k, data, x + i, j), j + FL <= y PROVE EndBy(k, W, i, j - x) /\ j \in Nat
  <2>1. /\ j \in x + i + HL..Len(data) - 1 /\ FooterAt(k, data, j)
        /\ \A h \in x + i + HL..j - 1 : ~FooterAt(k, data, h)
        /\ k \in Unlimited \/ j <= x + i + Lookback[k]
    BY <1>3 DEF EndBy
  <2> HIDE DEF HL, FL, W
  <2>2. j \in Nat /\ j - x \in Nat /\ x + (j - x) = j /\ j - x \in i + HL..Len(W) - 1
        /\ (k \in Unlimited \/ j - x <= i + Lookback[k])
    BY <1>0, <1>3, <2>1
  <2>3. FooterAt(k, W, j - x)
    BY <1>1, <1>3, <2>1, <2>2
  <2>4. ASSUME NEW h \in i + HL..j - x - 1 PROVE ~FooterAt(k, W, h)
    <3>1. h \in Nat /\ x + h \in x + i + HL..j - 1
      BY <1>0, <2>2
    <3> QED BY <1>1, <2>1, <3>1
  <2> QED BY <2>2, <2>3, <2>4 DEF EndBy, HL, W
<1>4. ASSUME EndOf(k, W, i) # NotFound
      PROVE  /\ EndOf(k, data, x + i) # NotFound /\ EndOf(k, data, x + i) <= y
             /\ EndOf(k, W, i) = EndOf(k, data, x + i) - x
  <2>1. PICK j : EndBy(k, W, i, j)
    BY <1>0, <1>4, EndIs
  <2>2. EndOf(k, W, i) = j + FL
    BY <1>0, <2>1, EndIs
  <2>3. EndBy(k, data, x + i, x + j) /\ x + j + FL <= y /\ j \in Nat
    BY <1>2, <2>1
  <2>4. EndOf(k, data, x + i) = x + j + FL /\ EndOf(k, data, x + i) # NotFound
    BY <1>0, <2>3, EndIs
  <2> HIDE DEF FL, W
  <2> QED BY <1>0, <2>2, <2>3, <2>4
<1>5. ASSUME EndOf(k, data, x + i) # NotFound, EndOf(k, data, x + i) <= y PROVE EndOf(k, W, i) # NotFound
  <2>1. PICK j : EndBy(k, data, x + i, j)
    BY <1>0, <1>5, EndIs
  <2>2. EndOf(k, data, x + i) = j + FL
    BY <1>0, <2>1, EndIs
  <2>3. EndBy(k, W, i, j - x)
    BY <1>3, <1>5, <2>1, <2>2
  <2> QED BY <1>0, <2>3, EndIs
<1> QED BY <1>4, <1>5

\* The same files begin in a window and there in the data.
LEMMA WindowStarts ==
  ASSUME NEW k \in Kinds \ Sized, SignaturesApart(k), NEW data \in Seq(Byte),
         NEW x \in Nat, NEW y \in x..Len(data), NEW i \in 0..(y - x) - 1
  PROVE  i \in Starts(k, Slice(data, x, y), 0, y - x) <=> x + i \in Starts(k, data, x, y)
<1> DEFINE W == Slice(data, x, y)
           EW(t) == EndOf(k, W, t)
           E(t) == EndOf(k, data, t)
           HW(t) == HitAt(W, Headers[k], t)
           H(t) == HitAt(data, Headers[k], t)
           HL == HeaderLen(k)
<1>1. CASE Headers[k] = {}
  BY <1>1 DEF Starts, FileStarts, HitAt
<1>2. CASE Headers[k] # {}
  <2>0. HL \in Nat /\ MinSize[k] \in Nat /\ y \in Nat /\ W \in Seq(Byte) /\ Len(W) = y - x
        /\ i \in Nat /\ x + i \in Nat /\ i < y - x /\ x + i < y
    <3>1. HL \in Nat /\ MinSize[k] \in Nat /\ Len(data) \in Nat
      BY <1>2, Lengths
    <3>2. W \in Seq(Byte) /\ Len(W) = y - x
      BY SliceRight
    <3> HIDE DEF HL, W
    <3> QED BY <3>1, <3>2
  <2>1. ASSUME NEW t \in Nat PROVE HW(t) <=> H(x + t) /\ x + t + HL <= y
    <3>1. \A p \in Headers[k] : p \in Seq(Byte) /\ Len(p) = HL
      BY Lengths
    <3>2. HL \in Nat
      BY <2>0
    <3> HIDE DEF HL
    <3> QED BY <3>1, <3>2, WindowHit
  <2>2. ASSUME NEW t \in Nat
        PROVE  /\ EW(t) # NotFound <=> E(x + t) # NotFound /\ E(x + t) <= y
               /\ EW(t) # NotFound => EW(t) = E(x + t) - x
    BY <1>2, WindowEnd
  <2>3. ASSUME NEW t \in Nat, E(t) # NotFound
        PROVE  E(t) \in Nat /\ t < E(t) /\ t + HL <= E(t)
    BY <1>2, <2>3, EndBounds
  <2>4. ASSUME NEW t \in Nat, t < x + i, H(x + i), E(t) # NotFound, E(t) > x + i PROVE E(x + i) = E(t)
    BY <2>0, <2>4, SameEnd
  <2> HIDE DEF W, E, EW, H, HW, HL
  <2>5. ASSUME NEW t \in Nat
        PROVE  HW(t) /\ EW(t) # NotFound <=> H(x + t) /\ E(x + t) # NotFound /\ E(x + t) <= y
    <3>1. ASSUME E(x + t) # NotFound, E(x + t) <= y PROVE x + t + HL <= y
      <4>1. x + t \in Nat
        OBVIOUS
      <4>2. E(x + t) \in Nat /\ x + t + HL <= E(x + t)
        BY <2>3, <3>1, <4>1
      <4> QED BY <2>0, <3>1, <4>2
    <3> QED BY <2>1, <2>2, <3>1
  <2>6. FileStarts(k, W, i, y - x) <=> FileStarts(k, data, x + i, y)
    <3>1. FileStarts(k, W, i, y - x) <=>
            HW(i) /\ EW(i) # NotFound /\ EW(i) <= y - x /\ EW(i) - i >= MinSize[k]
      BY DEF FileStarts, HW, EW
    <3>2. FileStarts(k, data, x + i, y) <=>
            H(x + i) /\ E(x + i) # NotFound /\ E(x + i) <= y /\ E(x + i) - (x + i) >= MinSize[k]
      BY DEF FileStarts, H, E
    <3>3. E(x + i) # NotFound => E(x + i) \in Nat
      BY <2>0, <2>3
    <3>4. HW(i) /\ EW(i) # NotFound <=> H(x + i) /\ E(x + i) # NotFound /\ E(x + i) <= y
      BY <2>0, <2>5
    <3>5. EW(i) # NotFound => EW(i) = E(x + i) - x /\ E(x + i) # NotFound /\ E(x + i) <= y
      BY <2>0, <2>2
    <3>6. EW(i) # NotFound => (EW(i) <= y - x /\ (EW(i) - i >= MinSize[k] <=> E(x + i) - (x + i) >= MinSize[k]))
      BY <2>0, <3>3, <3>5
    <3> QED BY <3>1, <3>2, <3>4, <3>6
  <2>7. ASSUME FileStarts(k, data, x + i, y)
        PROVE  Clear(k, W, 0, i) <=> Clear(k, data, x, x + i)
    <3>1. H(x + i) /\ E(x + i) # NotFound /\ E(x + i) <= y
      BY <2>7 DEF FileStarts, H, E
    <3>2. ASSUME Clear(k, W, 0, i), NEW t \in x..(x + i) - 1, H(t), E(t) # NotFound PROVE E(t) <= x + i
      <4> SUFFICES ASSUME ~(E(t) <= x + i) PROVE FALSE
        OBVIOUS
      <4>1. t \in Nat /\ t < x + i /\ t - x \in Nat /\ t - x \in 0..i - 1 /\ x + (t - x) = t
        BY <2>0
      <4>2. E(t) \in Nat /\ E(t) > x + i
        BY <2>0, <2>3, <3>2, <4>1
      <4>3. E(t) = E(x + i)
        BY <2>4, <3>1, <3>2, <4>1, <4>2
      <4>4. HW(t - x) /\ EW(t - x) # NotFound
        BY <2>5, <3>1, <3>2, <4>1, <4>3
      <4>5. EW(t - x) <= i
        BY <3>2, <4>1, <4>4 DEF Clear, HW, EW
      <4>6. EW(t - x) = E(t) - x
        BY <2>2, <4>1, <4>4
      <4> QED BY <2>0, <4>2, <4>5, <4>6
    <3>3. ASSUME Clear(k, data, x, x + i), NEW t \in 0..i - 1, HW(t), EW(t) # NotFound PROVE EW(t) <= i
      <4>1. t \in Nat /\ x + t \in x..(x + i) - 1 /\ x + t \in Nat
        BY <2>0
      <4>2. H(x + t) /\ E(x + t) # NotFound /\ EW(t) = E(x + t) - x
        BY <2>2, <2>5, <3>3, <4>1
      <4>3. E(x + t) <= x + i /\ E(x + t) \in Nat
        BY <2>3, <3>3, <4>1, <4>2 DEF Clear, H, E
      <4> QED BY <2>0, <4>2, <4>3
    <3>4. Clear(k, W, 0, i) <=> \A t \in 0..i - 1 : HW(t) /\ EW(t) # NotFound => EW(t) <= i
      BY DEF Clear, HW, EW
    <3>5. Clear(k, data, x, x + i) <=> \A t \in x..(x + i) - 1 : H(t) /\ E(t) # NotFound => E(t) <= x + i
      BY DEF Clear, H, E
    <3> QED BY <3>2, <3>3, <3>4, <3>5
  <2>8. i \in 0..(y - x) - 1 /\ x + i \in x..y - 1
    BY <2>0
  <2>9. i \in Starts(k, W, 0, y - x) <=> FileStarts(k, W, i, y - x) /\ Clear(k, W, 0, i)
    BY <2>8 DEF Starts
  <2>10. x + i \in Starts(k, data, x, y) <=> FileStarts(k, data, x + i, y) /\ Clear(k, data, x, x + i)
    BY <2>8 DEF Starts
  <2> QED BY <2>6, <2>7, <2>9, <2>10 DEF W
<1> QED BY <1>1, <1>2

\* The files of a window, moved, are those that begin at Starts of the data.
LEMMA WindowSet ==
  ASSUME NEW k \in Kinds \ Sized, SignaturesApart(k), NEW data \in Seq(Byte),
         NEW x \in Nat, NEW y \in x..Len(data)
  PROVE  {Moved(x, f) : f \in Range(Carve(k, Slice(data, x, y)))} = FilesAt(k, data, Starts(k, data, x, y))
<1> DEFINE W == Slice(data, x, y)
           SW == Starts(k, W, 0, y - x)
           S == Starts(k, data, x, y)
<1>0. /\ Len(data) \in Nat /\ y \in Nat /\ W \in Seq(Byte) /\ Len(W) = y - x
      /\ \A s \in S : s \in x..y - 1 /\ EndOf(k, data, s) # NotFound /\ EndOf(k, data, s) <= y /\ Headers[k] # {}
      /\ SW \subseteq 0..(y - x) - 1
  <2>1. Len(data) \in Nat /\ W \in Seq(Byte) /\ Len(W) = y - x
    BY LenProperties, SliceRight
  <2>2. \A s \in S : s \in x..y - 1 /\ EndOf(k, data, s) # NotFound /\ EndOf(k, data, s) <= y /\ Headers[k] # {}
    BY DEF Starts, FileStarts, HitAt
  <2>3. SW \subseteq 0..(y - x) - 1
    BY DEF Starts
  <2>4. y \in Nat
    BY <2>1
  <2> QED BY <2>1, <2>2, <2>3, <2>4
<1>1. Range(Carve(k, W)) = FilesAt(k, W, SW)
  <2> HIDE DEF W
  <2> QED BY <1>0, CarveSet
<1>2. \A i \in 0..(y - x) - 1 : i \in SW <=> x + i \in S
  BY WindowStarts
<1> HIDE DEF SW, S
<1>3. ASSUME NEW i \in 0..(y - x) - 1, x + i \in S
      PROVE  Moved(x, FileAt(k, W, i)) = FileAt(k, data, x + i)
  <2> DEFINE e == EndOf(k, data, x + i)
             w == EndOf(k, W, i)
  <2>1. i \in Nat /\ x + i \in Nat /\ e # NotFound /\ e <= y /\ Headers[k] # {}
    BY <1>0, <1>3
  <2>2. e \in Nat /\ x + i < e
    BY <2>1, EndBounds
  <2>3. w = e - x
    BY <2>1, WindowEnd
  <2> HIDE DEF e, w
  <2>4. i \in 0..y - x /\ w \in i..y - x /\ x + w = e
    BY <1>0, <2>1, <2>2, <2>3
  <2>5. Slice(W, i, w) = Slice(data, x + i, e)
    <3>1. Slice(Slice(data, x, y), i, w) = Slice(data, x + i, x + w)
      BY <2>4, SliceSlice
    <3> QED BY <2>4, <3>1
  <2>6. FileAt(k, W, i) = [kind |-> k, start |-> i, end |-> w, data |-> Slice(W, i, w)]
    BY DEF FileAt, w
  <2>7. FileAt(k, data, x + i) = [kind |-> k, start |-> x + i, end |-> e, data |-> Slice(data, x + i, e)]
    BY DEF FileAt, e
  <2>8. Moved(x, [kind |-> k, start |-> i, end |-> w, data |-> Slice(W, i, w)])
          = [kind |-> k, start |-> x + i, end |-> x + w, data |-> Slice(W, i, w)]
    <3> DEFINE d == Slice(W, i, w)
               f == [kind |-> k, start |-> i, end |-> w, data |-> d]
               g == [kind |-> k, start |-> x + i, end |-> w, data |-> d]
    <3> HIDE DEF d
    <3>1. f.start = i /\ f.end = w /\ g.end = w
      OBVIOUS
    <3>2. [f EXCEPT !.start = x + i] = g
      OBVIOUS
    <3>3. [g EXCEPT !.end = x + w] = [kind |-> k, start |-> x + i, end |-> x + w, data |-> d]
      OBVIOUS
    <3>4. Moved(x, f) = [[f EXCEPT !.start = x + f.start] EXCEPT !.end = x + f.end]
      BY DEF Moved
    <3> HIDE DEF f, g
    <3> QED BY <3>1, <3>2, <3>3, <3>4 DEF d, f
  <2> QED BY <2>4, <2>5, <2>6, <2>7, <2>8
<1>4. ASSUME NEW f \in Range(Carve(k, W)) PROVE Moved(x, f) \in FilesAt(k, data, S)
  <2>1. PICK i \in SW : f = FileAt(k, W, i)
    BY <1>1, <1>4 DEF FilesAt
  <2>2. i \in 0..(y - x) - 1 /\ x + i \in S
    BY <1>0, <1>2, <2>1
  <2>3. Moved(x, f) = FileAt(k, data, x + i)
    BY <1>3, <2>1, <2>2
  <2> QED BY <2>2, <2>3 DEF FilesAt
<1>5. ASSUME NEW g \in FilesAt(k, data, S) PROVE \E f \in Range(Carve(k, W)) : Moved(x, f) = g
  <2>1. PICK s \in S : g = FileAt(k, data, s)
    BY <1>5 DEF FilesAt
  <2>2. s - x \in 0..(y - x) - 1 /\ x + (s - x) = s
    BY <1>0, <2>1
  <2>3. s - x \in SW /\ Moved(x, FileAt(k, W, s - x)) = g
    BY <1>2, <1>3, <2>1, <2>2
  <2>4. FileAt(k, W, s - x) \in Range(Carve(k, W))
    BY <1>1, <2>3 DEF FilesAt
  <2> QED BY <2>3, <2>4
<1> QED BY <1>4, <1>5 DEF W, S
-----------------------------------------------------------------------------
(* What the test for a file already found keeps.                              *)

\* One more file at the end of a list.
LEMMA RangeAppend ==
  ASSUME NEW S, NEW s \in Seq(S), NEW e \in S
  PROVE  Range(Append(s, e)) = Range(s) \union {e}
<1> DEFINE n == Len(s)
           t == Append(s, e)
<1>1. /\ n \in Nat /\ DOMAIN s = 1..n /\ DOMAIN t = 1..(n + 1)
      /\ t[n + 1] = e /\ \A i \in 1..n : t[i] = s[i]
  BY AppendProperties, LenProperties
<1>2. 1..(n + 1) = (1..n) \union {n + 1}
  BY <1>1
<1> HIDE DEF n, t
<1> QED BY <1>1, <1>2 DEF Range, t

\* Of the files of a window, in order, those are kept that do not begin before
\* the end of the last file reported, and no other.
LEMMA KeepSet ==
  ASSUME image \in Seq(Byte), NEW a \in Nat, NEW b \in a..Len(image), NEW r \in Reports,
         NEW results \in Seq(CarvedFile(Slice(image, a, b))), Ascending(results)
  PROVE  /\ Range(KeepEach(a, r, results).files) =
              Range(r.files) \union {Moved(a, f) : f \in {g \in Range(results) : a + g.start >= r.end}}
         /\ \/ KeepEach(a, r, results).end = r.end
            \/ \E f \in Range(KeepEach(a, r, results).files) : f.end = KeepEach(a, r, results).end
<1> DEFINE n == Len(results)
           late(i) == {j \in 1..i : a + results[j].start >= r.end}
           M(j) == Moved(a, results[j])
<1>1. /\ n \in Nat /\ DOMAIN results = 1..n
      /\ \A i \in 1..n : /\ results[i] \in CarvedFile(Slice(image, a, b))
                         /\ M(i) \in CarvedFile(image)
                         /\ M(i).start = a + results[i].start /\ M(i).end = a + results[i].end
                         /\ results[i].start \in Nat /\ results[i].end \in Nat
                         /\ results[i].start < results[i].end
  <2>1. n \in Nat /\ DOMAIN results = 1..n
    BY LenProperties
  <2>2. ASSUME NEW i \in 1..n
        PROVE  /\ results[i] \in CarvedFile(Slice(image, a, b))
               /\ M(i) \in CarvedFile(image)
               /\ M(i).start = a + results[i].start /\ M(i).end = a + results[i].end
               /\ results[i].start \in Nat /\ results[i].end \in Nat
               /\ results[i].start < results[i].end
    <3>1. results[i] \in CarvedFile(Slice(image, a, b))
      BY ElementOfSeq
    <3> QED BY <3>1, MovedRight DEF CarvedFile
  <2> QED BY <2>1, <2>2
<1>2. PICK h : Recurs(h, n, Reports, r, KeepStep(a, results)) /\ KeepEach(a, r, results) = h[n]
  BY KeepUnfolds
<1>3. h \in [0..n -> Reports] /\ h[0] = r /\ \A i \in 1..n : h[i] = Keep(a, h[i - 1], results[i])
  <2>1. h \in [0..n -> Reports] /\ h[0] = r /\ \A i \in 1..n : h[i] = KeepStep(a, results)[<<i, h[i - 1]>>]
    BY <1>2 DEF Recurs
  <2>2. ASSUME NEW i \in 1..n PROVE KeepStep(a, results)[<<i, h[i - 1]>>] = Keep(a, h[i - 1], results[i])
    <3>1. n \in Nat /\ i \in 1..n
      BY <1>1
    <3>2. i - 1 \in 0..n
      BY <3>1
    <3>3. h[i - 1] \in Reports
      BY <2>1, <3>2
    <3> QED BY <3>3 DEF KeepStep
  <2> QED BY <2>1, <2>2
<1>4. \A v \in Reports : v.files \in Seq(CarvedFile(image)) /\ v.end \in Nat
  <2>1. Len(image) \in Nat
    BY LenProperties
  <2> QED BY <2>1 DEF Reports
<1>5. \A i \in 1..n, j \in 1..n : i < j => results[i].end <= results[j].start
  BY <1>1 DEF Ascending
<1> HIDE DEF n, M
<1> DEFINE Good(i) == /\ Range(h[i].files) = Range(r.files) \union {M(j) : j \in late(i)}
                      /\ h[i].end >= r.end
                      /\ h[i].end = r.end \/ \E j \in late(i) : h[i].end = M(j).end
           P == {i \in 0..n : Good(i)}
<1>6. 0 \in P
  <2>1. late(0) = {} /\ 0 \in 0..n
    BY <1>1
  <2>2. h[0].end >= r.end
    BY <1>3, <1>4
  <2> QED BY <1>3, <2>1, <2>2
<1>7. ASSUME NEW i \in 1..n, i - 1 \in P PROVE i \in P
  <2> DEFINE p == h[i - 1]
             f == results[i]
  <2>1. /\ p \in Reports /\ Good(i - 1) /\ i \in 0..n
    BY <1>1, <1>3, <1>7
  <2>2. h[i] = IF M(i).start < p.end THEN p
               ELSE [files |-> Append(p.files, M(i)), end |-> M(i).end]
    BY <1>3 DEF Keep, M, Moved
  <2>3. late(i) = late(i - 1) \union {j \in {i} : a + results[i].start >= r.end}
    <3>1. 1..i = (1..(i - 1)) \union {i}
      BY <1>1
    <3> QED BY <3>1
  <2>4. M(i).start < p.end <=> ~(a + results[i].start >= r.end)
    <3>1. p.end \in Nat /\ r.end \in Nat /\ p.end >= r.end /\ M(i).start = a + results[i].start
          /\ results[i].start \in Nat
      BY <1>1, <1>4, <2>1
    <3>2. CASE p.end = r.end
      <4> DEFINE u == a + results[i].start
                 w == M(i).start
                 e == r.end
      <4>1. w = u /\ u \in Nat /\ e \in Nat
        BY <3>1
      <4> HIDE DEF u, w, e
      <4>2. w < e <=> ~(u >= e)
        BY <4>1
      <4> QED BY <3>2, <4>2 DEF u, w, e
    <3>3. CASE p.end # r.end
      <4>1. PICK j \in late(i - 1) : p.end = M(j).end
        BY <2>1, <3>3
      <4>2. j \in 1..n /\ j < i /\ i \in 1..n
        BY <1>1, <4>1
      <4>3. results[j].end <= results[i].start /\ p.end = a + results[j].end /\ results[j].end \in Nat
        BY <1>1, <1>5, <4>1, <4>2
      <4> DEFINE u == results[i].start
                 v == results[j].end
                 q == p.end
                 w == M(i).start
                 e == r.end
      <4>4. v <= u /\ q = a + v /\ v \in Nat /\ u \in Nat /\ e \in Nat /\ q >= e /\ w = a + u
        BY <3>1, <4>3
      <4> HIDE DEF u, v, q, w, e
      <4>5. ~(w < q) /\ a + u >= e
        BY <4>4
      <4> QED BY <4>5 DEF u, q, w, e
    <3> QED BY <3>2, <3>3
  <2>5. CASE M(i).start < p.end
    <3>1. late(i) = late(i - 1)
      BY <2>3, <2>4, <2>5
    <3>2. h[i] = p
      BY <2>2, <2>5
    <3> HIDE DEF late
    <3> QED BY <2>1, <3>1, <3>2
  <2>6. CASE ~(M(i).start < p.end)
    <3>1. late(i) = late(i - 1) \union {i}
      BY <2>3, <2>4, <2>6
    <3>2. h[i].files = Append(p.files, M(i)) /\ h[i].end = M(i).end
      BY <2>2, <2>6
    <3>3. Range(h[i].files) = Range(p.files) \union {M(i)}
      BY <1>1, <1>4, <2>1, <3>2, RangeAppend
    <3>4. {M(j) : j \in late(i)} = {M(j) : j \in late(i - 1)} \union {M(i)}
      BY <3>1
    <3>5. M(i).end >= r.end
      <4>1. r.end \in Nat /\ a + results[i].start >= r.end /\ M(i).end = a + results[i].end
            /\ results[i].start \in Nat /\ results[i].end \in Nat /\ results[i].start < results[i].end
        BY <1>1, <1>4, <2>4, <2>6
      <4> DEFINE s == results[i].start
                 v == results[i].end
                 e == r.end
      <4>2. e \in Nat /\ s \in Nat /\ v \in Nat /\ s < v /\ a + s >= e
        BY <4>1
      <4> HIDE DEF s, v, e
      <4>3. a + v >= e
        BY <4>2
      <4> QED BY <4>1, <4>3 DEF s, v, e
    <3> HIDE DEF late, p
    <3>6. Range(h[i].files) = Range(r.files) \union {M(j) : j \in late(i)}
      BY <2>1, <3>3, <3>4 DEF p
    <3> QED BY <2>1, <3>1, <3>2, <3>5, <3>6
  <2> QED BY <2>5, <2>6
<1> HIDE DEF P
<1>8. n \in P
  <2>1. n \in Nat /\ n \in 0..n
    BY <1>1
  <2> QED BY <1>6, <1>7, <2>1, UpTo
<1>9. Good(n)
  BY <1>8 DEF P
<1> HIDE DEF Good
<1>10. {M(j) : j \in late(n)} = {Moved(a, f) : f \in {g \in Range(results) : a + g.start >= r.end}}
  BY <1>1 DEF M, Range
<1>11. \A j \in late(n) : M(j) \in {M(m) : m \in late(n)}
  OBVIOUS
<1> HIDE DEF late
<1>12. /\ Range(h[n].files) = Range(r.files) \union {M(j) : j \in late(n)}
       /\ h[n].end = r.end \/ \E j \in late(n) : h[n].end = M(j).end
  BY <1>9 DEF Good
<1>13. h[n].end = r.end \/ \E f \in Range(h[n].files) : f.end = h[n].end
  BY <1>11, <1>12
<1> QED BY <1>2, <1>10, <1>12, <1>13

\* Lists of files that ascend are equal when they list the same files.
LEMMA SameFiles ==
  ASSUME NEW data, NEW s \in Seq(CarvedFile(data)), NEW t \in Seq(CarvedFile(data)),
         Ascending(s), Ascending(t), Range(s) = Range(t), Len(data) \in Nat
  PROVE  s = t
<1> DEFINE m == Len(s)
           n == Len(t)
<1>1. /\ m \in Nat /\ n \in Nat /\ DOMAIN s = 1..m /\ DOMAIN t = 1..n
      /\ \A i \in 1..m : s[i].start \in Nat /\ s[i].end \in Nat /\ s[i].start < s[i].end
      /\ \A i \in 1..n : t[i].start \in Nat /\ t[i].end \in Nat /\ t[i].start < t[i].end
  <2>1. m \in Nat /\ n \in Nat /\ DOMAIN s = 1..m /\ DOMAIN t = 1..n
    BY LenProperties
  <2>2. \A i \in 1..m : s[i] \in CarvedFile(data)
    BY ElementOfSeq
  <2>3. \A i \in 1..n : t[i] \in CarvedFile(data)
    BY ElementOfSeq
  <2> QED BY <2>1, <2>2, <2>3 DEF CarvedFile
<1> HIDE DEF m, n
<1>2. \A i \in 1..m, j \in 1..m : i < j => s[i].end <= s[j].start
  BY <1>1 DEF Ascending
<1>3. \A i \in 1..n, j \in 1..n : i < j => t[i].end <= t[j].start
  BY <1>1 DEF Ascending
<1>4. /\ \A i \in 1..m : \E j \in 1..n : s[i] = t[j]
      /\ \A j \in 1..n : \E i \in 1..m : t[j] = s[i]
  BY <1>1 DEF Range
<1> DEFINE Same(i) == \A j \in 1..i : j \in 1..m /\ j \in 1..n /\ s[j] = t[j]
<1>5. ASSUME NEW i \in Nat, Same(i), NEW x \in 1..m, x > i
      PROVE  i + 1 \in 1..n /\ t[i + 1].start <= s[x].start
  <2>1. PICK y \in 1..n : s[x] = t[y]
    BY <1>4
  <2>2. ~(y \in 1..i)
    <3> SUFFICES ASSUME y \in 1..i PROVE FALSE
      OBVIOUS
    <3>1. y \in 1..m /\ s[y] = s[x] /\ y < x
      BY <1>1, <1>5, <2>1
    <3>2. s[y].end <= s[x].start
      BY <1>2, <3>1
    <3> QED BY <1>1, <3>1, <3>2
  <2>3. y > i /\ i + 1 \in 1..n
    BY <1>1, <2>1, <2>2
  <2>4. CASE y = i + 1
    BY <1>1, <2>1, <2>3, <2>4
  <2>5. CASE y # i + 1
    <3>1. i + 1 < y
      BY <1>1, <2>1, <2>3, <2>5
    <3>2. t[i + 1].end <= t[y].start
      BY <1>3, <2>3, <3>1
    <3> QED BY <1>1, <2>1, <2>3, <3>2
  <2> QED BY <2>3, <2>4, <2>5
<1>6. ASSUME NEW i \in Nat, Same(i), NEW y \in 1..n, y > i
      PROVE  i + 1 \in 1..m /\ s[i + 1].start <= t[y].start
  <2>1. PICK x \in 1..m : t[y] = s[x]
    BY <1>4
  <2>2. ~(x \in 1..i)
    <3> SUFFICES ASSUME x \in 1..i PROVE FALSE
      OBVIOUS
    <3>1. x \in 1..n /\ t[x] = t[y] /\ x < y
      BY <1>1, <1>6, <2>1
    <3>2. t[x].end <= t[y].start
      BY <1>3, <3>1
    <3> QED BY <1>1, <3>1, <3>2
  <2>3. x > i /\ i + 1 \in 1..m
    BY <1>1, <2>1, <2>2
  <2>4. CASE x = i + 1
    BY <1>1, <2>1, <2>3, <2>4
  <2>5. CASE x # i + 1
    <3>1. i + 1 < x
      BY <1>1, <2>1, <2>3, <2>5
    <3>2. s[i + 1].end <= s[x].start
      BY <1>2, <2>3, <3>1
    <3> QED BY <1>1, <2>1, <2>3, <3>2
  <2> QED BY <2>3, <2>4, <2>5
<1>7. ASSUME NEW i \in Nat, Same(i), i + 1 \in 1..m, i + 1 \in 1..n PROVE Same(i + 1)
  <2>1. PICK y \in 1..n : s[i + 1] = t[y]
    BY <1>4, <1>7
  <2>2. t[i + 1].start <= s[i + 1].start /\ s[i + 1].start <= t[i + 1].start
    <3>1. i + 1 > i
      OBVIOUS
    <3> HIDE DEF Same
    <3>2. t[i + 1].start <= s[i + 1].start
      BY <1>5, <1>7, <3>1
    <3>3. s[i + 1].start <= t[i + 1].start
      BY <1>6, <1>7, <3>1
    <3> QED BY <3>2, <3>3
  <2>3. s[i + 1].start = t[i + 1].start
    BY <1>1, <1>7, <2>2
  <2>4. y = i + 1
    <3>1. ~(y < i + 1)
      <4> SUFFICES ASSUME y < i + 1 PROVE FALSE
        OBVIOUS
      <4>1. t[y].end <= t[i + 1].start
        BY <1>3, <1>7
      <4> QED BY <1>1, <1>7, <2>1, <2>3, <4>1
    <3>2. ~(i + 1 < y)
      <4> SUFFICES ASSUME i + 1 < y PROVE FALSE
        OBVIOUS
      <4>1. t[i + 1].end <= t[y].start
        BY <1>3, <1>7
      <4> QED BY <1>1, <1>7, <2>1, <2>3, <4>1
    <3> QED BY <1>1, <3>1, <3>2
  <2>5. \A j \in 1..i + 1 : j \in 1..i \/ j = i + 1
    OBVIOUS
  <2> QED BY <1>7, <2>1, <2>4, <2>5
<1> DEFINE P == {i \in 0..m : Same(i)}
<1>8. m \in P
  <2>1. 0 \in P
    BY <1>1
  <2>2. ASSUME NEW i \in 1..m, i - 1 \in P PROVE i \in P
    <3>1. i - 1 \in Nat /\ (i - 1) + 1 = i /\ i > i - 1 /\ i \in 0..m
      BY <1>1
    <3>2. Same(i - 1)
      BY <2>2
    <3> HIDE DEF Same
    <3>3. i \in 1..n
      BY <1>5, <3>1, <3>2
    <3>4. Same(i)
      BY <1>7, <3>1, <3>2, <3>3
    <3> QED BY <3>1, <3>4
  <2>3. m \in 0..m
    BY <1>1
  <2> HIDE DEF P
  <2> QED BY <1>1, <2>1, <2>2, <2>3, UpTo
<1>9. Same(m)
  BY <1>8
<1>10. m = n
  <2>1. ~(n < m)
    <3> SUFFICES ASSUME n < m PROVE FALSE
      OBVIOUS
    <3>1. m \in 1..m
      BY <1>1
    <3> QED BY <1>1, <1>9, <3>1
  <2>2. ~(m < n)
    <3> SUFFICES ASSUME m < n PROVE FALSE
      OBVIOUS
    <3>1. n \in 1..n
      BY <1>1
    <3> HIDE DEF Same
    <3>2. m + 1 \in 1..m
      BY <1>1, <1>6, <1>9, <3>1
    <3> QED BY <1>1, <3>2
  <2> QED BY <1>1, <2>1, <2>2
<1>11. \A i \in 1..m : s[i] = t[i]
  BY <1>9
<1> QED BY <1>10, <1>11, SeqEqual DEF m, n
-----------------------------------------------------------------------------
(* The scan.                                                                  *)

\* The one carver, its ends, and its headers in the image.
TheCarver == carvers[1]
EndAt(s) == EndOf(TheCarver, image, s)
ImageStarts == Starts(TheCarver, image, 0, Len(image))

\* What a lone carver has reported when the cursor has come some way: nothing but
\* files that a header begins; every file of the image that ends before the
\* cursor and fits in the overlap and one byte; and, where the overlap suffices,
\* files of the image only.
BorderInv ==
  /\ buffer_base = IF file_cursor > overlap THEN file_cursor - overlap ELSE 0
  /\ \A g \in Range(all_results) :
        \E s \in Nat : /\ HitAt(image, Headers[TheCarver], s) /\ EndAt(s) # NotFound
                       /\ EndAt(s) <= file_cursor /\ g = FileAt(TheCarver, image, s)
  /\ \A s \in ImageStarts :
        EndAt(s) <= file_cursor /\ EndAt(s) - s <= overlap + 1 =>
            FileAt(TheCarver, image, s) \in Range(all_results)
  /\ OverlapSuffices => Range(all_results) \subseteq FilesAt(TheCarver, image, ImageStarts)
  /\ last_found_end = 0 \/ \E g \in Range(all_results) : g.end = last_found_end

\* The facts about a lone carver that every step below uses.
LEMMA LoneRight ==
  ASSUME ScanInv, LoneCarver
  PROVE  /\ TheCarver \in Kinds \ Sized /\ SignaturesApart(TheCarver) /\ image \in Seq(Byte)
         /\ \A data \in Seq(Byte) : WindowResults(data) = Carve(TheCarver, data)
<1>1. carvers \in Seq(Kinds) /\ Len(carvers) = 1 /\ TheCarver \notin Sized /\ SignaturesApart(TheCarver)
  BY DEF ScanInv, LoneCarver, TheCarver
<1>2. TheCarver \in Kinds /\ DOMAIN carvers = {1}
  <2>1. 1 \in 1..Len(carvers) /\ DOMAIN carvers = 1..Len(carvers) /\ 1..1 = {1}
    BY <1>1, LenProperties
  <2> QED BY <1>1, <2>1, ElementOfSeq DEF TheCarver
<1>3. ASSUME NEW data \in Seq(Byte) PROVE WindowResults(data) = Carve(TheCarver, data)
  <2> DEFINE lists == [i \in DOMAIN carvers |-> Carve(carvers[i], data)]
  <2>1. Carve(TheCarver, data) \in Seq(CarvedFile(data))
    BY <1>2, CarveRight
  <2>2. lists = [i \in 1..1 |-> Carve(TheCarver, data)]
    <3>1. DOMAIN carvers = 1..1
      BY <1>2
    <3>2. \A i \in 1..1 : carvers[i] = TheCarver
      BY DEF TheCarver
    <3> QED BY <3>1, <3>2
  <2>3. lists \in Seq(Seq(CarvedFile(data))) /\ Len(lists) = 1 /\ lists[1] = Carve(TheCarver, data)
    BY <2>1, <2>2
  <2> HIDE DEF lists
  <2>4. FlattenSeq(lists) = Carve(TheCarver, data)
    BY <2>3, FlattenOne
  <2> QED BY <2>4 DEF WindowResults, lists
<1> QED BY <1>1, <1>2, <1>3 DEF ScanInv

\* Starts of the image are headers of files inside it.
LEMMA StartRight ==
  ASSUME ScanInv, LoneCarver, NEW s \in ImageStarts
  PROVE  /\ s \in Nat /\ s < Len(image) /\ HitAt(image, Headers[TheCarver], s) /\ Headers[TheCarver] # {}
         /\ EndAt(s) # NotFound /\ EndAt(s) \in Nat /\ s < EndAt(s) /\ EndAt(s) <= Len(image)
         /\ EndAt(s) - s >= MinSize[TheCarver] /\ MinSize[TheCarver] \in Nat
         /\ \A t \in Nat : t < s /\ HitAt(image, Headers[TheCarver], t) /\ EndAt(t) # NotFound => EndAt(t) <= s
         /\ OverlapSuffices => EndAt(s) - s <= overlap + 1
<1> DEFINE k == TheCarver
<1>0. k \in Kinds \ Sized /\ SignaturesApart(k) /\ image \in Seq(Byte)
  BY LoneRight
<1>1. s \in 0..Len(image) - 1 /\ FileStarts(k, image, s, Len(image)) /\ Clear(k, image, 0, s)
  BY DEF ImageStarts, Starts
<1>2. /\ HitAt(image, Headers[k], s) /\ Headers[k] # {} /\ EndAt(s) # NotFound /\ EndAt(s) <= Len(image)
      /\ EndAt(s) - s >= MinSize[k]
  BY <1>1 DEF FileStarts, EndAt, HitAt
<1>3. Len(image) \in Nat /\ MinSize[k] \in Nat /\ Lookback[k] \in Nat /\ Len(Footer[k]) \in Nat \ {0}
  BY <1>0, Lengths
<1>4. s \in Nat /\ s < Len(image)
  BY <1>1, <1>3
<1>5. /\ EndAt(s) \in Nat /\ s < EndAt(s)
      /\ k \notin Unlimited => EndAt(s) - s <= Lookback[k] + Len(Footer[k])
  BY <1>0, <1>2, <1>4, EndBounds DEF EndAt
<1>6. ASSUME NEW t \in Nat, t < s, HitAt(image, Headers[k], t), EndAt(t) # NotFound PROVE EndAt(t) <= s
  <2>1. t \in 0..s - 1
    BY <1>4, <1>6
  <2> QED BY <1>1, <1>6, <2>1 DEF Clear, EndAt
<1>7. ASSUME OverlapSuffices PROVE EndAt(s) - s <= overlap + 1
  <2>1. k \notin Unlimited /\ overlap >= Lookback[k] + Len(Footer[k]) - 1 /\ overlap \in Nat
    BY <1>7 DEF OverlapSuffices, TheCarver, ScanInv
  <2> QED BY <1>3, <1>4, <1>5, <2>1
<1> QED BY <1>2, <1>3, <1>4, <1>5, <1>6, <1>7

\* The files an iteration adds.
Added(c) ==
  FilesAt(TheCarver, image, {s \in Starts(TheCarver, image, buffer_base, c) : s >= last_found_end})

\* With one carver a window adds to the report exactly the files of its headers that
\* start behind the last end.
LEMMA AddedRight ==
  ASSUME ScanInv, LoneCarver, NEW c \in file_cursor..Len(image)
  PROVE  /\ Range(FoundBy(c).files) = Range(all_results) \union Added(c)
         /\ \/ FoundBy(c).end = last_found_end
            \/ \E g \in Range(FoundBy(c).files) : g.end = FoundBy(c).end
<1> DEFINE k == TheCarver
           x == buffer_base
           results == Carve(k, Slice(image, x, c))
           S == Starts(k, image, x, c)
<1>0. /\ k \in Kinds \ Sized /\ SignaturesApart(k) /\ image \in Seq(Byte) /\ Report \in Reports
      /\ x \in Nat /\ c \in x..Len(image) /\ last_found_end \in Nat
  <2>1. Len(image) \in Nat /\ image \in Seq(Byte)
    BY LenProperties DEF ScanInv
  <2>2. Report \in Reports /\ last_found_end \in Nat
    BY <2>1 DEF ScanInv, Reports, Report
  <2>3. x \in Nat /\ c \in x..Len(image)
    BY <2>1 DEF ScanInv
  <2> QED BY <2>1, <2>2, <2>3, LoneRight
<1>1. Slice(image, x, c) \in Seq(Byte) /\ FoundBy(c) = KeepEach(x, Report, results)
  <2>1. Slice(image, x, c) \in Seq(Byte)
    BY <1>0, SliceRight
  <2> QED BY <2>1, LoneRight DEF FoundBy, Window
<1>2. results \in Seq(CarvedFile(Slice(image, x, c))) /\ Ascending(results)
  BY <1>0, <1>1, CarveRight
<1>3. {Moved(x, f) : f \in Range(results)} = FilesAt(k, image, S)
  BY <1>0, WindowSet
<1>4. \A f \in Range(results) : Moved(x, f).start = x + f.start
  <2>1. ASSUME NEW f \in Range(results) PROVE Moved(x, f).start = x + f.start
    <3>1. f \in CarvedFile(Slice(image, x, c))
      <4>1. PICK i \in 1..Len(results) : f = results[i]
        BY <1>2, <2>1, LenProperties DEF Range
      <4> QED BY <1>2, <4>1, ElementOfSeq
    <3> QED BY <1>0, <3>1, MovedRight
  <2> QED BY <2>1
<1>5. Report.files = all_results /\ Report.end = last_found_end
  BY DEF Report
<1> HIDE DEF results, k, x, S
<1>6. /\ Range(KeepEach(x, Report, results).files) =
            Range(Report.files) \union {Moved(x, f) : f \in {g \in Range(results) : x + g.start >= Report.end}}
      /\ \/ KeepEach(x, Report, results).end = Report.end
         \/ \E f \in Range(KeepEach(x, Report, results).files) : f.end = KeepEach(x, Report, results).end
  BY <1>0, <1>2, KeepSet
<1>7. {Moved(x, f) : f \in {g \in Range(results) : x + g.start >= last_found_end}} = Added(c)
  <2>1. Added(c) = {FileAt(k, image, s) : s \in {t \in S : t >= last_found_end}}
    BY DEF Added, FilesAt, k, x, S
  <2>2. \A s \in S : FileAt(k, image, s).start = s
    BY DEF FileAt
  <2>3. ASSUME NEW f \in Range(results), x + f.start >= last_found_end
        PROVE  \E s \in S : s >= last_found_end /\ Moved(x, f) = FileAt(k, image, s)
    <3>1. PICK s \in S : Moved(x, f) = FileAt(k, image, s)
      BY <1>3 DEF FilesAt
    <3>2. s = x + f.start
      BY <1>4, <2>2, <3>1
    <3> QED BY <2>3, <3>1, <3>2
  <2>4. ASSUME NEW s \in S, s >= last_found_end
        PROVE  \E f \in Range(results) : x + f.start >= last_found_end /\ Moved(x, f) = FileAt(k, image, s)
    <3>1. PICK f \in Range(results) : Moved(x, f) = FileAt(k, image, s)
      BY <1>3 DEF FilesAt
    <3>2. s = x + f.start
      BY <1>4, <2>2, <3>1
    <3> QED BY <2>4, <3>1, <3>2
  <2> QED BY <2>1, <2>3, <2>4
<1> QED BY <1>1, <1>5, <1>6, <1>7
\* A header of the image, its file, and the files around it.
LEMMA HeadRight ==
  ASSUME ScanInv, LoneCarver, NEW t \in Nat, HitAt(image, Headers[TheCarver], t), EndAt(t) # NotFound
  PROVE  /\ EndAt(t) \in Nat /\ t < EndAt(t) /\ EndAt(t) <= Len(image) /\ t < Len(image) /\ Len(image) \in Nat
         /\ OverlapSuffices => EndAt(t) - t <= overlap + 1
         /\ \A s \in Nat : t < s /\ s < EndAt(t) /\ HitAt(image, Headers[TheCarver], s) => EndAt(s) = EndAt(t)
<1> DEFINE k == TheCarver
<1>0. k \in Kinds \ Sized /\ SignaturesApart(k) /\ image \in Seq(Byte) /\ Headers[k] # {}
  BY LoneRight DEF HitAt
<1>1. Len(image) \in Nat /\ Lookback[k] \in Nat /\ Len(Footer[k]) \in Nat \ {0}
  BY <1>0, Lengths
<1>2. /\ EndAt(t) \in Nat /\ t < EndAt(t) /\ EndAt(t) <= Len(image)
      /\ k \notin Unlimited => EndAt(t) - t <= Lookback[k] + Len(Footer[k])
  BY <1>0, EndBounds DEF EndAt
<1>3. ASSUME OverlapSuffices PROVE EndAt(t) - t <= overlap + 1
  <2>1. k \notin Unlimited /\ overlap >= Lookback[k] + Len(Footer[k]) - 1 /\ overlap \in Nat
    BY <1>3 DEF OverlapSuffices, TheCarver, ScanInv
  <2> QED BY <1>1, <1>2, <2>1
<1>4. ASSUME NEW s \in Nat, t < s, s < EndAt(t), HitAt(image, Headers[k], s) PROVE EndAt(s) = EndAt(t)
  <2>1. EndAt(t) > s
    BY <1>2, <1>4
  <2> QED BY <1>0, <1>4, <2>1, SameEnd DEF EndAt
<1> QED BY <1>1, <1>2, <1>3, <1>4

\* Nothing reported ends behind last_found_end, which is zero or the end of a file.
LEMMA LastRight ==
  ASSUME ScanInv, BorderInv
  PROVE  /\ last_found_end \in Nat
         /\ \A s \in Nat : FileAt(TheCarver, image, s) \in Range(all_results) /\ EndAt(s) \in Nat
                             => EndAt(s) <= last_found_end
         /\ \/ last_found_end = 0
            \/ \E u \in Nat : /\ HitAt(image, Headers[TheCarver], u) /\ EndAt(u) # NotFound
                              /\ EndAt(u) <= file_cursor /\ last_found_end = EndAt(u)
<1>1. Report \in Reports
  BY DEF ScanInv, Report
<1>2. last_found_end \in 0..Len(image) /\ \A i \in DOMAIN all_results : all_results[i].end <= last_found_end
  BY <1>1 DEF Reports, Report
<1>3. \A s \in Nat : FileAt(TheCarver, image, s).end = EndAt(s)
  BY DEF FileAt, EndAt
<1>4. \A g \in Range(all_results) : g.end <= last_found_end
  BY <1>2 DEF Range
<1>5. ASSUME last_found_end # 0
      PROVE  \E u \in Nat : /\ HitAt(image, Headers[TheCarver], u) /\ EndAt(u) # NotFound
                            /\ EndAt(u) <= file_cursor /\ last_found_end = EndAt(u)
  <2>1. PICK g \in Range(all_results) : g.end = last_found_end
    BY <1>5 DEF BorderInv
  <2>2. PICK s \in Nat : /\ HitAt(image, Headers[TheCarver], s) /\ EndAt(s) # NotFound
                         /\ EndAt(s) <= file_cursor /\ g = FileAt(TheCarver, image, s)
    BY <2>1 DEF BorderInv
  <2> QED BY <1>3, <2>1, <2>2
<1>6. Len(image) \in Nat
  BY LenProperties DEF ScanInv
<1> QED BY <1>2, <1>3, <1>4, <1>5, <1>6

\* An iteration misses no file that it reads the end of and that fits.
LEMMA NoneMissed ==
  ASSUME ScanInv, LoneCarver, BorderInv, NEW c \in file_cursor..Len(image),
         NEW s \in ImageStarts, EndAt(s) <= c, EndAt(s) - s <= overlap + 1
  PROVE  FileAt(TheCarver, image, s) \in Range(all_results) \union Added(c)
<1> DEFINE k == TheCarver
<1>1. /\ s \in Nat /\ s < Len(image) /\ HitAt(image, Headers[k], s)
      /\ EndAt(s) # NotFound /\ EndAt(s) \in Nat /\ s < EndAt(s)
      /\ EndAt(s) - s >= MinSize[k]
      /\ \A t \in Nat : t < s /\ HitAt(image, Headers[k], t) /\ EndAt(t) # NotFound => EndAt(t) <= s
  BY StartRight
<1>2. /\ file_cursor \in Nat /\ overlap \in Nat /\ c \in Nat /\ buffer_base \in Nat
      /\ buffer_base = IF file_cursor > overlap THEN file_cursor - overlap ELSE 0
  <2>1. Len(image) \in Nat
    BY LenProperties DEF ScanInv
  <2>2. file_cursor \in Nat /\ overlap \in Nat /\ c \in Nat /\ buffer_base \in Nat
    BY <2>1 DEF ScanInv
  <2> QED BY <2>2 DEF BorderInv
<1>3. CASE EndAt(s) <= file_cursor
  BY <1>3 DEF BorderInv
<1>4. CASE EndAt(s) > file_cursor
  <2>1. s >= buffer_base /\ s \in buffer_base..c - 1
    BY <1>1, <1>2, <1>4
  <2>2. s >= last_found_end
    <3>1. CASE last_found_end = 0
      BY <1>1, <3>1
    <3>2. CASE last_found_end # 0
      <4>1. PICK u \in Nat : /\ HitAt(image, Headers[k], u) /\ EndAt(u) # NotFound
                             /\ EndAt(u) <= file_cursor /\ last_found_end = EndAt(u)
        BY <3>2, LastRight
      <4>2. EndAt(u) \in Nat /\ (u < s /\ s < EndAt(u) => EndAt(s) = EndAt(u))
            /\ (s < u /\ u < EndAt(s) => EndAt(u) = EndAt(s)) /\ u < EndAt(u)
        BY <1>1, <4>1, HeadRight
      <4>3. ~(s < u /\ u < EndAt(s))
        BY <1>1, <1>2, <1>4, <4>1, <4>2
      <4>4. u # s
        BY <1>1, <1>2, <1>4, <4>1, <4>2
      <4>5. ~(u < s /\ s < EndAt(u))
        BY <1>1, <1>2, <1>4, <4>1, <4>2
      <4>6. u < EndAt(s)
        BY <1>1, <1>2, <1>4, <4>1, <4>2
      <4> QED BY <1>1, <1>2, <4>1, <4>2, <4>3, <4>4, <4>5, <4>6
    <3> QED BY <3>1, <3>2
  <2>3. Clear(k, image, buffer_base, s)
    <3>1. \A t \in buffer_base..s - 1 : t \in Nat /\ t < s
      BY <1>1, <1>2
    <3> QED BY <1>1, <3>1 DEF Clear, EndAt
  <2>4. FileStarts(k, image, s, c)
    BY <1>1 DEF FileStarts, EndAt
  <2>5. s \in {t \in Starts(k, image, buffer_base, c) : t >= last_found_end}
    BY <2>1, <2>2, <2>3, <2>4 DEF Starts
  <2> QED BY <2>5 DEF Added, FilesAt
<1> QED BY <1>1, <1>2, <1>3, <1>4
\* Where the overlap suffices, an iteration adds files of the image only.
LEMMA NothingElse ==
  ASSUME ScanInv, LoneCarver, BorderInv, OverlapSuffices, NEW c \in file_cursor..Len(image),
         NEW s \in Starts(TheCarver, image, buffer_base, c), s >= last_found_end
  PROVE  s \in ImageStarts
<1> DEFINE k == TheCarver
           Heads(t) == HitAt(image, Headers[k], t) /\ EndAt(t) # NotFound
           Over == {t \in 0..s - 1 : Heads(t) /\ EndAt(t) > s}
<1>1. /\ s \in buffer_base..c - 1 /\ Heads(s) /\ EndAt(s) <= c /\ EndAt(s) - s >= MinSize[k]
      /\ \A t \in buffer_base..s - 1 : Heads(t) => EndAt(t) <= s
  BY DEF Starts, FileStarts, Clear, EndAt
<1>2. /\ file_cursor \in Nat /\ overlap \in Nat /\ c \in Nat /\ buffer_base \in Nat /\ Len(image) \in Nat
      /\ c <= Len(image) /\ buffer_base = IF file_cursor > overlap THEN file_cursor - overlap ELSE 0
      /\ MinSize[k] \in Nat
  <2>1. Len(image) \in Nat /\ MinSize[k] \in Nat
    BY LoneRight, Lengths
  <2>2. file_cursor \in Nat /\ overlap \in Nat /\ c \in Nat /\ buffer_base \in Nat /\ c <= Len(image)
    BY <2>1 DEF ScanInv
  <2> QED BY <2>1, <2>2 DEF BorderInv
<1>3. s \in Nat /\ s < c /\ s >= buffer_base
  BY <1>1, <1>2
<1>4. \A t \in Nat : Heads(t) => /\ EndAt(t) \in Nat /\ t < EndAt(t) /\ EndAt(t) <= Len(image)
                                 /\ EndAt(t) - t <= overlap + 1
  BY HeadRight
<1>5. ASSUME NEW t \in Nat, NEW u \in Nat, Heads(t), Heads(u), t < u, u < EndAt(t) PROVE EndAt(u) = EndAt(t)
  BY <1>5, HeadRight
<1>6. ASSUME NEW t \in Nat, t < Len(image), Heads(t), EndAt(t) - t >= MinSize[k],
             \A u \in 0..t - 1 : Heads(u) => EndAt(u) <= t
      PROVE  t \in ImageStarts
  <2>1. EndAt(t) <= Len(image)
    BY <1>4, <1>6
  <2>2. FileStarts(k, image, t, Len(image))
    BY <1>6, <2>1 DEF FileStarts, EndAt
  <2>3. Clear(k, image, 0, t)
    BY <1>6 DEF Clear, EndAt
  <2>4. t \in 0..Len(image) - 1
    BY <1>2, <1>6
  <2> QED BY <2>2, <2>3, <2>4 DEF ImageStarts, Starts
<1> HIDE DEF Heads
<1>7. ASSUME Over # {} PROVE FALSE
  <2>1. PICK t \in Over : \A u \in Over : t <= u
    <3>1. Over \in SUBSET Nat
      BY <1>3
    <3> HIDE DEF Over
    <3> QED BY <1>7, <3>1, LeastNatural
  <2>2. t \in Nat /\ t < s /\ Heads(t) /\ EndAt(t) > s
    BY <1>3, <2>1
  <2>3. t < buffer_base
    <3>1. ~(t \in buffer_base..s - 1)
      <4>1. EndAt(t) \in Nat
        BY <1>4, <2>2
      <4> QED BY <1>1, <1>3, <2>2, <4>1
    <3> QED BY <1>2, <1>3, <2>2, <3>1
  <2>4. EndAt(t) \in Nat /\ EndAt(t) - t <= overlap + 1 /\ EndAt(t) <= file_cursor /\ t < Len(image)
    <3>1. EndAt(t) \in Nat /\ EndAt(t) - t <= overlap + 1
      BY <1>4, <2>2
    <3> QED BY <1>2, <1>3, <2>2, <2>3, <3>1
  <2>5. EndAt(s) = EndAt(t)
    BY <1>1, <1>3, <1>5, <2>2, <2>4
  <2>6. EndAt(t) - t >= MinSize[k]
    BY <1>1, <1>2, <1>3, <2>2, <2>4, <2>5
  <2>7. ASSUME NEW u \in 0..t - 1, Heads(u) PROVE EndAt(u) <= t
    <3> SUFFICES ASSUME ~(EndAt(u) <= t) PROVE FALSE
      OBVIOUS
    <3>1. u \in Nat /\ u < t /\ EndAt(u) \in Nat
      <4>1. u \in Nat /\ u < t
        BY <2>2
      <4> QED BY <1>4, <2>7, <4>1
    <3>2. EndAt(u) = EndAt(t)
      <4>1. t < EndAt(u)
        BY <2>2, <3>1
      <4> QED BY <1>5, <2>2, <2>7, <3>1, <4>1
    <3>3. u \in 0..s - 1 /\ EndAt(u) > s
      BY <1>3, <2>2, <3>1, <3>2
    <3>4. u \in Over
      BY <2>7, <3>3
    <3> HIDE DEF Over
    <3>5. t <= u
      BY <2>1, <3>4
    <3> QED BY <2>2, <3>1, <3>5
  <2>8. t \in ImageStarts
    BY <1>6, <2>2, <2>4, <2>6, <2>7
  <2>9. FileAt(k, image, t) \in Range(all_results)
    BY <2>4, <2>8 DEF BorderInv
  <2>10. EndAt(t) <= last_found_end /\ last_found_end \in Nat
    BY <2>2, <2>4, <2>9, LastRight
  <2> QED BY <1>3, <2>2, <2>4, <2>10
<1>8. \A t \in 0..s - 1 : Heads(t) => EndAt(t) <= s
  <2> SUFFICES ASSUME NEW t \in 0..s - 1, Heads(t), ~(EndAt(t) <= s) PROVE FALSE
    OBVIOUS
  <2>1. t \in Nat /\ EndAt(t) \in Nat
    <3>1. t \in Nat
      BY <1>3
    <3> QED BY <1>4, <3>1
  <2>2. t \in Over
    BY <1>3, <2>1
  <2> QED BY <1>7, <2>2
<1>9. s < Len(image)
  BY <1>2, <1>3
<1> QED BY <1>1, <1>3, <1>6, <1>8, <1>9

\* An iteration keeps the invariant of a lone carver.
LEMMA BorderAbsorb ==
  ASSUME ScanInv, LoneCarver, BorderInv, NEW c \in file_cursor..Len(image),
         Absorb(Slice(image, file_cursor, c)), UNCHANGED config
  PROVE  BorderInv'
<1> DEFINE k == TheCarver
<1>1. image' = image /\ carvers' = carvers /\ overlap' = overlap
  BY DEF config
<1>2. /\ TheCarver' = k /\ ImageStarts' = ImageStarts /\ OverlapSuffices' = OverlapSuffices
      /\ \A s : (EndAt(s))' = EndAt(s)
  BY <1>1 DEF TheCarver, ImageStarts, OverlapSuffices, LoneCarver, EndAt
<1>3. /\ file_cursor' = c /\ all_results' = FoundBy(c).files /\ last_found_end' = FoundBy(c).end
      /\ buffer_base' = IF c - buffer_base > overlap THEN (IF c > overlap THEN c - overlap ELSE 0)
                        ELSE buffer_base
  BY AbsorbEffect
<1>4. /\ file_cursor \in Nat /\ overlap \in Nat /\ c \in Nat /\ buffer_base \in Nat /\ c >= file_cursor
      /\ buffer_base = IF file_cursor > overlap THEN file_cursor - overlap ELSE 0
  <2>1. Len(image) \in Nat
    BY LenProperties DEF ScanInv
  <2>2. file_cursor \in Nat /\ overlap \in Nat /\ c \in Nat /\ buffer_base \in Nat /\ c >= file_cursor
    BY <2>1 DEF ScanInv
  <2> QED BY <2>2 DEF BorderInv
<1>5. Range(all_results') = Range(all_results) \union Added(c)
  BY <1>3, AddedRight
<1>6. buffer_base' = IF c > overlap THEN c - overlap ELSE 0
  BY <1>3, <1>4
<1>7. ASSUME NEW g \in Range(all_results')
      PROVE  \E s \in Nat : /\ HitAt(image, Headers[k], s) /\ EndAt(s) # NotFound
                            /\ EndAt(s) <= c /\ g = FileAt(k, image, s)
  <2>1. CASE g \in Range(all_results)
    <3>1. PICK s \in Nat : /\ HitAt(image, Headers[k], s) /\ EndAt(s) # NotFound
                           /\ EndAt(s) <= file_cursor /\ g = FileAt(k, image, s)
      BY <2>1 DEF BorderInv
    <3>2. EndAt(s) \in Nat
      BY <3>1, HeadRight
    <3> QED BY <1>4, <3>1, <3>2
  <2>2. CASE g \in Added(c)
    <3>1. PICK s \in Starts(k, image, buffer_base, c) : g = FileAt(k, image, s)
      BY <2>2 DEF Added, FilesAt
    <3>2. s \in buffer_base..c - 1 /\ HitAt(image, Headers[k], s) /\ EndAt(s) # NotFound /\ EndAt(s) <= c
      BY DEF Starts, FileStarts, EndAt
    <3>3. s \in Nat
      BY <1>4, <3>2
    <3> QED BY <3>1, <3>2, <3>3
  <2> QED BY <1>5, <2>1, <2>2
<1>8. ASSUME NEW s \in ImageStarts, EndAt(s) <= c, EndAt(s) - s <= overlap + 1
      PROVE  FileAt(k, image, s) \in Range(all_results')
  BY <1>5, <1>8, NoneMissed
<1>9. ASSUME OverlapSuffices PROVE Range(all_results') \subseteq FilesAt(k, image, ImageStarts)
  <2>1. Range(all_results) \subseteq FilesAt(k, image, ImageStarts)
    BY <1>9 DEF BorderInv
  <2>2. Added(c) \subseteq FilesAt(k, image, ImageStarts)
    BY <1>9, NothingElse DEF Added, FilesAt
  <2> QED BY <1>5, <2>1, <2>2
<1>10. last_found_end' = 0 \/ \E g \in Range(all_results') : g.end = last_found_end'
  <2>1. CASE FoundBy(c).end = last_found_end
    <3>1. CASE last_found_end = 0
      BY <1>3, <2>1, <3>1
    <3>2. CASE last_found_end # 0
      <4>1. PICK g \in Range(all_results) : g.end = last_found_end
        BY <3>2 DEF BorderInv
      <4> QED BY <1>3, <1>5, <2>1, <4>1
    <3> QED BY <3>1, <3>2
  <2>2. CASE \E g \in Range(FoundBy(c).files) : g.end = FoundBy(c).end
    BY <1>3, <2>2
  <2> QED BY <2>1, <2>2, AddedRight
<1> HIDE DEF k
<1> QED BY <1>1, <1>2, <1>3, <1>6, <1>7, <1>8, <1>9, <1>10 DEF BorderInv
\* Nothing is read and nothing found: the state a scan starts from, and starts
\* again from when a mapping does not fit the file.
AtStart ==
  buffer_base = 0 /\ file_cursor = 0 /\ all_results = <<>> /\ last_found_end = 0

\* That state has the invariant of a lone carver.
LEMMA BorderStart == ScanInv /\ LoneCarver /\ AtStart => BorderInv
<1> SUFFICES ASSUME ScanInv, LoneCarver, AtStart PROVE BorderInv
  OBVIOUS
<1>1. buffer_base = 0 /\ file_cursor = 0 /\ Range(all_results) = {} /\ last_found_end = 0
  BY DEF AtStart, Range
<1>2. overlap \in Nat
  BY DEF ScanInv
<1>3. ASSUME NEW s \in ImageStarts PROVE ~(EndAt(s) <= 0)
  <2>1. s \in Nat /\ EndAt(s) \in Nat /\ s < EndAt(s)
    BY StartRight
  <2> QED BY <2>1
<1> QED BY <1>1, <1>2, <1>3 DEF BorderInv

\* The invariant of the whole scan: that of a lone carver, and that a scan that
\* is done has read all bytes there are.
LoneInv ==
  /\ LoneCarver => BorderInv
  /\ mode = "done" => file_cursor = Len(image)

\* Every step keeps it.
LEMMA LoneNext == ScanInv /\ LoneInv /\ [ScanNext]_scanVars => LoneInv'
<1>0. (ScanInv /\ LoneCarver /\ AtStart => BorderInv)'
  BY BorderStart, PTL
<1>00. ScanInv /\ [ScanNext]_scanVars => ScanInv'
  BY ScanNextInv
<1> SUFFICES ASSUME ScanInv, LoneInv, [ScanNext]_scanVars PROVE LoneInv'
  OBVIOUS
<1>1. /\ Len(image) \in Nat /\ file_cursor \in 0..Len(image) /\ size \in Nat /\ size >= Len(image)
      /\ chunk_size \in Nat \ {0} /\ image \in Seq(Byte)
  BY LenProperties DEF ScanInv
<1> DEFINE c == Least(file_cursor + ToRead, Len(image))
<1>2. ASSUME file_cursor < size
      PROVE  /\ c \in file_cursor..Len(image) /\ ReadAt(file_cursor, ToRead) = Slice(image, file_cursor, c)
             /\ c = file_cursor => file_cursor = Len(image)
  BY <1>1, <1>2 DEF Least, ToRead, ReadAt
<1> HIDE DEF c
<1>3. UNCHANGED config => LoneCarver' = LoneCarver
  BY DEF config, LoneCarver
<1>4. ASSUME file_cursor < size, Absorb(ReadAt(file_cursor, ToRead)), UNCHANGED <<config, mode>>, mode # "done"
      PROVE  LoneInv'
  <2>1. c \in file_cursor..Len(image) /\ Absorb(Slice(image, file_cursor, c))
    BY <1>2, <1>4
  <2>2. LoneCarver => BorderInv'
    <3>1. UNCHANGED config
      BY <1>4
    <3> QED BY <2>1, <3>1, BorderAbsorb DEF LoneInv
  <2> QED BY <1>3, <1>4, <2>2 DEF LoneInv
<1>5. ASSUME UNCHANGED <<config, window>>, mode' = "done" => file_cursor = Len(image) PROVE LoneInv'
  <2>1. LoneCarver' = LoneCarver /\ image' = image /\ file_cursor' = file_cursor
    BY <1>3, <1>5 DEF config, window
  <2>2. BorderInv' = BorderInv
    BY <1>5 DEF BorderInv, config, window, TheCarver, ImageStarts, OverlapSuffices, LoneCarver, EndAt
  <2> QED BY <1>5, <2>1, <2>2 DEF LoneInv
<1>6. CASE StreamChunk
  BY <1>4, <1>6 DEF StreamChunk
<1>7. CASE MapChunk
  BY <1>4, <1>7 DEF MapChunk
<1>8. CASE MapRetry
  BY <1>4, <1>8 DEF MapRetry
<1>9. CASE StreamEnd
  <2>1. CASE file_cursor >= size
    BY <1>1, <1>5, <1>9, <2>1 DEF StreamEnd
  <2>2. CASE ~(file_cursor >= size)
    <3>1. file_cursor < size /\ ReadAt(file_cursor, ToRead) = <<>>
      BY <1>1, <1>9, <2>2 DEF StreamEnd
    <3>2. file_cursor \in Nat /\ c \in file_cursor..Len(image) /\ Slice(image, file_cursor, c) = <<>>
      BY <1>1, <1>2, <3>1
    <3>3. c - file_cursor = 0
      BY <1>1, <3>2, SliceRight
    <3>4. c = file_cursor
      BY <1>1, <3>2, <3>3
    <3> QED BY <1>2, <1>5, <1>9, <3>1, <3>4 DEF StreamEnd
  <2> QED BY <2>1, <2>2
<1>10. CASE MapEnd
  BY <1>1, <1>5, <1>10 DEF MapEnd
<1>11. CASE UNCHANGED scanVars
  BY <1>5, <1>11 DEF scanVars, LoneInv
<1>12. CASE MapFallback
  <2>1. UNCHANGED config /\ mode' = "streaming" /\ AtStart'
    BY <1>12 DEF MapFallback, AtStart
  <2>2. ScanInv'
    BY <1>00
  <2>3. LoneCarver' => BorderInv'
    BY <1>0, <2>1, <2>2
  <2> QED BY <2>1, <2>3 DEF LoneInv
<1> QED BY <1>6, <1>7, <1>8, <1>9, <1>10, <1>11, <1>12 DEF ScanNext

\* At the end it says that chunk borders hide nothing.
LEMMA BordersRight == ScanInv /\ LoneInv => BordersHideNothing
<1> SUFFICES ASSUME ScanInv, LoneInv, mode = "done", LoneCarver
             PROVE  /\ \A f \in InMemory(carvers[1]) :
                          f.end - f.start <= overlap + 1 => f \in Range(all_results)
                    /\ OverlapSuffices => all_results = Carve(carvers[1], image)
  BY DEF BordersHideNothing, SpanningFound, SameWithOverlap, OverlapSuffices
<1> DEFINE k == TheCarver
<1>1. k = carvers[1] /\ k \in Kinds \ Sized /\ SignaturesApart(k) /\ image \in Seq(Byte)
  BY LoneRight DEF TheCarver
<1>2. Range(Carve(k, image)) = FilesAt(k, image, ImageStarts)
  BY <1>1, CarveSet DEF ImageStarts
<1>3. BorderInv /\ file_cursor = Len(image)
  BY DEF LoneInv
<1>4. \A s \in ImageStarts : EndAt(s) - s <= overlap + 1 => FileAt(k, image, s) \in Range(all_results)
  BY <1>3, StartRight DEF BorderInv
<1>5. \A s : FileAt(k, image, s).end = EndAt(s) /\ FileAt(k, image, s).start = s
  BY DEF FileAt, EndAt
<1>6. ASSUME NEW f \in InMemory(carvers[1]), f.end - f.start <= overlap + 1 PROVE f \in Range(all_results)
  <2>1. PICK s \in ImageStarts : f = FileAt(k, image, s)
    BY <1>1, <1>2 DEF InMemory, FilesAt
  <2> QED BY <1>4, <1>5, <1>6, <2>1
<1>7. ASSUME OverlapSuffices PROVE all_results = Carve(carvers[1], image)
  <2>1. Range(all_results) = Range(Carve(k, image))
    <3>1. \A s \in ImageStarts : FileAt(k, image, s) \in Range(all_results)
      BY <1>4, <1>7, StartRight
    <3>2. Range(all_results) \subseteq FilesAt(k, image, ImageStarts)
      BY <1>3, <1>7 DEF BorderInv
    <3> QED BY <1>2, <3>1, <3>2 DEF FilesAt
  <2>2. Report \in Reports /\ Report.files = all_results
    BY DEF ScanInv, Report
  <2>3. all_results \in Seq(CarvedFile(image)) /\ Ascending(all_results)
    BY <2>2 DEF Reports
  <2>4. Carve(k, image) \in Seq(CarvedFile(image)) /\ Ascending(Carve(k, image)) /\ Len(image) \in Nat
    BY <1>1, CarveRight, LenProperties
  <2> QED BY <1>1, <2>1, <2>3, <2>4, SameFiles
<1> QED BY <1>6, <1>7

\* A lone carver whose headers and footers share no bytes finds every file of the
\* source that fits in the overlap and one byte, wherever the chunks end, and
\* with an overlap as long as its files can be it reports what it finds in the
\* whole source at once (StreamingScanner.scan and MmapScanner.scan against
\* carve() on the whole data).
THEOREM StreamingBorders ==
  (\A s \in Setups : s.overlap # 0) => (ScanSpec => []BordersHideNothing)
<1> SUFFICES ASSUME \A s \in Setups : s.overlap # 0 PROVE ScanSpec => []BordersHideNothing
  OBVIOUS
<1>1. ScanInit => ScanInv
  BY ScanInitInv
<1>2. ScanInit => LoneInv
  <2> SUFFICES ASSUME ScanInit PROVE LoneInv
    OBVIOUS
  <2>1. AtStart /\ mode # "done"
    BY ScannerAssumption DEF ScanInit, AtStart
  <2> QED BY <1>1, <2>1, BorderStart DEF LoneInv
<1> QED BY <1>1, <1>2, ScanNextInv, LoneNext, BordersRight, PTL DEF ScanSpec
=============================================================================
